--------------------------- MODULE InductionLemmas --------------------------
(***************************************************************************)
(* Least and greatest elements of sets of naturals, induction over a set   *)
(* of naturals, and the function a fold is made of: what the proofs about  *)
(* loops rest on.  The library's own induction theorems take an operator   *)
(* as a parameter; these speak of sets and functions instead.  The first   *)
(* proof goes through the well-foundedness of strict set inclusion on      *)
(* finite sets, applied to the intervals 0 .. n.                           *)
(***************************************************************************)
EXTENDS Integers, FiniteSets, FiniteSetsExt, Functions, FiniteSetTheorems,
        WellFoundedInduction, TLAPS

(* A non-empty set of naturals has a least element: the part the delivery  *)
(* loop is at (digest_delivery.py:129) is well defined.                    *)
LEMMA LeastNatural ==
  ASSUME NEW T, T \subseteq Nat, T # {}
  PROVE  \E x \in T : \A y \in T : x <= y
<1>. DEFINE U == {0 .. n : n \in T}
<1>1. U \subseteq FiniteSubsetsOf(Nat) /\ U # {}
  <2>1. ASSUME NEW n \in T PROVE (0 .. n) \in FiniteSubsetsOf(Nat)
    <3>1. n \in Int /\ 0 \in Int OBVIOUS
    <3>2. IsFiniteSet(0 .. n) BY <3>1, FS_Interval
    <3>. QED BY <3>2 DEF FiniteSubsetsOf
  <2>. QED BY <2>1
<1>2. \E X \in U : \A Y \in U : ~ (<<Y, X>> \in StrictSubsetOrdering(Nat))
  <2>. HIDE DEF U
  <2>. QED BY <1>1, FS_StrictSubsetOrderingWellFounded, WFMin
<1>3. PICK x \in T : \A y \in T : ~ (<<0 .. y, 0 .. x>> \in StrictSubsetOrdering(Nat))
  BY <1>2
<1>4. ASSUME NEW y \in T, ~ (x <= y) PROVE FALSE
  <2>1. x \in Nat /\ y \in Nat /\ y < x BY <1>4
  <2>2. (0 .. y) \subseteq (0 .. x) /\ x \in 0 .. x /\ x \notin 0 .. y BY <2>1
  <2>3. (0 .. x) \subseteq Nat /\ (0 .. y) \subseteq Nat BY <2>1
  <2>4. <<0 .. y, 0 .. x>> \in StrictSubsetOrdering(Nat)
    BY <2>2, <2>3 DEF StrictSubsetOrdering
  <2>. QED BY <2>4, <1>3
<1>. QED BY <1>4

(* A bounded non-empty set of naturals has a greatest element: the highest *)
(* attempt number of a part (digest_delivery.py:122-126) is well defined.  *)
LEMMA GreatestNatural ==
  ASSUME NEW S, S \subseteq Nat, S # {}, NEW b \in Nat, \A s \in S : s <= b
  PROVE  \E x \in S : \A y \in S : y <= x
<1>. DEFINE T == {n \in Nat : \A s \in S : s <= n}
<1>1. PICK x \in T : \A y \in T : x <= y
  <2>1. b \in T OBVIOUS
  <2>. QED BY <2>1, LeastNatural
<1>2. x \in S
  <2>1. CASE x = 0
    <3>1. PICK s \in S : s <= 0 BY <1>1, <2>1
    <3>. QED BY <3>1, <2>1
  <2>2. CASE x # 0
    <3>1. x - 1 \in Nat /\ ~ (x <= x - 1) BY <2>2
    <3>2. PICK s \in S : ~ (s <= x - 1) BY <1>1, <3>1
    <3>3. s <= x /\ s \in Nat BY <1>1
    <3>. QED BY <3>1, <3>2, <3>3
  <2>. QED BY <2>1, <2>2
<1>. QED BY <1>1, <1>2

(* Induction: a set with 0 and, with a number, the next one has them all.  *)
LEMMA SetInduction ==
  ASSUME NEW S, 0 \in S, \A n \in Nat : n \in S => n + 1 \in S
  PROVE  Nat \subseteq S
<1>. SUFFICES ASSUME NEW m \in Nat, m \notin S PROVE FALSE
  OBVIOUS
<1>. DEFINE T == {n \in Nat : n \notin S}
<1>1. PICK x \in T : \A y \in T : x <= y
  <2>1. T \subseteq Nat /\ m \in T OBVIOUS
  <2>. HIDE DEF T
  <2>. QED BY <2>1, LeastNatural
<1>2. x \in Nat /\ x # 0 OBVIOUS
<1>3. x - 1 \in Nat /\ x - 1 \notin T BY <1>1, <1>2
<1>4. (x - 1) + 1 \in S BY <1>3
<1>. QED BY <1>2, <1>4

(* Induction up to a bound.                                                *)
LEMMA IntervalInduction ==
  ASSUME NEW S, NEW k \in Nat, 0 \in S, \A n \in 0 .. k - 1 : n \in S => n + 1 \in S
  PROVE  0 .. k \subseteq S
<1>. DEFINE T == {n \in Nat : n <= k => n \in S}
<1>1. 0 \in T /\ \A n \in Nat : n \in T => n + 1 \in T OBVIOUS
<1>2. Nat \subseteq T
  <2>. HIDE DEF T
  <2>. QED BY <1>1, SetInduction
<1>. QED BY <1>2

(* The order in which FoldLeft takes the positions of a sequence.          *)
LEMMA MaxOfInterval ==
  ASSUME NEW n \in Nat
  PROVE  /\ \A s \in SUBSET (1 .. n) : s # {} => Max(s) \in s /\ \A x \in s : x <= Max(s)
         /\ n # 0 => Max(1 .. n) = n
<1>1. ASSUME NEW s \in SUBSET (1 .. n), s # {}
      PROVE  Max(s) \in s /\ \A x \in s : x <= Max(s)
  <2>1. s \subseteq Nat /\ \A m \in s : m <= n OBVIOUS
  <2>2. \E x \in s : \A y \in s : y <= x BY <1>1, <2>1, GreatestNatural
  <2>3. \E x \in s : \A y \in s : x >= y BY <2>1, <2>2
  <2>4. Max(s) \in s /\ \A x \in s : Max(s) >= x BY <2>3 DEF Max
  <2>. QED BY <2>1, <2>4
<1>2. ASSUME n # 0 PROVE Max(1 .. n) = n
  <2>1. n \in 1 .. n /\ \A y \in 1 .. n : n >= y BY <1>2
  <2>2. \A x \in 1 .. n : x >= n => x = n OBVIOUS
  <2>. QED BY <2>1, <2>2 DEF Max
<1>. QED BY <1>1, <1>2

(* An image of a finite set under a map that tells its elements apart has  *)
(* as many elements as the set.                                            *)
LEMMA InjectionSize ==
  ASSUME NEW S, IsFiniteSet(S), NEW f, \A x, y \in S : f[x] = f[y] => x = y
  PROVE  /\ IsFiniteSet({f[x] : x \in S})
         /\ Cardinality({f[x] : x \in S}) = Cardinality(S)
<1>. DEFINE T == {f[x] : x \in S}
            g == [x \in S |-> f[x]]
<1>1. g \in Surjection(S, T) BY DEF Surjection
<1>2. g \in Injection(S, T) BY DEF Injection, IsInjective
<1>. QED BY <1>1, <1>2, FS_Surjection

(* A part of a finite set is smaller, unless it is the whole.              *)
LEMMA SubsetSize ==
  ASSUME NEW T, IsFiniteSet(T), NEW S, S \subseteq T
  PROVE  /\ IsFiniteSet(S) /\ Cardinality(S) \in Nat /\ Cardinality(T) \in Nat
         /\ Cardinality(S) <= Cardinality(T)
         /\ S # T => Cardinality(S) < Cardinality(T)
<1>1. IsFiniteSet(S) /\ Cardinality(S) <= Cardinality(T)
        /\ (Cardinality(S) = Cardinality(T) => S = T)
  BY FS_Subset
<1>2. Cardinality(S) \in Nat /\ Cardinality(T) \in Nat BY <1>1, FS_CardinalityType
<1>. QED BY <1>1, <1>2

(* c picks an element of every non-empty subset of D.                      *)
Picks(c, D) == \A s \in SUBSET D : s # {} => c[s] \in s

(* The function MapThenFoldSet is made of: it takes the elements of a set  *)
(* one by one, in the order of c, and G[x] is what x does to the value so  *)
(* far.                                                                    *)
IsFold(g, D, V, base, c, G) ==
  /\ g \in [SUBSET D -> V]
  /\ \A s \in SUBSET D : g[s] = IF s = {} THEN base ELSE G[c[s]][g[s \ {c[s]}]]

(* There is such a function.                                               *)
LEMMA FoldExists ==
  ASSUME NEW D, IsFiniteSet(D), NEW V, NEW base \in V, NEW G \in [D -> [V -> V]],
         NEW c, Picks(c, D)
  PROVE  \E g : IsFold(g, D, V, base, c, G)
<1>. DEFINE Below(k) == {s \in SUBSET D : Cardinality(s) <= k}
            Next(g)  == [s \in SUBSET D |->
                           IF s = {} THEN base ELSE G[c[s]][g[s \ {c[s]}]]]
            P == {k \in Nat : \E g \in [SUBSET D -> V] :
                                \A s \in Below(k) : g[s] = Next(g)[s]}
<1>0. ASSUME NEW s \in SUBSET D
      PROVE  Cardinality(s) \in Nat /\ (Cardinality(s) = 0 => s = {})
  <2>1. IsFiniteSet(s) BY FS_Subset
  <2>. QED BY <2>1, FS_CardinalityType, FS_EmptySet
<1>1. ASSUME NEW s \in SUBSET D, s # {}
      PROVE  /\ c[s] \in D /\ s \ {c[s]} \in SUBSET D
             /\ Cardinality(s \ {c[s]}) = Cardinality(s) - 1
  <2>1. IsFiniteSet(s) BY FS_Subset
  <2>2. c[s] \in s BY <1>1 DEF Picks
  <2>. QED BY <2>1, <2>2, FS_RemoveElement
<1>2. 0 \in P
  <2>. DEFINE g == [s \in SUBSET D |-> base]
  <2>1. g \in [SUBSET D -> V] OBVIOUS
  <2>2. ASSUME NEW s \in Below(0) PROVE g[s] = Next(g)[s]
    <3>0. s \in SUBSET D /\ Cardinality(s) <= 0 OBVIOUS
    <3>. HIDE DEF Below
    <3>1. s = {} BY <1>0, <3>0
    <3>. QED BY <3>1
  <2>. QED BY <2>1, <2>2
<1>3. ASSUME NEW k \in Nat, k \in P PROVE k + 1 \in P
  <2>1. PICK g \in [SUBSET D -> V] : \A s \in Below(k) : g[s] = Next(g)[s] BY <1>3
  <2>2. Next(g) \in [SUBSET D -> V]
    <3>1. ASSUME NEW s \in SUBSET D, s # {} PROVE G[c[s]][g[s \ {c[s]}]] \in V
      <4>1. c[s] \in D /\ s \ {c[s]} \in SUBSET D BY <1>1, <3>1
      <4>2. g[s \ {c[s]}] \in V BY <4>1
      <4>. QED BY <4>1, <4>2
    <3>. QED BY <3>1
  <2>3. ASSUME NEW s \in Below(k + 1) PROVE Next(g)[s] = Next(Next(g))[s]
    <3>1. CASE s = {} BY <3>1
    <3>2. CASE s # {}
      <4>0. s \in SUBSET D /\ Cardinality(s) <= k + 1 OBVIOUS
      <4>1. s \ {c[s]} \in SUBSET D /\ Cardinality(s \ {c[s]}) <= k
        <5>. HIDE DEF Below, Next
        <5>1. Cardinality(s) \in Nat BY <1>0, <4>0
        <5>2. /\ s \ {c[s]} \in SUBSET D
              /\ Cardinality(s \ {c[s]}) = Cardinality(s) - 1
          BY <1>1, <3>2, <4>0
        <5>. QED BY <4>0, <5>1, <5>2
      <4>2. g[s \ {c[s]}] = Next(g)[s \ {c[s]}]
        <5>1. s \ {c[s]} \in Below(k) BY <4>1
        <5>. HIDE DEF Next, Below
        <5>. QED BY <2>1, <5>1
      <4>3. Next(g)[s] = G[c[s]][g[s \ {c[s]}]] BY <3>2
      <4>. DEFINE h == Next(g)
      <4>4. Next(h)[s] = G[c[s]][h[s \ {c[s]}]]
        <5>. HIDE DEF h
        <5>. QED BY <3>2
      <4>. HIDE DEF Next
      <4>. QED BY <4>2, <4>3, <4>4
    <3>. QED BY <3>1, <3>2
  <2>4. \E h \in [SUBSET D -> V] : \A s \in Below(k + 1) : h[s] = Next(h)[s]
    <3>. HIDE DEF Next, Below
    <3>. QED BY <2>2, <2>3
  <2>. HIDE DEF Next, Below
  <2>. QED BY <2>4
<1>4. Cardinality(D) \in P
  <2>1. Nat \subseteq P
    <3>. HIDE DEF P
    <3>. QED BY <1>2, <1>3, SetInduction
  <2>. QED BY <2>1, FS_CardinalityType
<1>5. PICK g \in [SUBSET D -> V] : \A s \in Below(Cardinality(D)) : g[s] = Next(g)[s]
  BY <1>4
<1>6. ASSUME NEW s \in SUBSET D PROVE s \in Below(Cardinality(D))
  BY FS_Subset
<1>7. ASSUME NEW s \in SUBSET D
      PROVE  g[s] = IF s = {} THEN base ELSE G[c[s]][g[s \ {c[s]}]]
  <2>1. g[s] = Next(g)[s] BY <1>5, <1>6
  <2>. QED BY <2>1
<1>. QED BY <1>7 DEF IsFold

-----------------------------------------------------------------------------
(* g[s] is the sum of f over s, whatever the order of adding.              *)
IsSum(g, D, f) ==
  /\ g \in [SUBSET D -> Nat] /\ g[{}] = 0
  /\ \A s \in SUBSET D : \A x \in s : g[s] = g[s \ {x}] + f[x]

(* A property of finite sets that passes from smaller to larger ones.      *)
LEMMA SizeInduction ==
  ASSUME NEW D, IsFiniteSet(D), NEW Q,
         \A s \in SUBSET D : (\A x \in s : s \ {x} \in Q) => s \in Q
  PROVE  SUBSET D \subseteq Q
<1>. DEFINE P == {k \in Nat : \A s \in SUBSET D : Cardinality(s) <= k => s \in Q}
<1>0. ASSUME NEW s \in SUBSET D
      PROVE  /\ Cardinality(s) \in Nat
             /\ \A x \in s : s \ {x} \in SUBSET D /\ Cardinality(s \ {x}) = Cardinality(s) - 1
             /\ Cardinality(s) = 0 => s = {}
  <2>1. IsFiniteSet(s) BY FS_Subset
  <2>. QED BY <2>1, FS_CardinalityType, FS_EmptySet, FS_RemoveElement
<1>1. 0 \in P
  <2>1. ASSUME NEW s \in SUBSET D, Cardinality(s) <= 0 PROVE s \in Q
    <3>1. s = {} BY <1>0, <2>1
    <3>. QED BY <3>1
  <2>. QED BY <2>1
<1>2. ASSUME NEW k \in Nat, k \in P PROVE k + 1 \in P
  <2>1. ASSUME NEW s \in SUBSET D, Cardinality(s) <= k + 1 PROVE s \in Q
    <3>1. \A x \in s : s \ {x} \in SUBSET D /\ Cardinality(s \ {x}) <= k
      BY <1>0, <2>1
    <3>2. \A x \in s : s \ {x} \in Q BY <1>2, <3>1
    <3>. QED BY <3>2
  <2>. QED BY <2>1
<1>3. Nat \subseteq P
  <2>. HIDE DEF P
  <2>. QED BY <1>1, <1>2, SetInduction
<1>4. ASSUME NEW s \in SUBSET D PROVE s \in Q
  <2>1. Cardinality(s) \in P /\ Cardinality(s) <= Cardinality(s) BY <1>0, <1>3
  <2>. QED BY <2>1
<1>. QED BY <1>4

(* The library's SumFunction is such a sum.                                *)
LEMMA SumExists ==
  ASSUME NEW D, IsFiniteSet(D), NEW f \in [D -> Nat]
  PROVE  \E g : IsSum(g, D, f) /\ SumFunction(f) = g[D]
<1>. DEFINE c == [s \in SUBSET D |-> CHOOSE x \in s : TRUE]
            G == [x \in D |-> [v \in Nat |-> f[x] + v]]
            Body(g) == [s \in SUBSET D |->
                          IF s = {} THEN 0
                          ELSE f[CHOOSE x \in s : TRUE] + g[s \ {CHOOSE x \in s : TRUE}]]
            iter == CHOOSE g : g = Body(g)
<1>1. SumFunction(f) = iter[D]
  BY DEF SumFunction, SumFunctionOnSet, FoldFunctionOnSet, MapThenFoldSet
<1>2. Picks(c, D) BY DEF Picks
<1>3. G \in [D -> [Nat -> Nat]] OBVIOUS
<1>4. PICK g : IsFold(g, D, Nat, 0, c, G)
  <2>. DEFINE base == 0
              V == Nat
  <2>1. base \in V /\ G \in [D -> [V -> V]] BY <1>3
  <2>2. \E g : IsFold(g, D, V, base, c, G)
    <3>. HIDE DEF c, G, V, base
    <3>. QED BY <1>2, <2>1, FoldExists
  <2>. QED BY <2>2
<1>5. g \in [SUBSET D -> Nat] /\ g[{}] = 0 BY <1>4 DEF IsFold
<1>6. ASSUME NEW s \in SUBSET D, s # {}
      PROVE  c[s] \in s /\ g[s] = f[c[s]] + g[s \ {c[s]}]
  <2>1. c[s] \in s BY <1>2, <1>6 DEF Picks
  <2>2. c[s] \in D /\ s \ {c[s]} \in SUBSET D BY <2>1
  <2>3. g[s] = G[c[s]][g[s \ {c[s]}]] BY <1>4, <1>6 DEF IsFold
  <2>4. g[s \ {c[s]}] \in Nat BY <1>5, <2>2
  <2>. HIDE DEF c
  <2>. QED BY <2>1, <2>2, <2>3, <2>4
<1>7. g = Body(g)
  <2>1. ASSUME NEW s \in SUBSET D PROVE g[s] = Body(g)[s]
    <3>1. CASE s = {} BY <1>5, <3>1
    <3>2. CASE s # {} BY <1>6, <3>2
    <3>. QED BY <3>1, <3>2
  <2>. HIDE DEF c
  <2>2. Body(g) = [s \in SUBSET D |-> Body(g)[s]] OBVIOUS
  <2>. HIDE DEF Body
  <2>. QED BY <1>5, <2>1, <2>2
<1>8. iter = Body(iter)
  <2>. HIDE DEF Body
  <2>. QED BY <1>7
<1>9. SUBSET D \subseteq {s \in SUBSET D : iter[s] = g[s]}
  <2>. DEFINE Q == {s \in SUBSET D : iter[s] = g[s]}
  <2>1. ASSUME NEW s \in SUBSET D, \A x \in s : s \ {x} \in Q PROVE s \in Q
    <3>1. iter[s] = Body(iter)[s] BY <1>8
    <3>2. CASE s = {}
      <4>1. Body(iter)[s] = 0
        <5>. HIDE DEF iter
        <5>. QED BY <3>2
      <4>. QED BY <1>5, <3>1, <3>2, <4>1
    <3>3. CASE s # {}
      <4>1. Body(iter)[s] = f[c[s]] + iter[s \ {c[s]}]
        <5>. HIDE DEF iter
        <5>. QED BY <3>3
      <4>2. iter[s \ {c[s]}] = g[s \ {c[s]}] BY <1>6, <2>1, <3>3
      <4>. HIDE DEF iter, c
      <4>. QED BY <1>6, <3>1, <3>3, <4>1, <4>2
    <3>. QED BY <3>2, <3>3
  <2>. HIDE DEF Q
  <2>2. SUBSET D \subseteq Q BY <2>1, SizeInduction
  <2>. QED BY <2>2 DEF Q
<1>10. iter[D] = g[D] BY <1>9
<1>. DEFINE Q == {s \in SUBSET D : \A x \in s : g[s] = g[s \ {x}] + f[x]}
<1>11. ASSUME NEW s \in SUBSET D, \A x \in s : s \ {x} \in Q PROVE s \in Q
  <2>1. ASSUME NEW x \in s PROVE g[s] = g[s \ {x}] + f[x]
    <3>1. c[s] \in s /\ g[s] = f[c[s]] + g[s \ {c[s]}] BY <1>6
    <3>2. CASE x = c[s]
      <4>1. g[s \ {x}] \in Nat /\ f[x] \in Nat BY <1>5
      <4>. QED BY <3>1, <3>2, <4>1
    <3>3. CASE x # c[s]
      <4>. DEFINE y == c[s]
                  r == (s \ {x}) \ {y}
      <4>. HIDE DEF c
      <4>1. y \in s /\ x \in s \ {y} /\ y \in s \ {x} /\ (s \ {y}) \ {x} = r
        BY <3>1, <3>3
      <4>2. g[s \ {y}] = g[r] + f[x] BY <1>11, <4>1
      <4>3. g[s \ {x}] = g[r] + f[y] BY <1>11, <4>1
      <4>4. r \in SUBSET D /\ x \in D /\ y \in D BY <4>1
      <4>5. g[r] \in Nat /\ f[x] \in Nat /\ f[y] \in Nat BY <1>5, <4>4
      <4>6. g[s] = f[y] + g[s \ {y}] BY <3>1
      <4>. HIDE DEF r, y
      <4>. QED BY <4>2, <4>3, <4>5, <4>6
    <3>. QED BY <3>2, <3>3
  <2>. QED BY <2>1
<1>12. SUBSET D \subseteq Q
  <2>. HIDE DEF Q
  <2>. QED BY <1>11, SizeInduction
<1>13. IsSum(g, D, f) BY <1>5, <1>12 DEF IsSum
<1>. HIDE DEF iter
<1>. QED BY <1>1, <1>10, <1>13

(* Sums depend on nothing but the values summed.                           *)
LEMMA SumAgree ==
  ASSUME NEW D, NEW E, E \subseteq D, IsFiniteSet(D), NEW f, NEW e,
         \A x \in E : f[x] = e[x], NEW g, NEW h, IsSum(g, D, f), IsSum(h, E, e)
  PROVE  \A s \in SUBSET E : g[s] = h[s]
<1>. DEFINE Q == {s \in SUBSET E : g[s] = h[s]}
<1>1. ASSUME NEW s \in SUBSET E, \A x \in s : s \ {x} \in Q PROVE s \in Q
  <2>1. CASE s = {} BY <2>1 DEF IsSum
  <2>2. CASE s # {}
    <3>1. PICK x \in s : TRUE BY <2>2
    <3>2. g[s] = g[s \ {x}] + f[x] /\ h[s] = h[s \ {x}] + e[x] BY <3>1 DEF IsSum
    <3>3. g[s \ {x}] = h[s \ {x}] /\ f[x] = e[x] BY <1>1, <3>1
    <3>. QED BY <3>2, <3>3
  <2>. QED BY <2>1, <2>2
<1>2. IsFiniteSet(E) BY FS_Subset
<1>3. SUBSET E \subseteq Q
  <2>. HIDE DEF Q
  <2>. QED BY <1>1, <1>2, SizeInduction
<1>. QED BY <1>3

(* The sum over nothing, and what one element adds: the totals that        *)
(* _apply_ingest_counters (pipeline.py:341) and the tables make.           *)
LEMMA SumSplits ==
  ASSUME NEW D, IsFiniteSet(D), NEW f \in [D -> Nat]
  PROVE  /\ SumFunction(f) \in Nat
         /\ D = {} => SumFunction(f) = 0
         /\ \A x \in D : SumFunction(f) = SumFunction([y \in D \ {x} |-> f[y]]) + f[x]
<1>1. PICK g : IsSum(g, D, f) /\ SumFunction(f) = g[D] BY SumExists
<1>2. SumFunction(f) \in Nat /\ (D = {} => SumFunction(f) = 0) BY <1>1 DEF IsSum
<1>3. ASSUME NEW x \in D
      PROVE  SumFunction(f) = SumFunction([y \in D \ {x} |-> f[y]]) + f[x]
  <2>. DEFINE E == D \ {x}
              e == [y \in E |-> f[y]]
  <2>1. IsFiniteSet(E) /\ e \in [E -> Nat] BY FS_Subset
  <2>2. \E h : IsSum(h, E, e) /\ SumFunction(e) = h[E]
    <3>. HIDE DEF E, e
    <3>. QED BY <2>1, SumExists
  <2>3. PICK h : IsSum(h, E, e) /\ SumFunction(e) = h[E] BY <2>2
  <2>4. E \subseteq D /\ \A y \in E : f[y] = e[y] OBVIOUS
  <2>5. \A s \in SUBSET E : g[s] = h[s]
    <3>. HIDE DEF E, e
    <3>. QED BY <1>1, <2>3, <2>4, SumAgree
  <2>6. g[D] = g[E] + f[x] BY <1>1 DEF IsSum
  <2>7. g[E] = h[E] BY <2>5
  <2>. QED BY <1>1, <2>3, <2>6, <2>7
<1>. QED BY <1>2, <1>3

(* A value changed where it was zero.                                      *)
LEMMA SumChanged ==
  ASSUME NEW D, IsFiniteSet(D), NEW f \in [D -> Nat], NEW e \in [D -> Nat], NEW x \in D,
         f[x] = 0, \A y \in D : y # x => e[y] = f[y]
  PROVE  SumFunction(e) = SumFunction(f) + e[x]
<1>. DEFINE a == [y \in D \ {x} |-> f[y]]
            b == [y \in D \ {x} |-> e[y]]
<1>1. a = b OBVIOUS
<1>2. SumFunction(f) = SumFunction(a) + f[x] /\ SumFunction(f) \in Nat BY SumSplits
<1>3. SumFunction(e) = SumFunction(b) + e[x] BY SumSplits
<1>4. SumFunction(a) \in Nat
  <2>. DEFINE E == D \ {x}
  <2>1. IsFiniteSet(E) /\ a \in [E -> Nat] BY FS_Subset
  <2>. HIDE DEF E, a
  <2>. QED BY <2>1, SumSplits
<1>. HIDE DEF a, b
<1>. QED BY <1>1, <1>2, <1>3, <1>4

(* A value added.                                                          *)
LEMMA SumExtended ==
  ASSUME NEW D, IsFiniteSet(D), NEW x, x \notin D, NEW f \in [D -> Nat],
         NEW e \in [D \cup {x} -> Nat], \A y \in D : e[y] = f[y]
  PROVE  SumFunction(e) = SumFunction(f) + e[x]
<1>. DEFINE E == D \cup {x}
<1>1. IsFiniteSet(E) /\ e \in [E -> Nat] /\ x \in E BY FS_AddElement
<1>2. SumFunction(e) = SumFunction([y \in E \ {x} |-> e[y]]) + e[x]
  <2>. HIDE DEF E
  <2>. QED BY <1>1, SumSplits
<1>3. [y \in E \ {x} |-> e[y]] = f
  <2>1. E \ {x} = D OBVIOUS
  <2>. QED BY <2>1
<1>. QED BY <1>2, <1>3

(* Nothing adds up to nothing.                                             *)
LEMMA SumZero ==
  ASSUME NEW D, IsFiniteSet(D), NEW f \in [D -> Nat], \A x \in D : f[x] = 0
  PROVE  SumFunction(f) = 0
<1>1. PICK g : IsSum(g, D, f) /\ SumFunction(f) = g[D] BY SumExists
<1>. DEFINE Q == {s \in SUBSET D : g[s] = 0}
<1>2. ASSUME NEW s \in SUBSET D, \A x \in s : s \ {x} \in Q PROVE s \in Q
  <2>1. CASE s = {} BY <1>1, <2>1 DEF IsSum
  <2>2. CASE s # {}
    <3>1. PICK x \in s : TRUE BY <2>2
    <3>2. g[s] = g[s \ {x}] + f[x] BY <1>1 DEF IsSum
    <3>3. g[s \ {x}] = 0 /\ f[x] = 0 BY <1>2
    <3>. QED BY <3>2, <3>3
  <2>. QED BY <2>1, <2>2
<1>3. SUBSET D \subseteq Q
  <2>. HIDE DEF Q
  <2>. QED BY <1>2, SizeInduction
<1>. QED BY <1>1, <1>3
=============================================================================
