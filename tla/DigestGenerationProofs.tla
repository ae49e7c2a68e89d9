----------------------- MODULE DigestGenerationProofs -----------------------
(***************************************************************************)
(* Proofs about digest generation: the selection is the best there is, a   *)
(* digest is made of different selected articles that were usable, the     *)
(* model is asked as often as it helps, and the division into messages is  *)
(* right and as short as possible.  All hold for every value of the        *)
(* constants that GenerationAssumption and SettingsAssumption admit.       *)
(*                                                                         *)
(* The loops of the code are folds in the model; their values are taken    *)
(* one step at a time by the lemmas of the first two sections.  IInv is    *)
(* the inductive invariant.                                                *)
(***************************************************************************)
EXTENDS DigestGeneration, InductionLemmas, SequenceTheorems

-----------------------------------------------------------------------------
(* Loops, and the sequences FlattenSeq joins.                              *)

(* The states of a loop over 1 .. n exist.                                 *)
IsLoop(h, n, V, base, G) ==
  /\ h \in [0 .. n -> V]
  /\ h[0] = base /\ \A k \in 1 .. n : h[k] = G[k][h[k - 1]]

(* There is such a sequence of states.                                     *)
LEMMA LoopExists ==
  ASSUME NEW n \in Nat, NEW V, NEW base \in V, NEW G \in [1 .. n -> [V -> V]]
  PROVE  \E h : IsLoop(h, n, V, base, G)
<1>. DEFINE D == 1 .. n
            c == [s \in SUBSET D |-> Max(s)]
<1>1. IsFiniteSet(D) /\ Picks(c, D)
  <2>1. 1 \in Int /\ n \in Int OBVIOUS
  <2>2. IsFiniteSet(D) BY <2>1, FS_Interval
  <2>3. \A s \in SUBSET D : s # {} => Max(s) \in s BY MaxOfInterval
  <2>. QED BY <2>2, <2>3 DEF Picks
<1>2. PICK g : IsFold(g, D, V, base, c, G)
  <2>1. G \in [D -> [V -> V]] OBVIOUS
  <2>. HIDE DEF D, c
  <2>. QED BY <1>1, <2>1, FoldExists
<1>. DEFINE h == [k \in 0 .. n |-> g[1 .. k]]
<1>3. h \in [0 .. n -> V]
  <2>1. \A k \in 0 .. n : (1 .. k) \in SUBSET D OBVIOUS
  <2>. HIDE DEF D
  <2>. QED BY <1>2, <2>1 DEF IsFold
<1>4. h[0] = base
  <2>1. 1 .. 0 = {} /\ 0 \in 0 .. n /\ {} \in SUBSET D OBVIOUS
  <2>2. h[0] = g[1 .. 0] BY <2>1
  <2>. HIDE DEF D, h
  <2>. QED BY <1>2, <2>1, <2>2 DEF IsFold
<1>5. ASSUME NEW k \in 1 .. n PROVE h[k] = G[k][h[k - 1]]
  <2>1. (1 .. k) \ {k} = 1 .. k - 1 /\ (1 .. k) \in SUBSET D /\ 1 .. k # {} OBVIOUS
  <2>2. Max(1 .. k) = k BY MaxOfInterval
  <2>3. c[1 .. k] = k BY <2>1, <2>2
  <2>4. h[k] = g[1 .. k] /\ h[k - 1] = g[1 .. k - 1] OBVIOUS
  <2>. DEFINE s == 1 .. k
  <2>5. s \in SUBSET D /\ s # {} /\ c[s] = k /\ s \ {k} = 1 .. k - 1 /\ h[k] = g[s]
    BY <2>1, <2>3, <2>4
  <2>. HIDE DEF D, h, c, s
  <2>6. g[s] = G[c[s]][g[s \ {c[s]}]] BY <1>2, <2>5 DEF IsFold
  <2>. QED BY <2>4, <2>5, <2>6
<1>. QED
  <2>. HIDE DEF h
  <2>. QED BY <1>3, <1>4, <1>5 DEF IsLoop

(* The prefixes of what FlattenSeq joins.                                  *)
Joined(F, gs, S) ==
  /\ F \in [0 .. Len(gs) -> Seq(S)]
  /\ F[0] = <<>> /\ \A i \in 1 .. Len(gs) : F[i] = F[i - 1] \o gs[i]

(* FlattenSeq gives the last of them.                                      *)
LEMMA FlattenJoins ==
  ASSUME NEW S, NEW gs \in Seq(Seq(S))
  PROVE  \E F : Joined(F, gs, S) /\ FlattenSeq(gs) = F[Len(gs)]
<1>. DEFINE n == Len(gs)
            V == Seq(S)
            G == [i \in 1 .. n |-> [v \in V |-> v \o gs[i]]]
<1>0. n \in Nat /\ \A i \in 1 .. n : gs[i] \in V OBVIOUS
<1>1. PICK F \in [0 .. n -> V] : F[0] = <<>> /\ \A k \in 1 .. n : F[k] = G[k][F[k - 1]]
  <2>1. \A i \in 1 .. n : \A v \in V : v \o gs[i] \in V
    <3>. HIDE DEF n
    <3>. QED BY <1>0
  <2>2. G \in [1 .. n -> [V -> V]] BY <2>1
  <2>. DEFINE base == <<>>
  <2>3. base \in V OBVIOUS
  <2>4. \E F : IsLoop(F, n, V, base, G)
    <3>. HIDE DEF n, V, G, base
    <3>. QED BY <1>0, <2>2, <2>3, LoopExists
  <2>. HIDE DEF n, V, G
  <2>. QED BY <2>4 DEF IsLoop
<1>2. Joined(F, gs, S)
  <2>1. ASSUME NEW k \in 1 .. n PROVE F[k] = F[k - 1] \o gs[k]
    <3>1. k - 1 \in 0 .. n BY <1>0
    <3>2. F[k - 1] \in V BY <3>1
    <3>3. F[k] = G[k][F[k - 1]] BY <1>1
    <3>. HIDE DEF n, V
    <3>. QED BY <3>2, <3>3
  <2>. QED BY <1>1, <2>1 DEF Joined
<1>3. CASE n = 0
  <2>1. gs = <<>> BY <1>3
  <2>2. FlattenSeq(gs) = <<>> BY <2>1 DEF FlattenSeq
  <2>3. F[Len(gs)] = <<>> BY <1>1, <1>3
  <2>. QED BY <1>2, <2>2, <2>3
<1>4. CASE n # 0
  <2>. DEFINE Body(f) == [i \in 1 .. n |-> IF i = 1 THEN gs[i] ELSE f[i - 1] \o gs[i]]
              flatten == CHOOSE f : f = Body(f)
              P == {k \in 0 .. n : k # 0 => flatten[k] = F[k]}
  <2>1. FlattenSeq(gs) = flatten[n] BY <1>4 DEF FlattenSeq
  <2>2. flatten = Body(flatten)
    <3>. DEFINE f == [i \in 1 .. n |-> F[i]]
    <3>1. ASSUME NEW i \in 1 .. n
          PROVE  F[i] = IF i = 1 THEN gs[i] ELSE f[i - 1] \o gs[i]
      <4>1. F[i] = F[i - 1] \o gs[i] BY <1>2 DEF Joined
      <4>2. CASE i = 1
        <5>0. i - 1 = 0 BY <4>2
        <5>1. F[i] = <<>> \o gs[i] BY <1>1, <4>1, <5>0
        <5>2. gs[i] \in Seq(S) BY <1>0
        <5>. QED BY <4>2, <5>1, <5>2, ConcatEmptySeq
      <4>3. CASE i # 1
        <5>1. i - 1 \in 1 .. n BY <1>0, <4>3
        <5>. HIDE DEF n
        <5>. QED BY <4>1, <4>3, <5>1
      <4>. QED BY <4>2, <4>3
    <3>2. f = Body(f)
      <4>. HIDE DEF n
      <4>. QED BY <3>1
    <3>. HIDE DEF Body, f
    <3>. QED BY <3>2
  <2>3. 0 \in P BY <1>0
  <2>4. ASSUME NEW k \in 0 .. n - 1, k \in P PROVE k + 1 \in P
    <3>1. k + 1 \in 1 .. n /\ (k + 1) - 1 = k /\ k + 1 \in 0 .. n BY <1>0
    <3>2. F[k + 1] = F[k] \o gs[k + 1] BY <1>2, <3>1 DEF Joined
    <3>3. flatten[k + 1] = Body(flatten)[k + 1]
      <4>. HIDE DEF flatten, Body
      <4>. QED BY <2>2
    <3>4. flatten[k + 1] = IF k + 1 = 1 THEN gs[k + 1] ELSE flatten[k] \o gs[k + 1]
      <4>. HIDE DEF flatten, n
      <4>. QED BY <3>1, <3>3
    <3>5. CASE k = 0
      <4>1. F[k + 1] = <<>> \o gs[k + 1] BY <1>1, <3>2, <3>5
      <4>2. gs[k + 1] \in Seq(S) BY <1>0, <3>1
      <4>3. F[k + 1] = gs[k + 1] BY <4>1, <4>2, ConcatEmptySeq
      <4>. HIDE DEF flatten, n
      <4>. QED BY <3>1, <3>4, <3>5, <4>3
    <3>6. CASE k # 0
      <4>1. flatten[k] = F[k] BY <2>4, <3>6
      <4>2. k + 1 # 1 BY <3>6
      <4>. HIDE DEF flatten, n
      <4>. QED BY <3>1, <3>2, <3>4, <4>1, <4>2
    <3>. QED BY <3>5, <3>6
  <2>5. 0 .. n \subseteq P
    <3>. HIDE DEF P, n
    <3>. QED BY <1>0, <2>3, <2>4, IntervalInduction
  <2>6. flatten[n] = F[n]
    <3>1. n \in 0 .. n /\ n # 0 BY <1>0, <1>4
    <3>. HIDE DEF flatten, n
    <3>. QED BY <2>5, <3>1
  <2>. HIDE DEF flatten, n
  <2>. QED BY <1>2, <2>1, <2>6 DEF n
<1>. QED BY <1>3, <1>4

(* Prefixes of the same sequences are the same.                            *)
LEMMA JoinedAgree ==
  ASSUME NEW S, NEW gs \in Seq(Seq(S)), NEW hs \in Seq(Seq(S)),
         NEW F, Joined(F, gs, S), NEW H, Joined(H, hs, S),
         NEW m \in Nat, m <= Len(gs), m <= Len(hs), \A i \in 1 .. m : gs[i] = hs[i]
  PROVE  F[m] = H[m]
<1>. DEFINE P == {k \in 0 .. m : F[k] = H[k]}
<1>0. Len(gs) \in Nat /\ Len(hs) \in Nat OBVIOUS
<1>1. 0 \in P BY DEF Joined
<1>2. ASSUME NEW k \in 0 .. m - 1, k \in P PROVE k + 1 \in P
  <2>1. k + 1 \in 1 .. m /\ k + 1 \in 1 .. Len(gs) /\ k + 1 \in 1 .. Len(hs)
          /\ (k + 1) - 1 = k /\ k + 1 \in 0 .. m
    BY <1>0
  <2>2. F[k + 1] = F[k] \o gs[k + 1] /\ H[k + 1] = H[k] \o hs[k + 1]
    BY <2>1 DEF Joined
  <2>. QED BY <1>2, <2>1, <2>2
<1>3. 0 .. m \subseteq P
  <2>. HIDE DEF P
  <2>. QED BY <1>1, <1>2, IntervalInduction
<1>. QED BY <1>3

(* Joining sequences: one more at the end, or one more element in the last.*)
LEMMA FlattenAppend ==
  ASSUME NEW S, NEW gs \in Seq(Seq(S)), NEW g \in Seq(S)
  PROVE  FlattenSeq(gs) \in Seq(S) /\ FlattenSeq(Append(gs, g)) = FlattenSeq(gs) \o g
<1>. DEFINE hs == Append(gs, g)
            n == Len(gs)
<1>0. /\ n \in Nat /\ hs \in Seq(Seq(S)) /\ Len(hs) = n + 1 /\ hs[n + 1] = g
      /\ \A i \in 1 .. n : hs[i] = gs[i]
  OBVIOUS
<1>1. PICK F : Joined(F, gs, S) /\ FlattenSeq(gs) = F[n] BY FlattenJoins
<1>2. PICK H : Joined(H, hs, S) /\ FlattenSeq(hs) = H[n + 1]
  <2>. HIDE DEF hs, n
  <2>. QED BY <1>0, FlattenJoins
<1>3. F[n] = H[n]
  <2>1. n <= n + 1 /\ n <= Len(gs) BY <1>0
  <2>2. n <= Len(hs) /\ \A i \in 1 .. n : gs[i] = hs[i] BY <1>0
  <2>. HIDE DEF hs, n
  <2>. QED BY <1>0, <1>1, <1>2, <2>1, <2>2, JoinedAgree
<1>4. H[n + 1] = H[n] \o hs[n + 1]
  <2>1. n + 1 \in 1 .. Len(hs) /\ (n + 1) - 1 = n BY <1>0
  <2>. HIDE DEF hs, n
  <2>. QED BY <1>2, <2>1 DEF Joined
<1>5. F[n] \in Seq(S) BY <1>0, <1>1 DEF Joined
<1>. HIDE DEF n
<1>. QED BY <1>0, <1>1, <1>2, <1>3, <1>4, <1>5

(* One more element in the last of the sequences.                          *)
LEMMA FlattenExtend ==
  ASSUME NEW S, NEW gs \in Seq(Seq(S)), gs # <<>>, NEW b \in S
  PROVE  FlattenSeq([gs EXCEPT ![Len(gs)] = Append(@, b)]) = Append(FlattenSeq(gs), b)
<1>. DEFINE n == Len(gs)
            hs == [gs EXCEPT ![n] = Append(@, b)]
<1>0. n \in Nat /\ n # 0 /\ n \in 1 .. n /\ gs[n] \in Seq(S) OBVIOUS
<1>1. /\ hs \in Seq(Seq(S)) /\ Len(hs) = n /\ hs[n] = Append(gs[n], b)
      /\ \A i \in 1 .. n - 1 : hs[i] = gs[i]
  BY <1>0
<1>2. PICK F : Joined(F, gs, S) /\ FlattenSeq(gs) = F[n] BY FlattenJoins
<1>. HIDE DEF hs
<1>3. PICK H : Joined(H, hs, S) /\ FlattenSeq(hs) = H[n] BY <1>1, FlattenJoins
<1>4. F[n - 1] = H[n - 1]
  <2>. DEFINE m == n - 1
  <2>1. m \in Nat /\ m <= Len(gs) /\ m <= Len(hs) /\ \A i \in 1 .. m : gs[i] = hs[i]
    BY <1>0, <1>1
  <2>. HIDE DEF m
  <2>2. F[m] = H[m] BY <1>1, <1>2, <1>3, <2>1, JoinedAgree
  <2>. QED BY <2>2 DEF m
<1>5. F[n] = F[n - 1] \o gs[n] /\ H[n] = H[n - 1] \o hs[n] /\ F[n - 1] \in Seq(S)
  <2>1. n \in 1 .. Len(gs) /\ n \in 1 .. Len(hs) /\ n - 1 \in 0 .. Len(gs) BY <1>0, <1>1
  <2>. HIDE DEF n
  <2>. QED BY <1>2, <1>3, <2>1 DEF Joined
<1>6. F[n - 1] \o Append(gs[n], b) = Append(F[n - 1] \o gs[n], b)
  <2>. DEFINE f == F[n - 1]
              g == gs[n]
  <2>1. f \in Seq(S) /\ g \in Seq(S) BY <1>0, <1>5
  <2>. HIDE DEF f, g
  <2>2. Append(g, b) = g \o <<b>> /\ Append(f \o g, b) = (f \o g) \o <<b>>
    BY <2>1, AppendIsConcat
  <2>3. f \o (g \o <<b>>) = (f \o g) \o <<b>> BY <2>1, ConcatAssociative
  <2>4. f \o Append(g, b) = Append(f \o g, b) BY <2>2, <2>3
  <2>. QED BY <2>4 DEF f, g
<1>7. FlattenSeq(hs) = Append(FlattenSeq(gs), b)
  <2>. HIDE DEF n
  <2>. QED BY <1>1, <1>2, <1>3, <1>4, <1>5, <1>6
<1>. QED BY <1>7 DEF hs

-----------------------------------------------------------------------------
(* The lengths render adds up (digest_render.py).                          *)

(* The running totals of render's lengths.                                 *)
TotalLoop(h, n, base, g) ==
  /\ h \in [0 .. n -> Int]
  /\ h[0] = base /\ \A k \in 1 .. n : h[k] = h[k - 1] + g[k]

(* The fold of BlocksSize gives the last total.                            *)
LEMMA FoldAdds ==
  ASSUME NEW n \in Nat, NEW base \in Int, NEW g \in [1 .. n -> Int]
  PROVE  \E h : TotalLoop(h, n, base, g)
                  /\ FoldLeft(LAMBDA total, size : total + size, base, g) = h[n]
<1>. DEFINE D == 1 .. n
            c == [s \in SUBSET D |-> Max(s)]
            G == [i \in D |-> [v \in Int |-> v + g[i]]]
            Body(f) == [s \in SUBSET D |->
                          IF s = {} THEN base ELSE f[s \ {Max(s)}] + g[Max(s)]]
            iter == CHOOSE f : f = Body(f)
<1>1. FoldLeft(LAMBDA total, size : total + size, base, g) = iter[1 .. n]
  BY DEF FoldLeft, MapThenFoldSet
<1>2. IsFiniteSet(D) /\ Picks(c, D)
  <2>1. 1 \in Int /\ n \in Int OBVIOUS
  <2>2. IsFiniteSet(D) BY <2>1, FS_Interval
  <2>3. \A s \in SUBSET D : s # {} => Max(s) \in s BY MaxOfInterval
  <2>. QED BY <2>2, <2>3 DEF Picks
<1>3. G \in [D -> [Int -> Int]] OBVIOUS
<1>4. PICK f : IsFold(f, D, Int, base, c, G)
  <2>. HIDE DEF D, c, G
  <2>. QED BY <1>2, <1>3, FoldExists
<1>5. f = Body(f)
  <2>1. ASSUME NEW s \in SUBSET D, s # {}
        PROVE  f[s] = f[s \ {Max(s)}] + g[Max(s)]
    <3>1. c[s] = Max(s) /\ Max(s) \in D /\ s \ {Max(s)} \in SUBSET D
      BY <1>2, <2>1 DEF Picks
    <3>2. f[s] = G[c[s]][f[s \ {c[s]}]] BY <1>4, <2>1 DEF IsFold
    <3>3. f[s \ {Max(s)}] \in Int BY <1>4, <3>1 DEF IsFold
    <3>. HIDE DEF D, c
    <3>. QED BY <3>1, <3>2, <3>3
  <2>2. f \in [SUBSET D -> Int] /\ f[{}] = base BY <1>4 DEF IsFold
  <2>. HIDE DEF D
  <2>. QED BY <2>1, <2>2
<1>6. iter = Body(iter)
  <2>. HIDE DEF Body
  <2>. QED BY <1>5
<1>7. iter[{}] = base
  <2>1. Body(iter)[{}] = base OBVIOUS
  <2>. HIDE DEF Body, iter
  <2>. QED BY <1>6, <2>1
<1>8. ASSUME NEW k \in 1 .. n PROVE iter[1 .. k] = iter[1 .. k - 1] + g[k]
  <2>0. (1 .. k) \ {k} = 1 .. k - 1 OBVIOUS
  <2>1. (1 .. k) \in SUBSET D /\ k \in 1 .. k OBVIOUS
  <2>2. Max(1 .. k) = k BY MaxOfInterval
  <2>3. Body(iter)[1 .. k] = iter[(1 .. k) \ {Max(1 .. k)}] + g[Max(1 .. k)]
    <3>. HIDE DEF iter
    <3>. QED BY <2>1
  <2>. HIDE DEF Body, iter
  <2>. QED BY <1>6, <2>0, <2>2, <2>3
<1>. DEFINE h == [k \in 0 .. n |-> iter[1 .. k]]
<1>9. h[0] = base
  <2>1. 1 .. 0 = {} OBVIOUS
  <2>. HIDE DEF iter
  <2>. QED BY <1>7, <2>1
<1>10. \A k \in 1 .. n : h[k] = h[k - 1] + g[k]
  <2>. HIDE DEF iter
  <2>. QED BY <1>8
<1>11. h \in [0 .. n -> Int]
  <2>. DEFINE S == {k \in 0 .. n : h[k] \in Int}
  <2>1. 0 \in S
    <3>. HIDE DEF h
    <3>. QED BY <1>9
  <2>2. ASSUME NEW k \in 0 .. n - 1, k \in S PROVE k + 1 \in S
    <3>1. k + 1 \in 1 .. n /\ (k + 1) - 1 = k OBVIOUS
    <3>2. h[k + 1] = h[k] + g[k + 1] /\ g[k + 1] \in Int BY <1>10, <3>1
    <3>. HIDE DEF h
    <3>. QED BY <2>2, <3>1, <3>2
  <2>3. 0 .. n \subseteq S
    <3>. HIDE DEF S
    <3>. QED BY <2>1, <2>2, IntervalInduction
  <2>. QED BY <2>3
<1>12. h[n] = iter[1 .. n] OBVIOUS
<1>. HIDE DEF h, iter
<1>. QED BY <1>1, <1>9, <1>10, <1>11, <1>12 DEF TotalLoop

(* What one more block adds to a message: itself and the blank line.       *)
LEMMA BlocksSizeGrows ==
  /\ BlocksSize(<<>>) = 0 - SeparatorSize
  /\ \A g \in Seq(Sizes) : BlocksSize(g) \in Int
  /\ \A g \in Seq(Sizes), b \in Sizes :
       BlocksSize(Append(g, b)) = BlocksSize(g) + b + SeparatorSize
<1>0. SeparatorSize \in Nat /\ Sizes \subseteq Nat BY GenerationAssumption
<1>1. ASSUME NEW g \in Seq(Sizes)
      PROVE  /\ g \in [1 .. Len(g) -> Int] /\ Len(g) \in Nat
             /\ (Len(g) - 1) * SeparatorSize \in Int
             /\ \E h : TotalLoop(h, Len(g), (Len(g) - 1) * SeparatorSize, g)
                         /\ BlocksSize(g) = h[Len(g)]
  <2>. DEFINE n == Len(g)
              base == (n - 1) * SeparatorSize
  <2>1. n \in Nat /\ g \in [1 .. n -> Int]
    <3>1. g \in [1 .. n -> Sizes] /\ n \in Nat OBVIOUS
    <3>2. Sizes \subseteq Int BY <1>0
    <3>. HIDE DEF n
    <3>. QED BY <3>1, <3>2
  <2>2. base \in Int
    <3>1. n - 1 \in Int /\ SeparatorSize \in Int BY <1>0, <2>1
    <3>. HIDE DEF n
    <3>. QED BY <3>1
  <2>3. \E h : TotalLoop(h, n, base, g)
                 /\ FoldLeft(LAMBDA total, size : total + size, base, g) = h[n]
    <3>. HIDE DEF n, base
    <3>. QED BY <2>1, <2>2, FoldAdds
  <2>. QED BY <2>1, <2>2, <2>3 DEF BlocksSize
<1>2. BlocksSize(<<>>) = 0 - SeparatorSize
  <2>1. <<>> \in Seq(Sizes) /\ Len(<<>>) = 0 OBVIOUS
  <2>2. PICK h : TotalLoop(h, 0, (0 - 1) * SeparatorSize, <<>>) /\ BlocksSize(<<>>) = h[0]
    BY <1>1, <2>1
  <2>. QED BY <1>0, <2>2 DEF TotalLoop
<1>3. ASSUME NEW g \in Seq(Sizes) PROVE BlocksSize(g) \in Int
  <2>1. PICK h : TotalLoop(h, Len(g), (Len(g) - 1) * SeparatorSize, g)
                   /\ BlocksSize(g) = h[Len(g)]
    BY <1>1
  <2>2. Len(g) \in 0 .. Len(g) OBVIOUS
  <2>. QED BY <2>1, <2>2 DEF TotalLoop
<1>4. ASSUME NEW g \in Seq(Sizes), NEW b \in Sizes
      PROVE  BlocksSize(Append(g, b)) = BlocksSize(g) + b + SeparatorSize
  <2>. DEFINE n == Len(g)
              q == Append(g, b)
              u == (n - 1) * SeparatorSize
              v == n * SeparatorSize
  <2>1. /\ n \in Nat /\ q \in Seq(Sizes) /\ Len(q) = n + 1 /\ q[n + 1] = b
        /\ \A i \in 1 .. n : q[i] = g[i]
    OBVIOUS
  <2>2. u \in Int /\ v \in Int /\ v = u + SeparatorSize
    <3>1. u \in Int BY <1>1
    <3>2. (n + 1) - 1 = n BY <2>1
    <3>3. v \in Int
      <4>. HIDE DEF n, q
      <4>1. (Len(q) - 1) * SeparatorSize \in Int BY <1>1, <2>1
      <4>. QED BY <2>1, <3>2, <4>1
    <3>4. v = u + SeparatorSize
      <4>. HIDE DEF n
      <4>. QED BY <1>0, <2>1
    <3>. QED BY <3>1, <3>3, <3>4
  <2>3. PICK h : TotalLoop(h, n, u, g) /\ BlocksSize(g) = h[n] BY <1>1
  <2>4. PICK k : TotalLoop(k, n + 1, v, q) /\ BlocksSize(q) = k[n + 1]
    <3>1. (n + 1) - 1 = n BY <2>1
    <3>. HIDE DEF n, q
    <3>. QED BY <1>1, <2>1, <3>1
  <2>. HIDE DEF n, q, u, v
  <2>. DEFINE P == {i \in 0 .. n : k[i] = h[i] + SeparatorSize}
  <2>5. 0 \in P BY <2>1, <2>2, <2>3, <2>4 DEF TotalLoop
  <2>6. ASSUME NEW i \in 0 .. n - 1, i \in P PROVE i + 1 \in P
    <3>1. i + 1 \in 1 .. n /\ i + 1 \in 1 .. n + 1 /\ (i + 1) - 1 = i /\ i \in 0 .. n
            /\ i + 1 \in 0 .. n
      BY <2>1
    <3>2. h[i + 1] = h[i] + g[i + 1] /\ k[i + 1] = k[i] + q[i + 1] /\ h[i] \in Int
      BY <2>3, <2>4, <3>1 DEF TotalLoop
    <3>3. q[i + 1] = g[i + 1] /\ g[i + 1] \in Int
      <4>1. g \in [1 .. n -> Int] BY <1>1 DEF n
      <4>. QED BY <2>1, <3>1, <4>1
    <3>. QED BY <1>0, <2>6, <3>1, <3>2, <3>3
  <2>7. 0 .. n \subseteq P
    <3>. HIDE DEF P
    <3>. QED BY <2>1, <2>5, <2>6, IntervalInduction
  <2>8. k[n] = h[n] + SeparatorSize /\ h[n] \in Int
    <3>1. n \in 0 .. n BY <2>1
    <3>. QED BY <2>3, <2>7, <3>1 DEF TotalLoop
  <2>9. k[n + 1] = k[n] + b
    <3>1. n + 1 \in 1 .. n + 1 /\ (n + 1) - 1 = n BY <2>1
    <3>. QED BY <2>1, <2>4, <3>1 DEF TotalLoop
  <2>10. BlocksSize(q) = BlocksSize(g) + b + SeparatorSize
    BY <1>0, <2>3, <2>4, <2>8, <2>9
  <2>. QED BY <2>10 DEF q
<1>. QED BY <1>2, <1>3, <1>4

(* Of a sequence of blocks: where each starts, were they one message.      *)
Offsets(W, s) ==
  /\ W \in [0 .. Len(s) -> Int]
  /\ W[0] = 0 /\ \A k \in 1 .. Len(s) : W[k] = W[k - 1] + s[k] + SeparatorSize

(* The length of a stretch of blocks is a difference of offsets, which     *)
(* grow.                                                                   *)
LEMMA SliceSize ==
  ASSUME NEW s \in Seq(Sizes)
  PROVE  \E W : /\ Offsets(W, s)
                /\ \A i, j \in 0 .. Len(s) : i <= j => W[i] <= W[j]
                /\ \A i, j \in 0 .. Len(s) : i <= j =>
                     /\ SubSeq(s, i + 1, j) \in Seq(Sizes)
                     /\ BlocksSize(SubSeq(s, i + 1, j)) = W[j] - W[i] - SeparatorSize
<1>. DEFINE n == Len(s)
            G == [i \in 1 .. n |-> [v \in Int |-> v + s[i] + SeparatorSize]]
<1>0. /\ SeparatorSize \in Nat /\ Sizes \subseteq Nat /\ n \in Nat
      /\ \A i \in 1 .. n : s[i] \in Sizes /\ s[i] \in Nat
  <2>1. SeparatorSize \in Nat /\ Sizes \subseteq Nat BY GenerationAssumption
  <2>2. n \in Nat /\ \A i \in 1 .. n : s[i] \in Sizes OBVIOUS
  <2>. HIDE DEF n
  <2>. QED BY <2>1, <2>2
<1>1. PICK W : IsLoop(W, n, Int, 0, G)
  <2>. DEFINE V == Int
              z == 0
  <2>1. G \in [1 .. n -> [V -> V]] /\ z \in V BY <1>0
  <2>2. \E W : IsLoop(W, n, V, z, G)
    <3>. HIDE DEF n, G, V, z
    <3>. QED BY <1>0, <2>1, LoopExists
  <2>. HIDE DEF n, G
  <2>. QED BY <2>2
<1>2. /\ W \in [0 .. n -> Int] /\ W[0] = 0
      /\ \A k \in 1 .. n : W[k] = W[k - 1] + s[k] + SeparatorSize
  <2>1. ASSUME NEW k \in 1 .. n PROVE W[k] = W[k - 1] + s[k] + SeparatorSize
    <3>1. k - 1 \in 0 .. n BY <1>0
    <3>2. W[k - 1] \in Int /\ W[k] = G[k][W[k - 1]] BY <1>1, <3>1 DEF IsLoop
    <3>. HIDE DEF n
    <3>. QED BY <3>2
  <2>. QED BY <1>1, <2>1 DEF IsLoop
<1>. HIDE DEF n
<1>3. ASSUME NEW i \in 0 .. n, NEW d \in Nat, i + d <= n
      PROVE  /\ W[i] <= W[i + d] /\ SubSeq(s, i + 1, i + d) \in Seq(Sizes)
             /\ BlocksSize(SubSeq(s, i + 1, i + d)) = W[i + d] - W[i] - SeparatorSize
  <2>. DEFINE P == {e \in 0 .. d :
                      /\ W[i] <= W[i + e] /\ SubSeq(s, i + 1, i + e) \in Seq(Sizes)
                      /\ BlocksSize(SubSeq(s, i + 1, i + e)) = W[i + e] - W[i] - SeparatorSize}
  <2>1. 0 \in P
    <3>1. SubSeq(s, i + 1, i + 0) = <<>> BY <1>0, SubSeqEmpty
    <3>2. i + 0 = i /\ W[i] \in Int BY <1>0, <1>2
    <3>3. BlocksSize(<<>>) = W[i + 0] - W[i] - SeparatorSize
      <4>1. W[i] - W[i] - SeparatorSize = 0 - SeparatorSize BY <1>0, <3>2
      <4>. QED BY <3>2, <4>1, BlocksSizeGrows
    <3>4. <<>> \in Seq(Sizes) /\ W[i] <= W[i + 0] BY <3>2
    <3>. DEFINE q == SubSeq(s, i + 1, i + 0)
    <3>5. q \in Seq(Sizes) /\ BlocksSize(q) = W[i + 0] - W[i] - SeparatorSize
      <4>1. q = <<>> BY <3>1
      <4>. HIDE DEF q
      <4>. QED BY <3>3, <3>4, <4>1
    <3>6. 0 \in 0 .. d OBVIOUS
    <3>. QED BY <3>4, <3>5, <3>6
  <2>2. ASSUME NEW e \in 0 .. d - 1, e \in P PROVE e + 1 \in P
    <3>. DEFINE j == i + e
                q == SubSeq(s, i + 1, j)
    <3>1. j \in 0 .. n /\ j + 1 \in 1 .. n /\ j + 1 = i + (e + 1) /\ (j + 1) - 1 = j
            /\ e + 1 \in 0 .. d /\ i <= j /\ i + 1 <= j + 1
      BY <1>0, <1>3, <2>2
    <3>2. q \in Seq(Sizes) /\ W[i] <= W[j] /\ BlocksSize(q) = W[j] - W[i] - SeparatorSize
      BY <2>2
    <3>3. W[j] \in Int /\ W[i] \in Int /\ W[j + 1] = W[j] + s[j + 1] + SeparatorSize
            /\ W[j + 1] \in Int /\ s[j + 1] \in Nat /\ s[j + 1] \in Sizes
      <4>. HIDE DEF j
      <4>. QED BY <1>0, <1>2, <3>1
    <3>4. SubSeq(s, i + 1, j + 1) = Append(q, s[j + 1])
      <4>. HIDE DEF j
      <4>. QED BY <1>0, <3>1 DEF n
    <3>5. BlocksSize(Append(q, s[j + 1])) = BlocksSize(q) + s[j + 1] + SeparatorSize
      <4>. HIDE DEF q, j
      <4>. QED BY <3>2, <3>3, BlocksSizeGrows
    <3>6. /\ Append(q, s[j + 1]) \in Seq(Sizes)
          /\ BlocksSize(Append(q, s[j + 1])) = W[j + 1] - W[i] - SeparatorSize
          /\ W[i] <= W[j + 1]
      <4>. HIDE DEF q, j
      <4>1. Append(q, s[j + 1]) \in Seq(Sizes) BY <3>2, <3>3
      <4>2. W[i] <= W[j + 1] BY <1>0, <3>2, <3>3
      <4>3. BlocksSize(Append(q, s[j + 1])) = W[j + 1] - W[i] - SeparatorSize
        BY <1>0, <3>2, <3>3, <3>5
      <4>. QED BY <4>1, <4>2, <4>3
    <3>. HIDE DEF q
    <3>. QED BY <3>1, <3>4, <3>6
  <2>3. 0 .. d \subseteq P
    <3>. HIDE DEF P
    <3>. QED BY <2>1, <2>2, IntervalInduction
  <2>4. d \in 0 .. d OBVIOUS
  <2>. QED BY <2>3, <2>4
<1>4. ASSUME NEW i \in 0 .. n, NEW j \in 0 .. n, i <= j
      PROVE  /\ W[i] <= W[j] /\ SubSeq(s, i + 1, j) \in Seq(Sizes)
             /\ BlocksSize(SubSeq(s, i + 1, j)) = W[j] - W[i] - SeparatorSize
  <2>. DEFINE d == j - i
  <2>1. d \in Nat /\ i + d <= n /\ i + d = j BY <1>0, <1>4
  <2>. HIDE DEF d
  <2>. QED BY <1>3, <2>1
<1>. QED BY <1>2, <1>4 DEF Offsets, n

-----------------------------------------------------------------------------
(* select_candidates: the ranking.                                         *)

(* r lists S from the best to the worst.                                   *)
IsRanking(r, S) ==
  /\ r \in [1 .. Cardinality(S) -> S]
  /\ \A i, j \in DOMAIN r : i < j => Before(r[i], r[j])

(* Candidates are ranked in a strict total order (selection.py): by score, *)
(* and for equal scores by id.                                             *)
LEMMA BeforeIsOrder ==
  ASSUME TypeOK
  PROVE  /\ \A a \in Articles : ~ Before(a, a)
         /\ \A a, b \in Articles : a # b => Before(a, b) \/ Before(b, a)
         /\ \A a, b, c \in Articles : Before(a, b) /\ Before(b, c) => Before(a, c)
<1>1. ASSUME NEW a \in Articles PROVE a \in Nat /\ score[a] \in Nat
  <2>1. Articles \subseteq Nat /\ Scores \subseteq Nat BY GenerationAssumption
  <2>2. score[a] \in Scores \/ score[a] = 0 BY DEF TypeOK, Refused
  <2>3. a \in Nat BY <2>1
  <2>4. score[a] \in Nat
    <3>1. CASE score[a] \in Scores BY <2>1, <3>1
    <3>2. CASE score[a] = 0 BY <3>2
    <3>. QED BY <2>2, <3>1, <3>2
  <2>. QED BY <2>3, <2>4
<1>. QED BY <1>1 DEF Before

(* The scored articles are finitely many.                                  *)
LEMMA ScoredFinite ==
  /\ IsFiniteSet(Scored) /\ Scored \subseteq Articles
  /\ Cardinality(Scored) \in Nat
<1>1. Scored \subseteq Articles BY DEF Scored
<1>2. IsFiniteSet(Articles) BY GenerationAssumption
<1>. QED BY <1>1, <1>2, FS_Subset, FS_CardinalityType

(* The number of better articles places an article, so a ranking exists.   *)
LEMMA RankingExists ==
  ASSUME TypeOK
  PROVE  IsRanking(Ranked, Scored)
<1>. DEFINE S == Scored
            n == Cardinality(S)
            better(a) == {b \in S : Before(b, a)}
            place == [a \in S |-> Cardinality(better(a)) + 1]
<1>0. IsFiniteSet(S) /\ S \subseteq Articles /\ n \in Nat BY ScoredFinite
<1>1. ASSUME NEW a \in S PROVE /\ IsFiniteSet(better(a))
                               /\ Cardinality(better(a)) \in Nat
                               /\ Cardinality(better(a)) < n
  <2>1. better(a) \subseteq S /\ a \notin better(a) BY <1>0, BeforeIsOrder
  <2>2. better(a) # S BY <2>1
  <2>. HIDE DEF better, S
  <2>. QED BY <1>0, <2>1, <2>2, SubsetSize
<1>2. ASSUME NEW a \in S, NEW b \in S, Before(a, b) PROVE place[a] < place[b]
  <2>1. better(a) \subseteq better(b) /\ a \in better(b) /\ a \notin better(a)
    BY <1>0, <1>2, BeforeIsOrder
  <2>2. Cardinality(better(a)) < Cardinality(better(b))
    <3>1. better(a) # better(b) BY <2>1
    <3>. HIDE DEF better
    <3>. QED BY <1>1, <2>1, <3>1, SubsetSize
  <2>3. Cardinality(better(a)) \in Nat /\ Cardinality(better(b)) \in Nat BY <1>1
  <2>4. place[a] = Cardinality(better(a)) + 1 /\ place[b] = Cardinality(better(b)) + 1
    OBVIOUS
  <2>. HIDE DEF better, place
  <2>. QED BY <2>2, <2>3, <2>4
<1>3. place \in [S -> 1 .. n]
  <2>1. ASSUME NEW a \in S PROVE Cardinality(better(a)) + 1 \in 1 .. n
    <3>1. Cardinality(better(a)) \in Nat /\ Cardinality(better(a)) < n BY <1>1
    <3>. HIDE DEF better, n
    <3>. QED BY <1>0, <3>1
  <2>. HIDE DEF better, n
  <2>. QED BY <2>1
<1>4. \A a, b \in S : place[a] = place[b] => a = b
  <2>. SUFFICES ASSUME NEW a \in S, NEW b \in S, a # b PROVE place[a] # place[b]
    OBVIOUS
  <2>1. Before(a, b) \/ Before(b, a) BY <1>0, BeforeIsOrder
  <2>2. place[a] \in 1 .. n /\ place[b] \in 1 .. n
    <3>. HIDE DEF n, place
    <3>. QED BY <1>3
  <2>. HIDE DEF place, n
  <2>. QED BY <1>0, <1>2, <2>1, <2>2
<1>5. \A i \in 1 .. n : \E a \in S : place[a] = i
  <2>1. place \in Injection(S, 1 .. n)
    <3>. HIDE DEF place, n
    <3>. QED BY <1>3, <1>4 DEF Injection, IsInjective
  <2>2. IsFiniteSet(1 .. n) /\ Cardinality(1 .. n) = n
    <3>. HIDE DEF n
    <3>. QED BY <1>0, FS_Interval
  <2>3. place \in Surjection(S, 1 .. n)
    <3>. HIDE DEF place
    <3>. QED BY <2>1, <2>2, FS_Injection
  <2>. HIDE DEF place, n
  <2>. QED BY <2>3 DEF Surjection
<1>. DEFINE r == [i \in 1 .. n |-> CHOOSE a \in S : place[a] = i]
<1>6. \A i \in 1 .. n : r[i] \in S /\ place[r[i]] = i
  <2>. HIDE DEF place, n
  <2>. QED BY <1>5
<1>7. \A i, j \in 1 .. n : i < j => Before(r[i], r[j])
  <2>. SUFFICES ASSUME NEW i \in 1 .. n, NEW j \in 1 .. n, i < j PROVE Before(r[i], r[j])
    OBVIOUS
  <2>1. r[i] \in S /\ r[j] \in S /\ place[r[i]] = i /\ place[r[j]] = j BY <1>6
  <2>. HIDE DEF place, r
  <2>2. r[i] # r[j] BY <2>1
  <2>3. ~ Before(r[j], r[i]) BY <1>0, <1>2, <2>1
  <2>. QED BY <1>0, <2>1, <2>2, <2>3, BeforeIsOrder
<1>8. IsRanking(r, S)
  <2>1. r \in [1 .. n -> S] /\ DOMAIN r = 1 .. n BY <1>6
  <2>. HIDE DEF r, place
  <2>. QED BY <1>7, <2>1 DEF IsRanking
<1>9. \E q \in [1 .. Cardinality(Scored) -> Scored] :
        \A i, j \in DOMAIN q : i < j => Before(q[i], q[j])
  <2>. HIDE DEF r
  <2>. QED BY <1>8 DEF IsRanking
<1>. QED BY <1>9 DEF IsRanking, Ranked

(* A ranking lists every article of S once.                                *)
LEMMA RankingLists ==
  ASSUME TypeOK, NEW S, S \subseteq Articles, IsFiniteSet(S), NEW r, IsRanking(r, S)
  PROVE  /\ Cardinality(S) \in Nat
         /\ \A i, j \in 1 .. Cardinality(S) : r[i] = r[j] => i = j
         /\ \A i, j \in 1 .. Cardinality(S) : Before(r[i], r[j]) <=> i < j
         /\ \A a \in S : \E i \in 1 .. Cardinality(S) : r[i] = a
<1>. DEFINE n == Cardinality(S)
<1>1. n \in Nat BY FS_CardinalityType
<1>2. r \in [1 .. n -> S] /\ \A i, j \in 1 .. n : i < j => Before(r[i], r[j])
  BY DEF IsRanking
<1>. HIDE DEF n
<1>3. \A i \in 1 .. n : r[i] \in Articles BY <1>2
<1>4. \A i, j \in 1 .. n : Before(r[i], r[j]) <=> i < j
  <2>. SUFFICES ASSUME NEW i \in 1 .. n, NEW j \in 1 .. n, Before(r[i], r[j])
                PROVE  i < j
    BY <1>2
  <2>1. ~ Before(r[j], r[i]) /\ r[i] # r[j] BY <1>3, BeforeIsOrder
  <2>2. i # j /\ ~ (j < i) BY <1>2, <2>1
  <2>. QED BY <1>1, <2>2
<1>5. \A i, j \in 1 .. n : r[i] = r[j] => i = j
  <2>. SUFFICES ASSUME NEW i \in 1 .. n, NEW j \in 1 .. n, r[i] = r[j], i # j
                PROVE  FALSE
    OBVIOUS
  <2>1. i < j \/ j < i BY <1>1
  <2>2. ~ Before(r[i], r[j]) /\ ~ Before(r[j], r[i]) BY <1>3, BeforeIsOrder
  <2>. QED BY <1>2, <2>1, <2>2
<1>6. \A a \in S : \E i \in 1 .. n : r[i] = a
  <2>1. r \in Injection(1 .. n, S) BY <1>2, <1>5 DEF Injection, IsInjective
  <2>2. Cardinality(1 .. n) = Cardinality(S) BY <1>1, FS_Interval DEF n
  <2>3. r \in Surjection(1 .. n, S) BY <2>1, <2>2, FS_Injection
  <2>. QED BY <2>3 DEF Surjection
<1>. QED BY <1>1, <1>4, <1>5, <1>6 DEF n

(* The loop of select_candidates, one article at a time: FoldLeft's value  *)
(* is the last of a sequence of states.                                    *)
LEMMA SelectLoop ==
  ASSUME NEW n \in Nat, NEW ranking \in [1 .. n -> Articles]
  PROVE  \E chosen \in [0 .. n -> Seq(Articles)] :
           /\ chosen[0] = <<>>
           /\ \A k \in 1 .. n : chosen[k] = Take(chosen[k - 1], ranking[k])
           /\ FoldLeft(Take, <<>>, ranking) = chosen[n]
<1>. DEFINE D == 1 .. n
            c == [s \in SUBSET D |-> Max(s)]
            G == [i \in D |-> [v \in Seq(Articles) |-> Take(v, ranking[i])]]
            Body(g) == [s \in SUBSET D |->
                          IF s = {} THEN <<>>
                          ELSE Take(g[s \ {Max(s)}], ranking[Max(s)])]
            iter == CHOOSE g : g = Body(g)
<1>1. FoldLeft(Take, <<>>, ranking) = iter[1 .. n]
  BY DEF FoldLeft, MapThenFoldSet
<1>2. IsFiniteSet(D) /\ Picks(c, D)
  <2>1. 1 \in Int /\ n \in Int OBVIOUS
  <2>2. IsFiniteSet(D) BY <2>1, FS_Interval
  <2>3. \A s \in SUBSET D : s # {} => Max(s) \in s BY MaxOfInterval
  <2>. QED BY <2>2, <2>3 DEF Picks
<1>3. \A v \in Seq(Articles), i \in D : Take(v, ranking[i]) \in Seq(Articles)
  BY DEF Take
<1>4. G \in [D -> [Seq(Articles) -> Seq(Articles)]] BY <1>3
<1>5. PICK g \in [SUBSET D -> Seq(Articles)] :
        \A s \in SUBSET D : g[s] = IF s = {} THEN <<>> ELSE G[c[s]][g[s \ {c[s]}]]
  <2>. DEFINE V == Seq(Articles)
              base == <<>>
  <2>1. base \in V /\ G \in [D -> [V -> V]] BY <1>4
  <2>2. \E g : IsFold(g, D, V, base, c, G)
    <3>. HIDE DEF D, c, G, V, base
    <3>. QED BY <1>2, <2>1, FoldExists
  <2>. QED BY <2>2 DEF IsFold
<1>6. g = Body(g)
  <2>1. ASSUME NEW s \in SUBSET D, s # {}
        PROVE  g[s] = Take(g[s \ {Max(s)}], ranking[Max(s)])
    <3>1. c[s] = Max(s) /\ Max(s) \in D /\ s \ {Max(s)} \in SUBSET D
      BY <1>2, <2>1 DEF Picks
    <3>2. g[s] = G[c[s]][g[s \ {c[s]}]] BY <1>5, <2>1
    <3>3. g[s \ {Max(s)}] \in Seq(Articles) BY <3>1
    <3>. HIDE DEF D, c
    <3>. QED BY <3>1, <3>2, <3>3
  <2>. QED BY <1>5, <2>1
<1>7. iter = Body(iter)
  <2>. HIDE DEF Body
  <2>. QED BY <1>6
<1>8. iter[{}] = <<>>
  <2>1. Body(iter)[{}] = <<>> OBVIOUS
  <2>. HIDE DEF Body, iter
  <2>. QED BY <1>7, <2>1
<1>9. ASSUME NEW k \in 1 .. n PROVE iter[1 .. k] = Take(iter[1 .. k - 1], ranking[k])
  <2>0. (1 .. k) \ {k} = 1 .. k - 1 OBVIOUS
  <2>1. (1 .. k) \in SUBSET D /\ k \in 1 .. k OBVIOUS
  <2>2. Max(1 .. k) = k BY MaxOfInterval
  <2>3. Body(iter)[1 .. k] = Take(iter[(1 .. k) \ {Max(1 .. k)}], ranking[Max(1 .. k)])
    <3>. HIDE DEF iter
    <3>. QED BY <2>1
  <2>. HIDE DEF Body, iter
  <2>. QED BY <1>7, <2>0, <2>2, <2>3
<1>. DEFINE chosen == [k \in 0 .. n |-> iter[1 .. k]]
<1>10. chosen[0] = <<>>
  <2>1. 1 .. 0 = {} OBVIOUS
  <2>. HIDE DEF iter
  <2>. QED BY <1>8, <2>1
<1>11. \A k \in 1 .. n : chosen[k] = Take(chosen[k - 1], ranking[k])
  <2>. HIDE DEF iter
  <2>. QED BY <1>9
<1>12. chosen \in [0 .. n -> Seq(Articles)]
  <2>. DEFINE S == {k \in 0 .. n : chosen[k] \in Seq(Articles)}
  <2>1. 0 \in S
    <3>1. <<>> \in Seq(Articles) /\ 0 \in 0 .. n OBVIOUS
    <3>2. chosen[0] \in Seq(Articles)
      <4>. HIDE DEF chosen
      <4>. QED BY <1>10, <3>1
    <3>. HIDE DEF chosen
    <3>. QED BY <3>1, <3>2
  <2>2. ASSUME NEW k \in 0 .. n - 1, k \in S PROVE k + 1 \in S
    <3>1. k + 1 \in 1 .. n /\ (k + 1) - 1 = k OBVIOUS
    <3>. HIDE DEF chosen
    <3>. QED BY <1>3, <1>11, <2>2, <3>1
  <2>3. 0 .. n \subseteq S
    <3>. HIDE DEF S
    <3>. QED BY <2>1, <2>2, IntervalInduction
  <2>. QED BY <2>3
<1>. HIDE DEF chosen
<1>13. FoldLeft(Take, <<>>, ranking) = chosen[n]
  BY <1>1 DEF chosen
<1>. QED BY <1>10, <1>11, <1>12, <1>13

(* The articles a ranking lists first, those of one source among them, and *)
(* the articles within the best MaxPerSource of their source.              *)
First(r, k) == {r[j] : j \in 1 .. k}
FirstFrom(r, k, s) == {a \in First(r, k) : SourceOf[a] = s}
Better(a) == {b \in Scored : Before(b, a)}
Eligible ==
  {a \in Scored : Cardinality({b \in Better(a) : SourceOf[b] = SourceOf[a]}) < MaxPerSource}

(* One article more of a ranking.                                          *)
LEMMA FirstGrows ==
  ASSUME NEW r, NEW k \in Nat
  PROVE  /\ First(r, 0) = {}
         /\ First(r, k + 1) = First(r, k) \cup {r[k + 1]}
BY DEF First

(* What is better than an article is what a ranking lists before it.       *)
LEMMA BetterIsFirst ==
  ASSUME TypeOK, NEW r, IsRanking(r, Scored), NEW k \in Nat, k + 1 <= Cardinality(Scored)
  PROVE  /\ Better(r[k + 1]) = First(r, k)
         /\ r[k + 1] \in Scored /\ r[k + 1] \notin First(r, k)
         /\ First(r, k) \subseteq Scored /\ IsFiniteSet(First(r, k))
<1>. DEFINE n == Cardinality(Scored)
<1>1. n \in Nat /\ IsFiniteSet(Scored) /\ Scored \subseteq Articles BY ScoredFinite
<1>2. /\ \A i, j \in 1 .. n : r[i] = r[j] => i = j
      /\ \A i, j \in 1 .. n : Before(r[i], r[j]) <=> i < j
      /\ \A a \in Scored : \E i \in 1 .. n : r[i] = a
  BY <1>1, RankingLists
<1>3. \A i \in 1 .. n : r[i] \in Scored BY DEF IsRanking
<1>. HIDE DEF n
<1>4. k + 1 \in 1 .. n /\ \A j \in 1 .. k : j \in 1 .. n /\ j < k + 1
  BY <1>1 DEF n
<1>5. First(r, k) \subseteq Scored BY <1>3, <1>4 DEF First
<1>6. ASSUME NEW b \in Scored PROVE Before(b, r[k + 1]) <=> b \in First(r, k)
  <2>1. PICK i \in 1 .. n : r[i] = b BY <1>2
  <2>2. Before(b, r[k + 1]) <=> i < k + 1 BY <1>2, <1>4, <2>1
  <2>3. i < k + 1 <=> i \in 1 .. k BY <1>1
  <2>4. i \in 1 .. k => b \in First(r, k) BY <2>1 DEF First
  <2>5. ASSUME b \in First(r, k) PROVE i \in 1 .. k
    <3>1. PICK j \in 1 .. k : r[j] = b BY <2>5 DEF First
    <3>2. j = i BY <1>2, <1>4, <2>1, <3>1
    <3>. QED BY <3>2
  <2>. QED BY <2>2, <2>3, <2>4, <2>5
<1>7. r[k + 1] \notin First(r, k)
  <2>1. \A j \in 1 .. k : r[j] # r[k + 1]
    <3>. SUFFICES ASSUME NEW j \in 1 .. k, r[j] = r[k + 1] PROVE FALSE
      OBVIOUS
    <3>1. j = k + 1 BY <1>2, <1>4
    <3>. QED BY <3>1
  <2>. QED BY <2>1 DEF First
<1>8. IsFiniteSet(First(r, k)) BY <1>1, <1>5, FS_Subset
<1>. QED BY <1>3, <1>4, <1>5, <1>6, <1>7, <1>8 DEF Better

(* An article among the first is better than the rest only of the first.   *)
LEMMA BetterWithin ==
  ASSUME TypeOK, NEW r, IsRanking(r, Scored),
         NEW k \in 0 .. Cardinality(Scored), NEW a \in First(r, k)
  PROVE  /\ k \in Nat /\ a \in Scored /\ Better(a) \subseteq First(r, k) \ {a}
         /\ k # 0 /\ Better(a) \subseteq First(r, k - 1)
<1>0. Cardinality(Scored) \in Nat BY ScoredFinite
<1>1. PICK j \in 1 .. k : a = r[j] BY DEF First
<1>2. j - 1 \in Nat /\ (j - 1) + 1 = j /\ j <= Cardinality(Scored) /\ k \in Nat /\ k # 0
  BY <1>0
<1>3. Better(a) = First(r, j - 1) /\ a \in Scored /\ a \notin First(r, j - 1)
  <2>. DEFINE i == j - 1
  <2>1. i \in Nat /\ i + 1 = j BY <1>2
  <2>. HIDE DEF i
  <2>2. Better(r[i + 1]) = First(r, i) /\ r[i + 1] \in Scored /\ r[i + 1] \notin First(r, i)
    BY <1>2, <2>1, BetterIsFirst
  <2>. QED BY <1>1, <2>1, <2>2 DEF i
<1>4. First(r, j - 1) \subseteq First(r, k) /\ First(r, j - 1) \subseteq First(r, k - 1)
  BY <1>2 DEF First
<1>. QED BY <1>2, <1>3, <1>4

(* The first of a ranking are finitely many of the scored.                 *)
LEMMA FirstFinite ==
  ASSUME TypeOK, NEW r, IsRanking(r, Scored), NEW k \in 0 .. Cardinality(Scored)
  PROVE  First(r, k) \subseteq Scored /\ IsFiniteSet(First(r, k)) /\ k \in Nat
<1>1. First(r, k) \subseteq Scored BY BetterWithin
<1>. QED BY <1>1, ScoredFinite, FS_Subset

(* The articles within the cap of their source are enough to reach it.     *)
LEMMA CapReached ==
  ASSUME TypeOK, NEW r, IsRanking(r, Scored), NEW s,
         NEW m \in 0 .. Cardinality(Scored),
         Cardinality(FirstFrom(r, m, s)) >= MaxPerSource
  PROVE  Cardinality(FirstFrom(r, m, s) \cap Eligible) >= MaxPerSource
<1>. DEFINE n == Cardinality(Scored)
            FF(k) == FirstFrom(r, k, s)
            P == {k \in 0 .. n : Cardinality(FF(k)) >= MaxPerSource
                                   => Cardinality(FF(k) \cap Eligible) >= MaxPerSource}
<1>0. n \in Nat /\ MaxPerSource \in Nat /\ MaxPerSource > 0
  <2>1. MaxPerSource \in Nat \ {0} BY GenerationAssumption
  <2>. QED BY <2>1, ScoredFinite
<1>1. ASSUME NEW k \in 0 .. n
      PROVE  /\ IsFiniteSet(FF(k)) /\ FF(k) \subseteq Scored
             /\ Cardinality(FF(k)) \in Nat
             /\ IsFiniteSet(FF(k) \cap Eligible) /\ Cardinality(FF(k) \cap Eligible) \in Nat
  <2>1. First(r, k) \subseteq Scored /\ IsFiniteSet(First(r, k)) BY FirstFinite
  <2>2. FF(k) \subseteq First(r, k) BY DEF FirstFrom
  <2>3. FF(k) \cap Eligible \subseteq First(r, k) BY <2>2
  <2>. QED BY <2>1, <2>2, <2>3, SubsetSize
<1>2. 0 \in P
  <2>1. FF(0) = {} BY DEF FirstFrom, First
  <2>2. Cardinality(FF(0)) = 0 BY <2>1, FS_EmptySet
  <2>. HIDE DEF FF
  <2>. QED BY <1>0, <2>2
<1>3. ASSUME NEW k \in 0 .. n - 1, k \in P PROVE k + 1 \in P
  <2>0. k + 1 \in 0 .. n /\ k \in 0 .. n /\ k \in Nat /\ k + 1 # 0 /\ (k + 1) - 1 = k BY <1>0
  <2>1. FF(k) \subseteq FF(k + 1) /\ FF(k + 1) \subseteq FF(k) \cup {r[k + 1]}
    BY <2>0, FirstGrows DEF FirstFrom
  <2>2. SUFFICES ASSUME Cardinality(FF(k + 1)) >= MaxPerSource
                 PROVE  Cardinality(FF(k + 1) \cap Eligible) >= MaxPerSource
    BY <2>0
  <2>3. CASE Cardinality(FF(k)) >= MaxPerSource
    <3>1. Cardinality(FF(k) \cap Eligible) >= MaxPerSource BY <1>3, <2>3
    <3>2. FF(k) \cap Eligible \subseteq FF(k + 1) \cap Eligible BY <2>1
    <3>3. IsFiniteSet(FF(k + 1) \cap Eligible) BY <1>1, <2>0
    <3>4. /\ Cardinality(FF(k) \cap Eligible) <= Cardinality(FF(k + 1) \cap Eligible)
          /\ Cardinality(FF(k) \cap Eligible) \in Nat
          /\ Cardinality(FF(k + 1) \cap Eligible) \in Nat
      <4>. HIDE DEF FF
      <4>. QED BY <3>2, <3>3, SubsetSize
    <3>. HIDE DEF FF
    <3>. QED BY <1>0, <3>1, <3>4
  <2>4. CASE ~ (Cardinality(FF(k)) >= MaxPerSource)
    <3>1. ASSUME NEW a \in FF(k + 1) PROVE a \in Eligible
      <4>1. a \in First(r, k + 1) /\ SourceOf[a] = s BY DEF FirstFrom
      <4>2. a \in Scored /\ Better(a) \subseteq First(r, k)
        BY <2>0, <4>1, BetterWithin
      <4>3. {b \in Better(a) : SourceOf[b] = SourceOf[a]} \subseteq FF(k)
        BY <4>1, <4>2 DEF FirstFrom
      <4>4. IsFiniteSet(FF(k)) /\ Cardinality(FF(k)) \in Nat BY <1>1, <2>0
      <4>. DEFINE same == {b \in Better(a) : SourceOf[b] = SourceOf[a]}
      <4>5. Cardinality(same) <= Cardinality(FF(k)) /\ Cardinality(same) \in Nat
        <5>. HIDE DEF same, FF
        <5>. QED BY <4>3, <4>4, SubsetSize DEF same
      <4>6. Cardinality(same) < MaxPerSource
        <5>. HIDE DEF same, FF
        <5>. QED BY <1>0, <2>4, <4>4, <4>5
      <4>. QED BY <4>2, <4>6 DEF Eligible
    <3>2. FF(k + 1) \cap Eligible = FF(k + 1)
      <4>. HIDE DEF FF
      <4>. QED BY <3>1
    <3>. HIDE DEF FF
    <3>. QED BY <2>2, <3>2
  <2>. QED BY <2>3, <2>4
<1>4. 0 .. n \subseteq P
  <2>. HIDE DEF P, n
  <2>. QED BY <1>0, <1>2, <1>3, IntervalInduction
<1>. QED BY <1>4

(* What the loop has selected when it has seen the first k articles of a   *)
(* ranking r: it is sorted, and has the eligible articles among them until *)
(* the limit is reached.                                                   *)
Selected(r, k, C) ==
  /\ C \in Seq(Articles) /\ Len(C) <= MaxCandidates
  /\ \A i \in 1 .. Len(C) : C[i] \in First(r, k) \cap Eligible
  /\ \A i, j \in 1 .. Len(C) : i < j => Before(C[i], C[j])
  /\ Len(C) < MaxCandidates =>
       \A a \in First(r, k) \cap Eligible : \E i \in 1 .. Len(C) : C[i] = a
  /\ \A a \in First(r, k) \cap Eligible :
       (\E i \in 1 .. Len(C) : C[i] = a)
         <=> Cardinality(Better(a) \cap Eligible) < MaxCandidates

(* Nothing is selected twice, and the selected are counted by their number. *)
LEMMA SelectedOnce ==
  ASSUME TypeOK, NEW r, IsRanking(r, Scored), NEW k \in 0 .. Cardinality(Scored),
         NEW C, Selected(r, k, C)
  PROVE  /\ \A i, j \in 1 .. Len(C) : C[i] = C[j] => i = j
         /\ Len(C) <= Cardinality(First(r, k) \cap Eligible)
         /\ Len(C) < MaxCandidates => Cardinality(First(r, k) \cap Eligible) = Len(C)
<1>. DEFINE D == 1 .. Len(C)
            T == {C[i] : i \in D}
            FE == First(r, k) \cap Eligible
<1>0. C \in Seq(Articles) /\ Len(C) \in Nat BY DEF Selected
<1>1. ASSUME NEW i \in D, NEW j \in D, C[i] = C[j] PROVE i = j
  <2>1. C[i] \in Articles BY <1>0
  <2>2. ~ Before(C[i], C[j]) /\ ~ Before(C[j], C[i]) BY <1>1, <2>1, BeforeIsOrder
  <2>3. ~ (i < j) /\ ~ (j < i) BY <2>2 DEF Selected
  <2>. QED BY <1>0, <2>3
<1>2. IsFiniteSet(D) /\ Cardinality(D) = Len(C)
  <2>. DEFINE m == Len(C)
  <2>1. m \in Nat /\ 1 \in Int BY <1>0
  <2>. HIDE DEF m
  <2>2. IsFiniteSet(1 .. m) /\ Cardinality(1 .. m) = m BY <2>1, FS_Interval
  <2>. QED BY <2>2 DEF m
<1>3. IsFiniteSet(T) /\ Cardinality(T) = Len(C)
  <2>1. \A x, y \in D : C[x] = C[y] => x = y BY <1>1
  <2>. HIDE DEF D
  <2>2. IsFiniteSet({C[x] : x \in D}) /\ Cardinality({C[x] : x \in D}) = Cardinality(D)
    BY <1>2, <2>1, InjectionSize
  <2>. QED BY <1>2, <2>2
<1>4. IsFiniteSet(FE)
  <2>1. IsFiniteSet(First(r, k)) BY FirstFinite
  <2>. QED BY <2>1, FS_Subset
<1>5. T \subseteq FE BY DEF Selected
<1>6. Len(C) < MaxCandidates => T = FE
  <2>1. Len(C) < MaxCandidates => \A a \in FE : a \in T BY DEF Selected
  <2>. HIDE DEF T, FE
  <2>. QED BY <1>5, <2>1
<1>7. Cardinality(T) <= Cardinality(FE)
  <2>. HIDE DEF T, FE
  <2>. QED BY <1>4, <1>5, SubsetSize
<1>. HIDE DEF T
<1>. QED BY <1>1, <1>3, <1>6, <1>7

(* Until the limit is reached, as many are taken from a source as are      *)
(* eligible of it, so an article is taken if and only if it is eligible.   *)
LEMMA TakenCount ==
  ASSUME TypeOK, NEW r, IsRanking(r, Scored), NEW k \in Nat, k + 1 <= Cardinality(Scored),
         NEW C, Selected(r, k, C), Len(C) < MaxCandidates
  PROVE  TakenFrom(SourceOf[r[k + 1]], C) >= MaxPerSource <=> r[k + 1] \notin Eligible
<1>. DEFINE s == SourceOf[r[k + 1]]
            D == {i \in 1 .. Len(C) : SourceOf[C[i]] = s}
            FF == FirstFrom(r, k, s)
<1>0. Cardinality(Scored) \in Nat /\ k \in 0 .. Cardinality(Scored) BY ScoredFinite
<1>1. C \in Seq(Articles) /\ Len(C) \in Nat /\ DOMAIN C = 1 .. Len(C) BY DEF Selected
<1>2. TakenFrom(s, C) = Cardinality(D) BY <1>1 DEF TakenFrom
<1>3. {C[i] : i \in D} = FF \cap Eligible
  <2>1. ASSUME NEW i \in D PROVE C[i] \in FF \cap Eligible BY DEF Selected, FirstFrom
  <2>2. ASSUME NEW a \in FF \cap Eligible PROVE \E i \in D : C[i] = a
    BY DEF Selected, FirstFrom
  <2>. HIDE DEF D, FF
  <2>. QED BY <2>1, <2>2
<1>4. Cardinality({C[i] : i \in D}) = Cardinality(D)
  <2>1. D \subseteq 1 .. Len(C) /\ IsFiniteSet(1 .. Len(C)) BY <1>1, FS_Interval
  <2>2. IsFiniteSet(D) BY <2>1, FS_Subset
  <2>3. \A x, y \in D : C[x] = C[y] => x = y BY <1>0, <2>1, SelectedOnce
  <2>. HIDE DEF D
  <2>. QED BY <2>2, <2>3, InjectionSize
<1>5. TakenFrom(s, C) = Cardinality(FF \cap Eligible)
  <2>. HIDE DEF D, FF
  <2>. QED BY <1>2, <1>3, <1>4
<1>6. Better(r[k + 1]) = First(r, k) /\ r[k + 1] \in Scored /\ IsFiniteSet(First(r, k))
  BY BetterIsFirst
<1>7. {b \in Better(r[k + 1]) : SourceOf[b] = SourceOf[r[k + 1]]} = FF
  BY <1>6 DEF FirstFrom
<1>8. r[k + 1] \in Eligible <=> Cardinality(FF) < MaxPerSource
  BY <1>6, <1>7 DEF Eligible
<1>9. /\ Cardinality(FF \cap Eligible) <= Cardinality(FF)
      /\ Cardinality(FF) \in Nat /\ Cardinality(FF \cap Eligible) \in Nat
  <2>1. FF \subseteq First(r, k) BY DEF FirstFrom
  <2>. HIDE DEF FF
  <2>2. IsFiniteSet(FF) BY <1>6, <2>1, FS_Subset
  <2>. QED BY <2>2, SubsetSize
<1>10. Cardinality(FF) >= MaxPerSource => Cardinality(FF \cap Eligible) >= MaxPerSource
  BY <1>0, CapReached
<1>11. MaxPerSource \in Nat
  BY GenerationAssumption
<1>. HIDE DEF FF
<1>. QED BY <1>5, <1>8, <1>9, <1>10, <1>11 DEF s

(* The body of the loop keeps what is said of the selected: an article     *)
(* that is not eligible finds the cap of its source reached, and an        *)
(* eligible one is taken until the limit.                                  *)
LEMMA SelectStep ==
  ASSUME TypeOK, NEW r, IsRanking(r, Scored), NEW k \in Nat, k + 1 <= Cardinality(Scored),
         NEW C, Selected(r, k, C)
  PROVE  Selected(r, k + 1, Take(C, r[k + 1]))
<1>. DEFINE a == r[k + 1]
            F == First(r, k)
            G == First(r, k + 1)
<1>0. /\ Cardinality(Scored) \in Nat /\ k \in 0 .. Cardinality(Scored)
      /\ Scored \subseteq Articles /\ MaxCandidates \in Nat /\ MaxCandidates > 0
  <2>1. MaxCandidates \in Nat \ {0} BY GenerationAssumption
  <2>. QED BY <2>1, ScoredFinite
<1>1. Better(a) = F /\ a \in Scored /\ a \notin F /\ F \subseteq Scored /\ IsFiniteSet(F)
  BY BetterIsFirst
<1>2. G = F \cup {a} BY FirstGrows
<1>3. C \in Seq(Articles) /\ Len(C) \in Nat /\ a \in Articles BY <1>0, <1>1 DEF Selected
<1>4. /\ Cardinality(F \cap Eligible) \in Nat /\ Len(C) <= Cardinality(F \cap Eligible)
      /\ Len(C) < MaxCandidates => Cardinality(F \cap Eligible) = Len(C)
  <2>1. IsFiniteSet(F \cap Eligible) BY <1>1, FS_Subset
  <2>. QED BY <1>0, <2>1, SelectedOnce, FS_CardinalityType
<1>5. \A i \in 1 .. Len(C) : C[i] \in F /\ Before(C[i], a)
  BY <1>1 DEF Selected, Better
<1>. HIDE DEF F, G, a
<1>6. CASE Len(C) >= MaxCandidates
  <2>1. Take(C, a) = C BY <1>6 DEF Take
  <2>2. ~ (Cardinality(Better(a) \cap Eligible) < MaxCandidates)
    BY <1>0, <1>1, <1>3, <1>4, <1>6
  <2>3. a \notin {C[i] : i \in 1 .. Len(C)} BY <1>1, <1>5
  <2>4. ~ (Len(C) < MaxCandidates) BY <1>0, <1>3, <1>6
  <2>5. \A i \in 1 .. Len(C) : C[i] \in G \cap Eligible BY <1>2 DEF Selected, F
  <2>6. \A b \in G \cap Eligible :
          (\E i \in 1 .. Len(C) : C[i] = b)
            <=> Cardinality(Better(b) \cap Eligible) < MaxCandidates
    <3>. SUFFICES ASSUME NEW b \in G \cap Eligible
                  PROVE  (\E i \in 1 .. Len(C) : C[i] = b)
                           <=> Cardinality(Better(b) \cap Eligible) < MaxCandidates
      OBVIOUS
    <3>1. CASE b = a BY <2>2, <2>3, <3>1
    <3>2. CASE b # a
      <4>1. b \in F \cap Eligible BY <1>2, <3>2
      <4>. QED BY <4>1 DEF Selected, F
    <3>. QED BY <3>1, <3>2
  <2>7. Selected(r, k + 1, C) BY <2>4, <2>5, <2>6 DEF Selected, G
  <2>. QED BY <2>1, <2>7 DEF a
<1>7. CASE Len(C) < MaxCandidates /\ a \notin Eligible
  <2>1. Take(C, a) = C BY <1>7, TakenCount DEF Take, a
  <2>2. G \cap Eligible = F \cap Eligible BY <1>2, <1>7
  <2>3. Selected(r, k + 1, C) BY <2>2 DEF Selected, F, G
  <2>. QED BY <2>1, <2>3 DEF a
<1>8. CASE Len(C) < MaxCandidates /\ a \in Eligible
  <2>. DEFINE A == Append(C, a)
  <2>1. Take(C, a) = A
    <3>1. ~ (TakenFrom(SourceOf[a], C) >= MaxPerSource) BY <1>8, TakenCount DEF a
    <3>2. ~ (Len(C) >= MaxCandidates) BY <1>0, <1>3, <1>8
    <3>. QED BY <3>1, <3>2 DEF Take
  <2>2. /\ A \in Seq(Articles) /\ Len(A) = Len(C) + 1 /\ A[Len(C) + 1] = a
        /\ \A i \in 1 .. Len(C) : A[i] = C[i]
        /\ \A i \in 1 .. Len(A) : i \in 1 .. Len(C) \/ i = Len(C) + 1
        /\ 1 .. Len(C) \subseteq 1 .. Len(A) /\ Len(C) + 1 \in 1 .. Len(A)
    BY <1>3
  <2>. HIDE DEF A
  <2>3. Len(A) <= MaxCandidates BY <1>0, <1>3, <1>8, <2>2
  <2>4. ASSUME NEW i \in 1 .. Len(A) PROVE A[i] \in G \cap Eligible
    <3>1. CASE i \in 1 .. Len(C)
      <4>1. C[i] \in F \cap Eligible BY <3>1 DEF Selected, F
      <4>. QED BY <1>2, <2>2, <3>1, <4>1
    <3>2. CASE i = Len(C) + 1 BY <1>2, <1>8, <2>2, <3>2
    <3>. QED BY <2>2, <3>1, <3>2
  <2>5. ASSUME NEW i \in 1 .. Len(A), NEW j \in 1 .. Len(A), i < j
        PROVE  Before(A[i], A[j])
    <3>1. i \in 1 .. Len(C) BY <1>3, <2>2, <2>5
    <3>2. CASE j \in 1 .. Len(C)
      <4>1. Before(C[i], C[j]) BY <2>5, <3>1, <3>2 DEF Selected
      <4>. QED BY <2>2, <3>1, <3>2, <4>1
    <3>3. CASE j = Len(C) + 1 BY <1>5, <2>2, <3>1, <3>3
    <3>. QED BY <2>2, <3>2, <3>3
  <2>6. ASSUME NEW b \in G \cap Eligible
        PROVE  /\ \E i \in 1 .. Len(A) : A[i] = b
               /\ Cardinality(Better(b) \cap Eligible) < MaxCandidates
    <3>1. CASE b = a
      <4>1. \E i \in 1 .. Len(A) : A[i] = b BY <2>2, <3>1
      <4>2. Cardinality(Better(b) \cap Eligible) < MaxCandidates BY <1>1, <1>4, <1>8, <3>1
      <4>. QED BY <4>1, <4>2
    <3>2. CASE b # a
      <4>1. b \in F \cap Eligible BY <1>2, <3>2
      <4>2. PICK i \in 1 .. Len(C) : C[i] = b BY <1>8, <4>1 DEF Selected, F
      <4>3. Cardinality(Better(b) \cap Eligible) < MaxCandidates
        BY <4>1, <4>2 DEF Selected, F
      <4>4. A[i] = b /\ i \in 1 .. Len(A) BY <2>2, <4>2
      <4>. QED BY <4>3, <4>4
    <3>. QED BY <3>1, <3>2
  <2>7. Selected(r, k + 1, A) BY <2>2, <2>3, <2>4, <2>5, <2>6 DEF Selected, G
  <2>. QED BY <2>1, <2>7 DEF a
<1>. QED BY <1>0, <1>3, <1>6, <1>7, <1>8

(* select_candidates (selection.py:60-79).                                 *)
LEMMA SelectionLemma ==
  ASSUME TypeOK
  PROVE  Selected(Ranked, Cardinality(Scored), FoldLeft(Take, <<>>, Ranked))
<1>. DEFINE n == Cardinality(Scored)
            r == Ranked
<1>0. n \in Nat /\ Scored \subseteq Articles /\ MaxCandidates \in Nat
  BY ScoredFinite, GenerationAssumption
<1>1. IsRanking(r, Scored) BY RankingExists
<1>2. r \in [1 .. n -> Articles] BY <1>0, <1>1 DEF IsRanking
<1>. HIDE DEF r
<1>3. PICK C \in [0 .. n -> Seq(Articles)] :
        /\ C[0] = <<>>
        /\ \A k \in 1 .. n : C[k] = Take(C[k - 1], r[k])
        /\ FoldLeft(Take, <<>>, r) = C[n]
  <2>. HIDE DEF n
  <2>. QED BY <1>0, <1>2, SelectLoop
<1>. DEFINE P == {k \in 0 .. n : Selected(r, k, C[k])}
<1>4. 0 \in P
  <2>1. Len(C[0]) = 0 /\ C[0] \in Seq(Articles) BY <1>3
  <2>2. First(r, 0) = {} BY DEF First
  <2>3. Selected(r, 0, C[0]) BY <1>0, <2>1, <2>2 DEF Selected
  <2>. QED BY <1>0, <2>3
<1>5. ASSUME NEW k \in 0 .. n - 1, k \in P PROVE k + 1 \in P
  <2>1. k \in Nat /\ k + 1 <= n /\ k + 1 \in 1 .. n /\ (k + 1) - 1 = k BY <1>0
  <2>2. C[k + 1] = Take(C[k], r[k + 1]) BY <1>3, <2>1
  <2>3. Selected(r, k, C[k]) BY <1>5
  <2>4. Selected(r, k + 1, Take(C[k], r[k + 1])) BY <1>1, <2>1, <2>3, SelectStep
  <2>. QED BY <2>1, <2>2, <2>4
<1>6. 0 .. n \subseteq P
  <2>. HIDE DEF P, n
  <2>. QED BY <1>0, <1>4, <1>5, IntervalInduction
<1>7. Selected(r, n, C[n])
  <2>1. n \in 0 .. n BY <1>0
  <2>. HIDE DEF n
  <2>. QED BY <1>6, <2>1
<1>. QED BY <1>3, <1>7 DEF r

-----------------------------------------------------------------------------
(* What the steps do.                                                      *)

(* What the loop selects is the best of the eligible, each once.           *)
LEMMA SelectEffect ==
  ASSUME TypeOK, Select
  PROVE  /\ candidates' \in Seq(Articles) /\ Len(candidates') <= MaxCandidates
         /\ \A i, j \in DOMAIN candidates' : i < j => Before(candidates'[i], candidates'[j])
         /\ IsInjective(candidates')
         /\ ToSet(candidates') =
              {a \in Eligible : Cardinality(Better(a) \cap Eligible) < MaxCandidates}
<1>. DEFINE C == FoldLeft(Take, <<>>, Ranked)
            n == Cardinality(Scored)
<1>1. candidates' = C BY DEF Select
<1>2. Selected(Ranked, n, C) /\ n \in 0 .. n /\ IsRanking(Ranked, Scored)
  BY SelectionLemma, ScoredFinite, RankingExists
<1>3. First(Ranked, n) \cap Eligible = Eligible
  <2>1. \A a \in Scored : \E i \in 1 .. n : Ranked[i] = a
    BY <1>2, ScoredFinite, RankingLists
  <2>2. \A a \in Scored : a \in First(Ranked, n)
    <3>. HIDE DEF n
    <3>. QED BY <2>1 DEF First
  <2>. QED BY <2>2 DEF Eligible
<1>. HIDE DEF C, n
<1>4. /\ C \in Seq(Articles) /\ Len(C) <= MaxCandidates /\ DOMAIN C = 1 .. Len(C)
      /\ \A i \in 1 .. Len(C) : C[i] \in Eligible
      /\ \A i, j \in 1 .. Len(C) : i < j => Before(C[i], C[j])
      /\ \A a \in Eligible : (\E i \in 1 .. Len(C) : C[i] = a)
                               <=> Cardinality(Better(a) \cap Eligible) < MaxCandidates
  BY <1>2, <1>3 DEF Selected
<1>5. \A i, j \in 1 .. Len(C) : C[i] = C[j] => i = j
  BY <1>2, SelectedOnce DEF n
<1>6. IsInjective(C) BY <1>4, <1>5 DEF IsInjective
<1>7. ToSet(C) = {a \in Eligible : Cardinality(Better(a) \cap Eligible) < MaxCandidates}
  BY <1>4 DEF ToSet
<1>. QED BY <1>1, <1>4, <1>6, <1>7

(* How many items are asked for.                                           *)
LEMMA Limits ==
  ASSUME TypeOK
  PROVE  /\ Desired \in Nat /\ Least \in Nat /\ Len(candidates) \in Nat
         /\ Desired <= TopItems /\ Desired <= MaxItems /\ Desired <= Len(candidates)
         /\ Len(candidates) >= MinItems => Least = MinItems
         /\ MinItems \in Nat /\ MinItems # 0 /\ TopItems \in Nat /\ MaxItems \in Nat
         /\ SchemaItems \in Nat /\ MaxItems <= SchemaItems /\ TopItems <= MaxItems
<1>1. /\ MinItems \in Nat /\ MinItems # 0 /\ TopItems \in Nat /\ MaxItems \in Nat
      /\ SchemaItems \in Nat
  BY GenerationAssumption
<1>2. MinItems <= TopItems /\ TopItems <= MaxItems /\ MaxItems <= SchemaItems
  BY SettingsAssumption DEF SettingsAccepted, WithinBounds
<1>3. Len(candidates) \in Nat BY DEF TypeOK
<1>. QED BY <1>1, <1>2, <1>3 DEF Desired, Least, AtMost

(* An output that passes validation names different usable candidates.     *)
LEMMA ValidOutput ==
  ASSUME TypeOK, NEW output \in Outputs, Valid(output)
  PROVE  /\ Len(output) \in Nat /\ DOMAIN output = 1 .. Len(output)
         /\ Len(output) \in Least .. Desired
         /\ \A i \in 1 .. Len(output) :
              /\ output[i].number \in 1 .. Len(candidates)
              /\ candidates[output[i].number] \in usable
         /\ \A i, j \in 1 .. Len(output) :
              i # j => output[i].number # output[j].number
<1>1. PICK m \in Nat : output \in [1 .. m -> Items]
  BY DEF Outputs, SeqOf
<1>2. /\ Len(output) = m /\ DOMAIN output = 1 .. m /\ output \in Seq(Items)
      /\ \A i, j \in 1 .. m : i # j /\ output[i] = output[j] => output[i].flaw # "none"
  BY <1>1 DEF Outputs
<1>3. /\ m \in Least .. Desired
      /\ \A i \in 1 .. m : Usable(output[i])
  BY <1>1, <1>2 DEF Valid
<1>4. ASSUME NEW i \in 1 .. m
      PROVE  /\ output[i].number \in 1 .. Len(candidates)
             /\ output[i] = [number |-> output[i].number, flaw |-> "none"]
             /\ output[i].flaw = "none"
             /\ candidates[output[i].number] \in usable
  <2>1. output[i] \in Items BY <1>1
  <2>2. output[i].flaw = "none" /\ candidates[output[i].number] \in usable
    BY <1>3 DEF Usable
  <2>3. PICK k \in 1 .. Len(candidates) : output[i] = [number |-> k, flaw |-> "none"]
    BY <2>1, <2>2 DEF Items, Wrong, Hollow
  <2>. QED BY <2>2, <2>3
<1>5. ASSUME NEW i \in 1 .. m, NEW j \in 1 .. m, i # j
      PROVE  output[i].number # output[j].number
  <2>1. output[i] # output[j] BY <1>2, <1>4, <1>5
  <2>. QED BY <1>4, <2>1
<1>. QED BY <1>1, <1>2, <1>3, <1>4, <1>5

(* What an accepted output makes of the run.                               *)
LEMMA AcceptEffect ==
  ASSUME TypeOK, Accept
  PROVE  /\ stage = "ask" /\ stage' \in {"pack", "unexpected"}
         /\ stage' = "pack" <=> \A i \in 1 .. Len(sizes') : FitsAlone(sizes'[i])
         /\ stage' = "unexpected" <=> \E i \in 1 .. Len(sizes') : ~ FitsAlone(sizes'[i])
         /\ digest' \in Seq(Articles) /\ sizes' \in Seq(Sizes)
         /\ Len(sizes') = Len(digest') /\ Len(digest') \in Least .. Desired
         /\ ToSet(digest') \subseteq usable
         /\ IsInjective(candidates) => IsInjective(digest')
         /\ envelope' \in {"sound", "unsound"} /\ groups' = << <<>> >>
         /\ answers' = Append(answers, "accepted")
         /\ UNCHANGED <<score, candidates, usable>>
<1>1. PICK output \in Outputs :
        /\ Valid(output)
        /\ digest' = [i \in DOMAIN output |-> candidates[output[i].number]]
        /\ sizes' \in [DOMAIN output -> Sizes]
  BY DEF Accept
<1>2. /\ Len(output) \in Nat /\ DOMAIN output = 1 .. Len(output)
      /\ Len(output) \in Least .. Desired
      /\ \A i \in 1 .. Len(output) :
           /\ output[i].number \in 1 .. Len(candidates)
           /\ candidates[output[i].number] \in usable
      /\ \A i, j \in 1 .. Len(output) : i # j => output[i].number # output[j].number
  BY <1>1, ValidOutput
<1>. DEFINE m == Len(output)
<1>3. digest' \in [1 .. m -> usable] /\ usable \subseteq Articles
  BY <1>1, <1>2 DEF TypeOK
<1>4. digest' \in [1 .. m -> Articles] BY <1>3
<1>5. sizes' \in [1 .. m -> Sizes] BY <1>1, <1>2
<1>6. digest' \in Seq(Articles) /\ Len(digest') = m /\ sizes' \in Seq(Sizes) /\ Len(sizes') = m
  BY <1>2, <1>4, <1>5
<1>7. ToSet(digest') \subseteq usable
  <2>1. DOMAIN digest' = 1 .. m BY <1>3
  <2>. HIDE DEF m
  <2>. QED BY <1>3, <2>1 DEF ToSet
<1>8. ASSUME IsInjective(candidates) PROVE IsInjective(digest')
  <2>1. ASSUME NEW i \in 1 .. m, NEW j \in 1 .. m, digest'[i] = digest'[j] PROVE i = j
    <3>1. candidates[output[i].number] = candidates[output[j].number]
      BY <1>1, <1>2, <2>1
    <3>2. DOMAIN candidates = 1 .. Len(candidates) BY DEF TypeOK
    <3>3. output[i].number = output[j].number
      BY <1>2, <1>8, <3>1, <3>2 DEF IsInjective
    <3>. QED BY <1>2, <3>3
  <2>2. DOMAIN digest' = 1 .. m BY <1>3
  <2>. HIDE DEF m
  <2>. QED BY <2>1, <2>2 DEF IsInjective
<1>9. /\ stage' = "pack" <=> \A i \in 1 .. Len(sizes') : FitsAlone(sizes'[i])
      /\ stage' = "unexpected" <=> \E i \in 1 .. Len(sizes') : ~ FitsAlone(sizes'[i])
      /\ stage' \in {"pack", "unexpected"} /\ stage = "ask"
  <2>1. DOMAIN sizes' = 1 .. Len(sizes') BY <1>6
  <2>2. stage' = IF \A i \in DOMAIN sizes' : FitsAlone(sizes'[i]) THEN "pack" ELSE "unexpected"
    BY DEF Accept
  <2>. QED BY <2>1, <2>2 DEF Accept
<1>. QED BY <1>2, <1>6, <1>7, <1>8, <1>9 DEF Accept, Answered

(* The messages are stretches of the blocks: the i-th ends with block P[i], *)
(* fits with title and footer, and would not with the next block.          *)
Divides(gs, s, q, P) ==
  /\ P \in [0 .. Len(gs) -> 0 .. Len(s)]
  /\ P[0] = 0 /\ P[Len(gs)] = q
  /\ \A i \in 1 .. Len(gs) :
       /\ gs[i] = SubSeq(s, P[i - 1] + 1, P[i])
       /\ FullSize(gs[i]) <= SizeLimit
       /\ P[i - 1] <= P[i] /\ (q # 0 => P[i - 1] < P[i])
  /\ \A i \in 1 .. Len(gs) - 1 : FullSize(SubSeq(s, P[i - 1] + 1, P[i] + 1)) > SizeLimit

Divided ==
  stage \in {"pack", "compose", "store", "digest"} =>
    /\ \A i \in 1 .. Len(sizes) : FitsAlone(sizes[i])
    /\ groups # <<>> /\ Packed <= Len(sizes)
    /\ stage = "pack" <=> Packed < Len(sizes)
    /\ Packed = 0 => Len(groups) = 1
    /\ FlattenSeq(groups) = SubSeq(sizes, 1, Packed)
    /\ \E P : Divides(groups, sizes, Packed, P)

(* The lengths are numbers, and a message with a title or a footer to      *)
(* leave out is no longer than with both.                                  *)
LEMMA Lengths ==
  /\ {TitleSize, FooterSize, SeparatorSize, SizeLimit} \subseteq Nat
  /\ Sizes \subseteq Nat
  /\ \A g \in Seq(Sizes) : FullSize(g) \in Int /\ BlocksSize(g) \in Int
  /\ \A g \in Seq(Sizes), first \in BOOLEAN, final \in BOOLEAN :
       PartSize(g, first, final) \in Int /\ PartSize(g, first, final) <= FullSize(g)
<1>1. /\ TitleSize \in Nat /\ FooterSize \in Nat /\ SeparatorSize \in Nat /\ SizeLimit \in Nat
      /\ Sizes \subseteq Nat
  BY GenerationAssumption
<1>2. \A g \in Seq(Sizes) : BlocksSize(g) \in Int BY BlocksSizeGrows
<1>. QED BY <1>1, <1>2 DEF FullSize, PartSize

(* The number of packed blocks is a number.                                *)
LEMMA PackedType ==
  ASSUME TypeOK
  PROVE  Packed \in Nat /\ FlattenSeq(groups) \in Seq(Sizes)
<1>1. groups \in Seq(Seq(Sizes)) /\ <<>> \in Seq(Sizes) BY DEF TypeOK
<1>2. FlattenSeq(groups) \in Seq(Sizes)
  <2>. HIDE DEF TypeOK
  <2>. QED BY <1>1, FlattenAppend
<1>. QED BY <1>2 DEF Packed

(* One block at a time.                                                    *)
LEMMA PackEffect ==
  ASSUME TypeOK, Divided, Pack
  PROVE  /\ groups' \in Seq(Seq(Sizes)) /\ groups' # <<>>
         /\ Packed' = Packed + 1 /\ Packed \in Nat /\ Packed < Len(sizes)
         /\ FlattenSeq(groups') = SubSeq(sizes, 1, Packed + 1)
         /\ \E P : Divides(groups', sizes, Packed + 1, P)
<1>. DEFINE block == sizes[Packed + 1]
            n == Len(groups)
            q == Packed
            m == Len(sizes)
<1>1. /\ groups \in Seq(Seq(Sizes)) /\ sizes \in Seq(Sizes) /\ m \in Nat /\ n \in Nat
      /\ sizes' = sizes
  BY DEF TypeOK, Pack
<1>2. stage = "pack" BY DEF Pack
<1>3. /\ q \in Nat /\ groups # <<>> /\ q < m /\ (q = 0 => n = 1)
      /\ FlattenSeq(groups) = SubSeq(sizes, 1, q) /\ FlattenSeq(groups) \in Seq(Sizes)
      /\ \A i \in 1 .. m : FitsAlone(sizes[i])
  BY <1>2, PackedType DEF Divided
<1>4. PICK P : Divides(groups, sizes, q, P) BY <1>2 DEF Divided
<1>5. block \in Sizes /\ FullSize(<<block>>) <= SizeLimit
  <2>1. q + 1 \in 1 .. m BY <1>1, <1>3
  <2>. HIDE DEF q, m
  <2>. QED BY <1>1, <1>3, <2>1 DEF FitsAlone, m, q
<1>6. /\ n # 0 /\ n \in 1 .. n /\ Last(groups) = groups[n] /\ groups[n] \in Seq(Sizes)
  BY <1>1, <1>3 DEF Last
<1>7. /\ P \in [0 .. n -> 0 .. m] /\ P[0] = 0 /\ P[n] = q
      /\ \A i \in 1 .. n :
           /\ groups[i] = SubSeq(sizes, P[i - 1] + 1, P[i])
           /\ FullSize(groups[i]) <= SizeLimit
           /\ P[i - 1] <= P[i] /\ (q # 0 => P[i - 1] < P[i])
      /\ \A i \in 1 .. n - 1 :
           FullSize(SubSeq(sizes, P[i - 1] + 1, P[i] + 1)) > SizeLimit
  BY <1>4 DEF Divides
<1>8. groups' = IF Joins(block)
                  THEN [groups EXCEPT ![n] = Append(@, block)]
                  ELSE Append(groups, <<block>>)
  BY DEF Pack
<1>9. SubSeq(sizes, 1, q + 1) = Append(SubSeq(sizes, 1, q), block)
  BY <1>1, <1>3
<1>10. Joins(block) <=> FullSize(Append(groups[n], block)) <= SizeLimit
  BY <1>6 DEF Joins
<1>11. n - 1 \in 0 .. n /\ P[n - 1] \in 0 .. m /\ P[n - 1] <= q
  <2>1. n - 1 \in 0 .. n BY <1>1, <1>6
  <2>2. P[n - 1] <= P[n] BY <1>6, <1>7
  <2>. HIDE DEF n, m, q
  <2>. QED BY <1>7, <2>1, <2>2
<1>12. Append(groups[n], block) = SubSeq(sizes, P[n - 1] + 1, q + 1)
  <2>. DEFINE u == P[n - 1]
  <2>1. groups[n] = SubSeq(sizes, u + 1, q) BY <1>6, <1>7
  <2>2. u \in Nat /\ u <= q BY <1>1, <1>11
  <2>3. Append(SubSeq(sizes, u + 1, q), sizes[q + 1]) = SubSeq(sizes, u + 1, q + 1)
    <3>. HIDE DEF u, q
    <3>. QED BY <1>1, <1>3, <2>2 DEF m
  <2>. QED BY <2>1, <2>3
<1>13. CASE Joins(block)
  <2>. DEFINE hs == [groups EXCEPT ![n] = Append(@, block)]
              Q == [P EXCEPT ![n] = q + 1]
  <2>1. /\ hs \in Seq(Seq(Sizes)) /\ Len(hs) = n /\ hs[n] = Append(groups[n], block)
        /\ \A i \in 1 .. n - 1 : hs[i] = groups[i]
    BY <1>1, <1>5, <1>6
  <2>2. FlattenSeq(hs) = Append(SubSeq(sizes, 1, q), block)
    <3>1. FlattenSeq([groups EXCEPT ![Len(groups)] = Append(@, block)])
            = Append(FlattenSeq(groups), block)
      <4>. HIDE DEF block
      <4>. QED BY <1>1, <1>3, <1>5, FlattenExtend
    <3>. QED BY <1>3, <3>1
  <2>3. /\ Q \in [0 .. n -> 0 .. m] /\ Q[n] = q + 1 /\ \A i \in 0 .. n - 1 : Q[i] = P[i]
    BY <1>1, <1>3, <1>6, <1>7
  <2>4. groups' = hs BY <1>8, <1>13
  <2>5. FlattenSeq(hs) = SubSeq(sizes, 1, q + 1) BY <1>9, <2>2
  <2>6. Packed' = q + 1
    <3>1. Len(Append(SubSeq(sizes, 1, q), block)) = q + 1
      <4>1. SubSeq(sizes, 1, q) \in Seq(Sizes) /\ Len(SubSeq(sizes, 1, q)) = q
        BY <1>1, <1>3
      <4>. HIDE DEF q, block
      <4>. QED BY <1>5, <4>1
    <3>2. Len(FlattenSeq(hs)) = q + 1
      <4>. HIDE DEF hs, q
      <4>. QED BY <2>2, <3>1
    <3>. QED BY <2>4, <3>2 DEF Packed
  <2>. HIDE DEF hs, Q, q
  <2>7. ASSUME NEW i \in 1 .. n
        PROVE  /\ hs[i] = SubSeq(sizes, Q[i - 1] + 1, Q[i])
               /\ FullSize(hs[i]) <= SizeLimit
               /\ Q[i - 1] <= Q[i] /\ Q[i - 1] < Q[i]
    <3>0. i - 1 \in 0 .. n - 1 /\ Q[i - 1] = P[i - 1] BY <1>6, <2>3
    <3>1. CASE i = n
      <4>1. hs[i] = SubSeq(sizes, Q[i - 1] + 1, Q[i]) BY <1>12, <2>1, <2>3, <3>0, <3>1
      <4>2. FullSize(hs[i]) <= SizeLimit BY <1>10, <1>13, <2>1, <3>1
      <4>3. Q[i - 1] <= Q[i] /\ Q[i - 1] < Q[i] BY <1>3, <1>11, <2>3, <3>0, <3>1
      <4>. QED BY <4>1, <4>2, <4>3
    <3>2. CASE i # n
      <4>1. i \in 1 .. n - 1 /\ n # 1 BY <1>1, <1>6, <3>2
      <4>2. hs[i] = groups[i] /\ Q[i] = P[i] /\ q # 0 BY <1>3, <2>1, <2>3, <4>1
      <4>3. /\ groups[i] = SubSeq(sizes, P[i - 1] + 1, P[i])
            /\ FullSize(groups[i]) <= SizeLimit /\ P[i - 1] <= P[i] /\ P[i - 1] < P[i]
        BY <1>7, <4>2
      <4>. QED BY <3>0, <4>2, <4>3
    <3>. QED BY <3>1, <3>2
  <2>8. ASSUME NEW i \in 1 .. n - 1
        PROVE  FullSize(SubSeq(sizes, Q[i - 1] + 1, Q[i] + 1)) > SizeLimit
    <3>1. Q[i - 1] = P[i - 1] /\ Q[i] = P[i] BY <1>1, <2>3
    <3>. QED BY <1>7, <3>1
  <2>9. Q[0] = 0 BY <1>6, <1>7, <2>3
  <2>10. Divides(hs, sizes, q + 1, Q)
    BY <1>1, <2>1, <2>3, <2>4, <2>6, <2>7, <2>8, <2>9 DEF Divides
  <2>11. hs # <<>> BY <1>6, <2>1
  <2>. QED BY <1>3, <2>1, <2>4, <2>5, <2>6, <2>10, <2>11 DEF q
<1>14. CASE ~ Joins(block)
  <2>. DEFINE hs == Append(groups, <<block>>)
              Q == [i \in 0 .. n + 1 |-> IF i = n + 1 THEN q + 1 ELSE P[i]]
  <2>0. <<block>> \in Seq(Sizes) BY <1>5
  <2>1. /\ hs \in Seq(Seq(Sizes)) /\ Len(hs) = n + 1 /\ hs[n + 1] = <<block>>
        /\ \A i \in 1 .. n : hs[i] = groups[i]
    BY <1>1, <2>0
  <2>2. FlattenSeq(hs) = Append(SubSeq(sizes, 1, q), block)
    <3>1. FlattenSeq(Append(groups, <<block>>)) = FlattenSeq(groups) \o <<block>>
      <4>. HIDE DEF block
      <4>. QED BY <1>1, <2>0, FlattenAppend
    <3>2. FlattenSeq(groups) \o <<block>> = Append(FlattenSeq(groups), block)
      <4>. HIDE DEF block
      <4>. QED BY <1>3, <1>5, AppendIsConcat
    <3>. QED BY <1>3, <3>1, <3>2
  <2>3. /\ Q \in [0 .. n + 1 -> 0 .. m] /\ Q[n + 1] = q + 1 /\ \A i \in 0 .. n : Q[i] = P[i]
    <3>1. q + 1 \in 0 .. m BY <1>1, <1>3
    <3>. HIDE DEF q, m, n
    <3>. QED BY <1>1, <1>7, <3>1
  <2>4. groups' = hs BY <1>8, <1>14
  <2>5. FlattenSeq(hs) = SubSeq(sizes, 1, q + 1) BY <1>9, <2>2
  <2>6. Packed' = q + 1
    <3>1. Len(Append(SubSeq(sizes, 1, q), block)) = q + 1
      <4>1. SubSeq(sizes, 1, q) \in Seq(Sizes) /\ Len(SubSeq(sizes, 1, q)) = q
        BY <1>1, <1>3
      <4>. HIDE DEF q, block
      <4>. QED BY <1>5, <4>1
    <3>2. Len(FlattenSeq(hs)) = q + 1
      <4>. HIDE DEF hs, q
      <4>. QED BY <2>2, <3>1
    <3>. QED BY <2>4, <3>2 DEF Packed
  <2>7. FullSize(Append(groups[n], block)) > SizeLimit
    <3>1. Append(groups[n], block) \in Seq(Sizes) BY <1>5, <1>6
    <3>2. FullSize(Append(groups[n], block)) \in Int /\ SizeLimit \in Nat
      <4>. HIDE DEF block, n
      <4>. QED BY <3>1, Lengths
    <3>. QED BY <1>10, <1>14, <3>2
  <2>8. q # 0
    <3>. SUFFICES ASSUME q = 0 PROVE FALSE OBVIOUS
    <3>1. n = 1 /\ groups[n] = SubSeq(sizes, P[0] + 1, P[1]) /\ P[1] = 0 /\ P[0] = 0
      <4>1. n = 1 /\ n - 1 = 0 BY <1>3
      <4>. HIDE DEF n, q
      <4>. QED BY <1>6, <1>7, <4>1
    <3>2. groups[n] = <<>> BY <1>1, <3>1
    <3>3. Append(groups[n], block) = <<block>> BY <3>2
    <3>. QED BY <1>5, <1>10, <1>14, <3>3
  <2>9. <<block>> = SubSeq(sizes, q + 1, q + 1) BY <1>1, <1>3
  <2>. HIDE DEF hs, Q, q
  <2>10. ASSUME NEW i \in 1 .. n + 1
        PROVE  /\ hs[i] = SubSeq(sizes, Q[i - 1] + 1, Q[i])
               /\ FullSize(hs[i]) <= SizeLimit
               /\ Q[i - 1] <= Q[i] /\ Q[i - 1] < Q[i]
    <3>0. i - 1 \in 0 .. n /\ Q[i - 1] = P[i - 1] BY <1>1, <2>3
    <3>1. CASE i = n + 1
      <4>1. i - 1 = n /\ Q[i - 1] = q BY <1>1, <1>7, <3>0, <3>1
      <4>2. hs[i] = SubSeq(sizes, Q[i - 1] + 1, Q[i]) BY <2>1, <2>3, <2>9, <3>1, <4>1
      <4>3. FullSize(hs[i]) <= SizeLimit BY <1>5, <2>1, <3>1
      <4>. QED BY <1>3, <2>3, <3>1, <4>1, <4>2, <4>3
    <3>2. CASE i # n + 1
      <4>1. i \in 1 .. n /\ i \in 0 .. n BY <1>1, <3>2
      <4>2. hs[i] = groups[i] /\ Q[i] = P[i] BY <2>1, <2>3, <4>1
      <4>3. /\ groups[i] = SubSeq(sizes, P[i - 1] + 1, P[i])
            /\ FullSize(groups[i]) <= SizeLimit /\ P[i - 1] <= P[i] /\ P[i - 1] < P[i]
        BY <1>7, <2>8, <4>1
      <4>. QED BY <3>0, <4>2, <4>3
    <3>. QED BY <3>1, <3>2
  <2>11. ASSUME NEW i \in 1 .. n
        PROVE  FullSize(SubSeq(sizes, Q[i - 1] + 1, Q[i] + 1)) > SizeLimit
    <3>0. i \in 0 .. n /\ i - 1 \in 0 .. n BY <1>1
    <3>1. Q[i - 1] = P[i - 1] /\ Q[i] = P[i] BY <2>3, <3>0
    <3>2. CASE i = n BY <1>7, <1>12, <2>7, <3>1, <3>2
    <3>3. CASE i # n
      <4>1. i \in 1 .. n - 1 BY <1>1, <3>3
      <4>. QED BY <1>7, <3>1, <4>1
    <3>. QED BY <3>2, <3>3
  <2>12. Q[0] = 0 /\ (n + 1) - 1 = n BY <1>1, <1>7, <2>3
  <2>13. Divides(hs, sizes, q + 1, Q)
    BY <1>1, <2>1, <2>3, <2>4, <2>6, <2>10, <2>11, <2>12 DEF Divides
  <2>14. hs # <<>> BY <1>1, <2>1
  <2>. QED BY <1>3, <2>1, <2>4, <2>5, <2>6, <2>13, <2>14 DEF q
<1>. QED BY <1>13, <1>14

(* Any division into messages that leave room for title and footer has a   *)
(* cut within each message and the block after it.                         *)
LEMMA FewestMessages ==
  ASSUME NEW s \in Seq(Sizes), s # <<>>, NEW gs \in Seq(Seq(Sizes)),
         NEW P, Divides(gs, s, Len(s), P),
         NEW cuts \in SUBSET (1 .. Len(s) - 1),
         \A m, n \in cuts \cup {0, Len(s)} :
           m < n /\ {e \in cuts \cup {0, Len(s)} : m < e /\ e < n} = {}
             => FullSize(SubSeq(s, m + 1, n)) <= SizeLimit
  PROVE  Len(gs) <= Cardinality(cuts) + 1
<1>. DEFINE n == Len(s)
            k == Len(gs)
            ends == cuts \cup {0, n}
<1>0. n \in Nat /\ n # 0 /\ k \in Nat /\ ends \subseteq 0 .. n
  <2>1. n \in Nat /\ n # 0 /\ k \in Nat OBVIOUS
  <2>2. cuts \subseteq 1 .. n - 1 OBVIOUS
  <2>. HIDE DEF n, k
  <2>. QED BY <2>1, <2>2
<1>1. /\ P \in [0 .. k -> 0 .. n] /\ P[0] = 0 /\ P[k] = n
      /\ \A i \in 1 .. k : P[i - 1] < P[i]
      /\ \A i \in 1 .. k - 1 : FullSize(SubSeq(s, P[i - 1] + 1, P[i] + 1)) > SizeLimit
  BY <1>0 DEF Divides
<1>2. PICK W : /\ Offsets(W, s)
               /\ \A i, j \in 0 .. n : i <= j => W[i] <= W[j]
               /\ \A i, j \in 0 .. n : i <= j =>
                    /\ SubSeq(s, i + 1, j) \in Seq(Sizes)
                    /\ BlocksSize(SubSeq(s, i + 1, j)) = W[j] - W[i] - SeparatorSize
  BY SliceSize
<1>3. /\ W \in [0 .. n -> Int]
      /\ TitleSize \in Nat /\ FooterSize \in Nat /\ SeparatorSize \in Nat /\ SizeLimit \in Nat
  <2>1. W \in [0 .. n -> Int] BY <1>2 DEF Offsets
  <2>. QED BY <2>1, Lengths
<1>. HIDE DEF n, k
<1>4. \A i, j \in 0 .. k : i <= j => P[i] <= P[j]
  <2>. SUFFICES ASSUME NEW i \in 0 .. k, NEW j \in 0 .. k, i <= j PROVE P[i] <= P[j]
    OBVIOUS
  <2>. DEFINE d == j - i
              S == {e \in 0 .. d : P[i] <= P[i + e]}
  <2>1. d \in Nat /\ 0 \in S /\ i + d = j
    <3>1. d \in Nat /\ i + d = j /\ i + 0 = i /\ P[i] \in Nat BY <1>0, <1>1
    <3>. QED BY <3>1
  <2>2. ASSUME NEW e \in 0 .. d - 1, e \in S PROVE e + 1 \in S
    <3>1. i + e \in 0 .. k /\ (i + e) + 1 \in 1 .. k /\ ((i + e) + 1) - 1 = i + e
            /\ (i + e) + 1 = i + (e + 1) /\ e + 1 \in 0 .. d
      BY <1>0, <2>1
    <3>2. P[i + e] < P[(i + e) + 1] /\ P[i + e] \in Nat /\ P[(i + e) + 1] \in Nat /\ P[i] \in Nat
      <4>. DEFINE a == i + e
      <4>1. a \in 0 .. k /\ a + 1 \in 1 .. k /\ (a + 1) - 1 = a /\ a + 1 \in 0 .. k BY <1>0, <3>1
      <4>. HIDE DEF a
      <4>2. P[a] < P[a + 1] /\ P[a] \in Nat /\ P[a + 1] \in Nat /\ P[i] \in Nat
        BY <1>0, <1>1, <4>1
      <4>. QED BY <4>2 DEF a
    <3>3. P[i] <= P[i + e] BY <2>2
    <3>4. P[i] <= P[i + (e + 1)]
      <4>1. P[i] <= P[(i + e) + 1] BY <3>2, <3>3
      <4>. QED BY <3>1, <4>1
    <3>. QED BY <3>1, <3>4
  <2>3. 0 .. d \subseteq S
    <3>. HIDE DEF S, d
    <3>. QED BY <2>1, <2>2, IntervalInduction
  <2>4. d \in 0 .. d
    <3>. HIDE DEF d
    <3>. QED BY <2>1
  <2>5. P[i] <= P[i + d]
    <3>. HIDE DEF d
    <3>. QED BY <2>3, <2>4
  <2>. HIDE DEF d
  <2>. QED BY <2>1, <2>5
(* A cut within the i-th message or right behind it.                       *)
<1>5. ASSUME NEW i \in 1 .. k - 1 PROVE \E e \in cuts : P[i - 1] < e /\ e <= P[i]
  <2>. SUFFICES ASSUME \A e \in cuts : ~ (P[i - 1] < e /\ e <= P[i]) PROVE FALSE
    OBVIOUS
  <2>. DEFINE a == P[i - 1]
              b == P[i]
              Lo == {e \in ends : e <= a}
              Hi == {e \in ends : b < e}
  <2>1. /\ i \in 1 .. k /\ i - 1 \in 0 .. k /\ i \in 0 .. k /\ i + 1 \in 1 .. k
        /\ (i + 1) - 1 = i /\ i + 1 \in 0 .. k /\ k \in 0 .. k
    BY <1>0
  <2>2. a \in 0 .. n /\ b \in 0 .. n /\ a < b /\ b < n
    <3>1. a < b /\ b < P[i + 1] /\ P[i + 1] <= P[k] BY <1>0, <1>1, <1>4, <2>1
    <3>2. P[i - 1] \in 0 .. n /\ P[i] \in 0 .. n /\ P[i + 1] \in 0 .. n BY <1>1, <2>1
    <3>. QED BY <1>0, <1>1, <3>1, <3>2
  <2>3. FullSize(SubSeq(s, a + 1, b + 1)) > SizeLimit BY <1>1
  <2>4. \A e \in cuts : ~ (a < e /\ e <= b) OBVIOUS
  <2>. HIDE DEF a, b
  <2>5. PICK lo \in Lo : \A e \in Lo : e <= lo
    <3>1. 0 \in Lo /\ Lo \subseteq Nat /\ \A e \in Lo : e <= a
      <4>1. 0 \in ends /\ 0 <= a /\ 0 .. n \subseteq Nat BY <1>0, <2>2
      <4>. HIDE DEF ends
      <4>. QED BY <1>0, <4>1
    <3>2. a \in Nat BY <2>2
    <3>. HIDE DEF Lo
    <3>. QED BY <3>1, <3>2, GreatestNatural
  <2>6. PICK hi \in Hi : \A e \in Hi : hi <= e
    <3>1. n \in Hi /\ Hi \subseteq Nat
      <4>1. n \in ends /\ b < n /\ 0 .. n \subseteq Nat BY <2>2
      <4>. HIDE DEF ends
      <4>. QED BY <1>0, <4>1
    <3>. HIDE DEF Hi
    <3>. QED BY <3>1, LeastNatural
  <2>7. /\ lo \in ends /\ lo \in 0 .. n /\ lo <= a
        /\ hi \in ends /\ hi \in 0 .. n /\ b < hi
    BY <1>0
  <2>8. {e \in ends : lo < e /\ e < hi} = {}
    <3>. SUFFICES ASSUME NEW e \in ends, lo < e, e < hi PROVE FALSE
      OBVIOUS
    <3>1. e \in 0 .. n BY <1>0
    <3>2. ~ (e <= a) /\ ~ (b < e)
      <4>1. e <= a => e <= lo BY <2>5
      <4>2. b < e => hi <= e BY <2>6
      <4>. QED BY <2>7, <3>1, <4>1, <4>2
    <3>3. a < e /\ e <= b BY <2>2, <3>1, <3>2
    <3>4. e \in cuts BY <2>2, <3>1, <3>3
    <3>. QED BY <2>4, <3>3, <3>4
  <2>9. FullSize(SubSeq(s, lo + 1, hi)) <= SizeLimit
    <3>1. lo < hi BY <2>2, <2>7
    <3>. QED BY <2>7, <2>8, <3>1 DEF n
  <2>10. BlocksSize(SubSeq(s, lo + 1, hi)) = W[hi] - W[lo] - SeparatorSize
    <3>1. lo <= hi BY <2>2, <2>7
    <3>. QED BY <1>2, <2>7, <3>1
  <2>11. BlocksSize(SubSeq(s, a + 1, b + 1)) = W[b + 1] - W[a] - SeparatorSize
    <3>. DEFINE c == b + 1
    <3>1. a <= c /\ c \in 0 .. n BY <1>0, <2>2
    <3>. HIDE DEF c
    <3>2. BlocksSize(SubSeq(s, a + 1, c)) = W[c] - W[a] - SeparatorSize BY <1>2, <2>2, <3>1
    <3>. QED BY <3>2 DEF c
  <2>12. W[lo] <= W[a] /\ W[b + 1] <= W[hi]
    <3>1. b + 1 <= hi /\ b + 1 \in 0 .. n BY <1>0, <2>2, <2>7
    <3>. QED BY <1>2, <2>2, <2>7, <3>1
  <2>13. W[lo] \in Int /\ W[a] \in Int /\ W[hi] \in Int /\ W[b + 1] \in Int
    <3>1. b + 1 \in 0 .. n BY <1>0, <2>2
    <3>. QED BY <1>3, <2>2, <2>7, <3>1
  <2>. DEFINE x == SubSeq(s, lo + 1, hi)
              y == SubSeq(s, a + 1, b + 1)
              wl == W[lo]
              wa == W[a]
              wh == W[hi]
              wb == W[b + 1]
  <2>14. TitleSize + 2 + BlocksSize(x) + 2 + FooterSize + 1 <= SizeLimit
    BY <2>9 DEF FullSize
  <2>15. TitleSize + 2 + BlocksSize(y) + 2 + FooterSize + 1 > SizeLimit
    BY <2>3 DEF FullSize
  <2>16. /\ BlocksSize(x) = wh - wl - SeparatorSize /\ BlocksSize(y) = wb - wa - SeparatorSize
         /\ wl <= wa /\ wb <= wh /\ wl \in Int /\ wa \in Int /\ wh \in Int /\ wb \in Int
    BY <2>10, <2>11, <2>12, <2>13
  <2>. HIDE DEF x, y, wl, wa, wh, wb
  <2>. QED BY <1>3, <2>14, <2>15, <2>16
<1>. DEFINE I == 1 .. k - 1
            cut == [i \in I |-> CHOOSE e \in cuts : P[i - 1] < e /\ e <= P[i]]
<1>6. \A i \in I : cut[i] \in cuts /\ P[i - 1] < cut[i] /\ cut[i] <= P[i]
  BY <1>5
<1>. HIDE DEF cut
<1>7. \A i, j \in I : cut[i] = cut[j] => i = j
  <2>1. ASSUME NEW i \in I, NEW j \in I, i < j PROVE cut[i] # cut[j]
    <3>1. i \in 0 .. k /\ j - 1 \in 0 .. k /\ i <= j - 1 BY <1>0, <2>1
    <3>2. P[i] <= P[j - 1] /\ P[i] \in Nat /\ P[j - 1] \in Nat BY <1>0, <1>1, <1>4, <3>1
    <3>3. cut[i] <= P[i] /\ P[j - 1] < cut[j] /\ cut[i] \in Nat /\ cut[j] \in Nat
      <4>1. \A e \in cuts : e \in Nat OBVIOUS
      <4>. QED BY <1>6, <4>1
    <3>. QED BY <3>2, <3>3
  <2>. SUFFICES ASSUME NEW i \in I, NEW j \in I, cut[i] = cut[j], i # j PROVE FALSE
    OBVIOUS
  <2>2. i < j \/ j < i BY <1>0
  <2>. QED BY <2>1, <2>2
<1>8. IsFiniteSet(I) /\ Cardinality(I) = IF k = 0 THEN 0 ELSE k - 1
  <2>1. 1 \in Int /\ k - 1 \in Int BY <1>0
  <2>2. IsFiniteSet(I) /\ Cardinality(I) = IF 1 > k - 1 THEN 0 ELSE (k - 1) - 1 + 1
    <3>. DEFINE l == k - 1
    <3>. HIDE DEF l
    <3>. QED BY <2>1, FS_Interval DEF l
  <2>. HIDE DEF I
  <2>. QED BY <1>0, <2>2
<1>9. IsFiniteSet(cuts)
  <2>. DEFINE l == Len(s) - 1
  <2>1. 1 \in Int /\ l \in Int /\ cuts \subseteq 1 .. l OBVIOUS
  <2>. HIDE DEF l
  <2>. QED BY <2>1, FS_Interval, FS_Subset
<1>10. Cardinality({cut[i] : i \in I}) = Cardinality(I)
  <2>. HIDE DEF I
  <2>. QED BY <1>7, <1>8, InjectionSize
<1>11. {cut[i] : i \in I} \subseteq cuts BY <1>6
<1>12. Cardinality(I) <= Cardinality(cuts) /\ Cardinality(cuts) \in Nat
  <2>. HIDE DEF I
  <2>. QED BY <1>9, <1>10, <1>11, SubsetSize
<1>. HIDE DEF I
<1>. QED BY <1>0, <1>8, <1>12 DEF k

-----------------------------------------------------------------------------
(* The inductive invariant.                                                *)

(* SelectionIsBest of given scores and candidates.                         *)
BestOf(points, chosen) ==
  LET scored     == {a \in Articles : points[a] # Refused}
      before(a, b) == points[a] > points[b] \/ (points[a] = points[b] /\ a < b)
      better(a)  == {b \in scored : before(b, a)}
      eligible   == {a \in scored :
                       Cardinality({b \in better(a) : SourceOf[b] = SourceOf[a]})
                         < MaxPerSource}
  IN  /\ ToSet(chosen) =
           {a \in eligible : Cardinality(better(a) \cap eligible) < MaxCandidates}
      /\ \A i, j \in DOMAIN chosen : i < j => before(chosen[i], chosen[j])

(* SelectionIsBest, of the state.                                          *)
LEMMA BestOfState ==
  SelectionIsBest <=> (stage \in {"load", "no content"} => BestOf(score, candidates))
BY DEF SelectionIsBest, BestOf, Scored, Before

(* The candidates are as many as asked for and different, what is usable   *)
(* was selected, and the accepted digest is made of it.                    *)
Chosen ==
  /\ IsInjective(candidates)
  /\ stage = "select" => candidates = <<>>
  /\ stage \notin {"select", "no content"} => Len(candidates) >= MinItems
  /\ usable \subseteq ToSet(candidates)
  /\ stage \in {"pack", "compose", "store", "digest"} =>
       /\ ToSet(digest) \subseteq usable /\ IsInjective(digest)
       /\ Len(digest) \in MinItems .. TopItems
  /\ stage # "refused"

(* While the model is asked: the answers so far invite another request,    *)
(* with at most one rejection, the p-th, and attempts left.                *)
Rejections(A) == {i \in DOMAIN A : A[i] = "rejected"}
RejectedAt(A, p) ==
  /\ p \in 0 .. Len(A)
  /\ Rejections(A) = IF p = 0 THEN {} ELSE {p}

Retryable == {"OPENAI_TIMEOUT", "OPENAI_RATE_LIMITED"}

Asked ==
  /\ stage \in {"select", "load", "no content"} => answers = <<>>
  /\ stage = "ask" =>
       /\ \A i \in 1 .. Len(answers) : answers[i] \in Retryable \cup {"rejected"}
       /\ \E p \in Nat : RejectedAt(answers, p) /\ p <= Attempts /\ Len(answers) - p < Attempts

IInv ==
  TypeOK /\ SelectionIsBest /\ Chosen /\ Asked /\ RequestsSpent /\ Divided

-----------------------------------------------------------------------------
TriesOf(A) == Len(A) - SelectLastInSeq(A, LAMBDA answer : answer = "rejected")

(* The attempts of the call in progress are the answers after the last     *)
(* rejection, and a rejection is what makes it the repair.                 *)
LEMMA TriesCount ==
  ASSUME NEW V, NEW A \in Seq(V), NEW p, RejectedAt(A, p)
  PROVE  TriesOf(A) = Len(A) - p /\ (Contains(A, "rejected") <=> p # 0)
<1>1. Len(A) \in Nat /\ DOMAIN A = 1 .. Len(A) /\ p \in 0 .. Len(A)
  BY DEF RejectedAt, Rejections
<1>2. {i \in 1 .. Len(A) : A[i] = "rejected"} = IF p = 0 THEN {} ELSE {p}
  BY <1>1 DEF RejectedAt, Rejections
<1>3. p # 0 => Max({p}) = p
  BY <1>1 DEF Max
<1>4. SelectLastInSeq(A, LAMBDA answer : answer = "rejected") = p
  BY <1>2, <1>3 DEF SelectLastInSeq
<1>5. Contains(A, "rejected") <=> p # 0
  BY <1>2 DEF Contains
<1>. QED BY <1>4, <1>5 DEF TriesOf

(* One more answer.                                                        *)
LEMMA AnswerAdded ==
  ASSUME NEW V, NEW A \in Seq(V), NEW p, RejectedAt(A, p), NEW x \in V
  PROVE  /\ Append(A, x) \in Seq(V) /\ Len(Append(A, x)) = Len(A) + 1
         /\ Last(Append(A, x)) = x /\ \A i \in 1 .. Len(A) : Append(A, x)[i] = A[i]
         /\ x # "rejected" => RejectedAt(Append(A, x), p)
         /\ x = "rejected" /\ p = 0 => RejectedAt(Append(A, x), Len(A) + 1)
         /\ Cardinality(Rejections(Append(A, x)))
              = (IF p = 0 THEN 0 ELSE 1) + (IF x = "rejected" THEN 1 ELSE 0)
<1>. DEFINE B == Append(A, x)
            n == Len(A)
<1>1. /\ n \in Nat /\ B \in Seq(V) /\ Len(B) = n + 1 /\ B[n + 1] = x
      /\ \A i \in 1 .. n : B[i] = A[i]
      /\ DOMAIN A = 1 .. n /\ DOMAIN B = 1 .. n + 1
  OBVIOUS
<1>2. p \in 0 .. n /\ {i \in 1 .. n : A[i] = "rejected"} = IF p = 0 THEN {} ELSE {p}
  BY <1>1 DEF RejectedAt, Rejections
<1>. HIDE DEF B, n
<1>3. Rejections(B)
        = {i \in 1 .. n : A[i] = "rejected"} \cup (IF x = "rejected" THEN {n + 1} ELSE {})
  <2>1. ASSUME NEW i \in 1 .. n + 1
        PROVE  B[i] = "rejected" <=>
                 \/ i \in 1 .. n /\ A[i] = "rejected"
                 \/ i = n + 1 /\ x = "rejected"
    BY <1>1
  <2>2. \A i \in 1 .. n : i \in 1 .. n + 1 BY <1>1
  <2>3. n + 1 \in 1 .. n + 1 BY <1>1
  <2>. QED BY <1>1, <2>1, <2>2, <2>3 DEF Rejections
<1>4. Last(B) = x BY <1>1 DEF Last
<1>5. x # "rejected" => RejectedAt(B, p)
  BY <1>1, <1>2, <1>3 DEF RejectedAt, Rejections
<1>6. x = "rejected" /\ p = 0 => RejectedAt(B, n + 1)
  BY <1>1, <1>2, <1>3 DEF RejectedAt, Rejections
<1>7. Cardinality(Rejections(B))
        = (IF p = 0 THEN 0 ELSE 1) + (IF x = "rejected" THEN 1 ELSE 0)
  <2>. DEFINE R == Rejections(B)
  <2>0. R = (IF p = 0 THEN {} ELSE {p}) \cup (IF x = "rejected" THEN {n + 1} ELSE {})
    BY <1>2, <1>3
  <2>. HIDE DEF R
  <2>1. CASE p = 0 /\ x # "rejected"
    <3>1. R = {} BY <2>0, <2>1
    <3>2. Cardinality(R) = 0 BY <3>1, FS_EmptySet
    <3>. QED BY <2>1, <3>2 DEF R
  <2>2. CASE p = 0 /\ x = "rejected"
    <3>1. R = {n + 1} BY <2>0, <2>2
    <3>2. Cardinality(R) = 1 BY <3>1, FS_Singleton
    <3>. QED BY <2>2, <3>2 DEF R
  <2>3. CASE p # 0 /\ x # "rejected"
    <3>1. R = {p} BY <2>0, <2>3
    <3>2. Cardinality(R) = 1 BY <3>1, FS_Singleton
    <3>. QED BY <2>3, <3>2 DEF R
  <2>4. CASE p # 0 /\ x = "rejected"
    <3>1. R = {p} \cup {n + 1} /\ n + 1 \notin {p}
      BY <1>1, <1>2, <2>0, <2>4
    <3>2. IsFiniteSet({p}) /\ Cardinality({p}) = 1 BY FS_Singleton
    <3>3. Cardinality(R) = 2
      <4>. DEFINE S == {p}
                  y == n + 1
      <4>1. R = S \cup {y} /\ y \notin S /\ IsFiniteSet(S) /\ Cardinality(S) = 1
        BY <3>1, <3>2
      <4>. HIDE DEF S, y
      <4>2. Cardinality(S \cup {y}) = Cardinality(S) + 1 BY <4>1, FS_AddElement
      <4>. QED BY <4>1, <4>2
    <3>. QED BY <2>4, <3>3 DEF R
  <2>. QED BY <2>1, <2>2, <2>3, <2>4
<1>. QED BY <1>1, <1>4, <1>5, <1>6, <1>7 DEF B, n

(* At least one attempt is made, also with OPENAI_MAX_RETRIES at 0.        *)
LEMMA AttemptsType == Attempts \in Nat /\ Attempts >= 1
BY GenerationAssumption DEF Attempts

(* A run starts with the invariant.                                        *)
LEMMA InitInv == Init => IInv
<1>. SUFFICES ASSUME Init PROVE IInv
  OBVIOUS
<1>0. MaxCandidates \in Nat /\ MinItems \in Nat /\ MaxItems \in Nat BY GenerationAssumption
<1>1. TypeOK
  <2>1. <<>> \in Seq(Articles) /\ <<>> \in Seq(Sizes) /\ <<>> \in Seq(Seq(Sizes))
          /\ <<>> \in Seq(Errors \cup {"rejected", "hollow", "accepted"}) /\ Len(<<>>) = 0
    OBVIOUS
  <2>. QED BY <1>0, <2>1 DEF Init, TypeOK
<1>2. SelectionIsBest BY DEF Init, SelectionIsBest
<1>3. Chosen BY DEF Init, Chosen, IsInjective
<1>4. Asked BY DEF Init, Asked
<1>5. RequestsSpent
  <2>1. answers = <<>> /\ stage = "select" BY DEF Init
  <2>2. Cardinality({i \in DOMAIN answers : answers[i] = "rejected"}) = 0
    <3>1. {i \in DOMAIN answers : answers[i] = "rejected"} = {} BY <2>1
    <3>. QED BY <3>1, FS_EmptySet
  <2>3. Len(answers) = 0 /\ \A i \in 1 .. Len(answers) - 1 : FALSE BY <2>1
  <2>4. Len(answers) <= 2 * Attempts BY <2>3, AttemptsType
  <2>. QED BY <2>1, <2>2, <2>3, <2>4 DEF RequestsSpent
<1>6. Divided BY DEF Init, Divided
<1>. QED BY <1>1, <1>2, <1>3, <1>4, <1>5, <1>6 DEF IInv

(* Every step keeps the types.                                             *)
LEMMA TypeStep ==
  ASSUME IInv, [Next]_vars
  PROVE  TypeOK'
<1>0. TypeOK /\ Divided BY DEF IInv
<1>1. CASE Select
  <2>1. candidates' \in Seq(Articles) /\ Len(candidates') <= MaxCandidates
    BY <1>0, <1>1, SelectEffect
  <2>. QED BY <1>0, <1>1, <2>1 DEF Select, TypeOK, Results
<1>2. CASE Load
  <2>1. ToSet(candidates) \subseteq Articles BY <1>0 DEF TypeOK, ToSet
  <2>. QED BY <1>0, <1>2, <2>1 DEF Load, TypeOK
<1>3. CASE RequestFails
  <2>1. PICK code \in Errors : answers' = Append(answers, code) BY <1>3 DEF RequestFails, Answered
  <2>2. answers' \in Seq(Errors \cup {"rejected", "hollow", "accepted"})
    BY <1>0, <2>1 DEF TypeOK
  <2>. QED BY <1>0, <1>3, <2>2 DEF RequestFails, TypeOK, Results
<1>4. CASE Reject
  <2>1. answers' = Append(answers, "rejected") BY <1>4 DEF Reject, Answered
  <2>2. answers' \in Seq(Errors \cup {"rejected", "hollow", "accepted"})
    BY <1>0, <2>1 DEF TypeOK
  <2>. QED BY <1>0, <1>4, <2>2 DEF Reject, TypeOK, Results
<1>5. CASE Raise
  <2>1. answers' = Append(answers, "hollow") BY <1>5 DEF Raise, Answered
  <2>2. answers' \in Seq(Errors \cup {"rejected", "hollow", "accepted"})
    BY <1>0, <2>1 DEF TypeOK
  <2>. QED BY <1>0, <1>5, <2>2 DEF Raise, TypeOK, Results
<1>6. CASE Accept
  <2>1. /\ stage' \in {"pack", "unexpected"}
        /\ digest' \in Seq(Articles) /\ sizes' \in Seq(Sizes)
        /\ Len(sizes') = Len(digest') /\ Len(digest') \in Least .. Desired
        /\ envelope' \in {"sound", "unsound"} /\ groups' = << <<>> >>
        /\ answers' = Append(answers, "accepted")
        /\ UNCHANGED <<score, candidates, usable>>
    BY <1>0, <1>6, AcceptEffect
  <2>2. answers' \in Seq(Errors \cup {"rejected", "hollow", "accepted"})
    BY <1>0, <2>1 DEF TypeOK
  <2>3. Len(digest') <= MaxItems BY <1>0, <2>1, Limits
  <2>4. << <<>> >> \in Seq(Seq(Sizes)) OBVIOUS
  <2>. QED BY <1>0, <2>1, <2>2, <2>3, <2>4 DEF TypeOK, Results
<1>7. CASE Pack
  <2>1. groups' \in Seq(Seq(Sizes)) BY <1>0, <1>7, PackEffect
  <2>2. /\ stage' \in {"compose", "pack"}
        /\ UNCHANGED <<score, candidates, usable, answers, envelope, digest, sizes>>
    BY <1>7 DEF Pack
  <2>. QED BY <1>0, <2>1, <2>2 DEF TypeOK
<1>8. CASE Compose BY <1>0, <1>8 DEF Compose, TypeOK, Results
<1>9. CASE Store BY <1>0, <1>9 DEF Store, TypeOK, Results
<1>10. CASE UNCHANGED vars BY <1>0, <1>10 DEF vars, TypeOK
<1>. QED BY <1>1, <1>2, <1>3, <1>4, <1>5, <1>6, <1>7, <1>8, <1>9, <1>10 DEF Next

(* The selection stays the best while it is looked at.                     *)
LEMMA BestStep ==
  ASSUME IInv, [Next]_vars
  PROVE  SelectionIsBest'
<1>. SUFFICES ASSUME stage' \in {"load", "no content"} PROVE BestOf(score', candidates')
  BY DEF SelectionIsBest, BestOf, Scored, Before
<1>0. TypeOK /\ SelectionIsBest BY DEF IInv
<1>1. CASE Select
  <2>1. score' = score BY <1>1 DEF Select
  <2>2. BestOf(score, candidates')
    BY <1>0, <1>1, SelectEffect DEF BestOf, Eligible, Better, Scored, Before
  <2>. QED BY <2>1, <2>2
<1>2. CASE UNCHANGED vars
  <2>1. stage' = stage /\ score' = score /\ candidates' = candidates BY <1>2 DEF vars
  <2>. QED BY <1>0, <2>1, BestOfState
<1>3. CASE Load \/ RequestFails \/ Reject \/ Raise \/ Accept \/ Pack \/ Compose \/ Store
  <2>1. CASE Accept
    <3>1. stage' \in {"pack", "unexpected"} BY <1>0, <2>1, AcceptEffect
    <3>. QED BY <3>1
  <2>2. CASE Load BY <2>2 DEF Load
  <2>3. CASE RequestFails BY <2>3 DEF RequestFails
  <2>4. CASE Reject BY <2>4 DEF Reject
  <2>5. CASE Raise BY <2>5 DEF Raise
  <2>6. CASE Pack BY <2>6 DEF Pack
  <2>7. CASE Compose BY <2>7 DEF Compose
  <2>8. CASE Store BY <2>8 DEF Store
  <2>. QED BY <1>3, <2>1, <2>2, <2>3, <2>4, <2>5, <2>6, <2>7, <2>8
<1>. QED BY <1>1, <1>2, <1>3 DEF Next

(* Every step keeps the articles of a digest different, selected and       *)
(* usable, and their number within the settings; a digest the entity       *)
(* accepts is one the tables accept.                                       *)
LEMMA ChosenStep ==
  ASSUME IInv, [Next]_vars
  PROVE  Chosen'
<1>0. TypeOK /\ Chosen BY DEF IInv
<1>1. CASE Select
  <2>1. IsInjective(candidates') BY <1>0, <1>1, SelectEffect
  <2>2. candidates' \in Seq(Articles) BY <1>0, <1>1, SelectEffect
  <2>3. /\ stage = "select" /\ usable' = usable /\ digest' = digest
        /\ stage' = IF Len(candidates') < MinItems THEN "no content" ELSE "load"
    BY <1>1 DEF Select
  <2>4. usable = {}
    <3>1. candidates = <<>> /\ usable \subseteq ToSet(candidates) BY <1>0, <2>3 DEF Chosen
    <3>. QED BY <3>1 DEF ToSet
  <2>5. MinItems \in Nat /\ Len(candidates') \in Nat BY <2>2, GenerationAssumption
  <2>6. stage' \notin {"select", "no content"} => Len(candidates') >= MinItems
    <3>1. CASE Len(candidates') < MinItems BY <2>3, <3>1
    <3>2. CASE ~ (Len(candidates') < MinItems)
      <4>. DEFINE m == Len(candidates')
      <4>1. m \in Nat /\ ~ (m < MinItems) BY <2>5, <3>2
      <4>. HIDE DEF m
      <4>2. m >= MinItems BY <2>5, <4>1
      <4>. QED BY <4>2 DEF m
    <3>. QED BY <3>1, <3>2
  <2>. QED BY <2>1, <2>3, <2>4, <2>6 DEF Chosen
<1>2. CASE Load BY <1>0, <1>2 DEF Load, Chosen
<1>3. CASE RequestFails BY <1>0, <1>3 DEF RequestFails, Chosen
<1>4. CASE Reject BY <1>0, <1>4 DEF Reject, Chosen
<1>5. CASE Raise BY <1>0, <1>5 DEF Raise, Chosen
<1>6. CASE Accept
  <2>1. /\ stage = "ask" /\ stage' \in {"pack", "unexpected"}
        /\ Len(digest') \in Least .. Desired
        /\ ToSet(digest') \subseteq usable
        /\ IsInjective(candidates) => IsInjective(digest')
        /\ UNCHANGED <<score, candidates, usable>>
    BY <1>0, <1>6, AcceptEffect
  <2>2. Least = MinItems /\ Desired <= TopItems
          /\ MinItems \in Nat /\ Desired \in Nat /\ TopItems \in Nat
    BY <1>0, <2>1, Limits DEF Chosen
  <2>3. Len(digest') \in MinItems .. TopItems BY <2>1, <2>2
  <2>. QED BY <1>0, <2>1, <2>3 DEF Chosen
<1>7. CASE Pack BY <1>0, <1>7 DEF Pack, Chosen
<1>8. CASE Compose BY <1>0, <1>8 DEF Compose, Chosen
<1>9. CASE Store
  <2>1. EntityAccepts => TableAccepts
    <3>1. digest \in Seq(Articles) BY <1>0 DEF TypeOK
    <3>2. SchemaItems \in Nat BY <1>0, Limits
    <3>3. Len(digest) \in 1 .. SchemaItems => 1 .. Len(digest) \subseteq 1 .. SchemaItems
      BY <3>1, <3>2
    <3>. QED BY <3>1, <3>3 DEF EntityAccepts, TableAccepts, IsInjective
  <2>. QED BY <1>0, <1>9, <2>1 DEF Store, Chosen
<1>10. CASE UNCHANGED vars BY <1>0, <1>10 DEF vars, Chosen
<1>. QED BY <1>1, <1>2, <1>3, <1>4, <1>5, <1>6, <1>7, <1>8, <1>9, <1>10 DEF Next

(* Every step keeps the messages a division of the blocks.                 *)
LEMMA DividedStep ==
  ASSUME IInv, [Next]_vars
  PROVE  Divided'
<1>0. TypeOK /\ Divided /\ Chosen BY DEF IInv
<1>1. CASE Accept
  <2>. SUFFICES ASSUME stage' = "pack" PROVE Divided'
    BY <1>0, <1>1, AcceptEffect DEF Divided
  <2>1. /\ \A i \in 1 .. Len(sizes') : FitsAlone(sizes'[i])
        /\ sizes' \in Seq(Sizes) /\ Len(sizes') = Len(digest') /\ Len(digest') \in Least .. Desired
        /\ groups' = << <<>> >> /\ stage = "ask"
    BY <1>0, <1>1, AcceptEffect
  <2>2. Len(sizes') \in Nat /\ Len(sizes') # 0 /\ 1 \in 1 .. Len(sizes')
    BY <1>0, <2>1, Limits DEF Chosen
  <2>. DEFINE gs == << <<>> >>
              s == sizes'
              P == [i \in 0 .. 1 |-> 0]
  <2>3. FlattenSeq(gs) = <<>>
    <3>1. <<>> \in Seq(Seq(Sizes)) /\ <<>> \in Seq(Sizes) /\ FlattenSeq(<<>>) = <<>>
      BY DEF FlattenSeq
    <3>2. FlattenSeq(Append(<<>>, <<>>)) = <<>> \o <<>>
      <4>. DEFINE e == <<>>
                  f == <<>>
      <4>1. e \in Seq(Seq(Sizes)) /\ f \in Seq(Sizes) /\ FlattenSeq(e) = f BY <3>1
      <4>. HIDE DEF e, f
      <4>2. FlattenSeq(Append(e, f)) = f \o f BY <4>1, FlattenAppend
      <4>. QED BY <4>2 DEF e, f
    <3>3. Append(<<>>, <<>>) = gs /\ <<>> \o <<>> = <<>> OBVIOUS
    <3>. QED BY <3>2, <3>3
  <2>4. FullSize(<<>>) <= SizeLimit
    <3>. DEFINE b == s[1]
    <3>1. b \in Sizes /\ b \in Nat
      <4>1. Sizes \subseteq Nat BY Lengths
      <4>2. s \in Seq(Sizes) /\ 1 \in 1 .. Len(s) BY <2>1, <2>2
      <4>3. s[1] \in Sizes
        <5>. HIDE DEF s
        <5>. QED BY <4>2
      <4>. QED BY <4>1, <4>3
    <3>2. FullSize(<<b>>) <= SizeLimit BY <2>1, <2>2 DEF FitsAlone
    <3>. HIDE DEF b
    <3>3. BlocksSize(<<b>>) = BlocksSize(<<>>) + b + SeparatorSize
      <4>1. <<>> \in Seq(Sizes) /\ Append(<<>>, b) = <<b>> OBVIOUS
      <4>2. BlocksSize(Append(<<>>, b)) = BlocksSize(<<>>) + b + SeparatorSize
        BY <3>1, <4>1, BlocksSizeGrows
      <4>. QED BY <4>1, <4>2
    <3>4. /\ BlocksSize(<<>>) \in Int /\ SeparatorSize \in Nat /\ SizeLimit \in Nat
          /\ TitleSize \in Nat /\ FooterSize \in Nat
      <4>1. <<>> \in Seq(Sizes) OBVIOUS
      <4>. QED BY <4>1, Lengths
    <3>. QED BY <3>1, <3>2, <3>3, <3>4 DEF FullSize
  <2>5. /\ Len(gs) = 1 /\ gs[1] = <<>> /\ gs # <<>>
        /\ P \in [0 .. 1 -> 0 .. Len(s)] /\ P[0] = 0 /\ P[1] = 0
    BY <2>2
  <2>6. SubSeq(s, 1, 0) = <<>> BY <2>1
  <2>7. Divides(gs, s, 0, P)
    <3>1. ASSUME NEW i \in 1 .. Len(gs) PROVE i = 1 /\ i - 1 = 0 BY <2>5
    <3>2. 1 .. Len(gs) - 1 = {} BY <2>5
    <3>3. ASSUME NEW i \in 1 .. Len(gs)
          PROVE  /\ gs[i] = SubSeq(s, P[i - 1] + 1, P[i])
                 /\ FullSize(gs[i]) <= SizeLimit
                 /\ P[i - 1] <= P[i] /\ (0 # 0 => P[i - 1] < P[i])
      <4>1. i = 1 /\ i - 1 = 0 BY <3>1
      <4>2. P[i - 1] = 0 /\ P[i] = 0 /\ gs[i] = <<>> BY <2>5, <4>1
      <4>3. 0 + 1 = 1 OBVIOUS
      <4>. HIDE DEF gs, s, P
      <4>. QED BY <2>4, <2>6, <4>2, <4>3
    <3>. HIDE DEF gs, s, P
    <3>. QED BY <2>5, <3>2, <3>3 DEF Divides
  <2>8. Packed' = 0
    <3>1. Packed' = Len(FlattenSeq(gs)) BY <2>1 DEF Packed
    <3>. HIDE DEF gs
    <3>. QED BY <2>3, <3>1
  <2>9. \E Q : Divides(gs, s, 0, Q)
    <3>. HIDE DEF gs, s, P
    <3>. QED BY <2>7
  <2>. HIDE DEF gs
  <2>10. groups' = gs BY <2>1 DEF gs
  <2>11. FlattenSeq(groups') = SubSeq(sizes', 1, Packed')
    BY <2>3, <2>6, <2>8, <2>10
  <2>12. \E Q : Divides(groups', sizes', Packed', Q)
    BY <2>8, <2>9, <2>10
  <2>13. groups' # <<>> /\ Len(groups') = 1 BY <2>5, <2>10
  <2>14. Packed' <= Len(sizes') /\ Packed' < Len(sizes') BY <2>2, <2>8
  <2>. QED BY <2>1, <2>11, <2>12, <2>13, <2>14 DEF Divided
<1>2. CASE Pack
  <2>1. /\ groups' \in Seq(Seq(Sizes)) /\ groups' # <<>>
        /\ Packed' = Packed + 1 /\ Packed \in Nat /\ Packed < Len(sizes)
        /\ FlattenSeq(groups') = SubSeq(sizes, 1, Packed + 1)
        /\ \E P : Divides(groups', sizes, Packed + 1, P)
    BY <1>0, <1>2, PackEffect
  <2>2. /\ stage = "pack" /\ sizes' = sizes
        /\ stage' = IF Packed + 1 = Len(sizes) THEN "compose" ELSE "pack"
    BY <1>2 DEF Pack
  <2>3. Len(sizes) \in Nat BY <1>0 DEF TypeOK
  <2>4. \A i \in 1 .. Len(sizes) : FitsAlone(sizes[i]) BY <1>0, <2>2 DEF Divided
  <2>5. /\ Packed' <= Len(sizes') /\ Packed' # 0 /\ (stage' = "pack" <=> Packed' < Len(sizes'))
    BY <2>1, <2>2, <2>3
  <2>. QED BY <2>1, <2>2, <2>4, <2>5 DEF Divided
<1>3. CASE Compose \/ Store \/ UNCHANGED vars
  <2>1. groups' = groups /\ sizes' = sizes
    BY <1>3 DEF Compose, Store, vars
  <2>2. Packed' = Packed BY <2>1 DEF Packed
  <2>3. stage' \in {"pack", "compose", "store", "digest"} =>
          /\ stage \in {"pack", "compose", "store", "digest"}
          /\ stage' = "pack" <=> stage = "pack"
    BY <1>3 DEF Compose, Store, vars
  <2>. QED BY <1>0, <2>1, <2>2, <2>3 DEF Divided
<1>4. CASE Select \/ Load \/ RequestFails \/ Reject \/ Raise
  <2>1. stage' \notin {"pack", "compose", "store", "digest"}
    BY <1>4 DEF Select, Load, RequestFails, Reject, Raise
  <2>. QED BY <2>1 DEF Divided
<1>. QED BY <1>1, <1>2, <1>3, <1>4 DEF Next

Kinds == Errors \cup {"rejected", "hollow", "accepted"}

(* The first part of RequestsSpent, of given answers.                      *)
SpentSoFar(A) ==
  /\ Cardinality(Rejections(A)) <= 2 /\ Len(A) <= 2 * Attempts
  /\ \A i \in 1 .. Len(A) - 1 : A[i] \in Retryable \cup {"rejected"}

(* RequestsSpent, by its parts.                                            *)
LEMMA SpentParts ==
  RequestsSpent <=>
    /\ SpentSoFar(answers)
    /\ stage = "llm error" =>
         \/ Last(answers) = "INVALID_STRUCTURED_OUTPUT"
         \/ /\ Last(answers) = "rejected"
            /\ Cardinality(Rejections(answers)) = 2
         \/ Last(answers) \in Retryable /\ Tries = Attempts
    /\ stage = "unexpected" =>
         \/ Last(answers) = "hollow"
         \/ envelope = "unsound"
         \/ \E i \in DOMAIN sizes : FullSize(<<sizes[i]>>) > SizeLimit
BY DEF RequestsSpent, SpentSoFar, Retryable, Rejections

(* One more answer of any kind is within the budget.                       *)
LEMMA OneMore ==
  ASSUME TypeOK, Asked, stage = "ask", NEW x \in Kinds
  PROVE  \E p \in Nat :
           /\ RejectedAt(answers, p) /\ p <= Attempts /\ Len(answers) - p < Attempts
           /\ SpentSoFar(Append(answers, x)) /\ Len(answers) \in Nat
           /\ Last(Append(answers, x)) = x
           /\ \A i \in 1 .. Len(answers) : Append(answers, x)[i] \in Retryable \cup {"rejected"}
           /\ Tries = Len(answers) - p /\ (Repairing <=> p # 0)
           /\ x # "rejected" => TriesOf(Append(answers, x)) = Len(answers) + 1 - p
           /\ Cardinality(Rejections(Append(answers, x)))
                = (IF p = 0 THEN 0 ELSE 1) + (IF x = "rejected" THEN 1 ELSE 0)
<1>. DEFINE A == answers
            B == Append(A, x)
<1>1. A \in Seq(Kinds) BY DEF TypeOK, Kinds
<1>2. PICK p \in Nat : RejectedAt(A, p) /\ p <= Attempts /\ Len(A) - p < Attempts
  BY DEF Asked
<1>3. \A i \in 1 .. Len(A) : A[i] \in Retryable \cup {"rejected"} BY DEF Asked
<1>4. Tries = TriesOf(A) BY DEF Tries, TriesOf
<1>5. Repairing <=> Contains(A, "rejected") BY DEF Repairing
<1>. HIDE DEF A
<1>6. /\ B \in Seq(Kinds) /\ Len(B) = Len(A) + 1 /\ Last(B) = x /\ Len(A) \in Nat
      /\ \A i \in 1 .. Len(A) : B[i] = A[i]
      /\ x # "rejected" => RejectedAt(B, p)
      /\ Cardinality(Rejections(B))
           = (IF p = 0 THEN 0 ELSE 1) + (IF x = "rejected" THEN 1 ELSE 0)
  BY <1>1, <1>2, AnswerAdded
<1>. HIDE DEF B
<1>7. x # "rejected" => TriesOf(B) = Len(A) + 1 - p BY <1>6, TriesCount
<1>8. TriesOf(A) = Len(A) - p /\ (Contains(A, "rejected") <=> p # 0)
  BY <1>1, <1>2, TriesCount
<1>9. SpentSoFar(B)
  <2>1. Len(B) <= 2 * Attempts BY <1>2, <1>6, AttemptsType
  <2>2. Cardinality(Rejections(B)) <= 2 BY <1>6
  <2>3. \A i \in 1 .. Len(B) - 1 : B[i] \in Retryable \cup {"rejected"}
    <3>1. 1 .. Len(B) - 1 = 1 .. Len(A) BY <1>6
    <3>. QED BY <1>3, <1>6, <3>1
  <2>. QED BY <2>1, <2>2, <2>3 DEF SpentSoFar
<1>10. \A i \in 1 .. Len(A) : B[i] \in Retryable \cup {"rejected"} BY <1>3, <1>6
<1>. QED BY <1>2, <1>4, <1>5, <1>6, <1>7, <1>8, <1>9, <1>10 DEF A, B

(* While the model is asked, every answer so far invited the next request. *)
LEMMA AskedStep ==
  ASSUME IInv, [Next]_vars
  PROVE  Asked'
<1>0. TypeOK /\ Asked BY DEF IInv
<1>1. CASE RequestFails
  <2>. SUFFICES ASSUME stage' = "ask" PROVE Asked'
    BY <1>1 DEF RequestFails, Asked
  <2>1. PICK code \in Errors :
          /\ answers' = Append(answers, code)
          /\ stage' = IF IsRetryable(code) /\ Tries + 1 < Attempts THEN "ask" ELSE "llm error"
    BY <1>1 DEF RequestFails, Answered
  <2>2. code \in Kinds /\ code # "rejected" /\ stage = "ask"
    BY <1>1 DEF Kinds, Errors, RequestFails
  <2>3. code \in Retryable /\ Tries + 1 < Attempts BY <2>1 DEF IsRetryable, Retryable
  <2>4. PICK p \in Nat :
          /\ RejectedAt(answers, p) /\ p <= Attempts /\ Len(answers) \in Nat
          /\ \A i \in 1 .. Len(answers) : Append(answers, code)[i] \in Retryable \cup {"rejected"}
          /\ Tries = Len(answers) - p
    BY <1>0, <2>2, OneMore
  <2>. DEFINE A == answers
              B == Append(A, code)
  <2>5. A \in Seq(Kinds) BY <1>0 DEF TypeOK, Kinds
  <2>6. RejectedAt(B, p) /\ Len(B) = Len(A) + 1 /\ B[Len(A) + 1] = code
    <3>1. RejectedAt(A, p) BY <2>4
    <3>2. B[Len(A) + 1] = code BY <2>2, <2>5
    <3>. HIDE DEF A
    <3>. QED BY <2>2, <2>5, <3>1, <3>2, AnswerAdded
  <2>7. \A i \in 1 .. Len(B) : B[i] \in Retryable \cup {"rejected"}
    <3>1. \A i \in 1 .. Len(B) : i \in 1 .. Len(A) \/ i = Len(A) + 1 BY <2>4, <2>6
    <3>2. \A i \in 1 .. Len(A) : B[i] \in Retryable \cup {"rejected"} BY <2>4
    <3>. HIDE DEF A, B
    <3>. QED BY <2>3, <2>6, <3>1, <3>2
  <2>8. Len(B) - p < Attempts BY <2>3, <2>4, <2>6
  <2>9. answers' = B BY <2>1
  <2>. HIDE DEF B
  <2>. QED BY <2>4, <2>6, <2>7, <2>8, <2>9 DEF Asked
<1>2. CASE Reject
  <2>. SUFFICES ASSUME stage' = "ask" PROVE Asked'
    BY <1>2 DEF Reject, Asked
  <2>1. answers' = Append(answers, "rejected") /\ ~ Repairing /\ stage = "ask"
    BY <1>2 DEF Reject, Answered
  <2>2. "rejected" \in Kinds BY DEF Kinds
  <2>3. PICK p \in Nat :
          /\ RejectedAt(answers, p) /\ Len(answers) \in Nat /\ Len(answers) - p < Attempts
          /\ \A i \in 1 .. Len(answers) :
               Append(answers, "rejected")[i] \in Retryable \cup {"rejected"}
          /\ Repairing <=> p # 0
    BY <1>0, <2>1, <2>2, OneMore
  <2>. DEFINE A == answers
              B == Append(A, "rejected")
              q == Len(A) + 1
  <2>4. p = 0 BY <2>1, <2>3
  <2>5. A \in Seq(Kinds) BY <1>0 DEF TypeOK, Kinds
  <2>6. RejectedAt(B, q) /\ Len(B) = q /\ B[q] = "rejected"
    <3>1. RejectedAt(A, p) BY <2>3
    <3>2. B[q] = "rejected" BY <2>2, <2>5
    <3>. HIDE DEF A
    <3>. QED BY <2>2, <2>4, <2>5, <3>1, <3>2, AnswerAdded
  <2>7. \A i \in 1 .. Len(B) : B[i] \in Retryable \cup {"rejected"}
    <3>1. \A i \in 1 .. Len(B) : i \in 1 .. Len(A) \/ i = q BY <2>3, <2>6
    <3>2. \A i \in 1 .. Len(A) : B[i] \in Retryable \cup {"rejected"} BY <2>3
    <3>. HIDE DEF A, B, q
    <3>. QED BY <2>6, <3>1, <3>2
  <2>8. Len(B) - q < Attempts /\ q \in Nat /\ q <= Attempts BY <2>3, <2>4, <2>6, AttemptsType
  <2>9. answers' = B BY <2>1
  <2>. HIDE DEF B, q
  <2>. QED BY <2>6, <2>7, <2>8, <2>9 DEF Asked
<1>3. CASE Select BY <1>0, <1>3 DEF Select, Asked
<1>4. CASE Load
  <2>1. answers' = <<>> /\ stage' = "ask" BY <1>0, <1>4 DEF Load, Asked
  <2>2. RejectedAt(<<>>, 0) BY DEF RejectedAt, Rejections
  <2>3. Len(<<>>) = 0 /\ 0 - 0 < Attempts /\ 0 <= Attempts BY AttemptsType
  <2>. QED BY <2>1, <2>2, <2>3 DEF Asked
<1>5. CASE UNCHANGED vars BY <1>0, <1>5 DEF vars, Asked
<1>6. CASE Raise \/ Accept \/ Pack \/ Compose \/ Store
  <2>1. stage' \notin {"select", "load", "no content", "ask"}
    <3>1. CASE Accept
      <4>1. stage' \in {"pack", "unexpected"} BY <1>0, <3>1, AcceptEffect
      <4>. QED BY <4>1
    <3>2. CASE Raise \/ Pack \/ Compose \/ Store BY <3>2 DEF Raise, Pack, Compose, Store
    <3>. QED BY <1>6, <3>1, <3>2
  <2>. QED BY <2>1 DEF Asked
<1>. QED BY <1>1, <1>2, <1>3, <1>4, <1>5, <1>6 DEF Next

(* What was packed fits, whatever the places of title and footer.          *)
LEMMA PackedFits ==
  ASSUME TypeOK, Divided, stage \in {"compose", "store", "digest"},
         NEW i \in DOMAIN groups
  PROVE  PartSize(groups[i], i = 1, i = Len(groups)) <= SizeLimit
<1>1. PICK P : Divides(groups, sizes, Packed, P) BY DEF Divided
<1>2. DOMAIN groups = 1 .. Len(groups) /\ groups[i] \in Seq(Sizes) BY DEF TypeOK
<1>3. FullSize(groups[i]) <= SizeLimit BY <1>1, <1>2 DEF Divides
<1>. DEFINE g == groups[i]
            first == (i = 1)
            final == (i = Len(groups))
<1>4. first \in BOOLEAN /\ final \in BOOLEAN OBVIOUS
<1>5. PartSize(g, first, final) \in Int /\ PartSize(g, first, final) <= FullSize(g)
        /\ FullSize(g) \in Int /\ SizeLimit \in Nat
  <2>1. g \in Seq(Sizes) BY <1>2
  <2>. HIDE DEF g, first, final
  <2>. QED BY <1>4, <2>1, Lengths
<1>6. FullSize(g) <= SizeLimit BY <1>3
<1>. HIDE DEF g, first, final
<1>7. PartSize(g, first, final) <= SizeLimit BY <1>5, <1>6
<1>. QED BY <1>7 DEF g, first, final

(* Every step keeps RequestsSpent: the budget of a call is its attempts,   *)
(* of a run two calls, and a run that fails unexpectedly has one of three  *)
(* reasons, as a packed message always fits and an accepted digest is      *)
(* stored unless its envelope is unsound.                                  *)
LEMMA SpentStep ==
  ASSUME IInv, [Next]_vars
  PROVE  RequestsSpent'
<1>0. TypeOK /\ Asked /\ RequestsSpent /\ Divided /\ Chosen BY DEF IInv
<1>1. SpentSoFar(answers) BY <1>0, SpentParts
<1>2. ASSUME SpentSoFar(answers'), stage' \notin {"llm error", "unexpected"} PROVE RequestsSpent'
  BY <1>2 DEF RequestsSpent, SpentSoFar, Retryable, Rejections
<1>3. CASE Select \/ Load \/ Pack
  <2>1. answers' = answers /\ stage' \notin {"llm error", "unexpected"}
    BY <1>3 DEF Select, Load, Pack
  <2>. QED BY <1>1, <1>2, <2>1
<1>4. CASE RequestFails
  <2>1. PICK code \in Errors :
          /\ answers' = Append(answers, code)
          /\ stage' = IF IsRetryable(code) /\ Tries + 1 < Attempts THEN "ask" ELSE "llm error"
    BY <1>4 DEF RequestFails, Answered
  <2>2. code \in Kinds /\ code # "rejected" /\ stage = "ask"
    BY <1>4 DEF Kinds, Errors, RequestFails
  <2>3. PICK p \in Nat :
          /\ Len(answers) \in Nat /\ Len(answers) - p < Attempts
          /\ SpentSoFar(answers') /\ Last(answers') = code
          /\ Tries = Len(answers) - p /\ TriesOf(answers') = Len(answers) + 1 - p
    BY <1>0, <2>1, <2>2, OneMore
  <2>4. CASE stage' = "ask" BY <1>2, <2>3, <2>4
  <2>5. CASE stage' = "llm error"
    <3>1. \/ Last(answers') = "INVALID_STRUCTURED_OUTPUT"
          \/ Last(answers') \in Retryable /\ Tries' = Attempts
      <4>1. CASE code \in Retryable
        <5>1. ~ (Tries + 1 < Attempts) BY <2>1, <2>5, <4>1 DEF IsRetryable, Retryable
        <5>2. TriesOf(answers') = Attempts BY <2>3, <5>1, AttemptsType
        <5>3. Tries' = Attempts BY <5>2 DEF Tries, TriesOf, SelectLastInSeq
        <5>. QED BY <2>3, <4>1, <5>3
      <4>2. CASE code \notin Retryable BY <2>3, <4>2 DEF Errors, Retryable
      <4>. QED BY <4>1, <4>2
    <3>. QED BY <2>3, <2>5, <3>1 DEF RequestsSpent, SpentSoFar, Retryable, Rejections
  <2>. QED BY <2>1, <2>4, <2>5
<1>5. CASE Reject
  <2>1. answers' = Append(answers, "rejected") /\ stage = "ask" /\ "rejected" \in Kinds
          /\ stage' = IF Repairing THEN "llm error" ELSE "ask"
    BY <1>5 DEF Reject, Answered, Kinds
  <2>2. PICK p \in Nat :
          /\ SpentSoFar(answers') /\ Last(answers') = "rejected"
          /\ Repairing <=> p # 0
          /\ Cardinality(Rejections(answers'))
               = (IF p = 0 THEN 0 ELSE 1) + 1
    BY <1>0, <2>1, OneMore
  <2>3. CASE ~ Repairing BY <1>2, <2>1, <2>2, <2>3
  <2>4. CASE Repairing
    <3>1. Cardinality(Rejections(answers')) = 2 BY <2>2, <2>4
    <3>2. stage' = "llm error" BY <2>1, <2>4
    <3>. QED BY <2>2, <3>1, <3>2 DEF RequestsSpent, SpentSoFar, Retryable, Rejections
  <2>. QED BY <2>3, <2>4
<1>6. CASE Raise
  <2>1. answers' = Append(answers, "hollow") /\ stage = "ask" /\ "hollow" \in Kinds
          /\ stage' = "unexpected"
    BY <1>6 DEF Raise, Answered, Kinds
  <2>2. SpentSoFar(answers') /\ Last(answers') = "hollow"
    BY <1>0, <2>1, OneMore
  <2>. QED BY <2>1, <2>2 DEF RequestsSpent, SpentSoFar, Retryable, Rejections
<1>7. CASE Accept
  <2>1. /\ answers' = Append(answers, "accepted") /\ stage = "ask"
        /\ stage' \in {"pack", "unexpected"} /\ sizes' \in Seq(Sizes)
        /\ stage' = "unexpected" <=> \E i \in 1 .. Len(sizes') : ~ FitsAlone(sizes'[i])
    BY <1>0, <1>7, AcceptEffect
  <2>2. SpentSoFar(answers')
    <3>1. "accepted" \in Kinds BY DEF Kinds
    <3>. QED BY <1>0, <2>1, <3>1, OneMore
  <2>3. CASE stage' = "pack" BY <1>2, <2>2, <2>3
  <2>4. CASE stage' = "unexpected"
    <3>1. PICK i \in 1 .. Len(sizes') : ~ FitsAlone(sizes'[i]) BY <2>1, <2>4
    <3>2. sizes'[i] \in Sizes /\ i \in DOMAIN sizes' BY <2>1
    <3>3. FullSize(<<sizes'[i]>>) > SizeLimit
      <4>. DEFINE b == sizes'[i]
      <4>1. b \in Sizes /\ ~ FitsAlone(b) BY <3>1, <3>2
      <4>. HIDE DEF b
      <4>2. <<b>> \in Seq(Sizes) BY <4>1
      <4>3. FullSize(<<b>>) \in Int /\ SizeLimit \in Nat BY <4>2, Lengths
      <4>4. FullSize(<<b>>) > SizeLimit BY <4>1, <4>3 DEF FitsAlone
      <4>. QED BY <4>4 DEF b
    <3>. QED BY <2>2, <2>4, <3>2, <3>3 DEF RequestsSpent, SpentSoFar, Retryable, Rejections
  <2>. QED BY <2>1, <2>3, <2>4
<1>8. CASE Compose
  <2>1. \A i \in DOMAIN groups : Fits(i)
    BY <1>0, <1>8, PackedFits DEF Compose, Fits
  <2>2. answers' = answers /\ stage' = "store" BY <1>8, <2>1 DEF Compose
  <2>. QED BY <1>1, <1>2, <2>2
<1>9. CASE Store
  <2>1. answers' = answers /\ envelope' = envelope /\ sizes' = sizes /\ stage = "store"
          /\ stage' = IF ~ EntityAccepts THEN "unexpected"
                      ELSE IF TableAccepts THEN "digest" ELSE "refused"
    BY <1>9 DEF Store
  <2>2. CASE envelope = "unsound"
    BY <1>1, <1>2, <2>1, <2>2 DEF RequestsSpent, SpentSoFar, Retryable, Rejections
  <2>3. CASE envelope # "unsound"
    <3>1. envelope = "sound" BY <1>0, <2>3 DEF TypeOK
    <3>2. Len(digest) \in MinItems .. TopItems /\ IsInjective(digest)
      BY <1>0, <2>1 DEF Chosen
    <3>3. Len(digest) \in 1 .. SchemaItems
      <4>1. Len(digest) \in Nat BY <1>0 DEF TypeOK
      <4>. QED BY <1>0, <3>2, <4>1, Limits
    <3>4. EntityAccepts BY <3>1, <3>2, <3>3 DEF EntityAccepts
    <3>. QED BY <1>1, <1>2, <2>1, <3>4
  <2>. QED BY <2>2, <2>3
<1>10. CASE UNCHANGED vars
  <2>1. answers' = answers /\ stage' = stage /\ envelope' = envelope /\ sizes' = sizes
    BY <1>10 DEF vars
  <2>2. Tries' = Tries BY <2>1 DEF Tries, SelectLastInSeq
  <2>. QED BY <1>0, <2>1, <2>2 DEF RequestsSpent
<1>. QED BY <1>3, <1>4, <1>5, <1>6, <1>7, <1>8, <1>9, <1>10 DEF Next

-----------------------------------------------------------------------------
(* What is proved.                                                         *)

(* The invariant is inductive.                                             *)
LEMMA InvInductive == IInv /\ [Next]_vars => IInv'
BY TypeStep, BestStep, ChosenStep, AskedStep, SpentStep, DividedStep DEF IInv

(* The invariant always holds.                                             *)
LEMMA AlwaysInv == Spec => []IInv
BY InitInv, InvInductive, PTL DEF Spec

(* The variables of a run have their types.                                *)
THEOREM TypeCorrect == Spec => []TypeOK
<1>1. IInv => TypeOK BY DEF IInv
<1>. QED BY <1>1, AlwaysInv, PTL

(* select_candidates walks the ranking once and stops taking from a source *)
(* at its cap, and yet selects exactly the best articles among those       *)
(* within the best MaxPerSource of their source, in order (selection.py).  *)
THEOREM BestAreSelected == Spec => []SelectionIsBest
<1>1. IInv => SelectionIsBest BY DEF IInv
<1>. QED BY <1>1, AlwaysInv, PTL

(* Whatever the model answers, a stored digest has different articles,     *)
(* selected and usable, as many as the settings ask for, and the tables    *)
(* refuse no digest that passed validation (digest_generation.py,          *)
(* digest.py).                                                             *)
THEOREM DigestsAreSound == Spec => []DigestIsSound
<1>1. IInv => DigestIsSound
  <2>. SUFFICES ASSUME IInv PROVE DigestIsSound
    OBVIOUS
  <2>1. TypeOK /\ Chosen BY DEF IInv
  <2>2. stage # "refused" BY <2>1 DEF Chosen
  <2>3. ASSUME stage \in {"pack", "compose", "store", "digest"}
        PROVE  /\ ToSet(digest) \subseteq ToSet(candidates) \cap usable
               /\ Cardinality(ToSet(digest)) = Len(digest)
               /\ Len(digest) \in MinItems .. TopItems
    <3>1. ToSet(digest) \subseteq usable /\ IsInjective(digest)
            /\ usable \subseteq ToSet(candidates) /\ Len(digest) \in MinItems .. TopItems
      BY <2>1, <2>3 DEF Chosen
    <3>. DEFINE n == Len(digest)
    <3>2. n \in Nat /\ DOMAIN digest = 1 .. n BY <2>1 DEF TypeOK
    <3>3. IsFiniteSet(1 .. n) /\ Cardinality(1 .. n) = n
      <4>1. 1 \in Int /\ n \in Nat BY <3>2
      <4>. HIDE DEF n
      <4>. QED BY <4>1, FS_Interval
    <3>4. \A i, j \in 1 .. n : digest[i] = digest[j] => i = j
      BY <3>1, <3>2 DEF IsInjective
    <3>5. ToSet(digest) = {digest[i] : i \in 1 .. n} BY <3>2 DEF ToSet
    <3>. HIDE DEF n
    <3>6. Cardinality({digest[i] : i \in 1 .. n}) = Cardinality(1 .. n)
      <4>. DEFINE D == 1 .. n
      <4>1. IsFiniteSet(D) /\ \A x, y \in D : digest[x] = digest[y] => x = y BY <3>3, <3>4
      <4>2. Cardinality({digest[x] : x \in D}) = Cardinality(D)
        <5>. HIDE DEF D
        <5>. QED BY <4>1, InjectionSize
      <4>. QED BY <4>2
    <3>7. Cardinality(ToSet(digest)) = n BY <3>3, <3>5, <3>6
    <3>. QED BY <3>1, <3>7 DEF n
  <2>. QED BY <2>2, <2>3 DEF DigestIsSound
<1>. QED BY <1>1, AlwaysInv, PTL

(* The model is asked again exactly as often as it may help, and what ends *)
(* a run otherwise is one of the reasons that RequestsSpent lists          *)
(* (openai_client.py, digest_generation.py).                               *)
THEOREM RequestsAreSpent == Spec => []RequestsSpent
<1>1. IInv => RequestsSpent BY DEF IInv
<1>. QED BY <1>1, AlwaysInv, PTL

(* The messages hold all blocks once and in order, none is empty or too    *)
(* long, and no division that leaves room for title and footer in every    *)
(* message has fewer (digest_render.py).                                   *)
THEOREM SplitsAreRight == Spec => []SplitIsRight
<1>1. IInv => SplitIsRight
  <2>. SUFFICES ASSUME IInv, stage \in {"store", "digest"} PROVE SplitIsRight
    BY DEF SplitIsRight
  <2>1. TypeOK /\ Chosen /\ Divided BY DEF IInv
  <2>2. /\ Packed <= Len(sizes) /\ ~ (Packed < Len(sizes))
        /\ FlattenSeq(groups) = SubSeq(sizes, 1, Packed)
        /\ \E P : Divides(groups, sizes, Packed, P)
    BY <2>1 DEF Divided
  <2>3. /\ sizes \in Seq(Sizes) /\ groups \in Seq(Seq(Sizes)) /\ Len(sizes) \in Nat
        /\ Len(sizes) = Len(digest)
    BY <2>1 DEF TypeOK
  <2>4. Len(sizes) # 0 /\ sizes # <<>>
    <3>1. Len(digest) \in MinItems .. TopItems BY <2>1 DEF Chosen
    <3>2. MinItems \in Nat /\ MinItems # 0 BY <2>1, Limits
    <3>. QED BY <2>3, <3>1, <3>2
  <2>5. Packed = Len(sizes)
    <3>1. Packed \in Nat BY <2>1, PackedType
    <3>. QED BY <2>2, <2>3, <3>1
  <2>6. FlattenSeq(groups) = sizes
    <3>1. SubSeq(sizes, 1, Len(sizes)) = sizes BY <2>3
    <3>. QED BY <2>2, <2>5, <3>1
  <2>7. PICK P : Divides(groups, sizes, Len(sizes), P) BY <2>2, <2>5
  <2>8. ASSUME NEW i \in DOMAIN groups
        PROVE  groups[i] # <<>> /\ PartSize(groups[i], i = 1, i = Len(groups)) <= SizeLimit
    <3>1. i \in 1 .. Len(groups) BY <2>3
    <3>2. i - 1 \in 0 .. Len(groups) /\ i \in 0 .. Len(groups) BY <2>3, <3>1
    <3>3. /\ groups[i] = SubSeq(sizes, P[i - 1] + 1, P[i]) /\ P[i - 1] < P[i]
          /\ P[i - 1] \in 0 .. Len(sizes) /\ P[i] \in 0 .. Len(sizes)
      BY <2>4, <2>7, <3>1, <3>2 DEF Divides
    <3>4. groups[i] # <<>>
      <4>. DEFINE a == P[i - 1]
                  b == P[i]
      <4>1. a \in Nat /\ b \in Nat /\ a < b /\ b <= Len(sizes)
              /\ groups[i] = SubSeq(sizes, a + 1, b)
        BY <2>3, <3>3
      <4>. HIDE DEF a, b
      <4>2. Len(SubSeq(sizes, a + 1, b)) = b - a BY <2>3, <4>1
      <4>. QED BY <4>1, <4>2
    <3>5. PartSize(groups[i], i = 1, i = Len(groups)) <= SizeLimit BY <2>1, PackedFits
    <3>. QED BY <3>4, <3>5
  <2>9. ASSUME NEW cuts \in SUBSET (1 .. Len(sizes) - 1),
               \A m, n \in cuts \cup {0, Len(sizes)} :
                 m < n /\ {e \in cuts \cup {0, Len(sizes)} : m < e /\ e < n} = {}
                   => FullSize(SubSeq(sizes, m + 1, n)) <= SizeLimit
        PROVE  Len(groups) <= Cardinality(cuts) + 1
    BY <2>3, <2>4, <2>7, <2>9, FewestMessages
  <2>. QED BY <2>6, <2>8, <2>9 DEF SplitIsRight
<1>. QED BY <1>1, AlwaysInv, PTL
=============================================================================
