--------------------------- MODULE IngestionProofs --------------------------
(***************************************************************************)
(* Proofs about Ingestion, for any sources, feeds, articles and limits:    *)
(* the limit on new articles, what a validator stands for, the counts of   *)
(* failures and the counters of a run's row.  The loop of _persist_fetched *)
(* is a fold in the model; StoreLoop takes it one entry at a time.  IInv   *)
(* is the inductive invariant.                                             *)
(***************************************************************************)
EXTENDS Ingestion, InductionLemmas, SequenceTheorems

-----------------------------------------------------------------------------
(* The loop of _persist_fetched over the entries of a feed.                *)

States == [items: SUBSET Item, left: 0 .. MaxNew, entries: Nat, duplicate: Nat,
           conflict: BOOLEAN]

(* A step of the loop: what an entry does to the state before it.          *)
LEMMA AddCases ==
  ASSUME run \in 1 .. MaxRuns, NEW s \in Sources, NEW entry \in Entry,
         NEW state \in States
  PROVE  LET new  == Add(s, state, entry)
             same == Matches(state.items, s, entry)
             item == [source |-> s, link |-> entry.link, id |-> entry.id, run |-> run]
         IN  /\ new \in States
             /\ \/ ~ Usable(s, entry) /\ new = state
                \/ /\ Usable(s, entry) /\ state.left = 0
                   /\ new.items = state.items /\ new.left = state.left
                   /\ new.entries = state.entries + 1 /\ new.duplicate = state.duplicate
                \/ /\ Usable(s, entry) /\ state.left # 0 /\ same = {}
                   /\ new.items = state.items \cup {item} /\ item \in Item
                   /\ new.left = state.left - 1 /\ new.duplicate = state.duplicate
                   /\ new.entries = state.entries + 1
                \/ /\ Usable(s, entry) /\ state.left # 0 /\ same # {}
                   /\ new.items = state.items /\ new.left = state.left
                   /\ new.entries = state.entries + 1
                   /\ new.duplicate = state.duplicate + 1
<1>. DEFINE same == Matches(state.items, s, entry)
            item == [source |-> s, link |-> entry.link, id |-> entry.id, run |-> run]
            new  == Add(s, state, entry)
<1>1. item \in Item BY DEF Item, Entry
<1>2. MaxNew \in Nat BY BoundAssumption
<1>. HIDE DEF same, item
<1>3. new = IF ~ Usable(s, entry) THEN state
            ELSE IF state.left = 0 THEN [state EXCEPT !.entries = @ + 1]
            ELSE IF same = {}
              THEN [[state EXCEPT !.entries = @ + 1]
                      EXCEPT !.items = @ \cup {item}, !.left = @ - 1]
            ELSE [[state EXCEPT !.entries = @ + 1]
                    EXCEPT !.duplicate = @ + 1, !.conflict = @ \/ Cardinality(same) # 1]
  BY DEF Add, same, item
<1>. HIDE DEF new
<1>4. CASE ~ Usable(s, entry) BY <1>3, <1>4 DEF new, same, item
<1>5. CASE Usable(s, entry) /\ state.left = 0
  BY <1>3, <1>5 DEF States, new, same, item
<1>6. CASE Usable(s, entry) /\ state.left # 0 /\ same = {}
  <2>1. new = [items |-> state.items \cup {item}, left |-> state.left - 1,
               entries |-> state.entries + 1, duplicate |-> state.duplicate,
               conflict |-> state.conflict]
    BY <1>3, <1>6 DEF States
  <2>2. state.left - 1 \in 0 .. MaxNew BY <1>2, <1>6 DEF States
  <2>3. new \in States BY <1>1, <2>1, <2>2 DEF States
  <2>. QED BY <1>1, <1>6, <2>1, <2>3 DEF new, same, item
<1>7. CASE Usable(s, entry) /\ state.left # 0 /\ same # {}
  <2>1. new = [items |-> state.items, left |-> state.left,
               entries |-> state.entries + 1, duplicate |-> state.duplicate + 1,
               conflict |-> state.conflict \/ Cardinality(same) # 1]
    BY <1>3, <1>7 DEF States
  <2>2. (state.conflict \/ Cardinality(same) # 1) \in BOOLEAN OBVIOUS
  <2>3. new \in States BY <2>1, <2>2 DEF States
  <2>. QED BY <1>7, <2>1, <2>3 DEF new, same, item
<1>. QED BY <1>4, <1>5, <1>6, <1>7 DEF same, new, item

(* The loop, one entry at a time: what it leaves is the last of a sequence *)
(* of states.                                                              *)
LEMMA StoreLoop ==
  ASSUME run \in 1 .. MaxRuns, NEW s \in Sources, NEW n \in Nat,
         NEW version, NEW es \in [1 .. n -> Entry], es = Entries(s, version),
         DOMAIN es = 1 .. n, NEW base \in States, base = Unstored
  PROVE  \E h \in [0 .. n -> States] :
           /\ h[0] = base /\ \A k \in 1 .. n : h[k] = Add(s, h[k - 1], es[k])
           /\ Stored(s, version) = h[n]
<1>. DEFINE D == 1 .. n
            c == [t \in SUBSET D |-> Max(t)]
            G == [i \in D |-> [v \in States |-> Add(s, v, es[i])]]
            Body(g) == [t \in SUBSET D |->
                          IF t = {} THEN base ELSE Add(s, g[t \ {Max(t)}], es[Max(t)])]
            iter == CHOOSE g : g = Body(g)
<1>1. Stored(s, version) = iter[1 .. n] BY DEF Stored, FoldLeft, MapThenFoldSet
<1>2. IsFiniteSet(D) /\ Picks(c, D)
  <2>1. 1 \in Int /\ n \in Int OBVIOUS
  <2>2. IsFiniteSet(D) BY <2>1, FS_Interval
  <2>3. \A t \in SUBSET D : t # {} => Max(t) \in t BY MaxOfInterval
  <2>. QED BY <2>2, <2>3 DEF Picks
<1>3. \A v \in States, i \in D : Add(s, v, es[i]) \in States BY AddCases
<1>4. G \in [D -> [States -> States]] BY <1>3
<1>5. PICK g : IsFold(g, D, States, base, c, G)
  <2>. HIDE DEF D, c, G
  <2>. QED BY <1>2, <1>4, FoldExists
<1>6. g = Body(g)
  <2>1. ASSUME NEW t \in SUBSET D, t # {}
        PROVE  g[t] = Add(s, g[t \ {Max(t)}], es[Max(t)])
    <3>1. c[t] = Max(t) /\ Max(t) \in D /\ t \ {Max(t)} \in SUBSET D
      BY <1>2, <2>1 DEF Picks
    <3>2. g[t] = G[c[t]][g[t \ {c[t]}]] BY <1>5, <2>1 DEF IsFold
    <3>3. g[t \ {Max(t)}] \in States BY <1>5, <3>1 DEF IsFold
    <3>. HIDE DEF D, c
    <3>. QED BY <3>1, <3>2, <3>3
  <2>2. g \in [SUBSET D -> States] /\ g[{}] = base BY <1>5 DEF IsFold
  <2>. HIDE DEF D
  <2>. QED BY <2>1, <2>2
<1>7. iter = Body(iter)
  <2>. HIDE DEF Body
  <2>. QED BY <1>6
<1>8. iter[{}] = base
  <2>1. Body(iter)[{}] = base OBVIOUS
  <2>. HIDE DEF Body, iter
  <2>. QED BY <1>7, <2>1
<1>9. ASSUME NEW k \in 1 .. n PROVE iter[1 .. k] = Add(s, iter[1 .. k - 1], es[k])
  <2>0. (1 .. k) \ {k} = 1 .. k - 1 OBVIOUS
  <2>1. (1 .. k) \in SUBSET D /\ k \in 1 .. k OBVIOUS
  <2>2. Max(1 .. k) = k BY MaxOfInterval
  <2>3. Body(iter)[1 .. k] = Add(s, iter[(1 .. k) \ {Max(1 .. k)}], es[Max(1 .. k)])
    <3>. HIDE DEF iter
    <3>. QED BY <2>1
  <2>. HIDE DEF Body, iter
  <2>. QED BY <1>7, <2>0, <2>2, <2>3
<1>. DEFINE h == [k \in 0 .. n |-> iter[1 .. k]]
<1>10. h[0] = base
  <2>1. 1 .. 0 = {} OBVIOUS
  <2>. HIDE DEF iter
  <2>. QED BY <1>8, <2>1
<1>11. \A k \in 1 .. n : h[k] = Add(s, h[k - 1], es[k])
  <2>. HIDE DEF iter
  <2>. QED BY <1>9
<1>12. h \in [0 .. n -> States]
  <2>. DEFINE S == {k \in 0 .. n : h[k] \in States}
  <2>1. 0 \in S
    <3>. HIDE DEF h
    <3>. QED BY <1>10
  <2>2. ASSUME NEW k \in 0 .. n - 1, k \in S PROVE k + 1 \in S
    <3>1. k + 1 \in 1 .. n /\ (k + 1) - 1 = k OBVIOUS
    <3>. HIDE DEF h
    <3>. QED BY <1>3, <1>11, <2>2, <3>1
  <2>3. 0 .. n \subseteq S
    <3>. HIDE DEF S
    <3>. QED BY <2>1, <2>2, IntervalInduction
  <2>. QED BY <2>3
<1>13. h[n] = iter[1 .. n] OBVIOUS
<1>. HIDE DEF h, iter
<1>. QED BY <1>1, <1>10, <1>11, <1>12, <1>13

(* What the loop has done after k entries, from the state st it is in: it  *)
(* has only added articles of this run, spent what it added, counted each  *)
(* usable entry, and stored those it met before the allowance was spent.   *)
Balanced(rest, duplicate, entries) ==
  /\ left + duplicate <= entries + rest
  /\ rest # 0 => left + duplicate = entries + rest
OfRun(st) == {item \in st.items : item.run = run}
Kept(st, s, es, k) ==
  /\ st \in States /\ items \subseteq st.items /\ IsFiniteSet(st.items)
  /\ \A item \in st.items \ items : item.run = run
  /\ Cardinality(OfRun(st)) + st.left = MaxNew
  /\ st.left <= left /\ st.entries <= k
  /\ Balanced(st.left, st.duplicate, st.entries)
  /\ \A j \in 1 .. k :
       Usable(s, es[j]) => st.left = 0 \/ Matches(st.items, s, es[j]) # {}

LEMMA BalanceKept ==
  ASSUME left \in Nat, NEW a \in Nat, NEW d \in Nat, NEW e \in Nat, Balanced(a, d, e)
  PROVE  /\ a = 0 => Balanced(a, d, e + 1)
         /\ Balanced(a, d + 1, e + 1)
         /\ a # 0 => Balanced(a - 1, d, e + 1)
BY DEF Balanced

LEMMA KeptStep ==
  ASSUME run \in 1 .. MaxRuns, left \in 0 .. MaxNew, NEW s \in Sources, NEW n \in Nat,
         NEW es \in [1 .. n -> Entry], NEW k \in 0 .. n - 1, NEW st, Kept(st, s, es, k)
  PROVE  Kept(Add(s, st, es[k + 1]), s, es, k + 1)
<1>. DEFINE entry == es[k + 1]
            new   == Add(s, st, entry)
            same  == Matches(st.items, s, entry)
            item  == [source |-> s, link |-> entry.link, id |-> entry.id, run |-> run]
<1>0. /\ k + 1 \in 1 .. n /\ entry \in Entry /\ st \in States /\ MaxNew \in Nat
      /\ st.left \in 0 .. MaxNew /\ st.entries \in Nat /\ st.duplicate \in Nat
  BY BoundAssumption DEF Kept, States
<1>1. /\ new \in States
      /\ \/ ~ Usable(s, entry) /\ new = st
         \/ /\ Usable(s, entry) /\ st.left = 0
            /\ new.items = st.items /\ new.left = st.left
            /\ new.entries = st.entries + 1 /\ new.duplicate = st.duplicate
         \/ /\ Usable(s, entry) /\ st.left # 0 /\ same = {}
            /\ new.items = st.items \cup {item} /\ item \in Item
            /\ new.left = st.left - 1 /\ new.duplicate = st.duplicate
            /\ new.entries = st.entries + 1
         \/ /\ Usable(s, entry) /\ st.left # 0 /\ same # {}
            /\ new.items = st.items /\ new.left = st.left
            /\ new.entries = st.entries + 1
            /\ new.duplicate = st.duplicate + 1
  <2>. HIDE DEF entry
  <2>. QED BY <1>0, AddCases
<1>2. \A j \in 1 .. k + 1 : j \in 1 .. k \/ j = k + 1 OBVIOUS
<1>3. IsFiniteSet(OfRun(st)) /\ Cardinality(OfRun(st)) \in Nat
  <2>1. OfRun(st) \subseteq st.items BY DEF OfRun
  <2>. QED BY <2>1, FS_Subset, FS_CardinalityType DEF Kept
<1>6. /\ left \in Nat /\ k \in Nat /\ st.left \in Nat
      /\ st.entries \in Nat /\ st.duplicate \in Nat
      /\ st.left <= left /\ st.entries <= k
      /\ Balanced(st.left, st.duplicate, st.entries)
  BY <1>0 DEF Kept
<1>7. /\ st.left = 0 => Balanced(st.left, st.duplicate, st.entries + 1)
      /\ Balanced(st.left, st.duplicate + 1, st.entries + 1)
      /\ st.left # 0 => Balanced(st.left - 1, st.duplicate, st.entries + 1)
  BY <1>6, BalanceKept
<1>8. st.entries + 1 <= k + 1 /\ st.entries <= k + 1 BY <1>6
<1>9. st.left # 0 => st.left - 1 <= left BY <1>6
<1>10. ASSUME NEW c \in Nat, c + st.left = MaxNew PROVE (c + 1) + (st.left - 1) = MaxNew
  BY <1>6, <1>10
<1>. HIDE DEF entry, new, same, item
<1>4. CASE new.items = st.items /\ new.left = st.left
  <2>1. OfRun(new) = OfRun(st) BY <1>4 DEF OfRun
  <2>2. Balanced(new.left, new.duplicate, new.entries) BY <1>1, <1>4, <1>6, <1>7
  <2>3. new.entries <= k + 1 BY <1>1, <1>8
  <2>4. Usable(s, entry) => new.left = 0 \/ Matches(new.items, s, entry) # {}
    BY <1>0, <1>1, <1>4, <1>9 DEF same
  <2>5. \A j \in 1 .. k + 1 :
          Usable(s, es[j]) => new.left = 0 \/ Matches(new.items, s, es[j]) # {}
    BY <1>2, <1>4, <2>4 DEF Kept, entry
  <2>6. Kept(new, s, es, k + 1) BY <1>1, <1>4, <2>1, <2>2, <2>3, <2>5 DEF Kept
  <2>. QED BY <2>6 DEF new, entry
<1>5. CASE /\ st.left # 0 /\ same = {}
           /\ new.items = st.items \cup {item} /\ item \in Item
           /\ new.left = st.left - 1 /\ new.duplicate = st.duplicate
           /\ new.entries = st.entries + 1
  <2>1. item.link = entry.link /\ item.run = run BY DEF item
  <2>2. item \notin st.items BY <1>5, <2>1 DEF same, Matches, IsItem
  <2>3. OfRun(new) = OfRun(st) \cup {item} /\ item \notin OfRun(st)
    BY <1>5, <2>1, <2>2 DEF OfRun
  <2>4. Cardinality(OfRun(new)) = Cardinality(OfRun(st)) + 1
    BY <1>3, <2>3, FS_AddElement
  <2>5. IsFiniteSet(new.items) BY <1>5, FS_AddElement DEF Kept
  <2>6. Cardinality(OfRun(new)) + new.left = MaxNew /\ new.left <= left
    BY <1>3, <1>5, <1>9, <1>10, <2>4 DEF Kept
  <2>7. Balanced(new.left, new.duplicate, new.entries) /\ new.entries <= k + 1
    BY <1>5, <1>7, <1>8
  <2>8. Matches(new.items, s, entry) # {}
    BY <1>5, <2>1 DEF Matches, IsItem
  <2>9. \A j \in 1 .. k : Usable(s, es[j]) => Matches(new.items, s, es[j]) # {}
    BY <1>5 DEF Kept, Matches
  <2>10. \A j \in 1 .. k + 1 :
          Usable(s, es[j]) => new.left = 0 \/ Matches(new.items, s, es[j]) # {}
    BY <1>2, <2>8, <2>9 DEF entry
  <2>11. items \subseteq new.items /\ \A it \in new.items \ items : it.run = run
    BY <1>5, <2>1 DEF Kept
  <2>12. Kept(new, s, es, k + 1)
    BY <1>1, <2>5, <2>6, <2>7, <2>10, <2>11 DEF Kept
  <2>. QED BY <2>12 DEF new, entry
<1>. QED BY <1>1, <1>4, <1>5

-----------------------------------------------------------------------------
(* The inductive invariant.                                                *)

Active == stage \in {"fetch", "persist", "ingested"}

(* Where a run is, and what waits in it.                                   *)
StageInv ==
  /\ Active => run \in 1 .. MaxRuns
  /\ ~ Active => waiting = {}
  /\ stage = "fetch" => waiting = Due
  /\ stage = "ingested" => waiting = {}

(* Validators and answers are of versions there were; nothing of what      *)
(* waits has been touched since it was read.                               *)
FeedInv ==
  /\ \A s \in Sources :
       /\ Len(published[s]) \in 1 .. MaxVersions
       /\ row[s].validator <= Len(published[s])
       /\ answers[s].kind = "fresh" =>
            /\ answers[s].version <= Len(published[s])
            /\ answers[s].validator \in {0, answers[s].version}
  /\ \A s \in waiting :
       /\ snapshot[s].validator = row[s].validator
       /\ snapshot[s].failures = row[s].failures
       /\ results[s] = NoResult

(* What a run may still store and what it has stored make its allowance.   *)
ItemsInv ==
  /\ IsFiniteSet(items) /\ \A item \in items : item.run <= run
  /\ Active => Cardinality(NewItems(run)) + left = MaxNew

(* The counters of the runs there were.                                    *)
CountersInv ==
  /\ \A i \in DOMAIN log : log[i].run <= run
  /\ \A r \in 1 .. MaxRuns : (r > run \/ (r = run /\ Active)) => counters[r] = Zero

Inserted  == SumFunction([s \in Due |-> results[s].inserted])
Duplicate == SumFunction([s \in Due |-> results[s].duplicate])

(* The run's results so far agree with its rows and with its articles.     *)
Tally ==
  Active =>
    /\ \A i \in RowsOf(run) :
         log[i].source \in Due \ waiting /\ log[i].ok = results[log[i].source].ok
    /\ \A i, j \in RowsOf(run) : log[i].source = log[j].source => i = j
    /\ \A s \in Due \ waiting : \E i \in RowsOf(run) : log[i].source = s
    /\ Inserted + left = MaxNew
    /\ Inserted + Duplicate <= Listed(run)
    /\ left # 0 => Inserted + Duplicate = Listed(run)

IInv ==
  /\ TypeOK /\ StageInv /\ FeedInv /\ ItemsInv /\ LimitKept /\ ValidatorCovers
  /\ FailuresMatchLog /\ CountersInv /\ Tally /\ CountersMatchTables

-----------------------------------------------------------------------------
(* What a feed brings (parse_feed_bytes): some of its first entries.       *)
LEMMA EntriesList ==
  ASSUME TypeOK, NEW s \in Sources, NEW version \in 1 .. Len(published[s])
  PROVE  LET es == Entries(s, version)
         IN  es \in Seq(Entry) /\ Len(es) \in 0 .. MaxEntries /\ es \in [1 .. Len(es) -> Entry]
<1>. DEFINE body == published[s][version]
            m    == IF Len(body) < MaxEntries THEN Len(body) ELSE MaxEntries
            es   == SubSeq(body, 1, m)
<1>1. body \in Seq(Entry)
  <2>1. published[s] \in Seq(Seq(Entry)) BY DEF TypeOK
  <2>. QED BY <2>1
<1>2. Len(body) \in Nat /\ MaxEntries \in Nat BY <1>1, BoundAssumption
<1>3. m \in Nat /\ m <= Len(body) /\ m <= MaxEntries BY <1>2
<1>4. es \in Seq(Entry) /\ Len(es) = m
  <2>2. \A j \in 1 .. m : j \in 1 .. Len(body) BY <1>2, <1>3
  <2>3. es = [j \in 1 .. m |-> body[j]] BY <1>1, <1>3
  <2>4. \A j \in 1 .. m : body[j] \in Entry BY <1>1, <2>2
  <2>. HIDE DEF body, m
  <2>. QED BY <1>3, <2>3, <2>4
<1>5. es = Entries(s, version) BY DEF Entries
<1>. HIDE DEF es, m, body
<1>. QED BY <1>3, <1>4, <1>5

(* The loop of _persist_fetched, from its first entry to its last.         *)
LEMMA StoredEffect ==
  ASSUME TypeOK, StageInv, ItemsInv, Active,
         NEW s \in Sources, NEW version \in 1 .. Len(published[s])
  PROVE  LET es == Entries(s, version)
         IN  Kept(Stored(s, version), s, es, Len(es))
<1>. DEFINE es == Entries(s, version)
            n  == Len(es)
<1>1. es \in [1 .. n -> Entry] /\ n \in Nat BY EntriesList
<1>2. /\ run \in 1 .. MaxRuns /\ left \in 0 .. MaxNew /\ left \in Nat /\ items \subseteq Item
  BY BoundAssumption DEF StageInv, TypeOK
<1>3. Unstored \in States /\ Kept(Unstored, s, es, 0)
  <2>1. Unstored \in States BY <1>2 DEF Unstored, States
  <2>2. OfRun(Unstored) = NewItems(run) BY DEF Unstored, OfRun, NewItems
  <2>3. Cardinality(OfRun(Unstored)) + Unstored.left = MaxNew
    BY <2>2 DEF ItemsInv, Unstored
  <2>4. Balanced(Unstored.left, Unstored.duplicate, Unstored.entries)
    BY <1>2 DEF Balanced, Unstored
  <2>5. /\ Unstored.items = items /\ Unstored.left <= left /\ Unstored.entries <= 0
        /\ IsFiniteSet(Unstored.items)
    BY <1>2 DEF Unstored, ItemsInv
  <2>. QED BY <2>1, <2>3, <2>4, <2>5 DEF Kept
<1>4. PICK h \in [0 .. n -> States] :
        /\ h[0] = Unstored /\ \A k \in 1 .. n : h[k] = Add(s, h[k - 1], es[k])
        /\ Stored(s, version) = h[n]
  <2>1. es = Entries(s, version) /\ DOMAIN es = 1 .. n BY <1>1
  <2>. HIDE DEF es, n
  <2>. QED BY <1>1, <1>2, <1>3, <2>1, StoreLoop
<1>. DEFINE S == {k \in 0 .. n : Kept(h[k], s, es, k)}
<1>6. 0 \in S
  <2>1. 0 \in 0 .. n BY <1>1
  <2>2. Kept(h[0], s, es, 0) BY <1>3, <1>4
  <2>. QED BY <2>1, <2>2
<1>7. ASSUME NEW k \in 0 .. n - 1, k \in S PROVE k + 1 \in S
  <2>1. k + 1 \in 1 .. n /\ (k + 1) - 1 = k /\ k + 1 \in 0 .. n BY <1>1
  <2>2. h[k + 1] = Add(s, h[k], es[k + 1]) BY <1>4, <2>1
  <2>3. Kept(h[k], s, es, k) BY <1>7
  <2>. HIDE DEF es, n
  <2>4. Kept(Add(s, h[k], es[k + 1]), s, es, k + 1) BY <1>1, <1>2, <2>3, KeptStep
  <2>. QED BY <2>1, <2>2, <2>4
<1>8. 0 .. n \subseteq S
  <2>. HIDE DEF S, n
  <2>. QED BY <1>1, <1>6, <1>7, IntervalInduction
<1>9. Kept(h[n], s, es, n) BY <1>1, <1>8
<1>. QED BY <1>4, <1>9

(* What each of the three transactions of _persist_fetched does.           *)
Persisted(s, source, ok, duplicate, entries) ==
  /\ stage = "persist" /\ s \in waiting
  /\ row' = [row EXCEPT ![s] = source] /\ source \in Row
  /\ log' = Append(log, [run |-> run, source |-> s, ok |-> ok, entries |-> entries])
  /\ waiting' = waiting \ {s}
  /\ stage' = IF waiting' = {} THEN "ingested" ELSE "persist"
  /\ UNCHANGED <<published, seeded, counters, run, snapshot, answers>>
  /\ results' = [results EXCEPT ![s] = Result(ok, left - left', duplicate, entries)]
  /\ ok \in BOOLEAN /\ duplicate \in Nat /\ entries \in 0 .. MaxEntries
  /\ left' \in 0 .. MaxNew /\ left' <= left /\ Balanced(left', duplicate, entries)
  /\ source.failures = IF ok THEN 0 ELSE snapshot[s].failures + 1
  /\ items' \subseteq Item /\ items \subseteq items' /\ IsFiniteSet(items')
  /\ \A item \in items' \ items : item.run = run
  /\ Cardinality({item \in items' : item.run = run}) + left' = MaxNew
  /\ \/ source.validator = snapshot[s].validator
     \/ /\ source.validator \in 1 .. Len(published[s])
        /\ \A entry \in ToSet(Entries(s, source.validator)) :
             Usable(s, entry) => left' = 0 \/ Matches(items', s, entry) # {}

(* Of a source that waits, the run knows what the table says.              *)
LEMMA WaitingSource ==
  ASSUME TypeOK, StageInv, ItemsInv, NEW s \in waiting, stage = "persist"
  PROVE  /\ s \in Sources /\ Active /\ snapshot[s] \in Row /\ MaxNew \in Nat
         /\ left \in 0 .. MaxNew /\ left \in Nat /\ run \in 1 .. MaxRuns
         /\ items \subseteq Item /\ IsFiniteSet(items)
         /\ Cardinality({item \in items : item.run = run}) + left = MaxNew
<1>1. s \in Sources /\ Active /\ snapshot[s] \in Row
  BY DEF TypeOK, Due, Active
<1>2. MaxNew \in Nat BY BoundAssumption
<1>3. left \in 0 .. MaxNew /\ left \in Nat BY <1>2 DEF TypeOK
<1>4. Cardinality(NewItems(run)) + left = MaxNew /\ IsFiniteSet(items)
  BY <1>1 DEF ItemsInv
<1>. QED BY <1>1, <1>2, <1>3, <1>4 DEF TypeOK, StageInv, NewItems

(* record_fetch_success and record_fetch_failure.                          *)
LEMMA SourceChanged ==
  ASSUME NEW s, snapshot[s] \in Row, NEW validator \in 0 .. MaxVersions
  PROVE  /\ Failed(s) \in Row /\ Failed(s).validator = snapshot[s].validator
         /\ Failed(s).failures = snapshot[s].failures + 1
         /\ Succeeded(s, validator) \in Row /\ Succeeded(s, validator).failures = 0
         /\ Succeeded(s, validator).validator =
              IF validator = 0 THEN snapshot[s].validator ELSE validator
<1>. DEFINE v == IF validator = 0 THEN snapshot[s].validator ELSE validator
<1>1. v \in 0 .. MaxVersions BY DEF Row
<1>2. Succeeded(s, validator) = [snapshot[s] EXCEPT !.validator = v, !.failures = 0]
  BY DEF Succeeded, Row
<1>. HIDE DEF v
<1>3. /\ Succeeded(s, validator) \in Row /\ Succeeded(s, validator).failures = 0
      /\ Succeeded(s, validator).validator = v
  <2>1. Succeeded(s, validator) = [enabled |-> snapshot[s].enabled, url |-> snapshot[s].url,
                                   validator |-> v, failures |-> 0]
    BY <1>2 DEF Row
  <2>2. snapshot[s].enabled \in BOOLEAN /\ snapshot[s].url \in Addresses /\ 0 \in Nat
    BY DEF Row
  <2>. QED BY <1>1, <2>1, <2>2 DEF Row
<1>4. /\ Failed(s) \in Row /\ Failed(s).validator = snapshot[s].validator
      /\ Failed(s).failures = snapshot[s].failures + 1
  BY DEF Failed, Row
<1>. QED BY <1>3, <1>4 DEF v

(* The two that store no articles.                                         *)
LEMMA PersistNothing ==
  ASSUME TypeOK, StageInv, ItemsInv, NEW s \in Sources,
         PersistFailure(s) \/ PersistNotModified(s)
  PROVE  \E source, ok : Persisted(s, source, ok, 0, 0)
<1>1. stage = "persist" /\ s \in waiting /\ items' = items /\ left' = left
  BY DEF PersistFailure, PersistNotModified
<1>2. /\ snapshot[s] \in Row /\ MaxNew \in Nat
      /\ left \in 0 .. MaxNew /\ left \in Nat
      /\ items \subseteq Item /\ IsFiniteSet(items)
      /\ Cardinality({item \in items : item.run = run}) + left = MaxNew
  BY <1>1, WaitingSource
<1>3. PICK source, ok :
        /\ \/ source = Failed(s) /\ ok = FALSE
           \/ source = Succeeded(s, 0) /\ ok = TRUE
        /\ Save(s, source, ok, 0) /\ Returns(s, Result(ok, 0, 0, 0))
  BY DEF PersistFailure, PersistNotModified
<1>4. /\ source \in Row /\ source.validator = snapshot[s].validator
      /\ source.failures = IF ok THEN 0 ELSE snapshot[s].failures + 1
  <2>1. 0 \in 0 .. MaxVersions BY BoundAssumption
  <2>2. CASE source = Failed(s) /\ ok = FALSE BY <1>2, <2>1, <2>2, SourceChanged
  <2>3. CASE source = Succeeded(s, 0) /\ ok = TRUE BY <1>2, <2>1, <2>3, SourceChanged
  <2>. QED BY <1>3, <2>2, <2>3
<1>5. left - left' = 0 /\ left' <= left /\ Balanced(left', 0, 0) BY <1>1, <1>2 DEF Balanced
<1>6. 0 \in 0 .. MaxEntries BY BoundAssumption
<1>7. /\ row' = [row EXCEPT ![s] = source]
      /\ log' = Append(log, [run |-> run, source |-> s, ok |-> ok, entries |-> 0])
      /\ waiting' = waiting \ {s}
      /\ stage' = IF waiting' = {} THEN "ingested" ELSE "persist"
      /\ UNCHANGED <<published, seeded, counters, run, snapshot, answers>>
  BY <1>1, <1>3 DEF Save
<1>8. results' = [results EXCEPT ![s] = Result(ok, left - left', 0, 0)]
  BY <1>3, <1>5 DEF Returns
<1>9. ok \in BOOLEAN BY <1>3
<1>10. Persisted(s, source, ok, 0, 0)
  BY <1>1, <1>2, <1>4, <1>5, <1>6, <1>7, <1>8, <1>9 DEF Persisted
<1>. QED BY <1>10

(* The one that does.                                                      *)
LEMMA PersistArticles ==
  ASSUME TypeOK, StageInv, FeedInv, ItemsInv, NEW s \in Sources, PersistItems(s)
  PROVE  \E source, duplicate, entries : Persisted(s, source, TRUE, duplicate, entries)
<1>. DEFINE version == answers[s].version
            stored  == Stored(s, version)
            es      == Entries(s, version)
            source  == Succeeded(s, answers[s].validator)
<1>1. /\ stage = "persist" /\ s \in waiting /\ answers[s].kind = "fresh"
      /\ items' = stored.items /\ left' = stored.left
      /\ Save(s, source, TRUE, stored.entries)
      /\ Returns(s, Result(TRUE, left - stored.left, stored.duplicate, stored.entries))
  BY DEF PersistItems
<1>2. /\ snapshot[s] \in Row /\ MaxNew \in Nat /\ Active
      /\ left \in 0 .. MaxNew /\ left \in Nat
  BY <1>1, WaitingSource
<1>3. /\ version \in 1 .. Len(published[s])
      /\ answers[s].validator \in {0, version} /\ version \in 1 .. MaxVersions
  <2>1. answers[s] \in Answers BY DEF TypeOK
  <2>2. answers[s].version \in 1 .. MaxVersions
    BY <1>1, <2>1 DEF Answers, None, Error, Same, Fresh
  <2>3. /\ answers[s].version <= Len(published[s])
        /\ answers[s].validator \in {0, answers[s].version}
    BY <1>1 DEF FeedInv
  <2>4. Len(published[s]) \in Nat BY DEF TypeOK
  <2>. QED BY <2>2, <2>3, <2>4
<1>4. es \in Seq(Entry) /\ Len(es) \in 0 .. MaxEntries BY <1>3, EntriesList
<1>5. Kept(stored, s, es, Len(es)) BY <1>2, <1>3, StoredEffect
<1>. HIDE DEF stored, version, es
<1>6. /\ stored.items \subseteq Item /\ stored.left \in 0 .. MaxNew
      /\ stored.entries \in Nat /\ stored.duplicate \in Nat
      /\ stored.entries <= Len(es) /\ stored.left <= left
      /\ items \subseteq stored.items /\ IsFiniteSet(stored.items)
      /\ \A item \in stored.items \ items : item.run = run
      /\ Cardinality({item \in stored.items : item.run = run}) + stored.left = MaxNew
      /\ Balanced(stored.left, stored.duplicate, stored.entries)
  BY <1>5 DEF Kept, States, OfRun
<1>7. stored.entries \in 0 .. MaxEntries
  <2>1. Len(es) \in Nat /\ MaxEntries \in Nat /\ Len(es) <= MaxEntries
    BY <1>4, BoundAssumption
  <2>. QED BY <1>6, <2>1
<1>8. ASSUME NEW entry \in ToSet(es), Usable(s, entry)
      PROVE  stored.left = 0 \/ Matches(stored.items, s, entry) # {}
  <2>1. PICK j \in 1 .. Len(es) : entry = es[j] BY <1>4 DEF ToSet
  <2>. QED BY <1>5, <1>8, <2>1 DEF Kept
<1>9. /\ source \in Row /\ source.failures = 0
      /\ source.validator = snapshot[s].validator \/ source.validator = version
  <2>1. answers[s].validator \in 0 .. MaxVersions BY <1>3, BoundAssumption
  <2>. QED BY <1>2, <1>3, <2>1, SourceChanged
<1>10. \/ source.validator = snapshot[s].validator
       \/ /\ source.validator \in 1 .. Len(published[s])
          /\ \A entry \in ToSet(Entries(s, source.validator)) :
               Usable(s, entry) => left' = 0 \/ Matches(items', s, entry) # {}
  BY <1>1, <1>3, <1>8, <1>9 DEF es
<1>. HIDE DEF source
<1>11. /\ row' = [row EXCEPT ![s] = source]
       /\ log' = Append(log, [run |-> run, source |-> s, ok |-> TRUE,
                              entries |-> stored.entries])
       /\ waiting' = waiting \ {s}
       /\ stage' = IF waiting' = {} THEN "ingested" ELSE "persist"
       /\ UNCHANGED <<published, seeded, counters, run, snapshot, answers>>
       /\ results' = [results EXCEPT ![s] =
                        Result(TRUE, left - left', stored.duplicate, stored.entries)]
  BY <1>1 DEF Save, Returns
<1>12. Persisted(s, source, TRUE, stored.duplicate, stored.entries)
  BY <1>1, <1>6, <1>7, <1>9, <1>10, <1>11 DEF Persisted
<1>. QED BY <1>12

LEMMA PersistEffect ==
  ASSUME TypeOK, StageInv, FeedInv, ItemsInv, NEW s \in Sources,
         PersistFailure(s) \/ PersistNotModified(s) \/ PersistItems(s)
  PROVE  \E source, ok, duplicate, entries : Persisted(s, source, ok, duplicate, entries)
BY PersistNothing, PersistArticles

-----------------------------------------------------------------------------
(* The initial states.                                                     *)
LEMMA InitInv == Init => IInv
<1> SUFFICES ASSUME Init PROVE IInv
  OBVIOUS
<1>1. /\ run = 0 /\ stage = "done" /\ items = {} /\ log = <<>> /\ waiting = {} /\ left = 0
      /\ snapshot = row /\ ~ Active /\ 1 .. run = {}
      /\ counters = [r \in 1 .. MaxRuns |-> Zero]
      /\ answers = [s \in Sources |-> None]
  BY DEF Init, Active
<1>2. PICK url \in Addresses :
        row = [s \in Sources |-> [enabled |-> seeded[s], url |-> url,
                                  validator |-> 0, failures |-> 0]]
  BY DEF Init
<1>3. MaxRuns \in Nat /\ MaxVersions \in Nat \ {0} /\ MaxNew \in Nat BY BoundAssumption
<1>4. ASSUME NEW s \in Sources
      PROVE  published[s] \in Seq(Seq(Entry)) /\ Len(published[s]) = 1
  <2>1. PICK body \in UNION {Bodies[t] : t \in Sources} : published[s] = <<body>>
    BY DEF Init
  <2>2. body \in Seq(Entry) BY FeedAssumption
  <2>. QED BY <2>1, <2>2
<1>5. published \in [Sources -> Seq(Seq(Entry))] BY <1>4 DEF Init
<1>6. row \in [Sources -> Row] /\ seeded \in [Sources -> BOOLEAN]
      /\ \A s \in Sources : row[s].validator = 0 /\ row[s].failures = 0
  <2>1. seeded \in [Sources -> BOOLEAN] BY DEF Init
  <2>2. 0 \in 0 .. MaxVersions BY <1>3
  <2>. QED BY <1>2, <2>1, <2>2 DEF Row
<1>7. counters \in [1 .. MaxRuns -> Counters]
        /\ \A r \in 1 .. MaxRuns : Consistent(counters[r]) /\ counters[r] = Zero
  BY <1>1 DEF Counters, Zero, Consistent
<1>8. answers \in [Sources -> Answers] /\ \A s \in Sources : answers[s].kind # "fresh"
  BY <1>1 DEF Answers, None
<1>9. results \in [Sources -> Results]
  BY DEF Init, Results, NoResult, Result
<1>10. TypeOK
  <2>1. /\ log \in Seq([run: 1 .. MaxRuns, source: Sources, ok: BOOLEAN, entries: 0 .. MaxEntries])
        /\ items \subseteq Item /\ waiting \subseteq Due /\ left \in 0 .. MaxNew
        /\ run \in 0 .. MaxRuns
    BY <1>1, <1>3
  <2>. QED BY <1>1, <1>5, <1>6, <1>7, <1>8, <1>9, <2>1 DEF TypeOK
<1>11. StageInv BY <1>1 DEF StageInv
<1>12. FeedInv
  <2>1. \A s \in Sources : Len(published[s]) \in 1 .. MaxVersions
    <3>1. 1 \in 1 .. MaxVersions BY <1>3
    <3>. QED BY <1>4, <3>1
  <2>2. \A s \in Sources : row[s].validator <= Len(published[s]) BY <1>4, <1>6
  <2>. QED BY <1>1, <1>8, <2>1, <2>2 DEF FeedInv
<1>13. ItemsInv BY <1>1, FS_EmptySet DEF ItemsInv
<1>14. LimitKept BY <1>1 DEF LimitKept
<1>15. ValidatorCovers BY <1>6 DEF ValidatorCovers, Covered
<1>16. FailuresMatchLog
  <2>1. ASSUME NEW s \in Sources
        PROVE  LET rows == {i \in DOMAIN log : log[i].source = s}
               IN  Cardinality({i \in rows : \A j \in rows : j >= i => ~ log[j].ok}) = 0
    <3>1. DOMAIN log = {} BY <1>1
    <3>. QED BY <3>1, FS_EmptySet
  <2>. QED BY <1>6, <2>1 DEF FailuresMatchLog
<1>17. CountersInv BY <1>1, <1>7 DEF CountersInv
<1>18. Tally BY <1>1 DEF Tally
<1>19. CountersMatchTables BY <1>1 DEF CountersMatchTables
<1> QED
  BY <1>10, <1>11, <1>12, <1>13, <1>14, <1>15, <1>16, <1>17, <1>18, <1>19 DEF IInv

-----------------------------------------------------------------------------
(* The steps that store nothing keep their types.                          *)
LEMMA BesideType ==
  ASSUME TypeOK, NEW s \in Sources, Publish(s) \/ Seed(s) PROVE TypeOK'
<1>1. CASE Publish(s)
  <2>1. PICK body \in Bodies[s] : published' = [published EXCEPT ![s] = Append(@, body)]
    BY <1>1 DEF Publish
  <2>2. body \in Seq(Entry) BY FeedAssumption
  <2>3. published[s] \in Seq(Seq(Entry)) BY DEF TypeOK
  <2>4. Append(published[s], body) \in Seq(Seq(Entry)) BY <2>2, <2>3
  <2>5. published' \in [Sources -> Seq(Seq(Entry))] BY <2>1, <2>4 DEF TypeOK
  <2>. QED BY <1>1, <2>5 DEF Publish, TypeOK, tables, locals, Due
<1>2. CASE Seed(s)
  <2>1. PICK enabled \in BOOLEAN, url \in Addresses :
          /\ row' = [row EXCEPT ![s].enabled = enabled, ![s].url = url]
          /\ seeded' = [seeded EXCEPT ![s] = enabled]
    BY <1>2 DEF Seed
  <2>2. row' \in [Sources -> Row] BY <2>1 DEF TypeOK, Row
  <2>3. seeded' \in [Sources -> BOOLEAN] BY <2>1 DEF TypeOK
  <2>. QED BY <1>2, <2>2, <2>3 DEF Seed, TypeOK, locals, Due
<1>. QED BY <1>1, <1>2

LEMMA StartType ==
  ASSUME TypeOK, Start PROVE TypeOK'
<1>1. /\ snapshot' = row /\ waiting' = {s \in Sources : row[s].enabled}
      /\ answers' = [s \in Sources |-> None] /\ left' = MaxNew
      /\ results' = [s \in Sources |-> NoResult]
      /\ run' = run + 1 /\ stage' = "fetch" /\ run < MaxRuns
      /\ UNCHANGED <<published, seeded, tables>>
  BY DEF Start
<1>2. run' \in 0 .. MaxRuns /\ left' \in 0 .. MaxNew
  BY <1>1, BoundAssumption DEF TypeOK
<1>3. waiting' \subseteq Due' BY <1>1 DEF Due
<1>4. answers' \in [Sources -> Answers] BY <1>1 DEF Answers
<1>5. results' \in [Sources -> Results] BY <1>1 DEF Results, NoResult, Result
<1>. QED BY <1>1, <1>2, <1>3, <1>4, <1>5 DEF TypeOK, tables

LEMMA AnswerType ==
  ASSUME TypeOK, FeedInv, NEW s \in Sources, NEW answer \in AnswersTo(s)
  PROVE  /\ answer \in Answers
         /\ answer # None
         /\ answer.kind = "fresh" =>
              /\ answer.version <= Len(published[s])
              /\ answer.validator \in {0, answer.version}
<1>. DEFINE version == Len(published[s])
<1>1. version \in 1 .. MaxVersions /\ version \in Nat /\ version <= version
  BY BoundAssumption DEF FeedInv
<1>2. 0 \in 0 .. MaxVersions /\ version \in 0 .. MaxVersions BY <1>1, BoundAssumption
<1>. HIDE DEF version
<1>3. CASE answer \in {Error, Same} BY <1>3 DEF Answers, None, Error, Same
<1>4. CASE answer \in {Fresh(version, validator) : validator \in {0, version}}
  <2>1. PICK validator \in {0, version} : answer = Fresh(version, validator) BY <1>4
  <2>2. answer \in Answers BY <1>1, <1>2, <2>1 DEF Answers
  <2>3. answer.kind = "fresh" /\ answer.version = version /\ answer.validator = validator
    BY <2>1 DEF Fresh
  <2>. QED BY <1>1, <2>2, <2>3 DEF version, None
<1>. QED BY <1>3, <1>4 DEF AnswersTo, version

LEMMA FetchType ==
  ASSUME TypeOK, FeedInv, NEW s \in Sources, Fetch(s) PROVE TypeOK'
<1>1. PICK answer \in AnswersTo(s) : answers' = [answers EXCEPT ![s] = answer]
  BY DEF Fetch
<1>2. answers' \in [Sources -> Answers] BY <1>1, AnswerType DEF TypeOK
<1>3. stage' \in {"fetch", "persist"}
      /\ UNCHANGED <<published, seeded, tables, run, snapshot, waiting, left, results>>
  BY DEF Fetch
<1>. QED BY <1>2, <1>3 DEF TypeOK, tables, Due

LEMMA PersistType ==
  ASSUME TypeOK, StageInv, NEW s \in Sources, NEW source, NEW ok, NEW duplicate, NEW entries,
         Persisted(s, source, ok, duplicate, entries)
  PROVE  TypeOK'
<1>1. row' \in [Sources -> Row] BY DEF Persisted, TypeOK
<1>2. log' \in Seq([run: 1 .. MaxRuns, source: Sources, ok: BOOLEAN, entries: 0 .. MaxEntries])
  <2>1. run \in 1 .. MaxRuns BY DEF Persisted, StageInv, Active
  <2>2. [run |-> run, source |-> s, ok |-> ok, entries |-> entries]
          \in [run: 1 .. MaxRuns, source: Sources, ok: BOOLEAN, entries: 0 .. MaxEntries]
    BY <2>1 DEF Persisted
  <2>. DEFINE R == [run: 1 .. MaxRuns, source: Sources, ok: BOOLEAN, entries: 0 .. MaxEntries]
              e == [run |-> run, source |-> s, ok |-> ok, entries |-> entries]
  <2>3. log \in Seq(R) /\ e \in R /\ log' = Append(log, e) BY <2>2 DEF TypeOK, Persisted
  <2>. HIDE DEF R, e
  <2>4. log' \in Seq(R) BY <2>3
  <2>. QED BY <2>4 DEF R
<1>3. results' \in [Sources -> Results]
  <2>1. left - left' \in Nat
    <3>1. left \in Nat /\ left' \in Nat /\ left' <= left
      BY BoundAssumption DEF TypeOK, Persisted
    <3>2. \A a, b \in Nat : a <= b => b - a \in Nat OBVIOUS
    <3>. QED BY <3>1, <3>2
  <2>2. entries \in Nat /\ duplicate \in Nat /\ ok \in BOOLEAN
    BY BoundAssumption DEF Persisted
  <2>3. Result(ok, left - left', duplicate, entries) \in Results
    BY <2>1, <2>2 DEF Result, Results
  <2>. QED BY <2>3 DEF Persisted, TypeOK
<1>4. /\ waiting' \subseteq Due' /\ stage' \in {"ingested", "persist"}
      /\ UNCHANGED <<published, seeded, counters, run, snapshot, answers>>
      /\ items' \subseteq Item /\ left' \in 0 .. MaxNew
  BY DEF Persisted, TypeOK, Due
<1>. QED BY <1>1, <1>2, <1>3, <1>4 DEF TypeOK

LEMMA DueFinite ==
  TypeOK => IsFiniteSet(Due) /\ Due \subseteq Sources
BY FeedAssumption, FS_Subset DEF Due

LEMMA CountedType == TypeOK => Counted \in Counters
<1> SUFFICES ASSUME TypeOK PROVE Counted \in Counters
  OBVIOUS
<1>1. IsFiniteSet(Due) /\ Due \subseteq Sources BY DueFinite
<1>2. /\ [s \in Due |-> results[s].inserted] \in [Due -> Nat]
      /\ [s \in Due |-> results[s].duplicate] \in [Due -> Nat]
  BY <1>1 DEF TypeOK, Results
<1>3. Inserted \in Nat /\ Duplicate \in Nat
  BY <1>1, <1>2, SumSplits DEF Inserted, Duplicate
<1>4. Cardinality(Due) \in Nat /\ Cardinality({s \in Due : results[s].ok}) \in Nat
  <2>1. {s \in Due : results[s].ok} \subseteq Due OBVIOUS
  <2>. QED BY <1>1, <2>1, FS_Subset, FS_CardinalityType
<1>5. Counted = [total |-> Cardinality(Due),
                 succeeded |-> Cardinality({s \in Due : results[s].ok}),
                 fetched |-> Inserted + Duplicate, inserted |-> Inserted,
                 duplicate |-> Duplicate]
  BY DEF Counted, Inserted, Duplicate
<1>6. Inserted + Duplicate \in Nat BY <1>3
<1>. QED BY <1>3, <1>4, <1>5, <1>6 DEF Counters

LEMMA EndType ==
  ASSUME TypeOK, StageInv, Conclude \/ Abort PROVE TypeOK'
<1>1. /\ Forget /\ stage' \in {"done", "aborted"}
      /\ UNCHANGED <<published, seeded, row, items, log, run>>
  BY DEF Conclude, Abort, tables
<1>2. counters' \in [1 .. MaxRuns -> Counters]
        /\ \A r \in 1 .. MaxRuns : Consistent(counters'[r])
  <2>1. CASE Conclude
    <3>1. /\ counters' = [counters EXCEPT ![run] = Counted] /\ Consistent(Counted)
          /\ Counted \in Counters
      BY <2>1, CountedType DEF Conclude
    <3>. QED BY <3>1 DEF TypeOK
  <2>2. CASE Abort BY <2>2 DEF Abort, tables, TypeOK
  <2>. QED BY <2>1, <2>2
<1>3. /\ snapshot' \in [Sources -> Row] /\ waiting' \subseteq Due' /\ left' \in 0 .. MaxNew
      /\ answers' \in [Sources -> Answers] /\ results' \in [Sources -> Results]
  BY <1>1, BoundAssumption DEF Forget, TypeOK, Answers, Results, NoResult, Result
<1>. QED BY <1>1, <1>2, <1>3 DEF TypeOK

LEMMA TypeStep == IInv /\ [Next]_vars => TypeOK'
<1> SUFFICES ASSUME IInv, [Next]_vars PROVE TypeOK'
  OBVIOUS
<1>1. TypeOK /\ StageInv /\ FeedInv /\ ItemsInv BY DEF IInv
<1>2. ASSUME NEW s \in Sources, Publish(s) \/ Seed(s) PROVE TypeOK' BY <1>1, <1>2, BesideType
<1>3. ASSUME NEW s \in Sources, Fetch(s) PROVE TypeOK' BY <1>1, <1>3, FetchType
<1>4. ASSUME NEW s \in Sources,
             PersistFailure(s) \/ PersistNotModified(s) \/ PersistItems(s)
      PROVE  TypeOK'
  BY <1>1, <1>4, PersistEffect, PersistType
<1>5. CASE Start BY <1>1, <1>5, StartType
<1>6. CASE Conclude \/ Abort BY <1>1, <1>6, EndType
<1>7. CASE UNCHANGED vars BY <1>1, <1>7 DEF vars, tables, locals, TypeOK, Due
<1>8. Reseeded \subseteq Sources BY FeedAssumption
<1> QED BY <1>2, <1>3, <1>4, <1>5, <1>6, <1>7, <1>8 DEF Next

-----------------------------------------------------------------------------
(* Stages and what waits.                                                  *)
LEMMA StageStep == IInv /\ [Next]_vars => StageInv'
<1> SUFFICES ASSUME IInv, [Next]_vars PROVE StageInv'
  OBVIOUS
<1>1. TypeOK /\ StageInv /\ FeedInv /\ ItemsInv BY DEF IInv
<1>2. CASE UNCHANGED <<run, stage, waiting, snapshot>>
  BY <1>1, <1>2 DEF StageInv, Active, Due
<1>3. ASSUME NEW s \in Sources, Fetch(s) PROVE StageInv'
  <2>1. /\ stage = "fetch" /\ stage' \in {"fetch", "persist"}
        /\ UNCHANGED <<run, waiting, snapshot>>
    BY <1>3 DEF Fetch
  <2>. QED BY <1>1, <2>1 DEF StageInv, Active, Due
<1>4. ASSUME NEW s \in Sources,
             PersistFailure(s) \/ PersistNotModified(s) \/ PersistItems(s)
      PROVE  StageInv'
  <2>1. PICK source, ok, duplicate, entries : Persisted(s, source, ok, duplicate, entries)
    BY <1>1, <1>4, PersistEffect
  <2>2. /\ stage = "persist" /\ run' = run
        /\ stage' = IF waiting' = {} THEN "ingested" ELSE "persist"
    BY <2>1 DEF Persisted
  <2>. QED BY <1>1, <2>2 DEF StageInv, Active
<1>5. CASE Start
  <2>1. /\ stage' = "fetch" /\ run' = run + 1 /\ run < MaxRuns /\ run \in Nat
        /\ snapshot' = row /\ waiting' = {s \in Sources : row[s].enabled}
    BY <1>1, <1>5, BoundAssumption DEF Start, TypeOK
  <2>2. run + 1 \in 1 .. MaxRuns BY <2>1, BoundAssumption
  <2>3. waiting' = Due' BY <2>1 DEF Due
  <2>. QED BY <2>1, <2>2, <2>3 DEF StageInv, Active
<1>6. CASE Conclude \/ Abort
  BY <1>6 DEF Conclude, Abort, Forget, StageInv, Active
<1>7. ASSUME NEW s \in Sources, Publish(s) \/ Seed(s) PROVE StageInv'
  BY <1>2, <1>7 DEF Publish, Seed, locals
<1>8. CASE UNCHANGED vars BY <1>2, <1>8 DEF vars, locals
<1>9. Reseeded \subseteq Sources BY FeedAssumption
<1> QED BY <1>3, <1>4, <1>5, <1>6, <1>7, <1>8, <1>9 DEF Next

(* Versions and snapshots.                                                 *)
LEMMA PublishFeed ==
  ASSUME TypeOK, FeedInv, NEW s \in Sources, Publish(s) PROVE FeedInv'
<1>1. PICK body \in Bodies[s] : published' = [published EXCEPT ![s] = Append(@, body)]
  BY DEF Publish
<1>2. /\ Len(published[s]) < MaxVersions
      /\ UNCHANGED <<row, snapshot, waiting, answers, results>>
  BY DEF Publish, tables, locals
<1>3. published[s] \in Seq(Seq(Entry)) /\ MaxVersions \in Nat BY BoundAssumption DEF TypeOK
<1>4. /\ Len(published'[s]) = Len(published[s]) + 1
      /\ \A t \in Sources : t # s => published'[t] = published[t]
  BY <1>1, <1>3 DEF TypeOK
<1>5. ASSUME NEW t \in Sources
      PROVE  /\ Len(published'[t]) \in 1 .. MaxVersions
             /\ Len(published[t]) \in Nat
             /\ \A v \in Nat : v <= Len(published[t]) => v <= Len(published'[t])
  <2>1. Len(published[t]) \in 1 .. MaxVersions BY DEF FeedInv
  <2>2. CASE t # s BY <1>3, <1>4, <2>1, <2>2
  <2>3. CASE t = s BY <1>2, <1>3, <1>4, <2>1, <2>3
  <2>. QED BY <2>2, <2>3
<1>6. ASSUME NEW t \in Sources
      PROVE  /\ row[t].validator \in Nat
             /\ answers[t].kind = "fresh" => answers[t].version \in Nat
  <2>1. row[t] \in Row /\ answers[t] \in Answers BY DEF TypeOK
  <2>. QED BY <2>1, BoundAssumption DEF Row, Answers, None, Error, Same, Fresh
<1>. QED BY <1>2, <1>5, <1>6 DEF FeedInv

LEMMA PersistFeed ==
  ASSUME TypeOK, FeedInv, NEW s \in Sources, NEW source, NEW ok, NEW duplicate, NEW entries,
         Persisted(s, source, ok, duplicate, entries)
  PROVE  FeedInv'
<1>1. /\ s \in waiting /\ row' = [row EXCEPT ![s] = source] /\ waiting' = waiting \ {s}
      /\ UNCHANGED <<published, snapshot, answers>>
      /\ \E result : results' = [results EXCEPT ![s] = result]
  BY DEF Persisted
<1>2. source.validator <= Len(published[s])
  <2>1. CASE source.validator = snapshot[s].validator BY <1>1, <2>1 DEF FeedInv
  <2>2. CASE source.validator \in 1 .. Len(published[s])
    <3>1. Len(published[s]) \in Nat BY DEF TypeOK
    <3>. QED BY <2>2, <3>1
  <2>. QED BY <2>1, <2>2 DEF Persisted
<1>3. \A t \in Sources : row'[t].validator <= Len(published[t])
  BY <1>1, <1>2 DEF TypeOK, FeedInv
<1>4. \A t \in waiting' : t \in Sources /\ row'[t] = row[t] /\ results'[t] = results[t]
  BY <1>1 DEF TypeOK, Due
<1>. QED BY <1>1, <1>3, <1>4 DEF FeedInv

LEMMA FeedStep == IInv /\ [Next]_vars => FeedInv'
<1> SUFFICES ASSUME IInv, [Next]_vars PROVE FeedInv'
  OBVIOUS
<1>1. TypeOK /\ StageInv /\ FeedInv /\ ItemsInv BY DEF IInv
<1>2. ASSUME NEW s \in Sources, Publish(s) PROVE FeedInv' BY <1>1, <1>2, PublishFeed
<1>3. ASSUME NEW s \in Sources, Seed(s) PROVE FeedInv'
  <2>1. \A t \in Sources : row'[t].validator = row[t].validator
                             /\ row'[t].failures = row[t].failures
    BY <1>1, <1>3 DEF Seed, TypeOK, Row
  <2>2. waiting \subseteq Sources /\ UNCHANGED <<published, waiting, snapshot, answers, results>>
    BY <1>1, <1>3 DEF Seed, TypeOK, Due, locals
  <2>. QED BY <1>1, <2>1, <2>2 DEF FeedInv
<1>4. ASSUME NEW s \in Sources, Fetch(s) PROVE FeedInv'
  <2>1. PICK answer \in AnswersTo(s) : answers' = [answers EXCEPT ![s] = answer]
    BY <1>4 DEF Fetch
  <2>2. UNCHANGED <<published, row, waiting, snapshot, results>>
    BY <1>4 DEF Fetch, tables
  <2>3. answer.kind = "fresh" =>
          answer.version <= Len(published[s]) /\ answer.validator \in {0, answer.version}
    BY <1>1, AnswerType
  <2>4. \A t \in Sources : answers'[t] = IF t = s THEN answer ELSE answers[t]
    BY <1>1, <2>1 DEF TypeOK
  <2>. QED BY <1>1, <2>2, <2>3, <2>4 DEF FeedInv
<1>5. ASSUME NEW s \in Sources,
             PersistFailure(s) \/ PersistNotModified(s) \/ PersistItems(s)
      PROVE  FeedInv'
  BY <1>1, <1>5, PersistEffect, PersistFeed
<1>6. CASE Start
  <2>1. /\ snapshot' = row /\ row' = row /\ published' = published
        /\ answers' = [s \in Sources |-> None] /\ results' = [s \in Sources |-> NoResult]
        /\ waiting' \subseteq Sources
    BY <1>6 DEF Start, tables
  <2>2. \A s \in Sources : answers'[s].kind # "fresh" BY <2>1 DEF None
  <2>. QED BY <1>1, <2>1, <2>2 DEF FeedInv
<1>7. CASE Conclude \/ Abort
  <2>1. /\ waiting' = {} /\ row' = row /\ published' = published
        /\ answers' = [s \in Sources |-> None]
    BY <1>7 DEF Conclude, Abort, Forget, tables
  <2>2. \A s \in Sources : answers'[s].kind # "fresh" BY <2>1 DEF None
  <2>. QED BY <1>1, <2>1, <2>2 DEF FeedInv
<1>8. CASE UNCHANGED vars BY <1>1, <1>8 DEF vars, tables, locals, FeedInv
<1>9. Reseeded \subseteq Sources BY FeedAssumption
<1> QED BY <1>2, <1>3, <1>4, <1>5, <1>6, <1>7, <1>8, <1>9 DEF Next

-----------------------------------------------------------------------------
(* The allowance.                                                          *)

(* Nothing stored is lost, and a run that has used up its allowance stays  *)
(* one that has.                                                           *)
Grown ==
  /\ items \subseteq items' /\ 1 .. run \subseteq 1 .. run'
  /\ \A r \in 1 .. run :
       Cardinality(NewItems(r)) = MaxNew => Cardinality(NewItems(r)') = MaxNew

LEMMA SameItems ==
  ASSUME ItemsInv, LimitKept, items' = items, run' = run,
         ~ Active' \/ (Active /\ left' = left)
  PROVE  ItemsInv' /\ LimitKept' /\ Grown
<1>1. \A r : NewItems(r)' = NewItems(r) BY DEF NewItems
<1>2. ItemsInv' BY <1>1 DEF ItemsInv
<1>3. LimitKept' BY <1>1 DEF LimitKept
<1>4. Grown BY <1>1 DEF Grown
<1>. QED BY <1>2, <1>3, <1>4

LEMMA StartItems ==
  ASSUME TypeOK, ItemsInv, LimitKept, Start PROVE ItemsInv' /\ LimitKept' /\ Grown
<1>1. items' = items /\ run' = run + 1 /\ left' = MaxNew /\ run \in Nat /\ MaxNew \in Nat
  BY BoundAssumption DEF Start, tables, TypeOK
<1>. DEFINE next == run + 1
<1>2. \A r : NewItems(r)' = NewItems(r) BY <1>1 DEF NewItems
<1>3. \A item \in items : item.run \in Nat /\ item.run <= run
  BY BoundAssumption DEF TypeOK, Item, ItemsInv
<1>4. NewItems(next) = {} /\ \A item \in items : item.run <= next
  BY <1>1, <1>3 DEF NewItems
<1>5. Cardinality(NewItems(next)) = 0 BY <1>4, FS_EmptySet
<1>6. 1 .. run \subseteq 1 .. next /\ \A r \in 1 .. next : r \in 1 .. run \/ r = next
  BY <1>1
<1>7. 0 + MaxNew = MaxNew /\ 0 <= MaxNew BY <1>1
<1>. HIDE DEF next
<1>8. run' = next BY <1>1 DEF next
<1>9. ItemsInv' BY <1>1, <1>2, <1>4, <1>5, <1>7, <1>8 DEF ItemsInv
<1>10. LimitKept' BY <1>2, <1>5, <1>6, <1>7, <1>8 DEF LimitKept
<1>11. Grown BY <1>1, <1>2, <1>6, <1>8 DEF Grown
<1>. QED BY <1>9, <1>10, <1>11

LEMMA PersistGrows ==
  ASSUME TypeOK, StageInv, ItemsInv, LimitKept, NEW s \in Sources,
         NEW source, NEW ok, NEW duplicate, NEW entries,
         Persisted(s, source, ok, duplicate, entries)
  PROVE  ItemsInv' /\ LimitKept' /\ Grown
<1>1. /\ run' = run /\ items \subseteq items' /\ IsFiniteSet(items')
      /\ \A item \in items' \ items : item.run = run
      /\ left' \in 0 .. MaxNew /\ left' <= left /\ Active
  BY DEF Persisted, Active
<1>2. Cardinality(NewItems(run)') + left' = MaxNew
  BY <1>1 DEF Persisted, NewItems
<1>3. Cardinality(NewItems(run)) + left = MaxNew BY <1>1 DEF ItemsInv
<1>4. \A r : r # run => NewItems(r)' = NewItems(r) BY <1>1 DEF NewItems
<1>5. Cardinality(NewItems(run)) \in Nat /\ Cardinality(NewItems(run)') \in Nat
  <2>1. NewItems(run) \subseteq items' /\ NewItems(run)' \subseteq items'
    BY <1>1 DEF NewItems
  <2>. QED BY <1>1, <2>1, FS_Subset, FS_CardinalityType
<1>6. run \in 1 .. MaxRuns /\ run \in Nat /\ run <= run /\ left \in Nat /\ left' \in Nat
        /\ MaxNew \in Nat
  BY <1>1, BoundAssumption DEF StageInv, TypeOK
<1>7. \A c, l \in Nat : c + l = MaxNew => c <= MaxNew /\ (c = MaxNew <=> l = 0)
  BY <1>6
<1>8. \A a, b \in Nat : a <= b /\ b = 0 => a = 0 OBVIOUS
<1>9. /\ Cardinality(NewItems(run)') <= MaxNew
      /\ Cardinality(NewItems(run)) = MaxNew => Cardinality(NewItems(run)') = MaxNew
  BY <1>1, <1>2, <1>3, <1>5, <1>6, <1>7, <1>8
<1>10. LimitKept' BY <1>1, <1>4, <1>9 DEF LimitKept
<1>11. Grown BY <1>1, <1>4, <1>9 DEF Grown
<1>12. \A item \in items' : item.run <= run BY <1>1, <1>6 DEF ItemsInv
<1>13. ItemsInv' BY <1>1, <1>2, <1>12 DEF ItemsInv, NewItems
<1>. QED BY <1>10, <1>11, <1>13

LEMMA ItemsStep == IInv /\ [Next]_vars => ItemsInv' /\ LimitKept' /\ Grown
<1> SUFFICES ASSUME IInv, [Next]_vars PROVE ItemsInv' /\ LimitKept' /\ Grown
  OBVIOUS
<1>1. TypeOK /\ StageInv /\ FeedInv /\ ItemsInv /\ LimitKept BY DEF IInv
<1>2. CASE UNCHANGED <<items, run, left, stage>>
  <2>1. Active' = Active BY <1>2 DEF Active
  <2>. QED BY <1>1, <1>2, <2>1, SameItems DEF Active
<1>3. ASSUME NEW s \in Sources, Publish(s) \/ Seed(s) PROVE ItemsInv' /\ LimitKept' /\ Grown
  BY <1>2, <1>3 DEF Publish, Seed, tables, locals
<1>4. ASSUME NEW s \in Sources, Fetch(s) PROVE ItemsInv' /\ LimitKept' /\ Grown
  BY <1>1, <1>4, SameItems DEF Fetch, Active, tables
<1>5. ASSUME NEW s \in Sources,
             PersistFailure(s) \/ PersistNotModified(s) \/ PersistItems(s)
      PROVE  ItemsInv' /\ LimitKept' /\ Grown
  BY <1>1, <1>5, PersistEffect, PersistGrows
<1>6. CASE Start BY <1>1, <1>6, StartItems
<1>7. CASE Conclude \/ Abort
  <2>1. items' = items /\ run' = run /\ ~ Active'
    BY <1>7 DEF Conclude, Abort, tables, Active
  <2>. QED BY <1>1, <2>1, SameItems
<1>8. CASE UNCHANGED vars BY <1>2, <1>8 DEF vars, tables, locals
<1>9. Reseeded \subseteq Sources BY FeedAssumption
<1> QED BY <1>3, <1>4, <1>5, <1>6, <1>7, <1>8, <1>9 DEF Next

-----------------------------------------------------------------------------
(* What a stored validator stands for.                                     *)

(* What is covered stays so.                                               *)
LEMMA CoveredKept ==
  ASSUME Grown, NEW s, NEW version, Covered(s, version),
         version # 0 => published'[s][version] = published[s][version]
  PROVE  Covered(s, version)'
<1>1. version # 0 => Entries(s, version)' = Entries(s, version) BY DEF Entries
<1>2. \A entry : Usable(s, entry)' <=> Usable(s, entry) BY DEF Usable
<1>. QED BY <1>1, <1>2 DEF Covered, Grown

(* A published version does not change.                                    *)
LEMMA VersionsStay ==
  ASSUME TypeOK, [Next]_vars, NEW s \in Sources, NEW version \in 1 .. Len(published[s])
  PROVE  published'[s][version] = published[s][version]
<1>1. CASE published' = published BY <1>1
<1>2. ASSUME NEW t \in Sources, Publish(t)
      PROVE  published'[s][version] = published[s][version]
  <2>1. PICK body \in Bodies[t] : published' = [published EXCEPT ![t] = Append(@, body)]
    BY <1>2 DEF Publish
  <2>2. published[s] \in Seq(Seq(Entry)) BY DEF TypeOK
  <2>3. s = t => published'[s] = Append(published[s], body) BY <2>1 DEF TypeOK
  <2>4. s # t => published'[s] = published[s] BY <2>1 DEF TypeOK
  <2>. QED BY <2>2, <2>3, <2>4
<1>3. published' = published \/ \E t \in Sources : Publish(t)
  BY DEF Next, Seed, Fetch, PersistFailure, PersistNotModified, PersistItems, Save, Start,
         Conclude, Abort, vars
<1>. QED BY <1>1, <1>2, <1>3

(* What is stored with a new validator covers it.                          *)
LEMMA PersistCovers ==
  ASSUME TypeOK, StageInv, FeedInv, ItemsInv, ItemsInv', ValidatorCovers,
         NEW s \in Sources, NEW source, NEW ok, NEW duplicate, NEW entries,
         Persisted(s, source, ok, duplicate, entries),
         Grown
  PROVE  Covered(s, source.validator)'
<1>1. CASE source.validator = snapshot[s].validator
  <2>1. source.validator = row[s].validator /\ published' = published
    BY <1>1 DEF Persisted, FeedInv
  <2>2. Covered(s, source.validator) BY <2>1 DEF ValidatorCovers
  <2>. QED BY <2>1, <2>2, CoveredKept
<1>2. CASE \A entry \in ToSet(Entries(s, source.validator)) :
             Usable(s, entry) => left' = 0 \/ Matches(items', s, entry) # {}
  <2>1. /\ published' = published /\ run' = run /\ Active
        /\ Cardinality(NewItems(run)') + left' = MaxNew
    BY DEF Persisted, Active, NewItems
  <2>2. run \in 1 .. run'
    <3>1. run \in 1 .. MaxRuns BY <2>1 DEF StageInv
    <3>. QED BY <2>1, <3>1
  <2>3. left' = 0 => Cardinality(NewItems(run)') = MaxNew
    <3>1. NewItems(run)' \subseteq items' BY DEF NewItems
    <3>2. Cardinality(NewItems(run)') \in Nat
      BY <3>1, FS_Subset, FS_CardinalityType DEF ItemsInv
    <3>3. \A c \in Nat : c + 0 = MaxNew => c = MaxNew OBVIOUS
    <3>. QED BY <2>1, <3>2, <3>3
  <2>4. Entries(s, source.validator)' = Entries(s, source.validator)
    BY <2>1 DEF Entries
  <2>5. ASSUME NEW entry \in ToSet(Entries(s, source.validator)), Usable(s, entry)
        PROVE  \/ \E item \in items' :
                    \/ item.link = entry.link
                    \/ item.source = s /\ item.id = entry.id /\ entry.id \in Ids
               \/ \E r \in 1 .. run' : Cardinality(NewItems(r)') = MaxNew
    <3>1. CASE left' = 0 BY <2>1, <2>2, <2>3, <3>1 DEF NewItems
    <3>2. CASE Matches(items', s, entry) # {}
      <4>1. PICK item \in items' : IsItem(item, s, entry) BY <3>2 DEF Matches
      <4>2. item.id \in Ids \cup {NoId}
        BY <4>1 DEF Persisted, Item
      <4>. QED BY <4>1, <4>2 DEF IsItem
    <3>. QED BY <1>2, <2>5, <3>1, <3>2
  <2>. QED BY <2>4, <2>5 DEF Covered, Usable
<1>. QED BY <1>1, <1>2 DEF Persisted

LEMMA CoverStep == IInv /\ [Next]_vars => ValidatorCovers'
<1> SUFFICES ASSUME IInv, [Next]_vars, NEW s \in Sources
             PROVE  Covered(s, row[s].validator)'
  BY DEF ValidatorCovers
<1>1. /\ TypeOK /\ StageInv /\ FeedInv /\ ItemsInv /\ LimitKept /\ ValidatorCovers
      /\ ItemsInv' /\ Grown
  BY ItemsStep DEF IInv
<1>2. CASE row'[s].validator = row[s].validator
  <2>. DEFINE version == row[s].validator
  <2>1. Covered(s, version) BY <1>1 DEF ValidatorCovers
  <2>2. version # 0 => version \in 1 .. Len(published[s])
    <3>1. version \in Nat /\ version <= Len(published[s]) /\ Len(published[s]) \in Nat
      <4>1. row[s] \in Row /\ published[s] \in Seq(Seq(Entry)) BY <1>1 DEF TypeOK
      <4>. QED BY <1>1, <4>1, BoundAssumption DEF Row, FeedInv
    <3>. QED BY <3>1
  <2>3. version # 0 => published'[s][version] = published[s][version]
    BY <1>1, <2>2, VersionsStay
  <2>. DEFINE v == row[s].validator
  <2>4. \A n : n = version => Covered(s, n)'
    <3>. HIDE DEF version
    <3>1. ASSUME NEW n, n = version PROVE Covered(s, n)'
      BY <1>1, <2>1, <2>3, <3>1, CoveredKept
    <3>. QED BY <3>1
  <2>5. \A n : n = row'[s].validator => Covered(s, n)' BY <1>2, <2>4
  <2>. QED BY <2>5
<1>3. ASSUME NEW t \in Sources,
             PersistFailure(t) \/ PersistNotModified(t) \/ PersistItems(t)
      PROVE  Covered(s, row[s].validator)'
  <2>1. PICK source, ok, duplicate, entries : Persisted(t, source, ok, duplicate, entries)
    BY <1>1, <1>3, PersistEffect
  <2>2. row' = [row EXCEPT ![t] = source] BY <2>1 DEF Persisted
  <2>3. CASE t # s
    <3>1. row'[s] = row[s] BY <1>1, <2>2, <2>3 DEF TypeOK
    <3>. QED BY <1>2, <3>1
  <2>4. CASE t = s
    <3>1. row'[s] = source BY <1>1, <2>2, <2>4 DEF TypeOK
    <3>2. Covered(s, source.validator)' BY <1>1, <2>1, <2>4, PersistCovers
    <3>. QED BY <3>1, <3>2
  <2>. QED BY <2>3, <2>4
<1>4. CASE row' = row BY <1>2, <1>4
<1>5. ASSUME NEW t \in Sources, Seed(t) PROVE Covered(s, row[s].validator)'
  <2>1. row'[s].validator = row[s].validator BY <1>1, <1>5 DEF Seed, TypeOK, Row
  <2>. QED BY <1>2, <2>1
<1>6. Reseeded \subseteq Sources BY FeedAssumption
<1> QED
  BY <1>3, <1>4, <1>5, <1>6
  DEF Next, Publish, Fetch, Start, Conclude, Abort, vars, tables

-----------------------------------------------------------------------------
(* The rows of feed_fetches.                                               *)

(* A row appended (FeedFetchRepository.add).                               *)
LEMMA RowAdded ==
  ASSUME NEW R, NEW L \in Seq(R), NEW e \in R
  PROVE  LET n == Len(L) + 1
             M == Append(L, e)
         IN  /\ M \in Seq(R) /\ n \notin DOMAIN L /\ DOMAIN M = DOMAIN L \cup {n}
             /\ M[n] = e /\ \A i \in DOMAIN L : M[i] = L[i] /\ i < n /\ i \in Nat
             /\ n \in Nat /\ IsFiniteSet(DOMAIN L) /\ IsFiniteSet(DOMAIN M)
<1>. DEFINE n == Len(L) + 1
            M == Append(L, e)
<1>1. /\ Len(L) \in Nat /\ n \in Nat /\ DOMAIN L = 1 .. Len(L)
      /\ M \in Seq(R) /\ Len(M) = n /\ DOMAIN M = 1 .. n
      /\ M[n] = e /\ \A i \in 1 .. Len(L) : M[i] = L[i]
  OBVIOUS
<1>2. /\ 1 .. n = (1 .. Len(L)) \cup {n} /\ n \notin 1 .. Len(L)
      /\ \A i \in 1 .. Len(L) : i < n /\ i \in Nat
  BY <1>1
<1>3. IsFiniteSet(DOMAIN L) /\ IsFiniteSet(DOMAIN M)
  <2>1. 1 \in Int /\ Len(L) \in Int /\ n \in Int BY <1>1
  <2>. HIDE DEF n, M
  <2>. QED BY <1>1, <2>1, FS_Interval
<1>. HIDE DEF n, M
<1>4. /\ M \in Seq(R) /\ n \notin DOMAIN L /\ DOMAIN M = DOMAIN L \cup {n}
      /\ M[n] = e /\ \A i \in DOMAIN L : M[i] = L[i] /\ i < n /\ i \in Nat
      /\ n \in Nat
  BY <1>1, <1>2
<1>. QED BY <1>3, <1>4 DEF n, M

(* The failed rows of a source that no row without failure follows.        *)
Streak(L, s) ==
  {i \in DOMAIN L : L[i].source = s /\ \A j \in DOMAIN L : L[j].source = s /\ j >= i => ~ L[j].ok}

LEMMA StreakGrows ==
  ASSUME NEW R, NEW L \in Seq(R), NEW e \in R, NEW s
  PROVE  /\ Cardinality(Streak(L, s)) \in Nat
         /\ e.source # s => Streak(Append(L, e), s) = Streak(L, s)
         /\ e.source = s /\ e.ok => Cardinality(Streak(Append(L, e), s)) = 0
         /\ e.source = s /\ ~ e.ok =>
              Cardinality(Streak(Append(L, e), s)) = Cardinality(Streak(L, s)) + 1
<1>. DEFINE n == Len(L) + 1
            M == Append(L, e)
<1>1. /\ n \notin DOMAIN L /\ DOMAIN M = DOMAIN L \cup {n}
      /\ M[n] = e /\ \A i \in DOMAIN L : M[i] = L[i] /\ i < n /\ i \in Nat
      /\ n \in Nat /\ IsFiniteSet(DOMAIN L)
  BY RowAdded
<1>. HIDE DEF n, M
<1>2. \A i \in DOMAIN L : n >= i /\ ~ (i >= n) BY <1>1
<1>3. IsFiniteSet(Streak(L, s)) /\ Cardinality(Streak(L, s)) \in Nat
  <2>1. Streak(L, s) \subseteq DOMAIN L BY DEF Streak
  <2>. QED BY <1>1, <2>1, FS_Subset, FS_CardinalityType
<1>4. e.source # s => Streak(M, s) = Streak(L, s) BY <1>1 DEF Streak
<1>5. ASSUME e.source = s, e.ok PROVE Cardinality(Streak(M, s)) = 0
  <2>1. \A i \in DOMAIN M : n >= i /\ n \in DOMAIN M /\ M[n].source = s /\ M[n].ok
    BY <1>1, <1>2, <1>5
  <2>2. Streak(M, s) = {} BY <2>1 DEF Streak
  <2>. QED BY <2>2, FS_EmptySet
<1>6. ASSUME e.source = s, ~ e.ok
      PROVE  Cardinality(Streak(M, s)) = Cardinality(Streak(L, s)) + 1
  <2>1. n \in Streak(M, s)
    <3>1. \A j \in DOMAIN M : j >= n => j = n BY <1>1, <1>2
    <3>. QED BY <1>1, <1>6, <3>1 DEF Streak
  <2>2. \A i \in DOMAIN L : i \in Streak(M, s) <=> i \in Streak(L, s)
    BY <1>1, <1>6 DEF Streak
  <2>3. Streak(M, s) \subseteq DOMAIN M /\ Streak(L, s) \subseteq DOMAIN L BY DEF Streak
  <2>4. Streak(M, s) = Streak(L, s) \cup {n} /\ n \notin Streak(L, s)
    BY <1>1, <2>1, <2>2, <2>3
  <2>. QED BY <1>3, <2>4, FS_AddElement
<1>. QED BY <1>3, <1>4, <1>5, <1>6 DEF M

LEMMA FailuresAreStreaks ==
  FailuresMatchLog <=> \A s \in Sources : row[s].failures = Cardinality(Streak(log, s))
<1>1. ASSUME NEW s
      PROVE  LET rows == {i \in DOMAIN log : log[i].source = s}
             IN  {i \in rows : \A j \in rows : j >= i => ~ log[j].ok} = Streak(log, s)
  BY DEF Streak
<1>. QED BY <1>1 DEF FailuresMatchLog

LEMMA FailuresStep == IInv /\ [Next]_vars => FailuresMatchLog'
<1> SUFFICES ASSUME IInv, [Next]_vars PROVE FailuresMatchLog'
  OBVIOUS
<1>1. TypeOK /\ StageInv /\ FeedInv /\ ItemsInv BY DEF IInv
<1>2. \A s \in Sources : row[s].failures = Cardinality(Streak(log, s))
  BY FailuresAreStreaks DEF IInv
<1>3. FailuresMatchLog' <=>
        \A s \in Sources : row'[s].failures = Cardinality(Streak(log', s))
  <2>1. ASSUME NEW s
        PROVE  LET rows == {i \in DOMAIN log' : log'[i].source = s}
               IN  {i \in rows : \A j \in rows : j >= i => ~ log'[j].ok} = Streak(log', s)
    BY DEF Streak
  <2>. QED BY <2>1 DEF FailuresMatchLog
<1>4. CASE log' = log /\ \A s \in Sources : row'[s].failures = row[s].failures
  BY <1>2, <1>3, <1>4
<1>5. ASSUME NEW t \in Sources,
             PersistFailure(t) \/ PersistNotModified(t) \/ PersistItems(t)
      PROVE  FailuresMatchLog'
  <2>1. PICK source, ok, duplicate, entries : Persisted(t, source, ok, duplicate, entries)
    BY <1>1, <1>5, PersistEffect
  <2>. DEFINE R == [run: 1 .. MaxRuns, source: Sources, ok: BOOLEAN, entries: 0 .. MaxEntries]
              e == [run |-> run, source |-> t, ok |-> ok, entries |-> entries]
  <2>2. e \in R
    <3>1. run \in 1 .. MaxRuns BY <1>1, <2>1 DEF Persisted, StageInv, Active
    <3>. QED BY <2>1, <3>1 DEF Persisted
  <2>3. log \in Seq(R) BY <1>1 DEF TypeOK
  <2>4. log' = Append(log, e) /\ row' = [row EXCEPT ![t] = source] BY <2>1 DEF Persisted
  <2>5. e.source = t /\ e.ok = ok OBVIOUS
  <2>6. source.failures = IF ok THEN 0 ELSE row[t].failures + 1
    BY <1>1, <2>1 DEF Persisted, FeedInv
  <2>. HIDE DEF R, e
  <2>7. ASSUME NEW s \in Sources PROVE row'[s].failures = Cardinality(Streak(log', s))
    <3>1. CASE s # t
      <4>1. row'[s] = row[s] BY <1>1, <2>4, <3>1 DEF TypeOK
      <4>2. Streak(log', s) = Streak(log, s) BY <2>2, <2>3, <2>4, <2>5, <3>1, StreakGrows
      <4>. QED BY <1>2, <4>1, <4>2
    <3>2. CASE s = t
      <4>1. row'[s] = source BY <1>1, <2>4, <3>2 DEF TypeOK
      <4>2. CASE ok
        <5>1. e.source = s /\ e.ok BY <2>5, <3>2, <4>2, Zenon
        <5>2. Cardinality(Streak(log', s)) = 0
          BY <2>2, <2>3, <2>4, <5>1, StreakGrows
        <5>. QED BY <2>6, <4>1, <4>2, <5>2
      <4>3. CASE ~ ok
        <5>1. Cardinality(Streak(log', s)) = Cardinality(Streak(log, s)) + 1
          BY <2>2, <2>3, <2>4, <2>5, <3>2, <4>3, StreakGrows
        <5>2. Cardinality(Streak(log, s)) = row[t].failures BY <1>2, <3>2
        <5>. QED BY <2>6, <4>1, <4>3, <5>1, <5>2
      <4>. QED BY <4>2, <4>3
    <3>. QED BY <3>1, <3>2
  <2>. QED BY <1>3, <2>7
<1>6. ASSUME NEW t \in Sources, Seed(t) PROVE FailuresMatchLog'
  <2>1. log' = log /\ \A s \in Sources : row'[s].failures = row[s].failures
    BY <1>1, <1>6 DEF Seed, TypeOK, Row
  <2>. QED BY <1>4, <2>1
<1>7. CASE log' = log /\ row' = row BY <1>4, <1>7
<1>8. Reseeded \subseteq Sources BY FeedAssumption
<1> QED
  BY <1>5, <1>6, <1>7, <1>8 DEF Next, Publish, Fetch, Start, Conclude, Abort, vars, tables

-----------------------------------------------------------------------------
(* The rows of a run, and what they list.                                  *)

RowsIn(L, r)   == {i \in DOMAIN L : L[i].run = r}
ListedIn(L, r) == SumFunction([i \in RowsIn(L, r) |-> L[i].entries])

(* A row appended leaves those of other runs.                              *)
LEMMA OtherRows ==
  ASSUME NEW R, NEW L \in Seq(R), NEW e \in R, NEW r, e.run # r
  PROVE  LET M == Append(L, e)
         IN  /\ RowsIn(M, r) = RowsIn(L, r) /\ ListedIn(M, r) = ListedIn(L, r)
             /\ \A i \in RowsIn(L, r) : M[i] = L[i]
<1>. DEFINE n == Len(L) + 1
            M == Append(L, e)
<1>1. /\ n \notin DOMAIN L /\ DOMAIN M = DOMAIN L \cup {n}
      /\ M[n] = e /\ \A i \in DOMAIN L : M[i] = L[i]
  BY RowAdded
<1>. HIDE DEF n, M
<1>2. RowsIn(M, r) = RowsIn(L, r) /\ \A i \in RowsIn(L, r) : M[i] = L[i]
  BY <1>1 DEF RowsIn
<1>3. [i \in RowsIn(M, r) |-> M[i].entries] = [i \in RowsIn(L, r) |-> L[i].entries]
  BY <1>2
<1>. QED BY <1>2, <1>3 DEF ListedIn, M

(* To the run's own it adds one.                                           *)
LEMMA RunRows ==
  ASSUME NEW R, NEW L \in Seq(R), NEW e \in R, \A x \in R : x.entries \in Nat
  PROVE  LET M == Append(L, e)
             n == Len(L) + 1
         IN  /\ n \notin RowsIn(L, e.run) /\ RowsIn(M, e.run) = RowsIn(L, e.run) \cup {n}
             /\ M[n] = e /\ \A i \in RowsIn(L, e.run) : M[i] = L[i]
             /\ ListedIn(L, e.run) \in Nat
             /\ ListedIn(M, e.run) = ListedIn(L, e.run) + e.entries
<1>. DEFINE n == Len(L) + 1
            M == Append(L, e)
            D == RowsIn(L, e.run)
            f == [i \in D |-> L[i].entries]
            g == [i \in D \cup {n} |-> M[i].entries]
<1>1. /\ n \notin DOMAIN L /\ DOMAIN M = DOMAIN L \cup {n}
      /\ M[n] = e /\ \A i \in DOMAIN L : M[i] = L[i]
      /\ IsFiniteSet(DOMAIN L)
  BY RowAdded
<1>0. \A i \in DOMAIN L : L[i] \in R OBVIOUS
<1>. HIDE DEF n, M
<1>2. /\ n \notin D /\ RowsIn(M, e.run) = D \cup {n}
      /\ \A i \in D : M[i] = L[i] /\ L[i] \in R
  BY <1>0, <1>1 DEF RowsIn
<1>3. IsFiniteSet(D)
  <2>1. D \subseteq DOMAIN L BY DEF RowsIn
  <2>. QED BY <1>1, <2>1, FS_Subset
<1>. HIDE DEF D
<1>4. f \in [D -> Nat] /\ g \in [D \cup {n} -> Nat] /\ \A i \in D : g[i] = f[i]
  BY <1>1, <1>2
<1>5. g[n] = e.entries BY <1>1
<1>. HIDE DEF f, g
<1>6. SumFunction(g) = SumFunction(f) + g[n] /\ SumFunction(f) \in Nat
  <2>1. SumFunction(f) \in Nat BY <1>3, <1>4, SumSplits
  <2>2. n \notin D BY <1>2
  <2>3. f \in [D -> Nat] /\ g \in [D \cup {n} -> Nat] BY <1>4
  <2>4. \A y \in D : g[y] = f[y] BY <1>4
  <2>5. IsFiniteSet(D) BY <1>3
  <2>6. SumFunction(g) = SumFunction(f) + g[n]
    <3>1. \A a \in [D -> Nat], b \in [D \cup {n} -> Nat] :
            (\A y \in D : b[y] = a[y]) => SumFunction(b) = SumFunction(a) + b[n]
      BY <2>2, <2>5, SumExtended
    <3>. QED BY <2>3, <2>4, <3>1
  <2>. QED BY <2>1, <2>6
<1>7. ListedIn(L, e.run) = SumFunction(f) BY DEF ListedIn, f, D
<1>8. ListedIn(M, e.run) = SumFunction(g) BY <1>2 DEF ListedIn, g
<1>. QED BY <1>1, <1>2, <1>5, <1>6, <1>7, <1>8 DEF M, n, D

(* What a run's counters say of its rows and of the articles it stored.    *)
Agrees(c, L, r, stored) ==
  c # Zero =>
    /\ c.total = Cardinality(RowsIn(L, r))
    /\ c.total = Cardinality({L[i].source : i \in RowsIn(L, r)})
    /\ c.succeeded = Cardinality({i \in RowsIn(L, r) : L[i].ok})
    /\ c.inserted = Cardinality(stored)
    /\ c.fetched = c.inserted + c.duplicate
    /\ c.fetched <= ListedIn(L, r)
    /\ c.fetched = ListedIn(L, r) \/ c.inserted = MaxNew

LEMMA MatchIsAgreement ==
  /\ CountersMatchTables <=> \A r \in 1 .. run : Agrees(counters[r], log, r, NewItems(r))
  /\ CountersMatchTables' <=>
       \A r \in 1 .. run' : Agrees(counters'[r], log', r, NewItems(r)')
<1>1. \A r : RowsOf(r) = RowsIn(log, r) /\ RowsOf(r)' = RowsIn(log', r)
  BY DEF RowsOf, RowsIn
<1>2. \A r : Listed(r) = ListedIn(log, r) /\ Listed(r)' = ListedIn(log', r)
  BY <1>1 DEF Listed, ListedIn
<1>3. CountersMatchTables <=> \A r \in 1 .. run : Agrees(counters[r], log, r, NewItems(r))
  BY <1>1, <1>2 DEF CountersMatchTables, Agrees
<1>4. CountersMatchTables' <=>
        \A r \in 1 .. run' : Agrees(counters'[r], log', r, NewItems(r)')
  BY <1>1, <1>2 DEF CountersMatchTables, Agrees
<1>. QED BY <1>3, <1>4

LEMMA AgreementKept ==
  ASSUME NEW R, NEW L \in Seq(R), NEW e \in R, NEW r, e.run # r, NEW c, NEW stored,
         Agrees(c, L, r, stored)
  PROVE  Agrees(c, Append(L, e), r, stored)
<1>. DEFINE M == Append(L, e)
<1>1. /\ RowsIn(M, r) = RowsIn(L, r) /\ ListedIn(M, r) = ListedIn(L, r)
      /\ \A i \in RowsIn(L, r) : M[i] = L[i]
  BY OtherRows
<1>. HIDE DEF M
<1>2. /\ {M[i].source : i \in RowsIn(M, r)} = {L[i].source : i \in RowsIn(L, r)}
      /\ {i \in RowsIn(M, r) : M[i].ok} = {i \in RowsIn(L, r) : L[i].ok}
  BY <1>1
<1>3. Agrees(c, M, r, stored) BY <1>1, <1>2 DEF Agrees
<1>. QED BY <1>3 DEF M

(* What a row says.                                                        *)
LEMMA RowTyped ==
  ASSUME TypeOK
  PROVE  /\ IsFiniteSet(DOMAIN log)
         /\ \A i \in DOMAIN log :
              /\ log[i].run \in 1 .. MaxRuns /\ log[i].source \in Sources
              /\ log[i].ok \in BOOLEAN /\ log[i].entries \in Nat
<1>. DEFINE R == [run: 1 .. MaxRuns, source: Sources, ok: BOOLEAN, entries: 0 .. MaxEntries]
<1>1. log \in Seq(R) BY DEF TypeOK
<1>2. \A x \in R : /\ x.run \in 1 .. MaxRuns /\ x.source \in Sources
                   /\ x.ok \in BOOLEAN /\ x.entries \in Nat
  BY BoundAssumption
<1>. HIDE DEF R
<1>3. \A i \in DOMAIN log : log[i] \in R BY <1>1
<1>4. DOMAIN log = 1 .. Len(log) /\ Len(log) \in Int /\ 1 \in Int BY <1>1
<1>5. IsFiniteSet(DOMAIN log) BY <1>4, FS_Interval
<1>. QED BY <1>2, <1>3, <1>5

LEMMA CountersStep == IInv /\ [Next]_vars => CountersInv'
<1> SUFFICES ASSUME IInv, [Next]_vars PROVE CountersInv'
  OBVIOUS
<1>1. TypeOK /\ StageInv /\ FeedInv /\ ItemsInv /\ CountersInv BY DEF IInv
<1>2. run \in Nat /\ MaxRuns \in Nat BY <1>1, BoundAssumption DEF TypeOK
<1>3. CASE UNCHANGED <<log, run, counters>> /\ (Active' => Active)
  BY <1>1, <1>3 DEF CountersInv
<1>4. ASSUME NEW s \in Sources, Publish(s) \/ Seed(s) PROVE CountersInv'
  BY <1>3, <1>4 DEF Publish, Seed, tables, locals, Active
<1>5. ASSUME NEW s \in Sources, Fetch(s) PROVE CountersInv'
  BY <1>3, <1>5 DEF Fetch, tables, Active
<1>6. ASSUME NEW s \in Sources,
             PersistFailure(s) \/ PersistNotModified(s) \/ PersistItems(s)
      PROVE  CountersInv'
  <2>1. PICK source, ok, duplicate, entries : Persisted(s, source, ok, duplicate, entries)
    BY <1>1, <1>6, PersistEffect
  <2>. DEFINE R == [run: 1 .. MaxRuns, source: Sources, ok: BOOLEAN, entries: 0 .. MaxEntries]
              e == [run |-> run, source |-> s, ok |-> ok, entries |-> entries]
  <2>2. e \in R
    <3>1. run \in 1 .. MaxRuns BY <1>1, <2>1 DEF Persisted, StageInv, Active
    <3>. QED BY <2>1, <3>1 DEF Persisted
  <2>3. log \in Seq(R) BY <1>1 DEF TypeOK
  <2>4. /\ log' = Append(log, e) /\ run' = run /\ counters' = counters /\ Active
    BY <2>1 DEF Persisted, Active
  <2>5. e.run = run /\ run <= run BY <1>2
  <2>. HIDE DEF R, e
  <2>6. \A i \in DOMAIN log' : log'[i].run <= run
    BY <1>1, <2>2, <2>3, <2>4, <2>5, RowAdded DEF CountersInv
  <2>. QED BY <1>1, <2>4, <2>6 DEF CountersInv
<1>7. CASE Start
  <2>1. run' = run + 1 /\ log' = log /\ counters' = counters BY <1>7 DEF Start, tables
  <2>2. ASSUME NEW i \in DOMAIN log PROVE log[i].run \in Nat
    <3>1. log[i].run \in 1 .. MaxRuns BY <1>1, RowTyped
    <3>. QED BY <1>2, <3>1
  <2>3. \A a \in Nat : a <= run => a <= run + 1 BY <1>2
  <2>4. \A r \in 1 .. MaxRuns : r > run + 1 \/ r = run + 1 => r > run BY <1>2
  <2>5. \A i \in DOMAIN log' : log'[i].run <= run'
    BY <1>1, <2>1, <2>2, <2>3 DEF CountersInv
  <2>6. \A r \in 1 .. MaxRuns : r > run' \/ r = run' => counters'[r] = Zero
    BY <1>1, <2>1, <2>4 DEF CountersInv
  <2>. QED BY <2>5, <2>6 DEF CountersInv
<1>8. CASE Conclude
  <2>1. /\ counters' = [counters EXCEPT ![run] = Counted]
        /\ ~ Active' /\ run' = run /\ log' = log
    BY <1>8 DEF Conclude, Active
  <2>2. \A r \in 1 .. MaxRuns : r > run => r # run BY <1>2
  <2>3. \A r \in 1 .. MaxRuns : r > run => counters'[r] = Zero
    BY <1>1, <2>1, <2>2 DEF CountersInv, TypeOK
  <2>. QED BY <1>1, <2>1, <2>3 DEF CountersInv
<1>9. CASE Abort BY <1>3, <1>9 DEF Abort, tables, Active
<1>10. CASE UNCHANGED vars BY <1>3, <1>10 DEF vars, tables, Active
<1>11. Reseeded \subseteq Sources BY FeedAssumption
<1> QED BY <1>4, <1>5, <1>6, <1>7, <1>8, <1>9, <1>10, <1>11 DEF Next

-----------------------------------------------------------------------------
(* The results of a run.                                                   *)

(* What one more result adds to the sums.                                  *)
InsertedIn(D, res)  == SumFunction([t \in D |-> res[t].inserted])
DuplicateIn(D, res) == SumFunction([t \in D |-> res[t].duplicate])
LEMMA SumsChange ==
  ASSUME NEW D, IsFiniteSet(D), D \subseteq Sources, NEW res \in [Sources -> Results],
         NEW s \in D, res[s] = NoResult, NEW new \in [Sources -> Results],
         \A t \in D : t # s => new[t] = res[t]
  PROVE  /\ InsertedIn(D, res) \in Nat /\ DuplicateIn(D, res) \in Nat
         /\ InsertedIn(D, new) = InsertedIn(D, res) + new[s].inserted
         /\ DuplicateIn(D, new) = DuplicateIn(D, res) + new[s].duplicate
<1>. DEFINE ins == [t \in D |-> res[t].inserted]
            dup == [t \in D |-> res[t].duplicate]
            newIns == [t \in D |-> new[t].inserted]
            newDup == [t \in D |-> new[t].duplicate]
<1>2. /\ ins \in [D -> Nat] /\ dup \in [D -> Nat]
      /\ newIns \in [D -> Nat] /\ newDup \in [D -> Nat]
  BY DEF Results
<1>3. /\ ins[s] = 0 /\ \A t \in D : t # s => newIns[t] = ins[t]
      /\ dup[s] = 0 /\ \A t \in D : t # s => newDup[t] = dup[t]
      /\ newIns[s] = new[s].inserted /\ newDup[s] = new[s].duplicate
  BY DEF NoResult, Result
<1>. HIDE DEF ins, dup, newIns, newDup
<1>4. SumFunction(ins) \in Nat /\ SumFunction(dup) \in Nat BY <1>2, SumSplits
<1>5. SumFunction(newIns) = SumFunction(ins) + newIns[s] BY <1>2, <1>3, SumChanged
<1>6. SumFunction(newDup) = SumFunction(dup) + newDup[s] BY <1>2, <1>3, SumChanged
<1>7. /\ InsertedIn(D, res) = SumFunction(ins) /\ InsertedIn(D, new) = SumFunction(newIns)
      /\ DuplicateIn(D, res) = SumFunction(dup) /\ DuplicateIn(D, new) = SumFunction(newDup)
  BY DEF InsertedIn, DuplicateIn, ins, dup, newIns, newDup
<1>. QED BY <1>3, <1>4, <1>5, <1>6, <1>7

(* The arithmetic of a source's result.                                    *)
LEMMA TallyNumbers ==
  ASSUME NEW a \in Nat, NEW b \in Nat, NEW list \in Nat, NEW l \in Nat, NEW m \in Nat,
         NEW d \in Nat, NEW e \in Nat, NEW max \in Nat, m <= l,
         a + l = max, a + b <= list, l # 0 => a + b = list,
         l + d <= e + m, m # 0 => l + d = e + m
  PROVE  /\ (a + (l - m)) + m = max
         /\ (a + (l - m)) + (b + d) <= list + e
         /\ m # 0 => (a + (l - m)) + (b + d) = list + e
OBVIOUS

(* The sums of a run to which a source's result is added.                  *)
LEMMA PersistSums ==
  ASSUME TypeOK, FeedInv, Tally, NEW s \in Sources, NEW source,
         NEW ok, NEW duplicate, NEW entries, Persisted(s, source, ok, duplicate, entries)
  PROVE  /\ Inserted' + left' = MaxNew
         /\ Inserted' + Duplicate' <= ListedIn(log, run) + entries
         /\ left' # 0 => Inserted' + Duplicate' = ListedIn(log, run) + entries
<1>1. /\ Active /\ s \in waiting /\ snapshot' = snapshot /\ left' <= left
      /\ left \in Nat /\ left' \in Nat /\ MaxNew \in Nat
      /\ duplicate \in Nat /\ entries \in Nat /\ ok \in BOOLEAN
      /\ Balanced(left', duplicate, entries)
  BY BoundAssumption DEF Persisted, Active, TypeOK
<1>2. /\ s \in Due /\ results[s] = NoResult
      /\ IsFiniteSet(Due) /\ Due \subseteq Sources /\ results \in [Sources -> Results]
  BY <1>1, DueFinite DEF TypeOK, FeedInv
<1>. DEFINE result == Result(ok, left - left', duplicate, entries)
<1>3. /\ result \in Results
      /\ result.inserted = left - left' /\ result.duplicate = duplicate
  <2>1. \A x, y \in Nat : x <= y => y - x \in Nat OBVIOUS
  <2>2. left - left' \in Nat BY <1>1, <2>1
  <2>. QED BY <1>1, <2>2 DEF Results, Result
<1>4. /\ results' \in [Sources -> Results] /\ results'[s] = result
      /\ \A t \in Due : t # s => results'[t] = results[t]
  <2>1. results' = [results EXCEPT ![s] = result] BY DEF Persisted
  <2>. HIDE DEF result
  <2>. QED BY <1>2, <1>3, <2>1
<1>. HIDE DEF result
<1>. DEFINE D == Due
            a == InsertedIn(D, results)
            b == DuplicateIn(D, results)
            aa == InsertedIn(D, results')
            bb == DuplicateIn(D, results')
<1>5. a \in Nat /\ b \in Nat /\ aa = a + result.inserted /\ bb = b + result.duplicate
  <2>1. IsFiniteSet(D) /\ D \subseteq Sources /\ s \in D BY <1>2
  <2>2. \A t \in D : t # s => results'[t] = results[t] BY <1>4
  <2>. HIDE DEF D
  <2>. QED BY <1>2, <1>4, <2>1, <2>2, SumsChange
<1>6. Inserted = a /\ Duplicate = b BY DEF Inserted, Duplicate, InsertedIn, DuplicateIn
<1>7. Inserted' = aa /\ Duplicate' = bb
  BY <1>1 DEF Inserted, Duplicate, InsertedIn, DuplicateIn, Due
<1>8. RowsOf(run) = RowsIn(log, run) BY DEF RowsOf, RowsIn
<1>9. Listed(run) = ListedIn(log, run) BY <1>8 DEF Listed, ListedIn
<1>10. ListedIn(log, run) \in Nat
  <2>1. IsFiniteSet(RowsIn(log, run))
    <3>1. RowsIn(log, run) \subseteq DOMAIN log BY DEF RowsIn
    <3>. QED BY <3>1, RowTyped, FS_Subset
  <2>2. [i \in RowsIn(log, run) |-> log[i].entries] \in [RowsIn(log, run) -> Nat]
    BY RowTyped DEF RowsIn
  <2>. QED BY <2>1, <2>2, SumSplits DEF ListedIn
<1>11. /\ a + left = MaxNew /\ a + b <= ListedIn(log, run)
       /\ left # 0 => a + b = ListedIn(log, run)
  BY <1>1, <1>6, <1>9 DEF Tally
<1>12. left + duplicate <= entries + left' /\ (left' # 0 => left + duplicate = entries + left')
  BY <1>1 DEF Balanced
<1>. HIDE DEF a, b, aa, bb
<1>13. /\ (a + (left - left')) + left' = MaxNew
       /\ (a + (left - left')) + (b + duplicate) <= ListedIn(log, run) + entries
       /\ left' # 0 => (a + (left - left')) + (b + duplicate) = ListedIn(log, run) + entries
  <2>1. \A m \in Nat : m <= left /\ left + duplicate <= entries + m
                        /\ (m # 0 => left + duplicate = entries + m) =>
          /\ (a + (left - m)) + m = MaxNew
          /\ (a + (left - m)) + (b + duplicate) <= ListedIn(log, run) + entries
          /\ m # 0 => (a + (left - m)) + (b + duplicate) = ListedIn(log, run) + entries
    BY <1>1, <1>5, <1>10, <1>11, TallyNumbers
  <2>. QED BY <1>1, <1>12, <2>1
<1>14. aa = a + (left - left') /\ bb = b + duplicate BY <1>3, <1>5
<1>. QED BY <1>7, <1>13, <1>14

(* A row and a result for each source that was stored.                     *)
Stands(L, r, stored, res) ==
  /\ \A i \in RowsIn(L, r) : L[i].source \in stored /\ L[i].ok = res[L[i].source].ok
  /\ \A i, j \in RowsIn(L, r) : L[i].source = L[j].source => i = j
  /\ \A s \in stored : \E i \in RowsIn(L, r) : L[i].source = s

LEMMA StandsGrow ==
  ASSUME NEW R, NEW L \in Seq(R), NEW e \in R, NEW stored, NEW res,
         Stands(L, e.run, stored, res),
         e.source \notin stored, NEW new, new[e.source].ok = e.ok,
         \A t \in stored : new[t] = res[t]
  PROVE  Stands(Append(L, e), e.run, stored \cup {e.source}, new)
<1>. DEFINE n == Len(L) + 1
            M == Append(L, e)
            D == RowsIn(L, e.run)
<1>1. /\ n \notin D /\ RowsIn(M, e.run) = D \cup {n}
      /\ M[n] = e /\ \A i \in D : M[i] = L[i]
  <2>1. /\ n \notin DOMAIN L /\ DOMAIN M = DOMAIN L \cup {n}
        /\ M[n] = e /\ \A i \in DOMAIN L : M[i] = L[i]
    BY RowAdded
  <2>. HIDE DEF n, M
  <2>. QED BY <2>1 DEF RowsIn
<1>2. /\ \A i \in D : L[i].source \in stored /\ L[i].ok = res[L[i].source].ok
      /\ \A i, j \in D : L[i].source = L[j].source => i = j
      /\ \A s \in stored : \E i \in D : L[i].source = s
  BY DEF Stands
<1>. HIDE DEF n, M, D
<1>3. \A i \in D \cup {n} : /\ M[i].source \in stored \cup {e.source}
                            /\ M[i].ok = new[M[i].source].ok
  BY <1>1, <1>2
<1>4. \A i, j \in D \cup {n} : M[i].source = M[j].source => i = j
  BY <1>1, <1>2
<1>5. \A s \in stored \cup {e.source} : \E i \in D \cup {n} : M[i].source = s
  BY <1>1, <1>2
<1>6. Stands(M, e.run, stored \cup {e.source}, new)
  BY <1>1, <1>3, <1>4, <1>5 DEF Stands
<1>. QED BY <1>6 DEF M

LEMMA TallyIsStanding ==
  /\ Tally <=> (Active =>
       /\ Stands(log, run, Due \ waiting, results)
       /\ Inserted + left = MaxNew
       /\ Inserted + Duplicate <= ListedIn(log, run)
       /\ left # 0 => Inserted + Duplicate = ListedIn(log, run))
  /\ Tally' <=> (Active' =>
       /\ Stands(log', run', Due' \ waiting', results')
       /\ Inserted' + left' = MaxNew
       /\ Inserted' + Duplicate' <= ListedIn(log', run')
       /\ left' # 0 => Inserted' + Duplicate' = ListedIn(log', run'))
<1>1. RowsOf(run) = RowsIn(log, run) /\ RowsOf(run)' = RowsIn(log', run')
  BY DEF RowsOf, RowsIn
<1>2. Listed(run) = ListedIn(log, run) /\ Listed(run)' = ListedIn(log', run')
  BY <1>1 DEF Listed, ListedIn
<1>3. Tally <=> (Active =>
       /\ Stands(log, run, Due \ waiting, results)
       /\ Inserted + left = MaxNew
       /\ Inserted + Duplicate <= ListedIn(log, run)
       /\ left # 0 => Inserted + Duplicate = ListedIn(log, run))
  BY <1>1, <1>2 DEF Tally, Stands
<1>4. Tally' <=> (Active' =>
       /\ Stands(log', run', Due' \ waiting', results')
       /\ Inserted' + left' = MaxNew
       /\ Inserted' + Duplicate' <= ListedIn(log', run')
       /\ left' # 0 => Inserted' + Duplicate' = ListedIn(log', run'))
  BY <1>1, <1>2 DEF Tally, Stands
<1>. QED BY <1>3, <1>4

LEMMA PersistTally ==
  ASSUME TypeOK, StageInv, FeedInv, Tally, NEW s \in Sources, NEW source,
         NEW ok, NEW duplicate, NEW entries, Persisted(s, source, ok, duplicate, entries)
  PROVE  Tally'
<1>. DEFINE R == [run: 1 .. MaxRuns, source: Sources, ok: BOOLEAN, entries: 0 .. MaxEntries]
            e == [run |-> run, source |-> s, ok |-> ok, entries |-> entries]
<1>1. /\ Active /\ s \in waiting /\ run \in 1 .. MaxRuns
      /\ run' = run /\ Due' = Due /\ waiting' = waiting \ {s} /\ log' = Append(log, e)
      /\ \E m : results' = [results EXCEPT ![s] = Result(ok, m, duplicate, entries)]
  BY DEF Persisted, Active, StageInv, Due
<1>2. e \in R BY <1>1 DEF Persisted
<1>3. log \in Seq(R) BY DEF TypeOK
<1>4. \A x \in R : x.entries \in Nat BY BoundAssumption
<1>5. e.run = run /\ e.source = s /\ e.ok = ok /\ e.entries = entries OBVIOUS
<1>6. /\ results'[s].ok = ok
      /\ \A t \in Due \ waiting : results'[t] = results[t]
  BY <1>1 DEF TypeOK, Due, Result
<1>. HIDE DEF R, e
<1>7. Stands(log, run, Due \ waiting, results)
  BY <1>1, TallyIsStanding
<1>8. Due' \ waiting' = (Due \ waiting) \cup {s}
  <2>1. s \in Due BY <1>1 DEF TypeOK
  <2>. QED BY <1>1, <2>1
<1>9. Stands(log', run', Due' \ waiting', results')
  <2>. DEFINE stored == Due \ waiting
  <2>1. s \notin stored BY <1>1
  <2>2. Stands(log, e.run, stored, results) BY <1>5, <1>7
  <2>3. results'[e.source].ok = e.ok /\ \A t \in stored : results'[t] = results[t]
    BY <1>5, <1>6
  <2>. HIDE DEF stored
  <2>4. Stands(Append(log, e), e.run, stored \cup {e.source}, results')
    BY <1>2, <1>3, <1>4, <1>5, <2>1, <2>2, <2>3, StandsGrow
  <2>5. stored \cup {e.source} = Due' \ waiting' BY <1>5, <1>8 DEF stored
  <2>. QED BY <1>1, <1>5, <2>4, <2>5
<1>10. ListedIn(log', run') = ListedIn(log, run) + entries
  BY <1>1, <1>2, <1>3, <1>4, <1>5, RunRows
<1>11. /\ Inserted' + left' = MaxNew
       /\ Inserted' + Duplicate' <= ListedIn(log, run) + entries
       /\ left' # 0 => Inserted' + Duplicate' = ListedIn(log, run) + entries
  BY PersistSums
<1>. QED BY <1>9, <1>10, <1>11, TallyIsStanding

LEMMA StartTally ==
  ASSUME TypeOK, CountersInv, Start PROVE Tally'
<1>1. /\ run' = run + 1 /\ log' = log /\ waiting' = Due' /\ left' = MaxNew
      /\ results' = [s \in Sources |-> NoResult] /\ snapshot' = row
      /\ run \in Nat /\ MaxNew \in Nat
  BY BoundAssumption DEF Start, tables, Due, TypeOK
<1>2. RowsIn(log, run + 1) = {}
  <2>1. \A a \in 1 .. MaxRuns : a <= run => a # run + 1 BY <1>1
  <2>. QED BY <2>1, RowTyped DEF CountersInv, RowsIn
<1>3. Stands(log', run', Due' \ waiting', results')
  BY <1>1, <1>2 DEF Stands
<1>4. ListedIn(log', run') = 0
  <2>. DEFINE f == [i \in RowsIn(log, run + 1) |-> log[i].entries]
  <2>1. IsFiniteSet({}) BY FS_EmptySet
  <2>2. f \in [{} -> Nat] BY <1>2
  <2>3. ListedIn(log', run') = SumFunction(f) BY <1>1 DEF ListedIn
  <2>. HIDE DEF f
  <2>4. SumFunction(f) = 0 BY <2>1, <2>2, SumSplits
  <2>. QED BY <2>3, <2>4
<1>5. Inserted' = 0 /\ Duplicate' = 0
  <2>. DEFINE D == {s \in Sources : row[s].enabled}
              f == [s \in D |-> 0]
  <2>1. IsFiniteSet(D) /\ D \subseteq Sources BY FeedAssumption, FS_Subset
  <2>2. Inserted' = SumFunction([s \in Due' |-> results'[s].inserted])
        /\ Duplicate' = SumFunction([s \in Due' |-> results'[s].duplicate])
    BY DEF Inserted, Duplicate
  <2>3. Due' = D BY <1>1 DEF Due
  <2>4. \A s \in D : results'[s].inserted = 0 /\ results'[s].duplicate = 0
    BY <1>1, <2>1 DEF NoResult, Result
  <2>5. f \in [D -> Nat] /\ \A s \in D : f[s] = 0 OBVIOUS
  <2>6. [s \in Due' |-> results'[s].inserted] = f /\ [s \in Due' |-> results'[s].duplicate] = f
    BY <2>3, <2>4
  <2>. HIDE DEF D, f
  <2>7. SumFunction(f) = 0 BY <2>1, <2>5, SumZero
  <2>. QED BY <2>2, <2>6, <2>7
<1>6. 0 + MaxNew = MaxNew /\ 0 + 0 <= 0 /\ 0 + 0 = 0 BY <1>1
<1>7. /\ Inserted' + left' = MaxNew
      /\ Inserted' + Duplicate' <= ListedIn(log', run')
      /\ Inserted' + Duplicate' = ListedIn(log', run')
  BY <1>1, <1>4, <1>5, <1>6
<1>. QED BY <1>3, <1>7, TallyIsStanding

LEMMA TallyStep == IInv /\ [Next]_vars => Tally'
<1> SUFFICES ASSUME IInv, [Next]_vars PROVE Tally'
  OBVIOUS
<1>1. TypeOK /\ StageInv /\ FeedInv /\ ItemsInv /\ CountersInv /\ Tally BY DEF IInv
<1>2. CASE UNCHANGED <<log, run, snapshot, waiting, left, results>> /\ (Active' => Active)
  BY <1>1, <1>2 DEF Tally, RowsOf, Listed, Inserted, Duplicate, Due
<1>3. ASSUME NEW s \in Sources, Publish(s) \/ Seed(s) PROVE Tally'
  BY <1>2, <1>3 DEF Publish, Seed, tables, locals, Active
<1>4. ASSUME NEW s \in Sources, Fetch(s) PROVE Tally'
  BY <1>2, <1>4 DEF Fetch, tables, Active
<1>5. ASSUME NEW s \in Sources,
             PersistFailure(s) \/ PersistNotModified(s) \/ PersistItems(s)
      PROVE  Tally'
  BY <1>1, <1>5, PersistEffect, PersistTally
<1>6. CASE Start BY <1>1, <1>6, StartTally
<1>7. CASE Conclude \/ Abort BY <1>7 DEF Conclude, Abort, Active, Tally
<1>8. CASE UNCHANGED vars BY <1>2, <1>8 DEF vars, tables, locals, Active
<1>9. Reseeded \subseteq Sources BY FeedAssumption
<1> QED BY <1>3, <1>4, <1>5, <1>6, <1>7, <1>8, <1>9 DEF Next

(* A run's rows stand one for one for the sources that were stored.        *)
FeedsIn(L, r) == {L[i].source : i \in RowsIn(L, r)}
GoodIn(L, r)  == {i \in RowsIn(L, r) : L[i].ok}
Successes(D, res) == {s \in D : res[s].ok}

LEMMA StandsCount ==
  ASSUME NEW L, IsFiniteSet(DOMAIN L), NEW r, NEW stored, NEW res, Stands(L, r, stored, res)
  PROVE  /\ FeedsIn(L, r) = stored
         /\ Cardinality(RowsIn(L, r)) = Cardinality(stored)
         /\ Cardinality(GoodIn(L, r)) = Cardinality(Successes(stored, res))
<1>. DEFINE D == RowsIn(L, r)
            O == {i \in D : L[i].ok}
            f == [i \in D |-> L[i].source]
<1>1. IsFiniteSet(D) /\ IsFiniteSet(O)
  <2>1. D \subseteq DOMAIN L /\ O \subseteq DOMAIN L BY DEF RowsIn
  <2>. HIDE DEF D, O
  <2>. QED BY <2>1, FS_Subset
<1>2. /\ \A i \in D : L[i].source \in stored /\ L[i].ok = res[L[i].source].ok
      /\ \A i, j \in D : L[i].source = L[j].source => i = j
      /\ \A s \in stored : \E i \in D : L[i].source = s
  BY DEF Stands
<1>. HIDE DEF D
<1>3. /\ {L[i].source : i \in D} = stored /\ {f[i] : i \in D} = stored
      /\ \A i, j \in D : f[i] = f[j] => i = j
  BY <1>2
<1>4. {f[i] : i \in O} = {s \in stored : res[s].ok} /\ \A i, j \in O : f[i] = f[j] => i = j
  <2>1. ASSUME NEW i \in O PROVE f[i] \in stored /\ res[f[i]].ok BY <1>2
  <2>2. ASSUME NEW s \in stored, res[s].ok PROVE \E i \in O : f[i] = s
    <3>1. PICK i \in D : L[i].source = s BY <1>2
    <3>2. L[i].ok = res[s].ok BY <1>2, <3>1
    <3>3. i \in O /\ f[i] = s BY <2>2, <3>1, <3>2
    <3>. QED BY <3>3
  <2>3. \A i, j \in O : f[i] = f[j] => i = j BY <1>3
  <2>. HIDE DEF O, f
  <2>. QED BY <2>1, <2>2, <2>3
<1>. HIDE DEF f
<1>5. Cardinality({f[i] : i \in D}) = Cardinality(D) BY <1>1, <1>3, InjectionSize
<1>6. Cardinality({f[i] : i \in O}) = Cardinality(O)
  <2>. HIDE DEF O
  <2>. QED BY <1>1, <1>4, InjectionSize
<1>7. FeedsIn(L, r) = stored BY <1>3 DEF FeedsIn, D
<1>8. GoodIn(L, r) = O /\ Successes(stored, res) = {s \in stored : res[s].ok}
  BY DEF GoodIn, Successes, D
<1>. HIDE DEF O
<1>. QED BY <1>3, <1>4, <1>5, <1>6, <1>7, <1>8 DEF D

(* The row of a run that ends is true.                                     *)
LEMMA ConcludeAgrees ==
  ASSUME TypeOK, StageInv, ItemsInv, Tally, stage = "ingested"
  PROVE  Agrees(Counted, log, run, NewItems(run))
<1>1. Active /\ waiting = {} BY DEF Active, StageInv
<1>2. /\ Stands(log, run, Due, results)
      /\ Inserted + left = MaxNew
      /\ Inserted + Duplicate <= ListedIn(log, run)
      /\ left # 0 => Inserted + Duplicate = ListedIn(log, run)
  <2>1. Due \ waiting = Due BY <1>1
  <2>. QED BY <1>1, <2>1, TallyIsStanding
<1>3. /\ FeedsIn(log, run) = Due
      /\ Cardinality(RowsIn(log, run)) = Cardinality(Due)
      /\ Cardinality(GoodIn(log, run)) = Cardinality(Successes(Due, results))
  BY <1>2, RowTyped, StandsCount
<1>4. /\ Counted.total = Cardinality(Due)
      /\ Counted.succeeded = Cardinality(Successes(Due, results))
      /\ Counted.fetched = Inserted + Duplicate
      /\ Counted.inserted = Inserted /\ Counted.duplicate = Duplicate
  BY DEF Counted, Inserted, Duplicate, Successes
<1>5. Inserted \in Nat /\ left \in Nat /\ MaxNew \in Nat
  <2>1. Counted.inserted \in Nat BY CountedType DEF Counters
  <2>. QED BY <1>4, <2>1, BoundAssumption DEF TypeOK
<1>6. Inserted = Cardinality(NewItems(run)) /\ (left = 0 => Inserted = MaxNew)
  <2>1. Cardinality(NewItems(run)) + left = MaxNew BY <1>1 DEF ItemsInv
  <2>2. Cardinality(NewItems(run)) \in Nat
    <3>1. NewItems(run) \subseteq items BY DEF NewItems
    <3>. QED BY <3>1, FS_Subset, FS_CardinalityType DEF ItemsInv
  <2>3. \A a, b, l, m \in Nat : a + l = m /\ b + l = m => a = b /\ (l = 0 => a = m) OBVIOUS
  <2>. QED BY <1>2, <1>5, <2>1, <2>2, <2>3
<1>. QED BY <1>2, <1>3, <1>4, <1>6 DEF Agrees, FeedsIn, GoodIn

LEMMA MatchStep == IInv /\ [Next]_vars => CountersMatchTables'
<1> SUFFICES ASSUME IInv, [Next]_vars PROVE CountersMatchTables'
  OBVIOUS
<1>1. TypeOK /\ StageInv /\ FeedInv /\ ItemsInv /\ CountersInv /\ Tally
  BY DEF IInv
<1>2. \A r \in 1 .. run : Agrees(counters[r], log, r, NewItems(r))
  BY MatchIsAgreement DEF IInv
<1>3. run \in 0 .. MaxRuns /\ run \in Nat /\ MaxRuns \in Nat
  BY <1>1, BoundAssumption DEF TypeOK
<1>4. items' = items => \A r : NewItems(r)' = NewItems(r) BY DEF NewItems
<1>5. CASE UNCHANGED <<log, run, counters, items>>
  BY <1>2, <1>4, <1>5, MatchIsAgreement
<1>6. ASSUME NEW s \in Sources, Publish(s) \/ Seed(s) PROVE CountersMatchTables'
  BY <1>5, <1>6 DEF Publish, Seed, tables
<1>7. ASSUME NEW s \in Sources, Fetch(s) PROVE CountersMatchTables'
  BY <1>5, <1>7 DEF Fetch, tables
<1>8. ASSUME NEW s \in Sources,
             PersistFailure(s) \/ PersistNotModified(s) \/ PersistItems(s)
      PROVE  CountersMatchTables'
  <2>1. PICK source, ok, duplicate, entries : Persisted(s, source, ok, duplicate, entries)
    BY <1>1, <1>8, PersistEffect
  <2>. DEFINE R == [run: 1 .. MaxRuns, source: Sources, ok: BOOLEAN, entries: 0 .. MaxEntries]
              e == [run |-> run, source |-> s, ok |-> ok, entries |-> entries]
  <2>2. run \in 1 .. MaxRuns /\ Active BY <1>1, <2>1 DEF Persisted, StageInv, Active
  <2>3. e \in R BY <2>1, <2>2 DEF Persisted
  <2>4. log \in Seq(R) BY <1>1 DEF TypeOK
  <2>5. log' = Append(log, e) /\ run' = run /\ counters' = counters /\ e.run = run
    BY <2>1 DEF Persisted
  <2>6. \A r : r # run => NewItems(r)' = NewItems(r)
    BY <2>1 DEF Persisted, NewItems
  <2>7. counters[run] = Zero BY <1>1, <2>2 DEF CountersInv
  <2>. HIDE DEF R, e
  <2>8. ASSUME NEW r \in 1 .. run PROVE Agrees(counters[r], log', r, NewItems(r)')
    <3>1. CASE r = run BY <2>7, <3>1 DEF Agrees
    <3>2. CASE r # run
      <4>1. Agrees(counters[r], log, r, NewItems(r)) BY <1>2
      <4>2. Agrees(counters[r], Append(log, e), r, NewItems(r))
        BY <2>3, <2>4, <2>5, <3>2, <4>1, AgreementKept
      <4>. QED BY <2>5, <2>6, <3>2, <4>2
    <3>. QED BY <3>1, <3>2
  <2>. QED BY <2>5, <2>8, MatchIsAgreement
<1>9. CASE Start
  <2>1. run' = run + 1 /\ run < MaxRuns /\ log' = log /\ counters' = counters /\ items' = items
    BY <1>9 DEF Start, tables
  <2>2. counters[run + 1] = Zero
    <3>1. run + 1 \in 1 .. MaxRuns /\ run + 1 > run BY <1>3, <2>1
    <3>. QED BY <1>1, <3>1 DEF CountersInv
  <2>3. \A r \in 1 .. run + 1 : r \in 1 .. run \/ r = run + 1 BY <1>3
  <2>4. ASSUME NEW r \in 1 .. run + 1 PROVE Agrees(counters[r], log, r, NewItems(r))
    BY <1>2, <2>2, <2>3 DEF Agrees
  <2>. QED BY <1>4, <2>1, <2>4, MatchIsAgreement
<1>10. CASE Conclude
  <2>1. /\ counters' = [counters EXCEPT ![run] = Counted] /\ stage = "ingested"
        /\ UNCHANGED <<log, run, items>>
    BY <1>10 DEF Conclude
  <2>2. Agrees(Counted, log, run, NewItems(run)) BY <1>1, <2>1, ConcludeAgrees
  <2>3. \A r \in 1 .. run : r \in 1 .. MaxRuns BY <1>3
  <2>4. ASSUME NEW r \in 1 .. run PROVE Agrees(counters'[r], log, r, NewItems(r))
    <3>1. counters'[r] = IF r = run THEN Counted ELSE counters[r]
      BY <1>1, <2>1, <2>3 DEF TypeOK
    <3>. QED BY <1>2, <2>2, <3>1
  <2>. QED BY <1>4, <2>1, <2>4, MatchIsAgreement
<1>11. CASE Abort BY <1>5, <1>11 DEF Abort, tables
<1>12. CASE UNCHANGED vars BY <1>5, <1>12 DEF vars, tables
<1>13. Reseeded \subseteq Sources BY FeedAssumption
<1> QED BY <1>6, <1>7, <1>8, <1>9, <1>10, <1>11, <1>12, <1>13 DEF Next

-----------------------------------------------------------------------------
(* The theorems.                                                           *)

LEMMA InvInductive == IInv /\ [Next]_vars => IInv'
BY TypeStep, StageStep, FeedStep, ItemsStep, CoverStep, FailuresStep, CountersStep,
   TallyStep, MatchStep
DEF IInv

LEMMA AlwaysInv == Spec => []IInv
<1>. QED BY InitInv, InvInductive, PTL DEF Spec

(* The rows of sources, news_items, feed_fetches and pipeline_runs are     *)
(* those the code means; a run's counters satisfy _validate_counters.      *)
THEOREM TypeCorrect == Spec => []TypeOK
<1>1. IInv => TypeOK BY DEF IInv
<1>. QED BY <1>1, AlwaysInv, PTL

(* No run stores more articles than settings.max_new_items_per_run, for    *)
(* any number of sources and entries, whatever its feeds bring and whenever*)
(* it is cut off.                                                          *)
THEOREM LimitIsKept == Spec => []LimitKept
<1>1. IInv => LimitKept BY DEF IInv
<1>. QED BY <1>1, AlwaysInv, PTL

(* What a stored ETag stands for is stored: a 304 hides no article, save   *)
(* those over the allowance of some run (_persist_fetched saves the        *)
(* validators with the articles).                                          *)
THEOREM ValidatorsCover == Spec => []ValidatorCovers
<1>1. IInv => ValidatorCovers BY DEF IInv
<1>. QED BY <1>1, AlwaysInv, PTL

(* consecutive_failures is what feed_fetches says of a source, though it   *)
(* is written from an object read at the start of the run, and seeds and   *)
(* aborted runs come between.                                              *)
THEOREM FailuresAreCounted == Spec => []FailuresMatchLog
<1>1. IInv => FailuresMatchLog BY DEF IInv
<1>. QED BY <1>1, AlwaysInv, PTL

(* The counters of a run that ended are what the tables hold of it.        *)
THEOREM CountersAreTrue == Spec => []CountersMatchTables
<1>1. IInv => CountersMatchTables BY DEF IInv
<1>. QED BY <1>1, AlwaysInv, PTL
=============================================================================
