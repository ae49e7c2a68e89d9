--------------------------- MODULE PipelineProofs ---------------------------
(***************************************************************************)
(* Theorems about Pipeline, for any workers, runs, articles, sources and   *)
(* limits, with failing transactions, killed workers and lost locks; and   *)
(* about Service, which implements Pipeline, so that what is proved of     *)
(* runs holds of the runs that schedulers and commands start.              *)
(***************************************************************************)
EXTENDS Service, FiniteSetTheorems, TLAPS

(* The statements of a run between its first row and its last.             *)
InTry == {"sources", "ingest", "select", "mark", "load", "generate", "create"}

(* How a worker's place in run() and its run object fit the run's row and  *)
(* the choice it has made.                                                 *)
RowFits(w) ==
  /\ work[w].pc \in {"insert", "skip"} => RunOf(w) \in Runs /\ runs[RunOf(w)] = None
  /\ work[w].pc \in InTry \cup {"save"} => RunOf(w) \in Runs /\ runs[RunOf(w)] = "running"
  /\ work[w].pc \in InTry \cup {"insert"} => work[w].known = "running"
  /\ work[w].pc = "save" => work[w].known \in {"no_content", "failed"}
  /\ work[w].pc = "handler" /\ work[w].known = "running" =>
       RunOf(w) \in Runs /\ runs[RunOf(w)] = "running"
  /\ work[w].pc = "deliver" => work[w].known \in Succeeded
ChoiceFits(w) ==
  /\ work[w].pc \in {"load", "generate"} => Cardinality(work[w].chosen) >= MinItems
  /\ work[w].pc = "create" => work[w].picked # {}
Fits(w) == RowFits(w) /\ ChoiceFits(w)

(* No two workers have the same run.                                       *)
RunsOwned == \A v, w \in Workers : RunOf(v) = RunOf(w) /\ RunOf(v) # None => v = w

LedgerInv ==
  /\ TypeOK
  /\ RunsOwned
  /\ \A w \in Workers : Fits(w)
  /\ UsedIffPublished
  /\ PublishedOnce
  /\ DigestIffSuccess

-----------------------------------------------------------------------------
LEMMA NoneNotRun == None \notin Runs
BY NoneAssumption

(* What a step does to the locals of the workers.                          *)
LEMMA BecomesFields ==
  ASSUME TypeOK, NEW w \in Workers, NEW state, Becomes(w, state)
  PROVE  work'[w] = state /\ \A v \in Workers : v # w => work'[v] = work[v]
BY DEF TypeOK, Becomes

LEMMA BecomesType ==
  ASSUME TypeOK, NEW w \in Workers, NEW state \in WorkState, Becomes(w, state)
  PROVE  work' \in [Workers -> WorkState]
BY DEF TypeOK, Becomes

LEMMA LeftFields ==
  ASSUME TypeOK, NEW w \in Workers, NEW loc \in Location, NEW status \in RunStatus
  PROVE  /\ Left(w, loc, status) \in WorkState
         /\ Left(w, loc, status).pc = loc
         /\ Left(w, loc, status).run = RunOf(w)
         /\ Left(w, loc, status).known = status
<1>1. work[w] \in WorkState BY DEF TypeOK
<1>2. RunOf(w) \in Runs \cup {None} /\ work[w].trigger \in Triggers \cup {None}
  BY <1>1 DEF WorkState, RunOf
<1>. QED BY <1>2 DEF Left, NoWork, WorkState

LEMMA CompleteFields ==
  ASSUME TypeOK, NEW w \in Workers, NEW status \in RunStatus, Complete(w, status)
  PROVE  /\ work' \in [Workers -> WorkState]
         /\ work'[w].pc = "save" /\ work'[w].run = RunOf(w) /\ work'[w].known = status
         /\ \A v \in Workers : v # w => work'[v] = work[v]
<1>. DEFINE state == Left(w, "save", status)
<1>1. "save" \in Location BY DEF Location
<1>2. /\ state \in WorkState /\ state.pc = "save" /\ state.run = RunOf(w)
      /\ state.known = status
  BY <1>1, LeftFields
<1>3. Becomes(w, state) BY DEF Complete
<1>. HIDE DEF state
<1>. QED BY <1>2, <1>3, BecomesFields, BecomesType

LEMMA RaiseFields ==
  ASSUME TypeOK, NEW w \in Workers, Raise(w)
  PROVE  /\ work' \in [Workers -> WorkState]
         /\ work'[w].pc = "handler" /\ work'[w].run = RunOf(w)
         /\ work'[w].known = work[w].known
         /\ \A v \in Workers : v # w => work'[v] = work[v]
<1>. DEFINE state == Left(w, "handler", work[w].known)
<1>1. "handler" \in Location /\ work[w].known \in RunStatus
  BY DEF Location, TypeOK, WorkState
<1>2. /\ state \in WorkState /\ state.pc = "handler" /\ state.run = RunOf(w)
      /\ state.known = work[w].known
  BY <1>1, LeftFields
<1>3. Becomes(w, state) BY DEF Raise
<1>. HIDE DEF state
<1>. QED BY <1>2, <1>3, BecomesFields, BecomesType

LEMMA AnswerFields ==
  ASSUME TypeOK, NEW w \in Workers, NEW outcome \in Terminal \cup {"raised"},
         Answer(w, outcome)
  PROVE  /\ work' \in [Workers -> WorkState]
         /\ work'[w].pc = "release" /\ work'[w].run = RunOf(w)
         /\ work'[w].answer = outcome
         /\ \A v \in Workers : v # w => work'[v] = work[v]
<1>. DEFINE left == Left(w, "release", work[w].known)
            state == [left EXCEPT !.answer = outcome]
<1>1. "release" \in Location /\ work[w].known \in RunStatus
  BY DEF Location, TypeOK, WorkState
<1>2. left \in WorkState /\ left.pc = "release" /\ left.run = RunOf(w)
  BY <1>1, LeftFields
<1>3. Becomes(w, state) BY DEF Answer
<1>. HIDE DEF left
<1>4. /\ state \in WorkState /\ state.pc = "release" /\ state.run = RunOf(w)
      /\ state.answer = outcome
  BY <1>2 DEF WorkState
<1>. HIDE DEF state
<1>. QED BY <1>3, <1>4, BecomesFields, BecomesType

-----------------------------------------------------------------------------
(* A worker that steps and writes no row but its own disturbs no other.    *)
LEMMA OthersFit ==
  ASSUME TypeOK, RunsOwned, \A v \in Workers : Fits(v), NEW w \in Workers,
         \A v \in Workers : v # w => work'[v] = work[v],
         \A r \in Runs : r # RunOf(w) => runs'[r] = runs[r],
         Fits(w)'
  PROVE  (\A v \in Workers : Fits(v))'
<1>1. ASSUME NEW v \in Workers, v # w PROVE Fits(v)'
  <2>1. work'[v] = work[v] /\ Fits(v) BY <1>1
  <2>2. RunOf(v)' = RunOf(v) BY <2>1 DEF RunOf
  <2>3. RunOf(v) \in Runs => runs'[RunOf(v)] = runs[RunOf(v)]
    BY <1>1, NoneNotRun DEF RunsOwned
  <2>4. RowFits(v)' BY <2>1, <2>2, <2>3 DEF Fits, RowFits, InTry
  <2>5. ChoiceFits(v)' BY <2>1 DEF Fits, ChoiceFits
  <2>. QED BY <2>4, <2>5 DEF Fits
<1>. QED BY <1>1

LEMMA OwnedKept ==
  ASSUME RunsOwned, NEW w \in Workers,
         \A v \in Workers : v # w => work'[v] = work[v],
         work'[w].run = RunOf(w)
  PROVE  RunsOwned'
BY DEF RunsOwned, RunOf

(* The tables fit as long as no digest is stored, no article becomes or    *)
(* ceases to be USED, and no row becomes or ceases to be a success.        *)
LEMMA TablesKept ==
  ASSUME TypeOK, UsedIffPublished, PublishedOnce, DigestIffSuccess,
         digests' = digests,
         \A a \in Articles : item'[a] = "used" <=> item[a] = "used",
         \A r \in Runs : runs'[r] \in Succeeded <=> runs[r] \in Succeeded
  PROVE  UsedIffPublished' /\ PublishedOnce' /\ DigestIffSuccess'
<1>1. Having("used")' = Having("used") BY DEF Having
<1>. QED BY <1>1 DEF UsedIffPublished, PublishedOnce, DigestIffSuccess, Published

LEMMA InitLedgerInv == Init => LedgerInv
<1>. SUFFICES ASSUME Init PROVE LedgerInv
  OBVIOUS
<1>1. NoWork \in WorkState BY DEF NoWork, WorkState, Location, RunStatus
<1>2. TypeOK BY <1>1 DEF Init, TypeOK, ItemStatus
<1>3. RunsOwned BY DEF Init, RunsOwned, RunOf, NoWork
<1>4. \A w \in Workers : Fits(w)
  BY DEF Init, Fits, RowFits, ChoiceFits, NoWork, InTry
<1>5. UsedIffPublished /\ PublishedOnce
  BY DEF Init, UsedIffPublished, PublishedOnce, Having, Published
<1>6. DigestIffSuccess BY DEF Init, DigestIffSuccess, Succeeded, None
<1>. QED BY <1>2, <1>3, <1>4, <1>5, <1>6 DEF LedgerInv

(* A step of a worker that stores no digest and touches only its own row   *)
(* keeps the invariant when its new locals fit.                            *)
LEMMA StepKeeps ==
  ASSUME LedgerInv, TypeOK', NEW w \in Workers,
         \A v \in Workers : v # w => work'[v] = work[v],
         work'[w].run = RunOf(w),
         \A r \in Runs : r # RunOf(w) => runs'[r] = runs[r],
         digests' = digests,
         \A a \in Articles : item'[a] = "used" <=> item[a] = "used",
         \A r \in Runs : runs'[r] \in Succeeded <=> runs[r] \in Succeeded,
         Fits(w)'
  PROVE  LedgerInv'
<1>1. RunsOwned' BY OwnedKept DEF LedgerInv
<1>2. (\A v \in Workers : Fits(v))' BY OthersFit DEF LedgerInv
<1>3. UsedIffPublished' /\ PublishedOnce' /\ DigestIffSuccess'
  BY TablesKept DEF LedgerInv
<1>. QED BY <1>1, <1>2, <1>3 DEF LedgerInv

(* The same when the step writes no table at all.                          *)
LEMMA ReadKeeps ==
  ASSUME LedgerInv, TypeOK', NEW w \in Workers, UNCHANGED tables,
         \A v \in Workers : v # w => work'[v] = work[v],
         work'[w].run = RunOf(w),
         Fits(w)'
  PROVE  LedgerInv'
BY StepKeeps DEF tables

(* Raising keeps the invariant wherever the run is.                        *)
LEMMA RaiseKeeps ==
  ASSUME LedgerInv, NEW w \in Workers, work[w].pc \in InTry \cup {"deliver"}, Raise(w),
         UNCHANGED tables, holder' \in Workers \cup {None}, enabled' \subseteq Sources
  PROVE  LedgerInv'
<1>1. TypeOK /\ Fits(w) BY DEF LedgerInv
<1>2. TypeOK' BY <1>1, RaiseFields DEF TypeOK, tables
<1>3. work'[w].pc = "handler" /\ work'[w].run = RunOf(w) /\ work'[w].known = work[w].known
  BY <1>1, RaiseFields
<1>4. Fits(w)'
  BY <1>1, <1>3 DEF Fits, RowFits, ChoiceFits, InTry, RunOf, tables, Succeeded
<1>. QED BY <1>1, <1>2, <1>3, <1>4, RaiseFields, ReadKeeps

LEMMA BeginKeeps ==
  ASSUME LedgerInv, NEW w \in Workers, Begin(w) PROVE LedgerInv'
<1>1. PICK r \in Runs, trigger \in Triggers :
        /\ runs[r] = None
        /\ \A v \in Workers : RunOf(v) # r
        /\ Becomes(w, [NoWork EXCEPT !.pc = IF holder = None THEN "insert" ELSE "skip",
                                     !.run = r, !.trigger = trigger])
  BY DEF Begin
<1>. DEFINE state == [NoWork EXCEPT !.pc = IF holder = None THEN "insert" ELSE "skip",
                                    !.run = r, !.trigger = trigger]
<1>2. /\ state \in WorkState /\ state.pc \in {"insert", "skip"} /\ state.run = r
      /\ state.known = "running"
  BY DEF NoWork, WorkState, Location, RunStatus
<1>3. TypeOK BY DEF LedgerInv
<1>4. UNCHANGED tables /\ UNCHANGED enabled /\ holder' \in Workers \cup {None}
  BY <1>3 DEF Begin, TypeOK
<1>. HIDE DEF state
<1>5. /\ work' \in [Workers -> WorkState] /\ work'[w] = state
      /\ \A v \in Workers : v # w => work'[v] = work[v]
  BY <1>1, <1>2, <1>3, BecomesFields, BecomesType DEF state
<1>6. TypeOK' BY <1>3, <1>4, <1>5 DEF TypeOK, tables
<1>7. RunsOwned' BY <1>1, <1>2, <1>5 DEF LedgerInv, RunsOwned, RunOf
<1>8. ASSUME NEW v \in Workers PROVE Fits(v)'
  <2>1. CASE v = w
    BY <1>1, <1>2, <1>4, <1>5, <2>1 DEF Fits, RowFits, ChoiceFits, InTry, RunOf, tables
  <2>2. CASE v # w
    BY <1>4, <1>5, <2>2 DEF LedgerInv, Fits, RowFits, ChoiceFits, InTry, RunOf, tables
  <2>. QED BY <2>1, <2>2
<1>9. UsedIffPublished' /\ PublishedOnce' /\ DigestIffSuccess'
  BY <1>3, <1>4, TablesKept DEF LedgerInv, tables
<1>. QED BY <1>6, <1>7, <1>8, <1>9 DEF LedgerInv

LEMMA SkipKeeps ==
  ASSUME LedgerInv, NEW w \in Workers, Skip(w) PROVE LedgerInv'
<1>. DEFINE state == [work[w] EXCEPT !.pc = "idle", !.answer = "skipped_locked"]
<1>1. TypeOK /\ Fits(w) /\ At(w, "skip") BY DEF LedgerInv, Skip
<1>2. RunOf(w) \in Runs /\ runs[RunOf(w)] = None BY <1>1 DEF Fits, RowFits, At
<1>3. state \in WorkState /\ state.pc = "idle" /\ state.run = RunOf(w)
  <2>1. work[w] \in WorkState /\ "skipped_locked" \in Terminal /\ "idle" \in Location
    BY <1>1 DEF TypeOK, Terminal, Location
  <2>. QED BY <2>1 DEF WorkState, RunOf
<1>4. Becomes(w, state) BY DEF Skip
<1>. HIDE DEF state
<1>5. /\ work' \in [Workers -> WorkState] /\ work'[w] = state
      /\ \A v \in Workers : v # w => work'[v] = work[v]
  BY <1>1, <1>3, <1>4, BecomesFields, BecomesType
<1>6. TypeOK' BY <1>1, <1>5 DEF Skip, TypeOK, RunStatus, Terminal
<1>7. Fits(w)' BY <1>3, <1>5 DEF Fits, RowFits, ChoiceFits, InTry
<1>8. \A r \in Runs : runs'[r] \in Succeeded <=> runs[r] \in Succeeded
  BY <1>1, <1>2 DEF Skip, TypeOK, Succeeded, None
<1>. QED BY <1>1, <1>3, <1>5, <1>6, <1>7, <1>8, StepKeeps DEF Skip, TypeOK

LEMMA InsertKeeps ==
  ASSUME LedgerInv, NEW w \in Workers, Insert(w) PROVE LedgerInv'
<1>. DEFINE state == [work[w] EXCEPT !.pc = "sources"]
<1>1. TypeOK /\ Fits(w) /\ At(w, "insert") BY DEF LedgerInv, Insert
<1>2. RunOf(w) \in Runs /\ runs[RunOf(w)] = None BY <1>1 DEF Fits, RowFits, At
<1>3. /\ state \in WorkState /\ state.pc = "sources" /\ state.run = RunOf(w)
      /\ state.known = work[w].known
  BY <1>1 DEF TypeOK, WorkState, Location, RunOf
<1>4. Becomes(w, state) BY DEF Insert, Goto
<1>. HIDE DEF state
<1>5. /\ work' \in [Workers -> WorkState] /\ work'[w] = state
      /\ \A v \in Workers : v # w => work'[v] = work[v]
  BY <1>1, <1>3, <1>4, BecomesFields, BecomesType
<1>6. TypeOK' BY <1>1, <1>5 DEF Insert, TypeOK, RunStatus
<1>7. Fits(w)'
  BY <1>1, <1>2, <1>3, <1>5 DEF Insert, Fits, RowFits, ChoiceFits, InTry, RunOf, At, TypeOK
<1>8. \A r \in Runs : runs'[r] \in Succeeded <=> runs[r] \in Succeeded
  BY <1>1, <1>2 DEF Insert, TypeOK, Succeeded, None
<1>. QED BY <1>1, <1>3, <1>5, <1>6, <1>7, <1>8, StepKeeps DEF Insert, TypeOK

LEMMA ReadSourcesKeeps ==
  ASSUME LedgerInv, NEW w \in Workers, ReadSources(w) PROVE LedgerInv'
<1>1. TypeOK /\ Fits(w) /\ At(w, "sources") /\ UNCHANGED tables
  BY DEF LedgerInv, ReadSources
<1>2. /\ RunOf(w) \in Runs /\ runs[RunOf(w)] = "running" /\ work[w].known = "running"
  BY <1>1 DEF Fits, RowFits, At, InTry
<1>3. CASE Complete(w, "no_content")
  <2>1. "no_content" \in RunStatus BY DEF RunStatus, Terminal
  <2>2. TypeOK' BY <1>1, <1>3, <2>1, CompleteFields DEF ReadSources, TypeOK, tables
  <2>3. Fits(w)'
    BY <1>1, <1>2, <1>3, <2>1, CompleteFields
    DEF Fits, RowFits, ChoiceFits, InTry, RunOf, tables
  <2>. QED BY <1>1, <1>3, <2>1, <2>2, <2>3, CompleteFields, ReadKeeps
<1>4. CASE Becomes(w, [work[w] EXCEPT !.pc = "ingest", !.feeds = enabled])
  <2>. DEFINE state == [work[w] EXCEPT !.pc = "ingest", !.feeds = enabled]
  <2>1. /\ state \in WorkState /\ state.pc = "ingest" /\ state.run = RunOf(w)
        /\ state.known = work[w].known
    BY <1>1 DEF TypeOK, WorkState, Location, RunOf
  <2>. HIDE DEF state
  <2>2. /\ work' \in [Workers -> WorkState] /\ work'[w] = state
        /\ \A v \in Workers : v # w => work'[v] = work[v]
    BY <1>1, <1>4, <2>1, BecomesFields, BecomesType DEF state
  <2>3. TypeOK' BY <1>1, <2>2 DEF ReadSources, TypeOK, tables
  <2>4. Fits(w)'
    BY <1>1, <1>2, <2>1, <2>2 DEF Fits, RowFits, ChoiceFits, InTry, RunOf, tables
  <2>. QED BY <1>1, <2>1, <2>2, <2>3, <2>4, ReadKeeps
<1>. QED BY <1>3, <1>4 DEF ReadSources

LEMMA IngestKeeps ==
  ASSUME LedgerInv, NEW w \in Workers, Ingest(w) PROVE LedgerInv'
<1>1. TypeOK /\ Fits(w) /\ At(w, "ingest") BY DEF LedgerInv, Ingest
<1>2. /\ RunOf(w) \in Runs /\ runs[RunOf(w)] = "running" /\ work[w].known = "running"
  BY <1>1 DEF Fits, RowFits, At, InTry
<1>3. /\ holder' = holder /\ runs' = runs /\ digests' = digests /\ enabled' = enabled
  BY DEF Ingest
<1>4. CASE Raise(w) /\ UNCHANGED item
  <2>1. UNCHANGED tables BY <1>3, <1>4 DEF tables
  <2>2. work[w].pc \in InTry BY <1>1 DEF At, InTry
  <2>. QED BY <1>1, <1>3, <1>4, <2>1, <2>2, RaiseKeeps DEF TypeOK
<1>5. ASSUME NEW state \in WorkState, Becomes(w, state),
             state.pc \in {"ingest", "select"}, state.run = RunOf(w),
             state.known = work[w].known,
             \/ item' = item
             \/ \E new \in SUBSET Having("absent") :
                  item' = [a \in Articles |-> IF a \in new THEN "collected" ELSE item[a]]
      PROVE  LedgerInv'
  <2>1. /\ work' \in [Workers -> WorkState] /\ work'[w] = state
        /\ \A v \in Workers : v # w => work'[v] = work[v]
    BY <1>1, <1>5, BecomesFields, BecomesType
  <2>2. item' \in [Articles -> ItemStatus] BY <1>1, <1>5 DEF TypeOK, ItemStatus
  <2>3. \A a \in Articles : item'[a] = "used" <=> item[a] = "used"
    BY <1>1, <1>5 DEF TypeOK, Having
  <2>4. TypeOK' BY <1>1, <1>3, <2>1, <2>2 DEF TypeOK
  <2>5. Fits(w)'
    BY <1>2, <1>3, <1>5, <2>1 DEF Fits, RowFits, ChoiceFits, InTry, RunOf
  <2>. QED BY <1>3, <1>5, <2>1, <2>3, <2>4, <2>5, StepKeeps
<1>6. PICK s \in work[w].feeds :
        LET rest == work[w].feeds \ {s}
            next == IF rest = {} THEN "select" ELSE "ingest"
        IN  \/ /\ \E new \in SUBSET {a \in Having("absent") : SourceOf[a] = s} :
                    item' = [a \in Articles |-> IF a \in new THEN "collected" ELSE item[a]]
               /\ Becomes(w, [work[w] EXCEPT !.pc = next, !.feeds = rest])
            \/ /\ Becomes(w, [work[w] EXCEPT !.pc = next, !.feeds = rest, !.feedFailed = TRUE])
               /\ UNCHANGED item
            \/ Raise(w) /\ UNCHANGED item
  BY DEF Ingest
<1>. DEFINE rest == work[w].feeds \ {s}
            next == IF rest = {} THEN "select" ELSE "ingest"
            stored == [work[w] EXCEPT !.pc = next, !.feeds = rest]
            failed == [work[w] EXCEPT !.pc = next, !.feeds = rest, !.feedFailed = TRUE]
<1>7. work[w] \in WorkState /\ rest \in SUBSET Sources /\ next \in {"ingest", "select"}
  BY <1>1 DEF TypeOK, WorkState
<1>. HIDE DEF next, rest
<1>8. /\ stored \in WorkState /\ stored.pc \in {"ingest", "select"}
      /\ stored.run = RunOf(w) /\ stored.known = work[w].known
  BY <1>7 DEF WorkState, Location, RunOf
<1>9. /\ failed \in WorkState /\ failed.pc \in {"ingest", "select"}
      /\ failed.run = RunOf(w) /\ failed.known = work[w].known
  BY <1>7 DEF WorkState, Location, RunOf
<1>10. \/ /\ \E new \in SUBSET Having("absent") :
             item' = [a \in Articles |-> IF a \in new THEN "collected" ELSE item[a]]
          /\ Becomes(w, stored)
       \/ Becomes(w, failed) /\ item' = item
       \/ Raise(w) /\ UNCHANGED item
  BY <1>6 DEF rest, next
<1>. HIDE DEF stored, failed
<1>. QED BY <1>4, <1>5, <1>8, <1>9, <1>10

LEMMA SelectKeeps ==
  ASSUME LedgerInv, NEW w \in Workers, Select(w) PROVE LedgerInv'
<1>1. TypeOK /\ Fits(w) /\ At(w, "select") /\ UNCHANGED tables
  BY DEF LedgerInv, Select
<1>2. /\ RunOf(w) \in Runs /\ runs[RunOf(w)] = "running" /\ work[w].known = "running"
  BY <1>1 DEF Fits, RowFits, At, InTry
<1>3. PICK eligible, old \in SUBSET (Having("collected") \cup Having("candidate")) :
        LET rejected == Rejected(eligible, old)
        IN  \E chosen \in Selections(eligible \ rejected) :
              Becomes(w, [work[w] EXCEPT !.pc = "mark", !.chosen = chosen,
                                         !.rejected = rejected \cap Having("collected"),
                                         !.fresh = chosen \cap Having("collected")])
  BY DEF Select
<1>. DEFINE rejected == Rejected(eligible, old)
<1>4. PICK chosen \in Selections(eligible \ rejected) :
        Becomes(w, [work[w] EXCEPT !.pc = "mark", !.chosen = chosen,
                                   !.rejected = rejected \cap Having("collected"),
                                   !.fresh = chosen \cap Having("collected")])
  BY <1>3
<1>. DEFINE aside == rejected \cap Having("collected")
            fresh == chosen \cap Having("collected")
            state == [work[w] EXCEPT !.pc = "mark", !.chosen = chosen,
                                     !.rejected = aside, !.fresh = fresh]
<1>5. /\ aside \in SUBSET Articles /\ chosen \in SUBSET Articles
      /\ fresh \in SUBSET Articles
  BY <1>4 DEF Selections, Having
<1>6. Becomes(w, state) BY <1>4
<1>7. work[w] \in WorkState /\ "mark" \in Location BY <1>1 DEF TypeOK, Location
<1>. HIDE DEF aside, fresh
<1>8. /\ state \in WorkState /\ state.pc = "mark" /\ state.run = RunOf(w)
      /\ state.known = work[w].known
  BY <1>5, <1>7 DEF WorkState, RunOf
<1>. HIDE DEF state
<1>9. /\ work' \in [Workers -> WorkState] /\ work'[w] = state
      /\ \A v \in Workers : v # w => work'[v] = work[v]
  BY <1>1, <1>6, <1>8, BecomesFields, BecomesType
<1>10. TypeOK' BY <1>1, <1>9 DEF Select, TypeOK, tables
<1>11. Fits(w)'
  BY <1>1, <1>2, <1>8, <1>9 DEF Fits, RowFits, ChoiceFits, InTry, RunOf, tables
<1>. QED BY <1>1, <1>8, <1>9, <1>10, <1>11, ReadKeeps

LEMMA MarkKeeps ==
  ASSUME LedgerInv, NEW w \in Workers, Mark(w) PROVE LedgerInv'
<1>1. TypeOK /\ Fits(w) /\ At(w, "mark") BY DEF LedgerInv, Mark
<1>2. /\ RunOf(w) \in Runs /\ runs[RunOf(w)] = "running" /\ work[w].known = "running"
  BY <1>1 DEF Fits, RowFits, At, InTry
<1>3. /\ holder' = holder /\ runs' = runs /\ digests' = digests /\ enabled' = enabled
  BY DEF Mark
<1>4. CASE Raise(w) /\ UNCHANGED item
  <2>1. UNCHANGED tables BY <1>3, <1>4 DEF tables
  <2>2. work[w].pc \in InTry BY <1>1 DEF At, InTry
  <2>. QED BY <1>1, <1>3, <1>4, <2>1, <2>2, RaiseKeeps DEF TypeOK
<1>5. CASE /\ Markable(w)
           /\ item' = [a \in Articles |->
                         IF a \in Ignorable(w) THEN "ignored"
                         ELSE IF a \in work[w].fresh THEN "candidate" ELSE item[a]]
           /\ IF Cardinality(work[w].chosen) < MinItems
                THEN Complete(w, "no_content")
                ELSE Becomes(w, [work[w] EXCEPT !.pc = "load", !.rejected = {},
                                                !.fresh = {}])
  <2>1. item' \in [Articles -> ItemStatus]
    BY <1>1, <1>5 DEF TypeOK, ItemStatus
  <2>2. \A a \in Articles : item'[a] = "used" <=> item[a] = "used"
    BY <1>1, <1>5 DEF Markable, Ignorable, Having, TypeOK
  <2>3. CASE Complete(w, "no_content")
    <3>1. "no_content" \in RunStatus BY DEF RunStatus, Terminal
    <3>2. TypeOK' BY <1>1, <1>3, <2>1, <2>3, <3>1, CompleteFields DEF TypeOK
    <3>3. Fits(w)'
      BY <1>1, <1>2, <1>3, <2>3, <3>1, CompleteFields
      DEF Fits, RowFits, ChoiceFits, InTry, RunOf
    <3>. QED BY <1>1, <1>3, <2>2, <2>3, <3>1, <3>2, <3>3, CompleteFields, StepKeeps
  <2>4. CASE /\ ~ (Cardinality(work[w].chosen) < MinItems)
             /\ Becomes(w, [work[w] EXCEPT !.pc = "load", !.rejected = {}, !.fresh = {}])
    <3>. DEFINE state == [work[w] EXCEPT !.pc = "load", !.rejected = {}, !.fresh = {}]
    <3>1. work[w] \in WorkState /\ "load" \in Location BY <1>1 DEF TypeOK, Location
    <3>2. /\ state \in WorkState /\ state.pc = "load" /\ state.run = RunOf(w)
          /\ state.known = work[w].known /\ state.chosen = work[w].chosen
      BY <3>1 DEF WorkState, RunOf
    <3>. HIDE DEF state
    <3>3. /\ work' \in [Workers -> WorkState] /\ work'[w] = state
          /\ \A v \in Workers : v # w => work'[v] = work[v]
      BY <1>1, <2>4, <3>2, BecomesFields, BecomesType DEF state
    <3>4. TypeOK' BY <1>1, <1>3, <2>1, <3>3 DEF TypeOK
    <3>5. Cardinality(work[w].chosen) >= MinItems
      <4>1. work[w].chosen \subseteq Articles BY <3>1 DEF WorkState
      <4>2. Cardinality(work[w].chosen) \in Nat
        BY <4>1, ArticleAssumption, FS_Subset, FS_CardinalityType
      <4>. QED BY <2>4, <4>2, LimitAssumption
    <3>6. Fits(w)'
      BY <1>2, <1>3, <3>2, <3>3, <3>5 DEF Fits, RowFits, ChoiceFits, InTry, RunOf
    <3>. QED BY <1>3, <2>2, <3>2, <3>3, <3>4, <3>6, StepKeeps
  <2>. QED BY <1>5, <2>3, <2>4
<1>. QED BY <1>4, <1>5 DEF Mark

LEMMA LoadKeeps ==
  ASSUME LedgerInv, NEW w \in Workers, Load(w) PROVE LedgerInv'
<1>. DEFINE fresh == work[w].chosen \cap Having("candidate")
            state == [work[w] EXCEPT !.pc = "generate", !.fresh = fresh]
<1>1. TypeOK /\ Fits(w) /\ At(w, "load") /\ UNCHANGED tables BY DEF LedgerInv, Load
<1>2. work[w] \in WorkState /\ "generate" \in Location BY <1>1 DEF TypeOK, Location
<1>3. fresh \in SUBSET Articles BY <1>2 DEF Having
<1>4. Becomes(w, state) BY DEF Load
<1>. HIDE DEF fresh
<1>5. /\ state \in WorkState /\ state.pc = "generate" /\ state.run = RunOf(w)
      /\ state.known = work[w].known /\ state.chosen = work[w].chosen
  BY <1>2, <1>3 DEF WorkState, RunOf
<1>. HIDE DEF state
<1>6. /\ work' \in [Workers -> WorkState] /\ work'[w] = state
      /\ \A v \in Workers : v # w => work'[v] = work[v]
  BY <1>1, <1>4, <1>5, BecomesFields, BecomesType
<1>7. TypeOK' BY <1>1, <1>6 DEF Load, TypeOK, tables
<1>8. Fits(w)'
  BY <1>1, <1>5, <1>6 DEF Fits, RowFits, ChoiceFits, InTry, RunOf, At, tables
<1>. QED BY <1>1, <1>5, <1>6, <1>7, <1>8, ReadKeeps

(* A digest never is empty: it has MinItems articles, or all that were     *)
(* chosen if the limit on digests is lower.                                *)
LEMMA PickedSome ==
  ASSUME TypeOK, NEW w \in Workers, Cardinality(work[w].chosen) >= MinItems,
         NEW picked \in SUBSET work[w].fresh,
         Cardinality(picked) \in Least(MinItems, Desired(w)) .. Desired(w)
  PROVE  picked # {}
<1>1. work[w].chosen \subseteq Articles BY DEF TypeOK, WorkState
<1>2. Cardinality(work[w].chosen) \in Nat \ {0}
  BY <1>1, ArticleAssumption, LimitAssumption, FS_Subset, FS_CardinalityType
<1>3. Least(MinItems, Desired(w)) \in Nat \ {0}
  BY <1>2, LimitAssumption DEF Least, Desired
<1>4. Desired(w) \in Nat BY <1>2, LimitAssumption DEF Least, Desired
<1>5. Cardinality(picked) >= 1 BY <1>3, <1>4
<1>. QED BY <1>5, FS_EmptySet

LEMMA GenerateKeeps ==
  ASSUME LedgerInv, NEW w \in Workers, Generate(w) PROVE LedgerInv'
<1>1. TypeOK /\ Fits(w) /\ At(w, "generate") /\ UNCHANGED tables
  BY DEF LedgerInv, Generate
<1>2. /\ RunOf(w) \in Runs /\ runs[RunOf(w)] = "running" /\ work[w].known = "running"
      /\ Cardinality(work[w].chosen) >= MinItems
  BY <1>1 DEF Fits, RowFits, ChoiceFits, At, InTry
<1>3. CASE Raise(w)
  <2>1. work[w].pc \in InTry BY <1>1 DEF At, InTry
  <2>. QED BY <1>1, <1>3, <2>1, RaiseKeeps DEF Generate, TypeOK
<1>4. CASE Complete(w, "failed")
  <2>1. "failed" \in RunStatus BY DEF RunStatus, Terminal
  <2>2. TypeOK' BY <1>1, <1>4, <2>1, CompleteFields DEF Generate, TypeOK, tables
  <2>3. Fits(w)'
    BY <1>1, <1>2, <1>4, <2>1, CompleteFields
    DEF Fits, RowFits, ChoiceFits, InTry, RunOf, tables
  <2>. QED BY <1>1, <1>4, <2>1, <2>2, <2>3, CompleteFields, ReadKeeps
<1>5. ASSUME NEW picked \in SUBSET work[w].fresh,
             Cardinality(picked) \in Least(MinItems, Desired(w)) .. Desired(w),
             Becomes(w, [work[w] EXCEPT !.pc = "create", !.picked = picked,
                                        !.chosen = {}, !.fresh = {}])
      PROVE  LedgerInv'
  <2>. DEFINE state == [work[w] EXCEPT !.pc = "create", !.picked = picked,
                                       !.chosen = {}, !.fresh = {}]
  <2>1. work[w] \in WorkState /\ "create" \in Location BY <1>1 DEF TypeOK, Location
  <2>2. picked \in SUBSET Articles BY <2>1 DEF WorkState
  <2>3. /\ state \in WorkState /\ state.pc = "create" /\ state.run = RunOf(w)
        /\ state.known = work[w].known /\ state.picked = picked
    BY <2>1, <2>2 DEF WorkState, RunOf
  <2>4. picked # {} BY <1>1, <1>2, <1>5, PickedSome
  <2>. HIDE DEF state
  <2>5. /\ work' \in [Workers -> WorkState] /\ work'[w] = state
        /\ \A v \in Workers : v # w => work'[v] = work[v]
    BY <1>1, <1>5, <2>3, BecomesFields, BecomesType DEF state
  <2>6. TypeOK' BY <1>1, <2>5 DEF Generate, TypeOK, tables
  <2>7. Fits(w)'
    BY <1>1, <1>2, <2>3, <2>4, <2>5 DEF Fits, RowFits, ChoiceFits, InTry, RunOf, tables
  <2>. QED BY <1>1, <2>3, <2>5, <2>6, <2>7, ReadKeeps
<1>. QED BY <1>3, <1>4, <1>5 DEF Generate

(* Storing a digest of articles that still are candidates, for a run that  *)
(* is RUNNING, with the run's success in the same transaction.             *)
LEMMA StoreKeepsTables ==
  ASSUME TypeOK, UsedIffPublished, PublishedOnce, DigestIffSuccess,
         NEW r \in Runs, runs[r] = "running",
         NEW picked \in SUBSET Having("candidate"),
         NEW result \in Succeeded,
         digests' = digests \cup {[run |-> r, items |-> picked]},
         item' = [a \in Articles |-> IF a \in picked THEN "used" ELSE item[a]],
         runs' = [runs EXCEPT ![r] = result]
  PROVE  UsedIffPublished' /\ PublishedOnce' /\ DigestIffSuccess'
<1>. DEFINE new == [run |-> r, items |-> picked]
<1>1. new.run = r /\ new.items = picked OBVIOUS
<1>2. \A d \in digests : d.run \in Runs /\ runs[d.run] \in Succeeded
  BY DEF DigestIffSuccess, TypeOK
<1>3. \A d \in digests : d.run # r BY <1>2 DEF Succeeded
<1>4. \A d \in digests : d.items \subseteq Having("used")
  BY DEF UsedIffPublished, Published
<1>5. \A d \in digests : d.items \cap picked = {} BY <1>4 DEF Having
<1>. HIDE DEF new
<1>6. digests' = digests \cup {new} BY DEF new
<1>7. PublishedOnce' BY <1>1, <1>3, <1>5, <1>6 DEF PublishedOnce
<1>8. Published' = Published \cup picked BY <1>1, <1>6 DEF Published
<1>9. Having("used")' = Having("used") \cup picked BY DEF Having, TypeOK
<1>10. UsedIffPublished' BY <1>8, <1>9 DEF UsedIffPublished
<1>11. DigestIffSuccess'
  <2>1. ASSUME NEW q \in Runs PROVE runs'[q] \in Succeeded <=> \E d \in digests' : d.run = q
    <3>1. CASE q = r BY <1>1, <1>6, <3>1 DEF TypeOK
    <3>2. CASE q # r BY <1>1, <1>6, <3>2 DEF TypeOK, DigestIffSuccess
    <3>. QED BY <3>1, <3>2
  <2>. QED BY <2>1 DEF DigestIffSuccess
<1>. QED BY <1>7, <1>10, <1>11

LEMMA CreateKeeps ==
  ASSUME LedgerInv, NEW w \in Workers, Create(w) PROVE LedgerInv'
<1>1. TypeOK /\ Fits(w) /\ At(w, "create") BY DEF LedgerInv, Create
<1>2. RunOf(w) \in Runs /\ runs[RunOf(w)] = "running"
  BY <1>1 DEF Fits, RowFits, At, InTry
<1>3. holder' = holder /\ enabled' = enabled BY DEF Create
<1>4. CASE Raise(w) /\ UNCHANGED tables
  <2>1. work[w].pc \in InTry BY <1>1 DEF At, InTry
  <2>. QED BY <1>1, <1>3, <1>4, <2>1, RaiseKeeps DEF TypeOK
<1>5. CASE /\ StillCandidates(w)
           /\ digests' = digests \cup {[run |-> RunOf(w), items |-> work[w].picked]}
           /\ UseUp(w)
           /\ runs' = [runs EXCEPT ![RunOf(w)] = Result(w)]
           /\ Becomes(w, Left(w, "deliver", Result(w)))
  <2>. DEFINE state == Left(w, "deliver", Result(w))
  <2>1. Result(w) \in Succeeded BY DEF Result, Succeeded
  <2>2. "deliver" \in Location /\ Succeeded \subseteq RunStatus
    BY DEF Location, RunStatus, Terminal
  <2>3. /\ state \in WorkState /\ state.pc = "deliver" /\ state.run = RunOf(w)
        /\ state.known = Result(w)
    BY <1>1, <2>1, <2>2, LeftFields
  <2>. HIDE DEF state
  <2>4. /\ work' \in [Workers -> WorkState] /\ work'[w] = state
        /\ \A v \in Workers : v # w => work'[v] = work[v]
    BY <1>1, <1>5, <2>3, BecomesFields, BecomesType DEF state
  <2>5. work[w].picked \in SUBSET Having("candidate") BY <1>5 DEF StillCandidates
  <2>6. UsedIffPublished' /\ PublishedOnce' /\ DigestIffSuccess'
    BY <1>1, <1>2, <1>5, <2>1, <2>5, StoreKeepsTables DEF LedgerInv, UseUp
  <2>7. item' \in [Articles -> ItemStatus]
    BY <1>1, <1>5 DEF UseUp, TypeOK, ItemStatus
  <2>8. runs' \in [Runs -> RunStatus \cup {None}]
    BY <1>1, <1>5, <2>1, <2>2 DEF TypeOK
  <2>9. digests' \subseteq [run: Runs, items: SUBSET Articles]
    <3>1. work[w].picked \in SUBSET Articles BY <2>5 DEF Having
    <3>. QED BY <1>1, <1>2, <1>5, <3>1 DEF TypeOK
  <2>10. TypeOK' BY <1>1, <1>3, <2>4, <2>7, <2>8, <2>9 DEF TypeOK
  <2>11. Fits(w)'
    BY <2>1, <2>3, <2>4 DEF Fits, RowFits, ChoiceFits, InTry
  <2>12. \A r \in Runs : r # RunOf(w) => runs'[r] = runs[r] BY <1>1, <1>5 DEF TypeOK
  <2>13. (\A v \in Workers : Fits(v))' BY <1>1, <2>4, <2>11, <2>12, OthersFit DEF LedgerInv
  <2>14. RunsOwned' BY <2>3, <2>4, OwnedKept DEF LedgerInv
  <2>. QED BY <2>6, <2>10, <2>13, <2>14 DEF LedgerInv
<1>. QED BY <1>4, <1>5 DEF Create

(* Answering keeps the invariant, whatever of the run's row was saved.     *)
LEMMA AnswerKeeps ==
  ASSUME LedgerInv, NEW w \in Workers, NEW outcome \in Terminal \cup {"raised"},
         Answer(w, outcome),
         holder' \in Workers \cup {None}, enabled' = enabled,
         item' = item, digests' = digests,
         runs' \in [Runs -> RunStatus \cup {None}],
         \A r \in Runs : r # RunOf(w) => runs'[r] = runs[r],
         \A r \in Runs : runs'[r] \in Succeeded <=> runs[r] \in Succeeded
  PROVE  LedgerInv'
<1>1. TypeOK BY DEF LedgerInv
<1>2. /\ work' \in [Workers -> WorkState]
      /\ work'[w].pc = "release" /\ work'[w].run = RunOf(w)
      /\ \A v \in Workers : v # w => work'[v] = work[v]
  BY <1>1, AnswerFields
<1>3. TypeOK' BY <1>1, <1>2 DEF TypeOK
<1>4. Fits(w)' BY <1>2 DEF Fits, RowFits, ChoiceFits, InTry
<1>. QED BY <1>2, <1>3, <1>4, StepKeeps

LEMMA DeliverKeeps ==
  ASSUME LedgerInv, NEW w \in Workers, Deliver(w) PROVE LedgerInv'
<1>1. TypeOK /\ Fits(w) /\ At(w, "deliver") BY DEF LedgerInv, Deliver
<1>2. /\ holder' = holder /\ enabled' = enabled
      /\ runs' = runs /\ item' = item /\ digests' = digests
  BY DEF Deliver, tables
<1>3. CASE Raise(w)
  <2>1. work[w].pc = "deliver" BY <1>1 DEF At
  <2>. QED BY <1>1, <1>2, <1>3, <2>1, RaiseKeeps DEF TypeOK, tables
<1>4. CASE Answer(w, work[w].known)
  <2>1. work[w].known \in Terminal BY <1>1 DEF Fits, RowFits, At, Terminal
  <2>. QED BY <1>1, <1>2, <1>4, <2>1, AnswerKeeps DEF TypeOK
<1>. QED BY <1>3, <1>4 DEF Deliver

LEMMA SaveKeeps ==
  ASSUME LedgerInv, NEW w \in Workers, Save(w) PROVE LedgerInv'
<1>1. TypeOK /\ Fits(w) /\ At(w, "save") BY DEF LedgerInv, Save
<1>2. /\ RunOf(w) \in Runs /\ runs[RunOf(w)] = "running"
      /\ work[w].known \in {"no_content", "failed"}
  BY <1>1 DEF Fits, RowFits, At
<1>3. runs' = [runs EXCEPT ![RunOf(w)] = work[w].known] BY DEF Save
<1>4. work[w].known \in Terminal BY <1>2 DEF Terminal
<1>5. runs' \in [Runs -> RunStatus \cup {None}] BY <1>1, <1>3, <1>4 DEF TypeOK, RunStatus
<1>6. \A r \in Runs : r # RunOf(w) => runs'[r] = runs[r] BY <1>1, <1>3 DEF TypeOK
<1>7. \A r \in Runs : runs'[r] \in Succeeded <=> runs[r] \in Succeeded
  BY <1>1, <1>2, <1>3 DEF TypeOK, Succeeded
<1>. QED BY <1>1, <1>4, <1>5, <1>6, <1>7, AnswerKeeps DEF Save, TypeOK

LEMMA HandleKeeps ==
  ASSUME LedgerInv, NEW w \in Workers, Handle(w) PROVE LedgerInv'
<1>1. TypeOK /\ Fits(w) /\ At(w, "handler") BY DEF LedgerInv, Handle
<1>2. CASE work[w].known = "running"
  <2>1. RunOf(w) \in Runs /\ runs[RunOf(w)] = "running"
    BY <1>1, <1>2 DEF Fits, RowFits, At
  <2>2. runs' = [runs EXCEPT ![RunOf(w)] = "failed"] /\ Answer(w, "failed")
    BY <1>2 DEF Handle
  <2>3. "failed" \in Terminal BY DEF Terminal
  <2>4. runs' \in [Runs -> RunStatus \cup {None}] BY <1>1, <2>2, <2>3 DEF TypeOK, RunStatus
  <2>5. \A r \in Runs : r # RunOf(w) => runs'[r] = runs[r] BY <1>1, <2>2 DEF TypeOK
  <2>6. \A r \in Runs : runs'[r] \in Succeeded <=> runs[r] \in Succeeded
    BY <1>1, <2>1, <2>2 DEF TypeOK, Succeeded
  <2>. QED BY <1>1, <2>2, <2>3, <2>4, <2>5, <2>6, AnswerKeeps DEF Handle, TypeOK
<1>3. CASE work[w].known # "running"
  <2>1. Answer(w, work[w].known) /\ runs' = runs BY <1>3 DEF Handle
  <2>2. work[w].known \in Terminal BY <1>1, <1>3 DEF TypeOK, WorkState, RunStatus
  <2>. QED BY <1>1, <2>1, <2>2, AnswerKeeps DEF Handle, TypeOK
<1>. QED BY <1>2, <1>3

(* Going idle keeps the invariant wherever the run is.                     *)
LEMMA IdleKeeps ==
  ASSUME LedgerInv, NEW w \in Workers, NEW answer \in Terminal \cup {None, "raised"},
         Becomes(w, [work[w] EXCEPT !.pc = "idle", !.answer = answer]),
         holder' \in Workers \cup {None}, UNCHANGED <<tables, enabled>>
  PROVE  LedgerInv'
<1>. DEFINE state == [work[w] EXCEPT !.pc = "idle", !.answer = answer]
<1>1. TypeOK BY DEF LedgerInv
<1>2. work[w] \in WorkState /\ "idle" \in Location BY <1>1 DEF TypeOK, Location
<1>3. state \in WorkState /\ state.pc = "idle" /\ state.run = RunOf(w)
  BY <1>2 DEF WorkState, RunOf
<1>. HIDE DEF state
<1>4. /\ work' \in [Workers -> WorkState] /\ work'[w] = state
      /\ \A v \in Workers : v # w => work'[v] = work[v]
  BY <1>1, <1>3, BecomesFields, BecomesType DEF state
<1>5. TypeOK' BY <1>1, <1>4 DEF TypeOK, tables
<1>6. Fits(w)' BY <1>3, <1>4 DEF Fits, RowFits, ChoiceFits, InTry
<1>. QED BY <1>3, <1>4, <1>5, <1>6, ReadKeeps

LEMMA ReleaseKeeps ==
  ASSUME LedgerInv, NEW w \in Workers, Release(w) PROVE LedgerInv'
<1>. DEFINE answer == IF holder = w THEN work[w].answer ELSE "raised"
<1>1. TypeOK BY DEF LedgerInv
<1>2. answer \in Terminal \cup {None, "raised"} BY <1>1 DEF TypeOK, WorkState
<1>3. Becomes(w, [work[w] EXCEPT !.pc = "idle", !.answer = answer])
  <2>1. [work[w] EXCEPT !.pc = "idle", !.answer = IF holder = w THEN @ ELSE "raised"]
          = [work[w] EXCEPT !.pc = "idle", !.answer = answer]
    BY <1>1 DEF TypeOK, WorkState
  <2>. QED BY <2>1 DEF Release
<1>. HIDE DEF answer
<1>. QED BY <1>1, <1>2, <1>3, IdleKeeps DEF Release, TypeOK

LEMMA StopKeeps ==
  ASSUME LedgerInv, NEW w \in Workers, Stop(w) PROVE LedgerInv'
BY IdleKeeps DEF Stop, LedgerInv, TypeOK

LEMMA FaultKeeps ==
  ASSUME LedgerInv, NEW w \in Workers, Fault(w) PROVE LedgerInv'
<1>1. TypeOK /\ Fits(w) BY DEF LedgerInv
<1>2. UNCHANGED <<holder, tables, enabled>> BY DEF Fault
<1>3. CASE /\ At(w, "skip")
           /\ Becomes(w, [work[w] EXCEPT !.pc = "idle", !.answer = "raised"])
  BY <1>1, <1>2, <1>3, IdleKeeps DEF TypeOK
<1>4. CASE Answer(w, "raised")
  BY <1>1, <1>2, <1>4, AnswerKeeps DEF TypeOK, tables
<1>5. ASSUME work[w].pc \in {"sources", "ingest", "select", "mark", "load", "create", "save"},
             NEW known \in {work[w].known}
                            \cup (IF At(w, "create") THEN {Result(w)} ELSE {})
                            \cup (IF At(w, "save") THEN {"running"} ELSE {}),
             Becomes(w, Left(w, "handler", known))
      PROVE  LedgerInv'
  <2>. DEFINE state == Left(w, "handler", known)
  <2>1. known \in RunStatus
    BY <1>1, <1>5 DEF TypeOK, WorkState, Result, RunStatus, Terminal, Succeeded
  <2>2. "handler" \in Location BY DEF Location
  <2>3. /\ state \in WorkState /\ state.pc = "handler" /\ state.run = RunOf(w)
        /\ state.known = known
    BY <1>1, <2>1, <2>2, LeftFields
  <2>. HIDE DEF state
  <2>4. /\ work' \in [Workers -> WorkState] /\ work'[w] = state
        /\ \A v \in Workers : v # w => work'[v] = work[v]
    BY <1>1, <1>5, <2>3, BecomesFields, BecomesType DEF state
  <2>5. RunOf(w) \in Runs /\ runs[RunOf(w)] = "running"
    BY <1>1, <1>5 DEF Fits, RowFits, InTry
  <2>6. TypeOK' BY <1>1, <1>2, <2>4 DEF TypeOK, tables
  <2>7. Fits(w)'
    BY <1>2, <2>3, <2>4, <2>5 DEF Fits, RowFits, ChoiceFits, InTry, RunOf, tables
  <2>. QED BY <1>2, <2>3, <2>4, <2>6, <2>7, ReadKeeps
<1>. QED BY <1>3, <1>4, <1>5 DEF Fault

(* The lock and the sources are no part of the argument.                   *)
LEMMA ElsewhereKeeps ==
  ASSUME LedgerInv, UNCHANGED <<tables, work>>,
         holder' \in Workers \cup {None}, enabled' \subseteq Sources
  PROVE  LedgerInv'
<1>1. TypeOK' BY DEF LedgerInv, TypeOK, tables
<1>2. RunsOwned' BY DEF LedgerInv, RunsOwned, RunOf
<1>3. ASSUME NEW w \in Workers PROVE Fits(w)'
  BY DEF LedgerInv, Fits, RowFits, ChoiceFits, RunOf, tables
<1>4. UsedIffPublished' /\ PublishedOnce' /\ DigestIffSuccess'
  BY TablesKept DEF LedgerInv, tables
<1>. QED BY <1>1, <1>2, <1>3, <1>4 DEF LedgerInv

LEMMA NextLedgerInv == LedgerInv /\ [Next]_vars => LedgerInv'
<1>. SUFFICES ASSUME LedgerInv, [Next]_vars PROVE LedgerInv'
  OBVIOUS
<1>1. TypeOK BY DEF LedgerInv
<1>2. ASSUME NEW w \in Workers, Begin(w) PROVE LedgerInv' BY <1>2, BeginKeeps
<1>3. ASSUME NEW w \in Workers, Step(w) PROVE LedgerInv'
  BY <1>3, SkipKeeps, InsertKeeps, ReadSourcesKeeps, IngestKeeps, SelectKeeps,
     MarkKeeps, LoadKeeps, GenerateKeeps, CreateKeeps, DeliverKeeps, SaveKeeps,
     HandleKeeps, ReleaseKeeps
  DEF Step
<1>4. ASSUME NEW w \in Workers, Fault(w) PROVE LedgerInv' BY <1>4, FaultKeeps
<1>5. ASSUME NEW w \in Workers, Stop(w) PROVE LedgerInv' BY <1>5, StopKeeps
<1>6. ASSUME NEW w \in Workers, LoseLock(w) PROVE LedgerInv'
  BY <1>1, <1>6, ElsewhereKeeps DEF LoseLock, TypeOK
<1>7. CASE Seed BY <1>1, <1>7, ElsewhereKeeps DEF Seed, TypeOK
<1>8. CASE UNCHANGED vars BY <1>1, <1>8, ElsewhereKeeps DEF vars, TypeOK, tables
<1>. QED BY <1>2, <1>3, <1>4, <1>5, <1>6, <1>7, <1>8 DEF Next

THEOREM LedgerInvariant == Spec => []LedgerInv
<1>1. Init => LedgerInv BY InitLedgerInv
<1>2. LedgerInv /\ [Next]_vars => LedgerInv' BY NextLedgerInv
<1>. QED BY <1>1, <1>2, PTL DEF Spec

(* Every variable keeps to its type: no run ends in a status it must not   *)
(* have, no worker is outside the statements of run().                     *)
THEOREM TypeCorrect == Spec => []TypeOK
<1>1. LedgerInv => TypeOK BY DEF LedgerInv
<1>. QED BY <1>1, LedgerInvariant, PTL

(* An article is USED exactly when a stored digest contains it             *)
(* (create_generated), with any number of runs, failing or overlapping.    *)
THEOREM UsedArticlesPublished == Spec => []UsedIffPublished
<1>1. LedgerInv => UsedIffPublished BY DEF LedgerInv
<1>. QED BY <1>1, LedgerInvariant, PTL

(* No article is in two digests and no run has two, whether the advisory   *)
(* lock holds or not: create_generated re-checks the candidates.           *)
THEOREM NoneTwice == Spec => []PublishedOnce
<1>1. LedgerInv => PublishedOnce BY DEF LedgerInv
<1>. QED BY <1>1, LedgerInvariant, PTL

(* A run's row says it succeeded exactly when its digest is stored (the    *)
(* transaction at :278-285).                                               *)
THEOREM SuccessHasDigest == Spec => []DigestIffSuccess
<1>1. LedgerInv => DigestIffSuccess BY DEF LedgerInv
<1>. QED BY <1>1, LedgerInvariant, PTL

-----------------------------------------------------------------------------
(* As long as the session of the lock lives, who runs holds the lock.      *)
LockInv == \A w \in Workers : Running(w) => holder = w

LEMMA IdleStops ==
  ASSUME TypeOK, NEW w \in Workers, NEW answer,
         Becomes(w, [work[w] EXCEPT !.pc = "idle", !.answer = answer])
  PROVE  ~ Running(w)'
<1>. DEFINE state == [work[w] EXCEPT !.pc = "idle", !.answer = answer]
<1>1. work[w] \in WorkState BY DEF TypeOK
<1>2. state.pc = "idle" BY <1>1 DEF WorkState
<1>. HIDE DEF state
<1>3. work'[w] = state BY BecomesFields DEF state
<1>. QED BY <1>2, <1>3 DEF Running

LEMMA OthersHold ==
  ASSUME LockInv, NEW w \in Workers,
         \A v \in Workers : v # w => work'[v] = work[v],
         holder' = holder \/ (holder = w /\ ~ Running(w)')
           \/ (holder = None /\ holder' = w),
         Running(w)' => holder' = w
  PROVE  LockInv'
<1>1. ASSUME NEW v \in Workers, v # w, Running(v)' PROVE holder' = v
  <2>1. Running(v) BY <1>1 DEF Running
  <2>2. holder = v /\ v # None BY <2>1, NoneAssumption DEF LockInv
  <2>. QED BY <1>1, <2>2
<1>. QED BY <1>1 DEF LockInv

(* No step of a run but the first makes it run, and none but the last      *)
(* gives the lock away.                                                    *)
LEMMA StepHolds ==
  ASSUME TypeOK, LockInv, NEW w \in Workers, Step(w) PROVE LockInv'
<1>1. ASSUME NEW state, Becomes(w, state),
             \/ ~ Running(w)' /\ (holder' = holder \/ holder = w)
             \/ Running(w) /\ holder' = holder
      PROVE  LockInv'
  <2>1. \A v \in Workers : v # w => work'[v] = work[v] BY <1>1, BecomesFields
  <2>2. Running(w)' => holder' = w BY <1>1 DEF LockInv
  <2>. QED BY <1>1, <2>1, <2>2, OthersHold
<1>2. CASE Skip(w)
  <2>1. /\ Becomes(w, [work[w] EXCEPT !.pc = "idle", !.answer = "skipped_locked"])
        /\ holder' = holder
    BY <1>2 DEF Skip
  <2>2. ~ Running(w)' BY <2>1, IdleStops
  <2>. QED BY <1>1, <2>1, <2>2
<1>3. CASE Release(w)
  <2>. DEFINE answer == IF holder = w THEN work[w].answer ELSE "raised"
  <2>3. [work[w] EXCEPT !.pc = "idle", !.answer = IF holder = w THEN @ ELSE "raised"]
          = [work[w] EXCEPT !.pc = "idle", !.answer = answer]
    BY DEF TypeOK, WorkState
  <2>1. /\ Becomes(w, [work[w] EXCEPT !.pc = "idle", !.answer = answer])
        /\ holder' = IF holder = w THEN None ELSE holder
    BY <1>3, <2>3 DEF Release
  <2>. HIDE DEF answer
  <2>2. ~ Running(w)' BY <2>1, IdleStops
  <2>. QED BY <1>1, <2>1, <2>2
<1>4. CASE \/ Insert(w) \/ ReadSources(w) \/ Ingest(w) \/ Select(w) \/ Mark(w)
           \/ Load(w) \/ Generate(w) \/ Create(w) \/ Deliver(w) \/ Save(w) \/ Handle(w)
  <2>1. Running(w) /\ holder' = holder
    BY <1>4
    DEF Running, At, Insert, ReadSources, Ingest, Select, Mark, Load, Generate,
        Create, Deliver, Save, Handle
  <2>2. \E state : Becomes(w, state)
    BY <1>4
    DEF Insert, ReadSources, Ingest, Select, Mark, Load, Generate,
        Create, Deliver, Save, Handle, Goto, Complete, Raise, Answer
  <2>. QED BY <1>1, <2>1, <2>2
<1>. QED BY <1>2, <1>3, <1>4 DEF Step

(* A step that does not lose the lock's session.                           *)
Held ==
  \/ \E w \in Workers : Begin(w) \/ Step(w) \/ Fault(w) \/ Stop(w)
  \/ Seed
  \/ UNCHANGED vars

LEMMA HeldLockInv == ASSUME TypeOK, LockInv, Held PROVE LockInv'
<1>1. ASSUME NEW w \in Workers, Begin(w) PROVE LockInv'
  <2>1. PICK r \in Runs, trigger \in Triggers :
          Becomes(w, [NoWork EXCEPT !.pc = IF holder = None THEN "insert" ELSE "skip",
                                    !.run = r, !.trigger = trigger])
    BY <1>1 DEF Begin
  <2>. DEFINE state == [NoWork EXCEPT !.pc = IF holder = None THEN "insert" ELSE "skip",
                                      !.run = r, !.trigger = trigger]
  <2>5. state.pc = IF holder = None THEN "insert" ELSE "skip" BY DEF NoWork
  <2>. HIDE DEF state
  <2>2. /\ \A v \in Workers : v # w => work'[v] = work[v]
        /\ work'[w].pc = IF holder = None THEN "insert" ELSE "skip"
    BY <2>1, <2>5, BecomesFields DEF state
  <2>3. holder' = IF holder = None THEN w ELSE holder BY <1>1 DEF Begin
  <2>4. Running(w)' => holder = None BY <2>2 DEF Running
  <2>. QED BY <2>2, <2>3, <2>4, OthersHold
<1>2. ASSUME NEW w \in Workers, Step(w) PROVE LockInv' BY <1>2, StepHolds
<1>3. ASSUME NEW w \in Workers, Fault(w) PROVE LockInv'
  <2>1. holder' = holder BY <1>3 DEF Fault
  <2>2. CASE /\ At(w, "skip")
             /\ Becomes(w, [work[w] EXCEPT !.pc = "idle", !.answer = "raised"])
    <3>1. ~ Running(w)' BY <2>2, IdleStops
    <3>. QED BY <2>1, <2>2, <3>1, BecomesFields, OthersHold
  <2>3. CASE Running(w) /\ \E state : Becomes(w, state)
    BY <2>1, <2>3, BecomesFields, OthersHold DEF LockInv
  <2>. QED BY <1>3, <2>2, <2>3 DEF Fault, Running, At, Answer
<1>4. ASSUME NEW w \in Workers, Stop(w) PROVE LockInv'
  <2>1. /\ Becomes(w, [work[w] EXCEPT !.pc = "idle", !.answer = "raised"])
        /\ holder' = IF holder = w THEN None ELSE holder
    BY <1>4 DEF Stop
  <2>2. ~ Running(w)' BY <2>1, IdleStops
  <2>. QED BY <2>1, <2>2, BecomesFields, OthersHold
<1>5. CASE Seed BY <1>5 DEF Seed, LockInv, Running
<1>6. CASE UNCHANGED vars BY <1>6 DEF vars, LockInv, Running
<1>. QED BY <1>1, <1>2, <1>3, <1>4, <1>5, <1>6 DEF Held

(* "Concurrent runs are serialized with a PostgreSQL advisory lock"        *)
(* (README.md:68): true for as long as the server keeps the session that   *)
(* took the lock, whatever fails or is killed meanwhile.                   *)
THEOREM LockSerializes == ASSUME ~ LockLosses PROVE Spec => []RunsSerialized
<1>1. Init => LockInv BY DEF Init, LockInv, Running, NoWork
<1>2. TypeOK /\ LockInv /\ [Next]_vars => LockInv'
  BY HeldLockInv DEF Held, Next, LoseLock
<1>3. LockInv => RunsSerialized BY DEF LockInv, RunsSerialized
<1>. QED BY <1>1, <1>2, <1>3, TypeCorrect, PTL DEF Spec

-----------------------------------------------------------------------------
(* The three ways a step changes an article, and that no other step does.  *)
Collected ==
  \E new \in SUBSET Having("absent") :
    item' = [a \in Articles |-> IF a \in new THEN "collected" ELSE item[a]]
Marked ==
  \E rejected, fresh \in SUBSET Having("collected") :
    item' = [a \in Articles |-> IF a \in rejected THEN "ignored"
                                ELSE IF a \in fresh THEN "candidate" ELSE item[a]]
UsedUp ==
  \E r \in Runs, picked \in SUBSET Having("candidate") :
    /\ picked # {}
    /\ \A d \in digests : d.run # r
    /\ digests' = digests \cup {[run |-> r, items |-> picked]}
    /\ item' = [a \in Articles |-> IF a \in picked THEN "used" ELSE item[a]]

LEMMA ItemSteps ==
  ASSUME LedgerInv, [Next]_vars
  PROVE  \/ (item' = item \/ Collected \/ Marked) /\ digests' = digests
         \/ UsedUp
<1>1. CASE UNCHANGED <<item, digests>> BY <1>1
<1>2. ASSUME NEW w \in Workers, Ingest(w)
      PROVE  (item' = item \/ Collected) /\ digests' = digests
  <2>1. digests' = digests BY <1>2 DEF Ingest
  <2>2. PICK s \in work[w].feeds :
          \/ \E new \in SUBSET {a \in Having("absent") : SourceOf[a] = s} :
               item' = [a \in Articles |-> IF a \in new THEN "collected" ELSE item[a]]
          \/ item' = item
    BY <1>2 DEF Ingest
  <2>. QED BY <2>1, <2>2 DEF Collected
<1>3. ASSUME NEW w \in Workers, Mark(w)
      PROVE  (item' = item \/ Marked) /\ digests' = digests
  <2>1. digests' = digests BY <1>3 DEF Mark
  <2>2. CASE /\ Markable(w)
             /\ item' = [a \in Articles |->
                           IF a \in Ignorable(w) THEN "ignored"
                           ELSE IF a \in work[w].fresh THEN "candidate" ELSE item[a]]
    <3>1. /\ Ignorable(w) \in SUBSET Having("collected")
          /\ work[w].fresh \in SUBSET Having("collected")
      BY <2>2 DEF Markable, Ignorable
    <3>. QED BY <2>1, <2>2, <3>1 DEF Marked
  <2>. QED BY <1>3, <2>1, <2>2 DEF Mark
<1>4. ASSUME NEW w \in Workers, Create(w)
      PROVE  UNCHANGED <<item, digests>> \/ UsedUp
  <2>1. CASE StillCandidates(w)
    <3>1. At(w, "create") /\ Fits(w) /\ TypeOK BY <1>4 DEF Create, LedgerInv
    <3>2. RunOf(w) \in Runs /\ runs[RunOf(w)] = "running" /\ work[w].picked # {}
      BY <3>1 DEF Fits, RowFits, ChoiceFits, At, InTry
    <3>3. \A d \in digests : d.run # RunOf(w)
      BY <3>1, <3>2 DEF LedgerInv, DigestIffSuccess, TypeOK, Succeeded
    <3>. QED BY <1>4, <2>1, <3>2, <3>3 DEF Create, StillCandidates, UseUp, UsedUp
  <2>2. CASE ~ StillCandidates(w) BY <1>4, <2>2 DEF Create, tables
  <2>. QED BY <2>1, <2>2
<1>5. ASSUME NEW w \in Workers,
             \/ Begin(w) \/ Skip(w) \/ Insert(w) \/ ReadSources(w) \/ Select(w)
             \/ Load(w) \/ Generate(w) \/ Deliver(w) \/ Save(w) \/ Handle(w)
             \/ Release(w) \/ Fault(w) \/ Stop(w) \/ LoseLock(w)
      PROVE  UNCHANGED <<item, digests>>
  BY <1>5
  DEF Begin, Skip, Insert, ReadSources, Select, Load, Generate, Deliver, Save,
      Handle, Release, Fault, Stop, LoseLock, tables
<1>6. CASE Seed \/ UNCHANGED vars BY <1>6 DEF Seed, vars, tables
<1>. QED BY <1>1, <1>2, <1>3, <1>4, <1>5, <1>6 DEF Next, Step

(* USED and IGNORED are final: no run, however it overlaps with another,   *)
(* brings an article back that was published or put aside.                 *)
THEOREM FinalIsFinal == Spec => FinalStatusKept
<1>1. ASSUME LedgerInv, [Next]_vars
      PROVE  [\A a \in Articles : item[a] \in {"used", "ignored"} => item'[a] = item[a]]_item
  BY <1>1, ItemSteps DEF Collected, Marked, UsedUp, Having
<1>. QED BY <1>1, LedgerInvariant, PTL DEF Spec, FinalStatusKept

LEMMA StepKeepsLedger ==
  ASSUME LedgerInv, [Next]_vars PROVE [Ledger!Next]_(Ledger!vars)
<1>1. TypeOK /\ UsedIffPublished BY DEF LedgerInv
<1>2. \A d \in digests : d.items \subseteq Having("used")
  BY <1>1 DEF UsedIffPublished, Published
<1>3. CASE (item' = item \/ Collected) /\ digests' = digests
  <2>1. Having("ignored")' = Having("ignored")
    BY <1>1, <1>3 DEF Collected, Having, TypeOK
  <2>. QED BY <1>3, <2>1 DEF Ledger!vars
<1>4. CASE Marked /\ digests' = digests
  <2>1. PICK rejected \in SUBSET Having("collected"), fresh \in SUBSET Having("collected") :
          item' = [a \in Articles |-> IF a \in rejected THEN "ignored"
                                      ELSE IF a \in fresh THEN "candidate" ELSE item[a]]
    BY <1>4 DEF Marked
  <2>2. Having("ignored")' = Having("ignored") \cup rejected BY <2>1 DEF Having
  <2>3. \A d \in digests : d.items \cap rejected = {} BY <1>2 DEF Having
  <2>4. Ledger!Ignore(rejected) BY <1>4, <2>2, <2>3 DEF Ledger!Ignore
  <2>5. rejected \in SUBSET Articles BY DEF Having
  <2>. QED BY <2>4, <2>5 DEF Ledger!Next
<1>5. CASE UsedUp
  <2>1. PICK r \in Runs, picked \in SUBSET Having("candidate") :
          /\ picked # {}
          /\ \A d \in digests : d.run # r
          /\ digests' = digests \cup {[run |-> r, items |-> picked]}
          /\ item' = [a \in Articles |-> IF a \in picked THEN "used" ELSE item[a]]
    BY <1>5 DEF UsedUp
  <2>2. Having("ignored")' = Having("ignored") BY <2>1 DEF Having
  <2>3. \A d \in digests : d.items \cap picked = {} BY <1>2 DEF Having
  <2>4. Having("ignored") \cap picked = {} BY DEF Having
  <2>5. Ledger!Publish(r, picked) BY <2>1, <2>2, <2>3, <2>4 DEF Ledger!Publish
  <2>6. picked \in SUBSET Articles BY DEF Having
  <2>. QED BY <2>5, <2>6 DEF Ledger!Next
<1>. QED BY <1>3, <1>4, <1>5, ItemSteps

(* The runs, with their lock, candidates and failures, keep the promise of *)
(* ArticleLedger: at most one digest for an article and for a run, never   *)
(* an empty one, and nothing ignored is published.                         *)
THEOREM LedgerKept == Spec => KeepsLedger
<1>1. Init => Ledger!Init BY DEF Init, Ledger!Init, Having
<1>2. LedgerInv /\ [Next]_vars => [Ledger!Next]_(Ledger!vars) BY StepKeepsLedger
<1>. QED BY <1>1, <1>2, LedgerInvariant, PTL DEF Spec, KeepsLedger, Ledger!Spec
-----------------------------------------------------------------------------
(* What selection guarantees of a set of candidates, and what a digest is  *)
(* to be.  A run keeps its choice from `mark' on; the articles it picks    *)
(* are among those it loaded, and these among those it chose.              *)
WithinCaps(chosen) ==
  /\ chosen \subseteq Articles
  /\ chosen \cap Unfit = {}
  /\ Cardinality(chosen) <= MaxCandidates
  /\ \A s \in Sources : Cardinality(OfSource(chosen, s)) <= MaxPerSource
Digestible(items) ==
  /\ items \cap Unfit = {}
  /\ Cardinality(items) \in Least(MinItems, MaxItems) .. Least(MaxItems, MaxCandidates)
  /\ \A s \in Sources : Cardinality(OfSource(items, s)) <= MaxPerSource

Choosing == {"mark", "load", "generate"}
ChoiceKept(w) ==
  /\ work[w].pc \in Choosing => WithinCaps(work[w].chosen)
  /\ work[w].pc = "generate" => work[w].fresh \subseteq work[w].chosen
  /\ work[w].pc = "create" => Digestible(work[w].picked)
LimitsInv ==
  /\ \A w \in Workers : ChoiceKept(w)
  /\ \A d \in digests : Digestible(d.items)

LEMMA PickedDigestible ==
  ASSUME NEW chosen, WithinCaps(chosen), Cardinality(chosen) >= MinItems,
         NEW picked \in SUBSET chosen,
         Cardinality(picked) \in
           Least(MinItems, Least(MaxItems, Cardinality(chosen)))
             .. Least(MaxItems, Cardinality(chosen))
  PROVE  Digestible(picked)
<1>1. IsFiniteSet(chosen) /\ IsFiniteSet(picked)
  BY ArticleAssumption, FS_Subset DEF WithinCaps
<1>2. Cardinality(chosen) \in Nat /\ Cardinality(picked) \in Nat
  BY <1>1, FS_CardinalityType
<1>3. Cardinality(picked) \in Least(MinItems, MaxItems) .. Least(MaxItems, MaxCandidates)
  BY <1>2, LimitAssumption DEF WithinCaps, Least
<1>4. ASSUME NEW s \in Sources PROVE Cardinality(OfSource(picked, s)) <= MaxPerSource
  <2>1. /\ OfSource(picked, s) \subseteq OfSource(chosen, s)
        /\ OfSource(chosen, s) \subseteq chosen
    BY DEF OfSource
  <2>2. IsFiniteSet(OfSource(chosen, s)) /\ IsFiniteSet(OfSource(picked, s))
    BY <1>1, <2>1, FS_Subset
  <2>3. Cardinality(OfSource(picked, s)) <= Cardinality(OfSource(chosen, s))
    BY <2>1, <2>2, FS_Subset
  <2>4. /\ Cardinality(OfSource(picked, s)) \in Nat
        /\ Cardinality(OfSource(chosen, s)) \in Nat
    BY <2>2, FS_CardinalityType
  <2>. QED BY <2>3, <2>4, LimitAssumption DEF WithinCaps
<1>5. picked \cap Unfit = {} BY DEF WithinCaps
<1>. QED BY <1>3, <1>4, <1>5 DEF Digestible

LEMMA ChoicesKept ==
  ASSUME LimitsInv, NEW w \in Workers, digests' = digests,
         \A v \in Workers : v # w => work'[v] = work[v],
         ChoiceKept(w)'
  PROVE  LimitsInv'
<1>1. ASSUME NEW v \in Workers, v # w PROVE ChoiceKept(v)'
  BY <1>1 DEF LimitsInv, ChoiceKept
<1>. QED BY <1>1 DEF LimitsInv

(* Where a worker has no choice to keep.                                   *)
LEMMA NoChoice ==
  ASSUME LimitsInv, NEW w \in Workers, digests' = digests,
         \A v \in Workers : v # w => work'[v] = work[v],
         work'[w].pc \notin Choosing \cup {"create"}
  PROVE  LimitsInv'
<1>1. ChoiceKept(w)' BY DEF ChoiceKept, Choosing
<1>. QED BY <1>1, ChoicesKept

LEMMA RaiseLimits ==
  ASSUME TypeOK, LimitsInv, NEW w \in Workers, digests' = digests, Raise(w)
  PROVE  LimitsInv'
<1>1. work'[w].pc \notin Choosing \cup {"create"} BY RaiseFields DEF Choosing
<1>. QED BY <1>1, RaiseFields, NoChoice

LEMMA CompleteLimits ==
  ASSUME TypeOK, LimitsInv, NEW w \in Workers, digests' = digests,
         NEW status \in RunStatus, Complete(w, status)
  PROVE  LimitsInv'
<1>1. work'[w].pc \notin Choosing \cup {"create"} BY CompleteFields DEF Choosing
<1>. QED BY <1>1, CompleteFields, NoChoice

LEMMA AnswerLimits ==
  ASSUME TypeOK, LimitsInv, NEW w \in Workers, digests' = digests,
         NEW outcome, Answer(w, outcome)
  PROVE  LimitsInv'
<1>. DEFINE left == Left(w, "release", work[w].known)
            state == [left EXCEPT !.answer = outcome]
<1>1. "release" \in Location /\ work[w].known \in RunStatus
  BY DEF Location, TypeOK, WorkState
<1>2. left \in WorkState /\ left.pc = "release" BY <1>1, LeftFields
<1>3. Becomes(w, state) BY DEF Answer
<1>. HIDE DEF left
<1>4. state.pc = "release" BY <1>2 DEF WorkState
<1>. HIDE DEF state
<1>5. work'[w].pc \notin Choosing \cup {"create"}
  BY <1>3, <1>4, BecomesFields DEF Choosing
<1>. QED BY <1>3, <1>5, BecomesFields, NoChoice

(* A worker that goes to a place without a choice, whatever else it notes. *)
LEMMA GoneLimits ==
  ASSUME TypeOK, LimitsInv, NEW w \in Workers, digests' = digests,
         NEW state, Becomes(w, state), state.pc \notin Choosing \cup {"create"}
  PROVE  LimitsInv'
BY BecomesFields, NoChoice

LEMMA IngestLimits ==
  ASSUME TypeOK, LimitsInv, NEW w \in Workers, Ingest(w) PROVE LimitsInv'
<1>1. digests' = digests /\ work[w] \in WorkState BY DEF Ingest, TypeOK
<1>2. PICK s \in work[w].feeds :
        LET rest == work[w].feeds \ {s}
            next == IF rest = {} THEN "select" ELSE "ingest"
        IN  \/ Becomes(w, [work[w] EXCEPT !.pc = next, !.feeds = rest])
            \/ Becomes(w, [work[w] EXCEPT !.pc = next, !.feeds = rest, !.feedFailed = TRUE])
            \/ Raise(w)
  BY DEF Ingest
<1>. DEFINE rest == work[w].feeds \ {s}
            next == IF rest = {} THEN "select" ELSE "ingest"
            stored == [work[w] EXCEPT !.pc = next, !.feeds = rest]
            failed == [work[w] EXCEPT !.pc = next, !.feeds = rest, !.feedFailed = TRUE]
<1>3. next \notin Choosing \cup {"create"} BY DEF Choosing
<1>4. stored.pc = next /\ failed.pc = next BY <1>1 DEF WorkState
<1>5. Becomes(w, stored) \/ Becomes(w, failed) \/ Raise(w) BY <1>2
<1>. HIDE DEF stored, failed, next
<1>. QED BY <1>1, <1>3, <1>4, <1>5, GoneLimits, RaiseLimits

LEMMA SelectLimits ==
  ASSUME TypeOK, LimitsInv, NEW w \in Workers, Select(w) PROVE LimitsInv'
<1>1. digests' = digests /\ work[w] \in WorkState BY DEF Select, TypeOK, tables
<1>2. PICK eligible, old \in SUBSET (Having("collected") \cup Having("candidate")) :
        LET rejected == Rejected(eligible, old)
        IN  \E chosen \in Selections(eligible \ rejected) :
              Becomes(w, [work[w] EXCEPT !.pc = "mark", !.chosen = chosen,
                                         !.rejected = rejected \cap Having("collected"),
                                         !.fresh = chosen \cap Having("collected")])
  BY DEF Select
<1>. DEFINE rejected == Rejected(eligible, old)
<1>3. PICK chosen \in Selections(eligible \ rejected) :
        Becomes(w, [work[w] EXCEPT !.pc = "mark", !.chosen = chosen,
                                   !.rejected = rejected \cap Having("collected"),
                                   !.fresh = chosen \cap Having("collected")])
  BY <1>2
<1>. DEFINE state == [work[w] EXCEPT !.pc = "mark", !.chosen = chosen,
                                     !.rejected = rejected \cap Having("collected"),
                                     !.fresh = chosen \cap Having("collected")]
<1>4. chosen \subseteq Articles /\ chosen \cap Unfit = {}
  BY <1>3 DEF Selections, Having, Rejected
<1>5. WithinCaps(chosen) BY <1>3, <1>4 DEF Selections, WithinCaps
<1>6. Becomes(w, state) BY <1>3
<1>. HIDE DEF rejected
<1>7. state.pc = "mark" /\ state.chosen = chosen BY <1>1 DEF WorkState
<1>. HIDE DEF state
<1>8. ChoiceKept(w)' BY <1>5, <1>6, <1>7, BecomesFields DEF ChoiceKept, WithinCaps, OfSource
<1>. QED BY <1>1, <1>6, <1>8, BecomesFields, ChoicesKept

LEMMA MarkLimits ==
  ASSUME TypeOK, LimitsInv, NEW w \in Workers, Mark(w) PROVE LimitsInv'
<1>1. /\ digests' = digests /\ work[w] \in WorkState
      /\ work[w].pc = "mark" /\ WithinCaps(work[w].chosen)
  BY DEF Mark, TypeOK, At, LimitsInv, ChoiceKept, Choosing
<1>2. CASE Raise(w) BY <1>1, <1>2, RaiseLimits
<1>3. CASE Complete(w, "no_content")
  <2>1. "no_content" \in RunStatus BY DEF RunStatus, Terminal
  <2>. QED BY <1>1, <1>3, <2>1, CompleteLimits
<1>4. CASE Becomes(w, [work[w] EXCEPT !.pc = "load", !.rejected = {}, !.fresh = {}])
  <2>. DEFINE state == [work[w] EXCEPT !.pc = "load", !.rejected = {}, !.fresh = {}]
  <2>1. state.pc = "load" /\ state.chosen = work[w].chosen BY <1>1 DEF WorkState
  <2>. HIDE DEF state
  <2>2. work'[w] = state /\ \A v \in Workers : v # w => work'[v] = work[v]
    BY <1>4, BecomesFields DEF state
  <2>3. ChoiceKept(w)' BY <1>1, <2>1, <2>2 DEF ChoiceKept, WithinCaps, OfSource
  <2>. QED BY <1>1, <2>2, <2>3, ChoicesKept
<1>. QED BY <1>2, <1>3, <1>4 DEF Mark

LEMMA LoadLimits ==
  ASSUME TypeOK, LimitsInv, NEW w \in Workers, Load(w) PROVE LimitsInv'
<1>. DEFINE fresh == work[w].chosen \cap Having("candidate")
            state == [work[w] EXCEPT !.pc = "generate", !.fresh = fresh]
<1>1. /\ digests' = digests /\ work[w] \in WorkState
      /\ work[w].pc = "load" /\ WithinCaps(work[w].chosen)
  BY DEF Load, TypeOK, At, LimitsInv, ChoiceKept, Choosing, tables
<1>2. Becomes(w, state) BY DEF Load
<1>3. fresh \subseteq work[w].chosen OBVIOUS
<1>. HIDE DEF fresh
<1>4. state.pc = "generate" /\ state.chosen = work[w].chosen /\ state.fresh = fresh
  BY <1>1 DEF WorkState
<1>. HIDE DEF state
<1>5. work'[w] = state /\ \A v \in Workers : v # w => work'[v] = work[v]
  BY <1>2, BecomesFields
<1>6. ChoiceKept(w)' BY <1>1, <1>3, <1>4, <1>5 DEF ChoiceKept, WithinCaps, OfSource
<1>. QED BY <1>1, <1>5, <1>6, ChoicesKept

LEMMA GenerateLimits ==
  ASSUME LedgerInv, LimitsInv, NEW w \in Workers, Generate(w) PROVE LimitsInv'
<1>1. /\ TypeOK /\ digests' = digests /\ work[w] \in WorkState
      /\ work[w].pc = "generate"
  BY DEF LedgerInv, Generate, TypeOK, At, tables
<1>2. /\ WithinCaps(work[w].chosen) /\ work[w].fresh \subseteq work[w].chosen
      /\ Cardinality(work[w].chosen) >= MinItems
  BY <1>1 DEF LimitsInv, ChoiceKept, Choosing, LedgerInv, Fits, ChoiceFits
<1>3. CASE Raise(w) BY <1>1, <1>3, RaiseLimits
<1>4. CASE Complete(w, "failed")
  <2>1. "failed" \in RunStatus BY DEF RunStatus, Terminal
  <2>. QED BY <1>1, <1>4, <2>1, CompleteLimits
<1>5. ASSUME NEW picked \in SUBSET work[w].fresh,
             Cardinality(picked) \in Least(MinItems, Desired(w)) .. Desired(w),
             Becomes(w, [work[w] EXCEPT !.pc = "create", !.picked = picked,
                                        !.chosen = {}, !.fresh = {}])
      PROVE  LimitsInv'
  <2>. DEFINE state == [work[w] EXCEPT !.pc = "create", !.picked = picked,
                                       !.chosen = {}, !.fresh = {}]
  <2>1. Digestible(picked) BY <1>2, <1>5, PickedDigestible DEF Desired
  <2>2. state.pc = "create" /\ state.picked = picked BY <1>1 DEF WorkState
  <2>. HIDE DEF state
  <2>3. work'[w] = state /\ \A v \in Workers : v # w => work'[v] = work[v]
    BY <1>1, <1>5, BecomesFields DEF state
  <2>4. ChoiceKept(w)'
    BY <2>1, <2>2, <2>3 DEF ChoiceKept, Choosing, Digestible, OfSource
  <2>. QED BY <1>1, <2>3, <2>4, ChoicesKept
<1>. QED BY <1>3, <1>4, <1>5 DEF Generate

LEMMA CreateLimits ==
  ASSUME TypeOK, LimitsInv, NEW w \in Workers, Create(w) PROVE LimitsInv'
<1>1. Digestible(work[w].picked) BY DEF Create, At, LimitsInv, ChoiceKept
<1>2. CASE Raise(w) /\ UNCHANGED tables BY <1>2, RaiseLimits DEF tables
<1>3. CASE /\ digests' = digests \cup {[run |-> RunOf(w), items |-> work[w].picked]}
           /\ Becomes(w, Left(w, "deliver", Result(w)))
  <2>. DEFINE state == Left(w, "deliver", Result(w))
  <2>1. "deliver" \in Location /\ Result(w) \in RunStatus
    BY DEF Location, Result, RunStatus, Terminal, Succeeded
  <2>2. state.pc = "deliver" BY <2>1, LeftFields
  <2>. HIDE DEF state
  <2>3. work'[w] = state /\ \A v \in Workers : v # w => work'[v] = work[v]
    BY <1>3, BecomesFields DEF state
  <2>4. ASSUME NEW v \in Workers PROVE ChoiceKept(v)'
    BY <2>2, <2>3 DEF LimitsInv, ChoiceKept, Choosing
  <2>5. \A d \in digests' : Digestible(d.items) BY <1>1, <1>3 DEF LimitsInv
  <2>6. (\A d \in digests : Digestible(d.items))' BY <2>5 DEF Digestible, OfSource
  <2>. QED BY <2>4, <2>6 DEF LimitsInv
<1>. QED BY <1>2, <1>3 DEF Create

LEMMA StepLimits ==
  ASSUME LedgerInv, LimitsInv, NEW w \in Workers, Step(w) PROVE LimitsInv'
<1>1. TypeOK /\ work[w] \in WorkState BY DEF LedgerInv, TypeOK
<1>2. CASE Skip(w)
  <2>1. /\ digests' = digests
        /\ Becomes(w, [work[w] EXCEPT !.pc = "idle", !.answer = "skipped_locked"])
    BY <1>2 DEF Skip
  <2>2. [work[w] EXCEPT !.pc = "idle", !.answer = "skipped_locked"].pc = "idle"
    BY <1>1 DEF WorkState
  <2>. QED BY <1>1, <2>1, <2>2, GoneLimits DEF Choosing
<1>3. CASE Insert(w)
  <2>1. digests' = digests /\ Becomes(w, [work[w] EXCEPT !.pc = "sources"])
    BY <1>3 DEF Insert, Goto
  <2>2. [work[w] EXCEPT !.pc = "sources"].pc = "sources" BY <1>1 DEF WorkState
  <2>. QED BY <1>1, <2>1, <2>2, GoneLimits DEF Choosing
<1>4. CASE ReadSources(w)
  <2>1. digests' = digests BY <1>4 DEF ReadSources, tables
  <2>2. CASE Complete(w, "no_content")
    <3>1. "no_content" \in RunStatus BY DEF RunStatus, Terminal
    <3>. QED BY <1>1, <2>1, <2>2, <3>1, CompleteLimits
  <2>3. CASE Becomes(w, [work[w] EXCEPT !.pc = "ingest", !.feeds = enabled])
    <3>1. [work[w] EXCEPT !.pc = "ingest", !.feeds = enabled].pc = "ingest"
      BY <1>1 DEF WorkState
    <3>. QED BY <1>1, <2>1, <2>3, <3>1, GoneLimits DEF Choosing
  <2>. QED BY <1>4, <2>2, <2>3 DEF ReadSources
<1>5. CASE \/ Ingest(w) \/ Select(w) \/ Mark(w) \/ Load(w) \/ Generate(w) \/ Create(w)
  BY <1>1, <1>5, IngestLimits, SelectLimits, MarkLimits, LoadLimits,
     GenerateLimits, CreateLimits
<1>6. CASE Deliver(w) \/ Save(w) \/ Handle(w)
  <2>1. digests' = digests BY <1>6 DEF Deliver, Save, Handle, tables
  <2>2. Raise(w) \/ \E outcome : Answer(w, outcome) BY <1>6 DEF Deliver, Save, Handle
  <2>. QED BY <1>1, <2>1, <2>2, RaiseLimits, AnswerLimits
<1>7. CASE Release(w)
  <2>. DEFINE answer == IF holder = w THEN work[w].answer ELSE "raised"
              state == [work[w] EXCEPT !.pc = "idle", !.answer = answer]
  <2>1. [work[w] EXCEPT !.pc = "idle", !.answer = IF holder = w THEN @ ELSE "raised"]
          = state
    BY <1>1 DEF WorkState
  <2>2. digests' = digests /\ Becomes(w, state) BY <1>7, <2>1 DEF Release, tables
  <2>3. state.pc = "idle" BY <1>1 DEF WorkState
  <2>. HIDE DEF state
  <2>. QED BY <1>1, <2>2, <2>3, GoneLimits DEF Choosing
<1>. QED BY <1>2, <1>3, <1>4, <1>5, <1>6, <1>7 DEF Step

LEMMA NextLimitsInv == LedgerInv /\ LimitsInv /\ [Next]_vars => LimitsInv'
<1>. SUFFICES ASSUME LedgerInv, LimitsInv, [Next]_vars PROVE LimitsInv'
  OBVIOUS
<1>1. TypeOK BY DEF LedgerInv
<1>2. ASSUME NEW w \in Workers, Begin(w) PROVE LimitsInv'
  <2>1. PICK r \in Runs, trigger \in Triggers :
          Becomes(w, [NoWork EXCEPT !.pc = IF holder = None THEN "insert" ELSE "skip",
                                    !.run = r, !.trigger = trigger])
    BY <1>2 DEF Begin
  <2>. DEFINE state == [NoWork EXCEPT !.pc = IF holder = None THEN "insert" ELSE "skip",
                                      !.run = r, !.trigger = trigger]
  <2>2. state.pc \notin Choosing \cup {"create"} BY DEF NoWork, Choosing
  <2>3. digests' = digests BY <1>2 DEF Begin, tables
  <2>. HIDE DEF state
  <2>. QED BY <1>1, <2>1, <2>2, <2>3, GoneLimits DEF state
<1>3. ASSUME NEW w \in Workers, Step(w) PROVE LimitsInv' BY <1>3, StepLimits
<1>4. ASSUME NEW w \in Workers, Fault(w) PROVE LimitsInv'
  <2>1. digests' = digests /\ work[w] \in WorkState BY <1>1, <1>4 DEF Fault, TypeOK, tables
  <2>2. ASSUME NEW known \in RunStatus, Becomes(w, Left(w, "handler", known))
        PROVE  LimitsInv'
    <3>1. "handler" \in Location BY DEF Location
    <3>2. Left(w, "handler", known).pc = "handler" BY <1>1, <3>1, LeftFields
    <3>. QED BY <1>1, <2>1, <2>2, <3>2, GoneLimits DEF Choosing
  <2>3. CASE Answer(w, "raised") BY <1>1, <2>1, <2>3, AnswerLimits
  <2>4. CASE Becomes(w, [work[w] EXCEPT !.pc = "idle", !.answer = "raised"])
    <3>1. [work[w] EXCEPT !.pc = "idle", !.answer = "raised"].pc = "idle"
      BY <2>1 DEF WorkState
    <3>. QED BY <1>1, <2>1, <2>4, <3>1, GoneLimits DEF Choosing
  <2>5. {"running", Result(w), work[w].known} \subseteq RunStatus
    BY <2>1 DEF Result, RunStatus, Terminal, Succeeded, WorkState
  <2>. QED BY <1>4, <2>2, <2>3, <2>4, <2>5 DEF Fault
<1>5. ASSUME NEW w \in Workers, Stop(w) PROVE LimitsInv'
  <2>1. /\ digests' = digests
        /\ Becomes(w, [work[w] EXCEPT !.pc = "idle", !.answer = "raised"])
    BY <1>5 DEF Stop, tables
  <2>2. [work[w] EXCEPT !.pc = "idle", !.answer = "raised"].pc = "idle"
    BY <1>1 DEF TypeOK, WorkState
  <2>. QED BY <1>1, <2>1, <2>2, GoneLimits DEF Choosing
<1>6. CASE UNCHANGED <<work, digests>>
  <2>1. ASSUME NEW w \in Workers PROVE ChoiceKept(w)'
    BY <1>6 DEF LimitsInv, ChoiceKept
  <2>. QED BY <1>6, <2>1 DEF LimitsInv
<1>7. ASSUME NEW w \in Workers, LoseLock(w) PROVE LimitsInv'
  BY <1>6, <1>7 DEF LoseLock, tables
<1>8. CASE Seed BY <1>6, <1>8 DEF Seed, tables
<1>9. CASE UNCHANGED vars BY <1>6, <1>9 DEF vars
<1>. QED BY <1>2, <1>3, <1>4, <1>5, <1>7, <1>8, <1>9 DEF Next

(* A stored digest keeps the caps of selection and the limits on its size  *)
(* (select_candidates, validate_digest), though the articles, the sources  *)
(* and the other runs change between selecting, loading and storing.       *)
THEOREM DigestsKeepLimits == Spec => []DigestWithinLimits
<1>1. Init => LimitsInv BY DEF Init, LimitsInv, ChoiceKept, NoWork, Choosing
<1>2. LedgerInv /\ LimitsInv /\ [Next]_vars => LimitsInv' BY NextLimitsInv
<1>3. LimitsInv => DigestWithinLimits BY DEF LimitsInv, Digestible, DigestWithinLimits
<1>. QED BY <1>1, <1>2, <1>3, LedgerInvariant, PTL DEF Spec
-----------------------------------------------------------------------------
(* What a caller is told, or is about to be told, is what the row says:    *)
(* the result that a run keeps in memory past its last write to the row,   *)
(* and its answer.                                                         *)
AnswerFits(w) ==
  /\ work[w].pc = "deliver" => RunOf(w) \in Runs /\ runs[RunOf(w)] = work[w].known
  /\ work[w].pc = "handler" /\ work[w].known # "running" =>
       RunOf(w) \in Runs /\ runs[RunOf(w)] = work[w].known
  /\ work[w].pc \in {"release", "idle"} /\ work[w].answer \in Terminal =>
       RunOf(w) \in Runs /\ runs[RunOf(w)] = work[w].answer
AnswerInv == \A w \in Workers : AnswerFits(w)

(* A run that is not near its end has told nobody anything.                *)
LEMMA BusyAnswers ==
  ASSUME NEW w \in Workers, work'[w].pc \in InTry \cup {"insert", "skip", "save"}
  PROVE  AnswerFits(w)'
BY DEF AnswerFits, InTry

LEMMA RaiseAnswers ==
  ASSUME LedgerInv, NEW w \in Workers, AnswerFits(w), Raise(w),
         UNCHANGED runs, work[w].pc \in InTry \cup {"deliver"}
  PROVE  AnswerFits(w)'
<1>1. TypeOK /\ Fits(w) BY DEF LedgerInv
<1>2. work'[w].pc = "handler" /\ work'[w].run = RunOf(w) /\ work'[w].known = work[w].known
  BY <1>1, RaiseFields
<1>3. CASE work[w].pc \in InTry
  BY <1>1, <1>2, <1>3 DEF Fits, RowFits, AnswerFits
<1>4. CASE work[w].pc = "deliver"
  BY <1>2, <1>4 DEF AnswerFits, RunOf
<1>. QED BY <1>3, <1>4

(* Answering with what the row says.                                       *)
LEMMA AnswerAnswers ==
  ASSUME TypeOK, NEW w \in Workers, NEW outcome \in Terminal, Answer(w, outcome),
         RunOf(w) \in Runs, runs'[RunOf(w)] = outcome
  PROVE  AnswerFits(w)'
<1>1. work'[w].pc = "release" /\ work'[w].run = RunOf(w) /\ work'[w].answer = outcome
  BY AnswerFields
<1>. QED BY <1>1 DEF AnswerFits, RunOf

(* A worker that goes idle with its answer, or raises.                     *)
LEMMA IdleAnswers ==
  ASSUME TypeOK, NEW w \in Workers, NEW answer,
         Becomes(w, [work[w] EXCEPT !.pc = "idle", !.answer = answer]),
         answer \in Terminal => RunOf(w) \in Runs /\ runs'[RunOf(w)] = answer
  PROVE  AnswerFits(w)'
<1>. DEFINE state == [work[w] EXCEPT !.pc = "idle", !.answer = answer]
<1>1. work[w] \in WorkState BY DEF TypeOK
<1>2. state.pc = "idle" /\ state.run = RunOf(w) /\ state.answer = answer
  BY <1>1 DEF WorkState, RunOf
<1>. HIDE DEF state
<1>3. work'[w] = state BY BecomesFields DEF state
<1>. QED BY <1>2, <1>3 DEF AnswerFits, RunOf

(* What a statement of run() does: it keeps the run, leaves the others'    *)
(* locals alone, and tells the caller no more than its row.                *)
StepTells(w) ==
  /\ \A v \in Workers : v # w => work'[v] = work[v]
  /\ work'[w].run = RunOf(w)
  /\ AnswerFits(w)'

LEMMA BusyTells ==
  ASSUME TypeOK, NEW w \in Workers, NEW state, Becomes(w, state),
         state.run = RunOf(w), state.pc \in InTry \cup {"insert", "skip", "save"}
  PROVE  StepTells(w)
<1>1. work'[w] = state /\ \A v \in Workers : v # w => work'[v] = work[v]
  BY BecomesFields
<1>2. AnswerFits(w)' BY <1>1, BusyAnswers
<1>. QED BY <1>1, <1>2 DEF StepTells

LEMMA CompleteTells ==
  ASSUME TypeOK, NEW w \in Workers, NEW status \in RunStatus, Complete(w, status)
  PROVE  StepTells(w)
<1>1. AnswerFits(w)' BY CompleteFields, BusyAnswers
<1>. QED BY <1>1, CompleteFields DEF StepTells

LEMMA RaiseTells ==
  ASSUME LedgerInv, NEW w \in Workers, AnswerFits(w), Raise(w),
         UNCHANGED runs, work[w].pc \in InTry \cup {"deliver"}
  PROVE  StepTells(w)
<1>1. TypeOK BY DEF LedgerInv
<1>2. AnswerFits(w)' BY RaiseAnswers
<1>. QED BY <1>1, <1>2, RaiseFields DEF StepTells

LEMMA AnswerTells ==
  ASSUME TypeOK, NEW w \in Workers, NEW outcome \in Terminal, Answer(w, outcome),
         RunOf(w) \in Runs, runs'[RunOf(w)] = outcome
  PROVE  StepTells(w)
<1>1. AnswerFits(w)' BY AnswerAnswers
<1>. QED BY <1>1, AnswerFields DEF StepTells

LEMMA IdleTells ==
  ASSUME TypeOK, NEW w \in Workers, NEW answer,
         Becomes(w, [work[w] EXCEPT !.pc = "idle", !.answer = answer]),
         answer \in Terminal => RunOf(w) \in Runs /\ runs'[RunOf(w)] = answer
  PROVE  StepTells(w)
<1>. DEFINE state == [work[w] EXCEPT !.pc = "idle", !.answer = answer]
<1>1. AnswerFits(w)' BY IdleAnswers
<1>2. state.run = RunOf(w) BY DEF TypeOK, WorkState, RunOf
<1>. HIDE DEF state
<1>3. work'[w] = state /\ \A v \in Workers : v # w => work'[v] = work[v]
  BY BecomesFields DEF state
<1>. QED BY <1>1, <1>2, <1>3 DEF StepTells

LEMMA IngestTells ==
  ASSUME LedgerInv, NEW w \in Workers, AnswerFits(w), Ingest(w) PROVE StepTells(w)
<1>1. TypeOK /\ work[w] \in WorkState /\ work[w].pc = "ingest" /\ runs' = runs
  BY DEF LedgerInv, TypeOK, Ingest, At
<1>2. PICK s \in work[w].feeds :
        LET rest == work[w].feeds \ {s}
            next == IF rest = {} THEN "select" ELSE "ingest"
        IN  \/ Becomes(w, [work[w] EXCEPT !.pc = next, !.feeds = rest])
            \/ Becomes(w, [work[w] EXCEPT !.pc = next, !.feeds = rest, !.feedFailed = TRUE])
            \/ Raise(w)
  BY DEF Ingest
<1>. DEFINE rest == work[w].feeds \ {s}
            next == IF rest = {} THEN "select" ELSE "ingest"
            stored == [work[w] EXCEPT !.pc = next, !.feeds = rest]
            failed == [work[w] EXCEPT !.pc = next, !.feeds = rest, !.feedFailed = TRUE]
<1>3. next \in InTry BY DEF InTry
<1>4. /\ stored.pc = next /\ stored.run = RunOf(w)
      /\ failed.pc = next /\ failed.run = RunOf(w)
  BY <1>1 DEF WorkState, RunOf
<1>5. Becomes(w, stored) \/ Becomes(w, failed) \/ Raise(w) BY <1>2
<1>6. work[w].pc \in InTry BY <1>1 DEF InTry
<1>. HIDE DEF stored, failed, next
<1>. QED BY <1>1, <1>3, <1>4, <1>5, <1>6, BusyTells, RaiseTells

LEMMA SelectTells ==
  ASSUME TypeOK, NEW w \in Workers, Select(w) PROVE StepTells(w)
<1>1. work[w] \in WorkState BY DEF TypeOK
<1>2. PICK rejected, chosen, fresh :
        Becomes(w, [work[w] EXCEPT !.pc = "mark", !.chosen = chosen,
                                   !.rejected = rejected, !.fresh = fresh])
  BY DEF Select
<1>. DEFINE state == [work[w] EXCEPT !.pc = "mark", !.chosen = chosen,
                                     !.rejected = rejected, !.fresh = fresh]
<1>3. state.pc = "mark" /\ state.run = RunOf(w) BY <1>1 DEF WorkState, RunOf
<1>4. Becomes(w, state) BY <1>2
<1>. HIDE DEF state
<1>. QED BY <1>3, <1>4, BusyTells DEF InTry

LEMMA StepAnswers ==
  ASSUME LedgerInv, NEW w \in Workers, AnswerFits(w), Step(w) PROVE StepTells(w)
<1>1. TypeOK /\ Fits(w) /\ work[w] \in WorkState BY DEF LedgerInv, TypeOK
<1>2. runs \in [Runs -> RunStatus \cup {None}] BY <1>1 DEF TypeOK
<1>3. CASE Skip(w)
  <2>1. RunOf(w) \in Runs BY <1>1, <1>3 DEF Skip, At, Fits, RowFits
  <2>2. runs'[RunOf(w)] = "skipped_locked" BY <1>2, <1>3, <2>1 DEF Skip
  <2>. QED BY <1>1, <1>3, <2>1, <2>2, IdleTells DEF Skip
<1>4. CASE Insert(w)
  <2>1. Becomes(w, [work[w] EXCEPT !.pc = "sources"]) BY <1>4 DEF Insert, Goto
  <2>2. /\ [work[w] EXCEPT !.pc = "sources"].pc = "sources"
        /\ [work[w] EXCEPT !.pc = "sources"].run = RunOf(w)
    BY <1>1 DEF WorkState, RunOf
  <2>. QED BY <1>1, <2>1, <2>2, BusyTells DEF InTry
<1>5. CASE ReadSources(w)
  <2>1. CASE Complete(w, "no_content")
    <3>1. "no_content" \in RunStatus BY DEF RunStatus, Terminal
    <3>. QED BY <1>1, <2>1, <3>1, CompleteTells
  <2>2. CASE Becomes(w, [work[w] EXCEPT !.pc = "ingest", !.feeds = enabled])
    <3>1. /\ [work[w] EXCEPT !.pc = "ingest", !.feeds = enabled].pc = "ingest"
          /\ [work[w] EXCEPT !.pc = "ingest", !.feeds = enabled].run = RunOf(w)
      BY <1>1 DEF WorkState, RunOf
    <3>. QED BY <1>1, <2>2, <3>1, BusyTells DEF InTry
  <2>. QED BY <1>5, <2>1, <2>2 DEF ReadSources
<1>6. CASE Ingest(w) BY <1>6, IngestTells
<1>7. CASE Select(w) BY <1>1, <1>7, SelectTells
<1>8. CASE Mark(w)
  <2>1. work[w].pc \in InTry /\ UNCHANGED runs BY <1>8 DEF Mark, At, InTry
  <2>2. CASE Raise(w) BY <2>1, <2>2, RaiseTells
  <2>3. CASE Complete(w, "no_content")
    <3>1. "no_content" \in RunStatus BY DEF RunStatus, Terminal
    <3>. QED BY <1>1, <2>3, <3>1, CompleteTells
  <2>4. CASE Becomes(w, [work[w] EXCEPT !.pc = "load", !.rejected = {}, !.fresh = {}])
    <3>1. /\ [work[w] EXCEPT !.pc = "load", !.rejected = {}, !.fresh = {}].pc = "load"
          /\ [work[w] EXCEPT !.pc = "load", !.rejected = {}, !.fresh = {}].run = RunOf(w)
      BY <1>1 DEF WorkState, RunOf
    <3>. QED BY <1>1, <2>4, <3>1, BusyTells DEF InTry
  <2>. QED BY <1>8, <2>2, <2>3, <2>4 DEF Mark
<1>9. CASE Load(w)
  <2>. DEFINE fresh == work[w].chosen \cap Having("candidate")
              state == [work[w] EXCEPT !.pc = "generate", !.fresh = fresh]
  <2>1. Becomes(w, state) BY <1>9 DEF Load
  <2>2. state.pc = "generate" /\ state.run = RunOf(w) BY <1>1 DEF WorkState, RunOf
  <2>. HIDE DEF state
  <2>. QED BY <1>1, <2>1, <2>2, BusyTells DEF InTry
<1>10. CASE Generate(w)
  <2>1. work[w].pc \in InTry /\ UNCHANGED runs BY <1>10 DEF Generate, At, InTry, tables
  <2>2. CASE Raise(w) BY <2>1, <2>2, RaiseTells
  <2>3. CASE Complete(w, "failed")
    <3>1. "failed" \in RunStatus BY DEF RunStatus, Terminal
    <3>. QED BY <1>1, <2>3, <3>1, CompleteTells
  <2>4. ASSUME NEW picked,
               Becomes(w, [work[w] EXCEPT !.pc = "create", !.picked = picked,
                                          !.chosen = {}, !.fresh = {}])
        PROVE  StepTells(w)
    <3>. DEFINE state == [work[w] EXCEPT !.pc = "create", !.picked = picked,
                                         !.chosen = {}, !.fresh = {}]
    <3>1. state.pc = "create" /\ state.run = RunOf(w) BY <1>1 DEF WorkState, RunOf
    <3>. HIDE DEF state
    <3>. QED BY <1>1, <2>4, <3>1, BusyTells DEF InTry, state
  <2>. QED BY <1>10, <2>2, <2>3, <2>4 DEF Generate
<1>11. CASE Create(w)
  <2>1. RunOf(w) \in Runs /\ work[w].pc \in InTry
    BY <1>1, <1>11 DEF Create, At, Fits, RowFits, InTry
  <2>2. CASE Raise(w) /\ UNCHANGED tables BY <2>1, <2>2, RaiseTells DEF tables
  <2>3. CASE /\ runs' = [runs EXCEPT ![RunOf(w)] = Result(w)]
             /\ Becomes(w, Left(w, "deliver", Result(w)))
    <3>. DEFINE state == Left(w, "deliver", Result(w))
    <3>1. "deliver" \in Location /\ Result(w) \in RunStatus
      BY DEF Location, Result, RunStatus, Terminal, Succeeded
    <3>2. state.pc = "deliver" /\ state.run = RunOf(w) /\ state.known = Result(w)
      BY <1>1, <3>1, LeftFields
    <3>. HIDE DEF state
    <3>3. work'[w] = state /\ \A v \in Workers : v # w => work'[v] = work[v]
      BY <1>1, <2>3, BecomesFields DEF state
    <3>4. runs'[RunOf(w)] = Result(w) BY <1>2, <2>1, <2>3
    <3>5. AnswerFits(w)' BY <2>1, <3>2, <3>3, <3>4 DEF AnswerFits, RunOf
    <3>. QED BY <3>2, <3>3, <3>5 DEF StepTells
  <2>. QED BY <1>11, <2>2, <2>3 DEF Create
<1>12. CASE Deliver(w)
  <2>1. work[w].pc = "deliver" /\ UNCHANGED runs BY <1>12 DEF Deliver, At, tables
  <2>2. CASE Raise(w) BY <2>1, <2>2, RaiseTells
  <2>3. CASE Answer(w, work[w].known)
    <3>1. RunOf(w) \in Runs /\ runs'[RunOf(w)] = work[w].known
      BY <2>1 DEF AnswerFits
    <3>2. work[w].known \in Terminal BY <1>1, <2>1 DEF Fits, RowFits, Terminal
    <3>. QED BY <1>1, <2>3, <3>1, <3>2, AnswerTells
  <2>. QED BY <1>12, <2>2, <2>3 DEF Deliver
<1>13. CASE Save(w)
  <2>1. RunOf(w) \in Runs /\ work[w].known \in Terminal
    BY <1>1, <1>13 DEF Save, At, Fits, RowFits, Terminal
  <2>2. runs'[RunOf(w)] = work[w].known BY <1>2, <1>13, <2>1 DEF Save
  <2>. QED BY <1>1, <1>13, <2>1, <2>2, AnswerTells DEF Save
<1>14. CASE Handle(w)
  <2>1. CASE work[w].known = "running"
    <3>1. RunOf(w) \in Runs BY <1>1, <1>14, <2>1 DEF Handle, At, Fits, RowFits
    <3>2. runs'[RunOf(w)] = "failed" /\ Answer(w, "failed")
      BY <1>2, <1>14, <2>1, <3>1 DEF Handle
    <3>3. "failed" \in Terminal BY DEF Terminal
    <3>. QED BY <1>1, <3>1, <3>2, <3>3, AnswerTells
  <2>2. CASE work[w].known # "running"
    <3>1. RunOf(w) \in Runs /\ runs[RunOf(w)] = work[w].known
      BY <1>14, <2>2 DEF Handle, At, AnswerFits
    <3>2. work[w].known \in Terminal BY <1>1, <2>2 DEF WorkState, RunStatus
    <3>3. runs' = runs /\ Answer(w, work[w].known) BY <1>14, <2>2 DEF Handle
    <3>. QED BY <1>1, <3>1, <3>2, <3>3, AnswerTells
  <2>. QED BY <2>1, <2>2
<1>15. CASE Release(w)
  <2>. DEFINE answer == IF holder = w THEN work[w].answer ELSE "raised"
  <2>1. [work[w] EXCEPT !.pc = "idle", !.answer = IF holder = w THEN @ ELSE "raised"]
          = [work[w] EXCEPT !.pc = "idle", !.answer = answer]
    BY <1>1 DEF WorkState
  <2>2. Becomes(w, [work[w] EXCEPT !.pc = "idle", !.answer = answer]) /\ runs' = runs
    BY <1>15, <2>1 DEF Release, tables
  <2>3. answer \in Terminal => RunOf(w) \in Runs /\ runs[RunOf(w)] = answer
    BY <1>15 DEF Release, At, AnswerFits, Terminal, Succeeded
  <2>. HIDE DEF answer
  <2>. QED BY <1>1, <2>2, <2>3, IdleTells
<1>. QED
  BY <1>3, <1>4, <1>5, <1>6, <1>7, <1>8, <1>9, <1>10, <1>11, <1>12, <1>13, <1>14, <1>15
  DEF Step

(* No run writes another run's row.                                        *)
LEMMA StepWritesOwn ==
  ASSUME TypeOK, NEW w \in Workers, Step(w), NEW r \in Runs, r # RunOf(w)
  PROVE  runs'[r] = runs[r]
BY DEF Step, Skip, Insert, ReadSources, Ingest, Select, Mark, Load, Generate, Create,
       Deliver, Save, Handle, Release, tables, TypeOK

(* A step in which no statement fails.                                     *)
Faultless ==
  \/ \E w \in Workers : Begin(w) \/ Step(w) \/ Stop(w) \/ LoseLock(w)
  \/ Seed
  \/ UNCHANGED vars

(* What the others were told stays true.                                   *)
LEMMA OthersAnswered ==
  ASSUME RunsOwned, AnswerInv, NEW w \in Workers,
         \A v \in Workers : v # w => work'[v] = work[v],
         \A r \in Runs : r # RunOf(w) => runs'[r] = runs[r],
         AnswerFits(w)'
  PROVE  AnswerInv'
<1>1. ASSUME NEW v \in Workers, v # w PROVE AnswerFits(v)'
  <2>1. work'[v] = work[v] /\ RunOf(v)' = RunOf(v) /\ AnswerFits(v)
    BY <1>1 DEF AnswerInv, RunOf
  <2>2. RunOf(v) \in Runs => runs'[RunOf(v)] = runs[RunOf(v)]
    BY <1>1, NoneNotRun DEF RunsOwned
  <2>. QED BY <2>1, <2>2 DEF AnswerFits
<1>. QED BY <1>1 DEF AnswerInv

LEMMA FaultlessAnswers ==
  ASSUME LedgerInv, AnswerInv, Faultless PROVE AnswerInv'
<1>1. TypeOK /\ RunsOwned BY DEF LedgerInv
<1>2. ASSUME NEW w \in Workers, Begin(w) PROVE AnswerInv'
  <2>1. PICK r \in Runs, trigger \in Triggers :
          Becomes(w, [NoWork EXCEPT !.pc = IF holder = None THEN "insert" ELSE "skip",
                                    !.run = r, !.trigger = trigger])
    BY <1>2 DEF Begin
  <2>. DEFINE state == [NoWork EXCEPT !.pc = IF holder = None THEN "insert" ELSE "skip",
                                      !.run = r, !.trigger = trigger]
  <2>2. state.pc \in {"insert", "skip"} BY DEF NoWork
  <2>. HIDE DEF state
  <2>3. work'[w] = state /\ \A v \in Workers : v # w => work'[v] = work[v]
    BY <1>1, <2>1, BecomesFields DEF state
  <2>4. AnswerFits(w)' BY <2>2, <2>3, BusyAnswers
  <2>5. runs' = runs BY <1>2 DEF Begin, tables
  <2>. QED BY <1>1, <2>3, <2>4, <2>5, OthersAnswered
<1>3. ASSUME NEW w \in Workers, Step(w) PROVE AnswerInv'
  <2>1. StepTells(w) BY <1>3, StepAnswers DEF AnswerInv
  <2>. QED BY <1>1, <1>3, <2>1, StepWritesOwn, OthersAnswered DEF StepTells
<1>4. ASSUME NEW w \in Workers, Stop(w) PROVE AnswerInv'
  <2>1. /\ Becomes(w, [work[w] EXCEPT !.pc = "idle", !.answer = "raised"])
        /\ runs' = runs
    BY <1>4 DEF Stop, tables
  <2>2. StepTells(w) BY <1>1, <2>1, IdleTells DEF Terminal, Succeeded
  <2>. QED BY <1>1, <2>1, <2>2, OthersAnswered DEF StepTells
<1>5. CASE UNCHANGED <<work, runs>>
  BY <1>5 DEF AnswerInv, AnswerFits, RunOf
<1>6. ASSUME NEW w \in Workers, LoseLock(w) PROVE AnswerInv'
  BY <1>5, <1>6 DEF LoseLock, tables
<1>7. CASE Seed BY <1>5, <1>7 DEF Seed, tables
<1>8. CASE UNCHANGED vars BY <1>5, <1>8 DEF vars, tables
<1>. QED BY <1>2, <1>3, <1>4, <1>6, <1>7, <1>8 DEF Faultless

LEMMA InitAnswerInv == Init => AnswerInv
BY DEF Init, AnswerInv, AnswerFits, NoWork, Terminal, Succeeded, None

(* The outcome a caller gets is what its run's row says ("Terminal result  *)
(* of one orchestrated pipeline attempt", :48), and a digest is stored     *)
(* when it says so, as long as no statement and no commit fails and the    *)
(* clock is not set back, though workers are killed and locks are lost:    *)
(* that a caller may be told otherwise is due to those failures alone.     *)
THEOREM AnswersStored ==
  ASSUME ~ Faults PROVE Spec => [](AnswerIsStored /\ SuccessIsStored)
<1>1. Init => AnswerInv BY InitAnswerInv
<1>2. LedgerInv /\ AnswerInv /\ [Next]_vars => AnswerInv'
  BY FaultlessAnswers DEF Faultless, Next, Fault
<1>3. LedgerInv /\ AnswerInv => AnswerIsStored /\ SuccessIsStored
  <2> SUFFICES ASSUME LedgerInv, AnswerInv PROVE AnswerIsStored /\ SuccessIsStored
    OBVIOUS
  <2>1. AnswerIsStored BY DEF AnswerInv, AnswerFits, AnswerIsStored, At
  <2>2. ASSUME NEW w \in Workers, At(w, "idle"), work[w].answer \in Succeeded
        PROVE  /\ runs[RunOf(w)] = work[w].answer
               /\ \E d \in digests : d.run = RunOf(w)
    <3>1. work[w].answer \in Terminal BY <2>2 DEF Terminal
    <3>2. RunOf(w) \in Runs /\ runs[RunOf(w)] = work[w].answer
      BY <2>2, <3>1 DEF AnswerInv, AnswerFits, At
    <3> QED BY <2>2, <3>2 DEF LedgerInv, DigestIffSuccess
  <2> QED BY <2>1, <2>2 DEF SuccessIsStored
<1>. QED BY <1>1, <1>2, <1>3, LedgerInvariant, PTL DEF Spec
-----------------------------------------------------------------------------
(* The service.                                                            *)

(* Every step of a process is a step of the pipeline or leaves it alone.   *)
LEMMA StepsImplement == ServiceNext => [Next]_vars
<1> SUFFICES ASSUME ServiceNext PROVE Next \/ UNCHANGED vars
  OBVIOUS
<1>1. ASSUME NEW w \in Workers,
             Launch(w) \/ Fire(w) \/ Command(w) \/ Advance(w) \/ Exit(w) \/ Kill(w)
      PROVE  Next \/ UNCHANGED vars
  BY <1>1 DEF Launch, Fire, Command, Calls, Advance, Stamp, Proceed, Exit, Kill, Next
<1>2. CASE Seed /\ UNCHANGED service
  BY <1>2 DEF Next
<1> QED
  BY <1>1, <1>2 DEF ServiceNext

(* Schedulers and commands, started, stopped and restarted in any order,   *)
(* run the pipeline as Pipeline specifies it.                              *)
THEOREM ImplementsPipeline == ServiceSpec => Spec
<1>1. ServiceInit => Init
  BY DEF ServiceInit
<1>2. [ServiceNext]_all => [Next]_vars
  BY StepsImplement DEF all, vars
<1> QED
  BY <1>1, <1>2, PTL DEF ServiceSpec, Spec

(* No process's step fails a statement or loses the lock's session: those  *)
(* are left to Pipeline.                                                   *)
LEMMA StepsUndisturbed == [ServiceNext]_all => Faultless /\ Held
<1> SUFFICES ASSUME [ServiceNext]_all PROVE Faultless /\ Held
  OBVIOUS
<1>1. ASSUME NEW w \in Workers,
             Launch(w) \/ Fire(w) \/ Command(w) \/ Advance(w) \/ Exit(w) \/ Kill(w)
      PROVE  Begin(w) \/ Step(w) \/ Stop(w) \/ UNCHANGED vars
  BY <1>1 DEF Launch, Fire, Command, Calls, Advance, Stamp, Proceed, Exit, Kill
<1> QED
  BY <1>1 DEF ServiceNext, Faultless, Held, all

LEMMA ServiceLedger == ServiceSpec => []LedgerInv
BY ImplementsPipeline, LedgerInvariant, PTL

LEMMA ServiceLock == ServiceSpec => []LockInv
<1>1. ServiceInit => LockInv BY DEF ServiceInit, Init, LockInv, Running, NoWork
<1>2. LedgerInv /\ LockInv /\ [ServiceNext]_all => LockInv'
  BY StepsUndisturbed, HeldLockInv DEF LedgerInv
<1> QED
  BY <1>1, <1>2, ServiceLedger, PTL DEF ServiceSpec

LEMMA ServiceAnswers == ServiceSpec => []AnswerInv
<1>1. ServiceInit => AnswerInv BY InitAnswerInv DEF ServiceInit
<1>2. LedgerInv /\ AnswerInv /\ [ServiceNext]_all => AnswerInv'
  BY StepsUndisturbed, FaultlessAnswers
<1> QED
  BY <1>1, <1>2, ServiceLedger, PTL DEF ServiceSpec

(* Whoever starts runs, and however often processes are killed and started *)
(* again, two runs never go on at a time.                                  *)
THEOREM ServiceRunsSerialize == ServiceSpec => []RunsSerialized
<1>1. LockInv => RunsSerialized BY DEF LockInv, RunsSerialized
<1> QED
  BY <1>1, ServiceLock, PTL

-----------------------------------------------------------------------------
(* A process that is not up runs nothing, and a command that exited 0 has  *)
(* the row it exited for.                                                  *)
Honest(w) ==
  w \in Commands /\ proc[w] = Exited("0") =>
    RunOf(w) \in Runs /\ runs[RunOf(w)] \in SuccessStatuses
ProcInv ==
  /\ proc \in [Workers -> Proc]
  /\ \A w \in Workers : ~ Alive(w) => At(w, "idle")
  /\ \A w \in Workers : Honest(w)

LEMMA TurnsFields ==
  ASSUME ProcInv, NEW w \in Workers, NEW state \in Proc, Turns(w, state)
  PROVE  /\ proc' \in [Workers -> Proc] /\ proc'[w] = state
         /\ \A v \in Workers : v # w => proc'[v] = proc[v]
BY DEF ProcInv, Turns

(* A step of one process leaves the others as they are.                    *)
LEMMA OthersHonest ==
  ASSUME LedgerInv, ProcInv, NEW w \in Workers,
         proc' \in [Workers -> Proc],
         \A v \in Workers : v # w => proc'[v] = proc[v] /\ work'[v] = work[v],
         \A r \in Runs : r # RunOf(w) => runs'[r] = runs[r],
         ~ Alive(w)' => At(w, "idle")', Honest(w)'
  PROVE  ProcInv'
<1>1. ASSUME NEW v \in Workers, v # w
      PROVE  (~ Alive(v) => At(v, "idle"))' /\ Honest(v)'
  <2>1. /\ proc'[v] = proc[v] /\ work'[v] = work[v] /\ RunOf(v)' = RunOf(v)
        /\ ~ Alive(v) => At(v, "idle")
        /\ Honest(v)
    BY <1>1 DEF ProcInv, RunOf
  <2>2. RunOf(v) \in Runs => runs'[RunOf(v)] = runs[RunOf(v)]
    BY <1>1, NoneNotRun DEF LedgerInv, RunsOwned
  <2>3. (~ Alive(v) => At(v, "idle"))' BY <2>1 DEF Alive, At
  <2>4. Honest(v)' BY <2>1, <2>2 DEF Honest
  <2> QED BY <2>3, <2>4
<1> QED BY <1>1 DEF ProcInv

(* Of a process that is up there is nothing to be honest about.            *)
LEMMA AliveHonest ==
  ASSUME NEW w \in Workers, Alive(w)' PROVE Honest(w)'
BY DEF Alive, Honest, Up, Exited

LEMMA LaunchHonest ==
  ASSUME LedgerInv, ProcInv, NEW w \in Workers, Launch(w) PROVE ProcInv'
<1>1. PICK state \in {Up, Exited("1")} : Turns(w, state) BY DEF Launch
<1>2. state \in Proc BY DEF Proc
<1>3. ~ Alive(w) BY DEF Launch, Alive, Down, Up
<1>4. At(w, "idle") BY <1>3 DEF ProcInv
<1>5. UNCHANGED vars BY DEF Launch
<1>6. proc'[w] = state BY <1>1, <1>2, TurnsFields
<1>7. Honest(w)' BY <1>6 DEF Honest, Up, Exited
<1>8. At(w, "idle")' BY <1>4, <1>5 DEF At, vars
<1> QED
  BY <1>1, <1>2, <1>5, <1>7, <1>8, TurnsFields, OthersHonest DEF vars, tables

LEMMA BeginHonest ==
  ASSUME LedgerInv, ProcInv, NEW w \in Workers, Alive(w), Begin(w), proc' = proc
  PROVE  ProcInv'
<1>1. \E state : Becomes(w, state) BY DEF Begin
<1>2. \A v \in Workers : v # w => work'[v] = work[v]
  BY <1>1, BecomesFields DEF LedgerInv
<1>3. runs' = runs BY DEF Begin, tables
<1>4. Alive(w)' BY DEF Alive
<1> QED BY <1>2, <1>3, <1>4, AliveHonest, OthersHonest DEF ProcInv

LEMMA StepHonest ==
  ASSUME LedgerInv, AnswerInv, ProcInv, NEW w \in Workers, Step(w), proc' = proc
  PROVE  ProcInv'
<1>1. StepTells(w) BY StepAnswers DEF AnswerInv
<1>2. ~ At(w, "idle")
  BY DEF Step, At, Skip, Insert, ReadSources, Ingest, Select, Mark, Load, Generate,
         Create, Deliver, Save, Handle, Release
<1>3. Alive(w) BY <1>2 DEF ProcInv
<1>4. Alive(w)' BY <1>3 DEF Alive
<1>5. \A r \in Runs : r # RunOf(w) => runs'[r] = runs[r]
  BY StepWritesOwn DEF LedgerInv
<1> QED
  BY <1>1, <1>4, <1>5, AliveHonest, OthersHonest DEF StepTells, ProcInv

LEMMA ExitHonest ==
  ASSUME LedgerInv, AnswerInv, ProcInv, NEW w \in Workers, Exit(w) PROVE ProcInv'
<1>. DEFINE state == Exited(ExitCode(work[w].answer))
<1>1. Turns(w, state) /\ At(w, "idle") /\ UNCHANGED vars BY DEF Exit
<1>2. state \in Proc BY DEF Proc, ExitCode
<1>3. proc'[w] = state BY <1>1, <1>2, TurnsFields
<1>4. At(w, "idle")' BY <1>1 DEF At, vars
<1>5. ASSUME work[w].answer \in SuccessStatuses
      PROVE  RunOf(w) \in Runs /\ runs[RunOf(w)] \in SuccessStatuses
  <2>1. work[w].answer \in Terminal BY <1>5 DEF SuccessStatuses, Terminal
  <2> QED BY <1>1, <1>5, <2>1 DEF AnswerInv, AnswerFits, At
<1>6. work[w].answer \notin SuccessStatuses => state # Exited("0")
  BY DEF ExitCode, Exited
<1>7. RunOf(w)' = RunOf(w) /\ runs' = runs BY <1>1 DEF vars, tables, RunOf
<1>8. Honest(w)' BY <1>3, <1>5, <1>6, <1>7 DEF Honest
<1> QED
  BY <1>1, <1>2, <1>4, <1>8, TurnsFields, OthersHonest DEF vars, tables

LEMMA KillHonest ==
  ASSUME LedgerInv, ProcInv, NEW w \in Workers, Kill(w) PROVE ProcInv'
<1>1. /\ Turns(w, Killed) /\ runs' = runs
      /\ Becomes(w, [work[w] EXCEPT !.pc = "idle", !.answer = "raised"])
  BY DEF Kill, Stop, tables
<1>2. Killed \in Proc BY DEF Proc
<1>3. proc'[w] = Killed BY <1>1, <1>2, TurnsFields
<1>4. At(w, "idle")' /\ \A v \in Workers : v # w => work'[v] = work[v]
  <2>. DEFINE state == [work[w] EXCEPT !.pc = "idle", !.answer = "raised"]
  <2>1. state.pc = "idle" BY DEF LedgerInv, TypeOK, WorkState
  <2>. HIDE DEF state
  <2>2. work'[w] = state /\ \A v \in Workers : v # w => work'[v] = work[v]
    BY <1>1, BecomesFields DEF LedgerInv, state
  <2> QED BY <2>1, <2>2 DEF At
<1>5. Honest(w)' BY <1>3 DEF Honest, Killed, Exited
<1> QED BY <1>1, <1>2, <1>4, <1>5, TurnsFields, OthersHonest

LEMMA NextProcInv ==
  LedgerInv /\ AnswerInv /\ ProcInv /\ [ServiceNext]_all => ProcInv'
<1> SUFFICES ASSUME LedgerInv, AnswerInv, ProcInv, [ServiceNext]_all PROVE ProcInv'
  OBVIOUS
<1>1. ASSUME NEW w \in Workers, Launch(w) PROVE ProcInv' BY <1>1, LaunchHonest
<1>2. ASSUME NEW w \in Workers, Fire(w) \/ Command(w) PROVE ProcInv'
  BY <1>2, BeginHonest DEF Fire, Command, Calls, service
<1>3. CASE UNCHANGED <<vars, proc>>
  BY <1>3 DEF ProcInv, Honest, Alive, At, RunOf, vars, tables
<1>4. ASSUME NEW w \in Workers, Advance(w) PROVE ProcInv'
  BY <1>3, <1>4, StepHonest DEF Advance, Stamp, Proceed, service
<1>5. ASSUME NEW w \in Workers, Exit(w) PROVE ProcInv' BY <1>5, ExitHonest
<1>6. ASSUME NEW w \in Workers, Kill(w) PROVE ProcInv' BY <1>6, KillHonest
<1>7. CASE Seed /\ UNCHANGED service
  BY <1>7 DEF Seed, service, tables, ProcInv, Honest, Alive, At, RunOf
<1>8. CASE UNCHANGED all BY <1>3, <1>8 DEF all, service
<1> QED
  BY <1>1, <1>2, <1>4, <1>5, <1>6, <1>7, <1>8 DEF ServiceNext

(* A command that exits 0 leaves a row that says its run succeeded, had no *)
(* content or was skipped (exit_code_for_run_status), and the row stays so *)
(* whatever other processes do, as long as no statement fails.             *)
THEOREM ExitCodesHonest == ServiceSpec => []ExitCodeHonest
<1>1. ServiceInit => ProcInv
  BY DEF ServiceInit, Init, ProcInv, Honest, Proc, Down, Exited, At, NoWork
<1>2. LedgerInv /\ AnswerInv /\ ProcInv /\ [ServiceNext]_all => ProcInv'
  BY NextProcInv
<1>3. ProcInv => ExitCodeHonest
  BY NoneNotRun DEF ProcInv, Honest, ExitCodeHonest, Commands
<1> QED
  BY <1>1, <1>2, <1>3, ServiceLedger, ServiceAnswers, PTL DEF ServiceSpec

-----------------------------------------------------------------------------
(* Since a run that is going on took its time, no other has had more than  *)
(* a row that says it was skipped.                                         *)
Stamped(r) == \E i \in DOMAIN started : started[i] = r
AloneSince(w) ==
  \A i, j \in DOMAIN started :
    started[i] = RunOf(w) /\ j > i => runs[started[j]] \in {None, "skipped_locked"}
StampInv ==
  /\ started \in Seq(Runs)
  /\ \A i, j \in DOMAIN started : started[i] = started[j] => i = j
  /\ \A w \in Workers : work[w].pc \notin {"idle", "insert", "skip"} => Stamped(RunOf(w))
  /\ \A w \in Workers : Running(w) => AloneSince(w)

LEMMA NewNotStamped ==
  ASSUME StampInv, NEW r PROVE IsNew(r) <=> ~ Stamped(r)
BY DEF StampInv, IsNew, Contains, Stamped

(* A worker that starts a run, or stops one, leaves the order and the rows *)
(* alone.                                                                  *)
LEMMA QuietStamps ==
  ASSUME StampInv, NEW w \in Workers, started' = started, runs' = runs,
         \A v \in Workers : v # w => work'[v] = work[v],
         \/ work'[w].pc = "idle"
         \/ work'[w].pc \in {"insert", "skip"} /\ ~ Stamped(work'[w].run)
  PROVE  StampInv'
<1>1. ASSUME NEW v \in Workers, v # w
      PROVE  /\ (work[v].pc \notin {"idle", "insert", "skip"} => Stamped(RunOf(v)))'
             /\ (Running(v) => AloneSince(v))'
  BY <1>1 DEF StampInv, Stamped, Running, AloneSince, RunOf
<1>2. (work[w].pc \notin {"idle", "insert", "skip"} => Stamped(RunOf(w)))'
  OBVIOUS
<1>3. (Running(w) => AloneSince(w))' BY DEF Running, AloneSince, Stamped, RunOf
<1> QED BY <1>1, <1>2, <1>3 DEF StampInv

LEMMA CallStamps ==
  ASSUME TypeOK, StampInv, NEW w \in Workers, NEW triggers, Calls(w, triggers),
         started' = started
  PROVE  StampInv'
<1>1. PICK r \in Runs, trigger \in Triggers :
        Becomes(w, [NoWork EXCEPT !.pc = IF holder = None THEN "insert" ELSE "skip",
                                  !.run = r, !.trigger = trigger])
  BY DEF Calls, Begin
<1>. DEFINE state == [NoWork EXCEPT !.pc = IF holder = None THEN "insert" ELSE "skip",
                                    !.run = r, !.trigger = trigger]
<1>2. state.pc \in {"insert", "skip"} BY DEF NoWork
<1>. HIDE DEF state
<1>3. work'[w] = state /\ \A v \in Workers : v # w => work'[v] = work[v]
  BY <1>1, BecomesFields DEF state
<1>4. work'[w].run \in Unused BY DEF Calls
<1>5. ~ Stamped(work'[w].run) BY <1>4, NewNotStamped DEF Unused
<1>6. runs' = runs BY DEF Calls, Begin, tables
<1> QED BY <1>2, <1>3, <1>5, <1>6, QuietStamps

LEMMA StampStamps ==
  ASSUME LedgerInv, StampInv, NEW w \in Workers, Stamp(w) PROVE StampInv'
<1>1. /\ work[w].pc \in {"insert", "skip"} /\ ~ Stamped(RunOf(w))
      /\ started' = Append(started, RunOf(w)) /\ work' = work /\ runs' = runs
  BY NewNotStamped DEF Stamp, vars, tables
<1>2. RunOf(w) \in Runs /\ runs[RunOf(w)] = None
  BY <1>1 DEF LedgerInv, Fits, RowFits
<1>3. started \in Seq(Runs) BY DEF StampInv
<1>4. started' \in Seq(Runs) BY <1>1, <1>2, <1>3
<1>5. /\ DOMAIN started = 1 .. Len(started) /\ Len(started) \in Nat
      /\ DOMAIN started' = 1 .. (Len(started) + 1)
      /\ \A i \in DOMAIN started : started'[i] = started[i]
      /\ started'[Len(started) + 1] = RunOf(w)
  BY <1>1, <1>2, <1>3
<1>6. \A i, j \in DOMAIN started' : started'[i] = started'[j] => i = j
  BY <1>1, <1>5 DEF StampInv, Stamped
<1>7. ASSUME NEW v \in Workers, work'[v].pc \notin {"idle", "insert", "skip"}
      PROVE  Stamped(RunOf(v))'
  <2>1. Stamped(RunOf(v)) /\ RunOf(v)' = RunOf(v) BY <1>1, <1>7 DEF StampInv, RunOf
  <2> QED BY <1>5, <2>1 DEF Stamped
<1>8. ASSUME NEW v \in Workers, Running(v)' PROVE AloneSince(v)'
  <2>1. AloneSince(v) /\ RunOf(v)' = RunOf(v) BY <1>1, <1>8 DEF StampInv, Running, RunOf
  <2>2. ASSUME NEW i \in DOMAIN started', NEW j \in DOMAIN started',
               started'[i] = RunOf(v)', j > i
        PROVE  runs'[started'[j]] \in {None, "skipped_locked"}
    <3>1. i \in DOMAIN started /\ started'[i] = started[i] BY <1>5, <2>2
    <3>2. CASE j \in DOMAIN started
      BY <1>1, <1>5, <2>1, <2>2, <3>1, <3>2 DEF AloneSince
    <3>3. CASE j = Len(started) + 1 BY <1>1, <1>2, <1>5, <3>3
    <3> QED BY <1>5, <3>2, <3>3
  <2> QED BY <2>2 DEF AloneSince
<1> QED BY <1>4, <1>6, <1>7, <1>8 DEF StampInv

(* While one worker runs, another can at most leave a row that says it     *)
(* skipped its run.                                                        *)
LEMMA OthersSkip ==
  ASSUME TypeOK, LockInv, NEW w \in Workers, Step(w),
         NEW v \in Workers, v # w, Running(v), NEW r \in Runs
  PROVE  runs'[r] = runs[r] \/ runs'[r] = "skipped_locked"
<1>1. ~ Running(w) BY DEF LockInv
<1>2. Skip(w)
  BY <1>1
  DEF Step, Running, At, Insert, ReadSources, Ingest, Select, Mark, Load, Generate,
      Create, Deliver, Save, Handle, Release
<1> QED BY <1>2 DEF Skip, TypeOK

LEMMA ProceedStamps ==
  ASSUME LedgerInv, AnswerInv, LockInv, StampInv, NEW w \in Workers, Proceed(w)
  PROVE  StampInv'
<1>1. TypeOK /\ Step(w) /\ started' = started BY DEF LedgerInv, Proceed, service
<1>2. StepTells(w) BY <1>1, StepAnswers DEF AnswerInv
<1>3. /\ \A v \in Workers : v # w => work'[v] = work[v]
      /\ work'[w].run = RunOf(w)
  BY <1>2 DEF StepTells
<1>4. \A r \in Runs : r # RunOf(w) => runs'[r] = runs[r] BY <1>1, StepWritesOwn
<1>5. work[w].pc # "idle"
  BY <1>1
  DEF Step, At, Skip, Insert, ReadSources, Ingest, Select, Mark, Load, Generate,
      Create, Deliver, Save, Handle, Release
<1>6. Stamped(RunOf(w)) BY <1>5, NewNotStamped DEF Proceed, StampInv
<1>7. Running(w)' => Running(w)
  <2>1. CASE Skip(w)
    <3>1. Becomes(w, [work[w] EXCEPT !.pc = "idle", !.answer = "skipped_locked"])
      BY <2>1 DEF Skip
    <3> QED BY <1>1, <3>1, IdleStops
  <2>2. CASE ~ Skip(w)
    BY <1>1, <2>2
    DEF Step, Running, At, Insert, ReadSources, Ingest, Select, Mark, Load,
        Generate, Create, Deliver, Save, Handle, Release
  <2> QED BY <2>1, <2>2
<1>8. \A i \in DOMAIN started : started[i] \in Runs BY DEF StampInv
<1>9. ASSUME NEW v \in Workers, work'[v].pc \notin {"idle", "insert", "skip"}
      PROVE  Stamped(RunOf(v))'
  <2>1. RunOf(v)' = RunOf(v) BY <1>3 DEF RunOf
  <2>2. Stamped(RunOf(v)) BY <1>3, <1>6, <1>9 DEF StampInv
  <2> QED BY <1>1, <2>1, <2>2 DEF Stamped
<1>10. ASSUME NEW v \in Workers, Running(v)' PROVE AloneSince(v)'
  <2>1. RunOf(v)' = RunOf(v) BY <1>3 DEF RunOf
  <2>2. Running(v) BY <1>3, <1>7, <1>10 DEF Running
  <2>3. AloneSince(v) BY <2>2 DEF StampInv
  <2>4. ASSUME NEW i \in DOMAIN started, NEW j \in DOMAIN started,
               started[i] = RunOf(v), j > i
        PROVE  runs'[started[j]] \in {None, "skipped_locked"}
    <3>1. runs[started[j]] \in {None, "skipped_locked"} BY <2>3, <2>4 DEF AloneSince
    <3>2. CASE v = w
      <4>1. started[j] # RunOf(w)
        <5>1. i # j BY <1>1, <2>4 DEF StampInv
        <5> QED BY <2>4, <3>2, <5>1 DEF StampInv
      <4> QED BY <1>4, <1>8, <3>1, <4>1
    <3>3. CASE v # w
      <4>1. runs'[started[j]] = runs[started[j]] \/ runs'[started[j]] = "skipped_locked"
        BY <1>1, <1>8, <2>2, <3>3, OthersSkip
      <4> QED BY <3>1, <4>1
    <3> QED BY <3>2, <3>3
  <2> QED BY <1>1, <2>1, <2>4 DEF AloneSince
<1> QED BY <1>1, <1>9, <1>10 DEF StampInv

LEMMA KillStamps ==
  ASSUME TypeOK, StampInv, NEW w \in Workers, Kill(w) PROVE StampInv'
<1>. DEFINE state == [work[w] EXCEPT !.pc = "idle", !.answer = "raised"]
<1>1. Becomes(w, state) /\ runs' = runs /\ started' = started BY DEF Kill, Stop, tables
<1>2. state.pc = "idle" BY DEF TypeOK, WorkState
<1>. HIDE DEF state
<1>3. work'[w].pc = "idle" /\ \A v \in Workers : v # w => work'[v] = work[v]
  BY <1>1, <1>2, BecomesFields
<1> QED BY <1>1, <1>3, QuietStamps

LEMMA NextStampInv ==
  LedgerInv /\ AnswerInv /\ LockInv /\ StampInv /\ [ServiceNext]_all => StampInv'
<1> SUFFICES ASSUME LedgerInv, AnswerInv, LockInv, StampInv, [ServiceNext]_all
             PROVE  StampInv'
  OBVIOUS
<1>1. TypeOK BY DEF LedgerInv
<1>2. CASE UNCHANGED <<runs, work, started>>
  BY <1>2 DEF StampInv, Stamped, AloneSince, Running, RunOf
<1>3. ASSUME NEW w \in Workers, Launch(w) \/ Exit(w) PROVE StampInv'
  BY <1>2, <1>3 DEF Launch, Exit, vars, tables
<1>4. ASSUME NEW w \in Workers, Fire(w) \/ Command(w) PROVE StampInv'
  BY <1>1, <1>4, CallStamps DEF Fire, Command, service
<1>5. ASSUME NEW w \in Workers, Advance(w) PROVE StampInv'
  BY <1>5, StampStamps, ProceedStamps DEF Advance
<1>6. ASSUME NEW w \in Workers, Kill(w) PROVE StampInv' BY <1>1, <1>6, KillStamps
<1>7. CASE Seed /\ UNCHANGED service BY <1>2, <1>7 DEF Seed, service, tables
<1>8. CASE UNCHANGED all BY <1>2, <1>8 DEF all, service, vars, tables
<1> QED
  BY <1>3, <1>4, <1>5, <1>6, <1>7, <1>8 DEF ServiceNext

(* A run after the reported one has no row, so one with a row came first.  *)
LEMMA LastIsCurrent ==
  ASSUME LedgerInv, StampInv PROVE StatusIsCurrent
<1> SUFFICES ASSUME NEW r \in Runs, Reports(r), runs[r] \in Terminal \ {"skipped_locked"},
                    NEW w \in Workers, ~ At(w, "idle"), runs[RunOf(w)] = "running"
             PROVE  FALSE
  BY DEF StatusIsCurrent
<1>1. started \in Seq(Runs) BY DEF StampInv
<1>2. PICK i \in DOMAIN started :
        /\ started[i] = r
        /\ \A j \in DOMAIN started : j > i => runs[started[j]] = None
  BY DEF Reports
<1>3. work[w].pc \notin {"idle", "insert", "skip"}
  BY DEF At, LedgerInv, Fits, RowFits, None
<1>4. PICK k \in DOMAIN started : started[k] = RunOf(w) BY <1>3 DEF StampInv, Stamped
<1>5. AloneSince(w) BY <1>3 DEF StampInv, Running
<1>6. i \in Nat /\ k \in Nat BY <1>1
<1>7. CASE k > i BY <1>2, <1>4, <1>7 DEF None
<1>8. CASE k = i BY <1>2, <1>4, <1>8 DEF Terminal, Succeeded
<1>9. CASE i > k BY <1>2, <1>4, <1>5, <1>9 DEF AloneSince, Terminal, Succeeded, None
<1> QED BY <1>6, <1>7, <1>8, <1>9

(* The run that GET /status reports as the last one (get_latest): once it  *)
(* has finished, and was not skipped, there is no run with a row still     *)
(* going on, because a run takes its time under the lock and those it      *)
(* keeps out are marked so.                                                *)
THEOREM StatusCurrent == ServiceSpec => []StatusIsCurrent
<1>1. ServiceInit => StampInv
  BY DEF ServiceInit, Init, StampInv, Running, NoWork
<1>2. LedgerInv /\ AnswerInv /\ LockInv /\ StampInv /\ [ServiceNext]_all => StampInv'
  BY NextStampInv
<1>3. LedgerInv /\ StampInv => StatusIsCurrent BY LastIsCurrent
<1> QED
  BY <1>1, <1>2, <1>3, ServiceLedger, ServiceAnswers, ServiceLock, PTL DEF ServiceSpec
=============================================================================
