------------------------------ MODULE Pipeline ------------------------------
(***************************************************************************)
(* Digest runs, after DigestPipelineService (app/application/pipeline.py): *)
(* take the advisory lock, ingest feeds, select candidates, let the model  *)
(* write a digest, store it together with the run's result, deliver it.    *)
(*                                                                         *)
(* A worker is a process that may run the pipeline: the scheduler, or      *)
(* somebody's `run-digest`.  Every database transaction is one atomic      *)
(* step.  What the worker holds in memory (the run object, the candidates) *)
(* is in work[w]; the tables are runs, item and digests.                   *)
(*                                                                         *)
(* Left to modules of their own: what ingestion stores of a feed           *)
(* (Ingestion), and delivery (DigestDelivery), here one step that answers  *)
(* or raises.  Left open: which articles a feed offers, which of them are  *)
(* recent, how they score and what the model chooses.                      *)
(***************************************************************************)
EXTENDS Naturals, FiniteSets

CONSTANTS
  Workers,       (* processes that may run the pipeline                    *)
  Runs,          (* run identifiers: one per run, so they bound the runs   *)
  Articles,
  Sources,
  SourceOf,      (* article -> source                                      *)
  Unfit,         (* articles score_item refuses: too short, excluded word  *)
  MaxPerSource,  (* MAX_ITEMS_PER_SOURCE                                   *)
  MaxCandidates, (* settings.max_llm_candidates                            *)
  MinItems,      (* settings.min_digest_items                              *)
  MaxItems,      (* settings.digest_top_articles or max_digest_items       *)
  Triggers,      (* of "scheduled", "manual", "dry_run"                    *)
  Faults,        (* may a statement or commit fail, or the clock go back   *)
  Stops,         (* may a worker be killed or cancelled                    *)
  LockLosses     (* may the connection that holds the lock die             *)

ASSUME ArticleAssumption ==
  /\ SourceOf \in [Articles -> Sources]
  /\ Unfit \subseteq Articles
  /\ IsFiniteSet(Articles)
ASSUME LimitAssumption ==
  /\ MaxPerSource \in Nat \ {0} /\ MaxCandidates \in Nat \ {0}
  /\ MinItems \in Nat \ {0} /\ MaxItems \in Nat \ {0}
  /\ Triggers \subseteq {"scheduled", "manual", "dry_run"}
  /\ {Faults, Stops, LockLosses} \subseteq BOOLEAN

None == "none"
ASSUME NoneAssumption == None \notin Workers \cup Runs

VARIABLES
  holder,  (* the worker whose connection holds the advisory lock, or None *)
  runs,    (* pipeline_runs.status, None when there is no row              *)
  item,    (* news_items.status, "absent" when there is no row             *)
  digests, (* digests with their items                                     *)
  enabled, (* sources.enabled                                              *)
  work     (* per worker: the locals of its run call                       *)

tables == <<runs, item, digests>>
vars   == <<holder, runs, item, digests, enabled, work>>

Succeeded  == {"success", "partial_success"}
Terminal   == Succeeded \cup {"no_content", "failed", "skipped_locked"}
RunStatus  == {"running"} \cup Terminal
ItemStatus == {"absent", "collected", "candidate", "used", "ignored"}

Location ==
  {"idle", "skip", "insert", "sources", "ingest", "select", "mark", "load",
   "generate", "create", "deliver", "save", "handler", "release"}

(* run.status in memory is kept in known, what the caller gets in answer.  *)
WorkState ==
  [pc: Location, run: Runs \cup {None}, trigger: Triggers \cup {None},
   known: RunStatus, feeds: SUBSET Sources, feedFailed: BOOLEAN,
   chosen: SUBSET Articles, rejected: SUBSET Articles, fresh: SUBSET Articles,
   picked: SUBSET Articles, answer: Terminal \cup {None, "raised"}]

NoWork ==
  [pc |-> "idle", run |-> None, trigger |-> None, known |-> "running",
   feeds |-> {}, feedFailed |-> FALSE, chosen |-> {}, rejected |-> {},
   fresh |-> {}, picked |-> {}, answer |-> None]

Init ==
  /\ holder = None
  /\ runs = [r \in Runs |-> None]
  /\ item = [a \in Articles |-> "absent"]
  /\ digests = {}
  /\ enabled \in SUBSET Sources
  /\ work = [w \in Workers |-> NoWork]

-----------------------------------------------------------------------------
At(w, loc) == work[w].pc = loc
Becomes(w, state) == work' = [work EXCEPT ![w] = state]
Goto(w, loc) == Becomes(w, [work[w] EXCEPT !.pc = loc])

RunOf(w) == work[w].run

(* What is left of the locals when the run goes to loc with its result.    *)
Left(w, loc, status) ==
  [NoWork EXCEPT !.pc = loc, !.run = RunOf(w), !.trigger = work[w].trigger,
                 !.known = status]

(* The run object is completed in memory and still has to be saved.        *)
Complete(w, status) == Becomes(w, Left(w, "save", status))

Raise(w) == Becomes(w, Left(w, "handler", work[w].known))

(* run() has its outcome, or raises: what is left is to unlock.            *)
Answer(w, outcome) ==
  Becomes(w, [Left(w, "release", work[w].known) EXCEPT !.answer = outcome])

Having(status) == {a \in Articles : item[a] = status}
Published == UNION {d.items : d \in digests}

-----------------------------------------------------------------------------
(* Mutant: go on without the lock.                                         *)
MutantBeginAnyway(w) ==
  /\ At(w, "idle")
  /\ \E r \in Runs, trigger \in Triggers :
       /\ runs[r] = None
       /\ \A v \in Workers : RunOf(v) # r
       /\ Becomes(w, [NoWork EXCEPT !.pc = "insert", !.run = r, !.trigger = trigger])
  /\ holder' = IF holder = None THEN w ELSE holder
  /\ UNCHANGED <<tables, enabled>>

(* run(): try the lock, then either leave a row that says so or start.     *)
Begin(w) ==
  /\ At(w, "idle")
  /\ \E r \in Runs, trigger \in Triggers :
       /\ runs[r] = None
       /\ \A v \in Workers : RunOf(v) # r
       /\ Becomes(w, [NoWork EXCEPT !.pc = IF holder = None THEN "insert" ELSE "skip",
                                    !.run = r, !.trigger = trigger])
  /\ holder' = IF holder = None THEN w ELSE holder
  /\ UNCHANGED <<tables, enabled>>

Skip(w) ==
  /\ At(w, "skip")
  /\ runs' = [runs EXCEPT ![RunOf(w)] = "skipped_locked"]
  /\ Becomes(w, [work[w] EXCEPT !.pc = "idle", !.answer = "skipped_locked"])
  /\ UNCHANGED <<holder, item, digests, enabled>>

Insert(w) ==
  /\ At(w, "insert")
  /\ runs' = [runs EXCEPT ![RunOf(w)] = "running"]
  /\ Goto(w, "sources")
  /\ UNCHANGED <<holder, item, digests, enabled>>

ReadSources(w) ==
  /\ At(w, "sources")
  /\ IF enabled = {}
       THEN Complete(w, "no_content")
       ELSE Becomes(w, [work[w] EXCEPT !.pc = "ingest", !.feeds = enabled])
  /\ UNCHANGED <<holder, tables, enabled>>

(* One source is ingested in one transaction, or its feed fails; an entry  *)
(* that matches two stored articles or a source changed meanwhile raises.  *)
Ingest(w) ==
  /\ At(w, "ingest")
  /\ \E s \in work[w].feeds :
       LET rest == work[w].feeds \ {s}
           next == IF rest = {} THEN "select" ELSE "ingest"
       IN  \/ /\ \E new \in SUBSET {a \in Having("absent") : SourceOf[a] = s} :
                   item' = [a \in Articles |-> IF a \in new THEN "collected" ELSE item[a]]
              /\ Becomes(w, [work[w] EXCEPT !.pc = next, !.feeds = rest])
           \/ /\ Becomes(w, [work[w] EXCEPT !.pc = next, !.feeds = rest, !.feedFailed = TRUE])
              /\ UNCHANGED item
           \/ Raise(w) /\ UNCHANGED item
  /\ UNCHANGED <<holder, runs, digests, enabled>>

-----------------------------------------------------------------------------
OfSource(chosen, s) == {a \in chosen : SourceOf[a] = s}

(* Mutant: the cap is tested after the article was taken.                  *)
MutantSelections(scored) ==
  {chosen \in SUBSET scored :
     /\ Cardinality(chosen) <= MaxCandidates
     /\ \A s \in Sources : Cardinality(OfSource(chosen, s)) <= MaxPerSource + 1}

(* select_candidates walks the articles by score and takes what the caps   *)
(* leave room for: whatever the scores, a selection within the caps to     *)
(* which no scored article can be added.                                   *)
Selections(scored) ==
  {chosen \in SUBSET scored :
     /\ Cardinality(chosen) <= MaxCandidates
     /\ \A s \in Sources : Cardinality(OfSource(chosen, s)) <= MaxPerSource
     /\ \A a \in scored \ chosen :
          \/ Cardinality(chosen) = MaxCandidates
          \/ Cardinality(OfSource(chosen, SourceOf[a])) = MaxPerSource}

(* Articles whose source is disabled, that score_item finds unfit, or that *)
(* have grown too old since the query.                                     *)
Rejected(eligible, old) ==
  {a \in eligible : SourceOf[a] \notin enabled \/ a \in Unfit \cup old}

(* Stored articles that are recent enough and within the query's limit.    *)
(* Of the rejected ones only those COLLECTED will be put aside.            *)
Select(w) ==
  /\ At(w, "select")
  /\ \E eligible \in SUBSET (Having("collected") \cup Having("candidate")) :
     \E old \in SUBSET eligible :
       LET rejected == Rejected(eligible, old)
       IN  \E chosen \in Selections(eligible \ rejected) :
             Becomes(w, [work[w] EXCEPT !.pc = "mark", !.chosen = chosen,
                                        !.rejected = rejected \cap Having("collected"),
                                        !.fresh = chosen \cap Having("collected")])
  /\ UNCHANGED <<holder, tables, enabled>>

(* What Mark puts aside is read again in its transaction; what it marks    *)
(* was COLLECTED when it was selected and must still be.                   *)
MutantIgnorable(w) == work[w].rejected
MutantMarkable(w)  == work[w].fresh \subseteq Articles

Ignorable(w) == work[w].rejected \cap Having("collected")
Markable(w)  == work[w].fresh \subseteq Having("collected")

(* One transaction: an illegal transition rolls all of it back.  So does   *)
(* an article that another run takes between the unlocked look at it and   *)
(* the locked transition.                                                  *)
Mark(w) ==
  /\ At(w, "mark")
  /\ \/ /\ Markable(w)
        /\ item' = [a \in Articles |->
                       IF a \in Ignorable(w) THEN "ignored"
                       ELSE IF a \in work[w].fresh THEN "candidate" ELSE item[a]]
        /\ IF Cardinality(work[w].chosen) < MinItems
             THEN Complete(w, "no_content")
             ELSE Becomes(w, [work[w] EXCEPT !.pc = "load", !.rejected = {},
                                             !.fresh = {}])
     \/ /\ ~ Markable(w) \/ Ignorable(w) # work[w].rejected
        /\ Raise(w) /\ UNCHANGED item
  /\ UNCHANGED <<holder, runs, digests, enabled>>

(* The candidates as the model's answer will be validated against.         *)
Load(w) ==
  /\ At(w, "load")
  /\ Becomes(w, [work[w] EXCEPT !.pc = "generate",
                                !.fresh = work[w].chosen \cap Having("candidate")])
  /\ UNCHANGED <<holder, tables, enabled>>

Least(m, n) == IF m <= n THEN m ELSE n
Desired(w)  == Least(MaxItems, Cardinality(work[w].chosen))

(* Mutant: a failed model call ends the run without saving it.             *)
MutantGenerate(w) ==
  /\ At(w, "generate")
  /\ \/ \E picked \in SUBSET work[w].fresh :
          /\ Cardinality(picked) \in Least(MinItems, Desired(w)) .. Desired(w)
          /\ Becomes(w, [work[w] EXCEPT !.pc = "create", !.picked = picked,
                                     !.chosen = {}, !.fresh = {}])
     \/ Answer(w, "failed")
     \/ Raise(w)
  /\ UNCHANGED <<holder, tables, enabled>>

(* generate_validated_digest: a digest, an LlmError, or another exception  *)
(* (a digest that Telegram's limit does not let split).                    *)
Generate(w) ==
  /\ At(w, "generate")
  /\ \/ \E picked \in SUBSET work[w].fresh :
          /\ Cardinality(picked) \in Least(MinItems, Desired(w)) .. Desired(w)
          /\ Becomes(w, [work[w] EXCEPT !.pc = "create", !.picked = picked,
                                     !.chosen = {}, !.fresh = {}])
     \/ Complete(w, "failed")
     \/ Raise(w)
  /\ UNCHANGED <<holder, tables, enabled>>

Result(w) == IF work[w].feedFailed THEN "partial_success" ELSE "success"

(* create_generated: the articles are locked and must still be CANDIDATE;  *)
(* the digest is stored and they are used up.                              *)
MutantStillCandidates(w) == work[w].picked \subseteq Articles
MutantUseUp(w)           == item' = item

StillCandidates(w) == work[w].picked \subseteq Having("candidate")
UseUp(w) == item' = [a \in Articles |-> IF a \in work[w].picked THEN "used" ELSE item[a]]

(* The digest and the run's result are committed in one transaction.       *)
Create(w) ==
  /\ At(w, "create")
  /\ IF StillCandidates(w)
       THEN /\ digests' = digests \cup {[run |-> RunOf(w), items |-> work[w].picked]}
            /\ UseUp(w)
            /\ runs' = [runs EXCEPT ![RunOf(w)] = Result(w)]
            /\ Becomes(w, Left(w, "deliver", Result(w)))
       ELSE Raise(w) /\ UNCHANGED tables
  /\ UNCHANGED <<holder, enabled>>

(* Not after a dry run or with Telegram disabled; deliver may raise.       *)
Deliver(w) ==
  /\ At(w, "deliver")
  /\ \/ Answer(w, work[w].known)
     \/ work[w].trigger # "dry_run" /\ Raise(w)
  /\ UNCHANGED <<holder, tables, enabled>>

-----------------------------------------------------------------------------
(* Mutant: a run without content is answered but not saved.                *)
MutantSave(w) ==
  /\ At(w, "save")
  /\ runs' = IF work[w].known = "no_content" THEN runs
             ELSE [runs EXCEPT ![RunOf(w)] = work[w].known]
  /\ Answer(w, work[w].known)
  /\ UNCHANGED <<holder, item, digests, enabled>>

Save(w) ==
  /\ At(w, "save")
  /\ runs' = [runs EXCEPT ![RunOf(w)] = work[w].known]
  /\ Answer(w, work[w].known)
  /\ UNCHANGED <<holder, item, digests, enabled>>

(* Mutants: fail the run whatever it is; answer it without failing it.     *)
MutantHandleAny(w) ==
  /\ At(w, "handler")
  /\ runs' = [runs EXCEPT ![RunOf(w)] = "failed"]
  /\ Answer(w, "failed")
  /\ UNCHANGED <<holder, item, digests, enabled>>

MutantHandleNone(w) ==
  /\ At(w, "handler")
  /\ Answer(w, work[w].known)
  /\ UNCHANGED <<holder, tables, enabled>>

(* except Exception: a run that is RUNNING in memory is failed and saved,  *)
(* any other is answered as it is.                                         *)
Handle(w) ==
  /\ At(w, "handler")
  /\ IF work[w].known = "running"
       THEN /\ runs' = [runs EXCEPT ![RunOf(w)] = "failed"]
            /\ Answer(w, "failed")
       ELSE /\ Answer(w, work[w].known)
            /\ UNCHANGED runs
  /\ UNCHANGED <<holder, item, digests, enabled>>

(* Mutant: the early return of a run without content does not unlock.      *)
MutantRelease(w) ==
  /\ At(w, "release")
  /\ Becomes(w, [work[w] EXCEPT !.pc = "idle"])
  /\ holder' = IF holder = w /\ work[w].answer # "no_content" THEN None ELSE holder
  /\ UNCHANGED <<tables, enabled>>

(* Unlocking over a connection that died raises out of the finally block.  *)
Release(w) ==
  /\ At(w, "release")
  /\ Becomes(w, [work[w] EXCEPT !.pc = "idle",
                                !.answer = IF holder = w THEN @ ELSE "raised"])
  /\ holder' = IF holder = w THEN None ELSE holder
  /\ UNCHANGED <<tables, enabled>>

-----------------------------------------------------------------------------
(* A statement or a commit fails: the transaction is rolled back and the   *)
(* exception goes to the handler.  When the commit of the digest fails the *)
(* run object is completed already (:282-285).  Completing it raises, and  *)
(* leaves it RUNNING, if the clock was set back before the run's start.    *)
Fault(w) ==
  /\ Faults
  /\ \/ /\ work[w].pc \in {"sources", "ingest", "select", "mark", "load", "create", "save"}
        /\ \E known \in {work[w].known}
                          \cup (IF At(w, "create") THEN {Result(w)} ELSE {})
                          \cup (IF At(w, "save") THEN {"running"} ELSE {}) :
             Becomes(w, Left(w, "handler", known))
     \/ /\ At(w, "insert") \/ (At(w, "handler") /\ work[w].known = "running")
        /\ Answer(w, "raised")
     \/ /\ At(w, "skip")
        /\ Becomes(w, [work[w] EXCEPT !.pc = "idle", !.answer = "raised"])
  /\ UNCHANGED <<holder, tables, enabled>>

(* The process dies, or the task is cancelled, which `except Exception`    *)
(* does not catch: no row is written, and its connections are closed.      *)
Stop(w) ==
  /\ Stops
  /\ ~ At(w, "idle")
  /\ Becomes(w, [work[w] EXCEPT !.pc = "idle", !.answer = "raised"])
  /\ holder' = IF holder = w THEN None ELSE holder
  /\ UNCHANGED <<tables, enabled>>

(* The server drops the session of the lock; the run does not notice.      *)
LoseLock(w) ==
  /\ LockLosses
  /\ holder = w
  /\ holder' = None
  /\ UNCHANGED <<tables, enabled, work>>

(* seed-sources enables or disables a source.                              *)
Seed ==
  /\ \E s \in Sources :
       enabled' = IF s \in enabled THEN enabled \ {s} ELSE enabled \cup {s}
  /\ UNCHANGED <<holder, tables, work>>

Step(w) ==
  \/ Skip(w) \/ Insert(w) \/ ReadSources(w) \/ Ingest(w) \/ Select(w) \/ Mark(w)
  \/ Load(w) \/ Generate(w) \/ Create(w) \/ Deliver(w) \/ Save(w) \/ Handle(w)
  \/ Release(w)

Next ==
  \/ \E w \in Workers : Begin(w) \/ Step(w) \/ Fault(w) \/ Stop(w) \/ LoseLock(w)
  \/ Seed

Spec == Init /\ [][Next]_vars

-----------------------------------------------------------------------------
TypeOK ==
  /\ holder \in Workers \cup {None}
  /\ runs \in [Runs -> RunStatus \cup {None}]
  /\ item \in [Articles -> ItemStatus]
  /\ digests \subseteq [run: Runs, items: SUBSET Articles]
  /\ enabled \subseteq Sources
  /\ work \in [Workers -> WorkState]

(* Between taking and giving back the lock.                                *)
Running(w) == work[w].pc \notin {"idle", "skip"}

(* An article is USED exactly when a stored digest contains it: never      *)
(* consumed without being published, never published and still available   *)
(* (README.md:219, create_generated).                                      *)
UsedIffPublished == Having("used") = Published

(* No article is in two digests, even when two runs overlap because the    *)
(* lock was lost: create_generated locks and re-checks the candidates.     *)
PublishedOnce ==
  \A d, e \in digests : d # e => d.run # e.run /\ d.items \cap e.items = {}

(* A run's row says it succeeded exactly when its digest is stored: the    *)
(* two are committed together (:278-285).                                  *)
DigestIffSuccess ==
  \A r \in Runs : runs[r] \in Succeeded <=> \E d \in digests : d.run = r

(* A digest keeps to the caps of selection and to the limits on its size,  *)
(* whatever was stored, disabled or used up while the run was going on.    *)
DigestWithinLimits ==
  \A d \in digests :
    /\ d.items \cap Unfit = {}
    /\ Cardinality(d.items) \in Least(MinItems, MaxItems) .. Least(MaxItems, MaxCandidates)
    /\ \A s \in Sources : Cardinality(OfSource(d.items, s)) <= MaxPerSource

(* "Concurrent runs are serialized with a PostgreSQL advisory lock"        *)
(* (README.md:68): at most one worker is between lock and unlock.          *)
RunsSerialized == \A v, w \in Workers : Running(v) /\ Running(w) => v = w

(* The outcome a caller gets, and the exit code made of it, is what the    *)
(* run's row says ("Terminal result of one orchestrated pipeline attempt", *)
(* :48).                                                                   *)
AnswerIsStored ==
  \A w \in Workers :
    At(w, "idle") /\ work[w].answer \in Terminal => runs[RunOf(w)] = work[w].answer

(* A caller who is told that a digest was published ("Terminal result of   *)
(* one orchestrated pipeline attempt", :48) finds it, and a row that says  *)
(* so.                                                                     *)
SuccessIsStored ==
  \A w \in Workers :
    At(w, "idle") /\ work[w].answer \in Succeeded =>
      /\ runs[RunOf(w)] = work[w].answer
      /\ \E d \in digests : d.run = RunOf(w)

(* USED and IGNORED are final, whatever runs overlap.                      *)
FinalStatusKept ==
  [][\A a \in Articles : item[a] \in {"used", "ignored"} => item'[a] = item[a]]_item

(* The promise about articles, over any number of runs.                    *)
Ledger ==
  INSTANCE ArticleLedger WITH published <- digests, ignored <- Having("ignored")
KeepsLedger == Ledger!Spec
=============================================================================
