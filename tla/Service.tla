------------------------------ MODULE Service ------------------------------
(***************************************************************************)
(* The processes around the pipeline and what they show of it: the         *)
(* scheduler (app/scheduler/service.py) that starts a run per firing until *)
(* it is told to stop, the `run-digest` command (app/cli/app.py) that runs *)
(* once and makes an exit code of the outcome, and GET /status             *)
(* (app/api/main.py), which reports the run that started last.             *)
(*                                                                         *)
(* Composed with Pipeline: a process is a worker, and every step of its    *)
(* run is a step of that module.  External: APScheduler, which skips a     *)
(* firing while the job runs (max_instances=1) and cancels the job when it *)
(* is shut down; docker, which restarts the scheduler.                     *)
(***************************************************************************)
EXTENDS Pipeline, Sequences, SequencesExt

CONSTANT Servers  (* the workers that are schedulers; the others commands  *)
ASSUME ServerAssumption == Servers \subseteq Workers

VARIABLES
  proc,    (* per process: its stage and, once it has exited, its code     *)
  started  (* the runs that have a started_at, in its order                *)

service == <<proc, started>>
all     == <<vars, service>>

Down   == [stage |-> "down", code |-> None]
Up     == [stage |-> "up", code |-> None]
Killed == [stage |-> "stopped", code |-> None]
Exited(code) == [stage |-> "exited", code |-> code]

Proc == {Down, Up, Killed} \cup {Exited(code) : code \in {"0", "1"}}

ServiceInit ==
  /\ Init
  /\ proc = [w \in Workers |-> Down]
  /\ started = <<>>

-----------------------------------------------------------------------------
Alive(w) == proc[w] = Up
Turns(w, state) == proc' = [proc EXCEPT ![w] = state]
Commands == Workers \ Servers

(* _SUCCESS_STATUSES, and the exit code made of a run's status.            *)
SuccessStatuses == Succeeded \cup {"no_content", "skipped_locked"}
ExitCode(outcome) == IF outcome \in SuccessStatuses THEN "0" ELSE "1"

(* Settings that do not validate end a command, as do disabled manual      *)
(* runs; a scheduler that they end or that was stopped is started again.   *)
Launch(w) ==
  /\ proc[w] = Down \/ (w \in Servers /\ ~ Alive(w))
  /\ Turns(w, Up) \/ (w \in Commands /\ Turns(w, Exited("1")))
  /\ UNCHANGED <<vars, started>>

IsNew(r) == ~ Contains(started, r)

(* Which identifier a run gets does not matter: the next one.              *)
Unused == {r \in Runs : IsNew(r) /\ \A v \in Workers : RunOf(v) # r}
Calls(w, triggers) ==
  /\ Unused # {}
  /\ Begin(w)
  /\ work'[w].run = CHOOSE r \in Unused : TRUE
  /\ work'[w].trigger \in triggers

(* _run_scheduled and _run_digest call run(): a scheduler again and again, *)
(* but not while its last run is going on, a command once.                 *)
Fire(w) ==
  /\ w \in Servers /\ Alive(w)
  /\ Calls(w, {"scheduled"})
  /\ UNCHANGED service

Command(w) ==
  /\ w \in Commands /\ Alive(w) /\ RunOf(w) = None
  /\ Calls(w, {"manual", "dry_run"})
  /\ UNCHANGED service

(* The run object is made, with the time: between the lock and the row.    *)
Stamp(w) ==
  /\ work[w].pc \in {"insert", "skip"} /\ IsNew(RunOf(w))
  /\ started' = Append(started, RunOf(w))
  /\ UNCHANGED <<vars, proc>>

Proceed(w) ==
  /\ work[w].pc \in {"insert", "skip"} => ~ IsNew(RunOf(w))
  /\ Step(w)
  /\ UNCHANGED service

Exit(w) ==
  /\ w \in Commands /\ Alive(w) /\ At(w, "idle") /\ RunOf(w) # None
  /\ Turns(w, Exited(ExitCode(work[w].answer)))
  /\ UNCHANGED <<vars, started>>

(* SIGTERM, SIGINT or a crash cancels the run in progress; a process that  *)
(* is stopped between runs leaves nothing to tell it from one that waits.  *)
Kill(w) ==
  /\ Alive(w) /\ Stop(w)
  /\ Turns(w, Killed)
  /\ UNCHANGED started

Advance(w) == Stamp(w) \/ Proceed(w)

ServiceNext ==
  \/ \E w \in Workers :
       \/ Launch(w) \/ Fire(w) \/ Command(w) \/ Advance(w) \/ Exit(w) \/ Kill(w)
  \/ Seed /\ UNCHANGED service

(* A run in progress goes on: every request and statement has a timeout.   *)
ServiceSpec ==
  ServiceInit /\ [][ServiceNext]_all /\ \A w \in Workers : WF_all(Advance(w))

-----------------------------------------------------------------------------
(* get_latest: of the runs that have a row, the one that started last.     *)
MutantReports(r) ==
  \E i \in DOMAIN started :
    /\ started[i] = r /\ runs[r] # None
    /\ \A j \in DOMAIN started : j < i => runs[started[j]] = None

Reports(r) ==
  \E i \in DOMAIN started :
    /\ started[i] = r /\ runs[r] # None
    /\ \A j \in DOMAIN started : j > i => runs[started[j]] = None

(* A command that exits 0 leaves a row that says its run succeeded, had no *)
(* content or was skipped (exit_code_for_run_status): a cron job that      *)
(* trusts the code trusts the table.                                       *)
ExitCodeHonest ==
  \A w \in Commands :
    proc[w] = Exited("0") => RunOf(w) # None /\ runs[RunOf(w)] \in SuccessStatuses

(* When GET /status reports a finished run (last_run_status), skipped ones *)
(* aside, no run with a row is going on in any process.                    *)
StatusIsCurrent ==
  (\E r \in Runs : Reports(r) /\ runs[r] \in Terminal \ {"skipped_locked"}) =>
    ~ \E w \in Workers : ~ At(w, "idle") /\ runs[RunOf(w)] = "running"

(* A run in progress that has a row ends with a result in the row, unless  *)
(* its process is stopped; and however it ends, the lock comes free.       *)
InProgress(r) == \E w \in Workers : RunOf(w) = r /\ Running(w) /\ runs[r] = "running"
KilledIn(r)   == \E w \in Workers : RunOf(w) = r /\ proc[w] = Killed
RunsEnd ==
  /\ \A r \in Runs : InProgress(r) ~> runs[r] \in Terminal \/ KilledIn(r)
  /\ holder # None ~> holder = None
=============================================================================
