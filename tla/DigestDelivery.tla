--------------------------- MODULE DigestDelivery ---------------------------
(***************************************************************************)
(* Delivery of one stored digest to Telegram, after                        *)
(* DigestDeliveryService.deliver (app/application/digest_delivery.py).     *)
(*                                                                         *)
(* A deliverer is a process that may call deliver(digest_id): the pipeline *)
(* right after it committed the digest, or an operator's `retry-delivery`  *)
(* command.  Neither call holds the pipeline's advisory lock, so calls may *)
(* overlap.  Every database transaction is one atomic step (or several     *)
(* where it reads twice: the engine runs PostgreSQL's READ COMMITTED); the *)
(* Telegram request is a step of its own between two transactions.         *)
(*                                                                         *)
(* A layout stands for what split_digest_messages makes of the digest: a   *)
(* sequence of parts, each carrying some of the articles.  It depends on   *)
(* the source names in the database, which `seed-sources` may change.      *)
(***************************************************************************)
EXTENDS Naturals, Sequences, FiniteSets

CONSTANTS
  Deliverers,    (* processes that may call deliver                        *)
  Articles,      (* the digest's items                                     *)
  Layouts,       (* the splits the stored source names may give            *)
  Split,         (* layout -> sequence of parts; <<>> is DigestSplitError   *)
  ChatConfigs,   (* subset of BOOLEAN: may a caller have a chat id or not  *)
  MaxRetries,    (* settings.telegram_max_retries                          *)
  MaxCalls,      (* bound: calls of deliver in a behaviour                 *)
  Interruptible, (* may a call be cancelled, crash or lose the database    *)
  CleanupRuns    (* may the cleanup command run                            *)

ASSUME LayoutAssumption ==
  /\ Split \in [Layouts -> Seq(SUBSET Articles)]
  /\ Layouts # {}
ASSUME SettingsAssumption ==
  /\ MaxRetries \in Nat \ {0}
  /\ MaxCalls \in Nat
  /\ ChatConfigs \subseteq BOOLEAN
  /\ Interruptible \in BOOLEAN
  /\ CleanupRuns \in BOOLEAN

Splittable == {l \in Layouts : Split[l] # <<>>}
PartNumbers == UNION {DOMAIN Split[l] : l \in Layouts}

VARIABLES
  status,    (* digests.status                                             *)
  attempts,  (* the rows of delivery_attempts for this digest              *)
  aged,      (* keys of the rows that finished before the cleanup cutoff   *)
  layout,    (* the split the stored source names give now                 *)
  call,      (* per deliverer: the locals of its deliver call              *)
  calls,     (* how many calls were made (bounded by MaxCalls)             *)
  confirmed, (* history: times a part was recorded as sent                 *)
  posted     (* history: messages in the chat, by layout and part          *)

db      == <<status, attempts, aged>>
history == <<confirmed, posted>>
vars    == <<status, attempts, aged, layout, call, calls, confirmed, posted>>

DigestStatus  == {"generated", "sending", "sent", "failed"}
FailureCode   == {"timeout", "rate_limited", "permanent"}
AttemptStatus == {"pending", "sent"} \cup FailureCode
Retryable     == {"timeout", "rate_limited"}

(* Mutants, here and below, are plausible slips that the runs must notice.  *)
(* Letting a retry take over a digest that is being sent.                  *)
MutantTakeOver ==
  {<<"generated", "sending">>, <<"sending", "sent">>, <<"sending", "failed">>,
   <<"failed", "sending">>, <<"sending", "sending">>}

DigestTransitions ==
  {<<"generated", "sending">>, <<"sending", "sent">>,
   <<"sending", "failed">>, <<"failed", "sending">>}

Allowed(from, to) == <<from, to>> \in DigestTransitions

Location ==
  {"idle", "history", "start", "next", "send", "record", "fail", "fail_locked", "report"}
Result == {"none", "raised", "skipped"} \cup DigestStatus

CallState ==
  [pc: Location, chat: BOOLEAN, layout: Layouts, todo: SUBSET PartNumbers,
   prior: [PartNumbers -> Nat], trial: Nat, reply: AttemptStatus,
   found: DigestStatus, result: Result]

NoCall ==
  [pc |-> "idle", chat |-> FALSE, layout |-> CHOOSE l \in Layouts : TRUE,
   todo |-> {}, prior |-> [p \in PartNumbers |-> 0], trial |-> 0,
   reply |-> "pending", found |-> "generated", result |-> "none"]

Init ==
  /\ status = "generated"
  /\ attempts = {}
  /\ aged = {}
  /\ layout \in Splittable
  /\ call = [d \in Deliverers |-> NoCall]
  /\ calls = 0
  /\ confirmed = [p \in PartNumbers |-> 0]
  /\ posted = [l \in Layouts |-> [p \in PartNumbers |-> 0]]

-----------------------------------------------------------------------------
(* Views of the tables and of a call's locals.                             *)

Key(a) == <<a.part, a.number>>

(* Mutant: an attempt without a result counts as sent.                     *)
MutantPendingSent == {a.part : a \in {b \in attempts : b.status \in {"sent", "pending"}}}

SentParts == {a.part : a \in {b \in attempts : b.status = "sent"}}

(* max_attempts_by_part: the highest attempt number per part, 0 when none. *)
LastNumber ==
  [p \in PartNumbers |->
     LET numbers == {a.number : a \in {b \in attempts : b.part = p}}
     IN  IF numbers = {} THEN 0 ELSE CHOOSE n \in numbers : \A m \in numbers : m <= n]

PartsOf(l) == DOMAIN Split[l]

(* deliver gives up before sending: the digest cannot be split, or a live  *)
(* process has no chat id.                                                 *)
Refused(d) == Split[call[d].layout] = <<>> \/ ~ call[d].chat

(* The part the loop is at and the number of the attempt it is making.     *)
Part(d) == CHOOSE p \in call[d].todo : \A q \in call[d].todo : p <= q
(* Mutant: numbers from 0.                                                 *)
MutantFromZero(d) == call[d].prior[Part(d)] + call[d].trial
Number(d) == call[d].prior[Part(d)] + call[d].trial + 1

At(d, loc) == call[d].pc = loc
Becomes(d, state) == call' = [call EXCEPT ![d] = state]
Goto(d, loc) == Becomes(d, [call[d] EXCEPT !.pc = loc])

(* deliver returns or raises; its locals are gone.                         *)
Leave(d, outcome) == Becomes(d, [NoCall EXCEPT !.result = outcome])

-----------------------------------------------------------------------------
(* A call starts by reading the digest row, then the source names its text *)
(* is built from, then - a later statement - the attempts so far.          *)

Begin(d) ==
  /\ At(d, "idle") /\ calls < MaxCalls
  /\ status \in {"generated", "failed"}
  /\ \E chat \in ChatConfigs :
       Becomes(d, [NoCall EXCEPT !.pc = "history", !.chat = chat, !.layout = layout])
  /\ calls' = calls + 1
  /\ UNCHANGED <<db, layout, history>>

(* A sent digest is skipped and one being sent is not deliverable.         *)
BeginElsewhere(d) ==
  /\ At(d, "idle") /\ calls < MaxCalls
  /\ status \in {"sent", "sending"}
  /\ Leave(d, IF status = "sent" THEN "skipped" ELSE "raised")
  /\ calls' = calls + 1
  /\ UNCHANGED <<db, layout, history>>

(* Mutant: a retry starts over with every part.                            *)
MutantStartOver(d) ==
  /\ At(d, "history")
  /\ Becomes(d, [call[d] EXCEPT !.pc = "start",
                                !.todo = PartsOf(call[d].layout),
                                !.prior = LastNumber])
  /\ UNCHANGED <<db, layout, calls, history>>

ReadAttempts(d) ==
  /\ At(d, "history")
  /\ Becomes(d, [call[d] EXCEPT !.pc = "start",
                                !.todo = PartsOf(call[d].layout) \ SentParts,
                                !.prior = LastNumber])
  /\ UNCHANGED <<db, layout, calls, history>>

Refuse(d) ==
  /\ At(d, "start") /\ Refused(d)
  /\ Goto(d, "fail")
  /\ UNCHANGED <<db, layout, calls, history>>

(* The digest row is locked and must still allow the transition.           *)
StartSending(d) ==
  /\ At(d, "start") /\ ~ Refused(d)
  /\ IF Allowed(status, "sending")
       THEN /\ status' = "sending"
            /\ Goto(d, "next")
       ELSE /\ Leave(d, "raised")
            /\ UNCHANGED status
  /\ UNCHANGED <<attempts, aged, layout, calls, history>>

(* Mutant: an attempt that is already there is sent all the same.          *)
MutantAddUnlessThere(d) ==
  /\ At(d, "next") /\ call[d].todo # {}
  /\ LET row == [part |-> Part(d), number |-> Number(d), status |-> "pending"]
     IN  attempts' = IF \E a \in attempts : Key(a) = Key(row)
                       THEN attempts ELSE attempts \cup {row}
  /\ Goto(d, "send")
  /\ UNCHANGED <<status, aged, layout, calls, history>>

(* A pending attempt is committed before the request goes out; a row with  *)
(* the same part and number violates the unique constraint.                *)
AddAttempt(d) ==
  /\ At(d, "next") /\ call[d].todo # {}
  /\ LET row == [part |-> Part(d), number |-> Number(d), status |-> "pending"]
     IN  IF \E a \in attempts : Key(a) = Key(row)
           THEN /\ Leave(d, "raised")
                /\ UNCHANGED attempts
           ELSE /\ attempts' = attempts \cup {row}
                /\ Goto(d, "send")
  /\ UNCHANGED <<status, aged, layout, calls, history>>

(* What Telegram answers, and whether the message reached the chat: a      *)
(* network error or an unreadable answer says nothing about it, a rate     *)
(* limit does.                                                             *)
SendMessage(d) ==
  /\ At(d, "send")
  /\ \E reply \in {"sent"} \cup FailureCode, delivered \in BOOLEAN :
       /\ reply = "sent" => delivered
       /\ reply = "rate_limited" => ~ delivered
       /\ Becomes(d, [call[d] EXCEPT !.pc = "record", !.reply = reply])
       /\ posted' = IF delivered
                      THEN [posted EXCEPT ![call[d].layout][Part(d)] = @ + 1]
                      ELSE posted
  /\ UNCHANGED <<db, layout, calls, confirmed>>

(* The attempt this call is making, with its result.                       *)
Completed(d) ==
  {IF Key(a) = <<Part(d), Number(d)>> THEN [a EXCEPT !.status = call[d].reply] ELSE a :
     a \in attempts}

RecordSent(d) ==
  /\ At(d, "record") /\ call[d].reply = "sent"
  /\ attempts' = Completed(d)
  /\ confirmed' = [confirmed EXCEPT ![Part(d)] = @ + 1]
  /\ Becomes(d, [call[d] EXCEPT !.pc = "next", !.todo = @ \ {Part(d)}, !.trial = 0])
  /\ UNCHANGED <<status, aged, layout, calls, posted>>

RecordRetry(d) ==
  /\ At(d, "record") /\ call[d].reply \in Retryable
  /\ call[d].trial + 1 < MaxRetries
  /\ attempts' = Completed(d)
  /\ Becomes(d, [call[d] EXCEPT !.pc = "next", !.trial = @ + 1])
  /\ UNCHANGED <<status, aged, layout, calls, history>>

(* Mutants: give up without failing the digest; go on with the next part.  *)
MutantGiveUpQuietly(d) ==
  /\ At(d, "record") /\ call[d].reply \in FailureCode
  /\ call[d].reply \notin Retryable \/ call[d].trial + 1 >= MaxRetries
  /\ attempts' = Completed(d)
  /\ Goto(d, "report")
  /\ UNCHANGED <<status, aged, layout, calls, history>>

MutantSkipPart(d) ==
  /\ At(d, "record") /\ call[d].reply \in FailureCode
  /\ call[d].reply \notin Retryable \/ call[d].trial + 1 >= MaxRetries
  /\ attempts' = Completed(d)
  /\ Becomes(d, [call[d] EXCEPT !.pc = "next", !.todo = @ \ {Part(d)}, !.trial = 0])
  /\ UNCHANGED <<status, aged, layout, calls, history>>

RecordFailure(d) ==
  /\ At(d, "record") /\ call[d].reply \in FailureCode
  /\ call[d].reply \notin Retryable \/ call[d].trial + 1 >= MaxRetries
  /\ attempts' = Completed(d)
  /\ Goto(d, "fail")
  /\ UNCHANGED <<status, aged, layout, calls, history>>

Finish(d) ==
  /\ At(d, "next") /\ call[d].todo = {}
  /\ IF Allowed(status, "sent")
       THEN /\ status' = "sent"
            /\ Leave(d, "sent")
       ELSE /\ Leave(d, "raised")
            /\ UNCHANGED status
  /\ UNCHANGED <<attempts, aged, layout, calls, history>>

-----------------------------------------------------------------------------
(* _fail_digest reads the status, then transitions under the row lock; a   *)
(* transition the locked row does not allow raises.                        *)

AfterFail(d) == IF Refused(d) THEN Leave(d, "raised") ELSE Goto(d, "report")

FailRead(d) ==
  /\ At(d, "fail")
  /\ IF status \in {"sending", "generated"}
       THEN Becomes(d, [call[d] EXCEPT !.pc = "fail_locked", !.found = status])
       ELSE AfterFail(d)
  /\ UNCHANGED <<db, layout, calls, history>>

FailLocked(d) ==
  /\ At(d, "fail_locked")
  /\ LET first == IF call[d].found = "sending" THEN "failed" ELSE "sending"
     IN  IF Allowed(status, first)
           THEN /\ status' = "failed"
                /\ AfterFail(d)
           ELSE /\ Leave(d, "raised")
                /\ UNCHANGED status
  /\ UNCHANGED <<attempts, aged, layout, calls, history>>

(* The outcome carries whatever status the row has when it is read back.   *)
Report(d) ==
  /\ At(d, "report")
  /\ Leave(d, status)
  /\ UNCHANGED <<db, layout, calls, history>>

-----------------------------------------------------------------------------
(* Cancellation, a crash of the process, a database error between two      *)
(* transactions, or a completion refused because the clock went back       *)
(* behind the attempt's start: nothing more is written.                    *)
Interrupt(d) ==
  /\ Interruptible
  /\ ~ At(d, "idle")
  /\ Leave(d, "raised")
  /\ UNCHANGED <<db, layout, calls, history>>

(* seed-sources renames a source: the stored digest now splits otherwise.  *)
Relayout ==
  /\ \E l \in Layouts \ {layout} : layout' = l
  /\ UNCHANGED <<db, call, calls, history>>

(* A day goes by.  Calls are bounded by their timeouts, hence all over.    *)
DayPasses ==
  /\ CleanupRuns
  /\ \A d \in Deliverers : At(d, "idle")
  /\ aged' = {Key(a) : a \in {b \in attempts : b.status # "pending"}}
  /\ aged' # aged
  /\ UNCHANGED <<status, attempts, layout, call, calls, history>>

(* cleanup deletes the attempts that finished before the cutoff.           *)
Cleanup ==
  /\ CleanupRuns /\ aged # {}
  /\ attempts' = {a \in attempts : Key(a) \notin aged}
  /\ aged' = {}
  /\ UNCHANGED <<status, layout, call, calls, history>>

Step(d) ==
  \/ ReadAttempts(d) \/ Refuse(d) \/ StartSending(d)
  \/ AddAttempt(d) \/ SendMessage(d)
  \/ RecordSent(d) \/ RecordRetry(d) \/ RecordFailure(d)
  \/ Finish(d) \/ FailRead(d) \/ FailLocked(d) \/ Report(d)

Next ==
  \/ \E d \in Deliverers : Begin(d) \/ BeginElsewhere(d) \/ Step(d) \/ Interrupt(d)
  \/ Relayout
  \/ DayPasses
  \/ Cleanup

Spec == Init /\ [][Next]_vars

(* A call in progress goes on: Telegram requests, back-off and statements  *)
(* all have timeouts.  Nothing makes anybody call deliver, crash, rename a *)
(* source or clean up.                                                     *)
Fairness == \A d \in Deliverers : WF_vars(Step(d))
FairSpec == Spec /\ Fairness
-----------------------------------------------------------------------------
TypeOK ==
  /\ status \in DigestStatus
  /\ attempts \subseteq [part: PartNumbers, number: Nat \ {0}, status: AttemptStatus]
  /\ aged \subseteq PartNumbers \X (Nat \ {0})
  /\ layout \in Layouts
  /\ call \in [Deliverers -> CallState]
  /\ calls \in Nat
  /\ confirmed \in [PartNumbers -> Nat]
  /\ posted \in [Layouts -> [PartNumbers -> Nat]]

(* A deliverer that moved the digest to SENDING and has not left it.       *)
InSending(d) ==
  \/ call[d].pc \in {"next", "send", "record"}
  \/ call[d].pc \in {"fail", "fail_locked"} /\ ~ Refused(d)

(* A digest is marked SENT only when every part of one of its splits was   *)
(* recorded as sent, whatever calls overlapped, crashed or were refused    *)
(* meanwhile (digest_delivery.py:128-162).                                 *)
SentMeansConfirmed ==
  status = "sent" => \E l \in Splittable : \A p \in PartsOf(l) : confirmed[p] > 0

(* A SENT digest has every article in the chat.                            *)
NothingLost ==
  status = "sent" =>
    \A a \in Articles : \E l \in Layouts : \E p \in PartsOf(l) :
      a \in Split[l][p] /\ posted[l][p] > 0

(* The attempt log explains the chat: a part is there at most as often as  *)
(* it has attempts that are recorded sent or whose result leaves it open.  *)
EveryPostAccounted ==
  \A l \in Layouts, p \in PartNumbers :
    posted[l][p] <= Cardinality({a \in attempts : a.part = p /\ a.status # "rate_limited"})

(* At most one call is sending, and the digest is SENDING while it is: the *)
(* locked transition at :116 lets nobody else in.                          *)
OneSender ==
  \A d, e \in Deliverers :
    InSending(d) => status = "sending" /\ (InSending(e) => d = e)

(* A part is not sent again while an attempt of it says that it was sent:  *)
(* "Deliver unsent parts" (:69), over retries, refused calls and cleanups. *)
OnlyUnsentParts ==
  [][\A l \in Layouts, p \in PartNumbers :
       posted'[l][p] # posted[l][p] => p \notin SentParts]_<<posted, attempts>>

(* A digest being sent is eventually SENT or FAILED.                       *)
SendingEnds == status = "sending" ~> status \in {"sent", "failed"}

(* The promise of delivery, with a part delivered once it is recorded.     *)
Lifecycle ==
  INSTANCE DigestLifecycle WITH
    Parts <- PartNumbers,
    Wholes <- {PartsOf(l) : l \in Splittable},
    delivered <- {p \in PartNumbers : confirmed[p] > 0}
KeepsLifecycle == Lifecycle!Spec
=============================================================================
