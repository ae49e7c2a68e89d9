---------------------------- MODULE LeadRouting ----------------------------
(***************************************************************************)
(* The lead intake workflow of 02-ai-lead-routing-workflow                 *)
(* (workflows/lead-routing-main.json).  Every request is an execution of   *)
(* its own; executions run side by side and meet in the audit sheet and in *)
(* the CRM.  An action is a node, or a try of a node that is retried and   *)
(* writes.  Nodes that only compute are part of the one before.            *)
(***************************************************************************)
EXTENDS Naturals

CONSTANTS
  Requests, Keys, Emails,
  MaxTries,   (* maxTries of a node                                        *)
  None

ASSUME LeadAssumption == MaxTries \in Nat \ {0} /\ None \notin Requests

(* What an execution ends with: an HTTP answer, the error workflow, or     *)
(* nothing when the instance goes down.                                    *)
Answers == {"202 accepted", "200 duplicate", "400 invalid", "422 no consent", "503 failed"}
Ends == Answers \cup {"error", "lost"}

VARIABLES
  at,       (* the node each request is at, or its end                     *)
  key, email,
  tries,    (* failed tries of the node the request is at                  *)
  rows,     (* the audit sheet: the rows without their order               *)
  contact,  (* the CRM: whose data each address has                        *)
  paid,     (* History: the requests handed to the model                   *)
  stored,   (* History: those stored in the CRM                            *)
  before    (* History: those that had ended when a request came           *)

vars == <<at, key, email, tries, rows, contact, paid, stored, before>>

Init ==
  /\ at = [r \in Requests |-> "new"]
  /\ key \in [Requests -> Keys] /\ email \in [Requests -> Emails]
  /\ tries = [r \in Requests |-> 0]
  /\ rows = {} /\ contact = [e \in Emails |-> None]
  /\ paid = {} /\ stored = {}
  /\ before = [r \in Requests |-> {}]

Ended == {r \in Requests : at[r] \in Ends}

Go(r, node) ==
  /\ at' = [at EXCEPT ![r] = node]
  /\ tries' = [tries EXCEPT ![r] = 0]

-----------------------------------------------------------------------------
(* Webhook, normalisation, consent and validation.                         *)
Submit(r) ==
  /\ at[r] = "new"
  /\ \E node \in {"find key", "400 invalid", "422 no consent"} : Go(r, node)
  /\ before' = [before EXCEPT ![r] = Ended]
  /\ UNCHANGED <<key, email, rows, contact, paid, stored>>

(* Mutant: only the rows of completed requests are looked for.             *)
MutantKnown(r) == \E row \in rows : row.key = key[r] /\ row.status = "completed"
Known(r) == \E row \in rows : row.key = key[r]

(* The lookup; when it fails for good, the execution does.                 *)
FindKey(r) ==
  /\ at[r] = "find key"
  /\ \/ Known(r) /\ Go(r, "200 duplicate")
     \/ ~ Known(r) /\ Go(r, "extract")
     \/ Go(r, "error")
  /\ UNCHANGED <<key, email, rows, contact, paid, stored, before>>

(* Extraction, retried and then given up, and the score: without an answer *)
(* of the model the lead goes to human review.                             *)
Extract(r) ==
  /\ at[r] = "extract"
  /\ paid' = paid \cup {r}
  /\ Go(r, "upsert")
  /\ UNCHANGED <<key, email, rows, contact, stored, before>>

(* Mutants: one try too many; a failed try is not counted.                 *)
MutantTriesMore(r, next) ==
  \/ /\ tries[r] < MaxTries
     /\ tries' = [tries EXCEPT ![r] = @ + 1]
     /\ UNCHANGED at
  \/ /\ tries[r] = MaxTries
     /\ Go(r, next)
MutantTryFails(r, next) == UNCHANGED <<at, tries>>

(* A failed try is followed by another one or by the node's error output.  *)
TryFails(r, next) ==
  \/ /\ tries[r] + 1 < MaxTries
     /\ tries' = [tries EXCEPT ![r] = @ + 1]
     /\ UNCHANGED at
  \/ /\ tries[r] + 1 = MaxTries
     /\ Go(r, next)

(* Mutant: an address that is known keeps its data.                        *)
MutantStore(r) ==
  /\ contact' = [contact EXCEPT ![email[r]] = IF @ = None THEN r ELSE @]
  /\ stored' = stored \cup {r}

Store(r) ==
  /\ contact' = [contact EXCEPT ![email[r]] = r]
  /\ stored' = stored \cup {r}

(* Create or update the contact.  A try that fails may have been applied.  *)
Upsert(r) ==
  /\ at[r] = "upsert"
  /\ \/ Store(r) /\ Go(r, "act")
     \/ Store(r) /\ TryFails(r, "audit failure")
     \/ UNCHANGED <<contact, stored>> /\ TryFails(r, "audit failure")
  /\ UNCHANGED <<key, email, rows, paid, before>>

(* Alerts and the draft, as the tier asks; none is retried and a failed    *)
(* one stops nothing.                                                      *)
Act(r) ==
  /\ at[r] = "act"
  /\ Go(r, "audit")
  /\ UNCHANGED <<key, email, rows, contact, paid, stored, before>>

(* Mutant: the append's error output leads where its output does.          *)
MutantAppend(r, status, answer) ==
  /\ \/ rows' = rows \cup {[request |-> r, key |-> key[r], status |-> status]} /\ Go(r, answer)
     \/ UNCHANGED rows /\ TryFails(r, answer)
  /\ UNCHANGED <<key, email, contact, paid, stored, before>>

(* A row is appended, at most once per try, and a try that fails may have  *)
(* been applied.  There is no error output: the execution fails.           *)
Append(r, status, answer) ==
  LET row == [request |-> r, key |-> key[r], status |-> status]
  IN  /\ \/ rows' = rows \cup {row} /\ Go(r, answer)
         \/ rows' \in {rows, rows \cup {row}} /\ TryFails(r, "error")
      /\ UNCHANGED <<key, email, contact, paid, stored, before>>

Audit(r) == at[r] = "audit" /\ Append(r, "completed", "202 accepted")

(* The audit of a failed upsert, a technical alert, and the answer.        *)
AuditFailure(r) == at[r] = "audit failure" /\ Append(r, "failed", "503 failed")

(* The instance stops between two nodes; nothing resumes an execution.     *)
Crash(r) ==
  /\ at[r] \notin Ends \cup {"new"}
  /\ Go(r, "lost")
  /\ UNCHANGED <<key, email, rows, contact, paid, stored, before>>

Step(r) == FindKey(r) \/ Extract(r) \/ Upsert(r) \/ Act(r) \/ Audit(r) \/ AuditFailure(r)

Next == \E r \in Requests : Submit(r) \/ Step(r) \/ Crash(r)

(* n8n goes on with an execution as long as it has nodes to run.           *)
Spec == Init /\ [][Next]_vars /\ \A r \in Requests : WF_vars(Step(r))
-----------------------------------------------------------------------------
TypeOK ==
  /\ at \in [Requests -> Ends \cup {"new", "find key", "extract", "upsert", "act",
                                    "audit", "audit failure"}]
  /\ key \in [Requests -> Keys] /\ email \in [Requests -> Emails]
  /\ tries \in [Requests -> 0 .. MaxTries - 1]
  /\ rows \subseteq [request : Requests, key : Keys, status : {"completed", "failed"}]
  /\ contact \in [Emails -> Requests \cup {None}]
  /\ paid \subseteq Requests /\ stored \subseteq paid
  /\ before \in [Requests -> SUBSET Requests]

Rows(r) == {row \in rows : row.request = r}

(* An execution of a key that left any row, completed or failed, and ended *)
(* is never paid for or acted upon again.  (One that fails before its row, *)
(* or that still runs, is: the sheet is all the workflow remembers.)       *)
RepeatsAreFree ==
  \A r \in Requests : \A s \in before[r] :
    key[s] = key[r] /\ Rows(s) # {} => r \notin paid

(* 202 and 200 are answered only with a row in the sheet, 503 only with a  *)
(* failed one; and a row says completed only of a lead that is in the CRM. *)
AnswersAreRecorded ==
  /\ \A r \in Requests :
       /\ at[r] = "202 accepted" => \E row \in Rows(r) : row.status = "completed"
       /\ at[r] = "503 failed"   => \E row \in Rows(r) : row.status = "failed"
       /\ at[r] = "200 duplicate" => \E s \in Requests \ {r} : key[s] = key[r] /\ Rows(s) # {}
  /\ \A row \in rows : row.status = "completed" => row.request \in stored

(* When a request is accepted, the CRM does not show the data of one that  *)
(* had ended before it came, however often both were tried.                *)
ContactIsRecent ==
  \A r \in Requests : at[r] = "202 accepted" => contact[email[r]] \notin before[r]

(* Every request ends: in an answer, the error workflow, or a crash.       *)
RequestsEnd == \A r \in Requests : at[r] # "new" ~> at[r] \in Ends
=============================================================================
