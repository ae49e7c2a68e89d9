--------------------------- MODULE InvoiceIntake ---------------------------
(***************************************************************************)
(* The invoice workflow of 01-invoice-processing-workflow                  *)
(* (workflows/invoice-processing-main.json).  An upload, or the first of   *)
(* the messages a poll of the mailbox found, starts an execution;          *)
(* executions run side by side and meet in the sheet and in the chat of    *)
(* the operator.  An action is a node, or a try of a node that is retried  *)
(* and writes.                                                             *)
(***************************************************************************)
EXTENDS Naturals

CONSTANTS
  Executions,
  Files,      (* valid PDFs, told apart by their hashes                    *)
  MaxTries,   (* maxTries of a node                                        *)
  None        (* what is not one valid PDF; no status yet                  *)

ASSUME InvoiceAssumption == MaxTries \in Nat \ {0} /\ None \notin Files

Statuses == {"processed", "needs_review"}
Ends == {"done", "error", "lost"}

VARIABLES
  at,       (* the node of each execution, or its end                      *)
  file,
  tries,    (* failed tries of that node                                   *)
  status,   (* the verdict on the extracted data                           *)
  rows,     (* the sheet: the rows of each execution, at most one per try  *)
  told,     (* what the operator has read about each execution             *)
  asked,    (* History: the executions that asked the model                *)
  before    (* History: those that had ended when an execution began       *)

vars == <<at, file, tries, status, rows, told, asked, before>>

Init ==
  /\ at = [x \in Executions |-> "new"]
  /\ file = [x \in Executions |-> None]
  /\ tries = [x \in Executions |-> 0]
  /\ status = [x \in Executions |-> None]
  /\ rows = [x \in Executions |-> 0]
  /\ told = [x \in Executions |-> {}]
  /\ asked = {} /\ before = [x \in Executions |-> {}]

Go(x, node) ==
  /\ at' = [at EXCEPT ![x] = node]
  /\ tries' = [tries EXCEPT ![x] = 0]

Tell(x, notice) == told' = [told EXCEPT ![x] = @ \cup {notice}]

-----------------------------------------------------------------------------
(* Validate and Hash.                                                      *)
Begin(x) ==
  /\ at[x] = "new"
  /\ \E f \in Files \cup {None} :
       /\ file' = [file EXCEPT ![x] = f]
       /\ Go(x, IF f = None THEN "tell rejected" ELSE "find hash")
  /\ before' = [before EXCEPT ![x] = {y \in Executions : at[y] \in Ends}]
  /\ UNCHANGED <<status, rows, told, asked>>

(* Mutant: only invoices that were processed are duplicates.               *)
MutantKnown(f) == \E y \in Executions : file[y] = f /\ rows[y] > 0 /\ status[y] = "processed"
Known(f) == \E y \in Executions : file[y] = f /\ rows[y] > 0

(* The lookup is not retried.                                              *)
FindHash(x) ==
  /\ at[x] = "find hash"
  /\ \/ Known(file[x]) /\ Go(x, "tell duplicate")
     \/ ~ Known(file[x]) /\ Go(x, "extract")
     \/ Go(x, "error")
  /\ UNCHANGED <<file, status, rows, told, asked, before>>

(* The extraction, retried and then given up; an answer that cannot be     *)
(* read stops the execution as well.  The rules give the verdict.          *)
Extract(x) ==
  /\ at[x] = "extract"
  /\ asked' = asked \cup {x}
  /\ \/ Go(x, "error") /\ UNCHANGED status
     \/ /\ status' \in {[status EXCEPT ![x] = s] : s \in Statuses}
        /\ Go(x, "append")
  /\ UNCHANGED <<file, rows, told, before>>

(* Mutant: one try too many.                                               *)
MutantTriesMore(x) ==
  \/ tries[x] < MaxTries /\ tries' = [tries EXCEPT ![x] = @ + 1] /\ UNCHANGED at
  \/ tries[x] = MaxTries /\ Go(x, "error")

TryFails(x) ==
  \/ /\ tries[x] + 1 < MaxTries
     /\ tries' = [tries EXCEPT ![x] = @ + 1]
     /\ UNCHANGED at
  \/ /\ tries[x] + 1 = MaxTries
     /\ Go(x, "error")

More == [x \in Executions |-> [rows EXCEPT ![x] = @ + 1]]

(* Mutant: a failed append is passed over.                                 *)
MutantAppend(x) ==
  /\ at[x] = "append"
  /\ rows' \in {rows, More[x]} /\ Go(x, "tell result")
  /\ UNCHANGED <<file, status, told, asked, before>>

(* A try that fails may have been applied.                                 *)
Append(x) ==
  /\ at[x] = "append"
  /\ \/ rows' = More[x] /\ Go(x, "tell result")
     \/ rows' \in {rows, More[x]} /\ TryFails(x)
  /\ UNCHANGED <<file, status, told, asked, before>>

TellResult(x) ==
  /\ at[x] = "tell result"
  /\ \/ Tell(x, status[x]) /\ Go(x, "done")
     \/ (Tell(x, status[x]) \/ UNCHANGED told) /\ TryFails(x)
  /\ UNCHANGED <<file, status, rows, asked, before>>

(* The other notices are not retried.                                      *)
TellOnce(x, notice) ==
  /\ \/ Tell(x, notice) /\ Go(x, "done")
     \/ (Tell(x, notice) \/ UNCHANGED told) /\ Go(x, "error")
  /\ UNCHANGED <<file, status, rows, asked, before>>

TellRejected(x)  == at[x] = "tell rejected" /\ TellOnce(x, "rejected")
TellDuplicate(x) == at[x] = "tell duplicate" /\ TellOnce(x, "duplicate")

(* The instance stops between two nodes; nothing resumes an execution.     *)
Crash(x) ==
  /\ at[x] \notin Ends \cup {"new"}
  /\ Go(x, "lost")
  /\ UNCHANGED <<file, status, rows, told, asked, before>>

Step(x) ==
  FindHash(x) \/ Extract(x) \/ Append(x) \/ TellResult(x) \/ TellRejected(x) \/ TellDuplicate(x)

Next == \E x \in Executions : Begin(x) \/ Step(x) \/ Crash(x)

Spec == Init /\ [][Next]_vars
-----------------------------------------------------------------------------
TypeOK ==
  /\ at \in [Executions -> Ends \cup {"new", "find hash", "extract", "append", "tell result",
                                      "tell rejected", "tell duplicate"}]
  /\ file \in [Executions -> Files \cup {None}]
  /\ tries \in [Executions -> 0 .. MaxTries - 1]
  /\ status \in [Executions -> Statuses \cup {None}]
  /\ rows \in [Executions -> 0 .. MaxTries]
  /\ told \in [Executions -> SUBSET (Statuses \cup {"rejected", "duplicate"})]
  /\ asked \subseteq Executions
  /\ before \in [Executions -> SUBSET Executions]

(* A file with a row of an execution that has ended, whatever its verdict  *)
(* and however it ended, is not paid for again and gets no other row.      *)
DuplicatesAreFree ==
  \A x \in Executions : \A y \in before[x] :
    file[x] = file[y] /\ rows[y] > 0 => x \notin asked /\ rows[x] = 0

(* The operator reads one thing about an upload, however often it was      *)
(* sent: a verdict only of what is in the sheet, a duplicate only of a     *)
(* file that is, and a rejection only of what is not.                      *)
NoticesMatchSheet ==
  \A x \in Executions :
    /\ told[x] \subseteq {status[x]} \/ told[x] \in {{"duplicate"}, {"rejected"}}
    /\ told[x] \cap Statuses # {} => rows[x] > 0
    /\ "duplicate" \in told[x] => \E y \in Executions \ {x} : file[y] = file[x] /\ rows[y] > 0
    /\ "rejected" \in told[x] => file[x] = None
=============================================================================
