------------------------ MODULE InvoiceIntakeProofs -------------------------
(***************************************************************************)
(* Theorems about InvoiceIntake, for any executions, files and tries.      *)
(***************************************************************************)
EXTENDS InvoiceIntake, TLAPS

Nodes == Ends \cup {"new", "find hash", "extract", "append", "tell result",
                    "tell rejected", "tell duplicate"}

(* An execution that has not come to its append has no row, and one that   *)
(* is there has no more than failed tries.  From there on it has a verdict.*)
RowsInv ==
  \A x \in Executions :
    /\ at[x] \in {"new", "find hash", "extract", "tell rejected", "tell duplicate"} => rows[x] = 0
    /\ at[x] = "append" => rows[x] <= tries[x]
    /\ at[x] \in {"append", "tell result"} => status[x] \in Statuses

TypeInv == TypeOK /\ RowsInv

LEMMA InitTypeInv == Init => TypeInv
BY InvoiceAssumption DEF Init, TypeInv, TypeOK, RowsInv, Ends, Statuses

-----------------------------------------------------------------------------
(* Where a step leaves the execution that takes it, and all others.        *)
LEMMA AtType == TypeOK => at \in [Executions -> Nodes] /\ tries \in [Executions -> 0 .. MaxTries - 1]
BY DEF TypeOK, Nodes

LEMMA GoFields ==
  ASSUME TypeOK, NEW x \in Executions, NEW node \in Nodes, Go(x, node)
  PROVE  /\ at' \in [Executions -> Nodes] /\ tries' \in [Executions -> 0 .. MaxTries - 1]
         /\ at'[x] = node /\ tries'[x] = 0
         /\ \A y \in Executions : y # x => at'[y] = at[y] /\ tries'[y] = tries[y]
<1>1. 0 \in 0 .. MaxTries - 1
  BY InvoiceAssumption
<1> QED BY <1>1, AtType DEF Go

LEMMA TryFields ==
  ASSUME TypeOK, NEW x \in Executions, TryFails(x)
  PROVE  /\ at' \in [Executions -> Nodes] /\ tries' \in [Executions -> 0 .. MaxTries - 1]
         /\ \/ at'[x] = at[x] /\ tries'[x] = tries[x] + 1
            \/ at'[x] = "error"
         /\ \A y \in Executions : y # x => at'[y] = at[y] /\ tries'[y] = tries[y]
<1>1. CASE Go(x, "error")
  BY <1>1, GoFields DEF Nodes, Ends
<1>2. CASE /\ tries[x] + 1 < MaxTries
           /\ tries' = [tries EXCEPT ![x] = @ + 1]
           /\ UNCHANGED at
  <2>1. tries[x] + 1 \in 0 .. MaxTries - 1
    BY <1>2, AtType, InvoiceAssumption
  <2> QED BY <1>2, <2>1, AtType
<1> QED BY <1>1, <1>2 DEF TryFails

(* An append adds at most one row, to the execution that appends.          *)
LEMMA AppendFields ==
  ASSUME TypeInv, NEW x \in Executions, Append(x)
  PROVE  /\ at[x] = "append" /\ status[x] \in Statuses
         /\ rows' \in [Executions -> 0 .. MaxTries]
         /\ rows[x] <= rows'[x] /\ rows'[x] <= rows[x] + 1
         /\ Go(x, "tell result") => rows'[x] > 0
         /\ \A y \in Executions : y # x => rows'[y] = rows[y]
         /\ Go(x, "tell result") \/ TryFails(x)
         /\ UNCHANGED <<file, status, told, asked, before>>
<1>1. /\ at[x] = "append" /\ status[x] \in Statuses
      /\ rows[x] <= tries[x]
  BY DEF Append, TypeInv, RowsInv
<1>0. /\ rows \in [Executions -> 0 .. MaxTries]
      /\ rows[x] \in 0 .. MaxTries - 1
      /\ UNCHANGED <<file, status, told, asked, before>>
  <2>1. rows \in [Executions -> 0 .. MaxTries] /\ tries[x] \in 0 .. MaxTries - 1
    BY AtType DEF TypeInv, TypeOK
  <2>2. rows[x] \in 0 .. MaxTries
    BY <2>1
  <2>3. rows[x] \in 0 .. MaxTries - 1
    BY <1>1, <2>1, <2>2, InvoiceAssumption
  <2> QED BY <2>1, <2>3 DEF Append
<1>4. ASSUME rows' = More[x]
      PROVE  /\ rows' \in [Executions -> 0 .. MaxTries] /\ rows'[x] = rows[x] + 1
             /\ \A y \in Executions : y # x => rows'[y] = rows[y]
  <2>1. rows[x] + 1 \in 0 .. MaxTries
    BY <1>0, InvoiceAssumption
  <2>2. rows' = [rows EXCEPT ![x] = rows[x] + 1]
    BY <1>4 DEF More
  <2> QED BY <1>0, <2>1, <2>2
<1>2. CASE rows' = More[x] /\ Go(x, "tell result")
  <2>1. rows[x] \in Nat
    BY <1>0, InvoiceAssumption
  <2>2. rows[x] <= rows'[x] /\ rows'[x] <= rows[x] + 1 /\ rows'[x] > 0
    <3>1. rows'[x] = rows[x] + 1
      BY <1>2, <1>4
    <3> QED BY <2>1, <3>1
  <2> QED BY <1>0, <1>1, <1>2, <1>4, <2>2
<1>3. CASE rows' \in {rows, More[x]} /\ TryFails(x)
  <2>1. ~ Go(x, "tell result")
    <3>1. "tell result" \in Nodes /\ TypeOK
      BY DEF Nodes, TypeInv
    <3>2. at'[x] # "tell result"
      BY <1>1, <1>3, <3>1, TryFields
    <3> QED BY <3>1, <3>2, GoFields
  <2>2. /\ rows' \in [Executions -> 0 .. MaxTries]
        /\ rows[x] <= rows'[x] /\ rows'[x] <= rows[x] + 1
        /\ \A y \in Executions : y # x => rows'[y] = rows[y]
    <3>1. CASE rows' = rows
      BY <1>0, <3>1, InvoiceAssumption
    <3>2. CASE rows' = More[x]
      BY <1>0, <1>4, <3>2, InvoiceAssumption
    <3> QED BY <1>3, <3>1, <3>2
  <2> QED BY <1>0, <1>1, <1>3, <2>1, <2>2
<1> QED BY <1>2, <1>3 DEF Append

(* A notice is added to what has been told about the execution.            *)
LEMMA TellFields ==
  ASSUME TypeOK, NEW x \in Executions, NEW notice \in Statuses \cup {"rejected", "duplicate"},
         Tell(x, notice) \/ UNCHANGED told
  PROVE  /\ told' \in [Executions -> SUBSET (Statuses \cup {"rejected", "duplicate"})]
         /\ told'[x] \in {told[x], told[x] \cup {notice}}
         /\ \A y \in Executions : y # x => told'[y] = told[y]
<1>1. told \in [Executions -> SUBSET (Statuses \cup {"rejected", "duplicate"})]
  BY DEF TypeOK
<1>2. CASE UNCHANGED told
  BY <1>1, <1>2
<1>3. CASE Tell(x, notice)
  <2>1. told' = [told EXCEPT ![x] = told[x] \cup {notice}]
    BY <1>3 DEF Tell
  <2>2. told[x] \cup {notice} \in SUBSET (Statuses \cup {"rejected", "duplicate"})
    BY <1>1
  <2> QED BY <1>1, <2>1, <2>2
<1> QED BY <1>2, <1>3

LEMMA NextTypeInv == TypeInv /\ [Next]_vars => TypeInv'
<1> SUFFICES ASSUME TypeInv, [Next]_vars PROVE TypeInv'
  OBVIOUS
<1> USE DEF TypeInv
<1>1. ASSUME NEW x \in Executions, Begin(x) PROVE TypeInv'
  <2>1. PICK f \in Files \cup {None} :
          /\ file' = [file EXCEPT ![x] = f]
          /\ Go(x, IF f = None THEN "tell rejected" ELSE "find hash")
    BY <1>1 DEF Begin
  <2> DEFINE node == IF f = None THEN "tell rejected" ELSE "find hash"
  <2>2. node \in Nodes /\ node \in {"tell rejected", "find hash"} /\ Go(x, node)
    BY <2>1 DEF Nodes
  <2> HIDE DEF node
  <2>3. TypeOK'
    BY <1>1, <2>1, <2>2, GoFields DEF Begin, TypeOK, Nodes
  <2>4. RowsInv'
    BY <1>1, <2>2, GoFields DEF Begin, RowsInv
  <2> QED BY <2>3, <2>4
<1>2. ASSUME NEW x \in Executions, FindHash(x) PROVE TypeInv'
  <2>1. PICK node \in {"tell duplicate", "extract", "error"} : Go(x, node)
    BY <1>2 DEF FindHash
  <2>2. node \in Nodes
    BY DEF Nodes, Ends
  <2>3. TypeOK'
    BY <1>2, <2>1, <2>2, GoFields DEF FindHash, TypeOK, Nodes
  <2>4. RowsInv'
    BY <1>2, <2>1, <2>2, GoFields DEF FindHash, RowsInv
  <2> QED BY <2>3, <2>4
<1>3. ASSUME NEW x \in Executions, Extract(x) PROVE TypeInv'
  <2>1. PICK node \in {"error", "append"} : Go(x, node)
    BY <1>3 DEF Extract
  <2>2. node \in Nodes
    BY DEF Nodes, Ends
  <2>3. /\ status' \in [Executions -> Statuses \cup {None}]
        /\ node = "append" => status'[x] \in Statuses
        /\ \A y \in Executions : y # x => status'[y] = status[y]
    <3>0. status \in [Executions -> Statuses \cup {None}]
      BY DEF TypeOK
    <3>1. CASE Go(x, "error") /\ UNCHANGED status
      <4>1. "error" \in Nodes
        BY DEF Nodes, Ends
      <4>2. node # "append"
        BY <2>1, <2>2, <3>1, <4>1, GoFields
      <4> QED BY <3>0, <3>1, <4>2
    <3>2. CASE status' \in {[status EXCEPT ![x] = s] : s \in Statuses}
      <4>1. PICK s \in Statuses : status' = [status EXCEPT ![x] = s]
        BY <3>2
      <4> QED BY <3>0, <4>1
    <3> QED BY <1>3, <3>1, <3>2 DEF Extract
  <2>4. TypeOK'
    BY <1>3, <2>1, <2>2, <2>3, GoFields DEF Extract, TypeOK, Nodes
  <2>5. RowsInv'
    <3>1. at[x] = "extract" /\ at'[x] = node /\ rows[x] = 0 /\ tries'[x] = 0 /\ rows' = rows
      BY <1>3, <2>1, <2>2, GoFields DEF Extract, RowsInv
    <3>2. \A y \in Executions : y # x => at'[y] = at[y] /\ tries'[y] = tries[y]
      BY <2>1, <2>2, GoFields
    <3> SUFFICES ASSUME NEW y \in Executions PROVE RowsInv!(y)'
      BY DEF RowsInv
    <3>3. CASE y = x
      <4>1. rows'[x] = 0 /\ rows'[x] <= tries'[x]
        BY <3>1
      <4>2. at'[x] \in {"append", "tell result"} => status'[x] \in Statuses
        BY <2>1, <2>3, <3>1
      <4> QED BY <3>3, <4>1, <4>2
    <3>4. CASE y # x
      BY <2>3, <3>1, <3>2, <3>4 DEF RowsInv
    <3> QED BY <3>3, <3>4
  <2> QED BY <2>4, <2>5
<1>4. ASSUME NEW x \in Executions, Append(x) PROVE TypeInv'
  <2>1. "tell result" \in Nodes
    BY DEF Nodes
  <2>2. /\ at' \in [Executions -> Nodes] /\ tries' \in [Executions -> 0 .. MaxTries - 1]
        /\ at'[x] \in {"append", "tell result", "error"}
        /\ at'[x] = "append" => tries'[x] = tries[x] + 1
        /\ \A y \in Executions : y # x => at'[y] = at[y] /\ tries'[y] = tries[y]
    BY <1>4, <2>1, AppendFields, GoFields, TryFields
  <2>3. TypeOK'
    BY <1>4, <2>2, AppendFields DEF TypeOK, Nodes
  <2>4. RowsInv'
    <3> SUFFICES ASSUME NEW y \in Executions PROVE RowsInv!(y)'
      BY DEF RowsInv
    <3>1. CASE y = x
      <4>1. /\ rows[x] \in Nat /\ rows'[x] \in Nat /\ tries[x] \in Nat
            /\ rows[x] <= tries[x] /\ rows'[x] <= rows[x] + 1
        <5>1. /\ rows[x] \in 0 .. MaxTries /\ tries[x] \in 0 .. MaxTries - 1
              /\ rows'[x] \in 0 .. MaxTries
          BY <1>4, AtType, AppendFields DEF TypeOK
        <5>2. rows[x] <= tries[x] /\ rows'[x] <= rows[x] + 1
          BY <1>4, AppendFields DEF RowsInv
        <5> QED BY <5>1, <5>2, InvoiceAssumption
      <4>2. status'[x] \in Statuses
        BY <1>4, AppendFields
      <4>3. at'[x] = "append" => rows'[x] <= tries'[x]
        BY <2>2, <4>1
      <4> QED BY <2>2, <3>1, <4>2, <4>3
    <3>2. CASE y # x
      BY <1>4, <2>2, <3>2, AppendFields DEF RowsInv
    <3> QED BY <3>1, <3>2
  <2> QED BY <2>3, <2>4
<1>5. ASSUME NEW x \in Executions, TellResult(x) PROVE TypeInv'
  <2>1. status[x] \in Statuses /\ (Tell(x, status[x]) \/ UNCHANGED told)
    BY <1>5 DEF TellResult, RowsInv
  <2>2. "done" \in Nodes
    BY DEF Nodes, Ends
  <2>3. /\ at' \in [Executions -> Nodes] /\ tries' \in [Executions -> 0 .. MaxTries - 1]
        /\ at'[x] \in {"tell result", "done", "error"}
        /\ \A y \in Executions : y # x => at'[y] = at[y] /\ tries'[y] = tries[y]
    BY <1>5, <2>2, GoFields, TryFields DEF TellResult
  <2>4. TypeOK'
    BY <1>5, <2>1, <2>3, TellFields DEF TellResult, TypeOK, Nodes
  <2>5. RowsInv'
    BY <1>5, <2>3 DEF TellResult, RowsInv
  <2> QED BY <2>4, <2>5
<1>6. ASSUME NEW x \in Executions, TellRejected(x) \/ TellDuplicate(x) PROVE TypeInv'
  <2>1. PICK notice \in {"rejected", "duplicate"} : TellOnce(x, notice)
    BY <1>6 DEF TellRejected, TellDuplicate
  <2>2. PICK node \in {"done", "error"} : Go(x, node)
    BY <2>1 DEF TellOnce
  <2>3. node \in Nodes
    BY DEF Nodes, Ends
  <2>4. TypeOK'
    BY <1>6, <2>1, <2>2, <2>3, GoFields, TellFields
    DEF TellRejected, TellDuplicate, TellOnce, TypeOK, Nodes
  <2>5. RowsInv'
    BY <1>6, <2>1, <2>2, <2>3, GoFields DEF TellRejected, TellDuplicate, TellOnce, RowsInv
  <2> QED BY <2>4, <2>5
<1>7. ASSUME NEW x \in Executions, Crash(x) PROVE TypeInv'
  <2>1. "lost" \in Nodes
    BY DEF Nodes, Ends
  <2>2. TypeOK'
    BY <1>7, <2>1, GoFields DEF Crash, TypeOK, Nodes
  <2>3. RowsInv'
    BY <1>7, <2>1, GoFields DEF Crash, RowsInv
  <2> QED BY <2>2, <2>3
<1>8. CASE UNCHANGED vars
  BY <1>8 DEF vars, TypeOK, RowsInv
<1> QED BY <1>1, <1>2, <1>3, <1>4, <1>5, <1>6, <1>7, <1>8 DEF Next, Step

LEMMA TypeInvCorrect == Spec => []TypeInv
BY InitTypeInv, NextTypeInv, PTL DEF Spec

(* Every variable keeps to its type: no node is tried more than MaxTries   *)
(* times, and no execution has more rows than tries.                       *)
THEOREM TypeCorrect == Spec => []TypeOK
<1>1. TypeInv => TypeOK
  BY DEF TypeInv
<1> QED BY <1>1, TypeInvCorrect, PTL

-----------------------------------------------------------------------------
(* A step of one execution leaves what the others are.                     *)
LEMMA OthersKeep ==
  ASSUME TypeInv, NEW x \in Executions, Begin(x) \/ Step(x) \/ Crash(x),
         NEW y \in Executions, y # x
  PROVE  /\ at'[y] = at[y] /\ file'[y] = file[y] /\ status'[y] = status[y]
         /\ rows'[y] = rows[y] /\ told'[y] = told[y] /\ before'[y] = before[y]
         /\ y \in asked' <=> y \in asked
<1> USE DEF TypeInv
<1>1. at'[y] = at[y]
  BY DEF Begin, Step, FindHash, Extract, Append, TellResult, TellRejected, TellDuplicate,
         TellOnce, Crash, TryFails, Go, TypeOK
<1>2. file'[y] = file[y] /\ before'[y] = before[y] /\ (y \in asked' <=> y \in asked)
  BY DEF Begin, Step, FindHash, Extract, Append, TellResult, TellRejected, TellDuplicate,
         TellOnce, Crash, TypeOK
<1>3. status'[y] = status[y]
  <2>1. CASE Extract(x)
    BY <2>1 DEF Extract, TypeOK
  <2> QED BY <2>1 DEF Begin, Step, FindHash, Append, TellResult, TellRejected, TellDuplicate,
                      TellOnce, Crash, TypeOK
<1>4. rows'[y] = rows[y]
  <2>1. CASE Append(x)
    BY <2>1, AppendFields
  <2> QED BY <2>1 DEF Begin, Step, FindHash, Extract, TellResult, TellRejected, TellDuplicate,
                      TellOnce, Crash
<1>5. told'[y] = told[y]
  BY DEF Begin, Step, FindHash, Extract, Append, TellResult, TellRejected, TellDuplicate,
         TellOnce, Tell, Crash, TypeOK
<1> QED BY <1>1, <1>2, <1>3, <1>4, <1>5

(* An execution that ended stays as it is.                                 *)
LEMMA EndedStays ==
  ASSUME TypeInv, [Next]_vars, NEW y \in Executions, at[y] \in Ends
  PROVE  at'[y] = at[y] /\ file'[y] = file[y] /\ rows'[y] = rows[y]
<1>1. ASSUME NEW x \in Executions, Begin(x) \/ Step(x) \/ Crash(x) PROVE x # y
  BY <1>1 DEF Begin, Step, FindHash, Extract, Append, TellResult, TellRejected, TellDuplicate,
              Crash, Ends
<1>2. CASE UNCHANGED vars
  BY <1>2 DEF vars
<1> QED BY <1>1, <1>2, OthersKeep DEF Next

(* Who was found stored stays stored, for the same file.                   *)
LEMMA StoredStays ==
  ASSUME TypeInv, [Next]_vars, NEW y \in Executions, rows[y] > 0
  PROVE  rows'[y] > 0 /\ file'[y] = file[y]
<1>1. at[y] # "new"
  <2>1. at[y] = "new" => rows[y] = 0
    BY DEF TypeInv, RowsInv
  <2> QED BY <2>1
<1>2. ASSUME Append(y) PROVE rows'[y] > 0 /\ file'[y] = file[y]
  <2>1. rows[y] \in 0 .. MaxTries /\ rows'[y] \in 0 .. MaxTries
    BY <1>2, AppendFields DEF TypeInv, TypeOK
  <2>2. rows[y] <= rows'[y] /\ file' = file
    BY <1>2, AppendFields
  <2>3. rows'[y] > 0
    BY <2>1, <2>2, InvoiceAssumption
  <2> QED BY <2>2, <2>3
<1>3. ASSUME Begin(y) \/ Step(y) \/ Crash(y) PROVE rows'[y] > 0 /\ file'[y] = file[y]
  BY <1>1, <1>2, <1>3 DEF Begin, Step, FindHash, Extract, TellResult, TellRejected, TellDuplicate,
                     TellOnce, Crash
<1>4. ASSUME NEW x \in Executions, Begin(x) \/ Step(x) \/ Crash(x), x # y
      PROVE  rows'[y] > 0 /\ file'[y] = file[y]
  BY <1>4, OthersKeep
<1>5. CASE UNCHANGED vars
  BY <1>5 DEF vars
<1> QED BY <1>3, <1>4, <1>5 DEF Next

-----------------------------------------------------------------------------
(* Past the lookup an execution may be paid for and append.                *)
Spending == {"extract", "append", "tell result"}

(* A file that an execution before had stored is not past the lookup, and  *)
(* such executions have ended.                                             *)
FreeInv ==
  \A x \in Executions :
    /\ at[x] \in {"new", "find hash"} => x \notin asked
    /\ at[x] = "new" => before[x] = {}
    /\ \A y \in before[x] :
         /\ at[y] \in Ends
         /\ file[x] = file[y] /\ rows[y] > 0 =>
              x \notin asked /\ rows[x] = 0 /\ at[x] \notin Spending

LEMMA InitFreeInv == Init => FreeInv
BY DEF Init, FreeInv

(* What the execution itself does at a step.                               *)
LEMMA OwnStep ==
  ASSUME TypeInv, FreeInv, NEW x \in Executions, Step(x) \/ Crash(x)
  PROVE  /\ file'[x] = file[x] /\ before'[x] = before[x] /\ at[x] # "new"
         /\ at'[x] # "new" /\ (at'[x] = "find hash" => FALSE)
         /\ x \in asked' => x \in asked \/ at[x] \in Spending
         /\ rows'[x] # rows[x] => at[x] \in Spending
         /\ at'[x] \in Spending => at[x] \in Spending \/ (at[x] = "find hash" /\ ~ Known(file[x]))
<1> USE DEF TypeInv
<1>1. CASE FindHash(x)
  <2>1. \/ Known(file[x]) /\ at'[x] = "tell duplicate"
        \/ ~ Known(file[x]) /\ at'[x] = "extract"
        \/ at'[x] = "error"
    BY <1>1 DEF FindHash, Go, TypeOK
  <2> QED BY <1>1, <2>1 DEF FindHash, Spending
<1>2. CASE Extract(x)
  <2>1. at'[x] \in {"error", "append"}
    BY <1>2 DEF Extract, Go, TypeOK
  <2> QED BY <1>2, <2>1 DEF Extract, Spending
<1>3. CASE Append(x)
  <2>1. at[x] = "append" /\ at'[x] \in {"append", "error", "tell result"}
    BY <1>3 DEF Append, TryFails, Go, TypeOK
  <2> QED BY <1>3, <2>1 DEF Append, Spending
<1>4. CASE TellResult(x)
  <2>1. at[x] = "tell result" /\ at'[x] \in {"tell result", "error", "done"}
    BY <1>4 DEF TellResult, TryFails, Go, TypeOK
  <2> QED BY <1>4, <2>1 DEF TellResult, Spending
<1>5. CASE TellRejected(x) \/ TellDuplicate(x) \/ Crash(x)
  <2>1. at[x] # "new" /\ at'[x] \in {"error", "done", "lost"}
    BY <1>5 DEF TellRejected, TellDuplicate, TellOnce, Crash, Go, TypeOK
  <2> QED BY <1>5, <2>1 DEF TellRejected, TellDuplicate, TellOnce, Crash, Spending
<1> QED BY <1>1, <1>2, <1>3, <1>4, <1>5 DEF Step

LEMMA NextFreeInv == TypeInv /\ FreeInv /\ [Next]_vars => FreeInv'
<1> SUFFICES ASSUME TypeInv, FreeInv, [Next]_vars, NEW x \in Executions
             PROVE  FreeInv!(x)'
  BY DEF FreeInv
<1>1. \A y \in before[x] : y \in Executions
  BY DEF TypeInv, TypeOK
<1>2. \A y \in before[x] : at'[y] \in Ends /\ file'[y] = file[y] /\ rows'[y] = rows[y]
  BY <1>1, EndedStays DEF FreeInv
<1>3. CASE Begin(x)
  <2>1. at[x] = "new" /\ x \notin asked /\ rows[x] = 0 /\ asked' = asked /\ rows' = rows
    BY <1>3 DEF Begin, FreeInv, TypeInv, RowsInv
  <2>2. at'[x] \in {"tell rejected", "find hash"}
    BY <1>3 DEF Begin, Go, TypeInv, TypeOK
  <2>3. before'[x] = {y \in Executions : at[y] \in Ends}
    BY <1>3 DEF Begin, TypeInv, TypeOK
  <2>4. \A y \in before'[x] : at'[y] \in Ends
    BY <2>3, EndedStays
  <2> QED BY <2>1, <2>2, <2>4 DEF Spending
<1>4. CASE Step(x) \/ Crash(x)
  <2>1. ASSUME NEW y \in before[x], file[x] = file[y], rows[y] > 0
        PROVE  x \notin asked' /\ rows'[x] = 0 /\ at'[x] \notin Spending
    <3>1. x \notin asked /\ rows[x] = 0 /\ at[x] \notin Spending
      BY <2>1 DEF FreeInv
    <3>2. Known(file[x])
      BY <1>1, <2>1 DEF Known
    <3> QED BY <1>4, <3>1, <3>2, OwnStep
  <2> QED BY <1>2, <1>4, <2>1, OwnStep
<1>5. CASE \E z \in Executions : z # x /\ (Begin(z) \/ Step(z) \/ Crash(z))
  <2>1. /\ at'[x] = at[x] /\ file'[x] = file[x] /\ rows'[x] = rows[x]
        /\ before'[x] = before[x] /\ (x \in asked' <=> x \in asked)
    BY <1>5, OthersKeep
  <2> QED BY <1>2, <2>1 DEF FreeInv
<1>6. CASE UNCHANGED vars
  BY <1>6 DEF vars, FreeInv
<1> QED BY <1>3, <1>4, <1>5, <1>6 DEF Next

(* A file with a row of an execution that has ended is not paid for again  *)
(* and gets no other row ("Duplicate?"), whatever else runs at the time.   *)
THEOREM DuplicatesCostNothing == Spec => []DuplicatesAreFree
<1>1. TypeInv /\ FreeInv => DuplicatesAreFree
  BY DEF FreeInv, DuplicatesAreFree, TypeInv, TypeOK
<1> QED BY <1>1, InitFreeInv, NextFreeInv, TypeInvCorrect, PTL DEF Spec

-----------------------------------------------------------------------------
Stored(x) == \E y \in Executions \ {x} : file[y] = file[x] /\ rows[y] > 0

(* What an execution knows when it comes to a notice.                      *)
NoticeInv ==
  \A x \in Executions :
    /\ at[x] \in {"new", "find hash", "extract", "append", "tell rejected", "tell duplicate"}
         => told[x] = {}
    /\ at[x] = "tell result" => rows[x] > 0 /\ told[x] \subseteq {status[x]}
    /\ at[x] = "tell rejected" => file[x] = None
    /\ at[x] = "tell duplicate" => Stored(x)

LEMMA InitNoticeInv == Init => NoticeInv /\ NoticesMatchSheet
BY DEF Init, NoticeInv, NoticesMatchSheet

(* What an execution has been told stays true while others go on.          *)
LEMMA StoredKept ==
  ASSUME TypeInv, [Next]_vars, NEW x \in Executions, Stored(x), file'[x] = file[x]
  PROVE  Stored(x)'
BY StoredStays DEF Stored

LEMMA NextNoticeInv ==
  TypeInv /\ NoticeInv /\ NoticesMatchSheet /\ [Next]_vars => (NoticeInv /\ NoticesMatchSheet)'
<1> SUFFICES ASSUME TypeInv, NoticeInv, NoticesMatchSheet, [Next]_vars, NEW x \in Executions
             PROVE  NoticeInv!(x)' /\ NoticesMatchSheet!(x)'
  BY DEF NoticeInv, NoticesMatchSheet
<1> DEFINE Told ==
      /\ told[x] \subseteq {status[x]} \/ told[x] \in {{"duplicate"}, {"rejected"}}
      /\ told[x] \cap Statuses # {} => rows[x] > 0
      /\ "duplicate" \in told[x] => Stored(x)
      /\ "rejected" \in told[x] => file[x] = None
<1>1. Told
  BY DEF NoticesMatchSheet, Stored
<1>2. ASSUME Told' PROVE NoticesMatchSheet!(x)'
  BY <1>2 DEF Stored
<1>3. CASE Begin(x)
  <2>1. at[x] = "new" /\ told[x] = {} /\ told' = told
    BY <1>3 DEF Begin, NoticeInv
  <2>2. \/ at'[x] = "tell rejected" /\ file'[x] = None
        \/ at'[x] = "find hash"
    BY <1>3 DEF Begin, Go, TypeInv, TypeOK
  <2> QED BY <1>2, <2>1, <2>2
<1>4. CASE FindHash(x)
  <2>1. at[x] = "find hash" /\ told[x] = {} /\ told' = told /\ file' = file /\ rows[x] = 0
    BY <1>4 DEF FindHash, NoticeInv, TypeInv, RowsInv
  <2>2. \/ at'[x] = "tell duplicate" /\ Known(file[x])
        \/ at'[x] \in {"extract", "error"}
    BY <1>4 DEF FindHash, Go, TypeInv, TypeOK
  <2>3. Known(file[x]) => Stored(x)'
    <3>1. ASSUME NEW y \in Executions, rows[y] > 0 PROVE y # x
      <4>1. rows[x] = 0
        BY <2>1
      <4> QED BY <3>1, <4>1
    <3>2. Known(file[x]) => Stored(x)
      BY <3>1 DEF Known, Stored
    <3> QED BY <2>1, <3>2, StoredKept
  <2> QED BY <1>2, <2>1, <2>2, <2>3
<1>5. CASE Extract(x)
  <2>1. told[x] = {} /\ told' = told
    BY <1>5 DEF Extract, NoticeInv
  <2>2. at'[x] \in {"error", "append"}
    BY <1>5 DEF Extract, Go, TypeInv, TypeOK
  <2> QED BY <1>2, <2>1, <2>2
<1>6. CASE Append(x)
  <2>1. told[x] = {} /\ told' = told
    BY <1>6 DEF Append, NoticeInv
  <2>2. at'[x] \in {"error", "append"} \/ (at'[x] = "tell result" /\ Go(x, "tell result"))
    BY <1>6 DEF Append, TryFails, Go, TypeInv, TypeOK
  <2>3. at'[x] = "tell result" => rows'[x] > 0
    BY <1>6, <2>2, AppendFields
  <2> QED BY <1>2, <2>1, <2>2, <2>3
<1>7. CASE TellResult(x)
  <2>1. /\ at[x] = "tell result" /\ status[x] \in Statuses /\ rows[x] > 0
        /\ told[x] \subseteq {status[x]} /\ rows' = rows /\ status' = status
    BY <1>7 DEF TellResult, NoticeInv, TypeInv, RowsInv
  <2>2. told'[x] \subseteq {status[x]}
    BY <1>7, <2>1, TellFields DEF TellResult, TypeInv
  <2>3. at'[x] \in {"tell result", "error", "done"}
    BY <1>7 DEF TellResult, TryFails, Go, TypeInv, TypeOK
  <2>4. "duplicate" \notin told'[x] /\ "rejected" \notin told'[x]
    BY <2>1, <2>2 DEF Statuses
  <2>5. Told'
    BY <2>1, <2>2, <2>4
  <2> HIDE DEF Told
  <2> QED BY <1>2, <2>1, <2>2, <2>3, <2>5
<1>8. CASE TellRejected(x)
  <2>1. /\ file[x] = None /\ told[x] = {} /\ file' = file
        /\ Tell(x, "rejected") \/ UNCHANGED told
    BY <1>8 DEF TellRejected, TellOnce, NoticeInv
  <2>2. told'[x] \in {{}, {"rejected"}}
    BY <2>1, TellFields DEF TypeInv
  <2>3. at'[x] \in {"error", "done"}
    BY <1>8 DEF TellRejected, TellOnce, Go, TypeInv, TypeOK
  <2>4. Told'
    <3>1. CASE told'[x] = {}
      BY <3>1
    <3>2. CASE told'[x] = {"rejected"}
      <4>1. told'[x] \cap Statuses = {} /\ "duplicate" \notin told'[x]
        BY <3>2 DEF Statuses
      <4> QED BY <2>1, <3>2, <4>1
    <3> QED BY <2>2, <3>1, <3>2
  <2> HIDE DEF Told
  <2> QED BY <1>2, <2>3, <2>4
<1>9. CASE TellDuplicate(x)
  <2>1. /\ Stored(x) /\ told[x] = {} /\ file' = file
        /\ Tell(x, "duplicate") \/ UNCHANGED told
    BY <1>9 DEF TellDuplicate, TellOnce, NoticeInv
  <2>2. told'[x] \in {{}, {"duplicate"}}
    BY <2>1, TellFields DEF TypeInv
  <2>3. at'[x] \in {"error", "done"}
    BY <1>9 DEF TellDuplicate, TellOnce, Go, TypeInv, TypeOK
  <2>4. Stored(x)'
    BY <2>1, StoredKept
  <2>5. Told'
    <3>1. CASE told'[x] = {}
      BY <3>1
    <3>2. CASE told'[x] = {"duplicate"}
      <4>1. told'[x] \cap Statuses = {} /\ "rejected" \notin told'[x]
        BY <3>2 DEF Statuses
      <4> QED BY <2>4, <3>2, <4>1
    <3> QED BY <2>2, <3>1, <3>2
  <2> HIDE DEF Told
  <2> QED BY <1>2, <2>3, <2>5
<1>10. ASSUME file'[x] = file[x], rows'[x] = rows[x], status'[x] = status[x],
              told'[x] = told[x], at'[x] \in {at[x], "lost"}
       PROVE  NoticeInv!(x)' /\ NoticesMatchSheet!(x)'
  <2>1. Stored(x) => Stored(x)'
    BY <1>10, StoredKept
  <2>2. Told'
    BY <1>1, <1>10, <2>1
  <2> HIDE DEF Told
  <2> QED BY <1>2, <1>10, <2>1, <2>2 DEF NoticeInv
<1>11. CASE Crash(x)
  <2>1. at'[x] = "lost"
    BY <1>11 DEF Crash, Go, TypeInv, TypeOK
  <2> QED BY <1>10, <1>11, <2>1 DEF Crash
<1>12. CASE \E z \in Executions : z # x /\ (Begin(z) \/ Step(z) \/ Crash(z))
  BY <1>10, <1>12, OthersKeep
<1>13. CASE UNCHANGED vars
  BY <1>10, <1>13 DEF vars
<1> QED
  BY <1>3, <1>4, <1>5, <1>6, <1>7, <1>8, <1>9, <1>11, <1>12, <1>13 DEF Next, Step

(* What the operator reads of an upload agrees with the sheet, however     *)
(* often a notice was sent and whatever failed ("Notify ..." nodes).       *)
THEOREM NoticesAreTrue == Spec => []NoticesMatchSheet
BY InitNoticeInv, NextNoticeInv, TypeInvCorrect, PTL DEF Spec
=============================================================================
