------------------------- MODULE LeadRoutingProofs --------------------------
(***************************************************************************)
(* Theorems about LeadRouting, for any requests, keys, addresses and tries.*)
(***************************************************************************)
EXTENDS LeadRouting, TLAPS

Nodes == Ends \cup {"new", "find key", "extract", "upsert", "act", "audit", "audit failure"}
Working == {"upsert", "act", "audit", "audit failure"}

(* What the place of a request says of the model and of the CRM.           *)
PathInv ==
  \A r \in Requests :
    /\ at[r] \in {"new", "find key"} => r \notin paid
    /\ at[r] \in Working => r \in paid
    /\ at[r] \in {"act", "audit", "202 accepted"} => r \in stored

TypeInv == TypeOK /\ PathInv

LEMMA InitTypeInv == Init => TypeInv
<1> SUFFICES ASSUME Init PROVE TypeInv
  OBVIOUS
<1>1. 0 \in 0 .. MaxTries - 1
  BY LeadAssumption
<1> QED BY <1>1 DEF Init, TypeInv, TypeOK, PathInv, Working

-----------------------------------------------------------------------------
LEMMA AtType == TypeOK => at \in [Requests -> Nodes] /\ tries \in [Requests -> 0 .. MaxTries - 1]
BY DEF TypeOK, Nodes

(* Where a step leaves the request that takes it, and all others.          *)
LEMMA GoFields ==
  ASSUME TypeOK, NEW r \in Requests, NEW node \in Nodes, Go(r, node)
  PROVE  /\ at' \in [Requests -> Nodes] /\ tries' \in [Requests -> 0 .. MaxTries - 1]
         /\ at'[r] = node
         /\ \A q \in Requests : q # r => at'[q] = at[q]
<1>1. 0 \in 0 .. MaxTries - 1
  BY LeadAssumption
<1> QED BY <1>1, AtType DEF Go

LEMMA TryFields ==
  ASSUME TypeOK, NEW r \in Requests, NEW next \in Nodes, TryFails(r, next)
  PROVE  /\ at' \in [Requests -> Nodes] /\ tries' \in [Requests -> 0 .. MaxTries - 1]
         /\ at'[r] = at[r] \/ at'[r] = next
         /\ \A q \in Requests : q # r => at'[q] = at[q]
<1>1. CASE Go(r, next)
  BY <1>1, GoFields
<1>2. CASE /\ tries[r] + 1 < MaxTries
           /\ tries' = [tries EXCEPT ![r] = @ + 1]
           /\ UNCHANGED at
  <2>1. tries[r] + 1 \in 0 .. MaxTries - 1
    BY <1>2, AtType, LeadAssumption
  <2> QED BY <1>2, <2>1, AtType
<1> QED BY <1>1, <1>2 DEF TryFails

Row(r, status) == [request |-> r, key |-> key[r], status |-> status]

(* An append adds the row or does not; it is answered only when it did.    *)
LEMMA AppendFields ==
  ASSUME TypeOK, NEW r \in Requests, NEW status, NEW answer \in Nodes,
         Append(r, status, answer)
  PROVE  /\ at' \in [Requests -> Nodes] /\ tries' \in [Requests -> 0 .. MaxTries - 1]
         /\ at'[r] \in {at[r], answer, "error"}
         /\ at'[r] = answer => at[r] = answer \/ answer = "error" \/ Row(r, status) \in rows'
         /\ \A q \in Requests : q # r => at'[q] = at[q]
         /\ rows' \in {rows, rows \cup {Row(r, status)}}
         /\ UNCHANGED <<key, email, contact, paid, stored, before>>
<1>0. "error" \in Nodes
  BY DEF Nodes, Ends
<1>1. CASE rows' = rows \cup {Row(r, status)} /\ Go(r, answer)
  BY <1>1, GoFields DEF Append
<1>2. CASE rows' \in {rows, rows \cup {Row(r, status)}} /\ TryFails(r, "error")
  BY <1>0, <1>2, TryFields DEF Append
<1> QED BY <1>1, <1>2 DEF Append, Row

(* An upsert stores the request's data or leaves the CRM alone; it goes on *)
(* only when it stored them.                                               *)
LEMMA UpsertFields ==
  ASSUME TypeOK, NEW r \in Requests, Upsert(r)
  PROVE  /\ at' \in [Requests -> Nodes] /\ tries' \in [Requests -> 0 .. MaxTries - 1]
         /\ at[r] = "upsert" /\ at'[r] \in {"upsert", "act", "audit failure"}
         /\ at'[r] = "act" => r \in stored'
         /\ \A q \in Requests : q # r => at'[q] = at[q]
         /\ \/ contact' = [contact EXCEPT ![email[r]] = r] /\ stored' = stored \cup {r}
            \/ contact' = contact /\ stored' = stored
         /\ UNCHANGED <<key, email, rows, paid, before>>
<1>0. "act" \in Nodes /\ "audit failure" \in Nodes
  BY DEF Nodes
<1>1. CASE Store(r) /\ Go(r, "act")
  BY <1>0, <1>1, GoFields DEF Upsert, Store
<1>2. CASE (Store(r) \/ UNCHANGED <<contact, stored>>) /\ TryFails(r, "audit failure")
  BY <1>0, <1>2, TryFields DEF Upsert, Store
<1> QED BY <1>1, <1>2 DEF Upsert

LEMMA NextTypeInv == TypeInv /\ [Next]_vars => TypeInv'
<1> SUFFICES ASSUME TypeInv, [Next]_vars PROVE TypeInv'
  OBVIOUS
<1> USE DEF TypeInv
<1>0. /\ at' \in [Requests -> Nodes] /\ tries' \in [Requests -> 0 .. MaxTries - 1]
      /\ UNCHANGED <<key, email, rows, contact, before>>
      /\ stored' \subseteq paid' /\ paid' \subseteq Requests
      => TypeOK'
  BY DEF TypeOK, Nodes
<1>1. ASSUME NEW r \in Requests, Submit(r) PROVE TypeInv'
  <2>1. PICK node \in {"find key", "400 invalid", "422 no consent"} : Go(r, node)
    BY <1>1 DEF Submit
  <2>2. node \in Nodes
    BY DEF Nodes, Ends, Answers
  <2>3. before' \in [Requests -> SUBSET Requests]
    BY <1>1 DEF Submit, TypeOK, Ended
  <2>4. TypeOK'
    BY <1>1, <2>1, <2>2, <2>3, GoFields DEF Submit, TypeOK, Nodes
  <2>5. PathInv'
    BY <1>1, <2>1, <2>2, GoFields DEF Submit, PathInv, Working
  <2> QED BY <2>4, <2>5
<1>2. ASSUME NEW r \in Requests, FindKey(r) PROVE TypeInv'
  <2>1. PICK node \in {"200 duplicate", "extract", "error"} : Go(r, node)
    BY <1>2 DEF FindKey
  <2>2. node \in Nodes
    BY DEF Nodes, Ends, Answers
  <2>3. TypeOK'
    BY <1>0, <1>2, <2>1, <2>2, GoFields DEF FindKey, TypeOK
  <2>4. PathInv'
    BY <1>2, <2>1, <2>2, GoFields DEF FindKey, PathInv, Working
  <2> QED BY <2>3, <2>4
<1>3. ASSUME NEW r \in Requests, Extract(r) PROVE TypeInv'
  <2>1. "upsert" \in Nodes
    BY DEF Nodes
  <2>2. TypeOK'
    BY <1>0, <1>3, <2>1, GoFields DEF Extract, TypeOK
  <2>3. PathInv'
    BY <1>3, <2>1, GoFields DEF Extract, PathInv, Working
  <2> QED BY <2>2, <2>3
<1>4. ASSUME NEW r \in Requests, Upsert(r) PROVE TypeInv'
  <2>1. r \in paid /\ email[r] \in Emails
    BY <1>4 DEF Upsert, PathInv, Working, TypeOK
  <2>2. \/ contact' = [contact EXCEPT ![email[r]] = r] /\ stored' = stored \cup {r}
        \/ contact' = contact /\ stored' = stored
    BY <1>4, UpsertFields
  <2>3. contact' \in [Emails -> Requests \cup {None}] /\ stored' \subseteq paid
    BY <2>1, <2>2 DEF TypeOK
  <2>4. TypeOK'
    BY <1>4, <2>3, UpsertFields DEF TypeOK, Nodes
  <2>5. PathInv'
    BY <1>4, <2>1, UpsertFields DEF PathInv, Working
  <2> QED BY <2>4, <2>5
<1>5. ASSUME NEW r \in Requests, Act(r) PROVE TypeInv'
  <2>1. "audit" \in Nodes
    BY DEF Nodes
  <2>2. TypeOK'
    BY <1>0, <1>5, <2>1, GoFields DEF Act, TypeOK
  <2>3. PathInv'
    BY <1>5, <2>1, GoFields DEF Act, PathInv, Working
  <2> QED BY <2>2, <2>3
<1>6. ASSUME NEW r \in Requests, Audit(r) \/ AuditFailure(r) PROVE TypeInv'
  <2>1. PICK status \in {"completed", "failed"}, answer \in {"202 accepted", "503 failed"} :
          /\ Append(r, status, answer)
          /\ at[r] = "audit" \/ (at[r] = "audit failure" /\ answer = "503 failed")
    BY <1>6 DEF Audit, AuditFailure
  <2>2. answer \in Nodes
    BY DEF Nodes, Ends, Answers
  <2>3. Row(r, status) \in [request : Requests, key : Keys, status : {"completed", "failed"}]
    BY DEF Row, TypeOK
  <2>4. rows' \subseteq [request : Requests, key : Keys, status : {"completed", "failed"}]
    <3>1. rows' \in {rows, rows \cup {Row(r, status)}}
      BY <2>1, <2>2, AppendFields
    <3>2. rows \subseteq [request : Requests, key : Keys, status : {"completed", "failed"}]
      BY DEF TypeOK
    <3>3. ASSUME NEW row \in rows'
          PROVE  row \in [request : Requests, key : Keys, status : {"completed", "failed"}]
      BY <2>3, <3>1, <3>2
    <3> QED BY <3>3
  <2>5. TypeOK'
    BY <2>1, <2>2, <2>4, AppendFields DEF TypeOK, Nodes
  <2>6. PathInv'
    BY <2>1, <2>2, AppendFields DEF PathInv, Working
  <2> QED BY <2>5, <2>6
<1>7. ASSUME NEW r \in Requests, Crash(r) PROVE TypeInv'
  <2>1. "lost" \in Nodes
    BY DEF Nodes, Ends
  <2>2. TypeOK'
    BY <1>0, <1>7, <2>1, GoFields DEF Crash, TypeOK
  <2>3. PathInv'
    BY <1>7, <2>1, GoFields DEF Crash, PathInv, Working
  <2> QED BY <2>2, <2>3
<1>8. CASE UNCHANGED vars
  BY <1>8 DEF vars, TypeOK, PathInv
<1> QED BY <1>1, <1>2, <1>3, <1>4, <1>5, <1>6, <1>7, <1>8 DEF Next, Step

LEMMA TypeInvCorrect == Spec => []TypeInv
BY InitTypeInv, NextTypeInv, PTL DEF Spec

(* Every variable keeps to its type: no node is tried more than MaxTries   *)
(* times, and only what was extracted and scored reaches the CRM.          *)
THEOREM TypeCorrect == Spec => []TypeOK
<1>1. TypeInv => TypeOK
  BY DEF TypeInv
<1> QED BY <1>1, TypeInvCorrect, PTL

-----------------------------------------------------------------------------
(* What a step of one request leaves as it is.                             *)
LEMMA OthersKeep ==
  ASSUME TypeInv, NEW r \in Requests, Submit(r) \/ Step(r) \/ Crash(r),
         NEW q \in Requests, q # r
  PROVE  /\ at'[q] = at[q] /\ before'[q] = before[q]
         /\ q \in paid' <=> q \in paid
         /\ q \in stored' <=> q \in stored
<1> USE DEF TypeInv
<1>1. CASE Upsert(r)
  BY <1>1, UpsertFields
<1>2. CASE Audit(r) \/ AuditFailure(r)
  <2>1. "202 accepted" \in Nodes /\ "503 failed" \in Nodes
    BY DEF Nodes, Ends, Answers
  <2> QED BY <1>2, <2>1, AppendFields DEF Audit, AuditFailure
<1>3. CASE Submit(r) \/ FindKey(r) \/ Extract(r) \/ Act(r) \/ Crash(r)
  BY <1>3 DEF Submit, FindKey, Extract, Act, Crash, Go, TypeOK
<1> QED BY <1>1, <1>2, <1>3 DEF Step

(* A row that is written belongs to the request that writes it, which is   *)
(* at one of its audits.                                                   *)
LEMMA RowsFields ==
  ASSUME TypeInv, NEW r \in Requests, Submit(r) \/ Step(r) \/ Crash(r)
  PROVE  /\ key' = key /\ email' = email
         /\ \/ rows' = rows
            \/ at[r] = "audit" /\ rows' = rows \cup {Row(r, "completed")}
            \/ at[r] = "audit failure" /\ rows' = rows \cup {Row(r, "failed")}
<1>1. CASE Audit(r) \/ AuditFailure(r)
  <2>1. "202 accepted" \in Nodes /\ "503 failed" \in Nodes /\ TypeOK
    BY DEF Nodes, Ends, Answers, TypeInv
  <2> QED BY <1>1, <2>1, AppendFields DEF Audit, AuditFailure
<1>2. CASE Upsert(r)
  BY <1>2 DEF Upsert
<1>3. CASE Submit(r) \/ FindKey(r) \/ Extract(r) \/ Act(r) \/ Crash(r)
  BY <1>3 DEF Submit, FindKey, Extract, Act, Crash
<1> QED BY <1>1, <1>2, <1>3 DEF Step

(* Nothing moves in a request that has ended, and it writes no more rows.  *)
LEMMA EndedStays ==
  ASSUME TypeInv, [Next]_vars, NEW q \in Requests, at[q] \in Ends
  PROVE  at'[q] = at[q] /\ Rows(q)' = Rows(q) /\ key' = key
<1>1. CASE UNCHANGED vars
  BY <1>1 DEF vars, Rows
<1>2. ASSUME NEW r \in Requests, Submit(r) \/ Step(r) \/ Crash(r)
      PROVE  at'[q] = at[q] /\ Rows(q)' = Rows(q) /\ key' = key
  <2>1. r # q
    BY <1>2 DEF Submit, Step, FindKey, Extract, Upsert, Act, Audit, AuditFailure, Crash,
                Ends, Answers
  <2>2. rows' = rows \/ \E status : rows' = rows \cup {Row(r, status)}
    BY <1>2, RowsFields
  <2>3. Rows(q)' = Rows(q)
    <3>1. \A status : Row(r, status).request # q
      BY <2>1 DEF Row
    <3> QED BY <2>2, <3>1 DEF Rows
  <2> QED BY <1>2, <2>1, <2>3, OthersKeep, RowsFields
<1> QED BY <1>1, <1>2 DEF Next

-----------------------------------------------------------------------------
(* What rows and answers say of each other and of the CRM.                 *)
RecordInv ==
  /\ \A row \in rows :
       /\ row.key = key[row.request]
       /\ row.status = "completed" => row.request \in stored
  /\ \A r \in Requests :
       /\ at[r] \in {"new", "find key"} => Rows(r) = {}
       /\ at[r] = "202 accepted" => Row(r, "completed") \in rows
       /\ at[r] = "503 failed" => Row(r, "failed") \in rows
       /\ at[r] = "200 duplicate" => \E s \in Requests \ {r} : key[s] = key[r] /\ Rows(s) # {}

LEMMA InitRecordInv == Init => RecordInv
BY DEF Init, RecordInv, Rows, Answers

(* No step removes a row or a request from the CRM, or changes a key.      *)
LEMMA Growing ==
  ASSUME TypeInv, [Next]_vars
  PROVE  rows \subseteq rows' /\ stored \subseteq stored' /\ key' = key
<1>1. ASSUME NEW r \in Requests, Upsert(r) PROVE stored \subseteq stored'
  BY <1>1, UpsertFields DEF TypeInv
<1>2. ASSUME NEW r \in Requests, Submit(r) \/ Step(r) \/ Crash(r)
      PROVE  rows \subseteq rows' /\ stored \subseteq stored' /\ key' = key
  BY <1>1, <1>2, RowsFields
  DEF Submit, Step, FindKey, Extract, Act, Audit, AuditFailure, Append, Crash
<1>3. CASE UNCHANGED vars
  BY <1>3 DEF vars
<1> QED BY <1>2, <1>3 DEF Next

LEMMA NextRecordInv == TypeInv /\ RecordInv /\ [Next]_vars => RecordInv'
<1> SUFFICES ASSUME TypeInv, RecordInv, [Next]_vars PROVE RecordInv'
  OBVIOUS
<1>1. ASSUME NEW row \in rows'
      PROVE  row.key = key'[row.request] /\ (row.status = "completed" => row.request \in stored')
  <2>1. CASE row \in rows
    BY <2>1, Growing DEF RecordInv
  <2>2. ASSUME NEW r \in Requests, at[r] \in {"audit", "audit failure"},
               row = Row(r, IF at[r] = "audit" THEN "completed" ELSE "failed")
        PROVE  row.key = key[row.request] /\ (row.status = "completed" => row.request \in stored)
    BY <2>2 DEF Row, TypeInv, PathInv
  <2>3. row \in rows \/ \E r \in Requests :
          /\ at[r] \in {"audit", "audit failure"}
          /\ row = Row(r, IF at[r] = "audit" THEN "completed" ELSE "failed")
    <3>1. CASE UNCHANGED vars
      BY <3>1 DEF vars
    <3>2. ASSUME NEW r \in Requests, Submit(r) \/ Step(r) \/ Crash(r)
          PROVE  row \in rows \/
                   (/\ at[r] \in {"audit", "audit failure"}
                    /\ row = Row(r, IF at[r] = "audit" THEN "completed" ELSE "failed"))
      BY <3>2, RowsFields
    <3> QED BY <3>1, <3>2 DEF Next
  <2> QED BY <2>1, <2>2, <2>3, Growing
<1>2. ASSUME NEW r \in Requests
      PROVE  /\ at'[r] \in {"new", "find key"} => Rows(r)' = {}
             /\ at'[r] = "202 accepted" => Row(r, "completed")' \in rows'
             /\ at'[r] = "503 failed" => Row(r, "failed")' \in rows'
             /\ at'[r] = "200 duplicate" =>
                  \E s \in Requests \ {r} : key'[s] = key'[r] /\ Rows(s)' # {}
  <2>1. /\ \A status : Row(r, status)' = Row(r, status)
        /\ \A status : Row(r, status) \in rows => Row(r, status)' \in rows'
    BY Growing DEF Row
  <2>2. ASSUME NEW s \in Requests, Rows(s) # {} PROVE Rows(s)' # {}
    BY <2>2, Growing DEF Rows
  <2>3. CASE at'[r] = at[r] /\ Rows(r)' = Rows(r)
    BY <2>1, <2>2, <2>3, Growing DEF RecordInv
  <2>4. CASE Submit(r)
    <3>1. at[r] = "new" /\ rows' = rows
      BY <2>4 DEF Submit
    <3>2. at'[r] \in {"find key", "400 invalid", "422 no consent"}
      BY <2>4 DEF Submit, Go, TypeInv, TypeOK
    <3> QED BY <3>1, <3>2 DEF RecordInv, Rows
  <2>5. CASE FindKey(r)
    <3>1. at[r] = "find key" /\ Rows(r) = {}
      BY <2>5 DEF FindKey, RecordInv
    <3>2. at'[r] \in {"extract", "error"} \/ (at'[r] = "200 duplicate" /\ Known(r))
      BY <2>5 DEF FindKey, Go, TypeInv, TypeOK
    <3>3. Known(r) => \E s \in Requests \ {r} : key[s] = key[r] /\ Rows(s) # {}
      <4>1. ASSUME NEW row \in rows, row.key = key[r]
            PROVE  /\ row.request \in Requests \ {r} /\ key[row.request] = key[r]
                   /\ Rows(row.request) # {}
        <5>1. row.request \in Requests /\ row.key = key[row.request]
          BY DEF RecordInv, TypeInv, TypeOK
        <5>2. row \in Rows(row.request)
          BY DEF Rows
        <5> QED BY <3>1, <4>1, <5>1, <5>2
      <4> QED BY <4>1 DEF Known
    <3> QED BY <2>2, <3>2, <3>3, Growing
  <2>6. CASE Upsert(r) \/ Extract(r) \/ Act(r) \/ Crash(r)
    <3>1. at'[r] \in {"upsert", "act", "audit", "audit failure", "lost"}
      BY <2>6, UpsertFields DEF Extract, Act, Crash, Go, TypeInv, TypeOK
    <3> QED BY <3>1
  <2>7. CASE Audit(r)
    <3>1. "202 accepted" \in Nodes /\ TypeOK
      BY DEF Nodes, Ends, Answers, TypeInv
    <3>2. at'[r] \in {"audit", "error"} \/ (at'[r] = "202 accepted" /\ Row(r, "completed") \in rows')
      BY <2>7, <3>1, AppendFields DEF Audit
    <3> QED BY <2>1, <3>2
  <2>8. CASE AuditFailure(r)
    <3>1. "503 failed" \in Nodes /\ TypeOK
      BY DEF Nodes, Ends, Answers, TypeInv
    <3>2. at'[r] \in {"audit failure", "error"} \/ (at'[r] = "503 failed" /\ Row(r, "failed") \in rows')
      BY <2>8, <3>1, AppendFields DEF AuditFailure
    <3> QED BY <2>1, <3>2
  <2>9. CASE \E q \in Requests : q # r /\ (Submit(q) \/ Step(q) \/ Crash(q))
    <3>1. PICK q \in Requests : q # r /\ (Submit(q) \/ Step(q) \/ Crash(q))
      BY <2>9
    <3>2. rows' = rows \/ \E status : rows' = rows \cup {Row(q, status)}
      BY <3>1, RowsFields
    <3>3. \A status : Row(q, status).request # r
      BY <3>1 DEF Row
    <3>4. Rows(r)' = Rows(r)
      BY <3>2, <3>3 DEF Rows
    <3> QED BY <2>3, <3>1, <3>4, OthersKeep
  <2>10. CASE UNCHANGED vars
    BY <2>3, <2>10 DEF vars, Rows
  <2> QED BY <2>4, <2>5, <2>6, <2>7, <2>8, <2>9, <2>10 DEF Next, Step
<1> QED BY <1>1, <1>2 DEF RecordInv

LEMMA RecordInvCorrect == Spec => []RecordInv
BY InitRecordInv, NextRecordInv, TypeInvCorrect, PTL DEF Spec

(* 202 and 200 are answered only with a row in the sheet, 503 only with a  *)
(* failed one, and a completed row's lead is in the CRM ("Respond - ...",  *)
(* "Append Lead Audit").                                                   *)
THEOREM AnswersHaveRows == Spec => []AnswersAreRecorded
<1>1. TypeInv /\ RecordInv => AnswersAreRecorded
  <2> SUFFICES ASSUME TypeInv, RecordInv PROVE AnswersAreRecorded
    OBVIOUS
  <2>1. ASSUME NEW r \in Requests, NEW status, Row(r, status) \in rows
        PROVE  \E row \in Rows(r) : row.status = status
    BY <2>1 DEF Row, Rows
  <2> QED BY <2>1 DEF RecordInv, AnswersAreRecorded
<1> QED BY <1>1, RecordInvCorrect, TypeInvCorrect, PTL

-----------------------------------------------------------------------------
(* A request of a key for which a request before it left a row does not    *)
(* come past the lookup; the requests before have ended.                   *)
FreeInv ==
  \A r \in Requests :
    /\ at[r] = "new" => before[r] = {}
    /\ \A s \in before[r] :
         /\ at[s] \in Ends
         /\ key[s] = key[r] /\ Rows(s) # {} => r \notin paid /\ at[r] # "extract"

LEMMA InitFreeInv == Init => FreeInv
BY DEF Init, FreeInv

LEMMA NextFreeInv == TypeInv /\ RecordInv /\ FreeInv /\ [Next]_vars => FreeInv'
<1> SUFFICES ASSUME TypeInv, RecordInv, FreeInv, [Next]_vars, NEW r \in Requests
             PROVE  FreeInv!(r)'
  BY DEF FreeInv
<1>1. \A s \in before[r] : s \in Requests
  BY DEF TypeInv, TypeOK
<1>2. \A s \in before[r] : at'[s] \in Ends /\ Rows(s)' = Rows(s) /\ key' = key
  BY <1>1, EndedStays DEF FreeInv
<1>3. CASE Submit(r)
  <2>1. at[r] = "new" /\ r \notin paid /\ paid' = paid
    BY <1>3 DEF Submit, TypeInv, PathInv
  <2>2. at'[r] \in {"find key", "400 invalid", "422 no consent"}
    BY <1>3 DEF Submit, Go, TypeInv, TypeOK
  <2>3. before'[r] = {s \in Requests : at[s] \in Ends}
    BY <1>3 DEF Submit, Ended, TypeInv, TypeOK
  <2>4. \A s \in before'[r] : at'[s] \in Ends
    BY <2>3, EndedStays
  <2> QED BY <2>1, <2>2, <2>4
<1>4. CASE FindKey(r)
  <2>1. at[r] = "find key" /\ r \notin paid /\ paid' = paid /\ before' = before
    BY <1>4 DEF FindKey, TypeInv, PathInv
  <2>2. at'[r] \in {"200 duplicate", "error"} \/ (at'[r] = "extract" /\ ~ Known(r))
    BY <1>4 DEF FindKey, Go, TypeInv, TypeOK
  <2>3. ASSUME NEW s \in before[r], key[s] = key[r], Rows(s) # {} PROVE Known(r)
    <3>1. PICK row \in rows : row.request = s
      BY <2>3 DEF Rows
    <3>2. row.key = key[s]
      BY <3>1 DEF RecordInv
    <3> QED BY <2>3, <3>1, <3>2 DEF Known
  <2> QED BY <1>2, <2>1, <2>2, <2>3
<1>5. CASE Extract(r)
  <2>1. at[r] = "extract" /\ before' = before
    BY <1>5 DEF Extract
  <2>2. at'[r] = "upsert"
    BY <1>5 DEF Extract, Go, TypeInv, TypeOK
  <2> QED BY <1>2, <2>1, <2>2 DEF FreeInv
<1>6. CASE Upsert(r) \/ Act(r) \/ Audit(r) \/ AuditFailure(r) \/ Crash(r)
  <2>1. before' = before /\ paid' = paid /\ at[r] # "new"
    BY <1>6 DEF Upsert, Act, Audit, AuditFailure, Append, Crash
  <2>2. at'[r] # "extract" /\ at'[r] # "new"
    <3>1. CASE Upsert(r)
      BY <3>1, UpsertFields DEF TypeInv
    <3>2. CASE Audit(r) \/ AuditFailure(r)
      BY <3>2 DEF Audit, AuditFailure, Append, TryFails, Go, TypeInv, TypeOK
    <3>3. CASE Act(r) \/ Crash(r)
      BY <3>3 DEF Act, Crash, Go, TypeInv, TypeOK
    <3> QED BY <1>6, <3>1, <3>2, <3>3
  <2> QED BY <1>2, <2>1, <2>2 DEF FreeInv
<1>7. CASE \E q \in Requests : q # r /\ (Submit(q) \/ Step(q) \/ Crash(q))
  <2>1. at'[r] = at[r] /\ before'[r] = before[r] /\ (r \in paid' <=> r \in paid)
    BY <1>7, OthersKeep
  <2> QED BY <1>2, <2>1 DEF FreeInv
<1>8. CASE UNCHANGED vars
  BY <1>2, <1>8 DEF vars, FreeInv
<1> QED BY <1>3, <1>4, <1>5, <1>6, <1>7, <1>8 DEF Next, Step

(* A repeated request of a key that left a row, completed or failed, is    *)
(* neither paid for nor acted upon ("Duplicate Request?").                 *)
THEOREM RepeatsCostNothing == Spec => []RepeatsAreFree
<1>1. TypeInv /\ FreeInv => RepeatsAreFree
  BY DEF FreeInv, RepeatsAreFree, TypeInv, TypeOK
<1> QED BY <1>1, InitFreeInv, NextFreeInv, TypeInvCorrect, RecordInvCorrect, PTL DEF Spec

-----------------------------------------------------------------------------
(* The CRM never shows, for the address of a request that was stored, the  *)
(* data of one that had ended before it came.                              *)
RecentInv ==
  /\ FreeInv
  /\ \A r \in stored : contact[email[r]] \notin before[r]

LEMMA NextRecentInv == TypeInv /\ RecordInv /\ RecentInv /\ [Next]_vars => RecentInv'
<1> SUFFICES ASSUME TypeInv, RecordInv, RecentInv, [Next]_vars PROVE RecentInv'
  OBVIOUS
<1>0. FreeInv'
  BY NextFreeInv DEF RecentInv
<1>1. stored \subseteq Requests /\ stored \subseteq paid
  BY DEF TypeInv, TypeOK
<1>2. ASSUME NEW r \in Requests, Upsert(r), NEW q \in stored'
      PROVE  contact'[email'[q]] \notin before'[q]
  <2>1. r \notin before[q]
    BY <1>1, <1>2, UpsertFields DEF RecentInv, FreeInv, TypeInv, Ends, Answers
  <2>2. /\ email' = email /\ before' = before /\ q \in Requests
        /\ \/ contact' = [contact EXCEPT ![email[r]] = r]
           \/ contact' = contact /\ q \in stored
        /\ q = r \/ q \in stored
    BY <1>1, <1>2, UpsertFields DEF TypeInv
  <2>3. contact \in [Emails -> Requests \cup {None}] /\ email[q] \in Emails
    BY <2>2 DEF TypeInv, TypeOK
  <2>4. contact'[email[q]] = r \/ (contact'[email[q]] = contact[email[q]] /\ q \in stored)
    BY <2>2, <2>3
  <2> QED BY <2>1, <2>2, <2>4 DEF RecentInv
<1>3. ASSUME NEW r \in Requests, Submit(r), NEW q \in stored'
      PROVE  contact'[email'[q]] \notin before'[q]
  <2>1. r \notin stored
    BY <1>1, <1>3 DEF Submit, TypeInv, PathInv
  <2>2. q \in stored /\ q # r /\ contact' = contact /\ email' = email
    BY <1>3, <2>1 DEF Submit
  <2>3. before'[q] = before[q]
    BY <1>1, <1>3, <2>2, OthersKeep
  <2> QED BY <2>2, <2>3 DEF RecentInv
<1>4. ASSUME NEW r \in Requests,
             FindKey(r) \/ Extract(r) \/ Act(r) \/ Audit(r) \/ AuditFailure(r) \/ Crash(r)
      PROVE  UNCHANGED <<contact, email, before, stored>>
  BY <1>4 DEF FindKey, Extract, Act, Audit, AuditFailure, Append, Crash
<1>5. CASE UNCHANGED <<contact, email, before, stored>>
  BY <1>0, <1>5 DEF RecentInv
<1>6. CASE \E r \in Requests : Upsert(r) \/ Submit(r)
  BY <1>0, <1>2, <1>3, <1>6 DEF RecentInv
<1> QED BY <1>4, <1>5, <1>6 DEF Next, Step, vars

(* When a request is accepted, the CRM does not show the data of one that  *)
(* had ended before it came ("HubSpot Create or Update Contact").          *)
THEOREM ContactsAreRecent == Spec => []ContactIsRecent
<1>1. Init => RecentInv
  BY InitFreeInv DEF Init, RecentInv
<1>2. TypeInv /\ RecentInv => ContactIsRecent
  BY DEF RecentInv, ContactIsRecent, TypeInv, PathInv
<1> QED BY <1>1, <1>2, NextRecentInv, TypeInvCorrect, RecordInvCorrect, PTL DEF Spec
=============================================================================
