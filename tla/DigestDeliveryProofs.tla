------------------------ MODULE DigestDeliveryProofs ------------------------
(***************************************************************************)
(* Theorems about DigestDelivery, for any deliverers, articles, splits,    *)
(* retry limit and number of calls.                                        *)
(***************************************************************************)
EXTENDS DigestDelivery, InductionLemmas

(* Attempt numbers are bounded, so a part's highest number exists.         *)
NumbersBounded == \E b \in Nat : \A a \in attempts : a.number <= b

(* Between the insert and the result of an attempt a part is pending.      *)
PartPending == \A d \in Deliverers : call[d].pc \in {"send", "record"} => call[d].todo # {}

TypeInv == TypeOK /\ NumbersBounded /\ PartPending

-----------------------------------------------------------------------------
(* Part numbers are positive naturals (enumerate(parts, start=1), :129).   *)
LEMMA PartNumbersType == PartNumbers \subseteq Nat \ {0}
<1>1. ASSUME NEW l \in Layouts PROVE DOMAIN Split[l] \subseteq Nat \ {0}
  <2>1. Split[l] \in Seq(SUBSET Articles) BY LayoutAssumption
  <2>2. DOMAIN Split[l] = 1 .. Len(Split[l]) /\ Len(Split[l]) \in Nat BY <2>1
  <2>. QED BY <2>2
<1>. QED BY <1>1 DEF PartNumbers

(* The loop is at one of the parts it still has to send.                   *)
LEMMA PartInTodo ==
  ASSUME TypeOK, NEW d \in Deliverers, call[d].todo # {}
  PROVE  Part(d) \in call[d].todo /\ Part(d) \in PartNumbers
<1>1. call[d].todo \subseteq PartNumbers BY DEF TypeOK, CallState
<1>2. call[d].todo \subseteq Nat BY <1>1, PartNumbersType
<1>3. \E p \in call[d].todo : \A q \in call[d].todo : p <= q BY <1>2, LeastNatural
<1>. QED BY <1>1, <1>3 DEF Part

(* The highest attempt number of a part is a natural that no attempt of    *)
(* the part exceeds.                                                       *)
LEMMA LastNumberType ==
  ASSUME TypeOK, NumbersBounded
  PROVE  /\ LastNumber \in [PartNumbers -> Nat]
         /\ \A a \in attempts : a.number <= LastNumber[a.part]
<1>. DEFINE Numbers(p) == {a.number : a \in {b \in attempts : b.part = p}}
            Last(p) == IF Numbers(p) = {} THEN 0
                         ELSE CHOOSE n \in Numbers(p) : \A m \in Numbers(p) : m <= n
<1>1. ASSUME NEW p \in PartNumbers
      PROVE  Last(p) \in Nat /\ \A n \in Numbers(p) : n <= Last(p)
  <2>1. CASE Numbers(p) = {} BY <2>1
  <2>2. CASE Numbers(p) # {}
    <3>1. Numbers(p) \subseteq Nat BY DEF TypeOK
    <3>2. PICK b \in Nat : \A n \in Numbers(p) : n <= b BY DEF NumbersBounded
    <3>3. \E n \in Numbers(p) : \A m \in Numbers(p) : m <= n
      <4>. HIDE DEF Numbers
      <4>. QED BY <2>2, <3>1, <3>2, GreatestNatural
    <3>. QED BY <2>2, <3>1, <3>3
  <2>. QED BY <2>1, <2>2
<1>2. LastNumber = [p \in PartNumbers |-> Last(p)] BY DEF LastNumber
<1>3. ASSUME NEW a \in attempts PROVE a.number <= LastNumber[a.part]
  <2>1. a.part \in PartNumbers /\ a.number \in Numbers(a.part) BY DEF TypeOK
  <2>. HIDE DEF Last, Numbers
  <2>. QED BY <2>1, <1>1, <1>2
<1>. HIDE DEF Last
<1>. QED BY <1>1, <1>2, <1>3

-----------------------------------------------------------------------------
LEMMA NoCallType == NoCall \in CallState
<1>1. (CHOOSE l \in Layouts : TRUE) \in Layouts BY LayoutAssumption
<1>2. [p \in PartNumbers |-> 0] \in [PartNumbers -> Nat] OBVIOUS
<1>. QED BY <1>1, <1>2 DEF NoCall, CallState, Location, AttemptStatus, DigestStatus, Result

(* Leaving a call keeps the calls well formed.                             *)
LEMMA LeaveType ==
  ASSUME TypeOK, NEW d \in Deliverers, NEW outcome \in Result, Leave(d, outcome)
  PROVE  call' \in [Deliverers -> CallState]
<1>1. [NoCall EXCEPT !.result = outcome] \in CallState
  BY NoCallType DEF CallState
<1>. QED BY <1>1 DEF TypeOK, Leave, Becomes

(* A call that is not at "send" or "record", or still has a part to send,  *)
(* disturbs PartPending nowhere.                                           *)
LEMMA KeepsPartPending ==
  ASSUME TypeOK, PartPending, NEW d \in Deliverers, NEW state, Becomes(d, state),
         state.pc \in {"send", "record"} => state.todo # {}
  PROVE  PartPending'
BY DEF TypeOK, PartPending, Becomes

(* Leaving a call or going where nothing is pending keeps PartPending.     *)
LEMMA LeavePartPending ==
  ASSUME TypeOK, PartPending, NEW d \in Deliverers, NEW outcome, Leave(d, outcome)
  PROVE  PartPending'
<1>1. [NoCall EXCEPT !.result = outcome].pc = "idle" BY DEF NoCall
<1>. QED BY <1>1, KeepsPartPending DEF Leave

LEMMA GotoPartPending ==
  ASSUME TypeOK, PartPending, NEW d \in Deliverers, NEW loc, Goto(d, loc),
         loc \in {"send", "record"} => call[d].todo # {}
  PROVE  PartPending'
<1>. DEFINE state == [call[d] EXCEPT !.pc = loc]
<1>1. call[d] \in CallState BY DEF TypeOK
<1>2. state.pc = loc /\ state.todo = call[d].todo BY <1>1 DEF CallState
<1>3. Becomes(d, state) BY DEF Goto
<1>. HIDE DEF state
<1>. QED BY <1>2, <1>3, KeepsPartPending

LEMMA GotoType ==
  ASSUME TypeOK, NEW d \in Deliverers, NEW loc \in Location, Goto(d, loc)
  PROVE  call' \in [Deliverers -> CallState]
<1>1. [call[d] EXCEPT !.pc = loc] \in CallState
  BY DEF TypeOK, CallState
<1>. QED BY <1>1 DEF TypeOK, Goto, Becomes

(* The rows after an attempt got its result are rows as before, with other *)
(* results only.                                                           *)
LEMMA CompletedType ==
  ASSUME TypeOK, NEW d \in Deliverers
  PROVE  /\ Completed(d) \subseteq [part: PartNumbers, number: Nat \ {0}, status: AttemptStatus]
         /\ \A a \in Completed(d) : \E b \in attempts : Key(a) = Key(b)
BY DEF TypeOK, CallState, Completed, Key

LEMMA InitTypeInv == Init => TypeInv
<1>. SUFFICES ASSUME Init PROVE TypeInv
  OBVIOUS
<1>1. TypeOK
  BY NoCallType DEF Init, TypeOK, DigestStatus, Splittable
<1>2. NumbersBounded BY DEF Init, NumbersBounded
<1>3. PartPending BY DEF Init, PartPending, NoCall
<1>. QED BY <1>1, <1>2, <1>3 DEF TypeInv

LEMMA NextTypeInv == TypeInv /\ [Next]_vars => TypeInv'
<1>. SUFFICES ASSUME TypeInv, [Next]_vars PROVE TypeInv'
  OBVIOUS
<1>. USE DEF TypeInv
<1>1. ASSUME NEW d \in Deliverers, Begin(d) PROVE TypeInv'
  <2>1. call' \in [Deliverers -> CallState]
    <3>1. PICK chat \in ChatConfigs :
            Becomes(d, [NoCall EXCEPT !.pc = "history", !.chat = chat, !.layout = layout])
      BY <1>1 DEF Begin
    <3>2. [NoCall EXCEPT !.pc = "history", !.chat = chat, !.layout = layout] \in CallState
      BY NoCallType, SettingsAssumption DEF CallState, Location, TypeOK
    <3>. QED BY <3>1, <3>2 DEF Becomes, TypeOK
  <2>2. TypeOK' BY <1>1, <2>1 DEF Begin, TypeOK, db, history
  <2>3. PartPending'
    <3>1. ASSUME NEW chat
          PROVE  [NoCall EXCEPT !.pc = "history", !.chat = chat, !.layout = layout].pc
                   = "history"
      BY DEF NoCall
    <3>. QED BY <1>1, <3>1, KeepsPartPending DEF Begin
  <2>. QED BY <1>1, <2>2, <2>3 DEF Begin, NumbersBounded, db
<1>2. ASSUME NEW d \in Deliverers, BeginElsewhere(d) PROVE TypeInv'
  <2>1. call' \in [Deliverers -> CallState]
    BY <1>2, LeaveType DEF BeginElsewhere, Result, DigestStatus
  <2>2. TypeOK' BY <1>2, <2>1 DEF BeginElsewhere, TypeOK, db, history
  <2>3. PartPending'
    BY <1>2, LeavePartPending DEF BeginElsewhere
  <2>. QED BY <1>2, <2>2, <2>3 DEF BeginElsewhere, NumbersBounded, db
<1>3. ASSUME NEW d \in Deliverers, ReadAttempts(d) PROVE TypeInv'
  <2>1. PartsOf(call[d].layout) \subseteq PartNumbers
    BY DEF TypeOK, CallState, PartsOf, PartNumbers
  <2>2. LastNumber \in [PartNumbers -> Nat] BY LastNumberType
  <2>3. call' \in [Deliverers -> CallState]
    <3>1. [call[d] EXCEPT !.pc = "start",
                          !.todo = PartsOf(call[d].layout) \ SentParts,
                          !.prior = LastNumber] \in CallState
      BY <2>1, <2>2 DEF TypeOK, CallState, Location
    <3>. QED BY <1>3, <3>1 DEF ReadAttempts, Becomes, TypeOK
  <2>4. TypeOK' BY <1>3, <2>3 DEF ReadAttempts, TypeOK, db, history
  <2>5. PartPending'
    <3>1. [call[d] EXCEPT !.pc = "start",
                          !.todo = PartsOf(call[d].layout) \ SentParts,
                          !.prior = LastNumber].pc = "start"
      BY DEF TypeOK, CallState
    <3>. QED BY <1>3, <3>1, KeepsPartPending DEF ReadAttempts
  <2>. QED BY <1>3, <2>4, <2>5 DEF ReadAttempts, NumbersBounded, db
<1>4. ASSUME NEW d \in Deliverers, Refuse(d) PROVE TypeInv'
  <2>1. call' \in [Deliverers -> CallState] BY <1>4, GotoType DEF Refuse, Location
  <2>2. TypeOK' BY <1>4, <2>1 DEF Refuse, TypeOK, db, history
  <2>3. PartPending' BY <1>4, GotoPartPending DEF Refuse
  <2>. QED BY <1>4, <2>2, <2>3 DEF Refuse, NumbersBounded, db
<1>5. ASSUME NEW d \in Deliverers, StartSending(d) PROVE TypeInv'
  <2>1. call' \in [Deliverers -> CallState]
    BY <1>5, GotoType, LeaveType DEF StartSending, Location, Result
  <2>2. TypeOK' BY <1>5, <2>1 DEF StartSending, TypeOK, DigestStatus, history
  <2>3. PartPending'
    BY <1>5, GotoPartPending, LeavePartPending DEF StartSending
  <2>. QED BY <1>5, <2>2, <2>3 DEF StartSending, NumbersBounded
<1>6. ASSUME NEW d \in Deliverers, AddAttempt(d) PROVE TypeInv'
  <2>. DEFINE row == [part |-> Part(d), number |-> Number(d), status |-> "pending"]
  <2>0. call[d].todo # {} BY <1>6 DEF AddAttempt
  <2>1. Part(d) \in PartNumbers BY <2>0, PartInTodo
  <2>2. Number(d) \in Nat \ {0}
    <3>1. call[d].prior[Part(d)] \in Nat /\ call[d].trial \in Nat
      BY <2>1 DEF TypeOK, CallState
    <3>. QED BY <3>1 DEF Number
  <2>3. row \in [part: PartNumbers, number: Nat \ {0}, status: AttemptStatus]
    BY <2>1, <2>2 DEF AttemptStatus
  <2>4. attempts' = attempts \/ attempts' = attempts \cup {row} BY <1>6 DEF AddAttempt
  <2>5. call' \in [Deliverers -> CallState]
    BY <1>6, GotoType, LeaveType DEF AddAttempt, Location, Result
  <2>6. TypeOK'
    <3>. HIDE DEF row
    <3>. QED BY <1>6, <2>3, <2>4, <2>5 DEF AddAttempt, TypeOK, history
  <2>7. NumbersBounded'
    <3>1. PICK b \in Nat : \A a \in attempts : a.number <= b BY DEF NumbersBounded
    <3>2. b + Number(d) \in Nat /\ Number(d) <= b + Number(d) BY <2>2
    <3>3. ASSUME NEW a \in attempts PROVE a.number <= b + Number(d)
      BY <3>1, <2>2 DEF TypeOK
    <3>. QED BY <2>4, <3>2, <3>3 DEF NumbersBounded
  <2>8. PartPending'
    BY <1>6, <2>0, GotoPartPending, LeavePartPending DEF AddAttempt
  <2>. QED BY <2>6, <2>7, <2>8
<1>7. ASSUME NEW d \in Deliverers, SendMessage(d) PROVE TypeInv'
  <2>0. call[d].todo # {} BY <1>7 DEF SendMessage, At, PartPending
  <2>1. Part(d) \in PartNumbers BY <2>0, PartInTodo
  <2>2. PICK reply \in {"sent"} \cup FailureCode :
          Becomes(d, [call[d] EXCEPT !.pc = "record", !.reply = reply])
    BY <1>7 DEF SendMessage
  <2>3. call' \in [Deliverers -> CallState]
    <3>1. [call[d] EXCEPT !.pc = "record", !.reply = reply] \in CallState
      BY DEF TypeOK, CallState, Location, AttemptStatus
    <3>. QED BY <2>2, <3>1 DEF Becomes, TypeOK
  <2>4. posted' \in [Layouts -> [PartNumbers -> Nat]]
    <3>1. call[d].layout \in Layouts BY DEF TypeOK, CallState
    <3>2. \/ posted' = posted
          \/ posted' = [posted EXCEPT ![call[d].layout][Part(d)] = @ + 1]
      BY <1>7 DEF SendMessage
    <3>3. posted[call[d].layout][Part(d)] \in Nat BY <2>1, <3>1 DEF TypeOK
    <3>. QED BY <3>1, <3>2, <3>3, <2>1 DEF TypeOK
  <2>5. TypeOK' BY <1>7, <2>3, <2>4 DEF SendMessage, TypeOK, db
  <2>6. PartPending'
    <3>1. [call[d] EXCEPT !.pc = "record", !.reply = reply].todo = call[d].todo
      BY DEF TypeOK, CallState
    <3>. QED BY <2>0, <2>2, <3>1, KeepsPartPending
  <2>. QED BY <1>7, <2>5, <2>6 DEF SendMessage, NumbersBounded, db
<1>8. ASSUME NEW d \in Deliverers, RecordSent(d) PROVE TypeInv'
  <2>0. Part(d) \in PartNumbers
    BY <1>8, PartInTodo DEF RecordSent, At, PartPending
  <2>1. call' \in [Deliverers -> CallState]
    <3>1. [call[d] EXCEPT !.pc = "next", !.todo = @ \ {Part(d)}, !.trial = 0] \in CallState
      BY DEF TypeOK, CallState, Location
    <3>. QED BY <1>8, <3>1 DEF RecordSent, Becomes, TypeOK
  <2>2. TypeOK'
    BY <1>8, <2>0, <2>1, CompletedType DEF RecordSent, TypeOK
  <2>3. NumbersBounded'
    BY <1>8, CompletedType DEF RecordSent, NumbersBounded, Key
  <2>4. PartPending'
    <3>1. [call[d] EXCEPT !.pc = "next", !.todo = @ \ {Part(d)}, !.trial = 0].pc = "next"
      BY DEF TypeOK, CallState
    <3>. QED BY <1>8, <3>1, KeepsPartPending DEF RecordSent
  <2>. QED BY <2>2, <2>3, <2>4
<1>9. ASSUME NEW d \in Deliverers, RecordRetry(d) PROVE TypeInv'
  <2>1. call' \in [Deliverers -> CallState]
    <3>0. call[d] \in CallState /\ call[d].trial + 1 \in Nat
      BY DEF TypeOK, CallState
    <3>1. [call[d] EXCEPT !.pc = "next", !.trial = @ + 1] \in CallState
      BY <3>0 DEF CallState, Location
    <3>. QED BY <1>9, <3>1 DEF RecordRetry, Becomes, TypeOK
  <2>2. TypeOK' BY <1>9, <2>1, CompletedType DEF RecordRetry, TypeOK, history
  <2>3. NumbersBounded'
    BY <1>9, CompletedType DEF RecordRetry, NumbersBounded, Key
  <2>4. PartPending'
    <3>1. [call[d] EXCEPT !.pc = "next", !.trial = @ + 1].pc = "next"
      BY DEF TypeOK, CallState
    <3>. QED BY <1>9, <3>1, KeepsPartPending DEF RecordRetry
  <2>. QED BY <2>2, <2>3, <2>4
<1>10. ASSUME NEW d \in Deliverers, RecordFailure(d) PROVE TypeInv'
  <2>1. call' \in [Deliverers -> CallState]
    BY <1>10, GotoType DEF RecordFailure, Location
  <2>2. TypeOK' BY <1>10, <2>1, CompletedType DEF RecordFailure, TypeOK, history
  <2>3. NumbersBounded'
    BY <1>10, CompletedType DEF RecordFailure, NumbersBounded, Key
  <2>4. PartPending' BY <1>10, GotoPartPending DEF RecordFailure
  <2>. QED BY <2>2, <2>3, <2>4
<1>11. ASSUME NEW d \in Deliverers, Finish(d) PROVE TypeInv'
  <2>1. call' \in [Deliverers -> CallState]
    BY <1>11, LeaveType DEF Finish, Result, DigestStatus
  <2>2. TypeOK' BY <1>11, <2>1 DEF Finish, TypeOK, DigestStatus, history
  <2>3. PartPending'
    BY <1>11, LeavePartPending DEF Finish
  <2>. QED BY <1>11, <2>2, <2>3 DEF Finish, NumbersBounded
<1>12. ASSUME NEW d \in Deliverers, FailRead(d) PROVE TypeInv'
  <2>1. call' \in [Deliverers -> CallState]
    <3>1. CASE Becomes(d, [call[d] EXCEPT !.pc = "fail_locked", !.found = status])
      <4>1. [call[d] EXCEPT !.pc = "fail_locked", !.found = status] \in CallState
        BY DEF TypeOK, CallState, Location
      <4>. QED BY <3>1, <4>1 DEF Becomes, TypeOK
    <3>2. CASE AfterFail(d)
      BY <3>2, LeaveType, GotoType DEF AfterFail, Result, Location
    <3>. QED BY <1>12, <3>1, <3>2 DEF FailRead
  <2>2. TypeOK' BY <1>12, <2>1 DEF FailRead, TypeOK, db, history
  <2>3. PartPending'
    <3>1. CASE Becomes(d, [call[d] EXCEPT !.pc = "fail_locked", !.found = status])
      <4>1. [call[d] EXCEPT !.pc = "fail_locked", !.found = status].pc = "fail_locked"
        BY DEF TypeOK, CallState
      <4>. QED BY <3>1, <4>1, KeepsPartPending
    <3>2. CASE AfterFail(d)
      BY <3>2, GotoPartPending, LeavePartPending DEF AfterFail
    <3>. QED BY <1>12, <3>1, <3>2 DEF FailRead
  <2>. QED BY <1>12, <2>2, <2>3 DEF FailRead, NumbersBounded, db
<1>13. ASSUME NEW d \in Deliverers, FailLocked(d) PROVE TypeInv'
  <2>1. call' \in [Deliverers -> CallState]
    BY <1>13, LeaveType, GotoType DEF FailLocked, AfterFail, Result, Location
  <2>2. TypeOK' BY <1>13, <2>1 DEF FailLocked, TypeOK, DigestStatus, history
  <2>3. PartPending'
    BY <1>13, GotoPartPending, LeavePartPending DEF FailLocked, AfterFail
  <2>. QED BY <1>13, <2>2, <2>3 DEF FailLocked, NumbersBounded
<1>14. ASSUME NEW d \in Deliverers, Report(d) \/ Interrupt(d) PROVE TypeInv'
  <2>1. call' \in [Deliverers -> CallState]
    BY <1>14, LeaveType DEF Report, Interrupt, Result, TypeOK
  <2>2. TypeOK' BY <1>14, <2>1 DEF Report, Interrupt, TypeOK, db, history
  <2>3. PartPending'
    BY <1>14, LeavePartPending DEF Report, Interrupt
  <2>. QED BY <1>14, <2>2, <2>3 DEF Report, Interrupt, NumbersBounded, db
<1>15. CASE Relayout
  BY <1>15 DEF Relayout, TypeOK, NumbersBounded, PartPending, db, history
<1>16. CASE DayPasses
  BY <1>16 DEF DayPasses, TypeOK, NumbersBounded, PartPending, Key, history
<1>17. CASE Cleanup
  BY <1>17 DEF Cleanup, TypeOK, NumbersBounded, PartPending, history
<1>18. CASE UNCHANGED vars
  BY <1>18 DEF vars, TypeOK, NumbersBounded, PartPending
<1>. QED
  BY <1>1, <1>2, <1>3, <1>4, <1>5, <1>6, <1>7, <1>8, <1>9, <1>10, <1>11, <1>12, <1>13,
     <1>14, <1>15, <1>16, <1>17, <1>18
  DEF Next, Step

(* Every variable keeps its type: rows name parts of the digest and are    *)
(* numbered from one, and a call's locals are what deliver can hold.       *)
THEOREM TypeCorrect == Spec => []TypeOK
<1>1. TypeInv => TypeOK BY DEF TypeInv
<1>. QED BY InitTypeInv, NextTypeInv, <1>1, PTL DEF Spec

LEMMA TypeInvCorrect == Spec => []TypeInv
BY InitTypeInv, NextTypeInv, PTL DEF Spec

-----------------------------------------------------------------------------
(* What a step does to the locals of the calls.                            *)

LEMMA BecomesFields ==
  ASSUME TypeOK, NEW d \in Deliverers, NEW state, Becomes(d, state)
  PROVE  call'[d] = state /\ \A e \in Deliverers : e # d => call'[e] = call[e]
BY DEF TypeOK, Becomes

LEMMA LeaveFields ==
  ASSUME TypeOK, NEW d \in Deliverers, NEW outcome, Leave(d, outcome)
  PROVE  call'[d].pc = "idle" /\ \A e \in Deliverers : e # d => call'[e] = call[e]
<1>1. [NoCall EXCEPT !.result = outcome].pc = "idle" BY DEF NoCall
<1>. QED BY <1>1, BecomesFields DEF Leave

LEMMA GotoFields ==
  ASSUME TypeOK, NEW d \in Deliverers, NEW loc, Goto(d, loc)
  PROVE  /\ call'[d].pc = loc
         /\ call'[d].todo = call[d].todo
         /\ call'[d].layout = call[d].layout
         /\ call'[d].chat = call[d].chat
         /\ call'[d].found = call[d].found
         /\ \A e \in Deliverers : e # d => call'[e] = call[e]
<1>. DEFINE state == [call[d] EXCEPT !.pc = loc]
<1>1. call[d] \in CallState BY DEF TypeOK
<1>2. /\ state.pc = loc /\ state.todo = call[d].todo /\ state.layout = call[d].layout
      /\ state.chat = call[d].chat /\ state.found = call[d].found
  BY <1>1 DEF CallState
<1>3. Becomes(d, state) BY DEF Goto
<1>. HIDE DEF state
<1>. QED BY <1>2, <1>3, BecomesFields

LEMMA BeginFields ==
  ASSUME TypeOK, NEW d \in Deliverers, Begin(d)
  PROVE  /\ call'[d].pc = "history" /\ call'[d].chat \in ChatConfigs
         /\ call'[d].layout = layout
         /\ \A e \in Deliverers : e # d => call'[e] = call[e]
<1>1. PICK chat \in ChatConfigs :
        Becomes(d, [NoCall EXCEPT !.pc = "history", !.chat = chat, !.layout = layout])
  BY DEF Begin
<1>. DEFINE state == [NoCall EXCEPT !.pc = "history", !.chat = chat, !.layout = layout]
<1>2. state.pc = "history" /\ state.chat = chat /\ state.layout = layout BY DEF NoCall
<1>. HIDE DEF state
<1>. QED BY <1>1, <1>2, BecomesFields DEF state

LEMMA ReadAttemptsFields ==
  ASSUME TypeOK, NEW d \in Deliverers, ReadAttempts(d)
  PROVE  /\ call'[d].pc = "start"
         /\ call'[d].todo = PartsOf(call[d].layout) \ SentParts
         /\ call'[d].layout = call[d].layout /\ call'[d].chat = call[d].chat
         /\ \A e \in Deliverers : e # d => call'[e] = call[e]
<1>. DEFINE state == [call[d] EXCEPT !.pc = "start",
                                     !.todo = PartsOf(call[d].layout) \ SentParts,
                                     !.prior = LastNumber]
<1>1. /\ state.pc = "start" /\ state.todo = PartsOf(call[d].layout) \ SentParts
      /\ state.layout = call[d].layout /\ state.chat = call[d].chat
  BY DEF TypeOK, CallState
<1>2. Becomes(d, state) BY DEF ReadAttempts
<1>. HIDE DEF state
<1>. QED BY <1>1, <1>2, BecomesFields

LEMMA SendMessageFields ==
  ASSUME TypeOK, NEW d \in Deliverers, SendMessage(d)
  PROVE  /\ call'[d].pc = "record" /\ call'[d].todo = call[d].todo
         /\ call'[d].layout = call[d].layout /\ call'[d].chat = call[d].chat
         /\ \A e \in Deliverers : e # d => call'[e] = call[e]
<1>1. PICK reply \in {"sent"} \cup FailureCode :
        Becomes(d, [call[d] EXCEPT !.pc = "record", !.reply = reply])
  BY DEF SendMessage
<1>. DEFINE state == [call[d] EXCEPT !.pc = "record", !.reply = reply]
<1>2. /\ state.pc = "record" /\ state.todo = call[d].todo
      /\ state.layout = call[d].layout /\ state.chat = call[d].chat
  BY DEF TypeOK, CallState
<1>. HIDE DEF state
<1>. QED BY <1>1, <1>2, BecomesFields DEF state

LEMMA RecordSentFields ==
  ASSUME TypeOK, NEW d \in Deliverers, RecordSent(d)
  PROVE  /\ call'[d].pc = "next" /\ call'[d].todo = call[d].todo \ {Part(d)}
         /\ call'[d].layout = call[d].layout /\ call'[d].chat = call[d].chat
         /\ \A e \in Deliverers : e # d => call'[e] = call[e]
<1>. DEFINE state == [call[d] EXCEPT !.pc = "next", !.todo = @ \ {Part(d)}, !.trial = 0]
<1>1. /\ state.pc = "next" /\ state.todo = call[d].todo \ {Part(d)}
      /\ state.layout = call[d].layout /\ state.chat = call[d].chat
  BY DEF TypeOK, CallState
<1>2. Becomes(d, state) BY DEF RecordSent
<1>. HIDE DEF state
<1>. QED BY <1>1, <1>2, BecomesFields

LEMMA RecordRetryFields ==
  ASSUME TypeOK, NEW d \in Deliverers, RecordRetry(d)
  PROVE  /\ call'[d].pc = "next" /\ call'[d].todo = call[d].todo
         /\ call'[d].layout = call[d].layout /\ call'[d].chat = call[d].chat
         /\ \A e \in Deliverers : e # d => call'[e] = call[e]
<1>. DEFINE state == [call[d] EXCEPT !.pc = "next", !.trial = @ + 1]
<1>1. /\ state.pc = "next" /\ state.todo = call[d].todo
      /\ state.layout = call[d].layout /\ state.chat = call[d].chat
  BY DEF TypeOK, CallState
<1>2. Becomes(d, state) BY DEF RecordRetry
<1>. HIDE DEF state
<1>. QED BY <1>1, <1>2, BecomesFields

(* _fail_digest either goes on to its locked transition with the status it *)
(* read, or is done.                                                       *)
LEMMA FailReadFields ==
  ASSUME TypeOK, NEW d \in Deliverers, FailRead(d)
  PROVE  /\ \/ /\ status \in {"sending", "generated"}
               /\ call'[d].pc = "fail_locked" /\ call'[d].found = status
               /\ call'[d].layout = call[d].layout /\ call'[d].chat = call[d].chat
            \/ call'[d].pc = "idle"
            \/ ~ Refused(d) /\ call'[d].pc = "report"
               /\ call'[d].layout = call[d].layout /\ call'[d].chat = call[d].chat
         /\ \A e \in Deliverers : e # d => call'[e] = call[e]
<1>. DEFINE state == [call[d] EXCEPT !.pc = "fail_locked", !.found = status]
<1>1. /\ state.pc = "fail_locked" /\ state.found = status
      /\ state.layout = call[d].layout /\ state.chat = call[d].chat
  BY DEF TypeOK, CallState
<1>2. CASE status \in {"sending", "generated"}
  <2>1. Becomes(d, state) BY <1>2 DEF FailRead
  <2>. HIDE DEF state
  <2>. QED BY <1>1, <1>2, <2>1, BecomesFields
<1>3. CASE status \notin {"sending", "generated"}
  BY <1>3, LeaveFields, GotoFields DEF FailRead, AfterFail
<1>. QED BY <1>2, <1>3

-----------------------------------------------------------------------------
(* A call that is past its reading of the attempts has a recorded result   *)
(* for every part of its split it does not mean to send.                   *)
Working == {"start", "next", "send", "record"}

Covered ==
  \A d \in Deliverers : call[d].pc \in Working =>
    \A p \in PartsOf(call[d].layout) \ call[d].todo : confirmed[p] > 0

(* A part with a row that says sent was recorded as sent.                  *)
RowsConfirmed == \A a \in attempts : a.status = "sent" => confirmed[a.part] > 0

(* A call that is sending has something to send.                           *)
CanSplit ==
  \A d \in Deliverers :
    call[d].pc \in {"next", "send", "record"} => call[d].layout \in Splittable

ConfirmedInv == SentMeansConfirmed /\ RowsConfirmed /\ Covered /\ CanSplit

LEMMA InitConfirmedInv == Init => ConfirmedInv
BY DEF Init, ConfirmedInv, SentMeansConfirmed, RowsConfirmed, Covered, CanSplit, Working,
       NoCall

(* confirmed only grows.                                                   *)
LEMMA ConfirmedGrows ==
  ASSUME TypeInv, [Next]_vars, NEW p \in PartNumbers, confirmed[p] > 0
  PROVE  confirmed'[p] > 0
<1>1. ASSUME NEW d \in Deliverers, RecordSent(d) PROVE confirmed'[p] > 0
  <2>1. Part(d) \in PartNumbers
    BY <1>1, PartInTodo DEF TypeInv, PartPending, RecordSent, At
  <2>. QED BY <1>1, <2>1 DEF RecordSent, TypeInv, TypeOK
<1>2. confirmed' = confirmed \/ \E d \in Deliverers : RecordSent(d)
  BY DEF Next, Step, vars, history, Begin, BeginElsewhere, ReadAttempts, Refuse,
         StartSending, AddAttempt, SendMessage, RecordRetry, RecordFailure, Finish,
         FailRead, FailLocked, Report, Interrupt, Relayout, DayPasses, Cleanup
<1>. QED BY <1>1, <1>2

(* A step of one call keeps Covered when its new locals are covered.       *)
LEMMA KeepsCovered ==
  ASSUME TypeInv, Covered, [Next]_vars, NEW d \in Deliverers,
         \A e \in Deliverers : e # d => call'[e] = call[e],
         call'[d].pc \in Working =>
           \A p \in PartsOf(call'[d].layout) \ call'[d].todo : confirmed'[p] > 0
  PROVE  Covered'
<1>1. ASSUME NEW e \in Deliverers, e # d, call[e].pc \in Working,
             NEW p \in PartsOf(call[e].layout) \ call[e].todo
      PROVE  confirmed'[p] > 0
  <2>1. p \in PartNumbers
    BY DEF TypeInv, TypeOK, CallState, PartsOf, PartNumbers
  <2>. QED BY <1>1, <2>1, ConfirmedGrows DEF Covered
<1>. QED BY <1>1 DEF Covered, PartsOf

(* Only RecordSent writes a row that says sent, and it counts it; only     *)
(* Finish marks the digest SENT, and its call is covered.                  *)
LEMMA NextConfirmedInv == TypeInv /\ ConfirmedInv /\ [Next]_vars => ConfirmedInv'
<1>. SUFFICES ASSUME TypeInv, ConfirmedInv, [Next]_vars PROVE ConfirmedInv'
  OBVIOUS
<1>. USE DEF TypeInv
<1>1. Covered'
  <2>. USE DEF ConfirmedInv
  <2>1. ASSUME NEW d \in Deliverers, Begin(d) PROVE Covered'
    BY <2>1, BeginFields, KeepsCovered DEF Working
  <2>2. ASSUME NEW d \in Deliverers,
               \/ BeginElsewhere(d) \/ Finish(d) \/ Report(d) \/ Interrupt(d)
        PROVE  Covered'
    <3>1. \E outcome : Leave(d, outcome)
      BY <2>2 DEF BeginElsewhere, Finish, Report, Interrupt
    <3>. QED BY <3>1, LeaveFields, KeepsCovered DEF Working
  <2>3. ASSUME NEW d \in Deliverers, ReadAttempts(d) PROVE Covered'
    <3>1. ASSUME NEW p \in PartsOf(call'[d].layout) \ call'[d].todo
          PROVE  confirmed'[p] > 0
      <4>1. p \in SentParts
        BY <2>3, ReadAttemptsFields
      <4>2. PICK a \in attempts : a.status = "sent" /\ a.part = p
        BY <4>1 DEF SentParts
      <4>3. confirmed[p] > 0 BY <4>2 DEF RowsConfirmed
      <4>. QED BY <2>3, <4>3 DEF ReadAttempts, history
    <3>. QED BY <2>3, <3>1, ReadAttemptsFields, KeepsCovered
  <2>4. ASSUME NEW d \in Deliverers, Refuse(d) \/ RecordFailure(d) PROVE Covered'
    <3>1. Goto(d, "fail") BY <2>4 DEF Refuse, RecordFailure
    <3>. QED BY <3>1, GotoFields, KeepsCovered DEF Working
  <2>5. ASSUME NEW d \in Deliverers, StartSending(d) \/ AddAttempt(d) PROVE Covered'
    <3>1. call[d].pc \in Working /\ confirmed' = confirmed
      BY <2>5 DEF StartSending, AddAttempt, At, Working, history
    <3>2. ASSUME NEW loc, Goto(d, loc) PROVE Covered'
      BY <3>1, <3>2, GotoFields, KeepsCovered DEF Covered
    <3>3. ASSUME NEW outcome, Leave(d, outcome) PROVE Covered'
      BY <3>3, LeaveFields, KeepsCovered DEF Working
    <3>. QED BY <2>5, <3>2, <3>3 DEF StartSending, AddAttempt
  <2>6. ASSUME NEW d \in Deliverers, SendMessage(d) \/ RecordRetry(d) PROVE Covered'
    <3>1. call[d].pc \in Working /\ confirmed' = confirmed
      BY <2>6 DEF SendMessage, RecordRetry, At, Working, history
    <3>. QED BY <2>6, <3>1, SendMessageFields, RecordRetryFields, KeepsCovered DEF Covered
  <2>7. ASSUME NEW d \in Deliverers, RecordSent(d) PROVE Covered'
    <3>1. Part(d) \in PartNumbers /\ call[d].pc \in Working
      BY <2>7, PartInTodo DEF PartPending, RecordSent, At, Working
    <3>2. ASSUME NEW p \in PartsOf(call[d].layout) \ (call[d].todo \ {Part(d)})
          PROVE  confirmed'[p] > 0
      <4>1. CASE p = Part(d) BY <2>7, <3>1, <4>1 DEF RecordSent, TypeOK
      <4>2. CASE p \notin call[d].todo
        <5>1. p \in PartNumbers BY DEF TypeOK, CallState, PartsOf, PartNumbers
        <5>2. confirmed[p] > 0 BY <3>1, <4>2 DEF Covered
        <5>. QED BY <5>1, <5>2, ConfirmedGrows
      <4>. QED BY <4>1, <4>2
    <3>. QED BY <2>7, <3>2, RecordSentFields, KeepsCovered
  <2>8. ASSUME NEW d \in Deliverers, FailRead(d) PROVE Covered'
    BY <2>8, FailReadFields, KeepsCovered DEF Working
  <2>9. ASSUME NEW d \in Deliverers, FailLocked(d) PROVE Covered'
    BY <2>9, LeaveFields, GotoFields, KeepsCovered DEF FailLocked, AfterFail, Working
  <2>10. CASE Relayout \/ DayPasses \/ Cleanup \/ UNCHANGED vars
    <3>1. call' = call /\ confirmed' = confirmed
      BY <2>10 DEF Relayout, DayPasses, Cleanup, vars, history
    <3>. QED BY <3>1 DEF Covered, PartsOf
  <2>. QED
    BY <2>1, <2>2, <2>3, <2>4, <2>5, <2>6, <2>7, <2>8, <2>9, <2>10 DEF Next, Step
<1>2. RowsConfirmed'
  <2>1. ASSUME NEW d \in Deliverers, RecordSent(d) PROVE RowsConfirmed'
    <3>1. Part(d) \in PartNumbers
      BY <2>1, PartInTodo DEF PartPending, RecordSent, At
    <3>2. ASSUME NEW a \in attempts', a.status = "sent" PROVE confirmed'[a.part] > 0
      <4>1. a \in Completed(d) BY <2>1 DEF RecordSent
      <4>2. PICK b \in attempts :
              a = IF Key(b) = <<Part(d), Number(d)>> THEN [b EXCEPT !.status = call[d].reply]
                                                     ELSE b
        BY <4>1 DEF Completed
      <4>3. CASE Key(b) = <<Part(d), Number(d)>>
        <5>1. a.part = Part(d) BY <4>2, <4>3 DEF Key, TypeOK
        <5>. QED BY <2>1, <3>1, <5>1 DEF RecordSent, TypeOK
      <4>4. CASE Key(b) # <<Part(d), Number(d)>>
        <5>1. confirmed[a.part] > 0 /\ a.part \in PartNumbers
          BY <3>2, <4>2, <4>4 DEF ConfirmedInv, RowsConfirmed, TypeOK
        <5>. QED BY <5>1, ConfirmedGrows
      <4>. QED BY <4>3, <4>4
    <3>. QED BY <3>2 DEF RowsConfirmed
  <2>2. ASSUME NEW d \in Deliverers, RecordRetry(d) \/ RecordFailure(d)
        PROVE  RowsConfirmed'
    <3>1. attempts' = Completed(d) /\ confirmed' = confirmed /\ call[d].reply # "sent"
      BY <2>2 DEF RecordRetry, RecordFailure, Retryable, FailureCode, history
    <3>2. ASSUME NEW a \in Completed(d), a.status = "sent" PROVE a \in attempts
      BY <3>1, <3>2 DEF Completed, TypeOK
    <3>. QED BY <3>1, <3>2 DEF ConfirmedInv, RowsConfirmed
  <2>3. ASSUME NEW d \in Deliverers, AddAttempt(d) PROVE RowsConfirmed'
    BY <2>3 DEF AddAttempt, ConfirmedInv, RowsConfirmed, history
  <2>4. CASE Cleanup
    BY <2>4 DEF Cleanup, ConfirmedInv, RowsConfirmed, history
  <2>5. \/ \E d \in Deliverers : RecordSent(d) \/ RecordRetry(d) \/ RecordFailure(d)
                                 \/ AddAttempt(d)
        \/ Cleanup
        \/ attempts' = attempts /\ confirmed' = confirmed
    BY DEF Next, Step, vars, db, history, Begin, BeginElsewhere, ReadAttempts, Refuse,
           StartSending, SendMessage, Finish, FailRead, FailLocked, Report, Interrupt,
           Relayout, DayPasses
  <2>. QED BY <2>1, <2>2, <2>3, <2>4, <2>5 DEF ConfirmedInv, RowsConfirmed
<1>3. SentMeansConfirmed'
  <2>1. ASSUME NEW d \in Deliverers, Finish(d), status' = "sent"
        PROVE  \E l \in Splittable : \A p \in PartsOf(l) : confirmed'[p] > 0
    <3>1. call[d].layout \in Splittable BY <2>1 DEF Finish, At, ConfirmedInv, CanSplit
    <3>2. \A p \in PartsOf(call[d].layout) : confirmed[p] > 0
      BY <2>1 DEF Finish, At, ConfirmedInv, Covered, Working
    <3>. QED BY <2>1, <3>1, <3>2 DEF Finish, history
  <2>2. ASSUME status = "sent"
        PROVE  \E l \in Splittable : \A p \in PartsOf(l) : confirmed'[p] > 0
    <3>1. PICK l \in Splittable : \A p \in PartsOf(l) : confirmed[p] > 0
      BY <2>2 DEF ConfirmedInv, SentMeansConfirmed
    <3>2. PartsOf(l) \subseteq PartNumbers BY DEF PartsOf, PartNumbers, Splittable
    <3>. QED BY <3>1, <3>2, ConfirmedGrows
  <2>3. status' = "sent" => status = "sent" \/ \E d \in Deliverers : Finish(d)
    BY DEF Next, Step, vars, db, history, Begin, BeginElsewhere, ReadAttempts, Refuse,
           StartSending, AddAttempt, SendMessage, RecordSent, RecordRetry, RecordFailure,
           FailRead, FailLocked, Report, Interrupt, Relayout, DayPasses, Cleanup
  <2>. QED BY <2>1, <2>2, <2>3 DEF SentMeansConfirmed, PartsOf
<1>4. CanSplit'
  <2>1. ASSUME NEW d \in Deliverers,
               \A f \in Deliverers : f # d => call'[f] = call[f],
               call'[d].pc \in {"next", "send", "record"} => call'[d].layout \in Splittable
        PROVE  CanSplit'
    BY <2>1 DEF ConfirmedInv, CanSplit, Splittable
  <2>. USE DEF ConfirmedInv, CanSplit
  <2>2. ASSUME NEW d \in Deliverers,
               \/ Begin(d) \/ ReadAttempts(d) \/ FailRead(d)
        PROVE  CanSplit'
    BY <2>1, <2>2, BeginFields, ReadAttemptsFields, FailReadFields
  <2>3. ASSUME NEW d \in Deliverers,
               \/ BeginElsewhere(d) \/ Finish(d) \/ Report(d) \/ Interrupt(d)
        PROVE  CanSplit'
    <3>1. \E outcome : Leave(d, outcome)
      BY <2>3 DEF BeginElsewhere, Finish, Report, Interrupt
    <3>. QED BY <2>1, <3>1, LeaveFields
  <2>4. ASSUME NEW d \in Deliverers, Refuse(d) \/ RecordFailure(d) \/ FailLocked(d)
        PROVE  CanSplit'
    BY <2>1, <2>4, GotoFields, LeaveFields DEF Refuse, RecordFailure, FailLocked, AfterFail
  <2>5. ASSUME NEW d \in Deliverers, StartSending(d) PROVE CanSplit'
    <3>1. call[d].layout \in Splittable
      BY <2>5 DEF StartSending, Refused, Splittable, TypeOK, CallState
    <3>. QED BY <2>1, <2>5, <3>1, GotoFields, LeaveFields DEF StartSending
  <2>6. ASSUME NEW d \in Deliverers,
               AddAttempt(d) \/ SendMessage(d) \/ RecordSent(d) \/ RecordRetry(d)
        PROVE  CanSplit'
    <3>1. call[d].layout \in Splittable
      BY <2>6 DEF AddAttempt, SendMessage, RecordSent, RecordRetry, At
    <3>2. CASE AddAttempt(d)
      BY <2>1, <3>1, <3>2, GotoFields, LeaveFields DEF AddAttempt
    <3>. QED BY <2>1, <2>6, <3>1, <3>2, SendMessageFields, RecordSentFields, RecordRetryFields
  <2>7. CASE Relayout \/ DayPasses \/ Cleanup \/ UNCHANGED vars
    BY <2>7 DEF Relayout, DayPasses, Cleanup, vars, Splittable
  <2>. QED BY <2>2, <2>3, <2>4, <2>5, <2>6, <2>7 DEF Next, Step
<1>. QED BY <1>1, <1>2, <1>3, <1>4 DEF ConfirmedInv

(* A digest is marked SENT only when every part of one of its splits was   *)
(* recorded as sent: in every interleaving of calls, crashes, refusals,    *)
(* renames and cleanups.                                                   *)
THEOREM SentIsConfirmed == Spec => []SentMeansConfirmed
<1>1. ConfirmedInv => SentMeansConfirmed BY DEF ConfirmedInv
<1>2. Spec => []ConfirmedInv
  BY InitConfirmedInv, NextConfirmedInv, TypeInvCorrect, PTL DEF Spec
<1>. QED BY <1>1, <1>2, PTL

-----------------------------------------------------------------------------
(* Every call has a chat id and every split can be sent.                   *)
Deliverable == ChatConfigs \subseteq {TRUE} /\ \A l \in Layouts : Split[l] # <<>>

(* Then no call is refused, _fail_digest runs only in the sending call,    *)
(* and that call holds the digest in SENDING.                              *)
SenderInv ==
  /\ \A d \in Deliverers : call[d].pc # "idle" => ~ Refused(d)
  /\ \A d \in Deliverers : call[d].pc = "fail_locked" => call[d].found = "sending"
  /\ OneSender

LEMMA InitSenderInv == Init => SenderInv
BY DEF Init, SenderInv, OneSender, InSending, NoCall

(* A step of one call keeps SenderInv when its new locals respect it and   *)
(* the status it leaves suits the calls that were sending.                 *)
LEMMA KeepsSenderInv ==
  ASSUME TypeInv, SenderInv, NEW d \in Deliverers,
         \A e \in Deliverers : e # d => call'[e] = call[e],
         call'[d].pc # "idle" => ~ Refused(d)',
         call'[d].pc = "fail_locked" => call'[d].found = "sending",
         InSending(d)' => status' = "sending",
         \/ InSending(d)' /\ (InSending(d) \/ status # "sending")
         \/ ~ InSending(d)' /\ (InSending(d) \/ status' = status)
  PROVE  SenderInv'
<1>1. ASSUME NEW e \in Deliverers, e # d
      PROVE  /\ Refused(e)' = Refused(e)
             /\ InSending(e)' = InSending(e)
  BY <1>1 DEF Refused, InSending
<1>2. \A e \in Deliverers : call'[e].pc # "idle" => ~ Refused(e)'
  BY <1>1 DEF SenderInv
<1>3. \A e \in Deliverers : call'[e].pc = "fail_locked" => call'[e].found = "sending"
  BY DEF SenderInv
<1>4. \A e, f \in Deliverers :
        InSending(e)' => status' = "sending" /\ (InSending(f)' => e = f)
  BY <1>1 DEF SenderInv, OneSender
<1>. QED BY <1>2, <1>3, <1>4 DEF SenderInv, OneSender

LEMMA NextSenderInv ==
  Deliverable /\ TypeInv /\ SenderInv /\ [Next]_vars => SenderInv'
<1>. SUFFICES ASSUME Deliverable, TypeInv, SenderInv, [Next]_vars PROVE SenderInv'
  OBVIOUS
<1>. USE DEF TypeInv
<1>1. ASSUME NEW d \in Deliverers, Begin(d) PROVE SenderInv'
  <2>1. ~ Refused(d)' BY <1>1, BeginFields DEF Deliverable, Refused, TypeOK
  <2>2. ~ InSending(d)' /\ status' = status
    BY <1>1, BeginFields DEF InSending, Begin, db
  <2>. QED BY <1>1, <2>1, <2>2, BeginFields, KeepsSenderInv
<1>2. ASSUME NEW d \in Deliverers,
             BeginElsewhere(d) \/ Report(d) \/ Interrupt(d)
      PROVE  SenderInv'
  <2>1. PICK outcome : Leave(d, outcome)
    BY <1>2 DEF BeginElsewhere, Report, Interrupt
  <2>2. ~ InSending(d)' /\ status' = status
    BY <1>2, <2>1, LeaveFields DEF InSending, BeginElsewhere, Report, Interrupt, db
  <2>. QED BY <2>1, <2>2, LeaveFields, KeepsSenderInv
<1>3. ASSUME NEW d \in Deliverers, ReadAttempts(d) PROVE SenderInv'
  <2>1. call[d].pc # "idle" /\ status' = status
    BY <1>3 DEF ReadAttempts, At, db
  <2>2. ~ Refused(d)' /\ ~ InSending(d)'
    BY <1>3, <2>1, ReadAttemptsFields DEF SenderInv, Refused, InSending
  <2>. QED BY <1>3, <2>1, <2>2, ReadAttemptsFields, KeepsSenderInv
<1>4. ASSUME NEW d \in Deliverers, Refuse(d) PROVE FALSE
  BY <1>4 DEF Refuse, At, SenderInv
<1>5. ASSUME NEW d \in Deliverers, StartSending(d) PROVE SenderInv'
  <2>1. ~ Refused(d) BY <1>5 DEF StartSending
  <2>2. CASE Allowed(status, "sending")
    <3>1. status # "sending" /\ status' = "sending" /\ Goto(d, "next")
      BY <1>5, <2>2 DEF StartSending, Allowed, DigestTransitions
    <3>2. ~ Refused(d)' /\ InSending(d)'
      BY <2>1, <3>1, GotoFields DEF Refused, InSending
    <3>. QED BY <3>1, <3>2, GotoFields, KeepsSenderInv
  <2>3. CASE ~ Allowed(status, "sending")
    <3>1. Leave(d, "raised") /\ status' = status BY <1>5, <2>3 DEF StartSending
    <3>2. ~ InSending(d)' BY <3>1, LeaveFields DEF InSending
    <3>. QED BY <3>1, <3>2, LeaveFields, KeepsSenderInv
  <2>. QED BY <2>2, <2>3
<1>6. ASSUME NEW d \in Deliverers, AddAttempt(d) PROVE SenderInv'
  <2>1. InSending(d) /\ status = "sending" /\ status' = status /\ ~ Refused(d)
    BY <1>6 DEF AddAttempt, At, InSending, SenderInv, OneSender
  <2>2. CASE Goto(d, "send")
    <3>1. ~ Refused(d)' /\ InSending(d)'
      BY <2>1, <2>2, GotoFields DEF Refused, InSending
    <3>. QED BY <2>1, <2>2, <3>1, GotoFields, KeepsSenderInv
  <2>3. CASE Leave(d, "raised")
    <3>1. ~ InSending(d)' BY <2>3, LeaveFields DEF InSending
    <3>. QED BY <2>1, <2>3, <3>1, LeaveFields, KeepsSenderInv
  <2>. QED BY <1>6, <2>2, <2>3 DEF AddAttempt
<1>7. ASSUME NEW d \in Deliverers, SendMessage(d) \/ RecordSent(d) \/ RecordRetry(d)
      PROVE  SenderInv'
  <2>1. InSending(d) /\ status = "sending" /\ status' = status /\ ~ Refused(d)
    BY <1>7 DEF SendMessage, RecordSent, RecordRetry, At, InSending, SenderInv,
                OneSender, db
  <2>2. ~ Refused(d)' /\ InSending(d)' /\ call'[d].pc # "fail_locked"
    BY <1>7, <2>1, SendMessageFields, RecordSentFields, RecordRetryFields
    DEF Refused, InSending
  <2>3. \A e \in Deliverers : e # d => call'[e] = call[e]
    BY <1>7, SendMessageFields, RecordSentFields, RecordRetryFields
  <2>. QED BY <2>1, <2>2, <2>3, KeepsSenderInv
<1>8. ASSUME NEW d \in Deliverers, RecordFailure(d) PROVE SenderInv'
  <2>1. InSending(d) /\ status = "sending" /\ status' = status /\ ~ Refused(d)
    BY <1>8 DEF RecordFailure, At, InSending, SenderInv, OneSender
  <2>2. Goto(d, "fail") BY <1>8 DEF RecordFailure
  <2>3. ~ Refused(d)' /\ InSending(d)'
    BY <2>1, <2>2, GotoFields DEF Refused, InSending
  <2>. QED BY <2>1, <2>2, <2>3, GotoFields, KeepsSenderInv
<1>9. ASSUME NEW d \in Deliverers, Finish(d) PROVE SenderInv'
  <2>1. InSending(d) BY <1>9 DEF Finish, At, InSending
  <2>2. PICK outcome : Leave(d, outcome) BY <1>9 DEF Finish
  <2>3. ~ InSending(d)' BY <2>2, LeaveFields DEF InSending
  <2>. QED BY <2>1, <2>2, <2>3, LeaveFields, KeepsSenderInv
<1>10. ASSUME NEW d \in Deliverers, FailRead(d) PROVE SenderInv'
  <2>1. InSending(d) /\ status = "sending" /\ status' = status /\ ~ Refused(d)
    BY <1>10 DEF FailRead, At, InSending, SenderInv, OneSender, db
  <2>2. Becomes(d, [call[d] EXCEPT !.pc = "fail_locked", !.found = status])
    BY <1>10, <2>1 DEF FailRead
  <2>3. /\ call'[d].pc = "fail_locked" /\ call'[d].found = "sending"
        /\ call'[d].layout = call[d].layout /\ call'[d].chat = call[d].chat
        /\ \A e \in Deliverers : e # d => call'[e] = call[e]
    <3>1. call[d] \in CallState BY DEF TypeOK
    <3>. DEFINE state == [call[d] EXCEPT !.pc = "fail_locked", !.found = status]
    <3>2. /\ state.pc = "fail_locked" /\ state.found = status
          /\ state.layout = call[d].layout /\ state.chat = call[d].chat
      BY <3>1 DEF CallState
    <3>. HIDE DEF state
    <3>. QED BY <2>1, <2>2, <3>2, BecomesFields DEF state
  <2>4. ~ Refused(d)' /\ InSending(d)' BY <2>1, <2>3 DEF Refused, InSending
  <2>. QED BY <2>1, <2>3, <2>4, KeepsSenderInv
<1>11. ASSUME NEW d \in Deliverers, FailLocked(d) PROVE SenderInv'
  <2>1. InSending(d) /\ ~ Refused(d)
    BY <1>11 DEF FailLocked, At, InSending, SenderInv
  <2>2. CASE Goto(d, "report")
    <3>1. ~ Refused(d)' /\ ~ InSending(d)'
      BY <2>1, <2>2, GotoFields DEF Refused, InSending
    <3>. QED BY <2>1, <2>2, <3>1, GotoFields, KeepsSenderInv
  <2>3. CASE Leave(d, "raised")
    <3>1. ~ InSending(d)' BY <2>3, LeaveFields DEF InSending
    <3>. QED BY <2>1, <2>3, <3>1, LeaveFields, KeepsSenderInv
  <2>. QED BY <1>11, <2>1, <2>2, <2>3 DEF FailLocked, AfterFail
<1>12. CASE Relayout \/ DayPasses \/ Cleanup \/ UNCHANGED vars
  <2>1. call' = call /\ status' = status
    BY <1>12 DEF Relayout, DayPasses, Cleanup, vars, db
  <2>. QED BY <2>1 DEF SenderInv, OneSender, InSending, Refused
<1>. QED
  BY <1>1, <1>2, <1>3, <1>4, <1>5, <1>6, <1>7, <1>8, <1>9, <1>10, <1>11, <1>12
  DEF Next, Step

LEMMA SenderInvCorrect == Deliverable => (Spec => []SenderInv)
<1>. SUFFICES ASSUME Deliverable PROVE Spec => []SenderInv
  OBVIOUS
<1>1. TypeInv /\ SenderInv /\ [Next]_vars => SenderInv' BY NextSenderInv
<1>. QED BY <1>1, InitSenderInv, TypeInvCorrect, PTL DEF Spec

(* Where every call can deliver, at most one call sends at a time, however *)
(* many overlap, and the digest is SENDING while it does.                  *)
THEOREM SendersExclude == Deliverable => (Spec => []OneSender)
<1>. SUFFICES ASSUME Deliverable PROVE Spec => []OneSender
  OBVIOUS
<1>1. SenderInv => OneSender BY DEF SenderInv
<1>2. Spec => []SenderInv BY SenderInvCorrect
<1>. QED BY <1>1, <1>2, PTL

-----------------------------------------------------------------------------
(* The abstract lifecycle.                                                 *)

LEMMA InitLifecycle == Init => Lifecycle!Init
BY DEF Init, Lifecycle!Init

(* A part is recorded as sent only while the digest is being sent, because *)
(* the recording call is the sender; the digest becomes SENT only when the *)
(* parts of the sender's split are covered; every other change of the      *)
(* status is one the lifecycle knows.                                      *)
LEMMA NextLifecycle ==
  TypeInv /\ ConfirmedInv /\ SenderInv /\ [Next]_vars
    => [Lifecycle!Next]_(Lifecycle!vars)
<1>. SUFFICES ASSUME TypeInv, ConfirmedInv, SenderInv, [Next]_vars
              PROVE  [Lifecycle!Next]_(Lifecycle!vars)
  OBVIOUS
<1>. USE DEF TypeInv
<1>. DEFINE delivered == {p \in PartNumbers : confirmed[p] > 0}
<1>1. ASSUME NEW d \in Deliverers, StartSending(d)
      PROVE  [Lifecycle!Next]_(Lifecycle!vars)
  <2>1. confirmed' = confirmed BY <1>1 DEF StartSending, history
  <2>2. CASE Allowed(status, "sending")
    <3>1. status \in {"generated", "failed"} /\ status' = "sending"
      BY <1>1, <2>2 DEF StartSending, Allowed, DigestTransitions
    <3>. QED BY <2>1, <3>1 DEF Lifecycle!Next, Lifecycle!Start
  <2>3. CASE ~ Allowed(status, "sending")
    BY <1>1, <2>1, <2>3 DEF StartSending, Lifecycle!vars
  <2>. QED BY <2>2, <2>3
<1>2. ASSUME NEW d \in Deliverers, RecordSent(d)
      PROVE  [Lifecycle!Next]_(Lifecycle!vars)
  <2>1. status = "sending" /\ status' = status
    BY <1>2 DEF RecordSent, At, SenderInv, OneSender, InSending
  <2>2. Part(d) \in PartNumbers BY <1>2, PartInTodo DEF RecordSent, At, PartPending
  <2>3. confirmed' = [confirmed EXCEPT ![Part(d)] = @ + 1] BY <1>2 DEF RecordSent
  <2>4. {p \in PartNumbers : confirmed'[p] > 0} = delivered \cup {Part(d)}
    BY <2>2, <2>3 DEF TypeOK
  <2>. QED BY <2>1, <2>2, <2>4 DEF Lifecycle!Next, Lifecycle!Deliver
<1>3. ASSUME NEW d \in Deliverers, Finish(d)
      PROVE  [Lifecycle!Next]_(Lifecycle!vars)
  <2>1. confirmed' = confirmed BY <1>3 DEF Finish, history
  <2>2. CASE Allowed(status, "sent")
    <3>1. status = "sending" /\ status' = "sent"
      BY <1>3, <2>2 DEF Finish, Allowed, DigestTransitions
    <3>2. call[d].layout \in Splittable BY <1>3 DEF Finish, At, ConfirmedInv, CanSplit
    <3>3. PartsOf(call[d].layout) \subseteq delivered
      <4>1. PartsOf(call[d].layout) \subseteq PartNumbers
        BY <3>2 DEF PartsOf, PartNumbers, Splittable
      <4>. QED BY <1>3, <4>1 DEF Finish, At, ConfirmedInv, Covered, Working
    <3>. QED BY <2>1, <3>1, <3>2, <3>3 DEF Lifecycle!Next, Lifecycle!Complete
  <2>3. CASE ~ Allowed(status, "sent")
    BY <1>3, <2>1, <2>3 DEF Finish, Lifecycle!vars
  <2>. QED BY <2>2, <2>3
<1>4. ASSUME NEW d \in Deliverers, FailLocked(d)
      PROVE  [Lifecycle!Next]_(Lifecycle!vars)
  <2>1. confirmed' = confirmed BY <1>4 DEF FailLocked, history
  <2>2. status = "sending"
    BY <1>4 DEF FailLocked, At, SenderInv, OneSender, InSending
  <2>3. status' \in {"failed", status} BY <1>4 DEF FailLocked
  <2>. QED BY <2>1, <2>2, <2>3 DEF Lifecycle!Next, Lifecycle!Fail, Lifecycle!vars
<1>5. \/ \E d \in Deliverers :
           StartSending(d) \/ RecordSent(d) \/ Finish(d) \/ FailLocked(d)
      \/ status' = status /\ confirmed' = confirmed
  BY DEF Next, Step, vars, db, history, Begin, BeginElsewhere, ReadAttempts, Refuse,
         AddAttempt, SendMessage, RecordRetry, RecordFailure, FailRead, Report,
         Interrupt, Relayout, DayPasses, Cleanup
<1>. QED BY <1>1, <1>2, <1>3, <1>4, <1>5 DEF Lifecycle!vars

(* Where every call can deliver, delivery implements the abstract digest   *)
(* lifecycle: parts arrive only while the digest is SENDING, SENT is       *)
(* complete and final, FAILED keeps its parts and can be sent again.       *)
THEOREM ImplementsLifecycle == Deliverable => (Spec => KeepsLifecycle)
<1>. SUFFICES ASSUME Deliverable PROVE Spec => KeepsLifecycle
  OBVIOUS
<1>1. Spec => []ConfirmedInv
  BY InitConfirmedInv, NextConfirmedInv, TypeInvCorrect, PTL DEF Spec
<1>2. Spec => []SenderInv BY SenderInvCorrect
<1>. QED
  BY <1>1, <1>2, TypeInvCorrect, InitLifecycle, NextLifecycle, PTL
  DEF Spec, KeepsLifecycle, Lifecycle!Spec

-----------------------------------------------------------------------------
(* One caller at a time: deliver runs in the pipeline's own process or in  *)
(* one retry-delivery command, never in two.                               *)
OneCaller == \A d, e \in Deliverers : d = e

(* Until a sending call is past its last part, no part it still has to     *)
(* send has a row that says sent.                                          *)
UnsentTodo ==
  \A d \in Deliverers : call[d].pc \in Working => call[d].todo \cap SentParts = {}

(* Only RecordSent makes a row say sent, and only of the part it sent.     *)
LEMMA SentPartsGrow ==
  ASSUME TypeInv, [Next]_vars, NEW p \in SentParts', p \notin SentParts
  PROVE  \E d \in Deliverers : RecordSent(d) /\ p = Part(d)
<1>. USE DEF TypeInv
<1>1. PICK a \in attempts' : a.status = "sent" /\ a.part = p BY DEF SentParts
<1>2. a \notin attempts BY <1>1 DEF SentParts
<1>3. ASSUME NEW d \in Deliverers, attempts' = Completed(d)
      PROVE  call[d].reply = "sent" /\ p = Part(d)
  <2>1. PICK b \in attempts :
          a = IF Key(b) = <<Part(d), Number(d)>> THEN [b EXCEPT !.status = call[d].reply]
                                                 ELSE b
    BY <1>1, <1>3 DEF Completed
  <2>2. Key(b) = <<Part(d), Number(d)>> /\ a = [b EXCEPT !.status = call[d].reply]
    BY <1>2, <2>1
  <2>. QED BY <1>1, <2>2 DEF Key, TypeOK
<1>4. ASSUME NEW d \in Deliverers, AddAttempt(d) PROVE FALSE
  BY <1>1, <1>2, <1>4 DEF AddAttempt
<1>5. \/ \E d \in Deliverers : RecordSent(d) \/ RecordRetry(d) \/ RecordFailure(d)
                               \/ AddAttempt(d)
      \/ attempts' \subseteq attempts
  BY DEF Next, Step, vars, db, history, Begin, BeginElsewhere, ReadAttempts, Refuse,
         StartSending, SendMessage, Finish, FailRead, FailLocked, Report, Interrupt,
         Relayout, DayPasses, Cleanup
<1>. QED
  BY <1>1, <1>2, <1>3, <1>4, <1>5
  DEF RecordSent, RecordRetry, RecordFailure, Retryable, FailureCode

LEMMA NextUnsentTodo ==
  OneCaller /\ TypeInv /\ UnsentTodo /\ [Next]_vars => UnsentTodo'
<1>. SUFFICES ASSUME OneCaller, TypeInv, UnsentTodo, [Next]_vars,
                     NEW d \in Deliverers, call'[d].pc \in Working
              PROVE  call'[d].todo \cap SentParts' = {}
  BY DEF UnsentTodo
<1>. USE DEF TypeInv
<1>1. CASE RecordSent(d)
  <2>1. call[d].todo \cap SentParts = {}
    BY <1>1 DEF UnsentTodo, RecordSent, At, Working
  <2>2. call'[d].todo = call[d].todo \ {Part(d)} BY <1>1, RecordSentFields
  <2>3. ASSUME NEW p \in SentParts', p \notin SentParts PROVE p = Part(d)
    BY <2>3, SentPartsGrow DEF OneCaller
  <2>. QED BY <2>1, <2>2, <2>3
<1>2. CASE ~ RecordSent(d)
  <2>1. SentParts' \subseteq SentParts BY <1>2, SentPartsGrow DEF OneCaller
  <2>2. \/ call[d].pc \in Working /\ call'[d].todo = call[d].todo
        \/ call'[d].todo \cap SentParts = {}
    <3>1. ASSUME NEW outcome, Leave(d, outcome) PROVE FALSE
      BY <3>1, LeaveFields DEF Working
    <3>2. CASE ReadAttempts(d)
      BY <3>2, ReadAttemptsFields
    <3>3. CASE SendMessage(d) \/ RecordRetry(d)
      BY <3>3, SendMessageFields, RecordRetryFields
      DEF SendMessage, RecordRetry, At, Working
    <3>4. CASE StartSending(d) \/ AddAttempt(d)
      <4>1. call[d].pc \in Working BY <3>4 DEF StartSending, AddAttempt, At, Working
      <4>2. \E loc : Goto(d, loc) BY <3>1, <3>4 DEF StartSending, AddAttempt
      <4>. QED BY <4>1, <4>2, GotoFields
    <3>5. CASE Begin(d) \/ FailRead(d)
      BY <3>5, BeginFields, FailReadFields DEF Working
    <3>6. CASE Refuse(d) \/ RecordFailure(d) \/ FailLocked(d)
      BY <3>1, <3>6, GotoFields DEF Refuse, RecordFailure, FailLocked, AfterFail, Working
    <3>7. CASE BeginElsewhere(d) \/ Finish(d) \/ Report(d) \/ Interrupt(d)
      BY <3>1, <3>7 DEF BeginElsewhere, Finish, Report, Interrupt
    <3>8. CASE Relayout \/ DayPasses \/ Cleanup \/ UNCHANGED vars
      BY <3>8 DEF Relayout, DayPasses, Cleanup, vars
    <3>. QED
      BY <1>2, <3>2, <3>3, <3>4, <3>5, <3>6, <3>7, <3>8 DEF OneCaller, Next, Step
  <2>. QED BY <2>1, <2>2 DEF UnsentTodo
<1>. QED BY <1>1, <1>2

(* With one caller, a part that an attempt records as sent is not sent     *)
(* again, over every retry, refused call and cleanup.                      *)
THEOREM SentPartsStay == OneCaller => (Spec => OnlyUnsentParts)
<1>. SUFFICES ASSUME OneCaller PROVE Spec => OnlyUnsentParts
  OBVIOUS
<1>1. Init => UnsentTodo BY DEF Init, UnsentTodo, NoCall, Working
<1>2. TypeInv /\ UnsentTodo /\ [Next]_vars => UnsentTodo' BY NextUnsentTodo
<1>3. TypeInv /\ UnsentTodo /\ [Next]_vars =>
        [\A l \in Layouts, p \in PartNumbers :
           posted'[l][p] # posted[l][p] => p \notin SentParts]_<<posted, attempts>>
  <2>. SUFFICES ASSUME TypeInv, UnsentTodo, [Next]_vars,
                       NEW l \in Layouts, NEW p \in PartNumbers,
                       posted'[l][p] # posted[l][p]
                PROVE  p \notin SentParts
    OBVIOUS
  <2>1. PICK d \in Deliverers : SendMessage(d)
    BY DEF Next, Step, vars, db, history, Begin, BeginElsewhere, ReadAttempts, Refuse,
           StartSending, AddAttempt, RecordSent, RecordRetry, RecordFailure, Finish,
           FailRead, FailLocked, Report, Interrupt, Relayout, DayPasses, Cleanup
  <2>2. call[d].todo # {} /\ call[d].pc \in Working
    BY <2>1 DEF SendMessage, At, TypeInv, PartPending, Working
  <2>3. Part(d) \in call[d].todo /\ call[d].layout \in Layouts
    BY <2>2, PartInTodo DEF TypeInv, TypeOK, CallState
  <2>4. p = Part(d) BY <2>1, <2>3 DEF SendMessage, TypeInv, TypeOK
  <2>. QED BY <2>2, <2>3, <2>4 DEF UnsentTodo
<1>. QED BY <1>1, <1>2, <1>3, TypeInvCorrect, PTL DEF Spec, OnlyUnsentParts

-----------------------------------------------------------------------------
(* The source names stay as they are, and split_digest_messages puts every *)
(* article into a part (digest_render.py:83-142; SplitIsRight checks it).  *)
OneLayout == \A l, m \in Layouts : l = m
SplitsCover ==
  \A l \in Splittable : \A a \in Articles : \E p \in PartsOf(l) : a \in Split[l][p]

(* A part recorded as sent is in the chat, and so is one whose request was *)
(* answered but not recorded yet.                                          *)
PostedInv ==
  /\ \A p \in PartNumbers : confirmed[p] > 0 => \A l \in Layouts : posted[l][p] > 0
  /\ \A d \in Deliverers :
       call[d].pc = "record" /\ call[d].reply = "sent"
         => \A l \in Layouts : posted[l][Part(d)] > 0

(* The answer a request gets, and the message it leaves in the chat.       *)
LEMMA SendMessageEffect ==
  ASSUME TypeInv, NEW d \in Deliverers, SendMessage(d)
  PROVE  /\ call[d].todo # {} /\ Part(d) \in PartNumbers /\ call[d].layout \in Layouts
         /\ call'[d].prior = call[d].prior /\ call'[d].trial = call[d].trial
         /\ \/ /\ posted' = posted
               /\ call'[d].reply # "sent"
            \/ /\ posted' = [posted EXCEPT ![call[d].layout][Part(d)] = @ + 1]
               /\ call'[d].reply # "rate_limited"
<1>. USE DEF TypeInv
<1>0. call[d].todo # {} BY DEF SendMessage, At, PartPending
<1>1. Part(d) \in PartNumbers BY <1>0, PartInTodo
<1>2. PICK reply \in {"sent"} \cup FailureCode, delivered \in BOOLEAN :
        /\ reply = "sent" => delivered
        /\ reply = "rate_limited" => ~ delivered
        /\ Becomes(d, [call[d] EXCEPT !.pc = "record", !.reply = reply])
        /\ posted' = IF delivered
                       THEN [posted EXCEPT ![call[d].layout][Part(d)] = @ + 1]
                       ELSE posted
  BY DEF SendMessage
<1>. DEFINE state == [call[d] EXCEPT !.pc = "record", !.reply = reply]
<1>3. call[d] \in CallState BY DEF TypeOK
<1>4. /\ state.reply = reply /\ state.prior = call[d].prior /\ state.trial = call[d].trial
      /\ call[d].layout \in Layouts
  BY <1>3 DEF CallState
<1>5. Becomes(d, state) BY <1>2
<1>. HIDE DEF state
<1>6. call'[d] = state BY <1>5, BecomesFields
<1>. QED BY <1>0, <1>1, <1>2, <1>4, <1>6

(* Nothing is taken out of the chat.                                       *)
LEMMA PostedGrows ==
  ASSUME TypeInv, [Next]_vars, NEW l \in Layouts, NEW p \in PartNumbers
  PROVE  posted[l][p] <= posted'[l][p]
<1>1. ASSUME NEW d \in Deliverers, SendMessage(d) PROVE posted[l][p] <= posted'[l][p]
  <2>1. posted \in [Layouts -> [PartNumbers -> Nat]] BY DEF TypeInv, TypeOK
  <2>2. /\ call[d].layout \in Layouts /\ Part(d) \in PartNumbers
        /\ \/ posted' = posted
           \/ posted' = [posted EXCEPT ![call[d].layout][Part(d)] = @ + 1]
    BY <1>1, SendMessageEffect
  <2>3. posted[l][p] \in Nat BY <2>1
  <2>4. posted'[l][p] \in {posted[l][p], posted[l][p] + 1} BY <2>1, <2>2
  <2>. QED BY <2>3, <2>4
<1>2. posted' = posted \/ \E d \in Deliverers : SendMessage(d)
  BY DEF Next, Step, vars, history, Begin, BeginElsewhere, ReadAttempts, Refuse,
         StartSending, AddAttempt, RecordSent, RecordRetry, RecordFailure, Finish,
         FailRead, FailLocked, Report, Interrupt, Relayout, DayPasses, Cleanup
<1>. QED BY <1>1, <1>2 DEF TypeInv, TypeOK

(* Only a request that was sent brings a call to "record"; a call there    *)
(* that does not move keeps its locals.                                    *)
LEMMA ToRecord ==
  ASSUME TypeInv, [Next]_vars, NEW d \in Deliverers, call'[d].pc = "record"
  PROVE  SendMessage(d) \/ call'[d] = call[d]
<1>. USE DEF TypeInv
<1>0. ASSUME NEW outcome, Leave(d, outcome) PROVE FALSE BY <1>0, LeaveFields
<1>1. ASSUME NEW e \in Deliverers,
             \/ BeginElsewhere(e) \/ Finish(e) \/ Report(e) \/ Interrupt(e)
      PROVE  call'[d] = call[d]
  <2>1. \E outcome : Leave(e, outcome)
    BY <1>1 DEF BeginElsewhere, Finish, Report, Interrupt
  <2>. QED BY <1>0, <2>1, LeaveFields
<1>2. ASSUME NEW e \in Deliverers,
             \/ Begin(e) \/ ReadAttempts(e) \/ RecordSent(e) \/ RecordRetry(e)
             \/ FailRead(e)
      PROVE  call'[d] = call[d]
  BY <1>2, BeginFields, ReadAttemptsFields, RecordSentFields, RecordRetryFields,
     FailReadFields
<1>3. ASSUME NEW e \in Deliverers,
             \/ Refuse(e) \/ StartSending(e) \/ AddAttempt(e) \/ RecordFailure(e)
             \/ FailLocked(e)
      PROVE  call'[d] = call[d]
  <2>1. \/ \E outcome : Leave(e, outcome)
        \/ \E loc \in {"fail", "next", "send", "report"} : Goto(e, loc)
    BY <1>3 DEF Refuse, StartSending, AddAttempt, RecordFailure, FailLocked, AfterFail
  <2>. QED BY <1>0, <2>1, LeaveFields, GotoFields
<1>4. ASSUME NEW e \in Deliverers, SendMessage(e) PROVE SendMessage(d) \/ call'[d] = call[d]
  BY <1>4, SendMessageFields
<1>5. CASE Relayout \/ DayPasses \/ Cleanup \/ UNCHANGED vars
  BY <1>5 DEF Relayout, DayPasses, Cleanup, vars
<1>. QED BY <1>1, <1>2, <1>3, <1>4, <1>5 DEF Next, Step

LEMMA NextPostedInv ==
  OneLayout /\ TypeInv /\ PostedInv /\ [Next]_vars => PostedInv'
<1>. SUFFICES ASSUME OneLayout, TypeInv, PostedInv, [Next]_vars PROVE PostedInv'
  OBVIOUS
<1>. USE DEF TypeInv
<1>1. ASSUME NEW p \in PartNumbers, NEW l \in Layouts, posted[l][p] > 0
      PROVE  posted'[l][p] > 0
  <2>1. posted[l][p] \in Nat /\ posted[l][p] <= posted'[l][p]
    BY PostedGrows DEF TypeOK
  <2>2. posted'[l][p] \in Nat
    <3>1. TypeOK' BY NextTypeInv
    <3>. QED BY <3>1 DEF TypeOK
  <2>. QED BY <1>1, <2>1, <2>2
<1>2. ASSUME NEW p \in PartNumbers, confirmed'[p] > 0, NEW l \in Layouts
      PROVE  posted'[l][p] > 0
  <2>1. CASE confirmed[p] > 0 BY <1>1, <2>1 DEF PostedInv
  <2>2. CASE ~ (confirmed[p] > 0)
    <3>1. PICK d \in Deliverers : RecordSent(d)
      BY <1>2, <2>2
      DEF Next, Step, vars, history, Begin, BeginElsewhere, ReadAttempts, Refuse,
          StartSending, AddAttempt, SendMessage, RecordRetry, RecordFailure, Finish,
          FailRead, FailLocked, Report, Interrupt, Relayout, DayPasses, Cleanup
    <3>2. Part(d) \in PartNumbers BY <3>1, PartInTodo DEF RecordSent, At, PartPending
    <3>3. p = Part(d) BY <1>2, <2>2, <3>1, <3>2 DEF RecordSent, TypeOK
    <3>4. posted[l][p] > 0 BY <3>1, <3>3 DEF RecordSent, At, PostedInv
    <3>. QED BY <1>1, <3>4
  <2>. QED BY <2>1, <2>2
<1>3. ASSUME NEW d \in Deliverers, call'[d].pc = "record", call'[d].reply = "sent",
             NEW l \in Layouts
      PROVE  posted'[l][Part(d)'] > 0
  <2>1. CASE SendMessage(d)
    <3>1. Part(d)' = Part(d) BY <2>1, SendMessageFields DEF Part
    <3>2. /\ l = call[d].layout /\ Part(d) \in PartNumbers
          /\ posted' = [posted EXCEPT ![call[d].layout][Part(d)] = @ + 1]
      BY <1>3, <2>1, SendMessageEffect DEF OneLayout
    <3>. QED BY <3>1, <3>2 DEF TypeOK
  <2>2. CASE call'[d] = call[d]
    <3>1. Part(d)' = Part(d) BY <2>2 DEF Part
    <3>2. Part(d) \in PartNumbers BY <1>3, <2>2, PartInTodo DEF PartPending
    <3>3. posted[l][Part(d)] > 0 BY <1>3, <2>2 DEF PostedInv
    <3>. QED BY <1>1, <3>1, <3>2, <3>3
  <2>. QED BY <1>3, <2>1, <2>2, ToRecord
<1>. QED BY <1>2, <1>3 DEF PostedInv

(* While the split stays as it is, a SENT digest has every article in the  *)
(* chat, whatever calls overlap, crash, are refused or run beside a        *)
(* cleanup.                                                                *)
THEOREM NothingIsLost == OneLayout /\ SplitsCover => (Spec => []NothingLost)
<1>. SUFFICES ASSUME OneLayout, SplitsCover PROVE Spec => []NothingLost
  OBVIOUS
<1>1. Init => PostedInv BY DEF Init, PostedInv, NoCall
<1>2. TypeInv /\ PostedInv /\ [Next]_vars => PostedInv' BY NextPostedInv
<1>3. Spec => []PostedInv BY <1>1, <1>2, TypeInvCorrect, PTL DEF Spec
<1>4. TypeInv /\ SentMeansConfirmed /\ PostedInv => NothingLost
  <2>. SUFFICES ASSUME SentMeansConfirmed, PostedInv, status = "sent", NEW a \in Articles
                PROVE  \E l \in Layouts : \E p \in PartsOf(l) :
                         a \in Split[l][p] /\ posted[l][p] > 0
    BY DEF NothingLost
  <2>1. PICK l \in Splittable : \A p \in PartsOf(l) : confirmed[p] > 0
    BY DEF SentMeansConfirmed
  <2>2. PICK p \in PartsOf(l) : a \in Split[l][p] BY DEF SplitsCover
  <2>3. l \in Layouts /\ p \in PartNumbers BY DEF Splittable, PartsOf, PartNumbers
  <2>. QED BY <2>1, <2>2, <2>3 DEF PostedInv
<1>. QED BY <1>3, <1>4, TypeInvCorrect, SentIsConfirmed, PTL

-----------------------------------------------------------------------------
(* The attempt log.                                                        *)

(* A call between the insert and the result of an attempt, the key of that *)
(* attempt and its row.                                                    *)
InFlight(d) == call[d].pc \in {"send", "record"}
HeldKey(d) == <<Part(d), Number(d)>>
HeldRow(d) == [part |-> Part(d), number |-> Number(d), status |-> "pending"]

(* Its message is not in the chat, whatever the row says: the request has  *)
(* not gone out, or a rate limit turned it away.                           *)
Unposted(d) ==
  \/ call[d].pc = "send"
  \/ call[d].pc = "record" /\ call[d].reply = "rate_limited"

(* Part and number identify an attempt, and no two calls make the same.    *)
AttemptsInv ==
  /\ IsFiniteSet(attempts)
  /\ \A a, b \in attempts : Key(a) = Key(b) => a = b
  /\ \A d \in Deliverers : InFlight(d) => HeldRow(d) \in attempts
  /\ \A d, e \in Deliverers :
       InFlight(d) /\ InFlight(e) /\ HeldKey(d) = HeldKey(e) => d = e

(* The attempts of a part whose message may be in the chat.                *)
Counts(a) ==
  a.status # "rate_limited" /\ \A d \in Deliverers : Unposted(d) => HeldKey(d) # Key(a)
CountedOf(p) == {a \in attempts : a.part = p /\ Counts(a)}
Counted(p) == {Key(a) : a \in CountedOf(p)}

CountInv == \A l \in Layouts, p \in PartNumbers : posted[l][p] <= Cardinality(Counted(p))

(* The image of a finite set is finite and no larger.                      *)
LEMMA FiniteImage ==
  ASSUME NEW S, IsFiniteSet(S), NEW f
  PROVE  /\ IsFiniteSet({f[x] : x \in S})
         /\ Cardinality({f[x] : x \in S}) <= Cardinality(S)
<1>. DEFINE T == {f[x] : x \in S}
            g == [x \in S |-> f[x]]
<1>1. g \in Surjection(S, T) BY DEF Surjection
<1>. QED BY <1>1, FS_Surjection

LEMMA KeysFinite ==
  ASSUME NEW S, IsFiniteSet(S)
  PROVE  /\ IsFiniteSet({Key(a) : a \in S})
         /\ Cardinality({Key(a) : a \in S}) <= Cardinality(S)
<1>. DEFINE key == [a \in S |-> Key(a)]
<1>1. {Key(a) : a \in S} = {key[a] : a \in S} OBVIOUS
<1>. HIDE DEF key
<1>2. /\ IsFiniteSet({key[a] : a \in S})
      /\ Cardinality({key[a] : a \in S}) <= Cardinality(S)
  BY FiniteImage
<1>. QED BY <1>1, <1>2

LEMMA CountedFinite ==
  ASSUME AttemptsInv, NEW p
  PROVE  /\ IsFiniteSet(CountedOf(p)) /\ IsFiniteSet(Counted(p))
         /\ Cardinality(Counted(p)) <= Cardinality(CountedOf(p))
<1>1. CountedOf(p) \in SUBSET attempts BY DEF CountedOf
<1>2. IsFiniteSet(CountedOf(p)) BY <1>1, FS_Subset DEF AttemptsInv
<1>. QED BY <1>2, KeysFinite DEF Counted

(* A call that keeps its part, prior numbers and trial keeps its attempt.  *)
LEMMA SameHeld ==
  ASSUME NEW d \in Deliverers, call'[d].todo = call[d].todo,
         call'[d].prior = call[d].prior, call'[d].trial = call[d].trial
  PROVE  HeldKey(d)' = HeldKey(d) /\ HeldRow(d)' = HeldRow(d)
<1>1. Part(d)' = Part(d) BY DEF Part
<1>2. Number(d)' = Number(d) BY <1>1 DEF Number
<1>. QED BY <1>1, <1>2 DEF HeldKey, HeldRow

LEMMA SameCall ==
  ASSUME NEW d \in Deliverers, call'[d] = call[d]
  PROVE  /\ HeldKey(d)' = HeldKey(d) /\ HeldRow(d)' = HeldRow(d)
         /\ InFlight(d)' = InFlight(d) /\ Unposted(d)' = Unposted(d)
BY SameHeld DEF InFlight, Unposted

LEMMA AddAttemptEffect ==
  ASSUME TypeInv, NEW d \in Deliverers, AddAttempt(d)
  PROVE  /\ ~ InFlight(d)
         /\ \A e \in Deliverers : e # d => call'[e] = call[e]
         /\ \/ /\ attempts' = attempts
               /\ call'[d].pc = "idle"
            \/ /\ \A a \in attempts : Key(a) # HeldKey(d)
               /\ attempts' = attempts \cup {HeldRow(d)}
               /\ call'[d].pc = "send"
               /\ HeldKey(d)' = HeldKey(d) /\ HeldRow(d)' = HeldRow(d)
<1>. USE DEF TypeInv
<1>1. ~ InFlight(d) BY DEF AddAttempt, At, InFlight
<1>2. CASE \E a \in attempts : Key(a) = HeldKey(d)
  <2>1. Leave(d, "raised") /\ attempts' = attempts BY <1>2 DEF AddAttempt, HeldKey, Key
  <2>. QED BY <1>1, <2>1, LeaveFields
<1>3. CASE ~ \E a \in attempts : Key(a) = HeldKey(d)
  <2>1. Goto(d, "send") /\ attempts' = attempts \cup {HeldRow(d)}
    BY <1>3 DEF AddAttempt, HeldKey, HeldRow, Key
  <2>. DEFINE state == [call[d] EXCEPT !.pc = "send"]
  <2>2. call[d] \in CallState BY DEF TypeOK
  <2>3. /\ state.pc = "send" /\ state.todo = call[d].todo
        /\ state.prior = call[d].prior /\ state.trial = call[d].trial
    BY <2>2 DEF CallState
  <2>4. Becomes(d, state) BY <2>1 DEF Goto
  <2>. HIDE DEF state
  <2>5. call'[d] = state /\ \A e \in Deliverers : e # d => call'[e] = call[e]
    BY <2>4, BecomesFields
  <2>. QED BY <1>1, <1>3, <2>1, <2>3, <2>5, SameHeld
<1>. QED BY <1>2, <1>3

(* An attempt gets its result.                                             *)
Records(d) == RecordSent(d) \/ RecordRetry(d) \/ RecordFailure(d)

LEMMA RecordsEffect ==
  ASSUME TypeInv, NEW d \in Deliverers, Records(d)
  PROVE  /\ InFlight(d) /\ call[d].pc = "record" /\ call'[d].pc \in {"next", "fail"}
         /\ attempts' = Completed(d)
         /\ \A e \in Deliverers : e # d => call'[e] = call[e]
<1>. USE DEF TypeInv
<1>1. CASE RecordSent(d)
  BY <1>1, RecordSentFields DEF RecordSent, At, InFlight
<1>2. CASE RecordRetry(d)
  BY <1>2, RecordRetryFields DEF RecordRetry, At, InFlight
<1>3. CASE RecordFailure(d)
  <2>1. Goto(d, "fail") BY <1>3 DEF RecordFailure
  <2>. QED BY <1>3, <2>1, GotoFields DEF RecordFailure, At, InFlight
<1>. QED BY <1>1, <1>2, <1>3 DEF Records

(* Without cleanups every other step leaves the rows alone; one call may   *)
(* move, to a place where it has no attempt in flight.                     *)
LEMMA OtherEffect ==
  ASSUME TypeInv, ~ CleanupRuns, [Next]_vars,
         \A d \in Deliverers : ~ AddAttempt(d) /\ ~ Records(d) /\ ~ SendMessage(d)
  PROVE  /\ attempts' = attempts /\ posted' = posted
         /\ \A e \in Deliverers : call'[e] = call[e] \/ ~ InFlight(e)'
<1>. USE DEF TypeInv
<1>1. attempts' = attempts /\ posted' = posted
  BY DEF Next, Step, Records, vars, db, history, Begin, BeginElsewhere, ReadAttempts,
         Refuse, StartSending, Finish, FailRead, FailLocked, Report, Interrupt,
         Relayout, DayPasses, Cleanup
<1>2. ASSUME NEW d \in Deliverers,
             \/ BeginElsewhere(d) \/ Finish(d) \/ Report(d) \/ Interrupt(d)
      PROVE  \A e \in Deliverers : call'[e] = call[e] \/ ~ InFlight(e)'
  <2>1. \E outcome : Leave(d, outcome)
    BY <1>2 DEF BeginElsewhere, Finish, Report, Interrupt
  <2>. QED BY <2>1, LeaveFields DEF InFlight
<1>3. ASSUME NEW d \in Deliverers, Begin(d) \/ ReadAttempts(d) \/ FailRead(d)
      PROVE  \A e \in Deliverers : call'[e] = call[e] \/ ~ InFlight(e)'
  BY <1>3, BeginFields, ReadAttemptsFields, FailReadFields DEF InFlight
<1>4. ASSUME NEW d \in Deliverers, Refuse(d) \/ StartSending(d) \/ FailLocked(d)
      PROVE  \A e \in Deliverers : call'[e] = call[e] \/ ~ InFlight(e)'
  <2>1. \/ \E outcome : Leave(d, outcome)
        \/ \E loc \in {"fail", "next", "report"} : Goto(d, loc)
    BY <1>4 DEF Refuse, StartSending, FailLocked, AfterFail
  <2>. QED BY <2>1, LeaveFields, GotoFields DEF InFlight
<1>5. CASE Relayout \/ DayPasses \/ Cleanup \/ UNCHANGED vars
  BY <1>1, <1>5 DEF Relayout, DayPasses, Cleanup, vars
<1>. QED BY <1>1, <1>2, <1>3, <1>4, <1>5 DEF Next, Step, Records

(* Completing an attempt changes the result of its row and nothing else.   *)
LEMMA CompletedRows ==
  ASSUME TypeInv, AttemptsInv, NEW d \in Deliverers, InFlight(d)
  PROVE  Completed(d) = (attempts \ {HeldRow(d)})
                          \cup {[HeldRow(d) EXCEPT !.status = call[d].reply]}
<1>1. HeldRow(d) \in attempts /\ Key(HeldRow(d)) = HeldKey(d)
  BY DEF AttemptsInv, HeldRow, HeldKey, Key
<1>2. \A a \in attempts : Key(a) = HeldKey(d) <=> a = HeldRow(d)
  BY <1>1 DEF AttemptsInv
<1>. QED BY <1>1, <1>2 DEF Completed, HeldKey

LEMMA NextAttemptsInv ==
  TypeInv /\ AttemptsInv /\ ~ CleanupRuns /\ [Next]_vars => AttemptsInv'
<1>. SUFFICES ASSUME TypeInv, AttemptsInv, ~ CleanupRuns, [Next]_vars PROVE AttemptsInv'
  OBVIOUS
<1>1. ASSUME NEW d \in Deliverers, AddAttempt(d) PROVE AttemptsInv'
  <2>0. \A e \in Deliverers : e # d => call'[e] = call[e]
    BY <1>1, AddAttemptEffect
  <2>1. CASE attempts' = attempts /\ call'[d].pc = "idle"
    <3>1. ~ InFlight(d)' BY <2>1 DEF InFlight
    <3>. QED BY <2>0, <2>1, <3>1, SameCall DEF AttemptsInv, Key
  <2>2. CASE /\ \A a \in attempts : Key(a) # HeldKey(d)
             /\ attempts' = attempts \cup {HeldRow(d)}
             /\ HeldKey(d)' = HeldKey(d) /\ HeldRow(d)' = HeldRow(d)
    <3>1. IsFiniteSet(attempts') BY <2>2, FS_AddElement DEF AttemptsInv
    <3>2. Key(HeldRow(d)) = HeldKey(d) BY DEF Key, HeldRow, HeldKey
    <3>3. \A a, b \in attempts' : Key(a) = Key(b) => a = b
      BY <2>2, <3>2 DEF AttemptsInv
    <3>4. ASSUME NEW e \in Deliverers, InFlight(e)'
          PROVE  /\ HeldRow(e)' \in attempts'
                 /\ e # d => HeldKey(e)' # HeldKey(d)'
      <4>1. CASE e = d BY <2>2, <4>1
      <4>2. CASE e # d
        <5>1. InFlight(e) /\ HeldRow(e)' = HeldRow(e) /\ HeldKey(e)' = HeldKey(e)
          BY <2>0, <3>4, <4>2, SameCall
        <5>2. HeldRow(e) \in attempts /\ Key(HeldRow(e)) = HeldKey(e)
          BY <5>1 DEF AttemptsInv, Key, HeldRow, HeldKey
        <5>. QED BY <2>2, <5>1, <5>2
      <4>. QED BY <4>1, <4>2
    <3>5. ASSUME NEW e \in Deliverers, NEW f \in Deliverers,
                 InFlight(e)', InFlight(f)', HeldKey(e)' = HeldKey(f)'
          PROVE  e = f
      <4>1. CASE e = d \/ f = d BY <3>4, <3>5, <4>1
      <4>2. CASE e # d /\ f # d
        BY <2>0, <3>5, <4>2, SameCall DEF AttemptsInv
      <4>. QED BY <4>1, <4>2
    <3>. QED BY <3>1, <3>3, <3>4, <3>5 DEF AttemptsInv, Key
  <2>. QED BY <1>1, <2>1, <2>2, AddAttemptEffect
<1>2. ASSUME NEW d \in Deliverers, Records(d) PROVE AttemptsInv'
  <2>0. /\ InFlight(d) /\ attempts' = Completed(d) /\ call'[d].pc \in {"next", "fail"}
        /\ \A e \in Deliverers : e # d => call'[e] = call[e]
    BY <1>2, RecordsEffect
  <2>. DEFINE done == [HeldRow(d) EXCEPT !.status = call[d].reply]
  <2>1. attempts' = (attempts \ {HeldRow(d)}) \cup {done} BY <2>0, CompletedRows
  <2>2. Key(done) = HeldKey(d) /\ Key(HeldRow(d)) = HeldKey(d) /\ HeldRow(d) \in attempts
    BY <2>0 DEF Key, HeldRow, HeldKey, AttemptsInv
  <2>3. IsFiniteSet(attempts')
    <3>1. (attempts \ {HeldRow(d)}) \in SUBSET attempts OBVIOUS
    <3>2. IsFiniteSet(attempts \ {HeldRow(d)}) BY <3>1, FS_Subset DEF AttemptsInv
    <3>. HIDE DEF done
    <3>. QED BY <2>1, <3>2, FS_AddElement
  <2>4. \A a, b \in attempts' : Key(a) = Key(b) => a = b
    <3>. HIDE DEF done
    <3>. QED BY <2>1, <2>2 DEF AttemptsInv
  <2>5. ~ InFlight(d)' BY <2>0 DEF InFlight
  <2>6. ASSUME NEW e \in Deliverers, InFlight(e)'
        PROVE  /\ e # d /\ InFlight(e)
               /\ HeldKey(e)' = HeldKey(e) /\ HeldRow(e)' = HeldRow(e)
    BY <2>0, <2>5, <2>6, SameCall
  <2>7. ASSUME NEW e \in Deliverers, InFlight(e)' PROVE HeldRow(e)' \in attempts'
    <3>1. /\ HeldRow(e) \in attempts /\ Key(HeldRow(e)) = HeldKey(e)
          /\ HeldKey(e) # HeldKey(d)
      BY <2>0, <2>6, <2>7 DEF AttemptsInv, Key, HeldRow, HeldKey
    <3>. HIDE DEF done
    <3>. QED BY <2>1, <2>2, <2>6, <2>7, <3>1
  <2>8. \A e, f \in Deliverers :
          InFlight(e)' /\ InFlight(f)' /\ HeldKey(e)' = HeldKey(f)' => e = f
    BY <2>6 DEF AttemptsInv
  <2>. QED BY <2>3, <2>4, <2>7, <2>8 DEF AttemptsInv, Key
<1>3. ASSUME NEW d \in Deliverers, SendMessage(d) PROVE AttemptsInv'
  <2>1. /\ attempts' = attempts /\ InFlight(d)
        /\ \A e \in Deliverers : e # d => call'[e] = call[e]
    BY <1>3, SendMessageFields DEF SendMessage, At, InFlight, db, TypeInv
  <2>2. HeldKey(d)' = HeldKey(d) /\ HeldRow(d)' = HeldRow(d)
    BY <1>3, SendMessageFields, SendMessageEffect, SameHeld DEF TypeInv
  <2>3. \A e \in Deliverers : /\ InFlight(e)' => InFlight(e)
                              /\ HeldKey(e)' = HeldKey(e) /\ HeldRow(e)' = HeldRow(e)
    BY <2>1, <2>2, SameCall
  <2>. QED BY <2>1, <2>3 DEF AttemptsInv, Key
<1>4. CASE \A d \in Deliverers : ~ AddAttempt(d) /\ ~ Records(d) /\ ~ SendMessage(d)
  <2>1. /\ attempts' = attempts
        /\ \A e \in Deliverers : call'[e] = call[e] \/ ~ InFlight(e)'
    BY <1>4, OtherEffect
  <2>2. \A e \in Deliverers :
          InFlight(e)' => /\ InFlight(e)
                          /\ HeldKey(e)' = HeldKey(e) /\ HeldRow(e)' = HeldRow(e)
    BY <2>1, SameCall
  <2>. QED BY <2>1, <2>2 DEF AttemptsInv, Key
<1>. QED BY <1>1, <1>2, <1>3, <1>4

(* A step that posts nothing keeps every attempt that counts.              *)
LEMMA CountedGrows ==
  ASSUME TypeInv, AttemptsInv, ~ CleanupRuns, [Next]_vars, NEW p,
         \A d \in Deliverers : ~ SendMessage(d)
  PROVE  posted' = posted /\ Counted(p) \subseteq Counted(p)'
<1>1. ASSUME NEW d \in Deliverers, AddAttempt(d)
      PROVE  posted' = posted /\ Counted(p) \subseteq Counted(p)'
  <2>1. posted' = posted /\ attempts \subseteq attempts'
    BY <1>1, AddAttemptEffect DEF AddAttempt, history
  <2>2. ASSUME NEW a \in attempts, Counts(a) PROVE Counts(a)'
    <3>1. ASSUME NEW e \in Deliverers, Unposted(e)' PROVE HeldKey(e)' # Key(a)
      <4>1. CASE e # d
        BY <1>1, <2>2, <3>1, <4>1, AddAttemptEffect, SameCall DEF Counts
      <4>2. CASE e = d
        BY <1>1, <3>1, <4>2, AddAttemptEffect DEF Unposted
      <4>. QED BY <4>1, <4>2
    <3>. QED BY <2>2, <3>1 DEF Counts, Key
  <2>. QED BY <2>1, <2>2 DEF Counted, CountedOf, Key
<1>2. ASSUME NEW d \in Deliverers, Records(d)
      PROVE  posted' = posted /\ Counted(p) \subseteq Counted(p)'
  <2>0. /\ InFlight(d) /\ attempts' = Completed(d)
        /\ call[d].pc = "record" /\ call'[d].pc \in {"next", "fail"}
        /\ \A e \in Deliverers : e # d => call'[e] = call[e]
    BY <1>2, RecordsEffect
  <2>. DEFINE done == [HeldRow(d) EXCEPT !.status = call[d].reply]
  <2>1. attempts' = (attempts \ {HeldRow(d)}) \cup {done} BY <2>0, CompletedRows
  <2>2. posted' = posted
    BY <1>2 DEF Records, RecordSent, RecordRetry, RecordFailure, history
  <2>3. /\ done.part = HeldRow(d).part /\ done.status = call[d].reply
        /\ Key(done) = HeldKey(d) /\ Key(HeldRow(d)) = HeldKey(d)
    BY DEF HeldRow, HeldKey, Key
  <2>4. ASSUME NEW e \in Deliverers, Unposted(e)'
        PROVE  Unposted(e) /\ HeldKey(e)' = HeldKey(e)
    BY <2>0, <2>4, SameCall DEF Unposted
  <2>5. ASSUME NEW a \in attempts, Counts(a), a.part = p
        PROVE  \E b \in attempts' : b.part = p /\ Counts(b)' /\ Key(b) = Key(a)
    <3>1. CASE a # HeldRow(d)
      <4>1. a \in attempts' BY <2>1, <3>1
      <4>2. Counts(a)' BY <2>4, <2>5 DEF Counts, Key
      <4>. QED BY <2>5, <4>1, <4>2
    <3>2. CASE a = HeldRow(d)
      <4>1. PICK b \in attempts' : b = done BY <2>1
      <4>2. call[d].reply # "rate_limited"
        BY <2>0, <2>3, <2>5, <3>2 DEF Counts, Unposted
      <4>3. b.part = p /\ b.status # "rate_limited" /\ Key(b) = Key(a)
        BY <2>3, <2>5, <3>2, <4>1, <4>2
      <4>4. Counts(b)' BY <2>4, <2>5, <4>3 DEF Counts, Key
      <4>. QED BY <4>3, <4>4
    <3>. QED BY <3>1, <3>2
  <2>. QED BY <2>2, <2>5 DEF Counted, CountedOf, Key
<1>3. CASE \A d \in Deliverers : ~ AddAttempt(d) /\ ~ Records(d) /\ ~ SendMessage(d)
  <2>1. /\ attempts' = attempts /\ posted' = posted
        /\ \A e \in Deliverers : call'[e] = call[e] \/ ~ InFlight(e)'
    BY <1>3, OtherEffect
  <2>2. \A e \in Deliverers : Unposted(e)' => Unposted(e) /\ HeldKey(e)' = HeldKey(e)
    BY <2>1, SameCall DEF Unposted, InFlight
  <2>3. \A a \in attempts : Counts(a) => Counts(a)' BY <2>2 DEF Counts, Key
  <2>. QED BY <2>1, <2>3 DEF Counted, CountedOf, Key
<1>. QED BY <1>1, <1>2, <1>3

(* A request whose message may be in the chat makes its attempt count.     *)
LEMMA NextCountInv ==
  TypeInv /\ AttemptsInv /\ CountInv /\ ~ CleanupRuns /\ [Next]_vars => CountInv'
<1>. SUFFICES ASSUME TypeInv, AttemptsInv, CountInv, ~ CleanupRuns, [Next]_vars,
                     NEW l \in Layouts, NEW p \in PartNumbers
              PROVE  posted'[l][p] <= Cardinality(Counted(p)')
  BY DEF CountInv, PartNumbers
<1>1. AttemptsInv' BY NextAttemptsInv
<1>2. IsFiniteSet(Counted(p)) /\ IsFiniteSet(Counted(p)')
  <2>1. IsFiniteSet(Counted(p)) BY CountedFinite
  <2>2. CountedOf(p)' \in SUBSET attempts' BY DEF CountedOf
  <2>3. IsFiniteSet(CountedOf(p)') BY <1>1, <2>2, FS_Subset DEF AttemptsInv
  <2>4. IsFiniteSet(Counted(p)') BY <2>3, KeysFinite DEF Counted, Key
  <2>. QED BY <2>1, <2>4
<1>3. Cardinality(Counted(p)) \in Nat /\ Cardinality(Counted(p)') \in Nat
  BY <1>2, FS_CardinalityType
<1>4. posted[l][p] \in Nat /\ posted[l][p] <= Cardinality(Counted(p))
  BY DEF CountInv, TypeInv, TypeOK
<1>5. CASE posted' = posted /\ Counted(p) \subseteq Counted(p)'
  <2>1. Cardinality(Counted(p)) <= Cardinality(Counted(p)') BY <1>2, <1>5, FS_Subset
  <2>. QED BY <1>3, <1>4, <1>5, <2>1
<1>6. ASSUME NEW d \in Deliverers, SendMessage(d)
      PROVE  posted'[l][p] <= Cardinality(Counted(p)')
  <2>1. /\ attempts' = attempts /\ call[d].pc = "send" /\ call'[d].pc = "record"
        /\ \A e \in Deliverers : e # d => call'[e] = call[e]
    BY <1>6, SendMessageFields DEF SendMessage, At, db, TypeInv
  <2>2. HeldKey(d)' = HeldKey(d)
    BY <1>6, SendMessageFields, SendMessageEffect, SameHeld DEF TypeInv
  <2>3. \A e \in Deliverers : Unposted(e)' => Unposted(e) /\ HeldKey(e)' = HeldKey(e)
    BY <2>1, <2>2, SameCall DEF Unposted
  <2>4. \A a \in attempts : Counts(a) => Counts(a)' BY <2>3 DEF Counts, Key
  <2>5. Counted(p) \subseteq Counted(p)' BY <2>1, <2>4 DEF Counted, CountedOf, Key
  <2>6. CASE posted' = posted BY <1>5, <2>5, <2>6
  <2>7. CASE /\ posted' = [posted EXCEPT ![call[d].layout][Part(d)] = @ + 1]
             /\ call'[d].reply # "rate_limited"
    <3>1. Part(d) \in PartNumbers /\ call[d].layout \in Layouts
      BY <1>6, SendMessageEffect
    <3>2. posted'[l][p] \in {posted[l][p], posted[l][p] + 1}
          /\ (p # Part(d) => posted'[l][p] = posted[l][p])
      BY <2>7, <3>1 DEF TypeInv, TypeOK
    <3>3. CASE posted'[l][p] = posted[l][p]
      <4>1. Cardinality(Counted(p)) <= Cardinality(Counted(p)') BY <1>2, <2>5, FS_Subset
      <4>. QED BY <1>3, <1>4, <3>3, <4>1
    <3>4. CASE p = Part(d)
      <4>1. /\ HeldRow(d) \in attempts /\ Key(HeldRow(d)) = HeldKey(d)
            /\ HeldRow(d).part = p /\ HeldRow(d).status = "pending"
        BY <2>1, <3>4 DEF AttemptsInv, InFlight, HeldRow, HeldKey, Key
      <4>2. HeldKey(d) \notin Counted(p)
        BY <2>1 DEF Counted, CountedOf, Counts, Unposted
      <4>3. ~ Unposted(d)' BY <2>1, <2>7 DEF Unposted
      <4>4. ASSUME NEW e \in Deliverers, Unposted(e)' PROVE HeldKey(e)' # HeldKey(d)
        <5>1. e # d BY <4>3, <4>4
        <5>2. InFlight(e) /\ InFlight(d) /\ HeldKey(e)' = HeldKey(e)
          BY <2>1, <2>3, <4>4 DEF Unposted, InFlight
        <5>. QED BY <5>1, <5>2 DEF AttemptsInv
      <4>5. HeldKey(d) \in Counted(p)'
        <5>. DEFINE row == HeldRow(d)
        <5>1. row \in attempts' /\ row.part = p /\ row.status = "pending"
          BY <2>1, <4>1
        <5>2. Key(row) = HeldKey(d) BY <4>1
        <5>3. \A e \in Deliverers : Unposted(e)' => HeldKey(e)' # Key(row)
          BY <4>4, <5>2
        <5>. HIDE DEF row
        <5>. QED BY <5>1, <5>2, <5>3 DEF Counted, CountedOf, Counts, Key
      <4>6. Cardinality(Counted(p) \cup {HeldKey(d)}) = Cardinality(Counted(p)) + 1
        BY <1>2, <4>2, FS_AddElement
      <4>7. Cardinality(Counted(p) \cup {HeldKey(d)}) <= Cardinality(Counted(p)')
        BY <1>2, <2>5, <4>5, FS_Subset
      <4>. QED BY <1>3, <1>4, <3>2, <4>6, <4>7
    <3>. QED BY <3>2, <3>3, <3>4
  <2>. QED BY <1>6, <2>6, <2>7, SendMessageEffect
<1>. QED BY <1>5, <1>6, CountedGrows

(* Without cleanups the attempt log explains the chat: in every behaviour  *)
(* of any number of overlapping, crashing or refused calls and renames, a  *)
(* part is in the chat at most as often as it has attempts that are        *)
(* recorded sent or whose result leaves it open.                           *)
THEOREM PostsAccounted == ASSUME ~ CleanupRuns PROVE Spec => []EveryPostAccounted
<1>1. Init => AttemptsInv /\ CountInv
  <2>. SUFFICES ASSUME Init PROVE AttemptsInv /\ CountInv
    OBVIOUS
  <2>1. AttemptsInv
    BY FS_EmptySet DEF Init, AttemptsInv, InFlight, NoCall
  <2>2. ASSUME NEW p PROVE Cardinality(Counted(p)) \in Nat
    BY <2>1, CountedFinite, FS_CardinalityType
  <2>. QED BY <2>1, <2>2 DEF Init, CountInv
<1>2. TypeInv /\ AttemptsInv /\ CountInv /\ [Next]_vars => AttemptsInv' /\ CountInv'
  BY NextAttemptsInv, NextCountInv
<1>3. AttemptsInv /\ TypeInv /\ CountInv => EveryPostAccounted
  <2>. SUFFICES ASSUME AttemptsInv, TypeInv, CountInv,
                       NEW l \in Layouts, NEW p \in PartNumbers
                PROVE  posted[l][p] <=
                         Cardinality({a \in attempts : a.part = p /\ a.status # "rate_limited"})
    BY DEF EveryPostAccounted
  <2>. DEFINE rows == {a \in attempts : a.part = p /\ a.status # "rate_limited"}
  <2>1. IsFiniteSet(rows) BY FS_Subset DEF AttemptsInv
  <2>2. CountedOf(p) \in SUBSET rows BY DEF CountedOf, Counts
  <2>3. Cardinality(CountedOf(p)) <= Cardinality(rows) BY <2>1, <2>2, FS_Subset
  <2>4. /\ IsFiniteSet(CountedOf(p)) /\ IsFiniteSet(Counted(p))
        /\ Cardinality(Counted(p)) <= Cardinality(CountedOf(p))
    BY CountedFinite
  <2>5. /\ Cardinality(rows) \in Nat /\ Cardinality(Counted(p)) \in Nat
        /\ Cardinality(CountedOf(p)) \in Nat
    BY <2>1, <2>4, FS_CardinalityType
  <2>6. posted[l][p] \in Nat /\ posted[l][p] <= Cardinality(Counted(p))
    BY DEF CountInv, TypeInv, TypeOK
  <2>. QED BY <2>3, <2>4, <2>5, <2>6
<1>. QED BY <1>1, <1>2, <1>3, TypeInvCorrect, PTL DEF Spec
=============================================================================
