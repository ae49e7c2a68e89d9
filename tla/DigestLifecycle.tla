--------------------------- MODULE DigestLifecycle --------------------------
(***************************************************************************)
(* What delivery promises about one digest, without attempts, retries or   *)
(* processes: parts are delivered while the digest is being sent, a failed *)
(* digest may be sent again and keeps the parts it has, and a sent digest  *)
(* is complete and final (app/domain/state_machine.py:47-61).              *)
(***************************************************************************)
CONSTANTS
  Parts,   (* part numbers                                                 *)
  Wholes   (* the sets of parts each of which is the whole digest          *)

VARIABLES status, delivered

vars == <<status, delivered>>

Init == status = "generated" /\ delivered = {}

Start ==
  /\ status \in {"generated", "failed"}
  /\ status' = "sending"
  /\ UNCHANGED delivered

Deliver(p) ==
  /\ status = "sending"
  /\ delivered' = delivered \cup {p}
  /\ UNCHANGED status

Fail ==
  /\ status \in {"generated", "sending"}
  /\ status' = "failed"
  /\ UNCHANGED delivered

Complete ==
  /\ status = "sending"
  /\ \E whole \in Wholes : whole \subseteq delivered
  /\ status' = "sent"
  /\ UNCHANGED delivered

Next == Start \/ (\E p \in Parts : Deliver(p)) \/ Fail \/ Complete

Spec == Init /\ [][Next]_vars
=============================================================================
