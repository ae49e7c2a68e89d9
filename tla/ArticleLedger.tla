---------------------------- MODULE ArticleLedger ---------------------------
(***************************************************************************)
(* What the pipeline promises about articles, without runs in progress,    *)
(* locks or candidates: an article is published in at most one digest, a   *)
(* run publishes at most one digest and never an empty one, and an article *)
(* that was ignored is never published.                                    *)
(***************************************************************************)
CONSTANTS Articles, Runs

VARIABLES
  published, (* set of [run, items]: the digests                           *)
  ignored    (* articles put aside for good                                *)

vars == <<published, ignored>>

Init == published = {} /\ ignored = {}

Publish(run, items) ==
  /\ items # {}
  /\ \A digest \in published : digest.run # run /\ digest.items \cap items = {}
  /\ ignored \cap items = {}
  /\ published' = published \cup {[run |-> run, items |-> items]}
  /\ UNCHANGED ignored

Ignore(items) ==
  /\ \A digest \in published : digest.items \cap items = {}
  /\ ignored' = ignored \cup items
  /\ UNCHANGED published

Next ==
  \E items \in SUBSET Articles :
    Ignore(items) \/ \E run \in Runs : Publish(run, items)

Spec == Init /\ [][Next]_vars
=============================================================================
