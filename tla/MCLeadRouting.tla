--------------------------- MODULE MCLeadRouting ---------------------------
(* An instance of LeadRouting for TLC: its properties are about pairs of   *)
(* requests, and a node has as many tries as in the workflow.              *)
EXTENDS LeadRouting

CONSTANTS r1, r2, k1, k2, e1
=============================================================================
