----------------------------- MODULE MCPipeline -----------------------------
(* Instances of Pipeline for TLC.                                          *)
EXTENDS Pipeline, TLC

CONSTANTS w1, w2, r1, r2, r3, a1, a2, a3, s1, s2

(* One source has an article more than the cap lets through.               *)
MCSourceOf == (a1 :> s1) @@ (a2 :> s1) @@ (a3 :> s2)

MCSymmetry == Permutations({w1, w2}) \cup Permutations({r1, r2, r3})
=============================================================================
