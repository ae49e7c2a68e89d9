----------------------------- MODULE MCService -----------------------------
(* An instance of Service for TLC: a scheduler and a command.              *)
EXTENDS Service, TLC

CONSTANTS daemon, cmd, r1, r2, r3, a1, s1

MCSourceOf == a1 :> s1
=============================================================================
