------------------------- MODULE MCDigestGeneration -------------------------
(* An instance of DigestGeneration for TLC.                                *)
EXTENDS DigestGeneration, TLC

CONSTANTS s1, s2

(* One source has more articles than the cap lets through.                 *)
MCSourceOf == 1 :> s1 @@ 2 :> s2 @@ 3 :> s1 @@ 4 :> s1 @@ 5 :> s2
=============================================================================
