-------------------------- MODULE MCDigestDelivery --------------------------
(* Instances of DigestDelivery for TLC: a digest of three articles.        *)
EXTENDS DigestDelivery, TLC

CONSTANTS d1, d2, a1, a2, a3, short, long

MCArticles == {a1, a2, a3}

(* One split: two parts.                                                   *)
MCSplitFixed == (short :> <<{a1, a2}, {a3}>>)

(* A longer source name moves an article to a message of its own.          *)
MCSplitMoved == (short :> <<{a1, a2}, {a3}>>) @@ (long :> <<{a1}, {a2}, {a3}>>)

MCSymmetry == Permutations({d1, d2}) \cup Permutations(MCArticles)
=============================================================================
