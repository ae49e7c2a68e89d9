----------------------------- MODULE MCIngestion ----------------------------
(* Instances of Ingestion for TLC.                                         *)
EXTENDS Ingestion, TLC

CONSTANTS s1, s2, l1, l2, l3, i1, i2, home, moved

(* s2 may link to what s1 links to; l3 is foreign to s1.                   *)
MCOwnLinks == (s1 :> {l1, l2}) @@ (s2 :> {l1, l2, l3})

(* s1 once swaps the ids of its links, so that an entry matches two        *)
(* articles; the entries of s2 have no id and are one too many, and its    *)
(* feed may be empty.                                                      *)
MCBodies ==
  (s1 :> {<<[link |-> l1, id |-> i1], [link |-> l2, id |-> i2]>>,
          <<[link |-> l3, id |-> i1], [link |-> l1, id |-> i2]>>}) @@
  (s2 :> {<<>>, <<[link |-> l3, id |-> NoId], [link |-> l2, id |-> NoId],
                  [link |-> l1, id |-> NoId]>>})

MCSymmetry == Permutations({home, moved})
=============================================================================
