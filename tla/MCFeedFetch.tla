---------------------------- MODULE MCFeedFetch ----------------------------
(* An instance of FeedFetch for TLC.                                       *)
EXTENDS FeedFetch, TLC

CONSTANTS s1, s2

Https(host, port) ==
  [scheme |-> "https", credentials |-> FALSE, host |-> host, port |-> port, tracked |-> FALSE]

(* A source with a name and one with a literal address.                    *)
MCUrlOf == (s1 :> Https("own", "none")) @@ (s2 :> Https("public-ip", "443"))

MCRecords == {{}, {"public-4"}, {"public-6"}, {"public-4", "private"}}

(* Empty, of articles that are taken or skipped, and with links that hide  *)
(* something.                                                              *)
MCFeeds ==
  {{}, {Https("own", "other"), Https("other", "none")}, {Https("own", "empty")},
   {Https("own-unicode", "none")}, {Https("public-ip", "0")}}
=============================================================================
