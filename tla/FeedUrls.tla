------------------------------ MODULE FeedUrls ------------------------------
(***************************************************************************)
(* What the pipeline accepts as the address of a feed and of an article:   *)
(* app/domain/validators.py, feed_policy.py, url_normalization.py and      *)
(* news_item_from_entry (infrastructure/feeds/normalize.py).               *)
(*                                                                         *)
(* A URL is a record of what these functions tell apart.  Hosts are kinds: *)
(* names ("own" is the allowed host, "own-unicode" a spelling of it that   *)
(* IDNA turns into it), "localhost", what is no host name ("malformed"),   *)
(* and literal addresses; "shared-ip" stands for the ranges that Python    *)
(* calls neither private nor global.                                       *)
(***************************************************************************)

Names == {"own", "other", "localhost"}
Literals == {"public-ip", "shared-ip", "private-ip"}
Hosts == Names \cup Literals \cup {"own-unicode", "malformed", "none"}
Ports == {"none", "443", "other", "0", "empty", "invalid"}

Url == [scheme: {"https", "http"}, credentials: BOOLEAN, host: Hosts,
        port: Ports, tracked: BOOLEAN]

Invalid == "invalid"

(* normalize_hostname: lower case and dots apart, the host itself.         *)
NormalizeHostname(host) ==
  IF host \in Names \cup {"public-ip", "shared-ip"} THEN host ELSE Invalid

EnsureHttpsUrl(url) ==
  /\ url.scheme = "https" /\ ~ url.credentials
  /\ url.port \notin {"0", "empty", "invalid"}
  /\ NormalizeHostname(url.host) # Invalid

EnsurePublicIp(address) == address \in {"public-ip", "public-4", "public-6"}

EnsureFeedUrl(url, allowed) ==
  /\ EnsureHttpsUrl(url) /\ NormalizeHostname(url.host) = NormalizeHostname(allowed)
  /\ url.port \in {"none", "443"}
  /\ url.host # "localhost"
  /\ url.host \in Literals => EnsurePublicIp(url.host)

(* canonicalize_url raises without one; malformed names that idna lets     *)
(* through are left to normalize_hostname.                                 *)
HasCanonicalForm(url) ==
  url.scheme = "https" /\ ~ url.credentials /\ url.host # "none" /\ url.port # "invalid"

(* The article without tracking parameters, default port, non-ASCII host.  *)
Canonicalize(url) ==
  [scheme |-> url.scheme, credentials |-> url.credentials,
   host |-> IF url.host = "own-unicode" THEN "own" ELSE url.host,
   port |-> IF url.port \in {"443", "empty"} THEN "none" ELSE url.port,
   tracked |-> FALSE]

(* NewsItem refuses an article by raising, whatever the caller expects.    *)
NewsItemAccepts(original, canonical) ==
  EnsureHttpsUrl(original) /\ EnsureHttpsUrl(canonical)

(* news_item_from_entry: links that have no canonical form or lead to      *)
(* another host are skipped; the article is made outside the try block.    *)
Normalized(link, allowed) ==
  IF ~ HasCanonicalForm(link) \/ NormalizeHostname(Canonicalize(link).host) # allowed
    THEN "skipped"
  ELSE IF NewsItemAccepts(link, Canonicalize(link)) THEN "item" ELSE "raised"
=============================================================================
