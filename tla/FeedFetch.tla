------------------------------ MODULE FeedFetch -----------------------------
(***************************************************************************)
(* The requests of one ingestion run: FeedIngestionService.fetch_one and   *)
(* SafeFeedHttpClient (app/infrastructure/feeds/http.py, dns.py), and what *)
(* _persist_fetched records of each.  Sources are fetched concurrently, as *)
(* many at a time as the semaphore lets in; when all have ended, each is   *)
(* recorded in a transaction of its own, and an exception there ends the   *)
(* run.  Meanwhile the publisher's DNS records change and the wall clock   *)
(* may be set back.  What Ingestion abstracts to an answer is made here.   *)
(***************************************************************************)
EXTENDS FeedUrls, Naturals, FiniteSets, Sequences, SequencesExt

CONSTANTS
  Sources,
  UrlOf,       (* source -> its feed_url; its host is the allowed_host     *)
  Records,     (* sets of addresses DNS may answer with                    *)
  Feeds,       (* what a feed may contain: the links of its entries        *)
  Concurrency, (* settings.feed_fetch_concurrency                          *)
  MaxRetries   (* settings.http_max_retries                                *)

Address == {"public-4", "public-6", "private"}

ASSUME SourceAssumption ==
  /\ UrlOf \in [Sources -> Url]
  /\ \A s \in Sources : EnsureFeedUrl(UrlOf[s], UrlOf[s].host)
ASSUME WorldAssumption == Records \subseteq SUBSET Address /\ Feeds \subseteq SUBSET Url
ASSUME LimitAssumption == Concurrency \in Nat \ {0} /\ MaxRetries \in Nat

VARIABLES
  dns,    (* the records of the sources' hosts now                         *)
  behind, (* is the wall clock behind the time the run started             *)
  free,   (* slots of the semaphore                                        *)
  fetch,  (* per source: the fetch_one call, then _FetchedSource           *)
  log,    (* feed_fetches                                                  *)
  stage   (* of ingest_sources: "fetch", "persist", "done", "aborted"      *)

vars == <<dns, behind, free, fetch, log, stage>>

None == "none"

(* What a request brings.  "error status" is any other than 2xx and 304,   *)
(* "foreign" content that is no XML by its type and by its first bytes;    *)
(* tab: a control character in ETag or Last-Modified.                      *)
Replies ==
  {reply \in [kind: {"timeout", "broken", "error status", "too large", "foreign",
                     "not modified", "feed"},
              tab: BOOLEAN, links: Feeds \cup {{}}] :
     /\ IF reply.kind = "feed" THEN reply.links \in Feeds ELSE reply.links = {}
     /\ reply.tab => reply.kind \in {"not modified", "feed"}}
NoReply == [kind |-> None, tab |-> FALSE, links |-> {}]

(* ErrorCode of each, None where it is an answer.                          *)
CodeOf(reply) ==
  CASE reply.kind = "timeout" -> "FEED_TIMEOUT"
    [] reply.kind \in {"broken", "error status"} -> "FEED_CONNECTION_FAILED"
    [] reply.kind = "too large" -> "FEED_RESPONSE_TOO_LARGE"
    [] reply.kind = "foreign" -> "FEED_PARSE_FAILED"
    [] OTHER -> None

(* Mutant: a malformed feed is asked for again, a lost connection is not.  *)
MutantIsRetryable(code) == code \in {"FEED_TIMEOUT", "FEED_PARSE_FAILED"}

IsRetryable(code) == code \in {"FEED_TIMEOUT", "FEED_CONNECTION_FAILED"}

Attempts == IF MaxRetries = 0 THEN 1 ELSE MaxRetries

FetchErrors ==
  {"UNSAFE_FEED_URL", "FEED_CONNECTION_FAILED", "FEED_TIMEOUT",
   "FEED_RESPONSE_TOO_LARGE", "FEED_PARSE_FAILED", "UNEXPECTED_PIPELINE_FAILURE"}

FetchState ==
  [pc: {"queued", "resolve", "request", "fetched", "stored"},
   address: Address \cup {"public-ip", None}, codes: Seq(FetchErrors \cup {None}),
   reached: SUBSET (Address \cup {"public-ip"}), reply: Replies \cup {NoReply},
   error: FetchErrors \cup {None}, backwards: BOOLEAN]

Waiting == [pc |-> "queued", address |-> None, codes |-> <<>>, reached |-> {},
            reply |-> NoReply, error |-> None, backwards |-> FALSE]

Init ==
  /\ dns \in [Sources -> Records]
  /\ behind = FALSE /\ free = Concurrency
  /\ fetch = [s \in Sources |-> Waiting]
  /\ log = {} /\ stage = "fetch"

-----------------------------------------------------------------------------
At(s, loc) == fetch[s].pc = loc
Becomes(s, state) == fetch' = [fetch EXCEPT ![s] = state]

(* Mutant: the semaphore is not taken.                                     *)
MutantEnter(s) ==
  /\ At(s, "queued")
  /\ Becomes(s, [fetch[s] EXCEPT !.pc = "resolve"])
  /\ UNCHANGED <<dns, behind, free, log, stage>>

(* started_at is taken before the semaphore is.                            *)
Enter(s) ==
  /\ At(s, "queued") /\ free > 0
  /\ free' = free - 1
  /\ Becomes(s, [fetch[s] EXCEPT !.pc = "resolve"])
  /\ UNCHANGED <<dns, behind, log, stage>>

(* Mutant: an error leaves fetch_one without giving the slot back.         *)
MutantFetched(s, state) ==
  /\ Becomes(s, [state EXCEPT !.pc = "fetched", !.backwards = behind])
  /\ free' = IF state.error = None THEN free + 1 ELSE free
  /\ stage' = IF \A t \in Sources \ {s} : At(t, "fetched") THEN "persist" ELSE "fetch"
  /\ UNCHANGED <<dns, behind, log>>

(* fetch_one returns; finished_at is now, the slot is given back.          *)
Fetched(s, state) ==
  /\ Becomes(s, [state EXCEPT !.pc = "fetched", !.backwards = behind])
  /\ free' = free + 1
  /\ stage' = IF \A t \in Sources \ {s} : At(t, "fetched") THEN "persist" ELSE "fetch"
  /\ UNCHANGED <<dns, behind, log>>

FailsWith(s, code) == Fetched(s, [fetch[s] EXCEPT !.error = code])

(* IPv4 addresses come first.                                              *)
FirstOf(addresses) ==
  IF "public-4" \in addresses THEN "public-4" ELSE CHOOSE a \in addresses : TRUE

(* The URL is checked again, the name resolved once: every address must be *)
(* public.  Whatever else is raised is caught by fetch_one.                *)
Resolve(s) ==
  /\ At(s, "resolve")
  /\ LET host      == UrlOf[s].host
         addresses == IF host \in Literals THEN {host} ELSE dns[s]
     IN  IF ~ EnsureFeedUrl(UrlOf[s], host) THEN FailsWith(s, "UNSAFE_FEED_URL")
         ELSE IF addresses = {} THEN FailsWith(s, "FEED_CONNECTION_FAILED")
         ELSE IF \E a \in addresses : ~ EnsurePublicIp(a) THEN FailsWith(s, "UNSAFE_FEED_URL")
         ELSE /\ Becomes(s, [fetch[s] EXCEPT !.pc = "request", !.address = FirstOf(addresses)])
              /\ UNCHANGED <<dns, behind, free, log, stage>>

Break(s) ==
  /\ At(s, "resolve")
  /\ FailsWith(s, "UNEXPECTED_PIPELINE_FAILURE")

(* The request is made to the address, not to the name.  Mutant: the name  *)
(* is resolved again by whoever connects.                                  *)
MutantConnectTo(s) == IF dns[s] = {} THEN fetch[s].address ELSE CHOOSE a \in dns[s] : TRUE
ConnectTo(s) == fetch[s].address

(* An IPv6 address makes no URL without brackets: httpx.InvalidURL, which  *)
(* is no FeedHttpError and hence not tried again.                          *)
BadUrl(s) ==
  /\ At(s, "request") /\ fetch[s].address = "public-6"
  /\ FailsWith(s, "FEED_CONNECTION_FAILED")

Request(s) ==
  /\ At(s, "request") /\ fetch[s].address # "public-6"
  /\ \E reply \in Replies :
       LET code  == CodeOf(reply)
           asked == [fetch[s] EXCEPT !.reached = @ \cup {ConnectTo(s)},
                                     !.codes = Append(@, code)]
       IN  IF code = None THEN Fetched(s, [asked EXCEPT !.reply = reply])
           ELSE IF IsRetryable(code) /\ Len(asked.codes) < Attempts
             THEN Becomes(s, asked) /\ UNCHANGED <<dns, behind, free, log, stage>>
           ELSE Fetched(s, [asked EXCEPT !.error = code])

-----------------------------------------------------------------------------
(* An empty feed cannot be parsed.                                         *)
Unreadable(reply) == reply.kind = "feed" /\ reply.links = {}

Having(outcome, s) ==
  {link \in fetch[s].reply.links : Normalized(link, UrlOf[s].host) = outcome}

(* Mutant: what 304 says is recorded as a success.                         *)
MutantRow(s) ==
  LET f == fetch[s]
      row == [source |-> s, status |-> "failed", http |-> None, code |-> f.error,
              entries |-> 0, backwards |-> f.backwards]
  IN  IF f.error # None THEN row
      ELSE IF Unreadable(f.reply)
        THEN [row EXCEPT !.http = "2xx", !.code = "FEED_PARSE_FAILED"]
      ELSE IF f.reply.kind = "not modified"
        THEN [row EXCEPT !.status = "success", !.http = "304"]
      ELSE [row EXCEPT !.status = "success", !.http = "2xx",
                       !.entries = Cardinality(Having("item", s))]

(* The FeedFetch of each of the four outcomes.                             *)
Row(s) ==
  LET f == fetch[s]
      row == [source |-> s, status |-> "failed", http |-> None, code |-> f.error,
              entries |-> 0, backwards |-> f.backwards]
  IN  IF f.error # None THEN row
      ELSE IF Unreadable(f.reply)
        THEN [row EXCEPT !.http = "2xx", !.code = "FEED_PARSE_FAILED"]
      ELSE IF f.reply.kind = "not modified"
        THEN [row EXCEPT !.status = "not_modified", !.http = "304"]
      ELSE [row EXCEPT !.status = "success", !.http = "2xx",
                       !.entries = Cardinality(Having("item", s))]

(* FeedFetch.__post_init__.                                                *)
EntityAccepts(row) ==
  /\ ~ row.backwards
  /\ row.status = "failed" <=> row.code # None
  /\ row.status = "not_modified" => row.http = "304" /\ row.entries = 0
  /\ row.status = "success" => row.http = "2xx"

(* The check and unique constraints of feed_fetches, and its enumerations. *)
TableAccepts(row) ==
  /\ ~ row.backwards
  /\ row.code \in FetchErrors \cup {None}
  /\ \/ row.status = "failed" /\ row.code # None
     \/ row.status # "failed" /\ row.code = None
  /\ row.status = "not_modified" => row.http = "304" /\ row.entries = 0
  /\ row.status = "success" => row.http = "2xx"
  /\ ~ \E other \in log : other.source = row.source

(* A control character in ETag or Last-Modified is refused by the source,  *)
(* of a feed and of a 304; a link that NewsItem refuses raises.            *)
Storable(s) ==
  ~ Unreadable(fetch[s].reply) => ~ fetch[s].reply.tab /\ Having("raised", s) = {}

(* The row of the fetch; what save and add_if_new make of the source and   *)
(* of the articles is Ingestion's.                                         *)
Persist(s) ==
  /\ stage = "persist" /\ At(s, "fetched")
  /\ IF Storable(s) /\ EntityAccepts(Row(s)) /\ TableAccepts(Row(s))
       THEN /\ log' = log \cup {Row(s)}
            /\ stage' = IF \A t \in Sources \ {s} : At(t, "stored") THEN "done" ELSE "persist"
            /\ Becomes(s, [fetch[s] EXCEPT !.pc = "stored"])
       ELSE stage' = "aborted" /\ UNCHANGED <<log, fetch>>
  /\ UNCHANGED <<dns, behind, free>>

(* The publisher changes its records; the clock is set.                    *)
Rename(s) ==
  /\ stage = "fetch"
  /\ \E addresses \in Records : dns' = [dns EXCEPT ![s] = addresses]
  /\ UNCHANGED <<behind, free, fetch, log, stage>>

SetClock ==
  /\ stage = "fetch"
  /\ behind' = ~ behind
  /\ UNCHANGED <<dns, free, fetch, log, stage>>

Step(s) ==
  Enter(s) \/ Resolve(s) \/ Break(s) \/ BadUrl(s) \/ Request(s) \/ Persist(s)

Next == \/ \E s \in Sources : Step(s) \/ Rename(s)
        \/ SetClock

(* Requests have timeouts, the resolver gives up, tasks are scheduled.     *)
Spec == Init /\ [][Next]_vars /\ \A s \in Sources : WF_vars(Step(s))
-----------------------------------------------------------------------------
TypeOK ==
  /\ dns \in [Sources -> Records] /\ behind \in BOOLEAN
  /\ free \in 0 .. Concurrency
  /\ fetch \in [Sources -> FetchState]
  /\ \A s \in Sources : Len(fetch[s].codes) <= Attempts
  /\ \A row \in log : row.source \in Sources
  /\ stage \in {"fetch", "persist", "done", "aborted"}

(* However DNS answers change between and during the attempts, connections *)
(* go to one address, one that was checked ("prevent reconnection through  *)
(* an unchecked DNS lookup", feed_policy.py:53-55).                        *)
OnlyChecked ==
  \A s \in Sources :
    \A a, b \in fetch[s].reached : EnsurePublicIp(a) /\ a = b

(* A row tells the fate of the last attempt, no attempt follows one that   *)
(* is not worth repeating, and a failure that is was repeated as often as  *)
(* the settings say.                                                       *)
RetriesSpent ==
  \A s \in Sources, row \in log :
    LET codes == fetch[s].codes
    IN  row.source = s /\ codes # <<>> =>
          /\ \A i \in 1 .. Len(codes) - 1 : codes[i] \in {"FEED_TIMEOUT", "FEED_CONNECTION_FAILED"}
          /\ Last(codes) # None => row.code = Last(codes)
          /\ Last(codes) \in {"FEED_TIMEOUT", "FEED_CONNECTION_FAILED"} => Len(codes) = Attempts

(* "Per-source feed failures can yield partial_success" (README.md:215):   *)
(* nothing a fetch brings ends the run before its row is written, with     *)
(* three exceptions: a clock that was set back, a validator with a control *)
(* character, and a link on the allowed host whose port or spelling only   *)
(* its canonical form hides.  (What the tables hold can end it as well:    *)
(* Abort of Ingestion.)                                                    *)
HiddenByCanonicalForm(link) ==
  link.port \in {"0", "empty"} \/ link.host = "own-unicode"

FailureContained ==
  stage = "aborted" =>
    \E s \in Sources :
      \/ fetch[s].backwards
      \/ fetch[s].reply.tab
      \/ \E link \in fetch[s].reply.links : HiddenByCanonicalForm(link)

(* Every fetch gives its slot back, and the run gets beyond the requests.  *)
FetchingEnds == stage = "fetch" ~> stage \in {"done", "aborted"}
=============================================================================
