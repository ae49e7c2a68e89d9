--------------------------- MODULE FeedFetchProofs ---------------------------
(***************************************************************************)
(* Proofs about FeedFetch: where connections go, what can end a run, how   *)
(* often a request is repeated and that no slot is lost.                   *)
(***************************************************************************)
EXTENDS FeedFetch, FiniteSetTheorems, TLAPS

(* What a fetch knows at each point.                                       *)
FetchInv(s) ==
  /\ fetch[s].pc \in {"queued", "resolve"} => fetch[s].reached = {}
  /\ fetch[s].reached \subseteq {fetch[s].address}
  /\ fetch[s].pc = "request" \/ fetch[s].reached # {} => EnsurePublicIp(fetch[s].address)
  /\ fetch[s].pc \notin {"fetched", "stored"} => fetch[s].error = None
  /\ fetch[s].error # None \/ fetch[s].pc \notin {"fetched", "stored"} => fetch[s].reply = NoReply
  /\ fetch[s].pc = "fetched" /\ fetch[s].error = None =>
       fetch[s].reply \in Replies /\ CodeOf(fetch[s].reply) = None

(* Once anything is stored no request is under way.                        *)
StageInv ==
  /\ stage # "fetch" => \A s \in Sources : fetch[s].pc \in {"fetched", "stored"}
  /\ \A row \in log : fetch[row.source].pc = "stored"

FetchType ==
  /\ fetch \in [Sources -> FetchState]
  /\ \A row \in log : row.source \in Sources
  /\ stage \in {"fetch", "persist", "done", "aborted"}
  /\ behind \in BOOLEAN
  /\ dns \in [Sources -> Records]

IInv == FetchType /\ (\A s \in Sources : FetchInv(s)) /\ StageInv /\ FailureContained

LEMMA InitInv == Init => IInv
<1> SUFFICES ASSUME Init PROVE IInv
  OBVIOUS
<1>1. Waiting \in FetchState
  <2>1. <<>> \in Seq(FetchErrors \cup {None})
    OBVIOUS
  <2>2. NoReply \in Replies \cup {NoReply}
    OBVIOUS
  <2> QED
    BY <2>1, <2>2 DEF Waiting, FetchState
<1>2. FetchType
  BY <1>1 DEF Init, FetchType
<1>3. \A s \in Sources : FetchInv(s)
  BY DEF Init, Waiting, FetchInv, None
<1>4. StageInv /\ FailureContained
  BY DEF Init, StageInv, FailureContained
<1> QED
  BY <1>2, <1>3, <1>4 DEF IInv

(* A link that is on the allowed host and that NewsItem refuses hides      *)
(* something from its canonical form.                                      *)
LEMMA RaisedIsHidden ==
  ASSUME NEW link \in Url, NEW allowed \in Hosts, Normalized(link, allowed) = "raised"
  PROVE  HiddenByCanonicalForm(link)
<1> DEFINE canonical == Canonicalize(link)
<1>1. /\ canonical.scheme = link.scheme
      /\ canonical.credentials = link.credentials
      /\ canonical.host = IF link.host = "own-unicode" THEN "own" ELSE link.host
      /\ canonical.port = IF link.port \in {"443", "empty"} THEN "none" ELSE link.port
  BY DEF Canonicalize
<1> HIDE DEF canonical
<1>2. /\ HasCanonicalForm(link)
      /\ NormalizeHostname(canonical.host) = allowed
      /\ ~ NewsItemAccepts(link, canonical)
  BY DEF Normalized, canonical
<1>3. link.host \in Hosts /\ link.port \in Ports
  BY DEF Url
<1> QED
  BY <1>1, <1>2, <1>3
     DEF HasCanonicalForm, NewsItemAccepts, EnsureHttpsUrl, NormalizeHostname,
         HiddenByCanonicalForm, Hosts, Ports, Names, Literals, Invalid
-----------------------------------------------------------------------------
(* An action that changes one fetch while requests are under way, without  *)
(* touching log, keeps the invariant if that fetch keeps its part of it.   *)
LEMMA OneFetchKeeps ==
  ASSUME IInv, NEW s \in Sources, NEW state \in FetchState, Becomes(s, state),
         fetch[s].pc \notin {"fetched", "stored"},
         UNCHANGED <<dns, behind, log>>, FetchInv(s)',
         \/ stage' = stage
         \/ stage' = IF \A t \in Sources \ {s} : At(t, "fetched") THEN "persist" ELSE "fetch",
         stage' # stage => state.pc = "fetched"
  PROVE  IInv'
<1>1. stage = "fetch"
  BY DEF IInv, StageInv, FetchType
<1>2. fetch \in [Sources -> FetchState] /\ fetch' = [fetch EXCEPT ![s] = state]
  BY DEF IInv, FetchType, Becomes
<1>3. fetch'[s] = state /\ \A t \in Sources \ {s} : fetch'[t] = fetch[t]
  BY <1>2
<1>4. FetchType'
  BY <1>1, <1>2 DEF IInv, FetchType
<1>5. \A t \in Sources : FetchInv(t)'
  <2> SUFFICES ASSUME NEW t \in Sources, t # s PROVE FetchInv(t)'
    OBVIOUS
  <2>1. FetchInv(t) /\ fetch'[t] = fetch[t]
    BY <1>3 DEF IInv
  <2> QED
    BY <2>1 DEF FetchInv
<1>6. StageInv'
  <2>1. stage' # "fetch" => \A t \in Sources : fetch'[t].pc \in {"fetched", "stored"}
    BY <1>1, <1>3 DEF At
  <2>2. \A row \in log' : fetch'[row.source].pc = "stored"
    <3> SUFFICES ASSUME NEW row \in log PROVE fetch'[row.source].pc = "stored"
      OBVIOUS
    <3>1. row.source \in Sources /\ fetch[row.source].pc = "stored"
      BY DEF IInv, FetchType, StageInv
    <3> QED
      BY <3>1, <1>3
  <2> QED
    BY <2>1, <2>2 DEF StageInv
<1>7. FailureContained'
  BY <1>1 DEF FailureContained
<1> QED
  BY <1>4, <1>5, <1>6, <1>7 DEF IInv

(* A fetch that ends has its time, and an error and an answer exclude each *)
(* other.                                                                  *)
LEMMA EndedKeeps ==
  ASSUME IInv, NEW s \in Sources, NEW state \in FetchState, Fetched(s, state),
         fetch[s].pc \in {"resolve", "request"},
         state.reached \subseteq {state.address},
         state.reached # {} => EnsurePublicIp(state.address),
         state.error # None => state.reply = NoReply,
         state.error = None => state.reply \in Replies /\ CodeOf(state.reply) = None
  PROVE  IInv'
<1> DEFINE ended == [state EXCEPT !.pc = "fetched", !.backwards = behind]
<1>1. /\ ended.pc = "fetched" /\ ended.address = state.address
      /\ ended.reached = state.reached /\ ended.reply = state.reply
      /\ ended.error = state.error /\ ended \in FetchState
  BY DEF FetchState, IInv, FetchType
<1>2. Becomes(s, ended) /\ UNCHANGED <<dns, behind, log>>
  BY DEF Fetched
<1> HIDE DEF ended
<1>3. fetch'[s] = ended
  BY <1>2 DEF Becomes, IInv, FetchType
<1>4. FetchInv(s)'
  BY <1>1, <1>3 DEF FetchInv
<1>5. stage' = IF \A t \in Sources \ {s} : At(t, "fetched") THEN "persist" ELSE "fetch"
  BY DEF Fetched
<1> QED
  BY <1>1, <1>2, <1>4, <1>5, OneFetchKeeps

LEMMA FailsKeeps ==
  ASSUME IInv, NEW s \in Sources, NEW code \in FetchErrors, FailsWith(s, code),
         fetch[s].pc \in {"resolve", "request"}
  PROVE  IInv'
<1> DEFINE state == [fetch[s] EXCEPT !.error = code]
<1>0. fetch[s] \in FetchState
  BY DEF IInv, FetchType
<1>1. /\ state \in FetchState /\ state.error = code /\ state.address = fetch[s].address
      /\ state.reached = fetch[s].reached /\ state.reply = fetch[s].reply
  BY <1>0 DEF FetchState
<1>2. Fetched(s, state)
  BY DEF FailsWith
<1> HIDE DEF state
<1>3. code # None
  BY DEF FetchErrors, None
<1>4. state.reply = NoReply
  BY <1>1 DEF IInv, FetchInv
<1> QED
  BY <1>0, <1>1, <1>2, <1>3, <1>4, EndedKeeps DEF IInv, FetchInv
-----------------------------------------------------------------------------
LEMMA EnterKeeps == ASSUME IInv, NEW s \in Sources, Enter(s) PROVE IInv'
<1> DEFINE state == [fetch[s] EXCEPT !.pc = "resolve"]
<1>1. fetch[s] \in FetchState /\ fetch[s].pc = "queued"
  BY DEF IInv, FetchType, Enter, At
<1>2. /\ state \in FetchState /\ state.pc = "resolve" /\ state.reached = fetch[s].reached
      /\ state.address = fetch[s].address /\ state.reply = fetch[s].reply
      /\ state.error = fetch[s].error
  BY <1>1 DEF FetchState
<1>3. Becomes(s, state) /\ UNCHANGED <<dns, behind, log, stage>>
  BY DEF Enter
<1> HIDE DEF state
<1>4. fetch'[s] = state
  BY <1>3 DEF Becomes, IInv, FetchType
<1>5. FetchInv(s)'
  BY <1>1, <1>2, <1>4 DEF FetchInv, IInv
<1> QED
  BY <1>1, <1>2, <1>3, <1>5, OneFetchKeeps

LEMMA ResolveKeeps == ASSUME IInv, NEW s \in Sources, Resolve(s) PROVE IInv'
<1> DEFINE host      == UrlOf[s].host
           addresses == IF host \in Literals THEN {host} ELSE dns[s]
           state     == [fetch[s] EXCEPT !.pc = "request", !.address = FirstOf(addresses)]
<1>1. fetch[s] \in FetchState /\ fetch[s].pc = "resolve"
  BY DEF IInv, FetchType, Resolve, At
<1>2. ASSUME NEW code \in FetchErrors, FailsWith(s, code) PROVE IInv'
  BY <1>1, <1>2, FailsKeeps
<1>3. ASSUME addresses # {}, \A a \in addresses : EnsurePublicIp(a),
             Becomes(s, state), UNCHANGED <<dns, behind, free, log, stage>>
      PROVE  IInv'
  <2>1. FirstOf(addresses) \in addresses
    BY <1>3 DEF FirstOf
  <2>2. EnsurePublicIp(FirstOf(addresses))
    BY <1>3, <2>1
  <2>3. FirstOf(addresses) \in Address \cup {"public-ip"}
    BY <2>2 DEF EnsurePublicIp, Address
  <2>4. /\ state \in FetchState /\ state.pc = "request" /\ state.reached = fetch[s].reached
        /\ state.address = FirstOf(addresses) /\ state.reply = fetch[s].reply
        /\ state.error = fetch[s].error
    BY <1>1, <2>3 DEF FetchState
  <2> HIDE DEF state, addresses
  <2>5. fetch'[s] = state
    BY <1>3 DEF Becomes, IInv, FetchType
  <2>6. FetchInv(s)'
    BY <1>1, <2>2, <2>4, <2>5 DEF FetchInv, IInv
  <2> QED
    BY <1>1, <1>3, <2>4, <2>6, OneFetchKeeps
<1>4. "UNSAFE_FEED_URL" \in FetchErrors /\ "FEED_CONNECTION_FAILED" \in FetchErrors
  BY DEF FetchErrors
<1> QED
  BY <1>2, <1>3, <1>4 DEF Resolve

LEMMA RequestKeeps == ASSUME IInv, NEW s \in Sources, Request(s) PROVE IInv'
<1>1. fetch[s] \in FetchState /\ fetch[s].pc = "request"
  BY DEF IInv, FetchType, Request, At
<1>2. /\ fetch[s].reached \subseteq {fetch[s].address} /\ EnsurePublicIp(fetch[s].address)
      /\ fetch[s].reply = NoReply /\ fetch[s].error = None
  BY <1>1 DEF IInv, FetchInv
<1>3. PICK reply \in Replies :
        LET code  == CodeOf(reply)
            asked == [fetch[s] EXCEPT !.reached = @ \cup {ConnectTo(s)},
                                      !.codes = Append(@, code)]
        IN  IF code = None THEN Fetched(s, [asked EXCEPT !.reply = reply])
            ELSE IF IsRetryable(code) /\ Len(asked.codes) < Attempts
              THEN Becomes(s, asked) /\ UNCHANGED <<dns, behind, free, log, stage>>
            ELSE Fetched(s, [asked EXCEPT !.error = code])
  BY DEF Request
<1> DEFINE code == CodeOf(reply)
           asked == [fetch[s] EXCEPT !.reached = @ \cup {ConnectTo(s)},
                                     !.codes = Append(@, code)]
<1>4. code \in FetchErrors \cup {None}
  BY DEF CodeOf, FetchErrors
<1> HIDE DEF code
<1>5. /\ asked \in FetchState /\ asked.pc = "request" /\ asked.address = fetch[s].address
      /\ asked.reached = {fetch[s].address} /\ asked.reply = NoReply
      /\ asked.error = fetch[s].error
  <2>1. Append(fetch[s].codes, code) \in Seq(FetchErrors \cup {None})
    BY <1>1, <1>4 DEF FetchState
  <2>2. fetch[s].reached \cup {ConnectTo(s)} = {fetch[s].address}
    BY <1>2 DEF ConnectTo
  <2>3. fetch[s].address \in Address \cup {"public-ip"}
    BY <1>2 DEF EnsurePublicIp, Address
  <2> QED
    BY <1>1, <1>2, <2>1, <2>2, <2>3 DEF FetchState
<1>6. \/ code = None /\ Fetched(s, [asked EXCEPT !.reply = reply])
      \/ Becomes(s, asked) /\ UNCHANGED <<dns, behind, free, log, stage>>
      \/ code # None /\ Fetched(s, [asked EXCEPT !.error = code])
  BY <1>3 DEF code
<1> HIDE DEF asked
<1>7. CASE code = None /\ Fetched(s, [asked EXCEPT !.reply = reply])
  <2> DEFINE state == [asked EXCEPT !.reply = reply]
  <2>1. /\ state \in FetchState /\ state.address = asked.address
        /\ state.reached = asked.reached /\ state.reply = reply /\ state.error = asked.error
    BY <1>5 DEF FetchState
  <2>2. asked.error = None
    BY <1>1, <1>5 DEF IInv, FetchInv
  <2> HIDE DEF state
  <2>3. Fetched(s, state)
    BY <1>7 DEF state
  <2> QED
    BY <1>1, <1>2, <1>5, <1>7, <2>1, <2>2, <2>3, EndedKeeps DEF code
<1>8. CASE Becomes(s, asked) /\ UNCHANGED <<dns, behind, free, log, stage>>
  <2>1. fetch'[s] = asked
    BY <1>8 DEF Becomes, IInv, FetchType
  <2>2. FetchInv(s)'
    BY <1>2, <1>5, <2>1 DEF FetchInv
  <2> QED
    BY <1>1, <1>5, <1>8, <2>2, OneFetchKeeps
<1>9. CASE code # None /\ Fetched(s, [asked EXCEPT !.error = code])
  <2> DEFINE state == [asked EXCEPT !.error = code]
  <2>1. /\ state \in FetchState /\ state.address = asked.address
        /\ state.reached = asked.reached /\ state.reply = NoReply /\ state.error = code
    BY <1>4, <1>5 DEF FetchState
  <2> HIDE DEF state
  <2>2. Fetched(s, state)
    BY <1>9 DEF state
  <2> QED
    BY <1>1, <1>2, <1>5, <1>9, <2>1, <2>2, EndedKeeps
<1> QED
  BY <1>6, <1>7, <1>8, <1>9

(* What FeedFetch and its table refuse of a fetch that ended.              *)
LEMMA RefusedIsExcepted ==
  ASSUME IInv, NEW s \in Sources, fetch[s].pc = "fetched",
         ~ (Storable(s) /\ EntityAccepts(Row(s)) /\ TableAccepts(Row(s)))
  PROVE  \/ fetch[s].backwards
         \/ fetch[s].reply.tab
         \/ \E link \in fetch[s].reply.links : HiddenByCanonicalForm(link)
<1> DEFINE f == fetch[s]
<1>1. f \in FetchState /\ FetchInv(s)
  BY DEF IInv, FetchType
<1>2. ASSUME ~ Storable(s), ~ f.reply.tab
      PROVE  \E link \in f.reply.links : HiddenByCanonicalForm(link)
  <2>1. PICK link \in f.reply.links : Normalized(link, UrlOf[s].host) = "raised"
    BY <1>2 DEF Storable, Having
  <2>2. link \in Url
    <3>1. f.reply \in Replies \cup {NoReply} /\ f.reply.links # {}
      BY <1>1, <2>1 DEF FetchState
    <3>2. f.reply # NoReply
      BY <3>1 DEF NoReply
    <3>3. f.reply.links \in Feeds
      BY <3>1, <3>2 DEF Replies
    <3> QED
      BY <3>3, <2>1, WorldAssumption
  <2>3. UrlOf[s].host \in Hosts
    BY SourceAssumption DEF Url
  <2> QED
    BY <2>1, <2>2, <2>3, RaisedIsHidden
<1>3. f.error = None => f.reply \in Replies /\ CodeOf(f.reply) = None
  BY <1>1 DEF FetchInv
<1>4. ~ \E other \in log : other.source = s
  BY DEF IInv, StageInv
<1>5. Row(s).source = s /\ Row(s).backwards = f.backwards
  BY DEF Row
<1>6. /\ Row(s).status = "failed" <=> Row(s).code # None
      /\ Row(s).code \in FetchErrors \cup {None}
      /\ Row(s).status \in {"failed", "success", "not_modified"}
      /\ Row(s).status = "not_modified" => Row(s).http = "304" /\ Row(s).entries = 0
      /\ Row(s).status = "success" => Row(s).http = "2xx"
  <2>1. CASE f.error # None
    <3>1. f.error \in FetchErrors
      BY <1>1, <2>1 DEF FetchState
    <3>2. Row(s).code = f.error /\ Row(s).status = "failed"
      BY <2>1 DEF Row
    <3> QED
      BY <2>1, <3>1, <3>2
  <2>2. CASE f.error = None /\ Unreadable(f.reply)
    <3>1. Row(s).code = "FEED_PARSE_FAILED" /\ Row(s).status = "failed"
      BY <2>2 DEF Row
    <3> QED
      BY <3>1 DEF FetchErrors, None
  <2>3. CASE f.error = None /\ ~ Unreadable(f.reply) /\ f.reply.kind = "not modified"
    <3>1. /\ Row(s).code = None /\ Row(s).status = "not_modified" /\ Row(s).http = "304"
          /\ Row(s).entries = 0
      BY <2>3 DEF Row
    <3> QED
      BY <3>1
  <2>4. CASE f.error = None /\ ~ Unreadable(f.reply) /\ f.reply.kind # "not modified"
    <3>1. Row(s).code = None /\ Row(s).status = "success" /\ Row(s).http = "2xx"
      BY <2>4 DEF Row
    <3> QED
      BY <3>1
  <2> QED
    BY <2>1, <2>2, <2>3, <2>4
<1>7. ~ f.backwards => EntityAccepts(Row(s)) /\ TableAccepts(Row(s))
  BY <1>4, <1>5, <1>6 DEF EntityAccepts, TableAccepts
<1> QED
  BY <1>2, <1>7

LEMMA PersistKeeps == ASSUME IInv, NEW s \in Sources, Persist(s) PROVE IInv'
<1>1. stage = "persist" /\ fetch[s].pc = "fetched" /\ UNCHANGED <<dns, behind, free>>
  BY DEF Persist, At
<1>2. CASE /\ log' = log \cup {Row(s)}
           /\ stage' = IF \A t \in Sources \ {s} : At(t, "stored") THEN "done" ELSE "persist"
           /\ Becomes(s, [fetch[s] EXCEPT !.pc = "stored"])
  <2> DEFINE state == [fetch[s] EXCEPT !.pc = "stored"]
  <2>0. fetch[s] \in FetchState
    BY DEF IInv, FetchType
  <2>1. /\ state \in FetchState /\ state.pc = "stored" /\ state.reached = fetch[s].reached
        /\ state.address = fetch[s].address /\ state.reply = fetch[s].reply
        /\ state.error = fetch[s].error
    BY <2>0 DEF FetchState
  <2> HIDE DEF state
  <2>2. fetch' = [fetch EXCEPT ![s] = state] /\ fetch \in [Sources -> FetchState]
    BY <1>2 DEF Becomes, IInv, FetchType, state
  <2>3. fetch'[s] = state /\ \A t \in Sources \ {s} : fetch'[t] = fetch[t]
    BY <2>2
  <2>4. Row(s).source = s
    BY DEF Row
  <2>5. stage' \in {"done", "persist"}
    BY <1>2
  <2>6. FetchType'
    BY <1>1, <1>2, <2>1, <2>2, <2>4, <2>5 DEF IInv, FetchType
  <2>7. \A t \in Sources : FetchInv(t)'
    <3> SUFFICES ASSUME NEW t \in Sources PROVE FetchInv(t)'
      OBVIOUS
    <3>1. FetchInv(t)
      BY DEF IInv
    <3>2. CASE t = s
      BY <1>1, <2>1, <2>3, <3>1, <3>2 DEF FetchInv
    <3>3. CASE t # s
      <4>1. fetch'[t] = fetch[t]
        BY <2>3, <3>3
      <4> QED
        BY <3>1, <4>1 DEF FetchInv
    <3> QED
      BY <3>2, <3>3
  <2>8. StageInv'
    <3>1. \A t \in Sources : fetch'[t].pc \in {"fetched", "stored"}
      BY <1>1, <2>1, <2>3 DEF IInv, StageInv
    <3>2. \A row \in log' : fetch'[row.source].pc = "stored"
      BY <1>2, <2>1, <2>3, <2>4 DEF IInv, StageInv, FetchType
    <3> QED
      BY <3>1, <3>2 DEF StageInv
  <2>9. FailureContained'
    BY <2>5 DEF FailureContained
  <2> QED
    BY <2>6, <2>7, <2>8, <2>9 DEF IInv
<1>3. CASE /\ ~ (Storable(s) /\ EntityAccepts(Row(s)) /\ TableAccepts(Row(s)))
           /\ stage' = "aborted" /\ UNCHANGED <<log, fetch>>
  <2>1. FetchType' /\ (\A t \in Sources : FetchInv(t)') /\ StageInv'
    BY <1>1, <1>3 DEF IInv, FetchType, FetchInv, StageInv
  <2>2. FailureContained'
    <3>1. \/ fetch[s].backwards
          \/ fetch[s].reply.tab
          \/ \E link \in fetch[s].reply.links : HiddenByCanonicalForm(link)
      BY <1>1, <1>3, RefusedIsExcepted
    <3> QED
      BY <1>3, <3>1 DEF FailureContained
  <2> QED
    BY <2>1, <2>2 DEF IInv
<1> QED
  BY <1>2, <1>3 DEF Persist

LEMMA StepKeeps == IInv /\ [Next]_vars => IInv'
<1> SUFFICES ASSUME IInv, [Next]_vars PROVE IInv'
  OBVIOUS
<1>1. ASSUME NEW s \in Sources, Enter(s) PROVE IInv'
  BY <1>1, EnterKeeps
<1>2. ASSUME NEW s \in Sources, Resolve(s) PROVE IInv'
  BY <1>2, ResolveKeeps
<1>3. ASSUME NEW s \in Sources, Break(s) PROVE IInv'
  <2>1. "UNEXPECTED_PIPELINE_FAILURE" \in FetchErrors
    BY DEF FetchErrors
  <2> QED
    BY <1>3, <2>1, FailsKeeps DEF Break, At
<1>4. ASSUME NEW s \in Sources, BadUrl(s) PROVE IInv'
  <2>1. "FEED_CONNECTION_FAILED" \in FetchErrors
    BY DEF FetchErrors
  <2> QED
    BY <1>4, <2>1, FailsKeeps DEF BadUrl, At
<1>5. ASSUME NEW s \in Sources, Request(s) PROVE IInv'
  BY <1>5, RequestKeeps
<1>6. ASSUME NEW s \in Sources, Persist(s) PROVE IInv'
  BY <1>6, PersistKeeps
<1>7. ASSUME UNCHANGED <<fetch, log, stage>>, dns' \in [Sources -> Records], behind' \in BOOLEAN
      PROVE  IInv'
  <2>1. FetchType' /\ StageInv' /\ FailureContained'
    BY <1>7 DEF IInv, FetchType, StageInv, FailureContained
  <2>2. \A s \in Sources : FetchInv(s)'
    BY <1>7 DEF IInv, FetchInv
  <2> QED
    BY <2>1, <2>2 DEF IInv
<1>8. ASSUME NEW s \in Sources, Rename(s) PROVE IInv'
  BY <1>7, <1>8 DEF Rename, IInv, FetchType
<1>9. CASE SetClock
  BY <1>7, <1>9 DEF SetClock, IInv, FetchType
<1>10. CASE UNCHANGED vars
  BY <1>7, <1>10 DEF vars, IInv, FetchType
<1> QED
  BY <1>1, <1>2, <1>3, <1>4, <1>5, <1>6, <1>8, <1>9, <1>10 DEF Next, Step

LEMMA IInvHolds == Spec => []IInv
  BY InitInv, StepKeeps, PTL DEF Spec

(* Whatever DNS says when, a fetch connects to one address, one that was   *)
(* checked: SafeFeedHttpClient resolves once and asks the address.         *)
THEOREM ConnectionsChecked == Spec => []OnlyChecked
<1>1. IInv => OnlyChecked
  BY DEF IInv, FetchInv, OnlyChecked
<1> QED
  BY <1>1, IInvHolds, PTL

(* For any number of sources, any addresses and any feeds: an exception    *)
(* that keeps what a fetch brought from being recorded, and so ends the    *)
(* run, is one of the three FailureContained names.                        *)
THEOREM FailuresContained == Spec => []FailureContained
<1>1. IInv => FailureContained
  BY DEF IInv
<1> QED
  BY <1>1, IInvHolds, PTL
-----------------------------------------------------------------------------
(* The answers a fetch has had: as long as it asks, only ones that are     *)
(* worth another attempt, and fewer than the settings allow; at the end,   *)
(* the last of them is its error.                                          *)
Repeated == {"FEED_TIMEOUT", "FEED_CONNECTION_FAILED"}
Ended(f) ==
  f.codes # <<>> =>
    /\ Len(f.codes) <= Attempts
    /\ \A i \in 1 .. Len(f.codes) - 1 : f.codes[i] \in Repeated
    /\ Last(f.codes) = f.error
    /\ Last(f.codes) \in Repeated => Len(f.codes) = Attempts
Tries(f) ==
  /\ f.pc \in {"queued", "resolve"} => f.codes = <<>>
  /\ f.pc = "request" =>
       /\ Len(f.codes) < Attempts
       /\ \A i \in 1 .. Len(f.codes) : f.codes[i] \in Repeated
       /\ f.address = "public-6" => f.codes = <<>>
  /\ f.pc \in {"fetched", "stored"} => Ended(f)

(* The slots that are free and the fetches that hold one make up the       *)
(* semaphore.                                                              *)
Holding == {s \in Sources : fetch[s].pc \in {"resolve", "request"}}
SlotsInv == IsFiniteSet(Holding) /\ free \in Nat /\ free + Cardinality(Holding) = Concurrency

TriesInv ==
  /\ \A s \in Sources : Tries(fetch[s])
  /\ \A row \in log :
       fetch[row.source].error # None => row.code = fetch[row.source].error

LEMMA AttemptsType == Attempts \in Nat \ {0}
BY LimitAssumption DEF Attempts

LEMMA BecomesState ==
  ASSUME IInv, NEW s \in Sources, NEW state, Becomes(s, state)
  PROVE  fetch'[s] = state /\ \A t \in Sources \ {s} : fetch'[t] = fetch[t]
BY DEF IInv, FetchType, Becomes

(* A fetch that is not recorded yet moves on, keeping its slot or its      *)
(* place in the queue, taking a slot, or giving one back.                  *)
LEMMA TriesKept ==
  ASSUME IInv, TriesInv, NEW s \in Sources, NEW state, Becomes(s, state), log' = log,
         fetch[s].pc # "stored", Tries(state)
  PROVE  TriesInv'
<1>1. fetch'[s] = state /\ \A t \in Sources \ {s} : fetch'[t] = fetch[t]
  BY BecomesState
<1>2. \A t \in Sources : Tries(fetch'[t])
  BY <1>1 DEF TriesInv
<1>3. \A row \in log : row.source \in Sources \ {s}
  BY DEF IInv, FetchType, StageInv
<1> QED
  BY <1>1, <1>2, <1>3 DEF TriesInv

LEMMA SlotsKept ==
  ASSUME IInv, SlotsInv, NEW s \in Sources, NEW state, Becomes(s, state), free' = free,
         \/ fetch[s].pc \in {"resolve", "request"} /\ state.pc \in {"resolve", "request"}
         \/ fetch[s].pc = "fetched" /\ state.pc = "stored"
  PROVE  SlotsInv'
<1>1. fetch'[s] = state /\ \A t \in Sources \ {s} : fetch'[t] = fetch[t]
  BY BecomesState
<1>2. Holding' = Holding
  BY <1>1 DEF Holding
<1> QED
  BY <1>2 DEF SlotsInv

LEMMA SlotTaken == ASSUME IInv, SlotsInv, NEW s \in Sources, Enter(s) PROVE SlotsInv'
<1> DEFINE state == [fetch[s] EXCEPT !.pc = "resolve"]
<1>1. /\ Becomes(s, state) /\ free > 0 /\ free' = free - 1 /\ fetch[s].pc = "queued"
  BY DEF Enter, At
<1>2. state.pc = "resolve"
  BY DEF IInv, FetchType, FetchState
<1> HIDE DEF state
<1>3. fetch'[s] = state /\ \A t \in Sources \ {s} : fetch'[t] = fetch[t]
  BY <1>1, BecomesState
<1>4. Holding' = Holding \cup {s} /\ s \notin Holding
  BY <1>1, <1>2, <1>3 DEF Holding
<1>5. IsFiniteSet(Holding') /\ Cardinality(Holding') = Cardinality(Holding) + 1
  BY <1>4, FS_AddElement DEF SlotsInv
<1>6. Cardinality(Holding) \in Nat
  BY FS_CardinalityType DEF SlotsInv
<1> QED
  BY <1>1, <1>5, <1>6 DEF SlotsInv

LEMMA SlotGiven ==
  ASSUME IInv, SlotsInv, NEW s \in Sources, NEW state \in FetchState, Fetched(s, state),
         fetch[s].pc \in {"resolve", "request"}
  PROVE  SlotsInv'
<1> DEFINE ended == [state EXCEPT !.pc = "fetched", !.backwards = behind]
<1>1. Becomes(s, ended) /\ free' = free + 1
  BY DEF Fetched
<1>2. ended.pc = "fetched"
  BY DEF FetchState
<1> HIDE DEF ended
<1>3. fetch'[s] = ended /\ \A t \in Sources \ {s} : fetch'[t] = fetch[t]
  BY <1>1, BecomesState
<1>4. Holding' = Holding \ {s} /\ s \in Holding
  BY <1>2, <1>3 DEF Holding
<1>5. IsFiniteSet(Holding') /\ Cardinality(Holding') = Cardinality(Holding) - 1
  BY <1>4, FS_RemoveElement DEF SlotsInv
<1>6. Cardinality(Holding) \in Nat
  BY FS_CardinalityType DEF SlotsInv
<1> QED
  BY <1>1, <1>5, <1>6 DEF SlotsInv

(* A fetch ends when its attempts fit its error.                           *)
LEMMA EndedTries ==
  ASSUME IInv, TriesInv, SlotsInv, NEW s \in Sources, NEW state \in FetchState,
         Fetched(s, state), fetch[s].pc \in {"resolve", "request"}, Ended(state)
  PROVE  TriesInv' /\ SlotsInv'
<1> DEFINE ended == [state EXCEPT !.pc = "fetched", !.backwards = behind]
<1>1. Becomes(s, ended) /\ log' = log
  BY DEF Fetched
<1>2. ended.pc = "fetched" /\ ended.codes = state.codes /\ ended.error = state.error
  BY DEF FetchState
<1> HIDE DEF ended
<1>3. Tries(ended)
  BY <1>2 DEF Tries, Ended
<1> QED
  BY <1>1, <1>3, TriesKept, SlotGiven

(* A failure before the first attempt.                                     *)
LEMMA FailsTries ==
  ASSUME IInv, TriesInv, SlotsInv, NEW s \in Sources, NEW code \in FetchErrors,
         FailsWith(s, code), fetch[s].pc \in {"resolve", "request"}, fetch[s].codes = <<>>
  PROVE  TriesInv' /\ SlotsInv'
<1> DEFINE state == [fetch[s] EXCEPT !.error = code]
<1>1. state \in FetchState /\ state.codes = <<>>
  BY DEF IInv, FetchType, FetchState
<1>2. Fetched(s, state)
  BY DEF FailsWith
<1> HIDE DEF state
<1>3. Ended(state)
  BY <1>1 DEF Ended
<1> QED
  BY <1>1, <1>2, <1>3, EndedTries

LEMMA ResolveTries ==
  ASSUME IInv, TriesInv, SlotsInv, NEW s \in Sources, Resolve(s)
  PROVE  TriesInv' /\ SlotsInv'
<1>1. fetch[s] \in FetchState /\ fetch[s].pc = "resolve"
  BY DEF IInv, FetchType, Resolve, At
<1>2. fetch[s].codes = <<>>
  BY <1>1 DEF TriesInv, Tries
<1>3. ASSUME NEW code \in FetchErrors, FailsWith(s, code) PROVE TriesInv' /\ SlotsInv'
  BY <1>1, <1>2, <1>3, FailsTries
<1>4. ASSUME NEW address,
             Becomes(s, [fetch[s] EXCEPT !.pc = "request", !.address = address]),
             UNCHANGED <<dns, behind, free, log, stage>>
      PROVE  TriesInv' /\ SlotsInv'
  <2> DEFINE state == [fetch[s] EXCEPT !.pc = "request", !.address = address]
  <2>1. state.pc = "request" /\ state.codes = <<>>
    BY <1>1, <1>2 DEF FetchState
  <2> HIDE DEF state
  <2>2. Tries(state)
    BY <2>1, AttemptsType DEF Tries
  <2> QED
    BY <1>1, <1>4, <2>1, <2>2, TriesKept, SlotsKept DEF state
<1>5. "UNSAFE_FEED_URL" \in FetchErrors /\ "FEED_CONNECTION_FAILED" \in FetchErrors
  BY DEF FetchErrors
<1> QED
  BY <1>3, <1>4, <1>5 DEF Resolve

LEMMA RequestTries ==
  ASSUME IInv, TriesInv, SlotsInv, NEW s \in Sources, Request(s)
  PROVE  TriesInv' /\ SlotsInv'
<1>1. /\ fetch[s] \in FetchState /\ fetch[s].pc = "request"
      /\ fetch[s].address # "public-6" /\ fetch[s].error = None
  BY DEF IInv, FetchType, FetchInv, Request, At
<1>2. /\ Len(fetch[s].codes) < Attempts
      /\ \A i \in 1 .. Len(fetch[s].codes) : fetch[s].codes[i] \in Repeated
  BY <1>1 DEF TriesInv, Tries
<1>3. PICK reply \in Replies :
        LET code  == CodeOf(reply)
            asked == [fetch[s] EXCEPT !.reached = @ \cup {ConnectTo(s)},
                                      !.codes = Append(@, code)]
        IN  IF code = None THEN Fetched(s, [asked EXCEPT !.reply = reply])
            ELSE IF IsRetryable(code) /\ Len(asked.codes) < Attempts
              THEN Becomes(s, asked) /\ UNCHANGED <<dns, behind, free, log, stage>>
            ELSE Fetched(s, [asked EXCEPT !.error = code])
  BY DEF Request
<1> DEFINE code == CodeOf(reply)
           codes == Append(fetch[s].codes, code)
           asked == [fetch[s] EXCEPT !.reached = @ \cup {ConnectTo(s)}, !.codes = codes]
<1>4. code \in FetchErrors \cup {None}
  BY DEF CodeOf, FetchErrors
<1> HIDE DEF code
<1>5. /\ codes \in Seq(FetchErrors \cup {None}) /\ codes # <<>>
      /\ Len(codes) = Len(fetch[s].codes) + 1
      /\ \A i \in 1 .. Len(codes) - 1 : codes[i] \in Repeated
      /\ Last(codes) = code
  <2>1. fetch[s].codes \in Seq(FetchErrors \cup {None})
    BY <1>1 DEF FetchState
  <2> QED
    BY <1>2, <1>4, <2>1 DEF Last
<1>6. Len(codes) \in Nat /\ Len(codes) <= Attempts
  <2>1. Len(fetch[s].codes) \in Nat
    BY <1>1 DEF FetchState
  <2> QED
    BY <1>2, <1>5, <2>1, AttemptsType
<1> HIDE DEF codes
<1>7. /\ asked \in FetchState /\ asked.pc = "request" /\ asked.codes = codes
      /\ asked.error = None /\ asked.address # "public-6"
  <2>1. ConnectTo(s) \in Address \cup {"public-ip"}
    BY <1>1 DEF ConnectTo, IInv, FetchInv, EnsurePublicIp, Address
  <2> QED
    BY <1>1, <1>5, <2>1 DEF FetchState
<1>8. \/ code = None /\ Fetched(s, [asked EXCEPT !.reply = reply])
      \/ /\ code \in Repeated /\ Len(asked.codes) < Attempts
         /\ Becomes(s, asked) /\ UNCHANGED <<dns, behind, free, log, stage>>
      \/ /\ code # None /\ ~ (code \in Repeated /\ Len(asked.codes) < Attempts)
         /\ Fetched(s, [asked EXCEPT !.error = code])
  BY <1>3 DEF code, codes, IsRetryable, Repeated
<1> HIDE DEF asked
<1>9. CASE code = None /\ Fetched(s, [asked EXCEPT !.reply = reply])
  <2> DEFINE state == [asked EXCEPT !.reply = reply]
  <2>1. state \in FetchState /\ state.codes = codes /\ state.error = None
    BY <1>7 DEF FetchState
  <2> HIDE DEF state
  <2>2. Ended(state)
    BY <1>5, <1>6, <1>9, <2>1 DEF Ended, Repeated, None
  <2> QED
    BY <1>1, <1>9, <2>1, <2>2, EndedTries DEF state
<1>10. CASE /\ code \in Repeated /\ Len(asked.codes) < Attempts
            /\ Becomes(s, asked) /\ UNCHANGED <<dns, behind, free, log, stage>>
  <2>1. \A i \in 1 .. Len(codes) : codes[i] \in Repeated
    <3>1. \A i \in 1 .. Len(codes) : i = Len(codes) \/ i \in 1 .. Len(codes) - 1
      BY <1>6
    <3> QED
      BY <1>5, <1>10, <3>1 DEF Last
  <2>2. Tries(asked)
    BY <1>7, <1>10, <2>1 DEF Tries
  <2> QED
    BY <1>1, <1>7, <1>10, <2>2, TriesKept, SlotsKept
<1>11. CASE /\ code # None /\ ~ (code \in Repeated /\ Len(asked.codes) < Attempts)
            /\ Fetched(s, [asked EXCEPT !.error = code])
  <2> DEFINE state == [asked EXCEPT !.error = code]
  <2>1. state \in FetchState /\ state.codes = codes /\ state.error = code
    BY <1>4, <1>7 DEF FetchState
  <2> HIDE DEF state
  <2>2. code \in Repeated => Len(codes) = Attempts
    BY <1>6, <1>7, <1>11, AttemptsType
  <2>3. Ended(state)
    BY <1>5, <1>6, <2>1, <2>2 DEF Ended
  <2> QED
    BY <1>1, <1>11, <2>1, <2>3, EndedTries DEF state
<1> QED
  BY <1>8, <1>9, <1>10, <1>11

LEMMA PersistTries ==
  ASSUME IInv, TriesInv, SlotsInv, NEW s \in Sources, Persist(s)
  PROVE  TriesInv' /\ SlotsInv'
<1>1. CASE UNCHANGED <<log, fetch, free>>
  BY <1>1 DEF TriesInv, SlotsInv, Holding
<1>2. CASE log' = log \cup {Row(s)} /\ Becomes(s, [fetch[s] EXCEPT !.pc = "stored"])
  <2> DEFINE state == [fetch[s] EXCEPT !.pc = "stored"]
  <2>1. fetch[s] \in FetchState /\ fetch[s].pc = "fetched" /\ free' = free
    BY DEF IInv, FetchType, Persist, At
  <2>2. state.pc = "stored" /\ state.codes = fetch[s].codes /\ state.error = fetch[s].error
    BY <2>1 DEF FetchState
  <2> HIDE DEF state
  <2>3. fetch'[s] = state /\ \A t \in Sources \ {s} : fetch'[t] = fetch[t]
    BY <1>2, BecomesState DEF state
  <2>4. \A t \in Sources : Tries(fetch'[t])
    BY <2>1, <2>2, <2>3 DEF TriesInv, Tries, Ended
  <2>5. Row(s).source = s /\ (fetch[s].error # None => Row(s).code = fetch[s].error)
    BY DEF Row
  <2>6. \A row \in log : row.source \in Sources \ {s}
    BY <2>1 DEF IInv, FetchType, StageInv
  <2>7. TriesInv'
    BY <1>2, <2>2, <2>3, <2>4, <2>5, <2>6 DEF TriesInv
  <2> QED
    BY <1>2, <2>1, <2>2, <2>7, SlotsKept DEF state
<1> QED
  BY <1>1, <1>2 DEF Persist

LEMMA NextTries == IInv /\ TriesInv /\ SlotsInv /\ [Next]_vars => TriesInv' /\ SlotsInv'
<1> SUFFICES ASSUME IInv, TriesInv, SlotsInv, [Next]_vars PROVE TriesInv' /\ SlotsInv'
  OBVIOUS
<1>1. ASSUME NEW s \in Sources, Enter(s) PROVE TriesInv' /\ SlotsInv'
  <2> DEFINE state == [fetch[s] EXCEPT !.pc = "resolve"]
  <2>1. Becomes(s, state) /\ log' = log /\ fetch[s].pc = "queued"
    BY <1>1 DEF Enter, At
  <2>2. state.pc = "resolve" /\ state.codes = fetch[s].codes
    BY DEF IInv, FetchType, FetchState
  <2> HIDE DEF state
  <2>3. Tries(state)
    BY <2>1, <2>2 DEF Tries, TriesInv
  <2> QED
    BY <1>1, <2>1, <2>3, TriesKept, SlotTaken
<1>2. ASSUME NEW s \in Sources, Resolve(s) PROVE TriesInv' /\ SlotsInv'
  BY <1>2, ResolveTries
<1>3. ASSUME NEW s \in Sources, Break(s) PROVE TriesInv' /\ SlotsInv'
  <2>1. fetch[s].pc = "resolve" /\ "UNEXPECTED_PIPELINE_FAILURE" \in FetchErrors
    BY <1>3 DEF Break, At, FetchErrors
  <2>2. fetch[s].codes = <<>>
    BY <2>1 DEF TriesInv, Tries
  <2> QED
    BY <1>3, <2>1, <2>2, FailsTries DEF Break
<1>4. ASSUME NEW s \in Sources, BadUrl(s) PROVE TriesInv' /\ SlotsInv'
  <2>1. /\ fetch[s].pc = "request" /\ fetch[s].address = "public-6"
        /\ "FEED_CONNECTION_FAILED" \in FetchErrors
    BY <1>4 DEF BadUrl, At, FetchErrors
  <2>2. fetch[s].codes = <<>>
    BY <2>1 DEF TriesInv, Tries
  <2> QED
    BY <1>4, <2>1, <2>2, FailsTries DEF BadUrl
<1>5. ASSUME NEW s \in Sources, Request(s) PROVE TriesInv' /\ SlotsInv'
  BY <1>5, RequestTries
<1>6. ASSUME NEW s \in Sources, Persist(s) PROVE TriesInv' /\ SlotsInv'
  BY <1>6, PersistTries
<1>7. CASE UNCHANGED <<fetch, log, free>>
  BY <1>7 DEF TriesInv, SlotsInv, Holding
<1> QED
  BY <1>1, <1>2, <1>3, <1>4, <1>5, <1>6, <1>7 DEF Next, Step, Rename, SetClock, vars

LEMMA TriesHold == Spec => [](TriesInv /\ SlotsInv)
<1>1. Init => TriesInv
  BY DEF Init, TriesInv, Tries, Waiting
<1>2. Init => SlotsInv
  <2> SUFFICES ASSUME Init PROVE SlotsInv
    OBVIOUS
  <2>1. Holding = {}
    BY DEF Init, Holding, Waiting
  <2> QED
    BY <2>1, FS_EmptySet, LimitAssumption DEF Init, SlotsInv
<1> QED
  BY <1>1, <1>2, IInvHolds, NextTries, PTL DEF Spec

(* Every variable keeps its type; above all no fetch takes a slot that is  *)
(* not there or gives back one it did not take, however it ends.           *)
THEOREM TypeCorrect == Spec => []TypeOK
<1>1. ASSUME IInv, TriesInv, SlotsInv PROVE TypeOK
  <2>1. free \in 0 .. Concurrency
    <3>1. Cardinality(Holding) \in Nat
      BY <1>1, FS_CardinalityType DEF SlotsInv
    <3> QED
      BY <1>1, <3>1, LimitAssumption DEF SlotsInv
  <2>2. ASSUME NEW s \in Sources PROVE Len(fetch[s].codes) <= Attempts
    <3>1. fetch[s] \in FetchState /\ Tries(fetch[s])
      BY <1>1 DEF IInv, FetchType, TriesInv
    <3>2. Len(fetch[s].codes) \in Nat
      BY <3>1 DEF FetchState
    <3>3. CASE fetch[s].codes = <<>>
      BY <3>3, AttemptsType
    <3>4. CASE fetch[s].codes # <<>>
      BY <3>1, <3>2, <3>4, AttemptsType DEF Tries, Ended, FetchState
    <3> QED
      BY <3>3, <3>4
  <2> QED
    BY <1>1, <2>1, <2>2 DEF TypeOK, IInv, FetchType
<1> QED
  BY <1>1, IInvHolds, TriesHold, PTL

(* The row of a fetch tells the fate of its last attempt; no attempt       *)
(* follows one that is not worth repeating, and one that is was repeated   *)
(* as often as http_max_retries says, for any value of it.                 *)
THEOREM RetriesAreSpent == Spec => []RetriesSpent
<1>1. ASSUME IInv, TriesInv, NEW s \in Sources, NEW row \in log, row.source = s,
             fetch[s].codes # <<>>
      PROVE  /\ \A i \in 1 .. Len(fetch[s].codes) - 1 : fetch[s].codes[i] \in Repeated
             /\ Last(fetch[s].codes) # None => row.code = Last(fetch[s].codes)
             /\ Last(fetch[s].codes) \in Repeated => Len(fetch[s].codes) = Attempts
  <2>1. fetch[s].pc = "stored"
    BY <1>1 DEF IInv, StageInv
  <2>2. Ended(fetch[s])
    BY <1>1, <2>1 DEF TriesInv, Tries
  <2> QED
    BY <1>1, <2>2 DEF Ended, TriesInv
<1>2. IInv /\ TriesInv => RetriesSpent
  BY <1>1 DEF RetriesSpent, Repeated
<1> QED
  BY <1>2, IInvHolds, TriesHold, PTL
=============================================================================
