------------------------------ MODULE Ingestion -----------------------------
(***************************************************************************)
(* Feed ingestion, after FeedIngestionService                              *)
(* (app/application/feed_ingestion.py): fetch every enabled feed with a    *)
(* conditional request, then store each answer in a transaction of its     *)
(* own.  Runs follow one another, as the advisory lock makes them do       *)
(* (Pipeline); meanwhile publishers change their feeds and operators seed  *)
(* sources.                                                                *)
(*                                                                         *)
(* A feed's n-th version is a sequence of entries, validated by n, which   *)
(* stands for its ETag and Last-Modified; 0 is a source that has none.     *)
(*                                                                         *)
(* What a run stored is counted twice: row by row in the tables, and in    *)
(* memory, from where DigestPipelineService and PipelineRun                *)
(* (app/domain/pipeline.py) bring it into the run's row.                   *)
(***************************************************************************)
EXTENDS Naturals, FiniteSets, Sequences, SequencesExt

CONSTANTS
  Sources,
  Links,       (* url_hash of canonical article addresses                  *)
  Ids,         (* external ids; an entry may also have none                *)
  OwnLinks,    (* source -> links on its allowed_host                      *)
  Bodies,      (* source -> what its feed may contain                      *)
  Addresses,   (* feed_url values a configuration may give                 *)
  Reseeded,    (* sources whose configuration operators change             *)
  MaxVersions, (* bound: versions of a feed                                *)
  MaxRuns,     (* bound: runs                                              *)
  MaxEntries,  (* limits.max_entries                                       *)
  MaxNew       (* settings.max_new_items_per_run                           *)

NoId == "no id"
Entry == [link: Links, id: Ids \cup {NoId}]

ASSUME FeedAssumption ==
  /\ NoId \notin Ids /\ IsFiniteSet(Sources)
  /\ OwnLinks \in [Sources -> SUBSET Links]
  /\ Bodies \in [Sources -> SUBSET Seq(Entry)]
  /\ Reseeded \subseteq Sources
ASSUME BoundAssumption ==
  {MaxVersions, MaxRuns, MaxEntries, MaxNew} \subseteq Nat \ {0}

VARIABLES
  published, (* source -> the versions of its feed                         *)
  row,       (* source -> its row in sources                               *)
  seeded,    (* source -> enabled, as the last seed had it                 *)
  items,     (* news_items; run stands for collected_at                    *)
  log,       (* feed_fetches, in order                                     *)
  run,       (* how many runs there were                                   *)
  counters,  (* pipeline_runs: the counters of each run's row              *)
  stage,     (* of the last run: fetching, persisting, ingested, over      *)
  snapshot,  (* the Source objects the run read at its start               *)
  waiting,   (* those whose answer is not stored yet                       *)
  answers,   (* what its requests brought                                  *)
  left,      (* remaining_inserts                                          *)
  results    (* IngestSourceResult of what is stored                       *)

tables == <<row, items, log, counters>>
locals == <<snapshot, waiting, answers, left, results>>
vars   == <<published, seeded, tables, run, stage, locals>>

Row == [enabled: BOOLEAN, url: Addresses, validator: 0 .. MaxVersions, failures: Nat]
Item == [source: Sources, link: Links, id: Ids \cup {NoId}, run: 1 .. MaxRuns]

(* IngestSourceResult; its items_fetched is what feed_fetches calls        *)
(* entries_count.                                                          *)
Result(ok, inserted, duplicate, entries) ==
  [ok |-> ok, inserted |-> inserted, duplicate |-> duplicate, entries |-> entries]
NoResult == Result(FALSE, 0, 0, 0)
Results  == [ok: BOOLEAN, inserted: Nat, duplicate: Nat, entries: Nat]

Counters == [total: Nat, succeeded: Nat, fetched: Nat, inserted: Nat, duplicate: Nat]
Zero == [total |-> 0, succeeded |-> 0, fetched |-> 0, inserted |-> 0, duplicate |-> 0]

None   == [kind |-> "none"]
Error  == [kind |-> "error"]
Same   == [kind |-> "same"]
Fresh(version, validator) ==
  [kind |-> "fresh", version |-> version, validator |-> validator]
Answers ==
  {None, Error, Same} \cup {Fresh(v, n) : v \in 1 .. MaxVersions, n \in 0 .. MaxVersions}

Init ==
  /\ published \in [Sources -> {<<body>> : body \in UNION {Bodies[s] : s \in Sources}}]
  /\ \A s \in Sources : published[s][1] \in Bodies[s]
  /\ seeded = [s \in Sources |-> TRUE]
  /\ \E url \in Addresses :
       row = [s \in Sources |-> [enabled |-> seeded[s], url |-> url,
                                 validator |-> 0, failures |-> 0]]
  /\ items = {} /\ log = <<>>
  /\ run = 0 /\ stage = "done"
  /\ counters = [r \in 1 .. MaxRuns |-> Zero]
  /\ snapshot = row /\ waiting = {} /\ left = 0
  /\ results = [s \in Sources |-> NoResult]
  /\ answers = [s \in Sources |-> None]

-----------------------------------------------------------------------------
(* parse_feed_bytes keeps the first entries.                               *)
Entries(s, version) ==
  LET body == published[s][version]
  IN  SubSeq(body, 1, IF Len(body) < MaxEntries THEN Len(body) ELSE MaxEntries)

(* news_item_from_entry skips links to another host.                       *)
Usable(s, entry) == entry.link \in OwnLinks[s]

(* Mutant: entries without an id are taken for the same article.           *)
MutantIsItem(item, s, entry) ==
  item.link = entry.link \/ (item.source = s /\ item.id = entry.id)

(* The unique constraints of news_items.                                   *)
IsItem(item, s, entry) ==
  \/ item.link = entry.link
  \/ item.source = s /\ item.id = entry.id /\ entry.id # NoId

(* _resolve_duplicate: the stored articles an entry stands for.            *)
Matches(stored, s, entry) == {item \in stored : IsItem(item, s, entry)}

(* Mutant: what is over the limit is stored all the same.                  *)
MutantAdd(s, state, entry) ==
  LET same == Matches(state.items, s, entry)
      item == [source |-> s, link |-> entry.link, id |-> entry.id, run |-> run]
      seen == [state EXCEPT !.entries = @ + 1]
  IN  IF ~ Usable(s, entry) THEN state
      ELSE IF same = {} THEN [seen EXCEPT !.items = @ \cup {item}, !.left = @ - 1]
      ELSE [seen EXCEPT !.duplicate = @ + 1, !.conflict = @ \/ Cardinality(same) # 1]

(* add_if_new, unless the run has used up its allowance: a duplicate is    *)
(* left as it is, an entry that matches two articles is a conflict.        *)
Add(s, state, entry) ==
  LET same == Matches(state.items, s, entry)
      item == [source |-> s, link |-> entry.link, id |-> entry.id, run |-> run]
      seen == [state EXCEPT !.entries = @ + 1]
  IN  IF ~ Usable(s, entry) THEN state
      ELSE IF state.left = 0 THEN seen
      ELSE IF same = {} THEN [seen EXCEPT !.items = @ \cup {item}, !.left = @ - 1]
      ELSE [seen EXCEPT !.duplicate = @ + 1, !.conflict = @ \/ Cardinality(same) # 1]

(* The loop of _persist_fetched.                                           *)
Unstored == [items |-> items, left |-> left, entries |-> 0, duplicate |-> 0,
             conflict |-> FALSE]
Stored(s, version) ==
  FoldLeft(LAMBDA state, entry : Add(s, state, entry), Unstored, Entries(s, version))

(* The sources of the run.                                                 *)
Due == {s \in Sources : snapshot[s].enabled}

-----------------------------------------------------------------------------
(* The publisher replaces the feed's content.                              *)
Publish(s) ==
  /\ Len(published[s]) < MaxVersions
  /\ \E body \in Bodies[s] :
       published' = [published EXCEPT ![s] = Append(@, body)]
  /\ UNCHANGED <<seeded, tables, run, stage, locals>>

(* seed-sources: settings and address are replaced, what was fetched stays.*)
(* One source at a time, though synchronize does all in one transaction:   *)
(* whatever it leaves is reached.                                          *)
Seed(s) ==
  /\ \E enabled \in BOOLEAN, url \in Addresses :
       /\ row' = [row EXCEPT ![s].enabled = enabled, ![s].url = url]
       /\ seeded' = [seeded EXCEPT ![s] = enabled]
  /\ UNCHANGED <<published, items, log, counters, run, stage, locals>>

(* The pipeline reads the enabled sources and starts fetching.             *)
Start ==
  /\ stage \in {"done", "aborted"} /\ run < MaxRuns
  /\ \E s \in Sources : row[s].enabled
  /\ run' = run + 1 /\ stage' = "fetch"
  /\ snapshot' = row /\ waiting' = {s \in Sources : row[s].enabled}
  /\ answers' = [s \in Sources |-> None]
  /\ left' = MaxNew /\ results' = [s \in Sources |-> NoResult]
  /\ UNCHANGED <<published, seeded, tables>>

(* A request ends in an error, in 304 if the validator sent is that of the *)
(* current version, or in that version, with or without a validator.       *)
AnswersTo(s) ==
  LET version == Len(published[s])
  IN  {Error} \cup (IF snapshot[s].validator = version THEN {Same} ELSE {})
        \cup {Fresh(version, validator) : validator \in {0, version}}

(* The requests run concurrently; all have ended before anything is stored.*)
Fetch(s) ==
  /\ stage = "fetch" /\ s \in Due /\ answers[s] = None
  /\ \E answer \in AnswersTo(s) : answers' = [answers EXCEPT ![s] = answer]
  /\ stage' = IF \E t \in Due \ {s} : answers[t] = None THEN "fetch" ELSE "persist"
  /\ UNCHANGED <<published, seeded, tables, run, snapshot, waiting, left, results>>

(* Mutant: only what was fetched anew resets the count of failures.        *)
MutantSucceeded(s, validator) ==
  IF validator = 0 THEN snapshot[s]
  ELSE [snapshot[s] EXCEPT !.validator = validator, !.failures = 0]

(* record_fetch_success and record_fetch_failure, on the object read at    *)
(* the start of the run: an absent validator leaves the stored one.        *)
Succeeded(s, validator) ==
  [snapshot[s] EXCEPT !.validator = IF validator = 0 THEN @ ELSE validator,
                      !.failures = 0]
Failed(s) == [snapshot[s] EXCEPT !.failures = @ + 1]

(* SourceRepository.save writes every setting of the object it is given,   *)
(* and raises for a source whose address has changed meanwhile.            *)
Save(s, source, ok, entries) ==
  /\ row[s].url = source.url
  /\ row' = [row EXCEPT ![s] = source]
  /\ log' = Append(log, [run |-> run, source |-> s, ok |-> ok, entries |-> entries])
  /\ waiting' = waiting \ {s}
  /\ stage' = IF waiting = {s} THEN "ingested" ELSE "persist"
  /\ UNCHANGED <<published, seeded, counters, run, snapshot, answers>>

(* What the transaction of a source returns.                               *)
Returns(s, result) == results' = [results EXCEPT ![s] = result]

(* An empty feed cannot be parsed.                                         *)
Unreadable(s) ==
  \/ answers[s] = Error
  \/ answers[s].kind = "fresh" /\ published[s][answers[s].version] = <<>>

(* Mutant: a feed that cannot be parsed is not counted as failed.          *)
MutantPersistFailure(s) ==
  /\ stage = "persist" /\ s \in waiting /\ Unreadable(s)
  /\ Save(s, Failed(s), FALSE, 0)
  /\ Returns(s, Result(answers[s] # Error, 0, 0, 0))
  /\ UNCHANGED <<items, left>>

PersistFailure(s) ==
  /\ stage = "persist" /\ s \in waiting /\ Unreadable(s)
  /\ Save(s, Failed(s), FALSE, 0)
  /\ Returns(s, Result(FALSE, 0, 0, 0))
  /\ UNCHANGED <<items, left>>

PersistNotModified(s) ==
  /\ stage = "persist" /\ s \in waiting /\ answers[s] = Same
  /\ Save(s, Succeeded(s, 0), TRUE, 0)
  /\ Returns(s, Result(TRUE, 0, 0, 0))
  /\ UNCHANGED <<items, left>>

(* Mutant: the limit on new articles is per source instead of per run.     *)
MutantPersistItems(s) ==
  /\ stage = "persist" /\ s \in waiting /\ answers[s].kind = "fresh" /\ ~ Unreadable(s)
  /\ LET stored == Stored(s, answers[s].version)
     IN  /\ ~ stored.conflict /\ items' = stored.items
         /\ Save(s, Succeeded(s, answers[s].validator), TRUE, stored.entries)
         /\ Returns(s, Result(TRUE, left - stored.left, stored.duplicate, stored.entries))
  /\ UNCHANGED left

PersistItems(s) ==
  /\ stage = "persist" /\ s \in waiting /\ answers[s].kind = "fresh" /\ ~ Unreadable(s)
  /\ LET stored == Stored(s, answers[s].version)
     IN  /\ ~ stored.conflict
         /\ items' = stored.items /\ left' = stored.left
         /\ Save(s, Succeeded(s, answers[s].validator), TRUE, stored.entries)
         /\ Returns(s, Result(TRUE, left - stored.left, stored.duplicate, stored.entries))

(* _apply_ingest_counters: what was over the limit is not counted as       *)
(* fetched.                                                                *)
Counted ==
  LET inserted  == SumFunction([s \in Due |-> results[s].inserted])
      duplicate == SumFunction([s \in Due |-> results[s].duplicate])
  IN  [total     |-> Cardinality(Due),
       succeeded |-> Cardinality({s \in Due : results[s].ok}),
       fetched   |-> inserted + duplicate,
       inserted  |-> inserted,
       duplicate |-> duplicate]

(* _validate_counters, and the check constraints of pipeline_runs.         *)
Consistent(c) ==
  c.succeeded <= c.total /\ c.inserted + c.duplicate <= c.fetched

(* The run's locals are gone.                                              *)
Forget ==
  /\ snapshot' = row /\ waiting' = {} /\ left' = 0
  /\ answers' = [s \in Sources |-> None]
  /\ results' = [s \in Sources |-> NoResult]

(* The counters are saved with the run's result.                           *)
Conclude ==
  /\ stage = "ingested" /\ Consistent(Counted)
  /\ counters' = [counters EXCEPT ![run] = Counted]
  /\ stage' = "done" /\ Forget
  /\ UNCHANGED <<published, seeded, row, items, log, run>>

(* What leaves ingest_sources and ends the run: a changed address, a       *)
(* conflict, a failing statement; or a process killed before the result is *)
(* saved.  The transaction is rolled back; what was stored for other       *)
(* sources stays, and the counters of the run's row stay zero.             *)
Abort ==
  /\ stage \in {"fetch", "persist", "ingested"}
  /\ stage' = "aborted" /\ Forget
  /\ UNCHANGED <<published, seeded, tables, run>>

Next ==
  \/ \E s \in Reseeded : Seed(s)
  \/ \E s \in Sources :
       Publish(s) \/ Fetch(s) \/ PersistFailure(s)
         \/ PersistNotModified(s) \/ PersistItems(s)
  \/ Start \/ Conclude \/ Abort

Spec == Init /\ [][Next]_vars
-----------------------------------------------------------------------------
TypeOK ==
  /\ published \in [Sources -> Seq(Seq(Entry))]
  /\ row \in [Sources -> Row] /\ snapshot \in [Sources -> Row]
  /\ seeded \in [Sources -> BOOLEAN]
  /\ items \subseteq Item
  /\ log \in Seq([run: 1 .. MaxRuns, source: Sources, ok: BOOLEAN, entries: 0 .. MaxEntries])
  /\ run \in 0 .. MaxRuns /\ stage \in {"fetch", "persist", "ingested", "done", "aborted"}
  /\ counters \in [1 .. MaxRuns -> Counters] /\ \A r \in 1 .. MaxRuns : Consistent(counters[r])
  /\ waiting \subseteq Due
  /\ answers \in [Sources -> Answers]
  /\ left \in 0 .. MaxNew /\ results \in [Sources -> Results]

NewItems(r) == {item \in items : item.run = r}

(* No run stores more than max_new_items_per_run articles, over all its    *)
(* sources (:147, :331).                                                   *)
LimitKept == \A r \in 1 .. run : Cardinality(NewItems(r)) <= MaxNew

(* A version's usable entries are stored, unless some run used up its      *)
(* allowance.                                                              *)
Covered(s, version) ==
  LET entries == IF version = 0 THEN {}
                 ELSE {entry \in ToSet(Entries(s, version)) : Usable(s, entry)}
  IN  \A entry \in entries :
        \/ \E item \in items :
             \/ item.link = entry.link
             \/ item.source = s /\ item.id = entry.id /\ entry.id \in Ids
        \/ \E r \in 1 .. run : Cardinality(NewItems(r)) = MaxNew

(* A stored ETag makes the publisher answer 304: what it stands for must   *)
(* be stored, every entry, unless some run used up its allowance.          *)
ValidatorCovers == \A s \in Sources : Covered(s, row[s].validator)

(* consecutive_failures counts the failed rows of feed_fetches since the   *)
(* last that did not fail, across runs that were aborted and seeds.        *)
FailuresMatchLog ==
  \A s \in Sources :
    LET rows == {i \in DOMAIN log : log[i].source = s}
    IN  row[s].failures =
          Cardinality({i \in rows : \A j \in rows : j >= i => ~ log[j].ok})

(* The rows of a run in feed_fetches, and the sum of their entries_count.  *)
RowsOf(r) == {i \in DOMAIN log : log[i].run = r}
Listed(r) == SumFunction([i \in RowsOf(r) |-> log[i].entries])

(* What a run's row says of its feeds and articles is what the tables hold *)
(* of the run, row for row: GET /status and the result (partial or not)    *)
(* are made of these numbers.  What is over the limit alone is in no       *)
(* counter, though entries_count has it.                                   *)
CountersMatchTables ==
  \A r \in 1 .. run :
    LET c == counters[r]
    IN  c # Zero =>
          /\ c.total = Cardinality(RowsOf(r))
          /\ c.total = Cardinality({log[i].source : i \in RowsOf(r)})
          /\ c.succeeded = Cardinality({i \in RowsOf(r) : log[i].ok})
          /\ c.inserted = Cardinality(NewItems(r))
          /\ c.fetched = c.inserted + c.duplicate
          /\ c.fetched <= Listed(r)
          /\ c.fetched = Listed(r) \/ c.inserted = MaxNew

(* "Upsert source settings" (source_seed.py:21): what an operator seeded   *)
(* last is what the table says.                                            *)
SeedKept == \A s \in Sources : row[s].enabled = seeded[s]
=============================================================================
