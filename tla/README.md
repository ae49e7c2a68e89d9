# Verification of the automation portfolio

The repository holds three programs:

- `03-automated-news-intelligence-pipeline` (`P3` below), a Python service. Once
  a day it collects articles from RSS and Atom feeds, selects candidates, lets a
  language model write a digest, stores it in PostgreSQL and delivers it to a
  Telegram chat. It is the largest program and most of this project is about it.
- `02-ai-lead-routing-workflow`, an n8n workflow: a webhook takes leads, a model
  extracts signals from them, a score routes them, and they end up in HubSpot
  and in an audit sheet.
- `01-invoice-processing-workflow`, an n8n workflow: uploads and mails bring
  PDF invoices, a model reads them, rules judge them, a sheet stores them.

This directory holds TLA+ specifications of the parts of these programs where
the order of events matters, TLC configurations that check them on small
instances, and TLAPS proofs about the most important ones. `PROJECT.json` lists
components, runs, the source lines behind every definition, hazards and
theorems.

## 1. Inventory

### The news pipeline

| Component | State | Operations | Hard behaviour | Correct when |
|---|---|---|---|---|
| Run orchestration (`app/application/pipeline.py`, `advisory_lock.py`) | the session advisory lock; `pipeline_runs`; a `PipelineRun` object and the candidates in memory | `run` → try lock, insert RUNNING, ingest, select, mark, load, generate, create, deliver, save, unlock | overlapping schedulers and commands; failing statements and commits; processes that die or are cancelled; a lock session that dies under a run | an article is USED exactly when a digest has it; no article is published twice; a run's row says success exactly when its digest exists; runs are serialized; every run ends and unlocks; the caller hears what is stored |
| Articles and digests (`repositories/news_item.py`, `digest.py`, `domain/state_machine.py`) | `news_items.status`, `digests`, `digest_items` | `add_if_new`, status transitions, `create_generated`, digest transitions | transitions decided in one transaction and written in another | transitions are legal; USED and IGNORED are final |
| Ingestion (`feed_ingestion.py`, `repositories/source.py`, `feed_fetch.py`) | `sources` (settings, validators, failure counts), `feed_fetches`, `news_items` | concurrent conditional GETs, then per source one transaction | one transaction per source, a limit over all of them; objects read minutes before they are saved; feeds and settings that change meanwhile | the limit holds per run; nothing behind a stored ETag is lost; counters, log and result agree; an operator's settings stay |
| Selection and generation (`selection.py`, `digest_generation.py`, `digest_validation.py`, `digest_render.py`) | in memory | score and rank, ask the model, validate, repair once, split into messages | arbitrary model output; ties and caps; lengths at the limit | the selection is the best one within the caps; whatever the model answers, a digest is sound; its messages hold everything and fit |
| Delivery (`digest_delivery.py`, `domain/delivery.py`, `repositories/delivery.py`, `aiogram_client.py`) | `digests.status`, `delivery_attempts`; per call: parts left, numbers so far | `deliver`, `_deliver_part`, `_fail_digest` | calls overlap without a lock; Telegram may have taken a message it did not confirm; crashes between request and record; cleanup and renames between calls | SENT means that everything was confirmed; one sender at a time; the log explains the chat; sending ends |
| Cleanup (`cleanup.py`) | deletes old attempts and fetch rows | `cleanup` | deletes rows delivery reads | delivery stays correct |
| Seeding (`feeds/seed.py`, `source_seed.py`) | `sources` | `seed-sources` | runs beside a pipeline run | settings arrive, history stays |
| Feed client and parser (`fetch_one`, `feeds/http.py`, `dns.py`, `parser.py`, `normalize.py`, `domain/validators.py`, `feed_policy.py`) | per source the request in progress; the semaphore | check the URL, resolve, request with retries, parse, make articles of links, record | DNS answers that change between check and connection; retries; clocks; checks of the same thing in several places that differ | connections go to checked addresses only; retries are made exactly where they help; a failing source is recorded and ends nothing else |
| LLM client (`llm/openai_client.py`) | none | complete, with retries | timeouts; retries below a repair | the model is asked as often as the settings say |
| CLI, scheduler (`cli/app.py`, `scheduler/service.py`) | the process and its job | start, fire, stop; run, exit with a code | two processes at once; signals during a run; restarts | runs are serialized; the exit code is what the row says; a run that is not stopped ends |
| API (`api/main.py`) | none | `GET /status` and others, read only | rows that other processes write | the status is that of the run in progress |
| Settings (`config.py`) | none | validate once, at start | limits that contradict each other | the limits fit each other and the tables |
| Schema, prompts, logging | none of their own | declarations, wording | - | - |

How they interact. The scheduler and the command `run-digest` call
`DigestPipelineService.run`, which calls ingestion, selection, generation and
delivery in turn, and shares nothing with another process but the database and
the advisory lock. `retry-delivery`, `seed-sources` and `cleanup` run beside it
without that lock. Each service opens a transaction of its own per step
(`session.py`), PostgreSQL isolates them at READ COMMITTED, and rows are locked
where a status changes. What one transaction read and another uses is where
things can go wrong, so transactions are the atomic steps of the models.

### The workflows

| Component | State | Operations | Hard behaviour | Correct when |
|---|---|---|---|---|
| Lead routing (`lead-routing-main.json`) | the audit sheet, the CRM; per execution the current node | validate, look the key up, extract and score, upsert, act, audit, answer | executions run side by side; a node that failed may have been applied; tries and error outputs; the instance stops | repeated keys cost nothing; answers match the sheet; an address in the CRM is not put back to the data of a request that had ended before; every request ends |
| Invoices (`invoice-processing-main.json`) | the sheet, the operator's chat; per execution the current node | validate and hash, look the hash up, extract, judge, append, tell | as above | a stored file costs nothing again; what the operator reads matches the sheet |
| Error workflows, validators, generators of demo data | none | notices; offline checks | - | - |

## 2. Modules

| Module | Models | Kind |
|---|---|---|
| `DigestLifecycle` | what delivery promises about one digest | abstract |
| `DigestDelivery` | `deliver` and everything it calls, cleanup, renames | detailed; implements `DigestLifecycle` |
| `ArticleLedger` | what runs promise about articles and digests | abstract |
| `Pipeline` | `run` and `_run_locked`, the lock, transactions, faults | detailed; implements `ArticleLedger` |
| `Service` | the scheduler, `run-digest` with its exit code, `GET /status` | composed with `Pipeline` (EXTENDS); implements it |
| `FeedUrls` | which addresses are accepted for feeds and articles | operators |
| `FeedFetch` | `fetch_one`, `SafeFeedHttpClient`, and what `_persist_fetched` records | detailed |
| `Ingestion` | `ingest_sources`, `_persist_fetched`, seeding, feeds, the run's counters | detailed |
| `DigestGeneration` | `select_candidates`, requests to the model and their retries, `validate_model_output`, repair, `split_digest_messages`, the checks of `Digest` and `digest_items`, the limits of `Settings` | algorithms as steps, checked against definitions |
| `LeadRouting`, `InvoiceIntake` | the workflows | detailed |
| `MC...` | instances for TLC | |
| `DigestDeliveryProofs`, `PipelineProofs` (with `Service`), `FeedFetchProofs`, `IngestionProofs`, `DigestGenerationProofs`, `InvoiceIntakeProofs`, `LeadRoutingProofs` | theorems | |
| `InductionLemmas` | induction over sets of numbers and finite sets; sizes, folds and sums over them | lemmas |

The modules fit together by abstraction. `Pipeline` sees ingestion as a step per
source that adds any new articles of it, fails for it, or raises: `Ingestion`
is what such steps do, for runs that follow one another as `RunsSerialized`
says. It sees generation as any choice of candidates within the limits of size,
or an error: `DigestGeneration` says which. It sees delivery as a step that
answers or raises, and `DigestDelivery` takes the digest from there. `Service`
puts processes around it: every step of a run there is a step of `Pipeline`.
`Ingestion` in turn sees a request as an answer or an error; `FeedFetch` is what
happens inside it, and which entries of a feed become articles.

`Mutant...` operators in the modules are plausible slips in the code. Each
property of a run has one: with the slip in place, TLC finds the property
violated, which shows that the property says something about the code.

### DigestDelivery

A *deliverer* is a process that may call `deliver`. `call[d]` holds the locals
of its call, `pc` the transaction that comes next:

| Action | Code |
|---|---|
| `Begin`, `BeginElsewhere` | reading the digest and the source names; SENT is skipped, SENDING refused |
| `ReadAttempts` | which parts are sent, and the highest attempt numbers |
| `Refuse` | no split or no chat id: `_fail_digest`, then raise |
| `StartSending` | the locked transition to SENDING |
| `AddAttempt`, `SendMessage`, `RecordSent`, `RecordRetry`, `RecordFailure` | `_deliver_part` |
| `Finish` | the transition to SENT |
| `FailRead`, `FailLocked`, `Report` | `_fail_digest` and the outcome read back |
| `Interrupt` | a crash, a cancellation, a database error between two transactions, or a clock set back between an attempt's start and its end |
| `Relayout`, `DayPasses`, `Cleanup` | a source is renamed; attempts grow old; `cleanup` |

A *layout* stands for what `split_digest_messages` makes of the digest with the
source names stored at the time: a sequence of parts, each with some articles.
`confirmed` and `posted` are history variables: what was recorded as sent, and
what is in the chat, which the code cannot know.

### Pipeline

A *worker* is a process that may run the pipeline. `work[w]` holds the locals
of `run`, with the run object's status in `known`; `runs`, `item`, `digests` are
the tables. Actions are the transactions in order, `Handle` is
`except Exception`, `Release` the `finally` block. `Fault` is a statement or
commit that fails, or a completion that raises because the clock was set back, `Stop` a process that ends, `LoseLock` the end of the session
that holds the lock. Which articles a feed offers, which are recent enough and
how they score is arbitrary. When the commit of `Create` fails, the object in
memory is completed already: `Fault` keeps that.

### Service

`proc[w]` is the stage of a process, `started` the order in which run objects
got their `started_at`. A *server* is a scheduler, which fires again and again
but not while its job runs (`max_instances=1`) and is started again by docker;
any other worker is a command, which runs once. `Launch`, `Fire`, `Command`,
`Exit` and `Kill` are the processes' steps, `Stamp` the moment between the lock
and the row at which the run object is made, `Proceed` any step of `Pipeline`.
`Reports` is `get_latest`. When the job fires is left open.

### FeedFetch, FeedUrls

A URL is a record of what the checks tell apart: the kind of host (the allowed
name, a Unicode spelling of it, another name, a literal address of some kind),
the port as written, credentials. The operators of `FeedUrls` are the functions
that accept or refuse one, each with its own idea of the same rule. In
`FeedFetch`, `fetch[s]` is the call of `fetch_one` for a source: `Enter` takes a
slot of the semaphore, `Resolve` checks the URL and the addresses, `Request` is
one attempt with any of the answers the client tells apart, `BadUrl` an address
`httpx` refuses, `Break` any other exception, `Persist` the transaction, where
the entity and the constraints of `feed_fetches` may refuse the row. `Rename`
changes the DNS records and `SetClock` the wall clock meanwhile. `reached` and
`codes` are history variables: where connections went, what they brought.

### Ingestion

A feed is a sequence of versions, a version a sequence of entries; the number
of a version is its ETag. `snapshot` holds the `Source` objects as read at the
start of the run, which `Save` writes back whole. `Start`, `Fetch`, the three
`Persist...` actions, `Conclude` and `Abort` are the run; `Publish` and `Seed`
happen beside it. `results` are the `SourceIngestResult`s, `counters` the
counters in the run's row, which `Conclude` makes of them
(`_apply_ingest_counters`).

### DigestGeneration

One run in memory. The walk over the ranking, the requests and their retries,
the validation of an output and packing are translated; `answers` is the history
of the requests. `SelectionIsBest` and `SplitIsRight` compare the algorithms
with what they should compute, stated without the algorithm. What happens when
the scores, the outputs and the lengths are chosen arbitrarily includes what any
prompt or model can bring about. `SettingsAccepted` is an assumption of the
module: the limits that `Settings` lets pass.

### LeadRouting, InvoiceIntake

An execution is at a node; an action is what the node does, or one try of a
node that is retried and writes. A try that fails may have been applied. The
sheet is what executions share. `before[x]` is a history variable: the
executions that had ended when x came.

## 3. Runs

Every run is finite and complete within its bounds. Deadlock is not checked,
since every system here may come to rest: no calls left, all runs over, all
executions ended.

| Run | Instance | Shows |
|---|---|---|
| `delivery_sequential` | one caller with or without chat id, two calls, a digest of two parts, two tries, cleanups, no crashes | `NothingLost`, `OnlyUnsentParts`, `SendingEnds`: parts are sent until recorded and not again; SENT has every article in the chat; SENDING ends |
| `delivery_overlapping` | two callers, three calls, splits of two and three parts, one try, renames, crashes anywhere | `EveryPostAccounted`, `OneSender`, `SentMeansConfirmed`, and `KeepsLifecycle`: delivery implements `DigestLifecycle` |
| `delivery_race` | two callers, three calls, one split, no crashes, with fairness | violates `SendingEnds` (finding 1) |
| `pipeline_overlap` | two workers, two runs, three articles of two sources that are seeded meanwhile, faults, stops, lost locks | `UsedIffPublished`, `DigestIffSuccess`, `DigestWithinLimits`, and `KeepsLedger`: the pipeline implements `ArticleLedger` |
| `pipeline_commit` | one worker whose statements and commits may fail | violates `SuccessIsStored` (finding 2): the trace goes through `Create`, whose transaction fails |
| `service` | a scheduler and a command, three runs, one article, stops at any step, with fairness | `RunsSerialized`, `ExitCodeHonest`, `StatusIsCurrent`, `RunsEnd`: runs exclude each other, the exit code is what the row says, `/status` shows no finished run, skipped ones aside, while another is in progress, runs end and unlock |
| `feed_fetch` | two sources, one with a name and one with a literal address, one slot, two tries, four kinds of DNS answers, every kind of reply, five feeds | `OnlyChecked`, `RetriesSpent`, `FailureContained`, `FetchingEnds` |
| `ingestion_serial` | two runs, two feeds of up to two versions, entries with swapped ids, without ids, of foreign hosts, one too many, an empty feed, seeds, aborts | `LimitKept`, `ValidatorCovers`, `FailuresMatchLog`, `CountersMatchTables` |
| `ingestion_seed` | one run and seeds | violates `SeedKept` (finding 3) |
| `generation` | five articles of two sources, two scores, outputs of up to one item more than allowed, two tries per call, lengths that fill a message exactly, miss it by one, or do not fit | `SelectionIsBest`, `DigestIsSound`, `RequestsSpent`, `SplitIsRight` |
| `lead_routing` | two requests of one or two keys for one address, three tries, crashes | `RepeatsAreFree`, `AnswersAreRecorded`, `ContactIsRecent`, `RequestsEnd` |
| `invoice_intake` | two executions of one or two files, three tries, crashes | `DuplicatesAreFree`, `NoticesMatchSheet` |

The largest is `ingestion_serial` with 3.5 million states; every run takes less
than four minutes on two cores. No module's `TypeOK` is checked more than once.

Why the bounds are enough. The properties relate two actors or two visits of
one actor: a caller and its retry, a run and another, a request and its
repetition. Two of each, with one call more than callers in delivery, so that
a third call meets what two overlapping ones left, and one run more than
processes in `service`, so that a scheduler's run follows a stopped one, give
every such pair. One slot of the semaphore for two sources is the smallest number
that makes one wait for the other, two tries the smallest that has a retry. The
numbers of articles, sources, entries and lengths are such that each cap is
reached and exceeded, with one more on either side. Symmetry is used for
workers, runs, callers, articles and addresses in runs without liveness
properties, whose specifications treat the elements of these sets alike.

Fairness is weak fairness of each process's next step, once it has started one:
HTTP requests, Telegram requests and database statements have timeouts, back-off
is bounded, and n8n goes on with an execution while it has nodes to run. Nothing
makes anybody begin a call, a run or a request. No fairness is assumed of
crashes, seeds, cleanup, publishers, clocks or DNS. In `service` it is weak
fairness of `Advance(w)`, the next step of a run, and not of firing or
launching; in `feed_fetch` of `Step(s)`, the next step of a source. A step of a
source that waits for the semaphore is enabled again and again only, but the
slots are given back for good once the others are through, so weak fairness is
enough. `RunsEnd` counts a run whose process was stopped as ended, and `RequestsEnd` a
request whose execution crashed, since nothing resumes either.

## 4. Findings

1. *A digest can stay SENDING for ever without a crash.* `deliver` reads the
   highest attempt numbers before it locks the digest. If another call fails in
   between, the second one takes a number that exists; the unique constraint
   refuses the row, the exception leaves `deliver`, and the digest is SENDING,
   from where no call takes it up. `P3/README.md:68-70` says that unexpected
   failures are persisted on the digest.
2. *A run is answered SUCCESS though nothing was stored.* The run object is
   completed in memory before its transaction commits. When the commit fails,
   the handler takes the run for finished, saves nothing and answers SUCCESS;
   the row stays RUNNING. A run without content, or without a usable answer of the
   model, is answered what it was to be in the same way when the save of its row
   fails.
3. *A seed during a run is undone.* A run saves every setting of the source as
   it read it at its start: a source disabled meanwhile is enabled again.

## 5. Proofs

All proofs are for any sets of processes, runs, articles, files and keys, and
any limits that satisfy the named assumptions of the modules (limits are
positive, every split is a sequence of sets of articles, every article has a
source, the sets of articles and of sources are finite). Every invariant and
action property that a passing run checks is a theorem; only the four liveness
properties are not.

The library's induction theorems take an operator, which the provers cannot
instantiate. `InductionLemmas` therefore proves induction over *sets*: a set of
numbers that has 0 and with each number the next has all, by the least one it
would lack (`LeastNatural`, `SetInduction`, `IntervalInduction`); the same for
the subsets of a finite set (`SizeInduction`). A property is then the set of
those that have it. `FoldExists` and `SumExists` give the folds of the community
modules, which are a `CHOOSE` of a recursive function, the function they mean;
with them a loop of the code can be taken one step at a time.

*Pipeline.* `LedgerInvariant` proves `LedgerInv`, from which `TypeCorrect`,
`UsedArticlesPublished`, `NoneTwice` (no article is in two digests; no run
checks it by itself, `KeepsLedger` implies it) and `SuccessHasDigest` follow. The three
properties are not inductive: `Create` inserts a digest for the worker's run and
sets its row, so no other digest of that run may exist. `LedgerInv` adds where
each worker is (`RowFits`: a worker between its first row and its last has a run
whose row is RUNNING; `ChoiceFits`: what it creates is not empty) and that no
two workers have the same run (`RunsOwned`). Nothing is assumed about the lock,
so these theorems cover overlapping runs. `LockSerializes` proves
`RunsSerialized` from `LockInv`, a running worker holds the lock, and assumes
that the session of the lock lives (`~ LockLosses`). `DigestsKeepLimits` proves
`DigestWithinLimits` from `LimitsInv`: from `mark` on a run's choice keeps the
caps, what it loads is among its choice, and what it picks is a digest of a
legal size (`PickedDigestible`). `FinalIsFinal` and
`LedgerKept` (the refinement of `ArticleLedger`) are step properties: each
changes articles in one of three ways, and `LedgerInv` gives what these need.
`AnswersStored` is the other side of finding 2: if no statement and no commit
fails and the clock is not set back (`~ Faults`), `AnswerIsStored` and
`SuccessIsStored` hold: the caller is answered what the row says, and a success
has its digest, though workers are killed and locks lost. Its invariant `AnswerInv`: what a run keeps in memory past
its last write to the row, and what it answers, is what the row says.

*DigestDelivery.* `TypeCorrect` needs that attempt numbers are bounded, so that
a highest one exists (`NumbersBounded`), and that a call that waits for an
answer has a part to send (`PartPending`). `SentIsConfirmed` proves
`SentMeansConfirmed`, for overlapping, crashing and refused calls, renames and
cleanup: its invariant says that a call in progress has a confirmation for
every part of its split it does not mean to send (`Covered`), that rows that
say sent were recorded (`RowsConfirmed`), and that a call that sends has a split
(`CanSplit`). `SendersExclude` proves `OneSender` when every caller has a chat
id and every split can be sent (`Deliverable`); without it, a refused call may
fail a digest that another call is sending; so `delivery_overlapping`, which
checks it, has a chat id for both callers.

`ImplementsLifecycle` proves `KeepsLifecycle` under the same condition: each
step is one of `DigestLifecycle` or changes nothing it sees, from the two
invariants above. `SentPartsStay` proves `OnlyUnsentParts` for one caller
(`OneCaller`); with two, the second may read the attempts before the first has
recorded its own. Its invariant `UnsentTodo` is that what a
call means to send has no row that says sent. `NothingIsLost` proves
`NothingLost` for a split that stays as it is and covers the digest (`OneLayout`,
`SplitsCover`), as in the run, since a rename may lose articles (section 6); it
lets calls overlap, crash and be refused. `PostsAccounted` proves
`EveryPostAccounted` unless cleanup deletes rows (`~ CleanupRuns`), for
overlapping calls and renames: attempts are unique by part and number, the one
in flight is pending (`AttemptsInv`), and the messages of a part are counted by
distinct attempts that may have sent them (`CountInv`).

*Service.* `ImplementsPipeline` proves that `ServiceSpec` implies `Spec` of
`Pipeline`: each step of a process is a step of the pipeline or leaves its
variables alone. With it every theorem about runs holds of the service, and
`ServiceRunsSerialize` draws the conclusion for `RunsSerialized`, for any number
of schedulers and commands that are stopped and started at any time. `Service`
has no failing statements and no dying lock sessions, so nothing more is assumed.
`ExitCodesHonest` proves `ExitCodeHonest` from `AnswerInv` and `ProcInv`: a
process that is not alive is at no step of a run, and the row of a command that
exited well is finished and nobody's, so it stays. `StatusCurrent` proves
`StatusIsCurrent` from `StampInv`: start times are distinct, a run with a row has
one, and a run that started after a running one has no row or one that says it
was skipped (`AloneSince`), because the run takes its time under the lock.

*FeedFetch.* `ConnectionsChecked` proves `OnlyChecked` and `FailuresContained`
proves `FailureContained`, for any number of sources, slots, tries, DNS answers
and feeds. `TypeCorrect` needs that slots given and free make `Concurrency`
(`SlotsInv`); `RetriesAreSpent` proves `RetriesSpent` from `TriesInv`, which
tells for a fetch at each place how many codes it has collected, and of which
kind. The first two's invariant `IInv` says that a fetch has reached no address
but the one it holds, which was checked before anything is requested or reached;
that a fetch with an error has no reply, and one without an error has a reply
that is an answer; and that a source has a row only once it is stored. The step
that matters is `RefusedIsExcepted`: whatever row the four outcomes make, entity
and table accept it unless one of the three exceptions holds. `RaisedIsHidden`
shows that a link which passes the check of `canonicalize_url` and the allowed
host but not that of `NewsItem` is one that its canonical form hides.

*Ingestion.* One invariant, `IInv`, gives `TypeCorrect`, `LimitIsKept`,
`ValidatorsCover`, `FailuresAreCounted` and `CountersAreTrue`, for any sources,
feeds, limits, seeds and aborts. `StoreLoop` turns the fold of `Stored` into a
sequence of states, and `KeptStep` carries through it what the loop has done:
added articles of this run only, spent what it added, counted each usable entry,
and stored those it met before the allowance ended. `Persisted` sums up the three
transactions, so that each property is proved once for them. None of the
properties is inductive. The limit needs that what a run stored and what it may
still store make its allowance (`ItemsInv`); the validators, that a snapshot's
validator is still the row's while a source waits (`FeedInv`), since `Save`
writes it back minutes later; the failures, the same of the counter, with the
log's last failures of a source as a set (`Streak`) that a failure extends and a
success empties. The counters need `Tally`: the run's rows stand one for one for
the sources stored, with the same verdict (`Stands`), and the sums of the results
agree with the allowance and with the sum of `entries_count`, exactly as long as
the allowance lasts. `SumChanged` and `SumExtended` are what a transaction does
to these sums.

*DigestGeneration.* `TypeCorrect`, `BestAreSelected`, `DigestsAreSound`,
`RequestsAreSpent` and `SplitsAreRight` hold for any articles, scores, model
outputs, lengths and limits that `Settings` accepts. The walk over the ranking
keeps (`Selected`) that of the first k articles it has chosen, in order, those
among the best of their source (`Eligible`) of which fewer than the limit are
better; packing keeps (`Divides`) that the messages are stretches of the blocks,
each of which fits and would not with the next block, from which follow both
that everything is in them and that no division needs fewer. The
requests are counted from the rejected output on, if there was one (`Asked`). `IInv` joins these with the properties.

*InvoiceIntake.* `TypeCorrect` needs that an execution has no row before it
appends and at most one per failed try while it does (`RowsInv`).
`DuplicatesCostNothing` proves `DuplicatesAreFree`: an execution of a file that
an execution before it had stored is never past the lookup. `NoticesAreTrue`
proves `NoticesMatchSheet` from what each node of a notice knows (`NoticeInv`).

*LeadRouting.* `PathInv` says which nodes come before and after the model was
paid and the lead was stored. `AnswersHaveRows` proves `AnswersAreRecorded` from `RecordInv`: a
row has its request's key, a completed row is of a stored lead, and a request
that has been answered has the row the answer speaks of. `RepeatsCostNothing`
proves `RepeatsAreFree` from `FreeInv`: requests that came before have ended, so
their rows do not change, and one with such a row of its key is never past the
lookup. `ContactsAreRecent` proves `ContactIsRecent` from `RecentInv`, which says
it of every stored request and not only of the accepted ones.

Only model-checked: liveness (`SendingEnds`, `RunsEnd`, `FetchingEnds`,
`RequestsEnd`), which is out of the prover's reach. Where a theorem has a
condition (`Deliverable`, `OneCaller`, `OneLayout`, `~ CleanupRuns`,
`~ LockLosses`), the runs that check its property meet it too. `AnswersStored` is
the exception: `pipeline_commit` shows what happens to `SuccessIsStored` without
`~ Faults`, and no passing run checks its two properties.

## 6. Known limits of the programs

What the models show and no property states, since the code does not promise
otherwise, or promises it in a document only:

- A crash or cancellation leaves a digest SENDING or a run RUNNING for ever;
  SIGTERM to the scheduler cancels a run in progress that way.
- A run that is skipped while another goes on has the newer row: `/status` then
  reports `skipped_locked` and not the run in progress.
- A run that fails after some sources were stored has a row whose counters are
  all zero, though its articles are in the table.
- Overlapping calls may send a part twice; so may a retry after cleanup removed
  the attempts of a FAILED digest.
- A source renamed between two calls moves articles to other part numbers, and
  a part skipped as sent may be another text.
- When the session of the lock dies, two runs overlap. Unlocking over a dead
  connection raises, and the caller does not get the outcome.
- A run is SUCCESS even when its delivery fails; a dry run uses up its articles.
- One entry that matches two stored articles, or an address that changes during
  a run, makes the whole run fail, where `P3/CHANGELOG.md:22` and
  `P3/README.md:214-215` speak of failures per source.
- Entries dropped over `max_new_items_per_run` are not read again while the
  publisher answers 304.
- An article too long for a message, a blank title, an unusable id of the
  response, and a summary or reason that
  is too short without the white space around it are found after the repair block
  and make the run fail unrepaired.
- A clock set back during a request, a control character in an ETag, and a link
  on the allowed host whose port (0 or empty) or Unicode spelling only its
  canonical form hides raise where nothing catches them, and end the run of all
  sources: the three exceptions of `FailureContained`.
- A feed whose host has IPv6 addresses only is never requested: the address is
  put into the URL without brackets.
- A status 4xx has the code of a lost connection and is asked for again as often.
- A seed that moves a feed's address keeps the validators of the old one.
- Lead routing: two overlapping requests of a key are both paid for and acted
  on; so is a repetition of one that left no row. A repetition of a
  request answered 503 is answered 200 with `accepted: true`, though the lead is
  not in the CRM. The audit row lists alerts and drafts that may have failed.
- Invoices: of several mails found by one poll only the first is processed; a
  row in the sheet that is to be reviewed suppresses a corrected upload of the
  same file; a retried append may leave two rows; overlapping uploads of a file
  are both stored. Totals are compared with 0.02 in binary floating point, so
  that a difference of two cents falls on either side.

## 7. Not modelled

Times of day: when the scheduler's job fires, and with what grace, is left
open. Of the API, authentication, health, the latest digest and the time of the
next run, which read and change nothing. Of the settings, everything but the
limits of a digest and those that are constants of modules: credentials, paths,
the timezone, the database's address. The engine and its pool, column types and
indexes, and the migrations as such; the constraints of the tables are guards of
the actions that insert. Printing and the exit codes of commands other than
`run-digest`. Reading the YAML file of sources. Demo and mock clients, prompts,
texts and logs, the error workflows (an end of an execution), scripts. Inside
modelled components: text clean-up, dates and hashes, how a score is computed,
the deletion of old `feed_fetches` rows, the lead's score, the invoice's
arithmetic. These are computations without state or wording without consequences
for the order of events, and unit tests reach them.

Also left out, each a rare event on the edge of a model: an unlock that fails
though the connection lives (`Release` has only the one that died), and a retry
that an operator starts by hand from a node of an old n8n execution
(`docs/operations.md:21` of the lead workflow), which no rule of the workflow
limits. `Ingestion` allows more than the code: a seed changes one source at a
time, where `synchronize` has one transaction for all.

## 8. Plan

The order followed, the most important behaviour first: delivery, pipeline,
ingestion, generation, workflows, then what surrounds them, processes and
requests. What could follow, in order:

1. Refinements. `Ingestion`'s answers by `FeedFetch`; `Pipeline`'s `Ingest` by
   `Ingestion`, its `Selections` and `Generate` by `DigestGeneration`.
2. Proofs of these refinements, and of operators no run needs yet: `FeedUrls`'
   checks against one another.
3. Models. The lead's score and the tiers with what they make the workflow do,
   and the invoice's rules over integers.
