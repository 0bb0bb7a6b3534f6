# EventAlpha in TLA+

EventAlpha (`src/`) collects news items and market data, files the news items
under canonical events, stores both in PostgreSQL through two workers, and
serves them through a FastAPI process. This directory models the parts of it
that keep state: what their code does to the tables and to the memory of each
process, step by step, with the failures and interleavings the deployment has.
TLC checks the models on small instances; TLAPS proves the safety properties of
all of them, and their refinements of four abstract specifications, for every
value of their constants. Of each liveness property it proves the part that
needs no fairness.

Paths below are relative to `src/services/api/app/` unless they start with
another directory of `src/`.

Contents: 1 Inventory. 2 Plan. 3 Modules and code. 4 Runs. 5 Bounds.
6 Fairness. 7 Proofs. 8 Where code and documents disagree. 9 What is not
modelled.

## 1. Inventory

| Component | Source | State | Operations |
|---|---|---|---|
| Event service | `events/service.py` | `_events`, `_versions`, `_by_identity`, `_by_content_hash` | constructor and `refresh`, `ingest`, `list_events`, `get_event`, `get_event_version` |
| Event repository | `db/event_repository.py`, `db/models.py` | tables `sources`, `raw_items`, `events`, `event_mentions` | `load_state`, `load_event_version`, `save` |
| Event worker and lease | `services/worker/event_worker.py`, `db/locks.py`, `db/factory.py` | a process, its service, the advisory lock | `main`, `postgres_advisory_lease` |
| Event API | `main.py` | one shared persistent `EventService`, one `MarketDataService` | the event routes, snapshot, bars, provider health |
| Market service | `market/service.py` | `_latest`; the locals of a cycle | `refresh_watchlist`, `refresh_bars`, `latest`, `bars`, `health`, freshness |
| Market worker | `services/worker/market_worker.py` | a process, its lease | one cycle, or cycles for ever |
| Market repository | `db/market_repository.py` | `market_quote_observations`, `market_bar_observations`, `provider_state` | `save_quote`, `save_bars`, `record_success`, `record_failure`, `latest_quote`, `bars`, `provider_state` |
| Replay bootstrap | `events/replay.py`, `providers/news/replay.py` | none of its own | loads a fixed feed into a service without a database |
| News adapters | `providers/news/http_sources.py`, `factory.py`, `base.py` | none | fetch, bounded retry, parse |
| Market providers | `providers/market.py`, `providers/replay_market.py` | `_last_message_at` of the replay | `stream_quotes`, `bars`, `latest_quote`, `health` |
| Migrations | `scripts/apply_migrations.py`, `migrations/versions/` | `schema_migrations`, the schema | `apply_migrations` |
| Signal and risk | `domain/signal.py`, `domain/risk.py`, `replay.py` | none | pure functions |
| Contracts, configuration | `contracts.py`, `config.py` | none | validation of single values |
| Smoke test, dashboard | `scripts/runtime_smoke.py`, `apps/web/` | none here | clients of the API |

How they interact. The event worker builds a service over the repository
(which runs `load_state`), takes the advisory lease, and calls `ingest` for
every envelope its adapters yield. `ingest` looks the item up in memory, picks
an event by clustering, builds the next version, calls `save` (one
transaction, three `merge` calls), and only then updates the four indexes.
The API has a service of its own over the same tables; every request for
events calls `refresh` in a pool thread, and a request for a version reads
`_versions` first and the tables second. The market worker reads a provider
stream and then bars, writes observations and the provider's state, and
publishes a quote in `_latest` after both writes. The API reads the market
tables and the provider state only. Docker Compose restarts the market worker
whenever it ends.

What is hard, and what makes each component correct:

- **Event service.** Memory and tables are two copies of one state and the
  transaction lies between them: a failed save, a death before or after the
  commit and a restart must leave no ghost and lose nothing. Items come
  repeatedly, under fresh uuids, out of order. Correct means: memory follows
  the tables, an item is filed once, versions are gapless and never rewritten,
  a historical version is rebuilt exactly, an item joined its event for a
  reason the clustering rule gives.
- **Workers.** The memory is loaded before the lease is taken, by two SELECTs
  between which others commit, and is never looked at again. `save` merges, so
  a stale worker does not fail: it replaces. The lease belongs to a connection
  that may end alone. Correct means: one worker ingests at a time, and
  whatever happens the tables stay well formed.
- **Event API.** Threads share the service without a lock; each read is two
  statements. Correct means: what is served was committed, is complete, and
  catches up with the tables.
- **Market ingestion.** A stream stalls or breaks, a write fails, the write
  that records the failure fails as well, the process dies. Corrections are
  new rows, repetitions are not. Correct means: nothing is published before it
  is stored, a past reading never changes, the stored status tells what the
  worker has counted, and the provider recovers when the faults stop.
- **Migrations.** Statements and ledger entry commit together under a lock; a
  changed or unknown migration is refused.
- **Market reads.** An answer is put together after an await from a row read
  before it, a clock that is not the writer's, and a cache that other requests
  fill meanwhile. Correct means: a client is never shown an older quote than
  the API already held, an as-of answer knows nothing of what came later, what
  is called fresh is recent, and health is not better than what was recorded.
- **News adapters.** A site may change, stall, refuse or answer nonsense
  between any two steps of a pass, and an exception ends the pass. Correct
  means: a pass ends, what was read before a failure is kept, and a pass that
  completes has every item of every source.
- **Risk gate.** It denies on any failed check; a pure function.

`PROJECT.json` lists the hazards one by one, each at its line, with the
properties that watch it or the reason why none does yet.

## 2. Plan

Modules, in the order of importance. All of them exist.

1. `EventStore`: envelopes, identity, clustering, versions, tables, reads, as
   operators without variables.
2. `EventService`: one service over the tables, with failures and restarts.
   `EventLog` and `CanonicalHistory`: the abstract specifications it implements.
3. `EventStoreProofs`, `EventServiceProofs`: all safety properties of 2 and
   the refinements.
4. `EventWorkers`: several processes and the lease, over the tables of `EventLog`.
5. `EventReaders`: the API's requests while `EventLog` commits.
6. `MarketStore`, `MarketIngestion`: the market tables and the market worker.
7. `EventWorkersProofs`: what the tables keep for any number of workers; at
   most one active worker where the lease connection lasts; a worker that is
   alone implements `EventLog`.
8. `MarketIngestionProofs`: all safety properties of the market worker, and
   that it implements `MarketLog`.
9. `Migrations` and `MigrationsProofs`: the runner with releases of any kind
   and failures between statements, and `ReleaseLog`, the abstract
   specification it implements.
10. `MarketLog`, `MarketReaders`, `MarketReadersProofs`: what readers of the
    market tables may rely on, and the market routes of the API over it.
11. `NewsIngestion`, `NewsIngestionProofs`: a pass over the news adapters with
    the bounded HTTP retry.
12. `EventReadersProofs`: the safety of 5.
13. The safety half of each liveness property: `SettlesOnceQuiet`,
    `OutagesBounded` and `PassesBounded` in the proofs of 5, 6 and 11.

What a later extension could take up: the replay bootstrap together with the
event routes that work without a database; see section 9.

Composition: `EventLog` extends `EventStore` with the tables as its variable,
and `EventService`, `EventWorkers` and `EventReaders` extend `EventLog`, so that
they share one definition of what ingest decides and what save writes. The
abstractions are layered: `EventService`, and `EventWorkers` where one worker is
alone, implement `EventLog`, which implements `CanonicalHistory` (its instance
`History` has the tables as the refinement mapping); `EventReaders` has
`EventLog` for a writer. `MarketIngestion` and `MarketReaders` extend
`MarketStore` and instantiate `MarketLog`, the first to be shown to implement
it, the second to use it as the writer; `Migrations` instantiates `ReleaseLog`
with the texts of its ledger.
No module uses a RECURSIVE operator, so all of them can be proved about.

## 3. Modules and code

### EventStore

An envelope is a record of what the code compares: the uuid of the delivery,
provider, source, native id, content hash, title words, category, receipt time
and independence group. A mention is a projection of its envelope and is
represented by it. A native id may be missing (`NoNative`, None) or empty
(`EmptyNative`, ""), because two parts of the code disagree on the second: the
key in memory is `native_id or sha256:...` (`Identity`), so that an empty id is
none, while the unique indexes test for NULL (`Conflicts`), so that it is one.
`Identity`, `Conflicts`, `Known`, `Candidates`,
`SimilarEvent`, `FirstVersion`, `NextVersion` and `Published` are the pieces
of `EventService.ingest`; `Save`, `LatestRows`, `Assemble`, `LoadState` and
`LoadEventVersion` are the repository. Independence is counted in quarters;
Jaccard similarities are compared by cross-multiplication, as the exact
rationals whose floating-point quotients the code compares. `ev` ranks above
its rivals by exact content, similarity, distance in time and id, as in the
code's tuples; ids are numbers because only their order matters.

Left out: language, novelty, tier, event and publication times and trace ids,
which `ingest` carries along and never branches on; `sources`, which holds
exactly the sources of the raw items.

### EventLog

The tables as their readers may think of them: `LogCommit` decides one item on
the committed tables and files it in the same step. Nothing of this atomicity
is in the code, which decides on the memory of a process; that the code does no
more than `EventLog` allows is what `ImplementsEventLog` says. `RecordedHistory`
reads the tables as sequences of versions for `CanonicalHistory`.

### EventService

| Variable | Code |
|---|---|
| `db` | the committed tables |
| `memory` | the indexes of the running service, or `Down` |
| `pending` | the locals of the `ingest` call in progress, or `Idle` |

`Start` and `Refresh` are `refresh`; `IgnoreDuplicate`, `Propose`,
`SaveCommits`, `SaveFails` and `Publish` are one call of `ingest`, cut where
it can fail; `Crash` is the death of the process. `_versions` is modelled
where it matters, in `EventReaders`. `SaveCommits` needs the unique indexes to
accept the item; where they refuse it, `SaveFails` is all that is left.
`SaveFails` is a transaction that rolled
back: after it the caller may go on with the same service. A commit whose
answer is lost appears as `SaveCommits` followed by `Crash`: the only caller
with a database, the worker, ends on any exception.

### EventWorkers

`stage[w]` is the position of a process in `main`: it has read rows
(`SelectRows`), then mentions (`SelectMentions`, and its memory is set), holds
the lease (`Acquire`) and ingests. `LeaseRefused`, `IngestFails`,
`KnownWithoutEvent`, `Finish` and `Die` all end the process, and its
connections, and so its lease (`End`). `DropLease` is a lease connection that
ends alone. `LeaseEnforced = FALSE` is any database that is not PostgreSQL,
where `postgres_advisory_lease` yields without a lock; a lease that drops
allows the same races, and the runs use that. Decision and save of one `ingest`
are one step, because the decision reads only the worker's own memory and
`save` only writes; other workers' steps between them could be moved before
it. `fetched` makes each envelope's uuid come up once; a redelivery is another
envelope with the same identity.

### EventReaders

`events` and `versions` are `_events` and `_versions` of the API's service.
`SelectRows` to `Release` is a list or detail request: two SELECTs, two
assignments, then the read of `_events` on the event loop. `AnswerCached`,
`SelectVersionRow` and `SelectVersionMentions` are `get_event_version`.
`Commit` is the writer: a step of `EventLog`, which `EventService` and a worker
that is alone implement. `since` records the current events when a request began
and exists for `RefreshObservesCommits` only.

### MarketStore and MarketIngestion

`quotes`, `bars` and `provider` are the tables, `latest` is `_latest`, `job`
the locals of the running cycle with a stage per await. `ReceiveQuote`,
`QuoteSaved`, `QuoteRecorded`, `StreamFails`, `FailureRecorded` and
`StreamEnds` are `refresh_watchlist`; `BarsFetched`, `BarsFetchFails`,
`BarsFailureRecorded`, `BarsSaved` and `BarsRecorded` are `refresh_bars`;
`WriteFails`, `PersistenceFailureReported` and `PersistenceFailureLost` are
`_raise_persistence_failure`. `Start` and `Die` are the worker's start and
death. A stall is `StreamFails`: `wait_for` turns it into a `TimeoutError`.
The value of a quote stands for its prices and native id. Receipt times come
from one clock that moves at each receipt; the bars of one batch share one.
The sleep between attempts has no effect on the state.

### MarketLog and MarketReaders

`MarketLog` is what readers of the market tables may rely on: the writer's
clock (`Receive`), observations stored some time after they were received and
never changed (`StoreQuote`, `StoreBars`), and a provider state whose last
message only grows (`Report`). It allows a write that comes late, because a
pool thread finishes a write whose caller was cancelled
(`asyncio.to_thread` in `market/service.py`). `MarketIngestion!Log` maps the
worker's tables to it, with the provider state reduced to what readers see.

`MarketReaders` composes `MarketLog` with the API process. `request[r]` holds
the locals of a request and its stage: `AskQuote`, `ReadQuote`, `AnswerQuote`
are `latest` and `quote_freshness_ms` under the snapshot route, cut at the
await; `AskBars`, `ReadBars`, `AnswerBars` the bars route; `AskHealth`,
`AnswerHealth` the health route, which takes its clock before the await.
`cache` is `_latest` of the API's service, filled by `Remember`. `now` is the
API's clock, and the writer's is `skew` ahead of it. With `durable = FALSE`
the API has no database and asks the replay provider in its own process
(`AnswerReplayQuote`, `AnswerReplayBars`, `AnswerReplayHealth`, `served`).
`RestartApi` forgets everything but the tables. `since`, `begun` and `heard`
record what held when a request began or read, for the properties only.

### NewsIngestion

`pass` holds the locals of the running pass: the provider being read, the
attempt of `_get_with_retry`, what each provider has read and the next entry.
`Answered`, `AnsweredMalformed`, `Refused`, `TransientFailure` and `Wake` are
`_get_with_retry` and the parsing of an answer; `Skip`, `IngestItem`,
`EntryFails` and `NextSource` are the loop over `stream_items`; `Publish` is a
site that changes. `Yields`, `SourceOf`, `Native` and `Content` say for each
kind of source which entries become items and what these carry; an entry has
the fields these decisions read. All filings have one source id, whichever CIK
lists them, a blank guid is no native id, and an accession number is taken
unchecked, so it may be empty. A native id is the sequence of its parts: `<<>>`
for None, `<<NoText>>` for "". `stored` is reduced to source, native id and
content of `raw_items`; `Identity` and `Refuses` are the key in memory and the
index on native ids as in `EventStore`. What else `ingest` does with an item is
`EventService`, and the lease is `EventWorkers`.

### Migrations

`db` is what is committed, the ledger and the origin of each table; `run` is the
run in progress: what its connection sees, whether a transaction is open, the
versions left and the statements executed of the current file. `Begin` and
`RefuseSchema` take the lock and look at the ledger and the list of files;
`RefuseChanged`, `PassRecorded`, `Execute`, `PassExisting`, `StatementFails`
and `Record` deal with one file or one of its statements; `Commit` may commit
and lose its answer; `Interrupt` is any other failure or death. A checksum is
modelled by what it digests: the text, or the text and its line endings. On
PostgreSQL the lock belongs to the transaction and a waiting run has done
nothing, so there is one `run`. `dialect = "sqlite"` is the database the tests
use: a statement is permanent at once until the first INSERT or UPDATE opens a
transaction (`Write`).

## 4. Runs

| Run | Shows | Distinct states |
|---|---|---|
| `event_service` | memory follows the tables, and the tables implement `EventLog` and `CanonicalHistory`, through duplicates, copies, late items, failed saves and crashes | 27 662 |
| `event_workers` | what the tables keep when workers race with stale or torn memories, lease or no lease | 294 688 |
| `event_workers_leased` | at most one worker ingests, where the lease connection lasts | 530 782 |
| `event_workers_overwrite` | *violated*: a stale worker under a valid lease rewrites a stored version | |
| `event_readers` | nothing the API serves lacks a mention; it catches up | 239 140 |
| `event_readers_torn` | *violated*: a torn refresh is served as a historical version | |
| `event_readers_stale` | *violated*: a request answers an older state than the one current when it began | |
| `market_ingestion` | persisted before published, stable past readings, honest provider state, recovery; it implements `MarketLog` | 215 142 |
| `market_reversion` | *violated*: a reverted correction is never stored | |
| `market_readers` | no market answer goes back, looks ahead, or calls old data fresh or a dead provider healthy | 2 078 856 |
| `news_ingestion` | a pass ends, keeps what it read before a failure, and completes only with every item | 316 066 |
| `migrations` | ledger and schema move together; no recorded migration is altered | 4 696 |

Each property is stated in a comment above its definition. The ones to read
first:

- `EventService!MemoryIsDurable`: reloading would give exactly the memory, or
  the memory plus the one version that is committed and not yet published.
- `EventService!LineageReconstructs`: what `load_event_version` rebuilds for
  any stored version has the number of mentions, the first and last receipt
  and the independence that its row says.
- `EventService!ConflictOnlyOnEmptyIds`: the check in memory lets only such
  items through to the unique indexes as these accept, with one exception, two
  items of one source with empty native ids and different content.
- `EventService!IngestDecides`: an identity the service knows leads to an event
  it has, and among several candidates the rank picks one, however they are
  enumerated. `TablesConsistent` says what the answer then is in the tables.
- `EventService!AppendOnly`, `ImplementsEventLog` and `ImplementsHistory`: no
  step changes an answer about a stored version; the tables change as if every
  item were decided on them in one step, and behave as an append-only,
  exactly-once history.
- `EventWorkers!FreshWorkerAppends`: stale memory is the only thing that lets
  a worker rewrite history; `ItemsStoredOnce` and `VersionsExplained` hold even
  then. The one content that racing workers may store twice is that of a source
  which leaves the native id out once and empty once.
- `EventReaders!ServedVersionsComplete` and `HistoricalReadsExact`: torn reads
  can add later mentions, never lose one; `load_event_version` is exact
  although it is two statements.
- `MarketIngestion!PointInTimeStable`, `FailuresOnRecord`, `ReconnectsEarned`,
  `StoreBehindOnlyOnReversion`, `EventuallyHealthy`.
- `MarketReaders!AnswersNeverGoBack` and `AnswersHonest`: late quotes,
  historical requests that fill the cache and restarts of the worker never
  make the API answer an older quote than it held, one received after `as_of`,
  or an old one as fresh.
- `MarketReaders!HealthHonest`: healthy means that a message came recently and
  the last record was a success; an unavailable provider is never answered
  better unless its last message is ahead of the API's clock, and the property
  says when that can be.
- `NewsIngestion!PassCoversFeeds`, `PassEnds`: what a failure in the middle of
  a pass leaves behind, and that every pass is over some time.
- `Migrations!SchemaMatchesLedger`, `NoStatementCollides`,
  `ImplementsReleaseLog`: no half-applied file on record, on SQLite either, no
  retry that stumbles over an earlier failure, no recorded migration altered.

Definitions marked "Faulty variant of" are plausible bugs; `PROJECT.json`
lists, for each property, one with which TLC finds the property violated.

Deadlock is checked in every run. No run stops: services can always refresh or
start, requests can always begin, the market worker is always restarted, a
release can always be run again.

## 5. Bounds

- `event_service`: seven envelopes, four event ids, `ClusterWindow = 2`. They
  contain a redelivery under a fresh uuid, a syndicated copy without native id
  in the same independence group, a similar title at 6/7 (just above 0.85) at
  the edge of the window, the same words in another category, and the same
  content outside every window except that of a later version, and two items of
  one source with empty native ids and different content. Items arrive in
  every order, so first receipts move backwards and events split or grow as
  the order decides. Four ids suffice: no order creates more than four events.
- `event_workers`, `event_workers_overwrite`: two workers, five fetches, two of
  them with one empty native id, three ids. Two workers are what a race on one version needs; a worker may restart
  any number of times, so it can be stale, torn or fresh.
- `event_workers_leased`: three workers, so that a refused one can meet two
  others, and four of the fetches: the question is the lease and not the feed.
- `event_readers`: two requests, three items, one of them the second version
  of an event, `MaxVersion = 2`. Requests are reused without bound; two are
  what out-of-order assignments need.
- `market_ingestion`: two symbols; a quote, its correction at the same provider
  time and a quote without provider time; a bar, its correction and its
  unfinished form; `Attempts = 3` as in the code; `MaxFaults = 3`, so that all
  attempts can fail and so that a failure, its report and the process can fail
  in a row; `MaxClock = 3` receipts, so that value, correction and reversion
  fit. Past `MaxClock` the stream ends and bar requests return nothing, as an
  idle provider's would.
- `market_readers`: one request at a time, `MaxNow = 3`, `MaxClock = 2`, two
  stored observations, `Window = 1`, `BarWindow = 2`, `Limit = 2`, skews -1, 0
  and 1. A request interleaves with every step of the writer and of the clock;
  what an earlier request left is in `cache`, which reused requests fill. The
  feed has a quote, an older one that may arrive later and one without a
  provider time. Times reach both sides of both windows. That no number of
  concurrent requests makes a difference is proved (section 7).
- `news_ingestion`: a feed whose entry is corrected under its guid and lacks a
  link or whose guid is blank at times; an issuer with forms that are not followed and an acceptance
  time that cannot be read, before and between filings that can; a series that
  extends a vintage, revises a value within one and has a missing value. Or two
  filers of one filing, one of them with filings that have no accession number,
  so that the index refuses the second of these; or a fixture.
  `MaxAttempts = 3` as in the code. Passes are not bounded: the items are
  finite in number.
- `migrations`: seven releases: the foundation alone, with a second and with a
  third file; with CRLF files; with an edited file; with a third file that
  came before the second; and one that moves the table of the third file to
  the second, whose second file then fails on a database that has the third,
  before the edit of the third is noticed. Databases
  start new, with tables of another application, with an unversioned schema, an
  incompatible ledger, or as an older runner left them. The state space is
  finite without a bound on runs or failures.

`SYMMETRY` is used for interchangeable workers and requests, in runs without
liveness properties. `Envelopes`, `EventIds`, `MaxClock` and `MaxFaults` are
bounds of the model, not of the code.

## 6. Fairness

- `EventReaders!FairSpec`: weak fairness of each request's next step (the pool
  runs the threads it has started) and strong fairness of beginning a list
  request (clients keep asking, every page load does). Strong, because a
  request thread is not free while it serves version requests. The writer has
  no fairness: the property speaks of the time after it stopped.
- `MarketIngestion!FairSpec`: weak fairness of `Work`, the worker's own steps
  and its restart (`docker-compose.yml`: `restart: unless-stopped`). Faults
  have no fairness and are bounded by `MaxFaults`: the property is that the
  state becomes healthy when they stop.

- `NewsIngestion!FairSpec`: weak fairness of `Work`, the steps of a running
  pass: a call of httpx has timeouts and a pause has a length (at most 2
  seconds). Assumed away is a server that keeps one answer trickling inside the
  timeout of each read, and a database that never answers. The sites have no
  fairness, and `Start` has none: passes need not happen.

The other runs state no fairness.

## 7. Proofs

`EventStoreProofs` proves facts about the operators that the other event modules
share, and what is true of every implementation of `EventLog`.
`EventServiceProofs` proves every property of the run `event_service`
for every set of envelopes, finite or not, and every clustering window;
`EventWorkersProofs` every property of the runs `event_workers` and
`event_workers_leased` for any set of workers; `EventReadersProofs` every
safety property of `event_readers` for any number of requests;
`MarketIngestionProofs` every safety property of the run `market_ingestion` and
its refinement, for any feeds, watchlist and bounds; `MarketReadersProofs` every
property of `market_readers` for any number of concurrent requests, any clocks
and windows; `NewsIngestionProofs` every safety property of `news_ingestion` for
any sources and editions; `MigrationsProofs` every property of `migrations`.

### The event service

Assumptions, all of them in the modules that declare the constants and
evaluated by TLC: None is not the empty native id (`NativeAssumption`),
receipt times are integers, a title has finitely many words
and an id names one envelope (`EnvelopesAssumption`: uuid4), event ids are
integers (`EventIdsAssumption`), `ClusterWindow` is natural, and `Idle` is no
pending call (`IdleAssumption`).

The log. `LogInv` is an invariant of `EventLog`:

- `Sound(db)`: the tables are typed, versions are contiguous, each raw item is
  a mention of exactly one existing version, no two raw items conflict, and
  mentions are finite in number;
- `UniqueItems(db)`: no two raw items have one identity (the log, like one
  worker, decides on what is stored);
- `LineageKept(db)`: every version, rebuilt, describes its mentions;
- `Coherent(db)`: every mention joined the version before it for a reason.

`LogStep` shows that a commit keeps it and only adds (`LogOnlyGrows`), and
`CommitMapsToRecord` that a commit is one `Record` of `CanonicalHistory`
(`LogImplementsHistory`).

The invariant of the service. None of its properties is inductive alone; `IInv`
is `TypeOK` and `LogInv` with what connects them to the memory:

- `MemoryIsDurable`;
- `PendingIsProposed`: what an unfinished `ingest` is about to save is still
  what `ingest` would decide on the committed tables. It holds because one
  service writes and the tables do not move between decision and save; it is
  what carries clustering facts about *memory* over to the *tables*.

The argument. By `MemoryIsDurable` a decision on memory is a decision on
`LoadState(db)`, so the proposed event is version 1 of an unused id or the
successor of the newest stored version (`ProposalIsFirstOrNext`,
`ProposalIsNewest`). Then `merge` finds no row to replace and `Save` only
inserts (`SaveInserts`), so every stored answer is kept (`SaveKeepsHistory`),
and reloading equals publishing (`SaveIsPublished`), which restores
`MemoryIsDurable`. An unknown identity is one the unique indexes accept,
unless its native id is empty like that of a stored item of its source with
other content (`UnknownIsAccepted`, which makes `ConflictFree`). `SaveKeepsLineage` and `SaveKeepsCoherent` carry the
rest. `DecidedOnTables` maps `SaveCommits` to `LogCommit` and every other step
to a stutter, and `Refinement` follows from it and `LogImplementsHistory`.
`OneAnswer` rests on `RankIsTotalOrder`: similarities, compared by
cross-multiplication, are ordered as numbers are, distances are numbers, and
two events in memory differ in their ids, so that a finite set of candidates
has exactly one that ranks above all others (`OneSimilarEvent`). This is also where the other event modules go wrong or stay right:
with a second writer `PendingIsProposed` fails, and `event_workers_overwrite`
is the result.

Theorems: `LogInvariant`, `LogOnlyGrows`, `LogImplementsHistory`;
`InductiveInvariant`, `TypeCorrect`, `Durable`, `ConflictFree`, `FiledOnce`,
`OneAnswer`, `LineageExact`, `ClustersSound`, `HistoryIsAppendOnly`,
`DecidedOnTables`, `Refinement`.

### Racing event workers

Further assumptions: `LeaseEnforced` and `LeaseMayDrop` are Booleans
(`LeaseAssumption`) and `Nobody` is not a worker (`NobodyAssumption`). Nothing
is assumed about the lease except in `LeaseExcludes`.

With a second writer the memory of a worker no longer agrees with the tables.
`WInv` keeps what is left: the tables are `Sound`, two raw items have one
identity only if the native id of one is missing and that of the other empty
(`IndexedItems`, what the two indexes give without the check in memory), every
version has an item that was filed under it
(`Explained`), every stored item was fetched, and every selected row and every
remembered event names a version that is stored (`SelectedStored`,
`MemoriesStored`). Rows are replaced but never deleted, so a memory that was
once read stays a memory of stored versions. A stale worker therefore proposes
a version that either exists, and is replaced, or is the next one: the
versions stay contiguous. An envelope comes up once, and a redelivery is
refused by the unique indexes whatever the memory says, so an item is stored
once, with the exception `IndexedItems` names. `FreshMemoryAppends` then adds the hypothesis that is missing from
`WInv`, a memory that agrees with the tables, and reuses the lemmas of the
event service. `LeaseExcludes` has an invariant of its own: who ingests holds
the lease.

Where there is one worker (`\A v, w \in Workers : v = w`), whatever becomes of
its lease, what it has selected and what it remembers is what the tables hold
(`ReadsCurrent`), because nobody else moves them. Its steps are then steps of
`EventLog` (`SoleWorkerLogs`), and the theorems about the log give what a second
worker takes away: its versions are append-only
(`SoleWorkerAppends`, the property that `event_workers_overwrite` violates), its
tables are a history (`SoleWorkerImplementsHistory`), and no redelivery ends it
with a KeyError (`SoleWorkerFindsEvents`). So the second process is needed for
the finding, not only sufficient.

Theorems: `WorkersInvariant`, `WorkersTypeCorrect`, `WorkersStoreOnce`,
`WorkersExplain`, `FreshMemoryAppends`, `LeaseExcludes`, `SoleWorkerLogs`,
`SoleWorkerAppends`, `SoleWorkerImplementsHistory`, `SoleWorkerFindsEvents`.

### The event readers

`RInv` of `EventReadersProofs` says of everything the API holds, the two
caches, what a refresh has assembled and what was answered, that it is
`Complete`: its row is committed, no mention of that version is missing, and
every mention is of that event (`HeldComplete`). A commit keeps this
(`CommitAppends`) because a proposal of a fresh writer is the newest version of
its event, so no mention is filed under a version already stored. `Reading`
adds what a request knows between its two SELECTs: the selected rows are still
in the tables, one per event, and the row of a version request is the row of
the version asked for. `HistoryReadExactly` follows: the mentions filed up to a
stored version do not change between the SELECTs.

`RefreshesLoadFresh` says of any number of requests that what a refresh has read
is no older than what was current when it began: reads are never the reason for
a stale answer. What is missing from `RefreshObservesCommits`, which
`event_readers_stale` violates, is only that nothing else is installed in
between, and so a request without an overlapping one has it
(`SoleRequestObserves`). `SettlesOnceQuiet` is the part of `EventuallyCurrent`
that needs no fairness. `Outdated` is the set of refreshes under way that will
install something else than the current events; while nothing commits it only
loses members, any other refresh makes the events current, and when it is empty
current events stay so. That these refreshes end is what fairness adds.

Theorems: `ReadersInvariant`, `ReadersTypeCorrect`, `NothingMissing`,
`HistoryReadExactly`, `RefreshesLoadFresh`, `SoleRequestObserves`,
`SettlesOnceQuiet`.

### Market ingestion

Assumptions: `BoundsAssumption` (at least one attempt; `MaxClock` and
`MaxFaults` are natural), `FeedAssumption` (provider times are integers or
absent, bars are final or not), `WatchlistAssumption` (a watchlist is not
empty and finite) and `NoStateAssumption` (`NoState` is no provider state, in
either of its two forms).

`MInv` says what each stage of a cycle knows: what the worker has in hand
(`InHand`), that a quote whose success is being recorded is already stored
(`StoredFirst`, which makes `CacheIsDurable` inductive), and how the local
counters relate to the stored provider state (`Counted`). The last one is the
point of `FailuresOnRecord`: a failure is counted in a local variable first and
recorded in a transaction of its own, so in between the stored state may lag by
one, and a worker that cannot record it ends instead of retrying.
`LastMessageMonotone` and `ReconnectsCountOutages` follow from one lemma,
`ProviderSteps`: every change of the provider state is `RecordSuccess` or
`RecordFailure`. `PastReadsFinal` is about two consecutive states: what is
saved next was received after every time whose readings are final.

`BehindOnlyOnReversion` needs an invariant of its own, `OInv`: what is received
has a receipt time of its own (`ReceivedOnce`), no stored row was received later
than the observation in hand (`RowNoLater`), and each symbol has a top quote
(`HasTop`; carried along as an invariant instead of the finiteness of the
tables).
`WorkerImplementsLog` needs `LInv`: whatever is in hand came from the provider.

`OutagesBounded` is the part of `EventuallyHealthy` that needs no fairness.
`ToHealthy` bounds how far the worker is from a healthy state: seven for each
fault that may still happen, and from each stage at most six steps of its own.
Each step lowers it, or goes from healthy to healthy without a fault. Therefore
at most `7 * MaxFaults + 5` steps of a behaviour do anything else: no retry, no
restart and no cycle of the worker goes round without getting on. What fairness
adds is that the steps happen.

Theorems: `MarketInvariant`, `MarketTypeCorrect`, `PersistedBeforePublished`,
`RetriesOnRecord`, `LastMessageMonotone`, `ReconnectsCountOutages`,
`PastReadsFinal`, `BehindOnlyOnReversion`, `WorkerImplementsLog`,
`OutagesBounded`.

### The market readers

Assumptions: `ReaderBounds` (windows, limit and bounds are natural, skews are
integers) and `ReaderFeeds` (`NoTime` is no time, provider times are integers
or absent).

`RInv` of `MarketReadersProofs` has three parts about the tables and the cache:
`Received` (nothing was received after the writer's clock, and that is at most
`skew` ahead of the API's), `HasTop` again, and `Held` (with a database `_latest`
holds stored quotes only). The rest is one predicate per request, `Good`: a
quote that was read is not behind what the request began with (`NotBehind`) and
not ahead of its `as_of` (`NotAhead`), and an answer given is what the
properties say. `GoodStays` shows that `Good` depends on the tables only through
quotes that are never removed, so that no step of the writer, of the clock or of
another request can spoil a request under way; this is why any number of them
may interleave. `ReadQuoteKeepsRInv` is the heart: the statement sees every
quote the cache held, so its maximum is not behind any of them.

Theorems: `MarketReadersInvariant`, `MarketReadersTypeCorrect`, `NeverGoesBack`,
`AnswersAreHonest`, `HealthIsHonest`.

### News ingestion

Assumptions: `AttemptsAssumption` (at least one attempt) and
`EditionsAssumption` (a deployment has at least one source, as `config.py:85`
demands, every source has a kind and editions, and an edition that parses is a
sequence).

`NInv` relates the position of a pass to what it has read (`Ordered`: providers
before it are read, those after it are not, a provider that yields has been
read) and to the tables (`Ingested`: everything read up to `next` is kept).
`Identified` carries the FRED revisions: an item of a series is stored under a
native id that is its reading (`FredItem`), so that an identity already stored
says the very same (`NativeIdentity`), with another end of the vintage at most.
It also says that identities and native ids are stored once (`StoredOnce`): the
first because of the check in memory, the second because an item that the index
refuses ends the pass instead. `NextSource` is where a provider's last entry has been passed
and the whole of what it read becomes kept.

`PassesBounded` is the part of `PassEnds` that needs no fairness: each step that
changes a running pass lowers `Remaining`, the providers left, then whether the
current one is still to answer, then the attempts and pauses or the entries
left. Its lexicographic order is well founded on triples of naturals (from the
library's well-foundedness of `<` and of such products), so no pass takes steps
for ever, although the answer that sets the number of entries comes in the
middle and its length has no bound.

Theorems: `PassInvariant`, `PassTypeCorrect`, `PassKeepsWhatItReads`,
`PassesBounded`.

### The migration runner

Assumptions: `ReleasesAssumption` (versions are ordered, every statement creates
a domain table, and no table is created by two statements of a release),
`NamesAssumption` and `NoValueAssumption` (names are apart).

`IInv` adds to the properties what a run in progress knows: `DealtWith` (what
is not left to do is recorded with its checksum), `SeesCommitted` (every
committed entry is seen with its text; without an open transaction the run sees
exactly what is committed), on both databases `NothingMissing` (no table of a
recorded file, or of the statements executed so far, is missing) and, on
PostgreSQL, `PartlyApplied` (it sees no other domain table). `Commit` turns them
into `SchemaMatchesLedger`; on SQLite, where statements are permanent before
their file is recorded, the first half remains, and no half-applied file is ever
on record. A collision contradicts `PartlyApplied`, because a release creates a
table once. `ReleaseLog` moves at `Commit` only.

`Idempotent` is about running a release again: on a database whose ledger is
that of the release no step of the run changes ledger or tables, up to its
commit or any failure, and it is not refused. It needs `LeavesInstalled`: such a
run has added no table, and the entries ahead of it are the committed ones.

Theorems: `RunnerInvariant`, `RunnerTypeCorrect`, `AllOrNothing`,
`SuccessInstalls`, `RetriesComplete`, `Idempotent`, `RunnerImplementsLog`.

### Only model-checked

Liveness (`EventuallyCurrent`, `EventuallyHealthy`, `PassEnds`) needs fairness
and ENABLED, which are out of the prover's reach, and stays with TLC, as do the
four counterexamples of section 8. Proved of each is what no fairness is needed
for: `SettlesOnceQuiet`, `OutagesBounded` and `PassesBounded`; they are not
properties of a run, because the runs check the liveness they are halves of.
Every safety property and every refinement of a passing run is proved. The
constants of the runs satisfy every assumption above: TLC evaluates them.

## 8. Where code and documents disagree

Four runs end in a counterexample, each against a sentence of the repository.

1. *Append-only versions* (`README.md:7`). `event_worker.py:19` loads the
   memory before `event_worker.py:23` takes the lease. Worker B starts and
   loads; worker A ingests and ends; B takes the free lease and ingests from
   its old memory, builds the same version number again, and `merge` replaces
   A's row. A refresh after the lease is taken would close it.
2. *Membership as known at a historical version*
   (`event_repository.py:115`). `load_state` reads rows and mentions in two
   statements without bounding the mentions by the row's version; `refresh`
   keeps the torn event in `_versions` and `get_event_version` prefers it to
   the tables.
3. *Readers observe commits* (`service.py:71`). Two refreshes of the shared
   service may assign in the opposite order of their reads. The API recovers
   with the next refresh (`EventuallyCurrent`), but a request may answer an
   event older than the one current when it began.
4. *Append-only corrections, point-in-time reads* (`README.md:7`). The quote
   fingerprint leaves the receipt time out when the provider gives one. A
   quote corrected from A to B and back to A is a duplicate of the first; the
   tables answer B, `_latest` holds A. `StoreBehindOnlyOnReversion` shows that
   this is the only case.

Two limits of the migration runner that contradict no document: on SQLite a
failure in a release whose predecessor is installed leaves tables that every
retry stumbles over (`StatementFails`), because nothing has opened a
transaction yet; and a ledger with the digest of CRLF bytes is refused by the
same files with LF endings (`RefuseChanged`), since the byte checksum is
computed from the file at hand.

Limits of the market routes and of the news pass that contradict no document
either, each visible in the model:

- `health` reads its clock before it awaits the stored state
  (`market/service.py:256`). A message that arrives during the read is ahead of
  that clock, and a live provider is answered as degraded, although no clock is
  wrong; `HealthHonest` admits `ahead` for this reason.
- Without a database `as_of` is not looked at for quotes: the current quote is
  answered, and marked stale because it lies ahead (`NoLookAhead`).
- An acceptance time that cannot be read ends a pass at its entry, again and
  again while the site serves it: the filings behind it and the sources after
  it are not read (`EntryFails`). Nothing that was read is lost.
- An empty native id is none for the key in memory (`events/service.py:79`,
  `:109`) and one for the unique indexes (`db/models.py:44-60`). The contract
  allows it (`contracts.py:59`) and the SEC adapter passes on what it is given
  (`http_sources.py:184`): of two filings without an accession number and with
  different content the second is refused by the database, and ends the pass at
  its entry, again and again while the site serves it (`Refuses`,
  `ConflictOnlyOnEmptyIds`). Nothing that was read before is lost.
- A correction of an RSS entry under the same guid is a duplicate and is
  dropped (`Native`), unlike a revised FRED value.

## 9. What is not modelled

- The risk gate and signal fusion: stateless functions of one request. The gate
  is a conjunction of comparisons that an operator could only restate; the
  fusion is decimal arithmetic on scores.
- The replay bootstrap of the API: it reads a fixed feed into an
  `EventService` once per process. It holds no lock and needs none: neither the
  feed nor `ingest` suspends, so the load is one uninterrupted step of the event
  loop. The service it fills is modelled.
- `refresh_watchlist` without a repository, which only tests call, and a service
  with provider reads enabled beside a repository, which nothing configures.
- `/health`, `/api/v1/signals` and the websocket, which answer constants or a
  fixture; responses 422 for bad parameters.
- Two migration runs at a time on SQLite, where the runner takes no lock.
- Contracts and configuration: checks of single values. The models start from
  envelopes, quotes and bars that passed them. Of the RSS, SEC and FRED payloads
  `NewsIngestion` keeps what decides whether an entry becomes an item and which.
- The replay market provider's generator: arithmetic on the clock; in the
  model a provider may stream anything from its feed.
- The event service without a database: the same `ingest` without `save`,
  single-threaded between awaits.
- Ties between quotes with equal market and receipt times, which the code
  breaks by processing time and digest: the readers of `MarketStore` return
  sets.
- A `record_success` that commits but whose answer is lost. Lost answers of
  observation writes are the sequence "saved, then the next write fails".
- Two observations of `provider_state` written at once by a thread that outlived
  its worker and by the worker's successor: `MarketIngestion` has one writer.
- The web dashboard and the smoke test: clients or presentation.
