--------------------------- MODULE MarketIngestion ---------------------------
(***************************************************************************)
(* The continuous market worker: services/worker/market_worker.py over     *)
(* MarketDataService.refresh_watchlist and refresh_bars                    *)
(* (app/market/service.py) and SqlMarketRepository.                        *)
(*                                                                         *)
(* Every await is a step: the next quote of the stream, the write of a     *)
(* quote, the record of a success or a failure, the fetch and the write of *)
(* bars.  The provider may fail or stall at each of its steps (a stall     *)
(* becomes the TimeoutError of wait_for), each write may fail, and the     *)
(* process may die anywhere; docker-compose.yml restarts it                *)
(* (restart: unless-stopped).  The advisory lease keeps it alone, and it   *)
(* loads nothing before it has the lease, so one worker is modelled.       *)
(* Receipt times are readings of one clock that moves between receipts.    *)
(***************************************************************************)
EXTENDS MarketStore, Sequences

CONSTANTS
  Watchlist,   \* WATCHLIST, a sequence of symbols
  QuoteFeed,   \* what the provider may stream: symbol, at, value
  BarFeed,     \* what it may return as bars: symbol, start, value, final
  Attempts,    \* attempts, 3 in the code
  MaxClock,    \* bound: receipts of quotes and non-empty bars
  MaxFaults    \* bound: failures of the provider or database, and deaths

ASSUME BoundsAssumption ==
  /\ Attempts \in Nat \ {0}
  /\ MaxClock \in Nat
  /\ MaxFaults \in Nat

ASSUME FeedAssumption ==
  /\ NoTime \notin Int
  /\ \A q \in QuoteFeed : q.at \in Int \cup {NoTime}
  /\ \A b \in BarFeed : b.final \in BOOLEAN

ASSUME WatchlistAssumption == Len(Watchlist) \in Nat \ {0}

VARIABLES
  quotes,     \* market_quote_observations
  bars,       \* market_bar_observations
  provider,   \* the provider_state row, or NoState
  clock,      \* the last receipt time
  faults,     \* faults so far
  latest,     \* _latest of the running service, as a set of quotes
  job         \* the locals of the running cycle

vars == <<quotes, bars, provider, clock, faults, latest, job>>

\* Locals: the stage; the quote or the bars in hand; consecutive_failures,
\* reconnect_pending and last_message of refresh_watchlist; the position in
\* the watchlist and the attempt of refresh_bars.
NewCycle ==
  [stage |-> "streaming", hand |-> {}, failures |-> 0, reconnecting |-> FALSE,
   last |-> NoTime, position |-> 1, attempt |-> 0]

Ended == [NewCycle EXCEPT !.stage = "ended"]

Init ==
  /\ quotes = {}
  /\ bars = {}
  /\ provider = NoState
  /\ clock = 0
  /\ faults = 0
  /\ latest = {}
  /\ job = Ended

Fault == faults < MaxFaults /\ faults' = faults + 1

\* main: a new service with an empty cache, the lease, the first cycle.
Start ==
  /\ job.stage = "ended"
  /\ job' = NewCycle
  /\ latest' = {}
  /\ UNCHANGED <<quotes, bars, provider, clock, faults>>

\* The process dies; a write it had begun is committed or rolled back.
Die ==
  /\ Fault
  /\ job.stage # "ended"
  /\ job' = Ended
  /\ latest' = {}
  /\ UNCHANGED <<quotes, bars, provider, clock>>

-----------------------------------------------------------------------------
(* refresh_watchlist.                                                      *)

\* _remember_quote
Remember(cache, q) ==
  IF \E c \in cache : c.symbol = q.symbol /\ ~RankAbove(q, c)
  THEN cache
  ELSE {c \in cache : c.symbol # q.symbol} \cup {q}

Received(q) ==
  [symbol |-> q.symbol, at |-> q.at, value |-> q.value, received |-> clock + 1]

\* Faulty variant of ReceiveQuote: published before it is persisted.
ReceiveAndPublish(q) ==
  /\ job.stage = "streaming" /\ clock < MaxClock
  /\ clock' = clock + 1
  /\ latest' = Remember(latest, Received(q))
  /\ job' = [job EXCEPT !.stage = "saving quote", !.hand = {Received(q)}]
  /\ UNCHANGED <<quotes, bars, provider, faults>>

\* anext(stream) yields a quote received now.
ReceiveQuote(q) ==
  /\ job.stage = "streaming" /\ clock < MaxClock
  /\ clock' = clock + 1
  /\ job' = [job EXCEPT !.stage = "saving quote", !.hand = {Received(q)}]
  /\ UNCHANGED <<quotes, bars, provider, faults, latest>>

\* StopAsyncIteration: on to refresh_bars.
StreamEnds ==
  /\ job.stage = "streaming"
  /\ job' = [NewCycle EXCEPT !.stage = "fetching bars"]
  /\ UNCHANGED <<quotes, bars, provider, clock, faults, latest>>

\* A transient error of the provider, or no message for the idle timeout.
StreamFails ==
  /\ Fault
  /\ job.stage = "streaming"
  /\ job' = [job EXCEPT !.stage = "recording failure", !.failures = @ + 1]
  /\ UNCHANGED <<quotes, bars, provider, clock, latest>>

\* Faulty variant of QuoteSaved: the row of the symbol is replaced.
QuoteSavedInPlace ==
  /\ job.stage = "saving quote"
  /\ \E q \in job.hand :
       /\ quotes' = {r \in quotes : r.symbol # q.symbol} \cup {q}
       /\ job' = [job EXCEPT !.stage = "recording quote",
                             !.last = LastMessage(@, q.received)]
  /\ UNCHANGED <<bars, provider, clock, faults, latest>>

\* _save_quote returns; last_message moves.
QuoteSaved ==
  /\ job.stage = "saving quote"
  /\ \E q \in job.hand :
       /\ quotes' = SaveQuote(quotes, q)
       /\ job' = [job EXCEPT !.stage = "recording quote",
                             !.last = LastMessage(@, q.received)]
  /\ UNCHANGED <<bars, provider, clock, faults, latest>>

\* Faulty variant of QuoteRecorded: reconnect_pending is not reset.
QuoteRecordedStillPending ==
  /\ job.stage = "recording quote"
  /\ provider' = RecordSuccess(provider, job.last, job.reconnecting)
  /\ \E q \in job.hand : latest' = Remember(latest, q)
  /\ job' = [job EXCEPT !.stage = "streaming", !.hand = {}, !.failures = 0]
  /\ UNCHANGED <<quotes, bars, clock, faults>>

\* _record_success returns; the quote is published in _latest.
QuoteRecorded ==
  /\ job.stage = "recording quote"
  /\ provider' = RecordSuccess(provider, job.last, job.reconnecting)
  /\ \E q \in job.hand : latest' = Remember(latest, q)
  /\ job' = [job EXCEPT !.stage = "streaming", !.hand = {},
                        !.failures = 0, !.reconnecting = FALSE]
  /\ UNCHANGED <<quotes, bars, clock, faults>>

\* record_failure returns: the stream is opened again, or the error is
\* raised out of the worker.
FailureRecorded ==
  /\ job.stage = "recording failure"
  /\ LET exhausted == job.failures >= Attempts
     IN  /\ provider' = RecordFailure(provider, exhausted, job.last)
         /\ IF exhausted
            THEN job' = Ended /\ latest' = {}
            ELSE /\ job' = [job EXCEPT !.stage = "streaming",
                                       !.reconnecting = TRUE]
                 /\ UNCHANGED latest
  /\ UNCHANGED <<quotes, bars, clock, faults>>

\* record_failure raises: MarketPersistenceError ends the worker.
FailureNotRecorded ==
  /\ Fault
  /\ job.stage \in {"recording failure", "recording bars failure"}
  /\ job' = Ended
  /\ latest' = {}
  /\ UNCHANGED <<quotes, bars, provider, clock>>

-----------------------------------------------------------------------------
(* _raise_persistence_failure, after any failed write of an observation or *)
(* of a success.                                                           *)

WriteFails ==
  /\ Fault
  /\ job.stage \in {"saving quote", "recording quote",
                    "saving bars", "recording bars"}
  /\ job' = [job EXCEPT
       !.stage = "reporting",
       !.last = CASE job.stage = "saving quote" ->
                       (CHOOSE q \in job.hand : TRUE).received
                  [] job.stage = "recording quote" -> @
                  [] job.stage = "saving bars" ->
                       IF job.hand = {} THEN NoTime
                       ELSE (CHOOSE b \in job.hand : TRUE).received
                  [] OTHER -> NoTime]
  /\ UNCHANGED <<quotes, bars, provider, clock, latest>>

\* The provider is marked unavailable and MarketPersistenceError raised.
PersistenceFailureReported ==
  /\ job.stage = "reporting"
  /\ provider' = RecordFailure(provider, TRUE, job.last)
  /\ job' = Ended
  /\ latest' = {}
  /\ UNCHANGED <<quotes, bars, clock, faults>>

\* suppress(Exception): the report fails too, the error is raised anyway.
PersistenceFailureLost ==
  /\ Fault
  /\ job.stage = "reporting"
  /\ job' = Ended
  /\ latest' = {}
  /\ UNCHANGED <<quotes, bars, provider, clock>>

-----------------------------------------------------------------------------
(* refresh_bars.                                                           *)

Symbol == Watchlist[job.position]

\* The bars a provider may return: one value per start, received together.
Batches(symbol) ==
  {{[symbol |-> b.symbol, start |-> b.start, value |-> b.value,
     final |-> b.final, received |-> clock + 1] : b \in chosen} :
     chosen \in {s \in SUBSET {b \in BarFeed : b.symbol = symbol} :
                   \A a, b \in s : a.start = b.start => a = b}}

\* provider.bars answers; past the bound it has no bars.
BarsFetched ==
  /\ job.stage = "fetching bars"
  /\ \E batch \in IF clock < MaxClock THEN Batches(Symbol) ELSE {{}} :
       /\ clock' = IF batch = {} THEN clock ELSE clock + 1
       /\ job' = [job EXCEPT !.stage = "saving bars", !.hand = batch]
  /\ UNCHANGED <<quotes, bars, provider, faults, latest>>

BarsFetchFails ==
  /\ Fault
  /\ job.stage = "fetching bars"
  /\ job' = [job EXCEPT !.stage = "recording bars failure"]
  /\ UNCHANGED <<quotes, bars, provider, clock, latest>>

\* Faulty variant of BarsFailureRecorded: one attempt too many.
BarsTriedOnceMore ==
  /\ job.stage = "recording bars failure"
  /\ LET exhausted == job.attempt = Attempts
     IN  /\ provider' = RecordFailure(provider, exhausted, NoTime)
         /\ IF exhausted
            THEN job' = Ended /\ latest' = {}
            ELSE /\ job' = [job EXCEPT !.stage = "fetching bars",
                                       !.attempt = @ + 1]
                 /\ UNCHANGED latest
  /\ UNCHANGED <<quotes, bars, clock, faults>>

\* The next attempt, or the error is raised out of the worker.
BarsFailureRecorded ==
  /\ job.stage = "recording bars failure"
  /\ LET exhausted == job.attempt = Attempts - 1
     IN  /\ provider' = RecordFailure(provider, exhausted, NoTime)
         /\ IF exhausted
            THEN job' = Ended /\ latest' = {}
            ELSE /\ job' = [job EXCEPT !.stage = "fetching bars",
                                       !.attempt = @ + 1]
                 /\ UNCHANGED latest
  /\ UNCHANGED <<quotes, bars, clock, faults>>

BarsSaved ==
  /\ job.stage = "saving bars"
  /\ bars' = SaveBars(bars, job.hand)
  /\ job' = [job EXCEPT !.stage = "recording bars", !.hand = {}]
  /\ UNCHANGED <<quotes, provider, clock, faults, latest>>

\* Faulty variant of BarsRecorded: a bar cycle is no success.
BarsNotRecorded ==
  /\ job.stage = "recording bars"
  /\ job' = IF job.position < Len(Watchlist)
            THEN [job EXCEPT !.stage = "fetching bars", !.attempt = 0,
                             !.position = @ + 1]
            ELSE NewCycle
  /\ UNCHANGED <<quotes, bars, provider, clock, faults, latest>>

\* _record_success(None, attempt > 0): the next symbol, or, after the
\* pause between polls, the next cycle.
BarsRecorded ==
  /\ job.stage = "recording bars"
  /\ provider' = RecordSuccess(provider, NoTime, job.attempt > 0)
  /\ job' = IF job.position < Len(Watchlist)
            THEN [job EXCEPT !.stage = "fetching bars", !.attempt = 0,
                             !.position = @ + 1]
            ELSE NewCycle
  /\ UNCHANGED <<quotes, bars, clock, faults, latest>>

-----------------------------------------------------------------------------
Work ==
  \/ Start
  \/ \E q \in QuoteFeed : ReceiveQuote(q)
  \/ StreamEnds
  \/ QuoteSaved
  \/ QuoteRecorded
  \/ FailureRecorded
  \/ PersistenceFailureReported
  \/ BarsFetched
  \/ BarsSaved
  \/ BarsRecorded
  \/ BarsFailureRecorded

Trouble ==
  \/ Die
  \/ StreamFails
  \/ FailureNotRecorded
  \/ WriteFails
  \/ PersistenceFailureLost
  \/ BarsFetchFails

Next == Work \/ Trouble

Spec == Init /\ [][Next]_vars

\* The worker runs and is restarted when it has ended; nothing makes a
\* fault happen.
FairSpec == Spec /\ WF_vars(Work)

-----------------------------------------------------------------------------
(* Types.                                                                  *)

Symbols == {Watchlist[n] : n \in 1 .. Len(Watchlist)}

QuoteType ==
  [symbol : {q.symbol : q \in QuoteFeed}, at : Int \cup {NoTime},
   value : {q.value : q \in QuoteFeed}, received : 1 .. MaxClock]

BarType ==
  [symbol : {b.symbol : b \in BarFeed}, start : {b.start : b \in BarFeed},
   value : {b.value : b \in BarFeed}, final : BOOLEAN,
   received : 1 .. MaxClock]

ReceiptTime == (1 .. MaxClock) \cup {NoTime}

ProviderType ==
  [status : {"healthy", "degraded", "unavailable"}, failures : Nat,
   reconnects : Nat, lastMessage : ReceiptTime]

\* NoState is no row, nor what a reader sees of one.
ASSUME NoStateAssumption ==
  /\ NoState \notin ProviderType
  /\ NoState \notin [status : {"healthy", "degraded", "unavailable"},
                    lastMessage : ReceiptTime]

Stages ==
  {"ended", "streaming", "saving quote", "recording quote",
   "recording failure", "reporting", "fetching bars", "saving bars",
   "recording bars", "recording bars failure"}

JobType ==
  [stage : Stages, hand : (SUBSET QuoteType) \cup (SUBSET BarType),
   failures : 0 .. Attempts, reconnecting : BOOLEAN, last : ReceiptTime,
   position : 1 .. Len(Watchlist), attempt : 0 .. Attempts - 1]

\* Shapes of the tables, the clock, the cache (one quote per symbol) and the
\* locals; no more attempts are made than allowed.
TypeOK ==
  /\ quotes \in SUBSET QuoteType
  /\ bars \in SUBSET BarType
  /\ provider \in ProviderType \cup {NoState}
  /\ clock \in 0 .. MaxClock
  /\ faults \in 0 .. MaxFaults
  /\ latest \in SUBSET QuoteType
  /\ \A p, q \in latest : p.symbol = q.symbol => p = q
  /\ job \in JobType

-----------------------------------------------------------------------------
(* Properties.                                                             *)

\* service.py:84: "Persists observations before projection".  A quote is in
\* _latest only if a row of its fingerprint is committed.
CacheIsDurable ==
  \A q \in latest :
    \E r \in quotes : QuoteFingerprint(r) = QuoteFingerprint(q)

\* README: "append-only corrections, point-in-time reads".  Between quotes,
\* the value _latest holds for a symbol is the value latest_quote reads.
CacheAgreesWithStore ==
  job.stage \in {"streaming", "fetching bars"} =>
    \A q \in latest :
      \E r \in QuoteAsOf(quotes, q.symbol, clock) : r.value = q.value

\* The tables are never behind the cache, with one exception: the provider
\* corrected a quote and then returned to its first value, which the
\* fingerprint takes for a duplicate.  (They may be ahead of it: a restart
\* empties the cache, and a late quote may then be the first in it.)
StoreBehindOnlyOnReversion ==
  job.stage \in {"streaming", "fetching bars"} =>
    \A q \in latest :
      \/ \E r \in QuoteAsOf(quotes, q.symbol, clock) :
           r.value = q.value \/ RankAbove(r, q)
      \/ \E r, s \in quotes :
           /\ QuoteFingerprint(r) = QuoteFingerprint(q)
           /\ s.symbol = q.symbol /\ Effective(s) = Effective(q)
           /\ r.received < s.received /\ s.received < q.received

\* A read as of t returns the same for ever once nothing received by t is
\* still in the worker's hands: later corrections, duplicates and restarts
\* never reach back.
PointInTimeStable ==
  [][\A t \in 0 .. clock :
       (\A h \in job.hand : h.received > t) =>
         \A s \in Symbols :
           /\ QuoteAsOf(quotes', s, t) = QuoteAsOf(quotes, s, t)
           /\ BarsAsOf(bars', s, t) = BarsAsOf(bars, s, t)]_vars

\* While the worker retries, the stored state says so: degraded, with at
\* least as many consecutive failures as the worker has counted, and never
\* as many as it may make.
FailuresOnRecord ==
  LET onRecord(n) == n > 0 => /\ provider # NoState
                              /\ provider.status = "degraded"
                              /\ provider.failures >= n
  IN  /\ job.stage = "streaming" =>
           /\ onRecord(job.failures)
           /\ job.failures < Attempts
           /\ job.reconnecting <=> job.failures > 0
      /\ job.stage = "fetching bars" => onRecord(job.attempt)

\* A reconnect is counted once per outage: only a success that ends a run
\* of recorded failures adds one.
ReconnectsEarned ==
  [][LET count(state) == IF state = NoState THEN 0 ELSE state.reconnects
     IN  count(provider') > count(provider) =>
           /\ provider # NoState /\ provider.failures > 0
           /\ provider'.failures = 0
           /\ provider'.reconnects = provider.reconnects + 1]_vars

\* The time of the last message is never lost or moved back, by the other
\* half of the cycle, by a failure or by a restart.
LastMessageKept ==
  [][(provider # NoState /\ provider.lastMessage # NoTime) =>
       /\ provider'.lastMessage # NoTime
       /\ provider'.lastMessage >= provider.lastMessage]_vars

\* What a reader sees of the provider_state row.
StateSeen ==
  IF provider = NoState THEN NoState
  ELSE [status |-> provider.status, lastMessage |-> provider.lastMessage]

Log == INSTANCE MarketLog WITH state <- StateSeen

\* "Append-only market observations" (market_repository.py:83): through
\* failures, retries, deaths and restarts, the worker does to the tables
\* what MarketLog allows and nothing else; an observation is never stored
\* before it is received and never altered, and no message is forgotten.
ImplementsMarketLog == Log!Spec

\* When faults stop, the provider becomes healthy and stays so: no failure
\* leaves the worker stuck or the stored state wrong for ever.
EventuallyHealthy ==
  <>[](provider # NoState /\ provider.status = "healthy")
=============================================================================
