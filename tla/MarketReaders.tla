---------------------------- MODULE MarketReaders ----------------------------
(***************************************************************************)
(* The API process answering about the market while a worker writes:       *)
(* asset_snapshot, asset_bars and provider_health of app/main.py over      *)
(* latest, bars and health of MarketDataService (app/market/service.py).   *)
(*                                                                         *)
(* With a database (durable) a read is one statement in a thread of the    *)
(* pool: the worker writes and the clock moves before and after it, and    *)
(* the answer is put together afterwards on the event loop.  The writer is *)
(* MarketLog, which the worker implements.  Without a database the API     *)
(* asks ReplayMarketDataProvider in its own process, and nothing there     *)
(* suspends, so an answer is one step.                                     *)
(*                                                                         *)
(* now is the API's clock; the writer's reads skew more.  A unit of time   *)
(* stands for as much as the properties need: Window is 15 seconds,        *)
(* BarWindow an entry of BAR_STALE_AFTER_MS, a bar lasts one unit.  One    *)
(* timeframe is modelled; requests refused for their parameters (422) and  *)
(* the signal beside a quote, a fixture, are left out.                     *)
(***************************************************************************)
EXTENDS MarketStore, FiniteSets

CONSTANTS
  QuoteFeed, BarFeed, MaxClock,   \* of MarketLog
  Requests,       \* requests that may be under way together
  Symbols,        \* symbols clients ask for
  ReplaySymbols,  \* symbols the replay provider knows
  ReplayValue,    \* the value of its quotes and bars
  Skews,          \* what the writer's clock may be ahead of the API's
  Window,         \* age from which a quote or a message is stale
  BarWindow,      \* age from which bars are stale
  Limit,          \* limit, the number of bars asked for
  MaxNow,         \* bound: the last reading of the API's clock
  MaxRows,        \* bound: observations stored
  None            \* no symbol asked for, or no answer yet

ASSUME ReaderBounds ==
  /\ MaxClock \in Nat
  /\ MaxNow \in Nat
  /\ MaxRows \in Nat
  /\ Window \in Nat
  /\ BarWindow \in Nat
  /\ Limit \in Nat
  /\ Skews \subseteq Int

ASSUME ReaderFeeds ==
  /\ NoTime \notin Int
  /\ \A q \in QuoteFeed : q.at \in Int \cup {NoTime}
  /\ \A b \in BarFeed : b.final \in BOOLEAN /\ b.start \in Int

VARIABLES
  quotes, bars, state, clock,   \* of MarketLog
  now,       \* the API's clock
  skew,      \* the writer's clock minus the API's
  durable,   \* a database is configured
  cache,     \* _latest of the API's service, as a set of quotes
  served,    \* _last_message_at of its replay provider
  request    \* the locals of each request

logVars == <<quotes, bars, state, clock>>
vars == <<quotes, bars, state, clock, now, skew, durable, cache, served, request>>

Log == INSTANCE MarketLog

\* Locals: where it is; what it asks for; what it read and when.  Beside
\* the program's: the cache and the writer's clock when it began (since,
\* begun) and the writer's clock when it read the state (heard).
Free ==
  [stage |-> "idle", symbol |-> None, asOf |-> NoTime, taken |-> 0,
   found |-> {}, row |-> NoState, since |-> {}, begun |-> 0, heard |-> 0,
   answer |-> None]

Init ==
  /\ Log!Init
  /\ now = 0
  /\ durable \in BOOLEAN
  /\ skew \in IF durable THEN Skews ELSE {0}
  /\ cache = {}
  /\ served = NoTime
  /\ request = [r \in Requests |-> Free]

Tick ==
  /\ now < MaxNow
  /\ now' = now + 1
  /\ UNCHANGED <<logVars, skew, durable, cache, served, request>>

\* The API process ends and is started again.
RestartApi ==
  /\ cache' = {}
  /\ served' = NoTime
  /\ request' = [r \in Requests |-> Free]
  /\ UNCHANGED <<logVars, now, skew, durable>>

\* The writer: what it receives it receives now, by its own clock.
Write ==
  /\ durable
  /\ \/ Log!Receive(now + skew)
     \/ /\ Cardinality(quotes) + Cardinality(bars) < MaxRows
        /\ \/ \E q \in QuoteFeed, t \in 1 .. clock : Log!StoreQuote(q, t)
           \/ \E batch \in SUBSET BarFeed, t \in 1 .. clock :
                Log!StoreBars(batch, t)
     \/ \E status \in Log!Statuses, last \in (1 .. clock) \cup {NoTime} :
          Log!Report(status, last)
  /\ UNCHANGED <<now, skew, durable, cache, served, request>>

-----------------------------------------------------------------------------
(* GET /api/v1/assets/{symbol}/snapshot: latest, quote_freshness_ms.       *)

Set(r, record) == request' = [request EXCEPT ![r] = record]

\* A time is fresh at ref: not ahead of it, and not older than window.
Fresh(time, ref, window) == time <= ref /\ ref - time <= window

QuoteAnswer(found, fresh) == [kind |-> "quote", items |-> found, fresh |-> fresh]

\* freshness is taken at as_of, or at the clock, of the quote answered
Reference(asOf) == IF asOf = NoTime THEN now ELSE asOf

\* _remember_quote
Remember(q) ==
  IF \E c \in cache : c.symbol = q.symbol /\ ~RankAbove(q, c)
  THEN cache
  ELSE {c \in cache : c.symbol # q.symbol} \cup {q}

AskQuote(r, symbol, asOf) ==
  /\ durable
  /\ request[r].stage = "idle"
  /\ Set(r, [Free EXCEPT !.stage = "reading quote", !.symbol = symbol,
                         !.asOf = asOf, !.since = cache])
  /\ UNCHANGED <<logVars, now, skew, durable, cache, served>>

\* Faulty variant of StoredQuotes: as_of is compared with the market time.
StoredQuotesByMarketTime(symbol, asOf) ==
  LET known == {q \in quotes : /\ q.symbol = symbol
                               /\ asOf # NoTime => Effective(q) <= asOf}
  IN  {q \in known : \A p \in known : ~RankAbove(p, q)}

\* latest_quote(symbol, as_of); without as_of nothing is left out.
StoredQuotes(symbol, asOf) ==
  QuoteAsOf(quotes, symbol, IF asOf = NoTime THEN clock ELSE asOf)

\* The statement runs; of rows of equal rank it returns one.
ReadQuote(r) ==
  /\ request[r].stage = "reading quote"
  /\ LET stored == StoredQuotes(request[r].symbol, request[r].asOf)
     IN  \E found \in IF stored = {} THEN {{}} ELSE {{q} : q \in stored} :
           Set(r, [request[r] EXCEPT !.stage = "quote read", !.found = found])
  /\ UNCHANGED <<logVars, now, skew, durable, cache, served>>

\* Back on the event loop: 503 without a quote, else the quote is
\* remembered and its age taken.
AnswerQuote(r) ==
  /\ request[r].stage = "quote read"
  /\ LET found == request[r].found
         ref   == Reference(request[r].asOf)
         fresh == \E q \in found : Fresh(Effective(q), ref, Window)
     IN  /\ cache' = IF found = {} THEN cache
                     ELSE Remember(CHOOSE q \in found : TRUE)
         /\ Set(r, [request[r] EXCEPT !.stage = "answered", !.taken = now,
                                      !.answer = QuoteAnswer(found, fresh)])
  /\ UNCHANGED <<logVars, now, skew, durable, served>>

\* Without a database: the replay provider's quote of this instant,
\* whatever as_of says; 404 for a symbol it does not know.
AnswerReplayQuote(r, symbol, asOf) ==
  /\ ~durable
  /\ request[r].stage = "idle"
  /\ LET q     == [symbol |-> symbol, at |-> now, value |-> ReplayValue,
                   received |-> now]
         known == symbol \in ReplaySymbols
     IN  /\ served' = IF known THEN now ELSE served
         /\ cache' = IF known THEN Remember(q) ELSE cache
         /\ Set(r, [Free EXCEPT
              !.stage = "answered", !.symbol = symbol, !.asOf = asOf,
              !.taken = now, !.since = cache,
              !.answer = IF known
                         THEN QuoteAnswer({q}, Fresh(now, Reference(asOf), Window))
                         ELSE QuoteAnswer({}, FALSE)])
  /\ UNCHANGED <<logVars, now, skew, durable>>

-----------------------------------------------------------------------------
(* GET /api/v1/assets/{symbol}/bars: bars, bar_freshness_ms.               *)

BarEnd(b) == b.start + 1

BarsAnswer(found, ref) ==
  [kind  |-> "bars",
   items |-> found,
   fresh |-> \E b \in found : /\ Fresh(BarEnd(b), ref, BarWindow)
                              /\ \A c \in found : c.start <= b.start]

\* Faulty variant of OnePerStart: seen_starts is not consulted.
OnePerStartAll(set) == {set}

\* Of bars of one start received together, one is returned.
OnePerStart(set) ==
  {s \in SUBSET set :
     /\ \A a, b \in s : a.start = b.start => a = b
     /\ \A b \in set : \E a \in s : a.start = b.start}

Newest(set) == {b \in set : Cardinality({c \in set : c.start > b.start}) < Limit}

AskBars(r, symbol, asOf) ==
  /\ durable
  /\ request[r].stage = "idle"
  /\ Set(r, [Free EXCEPT !.stage = "reading bars", !.symbol = symbol,
                         !.asOf = asOf])
  /\ UNCHANGED <<logVars, now, skew, durable, cache, served>>

ReadBars(r) ==
  /\ request[r].stage = "reading bars"
  /\ LET asOf   == request[r].asOf
         stored == BarsAsOf(bars, request[r].symbol,
                            IF asOf = NoTime THEN clock ELSE asOf)
     IN  \E found \in OnePerStart(stored) :
           Set(r, [request[r] EXCEPT !.stage = "bars read",
                                     !.found = Newest(found)])
  /\ UNCHANGED <<logVars, now, skew, durable, cache, served>>

AnswerBars(r) ==
  /\ request[r].stage = "bars read"
  /\ Set(r, [request[r] EXCEPT
       !.stage = "answered", !.taken = now,
       !.answer = BarsAnswer(request[r].found, Reference(request[r].asOf))])
  /\ UNCHANGED <<logVars, now, skew, durable, cache, served>>

\* Without a database: the bars that end by now, received now.
AnswerReplayBars(r, symbol, asOf) ==
  /\ ~durable
  /\ request[r].stage = "idle"
  /\ LET made == IF symbol \in ReplaySymbols
                 THEN {[symbol |-> symbol, start |-> t, value |-> ReplayValue,
                        final |-> TRUE, received |-> now] :
                         t \in now - Limit .. now - 1}
                 ELSE {}
     IN  Set(r, [Free EXCEPT
           !.stage = "answered", !.symbol = symbol, !.asOf = asOf,
           !.taken = now, !.answer = BarsAnswer(made, Reference(asOf))])
  /\ UNCHANGED <<logVars, now, skew, durable, cache, served>>

-----------------------------------------------------------------------------
(* GET /api/v1/providers/health: health.                                   *)

HealthAnswer(status, ahead) == [kind |-> "health", status |-> status, ahead |-> ahead]

\* Faulty variant of Judged: an old message makes any status degraded.
JudgedByAge(row, taken) ==
  CASE row = NoState -> HealthAnswer("unavailable", FALSE)
    [] row # NoState /\ row.lastMessage # NoTime /\ row.lastMessage > taken ->
         HealthAnswer("degraded", TRUE)
    [] row # NoState /\ row.lastMessage # NoTime
         /\ Fresh(row.lastMessage, taken, Window) ->
         HealthAnswer(row.status, FALSE)
    [] OTHER -> HealthAnswer("degraded", FALSE)

\* The stored status, lowered to degraded without a recent message; a
\* message ahead of the clock is degraded before the status is looked at.
Judged(row, taken) ==
  CASE row = NoState -> HealthAnswer("unavailable", FALSE)
    [] row # NoState /\ row.lastMessage # NoTime /\ row.lastMessage > taken ->
         HealthAnswer("degraded", TRUE)
    [] row # NoState /\ row.lastMessage # NoTime
         /\ Fresh(row.lastMessage, taken, Window) ->
         HealthAnswer(row.status, FALSE)
    [] OTHER ->
         HealthAnswer(IF row.status = "unavailable" THEN "unavailable"
                      ELSE "degraded", FALSE)

\* The clock is read first.
AskHealth(r) ==
  /\ durable
  /\ request[r].stage = "idle"
  /\ Set(r, [Free EXCEPT !.stage = "reading state", !.taken = now,
                         !.begun = clock])
  /\ UNCHANGED <<logVars, now, skew, durable, cache, served>>

\* provider_state returns; the answer is made with the earlier reading.
AnswerHealth(r) ==
  /\ request[r].stage = "reading state"
  /\ Set(r, [request[r] EXCEPT
       !.stage = "answered", !.row = state, !.heard = clock,
       !.answer = Judged(state, request[r].taken)])
  /\ UNCHANGED <<logVars, now, skew, durable, cache, served>>

\* Without a database: health of the replay provider.
AnswerReplayHealth(r) ==
  /\ ~durable
  /\ request[r].stage = "idle"
  /\ LET recent == served # NoTime /\ now - served <= Window
     IN  Set(r, [Free EXCEPT
           !.stage = "answered", !.taken = now,
           !.answer = HealthAnswer(IF recent THEN "healthy" ELSE "degraded",
                                   FALSE)])
  /\ UNCHANGED <<logVars, now, skew, durable, cache, served>>

-----------------------------------------------------------------------------
\* The response is sent.
Release(r) ==
  /\ request[r].stage = "answered"
  /\ Set(r, Free)
  /\ UNCHANGED <<logVars, now, skew, durable, cache, served>>

AsOfs == (0 .. MaxNow) \cup {NoTime}

Ask(r) ==
  \/ \E s \in Symbols, t \in AsOfs :
       \/ AskQuote(r, s, t)
       \/ AnswerReplayQuote(r, s, t)
       \/ AskBars(r, s, t)
       \/ AnswerReplayBars(r, s, t)
  \/ AskHealth(r)
  \/ AnswerReplayHealth(r)

Serve(r) ==
  \/ ReadQuote(r)
  \/ AnswerQuote(r)
  \/ ReadBars(r)
  \/ AnswerBars(r)
  \/ AnswerHealth(r)
  \/ Release(r)

Next ==
  \/ Tick
  \/ RestartApi
  \/ Write
  \/ \E r \in Requests : Ask(r) \/ Serve(r)

Spec == Init /\ [][Next]_vars

-----------------------------------------------------------------------------
(* Types.                                                                  *)

ReceiptTimes == (1 .. MaxClock) \cup {NoTime}

StateType ==
  [status : Log!Statuses, lastMessage : ReceiptTimes] \cup {NoState}

StoredQuoteType ==
  [symbol : {q.symbol : q \in QuoteFeed}, at : Int \cup {NoTime},
   value : {q.value : q \in QuoteFeed}, received : 1 .. MaxClock]

StoredBarType ==
  [symbol : {b.symbol : b \in BarFeed}, start : Int,
   value : {b.value : b \in BarFeed}, final : BOOLEAN,
   received : 1 .. MaxClock]

ReplayQuoteType ==
  [symbol : ReplaySymbols, at : 0 .. MaxNow, value : {ReplayValue},
   received : 0 .. MaxNow]

ReplayBarType ==
  [symbol : ReplaySymbols, start : Int, value : {ReplayValue},
   final : {TRUE}, received : 0 .. MaxNow]

AnyQuotes == SUBSET (StoredQuoteType \cup ReplayQuoteType)
AnyBars == SUBSET (StoredBarType \cup ReplayBarType)

QuoteOrNone == {s \in AnyQuotes : \A p, q \in s : p = q}
BarsByStart == {s \in AnyBars : \A a, b \in s : a.start = b.start => a = b}

AnswerType ==
  [kind : {"quote"}, items : QuoteOrNone, fresh : BOOLEAN]
    \cup [kind : {"bars"}, items : BarsByStart, fresh : BOOLEAN]
    \cup [kind : {"health"}, status : Log!Statuses, ahead : BOOLEAN]

Stages ==
  {"idle", "reading quote", "quote read", "reading bars", "bars read",
   "reading state", "answered"}

RequestType ==
  [stage : Stages, symbol : Symbols \cup {None}, asOf : AsOfs,
   taken : 0 .. MaxNow, found : QuoteOrNone \cup BarsByStart, row : StateType,
   since : AnyQuotes, begun : 0 .. MaxClock, heard : 0 .. MaxClock,
   answer : AnswerType \cup {None}]

\* Shapes of the tables, the clocks, the cache (one quote per symbol) and the
\* requests; what is read and answered is at most one quote, or bars of
\* different starts, however many observations of a start are stored.
TypeOK ==
  /\ quotes \in SUBSET StoredQuoteType
  /\ bars \in SUBSET StoredBarType
  /\ state \in StateType
  /\ clock \in 0 .. MaxClock
  /\ now \in 0 .. MaxNow
  /\ skew \in Int
  /\ durable \in BOOLEAN
  /\ cache \in AnyQuotes
  /\ \A p, q \in cache : p.symbol = q.symbol => p = q
  /\ served \in (0 .. MaxNow) \cup {NoTime}
  /\ request \in [Requests -> RequestType]

-----------------------------------------------------------------------------
(* Properties.                                                             *)

Answered(r, kind) ==
  request[r].stage = "answered" /\ request[r].answer.kind = kind

\* main.py:146 serves "append-only corrections" (README.md:7): what one
\* request was shown, no later one goes back behind.  A request without
\* as_of that began when _latest held a quote answers that quote or a later
\* one, never an older one and never 503, although late quotes are stored,
\* historical requests fill _latest and the worker restarts in between.
AnswersNeverGoBack ==
  \A r \in Requests :
    Answered(r, "quote") /\ request[r].asOf = NoTime =>
      \A c \in request[r].since :
        c.symbol = request[r].symbol =>
          \E q \in request[r].answer.items :
            \/ Effective(q) > Effective(c)
            \/ Effective(q) = Effective(c) /\ q.received >= c.received

\* service.py:84: "point-in-time-safe reads".  An answer as of t shows
\* nothing received after t.  Without a database as_of is not looked at;
\* the quote answered is then received later, and marked stale.
NoLookAhead ==
  \A r \in Requests :
    /\ Answered(r, "quote") /\ request[r].asOf # NoTime =>
         \A q \in request[r].answer.items :
           \/ q.received <= request[r].asOf
           \/ ~durable /\ ~request[r].answer.fresh
    /\ durable /\ Answered(r, "bars") /\ request[r].asOf # NoTime =>
         \A b \in request[r].answer.items : b.received <= request[r].asOf

\* A quote answered as not stale was made by the market at most Window
\* before the time it was asked for and not after it, whatever was received
\* recently, read by other requests or answered meanwhile.
FreshIsRecent ==
  \A r \in Requests :
    Answered(r, "quote") /\ request[r].answer.fresh =>
      LET ref == IF request[r].asOf = NoTime THEN request[r].taken
                 ELSE request[r].asOf
      IN  /\ request[r].answer.items # {}
          /\ \A q \in request[r].answer.items : Effective(q) \in ref - Window .. ref

\* as_of answers and the staleness beside them can be trusted.
AnswersHonest == NoLookAhead /\ FreshIsRecent

\* Healthy is answered only if the worker did receive something at most
\* Window before the request (by its clock) and its last record was a
\* success: a worker that died, hangs or cannot write is noticed.  An
\* unavailable provider is never answered better, except when its last
\* message is ahead; and that takes a worker's clock ahead of the API's, or
\* a message that arrives while the request reads the state, for the API
\* read its clock first.
HealthHonest ==
  \A r \in Requests :
    durable /\ Answered(r, "health") =>
      LET q == request[r]
      IN  /\ q.answer.status = "healthy" =>
               /\ q.row # NoState /\ q.row.status = "healthy"
               /\ q.taken - q.heard <= Window
          /\ q.row # NoState /\ q.row.status = "unavailable" =>
               q.answer.status = "unavailable" \/ q.answer.ahead
          /\ q.answer.ahead => skew > 0 \/ q.heard > q.begun
=============================================================================
