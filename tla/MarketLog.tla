------------------------------ MODULE MarketLog ------------------------------
(***************************************************************************)
(* What the readers of the market tables may rely on, whoever writes them: *)
(* observations are stored some time after they were received and never    *)
(* change, and the provider state is a status with the time of the newest  *)
(* message reported so far.  A write may come late and out of order: a     *)
(* thread of the pool finishes it although its caller was cancelled        *)
(* (asyncio.to_thread in app/market/service.py).                           *)
(*                                                                         *)
(* MarketIngestion is shown to implement this module; MarketReaders is     *)
(* built on it.  Of the provider_state row only what readers see is kept.  *)
(***************************************************************************)
EXTENDS MarketStore

CONSTANTS
  QuoteFeed,   \* what the provider may stream: symbol, at, value
  BarFeed,     \* what it may return as bars: symbol, start, value, final
  MaxClock     \* bound: the last reading of the writer's clock

VARIABLES
  quotes,   \* market_quote_observations
  bars,     \* market_bar_observations
  state,    \* status and lastMessage of provider_state, or NoState
  clock     \* the writer's clock when it last received something

logVars == <<quotes, bars, state, clock>>

Statuses == {"healthy", "degraded", "unavailable"}

Init ==
  /\ quotes = {}
  /\ bars = {}
  /\ state = NoState
  /\ clock = 0

\* Something is received at time t.
Receive(t) ==
  /\ t \in clock + 1 .. MaxClock
  /\ clock' = t
  /\ UNCHANGED <<quotes, bars, state>>

ObservedQuote(q, t) ==
  [symbol |-> q.symbol, at |-> q.at, value |-> q.value, received |-> t]

\* A quote received at t, or again at t, is stored now.
StoreQuote(q, t) ==
  /\ quotes' = SaveQuote(quotes, ObservedQuote(q, t))
  /\ UNCHANGED <<bars, state, clock>>

ObservedBars(batch, t) ==
  {[symbol |-> b.symbol, start |-> b.start, value |-> b.value,
    final |-> b.final, received |-> t] : b \in batch}

\* Bars received together at t are stored now, in one transaction.
StoreBars(batch, t) ==
  /\ bars' = SaveBars(bars, ObservedBars(batch, t))
  /\ UNCHANGED <<quotes, state, clock>>

\* A success or a failure is recorded, with the last message its writer knows.
Report(status, last) ==
  /\ state' = [status |-> status,
               lastMessage |-> IF state = NoState THEN last
                               ELSE LastMessage(state.lastMessage, last)]
  /\ UNCHANGED <<quotes, bars, clock>>

Next ==
  \/ \E t \in clock + 1 .. MaxClock : Receive(t)
  \/ \E q \in QuoteFeed, t \in 1 .. clock : StoreQuote(q, t)
  \/ \E batch \in SUBSET BarFeed, t \in 1 .. clock : StoreBars(batch, t)
  \/ \E status \in Statuses, last \in (1 .. clock) \cup {NoTime} :
       Report(status, last)

Spec == Init /\ [][Next]_logVars
=============================================================================
