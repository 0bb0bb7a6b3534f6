----------------------------- MODULE MarketStore -----------------------------
(***************************************************************************)
(* The market tables and their operations: SqlMarketRepository,            *)
(* app/db/market_repository.py.  No variables.                             *)
(*                                                                         *)
(* A quote keeps its symbol, provider timestamp (at, NoTime when absent),  *)
(* receipt time and value, which stands for native id, bid, ask and last.  *)
(* A bar keeps its symbol, start, value (prices, volume, end), is_final    *)
(* and receipt time.  There is one provider; observation and trace ids and *)
(* processing times are not kept.  The processing time and the digest only *)
(* order rows of equal market and receipt times: the readers below return  *)
(* a set, with more than one element only for such rows.                   *)
(***************************************************************************)
EXTENDS Integers

CONSTANTS
  NoTime,    \* a timestamp that is None
  NoState    \* the provider has no provider_state row

-----------------------------------------------------------------------------
(* Observations.                                                           *)

\* provider_timestamp or received_at
Effective(q) == IF q.at # NoTime THEN q.at ELSE q.received

\* Faulty variant of QuoteFingerprint: the value is not part of it.
QuoteFingerprintByTime(q) == <<q.symbol, Effective(q)>>

\* quote_fingerprint: the receipt time counts only without a provider time.
QuoteFingerprint(q) == <<q.symbol, Effective(q), q.value>>

\* bar_fingerprint
BarFingerprint(b) == <<b.symbol, b.start, b.value, b.final>>

\* Faulty variant of SaveQuote: a repeated observation renews the receipt.
SaveQuoteUpsert(quotes, q) ==
  {r \in quotes : QuoteFingerprint(r) # QuoteFingerprint(q)} \cup {q}

\* save_quote: a row unless its fingerprint is stored.
SaveQuote(quotes, q) ==
  IF \E r \in quotes : QuoteFingerprint(r) = QuoteFingerprint(q)
  THEN quotes
  ELSE quotes \cup {q}

\* save_bars: the same for each bar of a batch, in one transaction.
SaveBars(bars, batch) ==
  bars \cup {b \in batch :
               \A r \in bars : BarFingerprint(r) # BarFingerprint(b)}

\* Faulty variant of RankAbove: the quote received last is the latest.
RankAboveByReceipt(p, q) == p.received > q.received

\* MarketDataService._quote_rank and the ORDER BY of latest_quote.
RankAbove(p, q) ==
  \/ Effective(p) > Effective(q)
  \/ Effective(p) = Effective(q) /\ p.received > q.received

\* latest_quote(symbol, as_of), over any table of quotes.
QuoteAsOf(quotes, symbol, asOf) ==
  LET known == {q \in quotes : q.symbol = symbol /\ q.received <= asOf}
  IN  {q \in known : \A p \in known : ~RankAbove(p, q)}

\* bars(symbol, as_of, final_only): the last received final bar per start.
BarsAsOf(bars, symbol, asOf) ==
  LET known == {b \in bars : b.symbol = symbol /\ b.final /\ b.received <= asOf}
  IN  {b \in known :
         \A c \in known : c.start = b.start => c.received <= b.received}

-----------------------------------------------------------------------------
(* The provider_state row.                                                 *)

\* The newer of the stored and the reported last message.
LastMessage(stored, reported) ==
  IF reported # NoTime /\ (stored = NoTime \/ reported > stored)
  THEN reported ELSE stored

\* Faulty variant of RecordSuccess: the reported last message is stored.
RecordSuccessForgets(state, reported, reconnected) ==
  [status      |-> "healthy",
   failures    |-> 0,
   reconnects  |-> (IF state = NoState THEN 0 ELSE state.reconnects)
                     + (IF reconnected THEN 1 ELSE 0),
   lastMessage |-> reported]

RecordSuccess(state, reported, reconnected) ==
  [status      |-> "healthy",
   failures    |-> 0,
   reconnects  |-> (IF state = NoState THEN 0 ELSE state.reconnects)
                     + (IF reconnected THEN 1 ELSE 0),
   lastMessage |-> IF state = NoState THEN reported
                   ELSE LastMessage(state.lastMessage, reported)]

\* Faulty variant of RecordFailure: consecutive failures are not counted.
RecordFailureOnce(state, exhausted, reported) ==
  [status      |-> IF exhausted THEN "unavailable" ELSE "degraded",
   failures    |-> 1,
   reconnects  |-> IF state = NoState THEN 0 ELSE state.reconnects,
   lastMessage |-> IF state = NoState THEN reported
                   ELSE LastMessage(state.lastMessage, reported)]

RecordFailure(state, exhausted, reported) ==
  [status      |-> IF exhausted THEN "unavailable" ELSE "degraded",
   failures    |-> IF state = NoState THEN 1 ELSE state.failures + 1,
   reconnects  |-> IF state = NoState THEN 0 ELSE state.reconnects,
   lastMessage |-> IF state = NoState THEN reported
                   ELSE LastMessage(state.lastMessage, reported)]
=============================================================================
