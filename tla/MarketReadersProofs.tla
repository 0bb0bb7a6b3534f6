------------------------- MODULE MarketReadersProofs -------------------------
(***************************************************************************)
(* What the market routes answer, for any number of concurrent requests,   *)
(* any feed, any clocks and any moment at which the worker writes.         *)
(***************************************************************************)
EXTENDS MarketReaders, TLAPS

-----------------------------------------------------------------------------
(* The inductive invariant.                                                *)

\* Nothing stored was received after the writer's clock, nor the writer's
\* clock ahead of the API's by more than skew.
Received ==
  /\ \A q \in quotes : q.received <= clock
  /\ state # NoState /\ state.lastMessage # NoTime => state.lastMessage <= clock
  /\ clock = 0 \/ clock <= now + skew

\* Each symbol with quotes has one that no other is ranked above.
HasTop ==
  \A s : (\E q \in quotes : q.symbol = s) =>
           \E q \in quotes :
             q.symbol = s /\ \A p \in quotes : p.symbol = s => ~RankAbove(p, q)

\* _latest holds stored quotes, or those the replay provider made.
Held ==
  /\ durable => cache \subseteq quotes
  /\ ~durable =>
       \A c \in cache :
         c \in ReplayQuoteType /\ c.at = c.received /\ c.received <= now

Later(q, c) ==
  \/ Effective(q) > Effective(c)
  \/ Effective(q) = Effective(c) /\ q.received >= c.received

\* Among the items is one not behind what the request began with.
NotBehind(q, items) ==
  q.asOf = NoTime =>
    \A c \in q.since : c.symbol = q.symbol => \E f \in items : Later(f, c)

\* Nothing among the items was received after as_of.
NotAhead(q, items) == q.asOf # NoTime => \A f \in items : f.received <= q.asOf

\* A request between its steps.
GoodReading(q) ==
  /\ q.stage = "reading quote" => durable /\ q.since \subseteq quotes
  /\ q.stage = "quote read" =>
       /\ durable
       /\ q.found \subseteq quotes
       /\ \A a, b \in q.found : a = b
       /\ NotAhead(q, q.found)
       /\ NotBehind(q, q.found)
  /\ q.stage = "reading bars" => durable
  /\ q.stage = "bars read" =>
       durable /\ q.found \in BarsByStart /\ NotAhead(q, q.found)
  /\ q.stage = "reading state" => q.begun = 0 \/ q.begun <= q.taken + skew

\* What the properties say of the answer to one request.
GoodQuote(q) ==
  /\ NotBehind(q, q.answer.items)
  /\ NotAhead(q, q.answer.items) \/ (~durable /\ ~q.answer.fresh)
  /\ q.answer.fresh =>
       LET ref == IF q.asOf = NoTime THEN q.taken ELSE q.asOf
       IN  /\ q.answer.items # {}
           /\ \A f \in q.answer.items : Effective(f) \in ref - Window .. ref

GoodHealth(q) ==
  /\ q.answer.status = "healthy" =>
       /\ q.row # NoState /\ q.row.status = "healthy"
       /\ q.taken - q.heard <= Window
  /\ q.row # NoState /\ q.row.status = "unavailable" =>
       q.answer.status = "unavailable" \/ q.answer.ahead
  /\ q.answer.ahead => skew > 0 \/ q.heard > q.begun

GoodAnswer(q) ==
  q.stage = "answered" =>
    /\ q.answer.kind = "quote" => GoodQuote(q)
    /\ durable /\ q.answer.kind = "bars" => NotAhead(q, q.answer.items)
    /\ durable /\ q.answer.kind = "health" => GoodHealth(q)

Good(q) == GoodReading(q) /\ GoodAnswer(q)

RInv ==
  /\ TypeOK
  /\ Received
  /\ HasTop
  /\ Held
  /\ \A r \in Requests : Good(request[r])

-----------------------------------------------------------------------------
(* The operators.                                                          *)

\* A quote of either kind has a market time; a stored one was received.
LEMMA QuoteTimes ==
  /\ \A q \in StoredQuoteType : Effective(q) \in Int /\ q.received \in Nat
  /\ \A q \in ReplayQuoteType :
       Effective(q) = q.at /\ Effective(q) \in Int /\ q.received \in Nat
BY ReaderBounds, ReaderFeeds DEF StoredQuoteType, ReplayQuoteType, Effective

\* An idle request has nothing to be held to.
LEMMA FreeGood ==
  /\ Free \in RequestType
  /\ Good(Free)
<1>1. Free \in RequestType
  BY ReaderBounds DEF Free, RequestType, AsOfs, Stages, StateType, QuoteOrNone, AnyQuotes
<1>2. Free.stage = "idle"
  BY DEF Free
<1> QED BY <1>1, <1>2 DEF Good, GoodReading, GoodAnswer

\* What is good of a request stays so while quotes are added.
LEMMA GoodStays ==
  ASSUME NEW q, Good(q), quotes \subseteq quotes', durable' = durable, skew' = skew
  PROVE  Good(q)'
BY DEF Good, GoodReading, GoodAnswer, GoodQuote, GoodHealth

\* The cases of health, one by one.
LEMMA JudgedCases ==
  ASSUME NEW row \in StateType, NEW taken \in Nat
  PROVE  LET ahead == row.lastMessage # NoTime /\ row.lastMessage > taken
             fresh == row.lastMessage # NoTime /\ Fresh(row.lastMessage, taken, Window)
         IN  /\ row = NoState => Judged(row, taken) = HealthAnswer("unavailable", FALSE)
             /\ row # NoState /\ ahead =>
                  Judged(row, taken) = HealthAnswer("degraded", TRUE)
             /\ row # NoState /\ fresh =>
                  Judged(row, taken) = HealthAnswer(row.status, FALSE)
             /\ row # NoState /\ ~ahead /\ ~fresh =>
                  Judged(row, taken) =
                    HealthAnswer(IF row.status = "unavailable" THEN "unavailable"
                                 ELSE "degraded", FALSE)
<1>1. row # NoState /\ row.lastMessage # NoTime /\ row.lastMessage > taken
        => ~Fresh(row.lastMessage, taken, Window)
  BY ReaderBounds DEF StateType, ReceiptTimes, Fresh
<1> QED BY <1>1, Zenon DEF Judged

\* Health is a status, healthy only after a recent message, unavailable if
\* that is recorded and no message is ahead of the clock.
LEMMA JudgedHonest ==
  ASSUME NEW row \in StateType, NEW taken \in Nat,
         NEW j, j = Judged(row, taken)
  PROVE  /\ j \in [kind : {"health"}, status : Log!Statuses, ahead : BOOLEAN]
         /\ j.status = "healthy" =>
              /\ row # NoState /\ row.status = "healthy"
              /\ row.lastMessage # NoTime /\ taken - row.lastMessage <= Window
         /\ row # NoState /\ row.status = "unavailable" =>
              j.status = "unavailable" \/ j.ahead
         /\ j.ahead => /\ row # NoState /\ row.lastMessage # NoTime
                       /\ row.lastMessage > taken
<1> DEFINE ahead == row.lastMessage # NoTime /\ row.lastMessage > taken
           fresh == row.lastMessage # NoTime /\ Fresh(row.lastMessage, taken, Window)
           lowered == IF row.status = "unavailable" THEN "unavailable" ELSE "degraded"
<1>2. /\ row = NoState => j = HealthAnswer("unavailable", FALSE)
      /\ row # NoState /\ ahead => j = HealthAnswer("degraded", TRUE)
      /\ row # NoState /\ fresh => j = HealthAnswer(row.status, FALSE)
      /\ row # NoState /\ ~ahead /\ ~fresh => j = HealthAnswer(lowered, FALSE)
  BY JudgedCases
<1>3. /\ row # NoState => row.status \in Log!Statuses
      /\ lowered \in Log!Statuses /\ "degraded" \in Log!Statuses
      /\ "unavailable" \in Log!Statuses
  BY DEF StateType, Log!Statuses
<1>4. fresh => taken - row.lastMessage <= Window
  BY DEF Fresh
<1>5. ahead => row.lastMessage # NoTime /\ row.lastMessage > taken
  OBVIOUS
<1>6. fresh => row.lastMessage # NoTime
  OBVIOUS
<1>7. lowered # "healthy" /\ (row.status = "unavailable" => lowered = "unavailable")
  OBVIOUS
<1>8. \A st \in Log!Statuses :
        /\ HealthAnswer(st, TRUE) \in [kind : {"health"}, status : Log!Statuses, ahead : BOOLEAN]
        /\ HealthAnswer(st, FALSE) \in [kind : {"health"}, status : Log!Statuses, ahead : BOOLEAN]
        /\ HealthAnswer(st, TRUE).status = st /\ HealthAnswer(st, FALSE).status = st
  BY DEF HealthAnswer
<1>b. \A st : HealthAnswer(st, TRUE).ahead /\ ~HealthAnswer(st, FALSE).ahead
  BY DEF HealthAnswer
<1>9. \/ row = NoState /\ j = HealthAnswer("unavailable", FALSE)
      \/ /\ row # NoState /\ row.lastMessage # NoTime /\ row.lastMessage > taken
         /\ j = HealthAnswer("degraded", TRUE)
      \/ /\ row # NoState /\ row.lastMessage # NoTime
         /\ taken - row.lastMessage <= Window
         /\ j = HealthAnswer(row.status, FALSE)
      \/ row # NoState /\ j = HealthAnswer(lowered, FALSE)
  BY <1>2, <1>4
<1>10. CASE row = NoState /\ j = HealthAnswer("unavailable", FALSE)
  <2>2. /\ j \in [kind : {"health"}, status : Log!Statuses, ahead : BOOLEAN]
        /\ j.status = "unavailable"
    BY <1>3, <1>8, <1>10
  <2>3. ~j.ahead
    BY <1>b, <1>10
  <2> QED BY <1>10, <2>2, <2>3
<1>11. CASE /\ row # NoState /\ row.lastMessage # NoTime /\ row.lastMessage > taken
            /\ j = HealthAnswer("degraded", TRUE)
  <2>1. "degraded" \in Log!Statuses
    BY <1>3, <1>11
  <2>2. /\ j \in [kind : {"health"}, status : Log!Statuses, ahead : BOOLEAN]
        /\ j.status = "degraded"
    BY <1>8, <1>11, <2>1
  <2>3. j.ahead
    BY <1>b, <1>11
  <2> QED BY <1>11, <2>2, <2>3
<1>12. CASE /\ row # NoState /\ row.lastMessage # NoTime
            /\ taken - row.lastMessage <= Window
            /\ j = HealthAnswer(row.status, FALSE)
  <2>1. row.status \in Log!Statuses
    BY <1>3, <1>12
  <2>2. /\ j \in [kind : {"health"}, status : Log!Statuses, ahead : BOOLEAN]
        /\ j.status = row.status
    BY <1>8, <1>12, <2>1
  <2>3. ~j.ahead
    BY <1>b, <1>12
  <2> QED BY <1>12, <2>2, <2>3
<1>13. CASE row # NoState /\ j = HealthAnswer(lowered, FALSE)
  <2> HIDE DEF lowered
  <2>1. lowered \in Log!Statuses
    BY <1>3, <1>13
  <2>2. /\ j \in [kind : {"health"}, status : Log!Statuses, ahead : BOOLEAN]
        /\ j.status = lowered
    BY <1>8, <1>13, <2>1
  <2>3. ~j.ahead
    BY <1>b, <1>13
  <2> QED BY <1>13, <1>7, <2>2, <2>3
<1> QED BY <1>9, <1>10, <1>11, <1>12, <1>13

\* Storing a quote leaves one on top.
LEMMA SaveKeepsTop ==
  ASSUME TypeOK, HasTop, NEW o \in StoredQuoteType, quotes' = quotes \cup {o}
  PROVE  HasTop'
<1>1. \A q \in quotes' : Effective(q) \in Int /\ q.received \in Int
  BY QuoteTimes DEF TypeOK
<1> SUFFICES ASSUME NEW s, NEW x \in quotes', x.symbol = s
             PROVE  \E q \in quotes' :
                      q.symbol = s /\ \A p \in quotes' : p.symbol = s => ~RankAbove(p, q)
  BY DEF HasTop
<1>2. CASE \E q \in quotes : q.symbol = s
  <2>1. PICK q \in quotes :
          q.symbol = s /\ \A p \in quotes : p.symbol = s => ~RankAbove(p, q)
    BY <1>2 DEF HasTop
  <2>2. CASE o.symbol = s /\ RankAbove(o, q)
    BY <1>1, <2>1, <2>2 DEF RankAbove
  <2>3. CASE ~ (o.symbol = s /\ RankAbove(o, q))
    BY <2>1, <2>3
  <2> QED BY <2>2, <2>3
<1>3. CASE ~ \E q \in quotes : q.symbol = s
  BY <1>1, <1>3 DEF RankAbove
<1> QED BY <1>2, <1>3

-----------------------------------------------------------------------------
(* The clocks, the writer and a restart.                                   *)

\* Both deployments start empty.
LEMMA InitRInv == Init => RInv
<1> SUFFICES ASSUME Init PROVE RInv
  OBVIOUS
<1>1. /\ quotes = {} /\ bars = {} /\ state = NoState /\ clock = 0
      /\ now = 0 /\ durable \in BOOLEAN /\ cache = {} /\ served = NoTime
      /\ request = [r \in Requests |-> Free]
  BY DEF Init, Log!Init
<1>2. skew \in Int
  BY ReaderBounds DEF Init
<1>3. TypeOK
  BY <1>1, <1>2, FreeGood, ReaderBounds DEF TypeOK, StateType, AnyQuotes
<1>4. Received /\ HasTop /\ Held
  BY <1>1 DEF Received, HasTop, Held
<1>5. \A r \in Requests : Good(request[r])
  BY <1>1, FreeGood
<1> QED BY <1>3, <1>4, <1>5 DEF RInv

\* Time passes.
LEMMA TickKeepsRInv ==
  ASSUME RInv, Tick
  PROVE  RInv'
<1>1. /\ now' = now + 1 /\ now < MaxNow
      /\ UNCHANGED <<quotes, bars, state, clock, skew, durable, cache, served, request>>
  BY DEF Tick, logVars
<1>2. TypeOK'
  <2>1. now' \in 0 .. MaxNow
    BY <1>1, ReaderBounds DEF RInv, TypeOK
  <2> QED BY <1>1, <2>1 DEF RInv, TypeOK
<1>3. clock \in Nat /\ now \in Nat /\ skew \in Int
  BY ReaderBounds DEF RInv, TypeOK
<1>4. Received'
  BY <1>1, <1>3 DEF RInv, Received
<1>5. HasTop'
  BY <1>1 DEF RInv, HasTop
<1>6. Held'
  <2>1. \A c \in cache : ~durable => c.received \in Nat
    BY QuoteTimes DEF RInv, Held
  <2> QED BY <1>1, <1>3, <2>1 DEF RInv, Held
<1>7. \A r \in Requests : Good(request[r])'
  BY <1>1, GoodStays DEF RInv
<1> QED BY <1>2, <1>4, <1>5, <1>6, <1>7 DEF RInv

\* A restart forgets the cache and the requests.
LEMMA RestartKeepsRInv ==
  ASSUME RInv, RestartApi
  PROVE  RInv'
<1>1. /\ cache' = {} /\ served' = NoTime /\ request' = [r \in Requests |-> Free]
      /\ UNCHANGED <<quotes, bars, state, clock, now, skew, durable>>
  BY DEF RestartApi, logVars
<1>2. TypeOK'
  BY <1>1, FreeGood DEF RInv, TypeOK, AnyQuotes
<1>3. Received' /\ HasTop' /\ Held'
  BY <1>1 DEF RInv, Received, HasTop, Held
<1>4. Good(Free)'
  BY <1>1, FreeGood, GoodStays
<1>5. \A r \in Requests : Good(request[r])'
  BY <1>1, <1>4
<1> QED BY <1>2, <1>3, <1>5 DEF RInv

\* A stored observation is the feed's, with the time it was received.
LEMMA ObservedTypes ==
  ASSUME TypeOK, NEW t \in 1 .. clock
  PROVE  /\ \A q \in QuoteFeed : Log!ObservedQuote(q, t) \in StoredQuoteType
         /\ \A q \in QuoteFeed : Log!ObservedQuote(q, t).received = t
         /\ \A batch \in SUBSET BarFeed : Log!ObservedBars(batch, t) \subseteq StoredBarType
<1>1. t \in 1 .. MaxClock
  BY ReaderBounds DEF TypeOK
<1>2. \A q \in QuoteFeed : Log!ObservedQuote(q, t) \in StoredQuoteType
  BY <1>1, ReaderFeeds DEF Log!ObservedQuote, StoredQuoteType
<1>3. \A q \in QuoteFeed : Log!ObservedQuote(q, t).received = t
  BY DEF Log!ObservedQuote
<1>4. \A batch \in SUBSET BarFeed : Log!ObservedBars(batch, t) \subseteq StoredBarType
  BY <1>1, ReaderFeeds DEF Log!ObservedBars, StoredBarType
<1> QED BY <1>2, <1>3, <1>4

\* The writer keeps the tables in order and adds to them only.
LEMMA WriteKeepsRInv ==
  ASSUME RInv, Write
  PROVE  RInv'
<1>1. durable /\ UNCHANGED <<now, skew, durable, cache, served, request>>
  BY DEF Write
<1>2. /\ TypeOK /\ Received /\ HasTop /\ Held
      /\ \A r \in Requests : Good(request[r])
  BY DEF RInv
<1>3. clock \in 0 .. MaxClock /\ clock \in Nat /\ now \in Nat /\ skew \in Int
      /\ MaxClock \in Nat
  BY ReaderBounds DEF RInv, TypeOK
<1>4. \A q \in quotes : q.received \in Nat
  BY <1>2, QuoteTimes DEF TypeOK
<1>5. CASE Log!Receive(now + skew)
  <2>1. /\ clock' = now + skew /\ clock' \in clock + 1 .. MaxClock
        /\ UNCHANGED <<quotes, bars, state>>
    BY <1>5 DEF Log!Receive
  <2>2. TypeOK'
    BY <1>1, <1>2, <1>3, <2>1 DEF TypeOK
  <2>3. Received'
    <3>1. \A q \in quotes' : q.received <= clock'
      BY <1>2, <1>3, <1>4, <2>1 DEF Received
    <3>2. state # NoState /\ state.lastMessage # NoTime => state.lastMessage <= clock'
      <4>1. state # NoState /\ state.lastMessage # NoTime => state.lastMessage \in Nat
        BY <1>2 DEF TypeOK, StateType, ReceiptTimes
      <4> QED BY <1>2, <1>3, <2>1, <4>1 DEF Received
    <3> QED BY <1>1, <2>1, <3>1, <3>2 DEF Received
  <2>4. HasTop' /\ Held'
    BY <1>1, <1>2, <2>1 DEF HasTop, Held
  <2>5. \A r \in Requests : Good(request[r])'
    BY <1>1, <1>2, <2>1, GoodStays
  <2> QED BY <2>2, <2>3, <2>4, <2>5 DEF RInv
<1>6. CASE \E q \in QuoteFeed, t \in 1 .. clock : Log!StoreQuote(q, t)
  <2>1. PICK q \in QuoteFeed, t \in 1 .. clock : Log!StoreQuote(q, t)
    BY <1>6
  <2>2. PICK o : o = Log!ObservedQuote(q, t)
    OBVIOUS
  <2>3. o \in StoredQuoteType /\ o.received = t
    BY <1>2, <2>2, ObservedTypes
  <2>4. /\ quotes' = quotes \/ quotes' = quotes \cup {o}
        /\ UNCHANGED <<bars, state, clock>>
    BY <2>1, <2>2 DEF Log!StoreQuote, Log!SaveQuote
  <2>5. TypeOK'
    BY <1>1, <1>2, <2>3, <2>4 DEF TypeOK
  <2>6. Received'
    BY <1>1, <1>2, <2>3, <2>4 DEF Received
  <2>7. HasTop'
    <3>1. CASE quotes' = quotes
      BY <1>2, <3>1 DEF HasTop
    <3> QED BY <1>2, <2>3, <2>4, <3>1, SaveKeepsTop
  <2>8. Held'
    BY <1>1, <1>2, <2>4 DEF Held
  <2>9. \A r \in Requests : Good(request[r])'
    BY <1>1, <1>2, <2>4, GoodStays
  <2> QED BY <2>5, <2>6, <2>7, <2>8, <2>9 DEF RInv
<1>7. CASE \E batch \in SUBSET BarFeed, t \in 1 .. clock : Log!StoreBars(batch, t)
  <2>1. PICK batch \in SUBSET BarFeed, t \in 1 .. clock : Log!StoreBars(batch, t)
    BY <1>7
  <2>2. /\ bars' \subseteq bars \cup Log!ObservedBars(batch, t)
        /\ UNCHANGED <<quotes, state, clock>>
    BY <2>1 DEF Log!StoreBars, Log!SaveBars
  <2>3. Log!ObservedBars(batch, t) \subseteq StoredBarType
    BY <1>2, ObservedTypes
  <2>4. TypeOK'
    BY <1>1, <1>2, <2>2, <2>3 DEF TypeOK
  <2>5. Received' /\ HasTop' /\ Held'
    BY <1>1, <1>2, <2>2 DEF Received, HasTop, Held
  <2>6. \A r \in Requests : Good(request[r])'
    BY <1>1, <1>2, <2>2, GoodStays
  <2> QED BY <2>4, <2>5, <2>6 DEF RInv
<1>8. CASE \E status \in Log!Statuses, last \in (1 .. clock) \cup {NoTime} :
             Log!Report(status, last)
  <2>1. PICK status \in Log!Statuses, last \in (1 .. clock) \cup {NoTime} :
               Log!Report(status, last)
    BY <1>8
  <2>2. PICK m : /\ m = last \/ (state # NoState /\ m = state.lastMessage)
                 /\ state' = [status |-> status, lastMessage |-> m]
    BY <2>1 DEF Log!Report, Log!LastMessage
  <2>3. UNCHANGED <<quotes, bars, clock>>
    BY <2>1 DEF Log!Report
  <2>4. m \in ReceiptTimes /\ (m # NoTime => m <= clock)
    <3>1. CASE m = last
      BY <1>3, <3>1 DEF ReceiptTimes
    <3>2. CASE state # NoState /\ m = state.lastMessage
      BY <1>2, <3>2 DEF TypeOK, StateType, Received
    <3> QED BY <2>2, <3>1, <3>2
  <2>5. state' \in StateType /\ state'.lastMessage = m
    BY <2>2, <2>4 DEF StateType
  <2>6. TypeOK'
    BY <1>1, <1>2, <2>3, <2>5 DEF TypeOK
  <2>7. Received' /\ HasTop' /\ Held'
    BY <1>1, <1>2, <2>3, <2>4, <2>5 DEF Received, HasTop, Held
  <2>8. \A r \in Requests : Good(request[r])'
    BY <1>1, <1>2, <2>3, GoodStays
  <2> QED BY <2>6, <2>7, <2>8 DEF RInv
<1> QED BY <1>5, <1>6, <1>7, <1>8 DEF Write

-----------------------------------------------------------------------------
(* The requests.                                                           *)

\* A step of one request that leaves everything else alone keeps the
\* invariant if what it leaves of the request is good.
LEMMA RequestKeepsRInv ==
  ASSUME RInv, NEW r \in Requests, NEW q \in RequestType, Set(r, q), Good(q),
         UNCHANGED <<logVars, now, skew, durable, cache, served>>
  PROVE  RInv'
<1>1. /\ request' = [request EXCEPT ![r] = q]
      /\ UNCHANGED <<quotes, bars, state, clock, now, skew, durable, cache, served>>
  BY DEF Set, logVars
<1>2. TypeOK'
  BY <1>1 DEF RInv, TypeOK
<1>3. Received' /\ HasTop' /\ Held'
  BY <1>1 DEF RInv, Received, HasTop, Held
<1>4. ASSUME NEW x \in Requests PROVE Good(request[x])'
  <2>1. Good(q)'
    BY <1>1, GoodStays
  <2>2. Good(request[x]) /\ (request'[x] = q \/ request'[x] = request[x])
    BY <1>1 DEF RInv, TypeOK
  <2>3. ASSUME NEW y, Good(y) PROVE Good(y)'
    BY <1>1, <2>3, GoodStays
  <2> QED BY <2>1, <2>2, <2>3
<1> QED BY <1>2, <1>3, <1>4 DEF RInv

\* An idle request with other parameters.
LEMMA AskingTypes ==
  ASSUME RInv, NEW s \in Symbols, NEW t \in AsOfs, NEW stage \in Stages
  PROVE  /\ [Free EXCEPT !.stage = stage, !.symbol = s, !.asOf = t] \in RequestType
         /\ [Free EXCEPT !.stage = stage, !.symbol = s, !.asOf = t,
                         !.since = cache] \in RequestType
BY FreeGood DEF RequestType, RInv, TypeOK

\* The quote route begins.
LEMMA AskQuoteKeepsRInv ==
  ASSUME RInv, NEW r \in Requests, NEW s \in Symbols, NEW t \in AsOfs, AskQuote(r, s, t)
  PROVE  RInv'
<1>1. PICK q : q = [Free EXCEPT !.stage = "reading quote", !.symbol = s,
                                !.asOf = t, !.since = cache]
  OBVIOUS
<1>2. /\ durable /\ Set(r, q)
      /\ UNCHANGED <<logVars, now, skew, durable, cache, served>>
  BY <1>1 DEF AskQuote
<1>3. q \in RequestType
  BY <1>1, AskingTypes DEF Stages
<1>4. q.stage = "reading quote" /\ q.since = cache
  BY <1>1, FreeGood DEF RequestType
<1>5. Good(q)
  BY <1>2, <1>4 DEF RInv, Held, Good, GoodReading, GoodAnswer
<1> QED BY <1>2, <1>3, <1>5, RequestKeepsRInv

\* The bars route begins.
LEMMA AskBarsKeepsRInv ==
  ASSUME RInv, NEW r \in Requests, NEW s \in Symbols, NEW t \in AsOfs, AskBars(r, s, t)
  PROVE  RInv'
<1>1. PICK q : q = [Free EXCEPT !.stage = "reading bars", !.symbol = s, !.asOf = t]
  OBVIOUS
<1>2. /\ durable /\ Set(r, q)
      /\ UNCHANGED <<logVars, now, skew, durable, cache, served>>
  BY <1>1 DEF AskBars
<1>3. q \in RequestType
  BY <1>1, AskingTypes DEF Stages
<1>4. q.stage = "reading bars"
  BY <1>1, FreeGood DEF RequestType
<1>5. Good(q)
  BY <1>2, <1>4 DEF Good, GoodReading, GoodAnswer
<1> QED BY <1>2, <1>3, <1>5, RequestKeepsRInv

\* The health route takes its clock; the writer's is at most skew ahead.
LEMMA AskHealthKeepsRInv ==
  ASSUME RInv, NEW r \in Requests, AskHealth(r)
  PROVE  RInv'
<1>1. PICK q : q = [Free EXCEPT !.stage = "reading state", !.taken = now, !.begun = clock]
  OBVIOUS
<1>2. Set(r, q) /\ UNCHANGED <<logVars, now, skew, durable, cache, served>>
  BY <1>1 DEF AskHealth
<1>3. q \in RequestType
  <2>1. now \in 0 .. MaxNow /\ clock \in 0 .. MaxClock
    BY DEF RInv, TypeOK
  <2> QED BY <1>1, <2>1, FreeGood DEF RequestType, Stages
<1>4. q.stage = "reading state" /\ q.taken = now /\ q.begun = clock
  BY <1>1, FreeGood DEF RequestType
<1>5. Good(q)
  BY <1>4 DEF RInv, Received, Good, GoodReading, GoodAnswer
<1> QED BY <1>2, <1>3, <1>5, RequestKeepsRInv

\* The statement of latest_quote: what it returns is not behind anything
\* the request began with.
LEMMA ReadQuoteKeepsRInv ==
  ASSUME RInv, NEW r \in Requests, ReadQuote(r)
  PROVE  RInv'
<1>1. PICK o : o = request[r]
  OBVIOUS
<1>2. /\ o \in RequestType /\ o.stage = "reading quote"
      /\ Good(o) /\ durable /\ o.since \subseteq quotes
      /\ UNCHANGED <<logVars, now, skew, durable, cache, served>>
  BY <1>1 DEF ReadQuote, RInv, TypeOK, Good, GoodReading
<1> DEFINE stored == StoredQuotes(o.symbol, o.asOf)
<1>3. PICK found : /\ \/ found = {} /\ stored = {}
                      \/ \E x \in stored : found = {x}
                   /\ Set(r, [o EXCEPT !.stage = "quote read", !.found = found])
  BY <1>1 DEF ReadQuote
<1>4. \A x \in stored : /\ x \in quotes /\ x.symbol = o.symbol
                        /\ x.received <= IF o.asOf = NoTime THEN clock ELSE o.asOf
                        /\ \A p \in quotes :
                             /\ p.symbol = o.symbol
                             /\ p.received <= IF o.asOf = NoTime THEN clock ELSE o.asOf
                             => ~RankAbove(p, x)
  BY DEF StoredQuotes, QuoteAsOf
<1>5. PICK q : q = [o EXCEPT !.stage = "quote read", !.found = found]
  OBVIOUS
<1>6. found \subseteq quotes /\ found \in QuoteOrNone /\ \A a, b \in found : a = b
  BY <1>3, <1>4 DEF RInv, TypeOK, AnyQuotes, QuoteOrNone
<1>7. q \in RequestType
  BY <1>2, <1>5, <1>6 DEF RequestType, Stages
<1>8. /\ q.stage = "quote read" /\ q.found = found /\ q.asOf = o.asOf
      /\ q.symbol = o.symbol /\ q.since = o.since
  BY <1>2, <1>5 DEF RequestType
<1>9. NotAhead(q, found)
  BY <1>3, <1>4, <1>8 DEF NotAhead
<1>10. NotBehind(q, found)
  <2> SUFFICES ASSUME q.asOf = NoTime, NEW c \in q.since, c.symbol = q.symbol
               PROVE  \E f \in found : Later(f, c)
    BY DEF NotBehind
  <2>1. c \in quotes /\ c.symbol = o.symbol /\ o.asOf = NoTime
    BY <1>2, <1>8
  <2>2. \A x \in quotes : x.received <= clock /\ Effective(x) \in Int /\ x.received \in Nat
    BY QuoteTimes DEF RInv, TypeOK, Received
  <2>3. stored # {}
    <3>1. PICK x \in quotes :
            x.symbol = o.symbol /\ \A p \in quotes : p.symbol = o.symbol => ~RankAbove(p, x)
      BY <2>1 DEF RInv, HasTop
    <3> QED BY <2>1, <2>2, <3>1 DEF StoredQuotes, QuoteAsOf
  <2>4. PICK x \in stored : found = {x}
    BY <1>3, <2>3
  <2>5. x \in quotes /\ ~RankAbove(c, x)
    BY <1>4, <2>1, <2>2
  <2>6. Later(x, c)
    BY <2>1, <2>2, <2>5 DEF RankAbove, Later
  <2> QED BY <2>4, <2>6
<1>11. Good(q)
  BY <1>2, <1>6, <1>8, <1>9, <1>10 DEF Good, GoodReading, GoodAnswer
<1> QED BY <1>2, <1>3, <1>5, <1>7, <1>11, RequestKeepsRInv

\* The statement of bars.
LEMMA ReadBarsKeepsRInv ==
  ASSUME RInv, NEW r \in Requests, ReadBars(r)
  PROVE  RInv'
<1>1. PICK o : o = request[r]
  OBVIOUS
<1>2. /\ o \in RequestType /\ o.stage = "reading bars" /\ durable
      /\ UNCHANGED <<logVars, now, skew, durable, cache, served>>
  BY <1>1 DEF ReadBars, RInv, TypeOK, Good, GoodReading
<1> DEFINE stored == BarsAsOf(bars, o.symbol, IF o.asOf = NoTime THEN clock ELSE o.asOf)
<1>3. PICK read \in OnePerStart(stored) :
        Set(r, [o EXCEPT !.stage = "bars read", !.found = Newest(read)])
  BY <1>1 DEF ReadBars
<1>4. PICK found : found = Newest(read)
  OBVIOUS
<1>5. found \subseteq stored /\ \A a, b \in found : a.start = b.start => a = b
  BY <1>4 DEF OnePerStart, Newest
<1>6. \A b \in stored : b \in bars /\ (o.asOf # NoTime => b.received <= o.asOf)
  BY DEF BarsAsOf
<1>7. found \in BarsByStart
  BY <1>5, <1>6 DEF RInv, TypeOK, AnyBars, BarsByStart
<1>8. PICK q : q = [o EXCEPT !.stage = "bars read", !.found = found]
  OBVIOUS
<1>9. q \in RequestType
  BY <1>2, <1>7, <1>8 DEF RequestType, Stages
<1>10. q.stage = "bars read" /\ q.found = found /\ q.asOf = o.asOf
  BY <1>2, <1>8 DEF RequestType
<1>11. Good(q)
  BY <1>2, <1>5, <1>6, <1>7, <1>10 DEF Good, GoodReading, GoodAnswer, NotAhead
<1> QED BY <1>2, <1>3, <1>4, <1>8, <1>9, <1>11, RequestKeepsRInv

\* The bars are answered.
LEMMA AnswerBarsKeepsRInv ==
  ASSUME RInv, NEW r \in Requests, AnswerBars(r)
  PROVE  RInv'
<1>1. PICK o : o = request[r]
  OBVIOUS
<1>2. /\ o \in RequestType /\ o.stage = "bars read"
      /\ o.found \in BarsByStart /\ NotAhead(o, o.found)
      /\ UNCHANGED <<logVars, now, skew, durable, cache, served>>
  BY <1>1 DEF AnswerBars, RInv, TypeOK, Good, GoodReading
<1>3. PICK a : a = BarsAnswer(o.found, Reference(o.asOf))
  OBVIOUS
<1>4. a \in AnswerType /\ a.kind = "bars" /\ a.items = o.found
  BY <1>2, <1>3 DEF BarsAnswer, AnswerType
<1>5. PICK q : q = [o EXCEPT !.stage = "answered", !.taken = now, !.answer = a]
  OBVIOUS
<1>6. Set(r, q)
  BY <1>1, <1>3, <1>5 DEF AnswerBars
<1>7. now \in 0 .. MaxNow
  BY DEF RInv, TypeOK
<1>8. q \in RequestType
  BY <1>2, <1>4, <1>5, <1>7 DEF RequestType, Stages
<1>9. q.stage = "answered" /\ q.answer = a /\ q.asOf = o.asOf
  BY <1>2, <1>5 DEF RequestType
<1>10. Good(q)
  BY <1>2, <1>4, <1>9 DEF Good, GoodReading, GoodAnswer, NotAhead
<1> QED BY <1>2, <1>6, <1>8, <1>10, RequestKeepsRInv

\* _remember_quote keeps one quote of a symbol.
LEMMA RememberKeeps ==
  ASSUME TypeOK, NEW x \in StoredQuoteType \cup ReplayQuoteType
  PROVE  /\ Remember(x) \in AnyQuotes
         /\ Remember(x) \subseteq cache \cup {x}
         /\ \A p, q \in Remember(x) : p.symbol = q.symbol => p = q
<1>1. cache \in AnyQuotes /\ \A p, q \in cache : p.symbol = q.symbol => p = q
  BY DEF TypeOK
<1>2. Remember(x) \subseteq cache \cup {x}
  BY DEF Remember
<1>3. \A p, q \in Remember(x) : p.symbol = q.symbol => p = q
  BY <1>1 DEF Remember
<1>4. Remember(x) \in AnyQuotes
  BY <1>1, <1>2 DEF AnyQuotes
<1> QED BY <1>2, <1>3, <1>4

\* A step that answers a request and may fill the cache.
LEMMA AnswerKeepsRInv ==
  ASSUME RInv, NEW r \in Requests, NEW q \in RequestType, Set(r, q), Good(q),
         UNCHANGED <<logVars, now, skew, durable>>,
         cache' \in AnyQuotes, \A a, b \in cache' : a.symbol = b.symbol => a = b,
         served' \in (0 .. MaxNow) \cup {NoTime},
         durable => cache' \subseteq quotes,
         ~durable => \A c \in cache' :
           c \in ReplayQuoteType /\ c.at = c.received /\ c.received <= now
  PROVE  RInv'
<1>1. /\ request' = [request EXCEPT ![r] = q]
      /\ UNCHANGED <<quotes, bars, state, clock, now, skew, durable>>
  BY DEF Set, logVars
<1>2. TypeOK'
  BY <1>1 DEF RInv, TypeOK
<1>3. Received' /\ HasTop' /\ Held'
  BY <1>1 DEF RInv, Received, HasTop, Held
<1>4. ASSUME NEW x \in Requests PROVE Good(request[x])'
  <2>1. Good(q)'
    BY <1>1, GoodStays
  <2>2. Good(request[x]) /\ (request'[x] = q \/ request'[x] = request[x])
    BY <1>1 DEF RInv, TypeOK
  <2>3. ASSUME NEW y, Good(y) PROVE Good(y)'
    BY <1>1, <2>3, GoodStays
  <2> QED BY <2>1, <2>2, <2>3
<1> QED BY <1>2, <1>3, <1>4 DEF RInv

\* The quote read is answered, remembered, and called fresh by its own age.
LEMMA AnswerQuoteKeepsRInv ==
  ASSUME RInv, NEW r \in Requests, AnswerQuote(r)
  PROVE  RInv'
<1>1. PICK o : o = request[r]
  OBVIOUS
<1>2. /\ o \in RequestType /\ o.stage = "quote read" /\ durable
      /\ o.found \subseteq quotes /\ \A a, b \in o.found : a = b
      /\ NotAhead(o, o.found) /\ NotBehind(o, o.found)
      /\ UNCHANGED <<logVars, now, skew, durable, served>>
  BY <1>1 DEF AnswerQuote, RInv, TypeOK, Good, GoodReading
<1> DEFINE ref == Reference(o.asOf)
           fresh == \E x \in o.found : Fresh(Effective(x), ref, Window)
<1>3. PICK a : a = QuoteAnswer(o.found, fresh)
  OBVIOUS
<1>4. PICK q : q = [o EXCEPT !.stage = "answered", !.taken = now, !.answer = a]
  OBVIOUS
<1>5. /\ Set(r, q)
      /\ o.found = {} => cache' = cache
      /\ o.found # {} => \E x \in o.found : cache' = Remember(x)
  <2>1. /\ request[r].found = {} => cache' = cache
        /\ request[r].found # {} => \E x \in request[r].found : cache' = Remember(x)
    <3>1. /\ request[r].found = {} => cache' = cache
          /\ request[r].found # {} =>
               cache' = Remember(CHOOSE x \in request[r].found : TRUE)
      BY DEF AnswerQuote
    <3>2. ASSUME NEW S, S # {} PROVE (CHOOSE x \in S : TRUE) \in S
      BY <3>2
    <3> QED BY <3>1, <3>2
  <2>2. Set(r, [o EXCEPT !.stage = "answered", !.taken = now, !.answer = a])
    BY <1>1, <1>3, Zenon DEF AnswerQuote
  <2> QED BY <1>1, <1>4, <2>1, <2>2
<1>6. /\ quotes \subseteq StoredQuoteType /\ now \in 0 .. MaxNow
      /\ served \in (0 .. MaxNow) \cup {NoTime} /\ cache \in AnyQuotes
      /\ \A x, y \in cache : x.symbol = y.symbol => x = y
  BY DEF RInv, TypeOK
<1>7. o.found \in QuoteOrNone
  BY <1>2, <1>6 DEF AnyQuotes, QuoteOrNone
<1>8. a \in AnswerType /\ a.kind = "quote" /\ a.items = o.found /\ (a.fresh <=> fresh)
  BY <1>3, <1>7 DEF QuoteAnswer, AnswerType
<1>9. q \in RequestType
  BY <1>2, <1>4, <1>6, <1>8 DEF RequestType, Stages
<1>10. /\ q.stage = "answered" /\ q.answer = a /\ q.asOf = o.asOf
       /\ q.taken = now /\ q.since = o.since /\ q.symbol = o.symbol
  BY <1>2, <1>4 DEF RequestType
<1>11. GoodQuote(q)
  <2>1. NotBehind(q, a.items) /\ NotAhead(q, a.items)
    BY <1>2, <1>8, <1>10 DEF NotBehind, NotAhead
  <2>2. ASSUME a.fresh
        PROVE  /\ a.items # {}
               /\ \A f \in a.items : Effective(f) \in ref - Window .. ref
    <3>1. PICK x \in o.found : Fresh(Effective(x), ref, Window)
      BY <1>8, <2>2
    <3>2. Effective(x) \in Int /\ ref \in Int /\ Window \in Nat
      <4>1. ref \in Int
        <5>1. o.asOf \in AsOfs
          BY <1>2 DEF RequestType
        <5>2. o.asOf = NoTime \/ o.asOf \in Int
          BY <5>1 DEF AsOfs
        <5>3. now \in Int
          BY <1>6
        <5> QED BY <5>2, <5>3 DEF Reference
      <4> QED BY <1>2, <1>6, <4>1, QuoteTimes, ReaderBounds
    <3>3. Effective(x) \in ref - Window .. ref
      BY <3>1, <3>2 DEF Fresh
    <3> QED BY <1>2, <1>8, <3>1, <3>3
  <2>3. ref = IF q.asOf = NoTime THEN q.taken ELSE q.asOf
    BY <1>10 DEF Reference
  <2> HIDE DEF ref
  <2> QED BY <1>10, <2>1, <2>2, <2>3 DEF GoodQuote
<1>12. Good(q)
  BY <1>8, <1>10, <1>11 DEF Good, GoodReading, GoodAnswer
<1>13. /\ cache' \in AnyQuotes /\ cache' \subseteq quotes
       /\ \A x, y \in cache' : x.symbol = y.symbol => x = y
  <2>1. cache \subseteq quotes
    BY <1>2 DEF RInv, Held
  <2>2. CASE o.found = {}
    BY <1>5, <1>6, <2>1, <2>2
  <2>3. CASE o.found # {}
    <3>1. PICK x \in o.found : cache' = Remember(x)
      BY <1>5, <2>3
    <3>2. x \in quotes /\ x \in StoredQuoteType \cup ReplayQuoteType
      BY <1>2, <1>6
    <3> QED BY <2>1, <3>1, <3>2, RememberKeeps DEF RInv
  <2> QED BY <2>2, <2>3
<1> QED BY <1>2, <1>5, <1>6, <1>9, <1>12, <1>13, AnswerKeepsRInv

\* Without a database: the quote of this instant, stale if as_of is earlier.
LEMMA AnswerReplayQuoteKeepsRInv ==
  ASSUME RInv, NEW r \in Requests, NEW s \in Symbols, NEW t \in AsOfs,
         AnswerReplayQuote(r, s, t)
  PROVE  RInv'
<1>1. /\ ~durable
      /\ UNCHANGED <<logVars, now, skew, durable>>
      /\ now \in 0 .. MaxNow /\ now \in Nat /\ Window \in Nat
      /\ served \in (0 .. MaxNow) \cup {NoTime} /\ cache \in AnyQuotes
      /\ \A x, y \in cache : x.symbol = y.symbol => x = y
      /\ \A c \in cache :
            c \in ReplayQuoteType /\ c.at = c.received /\ c.received <= now
  BY ReaderBounds DEF AnswerReplayQuote, RInv, TypeOK, Held
<1> DEFINE known == s \in ReplaySymbols
           fresh == Fresh(now, Reference(t), Window)
<1>2. PICK x : x = [symbol |-> s, at |-> now, value |-> ReplayValue, received |-> now]
  OBVIOUS
<1>3. /\ known => x \in ReplayQuoteType
      /\ x.at = now /\ x.received = now /\ x.symbol = s /\ Effective(x) = now
  <2>1. now # NoTime
    BY <1>1, ReaderFeeds
  <2> QED BY <1>1, <1>2, <2>1 DEF ReplayQuoteType, Effective
<1>4. PICK a : a = IF known THEN QuoteAnswer({x}, fresh) ELSE QuoteAnswer({}, FALSE)
  OBVIOUS
<1>5. PICK q : q = [Free EXCEPT
                      !.stage = "answered", !.symbol = s, !.asOf = t,
                      !.taken = now, !.since = cache, !.answer = a]
  OBVIOUS
<1>6. /\ Set(r, q)
      /\ served' = IF known THEN now ELSE served
      /\ cache' = IF known THEN Remember(x) ELSE cache
  BY <1>2, <1>4, <1>5 DEF AnswerReplayQuote
<1>7. CASE known
  <2>1. /\ a \in AnswerType /\ a.kind = "quote" /\ a.items = {x}
        /\ a.fresh <=> fresh
    BY <1>3, <1>4, <1>7 DEF QuoteAnswer, AnswerType, AnyQuotes, QuoteOrNone, Fresh
  <2>2. q \in RequestType
    BY <1>1, <1>5, <2>1, FreeGood DEF RequestType, Stages
  <2>3. /\ q.stage = "answered" /\ q.answer = a /\ q.asOf = t
        /\ q.taken = now /\ q.since = cache /\ q.symbol = s
    BY <1>5, FreeGood DEF RequestType
  <2>4. NotBehind(q, a.items)
    <3>1. \A c \in cache : Effective(c) = c.at /\ c.received \in Nat
      BY <1>1, QuoteTimes
    <3> QED BY <1>1, <1>3, <2>1, <2>3, <3>1 DEF NotBehind, Later
  <2>5. t = NoTime \/ t \in Nat
    BY DEF AsOfs
  <2>6. NotAhead(q, a.items) \/ ~fresh
    BY <1>1, <1>3, <2>1, <2>3, <2>5 DEF NotAhead, Fresh, Reference
  <2>7. ASSUME fresh
        PROVE  \A f \in a.items :
                 LET ref == IF t = NoTime THEN now ELSE t
                 IN  Effective(f) \in ref - Window .. ref
    <3>1. PICK ref \in Int : ref = IF t = NoTime THEN now ELSE t
      BY <1>1, <2>5
    <3>2. Fresh(now, ref, Window)
      BY <2>7, <3>1 DEF Reference
    <3>3. now \in ref - Window .. ref
      BY <1>1, <3>2 DEF Fresh
    <3> QED BY <1>3, <2>1, <3>1, <3>3
  <2> HIDE DEF fresh
  <2>8. GoodQuote(q)
    BY <1>1, <2>1, <2>3, <2>4, <2>6, <2>7 DEF GoodQuote
  <2>9. Good(q)
    BY <2>1, <2>3, <2>8 DEF Good, GoodReading, GoodAnswer
  <2>10. cache' = Remember(x) /\ served' = now
    BY <1>6, <1>7
  <2>11. /\ cache' \in AnyQuotes /\ cache' \subseteq cache \cup {x}
         /\ \A y, z \in cache' : y.symbol = z.symbol => y = z
    BY <1>3, <1>7, <2>10, RememberKeeps DEF RInv
  <2>12. \A c \in cache' :
           c \in ReplayQuoteType /\ c.at = c.received /\ c.received <= now
    BY <1>1, <1>3, <1>7, <2>11
  <2> QED BY <1>1, <1>6, <2>2, <2>9, <2>10, <2>11, <2>12, AnswerKeepsRInv
<1>8. CASE ~known
  <2>1. a \in AnswerType /\ a.kind = "quote" /\ a.items = {} /\ ~a.fresh
    BY <1>4, <1>8 DEF QuoteAnswer, AnswerType, AnyQuotes, QuoteOrNone
  <2>2. q \in RequestType
    BY <1>1, <1>5, <2>1, FreeGood DEF RequestType, Stages
  <2>3. /\ q.stage = "answered" /\ q.answer = a /\ q.asOf = t
        /\ q.taken = now /\ q.since = cache /\ q.symbol = s
    BY <1>5, FreeGood DEF RequestType
  <2>4. \A c \in cache : c.symbol # s
    BY <1>1, <1>8 DEF ReplayQuoteType
  <2>5. GoodQuote(q)
    BY <2>1, <2>3, <2>4 DEF GoodQuote, NotBehind, NotAhead
  <2>6. Good(q)
    BY <2>1, <2>3, <2>5 DEF Good, GoodReading, GoodAnswer
  <2> QED BY <1>1, <1>6, <1>8, <2>2, <2>6, AnswerKeepsRInv
<1> QED BY <1>7, <1>8

\* Without a database: the bars the replay provider makes.
LEMMA AnswerReplayBarsKeepsRInv ==
  ASSUME RInv, NEW r \in Requests, NEW s \in Symbols, NEW t \in AsOfs,
         AnswerReplayBars(r, s, t)
  PROVE  RInv'
<1> DEFINE made == IF s \in ReplaySymbols
                   THEN {[symbol |-> s, start |-> n, value |-> ReplayValue,
                          final |-> TRUE, received |-> now] :
                           n \in now - Limit .. now - 1}
                   ELSE {}
<1>1. ~durable /\ UNCHANGED <<logVars, now, skew, durable, cache, served>>
  BY DEF AnswerReplayBars
<1>2. now \in 0 .. MaxNow /\ now \in Int /\ Limit \in Int
  BY ReaderBounds DEF RInv, TypeOK
<1>3. made \in BarsByStart
  <2>1. ASSUME s \in ReplaySymbols, NEW n \in now - Limit .. now - 1
        PROVE  [symbol |-> s, start |-> n, value |-> ReplayValue,
                final |-> TRUE, received |-> now] \in ReplayBarType
    <3>1. n \in Int
      BY <1>2
    <3> QED BY <1>2, <2>1, <3>1 DEF ReplayBarType
  <2>2. made \subseteq ReplayBarType
    BY <2>1
  <2>3. ASSUME NEW a \in made, NEW b \in made, a.start = b.start
        PROVE  a = b
    <3>1. ASSUME NEW c \in made
          PROVE  c = [symbol |-> s, start |-> c.start, value |-> ReplayValue,
                      final |-> TRUE, received |-> now]
      <4>1. s \in ReplaySymbols
        BY <3>1
      <4>2. PICK n \in now - Limit .. now - 1 :
              c = [symbol |-> s, start |-> n, value |-> ReplayValue,
                   final |-> TRUE, received |-> now]
        BY <3>1, <4>1
      <4> QED BY <4>2
    <3> HIDE DEF made
    <3>2. /\ a = [symbol |-> s, start |-> a.start, value |-> ReplayValue,
                  final |-> TRUE, received |-> now]
          /\ b = [symbol |-> s, start |-> b.start, value |-> ReplayValue,
                  final |-> TRUE, received |-> now]
      BY <3>1
    <3> QED BY <2>3, <3>2
  <2> HIDE DEF made
  <2> QED BY <2>2, <2>3 DEF AnyBars, BarsByStart
<1>4. PICK a : a = BarsAnswer(made, Reference(t))
  OBVIOUS
<1>5. a \in AnswerType /\ a.kind = "bars"
  <2> HIDE DEF made
  <2> QED BY <1>3, <1>4 DEF BarsAnswer, AnswerType
<1>6. PICK q : q = [Free EXCEPT !.stage = "answered", !.symbol = s, !.asOf = t,
                               !.taken = now, !.answer = a]
  OBVIOUS
<1>7. Set(r, q)
  BY <1>4, <1>6 DEF AnswerReplayBars
<1>8. q \in RequestType
  BY <1>2, <1>5, <1>6, FreeGood DEF RequestType, Stages
<1>9. q.stage = "answered" /\ q.answer = a
  BY <1>6, FreeGood DEF RequestType
<1>10. Good(q)
  BY <1>1, <1>5, <1>9 DEF Good, GoodReading, GoodAnswer
<1> QED BY <1>1, <1>7, <1>8, <1>10, RequestKeepsRInv

\* Health is judged from the state as it is now and the clock as it was.
LEMMA AnswerHealthKeepsRInv ==
  ASSUME RInv, NEW r \in Requests, AnswerHealth(r)
  PROVE  RInv'
<1>1. PICK o : o = request[r]
  OBVIOUS
<1>2. /\ o \in RequestType /\ o.stage = "reading state"
      /\ o.begun = 0 \/ o.begun <= o.taken + skew
      /\ UNCHANGED <<logVars, now, skew, durable, cache, served>>
  BY <1>1 DEF AnswerHealth, RInv, TypeOK, Good, GoodReading
<1>3. /\ state \in StateType /\ clock \in 0 .. MaxClock /\ clock \in Nat /\ skew \in Int
      /\ o.taken \in Nat /\ o.begun \in Nat /\ Window \in Nat
  <2>1. /\ state \in StateType /\ clock \in 0 .. MaxClock /\ skew \in Int
        /\ o.taken \in 0 .. MaxNow /\ o.begun \in 0 .. MaxClock
    BY <1>2 DEF RInv, TypeOK, RequestType
  <2> QED BY <2>1, ReaderBounds
<1>4. PICK a : a = Judged(state, o.taken)
  OBVIOUS
<1>5. /\ a \in [kind : {"health"}, status : Log!Statuses, ahead : BOOLEAN]
      /\ a.status = "healthy" =>
           /\ state # NoState /\ state.status = "healthy"
           /\ state.lastMessage # NoTime /\ o.taken - state.lastMessage <= Window
      /\ state # NoState /\ state.status = "unavailable" =>
           a.status = "unavailable" \/ a.ahead
      /\ a.ahead => /\ state # NoState /\ state.lastMessage # NoTime
                    /\ state.lastMessage > o.taken
  BY <1>3, <1>4, JudgedHonest
<1>6. PICK q : q = [o EXCEPT !.stage = "answered", !.row = state, !.heard = clock,
                            !.answer = a]
  OBVIOUS
<1>7. Set(r, q)
  BY <1>1, <1>4, <1>6 DEF AnswerHealth
<1>8. a \in AnswerType /\ a.kind = "health"
  BY <1>5 DEF AnswerType
<1>9. q \in RequestType
  BY <1>2, <1>3, <1>6, <1>8 DEF RequestType, Stages
<1>10. /\ q.stage = "answered" /\ q.answer = a /\ q.row = state /\ q.heard = clock
       /\ q.taken = o.taken /\ q.begun = o.begun
  BY <1>2, <1>6 DEF RequestType
<1>11. state # NoState /\ state.lastMessage # NoTime =>
         state.lastMessage \in Nat /\ state.lastMessage >= 1 /\ state.lastMessage <= clock
  <2>1. state # NoState => state.lastMessage \in ReceiptTimes
    BY <1>3 DEF StateType
  <2>2. state # NoState /\ state.lastMessage # NoTime => state.lastMessage <= clock
    BY DEF RInv, Received
  <2>3. state # NoState /\ state.lastMessage # NoTime => state.lastMessage \in 1 .. MaxClock
    BY <2>1 DEF ReceiptTimes
  <2>4. MaxClock \in Nat
    BY ReaderBounds
  <2> QED BY <2>2, <2>3, <2>4
<1>12. a.status = "healthy" => o.taken - clock <= Window
  BY <1>3, <1>5, <1>11
<1>13. a.ahead => skew > 0 \/ clock > o.begun
  <2> SUFFICES ASSUME a.ahead PROVE skew > 0 \/ clock > o.begun
    OBVIOUS
  <2>1. /\ state.lastMessage \in Nat /\ state.lastMessage >= 1
        /\ state.lastMessage <= clock /\ state.lastMessage > o.taken
    BY <1>5, <1>11
  <2>2. o.begun = 0 \/ o.begun <= o.taken + skew
    BY <1>2
  <2> QED BY <1>3, <2>1, <2>2
<1>14. GoodHealth(q)
  BY <1>5, <1>10, <1>12, <1>13 DEF GoodHealth
<1>15. Good(q)
  BY <1>8, <1>10, <1>14 DEF Good, GoodReading, GoodAnswer
<1> QED BY <1>2, <1>7, <1>9, <1>15, RequestKeepsRInv

\* Without a database: the health of the replay provider.
LEMMA AnswerReplayHealthKeepsRInv ==
  ASSUME RInv, NEW r \in Requests, AnswerReplayHealth(r)
  PROVE  RInv'
<1> DEFINE recent == served # NoTime /\ now - served <= Window
<1>1. /\ ~durable /\ UNCHANGED <<logVars, now, skew, durable, cache, served>>
      /\ now \in 0 .. MaxNow
  BY DEF AnswerReplayHealth, RInv, TypeOK
<1>2. PICK a : a = HealthAnswer(IF recent THEN "healthy" ELSE "degraded", FALSE)
  OBVIOUS
<1>3. a \in AnswerType /\ a.kind = "health"
  <2>1. (IF recent THEN "healthy" ELSE "degraded") \in Log!Statuses
    BY DEF Log!Statuses
  <2> HIDE DEF recent
  <2> QED BY <1>2, <2>1 DEF HealthAnswer, AnswerType
<1>4. PICK q : q = [Free EXCEPT !.stage = "answered", !.taken = now, !.answer = a]
  OBVIOUS
<1>5. Set(r, q)
  BY <1>2, <1>4 DEF AnswerReplayHealth
<1>6. q \in RequestType
  BY <1>1, <1>3, <1>4, FreeGood DEF RequestType, Stages
<1>7. q.stage = "answered" /\ q.answer = a
  BY <1>4, FreeGood DEF RequestType
<1>8. Good(q)
  BY <1>1, <1>3, <1>7 DEF Good, GoodReading, GoodAnswer
<1> QED BY <1>1, <1>5, <1>6, <1>8, RequestKeepsRInv

\* Every step keeps the invariant.
LEMMA NextRInv == RInv /\ [Next]_vars => RInv'
<1> SUFFICES ASSUME RInv, [Next]_vars PROVE RInv'
  OBVIOUS
<1>1. CASE UNCHANGED vars
  <2>1. UNCHANGED <<quotes, bars, state, clock, now, skew, durable, cache, served, request>>
    BY <1>1 DEF vars
  <2>2. TypeOK'
    BY <2>1 DEF RInv, TypeOK
  <2>3. Received' /\ HasTop' /\ Held'
    BY <2>1 DEF RInv, Received, HasTop, Held
  <2>4. \A r \in Requests : Good(request[r])'
    BY <2>1, GoodStays DEF RInv
  <2> QED BY <2>2, <2>3, <2>4 DEF RInv
<1>2. CASE Tick \/ RestartApi \/ Write
  BY <1>2, TickKeepsRInv, RestartKeepsRInv, WriteKeepsRInv
<1>3. ASSUME NEW r \in Requests, Ask(r) PROVE RInv'
  <2>1. ASSUME NEW s \in Symbols, NEW t \in AsOfs,
               \/ AskQuote(r, s, t) \/ AnswerReplayQuote(r, s, t)
               \/ AskBars(r, s, t) \/ AnswerReplayBars(r, s, t)
        PROVE  RInv'
    BY <2>1, AskQuoteKeepsRInv, AnswerReplayQuoteKeepsRInv, AskBarsKeepsRInv,
       AnswerReplayBarsKeepsRInv
  <2>2. CASE AskHealth(r) \/ AnswerReplayHealth(r)
    BY <2>2, AskHealthKeepsRInv, AnswerReplayHealthKeepsRInv
  <2> QED BY <1>3, <2>1, <2>2 DEF Ask
<1>4. ASSUME NEW r \in Requests, Serve(r) PROVE RInv'
  <2>1. CASE Release(r)
    <3>1. Set(r, Free) /\ UNCHANGED <<logVars, now, skew, durable, cache, served>>
      BY <2>1 DEF Release
    <3> QED BY <3>1, FreeGood, RequestKeepsRInv
  <2>2. CASE ReadQuote(r) \/ AnswerQuote(r) \/ ReadBars(r) \/ AnswerBars(r) \/ AnswerHealth(r)
    BY <2>2, ReadQuoteKeepsRInv, AnswerQuoteKeepsRInv, ReadBarsKeepsRInv,
       AnswerBarsKeepsRInv, AnswerHealthKeepsRInv
  <2> QED BY <1>4, <2>1, <2>2 DEF Serve
<1> QED BY <1>1, <1>2, <1>3, <1>4 DEF Next

\* The strengthening holds in every reachable state.
THEOREM MarketReadersInvariant == Spec => []RInv
BY InitRInv, NextRInv, PTL DEF Spec

-----------------------------------------------------------------------------
(* The properties.                                                         *)

\* Shapes of what is stored, cached and answered; one quote of a symbol is
\* cached (service.py 84-321).
THEOREM MarketReadersTypeCorrect == Spec => []TypeOK
BY MarketReadersInvariant, PTL DEF RInv

\* No quote is answered behind one that _latest held when the request began
\* (service.py 169-207, market_repository.py latest_quote).
THEOREM NeverGoesBack == Spec => []AnswersNeverGoBack
<1>1. RInv => AnswersNeverGoBack
  BY DEF RInv, Good, GoodAnswer, GoodQuote, NotBehind, Later, Answered, AnswersNeverGoBack
<1> QED BY <1>1, MarketReadersInvariant, PTL

\* As-of answers look at nothing received later, and what is called fresh
\* was made by the market recently (service.py 169-257).
THEOREM AnswersAreHonest == Spec => []AnswersHonest
<1>1. RInv => NoLookAhead
  BY DEF RInv, Good, GoodAnswer, GoodQuote, NotAhead, Answered, NoLookAhead
<1>2. RInv => FreshIsRecent
  BY DEF RInv, Good, GoodAnswer, GoodQuote, Answered, FreshIsRecent
<1> QED BY <1>1, <1>2, MarketReadersInvariant, PTL DEF AnswersHonest

\* Health is never better than the record and the age of the last message
\* (service.py 259-321).
THEOREM HealthIsHonest == Spec => []HealthHonest
<1>1. RInv => HealthHonest
  BY DEF RInv, Good, GoodAnswer, GoodHealth, Answered, HealthHonest
<1> QED BY <1>1, MarketReadersInvariant, PTL
=============================================================================
