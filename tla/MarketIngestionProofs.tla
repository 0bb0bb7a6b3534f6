------------------------ MODULE MarketIngestionProofs ------------------------
(***************************************************************************)
(* Safety of the market worker, for any feeds, watchlist, number of        *)
(* attempts, receipts and faults.                                          *)
(***************************************************************************)
EXTENDS MarketIngestion, TLAPS

-----------------------------------------------------------------------------
(* The inductive invariant.                                                *)

\* n failures or more are on record.
OnRecord(n) ==
  n > 0 => /\ provider # NoState
           /\ provider.status = "degraded"
           /\ provider.failures >= n

QuoteStages == {"saving quote", "recording quote"}

BarStages ==
  {"fetching bars", "saving bars", "recording bars", "recording bars failure"}

\* What the worker has in its hands where it writes it.
InHand ==
  /\ job.stage \in QuoteStages => \E q \in job.hand : job.hand = {q} /\ q \in QuoteType
  /\ job.stage = "saving bars" => job.hand \in SUBSET BarType

\* A quote whose success is being recorded is stored.
StoredFirst ==
  job.stage = "recording quote" =>
    \A q \in job.hand : \E r \in quotes : QuoteFingerprint(r) = QuoteFingerprint(q)

\* The worker's counters and the stored state, at every stage of a cycle.
Counted ==
  /\ job.stage \in {"streaming"} \cup QuoteStages =>
       /\ OnRecord(job.failures)
       /\ job.failures < Attempts
       /\ job.reconnecting <=> job.failures > 0
  /\ job.stage = "recording failure" => job.failures > 0 /\ OnRecord(job.failures - 1)
  /\ job.stage \in BarStages => OnRecord(job.attempt)

MInv ==
  /\ TypeOK
  /\ InHand
  /\ StoredFirst
  /\ CacheIsDurable
  /\ Counted

-----------------------------------------------------------------------------
(* The operators of the store.                                             *)

\* The last message is a receipt time, and never moves back.
LEMMA LastMessageType ==
  ASSUME NEW stored \in ReceiptTime, NEW reported \in ReceiptTime
  PROVE  /\ LastMessage(stored, reported) \in ReceiptTime
         /\ stored # NoTime => /\ LastMessage(stored, reported) # NoTime
                               /\ LastMessage(stored, reported) >= stored
<1>1. \A t \in ReceiptTime : t # NoTime => t \in Int
  BY DEF ReceiptTime
<1> QED BY <1>1 DEF LastMessage

\* A recorded failure is a state, one failure more, and no new reconnect.
LEMMA FailureType ==
  ASSUME NEW state \in ProviderType \cup {NoState}, NEW exhausted \in BOOLEAN,
         NEW reported \in ReceiptTime
  PROVE  LET new == RecordFailure(state, exhausted, reported)
         IN  /\ new \in ProviderType
             /\ new.status = IF exhausted THEN "unavailable" ELSE "degraded"
             /\ new.failures = IF state = NoState THEN 1 ELSE state.failures + 1
             /\ new.reconnects = IF state = NoState THEN 0 ELSE state.reconnects
             /\ new.lastMessage = IF state = NoState THEN reported
                                  ELSE LastMessage(state.lastMessage, reported)
<1>1. CASE state = NoState
  BY <1>1 DEF RecordFailure, ProviderType
<1>2. CASE state # NoState
  <2>1. state \in ProviderType
    BY <1>2
  <2>2. LastMessage(state.lastMessage, reported) \in ReceiptTime
    BY <2>1, LastMessageType DEF ProviderType
  <2> QED BY <1>2, <2>1, <2>2 DEF RecordFailure, ProviderType
<1> QED BY <1>1, <1>2

\* A recorded success is a healthy state without failures.
LEMMA SuccessType ==
  ASSUME NEW state \in ProviderType \cup {NoState}, NEW reported \in ReceiptTime,
         NEW reconnected \in BOOLEAN
  PROVE  LET new == RecordSuccess(state, reported, reconnected)
         IN  /\ new \in ProviderType
             /\ new.failures = 0
             /\ new.reconnects = (IF state = NoState THEN 0 ELSE state.reconnects)
                                   + (IF reconnected THEN 1 ELSE 0)
             /\ new.lastMessage = IF state = NoState THEN reported
                                  ELSE LastMessage(state.lastMessage, reported)
<1>1. CASE state = NoState
  BY <1>1 DEF RecordSuccess, ProviderType
<1>2. CASE state # NoState
  <2>1. state \in ProviderType
    BY <1>2
  <2>2. LastMessage(state.lastMessage, reported) \in ReceiptTime
    BY <2>1, LastMessageType DEF ProviderType
  <2> QED BY <1>2, <2>1, <2>2 DEF RecordSuccess, ProviderType
<1> QED BY <1>1, <1>2

\* A saved quote is stored, under its own fingerprint at least, and nothing
\* is removed.
LEMMA QuoteStored ==
  ASSUME NEW table, NEW q
  PROVE  /\ \E r \in SaveQuote(table, q) : QuoteFingerprint(r) = QuoteFingerprint(q)
         /\ table \subseteq SaveQuote(table, q)
         /\ SaveQuote(table, q) \subseteq table \cup {q}
BY DEF SaveQuote

\* The cache keeps one quote per symbol, old ones and the new one.
LEMMA RememberKeeps ==
  ASSUME NEW cache, NEW q, \A a, b \in cache : a.symbol = b.symbol => a = b
  PROVE  /\ Remember(cache, q) \subseteq cache \cup {q}
         /\ \A a, b \in Remember(cache, q) : a.symbol = b.symbol => a = b
BY DEF Remember

-----------------------------------------------------------------------------
(* The invariant is kept.                                                  *)

\* The worker's locals at the start of a cycle.
LEMMA NewCycleType ==
  /\ NewCycle \in JobType
  /\ NewCycle.stage = "streaming" /\ NewCycle.failures = 0
  /\ NewCycle.reconnecting = FALSE /\ NewCycle.hand = {} /\ NewCycle.attempt = 0
<1>1. /\ 0 \in 0 .. Attempts /\ 0 \in 0 .. (Attempts - 1) /\ 1 \in 1 .. Len(Watchlist)
      /\ NoTime \in ReceiptTime /\ {} \in (SUBSET QuoteType) \cup (SUBSET BarType)
  BY BoundsAssumption, WatchlistAssumption DEF ReceiptTime
<1> QED BY <1>1 DEF NewCycle, JobType, Stages

\* Another stage leaves the other locals alone.
LEMMA StageMoved ==
  ASSUME NEW c \in JobType, NEW stage \in Stages
  PROVE  LET moved == [c EXCEPT !.stage = stage]
         IN  /\ moved \in JobType /\ moved.stage = stage
             /\ moved.failures = c.failures /\ moved.reconnecting = c.reconnecting
             /\ moved.hand = c.hand /\ moved.attempt = c.attempt
             /\ moved.last = c.last
BY DEF JobType

LEMMA EndedType == Ended \in JobType /\ Ended.stage = "ended"
BY NewCycleType, StageMoved DEF Ended, Stages

\* The worker has not started, nothing is stored.
LEMMA InitMInv == Init => MInv
<1> SUFFICES ASSUME Init PROVE MInv
  OBVIOUS
<1> USE DEF Init
<1>1. TypeOK
  BY EndedType, BoundsAssumption DEF TypeOK
<1>2. InHand /\ StoredFirst /\ Counted
  BY EndedType DEF InHand, StoredFirst, Counted, QuoteStages, BarStages
<1>3. CacheIsDurable
  BY DEF CacheIsDurable
<1> QED BY <1>1, <1>2, <1>3 DEF MInv

\* However the worker ends, the next one starts from the tables.
LEMMA EndKeepsMInv ==
  ASSUME MInv, job' = Ended, latest' = {}, quotes' = quotes, bars' = bars,
         clock' = clock, provider' \in ProviderType \cup {NoState},
         faults' \in 0 .. MaxFaults
  PROVE  MInv'
<1>1. TypeOK'
  BY EndedType DEF MInv, TypeOK
<1>2. InHand' /\ StoredFirst' /\ Counted'
  BY EndedType DEF InHand, StoredFirst, Counted, QuoteStages, BarStages
<1>3. CacheIsDurable'
  BY DEF CacheIsDurable
<1> QED BY <1>1, <1>2, <1>3 DEF MInv

\* A step that is a fault counts as one.
LEMMA FaultCounted ==
  ASSUME TypeOK, Fault
  PROVE  faults' \in 0 .. MaxFaults
BY BoundsAssumption DEF TypeOK, Fault

\* Steps of the stream keep the invariant.
LEMMA StreamKeepsMInv ==
  ASSUME MInv,
         \/ \E q \in QuoteFeed : ReceiveQuote(q)
         \/ StreamEnds \/ StreamFails \/ QuoteSaved \/ QuoteRecorded \/ FailureRecorded
  PROVE  MInv'
<1> USE DEF QuoteStages, BarStages
<1>0. /\ job \in JobType /\ clock \in 0 .. MaxClock /\ faults \in 0 .. MaxFaults
      /\ quotes \in SUBSET QuoteType /\ bars \in SUBSET BarType
      /\ provider \in ProviderType \cup {NoState}
      /\ latest \in SUBSET QuoteType
      /\ Attempts \in Nat \ {0} /\ MaxClock \in Nat
  BY BoundsAssumption DEF MInv, TypeOK
<1>1. ASSUME NEW f \in QuoteFeed, ReceiveQuote(f) PROVE MInv'
  <2> DEFINE q == Received(f)
  <2>1. /\ job.stage = "streaming" /\ clock < MaxClock /\ clock' = clock + 1
        /\ job' = [job EXCEPT !.stage = "saving quote", !.hand = {q}]
        /\ quotes' = quotes /\ bars' = bars /\ provider' = provider
        /\ faults' = faults /\ latest' = latest
    BY <1>1 DEF ReceiveQuote
  <2>2. q \in QuoteType
    <3>1. clock + 1 \in 1 .. MaxClock
      BY <1>0, <2>1
    <3> QED BY <3>1, FeedAssumption DEF Received, QuoteType
  <2> HIDE DEF q
  <2>3. /\ job' \in JobType /\ job'.stage = "saving quote" /\ job'.hand = {q}
        /\ job'.failures = job.failures /\ job'.reconnecting = job.reconnecting
    <3>1. {q} \in (SUBSET QuoteType) \cup (SUBSET BarType)
      BY <2>2
    <3> QED BY <1>0, <2>1, <3>1 DEF JobType, Stages
  <2>4. TypeOK'
    BY <1>0, <2>1, <2>3 DEF MInv, TypeOK
  <2>5. InHand' /\ StoredFirst'
    BY <2>2, <2>3 DEF InHand, StoredFirst
  <2>6. Counted'
    BY <2>1, <2>3 DEF MInv, Counted, OnRecord
  <2> QED BY <2>1, <2>4, <2>5, <2>6 DEF MInv, CacheIsDurable
<1>2. ASSUME StreamEnds PROVE MInv'
  <2>1. /\ job' = [NewCycle EXCEPT !.stage = "fetching bars"]
        /\ quotes' = quotes /\ bars' = bars /\ provider' = provider
        /\ clock' = clock /\ faults' = faults /\ latest' = latest
    BY <1>2 DEF StreamEnds
  <2>2. job' \in JobType /\ job'.stage = "fetching bars" /\ job'.attempt = 0
    BY <2>1, NewCycleType, StageMoved DEF Stages
  <2>3. TypeOK'
    BY <1>0, <2>1, <2>2 DEF MInv, TypeOK
  <2>4. InHand' /\ StoredFirst' /\ Counted'
    <3>1. InHand' /\ StoredFirst'
      BY <2>2 DEF InHand, StoredFirst
    <3>2. ~ (job'.attempt > 0)
      <4>1. job'.attempt = 0
        BY <2>2
      <4> QED BY <4>1, Z3
    <3>3. Counted'
      BY <2>2, <3>2 DEF Counted, OnRecord
    <3> QED BY <3>1, <3>3
  <2> QED BY <2>1, <2>3, <2>4 DEF MInv, CacheIsDurable
<1>3. ASSUME StreamFails PROVE MInv'
  <2>1. /\ job.stage = "streaming"
        /\ job' = [job EXCEPT !.stage = "recording failure", !.failures = @ + 1]
        /\ quotes' = quotes /\ bars' = bars /\ provider' = provider
        /\ clock' = clock /\ latest' = latest
    BY <1>3 DEF StreamFails
  <2>2. faults' \in 0 .. MaxFaults
    BY <1>3, FaultCounted DEF StreamFails, MInv
  <2>3. job.failures \in Nat /\ job.failures < Attempts /\ OnRecord(job.failures)
    BY <1>0, <2>1 DEF MInv, Counted, JobType
  <2>4. /\ job' \in JobType /\ job'.stage = "recording failure"
        /\ job'.failures = job.failures + 1
    <3>1. job.failures + 1 \in 0 .. Attempts
      BY <1>0, <2>3
    <3>2. job' = [job EXCEPT !.stage = "recording failure", !.failures = job.failures + 1]
      BY <2>1
    <3> QED BY <1>0, <3>1, <3>2 DEF JobType, Stages
  <2>5. TypeOK'
    BY <1>0, <2>1, <2>2, <2>4 DEF MInv, TypeOK
  <2>6. InHand' /\ StoredFirst'
    BY <2>4 DEF InHand, StoredFirst
  <2>7. Counted'
    BY <2>1, <2>3, <2>4 DEF Counted, OnRecord
  <2> QED BY <2>1, <2>5, <2>6, <2>7 DEF MInv, CacheIsDurable
<1>4. ASSUME QuoteSaved PROVE MInv'
  <2>1. PICK q \in job.hand :
          /\ job.stage = "saving quote"
          /\ quotes' = SaveQuote(quotes, q)
          /\ job' = [job EXCEPT !.stage = "recording quote",
                                !.last = LastMessage(job.last, q.received)]
          /\ bars' = bars /\ provider' = provider
          /\ clock' = clock /\ faults' = faults /\ latest' = latest
    BY <1>4 DEF QuoteSaved
  <2>2. q \in QuoteType /\ job.hand = {q}
    BY <2>1 DEF MInv, InHand
  <2>3. LastMessage(job.last, q.received) \in ReceiptTime
    BY <1>0, <2>2, LastMessageType DEF JobType, QuoteType, ReceiptTime
  <2>4. /\ job' \in JobType /\ job'.stage = "recording quote" /\ job'.hand = {q}
        /\ job'.failures = job.failures /\ job'.reconnecting = job.reconnecting
    BY <1>0, <2>1, <2>2, <2>3 DEF JobType, Stages
  <2>5. /\ \E r \in quotes' : QuoteFingerprint(r) = QuoteFingerprint(q)
        /\ quotes \subseteq quotes' /\ quotes' \subseteq quotes \cup {q}
    BY <2>1, QuoteStored
  <2>6. TypeOK'
    BY <1>0, <2>1, <2>2, <2>4, <2>5 DEF MInv, TypeOK
  <2>7. InHand' /\ StoredFirst'
    BY <2>2, <2>4, <2>5 DEF InHand, StoredFirst
  <2>8. Counted'
    BY <2>1, <2>4 DEF MInv, Counted, OnRecord
  <2>9. CacheIsDurable'
    BY <2>1, <2>5 DEF MInv, CacheIsDurable
  <2> QED BY <2>6, <2>7, <2>8, <2>9 DEF MInv
<1>5. ASSUME QuoteRecorded PROVE MInv'
  <2>1. PICK q \in job.hand :
          /\ job.stage = "recording quote"
          /\ provider' = RecordSuccess(provider, job.last, job.reconnecting)
          /\ latest' = Remember(latest, q)
          /\ job' = [job EXCEPT !.stage = "streaming", !.hand = {},
                                !.failures = 0, !.reconnecting = FALSE]
          /\ quotes' = quotes /\ bars' = bars /\ clock' = clock /\ faults' = faults
    BY <1>5 DEF QuoteRecorded
  <2>2. q \in QuoteType
    BY <2>1 DEF MInv, InHand
  <2>3. provider' \in ProviderType
    BY <1>0, <2>1, SuccessType DEF JobType
  <2>4. /\ job' \in JobType /\ job'.stage = "streaming"
        /\ job'.failures = 0 /\ job'.reconnecting = FALSE
    <3>1. 0 \in 0 .. Attempts /\ {} \in (SUBSET QuoteType) \cup (SUBSET BarType)
      BY <1>0
    <3>2. job' = [job EXCEPT !.stage = "streaming", !.hand = {},
                             !.failures = 0, !.reconnecting = FALSE]
      BY <2>1
    <3> QED BY <1>0, <3>1, <3>2 DEF JobType, Stages
  <2>5. /\ latest' \subseteq latest \cup {q}
        /\ \A a, b \in latest' : a.symbol = b.symbol => a = b
    BY <2>1, RememberKeeps DEF MInv, TypeOK
  <2>6. TypeOK'
    BY <1>0, <2>1, <2>2, <2>3, <2>4, <2>5 DEF MInv, TypeOK
  <2>7. InHand' /\ StoredFirst' /\ Counted'
    BY <1>0, <2>4 DEF InHand, StoredFirst, Counted, OnRecord
  <2>8. CacheIsDurable'
    BY <2>1, <2>5 DEF MInv, CacheIsDurable, StoredFirst
  <2> QED BY <2>6, <2>7, <2>8 DEF MInv
<1>6. ASSUME FailureRecorded PROVE MInv'
  <2>1. /\ job.stage = "recording failure"
        /\ quotes' = quotes /\ bars' = bars /\ clock' = clock /\ faults' = faults
    BY <1>6 DEF FailureRecorded
  <2>2. job.last \in ReceiptTime
    BY <1>0 DEF JobType
  <2>3. CASE job.failures >= Attempts
    <3>1. job' = Ended /\ latest' = {}
      BY <1>6, <2>3 DEF FailureRecorded
    <3>2. provider' = RecordFailure(provider, TRUE, job.last)
      BY <1>6, <2>3 DEF FailureRecorded, RecordFailure
    <3>3. provider' \in ProviderType
      BY <1>0, <2>2, <3>2, FailureType
    <3> QED BY <1>0, <2>1, <3>1, <3>3, EndKeepsMInv
  <2>4. CASE ~(job.failures >= Attempts)
    <3>1. /\ job' = [job EXCEPT !.stage = "streaming", !.reconnecting = TRUE]
          /\ latest' = latest
      BY <1>6, <2>4 DEF FailureRecorded
    <3>2. provider' = RecordFailure(provider, FALSE, job.last)
      BY <1>6, <2>4 DEF FailureRecorded, RecordFailure
    <3>3. /\ provider' \in ProviderType
          /\ provider'.status = "degraded"
          /\ provider'.failures = IF provider = NoState THEN 1 ELSE provider.failures + 1
      BY <1>0, <2>2, <3>2, FailureType
    <3>4. job.failures \in Nat /\ job.failures > 0 /\ OnRecord(job.failures - 1)
      <4>1. job.failures \in Nat
        BY <1>0 DEF JobType
      <4>2. job.failures > 0 /\ OnRecord(job.failures - 1)
        BY <2>1 DEF MInv, Counted
      <4> QED BY <4>1, <4>2
    <3>5. /\ job' \in JobType /\ job'.stage = "streaming"
          /\ job'.failures = job.failures /\ job'.reconnecting = TRUE
      BY <1>0, <3>1 DEF JobType, Stages
    <3>6. provider'.failures >= job.failures
      <4>1. CASE job.failures = 1
        BY <1>0, <3>3, <4>1 DEF ProviderType
      <4>2. CASE job.failures > 1
        BY <1>0, <3>3, <3>4, <4>2 DEF ProviderType, OnRecord
      <4> QED BY <3>4, <4>1, <4>2
    <3>7. provider' # NoState
      BY <3>3, NoStateAssumption
    <3>8. TypeOK'
      BY <1>0, <2>1, <3>1, <3>3, <3>5 DEF MInv, TypeOK
    <3>9. InHand' /\ StoredFirst'
      BY <3>5 DEF InHand, StoredFirst
    <3>10. Counted'
      BY <1>0, <2>4, <3>3, <3>4, <3>5, <3>6, <3>7 DEF Counted, OnRecord
    <3> QED BY <2>1, <3>1, <3>8, <3>9, <3>10 DEF MInv, CacheIsDurable
  <2> QED BY <2>3, <2>4
<1> QED BY <1>1, <1>2, <1>3, <1>4, <1>5, <1>6

\* The bars of a batch are bars, received now.
LEMMA BatchType ==
  ASSUME clock \in 0 .. MaxClock, clock < MaxClock, NEW symbol, NEW batch \in Batches(symbol)
  PROVE  batch \in SUBSET BarType /\ \A b \in batch : b.received = clock + 1
<1>1. clock + 1 \in 1 .. MaxClock
  BY BoundsAssumption
<1> QED BY <1>1, FeedAssumption DEF Batches, BarType

\* Steps of refresh_bars keep the invariant.
LEMMA BarsKeepMInv ==
  ASSUME MInv,
         \/ BarsFetched \/ BarsFetchFails \/ BarsFailureRecorded
         \/ BarsSaved \/ BarsRecorded
  PROVE  MInv'
<1> USE DEF QuoteStages, BarStages
<1>0. /\ job \in JobType /\ clock \in 0 .. MaxClock /\ faults \in 0 .. MaxFaults
      /\ quotes \in SUBSET QuoteType /\ bars \in SUBSET BarType
      /\ provider \in ProviderType \cup {NoState}
      /\ latest \in SUBSET QuoteType
      /\ Attempts \in Nat \ {0} /\ MaxClock \in Nat
      /\ {} \in (SUBSET QuoteType) \cup (SUBSET BarType)
      /\ job.attempt \in Nat
  BY BoundsAssumption DEF MInv, TypeOK, JobType
<1>1. ASSUME BarsFetched PROVE MInv'
  <2>1. PICK batch \in IF clock < MaxClock THEN Batches(Symbol) ELSE {{}} :
          /\ job.stage = "fetching bars"
          /\ clock' = IF batch = {} THEN clock ELSE clock + 1
          /\ job' = [job EXCEPT !.stage = "saving bars", !.hand = batch]
          /\ quotes' = quotes /\ bars' = bars /\ provider' = provider
          /\ faults' = faults /\ latest' = latest
    BY <1>1 DEF BarsFetched
  <2>2. batch \in SUBSET BarType
    <3>1. CASE clock < MaxClock
      BY <1>0, <2>1, <3>1, BatchType
    <3>2. CASE ~(clock < MaxClock)
      BY <2>1, <3>2
    <3> QED BY <3>1, <3>2
  <2>3. clock' \in 0 .. MaxClock
    <3>1. CASE clock < MaxClock
      <4>1. clock + 1 \in 0 .. MaxClock
        BY <1>0, <3>1
      <4> QED BY <1>0, <2>1, <4>1
    <3>2. CASE ~(clock < MaxClock)
      <4>1. batch = {}
        BY <2>1, <3>2
      <4> QED BY <1>0, <2>1, <4>1
    <3> QED BY <3>1, <3>2
  <2>4. /\ job' \in JobType /\ job'.stage = "saving bars" /\ job'.hand = batch
        /\ job'.attempt = job.attempt
    BY <1>0, <2>1, <2>2 DEF JobType, Stages
  <2>5. TypeOK'
    BY <1>0, <2>1, <2>3, <2>4 DEF MInv, TypeOK
  <2>6. InHand' /\ StoredFirst'
    BY <2>2, <2>4 DEF InHand, StoredFirst
  <2>7. Counted'
    BY <2>1, <2>4 DEF MInv, Counted, OnRecord
  <2> QED BY <2>1, <2>5, <2>6, <2>7 DEF MInv, CacheIsDurable
<1>2. ASSUME BarsFetchFails PROVE MInv'
  <2>1. /\ job.stage = "fetching bars"
        /\ job' = [job EXCEPT !.stage = "recording bars failure"]
        /\ quotes' = quotes /\ bars' = bars /\ provider' = provider
        /\ clock' = clock /\ latest' = latest
    BY <1>2 DEF BarsFetchFails
  <2>2. faults' \in 0 .. MaxFaults
    BY <1>2, FaultCounted DEF BarsFetchFails, MInv
  <2>3. /\ job' \in JobType /\ job'.stage = "recording bars failure"
        /\ job'.attempt = job.attempt
    BY <1>0, <2>1, StageMoved DEF Stages
  <2>4. TypeOK'
    BY <1>0, <2>1, <2>2, <2>3 DEF MInv, TypeOK
  <2>5. InHand' /\ StoredFirst'
    BY <2>3 DEF InHand, StoredFirst
  <2>6. Counted'
    BY <2>1, <2>3 DEF MInv, Counted, OnRecord
  <2> QED BY <2>1, <2>4, <2>5, <2>6 DEF MInv, CacheIsDurable
<1>3. ASSUME BarsFailureRecorded PROVE MInv'
  <2>1. /\ job.stage = "recording bars failure"
        /\ quotes' = quotes /\ bars' = bars /\ clock' = clock /\ faults' = faults
    BY <1>3 DEF BarsFailureRecorded
  <2>2. NoTime \in ReceiptTime
    BY DEF ReceiptTime
  <2>3. CASE job.attempt = Attempts - 1
    <3>1. job' = Ended /\ latest' = {}
      BY <1>3, <2>3 DEF BarsFailureRecorded
    <3>2. provider' = RecordFailure(provider, TRUE, NoTime)
      BY <1>3, <2>3 DEF BarsFailureRecorded, RecordFailure
    <3>3. provider' \in ProviderType
      BY <1>0, <2>2, <3>2, FailureType
    <3> QED BY <1>0, <2>1, <3>1, <3>3, EndKeepsMInv
  <2>4. CASE job.attempt # Attempts - 1
    <3>1. /\ job' = [job EXCEPT !.stage = "fetching bars", !.attempt = job.attempt + 1]
          /\ latest' = latest
      BY <1>3, <2>4 DEF BarsFailureRecorded
    <3>2. provider' = RecordFailure(provider, FALSE, NoTime)
      BY <1>3, <2>4 DEF BarsFailureRecorded, RecordFailure
    <3>3. /\ provider' \in ProviderType
          /\ provider'.status = "degraded"
          /\ provider'.failures = IF provider = NoState THEN 1 ELSE provider.failures + 1
      BY <1>0, <2>2, <3>2, FailureType
    <3>4. OnRecord(job.attempt)
      BY <2>1 DEF MInv, Counted
    <3>5. job.attempt + 1 \in 0 .. (Attempts - 1)
      <4>1. job.attempt \in 0 .. (Attempts - 1)
        BY <1>0 DEF JobType
      <4> QED BY <1>0, <2>4, <4>1
    <3>6. /\ job' \in JobType /\ job'.stage = "fetching bars"
          /\ job'.attempt = job.attempt + 1
      BY <1>0, <3>1, <3>5 DEF JobType, Stages
    <3>7. provider'.failures >= job.attempt + 1
      <4>1. CASE job.attempt = 0
        BY <1>0, <3>3, <4>1 DEF ProviderType
      <4>2. CASE job.attempt > 0
        BY <1>0, <3>3, <3>4, <4>2 DEF ProviderType, OnRecord
      <4> QED BY <1>0, <4>1, <4>2
    <3>8. provider' # NoState
      BY <3>3, NoStateAssumption
    <3>9. TypeOK'
      BY <1>0, <2>1, <3>1, <3>3, <3>6 DEF MInv, TypeOK
    <3>10. InHand' /\ StoredFirst'
      BY <3>6 DEF InHand, StoredFirst
    <3>11. Counted'
      BY <3>3, <3>6, <3>7, <3>8 DEF Counted, OnRecord
    <3> QED BY <2>1, <3>1, <3>9, <3>10, <3>11 DEF MInv, CacheIsDurable
  <2> QED BY <2>3, <2>4
<1>4. ASSUME BarsSaved PROVE MInv'
  <2>1. /\ job.stage = "saving bars"
        /\ bars' = SaveBars(bars, job.hand)
        /\ job' = [job EXCEPT !.stage = "recording bars", !.hand = {}]
        /\ quotes' = quotes /\ provider' = provider
        /\ clock' = clock /\ faults' = faults /\ latest' = latest
    BY <1>4 DEF BarsSaved
  <2>2. bars' \in SUBSET BarType
    BY <1>0, <2>1 DEF MInv, InHand, SaveBars
  <2>3. /\ job' \in JobType /\ job'.stage = "recording bars"
        /\ job'.attempt = job.attempt
    BY <1>0, <2>1 DEF JobType, Stages
  <2>4. TypeOK'
    BY <1>0, <2>1, <2>2, <2>3 DEF MInv, TypeOK
  <2>5. InHand' /\ StoredFirst'
    BY <2>3 DEF InHand, StoredFirst
  <2>6. Counted'
    BY <2>1, <2>3 DEF MInv, Counted, OnRecord
  <2> QED BY <2>1, <2>4, <2>5, <2>6 DEF MInv, CacheIsDurable
<1>5. ASSUME BarsRecorded PROVE MInv'
  <2>1. /\ job.stage = "recording bars"
        /\ quotes' = quotes /\ bars' = bars
        /\ clock' = clock /\ faults' = faults /\ latest' = latest
    BY <1>5 DEF BarsRecorded
  <2>2. provider' \in ProviderType
    <3>1. NoTime \in ReceiptTime
      BY DEF ReceiptTime
    <3>2. CASE job.attempt > 0
      <4>1. provider' = RecordSuccess(provider, NoTime, TRUE)
        BY <1>5, <3>2 DEF BarsRecorded, RecordSuccess
      <4> QED BY <1>0, <3>1, <4>1, SuccessType
    <3>3. CASE ~(job.attempt > 0)
      <4>1. provider' = RecordSuccess(provider, NoTime, FALSE)
        BY <1>5, <3>3 DEF BarsRecorded, RecordSuccess
      <4> QED BY <1>0, <3>1, <4>1, SuccessType
    <3> QED BY <3>2, <3>3
  <2>3. CASE job.position < Len(Watchlist)
    <3>1. job' = [job EXCEPT !.stage = "fetching bars", !.attempt = 0,
                             !.position = job.position + 1]
      BY <1>5, <2>3 DEF BarsRecorded
    <3>2. job.position + 1 \in 1 .. Len(Watchlist) /\ 0 \in 0 .. (Attempts - 1)
      BY <1>0, <2>3, WatchlistAssumption DEF JobType
    <3>3. job' \in JobType /\ job'.stage = "fetching bars" /\ job'.attempt = 0
      BY <1>0, <3>1, <3>2 DEF JobType, Stages
    <3>4. TypeOK'
      BY <1>0, <2>1, <2>2, <3>3 DEF MInv, TypeOK
    <3>5. InHand' /\ StoredFirst'
      BY <3>3 DEF InHand, StoredFirst
    <3>6. ~ (job'.attempt > 0)
      <4>1. job'.attempt = 0
        BY <3>3
      <4> QED BY <4>1, Z3
    <3>7. Counted'
      BY <3>3, <3>6 DEF Counted, OnRecord
    <3> QED BY <2>1, <3>4, <3>5, <3>7 DEF MInv, CacheIsDurable
  <2>4. CASE ~(job.position < Len(Watchlist))
    <3>1. job' = NewCycle
      BY <1>5, <2>4 DEF BarsRecorded
    <3>2. /\ job' \in JobType /\ job'.stage = "streaming"
          /\ job'.failures = 0 /\ job'.reconnecting = FALSE
      BY <3>1, NewCycleType
    <3>3. TypeOK'
      BY <1>0, <2>1, <2>2, <3>2 DEF MInv, TypeOK
    <3>4. InHand' /\ StoredFirst'
      BY <3>2 DEF InHand, StoredFirst
    <3>5. Counted'
      BY <1>0, <3>2 DEF Counted, OnRecord
    <3> QED BY <2>1, <3>3, <3>4, <3>5 DEF MInv, CacheIsDurable
  <2> QED BY <2>3, <2>4
<1> QED BY <1>1, <1>2, <1>3, <1>4, <1>5

\* The message a failed write reports has a receipt time, or none.
LEMMA ReportedType ==
  ASSUME MInv, job.stage \in {"saving quote", "recording quote", "saving bars", "recording bars"}
  PROVE  (CASE job.stage = "saving quote" -> (CHOOSE q \in job.hand : TRUE).received
            [] job.stage = "recording quote" -> job.last
            [] job.stage = "saving bars" ->
                 IF job.hand = {} THEN NoTime
                 ELSE (CHOOSE b \in job.hand : TRUE).received
            [] OTHER -> NoTime) \in ReceiptTime
<1>1. CASE job.stage = "saving quote"
  <2>1. PICK q \in job.hand : job.hand = {q} /\ q \in QuoteType
    BY <1>1 DEF MInv, InHand, QuoteStages
  <2>2. (CHOOSE x \in job.hand : TRUE) \in job.hand
    BY <2>1
  <2>3. (CHOOSE x \in job.hand : TRUE).received \in ReceiptTime
    BY <2>1, <2>2 DEF QuoteType, ReceiptTime
  <2> QED BY <1>1, <2>3
<1>2. CASE job.stage = "recording quote"
  <2>1. job.last \in ReceiptTime
    BY DEF MInv, TypeOK, JobType
  <2> QED BY <1>2, <2>1
<1>3. CASE job.stage = "saving bars"
  <2>1. CASE job.hand = {}
    BY <1>3, <2>1 DEF ReceiptTime
  <2>2. CASE job.hand # {}
    <3>1. (CHOOSE b \in job.hand : TRUE) \in BarType
      BY <1>3, <2>2 DEF MInv, InHand
    <3>2. (CHOOSE b \in job.hand : TRUE).received \in ReceiptTime
      BY <3>1 DEF BarType, ReceiptTime
    <3> QED BY <1>3, <2>2, <3>2
  <2> QED BY <2>1, <2>2
<1>4. CASE job.stage = "recording bars"
  BY <1>4 DEF ReceiptTime
<1> QED BY <1>1, <1>2, <1>3, <1>4

\* A failed write leaves the counters to the next process.
LEMMA WriteFailsKeepsMInv ==
  ASSUME MInv, WriteFails
  PROVE  MInv'
<1> DEFINE reported ==
      CASE job.stage = "saving quote" -> (CHOOSE q \in job.hand : TRUE).received
        [] job.stage = "recording quote" -> job.last
        [] job.stage = "saving bars" ->
             IF job.hand = {} THEN NoTime
             ELSE (CHOOSE b \in job.hand : TRUE).received
        [] OTHER -> NoTime
<1>1. /\ job' = [job EXCEPT !.stage = "reporting", !.last = reported]
      /\ quotes' = quotes /\ bars' = bars /\ provider' = provider
      /\ clock' = clock /\ latest' = latest
  BY DEF WriteFails
<1>2. reported \in ReceiptTime
  BY ReportedType DEF WriteFails
<1> HIDE DEF reported
<1>3. job' \in JobType /\ job'.stage = "reporting"
  BY <1>1, <1>2 DEF MInv, TypeOK, JobType, Stages
<1>4. faults' \in 0 .. MaxFaults
  BY FaultCounted DEF WriteFails, MInv
<1>5. TypeOK'
  BY <1>1, <1>3, <1>4 DEF MInv, TypeOK
<1>6. InHand' /\ StoredFirst' /\ Counted'
  BY <1>3 DEF InHand, StoredFirst, Counted, QuoteStages, BarStages
<1>7. CacheIsDurable'
  BY <1>1 DEF MInv, CacheIsDurable
<1> QED BY <1>5, <1>6, <1>7 DEF MInv

\* Every step keeps the invariant.
LEMMA NextMInv == MInv /\ [Next]_vars => MInv'
<1> SUFFICES ASSUME MInv, [Next]_vars PROVE MInv'
  OBVIOUS
<1>0. /\ provider \in ProviderType \cup {NoState} /\ faults \in 0 .. MaxFaults
      /\ job.last \in ReceiptTime
  BY DEF MInv, TypeOK, JobType
<1>1. ASSUME Start PROVE MInv'
  <2>1. /\ job' = NewCycle /\ latest' = {} /\ quotes' = quotes /\ bars' = bars
        /\ provider' = provider /\ clock' = clock /\ faults' = faults
    BY <1>1 DEF Start
  <2>2. TypeOK'
    BY <2>1, NewCycleType DEF MInv, TypeOK
  <2>3. InHand' /\ StoredFirst'
    BY <2>1, NewCycleType DEF InHand, StoredFirst, QuoteStages
  <2>4. Counted'
    BY <2>1, NewCycleType, BoundsAssumption
       DEF Counted, OnRecord, QuoteStages, BarStages
  <2>5. CacheIsDurable'
    BY <2>1 DEF CacheIsDurable
  <2> QED BY <2>2, <2>3, <2>4, <2>5 DEF MInv
<1>2. ASSUME Die \/ FailureNotRecorded \/ PersistenceFailureLost PROVE MInv'
  <2>1. /\ job' = Ended /\ latest' = {} /\ quotes' = quotes /\ bars' = bars
        /\ provider' = provider /\ clock' = clock
    BY <1>2 DEF Die, FailureNotRecorded, PersistenceFailureLost
  <2>2. faults' \in 0 .. MaxFaults
    BY <1>2, FaultCounted DEF MInv, Die, FailureNotRecorded, PersistenceFailureLost
  <2> QED BY <1>0, <2>1, <2>2, EndKeepsMInv
<1>3. ASSUME PersistenceFailureReported PROVE MInv'
  <2>1. /\ job' = Ended /\ latest' = {} /\ quotes' = quotes /\ bars' = bars
        /\ clock' = clock /\ faults' = faults
        /\ provider' = RecordFailure(provider, TRUE, job.last)
    BY <1>3 DEF PersistenceFailureReported
  <2>2. provider' \in ProviderType
    BY <1>0, <2>1, FailureType
  <2> QED BY <1>0, <2>1, <2>2, EndKeepsMInv
<1>4. ASSUME UNCHANGED vars PROVE MInv'
  BY <1>4 DEF vars, MInv, TypeOK, InHand, StoredFirst, CacheIsDurable, Counted, OnRecord
<1> QED BY <1>1, <1>2, <1>3, <1>4, StreamKeepsMInv, BarsKeepMInv, WriteFailsKeepsMInv
        DEF Next, Work, Trouble

\* The strengthening holds in every reachable state.
THEOREM MarketInvariant == Spec => []MInv
BY InitMInv, NextMInv, PTL DEF Spec

-----------------------------------------------------------------------------
(* The invariants.                                                         *)

\* Tables, cache and locals keep their types; no more attempts are made than
\* allowed (market/service.py 301-390).
THEOREM MarketTypeCorrect == Spec => []TypeOK
BY MarketInvariant, PTL DEF MInv

\* A quote is in _latest only if its observation is stored (service.py 313-324).
THEOREM PersistedBeforePublished == Spec => []CacheIsDurable
BY MarketInvariant, PTL DEF MInv

\* While the worker retries, the stored state says so (service.py 329-352).
THEOREM RetriesOnRecord == Spec => []FailuresOnRecord
<1>1. MInv => FailuresOnRecord
  BY DEF MInv, Counted, OnRecord, QuoteStages, BarStages, FailuresOnRecord
<1> QED BY <1>1, MarketInvariant, PTL

-----------------------------------------------------------------------------
(* What a step may never do.                                               *)

\* The provider's state changes by a failure or a success recorded, and a
\* success counts as a reconnect only when failures are on record.
LEMMA ProviderSteps ==
  ASSUME MInv, Next
  PROVE  \/ provider' = provider
         \/ \E exhausted \in BOOLEAN, reported \in ReceiptTime :
              provider' = RecordFailure(provider, exhausted, reported)
         \/ \E reported \in ReceiptTime, reconnected \in BOOLEAN :
              /\ provider' = RecordSuccess(provider, reported, reconnected)
              /\ reconnected => provider # NoState /\ provider.failures > 0
<1>0. /\ job.last \in ReceiptTime /\ NoTime \in ReceiptTime
      /\ job.reconnecting \in BOOLEAN /\ job.attempt \in Nat /\ job.failures \in Nat
      /\ provider \in ProviderType \cup {NoState}
  BY BoundsAssumption DEF MInv, TypeOK, JobType, ReceiptTime
<1>1. CASE QuoteRecorded
  <2>1. /\ job.stage = "recording quote"
        /\ provider' = RecordSuccess(provider, job.last, job.reconnecting)
    BY <1>1 DEF QuoteRecorded
  <2>2. job.reconnecting => job.failures > 0 /\ OnRecord(job.failures)
    BY <2>1 DEF MInv, Counted, QuoteStages
  <2>3. job.reconnecting => provider # NoState /\ provider.failures > 0
    BY <1>0, <2>2 DEF OnRecord, ProviderType
  <2> QED BY <1>0, <2>1, <2>3
<1>2. CASE BarsRecorded
  <2>1. job.stage = "recording bars" /\ OnRecord(job.attempt)
    BY <1>2 DEF BarsRecorded, MInv, Counted, BarStages
  <2>2. CASE job.attempt > 0
    <3>1. provider' = RecordSuccess(provider, NoTime, TRUE)
      BY <1>2, <2>2 DEF BarsRecorded, RecordSuccess
    <3>2. provider # NoState /\ provider.failures > 0
      <4>1. provider # NoState /\ provider.failures >= job.attempt
        BY <2>1, <2>2 DEF OnRecord
      <4>2. provider.failures \in Nat
        BY <1>0, <4>1 DEF ProviderType
      <4> QED BY <1>0, <2>2, <4>1, <4>2
    <3> QED BY <1>0, <3>1, <3>2
  <2>3. CASE ~(job.attempt > 0)
    <3>1. provider' = RecordSuccess(provider, NoTime, FALSE)
      BY <1>2, <2>3 DEF BarsRecorded, RecordSuccess
    <3> QED BY <1>0, <3>1
  <2> QED BY <2>2, <2>3
<1>3. CASE FailureRecorded
  <2>1. \/ provider' = RecordFailure(provider, TRUE, job.last)
        \/ provider' = RecordFailure(provider, FALSE, job.last)
    BY <1>3 DEF FailureRecorded, RecordFailure
  <2> QED BY <1>0, <2>1
<1>4. CASE BarsFailureRecorded
  <2>1. \/ provider' = RecordFailure(provider, TRUE, NoTime)
        \/ provider' = RecordFailure(provider, FALSE, NoTime)
    BY <1>4 DEF BarsFailureRecorded, RecordFailure
  <2> QED BY <1>0, <2>1
<1>5. CASE PersistenceFailureReported
  BY <1>0, <1>5 DEF PersistenceFailureReported
<1>6. CASE \/ Start \/ (\E q \in QuoteFeed : ReceiveQuote(q)) \/ StreamEnds \/ QuoteSaved
           \/ BarsFetched \/ BarsSaved \/ Trouble
  BY <1>6 DEF Start, ReceiveQuote, StreamEnds, QuoteSaved, BarsFetched, BarsSaved,
              Trouble, Die, StreamFails, FailureNotRecorded, WriteFails,
              PersistenceFailureLost, BarsFetchFails
<1> QED BY <1>1, <1>2, <1>3, <1>4, <1>5, <1>6 DEF Next, Work

\* The time of the last message is never lost or moved back
\* (market_repository.py 282-355).
THEOREM LastMessageMonotone == Spec => LastMessageKept
<1>1. ASSUME MInv, Next, provider # NoState, provider.lastMessage # NoTime
      PROVE  /\ provider'.lastMessage # NoTime
             /\ provider'.lastMessage >= provider.lastMessage
  <2>1. provider \in ProviderType /\ provider.lastMessage \in ReceiptTime
    BY <1>1 DEF MInv, TypeOK, ProviderType
  <2>2. provider.lastMessage \in Int
    BY <1>1, <2>1 DEF ReceiptTime
  <2>3. \/ provider' = provider
        \/ \E reported \in ReceiptTime :
             provider'.lastMessage = LastMessage(provider.lastMessage, reported)
    BY <1>1, <2>1, ProviderSteps, FailureType, SuccessType
  <2> QED BY <1>1, <2>1, <2>2, <2>3, LastMessageType
<1>2. MInv /\ [Next]_vars =>
        [(provider # NoState /\ provider.lastMessage # NoTime) =>
           /\ provider'.lastMessage # NoTime
           /\ provider'.lastMessage >= provider.lastMessage]_vars
  BY <1>1
<1> QED BY <1>2, MarketInvariant, PTL DEF Spec, LastMessageKept

\* A reconnect is counted once, by the success that ends a run of recorded
\* failures (market_repository.py 282-318).
THEOREM ReconnectsCountOutages == Spec => ReconnectsEarned
<1> DEFINE count(state) == IF state = NoState THEN 0 ELSE state.reconnects
<1>1. ASSUME MInv, Next, count(provider') > count(provider)
      PROVE  /\ provider # NoState /\ provider.failures > 0
             /\ provider'.failures = 0
             /\ provider'.reconnects = provider.reconnects + 1
  <2>1. provider \in ProviderType \cup {NoState} /\ count(provider) \in Nat
    BY <1>1 DEF MInv, TypeOK, ProviderType
  <2>2. CASE provider' = provider
    BY <1>1, <2>1, <2>2
  <2>3. ASSUME NEW exhausted \in BOOLEAN, NEW reported \in ReceiptTime,
               provider' = RecordFailure(provider, exhausted, reported)
        PROVE  FALSE
    <3>1. provider' \in ProviderType /\ provider'.reconnects = count(provider)
      BY <2>1, <2>3, FailureType
    <3>2. count(provider') = count(provider)
      BY <3>1, NoStateAssumption
    <3> QED BY <1>1, <2>1, <3>2
  <2>4. ASSUME NEW reported \in ReceiptTime, NEW reconnected \in BOOLEAN,
               provider' = RecordSuccess(provider, reported, reconnected),
               reconnected => provider # NoState /\ provider.failures > 0
        PROVE  /\ provider # NoState /\ provider.failures > 0
               /\ provider'.failures = 0
               /\ provider'.reconnects = provider.reconnects + 1
    <3>1. /\ provider' \in ProviderType /\ provider'.failures = 0
          /\ provider'.reconnects = count(provider) + (IF reconnected THEN 1 ELSE 0)
      BY <2>1, <2>4, SuccessType
    <3>2. count(provider') = provider'.reconnects
      BY <3>1, NoStateAssumption
    <3>3. reconnected
      BY <1>1, <2>1, <3>1, <3>2
    <3> QED BY <2>4, <3>1, <3>3
  <2> QED BY <1>1, <2>2, <2>3, <2>4, ProviderSteps
<1>2. MInv /\ [Next]_vars =>
        [count(provider') > count(provider) =>
           /\ provider # NoState /\ provider.failures > 0
           /\ provider'.failures = 0
           /\ provider'.reconnects = provider.reconnects + 1]_vars
  BY <1>1
<1> QED BY <1>2, MarketInvariant, PTL DEF Spec, ReconnectsEarned

\* Saving an observation that was received after t changes no read as of t.
LEMMA LaterQuoteUnseen ==
  ASSUME NEW table \in SUBSET QuoteType, NEW q \in QuoteType, NEW t \in Int,
         q.received > t, NEW s
  PROVE  QuoteAsOf(SaveQuote(table, q), s, t) = QuoteAsOf(table, s, t)
<1>1. ~ (q.received <= t)
  BY DEF QuoteType
<1>2. {r \in SaveQuote(table, q) : r.symbol = s /\ r.received <= t}
        = {r \in table : r.symbol = s /\ r.received <= t}
  BY <1>1, QuoteStored
<1> QED BY <1>2 DEF QuoteAsOf

\* The same for a batch of bars.
LEMMA LaterBarsUnseen ==
  ASSUME NEW table \in SUBSET BarType, NEW batch \in SUBSET BarType, NEW t \in Int,
         \A b \in batch : b.received > t, NEW s
  PROVE  BarsAsOf(SaveBars(table, batch), s, t) = BarsAsOf(table, s, t)
<1>1. \A b \in batch : ~ (b.received <= t)
  BY DEF BarType
<1>2. {b \in SaveBars(table, batch) : b.symbol = s /\ b.final /\ b.received <= t}
        = {b \in table : b.symbol = s /\ b.final /\ b.received <= t}
  BY <1>1 DEF SaveBars
<1> QED BY <1>2 DEF BarsAsOf

\* A read as of t is final once nothing received by t is still to be saved
\* (market_repository.py 104-239).
THEOREM PastReadsFinal == Spec => PointInTimeStable
<1>1. ASSUME MInv, Next, NEW t \in 0 .. clock, \A h \in job.hand : h.received > t,
             NEW s \in Symbols
      PROVE  /\ QuoteAsOf(quotes', s, t) = QuoteAsOf(quotes, s, t)
             /\ BarsAsOf(bars', s, t) = BarsAsOf(bars, s, t)
  <2>1. t \in Int /\ quotes \in SUBSET QuoteType /\ bars \in SUBSET BarType
    BY <1>1 DEF MInv, TypeOK
  <2>2. CASE QuoteSaved
    <3>1. PICK q \in job.hand : quotes' = SaveQuote(quotes, q) /\ bars' = bars
      BY <2>2 DEF QuoteSaved
    <3>2. q \in QuoteType
      BY <1>1, <2>2, <3>1 DEF QuoteSaved, MInv, InHand, QuoteStages
    <3> QED BY <1>1, <2>1, <3>1, <3>2, LaterQuoteUnseen
  <2>3. CASE BarsSaved
    <3>1. bars' = SaveBars(bars, job.hand) /\ quotes' = quotes
      BY <2>3 DEF BarsSaved
    <3>2. job.hand \in SUBSET BarType
      BY <1>1, <2>3 DEF BarsSaved, MInv, InHand
    <3> QED BY <1>1, <2>1, <3>1, <3>2, LaterBarsUnseen
  <2>4. CASE quotes' = quotes /\ bars' = bars
    BY <2>4
  <2>5. QuoteSaved \/ BarsSaved \/ (quotes' = quotes /\ bars' = bars)
    BY <1>1 DEF Next, Work, Trouble, Start, ReceiveQuote, StreamEnds, QuoteRecorded,
       FailureRecorded, PersistenceFailureReported, BarsFetched, BarsRecorded,
       BarsFailureRecorded, Die, StreamFails, FailureNotRecorded, WriteFails,
       PersistenceFailureLost, BarsFetchFails
  <2> QED BY <2>2, <2>3, <2>4, <2>5
<1>2. MInv /\ [Next]_vars =>
        [\A t \in 0 .. clock :
           (\A h \in job.hand : h.received > t) =>
             \A s \in Symbols :
               /\ QuoteAsOf(quotes', s, t) = QuoteAsOf(quotes, s, t)
               /\ BarsAsOf(bars', s, t) = BarsAsOf(bars, s, t)]_vars
  BY <1>1
<1> QED BY <1>2, MarketInvariant, PTL DEF Spec, PointInTimeStable

-----------------------------------------------------------------------------
(* The tables and the cache.                                               *)

\* The quotes that are stored, published or in the worker's hands.
Seen == quotes \cup latest \cup (IF job.stage \in QuoteStages THEN job.hand ELSE {})

\* A receipt time belongs to one quote, and is no later than the clock.
ReceivedOnce ==
  /\ \A a, b \in Seen : a.received = b.received => a = b
  /\ \A a \in Seen : a.received <= clock
  /\ job.stage \in QuoteStages => \A q \in job.hand : q.received = clock

\* What is published, or about to be, has a row that was received no later.
RowNoLater ==
  \A q \in latest \cup (IF job.stage = "recording quote" THEN job.hand ELSE {}) :
    \E r \in quotes :
      QuoteFingerprint(r) = QuoteFingerprint(q) /\ r.received <= q.received

\* A symbol that has quotes has one of highest rank.
HasTop(table) ==
  \A q \in table : \E top \in table :
    /\ top.symbol = q.symbol
    /\ \A p \in table : p.symbol = q.symbol => ~RankAbove(p, top)

OInv == MInv /\ ReceivedOnce /\ RowNoLater /\ HasTop(quotes)

\* Market and receipt times are numbers.
LEMMA QuoteTimes ==
  ASSUME NEW q \in QuoteType
  PROVE  q.received \in Int /\ Effective(q) \in Int
<1>1. q.received \in Int /\ q.at \in Int \cup {NoTime}
  BY DEF QuoteType
<1> QED BY <1>1, FeedAssumption DEF Effective

\* One more row keeps a highest one: the old or the new.
LEMMA SavedHasTop ==
  ASSUME NEW table \in SUBSET QuoteType, NEW q \in QuoteType, HasTop(table)
  PROVE  HasTop(SaveQuote(table, q))
<1>0. \A x \in table \cup {q} : x.received \in Int /\ Effective(x) \in Int
  BY QuoteTimes
<1>1. CASE SaveQuote(table, q) = table
  BY <1>1
<1>2. CASE SaveQuote(table, q) = table \cup {q}
  <2> SUFFICES ASSUME NEW x \in table \cup {q}
               PROVE  \E top \in table \cup {q} :
                        /\ top.symbol = x.symbol
                        /\ \A p \in table \cup {q} :
                             p.symbol = x.symbol => ~RankAbove(p, top)
    BY <1>2 DEF HasTop
  <2>1. CASE \E y \in table : y.symbol = x.symbol
    <3>1. PICK top \in table :
            /\ top.symbol = x.symbol
            /\ \A p \in table : p.symbol = x.symbol => ~RankAbove(p, top)
      BY <2>1 DEF HasTop
    <3>2. CASE q.symbol = x.symbol /\ RankAbove(q, top)
      <4>1. \A p \in table : p.symbol = x.symbol => ~RankAbove(p, q)
        BY <1>0, <3>1, <3>2 DEF RankAbove
      <4>2. ~RankAbove(q, q)
        BY <1>0 DEF RankAbove
      <4> QED BY <3>2, <4>1, <4>2
    <3>3. CASE ~(q.symbol = x.symbol /\ RankAbove(q, top))
      BY <3>1, <3>3
    <3> QED BY <3>2, <3>3
  <2>2. CASE ~ \E y \in table : y.symbol = x.symbol
    <3>1. x = q /\ ~RankAbove(q, q)
      BY <1>0, <2>2 DEF RankAbove
    <3> QED BY <2>2, <3>1
  <2> QED BY <2>1, <2>2
<1> QED BY <1>1, <1>2 DEF SaveQuote

\* Steps that hold no quote and publish none.
LEMMA QuietKeepsOInv ==
  ASSUME OInv, MInv', quotes' = quotes, latest' \subseteq latest,
         clock' >= clock, job'.stage \notin QuoteStages
  PROVE  OInv'
<1>1. Seen' \subseteq Seen /\ Seen \subseteq QuoteType
  BY DEF Seen, OInv, MInv, TypeOK, InHand
<1>2. clock \in Int /\ clock' \in Int
  BY DEF OInv, MInv, TypeOK
<1>3. ReceivedOnce'
  <2>1. \A a \in Seen : a.received \in Int
    BY <1>1, QuoteTimes
  <2> QED BY <1>1, <1>2, <2>1 DEF OInv, ReceivedOnce
<1>4. RowNoLater'
  BY DEF OInv, RowNoLater, QuoteStages
<1>5. HasTop(quotes')
  BY DEF OInv
<1> QED BY <1>3, <1>4, <1>5 DEF OInv

\* Nothing is stored yet.
LEMMA InitOInv == Init => OInv
BY InitMInv, EndedType
   DEF Init, OInv, Seen, ReceivedOnce, RowNoLater, HasTop, QuoteStages

\* Every step keeps it.
LEMMA NextOInv == OInv /\ [Next]_vars => OInv'
<1> SUFFICES ASSUME OInv, [Next]_vars PROVE OInv'
  OBVIOUS
<1>0. /\ MInv' /\ clock \in Nat /\ quotes \in SUBSET QuoteType
      /\ latest \in SUBSET QuoteType /\ Seen \in SUBSET QuoteType
      /\ job \in JobType
  <2>1. MInv /\ MInv'
    BY NextMInv DEF OInv
  <2>2. /\ clock \in 0 .. MaxClock /\ quotes \in SUBSET QuoteType
        /\ latest \in SUBSET QuoteType /\ job \in JobType
    BY <2>1 DEF MInv, TypeOK
  <2>3. Seen \in SUBSET QuoteType
    BY <2>1, <2>2 DEF MInv, Seen, InHand
  <2> QED BY <2>1, <2>2, <2>3
<1>1. \A a \in Seen : a.received \in Int /\ a.received <= clock
  BY <1>0, QuoteTimes DEF OInv, ReceivedOnce
<1>2. ASSUME NEW f \in QuoteFeed, ReceiveQuote(f) PROVE OInv'
  <2> DEFINE q == Received(f)
  <2>1. /\ job.stage = "streaming" /\ clock' = clock + 1
        /\ job' = [job EXCEPT !.stage = "saving quote", !.hand = {q}]
        /\ quotes' = quotes /\ latest' = latest
    BY <1>2 DEF ReceiveQuote
  <2>2. q.received = clock + 1
    BY DEF Received
  <2> HIDE DEF q
  <2>3. job'.stage = "saving quote" /\ job'.hand = {q}
    BY <1>0, <2>1 DEF JobType
  <2>4. Seen' = Seen \cup {q}
    BY <2>1, <2>3 DEF Seen, QuoteStages
  <2>5. \A a \in Seen : a.received # q.received
    BY <1>0, <1>1, <2>2
  <2>6. ReceivedOnce'
    BY <1>0, <1>1, <2>1, <2>2, <2>3, <2>4, <2>5 DEF OInv, ReceivedOnce, QuoteStages
  <2>7. RowNoLater'
    BY <2>1, <2>3 DEF OInv, RowNoLater
  <2> QED BY <1>0, <2>1, <2>6, <2>7 DEF OInv
<1>3. ASSUME QuoteSaved PROVE OInv'
  <2>1. PICK q \in job.hand :
          /\ job.stage = "saving quote"
          /\ quotes' = SaveQuote(quotes, q)
          /\ job' = [job EXCEPT !.stage = "recording quote",
                                !.last = LastMessage(job.last, q.received)]
          /\ clock' = clock /\ latest' = latest
    BY <1>3 DEF QuoteSaved
  <2>2. /\ job.hand = {q} /\ q \in QuoteType /\ q \in Seen /\ q.received = clock
    BY <2>1 DEF OInv, MInv, InHand, Seen, ReceivedOnce, QuoteStages
  <2>3. job'.stage = "recording quote" /\ job'.hand = {q}
    BY <1>0, <2>1, <2>2 DEF JobType
  <2>4. Seen' \subseteq Seen /\ quotes \subseteq quotes'
    <3>1. quotes' \subseteq quotes \cup {q} /\ quotes \subseteq quotes'
      BY <2>1, QuoteStored
    <3> QED BY <2>1, <2>2, <2>3, <3>1 DEF Seen, QuoteStages
  <2>5. ReceivedOnce'
    BY <2>1, <2>2, <2>3, <2>4 DEF OInv, ReceivedOnce
  <2>6. \E r \in quotes' :
          QuoteFingerprint(r) = QuoteFingerprint(q) /\ r.received <= q.received
    <3>1. PICK r \in quotes' : QuoteFingerprint(r) = QuoteFingerprint(q)
      BY <2>1, QuoteStored
    <3>2. r \in Seen
      BY <2>4, <3>1 DEF Seen
    <3> QED BY <1>1, <2>2, <3>1, <3>2
  <2>7. RowNoLater'
    BY <2>1, <2>3, <2>4, <2>6 DEF OInv, RowNoLater
  <2>8. HasTop(quotes')
    BY <1>0, <2>1, <2>2, SavedHasTop DEF OInv
  <2> QED BY <1>0, <2>5, <2>7, <2>8 DEF OInv
<1>4. ASSUME QuoteRecorded PROVE OInv'
  <2>1. PICK q \in job.hand :
          /\ job.stage = "recording quote"
          /\ latest' = Remember(latest, q)
          /\ quotes' = quotes /\ clock' = clock
          /\ job' = [job EXCEPT !.stage = "streaming", !.hand = {},
                                !.failures = 0, !.reconnecting = FALSE]
    BY <1>4 DEF QuoteRecorded
  <2>2. job'.stage = "streaming"
    BY <1>0, <2>1 DEF JobType
  <2>3. latest' \subseteq latest \cup {q}
    BY <2>1, RememberKeeps DEF OInv, MInv, TypeOK
  <2>4. Seen' \subseteq Seen
    BY <2>1, <2>2, <2>3 DEF Seen, QuoteStages
  <2>5. ReceivedOnce'
    BY <2>1, <2>2, <2>4 DEF OInv, ReceivedOnce, QuoteStages
  <2>6. RowNoLater'
    BY <2>1, <2>2, <2>3 DEF OInv, RowNoLater
  <2> QED BY <1>0, <2>1, <2>5, <2>6 DEF OInv
<1>5. CASE UNCHANGED vars
  BY <1>0, <1>5 DEF vars, OInv, Seen, ReceivedOnce, RowNoLater
<1>6. ASSUME Start \/ StreamEnds \/ FailureRecorded \/ PersistenceFailureReported
             \/ BarsFetched \/ BarsSaved \/ BarsRecorded \/ BarsFailureRecorded
             \/ Trouble
      PROVE  OInv'
  <2>1. quotes' = quotes /\ latest' \subseteq latest
    BY <1>6 DEF Start, StreamEnds, FailureRecorded, PersistenceFailureReported,
       BarsFetched, BarsSaved, BarsRecorded, BarsFailureRecorded, Trouble, Die,
       StreamFails, FailureNotRecorded, WriteFails, PersistenceFailureLost,
       BarsFetchFails
  <2>2. clock' >= clock
    <3>1. CASE BarsFetched
      <4>1. clock' = clock \/ clock' = clock + 1
        BY <3>1 DEF BarsFetched
      <4> QED BY <1>0, <4>1
    <3>2. CASE ~BarsFetched
      <4>1. clock' = clock
        BY <1>6, <3>2 DEF Start, StreamEnds, FailureRecorded,
           PersistenceFailureReported, BarsSaved, BarsRecorded, BarsFailureRecorded,
           Trouble, Die, StreamFails, FailureNotRecorded, WriteFails,
           PersistenceFailureLost, BarsFetchFails
      <4> QED BY <1>0, <4>1
    <3> QED BY <3>1, <3>2
  <2>3. job'.stage \notin QuoteStages
    <3>1. CASE \/ Start \/ FailureRecorded \/ PersistenceFailureReported
               \/ BarsRecorded \/ BarsFailureRecorded
      BY <1>0, <3>1, NewCycleType, EndedType
         DEF JobType, QuoteStages, Start, FailureRecorded, PersistenceFailureReported,
             BarsRecorded, BarsFailureRecorded
    <3>2. CASE StreamEnds
      BY <3>2, NewCycleType, StageMoved DEF StreamEnds, Stages, QuoteStages
    <3>3. CASE BarsFetched \/ BarsSaved
      BY <1>0, <3>3 DEF JobType, QuoteStages, BarsFetched, BarsSaved
    <3>4. CASE Trouble
      BY <1>0, <3>4, EndedType
         DEF JobType, QuoteStages, Trouble, Die, StreamFails, FailureNotRecorded,
             WriteFails, PersistenceFailureLost, BarsFetchFails
    <3> QED BY <1>6, <3>1, <3>2, <3>3, <3>4
  <2> QED BY <1>0, <2>1, <2>2, <2>3, QuietKeepsOInv
<1> QED BY <1>2, <1>3, <1>4, <1>5, <1>6 DEF Next, Work

\* Between quotes the stored reading is behind the published one only when
\* a correction was reverted (market_repository.py 49-61, 111-134, 170-200).
THEOREM BehindOnlyOnReversion == Spec => []StoreBehindOnlyOnReversion
<1>1. ASSUME OInv, NEW q \in latest
      PROVE  \/ \E r \in QuoteAsOf(quotes, q.symbol, clock) :
                  r.value = q.value \/ RankAbove(r, q)
             \/ \E r, s \in quotes :
                  /\ QuoteFingerprint(r) = QuoteFingerprint(q)
                  /\ s.symbol = q.symbol /\ Effective(s) = Effective(q)
                  /\ r.received < s.received /\ s.received < q.received
  <2>1. PICK r \in quotes :
          QuoteFingerprint(r) = QuoteFingerprint(q) /\ r.received <= q.received
    BY <1>1 DEF OInv, RowNoLater
  <2>2. r.symbol = q.symbol /\ Effective(r) = Effective(q) /\ r.value = q.value
    BY <2>1 DEF QuoteFingerprint
  <2>3. PICK top \in quotes :
          /\ top.symbol = q.symbol
          /\ \A p \in quotes : p.symbol = q.symbol => ~RankAbove(p, top)
    BY <1>1, <2>2 DEF OInv, HasTop
  <2>4. {q, r, top} \subseteq QuoteType /\ {q, r, top} \subseteq Seen
    BY <1>1 DEF OInv, MInv, TypeOK, Seen
  <2>5. \A x \in {q, r, top} : x.received \in Int /\ Effective(x) \in Int
    BY <2>4, QuoteTimes
  <2>6. top \in QuoteAsOf(quotes, q.symbol, clock)
    BY <1>1, <2>3, <2>4 DEF OInv, ReceivedOnce, QuoteAsOf
  <2>7. ~RankAbove(r, top)
    BY <2>2, <2>3
  <2>8. CASE RankAbove(top, q)
    BY <2>6, <2>8
  <2>9. CASE ~RankAbove(top, q)
    <3>1. /\ Effective(top) = Effective(q)
          /\ top.received <= q.received /\ r.received <= top.received
      BY <2>2, <2>5, <2>7, <2>9 DEF RankAbove
    <3>2. CASE top.received = q.received \/ top.received = r.received
      <4>1. top = q \/ top = r
        BY <1>1, <2>4, <3>2 DEF OInv, ReceivedOnce
      <4> QED BY <2>2, <2>6, <4>1
    <3>3. CASE ~(top.received = q.received \/ top.received = r.received)
      BY <2>1, <2>3, <2>5, <3>1, <3>3
    <3> QED BY <3>2, <3>3
  <2> QED BY <2>8, <2>9
<1>2. OInv => StoreBehindOnlyOnReversion
  BY <1>1 DEF StoreBehindOnlyOnReversion
<1> QED BY <1>2, InitOInv, NextOInv, PTL DEF Spec

-----------------------------------------------------------------------------
(* The worker implements MarketLog.                                        *)

\* What is about to be stored or reported comes from the provider and was
\* received by now.
FromProvider ==
  /\ job.last \in (1 .. clock) \cup {NoTime}
  /\ job.stage = "saving quote" =>
       \E f \in QuoteFeed, t \in 1 .. clock : job.hand = {Log!ObservedQuote(f, t)}
  /\ job.stage = "saving bars" =>
       \/ job.hand = {}
       \/ \E chosen \in SUBSET BarFeed, t \in 1 .. clock :
            job.hand = Log!ObservedBars(chosen, t)

LInv == MInv /\ FromProvider

\* A cycle begins and ends without a last message.
LEMMA EndedLast ==
  /\ NewCycle.last = NoTime /\ Ended.last = NoTime
  /\ NewCycle.stage = "streaming" /\ Ended.stage = "ended"
  /\ LET fetching == [NewCycle EXCEPT !.stage = "fetching bars"]
     IN  fetching.last = NoTime /\ fetching.stage = "fetching bars"
<1>1. NewCycle \in JobType /\ NewCycle.last = NoTime /\ NewCycle.stage = "streaming"
  BY NewCycleType DEF NewCycle
<1> QED BY <1>1, StageMoved DEF Ended, Stages

\* Nothing is in hand yet.
LEMMA InitLInv == Init => LInv
BY InitMInv, EndedLast DEF Init, LInv, FromProvider

\* The clock moves by a receipt only.
LEMMA ClockSteps ==
  ASSUME MInv, Next
  PROVE  \/ clock' = clock
         \/ clock < MaxClock /\ clock' = clock + 1
<1>1. CASE \E q \in QuoteFeed : ReceiveQuote(q)
  BY <1>1 DEF ReceiveQuote
<1>2. CASE BarsFetched
  BY <1>2 DEF BarsFetched
<1>3. CASE ~ ((\E q \in QuoteFeed : ReceiveQuote(q)) \/ BarsFetched)
  BY <1>3 DEF Next, Work, Trouble, Start, StreamEnds, QuoteSaved, QuoteRecorded,
     FailureRecorded, PersistenceFailureReported, BarsSaved, BarsRecorded,
     BarsFailureRecorded, Die, StreamFails, FailureNotRecorded, WriteFails,
     PersistenceFailureLost, BarsFetchFails
<1> QED BY <1>1, <1>2, <1>3

\* What is written was received by now.
LEMMA HandTimes ==
  ASSUME LInv, job.stage \in {"saving quote", "saving bars"}, NEW x \in job.hand
  PROVE  x.received \in 1 .. clock
<1>1. CASE job.stage = "saving quote"
  <2>1. PICK f \in QuoteFeed, t \in 1 .. clock : job.hand = {Log!ObservedQuote(f, t)}
    BY <1>1 DEF LInv, FromProvider
  <2>2. x = Log!ObservedQuote(f, t)
    BY <2>1
  <2>3. Log!ObservedQuote(f, t).received = t
    BY DEF Log!ObservedQuote
  <2> QED BY <2>2, <2>3
<1>2. CASE job.stage = "saving bars"
  <2>1. PICK chosen \in SUBSET BarFeed, t \in 1 .. clock :
          job.hand = Log!ObservedBars(chosen, t)
    BY <1>2 DEF LInv, FromProvider
  <2>2. PICK b \in chosen :
          x = [symbol |-> b.symbol, start |-> b.start, value |-> b.value,
               final |-> b.final, received |-> t]
    BY <2>1 DEF Log!ObservedBars
  <2> QED BY <2>1, <2>2
<1> QED BY <1>1, <1>2

\* Every step keeps it.
LEMMA NextLInv == LInv /\ [Next]_vars => LInv'
<1> SUFFICES ASSUME LInv, [Next]_vars PROVE LInv'
  OBVIOUS
<1> DEFINE known == (1 .. clock) \cup {NoTime}
           known2 == (1 .. clock') \cup {NoTime}
<1>0. /\ MInv /\ MInv' /\ clock \in Nat /\ job \in JobType /\ job.last \in known
      /\ MaxClock \in Nat
  <2>1. MInv /\ MInv' /\ job.last \in known
    BY NextMInv DEF LInv, FromProvider
  <2> QED BY <2>1, BoundsAssumption DEF MInv, TypeOK
<1>1. known \subseteq known2 /\ clock' \in Nat
  <2>1. clock' = clock \/ clock' = clock + 1
    BY <1>0, ClockSteps DEF vars
  <2> QED BY <1>0, <2>1
<1> HIDE DEF known, known2
<1>2. NoTime \in known /\ NoTime \in known2
  BY DEF known, known2
<1>3. ASSUME NEW f \in QuoteFeed, ReceiveQuote(f) PROVE FromProvider'
  <2>1. /\ job' = [job EXCEPT !.stage = "saving quote", !.hand = {Received(f)}]
        /\ clock' = clock + 1
    BY <1>3 DEF ReceiveQuote
  <2>2. Received(f) = Log!ObservedQuote(f, clock')
    BY <2>1 DEF Received, Log!ObservedQuote
  <2>3. clock' \in 1 .. clock'
    BY <1>0, <2>1
  <2>4. /\ job'.stage = "saving quote" /\ job'.last = job.last
        /\ job'.hand = {Log!ObservedQuote(f, clock')}
    BY <1>0, <2>1, <2>2 DEF JobType
  <2>5. job'.last \in known2
    BY <1>0, <1>1, <2>4
  <2> QED BY <2>3, <2>4, <2>5 DEF FromProvider, known2
<1>4. ASSUME QuoteSaved PROVE FromProvider'
  <2>1. PICK q \in job.hand :
          /\ job.stage = "saving quote"
          /\ job' = [job EXCEPT !.stage = "recording quote",
                                !.last = LastMessage(job.last, q.received)]
    BY <1>4 DEF QuoteSaved
  <2>2. q.received \in known
    BY <2>1, HandTimes DEF known
  <2>3. LastMessage(job.last, q.received) \in known
    BY <1>0, <2>2 DEF LastMessage
  <2>4. job'.stage = "recording quote" /\ job'.last \in known2
    BY <1>0, <1>1, <2>1, <2>3 DEF JobType
  <2> QED BY <2>4 DEF FromProvider, known2
<1>5. ASSUME BarsFetched PROVE FromProvider'
  <2>1. PICK batch \in IF clock < MaxClock THEN Batches(Symbol) ELSE {{}} :
          /\ clock' = IF batch = {} THEN clock ELSE clock + 1
          /\ job' = [job EXCEPT !.stage = "saving bars", !.hand = batch]
    BY <1>5 DEF BarsFetched
  <2>2. job'.stage = "saving bars" /\ job'.hand = batch /\ job'.last \in known2
    BY <1>0, <1>1, <2>1 DEF JobType
  <2>3. ASSUME batch # {}
        PROVE  \E chosen \in SUBSET BarFeed, t \in 1 .. clock' :
                 batch = Log!ObservedBars(chosen, t)
    <3>1. batch \in Batches(Symbol) /\ clock' = clock + 1
      BY <2>1, <2>3
    <3>2. PICK chosen \in SUBSET BarFeed :
            batch = {[symbol |-> b.symbol, start |-> b.start, value |-> b.value,
                      final |-> b.final, received |-> clock + 1] : b \in chosen}
      BY <3>1 DEF Batches
    <3>3. batch = Log!ObservedBars(chosen, clock')
      BY <3>1, <3>2 DEF Log!ObservedBars
    <3>4. clock' \in 1 .. clock'
      BY <1>0, <3>1
    <3> QED BY <3>3, <3>4
  <2> QED BY <2>2, <2>3 DEF FromProvider, known2
<1>6. ASSUME WriteFails PROVE FromProvider'
  <2>1. job'.stage = "reporting"
    BY <1>0, <1>6 DEF WriteFails, JobType
  <2>2. job'.last \in known
    <3>1. /\ job.stage = "recording quote" => job'.last = job.last
          /\ job.stage = "recording bars" => job'.last = NoTime
      BY <1>0, <1>6 DEF WriteFails, JobType
    <3>2. CASE job.stage = "saving quote"
      <4>1. job'.last = (CHOOSE q \in job.hand : TRUE).received
        BY <1>0, <1>6, <3>2 DEF WriteFails, JobType
      <4>2. \E q \in job.hand : TRUE
        BY <1>0, <3>2 DEF MInv, InHand, QuoteStages
      <4>3. (CHOOSE q \in job.hand : TRUE) \in job.hand
        BY <4>2
      <4> QED BY <3>2, <4>1, <4>3, HandTimes DEF known
    <3>3. CASE job.stage = "saving bars"
      <4>1. job'.last = IF job.hand = {} THEN NoTime
                        ELSE (CHOOSE b \in job.hand : TRUE).received
        BY <1>0, <1>6, <3>3 DEF WriteFails, JobType
      <4>2. job.hand # {} => (CHOOSE b \in job.hand : TRUE) \in job.hand
        OBVIOUS
      <4> QED BY <1>2, <3>3, <4>1, <4>2, HandTimes DEF known
    <3> QED BY <1>0, <1>2, <1>6, <3>1, <3>2, <3>3 DEF WriteFails
  <2> QED BY <1>1, <2>1, <2>2 DEF FromProvider, known2
<1>7. ASSUME Start \/ StreamEnds \/ QuoteRecorded \/ FailureRecorded
             \/ PersistenceFailureReported \/ BarsSaved \/ BarsRecorded
             \/ BarsFailureRecorded \/ Die \/ StreamFails \/ FailureNotRecorded
             \/ PersistenceFailureLost \/ BarsFetchFails
      PROVE  FromProvider'
  <2>1. job'.stage \notin {"saving quote", "saving bars"}
    BY <1>0, <1>7, EndedLast DEF JobType, Start, StreamEnds, QuoteRecorded,
       FailureRecorded, PersistenceFailureReported, BarsSaved, BarsRecorded,
       BarsFailureRecorded, Die, StreamFails, FailureNotRecorded,
       PersistenceFailureLost, BarsFetchFails
  <2>2. job'.last \in {job.last, NoTime}
    BY <1>0, <1>7, EndedLast DEF JobType, Start, StreamEnds, QuoteRecorded,
       FailureRecorded, PersistenceFailureReported, BarsSaved, BarsRecorded,
       BarsFailureRecorded, Die, StreamFails, FailureNotRecorded,
       PersistenceFailureLost, BarsFetchFails
  <2> QED BY <1>0, <1>1, <1>2, <2>1, <2>2 DEF FromProvider, known2
<1>8. ASSUME UNCHANGED vars PROVE FromProvider'
  BY <1>8 DEF vars, LInv, FromProvider
<1> QED BY <1>0, <1>3, <1>4, <1>5, <1>6, <1>7, <1>8 DEF LInv, Next, Work, Trouble

\* A record of a success or a failure is a report to the log.
LEMMA RecordIsReport ==
  ASSUME LInv, LInv', NEW reported \in (1 .. clock) \cup {NoTime},
         UNCHANGED <<quotes, bars, clock>>,
         \/ \E exhausted \in BOOLEAN :
              provider' = RecordFailure(provider, exhausted, reported)
         \/ \E reconnected \in BOOLEAN :
              provider' = RecordSuccess(provider, reported, reconnected)
  PROVE  Log!Next
<1>0. /\ provider \in ProviderType \cup {NoState} /\ reported \in ReceiptTime
      /\ provider' \in ProviderType \cup {NoState}
  BY BoundsAssumption DEF LInv, MInv, TypeOK, ReceiptTime
<1>1. /\ provider' \in ProviderType
      /\ provider'.lastMessage = IF provider = NoState THEN reported
                                 ELSE LastMessage(provider.lastMessage, reported)
  BY <1>0, FailureType, SuccessType
<1>2. provider'.status \in Log!Statuses
  BY <1>1 DEF ProviderType, Log!Statuses
<1>3. StateSeen' = [status |-> provider'.status, lastMessage |-> provider'.lastMessage]
  BY <1>1, NoStateAssumption DEF StateSeen
<1>4. CASE provider = NoState
  <2>1. StateSeen = NoState
    BY <1>4 DEF StateSeen
  <2>2. Log!Report(provider'.status, reported)
    BY <1>1, <1>3, <1>4, <2>1 DEF Log!Report
  <2> QED BY <1>2, <2>2 DEF Log!Next
<1>5. CASE provider # NoState
  <2>1. /\ StateSeen = [status |-> provider.status, lastMessage |-> provider.lastMessage]
        /\ provider \in ProviderType
    BY <1>0, <1>5 DEF StateSeen
  <2>2. StateSeen # NoState /\ StateSeen.lastMessage = provider.lastMessage
    BY <2>1, NoStateAssumption DEF ProviderType
  <2>3. Log!Report(provider'.status, reported)
    BY <1>1, <1>3, <1>5, <2>2 DEF Log!Report, LastMessage, Log!LastMessage
  <2> QED BY <1>2, <2>3 DEF Log!Next
<1> QED BY <1>4, <1>5

\* Each step of the worker is a step of the log, or nothing to its readers.
LEMMA StepLogged ==
  ASSUME LInv, LInv', Next
  PROVE  Log!Next \/ UNCHANGED <<quotes, bars, StateSeen, clock>>
<1>0. /\ MInv /\ clock \in Nat /\ job.last \in (1 .. clock) \cup {NoTime}
      /\ MaxClock \in Nat /\ job.reconnecting \in BOOLEAN
  <2>1. MInv /\ job.last \in (1 .. clock) \cup {NoTime}
    BY DEF LInv, FromProvider
  <2> QED BY <2>1, BoundsAssumption DEF MInv, TypeOK, JobType
<1>1. CASE (\E q \in QuoteFeed : ReceiveQuote(q)) \/ BarsFetched
  <2>1. quotes' = quotes /\ bars' = bars /\ StateSeen' = StateSeen
    BY <1>1 DEF ReceiveQuote, BarsFetched, StateSeen
  <2>2. CASE clock' = clock
    BY <2>1, <2>2
  <2>3. CASE clock < MaxClock /\ clock' = clock + 1
    <3>1. clock + 1 \in (clock + 1) .. MaxClock
      BY <1>0, <2>3
    <3>2. Log!Receive(clock + 1)
      BY <2>1, <2>3, <3>1 DEF Log!Receive
    <3> QED BY <3>1, <3>2 DEF Log!Next
  <2> QED BY <1>0, <2>2, <2>3, ClockSteps
<1>2. CASE QuoteSaved
  <2>1. PICK q \in job.hand :
          /\ job.stage = "saving quote"
          /\ quotes' = SaveQuote(quotes, q)
          /\ bars' = bars /\ StateSeen' = StateSeen /\ clock' = clock
    BY <1>2 DEF QuoteSaved, StateSeen
  <2>2. PICK f \in QuoteFeed, t \in 1 .. clock : q = Log!ObservedQuote(f, t)
    BY <2>1 DEF LInv, FromProvider
  <2>3. Log!StoreQuote(f, t)
    BY <2>1, <2>2 DEF Log!StoreQuote, Log!SaveQuote, SaveQuote,
       Log!QuoteFingerprint, QuoteFingerprint, Log!Effective, Effective
  <2> QED BY <2>3 DEF Log!Next
<1>3. CASE BarsSaved
  <2>1. /\ job.stage = "saving bars"
        /\ bars' = SaveBars(bars, job.hand)
        /\ quotes' = quotes /\ StateSeen' = StateSeen /\ clock' = clock
    BY <1>3 DEF BarsSaved, StateSeen
  <2>2. CASE job.hand = {}
    BY <2>1, <2>2 DEF SaveBars
  <2>3. CASE job.hand # {}
    <3>1. PICK chosen \in SUBSET BarFeed, t \in 1 .. clock :
            job.hand = Log!ObservedBars(chosen, t)
      BY <2>1, <2>3 DEF LInv, FromProvider
    <3>2. Log!StoreBars(chosen, t)
      BY <2>1, <3>1 DEF Log!StoreBars, Log!SaveBars, SaveBars,
         Log!BarFingerprint, BarFingerprint
    <3> QED BY <3>2 DEF Log!Next
  <2> QED BY <2>2, <2>3
<1>4. CASE QuoteRecorded
  <2>1. /\ provider' = RecordSuccess(provider, job.last, job.reconnecting)
        /\ UNCHANGED <<quotes, bars, clock>>
    BY <1>4 DEF QuoteRecorded
  <2> QED BY <1>0, <2>1, RecordIsReport
<1>5. CASE BarsRecorded
  <2>1. \/ provider' = RecordSuccess(provider, NoTime, TRUE)
        \/ provider' = RecordSuccess(provider, NoTime, FALSE)
    BY <1>5 DEF BarsRecorded, RecordSuccess
  <2>2. NoTime \in (1 .. clock) \cup {NoTime}
    OBVIOUS
  <2>3. UNCHANGED <<quotes, bars, clock>>
    BY <1>5 DEF BarsRecorded
  <2> QED BY <2>1, <2>2, <2>3, RecordIsReport
<1>6. CASE FailureRecorded \/ BarsFailureRecorded \/ PersistenceFailureReported
  <2>1. PICK exhausted \in BOOLEAN, reported \in {job.last, NoTime} :
          provider' = RecordFailure(provider, exhausted, reported)
    <3>1. \/ provider' = RecordFailure(provider, TRUE, job.last)
          \/ provider' = RecordFailure(provider, FALSE, job.last)
          \/ provider' = RecordFailure(provider, TRUE, NoTime)
          \/ provider' = RecordFailure(provider, FALSE, NoTime)
      BY <1>6 DEF FailureRecorded, BarsFailureRecorded, PersistenceFailureReported,
                  RecordFailure
    <3> QED BY <3>1
  <2>2. reported \in (1 .. clock) \cup {NoTime}
    BY <1>0
  <2>3. UNCHANGED <<quotes, bars, clock>>
    BY <1>6 DEF FailureRecorded, BarsFailureRecorded, PersistenceFailureReported
  <2> QED BY <2>1, <2>2, <2>3, RecordIsReport
<1>7. CASE Start \/ StreamEnds \/ Trouble
  BY <1>7 DEF Start, StreamEnds, Trouble, Die, StreamFails, FailureNotRecorded,
     WriteFails, PersistenceFailureLost, BarsFetchFails, StateSeen
<1> QED BY <1>1, <1>2, <1>3, <1>4, <1>5, <1>6, <1>7 DEF Next, Work

\* The worker does to the tables what MarketLog allows and nothing else
\* (market/service.py 147-180, 301-390; market_repository.py 111-168, 261-338).
THEOREM WorkerImplementsLog == Spec => ImplementsMarketLog
<1>1. Init => Log!Init
  BY DEF Init, Log!Init, StateSeen
<1>2. LInv /\ LInv' /\ [Next]_vars => [Log!Next]_<<quotes, bars, StateSeen, clock>>
  BY StepLogged DEF vars, StateSeen
<1>3. Spec => []LInv
  BY InitLInv, NextLInv, PTL DEF Spec
<1>4. <<quotes, bars, StateSeen, clock>> = Log!logVars
  BY DEF Log!logVars
<1> QED BY <1>1, <1>2, <1>3, PTL DEF Spec, ImplementsMarketLog, Log!Spec, Log!logVars

-----------------------------------------------------------------------------
(* The safety half of EventuallyHealthy: how far the worker is from a      *)
(* healthy provider.  Without fairness a behaviour may stop; what is       *)
(* proved is that it can do nothing else for long.                         *)

Troubled == {"recording failure", "reporting", "recording bars failure"}

\* The provider is on record as healthy and no failure is about to be added.
Healthy ==
  provider # NoState /\ provider.status = "healthy" /\ job.stage \notin Troubled

\* The steps of the worker until it records a success, if nothing fails.
StepsFrom(stage) ==
  CASE stage \in {"recording quote", "recording bars"} -> 1
    [] stage \in {"saving quote", "saving bars"}       -> 2
    [] stage = "fetching bars"                         -> 3
    [] stage = "streaming"                             -> 4
    [] stage = "ended"                                 -> 5
    [] OTHER                                           -> 6

ToHealthy ==
  7 * (MaxFaults - faults) + IF Healthy THEN 0 ELSE StepsFrom(job.stage)

\* A step from healthy to healthy, or one of at most 7 * MaxFaults + 5.
Settles == ToHealthy' < ToHealthy \/ (Healthy /\ Healthy' /\ faults' = faults)

LEMMA StepsRange == \A stage : StepsFrom(stage) \in 1 .. 6
BY DEF StepsFrom

\* Every step of the worker itself comes nearer to a success, or records it,
\* and takes nothing from a provider on record as healthy.
LEMMA WorkSettles ==
  ASSUME TypeOK, Work
  PROVE  /\ faults' = faults
         /\ \/ Healthy'
            \/ ~Healthy /\ StepsFrom(job'.stage) < StepsFrom(job.stage)
<1>1. /\ job \in JobType /\ provider \in ProviderType \cup {NoState}
      /\ job.last \in ReceiptTime /\ NoTime \in ReceiptTime
      /\ job.reconnecting \in BOOLEAN /\ job.attempt \in Nat
  BY BoundsAssumption DEF TypeOK, JobType, ReceiptTime
<1>2. \A stage \in Stages : [job EXCEPT !.stage = stage].stage = stage
  BY <1>1 DEF JobType
<1>3. CASE QuoteRecorded \/ BarsRecorded
  <2>1. PICK reported \in ReceiptTime, reconnected \in BOOLEAN :
          provider' = RecordSuccess(provider, reported, reconnected)
    <3>1. (job.attempt > 0) \in BOOLEAN
      OBVIOUS
    <3>2. CASE QuoteRecorded
      BY <1>1, <3>2 DEF QuoteRecorded
    <3>3. CASE BarsRecorded
      BY <1>1, <3>1, <3>3 DEF BarsRecorded
    <3> QED BY <1>3, <3>2, <3>3
  <2>2. provider' # NoState /\ provider'.status = "healthy"
    <3>1. provider' \in ProviderType
      BY <1>1, <2>1, SuccessType
    <3> QED BY <2>1, <3>1, NoStateAssumption DEF RecordSuccess
  <2>3. job'.stage \in {"streaming", "fetching bars"}
    BY <1>1, <1>3, NewCycleType DEF QuoteRecorded, BarsRecorded, JobType
  <2>4. Healthy'
    BY <2>2, <2>3 DEF Healthy, Troubled
  <2> QED BY <1>3, <2>4 DEF QuoteRecorded, BarsRecorded
<1>4. CASE FailureRecorded \/ BarsFailureRecorded \/ PersistenceFailureReported
  <2>1. /\ job.stage \in Troubled
        /\ job'.stage \in {"streaming", "fetching bars", "ended"}
        /\ faults' = faults
    BY <1>1, <1>4, EndedType
       DEF FailureRecorded, BarsFailureRecorded, PersistenceFailureReported, Troubled, JobType
  <2>2. StepsFrom(job.stage) = 6
    BY <2>1 DEF StepsFrom, Troubled
  <2>3. StepsFrom(job'.stage) \in {3, 4, 5}
    <3>1. CASE job'.stage = "streaming"
      BY <3>1 DEF StepsFrom
    <3>2. CASE job'.stage = "fetching bars"
      BY <3>2 DEF StepsFrom
    <3>3. CASE job'.stage = "ended"
      BY <3>3 DEF StepsFrom
    <3> QED BY <2>1, <3>1, <3>2, <3>3
  <2>4. ~Healthy
    BY <2>1 DEF Healthy
  <2>5. StepsFrom(job'.stage) < StepsFrom(job.stage)
    BY <2>2, <2>3
  <2> QED BY <2>1, <2>4, <2>5
<1>5. CASE Start \/ (\E q \in QuoteFeed : ReceiveQuote(q)) \/ StreamEnds
           \/ QuoteSaved \/ BarsFetched \/ BarsSaved
  <2>1. provider' = provider /\ faults' = faults
    BY <1>5 DEF Start, ReceiveQuote, StreamEnds, QuoteSaved, BarsFetched, BarsSaved
  <2> DEFINE Nearer == /\ StepsFrom(job'.stage) < StepsFrom(job.stage)
                       /\ job'.stage \notin Troubled
  <2>2. ASSUME Start PROVE Nearer
    <3>1. job.stage = "ended" /\ job'.stage = "streaming"
      BY <2>2, NewCycleType DEF Start
    <3>2. StepsFrom(job.stage) = 5
      BY <3>1 DEF StepsFrom
    <3>3. StepsFrom(job'.stage) = 4
      BY <3>1 DEF StepsFrom
    <3>4. StepsFrom(job'.stage) < StepsFrom(job.stage)
      BY <3>2, <3>3
    <3>5. job'.stage \notin Troubled
      BY <3>1 DEF Troubled
    <3> QED BY <3>4, <3>5
  <2>3. ASSUME \E q \in QuoteFeed : ReceiveQuote(q) PROVE Nearer
    <3>1. job.stage = "streaming" /\ job'.stage = "saving quote"
      BY <1>1, <2>3 DEF ReceiveQuote, JobType
    <3>2. StepsFrom(job.stage) = 4
      BY <3>1 DEF StepsFrom
    <3>3. StepsFrom(job'.stage) = 2
      BY <3>1 DEF StepsFrom
    <3>4. StepsFrom(job'.stage) < StepsFrom(job.stage)
      BY <3>2, <3>3
    <3>5. job'.stage \notin Troubled
      BY <3>1 DEF Troubled
    <3> QED BY <3>4, <3>5
  <2>4. ASSUME StreamEnds PROVE Nearer
    <3>1. job.stage = "streaming" /\ job'.stage = "fetching bars"
      BY <2>4, NewCycleType DEF StreamEnds, JobType
    <3>2. StepsFrom(job.stage) = 4
      BY <3>1 DEF StepsFrom
    <3>3. StepsFrom(job'.stage) = 3
      BY <3>1 DEF StepsFrom
    <3>4. StepsFrom(job'.stage) < StepsFrom(job.stage)
      BY <3>2, <3>3
    <3>5. job'.stage \notin Troubled
      BY <3>1 DEF Troubled
    <3> QED BY <3>4, <3>5
  <2>5. ASSUME QuoteSaved PROVE Nearer
    <3>1. job.stage = "saving quote" /\ job'.stage = "recording quote"
      BY <1>1, <2>5 DEF QuoteSaved, JobType
    <3>2. StepsFrom(job.stage) = 2
      BY <3>1 DEF StepsFrom
    <3>3. StepsFrom(job'.stage) = 1
      BY <3>1 DEF StepsFrom
    <3>4. StepsFrom(job'.stage) < StepsFrom(job.stage)
      BY <3>2, <3>3
    <3>5. job'.stage \notin Troubled
      BY <3>1 DEF Troubled
    <3> QED BY <3>4, <3>5
  <2>6. ASSUME BarsFetched PROVE Nearer
    <3>1. job.stage = "fetching bars" /\ job'.stage = "saving bars"
      BY <1>1, <2>6 DEF BarsFetched, JobType
    <3>2. StepsFrom(job.stage) = 3
      BY <3>1 DEF StepsFrom
    <3>3. StepsFrom(job'.stage) = 2
      BY <3>1 DEF StepsFrom
    <3>4. StepsFrom(job'.stage) < StepsFrom(job.stage)
      BY <3>2, <3>3
    <3>5. job'.stage \notin Troubled
      BY <3>1 DEF Troubled
    <3> QED BY <3>4, <3>5
  <2>7. ASSUME BarsSaved PROVE Nearer
    <3>1. job.stage = "saving bars" /\ job'.stage = "recording bars"
      BY <1>1, <2>7 DEF BarsSaved, JobType
    <3>2. StepsFrom(job.stage) = 2
      BY <3>1 DEF StepsFrom
    <3>3. StepsFrom(job'.stage) = 1
      BY <3>1 DEF StepsFrom
    <3>4. StepsFrom(job'.stage) < StepsFrom(job.stage)
      BY <3>2, <3>3
    <3>5. job'.stage \notin Troubled
      BY <3>1 DEF Troubled
    <3> QED BY <3>4, <3>5
  <2> HIDE DEF Nearer
  <2>8. Nearer
    BY <1>5, <2>2, <2>3, <2>4, <2>5, <2>6, <2>7
  <2> QED BY <2>1, <2>8 DEF Healthy, Nearer
<1> QED BY <1>3, <1>4, <1>5 DEF Work

\* In any behaviour all but 7 * MaxFaults + 5 steps go from healthy to
\* healthy: no failure leaves the worker going round in circles, or the
\* stored state wrong for longer (market/service.py 110-395).
THEOREM OutagesBounded ==
  Spec => [](ToHealthy \in Nat) /\ [][Settles]_vars
<1>1. ASSUME MInv PROVE ToHealthy \in Nat
  <2>1. faults \in 0 .. MaxFaults /\ MaxFaults \in Nat /\ job.stage \in Stages
    BY <1>1, BoundsAssumption DEF MInv, TypeOK, JobType
  <2>2. StepsFrom(job.stage) \in 1 .. 6
    BY StepsRange
  <2> QED BY <2>1, <2>2 DEF ToHealthy
<1>2. ASSUME MInv, MInv', Next PROVE Settles
  <2>1. faults \in Nat /\ faults' \in Nat /\ MaxFaults \in Nat
    BY <1>2, BoundsAssumption DEF MInv, TypeOK
  <2>2. /\ StepsFrom(job.stage) \in 1 .. 6
        /\ StepsFrom(job'.stage) \in 1 .. 6
    BY StepsRange
  <2>3. CASE Work
    BY <1>2, <2>1, <2>2, <2>3, WorkSettles DEF MInv, Settles, ToHealthy
  <2>4. CASE Trouble
    <3>1. faults' = faults + 1
      BY <2>4 DEF Trouble, Die, StreamFails, FailureNotRecorded, WriteFails,
                  PersistenceFailureLost, BarsFetchFails, Fault
    <3> QED BY <2>1, <2>2, <3>1 DEF Settles, ToHealthy
  <2> QED BY <1>2, <2>3, <2>4 DEF Next
<1>3. MInv /\ MInv' /\ [Next]_vars => [Settles]_vars
  BY <1>2
<1> QED BY <1>1, <1>3, MarketInvariant, PTL DEF Spec
=============================================================================
