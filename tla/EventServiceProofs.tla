------------------------- MODULE EventServiceProofs -------------------------
(***************************************************************************)
(* Every safety property of EventService, for any envelopes, clustering    *)
(* window, failures of the database and deaths of the process.             *)
(***************************************************************************)
EXTENDS EventService, EventStoreProofs, TLAPS

-----------------------------------------------------------------------------
(* The inductive invariant.                                                *)

\* What Propose decided is still what ingest would decide on the tables: no
\* step between it and the end of the transaction touches them.
PendingIsProposed ==
  (pending # Idle /\ ~pending.saved) =>
    Proposed(db, pending.item, pending.event)

IInv ==
  /\ TypeOK
  /\ LogInv
  /\ MemoryIsDurable
  /\ PendingIsProposed

\* No row, mention or raw item is there at first.
LEMMA InitIInv == Init => IInv
<1> SUFFICES ASSUME Init PROVE IInv
  OBVIOUS
<1>1. db = EmptyTables /\ memory = Down /\ pending = Idle
  BY DEF Init
<1>2. LogInv
  BY <1>1, InitLogInv DEF LogInit
<1>3. TypeOK
  BY <1>1, <1>2 DEF TypeOK, LogInv, Sound
<1> QED BY <1>1, <1>2, <1>3 DEF IInv, MemoryIsDurable, PendingIsProposed, Up

\* A commit is one of the log, and what memory is about to publish.
LEMMA CommitIsLogged ==
  ASSUME IInv, SaveCommits
  PROVE  /\ LogNext
         /\ LogInv'
         /\ LoadState(db') = Published(LoadState(db), pending.item, pending.event)
<1> DEFINE i  == pending.item
           ev == pending.event
<1>1. i \in Envelopes /\ Proposed(db, i, ev)
  BY DEF IInv, TypeOK, PendingType, PendingIsProposed, SaveCommits
<1>2. Accepts(db, i) /\ db' = Save(db, i, ev)
  BY DEF SaveCommits
<1>3. LogInv /\ Sound(db)
  BY DEF IInv, LogInv
<1> HIDE DEF i, ev
<1>4. LogNext
  BY <1>1, <1>2, CommitIsProposed DEF LogNext
<1>5. LogInv'
  BY <1>3, <1>4, LogStep
<1>6. LoadState(db') = Published(LoadState(db), i, ev)
  BY <1>1, <1>2, <1>3, SaveIsPublished
<1> QED BY <1>4, <1>5, <1>6 DEF i, ev

\* Every step keeps the invariant.
LEMMA NextIInv == IInv /\ [Next]_vars => IInv'
<1> SUFFICES ASSUME IInv, [Next]_vars PROVE IInv'
  OBVIOUS
<1>0. /\ TypeOK /\ LogInv /\ Sound(db) /\ MemoryIsDurable /\ PendingIsProposed
      /\ LoadState(db) \in MemoryType
  BY LoadedType DEF IInv, LogInv
<1>a. db' = db => LogInv'
  BY <1>0 DEF LogInv
<1>1. ASSUME Start \/ Refresh
      PROVE  IInv'
  <2>1. pending = Idle /\ db' = db /\ pending' = pending /\ memory' = LoadState(db)
    BY <1>0, <1>1 DEF Start, Refresh, TypeOK
  <2>2. TypeOK'
    BY <1>0, <2>1 DEF TypeOK
  <2> QED BY <1>0, <1>a, <2>1, <2>2 DEF IInv, MemoryIsDurable, PendingIsProposed
<1>2. ASSUME NEW i \in Envelopes, Propose(i)
      PROVE  IInv'
  <2>1. Up /\ pending = Idle /\ memory = LoadState(db) /\ db' = db /\ memory' = memory
    BY <1>0, <1>2 DEF Propose, MemoryIsDurable
  <2>2. PICK ev : /\ Proposed(db, i, ev)
                  /\ pending' = [item |-> i, event |-> ev, saved |-> FALSE]
    BY <1>2, <2>1 DEF Propose, Proposed, UsedIds
  <2>3. ev \in EventType
    BY <1>0, <2>2, ProposalType
  <2>4. pending' \in PendingType
    BY <2>2, <2>3 DEF PendingType
  <2>5. TypeOK'
    BY <1>0, <2>1, <2>4 DEF TypeOK, Up
  <2>6. MemoryIsDurable'
    BY <2>1, <2>2 DEF MemoryIsDurable
  <2> QED BY <1>0, <1>a, <2>1, <2>2, <2>5, <2>6 DEF IInv, PendingIsProposed
<1>3. ASSUME SaveCommits
      PROVE  IInv'
  <2>1. /\ pending # Idle /\ ~pending.saved /\ pending \in PendingType
        /\ memory' = memory /\ pending' = [pending EXCEPT !.saved = TRUE]
    BY <1>0, <1>3 DEF SaveCommits, TypeOK
  <2>2. /\ pending' \in PendingType /\ pending'.saved
        /\ pending'.item = pending.item /\ pending'.event = pending.event
    BY <2>1 DEF PendingType
  <2>3. pending' # Idle
    BY <2>2, IdleAssumption
  <2>4. /\ LogInv'
        /\ LoadState(db') = Published(LoadState(db), pending.item, pending.event)
    BY <1>3, CommitIsLogged
  <2>5. TypeOK'
    BY <1>0, <2>1, <2>2, <2>4 DEF TypeOK, Up, LogInv, Sound
  <2>6. MemoryIsDurable'
    BY <1>0, <2>1, <2>2, <2>3, <2>4 DEF MemoryIsDurable, Up
  <2>7. PendingIsProposed'
    BY <2>2 DEF PendingIsProposed
  <2> QED BY <2>4, <2>5, <2>6, <2>7 DEF IInv
<1>4. ASSUME SaveFails
      PROVE  IInv'
  <2>1. pending' = Idle /\ db' = db /\ memory' = memory
    BY <1>4 DEF SaveFails
  <2>2. memory' # Down => LoadState(db') = memory'
    BY <1>0, <1>4, <2>1 DEF SaveFails, MemoryIsDurable, Up
  <2> QED BY <1>0, <1>a, <2>1, <2>2
          DEF IInv, TypeOK, MemoryIsDurable, PendingIsProposed, Up
<1>5. ASSUME Publish
      PROVE  IInv'
  <2>1. pending' = Idle /\ db' = db /\ memory' = LoadState(db)
    BY <1>0, <1>5 DEF Publish, MemoryIsDurable, TypeOK
  <2>2. TypeOK'
    BY <1>0, <2>1 DEF TypeOK
  <2> QED BY <1>0, <1>a, <2>1, <2>2 DEF IInv, MemoryIsDurable, PendingIsProposed
<1>6. ASSUME Crash
      PROVE  IInv'
  BY <1>0, <1>a, <1>6 DEF Crash, IInv, TypeOK, MemoryIsDurable, PendingIsProposed, Up
<1>7. ASSUME UNCHANGED vars
      PROVE  IInv'
  BY <1>0, <1>a, <1>7 DEF vars, IInv, TypeOK, MemoryIsDurable, PendingIsProposed, Up
<1>8. ASSUME NEW i \in Envelopes, IgnoreDuplicate(i)
      PROVE  IInv'
  BY <1>7, <1>8 DEF IgnoreDuplicate
<1> QED BY <1>1, <1>2, <1>3, <1>4, <1>5, <1>6, <1>7, <1>8 DEF Next

\* The strengthening holds in every reachable state.
THEOREM InductiveInvariant == Spec => []IInv
BY InitIInv, NextIInv, PTL DEF Spec

-----------------------------------------------------------------------------
(* The properties.                                                         *)

\* Tables, memory and the call in progress keep the shapes the code gives
\* them (models.py, service.py 61-66), whatever is ingested.
THEOREM TypeCorrect == Spec => []TypeOK
BY InductiveInvariant, PTL DEF IInv

\* Memory and tables agree but for the one version between its commit and
\* its publication: failed saves leave no ghosts and restarts lose nothing
\* (service.py 70-85, 159-164).
THEOREM Durable == Spec => []MemoryIsDurable
BY InductiveInvariant, PTL DEF IInv

\* The identity check of ingest admits no item that a unique index of
\* raw_items refuses, but for one whose native id is empty like that of a
\* stored item of its source with other content (service.py 79, 109-113;
\* models.py 44-60).
THEOREM ConflictFree == Spec => []ConflictOnlyOnEmptyIds
<1>1. IInv => ConflictOnlyOnEmptyIds
  BY UnknownIsAccepted
     DEF IInv, LogInv, PendingIsProposed, Proposed, Sound, ConflictOnlyOnEmptyIds
<1> QED BY <1>1, InductiveInvariant, PTL

\* However items arrive, an identity is filed once, as a mention of one
\* existing version, and versions have no gap (event_repository.py 145-207).
THEOREM FiledOnce == Spec => []TablesConsistent
<1>1. IInv => TablesConsistent
  BY DEF IInv, LogInv, Sound, Anchored, UniqueItems, TablesConsistent
<1> QED BY <1>1, InductiveInvariant, PTL

\* A known identity leads to its event, and a new item with candidates to
\* exactly one of them: the rank tuples are totally ordered, because
\* similarities are and ids differ (service.py 87-113).
THEOREM OneAnswer == Spec => []IngestDecides
<1>1. IInv => IngestDecides
  <2> SUFFICES ASSUME IInv, Up, pending = Idle
               PROVE  IngestDecides
    BY DEF IngestDecides
  <2>1. memory = LoadState(db) /\ Sound(db)
    BY DEF IInv, LogInv, MemoryIsDurable
  <2>2. \A x \in memory.items : \E ev \in memory.events : ev.id = x.event
    BY <2>1, LoadedMemory
  <2>3. ASSUME NEW i \in Envelopes, Candidates(memory, i) # {}
        PROVE  \E ev \in Candidates(memory, i) :
                 Proposals(memory, i, UsedIds) = {NextVersion(ev, i)}
    BY <2>1, <2>3, OneRevision
  <2> QED BY <2>2, <2>3 DEF IngestDecides
<1> QED BY <1>1, InductiveInvariant, PTL

\* Each version, current or historical, describes exactly the mentions that
\* load_event_version rebuilds for it (event_repository.py 114-143).
THEOREM LineageExact == Spec => []LineageReconstructs
<1>1. IInv => LineageReconstructs
  BY DEF IInv, LogInv, LineageKept, LineageReconstructs
<1> QED BY <1>1, InductiveInvariant, PTL

\* Each item joined its event within the window, in the category, and by
\* content or title (service.py 87-106).
THEOREM ClustersSound == Spec => []ClustersCohere
<1>1. IInv => ClustersCohere
  BY DEF IInv, LogInv, Coherent, Joins, ClustersCohere
<1> QED BY <1>1, InductiveInvariant, PTL

\* Only the commit of a save changes the tables.
LEMMA OnlyCommitsWrite ==
  ASSUME [Next]_vars
  PROVE  SaveCommits \/ db' = db
BY DEF Next, vars, Start, Refresh, IgnoreDuplicate, Propose, SaveFails,
       Publish, Crash

\* The tables change as EventLog's: every step decides and files one item
\* on the tables as they are, or leaves them alone (service.py 108-164).
THEOREM DecidedOnTables == Spec => ImplementsEventLog
<1>1. Init => LogInit
  BY DEF Init, LogInit
<1>2. IInv /\ [Next]_vars => [LogNext]_db
  BY OnlyCommitsWrite, CommitIsLogged
<1> QED BY <1>1, <1>2, InductiveInvariant, PTL DEF Spec, LogSpec, ImplementsEventLog

\* No step changes an answer of load_event_version for a stored version, or
\* removes anything that was stored (event_repository.py 145-207).
THEOREM HistoryIsAppendOnly == Spec => AppendOnly
<1>1. [/\ HistoryKept(db, db')
       /\ db.raw \subseteq db'.raw
       /\ db.mentions \subseteq db'.mentions]_db
      => [/\ HistoryKept(db, db')
          /\ db.raw \subseteq db'.raw
          /\ db.mentions \subseteq db'.mentions]_vars
  BY DEF vars, HistoryKept
<1> QED BY <1>1, DecidedOnTables, LogOnlyGrows, PTL DEF AppendOnly, ImplementsEventLog

\* The tables implement an append-only history in which each identity is
\* recorded once: the README's "append-only canonical event versions", for
\* every order of arrival, failure and restart.
THEOREM Refinement == Spec => ImplementsHistory
BY DecidedOnTables, LogImplementsHistory, PTL
   DEF ImplementsEventLog, ImplementsHistory
=============================================================================
