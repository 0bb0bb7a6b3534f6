---------------------------- MODULE EventService ----------------------------
(***************************************************************************)
(* One EventService over its SqlEventRepository, the only writer of the    *)
(* event tables: app/events/service.py with app/db/event_repository.py.    *)
(*                                                                         *)
(* ingest is one synchronous call.  It is split where it can fail: Propose *)
(* computes the new event version from memory, SaveCommits or SaveFails    *)
(* ends the transaction, Publish updates the in-memory indexes.  The       *)
(* caller sees the exception of a failed save and may go on, the process   *)
(* may die between any two steps, and a new process builds its memory from *)
(* the tables.  Envelopes arrive in any order, repeatedly, and redelivered *)
(* under fresh uuids.                                                      *)
(***************************************************************************)
EXTENDS EventLog

CONSTANTS
  Down,       \* no service process is running
  Idle        \* no ingest call is in progress

VARIABLES
  memory,     \* _events, _by_identity and _by_content_hash, or Down
  pending     \* the ingest call in progress: item, event, saved; or Idle

vars == <<db, memory, pending>>

Up == memory # Down

\* uuid4 repeats no id of a stored event.
UsedIds == {r.id : r \in db.rows}

Init ==
  /\ db = EmptyTables
  /\ memory = Down
  /\ pending = Idle

\* A process starts: the constructor calls refresh.
Start ==
  /\ ~Up
  /\ memory' = LoadState(db)
  /\ UNCHANGED <<db, pending>>

\* A call of refresh on a running service.
Refresh ==
  /\ Up /\ pending = Idle
  /\ memory' = LoadState(db)
  /\ UNCHANGED <<db, pending>>

\* ingest of an item whose identity is indexed: nothing changes.
IgnoreDuplicate(i) ==
  /\ Up /\ pending = Idle
  /\ Known(memory, i)
  /\ UNCHANGED vars

\* ingest of a new item, up to the call of save.
Propose(i) ==
  /\ Up /\ pending = Idle
  /\ ~Known(memory, i)
  /\ \E ev \in Proposals(memory, i, UsedIds) :
       pending' = [item |-> i, event |-> ev, saved |-> FALSE]
  /\ UNCHANGED <<db, memory>>

\* Faulty variant of SaveCommits: memory is never told of the commit.
SaveCommitsUnpublished ==
  /\ pending # Idle /\ ~pending.saved
  /\ Accepts(db, pending.item)
  /\ db' = Save(db, pending.item, pending.event)
  /\ pending' = Idle
  /\ UNCHANGED memory

\* The transaction of save commits.
SaveCommits ==
  /\ pending # Idle /\ ~pending.saved
  /\ Accepts(db, pending.item)
  /\ db' = Save(db, pending.item, pending.event)
  /\ pending' = [pending EXCEPT !.saved = TRUE]
  /\ UNCHANGED memory

\* Faulty variant of SaveFails: memory was updated before the save.
SaveFailsLeavesGhost ==
  /\ pending # Idle /\ ~pending.saved
  /\ memory' = Published(memory, pending.item, pending.event)
  /\ pending' = Idle
  /\ UNCHANGED db

\* The transaction of save rolls back; the exception leaves ingest.
SaveFails ==
  /\ pending # Idle /\ ~pending.saved
  /\ pending' = Idle
  /\ UNCHANGED <<db, memory>>

\* ingest after save: the new version becomes visible in memory.
Publish ==
  /\ pending # Idle /\ pending.saved
  /\ memory' = Published(memory, pending.item, pending.event)
  /\ pending' = Idle
  /\ UNCHANGED db

\* The process dies, in whatever step it is.
Crash ==
  /\ Up
  /\ memory' = Down
  /\ pending' = Idle
  /\ UNCHANGED db

Next ==
  \/ Start
  \/ Refresh
  \/ \E i \in Envelopes : IgnoreDuplicate(i)
  \/ \E i \in Envelopes : Propose(i)
  \/ SaveCommits
  \/ SaveFails
  \/ Publish
  \/ Crash

Spec == Init /\ [][Next]_vars

-----------------------------------------------------------------------------
(* Types.                                                                  *)

PendingType == [item : Envelopes, event : EventType, saved : BOOLEAN]

ASSUME IdleAssumption == Idle \notin PendingType

\* Tables, memory and the call in progress have the shapes the code gives
\* them; an ingest call runs only in a live process.
TypeOK ==
  /\ db \in TablesType
  /\ memory \in MemoryType \cup {Down}
  /\ pending \in PendingType \cup {Idle}
  /\ pending # Idle => Up

-----------------------------------------------------------------------------
(* Properties.                                                             *)

\* Memory never runs ahead of or behind what is committed, except by the
\* one version whose transaction has committed and is not yet published:
\* a failed save leaves no ghost event, and a restart at any point finds
\* the state the process would have reached (service.py 70-85, 159-164).
MemoryIsDurable ==
  Up => LoadState(db) =
          IF pending # Idle /\ pending.saved
          THEN Published(memory, pending.item, pending.event)
          ELSE memory

\* The identity check in memory is as strong as the unique indexes of
\* raw_items, but for empty native ids (service.py 79 and 109 against
\* models.py 44-60): a save the service attempts is refused by an index only
\* if the item and a stored one of its source both have the empty native id
\* and differ in content.
ConflictOnlyOnEmptyIds ==
  (pending # Idle /\ ~pending.saved) =>
    \A j \in db.raw :
      Conflicts(pending.item, j) =>
        /\ pending.item.native = EmptyNative /\ j.native = EmptyNative
        /\ pending.item.hash # j.hash

\* ingest always has an answer, and one only: the index entry of a known
\* identity names an event in memory (self._events[existing_id] raises no
\* KeyError, service.py 113), and of the candidates exactly one is ranked
\* above the others, in whatever order they are enumerated (104-106).
IngestDecides ==
  Up /\ pending = Idle =>
    /\ \A x \in memory.items : \E ev \in memory.events : ev.id = x.event
    /\ \A i \in Envelopes :
         Candidates(memory, i) # {} =>
           \E ev \in Candidates(memory, i) :
             Proposals(memory, i, UsedIds) = {NextVersion(ev, i)}

\* Filed once and without gaps: one raw item stands for an identity, it is
\* a mention of exactly one version, which exists, and the versions of an
\* event are 1, 2, ...
TablesConsistent ==
  /\ \A i, j \in db.raw : Identity(i) = Identity(j) => i = j
  /\ {x.item : x \in db.mentions} = db.raw
  /\ \A x \in db.mentions : x.version \in VersionsOf(db, x.event)
  /\ \A x, y \in db.mentions : x.item = y.item => x = y
  /\ Contiguous(db)

\* Every version that can be asked for, current or historical, describes
\* exactly the mentions that load_event_version rebuilds for it.
LineageReconstructs ==
  \A r \in db.rows :
    \A ev \in LoadEventVersion(db, r.id, r.version) : Lineage(ev)

\* An item joined its event only within the clustering window of the
\* version before it, in the same category, and by content or title.
ClustersCohere ==
  \A x \in {y \in db.mentions : y.version > 1} :
    \E before \in LoadEventVersion(db, x.event, x.version - 1) :
      /\ before.type = x.item.category
      /\ Distance(x.item.received, before.last) <= ClusterWindow
      /\ \/ \E y \in before.mentions : y.hash = x.item.hash
         \/ SimilarTitle(x.item, before)

\* No step changes what load_event_version answers for a stored version,
\* nor removes a version, a mention or a raw item (README: "append-only
\* canonical event versions").
AppendOnly ==
  [][/\ HistoryKept(db, db')
     /\ db.raw \subseteq db'.raw
     /\ db.mentions \subseteq db'.mentions]_vars

\* The tables implement an append-only, exactly-once history: every step is
\* a stutter or records one new identity as one new version of one event.
ImplementsHistory == History!Spec

\* The tables change as if each item were decided on them and filed in one
\* step, although ingest decides on its memory, fails, and is restarted.
ImplementsEventLog == LogSpec
=============================================================================
