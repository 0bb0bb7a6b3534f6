---------------------------- MODULE EventWorkers ----------------------------
(***************************************************************************)
(* Event ingestion processes sharing one database: services/worker/        *)
(* event_worker.py with app/db/locks.py and app/db/factory.py.             *)
(*                                                                         *)
(* main builds the persistent service first, which loads its memory with   *)
(* the two SELECTs of load_state, and only then asks for the advisory      *)
(* lease; it ingests from that memory, never looking at the tables again.  *)
(* A worker that does not get the lease raises and ends.  PostgreSQL frees *)
(* the lease when the holder's connection ends: at exit, when the process  *)
(* dies, or alone, unnoticed by the worker.  On any other database the     *)
(* lease is a no-op.  Decision and save of one ingest are one step: the    *)
(* decision reads the worker's own memory only.                            *)
(***************************************************************************)
EXTENDS EventLog

CONSTANTS
  Workers,        \* processes that may run event_worker.py
  Nobody,         \* the lease is free
  LeaseEnforced,  \* the database is PostgreSQL
  LeaseMayDrop    \* the lease connection may end while the worker lives

ASSUME LeaseAssumption == LeaseEnforced \in BOOLEAN /\ LeaseMayDrop \in BOOLEAN

ASSUME NobodyAssumption == Nobody \notin Workers

VARIABLES
  lease,     \* the holder of the advisory lock, or Nobody
  stage,     \* where each worker is in main
  selected,  \* the event rows a worker read with the first SELECT
  memory,    \* the memory of each worker's EventService
  fetched    \* envelopes already built: their uuids are never used again

vars == <<db, lease, stage, selected, memory, fetched>>

Init ==
  /\ db = EmptyTables
  /\ lease = Nobody
  /\ stage = [w \in Workers |-> "ended"]
  /\ selected = [w \in Workers |-> {}]
  /\ memory = [w \in Workers |-> EmptyMemory]
  /\ fetched = {}

UsedIds ==
  {r.id : r \in db.rows}
    \cup UNION {{ev.id : ev \in memory[w].events} : w \in Workers}

\* main 19: EventService(...) calls load_state, first SELECT.
SelectRows(w) ==
  /\ stage[w] = "ended"
  /\ stage' = [stage EXCEPT ![w] = "selecting"]
  /\ selected' = [selected EXCEPT ![w] = LatestRows(db)]
  /\ UNCHANGED <<db, lease, memory, fetched>>

\* load_state, second SELECT, and refresh's new memory.
SelectMentions(w) ==
  /\ stage[w] = "selecting"
  /\ stage' = [stage EXCEPT ![w] = "loaded"]
  /\ memory' = [memory EXCEPT ![w] = Assemble(selected[w], db.mentions)]
  /\ selected' = [selected EXCEPT ![w] = {}]
  /\ UNCHANGED <<db, lease, fetched>>

\* Faulty variant of Acquire: the answer of pg_try_advisory_lock is ignored.
AcquireUnchecked(w) ==
  /\ stage[w] = "loaded"
  /\ lease' = IF LeaseEnforced /\ lease = Nobody THEN w ELSE lease
  /\ stage' = [stage EXCEPT ![w] = "ingesting"]
  /\ UNCHANGED <<db, selected, memory, fetched>>

\* pg_try_advisory_lock answers true, or there is no lock to take.
Acquire(w) ==
  /\ stage[w] = "loaded"
  /\ IF LeaseEnforced THEN lease = Nobody /\ lease' = w ELSE UNCHANGED lease
  /\ stage' = [stage EXCEPT ![w] = "ingesting"]
  /\ UNCHANGED <<db, selected, memory, fetched>>

\* Faulty variant of End: the lease is not given back.
EndKeepingLease(w) ==
  /\ stage' = [stage EXCEPT ![w] = "ended"]
  /\ selected' = [selected EXCEPT ![w] = {}]
  /\ memory' = [memory EXCEPT ![w] = EmptyMemory]
  /\ UNCHANGED lease

\* The process ends and its memory with it; its connections close.
End(w) ==
  /\ stage' = [stage EXCEPT ![w] = "ended"]
  /\ selected' = [selected EXCEPT ![w] = {}]
  /\ memory' = [memory EXCEPT ![w] = EmptyMemory]
  /\ lease' = IF lease = w THEN Nobody ELSE lease

\* RuntimeError: another worker owns the lease.
LeaseRefused(w) ==
  /\ stage[w] = "loaded"
  /\ LeaseEnforced /\ lease # Nobody
  /\ End(w)
  /\ UNCHANGED <<db, fetched>>

\* ingest of an indexed identity: nothing changes.
IgnoreDuplicate(w, i) ==
  /\ stage[w] = "ingesting"
  /\ i \notin fetched
  /\ Known(memory[w], i)
  /\ \E x \in memory[w].items :
       /\ Identity(x.item) = Identity(i)
       /\ \E ev \in memory[w].events : ev.id = x.event
  /\ fetched' = fetched \cup {i}
  /\ UNCHANGED <<db, lease, stage, selected, memory>>

\* The identity is indexed, its event is not: self._events[existing_id]
\* raises KeyError, which ends the worker.
KnownWithoutEvent(w, i) ==
  /\ stage[w] = "ingesting"
  /\ i \notin fetched
  /\ \E x \in memory[w].items :
       /\ Identity(x.item) = Identity(i)
       /\ \A ev \in memory[w].events : ev.id # x.event
  /\ fetched' = fetched \cup {i}
  /\ End(w)
  /\ UNCHANGED db

\* ingest of a new item: save commits, memory follows.
Ingest(w, i) ==
  /\ stage[w] = "ingesting"
  /\ i \notin fetched
  /\ ~Known(memory[w], i)
  /\ Accepts(db, i)
  /\ \E ev \in Proposals(memory[w], i, UsedIds) :
       /\ db' = Save(db, i, ev)
       /\ memory' = [memory EXCEPT ![w] = Published(@, i, ev)]
  /\ fetched' = fetched \cup {i}
  /\ UNCHANGED <<lease, stage, selected>>

\* save raises, by a unique index (Accepts fails) or because the database
\* does; nothing is written and the exception ends the worker.
IngestFails(w, i) ==
  /\ stage[w] = "ingesting"
  /\ i \notin fetched
  /\ ~Known(memory[w], i)
  /\ fetched' = fetched \cup {i}
  /\ End(w)
  /\ UNCHANGED db

\* The feeds are exhausted: finally unlocks, main returns.
Finish(w) ==
  /\ stage[w] = "ingesting"
  /\ End(w)
  /\ UNCHANGED <<db, fetched>>

\* The process dies before it ingests.  (While it ingests, dying is Finish.)
Die(w) ==
  /\ stage[w] \in {"selecting", "loaded"}
  /\ End(w)
  /\ UNCHANGED <<db, fetched>>

\* The lease connection ends and the worker does not notice.
DropLease ==
  /\ LeaseMayDrop /\ lease # Nobody
  /\ lease' = Nobody
  /\ UNCHANGED <<db, stage, selected, memory, fetched>>

Next ==
  \/ \E w \in Workers : SelectRows(w)
  \/ \E w \in Workers : SelectMentions(w)
  \/ \E w \in Workers : Acquire(w)
  \/ \E w \in Workers : LeaseRefused(w)
  \/ \E w \in Workers, i \in Envelopes : IgnoreDuplicate(w, i)
  \/ \E w \in Workers, i \in Envelopes : KnownWithoutEvent(w, i)
  \/ \E w \in Workers, i \in Envelopes : Ingest(w, i)
  \/ \E w \in Workers, i \in Envelopes : IngestFails(w, i)
  \/ \E w \in Workers : Finish(w)
  \/ \E w \in Workers : Die(w)
  \/ DropLease

Spec == Init /\ [][Next]_vars

-----------------------------------------------------------------------------
(* Types.                                                                  *)

\* Shapes of the tables, the memories and the stages; a worker that has
\* ended holds neither memory nor lease.
TypeOK ==
  /\ db \in TablesType
  /\ lease \in Workers \cup {Nobody}
  /\ stage \in [Workers -> {"ended", "selecting", "loaded", "ingesting"}]
  /\ selected \in [Workers -> SUBSET RowType]
  /\ memory \in [Workers -> MemoryType]
  /\ fetched \subseteq Envelopes
  /\ \A w \in Workers :
       stage[w] = "ended" => memory[w] = EmptyMemory /\ lease # w

-----------------------------------------------------------------------------
(* Properties: what the tables keep whatever the workers do.               *)

\* However often an item is fetched and by whomever, one raw item stands
\* for it, and that raw item is a mention of one existing version.  Workers
\* that race might store one content twice only if its source leaves the
\* native id out once and empty once, which no unique index holds apart.
ItemsStoredOnce ==
  /\ \A i, j \in db.raw :
       Identity(i) = Identity(j) =>
         i = j \/ {i.native, j.native} = {NoNative, EmptyNative}
  /\ {x.item : x \in db.mentions} = db.raw
  /\ \A x, y \in db.mentions : x.item = y.item => x = y
  /\ \A x \in db.mentions : x.version \in VersionsOf(db, x.event)

\* Whatever workers race, with stale or torn memories, with or without the
\* lease, the versions of an event are 1, 2, ... without a gap, and none is
\* without an item that caused it: a race may file two items under one
\* version, never leave a version of an event missing or unexplained.
VersionsExplained ==
  /\ Contiguous(db)
  /\ \A r \in db.rows :
       \E x \in db.mentions : x.event = r.id /\ x.version = r.version

\* Stale memory is the only danger: a worker whose memory agrees with the
\* tables when it ingests rewrites no history and stays in agreement.
FreshWorkerAppends ==
  [][\A w \in Workers :
       (memory[w] = LoadState(db) /\ db' # db /\ memory'[w] # memory[w]) =>
         HistoryKept(db, db') /\ memory'[w] = LoadState(db')]_vars

\* README: "PostgreSQL advisory leases enforce one migration owner and one
\* active event-ingestion worker."  It holds where the lease connection
\* lives as long as the worker.
OneActiveWorker ==
  \A w, x \in Workers : stage[w] = "ingesting" /\ stage[x] = "ingesting" => w = x

\* README: "append-only canonical event versions".  What was stored as a
\* version of an event stays that version.
AppendOnlyVersions == [][HistoryKept(db, db')]_vars
=============================================================================
