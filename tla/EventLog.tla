------------------------------ MODULE EventLog ------------------------------
(***************************************************************************)
(* The event tables as their readers may think of them: one item after the *)
(* other is decided on the tables themselves and filed in one step.        *)
(* Nothing of it is in the code, where the decision is taken on the memory *)
(* of a process that failed saves, restarts and other writers could leave  *)
(* behind.  EventService, and EventWorkers where only one worker exists,   *)
(* are shown to implement LogSpec; EventReaders is built on LogCommit.     *)
(***************************************************************************)
EXTENDS EventStore

VARIABLE
  db          \* the committed tables

LogInit == db = EmptyTables

\* An item of an unknown identity, which the unique indexes accept, becomes
\* a version of one event.
LogCommit(i) ==
  /\ ~Known(LoadState(db), i)
  /\ Accepts(db, i)
  /\ \E ev \in Proposals(LoadState(db), i, {r.id : r \in db.rows}) :
       db' = Save(db, i, ev)

LogNext == \E i \in Envelopes : LogCommit(i)

LogSpec == LogInit /\ [][LogNext]_db

-----------------------------------------------------------------------------
(* The abstract history behind the tables.                                 *)

\* Event e as the versions 1, 2, ... that load_event_version rebuilds.
RecordedHistory ==
  [e \in EventIds |->
     [v \in 1 .. Cardinality(VersionsOf(db, e)) |-> MentionsAt(db, e, v)]]

History == INSTANCE CanonicalHistory WITH
             Items <- Envelopes, Key <- Identity, history <- RecordedHistory
=============================================================================
