----------------------------- MODULE Migrations -----------------------------
(***************************************************************************)
(* The migration runner, scripts/apply_migrations.py.                      *)
(*                                                                         *)
(* A run is one transaction of many statements: the ledger table if there  *)
(* is none, the statements and the ledger entry of every file that is not  *)
(* recorded.  Different releases run against one database in any order;    *)
(* a run may be refused, fail at any statement, or die.  On PostgreSQL the *)
(* transaction covers DDL and begins with the advisory lock, so that one   *)
(* run is in progress at a time.  On SQLite, which the tests use, there is *)
(* no lock (one run at a time is assumed) and sqlite3 opens a transaction  *)
(* at the first INSERT or UPDATE only: DDL before it is permanent at once. *)
(*                                                                         *)
(* A file is its text up to line endings and whether these are CRLF; a     *)
(* checksum is what it digests.  A statement creates a table, perhaps only *)
(* IF NOT EXISTS; the indexes belong to their table.                       *)
(***************************************************************************)
EXTENDS Integers, Sequences

CONSTANTS
  Texts,         \* texts of migration files
  Statements,    \* for each text, its statements without BEGIN and COMMIT
  Releases,      \* migration directories: functions from version to file
  DomainTables,  \* DOMAIN_TABLES
  OtherTables,   \* tables of other applications in the same database
  NoLedger,      \* there is no schema_migrations table
  Incompatible,  \* it lacks columns
  Foreign,       \* the origin of a table no migration created
  NoRun          \* no run is in progress

Created(x) == {Statements[x][n].table : n \in 1 .. Len(Statements[x])}

Files == [text : Texts, crlf : BOOLEAN]

\* Versions are file names: their order is all that matters.  Every file
\* creates domain tables of its own.
ASSUME ReleasesAssumption ==
  /\ \A x \in Texts :
       /\ Statements[x] \in Seq([table : DomainTables, ifAbsent : BOOLEAN])
       /\ \A m, n \in 1 .. Len(Statements[x]) :
            Statements[x][m].table = Statements[x][n].table => m = n
  /\ \A r \in Releases :
       /\ DOMAIN r \subseteq Int
       /\ r \in [DOMAIN r -> Files]
       /\ \A u, v \in DOMAIN r :
            Created(r[u].text) \cap Created(r[v].text) # {} => u = v

ASSUME NamesAssumption ==
  /\ DomainTables \cap OtherTables = {}
  /\ Foreign \notin Texts

VARIABLES
  dialect,  \* of the database, for ever
  db,       \* what is committed: the ledger, and the origin of each table
  release,  \* the directory of the current or last run
  run,      \* the run in progress: what its connection sees, whether a
            \* transaction is open, the versions left, statements executed
  result    \* of the last run

vars == <<dialect, db, release, run, result>>

-----------------------------------------------------------------------------
(* Databases.                                                              *)

\* migration_checksum and _legacy_byte_checksum
Checksum(file) == [text |-> file.text, crlf |-> FALSE]
LegacyByteChecksum(file) == file

With(f, x, y) == [z \in DOMAIN f \cup {x} |-> IF z = x THEN y ELSE f[z]]

NoTables == [t \in {} |-> Foreign]

EmptyLedger == [v \in {} |-> Foreign]

\* The tables of a release, each with the text that creates it.
TablesOf(r) ==
  [t \in UNION {Created(r[v].text) : v \in DOMAIN r} |->
     CHOOSE x \in {r[v].text : v \in DOMAIN r} : t \in Created(x)]

Versioned(d) == d.ledger \notin {NoLedger, Incompatible}

\* A new database, one of another application, one whose schema was created
\* without the runner (factory.py create_schema), one with a foreign ledger,
\* and those an older runner left, which recorded byte checksums.
InitialDatabases ==
  {[ledger |-> NoLedger, tables |-> [t \in s |-> Foreign]] :
     s \in {{}, OtherTables, DomainTables}}
  \cup {[ledger |-> Incompatible, tables |-> NoTables]}
  \cup {[ledger |-> r, tables |-> TablesOf(r)] : r \in Releases}

Init ==
  /\ dialect \in {"postgresql", "sqlite"}
  /\ db \in InitialDatabases
  /\ release \in Releases
  /\ run = NoRun
  /\ result = "none"

-----------------------------------------------------------------------------
(* The runner.                                                             *)

\* Faulty variant of Accepts: any schema without a ledger is adopted.
AcceptsUnversioned(d, r) ==
  IF d.ledger = NoLedger THEN TRUE
  ELSE d.ledger # Incompatible /\ DOMAIN d.ledger \subseteq DOMAIN r

\* Faulty variant of Accepts: an older release runs on a newer database.
AcceptsNewer(d, r) ==
  IF d.ledger = NoLedger
  THEN DOMAIN d.tables \cap DomainTables = {}
  ELSE d.ledger # Incompatible

\* The ledger is absent together with every domain table, or it is complete
\* and has no version the release lacks.
Accepts(d, r) ==
  IF d.ledger = NoLedger
  THEN DOMAIN d.tables \cap DomainTables = {}
  ELSE d.ledger # Incompatible /\ DOMAIN d.ledger \subseteq DOMAIN r

\* Permanent at once, unless a transaction is open.
Write(open, seen) == db' = IF open THEN db ELSE seen

\* The lock, the ledger, and the list of files.
Begin(r) ==
  /\ run = NoRun
  /\ Accepts(db, r)
  /\ LET seen == [db EXCEPT !.ledger = IF @ = NoLedger THEN EmptyLedger ELSE @]
         open == dialect = "postgresql"
     IN  /\ run' = [seen |-> seen, open |-> open, todo |-> DOMAIN r, executed |-> 0]
         /\ Write(open, seen)
  /\ release' = r
  /\ result' = "running"
  /\ UNCHANGED dialect

RefuseSchema(r) ==
  /\ run = NoRun
  /\ ~Accepts(db, r)
  /\ release' = r
  /\ result' = "refused"
  /\ UNCHANGED <<dialect, db, run>>

\* Faulty variant of RollBack: the connection is not given back.
RollBackAndHang(outcome) ==
  /\ result' = outcome
  /\ UNCHANGED <<dialect, db, release, run>>

\* The run ends without a commit: what its transaction did is undone.
RollBack(outcome) ==
  /\ run' = NoRun
  /\ result' = outcome
  /\ UNCHANGED <<dialect, db, release>>

\* The first file of sorted(directory.glob("*.sql")) that is not dealt with.
Turn(v) == run # NoRun /\ v \in run.todo /\ \A u \in run.todo : v <= u

Recorded(v) == v \in DOMAIN run.seen.ledger

\* Faulty variant of Unchanged: the checksum is not compared.
UnchangedByName(v) == TRUE

\* The recorded checksum is that of the file, or of its bytes.
Unchanged(v) ==
  run.seen.ledger[v] \in {Checksum(release[v]), LegacyByteChecksum(release[v])}

RefuseChanged(v) ==
  /\ Turn(v) /\ Recorded(v) /\ ~Unchanged(v)
  /\ RollBack("refused")

\* A recorded file is left alone; a byte checksum is replaced.
PassRecorded(v) ==
  /\ Turn(v) /\ Recorded(v) /\ Unchanged(v)
  /\ LET renewed == run.seen.ledger[v] # Checksum(release[v])
         seen == [run.seen EXCEPT !.ledger = With(@, v, Checksum(release[v]))]
         open == run.open \/ renewed
     IN  /\ run' = [run EXCEPT !.seen = seen, !.open = open, !.todo = @ \ {v}]
         /\ Write(open, seen)
  /\ UNCHANGED <<dialect, release, result>>

NextStatement(v) == Statements[release[v].text][run.executed + 1]

\* The next statement of a file that is not recorded.
Pending(v) ==
  /\ Turn(v) /\ ~Recorded(v)
  /\ run.executed < Len(Statements[release[v].text])

Collides(v) == NextStatement(v).table \in DOMAIN run.seen.tables

\* Faulty variant of Execute: the COMMIT of the file is executed too.
ExecuteAndCommit(v) ==
  /\ Pending(v) /\ ~Collides(v)
  /\ LET seen == [run.seen EXCEPT
                    !.tables = With(@, NextStatement(v).table, release[v].text)]
     IN  /\ run' = [run EXCEPT !.seen = seen, !.executed = @ + 1]
         /\ db' = seen
  /\ UNCHANGED <<dialect, release, result>>

Execute(v) ==
  /\ Pending(v) /\ ~Collides(v)
  /\ LET seen == [run.seen EXCEPT
                    !.tables = With(@, NextStatement(v).table, release[v].text)]
     IN  /\ run' = [run EXCEPT !.seen = seen, !.executed = @ + 1]
         /\ Write(run.open, seen)
  /\ UNCHANGED <<dialect, release, result>>

\* CREATE TABLE IF NOT EXISTS
PassExisting(v) ==
  /\ Pending(v) /\ Collides(v) /\ NextStatement(v).ifAbsent
  /\ run' = [run EXCEPT !.executed = @ + 1]
  /\ UNCHANGED <<dialect, db, release, result>>

StatementFails(v) ==
  /\ Pending(v) /\ Collides(v) /\ ~NextStatement(v).ifAbsent
  /\ RollBack("failed")

\* INSERT INTO schema_migrations
Record(v) ==
  /\ Turn(v) /\ ~Recorded(v)
  /\ run.executed = Len(Statements[release[v].text])
  /\ run' = [run EXCEPT !.seen.ledger = With(@, v, Checksum(release[v])),
                        !.open = TRUE, !.todo = @ \ {v}, !.executed = 0]
  /\ UNCHANGED <<dialect, db, release, result>>

\* The transaction commits; the answer may be lost.
Commit ==
  /\ run # NoRun
  /\ run.todo = {}
  /\ db' = run.seen
  /\ run' = NoRun
  /\ result' \in {"succeeded", "failed"}
  /\ UNCHANGED <<dialect, release>>

\* The process or the connection dies, or any statement fails.
Interrupt ==
  /\ run # NoRun
  /\ RollBack("failed")

Next ==
  \/ \E r \in Releases : Begin(r) \/ RefuseSchema(r)
  \/ run # NoRun /\ \E v \in run.todo :
       \/ RefuseChanged(v)
       \/ PassRecorded(v)
       \/ Execute(v)
       \/ PassExisting(v)
       \/ StatementFails(v)
       \/ Record(v)
  \/ Commit
  \/ Interrupt

Spec == Init /\ [][Next]_vars

-----------------------------------------------------------------------------
(* Types.                                                                  *)

Versions == UNION {DOMAIN r : r \in Releases}

LedgerType == UNION {[s -> Files] : s \in SUBSET Versions}

TablesType ==
  UNION {[s -> Texts \cup {Foreign}] : s \in SUBSET (DomainTables \cup OtherTables)}

DatabaseType ==
  [ledger : LedgerType \cup {NoLedger, Incompatible}, tables : TablesType]

RunType ==
  [seen : [ledger : LedgerType, tables : TablesType], open : BOOLEAN,
   todo : SUBSET Versions, executed : Nat]

ASSUME NoValueAssumption ==
  /\ NoLedger # Incompatible
  /\ {NoLedger, Incompatible} \cap LedgerType = {}
  /\ NoRun \notin RunType

\* Shapes of the database and the run; a run that has ended holds no
\* connection, and so no lock.
TypeOK ==
  /\ dialect \in {"postgresql", "sqlite"}
  /\ db \in DatabaseType
  /\ release \in Releases
  /\ run \in RunType \cup {NoRun}
  /\ result \in {"none", "running", "succeeded", "refused", "failed"}
  /\ run # NoRun <=> result = "running"

-----------------------------------------------------------------------------
(* Properties.                                                             *)

\* DEVELOPMENT_STATUS.md:19: "checksummed transactional migrations that
\* reject incompatible/unversioned schemas".  No recorded migration lacks a
\* table, on either database and whatever fails.  On PostgreSQL there is also
\* no other domain table: no half-applied file, and no table adopted from
\* elsewhere.
SchemaMatchesLedger ==
  Versioned(db) =>
    /\ \A v \in DOMAIN db.ledger :
         Created(db.ledger[v].text) \subseteq DOMAIN db.tables
    /\ dialect = "postgresql" =>
         \A t \in DomainTables \cap DOMAIN db.tables :
           \E v \in DOMAIN db.ledger :
             db.ledger[v].text = db.tables[t] /\ t \in Created(db.tables[t])

EditsNothing == \A v \in DOMAIN run.seen.ledger : Unchanged(v)

\* After any sequence of failed runs a retry can complete: on PostgreSQL no
\* statement of a new file meets a table that is there, unless the release
\* has edited a recorded file and will be refused for that.
NoStatementCollides ==
  dialect = "postgresql" /\ run # NoRun /\ EditsNothing =>
    \A v \in run.todo : Pending(v) => ~Collides(v)

\* test_migration_sql.py: a run that returns has every file of its release in
\* the ledger with its checksum, and nothing else.
SuccessInstallsRelease ==
  result = "succeeded" =>
    db.ledger = [v \in DOMAIN release |-> Checksum(release[v])]

Contents(r) == [v \in DOMAIN r |-> r[v].text]

Log ==
  INSTANCE ReleaseLog WITH
    Directories <- {Contents(r) : r \in Releases},
    installed   <- IF Versioned(db) THEN Contents(db.ledger) ELSE Contents(EmptyLedger)

\* README: "checksummed and immutable".  On either database the ledger goes
\* from release to release as a whole, and no recorded migration is altered
\* or left out, whatever fails and whichever releases run.
ImplementsReleaseLog == Log!Spec
=============================================================================
