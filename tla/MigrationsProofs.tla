-------------------------- MODULE MigrationsProofs --------------------------
(***************************************************************************)
(* Safety of the migration runner, for any texts and releases.             *)
(***************************************************************************)
EXTENDS Migrations, TLAPS

-----------------------------------------------------------------------------
(* The inductive invariant.                                                *)

\* The tables the first n statements of a text create.
Prefix(x, n) == {Statements[x][k].table : k \in {j \in 1 .. Len(Statements[x]) : j <= n}}

\* The text in progress: that of the file whose turn it is, if not recorded.
InProgress(x) == \E v \in run.todo : Turn(v) /\ ~Recorded(v) /\ x = release[v].text

\* Statements are counted from the first of a file that is not recorded.
Counted ==
  \A v \in run.todo : Turn(v) =>
    IF Recorded(v) THEN run.executed = 0
    ELSE run.executed <= Len(Statements[release[v].text])

\* What the run has dealt with, it has recorded with its checksum.
DealtWith ==
  /\ run.todo \subseteq DOMAIN release
  /\ DOMAIN run.seen.ledger \subseteq DOMAIN release
  /\ \A v \in DOMAIN release \ run.todo :
       v \in DOMAIN run.seen.ledger /\ run.seen.ledger[v] = Checksum(release[v])

\* The run sees every committed entry; without a transaction, it sees
\* exactly what is committed.
SeesCommitted ==
  /\ run.open \/ db = run.seen
  /\ Versioned(db) =>
       \A v \in DOMAIN db.ledger :
         v \in DOMAIN run.seen.ledger /\ run.seen.ledger[v].text = db.ledger[v].text

\* On either database no table of a recorded file, or of the statements
\* executed, is missing.
NothingMissing ==
  /\ \A v \in DOMAIN run.seen.ledger :
       Created(run.seen.ledger[v].text) \subseteq DOMAIN run.seen.tables
  /\ \A x \in Texts :
       InProgress(x) => Prefix(x, run.executed) \subseteq DOMAIN run.seen.tables

\* On PostgreSQL it sees no other domain table.
PartlyApplied ==
  /\ run.open
  /\ \A t \in DomainTables \cap DOMAIN run.seen.tables :
       \/ \E v \in DOMAIN run.seen.ledger :
            /\ run.seen.ledger[v].text = run.seen.tables[t]
            /\ t \in Created(run.seen.tables[t])
       \/ /\ InProgress(run.seen.tables[t])
          /\ t \in Prefix(run.seen.tables[t], run.executed)

\* Where every file of the release is recorded, the run has added no table
\* and the entries it has not reached are the committed ones.
LeavesInstalled ==
  Versioned(db) /\ DOMAIN release \subseteq DOMAIN db.ledger =>
    /\ run.seen.tables = db.tables
    /\ \A v \in run.todo : run.seen.ledger[v] = db.ledger[v]

IInv ==
  /\ TypeOK
  /\ SchemaMatchesLedger
  /\ SuccessInstallsRelease
  /\ run # NoRun => /\ Counted /\ DealtWith /\ SeesCommitted
                    /\ NothingMissing /\ LeavesInstalled
  /\ run # NoRun /\ dialect = "postgresql" => PartlyApplied

-----------------------------------------------------------------------------
(* The data.                                                               *)

LEMMA ReleaseType ==
  ASSUME NEW r \in Releases
  PROVE  /\ DOMAIN r \subseteq Versions
         /\ DOMAIN r \subseteq Int
         /\ r \in [DOMAIN r -> Files]
         /\ \A v \in DOMAIN r : /\ r[v] \in Files
                                /\ r[v].text \in Texts
                                /\ Checksum(r[v]) \in Files
                                /\ Checksum(r[v]).text = r[v].text
<1>1. DOMAIN r \subseteq Int /\ r \in [DOMAIN r -> Files]
  BY ReleasesAssumption
<1> QED BY <1>1 DEF Versions, Checksum, Files

LEMMA StatementType ==
  ASSUME NEW x \in Texts, NEW n \in 1 .. Len(Statements[x])
  PROVE  /\ Statements[x][n].table \in DomainTables
         /\ Statements[x][n].table \in Created(x)
         /\ Len(Statements[x]) \in Nat
<1> DEFINE S == [table : DomainTables, ifAbsent : BOOLEAN]
           s == Statements[x]
<1>1. s \in Seq(S)
  BY ReleasesAssumption
<1>2. Len(s) \in Nat /\ s[n] \in S
  <2> HIDE DEF S, s
  <2>1. n \in 1 .. Len(s)
    BY DEF s
  <2> QED BY <1>1, <2>1
<1> QED BY <1>2 DEF Created

LEMMA CreatedType ==
  ASSUME NEW x \in Texts
  PROVE  /\ Created(x) \subseteq DomainTables
         /\ Len(Statements[x]) \in Nat
         /\ Prefix(x, 0) = {}
         /\ Prefix(x, Len(Statements[x])) = Created(x)
<1>1. Statements[x] \in Seq([table : DomainTables, ifAbsent : BOOLEAN])
  BY ReleasesAssumption
<1>2. Len(Statements[x]) \in Nat
  BY <1>1
<1>3. Created(x) \subseteq DomainTables
  BY StatementType DEF Created
<1>4. {j \in 1 .. Len(Statements[x]) : j <= 0} = {}
  BY <1>2
<1>5. {j \in 1 .. Len(Statements[x]) : j <= Len(Statements[x])} = 1 .. Len(Statements[x])
  BY <1>2
<1>6. Prefix(x, 0) = {}
  BY <1>4 DEF Prefix
<1>7. Prefix(x, Len(Statements[x])) = Created(x)
  BY <1>5 DEF Prefix, Created
<1> QED BY <1>2, <1>3, <1>6, <1>7

\* One more entry, one more table.
LEMMA LedgerWith ==
  ASSUME NEW l \in LedgerType, NEW v \in Versions, NEW file \in Files
  PROVE  With(l, v, file) \in LedgerType
<1>1. PICK s \in SUBSET Versions : l \in [s -> Files]
  BY DEF LedgerType
<1>2. With(l, v, file) \in [s \cup {v} -> Files]
  BY <1>1 DEF With
<1> QED BY <1>2 DEF LedgerType

LEMMA TablesWith ==
  ASSUME NEW f \in TablesType, NEW t \in DomainTables, NEW x \in Texts
  PROVE  With(f, t, x) \in TablesType
<1>1. PICK s \in SUBSET (DomainTables \cup OtherTables) : f \in [s -> Texts \cup {Foreign}]
  BY DEF TablesType
<1>2. With(f, t, x) \in [s \cup {t} -> Texts \cup {Foreign}]
  BY <1>1 DEF With
<1> QED BY <1>2 DEF TablesType

LEMMA LedgerFacts ==
  ASSUME NEW l \in LedgerType
  PROVE  /\ DOMAIN l \subseteq Versions
         /\ l \in [DOMAIN l -> Files]
         /\ \A v \in DOMAIN l : l[v] \in Files /\ l[v].text \in Texts
BY DEF LedgerType, Files

LEMMA EmptyLedgerType == EmptyLedger \in LedgerType /\ DOMAIN EmptyLedger = {}
<1>1. EmptyLedger \in [{} -> Files]
  BY DEF EmptyLedger
<1> QED BY <1>1 DEF LedgerType, EmptyLedger

\* What an older runner left is a release and its tables.
LEMMA TablesOfRelease ==
  ASSUME NEW r \in Releases
  PROVE  /\ TablesOf(r) \in TablesType
         /\ \A t \in DOMAIN TablesOf(r) :
              \E v \in DOMAIN r : r[v].text = TablesOf(r)[t] /\ t \in Created(TablesOf(r)[t])
         /\ \A v \in DOMAIN r : Created(r[v].text) \subseteq DOMAIN TablesOf(r)
<1> DEFINE S == UNION {Created(r[v].text) : v \in DOMAIN r}
           P(t) == CHOOSE x \in {r[v].text : v \in DOMAIN r} : t \in Created(x)
<1>1. TablesOf(r) = [t \in S |-> P(t)]
  BY DEF TablesOf
<1>2. ASSUME NEW t \in S PROVE P(t) \in {r[v].text : v \in DOMAIN r} /\ t \in Created(P(t))
  <2>1. \E x \in {r[v].text : v \in DOMAIN r} : t \in Created(x)
    BY <1>2
  <2> QED BY <2>1
<1>3. \A v \in DOMAIN r : r[v].text \in Texts
  BY ReleaseType
<1>4. S \in SUBSET (DomainTables \cup OtherTables)
  BY <1>3, CreatedType
<1>5. \A t \in S : P(t) \in Texts \cup {Foreign}
  BY <1>2, <1>3
<1> HIDE DEF P
<1>6. TablesOf(r) \in [S -> Texts \cup {Foreign}]
  BY <1>1, <1>5
<1>7. TablesOf(r) \in TablesType
  BY <1>4, <1>6 DEF TablesType
<1>8. \A t \in DOMAIN TablesOf(r) :
        \E v \in DOMAIN r : r[v].text = TablesOf(r)[t] /\ t \in Created(TablesOf(r)[t])
  BY <1>1, <1>2
<1> QED BY <1>1, <1>7, <1>8

\* One more statement, one more table.
LEMMA PrefixNext ==
  ASSUME NEW x \in Texts, NEW n \in Nat, n < Len(Statements[x])
  PROVE  /\ n + 1 \in 1 .. Len(Statements[x])
         /\ Prefix(x, n + 1) = Prefix(x, n) \cup {Statements[x][n + 1].table}
         /\ Prefix(x, n) \subseteq Created(x)
<1>1. Len(Statements[x]) \in Nat
  BY CreatedType
<1>2. {j \in 1 .. Len(Statements[x]) : j <= n + 1}
        = {j \in 1 .. Len(Statements[x]) : j <= n} \cup {n + 1}
  BY <1>1
<1>3. n + 1 \in 1 .. Len(Statements[x])
  BY <1>1
<1> QED BY <1>2, <1>3 DEF Prefix, Created

-----------------------------------------------------------------------------
(* The invariant is inductive.                                             *)

\* The parts of a run in progress.
LEMMA RunFacts ==
  ASSUME IInv, run # NoRun
  PROVE  /\ run \in RunType
         /\ run.seen \in [ledger : LedgerType, tables : TablesType]
         /\ run.seen.ledger \in LedgerType /\ run.seen.tables \in TablesType
         /\ run.open \in BOOLEAN /\ run.executed \in Nat
         /\ release \in Releases
         /\ run.todo \subseteq DOMAIN release /\ run.todo \subseteq Int
         /\ run.todo \subseteq Versions
         /\ \A v \in run.todo : /\ release[v].text \in Texts
                                /\ Checksum(release[v]) \in Files
                                /\ Checksum(release[v]).text = release[v].text
                                /\ Len(Statements[release[v].text]) \in Nat
         /\ dialect = "postgresql" => run.open
         /\ \A u, v \in run.todo : Turn(u) /\ Turn(v) => u = v
<1>1. run \in RunType /\ release \in Releases
  BY DEF IInv, TypeOK
<1>2. run.todo \subseteq DOMAIN release
  BY DEF IInv, DealtWith
<1>3. run.todo \subseteq Int /\ run.todo \subseteq Versions
  BY <1>1, <1>2, ReleaseType
<1>4. \A u, v \in run.todo : Turn(u) /\ Turn(v) => u = v
  BY <1>3 DEF Turn
<1>5. \A v \in run.todo : /\ release[v].text \in Texts
                          /\ Checksum(release[v]) \in Files
                          /\ Checksum(release[v]).text = release[v].text
  BY <1>1, <1>2, ReleaseType
<1>6. \A v \in run.todo : Len(Statements[release[v].text]) \in Nat
  BY <1>5, CreatedType
<1> QED BY <1>1, <1>2, <1>3, <1>4, <1>5, <1>6 DEF IInv, PartlyApplied, RunType

LEMMA InitIInv == Init => IInv
<1> SUFFICES ASSUME Init PROVE IInv
  OBVIOUS
<1>1. ASSUME NEW s \in {{}, OtherTables, DomainTables},
             db = [ledger |-> NoLedger, tables |-> [t \in s |-> Foreign]]
      PROVE  db \in DatabaseType /\ ~Versioned(db)
  <2>1. [t \in s |-> Foreign] \in TablesType
    BY DEF TablesType
  <2> QED BY <1>1, <2>1 DEF DatabaseType, Versioned
<1>2. ASSUME db = [ledger |-> Incompatible, tables |-> NoTables]
      PROVE  db \in DatabaseType /\ ~Versioned(db)
  <2>1. NoTables \in [{} -> Texts \cup {Foreign}]
    BY DEF NoTables
  <2>2. NoTables \in TablesType
    BY <2>1 DEF TablesType
  <2> QED BY <1>2, <2>2 DEF DatabaseType, Versioned
<1>3. ASSUME NEW r \in Releases, db = [ledger |-> r, tables |-> TablesOf(r)]
      PROVE  db \in DatabaseType /\ SchemaMatchesLedger
  <2>1. r \in LedgerType
    BY ReleaseType DEF LedgerType
  <2>2. db \in DatabaseType
    BY <1>3, <2>1, TablesOfRelease DEF DatabaseType
  <2>3. \A v \in DOMAIN db.ledger : Created(db.ledger[v].text) \subseteq DOMAIN db.tables
    BY <1>3, TablesOfRelease
  <2>4. \A t \in DOMAIN db.tables :
          \E v \in DOMAIN db.ledger :
            db.ledger[v].text = db.tables[t] /\ t \in Created(db.tables[t])
    BY <1>3, TablesOfRelease
  <2> QED BY <2>2, <2>3, <2>4 DEF SchemaMatchesLedger
<1>4. db \in DatabaseType /\ SchemaMatchesLedger
  BY <1>1, <1>2, <1>3 DEF Init, InitialDatabases, SchemaMatchesLedger
<1> QED BY <1>4 DEF Init, IInv, TypeOK, SuccessInstallsRelease

LEMMA BeginKeepsIInv ==
  ASSUME IInv, NEW r \in Releases, Begin(r)
  PROVE  IInv'
<1> DEFINE ledger == IF db.ledger = NoLedger THEN EmptyLedger ELSE db.ledger
           seen == [ledger |-> ledger, tables |-> db.tables]
           open == dialect = "postgresql"
<1>1. db \in DatabaseType /\ dialect' = dialect
  BY DEF IInv, TypeOK, Begin
<1>2. /\ run' = [seen |-> seen, open |-> open, todo |-> DOMAIN r, executed |-> 0]
      /\ db' = IF open THEN db ELSE seen
      /\ release' = r /\ result' = "running"
  <2>1. [db EXCEPT !.ledger = IF @ = NoLedger THEN EmptyLedger ELSE @] = seen
    BY <1>1 DEF DatabaseType
  <2> QED BY <2>1 DEF Begin, Write
<1>3. ledger \in LedgerType /\ DOMAIN ledger \subseteq DOMAIN r /\ db.tables \in TablesType
  BY <1>1, EmptyLedgerType DEF Begin, Accepts, DatabaseType
<1>4. DOMAIN r \subseteq Versions /\ \A v \in DOMAIN r : Len(Statements[r[v].text]) \in Nat
  BY ReleaseType, CreatedType
<1>5. ledger \notin {NoLedger, Incompatible}
  BY <1>3, NoValueAssumption
<1> HIDE DEF ledger
<1>6. run' \in RunType
  BY <1>2, <1>3, <1>4 DEF RunType
<1>7. TypeOK'
  <2>1. seen \in DatabaseType
    BY <1>3 DEF DatabaseType
  <2>2. db' \in DatabaseType
    BY <1>1, <1>2, <2>1
  <2>3. run' # NoRun
    BY <1>6, NoValueAssumption
  <2>4. dialect' \in {"postgresql", "sqlite"}
    BY <1>1 DEF IInv, TypeOK
  <2> QED BY <1>2, <1>6, <2>2, <2>3, <2>4 DEF TypeOK
<1>8. \/ DOMAIN ledger = {} /\ DOMAIN db.tables \cap DomainTables = {}
      \/ ledger = db.ledger /\ Versioned(db)
  <2>1. CASE db.ledger = NoLedger
    BY <2>1, EmptyLedgerType DEF ledger, Begin, Accepts
  <2>2. CASE db.ledger # NoLedger
    BY <2>2, <1>5 DEF ledger, Versioned
  <2> QED BY <2>1, <2>2
<1>9. /\ \A v \in DOMAIN ledger : Created(ledger[v].text) \subseteq DOMAIN db.tables
      /\ open => \A t \in DomainTables \cap DOMAIN db.tables :
           \E v \in DOMAIN ledger :
             ledger[v].text = db.tables[t] /\ t \in Created(db.tables[t])
  BY <1>8 DEF IInv, SchemaMatchesLedger
<1>10. SchemaMatchesLedger' /\ SuccessInstallsRelease'
  BY <1>1, <1>2, <1>9 DEF IInv, SchemaMatchesLedger, SuccessInstallsRelease, Versioned
<1>11. Counted' /\ DealtWith'
  BY <1>2, <1>3, <1>4 DEF Counted, DealtWith, Turn, Recorded
<1>12. SeesCommitted' /\ LeavesInstalled'
  BY <1>2, <1>8, <1>3 DEF SeesCommitted, LeavesInstalled, Versioned, ledger
<1>13. NothingMissing'
  <2>1. \A x \in Texts : Prefix(x, 0) = {}
    BY CreatedType
  <2> QED BY <1>2, <1>9, <2>1 DEF NothingMissing
<1>14. ASSUME open PROVE PartlyApplied'
  BY <1>2, <1>9, <1>14 DEF PartlyApplied
<1> QED BY <1>1, <1>7, <1>10, <1>11, <1>12, <1>13, <1>14 DEF IInv

\* A run that ends without a commit leaves what is committed.
LEMMA RollBackKeepsIInv ==
  ASSUME IInv, NEW outcome \in {"refused", "failed"}, RollBack(outcome)
  PROVE  IInv'
BY DEF RollBack, IInv, TypeOK, SchemaMatchesLedger, SuccessInstallsRelease, Versioned

LEMMA PassRecordedKeepsIInv ==
  ASSUME IInv, run # NoRun, NEW v \in run.todo, PassRecorded(v)
  PROVE  IInv'
<1> DEFINE l == run.seen.ledger
           file == Checksum(release[v])
           ledger == With(l, v, file)
           seen == [ledger |-> ledger, tables |-> run.seen.tables]
           open == run.open \/ l[v] # file
<1>1. /\ Turn(v) /\ v \in DOMAIN l /\ l[v].text = file.text
      /\ dialect' = dialect /\ release' = release /\ result' = result
  BY RunFacts DEF PassRecorded, Recorded, Unchanged, Checksum, LegacyByteChecksum
<1>2. run' = [seen |-> seen, open |-> open, todo |-> run.todo \ {v}, executed |-> 0]
  <2>1. run.executed = 0
    BY <1>1 DEF PassRecorded, IInv, Counted
  <2>2. [run.seen EXCEPT !.ledger = With(@, v, file)] = seen
    BY RunFacts
  <2> QED BY <2>1, <2>2, RunFacts DEF PassRecorded, RunType
<1>3. db' = IF open THEN db ELSE seen
  <2>1. [run.seen EXCEPT !.ledger = With(@, v, file)] = seen
    BY RunFacts
  <2> QED BY <2>1 DEF PassRecorded, Write
<1>4. ledger \in LedgerType /\ open \in BOOLEAN
  <2>1. l \in LedgerType /\ v \in Versions /\ file \in Files
    BY RunFacts
  <2> QED BY <2>1, LedgerWith
<1>5. /\ DOMAIN ledger = DOMAIN l /\ ledger[v] = file
      /\ \A u \in DOMAIN l : u # v => ledger[u] = l[u]
  BY <1>1 DEF With
<1> HIDE DEF ledger
<1>texts. \A u \in DOMAIN l : ledger[u].text = l[u].text
  BY <1>1, <1>5
<1> HIDE DEF open
<1>6. run' \in RunType /\ run' # NoRun
  BY <1>2, <1>4, RunFacts, NoValueAssumption DEF RunType
<1>7. TypeOK'
  BY <1>1, <1>3, <1>4, <1>6, RunFacts DEF IInv, TypeOK, DatabaseType
<1>8. NothingMissing'
  <2>1. /\ run'.executed = 0 /\ run'.seen.tables = run.seen.tables
        /\ run'.seen.ledger = ledger
    BY <1>2
  <2>2. \A x \in Texts : Prefix(x, 0) = {}
    BY CreatedType
  <2> QED BY <1>texts, <1>5, <2>1, <2>2 DEF IInv, NothingMissing
<1>9. SchemaMatchesLedger' /\ SuccessInstallsRelease'
  <2>1. db' = db \/ (dialect' # "postgresql" /\ db' = run'.seen)
    BY <1>1, <1>2, <1>3, RunFacts DEF open
  <2>2. result' # "succeeded"
    BY <1>1 DEF IInv, TypeOK
  <2> QED BY <1>1, <1>8, <2>1, <2>2
          DEF IInv, SchemaMatchesLedger, SuccessInstallsRelease, Versioned, NothingMissing
<1>10. Counted'
  BY <1>1, <1>2, RunFacts DEF Counted, Turn, Recorded
<1>11. DealtWith'
  BY <1>1, <1>2, <1>5 DEF IInv, DealtWith
<1>12. SeesCommitted'
  BY <1>texts, <1>2, <1>3, <1>5 DEF IInv, SeesCommitted, Versioned
<1>13. LeavesInstalled'
  <2>1. CASE db' = db
    BY <1>1, <1>2, <1>5, <2>1, RunFacts
       DEF IInv, LeavesInstalled, SeesCommitted, DealtWith, Versioned
  <2>2. CASE db' = seen
    BY <1>2, <2>2 DEF LeavesInstalled
  <2> QED BY <1>3, <2>1, <2>2
<1>14. ASSUME dialect = "postgresql" PROVE PartlyApplied'
  <2>1. PartlyApplied
    BY <1>14 DEF IInv
  <2>2. \A x : ~InProgress(x)
    BY <1>1, RunFacts DEF InProgress, Recorded
  <2>3. /\ run'.open /\ run'.seen.tables = run.seen.tables /\ run'.seen.ledger = ledger
    BY <1>2, <2>1 DEF PartlyApplied, open
  <2> QED BY <1>texts, <1>5, <2>1, <2>2, <2>3 DEF PartlyApplied
<1> QED BY <1>1, <1>7, <1>8, <1>9, <1>10, <1>11, <1>12, <1>13, <1>14 DEF IInv

\* What holds of a step that executes a statement, or passes over it.
LEMMA StatementFacts ==
  ASSUME IInv, run # NoRun, NEW v \in run.todo, Pending(v)
  PROVE  LET x == release[v].text
         IN  /\ x \in Texts /\ NextStatement(v).table \in DomainTables
             /\ Turn(v) /\ ~Recorded(v) /\ InProgress(x)
             /\ run.executed + 1 \in 1 .. Len(Statements[x])
             /\ \A y : InProgress(y) => y = x
             /\ Prefix(x, run.executed + 1)
                  = Prefix(x, run.executed) \cup {NextStatement(v).table}
<1>1. /\ release[v].text \in Texts /\ Turn(v) /\ ~Recorded(v)
      /\ run.executed < Len(Statements[release[v].text]) /\ run.executed \in Nat
  BY RunFacts DEF Pending
<1>2. \A y : InProgress(y) => y = release[v].text
  BY <1>1, RunFacts DEF InProgress
<1>3. InProgress(release[v].text)
  BY <1>1 DEF InProgress
<1> QED BY <1>1, <1>2, <1>3, PrefixNext, StatementType DEF NextStatement

\* A file that is not recorded is none of the committed ones.
LEMMA NewFile ==
  ASSUME IInv, run # NoRun, NEW v \in run.todo,
         Pending(v) \/ Record(v), Versioned(db)
  PROVE  v \in DOMAIN release /\ v \notin DOMAIN db.ledger
BY DEF IInv, SeesCommitted, DealtWith, Pending, Record, Recorded

LEMMA ExecuteKeepsIInv ==
  ASSUME IInv, run # NoRun, NEW v \in run.todo, Execute(v)
  PROVE  IInv'
<1> DEFINE x == release[v].text
           t0 == NextStatement(v).table
           tables == With(run.seen.tables, t0, x)
           seen == [ledger |-> run.seen.ledger, tables |-> tables]
<1>1. Pending(v) /\ dialect' = dialect /\ release' = release /\ result' = result
  BY DEF Execute
<1>2. [run.seen EXCEPT !.tables = With(@, t0, x)] = seen
  BY RunFacts
<1>3. /\ run' = [seen |-> seen, open |-> run.open, todo |-> run.todo,
                 executed |-> run.executed + 1]
      /\ db' = IF run.open THEN db ELSE seen
  BY <1>2, RunFacts DEF Execute, Write, RunType
<1>4. /\ tables \in TablesType /\ DOMAIN tables = DOMAIN run.seen.tables \cup {t0}
      /\ tables[t0] = x
      /\ \A t \in DOMAIN run.seen.tables : t # t0 => tables[t] = run.seen.tables[t]
  <2>1. x \in Texts /\ t0 \in DomainTables /\ run.seen.tables \in TablesType
    BY <1>1, RunFacts, StatementFacts
  <2>2. tables \in TablesType
    BY <2>1, TablesWith
  <2> QED BY <2>2 DEF With
<1> HIDE DEF tables
<1>5. run' \in RunType /\ run' # NoRun
  BY <1>3, <1>4, RunFacts, NoValueAssumption DEF RunType
<1>6. TypeOK'
  BY <1>1, <1>3, <1>4, <1>5, RunFacts DEF IInv, TypeOK, DatabaseType
<1>7. \A y : InProgress(y)' <=> InProgress(y)
  BY <1>1, <1>3, <1>5 DEF InProgress, Turn, Recorded
<1>8. /\ run'.executed = run.executed + 1 /\ run'.seen.tables = tables
      /\ run'.seen.ledger = run.seen.ledger /\ run'.open = run.open
  BY <1>3
<1>9. /\ InProgress(x) /\ \A y : InProgress(y) => y = x
      /\ Prefix(x, run.executed + 1) = Prefix(x, run.executed) \cup {t0}
  BY <1>1, StatementFacts
<1>10. NothingMissing'
  BY <1>4, <1>7, <1>8, <1>9 DEF IInv, NothingMissing
<1>11. SchemaMatchesLedger' /\ SuccessInstallsRelease'
  <2>1. db' = db \/ (dialect' # "postgresql" /\ db' = run'.seen)
    BY <1>1, <1>3, RunFacts
  <2>2. result' # "succeeded"
    BY <1>1 DEF IInv, TypeOK
  <2> QED BY <1>1, <1>10, <2>1, <2>2
          DEF IInv, SchemaMatchesLedger, SuccessInstallsRelease, Versioned, NothingMissing
<1>12. Counted'
  <2>1. ASSUME NEW u \in run.todo, Turn(u) PROVE u = v
    BY <1>1, <2>1, RunFacts, StatementFacts
  <2>2. run.executed + 1 <= Len(Statements[x])
    BY <1>1, StatementFacts, RunFacts
  <2> QED BY <1>1, <1>3, <2>1, <2>2, StatementFacts DEF Counted, Turn, Recorded
<1>13. DealtWith' /\ SeesCommitted'
  BY <1>1, <1>3 DEF IInv, DealtWith, SeesCommitted, Versioned
<1>14. LeavesInstalled'
  <2>1. CASE db' = db
    BY <1>1, <1>3, <2>1, NewFile DEF LeavesInstalled, Versioned
  <2>2. CASE db' = seen
    BY <1>3, <2>2 DEF LeavesInstalled
  <2> QED BY <1>3, <2>1, <2>2
<1>15. ASSUME dialect = "postgresql" PROVE PartlyApplied'
  <2>1. PartlyApplied
    BY <1>15 DEF IInv
  <2> QED BY <1>4, <1>7, <1>8, <1>9, <2>1 DEF PartlyApplied
<1> QED BY <1>1, <1>6, <1>10, <1>11, <1>12, <1>13, <1>14, <1>15 DEF IInv

LEMMA PassExistingKeepsIInv ==
  ASSUME IInv, run # NoRun, NEW v \in run.todo, PassExisting(v)
  PROVE  IInv'
<1> DEFINE x == release[v].text
           t0 == NextStatement(v).table
<1>1. /\ Pending(v) /\ t0 \in DOMAIN run.seen.tables /\ dialect' = dialect
      /\ release' = release /\ result' = result /\ db' = db
  BY DEF PassExisting, Collides
<1>2. run' = [seen |-> run.seen, open |-> run.open, todo |-> run.todo,
              executed |-> run.executed + 1]
  BY RunFacts DEF PassExisting, RunType
<1>3. run' \in RunType /\ run' # NoRun
  BY <1>2, RunFacts, NoValueAssumption DEF RunType
<1>4. TypeOK' /\ SchemaMatchesLedger' /\ SuccessInstallsRelease'
  BY <1>1, <1>3 DEF IInv, TypeOK, SchemaMatchesLedger, SuccessInstallsRelease, Versioned
<1>5. Counted'
  <2>1. ASSUME NEW u \in run.todo, Turn(u) PROVE u = v
    BY <1>1, <2>1, RunFacts, StatementFacts
  <2>2. run.executed + 1 <= Len(Statements[x])
    BY <1>1, StatementFacts, RunFacts
  <2> QED BY <1>1, <1>2, <2>1, <2>2, StatementFacts DEF Counted, Turn, Recorded
<1>6. DealtWith' /\ SeesCommitted' /\ LeavesInstalled'
  BY <1>1, <1>2 DEF IInv, DealtWith, SeesCommitted, LeavesInstalled, Versioned
<1>7. \A y : InProgress(y)' <=> InProgress(y)
  BY <1>1, <1>2, <1>3 DEF InProgress, Turn, Recorded
<1>8. /\ run'.executed = run.executed + 1 /\ run'.seen = run.seen /\ run'.open = run.open
      /\ InProgress(x) /\ \A y : InProgress(y) => y = x
      /\ Prefix(x, run.executed + 1) = Prefix(x, run.executed) \cup {t0}
  BY <1>1, <1>2, StatementFacts
<1>9. NothingMissing'
  BY <1>1, <1>7, <1>8 DEF IInv, NothingMissing
<1>10. ASSUME dialect = "postgresql" PROVE PartlyApplied'
  <2>1. PartlyApplied
    BY <1>10 DEF IInv
  <2> QED BY <1>7, <1>8, <2>1 DEF PartlyApplied
<1> QED BY <1>1, <1>4, <1>5, <1>6, <1>9, <1>10 DEF IInv

LEMMA RecordKeepsIInv ==
  ASSUME IInv, run # NoRun, NEW v \in run.todo, Record(v)
  PROVE  IInv'
<1> DEFINE l == run.seen.ledger
           file == Checksum(release[v])
           x == release[v].text
           ledger == With(l, v, file)
           seen == [ledger |-> ledger, tables |-> run.seen.tables]
<1>1. /\ Turn(v) /\ v \notin DOMAIN l /\ run.executed = Len(Statements[x])
      /\ dialect' = dialect /\ release' = release /\ result' = result /\ db' = db
      /\ file.text = x /\ x \in Texts
  BY RunFacts DEF Record, Recorded
<1>2. run' = [seen |-> seen, open |-> TRUE, todo |-> run.todo \ {v}, executed |-> 0]
  BY RunFacts DEF Record, RunType
<1>3. ledger \in LedgerType
  <2>1. l \in LedgerType /\ v \in Versions /\ file \in Files
    BY RunFacts
  <2> QED BY <2>1, LedgerWith
<1>4. /\ DOMAIN ledger = DOMAIN l \cup {v} /\ ledger[v] = file
      /\ \A u \in DOMAIN l : ledger[u] = l[u]
  BY <1>1 DEF With
<1> HIDE DEF ledger
<1>5. run' \in RunType /\ run' # NoRun
  <2>1. seen \in [ledger : LedgerType, tables : TablesType]
    BY <1>3, RunFacts
  <2>2. run.todo \ {v} \in SUBSET Versions
    BY RunFacts
  <2> HIDE DEF seen
  <2>3. run' \in RunType
    BY <1>2, <2>1, <2>2 DEF RunType
  <2> QED BY <2>3, NoValueAssumption
<1>6. TypeOK' /\ SchemaMatchesLedger' /\ SuccessInstallsRelease'
  BY <1>1, <1>5 DEF IInv, TypeOK, SchemaMatchesLedger, SuccessInstallsRelease, Versioned
<1>7. Counted'
  <2>1. \A u \in run.todo : Len(Statements[release[u].text]) \in Nat
    BY RunFacts
  <2> QED BY <1>1, <1>2, <2>1 DEF Counted, Turn, Recorded
<1>8. DealtWith'
  BY <1>1, <1>2, <1>4 DEF IInv, DealtWith
<1>9. SeesCommitted'
  BY <1>1, <1>2, <1>4 DEF IInv, SeesCommitted, Versioned
<1>10. LeavesInstalled'
  BY <1>1, <1>2, NewFile DEF LeavesInstalled, Versioned
<1>11. InProgress(x) /\ \A y : InProgress(y) => y = x
  BY <1>1, RunFacts DEF InProgress, Recorded
<1>12. Prefix(x, run.executed) = Created(x) /\ \A y \in Texts : Prefix(y, 0) = {}
  BY <1>1, CreatedType
<1>13. /\ run'.open /\ run'.executed = 0 /\ run'.seen.tables = run.seen.tables
       /\ run'.seen.ledger = ledger
  BY <1>2
<1>14. NothingMissing'
  BY <1>1, <1>4, <1>11, <1>12, <1>13 DEF IInv, NothingMissing
<1>15. ASSUME dialect = "postgresql" PROVE PartlyApplied'
  <2>1. PartlyApplied
    BY <1>15 DEF IInv
  <2> QED BY <1>1, <1>4, <2>1, <1>11, <1>12, <1>13 DEF PartlyApplied
<1> QED BY <1>1, <1>6, <1>7, <1>8, <1>9, <1>10, <1>14, <1>15 DEF IInv

\* A run that has dealt with every file has its release in the ledger.
LEMMA ReleaseInLedger ==
  ASSUME IInv, run # NoRun, run.todo = {}
  PROVE  run.seen.ledger = [v \in DOMAIN release |-> Checksum(release[v])]
<1>1. run.seen.ledger \in [DOMAIN run.seen.ledger -> Files]
  BY RunFacts, LedgerFacts
<1>2. /\ DOMAIN run.seen.ledger = DOMAIN release
      /\ \A v \in DOMAIN release : run.seen.ledger[v] = Checksum(release[v])
  BY DEF IInv, DealtWith
<1> QED BY <1>1, <1>2

LEMMA CommitKeepsIInv ==
  ASSUME IInv, Commit
  PROVE  IInv'
<1>1. /\ run # NoRun /\ run.todo = {} /\ db' = run.seen /\ run' = NoRun
      /\ result' \in {"succeeded", "failed"} /\ dialect' = dialect /\ release' = release
  BY DEF Commit
<1>2. TypeOK'
  BY <1>1, RunFacts DEF IInv, TypeOK, DatabaseType
<1>3. SuccessInstallsRelease'
  BY <1>1, ReleaseInLedger DEF SuccessInstallsRelease
<1>4. SchemaMatchesLedger'
  <2>1. \A x : ~InProgress(x)
    BY <1>1 DEF InProgress
  <2> QED BY <1>1, <2>1 DEF IInv, NothingMissing, PartlyApplied, SchemaMatchesLedger
<1> QED BY <1>1, <1>2, <1>3, <1>4 DEF IInv

LEMMA NextIInv == IInv /\ [Next]_vars => IInv'
<1> SUFFICES ASSUME IInv, [Next]_vars PROVE IInv'
  OBVIOUS
<1>1. ASSUME NEW r \in Releases, RefuseSchema(r) PROVE IInv'
  BY <1>1 DEF RefuseSchema, IInv, TypeOK, SchemaMatchesLedger, SuccessInstallsRelease, Versioned
<1>2. ASSUME UNCHANGED vars PROVE IInv'
  BY <1>2 DEF vars, IInv, TypeOK, SchemaMatchesLedger, SuccessInstallsRelease, Versioned,
              Counted, DealtWith, SeesCommitted, NothingMissing, PartlyApplied,
              LeavesInstalled, Turn, Recorded, InProgress
<1> QED
  BY <1>1, <1>2, BeginKeepsIInv, RollBackKeepsIInv, PassRecordedKeepsIInv, ExecuteKeepsIInv,
     PassExistingKeepsIInv, RecordKeepsIInv, CommitKeepsIInv
     DEF Next, RefuseChanged, StatementFails, Interrupt

\* The strengthening holds in every reachable state.
THEOREM RunnerInvariant == Spec => []IInv
BY InitIInv, NextIInv, PTL DEF Spec

-----------------------------------------------------------------------------
(* The properties.                                                         *)

\* Database and run keep their types; an ended run holds no connection
\* (apply_migrations.py 44-122).
THEOREM RunnerTypeCorrect == Spec => []TypeOK
BY RunnerInvariant, PTL DEF IInv

\* In every committed state no recorded migration lacks a table, and on
\* PostgreSQL there is no other domain table, whatever fails and whichever
\* releases run (apply_migrations.py 97-120).
THEOREM AllOrNothing == Spec => []SchemaMatchesLedger
BY RunnerInvariant, PTL DEF IInv

\* A run that returns has installed its release (apply_migrations.py 97-123).
THEOREM SuccessInstalls == Spec => []SuccessInstallsRelease
BY RunnerInvariant, PTL DEF IInv

\* On PostgreSQL no earlier failure makes a later run fail
\* (apply_migrations.py 111-112).
THEOREM RetriesComplete == Spec => []NoStatementCollides
<1>1. IInv => NoStatementCollides
  <2> SUFFICES ASSUME IInv, dialect = "postgresql", run # NoRun, EditsNothing,
                      NEW v \in run.todo, Pending(v), Collides(v)
               PROVE  FALSE
    BY DEF NoStatementCollides
  <2> DEFINE x == release[v].text
             t == NextStatement(v).table
  <2>1. /\ t \in DomainTables /\ t \in DOMAIN run.seen.tables /\ x \in Texts
        /\ v \in DOMAIN release /\ v \notin DOMAIN run.seen.ledger
        /\ run.executed + 1 \in 1 .. Len(Statements[x]) /\ run.executed \in Nat
        /\ t = Statements[x][run.executed + 1].table
    BY StatementFacts, RunFacts DEF Collides, NextStatement, Recorded
  <2>2. t \in Created(x)
    BY <2>1, StatementType
  <2>3. ASSUME NEW u \in DOMAIN run.seen.ledger,
               t \in Created(run.seen.ledger[u].text)
        PROVE  FALSE
    <3>1. u \in DOMAIN release
      BY DEF IInv, DealtWith
    <3>2. run.seen.ledger[u].text = release[u].text
      BY DEF EditsNothing, Unchanged, Checksum, LegacyByteChecksum
    <3>3. u = v
      BY <2>1, <2>2, <2>3, <3>1, <3>2, RunFacts, ReleasesAssumption
    <3> QED BY <2>1, <3>3
  <2>4. ASSUME NEW y, InProgress(y), t \in Prefix(y, run.executed)
        PROVE  FALSE
    <3>1. y = x
      BY <2>4, StatementFacts
    <3>2. PICK k \in 1 .. Len(Statements[x]) :
            k <= run.executed /\ t = Statements[x][k].table
      BY <2>4, <3>1 DEF Prefix
    <3>3. k = run.executed + 1
      BY <2>1, <3>2, ReleasesAssumption
    <3> QED BY <2>1, <3>2, <3>3
  <2> QED BY <2>1, <2>3, <2>4 DEF IInv, PartlyApplied
<1> QED BY <1>1, RunnerInvariant, PTL

\* The ledger once a release is installed.
Wanted(r) == [v \in DOMAIN r |-> Checksum(r[v])]

RerunChangesNothing == db.ledger = Wanted(release') => db' = db /\ result' # "refused"

\* Running a release again changes nothing and is not refused: on either
\* database, from its first statement to its commit or to any failure in
\* between (apply_migrations.py 97-120).
THEOREM Idempotent == Spec => [][RerunChangesNothing]_vars
<1>1. ASSUME IInv, Next, db.ledger = Wanted(release')
      PROVE  db' = db /\ result' # "refused"
  <2>1. /\ release' \in Releases
        /\ DOMAIN db.ledger = DOMAIN release'
        /\ \A v \in DOMAIN release' : db.ledger[v] = Checksum(release'[v])
    BY <1>1, NextIInv DEF IInv, TypeOK, Wanted
  <2>2. db.ledger \in LedgerType
    <3>1. Wanted(release') \in [DOMAIN release' -> Files] /\ DOMAIN release' \subseteq Versions
      BY <2>1, ReleaseType DEF Wanted
    <3> QED BY <1>1, <3>1 DEF LedgerType
  <2>3. Versioned(db) /\ db \in [ledger : LedgerType, tables : TablesType]
    BY <1>1, <2>2, NoValueAssumption DEF Versioned, IInv, TypeOK, DatabaseType
  <2>4. ASSUME NEW r \in Releases, Begin(r) PROVE db' = db /\ result' # "refused"
    <3>1. [db EXCEPT !.ledger = IF @ = NoLedger THEN EmptyLedger ELSE @] = db
      BY <2>3 DEF Versioned
    <3> QED BY <2>4, <3>1 DEF Begin, Write
  <2>5. ASSUME NEW r \in Releases, RefuseSchema(r) PROVE FALSE
    BY <2>1, <2>3, <2>5 DEF RefuseSchema, Accepts, Versioned
  <2>6. ASSUME run # NoRun, release' = release PROVE run.seen = db
    <3>1. /\ run.seen.tables = db.tables
          /\ \A v \in run.todo : run.seen.ledger[v] = db.ledger[v]
      BY <1>1, <2>1, <2>3, <2>6 DEF IInv, LeavesInstalled
    <3>2. DOMAIN run.seen.ledger = DOMAIN release
      BY <1>1, <2>1, <2>3, <2>6 DEF IInv, DealtWith, SeesCommitted
    <3>3. \A v \in DOMAIN release \ run.todo : run.seen.ledger[v] = db.ledger[v]
      BY <1>1, <2>1, <2>6 DEF IInv, DealtWith
    <3>4. run.seen.ledger = db.ledger
      BY <1>1, <2>1, <2>2, <2>6, <3>1, <3>2, <3>3, RunFacts, LedgerFacts
    <3> QED BY <1>1, <2>3, <2>6, <3>1, <3>4, RunFacts
  <2>7. ASSUME run # NoRun, release' = release, NEW v \in run.todo
        PROVE  Recorded(v) /\ Unchanged(v) /\ run.seen.ledger[v] = Checksum(release[v])
    BY <1>1, <2>1, <2>6, <2>7 DEF Recorded, Unchanged, IInv, DealtWith
  <2>8. ASSUME run # NoRun, NEW v \in run.todo, PassRecorded(v)
        PROVE  db' = db /\ result' # "refused"
    <3>1. release' = release /\ result' = "running"
      BY <1>1, <2>8 DEF PassRecorded, IInv, TypeOK
    <3>2. With(db.ledger, v, Checksum(release[v])) = db.ledger
      <4> DEFINE l == db.ledger
      <4>1. l \in [DOMAIN l -> Files]
        BY <2>2, LedgerFacts
      <4>2. v \in DOMAIN l /\ l[v] = Checksum(release[v])
        BY <2>6, <2>7, <2>8, <3>1 DEF Recorded
      <4> HIDE DEF l
      <4>3. With(l, v, Checksum(release[v])) = l
        BY <4>1, <4>2 DEF With
      <4> QED BY <4>3 DEF l
    <3>3. [run.seen EXCEPT !.ledger = With(@, v, Checksum(release[v]))] = db
      BY <2>3, <2>6, <2>8, <3>1, <3>2
    <3> QED BY <2>8, <3>1, <3>3 DEF PassRecorded, Write
  <2>9. ASSUME Commit PROVE db' = db /\ result' # "refused"
    BY <2>6, <2>9 DEF Commit
  <2>10. ASSUME run # NoRun, NEW v \in run.todo,
                \/ RefuseChanged(v) \/ Execute(v) \/ PassExisting(v)
                \/ StatementFails(v) \/ Record(v)
         PROVE  FALSE
    BY <2>7, <2>10 DEF RefuseChanged, Execute, PassExisting, StatementFails, Record,
                       Pending, RollBack
  <2>11. ASSUME Interrupt PROVE db' = db /\ result' # "refused"
    BY <2>11 DEF Interrupt, RollBack
  <2> QED BY <1>1, <2>4, <2>5, <2>8, <2>9, <2>10, <2>11 DEF Next
<1>2. IInv /\ [Next]_vars => [RerunChangesNothing]_vars
  BY <1>1 DEF RerunChangesNothing, vars
<1> QED BY <1>2, RunnerInvariant, PTL DEF Spec

-----------------------------------------------------------------------------
(* The runner implements ReleaseLog.                                       *)

Installed == IF Versioned(db) THEN Contents(db.ledger) ELSE Contents(EmptyLedger)

\* The ledger goes from release to release as a whole and no recorded
\* migration is altered or left out (apply_migrations.py 84-120).
THEOREM RunnerImplementsLog == Spec => ImplementsReleaseLog
<1>1. Init => Log!Init
  <2> SUFFICES ASSUME Init PROVE Installed \in {Contents(r) : r \in Releases} \cup {Log!Nothing}
    BY DEF Log!Init, Installed
  <2>1. Contents(EmptyLedger) = Log!Nothing
    BY DEF Contents, EmptyLedger, Log!Nothing
  <2>2. CASE ~Versioned(db)
    BY <2>1, <2>2 DEF Installed
  <2>3. CASE Versioned(db)
    <3>1. PICK r \in Releases : db = [ledger |-> r, tables |-> TablesOf(r)]
      BY <2>3 DEF Init, InitialDatabases, Versioned
    <3> QED BY <2>3, <3>1 DEF Installed
  <2> QED BY <2>2, <2>3
<1>2. ASSUME IInv, Next PROVE Log!Next \/ Installed' = Installed
  <2>1. CASE Commit
    <3>1. /\ run # NoRun /\ run.todo = {} /\ db' = run.seen
      BY <2>1 DEF Commit
    <3>2. run.seen.ledger = [v \in DOMAIN release |-> Checksum(release[v])]
      BY <1>2, <3>1, ReleaseInLedger
    <3>3. Versioned(db')
      BY <1>2, <3>1, RunFacts, NoValueAssumption DEF Versioned
    <3>4. Installed' = Contents(release) /\ release \in Releases
      BY <1>2, <3>1, <3>2, <3>3, RunFacts DEF Installed, Contents, Versioned, Checksum
    <3>5. ASSUME NEW v \in DOMAIN Installed
          PROVE  v \in DOMAIN release /\ Contents(release)[v] = Installed[v]
      <4>1. CASE Versioned(db)
        <5>1. v \in DOMAIN db.ledger /\ Installed[v] = db.ledger[v].text
          BY <3>5, <4>1 DEF Installed, Contents
        <5>2. /\ v \in DOMAIN run.seen.ledger
              /\ run.seen.ledger[v].text = db.ledger[v].text
          BY <1>2, <3>1, <4>1, <5>1 DEF IInv, SeesCommitted
        <5>3. v \in DOMAIN release /\ run.seen.ledger[v].text = release[v].text
          BY <3>2, <5>2 DEF Checksum
        <5> QED BY <5>1, <5>2, <5>3 DEF Contents
      <4>2. CASE ~Versioned(db)
        BY <3>5, <4>2 DEF Installed, Contents, EmptyLedger
      <4> QED BY <4>1, <4>2
    <3>6. Log!Upgrade(Contents(release))
      BY <3>4, <3>5 DEF Log!Upgrade, Contents, Installed
    <3> QED BY <3>4, <3>6 DEF Log!Next
  <2>2. ASSUME NEW r \in Releases, Begin(r) PROVE Installed' = Installed
    <3>1. db \in DatabaseType /\ (db' = db \/ db' = [db EXCEPT !.ledger = IF @ = NoLedger THEN EmptyLedger ELSE @])
      BY <1>2, <2>2 DEF Begin, Write, IInv, TypeOK
    <3>2. EmptyLedger \notin {NoLedger, Incompatible}
      BY EmptyLedgerType, NoValueAssumption
    <3> QED BY <3>1, <3>2 DEF Installed, Versioned, DatabaseType
  <2>3. ASSUME run # NoRun, NEW v \in run.todo, PassRecorded(v) \/ Execute(v)
        PROVE  Installed' = Installed
    <3>1. db'.ledger = db.ledger
      <4>1. CASE db' = db
        BY <4>1
      <4>2. CASE db' # db
        <5>1. db = run.seen /\ run.seen \in [ledger : LedgerType, tables : TablesType]
          BY <1>2, <2>3, <4>2, RunFacts DEF PassRecorded, Execute, Write, IInv, SeesCommitted
        <5>2. CASE Execute(v)
          BY <2>3, <4>2, <5>1, <5>2 DEF Execute, Write
        <5>3. CASE PassRecorded(v)
          <6> DEFINE l == run.seen.ledger
          <6>1. /\ v \in DOMAIN l /\ l[v] = Checksum(release[v])
                /\ db' = [run.seen EXCEPT !.ledger = With(@, v, Checksum(release[v]))]
            BY <2>3, <4>2, <5>3 DEF PassRecorded, Write, Recorded
          <6>2. l \in [DOMAIN l -> Files]
            BY <1>2, <2>3, RunFacts, LedgerFacts
          <6>3. With(l, v, Checksum(release[v])) = l
            BY <6>1, <6>2 DEF With
          <6> QED BY <5>1, <6>1, <6>3
        <5> QED BY <2>3, <5>2, <5>3
      <4> QED BY <4>1, <4>2
    <3> QED BY <3>1 DEF Installed, Versioned
  <2>4. ASSUME db' = db PROVE Installed' = Installed
    BY <2>4 DEF Installed, Versioned
  <2> QED BY <1>2, <2>1, <2>2, <2>3, <2>4
          DEF Next, RefuseSchema, RefuseChanged, PassExisting, StatementFails, Record,
              Interrupt, RollBack
<1>3. IInv /\ [Next]_vars => [Log!Next]_Installed
  BY <1>2 DEF vars, Installed, Versioned
<1> QED BY <1>1, <1>3, RunnerInvariant, PTL DEF Spec, ImplementsReleaseLog, Log!Spec, Installed
=============================================================================
