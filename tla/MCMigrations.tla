---------------------------- MODULE MCMigrations ----------------------------
(***************************************************************************)
(* Releases for Migrations: a foundation that may exist, a second file     *)
(* that may not, a third one; a release with an edited file, one with CRLF *)
(* files, one that got its third file before its second, and one that      *)
(* moves the table of its third file to its second.                        *)
(***************************************************************************)
EXTENDS Migrations

Create(table, ifAbsent) == [table |-> table, ifAbsent |-> ifAbsent]

MCTexts == {"foundation", "edited", "market", "later", "early", "renamed"}

MCStatements ==
  [foundation |-> <<Create("sources", TRUE), Create("events", TRUE)>>,
   edited     |-> <<Create("sources", TRUE), Create("events", TRUE)>>,
   market     |-> <<Create("quotes", FALSE), Create("bars", FALSE)>>,
   later      |-> <<Create("alerts", FALSE)>>,
   early      |-> <<Create("alerts", FALSE)>>,
   renamed    |-> <<Create("alarms", FALSE)>>]

File(x) == [text |-> x, crlf |-> FALSE]
CrlfFile(x) == [text |-> x, crlf |-> TRUE]

MCReleases ==
  {<<File("foundation")>>,
   <<File("foundation"), File("market")>>,
   <<CrlfFile("foundation"), CrlfFile("market")>>,
   <<File("edited"), File("market")>>,
   [v \in {1, 3} |-> IF v = 1 THEN File("foundation") ELSE File("later")],
   <<File("foundation"), File("market"), File("later")>>,
   <<File("foundation"), File("early"), File("renamed")>>}

MCDomainTables == {"sources", "events", "quotes", "bars", "alerts", "alarms"}
=============================================================================
