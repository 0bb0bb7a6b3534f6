--------------------------- MODULE MCNewsIngestion ---------------------------
(***************************************************************************)
(* Small sites for NewsIngestion.  The feed corrects an entry under its    *)
(* guid, has one without a link and one whose guid is blank; the issuer    *)
(* has a form that is not followed, then one followed, and at times one    *)
(* whose time is garbled in front of an older filing; the series extends   *)
(* a vintage, revises a value within it and has a missing one.  A second   *)
(* deployment reads two filers of one filing, one of which serves filings  *)
(* without an accession number, a third replays a fixture.                 *)
(***************************************************************************)
EXTENDS NewsIngestion

MCConfigurations == 
  {<<"feed", "issuer", "series">>, <<"issuer", "filer">>, <<"fixture">>}

MCSources == {"feed", "issuer", "filer", "series", "fixture"}

MCName == [s \in MCSources |-> s]

MCKind ==
  [s \in MCSources |->
     CASE s = "feed"   -> "rss"
       [] s \in {"issuer", "filer"} -> "sec"
       [] s = "series" -> "fred"
       [] OTHER        -> "replay"]

Rss(guid, link, text) ==
  [title |-> "t", link |-> link, guid |-> guid, text |-> text]

Sec(form, accession, accepted) ==
  [form |-> form, accession |-> accession, accepted |-> accepted]

Fred(value, until) ==
  [date |-> "day", vintage |-> "v", until |-> until, value |-> value]

Recorded(source, native, text) == [source |-> source, native |-> native, text |-> text]

MCEditions ==
  [s \in MCSources |->
     CASE s = "feed" ->
            {<<Rss("g1", "l1", "a"), Rss(NoText, "l2", "b"),
               Rss(Blank, "l4", "d")>>,
             <<Rss("g3", NoText, "c"), Rss("g1", "l1", "corrected")>>,
             Malformed}
       [] s = "issuer" ->
            {<<Sec("4", "n0", "garbled"), Sec("8-K", "n1", "time")>>,
             <<Sec("8-K", "n2", "time"), Sec("10-Q", "n3", "garbled"),
               Sec("8-K", "n1", "time")>>}
       [] s = "filer" ->
            {<<Sec("8-K", "n1", "time"), Sec("8-K", NoText, "time")>>,
             <<Sec("8-K", NoText, "later"), Sec("8-K", "n4", "time")>>}
       [] s = "series" ->
            {<<Fred("1.0", "u1")>>, <<Fred("1.0", "u2")>>, <<Fred("1.1", "u2")>>,
             <<Fred(".", "u2")>>}
       [] OTHER ->
            {<<Recorded("acme-ir", "n1", "x"), Recorded("wire", "n2", "x"),
               Recorded("fed", "n3", "y")>>}]
=============================================================================
