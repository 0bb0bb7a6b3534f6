----------------------------- MODULE EventStore -----------------------------
(***************************************************************************)
(* The data of canonical-event ingestion and its pure operations: how      *)
(* EventService identifies, clusters and versions source items             *)
(* (app/events/service.py) and what SqlEventRepository reads and writes    *)
(* (app/db/event_repository.py).  No variables: EventService, EventWorkers *)
(* and EventReaders apply these operators to their own state.              *)
(*                                                                         *)
(* An envelope is a record.  Its fields keep what the code compares:       *)
(*   id        the uuid4 of this delivery (RawEnvelope.id)                 *)
(*   provider, source (source_id)                                          *)
(*   native    native_id; NoNative for None, EmptyNative for the empty     *)
(*             string, which contracts.py allows and sources may send      *)
(*   hash      content_hash                                                *)
(*   tokens    title_fingerprint(title), the set of title words            *)
(*   category, received (received_at), group (independence_group)          *)
(* A mention is a projection of its envelope, so the envelope stands for   *)
(* it.  source_independence is counted in quarters: 2, 3, 4 are 0.5, 0.75  *)
(* and 1.0.  Language, novelty, event and publication times are carried    *)
(* along by the code and decide nothing; they are left out.                *)
(***************************************************************************)
EXTENDS Integers, FiniteSets

CONSTANTS
  Envelopes,       \* every delivery a provider can yield, a set of records
  EventIds,        \* the uuids of canonical events; numbers, for their order
  NoNative,        \* native_id is None
  EmptyNative,     \* native_id is ""
  NoGroup,         \* independence_group is None
  ClusterWindow    \* CLUSTER_WINDOW, in the unit of the received field

ASSUME EnvelopesAssumption ==
  /\ \A i \in Envelopes : i.received \in Int /\ IsFiniteSet(i.tokens)
  /\ \A i, j \in Envelopes : i.id = j.id => i = j

ASSUME NativeAssumption == NoNative # EmptyNative

ASSUME EventIdsAssumption == EventIds \subseteq Int

ASSUME ClusterWindowAssumption == ClusterWindow \in Nat

-----------------------------------------------------------------------------
(* Identity of an item, in memory and in the database.  They disagree on   *)
(* the empty native id: Python takes it for absent, the indexes for given. *)

\* The key of EventService._by_identity: "native_id or sha256:...".
Identity(i) ==
  IF i.native \notin {NoNative, EmptyNative}
  THEN <<i.provider, i.source, i.native>>
  ELSE <<i.provider, i.source, "sha256", i.hash>>

\* independence_group or source_id
Group(i) == IF i.group # NoGroup THEN i.group ELSE i.source

\* What uq_raw_provider_native (native_id IS NOT NULL) or
\* uq_raw_provider_content_fallback (native_id IS NULL) forbids.
Conflicts(i, j) ==
  /\ i # j
  /\ i.provider = j.provider /\ i.source = j.source
  /\ \/ i.native # NoNative /\ i.native = j.native
     \/ i.native = NoNative /\ j.native = NoNative /\ i.hash = j.hash

-----------------------------------------------------------------------------
(* Clustering.  m is a service's memory: m.events, its current canonical   *)
(* events, and m.items, its index entries [item, event], which stand for   *)
(* both _by_identity and _by_content_hash.                                 *)

Distance(a, b) == IF a > b THEN a - b ELSE b - a

Overlap(i, ev) == Cardinality(i.tokens \cap ev.title)
Breadth(i, ev) == Cardinality(i.tokens \cup ev.title)

\* jaccard(...) >= 0.85; two empty fingerprints have similarity 0.
SimilarTitle(i, ev) ==
  /\ Breadth(i, ev) > 0
  /\ 100 * Overlap(i, ev) >= 85 * Breadth(i, ev)

ExactContent(m, i, ev) ==
  \E x \in m.items : x.item.hash = i.hash /\ x.event = ev.id

\* Faulty variant of Candidates: the window is not looked at.
CandidatesAnyTime(m, i) ==
  {ev \in m.events :
     ev.type = i.category /\ (ExactContent(m, i, ev) \/ SimilarTitle(i, ev))}

Candidates(m, i) ==
  {ev \in m.events :
     /\ ev.type = i.category
     /\ Distance(i.received, ev.last) <= ClusterWindow
     /\ ExactContent(m, i, ev) \/ SimilarTitle(i, ev)}

\* The sign of similarity(i, e) - similarity(i, f), by cross-multiplication;
\* two candidates of one item are exact or have a non-empty title.
SimilarityGap(i, e, f) ==
  LET width(ev) == IF Breadth(i, ev) = 0 THEN 1 ELSE Breadth(i, ev)
  IN  Overlap(i, e) * width(f) - Overlap(i, f) * width(e)

\* Faulty variant of RankAbove: the id does not break ties.
RankAboveTied(m, i, e, f) ==
  LET exactE == ExactContent(m, i, e)
      exactF == ExactContent(m, i, f)
      gap    == SimilarityGap(i, e, f)
  IN  \/ exactE /\ ~exactF
      \/ /\ exactE = exactF
         /\ \/ gap > 0
            \/ /\ gap = 0
               /\ Distance(i.received, e.last) < Distance(i.received, f.last)

\* Lexicographic order of the rank tuples (exact, similarity, -distance, id).
RankAbove(m, i, e, f) ==
  LET exactE == ExactContent(m, i, e)
      exactF == ExactContent(m, i, f)
      gap    == SimilarityGap(i, e, f)
      nearE  == Distance(i.received, e.last)
      nearF  == Distance(i.received, f.last)
  IN  \/ exactE /\ ~exactF
      \/ /\ exactE = exactF
         /\ \/ gap > 0
            \/ gap = 0 /\ nearE < nearF
            \/ gap = 0 /\ nearE = nearF /\ e.id > f.id

\* _similar_event returns ev.
SimilarEvent(m, i, ev) ==
  /\ ev \in Candidates(m, i)
  /\ \A other \in Candidates(m, i) \ {ev} : RankAbove(m, i, ev, other)

-----------------------------------------------------------------------------
(* Canonical event versions.                                               *)

\* Faulty variant of Independence: 0.25 per group, without the base.
IndependenceWithoutBase(groups) == Cardinality(groups)

\* min(1.0, 0.5 + 0.25 * (groups - 1)), in quarters
Independence(groups) ==
  LET n == Cardinality(groups) IN IF n >= 3 THEN 4 ELSE n + 1

FirstVersion(e, i) ==
  [id |-> e, version |-> 1, title |-> i.tokens, type |-> i.category,
   first |-> i.received, last |-> i.received, independence |-> 2,
   mentions |-> {i}]

\* Faulty variant of NextVersion: the version number is not advanced.
NextVersionInPlace(ev, i) ==
  [ev EXCEPT !.first = IF i.received < @ THEN i.received ELSE @,
             !.last = IF i.received > @ THEN i.received ELSE @,
             !.mentions = @ \cup {i}]

NextVersion(ev, i) ==
  [id |-> ev.id, version |-> ev.version + 1, title |-> ev.title,
   type |-> ev.type,
   first |-> IF i.received < ev.first THEN i.received ELSE ev.first,
   last |-> IF i.received > ev.last THEN i.received ELSE ev.last,
   independence |-> Independence({Group(x) : x \in ev.mentions} \cup {Group(i)}),
   mentions |-> ev.mentions \cup {i}]

\* Faulty variant of Known: a redelivery is recognised by its own uuid.
KnownById(m, i) == \E x \in m.items : x.item = i

\* EventService.ingest knows the item already.
Known(m, i) == \E x \in m.items : Identity(x.item) = Identity(i)

\* The events ingest may build for a new item, given the event ids in use.
Proposals(m, i, used) ==
  IF Candidates(m, i) = {}
  THEN {FirstVersion(e, i) : e \in EventIds \ used}
  ELSE {NextVersion(ev, i) : ev \in {x \in m.events : SimilarEvent(m, i, x)}}

\* The end of ingest: _events and the two indexes take the new version.
Published(m, i, ev) ==
  [events |-> {x \in m.events : x.id # ev.id} \cup {ev},
   items  |-> m.items \cup {[item |-> i, event |-> ev.id]}]

-----------------------------------------------------------------------------
(* The tables.  d.raw: raw_items (and sources, which has a row for the     *)
(* source_id of every raw item); d.rows: events, keyed by (id, version);   *)
(* d.mentions: event_mentions, keyed by item.                              *)

EmptyTables == [raw |-> {}, rows |-> {}, mentions |-> {}]

EmptyMemory == [events |-> {}, items |-> {}]

Row(ev) ==
  [id |-> ev.id, version |-> ev.version, title |-> ev.title, type |-> ev.type,
   first |-> ev.first, last |-> ev.last, independence |-> ev.independence]

WithMentions(row, ms) ==
  [id |-> row.id, version |-> row.version, title |-> row.title,
   type |-> row.type, first |-> row.first, last |-> row.last,
   independence |-> row.independence, mentions |-> ms]

\* Faulty variant of Accepts: the index on native ids is missing.
AcceptsAnyNative(d, i) ==
  \A j \in d.raw : ~(Conflicts(i, j) /\ i.native = NoNative)

\* The unique indexes of raw_items accept i.
Accepts(d, i) == \A j \in d.raw : ~Conflicts(i, j)

\* Faulty variant of Save: the row of an event is updated in place.
SaveInPlace(d, i, ev) ==
  [raw      |-> d.raw \cup {i},
   rows     |-> {r \in d.rows : r.id # ev.id} \cup {Row(ev)},
   mentions |-> d.mentions \cup
                {[item |-> i, event |-> ev.id, version |-> ev.version]}]

\* Faulty variant of Save: the mention keeps the version it revises.
SaveUnderOldVersion(d, i, ev) ==
  [raw      |-> d.raw \cup {i},
   rows     |-> d.rows \cup {Row(ev)},
   mentions |-> d.mentions \cup
                {[item |-> i, event |-> ev.id,
                  version |-> IF ev.version = 1 THEN 1 ELSE ev.version - 1]}]

\* SqlEventRepository.save, committed: three session.merge calls, each of
\* which replaces the row with the same primary key.
Save(d, i, ev) ==
  [raw      |-> d.raw \cup {i},
   rows     |-> {r \in d.rows : r.id # ev.id \/ r.version # ev.version}
                \cup {Row(ev)},
   mentions |-> {x \in d.mentions : x.item # i}
                \cup {[item |-> i, event |-> ev.id, version |-> ev.version]}]

\* Faulty variant of LatestRows: joined on the event id alone.
LatestRowsAnyVersion(d) == d.rows

\* load_state, first SELECT: the row of the highest version of each event.
LatestRows(d) ==
  {r \in d.rows : \A s \in d.rows : s.id = r.id => s.version <= r.version}

\* Faulty variant of Assemble: a version gets only its own mentions.
AssembleOwnMentions(rows, ms) ==
  [events |-> {WithMentions(r, {x.item : x \in {y \in ms : y.event = r.id /\ y.version = r.version}}) :
                 r \in rows},
   items  |-> {[item |-> x.item, event |-> x.event] : x \in ms}]

\* load_state, the rest: mentions joined with raw items, whatever version.
Assemble(rows, ms) ==
  [events |-> {WithMentions(r, {x.item : x \in {y \in ms : y.event = r.id}}) :
                 r \in rows},
   items  |-> {[item |-> x.item, event |-> x.event] : x \in ms}]

LoadState(d) == Assemble(LatestRows(d), d.mentions)

\* Faulty variant of MentionsAt: the version is not looked at.
MentionsAtAnyVersion(d, e, v) ==
  {x.item : x \in {y \in d.mentions : y.event = e}}

\* load_event_version: the mentions known when version v was written.
MentionsAt(d, e, v) ==
  {x.item : x \in {y \in d.mentions : y.event = e /\ y.version <= v}}

\* The answer for (e, v): a set, empty when there is no such row.
LoadEventVersion(d, e, v) ==
  {WithMentions(r, MentionsAt(d, e, v)) :
     r \in {s \in d.rows : s.id = e /\ s.version = v}}

-----------------------------------------------------------------------------
(* Types.                                                                  *)

RowType ==
  [id : EventIds, version : Nat \ {0}, title : {i.tokens : i \in Envelopes},
   type : {i.category : i \in Envelopes}, first : Int, last : Int,
   independence : 2 .. 4]

EventType ==
  [id : EventIds, version : Nat \ {0}, title : {i.tokens : i \in Envelopes},
   type : {i.category : i \in Envelopes}, first : Int, last : Int,
   independence : 2 .. 4, mentions : SUBSET Envelopes]

TablesType ==
  [raw : SUBSET Envelopes, rows : SUBSET RowType,
   mentions : SUBSET [item : Envelopes, event : EventIds, version : Nat \ {0}]]

MemoryType ==
  [events : SUBSET EventType,
   items : SUBSET [item : Envelopes, event : EventIds]]

-----------------------------------------------------------------------------
(* What a consistent history is; the modules state it of their own tables. *)

VersionsOf(d, e) == {r.version : r \in {s \in d.rows : s.id = e}}

\* No gap in the versions of any event.
Contiguous(d) ==
  \A r \in d.rows : /\ r.version \in Nat \ {0}
                    /\ \A v \in 1 .. r.version : v \in VersionsOf(d, r.id)

\* A version describes exactly the mentions it was written from: their
\* number, first and last receipt, and independent groups.
Lineage(ev) ==
  /\ Cardinality(ev.mentions) = ev.version
  /\ \A x \in ev.mentions : ev.first <= x.received /\ x.received <= ev.last
  /\ \E x \in ev.mentions : x.received = ev.first
  /\ \E x \in ev.mentions : x.received = ev.last
  /\ ev.independence = Independence({Group(x) : x \in ev.mentions})

\* Every answer of load_event_version that d gives, d2 gives unchanged.
HistoryKept(d, d2) ==
  \A r \in d.rows :
    LoadEventVersion(d2, r.id, r.version) = LoadEventVersion(d, r.id, r.version)
=============================================================================
