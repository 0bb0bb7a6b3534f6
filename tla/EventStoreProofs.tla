-------------------------- MODULE EventStoreProofs --------------------------
(***************************************************************************)
(* Lemmas about the operators of EventStore: what an ingest decides on the *)
(* memory that load_state builds, and what its save does to the tables.    *)
(* They mention no variables, so that every module with an event writer    *)
(* can cite them.  The last section draws from them what holds of EventLog.*)
(***************************************************************************)
EXTENDS EventLog, Sequences, FiniteSetTheorems, WellFoundedInduction, TLAPS

-----------------------------------------------------------------------------
(* Vocabulary of the lemmas.                                               *)

\* The mentions of event e, whatever their version.
MentionsOf(d, e) == {x.item : x \in {y \in d.mentions : y.event = e}}

\* What ingest proposes for i to a service whose memory is the tables'.
Proposed(d, i, ev) ==
  /\ ~Known(LoadState(d), i)
  /\ ev \in Proposals(LoadState(d), i, {r.id : r \in d.rows})

\* Each raw item is a mention of exactly one event version, which exists.
Anchored(d) ==
  /\ {x.item : x \in d.mentions} = d.raw
  /\ \A x \in d.mentions : x.version \in VersionsOf(d, x.event)
  /\ \A x, y \in d.mentions : x.item = y.item => x = y

\* The primary key of events.
Keyed(d) == \A x, y \in d.rows : x.id = y.id /\ x.version = y.version => x = y

\* Stored items have different identities.
UniqueItems(d) == \A i, j \in d.raw : Identity(i) = Identity(j) => i = j

\* Stored items have different identities as far as the unique indexes see
\* to it: an empty and a missing native id are one to memory, two to them.
IndexedItems(d) ==
  \A i, j \in d.raw :
    Identity(i) = Identity(j) =>
      i = j \/ {i.native, j.native} = {NoNative, EmptyNative}

\* What ingest keeps true of the tables.
Sound(d) ==
  /\ d \in TablesType
  /\ IsFiniteSet(d.rows)
  /\ IsFiniteSet(d.mentions)
  /\ Keyed(d)
  /\ Anchored(d)
  /\ Contiguous(d)

-----------------------------------------------------------------------------
(* Maximal elements of finite sets.                                        *)

\* A non-empty set of natural numbers has a least element.
LEMMA LeastOfNat ==
  ASSUME NEW T \in SUBSET Nat, T # {}
  PROVE  \E n \in T : \A k \in T : n <= k
<1> DEFINE R == OpToRel(<, Nat)
<1>1. IsWellFoundedOn(R, Nat)
  BY NatLessThanWellFounded
<1>2. PICK n \in T : \A k \in T : <<k, n>> \notin R
  <2> HIDE DEF R
  <2> QED BY <1>1, WFMin
<1>3. \A k \in T : ~(k < n)
  BY <1>2 DEF OpToRel
<1> QED BY <1>3

\* A strict partial order leaves some element of a non-empty finite set with
\* nothing above it: the one with the fewest elements above it.
LEMMA UndominatedExists ==
  ASSUME NEW S, IsFiniteSet(S), S # {}, NEW Above,
         \A x, y, z \in S :
           <<x, y>> \in Above /\ <<y, z>> \in Above => <<x, z>> \in Above,
         \A x \in S : <<x, x>> \notin Above
  PROVE  \E x \in S : \A y \in S : <<y, x>> \notin Above
<1> DEFINE above(x) == {y \in S : <<y, x>> \in Above}
           counts   == {Cardinality(above(x)) : x \in S}
<1>1. ASSUME NEW x \in S
      PROVE  IsFiniteSet(above(x)) /\ Cardinality(above(x)) \in Nat
  <2>1. above(x) \in SUBSET S
    OBVIOUS
  <2> HIDE DEF above
  <2> QED BY <2>1, FS_Subset, FS_CardinalityType
<1>2. PICK n \in counts : \A k \in counts : n <= k
  <2>1. counts \in SUBSET Nat
    <3> HIDE DEF above
    <3> QED BY <1>1
  <2>2. counts # {}
    <3>1. PICK x \in S : TRUE
      OBVIOUS
    <3>2. Cardinality(above(x)) \in counts
      OBVIOUS
    <3> QED BY <3>2
  <2> HIDE DEF counts
  <2> QED BY <2>1, <2>2, LeastOfNat
<1>3. PICK x \in S : n = Cardinality(above(x))
  OBVIOUS
<1>4. ASSUME NEW y \in S, <<y, x>> \in Above
      PROVE  FALSE
  <2>1. above(y) \in SUBSET above(x) /\ above(y) # above(x)
    BY <1>4
  <2>2. Cardinality(above(y)) <= n /\ Cardinality(above(y)) # n
    <3> HIDE DEF above
    <3> QED BY <1>1, <1>3, <2>1, FS_Subset
  <2>3. n <= Cardinality(above(y))
    <3>1. Cardinality(above(y)) \in counts
      OBVIOUS
    <3> HIDE DEF counts, above
    <3> QED BY <1>2, <3>1
  <2>4. n \in Nat /\ Cardinality(above(y)) \in Nat
    BY <1>1, <1>3
  <2> QED BY <2>2, <2>3, <2>4
<1> QED BY <1>4

-----------------------------------------------------------------------------
(* Identity.                                                               *)

\* Two items that a unique index keeps apart have one identity in memory,
\* unless the native id they share is the empty one.
LEMMA ConflictMeansSameIdentity ==
  ASSUME NEW i, NEW j, Conflicts(i, j), Identity(i) # Identity(j)
  PROVE  i.native = EmptyNative /\ j.native = EmptyNative /\ i.hash # j.hash
<1>1. i.provider = j.provider /\ i.source = j.source
  BY DEF Conflicts
<1>2. CASE i.native = NoNative
  BY <1>1, <1>2 DEF Conflicts, Identity
<1>3. CASE i.native # NoNative
  <2>1. i.native = j.native
    BY <1>3 DEF Conflicts
  <2> QED BY <1>1, <1>3, <2>1 DEF Identity
<1> QED BY <1>2, <1>3

\* Items with one identity in memory are kept apart by a unique index,
\* unless one has the empty native id and the other none.
LEMMA SameIdentityConflicts ==
  ASSUME NEW i, NEW j, i # j, Identity(i) = Identity(j),
         {i.native, j.native} # {NoNative, EmptyNative}
  PROVE  Conflicts(i, j)
<1>1. \A a, b, c, d, e, f, g : <<a, b, c>> # <<d, e, f, g>>
  <2> TAKE a, b, c, d, e, f, g
  <2>1. 4 \notin DOMAIN <<a, b, c>> /\ 4 \in DOMAIN <<d, e, f, g>>
    OBVIOUS
  <2> QED BY <2>1
<1>2. i.native \in {NoNative, EmptyNative} <=> j.native \in {NoNative, EmptyNative}
  BY <1>1 DEF Identity
<1>3. CASE i.native \notin {NoNative, EmptyNative}
  <2>1. <<i.provider, i.source, i.native>> = <<j.provider, j.source, j.native>>
    BY <1>2, <1>3 DEF Identity
  <2> QED BY <1>3, <2>1 DEF Conflicts
<1>4. CASE i.native \in {NoNative, EmptyNative}
  <2>1. <<i.provider, i.source, "sha256", i.hash>>
          = <<j.provider, j.source, "sha256", j.hash>>
    BY <1>2, <1>4 DEF Identity
  <2>2. i.native = j.native
    BY <1>2, <1>4
  <2> QED BY <1>4, <2>1, <2>2 DEF Conflicts
<1> QED BY <1>3, <1>4

\* What the unique indexes accept next to stored items that they kept apart
\* is kept apart from them too.
LEMMA SaveKeepsItemsIndexed ==
  ASSUME NEW d, IndexedItems(d), NEW i, Accepts(d, i), NEW ev
  PROVE  IndexedItems(Save(d, i, ev))
<1>1. Save(d, i, ev).raw = d.raw \cup {i}
  BY DEF Save
<1>2. \A j \in d.raw :
        Identity(i) = Identity(j) =>
          i = j \/ {i.native, j.native} = {NoNative, EmptyNative}
  BY SameIdentityConflicts DEF Accepts
<1>3. ASSUME NEW j \in d.raw, Identity(j) = Identity(i)
      PROVE  j = i \/ {j.native, i.native} = {NoNative, EmptyNative}
  <2>1. {i.native, j.native} = {j.native, i.native}
    OBVIOUS
  <2> QED BY <1>2, <1>3, <2>1
<1> QED BY <1>1, <1>2, <1>3 DEF IndexedItems

\* The index of a loaded memory has one entry per mention.
LEMMA LoadedItems ==
  ASSUME NEW d
  PROVE  LoadState(d).items
           = {[item |-> x.item, event |-> x.event] : x \in d.mentions}
BY DEF LoadState, Assemble

\* The events of a loaded memory are the latest rows with their mentions.
LEMMA LoadedEvents ==
  ASSUME NEW d
  PROVE  LoadState(d).events
           = {WithMentions(r, MentionsOf(d, r.id)) : r \in LatestRows(d)}
BY DEF LoadState, Assemble, MentionsOf

\* An item that memory does not know is no mention yet.
LEMMA UnknownHasNoMention ==
  ASSUME NEW d, NEW i, ~Known(LoadState(d), i),
         NEW x \in d.mentions
  PROVE  x.item # i
<1>1. [item |-> x.item, event |-> x.event] \in LoadState(d).items
  BY LoadedItems
<1> QED BY <1>1 DEF Known

\* An item that memory does not know shares its identity with no raw item.
LEMMA UnknownIsNew ==
  ASSUME NEW d, Anchored(d), NEW i, ~Known(LoadState(d), i), NEW j \in d.raw
  PROVE  Identity(j) # Identity(i)
<1>1. PICK x \in d.mentions : x.item = j
  BY DEF Anchored
<1>2. [item |-> x.item, event |-> x.event] \in LoadState(d).items
  BY LoadedItems
<1> QED BY <1>1, <1>2 DEF Known

\* An item that memory does not know meets a unique index only if it shares
\* the empty native id with a stored item of other content.
LEMMA UnknownIsAccepted ==
  ASSUME NEW d, Anchored(d), NEW i, ~Known(LoadState(d), i),
         NEW j \in d.raw, Conflicts(i, j)
  PROVE  i.native = EmptyNative /\ j.native = EmptyNative /\ i.hash # j.hash
<1>1. Identity(i) # Identity(j)
  BY UnknownIsNew
<1> QED BY <1>1, ConflictMeansSameIdentity

-----------------------------------------------------------------------------
(* What ingest proposes.                                                   *)

\* load_state selects rows of the table.
LEMMA LatestIsARow ==
  ASSUME NEW d, NEW r \in LatestRows(d)
  PROVE  r \in d.rows /\ \A s \in d.rows : s.id = r.id => s.version <= r.version
BY DEF LatestRows

\* Each event has one latest row.
LEMMA LatestKeyed ==
  ASSUME NEW d, d \in TablesType, Keyed(d)
  PROVE  \A x, y \in LatestRows(d) : x.id = y.id => x = y
<1>1. \A x \in d.rows : x.version \in Nat
  BY DEF TablesType, RowType
<1> QED BY <1>1 DEF LatestRows, Keyed

\* A proposal starts an event or revises the latest version of one.
LEMMA ProposalIsFirstOrNext ==
  ASSUME NEW d, NEW i, NEW ev, Proposed(d, i, ev)
  PROVE  \/ \E e \in EventIds : /\ ev = FirstVersion(e, i)
                                /\ \A r \in d.rows : r.id # e
         \/ \E r \in LatestRows(d) :
              LET old == WithMentions(r, MentionsOf(d, r.id))
              IN  ev = NextVersion(old, i) /\ old \in Candidates(LoadState(d), i)
<1> DEFINE m == LoadState(d)
<1>1. CASE Candidates(m, i) = {}
  BY <1>1 DEF Proposed, Proposals
<1>2. CASE Candidates(m, i) # {}
  <2>1. PICK old \in m.events : /\ ev = NextVersion(old, i)
                                /\ old \in Candidates(m, i)
    BY <1>2 DEF Proposed, Proposals, SimilarEvent
  <2>2. PICK r \in LatestRows(d) : old = WithMentions(r, MentionsOf(d, r.id))
    BY <2>1, LoadedEvents
  <2> QED BY <2>1, <2>2
<1> QED BY <1>1, <1>2

\* The version of a proposal is above every stored version of its event, by
\* exactly one.
LEMMA ProposalIsNewest ==
  ASSUME NEW d, d \in TablesType, NEW i, NEW ev, Proposed(d, i, ev)
  PROVE  /\ ev.id \in EventIds
         /\ ev.version \in Nat \ {0}
         /\ \A r \in d.rows : r.id = ev.id => r.version < ev.version
         /\ ev.version > 1 => \E r \in d.rows : /\ r.id = ev.id
                                                /\ r.version = ev.version - 1
<1>1. ASSUME NEW e \in EventIds, ev = FirstVersion(e, i),
             \A r \in d.rows : r.id # e
      PROVE  /\ ev.id \in EventIds
             /\ ev.version \in Nat \ {0}
             /\ \A r \in d.rows : r.id = ev.id => r.version < ev.version
             /\ ~ (ev.version > 1)
  BY <1>1 DEF FirstVersion
<1>2. ASSUME NEW r \in LatestRows(d),
             ev = NextVersion(WithMentions(r, MentionsOf(d, r.id)), i)
      PROVE  /\ ev.id \in EventIds
             /\ ev.version \in Nat \ {0}
             /\ \A s \in d.rows : s.id = ev.id => s.version < ev.version
             /\ r \in d.rows /\ r.id = ev.id /\ r.version = ev.version - 1
  <2>1. /\ r \in d.rows
        /\ \A s \in d.rows : s.id = r.id => s.version <= r.version
    BY LatestIsARow
  <2>2. ev.id = r.id /\ ev.version = r.version + 1
    BY <1>2 DEF NextVersion, WithMentions
  <2>3. \A s \in d.rows : s.id \in EventIds /\ s.version \in Nat \ {0}
    BY DEF TablesType, RowType
  <2> QED BY <2>1, <2>2, <2>3
<1> QED BY <1>1, <1>2, ProposalIsFirstOrNext

\* Independence of finitely many groups, at least one, is 0.5, 0.75 or 1.0.
LEMMA IndependenceRange ==
  ASSUME NEW S, IsFiniteSet(S), S # {}
  PROVE  Independence(S) \in 2 .. 4
<1>1. Cardinality(S) \in Nat /\ Cardinality(S) # 0
  BY FS_CardinalityType, FS_EmptySet
<1> QED BY <1>1 DEF Independence

\* The images of finitely many things are finitely many.
LEMMA FiniteImage ==
  ASSUME NEW S, IsFiniteSet(S), NEW T, NEW f \in [S -> T],
         \A t \in T : \E x \in S : f[x] = t
  PROVE  IsFiniteSet(T)
<1>1. f \in Surjection(S, T)
  BY DEF Surjection
<1> QED BY <1>1, FS_Surjection

\* The mentions of an event are envelopes, and finitely many.
LEMMA MentionsOfAreEnvelopes ==
  ASSUME NEW d, d \in TablesType, IsFiniteSet(d.mentions), NEW e
  PROVE  MentionsOf(d, e) \in SUBSET Envelopes /\ IsFiniteSet(MentionsOf(d, e))
<1> DEFINE mine == {y \in d.mentions : y.event = e}
           item == [x \in mine |-> x.item]
<1>1. IsFiniteSet(mine)
  BY FS_Subset
<1>2. item \in [mine -> MentionsOf(d, e)]
  BY DEF MentionsOf
<1>3. \A t \in MentionsOf(d, e) : \E x \in mine : item[x] = t
  BY DEF MentionsOf
<1>4. IsFiniteSet(MentionsOf(d, e))
  <2> HIDE DEF mine, item
  <2> QED BY <1>1, <1>2, <1>3, FiniteImage
<1>5. \A x \in mine : x.item \in Envelopes
  BY DEF TablesType
<1> QED BY <1>4, <1>5 DEF MentionsOf

\* A proposal is an event whose mentions are those of its event and i.
LEMMA ProposalType ==
  ASSUME NEW d, Sound(d), NEW i \in Envelopes, NEW ev, Proposed(d, i, ev)
  PROVE  /\ ev \in EventType
         /\ ev = WithMentions(Row(ev), MentionsOf(d, ev.id) \cup {i})
<1>1. i.received \in Int
  BY EnvelopesAssumption
<1>2. ASSUME NEW e \in EventIds, ev = FirstVersion(e, i),
             \A r \in d.rows : r.id # e
      PROVE  /\ ev \in EventType
             /\ ev = WithMentions(Row(ev), MentionsOf(d, ev.id) \cup {i})
  <2>1. MentionsOf(d, e) = {}
    BY <1>2 DEF MentionsOf, Sound, Anchored, VersionsOf
  <2>2. ev \in EventType
    BY <1>1, <1>2 DEF FirstVersion, EventType
  <2> QED BY <1>2, <2>1, <2>2 DEF FirstVersion, WithMentions, Row
<1>3. ASSUME NEW r \in LatestRows(d),
             ev = NextVersion(WithMentions(r, MentionsOf(d, r.id)), i)
      PROVE  /\ ev \in EventType
             /\ ev = WithMentions(Row(ev), MentionsOf(d, ev.id) \cup {i})
  <2> DEFINE ms == MentionsOf(d, r.id)
             groups == {Group(x) : x \in ms} \cup {Group(i)}
  <2>1. r \in RowType
    BY LatestIsARow DEF Sound, TablesType
  <2>2. ms \in SUBSET Envelopes /\ IsFiniteSet(ms)
    BY MentionsOfAreEnvelopes DEF Sound
  <2>3. IsFiniteSet(groups)
    <3> DEFINE group == [x \in ms |-> Group(x)]
    <3>1. group \in [ms -> {Group(x) : x \in ms}]
      OBVIOUS
    <3>2. \A t \in {Group(x) : x \in ms} : \E x \in ms : group[x] = t
      OBVIOUS
    <3>3. IsFiniteSet({Group(x) : x \in ms})
      <4> HIDE DEF group, ms
      <4> QED BY <2>2, <3>1, <3>2, FiniteImage
    <3> QED BY <3>3, FS_AddElement
  <2>4. Independence(groups) \in 2 .. 4
    <3> HIDE DEF ms
    <3> QED BY <2>3, IndependenceRange
  <2>5. ev = [id |-> r.id, version |-> r.version + 1, title |-> r.title,
              type |-> r.type,
              first |-> IF i.received < r.first THEN i.received ELSE r.first,
              last |-> IF i.received > r.last THEN i.received ELSE r.last,
              independence |-> Independence(groups), mentions |-> ms \cup {i}]
    BY <1>3 DEF NextVersion, WithMentions
  <2>6. ev \in EventType
    <3> HIDE DEF ms, groups
    <3> QED BY <1>1, <2>1, <2>2, <2>4, <2>5 DEF RowType, EventType
  <2>7. ev = WithMentions(Row(ev), MentionsOf(d, ev.id) \cup {i})
    <3> HIDE DEF groups
    <3> QED BY <2>5 DEF WithMentions, Row
  <2> QED BY <2>6, <2>7
<1> QED BY <1>2, <1>3, ProposalIsFirstOrNext

-----------------------------------------------------------------------------
(* What the save of a proposal does to the tables.                         *)

\* The three merges insert: no row they would replace exists.
LEMMA SaveInserts ==
  ASSUME NEW d, Sound(d), NEW i \in Envelopes, NEW ev, Proposed(d, i, ev)
  PROVE  LET x == [item |-> i, event |-> ev.id, version |-> ev.version]
         IN  Save(d, i, ev) = [raw      |-> d.raw \cup {i},
                               rows     |-> d.rows \cup {Row(ev)},
                               mentions |-> d.mentions \cup {x}]
<1>1. \A r \in d.rows : r.id # ev.id \/ r.version # ev.version
  <2>1. \A r \in d.rows : r.version \in Nat
    BY DEF Sound, TablesType, RowType
  <2> QED BY <2>1, ProposalIsNewest DEF Sound
<1>2. \A x \in d.mentions : x.item # i
  BY UnknownHasNoMention DEF Proposed
<1> QED BY <1>1, <1>2 DEF Save

\* No answer of load_event_version for a stored version changes.
LEMMA SaveKeepsHistory ==
  ASSUME NEW d, Sound(d), NEW i \in Envelopes, NEW ev, Proposed(d, i, ev)
  PROVE  HistoryKept(d, Save(d, i, ev))
<1> DEFINE d2 == Save(d, i, ev)
<1> SUFFICES ASSUME NEW r \in d.rows
             PROVE  LoadEventVersion(d2, r.id, r.version)
                      = LoadEventVersion(d, r.id, r.version)
  BY DEF HistoryKept
<1>1. /\ d2.rows = d.rows \cup {Row(ev)}
      /\ d2.mentions = d.mentions \cup
           {[item |-> i, event |-> ev.id, version |-> ev.version]}
  BY SaveInserts
<1>2. /\ r.version \in Nat /\ ev.version \in Nat
      /\ r.id = ev.id => r.version < ev.version
  BY ProposalIsNewest DEF Sound, TablesType, RowType
<1>3. ~ (Row(ev).id = r.id /\ Row(ev).version = r.version)
  BY <1>2 DEF Row
<1>4. MentionsAt(d2, r.id, r.version) = MentionsAt(d, r.id, r.version)
  BY <1>1, <1>2 DEF MentionsAt
<1>5. {s \in d2.rows : s.id = r.id /\ s.version = r.version}
        = {s \in d.rows : s.id = r.id /\ s.version = r.version}
  BY <1>1, <1>3
<1> QED BY <1>4, <1>5 DEF LoadEventVersion

\* What is loaded afterwards is what ingest publishes in memory.
LEMMA SaveIsPublished ==
  ASSUME NEW d, Sound(d), NEW i \in Envelopes, NEW ev, Proposed(d, i, ev)
  PROVE  LoadState(Save(d, i, ev)) = Published(LoadState(d), i, ev)
<1> DEFINE d2 == Save(d, i, ev)
           x  == [item |-> i, event |-> ev.id, version |-> ev.version]
<1>1. d2.rows = d.rows \cup {Row(ev)} /\ d2.mentions = d.mentions \cup {x}
  BY SaveInserts
<1>2. LatestRows(d2) = {r \in LatestRows(d) : r.id # ev.id} \cup {Row(ev)}
  <2>1. /\ \A r \in d.rows : r.version \in Nat
        /\ \A r \in d.rows : r.id = ev.id => r.version < ev.version
        /\ ev.version \in Nat
    BY ProposalIsNewest DEF Sound, TablesType, RowType
  <2>2. Row(ev).id = ev.id /\ Row(ev).version = ev.version
    BY DEF Row
  <2>3. \A r \in LatestRows(d2) :
          r = Row(ev) \/ (r \in LatestRows(d) /\ r.id # ev.id)
    <3> SUFFICES ASSUME NEW r \in LatestRows(d2), r # Row(ev)
                 PROVE  r \in LatestRows(d) /\ r.id # ev.id
      OBVIOUS
    <3>1. r \in d.rows /\ \A s \in d2.rows : s.id = r.id => s.version <= r.version
      BY <1>1 DEF LatestRows
    <3>2. r.id # ev.id
      BY <1>1, <2>1, <2>2, <3>1
    <3> QED BY <1>1, <3>1, <3>2 DEF LatestRows
  <2>4. Row(ev) \in LatestRows(d2)
    BY <1>1, <2>1, <2>2 DEF LatestRows
  <2>5. ASSUME NEW r \in LatestRows(d), r.id # ev.id
        PROVE  r \in LatestRows(d2)
    BY <1>1, <2>2, <2>5 DEF LatestRows
  <2> QED BY <2>3, <2>4, <2>5
<1>3. /\ MentionsOf(d2, ev.id) = MentionsOf(d, ev.id) \cup {i}
      /\ \A e : e # ev.id => MentionsOf(d2, e) = MentionsOf(d, e)
  <2>1. {y \in d2.mentions : y.event = ev.id}
          = {y \in d.mentions : y.event = ev.id} \cup {x}
    BY <1>1
  <2>2. \A e : e # ev.id => {y \in d2.mentions : y.event = e}
                              = {y \in d.mentions : y.event = e}
    BY <1>1
  <2>3. \A S : {y.item : y \in S \cup {x}} = {y.item : y \in S} \cup {x.item}
    <3> HIDE DEF x
    <3> QED OBVIOUS
  <2>4. MentionsOf(d2, ev.id) = MentionsOf(d, ev.id) \cup {x.item}
    <3> HIDE DEF d2, x
    <3> QED BY <2>1, <2>3 DEF MentionsOf
  <2>5. \A e : e # ev.id => MentionsOf(d2, e) = MentionsOf(d, e)
    <3> HIDE DEF d2
    <3> QED BY <2>2 DEF MentionsOf
  <2> QED BY <2>4, <2>5
<1>4. WithMentions(Row(ev), MentionsOf(d2, Row(ev).id)) = ev
  <2>1. Row(ev).id = ev.id
    BY DEF Row
  <2> QED BY <1>3, <2>1, ProposalType
<1>5. LoadState(d2).events = {e \in LoadState(d).events : e.id # ev.id} \cup {ev}
  <2>1. \A r, ms : WithMentions(r, ms).id = r.id
    BY DEF WithMentions
  <2>2. LoadState(d2).events
          = {WithMentions(r, MentionsOf(d2, r.id)) :
               r \in {q \in LatestRows(d) : q.id # ev.id}} \cup {ev}
    BY <1>2, <1>4, LoadedEvents
  <2>3. \A r : r.id # ev.id =>
          WithMentions(r, MentionsOf(d2, r.id)) = WithMentions(r, MentionsOf(d, r.id))
    BY <1>3
  <2>4. LoadState(d).events
          = {WithMentions(r, MentionsOf(d, r.id)) : r \in LatestRows(d)}
    BY LoadedEvents
  <2> QED BY <2>1, <2>2, <2>3, <2>4
<1>6. LoadState(d2).items = LoadState(d).items \cup {[item |-> i, event |-> ev.id]}
  <2>1. LoadState(d2).items
          = {[item |-> y.item, event |-> y.event] : y \in d2.mentions}
    BY LoadedItems
  <2>2. LoadState(d).items
          = {[item |-> y.item, event |-> y.event] : y \in d.mentions}
    BY LoadedItems
  <2>3. {[item |-> y.item, event |-> y.event] : y \in d.mentions \cup {x}}
          = {[item |-> y.item, event |-> y.event] : y \in d.mentions}
              \cup {[item |-> x.item, event |-> x.event]}
    <3> HIDE DEF x
    <3> QED OBVIOUS
  <2> QED BY <1>1, <2>1, <2>2, <2>3
<1>7. LoadState(d2) = [events |-> LoadState(d2).events, items |-> LoadState(d2).items]
  BY DEF LoadState, Assemble
<1> QED BY <1>5, <1>6, <1>7 DEF Published

\* Sound tables stay sound.
LEMMA SaveKeepsSound ==
  ASSUME NEW d, Sound(d), NEW i \in Envelopes, NEW ev, Proposed(d, i, ev)
  PROVE  Sound(Save(d, i, ev))
<1> DEFINE d2 == Save(d, i, ev)
           x  == [item |-> i, event |-> ev.id, version |-> ev.version]
<1>1. d2 = [raw |-> d.raw \cup {i}, rows |-> d.rows \cup {Row(ev)},
            mentions |-> d.mentions \cup {x}]
  BY SaveInserts
<1>2. /\ ev.id \in EventIds
      /\ ev.version \in Nat \ {0}
      /\ \A r \in d.rows : r.id = ev.id => r.version < ev.version
      /\ ev.version > 1 => \E r \in d.rows : r.id = ev.id /\ r.version = ev.version - 1
  BY ProposalIsNewest DEF Sound
<1>3. Row(ev) \in RowType /\ Row(ev).id = ev.id /\ Row(ev).version = ev.version
  <2>1. ev \in EventType
    BY ProposalType
  <2> QED BY <2>1 DEF Row, RowType, EventType
<1>4. d2 \in TablesType
  BY <1>1, <1>2, <1>3 DEF Sound, TablesType
<1>5. IsFiniteSet(d2.mentions) /\ IsFiniteSet(d2.rows) /\ Keyed(d2)
  <2>1. IsFiniteSet(d.mentions \cup {x})
    <3> HIDE DEF x
    <3> QED BY FS_AddElement DEF Sound
  <2>2. IsFiniteSet(d.rows \cup {Row(ev)})
    BY FS_AddElement DEF Sound
  <2>3. \A r \in d.rows : r.version \in Nat
    BY DEF Sound, TablesType, RowType
  <2>4. Keyed(d2)
    BY <1>1, <1>2, <1>3, <2>3 DEF Sound, Keyed
  <2> QED BY <1>1, <2>1, <2>2, <2>4
<1>6. \A e : VersionsOf(d, e) \subseteq VersionsOf(d2, e)
  BY <1>1 DEF VersionsOf
<1>7. ev.version \in VersionsOf(d2, ev.id)
  BY <1>1, <1>3 DEF VersionsOf
<1>8. Anchored(d2)
  <2>1. {y.item : y \in d2.mentions} = {y.item : y \in d.mentions} \cup {i}
    <3>1. {y.item : y \in d.mentions \cup {x}} = {y.item : y \in d.mentions} \cup {x.item}
      <4> HIDE DEF x
      <4> QED OBVIOUS
    <3> QED BY <1>1, <3>1
  <2>2. {y.item : y \in d2.mentions} = d2.raw
    BY <1>1, <2>1 DEF Sound, Anchored
  <2>3. \A y \in d2.mentions : y.version \in VersionsOf(d2, y.event)
    <3>1. d2.mentions = d.mentions \cup {x}
      BY <1>1
    <3>2. \A y \in d.mentions : y.version \in VersionsOf(d2, y.event)
      BY <1>6 DEF Sound, Anchored
    <3>3. x.version \in VersionsOf(d2, x.event)
      BY <1>7
    <3> HIDE DEF d2, x
    <3> QED BY <3>1, <3>2, <3>3
  <2>4. \A y, z \in d2.mentions : y.item = z.item => y = z
    <3>1. \A y \in d.mentions : y.item # i
      BY UnknownHasNoMention DEF Proposed
    <3> QED BY <1>1, <3>1 DEF Sound, Anchored
  <2> QED BY <2>2, <2>3, <2>4 DEF Anchored
<1>9. Contiguous(d2)
  <2>1. \A v \in 1 .. ev.version : v \in VersionsOf(d2, ev.id)
    <3> SUFFICES ASSUME NEW v \in 1 .. ev.version, v # ev.version
                 PROVE  v \in VersionsOf(d, ev.id)
      BY <1>6, <1>7
    <3>1. PICK r \in d.rows : r.id = ev.id /\ r.version = ev.version - 1
      BY <1>2
    <3>2. v \in 1 .. r.version
      BY <1>2, <3>1
    <3> QED BY <3>1, <3>2 DEF Sound, Contiguous
  <2>2. \A r \in d.rows : /\ r.version \in Nat \ {0}
                          /\ \A v \in 1 .. r.version : v \in VersionsOf(d2, r.id)
    BY <1>6 DEF Sound, Contiguous
  <2>3. d2.rows = d.rows \cup {Row(ev)}
    BY <1>1
  <2> HIDE DEF d2
  <2> QED BY <1>2, <1>3, <2>1, <2>2, <2>3 DEF Contiguous
<1> QED BY <1>4, <1>5, <1>8, <1>9 DEF Sound

\* Empty tables are sound.
LEMMA EmptyIsSound == Sound(EmptyTables)
BY FS_EmptySet DEF EmptyTables, Sound, TablesType, Keyed, Anchored, Contiguous

\* What is loaded from sound tables is a memory.
LEMMA LoadedType ==
  ASSUME NEW d, Sound(d)
  PROVE  LoadState(d) \in MemoryType
<1>1. LoadState(d).events \in SUBSET EventType
  <2> SUFFICES ASSUME NEW r \in LatestRows(d)
               PROVE  WithMentions(r, MentionsOf(d, r.id)) \in EventType
    BY LoadedEvents
  <2>1. r \in RowType
    BY LatestIsARow DEF Sound, TablesType
  <2>2. MentionsOf(d, r.id) \in SUBSET Envelopes
    BY MentionsOfAreEnvelopes DEF Sound
  <2> QED BY <2>1, <2>2 DEF WithMentions, RowType, EventType
<1>2. LoadState(d).items \in SUBSET [item : Envelopes, event : EventIds]
  BY LoadedItems DEF Sound, TablesType
<1>3. LoadState(d) = [events |-> LoadState(d).events, items |-> LoadState(d).items]
  BY DEF LoadState, Assemble
<1> QED BY <1>1, <1>2, <1>3 DEF MemoryType

-----------------------------------------------------------------------------
(* The choice among candidates.                                            *)

\* Comparing fractions by cross-multiplication is transitive, and strict as
\* soon as one of the two comparisons is.
LEMMA FractionsTransitive ==
  ASSUME NEW a \in Int, NEW b \in Int, NEW c \in Int,
         NEW u \in Nat \ {0}, NEW v \in Nat \ {0}, NEW w \in Nat \ {0},
         a * v - b * u >= 0, b * w - c * v >= 0
  PROVE  /\ a * w - c * u >= 0
         /\ a * v - b * u > 0 \/ b * w - c * v > 0 => a * w - c * u > 0
<1> DEFINE p == a * v - b * u
           q == b * w - c * v
           g == a * w - c * u
<1>1. p \in Int /\ q \in Int /\ g \in Int
  OBVIOUS
<1>2. v * g = w * p + u * q
  <2>1. v * g = v * (a * w) - v * (c * u)
    OBVIOUS
  <2>2. w * p = w * (a * v) - w * (b * u)
    OBVIOUS
  <2>3. u * q = u * (b * w) - u * (c * v)
    OBVIOUS
  <2>4. v * (a * w) = w * (a * v) /\ v * (c * u) = u * (c * v) /\ w * (b * u) = u * (b * w)
    OBVIOUS
  <2> HIDE DEF p, q, g
  <2> QED BY <2>1, <2>2, <2>3, <2>4, <1>1
<1> HIDE DEF p, q, g
<1>3. w * p >= 0 /\ (p > 0 => w * p > 0)
  BY <1>1 DEF p
<1>4. u * q >= 0 /\ (q > 0 => u * q > 0)
  BY <1>1 DEF q
<1>5. w * p \in Int /\ u * q \in Int
  BY <1>1
<1>6. v * g >= 0 /\ (p > 0 \/ q > 0 => v * g > 0)
  BY <1>2, <1>3, <1>4, <1>5
<1>7. g < 0 => v * g < 0
  BY <1>1
<1>8. g = 0 => v * g = 0
  BY <1>1
<1> QED BY <1>1, <1>6, <1>7, <1>8 DEF p, q, g

\* Similarity is a quotient of counts with a positive denominator.
LEMMA CountsOfWords ==
  ASSUME NEW i \in Envelopes, NEW ev \in EventType
  PROVE  Overlap(i, ev) \in Nat /\ Breadth(i, ev) \in Nat
<1>1. IsFiniteSet(i.tokens) /\ IsFiniteSet(ev.title)
  BY EnvelopesAssumption DEF EventType
<1> QED BY <1>1, FS_Union, FS_Intersection, FS_CardinalityType DEF Overlap, Breadth

\* The gaps between similarities are those of an order.
LEMMA GapsAreOrdered ==
  ASSUME NEW i \in Envelopes,
         NEW e \in EventType, NEW f \in EventType, NEW g \in EventType
  PROVE  /\ SimilarityGap(i, e, f) \in Int
         /\ SimilarityGap(i, f, e) = -SimilarityGap(i, e, f)
         /\ SimilarityGap(i, e, f) >= 0 /\ SimilarityGap(i, f, g) >= 0 =>
              /\ SimilarityGap(i, e, g) >= 0
              /\ SimilarityGap(i, e, f) > 0 \/ SimilarityGap(i, f, g) > 0 =>
                   SimilarityGap(i, e, g) > 0
              /\ SimilarityGap(i, e, f) = 0 /\ SimilarityGap(i, f, g) = 0 =>
                   SimilarityGap(i, e, g) = 0
<1> DEFINE width(ev) == IF Breadth(i, ev) = 0 THEN 1 ELSE Breadth(i, ev)
           shared(ev) == Overlap(i, ev)
<1>1. ASSUME NEW ev \in EventType
      PROVE  shared(ev) \in Int /\ width(ev) \in Nat \ {0}
  BY CountsOfWords
<1>2. ASSUME NEW x \in EventType, NEW y \in EventType
      PROVE  SimilarityGap(i, x, y) = shared(x) * width(y) - shared(y) * width(x)
  BY DEF SimilarityGap
<1> HIDE DEF width, shared
<1>3. ASSUME NEW x \in EventType, NEW y \in EventType
      PROVE  /\ SimilarityGap(i, x, y) \in Int
             /\ SimilarityGap(i, y, x) = -SimilarityGap(i, x, y)
  BY <1>1, <1>2
<1>4. ASSUME NEW x \in EventType, NEW y \in EventType, NEW z \in EventType,
             SimilarityGap(i, x, y) >= 0, SimilarityGap(i, y, z) >= 0
      PROVE  /\ SimilarityGap(i, x, z) >= 0
             /\ SimilarityGap(i, x, y) > 0 \/ SimilarityGap(i, y, z) > 0 =>
                  SimilarityGap(i, x, z) > 0
  <2>1. /\ shared(x) \in Int /\ shared(y) \in Int /\ shared(z) \in Int
        /\ width(x) \in Nat \ {0} /\ width(y) \in Nat \ {0} /\ width(z) \in Nat \ {0}
    BY <1>1
  <2>2. /\ shared(x) * width(y) - shared(y) * width(x) >= 0
        /\ shared(y) * width(z) - shared(z) * width(y) >= 0
    BY <1>2, <1>4
  <2>3. /\ shared(x) * width(z) - shared(z) * width(x) >= 0
        /\ \/ shared(x) * width(y) - shared(y) * width(x) > 0
           \/ shared(y) * width(z) - shared(z) * width(y) > 0
           => shared(x) * width(z) - shared(z) * width(x) > 0
    BY <2>1, <2>2, FractionsTransitive
  <2> QED BY <1>2, <2>3
<1>5. ASSUME SimilarityGap(i, e, f) = 0, SimilarityGap(i, f, g) = 0
      PROVE  SimilarityGap(i, e, g) = 0
  <2>1. SimilarityGap(i, e, g) >= 0
    BY <1>3, <1>4, <1>5
  <2>2. SimilarityGap(i, g, f) >= 0 /\ SimilarityGap(i, f, e) >= 0
    BY <1>3, <1>5
  <2>3. SimilarityGap(i, g, e) >= 0
    BY <1>4, <2>2
  <2> QED BY <1>3, <2>1, <2>3
<1> QED BY <1>3, <1>4, <1>5

\* The rank tuples of events with distinct ids are totally ordered.
LEMMA RankIsTotalOrder ==
  ASSUME NEW m, m.events \in SUBSET EventType, NEW i \in Envelopes,
         \A e, f \in m.events : e.id = f.id => e = f
  PROVE  /\ \A e, f, g \in m.events :
              RankAbove(m, i, e, f) /\ RankAbove(m, i, f, g) => RankAbove(m, i, e, g)
         /\ \A e \in m.events : ~RankAbove(m, i, e, e)
         /\ \A e, f \in m.events :
              e # f => RankAbove(m, i, e, f) \/ RankAbove(m, i, f, e)
<1> DEFINE exact(ev) == ExactContent(m, i, ev)
           gap(x, y) == SimilarityGap(i, x, y)
           near(ev)  == Distance(i.received, ev.last)
<1>1. ASSUME NEW ev \in m.events
      PROVE  near(ev) \in Int /\ ev.id \in Int /\ exact(ev) \in BOOLEAN
  <2>1. i.received \in Int /\ ev.last \in Int /\ ev.id \in Int
    BY EnvelopesAssumption, EventIdsAssumption DEF EventType
  <2>2. exact(ev) \in BOOLEAN
    BY DEF ExactContent
  <2> QED BY <2>1, <2>2 DEF Distance
<1>2. ASSUME NEW x, NEW y
      PROVE  RankAbove(m, i, x, y) <=>
               \/ exact(x) /\ ~exact(y)
               \/ /\ exact(x) = exact(y)
                  /\ \/ gap(x, y) > 0
                     \/ gap(x, y) = 0 /\ near(x) < near(y)
                     \/ gap(x, y) = 0 /\ near(x) = near(y) /\ x.id > y.id
  BY DEF RankAbove
<1>3. ASSUME NEW x \in m.events, NEW y \in m.events, NEW z \in m.events
      PROVE  /\ gap(x, y) \in Int /\ gap(y, x) = -gap(x, y)
             /\ gap(x, y) >= 0 /\ gap(y, z) >= 0 =>
                  /\ gap(x, z) >= 0
                  /\ gap(x, y) > 0 \/ gap(y, z) > 0 => gap(x, z) > 0
                  /\ gap(x, y) = 0 /\ gap(y, z) = 0 => gap(x, z) = 0
  BY GapsAreOrdered
<1> HIDE DEF exact, gap, near
<1>4. ASSUME NEW x \in m.events, NEW y \in m.events, NEW z \in m.events,
             RankAbove(m, i, x, y), RankAbove(m, i, y, z)
      PROVE  RankAbove(m, i, x, z)
  <2>1. /\ gap(x, y) \in Int /\ gap(y, z) \in Int /\ gap(x, z) \in Int
        /\ near(x) \in Int /\ near(y) \in Int /\ near(z) \in Int
        /\ x.id \in Int /\ y.id \in Int /\ z.id \in Int
    BY <1>1, <1>3
  <2>2. CASE ~(exact(x) = exact(y) /\ exact(y) = exact(z))
    BY <1>1, <1>2, <1>4, <2>2
  <2>3. CASE exact(x) = exact(y) /\ exact(y) = exact(z)
    <3>1. gap(x, y) >= 0 /\ gap(y, z) >= 0
      BY <1>2, <1>4, <2>1, <2>3
    <3> QED BY <1>2, <1>3, <1>4, <2>1, <2>3, <3>1
  <2> QED BY <2>2, <2>3
<1>5. ASSUME NEW x \in m.events PROVE ~RankAbove(m, i, x, x)
  <2>1. gap(x, x) \in Int /\ gap(x, x) = -gap(x, x) /\ near(x) \in Int /\ x.id \in Int
    BY <1>1, <1>3
  <2> QED BY <1>2, <2>1
<1>6. ASSUME NEW x \in m.events, NEW y \in m.events, x # y
      PROVE  RankAbove(m, i, x, y) \/ RankAbove(m, i, y, x)
  <2>1. /\ gap(x, y) \in Int /\ gap(y, x) = -gap(x, y)
        /\ near(x) \in Int /\ near(y) \in Int /\ x.id \in Int /\ y.id \in Int
        /\ x.id # y.id
        /\ exact(x) \in BOOLEAN /\ exact(y) \in BOOLEAN
    BY <1>1, <1>3, <1>6
  <2>2. CASE exact(x) = exact(y)
    BY <1>2, <2>1, <2>2
  <2>3. CASE exact(x) # exact(y)
    BY <1>2, <2>1, <2>3
  <2> QED BY <2>2, <2>3
<1> QED BY <1>4, <1>5, <1>6

\* max(candidates, key=rank) has exactly one answer.
LEMMA OneSimilarEvent ==
  ASSUME NEW m, m.events \in SUBSET EventType, IsFiniteSet(m.events),
         \A e, f \in m.events : e.id = f.id => e = f,
         NEW i \in Envelopes, Candidates(m, i) # {}
  PROVE  \E ev \in Candidates(m, i) :
           {x \in m.events : SimilarEvent(m, i, x)} = {ev}
<1> DEFINE C == Candidates(m, i)
           above == {p \in C \X C : RankAbove(m, i, p[1], p[2])}
<1>1. C \in SUBSET m.events /\ IsFiniteSet(C)
  <2>1. C \in SUBSET m.events
    BY DEF Candidates
  <2> QED BY <2>1, FS_Subset
<1>2. \A x, y \in C : <<x, y>> \in above <=> RankAbove(m, i, x, y)
  OBVIOUS
<1>3. PICK best \in C : \A y \in C : <<y, best>> \notin above
  <2>1. /\ \A x, y, z \in C : <<x, y>> \in above /\ <<y, z>> \in above => <<x, z>> \in above
        /\ \A x \in C : <<x, x>> \notin above
    <3> HIDE DEF above, C
    <3> QED BY <1>1, <1>2, RankIsTotalOrder
  <2> HIDE DEF above, C
  <2> QED BY <1>1, <2>1, UndominatedExists DEF C
<1> HIDE DEF above
<1>4. SimilarEvent(m, i, best)
  BY <1>1, <1>2, <1>3, RankIsTotalOrder DEF SimilarEvent
<1>5. ASSUME NEW x, SimilarEvent(m, i, x) PROVE x = best
  <2> SUFFICES ASSUME x # best PROVE FALSE
    OBVIOUS
  <2>1. x \in C /\ RankAbove(m, i, x, best)
    BY <1>5 DEF SimilarEvent
  <2> QED BY <1>2, <1>3, <2>1
<1> QED BY <1>1, <1>4, <1>5

-----------------------------------------------------------------------------
(* What is loaded from sound tables.                                       *)

\* Each stored event has a latest row.
LEMMA LatestExists ==
  ASSUME NEW d, Sound(d), NEW r \in d.rows
  PROVE  \E top \in LatestRows(d) : top.id = r.id
<1> DEFINE S == {s \in d.rows : s.id = r.id}
           above == {p \in S \X S : p[1].version > p[2].version}
<1>1. \A s \in S : s.version \in Nat
  BY DEF Sound, TablesType, RowType
<1>2. \A x, y \in S : <<x, y>> \in above <=> x.version > y.version
  OBVIOUS
<1>3. IsFiniteSet(S) /\ S # {}
  BY FS_Subset DEF Sound
<1>4. PICK top \in S : \A s \in S : <<s, top>> \notin above
  <2> HIDE DEF above, S
  <2>1. /\ \A x, y, z \in S : <<x, y>> \in above /\ <<y, z>> \in above => <<x, z>> \in above
        /\ \A x \in S : <<x, x>> \notin above
    BY <1>1, <1>2
  <2> QED BY <1>3, <2>1, UndominatedExists
<1>5. ASSUME NEW s \in S PROVE s.version <= top.version
  <2>1. ~(s.version > top.version)
    BY <1>2, <1>4
  <2>2. s.version \in Nat /\ top.version \in Nat
    BY <1>1
  <2> QED BY <2>1, <2>2
<1>6. top \in LatestRows(d)
  BY <1>5 DEF LatestRows
<1> QED BY <1>6

\* Memory is finite, holds each stored event once, and each entry of its
\* index names one of them.
LEMMA LoadedMemory ==
  ASSUME NEW d, Sound(d)
  PROVE  /\ IsFiniteSet(LoadState(d).events)
         /\ \A e, f \in LoadState(d).events : e.id = f.id => e = f
         /\ {ev.id : ev \in LoadState(d).events} = {r.id : r \in d.rows}
         /\ \A x \in LoadState(d).items :
              \E ev \in LoadState(d).events : ev.id = x.event
<1> DEFINE latest == LatestRows(d)
           event  == [r \in latest |-> WithMentions(r, MentionsOf(d, r.id))]
           events == LoadState(d).events
<1>1. latest \in SUBSET d.rows /\ IsFiniteSet(latest)
  <2>1. latest \in SUBSET d.rows
    BY DEF LatestRows
  <2> QED BY <2>1, FS_Subset DEF Sound
<1>2. events = {WithMentions(r, MentionsOf(d, r.id)) : r \in latest}
  BY LoadedEvents
<1>3. IsFiniteSet(events)
  <2>1. event \in [latest -> events] /\ \A ev \in events : \E r \in latest : event[r] = ev
    BY <1>2
  <2> HIDE DEF latest, event, events
  <2> QED BY <1>1, <2>1, FiniteImage
<1>4. \A r, ms : WithMentions(r, ms).id = r.id
  BY DEF WithMentions
<1>5. \A e, f \in events : e.id = f.id => e = f
  BY <1>2, <1>4, LatestKeyed DEF Sound
<1>6. \A r \in d.rows : \E ev \in events : ev.id = r.id
  <2> SUFFICES ASSUME NEW r \in d.rows PROVE \E ev \in events : ev.id = r.id
    OBVIOUS
  <2>1. PICK top \in latest : top.id = r.id
    BY LatestExists
  <2> HIDE DEF latest, events
  <2> QED BY <1>2, <1>4, <2>1
<1>7. \A ev \in events : \E r \in d.rows : r.id = ev.id
  BY <1>1, <1>2, <1>4
<1>8. ASSUME NEW x \in LoadState(d).items
      PROVE  \E ev \in events : ev.id = x.event
  <2>1. PICK y \in d.mentions : x = [item |-> y.item, event |-> y.event]
    BY LoadedItems
  <2>2. PICK r \in d.rows : r.id = y.event
    BY DEF Sound, Anchored, VersionsOf
  <2> QED BY <1>6, <2>1, <2>2
<1>9. {ev.id : ev \in events} = {r.id : r \in d.rows}
  <2> HIDE DEF events
  <2> QED BY <1>6, <1>7
<1> QED BY <1>3, <1>5, <1>8, <1>9

\* The tables decide which event a candidate item revises: one proposal.
LEMMA OneRevision ==
  ASSUME NEW d, Sound(d), NEW i \in Envelopes, Candidates(LoadState(d), i) # {},
         NEW used
  PROVE  \E ev \in Candidates(LoadState(d), i) :
           Proposals(LoadState(d), i, used) = {NextVersion(ev, i)}
<1> DEFINE m == LoadState(d)
<1>1. PICK ev \in Candidates(m, i) : {x \in m.events : SimilarEvent(m, i, x)} = {ev}
  <2>1. m.events \in SUBSET EventType
    BY LoadedType DEF MemoryType
  <2> HIDE DEF m
  <2> QED BY <2>1, LoadedMemory, OneSimilarEvent DEF m
<1>2. Proposals(m, i, used) = {NextVersion(x, i) : x \in {ev}}
  BY <1>1 DEF Proposals
<1> QED BY <1>2

-----------------------------------------------------------------------------
(* Lineage.                                                                *)

\* Every answer of load_event_version describes its mentions.
LineageKept(d) ==
  \A r \in d.rows : \A ev \in LoadEventVersion(d, r.id, r.version) : Lineage(ev)

\* The latest version has all mentions of its event.
LEMMA LatestHasAllMentions ==
  ASSUME NEW d, Sound(d), NEW r \in LatestRows(d)
  PROVE  MentionsAt(d, r.id, r.version) = MentionsOf(d, r.id)
<1>1. \A y \in d.mentions : y.event = r.id => y.version <= r.version
  BY LatestIsARow DEF Sound, Anchored, VersionsOf
<1> QED BY <1>1 DEF MentionsAt, MentionsOf

\* A proposal describes its own mentions.
LEMMA ProposalLineage ==
  ASSUME NEW d, Sound(d), LineageKept(d),
         NEW i \in Envelopes, NEW ev, Proposed(d, i, ev)
  PROVE  Lineage(ev)
<1>1. i.received \in Int
  BY EnvelopesAssumption
<1>2. ASSUME NEW e \in EventIds, ev = FirstVersion(e, i)
      PROVE  Lineage(ev)
  <2>1. Cardinality({i}) = 1 /\ Cardinality({Group(i)}) = 1
    BY FS_Singleton
  <2>2. {Group(x) : x \in {i}} = {Group(i)}
    OBVIOUS
  <2>3. Independence({Group(x) : x \in {i}}) = 2
    BY <2>1, <2>2 DEF Independence
  <2> QED BY <1>1, <1>2, <2>1, <2>3 DEF FirstVersion, Lineage
<1>3. ASSUME NEW r \in LatestRows(d),
             ev = NextVersion(WithMentions(r, MentionsOf(d, r.id)), i)
      PROVE  Lineage(ev)
  <2> DEFINE ms  == MentionsOf(d, r.id)
             old == WithMentions(r, ms)
  <2>1. Lineage(old)
    <3>1. r \in d.rows
      BY LatestIsARow
    <3>2. old \in LoadEventVersion(d, r.id, r.version)
      BY <3>1, LatestHasAllMentions DEF LoadEventVersion
    <3> QED BY <3>1, <3>2 DEF LineageKept
  <2>2. /\ ms \in SUBSET Envelopes /\ IsFiniteSet(ms)
        /\ i \notin ms
    <3>1. i \notin ms
      BY UnknownHasNoMention DEF Proposed, MentionsOf
    <3> QED BY <3>1, MentionsOfAreEnvelopes DEF Sound
  <2>3. Cardinality(ms \cup {i}) = Cardinality(ms) + 1
    <3> HIDE DEF ms
    <3> QED BY <2>2, FS_AddElement
  <2>4. {Group(x) : x \in ms \cup {i}} = {Group(x) : x \in ms} \cup {Group(i)}
    <3> HIDE DEF ms
    <3> QED OBVIOUS
  <2>5. /\ ev.version = r.version + 1
        /\ ev.mentions = ms \cup {i}
        /\ ev.first = IF i.received < r.first THEN i.received ELSE r.first
        /\ ev.last = IF i.received > r.last THEN i.received ELSE r.last
        /\ ev.independence = Independence({Group(x) : x \in ms} \cup {Group(i)})
    BY <1>3 DEF NextVersion, WithMentions
  <2>6. /\ Cardinality(ms) = r.version
        /\ \A x \in ms : r.first <= x.received /\ x.received <= r.last
        /\ \E x \in ms : x.received = r.first
        /\ \E x \in ms : x.received = r.last
    BY <2>1 DEF Lineage, WithMentions
  <2>7. r.first \in Int /\ r.last \in Int /\ \A x \in ms : x.received \in Int
    BY <2>2, LatestIsARow, EnvelopesAssumption DEF Sound, TablesType, RowType
  <2>8. /\ \A x \in ms \cup {i} : ev.first <= x.received /\ x.received <= ev.last
        /\ \E x \in ms \cup {i} : x.received = ev.first
        /\ \E x \in ms \cup {i} : x.received = ev.last
    <3> HIDE DEF ms
    <3> QED BY <1>1, <2>5, <2>6, <2>7
  <2> HIDE DEF ms
  <2> QED BY <2>3, <2>4, <2>5, <2>6, <2>8 DEF Lineage
<1> QED BY <1>2, <1>3, ProposalIsFirstOrNext

\* A save keeps the lineage of every version and adds one that has it.
LEMMA SaveKeepsLineage ==
  ASSUME NEW d, Sound(d), LineageKept(d),
         NEW i \in Envelopes, NEW ev, Proposed(d, i, ev)
  PROVE  LineageKept(Save(d, i, ev))
<1> DEFINE d2 == Save(d, i, ev)
           x  == [item |-> i, event |-> ev.id, version |-> ev.version]
<1>1. /\ d2.rows = d.rows \cup {Row(ev)}
      /\ d2.mentions = d.mentions \cup {x}
  BY SaveInserts
<1>2. \A r \in d.rows : \A old \in LoadEventVersion(d2, r.id, r.version) : Lineage(old)
  BY SaveKeepsHistory DEF HistoryKept, LineageKept
<1>3. /\ Row(ev).id = ev.id /\ Row(ev).version = ev.version
      /\ ev = WithMentions(Row(ev), MentionsOf(d, ev.id) \cup {i})
  BY ProposalType DEF Row
<1>4. MentionsAt(d2, ev.id, ev.version) = MentionsOf(d, ev.id) \cup {i}
  <2>1. ev.version \in Nat
        /\ \A y \in d.mentions : y.event = ev.id => y.version <= ev.version
    BY ProposalIsNewest DEF Sound, Anchored, VersionsOf, TablesType, RowType
  <2>2. {y \in d2.mentions : y.event = ev.id /\ y.version <= ev.version}
          = {y \in d.mentions : y.event = ev.id} \cup {x}
    BY <1>1, <2>1
  <2>3. \A S : {y.item : y \in S \cup {x}} = {y.item : y \in S} \cup {x.item}
    <3> HIDE DEF x
    <3> QED OBVIOUS
  <2>4. MentionsAt(d2, ev.id, ev.version) = MentionsOf(d, ev.id) \cup {x.item}
    <3> HIDE DEF d2, x
    <3> QED BY <2>2, <2>3 DEF MentionsAt, MentionsOf
  <2> QED BY <2>4
<1>5. \A q \in d2.rows : q.id = ev.id /\ q.version = ev.version => q = Row(ev)
  BY <1>1, ProposalIsNewest DEF Sound, TablesType, RowType
<1>6. \A new \in LoadEventVersion(d2, ev.id, ev.version) : new = ev
  BY <1>3, <1>4, <1>5 DEF LoadEventVersion
<1> QED BY <1>1, <1>2, <1>3, <1>6, ProposalLineage DEF LineageKept

-----------------------------------------------------------------------------
(* Clusters.                                                               *)

\* Item i belongs to the event that read as before: same category, within
\* the window, and by content or title.
Joins(i, before) ==
  /\ before.type = i.category
  /\ Distance(i.received, before.last) <= ClusterWindow
  /\ \/ \E y \in before.mentions : y.hash = i.hash
     \/ SimilarTitle(i, before)

\* Each item joined the version before the one that records it.
Coherent(d) ==
  \A x \in {y \in d.mentions : y.version > 1} :
    \E before \in LoadEventVersion(d, x.event, x.version - 1) : Joins(x.item, before)

\* A candidate is an event the item may join.
LEMMA CandidateJoins ==
  ASSUME NEW d, NEW i, NEW r \in LatestRows(d),
         WithMentions(r, MentionsOf(d, r.id)) \in Candidates(LoadState(d), i)
  PROVE  Joins(i, WithMentions(r, MentionsOf(d, r.id)))
<1> DEFINE old == WithMentions(r, MentionsOf(d, r.id))
<1>1. /\ old.type = i.category
      /\ Distance(i.received, old.last) <= ClusterWindow
      /\ ExactContent(LoadState(d), i, old) \/ SimilarTitle(i, old)
  BY DEF Candidates
<1>2. ASSUME ExactContent(LoadState(d), i, old)
      PROVE  \E y \in old.mentions : y.hash = i.hash
  <2>1. PICK x \in LoadState(d).items : x.item.hash = i.hash /\ x.event = old.id
    BY <1>2 DEF ExactContent
  <2>2. PICK y \in d.mentions : x = [item |-> y.item, event |-> y.event]
    BY LoadedItems
  <2>3. old.id = r.id /\ old.mentions = MentionsOf(d, r.id)
    BY DEF WithMentions
  <2>4. y.item \in MentionsOf(d, r.id)
    BY <2>1, <2>2, <2>3 DEF MentionsOf
  <2> QED BY <2>1, <2>2, <2>3, <2>4
<1> QED BY <1>1, <1>2 DEF Joins

\* A save keeps the clusters coherent.
LEMMA SaveKeepsCoherent ==
  ASSUME NEW d, Sound(d), Coherent(d),
         NEW i \in Envelopes, NEW ev, Proposed(d, i, ev)
  PROVE  Coherent(Save(d, i, ev))
<1> DEFINE d2  == Save(d, i, ev)
           new == [item |-> i, event |-> ev.id, version |-> ev.version]
<1>1. d2.mentions = d.mentions \cup {new} /\ d.rows \subseteq d2.rows
  BY SaveInserts
<1>2. ASSUME NEW r \in d.rows
      PROVE  LoadEventVersion(d2, r.id, r.version) = LoadEventVersion(d, r.id, r.version)
  BY SaveKeepsHistory DEF HistoryKept
<1>3. ASSUME NEW x \in d.mentions, x.version > 1
      PROVE  \E before \in LoadEventVersion(d2, x.event, x.version - 1) :
               Joins(x.item, before)
  <2>1. PICK before \in LoadEventVersion(d, x.event, x.version - 1) :
          Joins(x.item, before)
    BY <1>3 DEF Coherent
  <2>2. PICK r \in d.rows : r.id = x.event /\ r.version = x.version - 1
    BY <2>1 DEF LoadEventVersion
  <2> QED BY <1>2, <2>1, <2>2
<1>4. ASSUME ev.version > 1
      PROVE  \E before \in LoadEventVersion(d2, ev.id, ev.version - 1) : Joins(i, before)
  <2>1. PICK r \in LatestRows(d) :
          /\ ev = NextVersion(WithMentions(r, MentionsOf(d, r.id)), i)
          /\ WithMentions(r, MentionsOf(d, r.id)) \in Candidates(LoadState(d), i)
    <3>1. \A e : ev # FirstVersion(e, i)
      BY <1>4 DEF FirstVersion
    <3> QED BY <3>1, ProposalIsFirstOrNext
  <2> DEFINE before == WithMentions(r, MentionsOf(d, r.id))
  <2>2. r \in d.rows
    BY LatestIsARow
  <2>3. ev.id = r.id /\ ev.version - 1 = r.version
    <3>1. r.version \in Nat
      BY <2>2 DEF Sound, TablesType, RowType
    <3> QED BY <2>1, <3>1 DEF NextVersion, WithMentions
  <2>4. before \in LoadEventVersion(d, r.id, r.version)
    BY <2>2, LatestHasAllMentions DEF LoadEventVersion
  <2>5. Joins(i, before)
    BY <2>1, CandidateJoins
  <2> HIDE DEF before
  <2> QED BY <1>2, <2>2, <2>3, <2>4, <2>5
<1>5. \A x \in d2.mentions : x.version > 1 =>
        \E before \in LoadEventVersion(d2, x.event, x.version - 1) :
          Joins(x.item, before)
  <2> HIDE DEF d2
  <2> QED BY <1>1, <1>3, <1>4
<1> QED BY <1>5 DEF Coherent

-----------------------------------------------------------------------------
(* The recorded history.                                                   *)

\* The recorded versions of e: its n-th element is what version n knew.
RecordOf(d, e) ==
  [v \in 1 .. Cardinality(VersionsOf(d, e)) |-> MentionsAt(d, e, v)]

\* The stored versions below a proposal are exactly 1 .. version - 1.
LEMMA VersionsBelowProposal ==
  ASSUME NEW d, Sound(d), NEW i \in Envelopes, NEW ev, Proposed(d, i, ev)
  PROVE  /\ ev.version \in Nat \ {0}
         /\ VersionsOf(d, ev.id) = 1 .. (ev.version - 1)
         /\ VersionsOf(Save(d, i, ev), ev.id) = 1 .. ev.version
         /\ \A e : e # ev.id => VersionsOf(Save(d, i, ev), e) = VersionsOf(d, e)
<1> DEFINE d2 == Save(d, i, ev)
<1>1. /\ ev.version \in Nat \ {0}
      /\ \A r \in d.rows : r.id = ev.id => r.version < ev.version
      /\ ev.version > 1 => \E r \in d.rows : r.id = ev.id /\ r.version = ev.version - 1
  BY ProposalIsNewest DEF Sound
<1>2. \A r \in d.rows : r.version \in Nat \ {0}
  BY DEF Sound, TablesType, RowType
<1>3. VersionsOf(d, ev.id) \subseteq 1 .. (ev.version - 1)
  BY <1>1, <1>2 DEF VersionsOf
<1>4. 1 .. (ev.version - 1) \subseteq VersionsOf(d, ev.id)
  <2>1. CASE ev.version = 1
    BY <2>1
  <2>2. CASE ev.version > 1
    BY <1>1, <2>2 DEF Sound, Contiguous
  <2> QED BY <1>1, <2>1, <2>2
<1>5. /\ d2.rows = d.rows \cup {Row(ev)}
      /\ Row(ev).id = ev.id /\ Row(ev).version = ev.version
  BY SaveInserts DEF Row
<1>6. VersionsOf(d2, ev.id) = VersionsOf(d, ev.id) \cup {ev.version}
  <2> HIDE DEF d2
  <2> QED BY <1>5 DEF VersionsOf
<1>7. \A e : e # ev.id => VersionsOf(d2, e) = VersionsOf(d, e)
  <2> HIDE DEF d2
  <2> QED BY <1>5 DEF VersionsOf
<1>8. VersionsOf(d, ev.id) = 1 .. (ev.version - 1)
  BY <1>3, <1>4
<1>9. 1 .. ev.version = (1 .. (ev.version - 1)) \cup {ev.version}
  BY <1>1
<1> QED BY <1>1, <1>6, <1>7, <1>8, <1>9

\* A save appends one version to one event's record: the item joins what
\* the last version knew.
LEMMA SaveAppends ==
  ASSUME NEW d, Sound(d), NEW i \in Envelopes, NEW ev, Proposed(d, i, ev)
  PROVE  LET old == RecordOf(d, ev.id)
             d2  == Save(d, i, ev)
         IN  /\ RecordOf(d2, ev.id) =
                  Append(old, (IF old = <<>> THEN {} ELSE old[Len(old)]) \cup {i})
             /\ \A e : e # ev.id => RecordOf(d2, e) = RecordOf(d, e)
<1> DEFINE d2  == Save(d, i, ev)
           x   == [item |-> i, event |-> ev.id, version |-> ev.version]
           old == RecordOf(d, ev.id)
           n   == ev.version - 1
           top == IF old = <<>> THEN {} ELSE old[Len(old)]
<1>1. /\ ev.version \in Nat \ {0} /\ n \in Nat
      /\ VersionsOf(d, ev.id) = 1 .. n
      /\ VersionsOf(d2, ev.id) = 1 .. (n + 1)
      /\ \A e : e # ev.id => VersionsOf(d2, e) = VersionsOf(d, e)
  BY VersionsBelowProposal
<1>2. Cardinality(1 .. n) = n /\ Cardinality(1 .. (n + 1)) = n + 1
  <2>1. \A m \in Nat : Cardinality(1 .. m) = m
    BY FS_Interval
  <2> HIDE DEF n
  <2> QED BY <1>1, <2>1
<1>3. d2.mentions = d.mentions \cup {x}
  BY SaveInserts
<1>4. \A y \in d.mentions : y.event = ev.id => y.version \in 1 .. n
  BY <1>1 DEF Sound, Anchored
<1>5. \A v \in 1 .. n : MentionsAt(d2, ev.id, v) = MentionsAt(d, ev.id, v)
  BY <1>1, <1>3 DEF MentionsAt
<1>6. \A e : e # ev.id => \A v : MentionsAt(d2, e, v) = MentionsAt(d, e, v)
  BY <1>3 DEF MentionsAt
<1>7. MentionsAt(d2, ev.id, n + 1) = MentionsAt(d, ev.id, n) \cup {i}
  <2>1. {y \in d2.mentions : y.event = ev.id /\ y.version <= n + 1}
          = {y \in d.mentions : y.event = ev.id /\ y.version <= n} \cup {x}
    BY <1>1, <1>3, <1>4
  <2>2. \A S : {y.item : y \in S \cup {x}} = {y.item : y \in S} \cup {x.item}
    <3> HIDE DEF x
    <3> QED OBVIOUS
  <2>3. MentionsAt(d2, ev.id, n + 1) = MentionsAt(d, ev.id, n) \cup {x.item}
    <3> HIDE DEF d2, x, n
    <3> QED BY <2>1, <2>2 DEF MentionsAt
  <2> QED BY <2>3
<1>8. /\ old = [v \in 1 .. n |-> MentionsAt(d, ev.id, v)]
      /\ RecordOf(d2, ev.id) = [v \in 1 .. (n + 1) |-> MentionsAt(d2, ev.id, v)]
  BY <1>1, <1>2 DEF RecordOf
<1>9. top = MentionsAt(d, ev.id, n)
  <2>1. CASE n = 0
    <3>1. old = <<>>
      BY <1>8, <2>1
    <3>2. MentionsAt(d, ev.id, n) = {}
      BY <1>4, <2>1 DEF MentionsAt
    <3> QED BY <3>1, <3>2
  <2>2. CASE n # 0
    <3>1. Len(old) = n /\ old # <<>>
      <4> HIDE DEF n, old
      <4> QED BY <1>1, <1>8, <2>2
    <3>2. old[n] = MentionsAt(d, ev.id, n)
      <4> HIDE DEF n, old
      <4> QED BY <1>1, <1>8, <2>2
    <3> QED BY <3>1, <3>2
  <2> QED BY <2>1, <2>2
<1>10. RecordOf(d2, ev.id) = Append(old, top \cup {i})
  <2> HIDE DEF n, d2, old, top
  <2>1. old \in Seq({MentionsAt(d, ev.id, v) : v \in 1 .. n}) /\ Len(old) = n
    BY <1>1, <1>8
  <2>2. Append(old, top \cup {i})
          = [v \in 1 .. (n + 1) |-> IF v = n + 1 THEN top \cup {i} ELSE old[v]]
    BY <1>1, <2>1
  <2>3. \A v \in 1 .. (n + 1) :
          MentionsAt(d2, ev.id, v) = IF v = n + 1 THEN top \cup {i} ELSE old[v]
    <3> SUFFICES ASSUME NEW v \in 1 .. (n + 1)
                 PROVE  MentionsAt(d2, ev.id, v)
                          = IF v = n + 1 THEN top \cup {i} ELSE old[v]
      OBVIOUS
    <3>1. CASE v = n + 1
      BY <1>7, <1>9, <3>1
    <3>2. CASE v # n + 1
      <4>1. v \in 1 .. n
        BY <1>1, <3>2
      <4> QED BY <1>5, <1>8, <3>2, <4>1
    <3> QED BY <3>1, <3>2
  <2> QED BY <1>8, <2>2, <2>3
<1>11. \A e : e # ev.id => RecordOf(d2, e) = RecordOf(d, e)
  BY <1>1, <1>6 DEF RecordOf
<1> QED BY <1>10, <1>11

-----------------------------------------------------------------------------
(* EventLog.                                                               *)

\* What the tables of the log always are.
LogInv ==
  /\ Sound(db)
  /\ UniqueItems(db)
  /\ LineageKept(db)
  /\ Coherent(db)

\* The save of an item that memory does not know stores no identity twice.
LEMMA UnknownKeepsItemsUnique ==
  ASSUME NEW d, Anchored(d), UniqueItems(d), NEW i, ~Known(LoadState(d), i), NEW ev
  PROVE  UniqueItems(Save(d, i, ev))
<1>1. Save(d, i, ev).raw = d.raw \cup {i}
  BY DEF Save
<1>2. \A j \in d.raw : Identity(j) # Identity(i)
  BY UnknownIsNew
<1> QED BY <1>1, <1>2 DEF UniqueItems

\* Empty tables are those of an empty log.
LEMMA InitLogInv == LogInit => LogInv
BY EmptyIsSound
   DEF LogInit, LogInv, EmptyTables, UniqueItems, LineageKept, Coherent

\* A save that was proposed keeps the log and changes nothing stored.
LEMMA ProposedSaveKeepsLog ==
  ASSUME LogInv, NEW i \in Envelopes, NEW ev, Proposed(db, i, ev),
         db' = Save(db, i, ev)
  PROVE  /\ LogInv'
         /\ HistoryKept(db, db')
         /\ db.raw \subseteq db'.raw /\ db.mentions \subseteq db'.mentions
<1>1. Sound(db) /\ UniqueItems(db) /\ LineageKept(db) /\ Coherent(db) /\ Anchored(db)
  BY DEF LogInv, Sound
<1>2. Sound(db') /\ LineageKept(db') /\ Coherent(db')
  BY <1>1, SaveKeepsSound, SaveKeepsLineage, SaveKeepsCoherent
<1>3. UniqueItems(db')
  BY <1>1, UnknownKeepsItemsUnique DEF Proposed
<1>4. HistoryKept(db, db')
  BY <1>1, SaveKeepsHistory
<1>5. db.raw \subseteq db'.raw /\ db.mentions \subseteq db'.mentions
  BY <1>1, SaveInserts
<1> QED BY <1>2, <1>3, <1>4, <1>5 DEF LogInv

\* A commit of the log is the save of a proposal that the indexes accept.
LEMMA CommitIsProposed ==
  ASSUME NEW i \in Envelopes
  PROVE  LogCommit(i) <=>
           Accepts(db, i) /\ \E ev : Proposed(db, i, ev) /\ db' = Save(db, i, ev)
BY DEF LogCommit, Proposed

\* Each step of the log keeps its tables consistent and only adds to them.
LEMMA LogStep ==
  ASSUME LogInv, [LogNext]_db
  PROVE  /\ LogInv'
         /\ HistoryKept(db, db')
         /\ db.raw \subseteq db'.raw /\ db.mentions \subseteq db'.mentions
<1>1. CASE LogNext
  BY <1>1, CommitIsProposed, ProposedSaveKeepsLog DEF LogNext
<1>2. CASE UNCHANGED db
  BY <1>2 DEF LogInv, HistoryKept
<1> QED BY <1>1, <1>2

\* Whoever implements the log has tables without gaps, duplicates, wrong
\* lineage or incoherent clusters (event_repository.py 145-207, service.py
\* 87-164).
THEOREM LogInvariant == LogSpec => []LogInv
<1>1. LogInv /\ [LogNext]_db => LogInv'
  BY LogStep
<1> QED BY <1>1, InitLogInv, PTL DEF LogSpec

\* Whoever implements the log answers for a stored version for ever as it
\* did when the version was stored.
THEOREM LogOnlyGrows ==
  LogSpec => [][/\ HistoryKept(db, db')
                /\ db.raw \subseteq db'.raw
                /\ db.mentions \subseteq db'.mentions]_db
<1>1. LogInv /\ [LogNext]_db =>
        [/\ HistoryKept(db, db')
         /\ db.raw \subseteq db'.raw
         /\ db.mentions \subseteq db'.mentions]_db
  BY LogStep
<1> QED BY <1>1, LogInvariant, PTL DEF LogSpec

\* The tables are empty at first, and so is every record.
LEMMA InitMapsToInit == LogInit => History!Init
<1> SUFFICES ASSUME LogInit PROVE History!Init
  OBVIOUS
<1>1. db = EmptyTables
  BY DEF LogInit
<1>2. \A e : VersionsOf(db, e) = {}
  BY <1>1 DEF EmptyTables, VersionsOf
<1>3. Cardinality({}) = 0
  BY FS_EmptySet
<1>4. \A e \in EventIds : RecordOf(db, e) = <<>>
  BY <1>2, <1>3 DEF RecordOf
<1>5. RecordedHistory = [e \in EventIds |-> RecordOf(db, e)]
  BY DEF RecordedHistory, RecordOf
<1> QED BY <1>4, <1>5 DEF History!Init

\* A commit records one item, unknown until then, in one event.
LEMMA CommitMapsToRecord ==
  ASSUME LogInv, LogNext
  PROVE  History!Next
<1>0. PICK i \in Envelopes : LogCommit(i)
  BY DEF LogNext
<1>1. PICK ev : Sound(db) /\ Proposed(db, i, ev) /\ db' = Save(db, i, ev)
  BY <1>0, CommitIsProposed DEF LogInv
<1>2. /\ RecordedHistory = [e \in EventIds |-> RecordOf(db, e)]
      /\ RecordedHistory' = [e \in EventIds |-> RecordOf(db', e)]
  BY DEF RecordedHistory, RecordOf
<1>3. ev.id \in EventIds
  BY <1>1, ProposalIsNewest DEF Sound
<1>4. ~ History!Recorded(i)
  <2> SUFFICES ASSUME NEW e \in EventIds, NEW v \in DOMAIN RecordedHistory[e],
                      NEW j \in RecordedHistory[e][v]
               PROVE  Identity(j) # Identity(i)
    BY DEF History!Recorded
  <2>1. j \in MentionsAt(db, e, v)
    BY <1>2 DEF RecordOf
  <2>2. PICK x \in db.mentions : x.item = j
    BY <2>1 DEF MentionsAt
  <2>3. [item |-> x.item, event |-> x.event] \in LoadState(db).items
    BY LoadedItems
  <2> QED BY <1>1, <2>2, <2>3 DEF Proposed, Known
<1>5. RecordedHistory'
        = [RecordedHistory EXCEPT
             ![ev.id] = Append(@, History!Current(ev.id) \cup {i})]
  <2> DEFINE old == RecordOf(db, ev.id)
             top == IF old = <<>> THEN {} ELSE old[Len(old)]
  <2>1. History!Current(ev.id) = top
    BY <1>2, <1>3 DEF History!Current
  <2>2. /\ RecordOf(db', ev.id) = Append(old, top \cup {i})
        /\ \A e : e # ev.id => RecordOf(db', e) = RecordOf(db, e)
    BY <1>1, SaveAppends
  <2> HIDE DEF top
  <2> QED BY <1>2, <1>3, <2>1, <2>2
<1> QED BY <1>1, <1>3, <1>4, <1>5 DEF History!Next, History!Record

\* The tables of the log are an append-only history in which each identity
\* is recorded once, in one event (README: "append-only canonical event
\* versions").
THEOREM LogImplementsHistory == LogSpec => History!Spec
<1>1. LogInv /\ [LogNext]_db => [History!Next]_RecordedHistory
  <2>1. ASSUME db' = db
        PROVE  RecordedHistory' = RecordedHistory
    BY <2>1 DEF RecordedHistory
  <2> QED BY <2>1, CommitMapsToRecord
<1> QED BY <1>1, InitMapsToInit, LogInvariant, PTL DEF LogSpec, History!Spec
=============================================================================
