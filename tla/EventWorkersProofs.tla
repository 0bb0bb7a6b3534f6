------------------------- MODULE EventWorkersProofs -------------------------
(***************************************************************************)
(* What the tables keep for any number of workers, with stale or torn      *)
(* memories and an unreliable lease; and what the lease gives where its    *)
(* connection lasts.                                                       *)
(***************************************************************************)
EXTENDS EventWorkers, EventStoreProofs

-----------------------------------------------------------------------------
(* A save decided on a memory that may be stale.                           *)

\* What memory holds was stored once: a version of each event it knows, with
\* finitely many mentions.  The tables may have moved on since.
Remembers(d, m) ==
  \A ev \in m.events : ev.version \in VersionsOf(d, ev.id) /\ IsFiniteSet(ev.mentions)

\* The groups of finitely many mentions and one more are 0.5, 0.75 or 1.0.
LEMMA JoinedIndependence ==
  ASSUME NEW ms, IsFiniteSet(ms), NEW i
  PROVE  Independence({Group(x) : x \in ms} \cup {Group(i)}) \in 2 .. 4
<1> DEFINE group == [x \in ms |-> Group(x)]
<1>1. group \in [ms -> {Group(x) : x \in ms}]
  OBVIOUS
<1>2. \A t \in {Group(x) : x \in ms} : \E x \in ms : group[x] = t
  OBVIOUS
<1>3. IsFiniteSet({Group(x) : x \in ms})
  <2> HIDE DEF group
  <2> QED BY <1>1, <1>2, FiniteImage
<1> QED BY <1>3, FS_AddElement, IndependenceRange

\* A proposal from stale memory is an event, and the version before it was
\* stored at some time.
LEMMA StaleProposal ==
  ASSUME NEW d, NEW m \in MemoryType, Remembers(d, m), NEW i \in Envelopes,
         NEW used, NEW ev \in Proposals(m, i, used)
  PROVE  /\ ev \in EventType
         /\ IsFiniteSet(ev.mentions)
         /\ ev.version > 1 => ev.version - 1 \in VersionsOf(d, ev.id)
<1>1. i.received \in Int
  BY EnvelopesAssumption
<1>2. ASSUME NEW e \in EventIds, ev = FirstVersion(e, i)
      PROVE  /\ ev \in EventType
             /\ IsFiniteSet(ev.mentions)
             /\ ~ (ev.version > 1)
  <2>1. ev \in EventType
    BY <1>1, <1>2 DEF FirstVersion, EventType
  <2>2. ev.mentions = {i} /\ ev.version = 1
    BY <1>2 DEF FirstVersion
  <2>3. IsFiniteSet({i})
    BY FS_Singleton
  <2> QED BY <2>1, <2>2, <2>3
<1>3. ASSUME NEW old \in m.events, ev = NextVersion(old, i)
      PROVE  /\ ev \in EventType
             /\ IsFiniteSet(ev.mentions)
             /\ ev.version - 1 \in VersionsOf(d, ev.id)
  <2>1. old \in EventType /\ IsFiniteSet(old.mentions)
    BY DEF MemoryType, Remembers
  <2>2. Independence({Group(x) : x \in old.mentions} \cup {Group(i)}) \in 2 .. 4
    BY <2>1, JoinedIndependence
  <2>3. ev \in EventType
    BY <1>1, <1>3, <2>1, <2>2 DEF NextVersion, EventType
  <2>4. IsFiniteSet(ev.mentions)
    BY <1>3, <2>1, FS_AddElement DEF NextVersion
  <2>5. ev.id = old.id /\ ev.version - 1 = old.version
    BY <1>3, <2>1 DEF NextVersion, EventType
  <2> QED BY <2>3, <2>4, <2>5 DEF Remembers
<1> QED BY <1>2, <1>3 DEF Proposals

\* Whatever row the save replaces, versions are only added.
LEMMA SaveAddsVersion ==
  ASSUME NEW d, NEW i, NEW ev
  PROVE  /\ VersionsOf(Save(d, i, ev), ev.id) = VersionsOf(d, ev.id) \cup {ev.version}
         /\ \A e : e # ev.id => VersionsOf(Save(d, i, ev), e) = VersionsOf(d, e)
<1> DEFINE kept == {r \in d.rows : r.id # ev.id \/ r.version # ev.version}
<1>1. Save(d, i, ev).rows = kept \cup {Row(ev)}
  BY DEF Save
<1>2. Row(ev).id = ev.id /\ Row(ev).version = ev.version
  BY DEF Row
<1> QED BY <1>1, <1>2 DEF VersionsOf

\* A new item's mention replaces no other.
LEMMA SaveAddsMention ==
  ASSUME NEW d, Anchored(d), NEW i, i \notin d.raw, NEW ev
  PROVE  Save(d, i, ev).mentions
           = d.mentions \cup {[item |-> i, event |-> ev.id, version |-> ev.version]}
<1>1. \A x \in d.mentions : x.item # i
  BY DEF Anchored
<1> QED BY <1>1 DEF Save

\* Sound tables stay sound, also when the save replaces a row.
LEMMA StaleSaveKeepsSound ==
  ASSUME NEW d, Sound(d), NEW i \in Envelopes, i \notin d.raw, NEW ev \in EventType,
         ev.version > 1 => ev.version - 1 \in VersionsOf(d, ev.id)
  PROVE  Sound(Save(d, i, ev))
<1> DEFINE d2 == Save(d, i, ev)
           x  == [item |-> i, event |-> ev.id, version |-> ev.version]
<1>1. /\ d2 = [raw |-> d2.raw, rows |-> d2.rows, mentions |-> d2.mentions]
      /\ d2.raw = d.raw \cup {i}
      /\ d2.rows \subseteq d.rows \cup {Row(ev)}
      /\ d2.mentions = d.mentions \cup {x}
  BY SaveAddsMention DEF Sound, Save
<1>2. /\ \A e : VersionsOf(d, e) \subseteq VersionsOf(d2, e)
      /\ ev.version \in VersionsOf(d2, ev.id)
  BY SaveAddsVersion
<1>3. ev.id \in EventIds /\ ev.version \in Nat \ {0}
  BY DEF EventType
<1>4. Row(ev) \in RowType /\ Row(ev).id = ev.id /\ Row(ev).version = ev.version
  BY DEF Row, RowType, EventType
<1> HIDE DEF d2
<1>5. d2 \in TablesType
  BY <1>1, <1>3, <1>4 DEF Sound, TablesType
<1>6. IsFiniteSet(d2.mentions) /\ IsFiniteSet(d2.rows) /\ Keyed(d2)
  <2>1. d2.rows = {r \in d.rows : r.id # ev.id \/ r.version # ev.version}
                    \cup {Row(ev)}
    BY DEF d2, Save
  <2>2. IsFiniteSet(d2.rows)
    <3>1. IsFiniteSet(d.rows \cup {Row(ev)})
      BY FS_AddElement DEF Sound
    <3> QED BY <1>1, <3>1, FS_Subset
  <2>3. Keyed(d2)
    BY <1>4, <2>1 DEF Sound, Keyed
  <2> HIDE DEF x
  <2> QED BY <1>1, <2>2, <2>3, FS_AddElement DEF Sound
<1>7. Anchored(d2)
  <2>1. {y.item : y \in d.mentions \cup {x}} = {y.item : y \in d.mentions} \cup {x.item}
    <3> HIDE DEF x
    <3> QED OBVIOUS
  <2>2. {y.item : y \in d2.mentions} = d2.raw
    BY <1>1, <2>1 DEF Sound, Anchored
  <2>3. \A y \in d.mentions : y.version \in VersionsOf(d2, y.event)
    BY <1>2 DEF Sound, Anchored
  <2>4. \A y \in d2.mentions : y.version \in VersionsOf(d2, y.event)
    BY <1>1, <1>2, <2>3
  <2>5. \A y \in d.mentions : y.item # i
    BY DEF Sound, Anchored
  <2>6. \A y, z \in d2.mentions : y.item = z.item => y = z
    BY <1>1, <2>5 DEF Sound, Anchored
  <2> QED BY <2>2, <2>4, <2>6 DEF Anchored
<1>8. Contiguous(d2)
  <2>1. \A v \in 1 .. ev.version : v \in VersionsOf(d2, ev.id)
    <3> SUFFICES ASSUME NEW v \in 1 .. ev.version, v # ev.version
                 PROVE  v \in VersionsOf(d, ev.id)
      BY <1>2
    <3>1. PICK r \in d.rows : r.id = ev.id /\ r.version = ev.version - 1
      BY <1>3 DEF VersionsOf
    <3>2. v \in 1 .. r.version
      BY <1>3, <3>1
    <3> QED BY <3>1, <3>2 DEF Sound, Contiguous
  <2>2. \A r \in d.rows : /\ r.version \in Nat \ {0}
                          /\ \A v \in 1 .. r.version : v \in VersionsOf(d2, r.id)
    BY <1>2 DEF Sound, Contiguous
  <2> QED BY <1>1, <1>3, <1>4, <2>1, <2>2 DEF Contiguous
<1> QED BY <1>5, <1>6, <1>7, <1>8 DEF Sound, d2

\* Each version has an item that was filed under it.
Explained(d) ==
  \A r \in d.rows : \E x \in d.mentions : x.event = r.id /\ x.version = r.version

\* A save explains the version it writes and takes no explanation away.
LEMMA SaveKeepsExplained ==
  ASSUME NEW d, Anchored(d), Explained(d), NEW i, i \notin d.raw, NEW ev
  PROVE  Explained(Save(d, i, ev))
<1> DEFINE d2 == Save(d, i, ev)
           x  == [item |-> i, event |-> ev.id, version |-> ev.version]
<1>1. d2.rows \subseteq d.rows \cup {Row(ev)} /\ d2.mentions = d.mentions \cup {x}
  BY SaveAddsMention DEF Save
<1>2. Row(ev).id = x.event /\ Row(ev).version = x.version
  BY DEF Row
<1>3. x \in d2.mentions /\ d.mentions \subseteq d2.mentions
  BY <1>1
<1> HIDE DEF d2, x
<1>4. Explained(d2)
  BY <1>1, <1>2, <1>3 DEF Explained
<1> QED BY <1>4 DEF d2

\* What memory or a SELECT has seen stays stored.
LEMMA SaveKeepsRemembered ==
  ASSUME NEW d, NEW i, NEW ev, NEW m, Remembers(d, m)
  PROVE  Remembers(Save(d, i, ev), m)
<1>1. \A e : VersionsOf(d, e) \subseteq VersionsOf(Save(d, i, ev), e)
  BY SaveAddsVersion
<1> QED BY <1>1 DEF Remembers

\* A load whose rows are older than its mentions is a memory, and remembers
\* only what is stored.
LEMMA TornLoad ==
  ASSUME NEW d, Sound(d), NEW rows \in SUBSET RowType,
         \A r \in rows : r.version \in VersionsOf(d, r.id)
  PROVE  LET m == Assemble(rows, d.mentions)
         IN  m \in MemoryType /\ Remembers(d, m)
<1> DEFINE m == Assemble(rows, d.mentions)
<1>1. m = [events |-> {WithMentions(r, MentionsOf(d, r.id)) : r \in rows},
           items  |-> {[item |-> x.item, event |-> x.event] : x \in d.mentions}]
  BY DEF Assemble, MentionsOf
<1>2. \A r \in rows : MentionsOf(d, r.id) \in SUBSET Envelopes /\ IsFiniteSet(MentionsOf(d, r.id))
  BY MentionsOfAreEnvelopes DEF Sound
<1>3. \A r \in rows : WithMentions(r, MentionsOf(d, r.id)) \in EventType
  BY <1>2 DEF WithMentions, RowType, EventType
<1>4. m.items \in SUBSET [item : Envelopes, event : EventIds]
  BY <1>1 DEF Sound, TablesType
<1>5. m \in MemoryType
  BY <1>1, <1>3, <1>4 DEF MemoryType
<1>6. \A r \in rows : LET ev == WithMentions(r, MentionsOf(d, r.id))
                      IN  ev.version \in VersionsOf(d, ev.id) /\ IsFiniteSet(ev.mentions)
  BY <1>2 DEF WithMentions
<1>7. Remembers(d, m)
  BY <1>1, <1>6 DEF Remembers
<1> QED BY <1>5, <1>7

-----------------------------------------------------------------------------
(* The inductive invariant of the tables and the memories.                 *)

\* A SELECT returned rows of versions that are stored.
SelectedStored ==
  \A w \in Workers : \A r \in selected[w] : r.version \in VersionsOf(db, r.id)

\* Every worker's memory was once stored.
MemoriesStored == \A w \in Workers : Remembers(db, memory[w])

WInv ==
  /\ TypeOK
  /\ Sound(db)
  /\ IndexedItems(db)
  /\ Explained(db)
  /\ db.raw \subseteq fetched
  /\ SelectedStored
  /\ MemoriesStored

\* Nothing is stored, nobody runs.
LEMMA InitWInv == Init => WInv
<1> SUFFICES ASSUME Init PROVE WInv
  OBVIOUS
<1>1. /\ db = EmptyTables /\ lease = Nobody /\ fetched = {}
      /\ stage = [w \in Workers |-> "ended"]
      /\ selected = [w \in Workers |-> {}]
      /\ memory = [w \in Workers |-> EmptyMemory]
  BY DEF Init
<1>2. Sound(db)
  BY <1>1, EmptyIsSound
<1>3. EmptyMemory \in MemoryType
  BY DEF EmptyMemory, MemoryType
<1>4. TypeOK
  BY <1>1, <1>2, <1>3, NobodyAssumption DEF TypeOK, Sound
<1>5. IndexedItems(db) /\ Explained(db) /\ db.raw \subseteq fetched
  BY <1>1 DEF EmptyTables, IndexedItems, Explained
<1>6. SelectedStored
  BY <1>1 DEF SelectedStored
<1>7. MemoriesStored
  BY <1>1 DEF MemoriesStored, Remembers, EmptyMemory
<1> QED BY <1>2, <1>4, <1>5, <1>6, <1>7 DEF WInv

\* A worker that ends leaves the tables to the others.
LEMMA EndKeepsWInv ==
  ASSUME WInv, NEW w \in Workers, End(w), db' = db,
         fetched \subseteq fetched', fetched' \subseteq Envelopes
  PROVE  WInv'
<1>1. /\ stage' = [stage EXCEPT ![w] = "ended"]
      /\ selected' = [selected EXCEPT ![w] = {}]
      /\ memory' = [memory EXCEPT ![w] = EmptyMemory]
      /\ lease' = IF lease = w THEN Nobody ELSE lease
  BY DEF End
<1>2. EmptyMemory \in MemoryType /\ EmptyMemory.events = {}
  BY DEF EmptyMemory, MemoryType
<1>3. TypeOK'
  <2> USE DEF WInv, TypeOK
  <2>1. db' \in TablesType /\ fetched' \subseteq Envelopes
    OBVIOUS
  <2>2. lease' \in Workers \cup {Nobody} /\ lease' # w
    BY <1>1, NobodyAssumption
  <2>3. stage' \in [Workers -> {"ended", "selecting", "loaded", "ingesting"}]
    BY <1>1
  <2>4. selected' \in [Workers -> SUBSET RowType]
    BY <1>1
  <2>5. memory' \in [Workers -> MemoryType]
    BY <1>1, <1>2
  <2>6. \A x \in Workers : stage'[x] = "ended" => memory'[x] = EmptyMemory /\ lease' # x
    BY <1>1, <2>2, NobodyAssumption
  <2> QED BY <2>1, <2>2, <2>3, <2>4, <2>5, <2>6
<1>4. Sound(db') /\ IndexedItems(db') /\ Explained(db') /\ db'.raw \subseteq fetched'
  BY DEF WInv
<1>5. SelectedStored'
  BY <1>1 DEF WInv, SelectedStored, TypeOK
<1>6. MemoriesStored'
  BY <1>1, <1>2 DEF WInv, MemoriesStored, Remembers, TypeOK
<1> QED BY <1>3, <1>4, <1>5, <1>6 DEF WInv

\* What the save of an ingest needs, and what it leaves behind.
LEMMA IngestSaves ==
  ASSUME WInv, NEW w \in Workers, NEW i \in Envelopes, i \notin fetched,
         Accepts(db, i), NEW ev \in Proposals(memory[w], i, UsedIds),
         db' = Save(db, i, ev)
  PROVE  /\ ev \in EventType
         /\ Published(memory[w], i, ev) \in MemoryType
         /\ Sound(db') /\ IndexedItems(db') /\ Explained(db')
         /\ db'.raw = db.raw \cup {i}
         /\ Remembers(db', Published(memory[w], i, ev))
         /\ \A x \in Workers : Remembers(db', memory[x])
         /\ \A e : VersionsOf(db, e) \subseteq VersionsOf(db', e)
<1>1. /\ memory[w] \in MemoryType
      /\ Sound(db) /\ IndexedItems(db) /\ Explained(db)
      /\ \A x \in Workers : Remembers(db, memory[x])
      /\ i \notin db.raw
  BY DEF WInv, TypeOK, MemoriesStored
<1>2. /\ ev \in EventType
      /\ IsFiniteSet(ev.mentions)
      /\ ev.version > 1 => ev.version - 1 \in VersionsOf(db, ev.id)
  BY <1>1, StaleProposal
<1>3. Sound(db')
  BY <1>1, <1>2, StaleSaveKeepsSound
<1>4. IndexedItems(db')
  BY <1>1, SaveKeepsItemsIndexed
<1>5. Explained(db')
  BY <1>1, SaveKeepsExplained DEF Sound
<1>6. /\ ev.version \in VersionsOf(db', ev.id)
      /\ \A e : VersionsOf(db, e) \subseteq VersionsOf(db', e)
  BY SaveAddsVersion
<1>7. \A x \in Workers : Remembers(db', memory[x])
  BY <1>1, SaveKeepsRemembered
<1>8. Remembers(db', Published(memory[w], i, ev))
  BY <1>2, <1>6, <1>7 DEF Remembers, Published
<1>9. Published(memory[w], i, ev) \in MemoryType
  <2>1. ev.id \in EventIds
    BY <1>2 DEF EventType
  <2> QED BY <1>1, <1>2, <2>1 DEF Published, MemoryType
<1>10. db'.raw = db.raw \cup {i}
  BY DEF Save
<1> QED BY <1>2, <1>3, <1>4, <1>5, <1>6, <1>7, <1>8, <1>9, <1>10

\* Every step of every worker keeps the invariant.
LEMMA NextWInv == WInv /\ [Next]_vars => WInv'
<1> SUFFICES ASSUME WInv, [Next]_vars PROVE WInv'
  OBVIOUS
<1> USE DEF WInv
<1>1. ASSUME NEW w \in Workers, SelectRows(w) PROVE WInv'
  <2>1. /\ db' = db /\ lease' = lease /\ memory' = memory /\ fetched' = fetched
        /\ stage' = [stage EXCEPT ![w] = "selecting"]
        /\ selected' = [selected EXCEPT ![w] = LatestRows(db)]
    BY <1>1 DEF SelectRows
  <2>2. LatestRows(db) \in SUBSET RowType
    BY LatestIsARow DEF Sound, TablesType
  <2>3. \A r \in LatestRows(db) : r.version \in VersionsOf(db, r.id)
    BY LatestIsARow DEF VersionsOf
  <2>4. TypeOK'
    BY <2>1, <2>2 DEF TypeOK
  <2>5. SelectedStored'
    BY <2>1, <2>3 DEF SelectedStored, TypeOK
  <2> QED BY <2>1, <2>4, <2>5 DEF MemoriesStored
<1>2. ASSUME NEW w \in Workers, SelectMentions(w) PROVE WInv'
  <2> DEFINE m == Assemble(selected[w], db.mentions)
  <2>1. /\ db' = db /\ lease' = lease /\ fetched' = fetched
        /\ stage' = [stage EXCEPT ![w] = "loaded"]
        /\ memory' = [memory EXCEPT ![w] = m]
        /\ selected' = [selected EXCEPT ![w] = {}]
    BY <1>2 DEF SelectMentions
  <2>2. m \in MemoryType /\ Remembers(db, m)
    BY TornLoad DEF TypeOK, SelectedStored
  <2> HIDE DEF m
  <2>3. TypeOK'
    BY <2>1, <2>2 DEF TypeOK
  <2>4. SelectedStored'
    BY <2>1 DEF SelectedStored, TypeOK
  <2>5. MemoriesStored'
    BY <2>1, <2>2 DEF MemoriesStored, TypeOK
  <2> QED BY <2>1, <2>3, <2>4, <2>5
<1>3. ASSUME NEW w \in Workers, Acquire(w) PROVE WInv'
  <2>1. /\ db' = db /\ memory' = memory /\ selected' = selected /\ fetched' = fetched
        /\ stage[w] = "loaded"
        /\ stage' = [stage EXCEPT ![w] = "ingesting"]
        /\ lease' = lease \/ lease' = w
    BY <1>3 DEF Acquire
  <2>2. TypeOK'
    BY <2>1 DEF TypeOK
  <2> QED BY <2>1, <2>2 DEF SelectedStored, MemoriesStored
<1>4. ASSUME NEW w \in Workers, NEW i \in Envelopes, IgnoreDuplicate(w, i) PROVE WInv'
  <2>1. /\ db' = db /\ lease' = lease /\ stage' = stage /\ selected' = selected
        /\ memory' = memory /\ fetched' = fetched \cup {i}
    BY <1>4 DEF IgnoreDuplicate
  <2>2. TypeOK'
    BY <2>1 DEF TypeOK
  <2> QED BY <2>1, <2>2 DEF SelectedStored, MemoriesStored
<1>5. ASSUME NEW w \in Workers, NEW i \in Envelopes, Ingest(w, i) PROVE WInv'
  <2>1. /\ i \notin fetched /\ Accepts(db, i) /\ stage[w] = "ingesting"
        /\ lease' = lease /\ stage' = stage /\ selected' = selected
        /\ fetched' = fetched \cup {i}
    BY <1>5 DEF Ingest
  <2>2. PICK ev \in Proposals(memory[w], i, UsedIds) :
          /\ db' = Save(db, i, ev)
          /\ memory' = [memory EXCEPT ![w] = Published(memory[w], i, ev)]
    BY <1>5 DEF Ingest
  <2> DEFINE m == Published(memory[w], i, ev)
  <2>3. /\ m \in MemoryType
        /\ Sound(db') /\ IndexedItems(db') /\ Explained(db')
        /\ db'.raw = db.raw \cup {i}
        /\ Remembers(db', m)
        /\ \A x \in Workers : Remembers(db', memory[x])
        /\ \A e : VersionsOf(db, e) \subseteq VersionsOf(db', e)
    BY <2>1, <2>2, IngestSaves
  <2>4. memory' = [memory EXCEPT ![w] = m]
    BY <2>2
  <2> HIDE DEF m
  <2>5. TypeOK'
    <3>1. db' \in TablesType /\ memory' \in [Workers -> MemoryType]
      BY <2>3, <2>4 DEF Sound, TypeOK
    <3>2. \A x \in Workers :
            stage'[x] = "ended" => memory'[x] = EmptyMemory /\ lease' # x
      BY <2>1, <2>4 DEF TypeOK
    <3> QED BY <2>1, <3>1, <3>2 DEF TypeOK
  <2>6. SelectedStored'
    BY <2>1, <2>3 DEF SelectedStored
  <2>7. MemoriesStored'
    BY <2>3, <2>4 DEF MemoriesStored, TypeOK
  <2> QED BY <2>1, <2>3, <2>5, <2>6, <2>7
<1>6. ASSUME NEW w \in Workers,
             LeaseRefused(w) \/ Finish(w) \/ Die(w)
      PROVE  WInv'
  <2>1. End(w) /\ db' = db /\ fetched' = fetched
    BY <1>6 DEF LeaseRefused, Finish, Die
  <2> QED BY <2>1, EndKeepsWInv DEF TypeOK
<1>7. ASSUME NEW w \in Workers, NEW i \in Envelopes,
             KnownWithoutEvent(w, i) \/ IngestFails(w, i)
      PROVE  WInv'
  <2>1. End(w) /\ db' = db /\ fetched' = fetched \cup {i}
    BY <1>7 DEF KnownWithoutEvent, IngestFails
  <2> QED BY <2>1, EndKeepsWInv DEF TypeOK
<1>8. ASSUME DropLease PROVE WInv'
  <2>1. /\ db' = db /\ stage' = stage /\ selected' = selected
        /\ memory' = memory /\ fetched' = fetched /\ lease' = Nobody
    BY <1>8 DEF DropLease
  <2>2. TypeOK'
    BY <2>1, NobodyAssumption DEF TypeOK
  <2> QED BY <2>1, <2>2 DEF SelectedStored, MemoriesStored
<1>9. ASSUME UNCHANGED vars PROVE WInv'
  BY <1>9 DEF vars, TypeOK, SelectedStored, MemoriesStored
<1> QED BY <1>1, <1>2, <1>3, <1>4, <1>5, <1>6, <1>7, <1>8, <1>9 DEF Next

\* The strengthening holds in every reachable state.
THEOREM WorkersInvariant == Spec => []WInv
BY InitWInv, NextWInv, PTL DEF Spec

-----------------------------------------------------------------------------
(* The properties of the tables, for any number of workers.                *)

\* Tables, memories and stages keep their types, and an ended worker holds
\* neither memory nor lease (event_worker.py 16-38).
THEOREM WorkersTypeCorrect == Spec => []TypeOK
BY WorkersInvariant, PTL DEF WInv

\* However often an item is fetched and by whomever, it is stored once, as a
\* mention of one existing version (models.py 44).
THEOREM WorkersStoreOnce == Spec => []ItemsStoredOnce
<1>1. WInv => ItemsStoredOnce
  BY DEF WInv, Sound, Anchored, IndexedItems, ItemsStoredOnce
<1> QED BY <1>1, WorkersInvariant, PTL

\* However workers race, the versions of an event have no gap, for merge
\* replaces rows and never skips one (event_repository.py 178), and every
\* version has an item filed under it, whoever wrote its row.
THEOREM WorkersExplain == Spec => []VersionsExplained
<1>1. WInv => VersionsExplained
  BY DEF WInv, Sound, Explained, VersionsExplained
<1> QED BY <1>1, WorkersInvariant, PTL

-----------------------------------------------------------------------------
(* Stale memory is the only danger.                                        *)

\* Only an ingest changes tables and a memory in one step, its own worker's.
LEMMA OnlyIngestWrites ==
  ASSUME WInv, Next, NEW w \in Workers, db' # db, memory'[w] # memory[w]
  PROVE  \E i \in Envelopes : Ingest(w, i)
<1>1. PICK x \in Workers, i \in Envelopes : Ingest(x, i)
  BY DEF Next, SelectRows, SelectMentions, Acquire, LeaseRefused,
         IgnoreDuplicate, KnownWithoutEvent, IngestFails, Finish, Die, DropLease
<1>2. \E ev : memory' = [memory EXCEPT ![x] = Published(@, i, ev)]
  BY <1>1 DEF Ingest
<1>3. x = w
  BY <1>2 DEF WInv, TypeOK
<1> QED BY <1>1, <1>3

\* Avoiding more ids than those of the rows leaves fewer proposals.
LEMMA FewerProposals ==
  ASSUME NEW m, NEW i, NEW used, NEW more, used \subseteq more
  PROVE  Proposals(m, i, more) \subseteq Proposals(m, i, used)
BY DEF Proposals

\* An ingest decided on the tables' own memory is a commit of the log.
LEMMA FreshIngestIsLogged ==
  ASSUME WInv, NEW w \in Workers, memory[w] = LoadState(db),
         NEW i \in Envelopes, Ingest(w, i)
  PROVE  LogCommit(i) /\ memory'[w] = LoadState(db')
<1>1. PICK ev \in Proposals(memory[w], i, UsedIds) :
        /\ db' = Save(db, i, ev)
        /\ memory' = [memory EXCEPT ![w] = Published(memory[w], i, ev)]
  BY DEF Ingest
<1>2. Proposed(db, i, ev)
  <2>1. {r.id : r \in db.rows} \subseteq UsedIds
    BY DEF UsedIds
  <2>2. ev \in Proposals(LoadState(db), i, {r.id : r \in db.rows})
    BY <1>1, <2>1, FewerProposals
  <2> QED BY <2>2 DEF Ingest, Proposed
<1>3. LoadState(db') = Published(LoadState(db), i, ev)
  BY <1>1, <1>2, SaveIsPublished DEF WInv
<1>4. memory'[w] = Published(memory[w], i, ev)
  BY <1>1 DEF WInv, TypeOK
<1>5. Accepts(db, i)
  BY DEF Ingest
<1> QED BY <1>1, <1>2, <1>3, <1>4, <1>5, CommitIsProposed

\* A worker whose memory is that of the tables when it ingests only appends,
\* and its memory is that of the tables again (service.py 108-164).
THEOREM FreshMemoryAppends == Spec => FreshWorkerAppends
<1>1. ASSUME WInv, Next, NEW w \in Workers,
             memory[w] = LoadState(db), db' # db, memory'[w] # memory[w]
      PROVE  HistoryKept(db, db') /\ memory'[w] = LoadState(db')
  <2>1. PICK i \in Envelopes : Ingest(w, i)
    BY <1>1, OnlyIngestWrites
  <2>2. LogCommit(i) /\ memory'[w] = LoadState(db')
    BY <1>1, <2>1, FreshIngestIsLogged
  <2>3. HistoryKept(db, db')
    BY <1>1, <2>2, CommitIsProposed, SaveKeepsHistory DEF WInv
  <2> QED BY <2>2, <2>3
<1>2. WInv /\ [Next]_vars =>
        [\A w \in Workers :
           (memory[w] = LoadState(db) /\ db' # db /\ memory'[w] # memory[w]) =>
             HistoryKept(db, db') /\ memory'[w] = LoadState(db')]_vars
  BY <1>1
<1> QED BY <1>2, WorkersInvariant, PTL DEF Spec, FreshWorkerAppends

-----------------------------------------------------------------------------
(* The lease.                                                              *)

\* A worker that ingests holds the lease.
IngestingHoldsLease == \A w \in Workers : stage[w] = "ingesting" => lease = w

\* The lease moves only from nobody to a worker that loaded, and from a
\* worker to nobody when that worker ends.
LEMMA LeaseKept ==
  ASSUME LeaseEnforced, ~LeaseMayDrop, TypeOK, IngestingHoldsLease, [Next]_vars
  PROVE  IngestingHoldsLease'
<1>1. ASSUME NEW w \in Workers, End(w) PROVE IngestingHoldsLease'
  <2>1. /\ stage' = [stage EXCEPT ![w] = "ended"]
        /\ lease' = IF lease = w THEN Nobody ELSE lease
    BY <1>1 DEF End
  <2>2. stage \in [Workers -> {"ended", "selecting", "loaded", "ingesting"}]
    BY DEF TypeOK
  <2> QED BY <2>1, <2>2 DEF IngestingHoldsLease
<1>2. ASSUME NEW w \in Workers, Acquire(w) PROVE IngestingHoldsLease'
  <2>1. /\ lease = Nobody /\ lease' = w
        /\ stage' = [stage EXCEPT ![w] = "ingesting"]
    BY <1>2 DEF Acquire
  <2> QED BY <2>1, NobodyAssumption DEF IngestingHoldsLease, TypeOK
<1>3. ASSUME NEW w \in Workers, SelectRows(w) \/ SelectMentions(w)
      PROVE  IngestingHoldsLease'
  BY <1>3 DEF SelectRows, SelectMentions, IngestingHoldsLease, TypeOK
<1>4. ASSUME NEW w \in Workers, NEW i \in Envelopes,
             IgnoreDuplicate(w, i) \/ Ingest(w, i)
      PROVE  IngestingHoldsLease'
  BY <1>4 DEF IgnoreDuplicate, Ingest, IngestingHoldsLease
<1>5. ASSUME UNCHANGED vars PROVE IngestingHoldsLease'
  BY <1>5 DEF vars, IngestingHoldsLease
<1> QED BY <1>1, <1>2, <1>3, <1>4, <1>5
        DEF Next, LeaseRefused, KnownWithoutEvent, IngestFails, Finish, Die, DropLease

\* Where the database has advisory locks and the lease connection lasts as
\* long as its worker, at most one worker ingests (locks.py 10-25).
THEOREM LeaseExcludes ==
  ASSUME LeaseEnforced, ~LeaseMayDrop
  PROVE  Spec => []OneActiveWorker
<1>1. Init => IngestingHoldsLease
  BY DEF Init, IngestingHoldsLease
<1>2. TypeOK /\ IngestingHoldsLease /\ [Next]_vars => IngestingHoldsLease'
  BY LeaseKept
<1>3. IngestingHoldsLease => OneActiveWorker
  BY DEF IngestingHoldsLease, OneActiveWorker
<1> QED BY <1>1, <1>2, <1>3, WorkersTypeCorrect, PTL DEF Spec

-----------------------------------------------------------------------------
(* One worker.                                                             *)

\* What a worker has read so far is still what the tables hold.
ReadsCurrent ==
  \A w \in Workers :
    /\ stage[w] = "selecting" => selected[w] = LatestRows(db)
    /\ stage[w] \in {"loaded", "ingesting"} => memory[w] = LoadState(db)

\* A worker that is alone reads and keeps what the tables hold; its ingests
\* are commits of the log, and nothing else writes.
LEMMA SoleWorkerStep ==
  ASSUME \A v, w \in Workers : v = w, WInv, ReadsCurrent, [Next]_vars
  PROVE  ReadsCurrent' /\ [LogNext]_db
<1>0. /\ stage \in [Workers -> {"ended", "selecting", "loaded", "ingesting"}]
      /\ selected \in [Workers -> SUBSET RowType]
      /\ memory \in [Workers -> MemoryType]
  BY DEF WInv, TypeOK
<1>1. ASSUME NEW w \in Workers, SelectRows(w)
      PROVE  ReadsCurrent' /\ db' = db
  BY <1>0, <1>1 DEF SelectRows, ReadsCurrent
<1>2. ASSUME NEW w \in Workers, SelectMentions(w)
      PROVE  ReadsCurrent' /\ db' = db
  <2>1. Assemble(selected[w], db.mentions) = LoadState(db)
    BY <1>2 DEF SelectMentions, ReadsCurrent, LoadState
  <2> QED BY <1>0, <1>2, <2>1 DEF SelectMentions, ReadsCurrent
<1>3. ASSUME NEW w \in Workers, Acquire(w)
      PROVE  ReadsCurrent' /\ db' = db
  BY <1>0, <1>3 DEF Acquire, ReadsCurrent
<1>4. ASSUME NEW w \in Workers, End(w), db' = db
      PROVE  ReadsCurrent'
  BY <1>0, <1>4 DEF End, ReadsCurrent
<1>5. ASSUME NEW w \in Workers, NEW i \in Envelopes, IgnoreDuplicate(w, i)
      PROVE  ReadsCurrent' /\ db' = db
  BY <1>5 DEF IgnoreDuplicate, ReadsCurrent
<1>6. ASSUME NEW w \in Workers, NEW i \in Envelopes, Ingest(w, i)
      PROVE  ReadsCurrent' /\ LogNext
  <2>1. stage[w] = "ingesting" /\ stage' = stage /\ selected' = selected
    BY <1>6 DEF Ingest
  <2>2. memory[w] = LoadState(db)
    BY <2>1 DEF ReadsCurrent
  <2>3. LogCommit(i) /\ memory'[w] = LoadState(db')
    BY <1>6, <2>2, FreshIngestIsLogged
  <2> QED BY <2>1, <2>3 DEF ReadsCurrent, LogNext
<1>7. ASSUME DropLease \/ UNCHANGED vars
      PROVE  ReadsCurrent' /\ db' = db
  BY <1>7 DEF DropLease, vars, ReadsCurrent
<1> QED BY <1>1, <1>2, <1>3, <1>4, <1>5, <1>6, <1>7
        DEF Next, LeaseRefused, KnownWithoutEvent, IngestFails, Finish, Die

\* A process that is the only one ever to ingest, however often it fails and
\* starts again and whatever becomes of its lease, implements the log.
THEOREM SoleWorkerLogs ==
  ASSUME \A v, w \in Workers : v = w
  PROVE  Spec => LogSpec
<1>1. Init => LogInit /\ ReadsCurrent
  BY DEF Init, LogInit, ReadsCurrent
<1>2. WInv /\ ReadsCurrent /\ [Next]_vars => ReadsCurrent' /\ [LogNext]_db
  BY SoleWorkerStep
<1> QED BY <1>1, <1>2, WorkersInvariant, PTL DEF Spec, LogSpec

\* So the tables of one worker are append-only, as the README says of any.
THEOREM SoleWorkerAppends ==
  ASSUME \A v, w \in Workers : v = w
  PROVE  Spec => AppendOnlyVersions
<1>1. Spec => LogSpec
  BY SoleWorkerLogs
<1>2. [/\ HistoryKept(db, db')
       /\ db.raw \subseteq db'.raw
       /\ db.mentions \subseteq db'.mentions]_db
      => [HistoryKept(db, db')]_vars
  BY DEF vars, HistoryKept
<1> QED BY <1>1, <1>2, LogOnlyGrows, PTL DEF AppendOnlyVersions

\* They are a history in which each identity is recorded once.
THEOREM SoleWorkerImplementsHistory ==
  ASSUME \A v, w \in Workers : v = w
  PROVE  Spec => History!Spec
BY SoleWorkerLogs, LogImplementsHistory, PTL

\* And each identity its memory knows leads to an event: no redelivery ends
\* it with a KeyError (service.py 113), as a torn load may.
NeverLost ==
  \A w \in Workers :
    stage[w] = "ingesting" =>
      \A x \in memory[w].items : \E ev \in memory[w].events : ev.id = x.event

THEOREM SoleWorkerFindsEvents ==
  ASSUME \A v, w \in Workers : v = w
  PROVE  Spec => []NeverLost
<1>1. Init => ReadsCurrent
  BY DEF Init, ReadsCurrent
<1>2. WInv /\ ReadsCurrent /\ [Next]_vars => ReadsCurrent'
  BY SoleWorkerStep
<1>3. WInv /\ ReadsCurrent => NeverLost
  BY LoadedMemory DEF WInv, ReadsCurrent, NeverLost
<1> QED BY <1>1, <1>2, <1>3, WorkersInvariant, PTL DEF Spec
=============================================================================
