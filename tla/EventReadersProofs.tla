------------------------- MODULE EventReadersProofs -------------------------
(***************************************************************************)
(* What the API serves about events, for any number of requests and any    *)
(* interleaving of their SELECTs and assignments with commits.             *)
(***************************************************************************)
EXTENDS EventReaders, EventStoreProofs, TLAPS

-----------------------------------------------------------------------------
(* The inductive invariant.                                                *)

\* The row of an event version.
RowsAt(d, t) == {x \in d.rows : x.id = t.event /\ x.version = t.version}

\* A committed version with all its mentions, and mentions of its event only.
Complete(d, ev) ==
  /\ Row(ev) \in d.rows
  /\ MentionsAt(d, ev.id, ev.version) \subseteq ev.mentions
  /\ \A i \in ev.mentions : \E x \in d.mentions : x.item = i /\ x.event = ev.id

\* The service, what refreshes have built and what requests have answered.
HeldComplete ==
  /\ \A ev \in events : Complete(db, ev)
  /\ \A ev \in versions : Complete(db, ev)
  /\ \A r \in Requests : \A ev \in loaded[r] : Complete(db, ev)
  /\ \A r \in Requests :
       answer[r] # None => \A ev \in answer[r] : Complete(db, ev)

\* Rows between the two SELECTs, and events between the assignments.
Reading ==
  \A r \in Requests :
    /\ rows[r] \subseteq db.rows
    /\ stage[r] = "version row" =>
         asked[r] \in Target /\ rows[r] = RowsAt(db, asked[r]) /\ rows[r] # {}

RInv ==
  /\ TypeOK
  /\ Sound(db)
  /\ HeldComplete
  /\ Reading

-----------------------------------------------------------------------------
(* The operators.                                                          *)

\* A row with mentions is an event, and the row is read back from it.
LEMMA RowOfEvent ==
  ASSUME NEW x \in RowType, NEW ms \in SUBSET Envelopes
  PROVE  /\ WithMentions(x, ms) \in EventType
         /\ Row(WithMentions(x, ms)) = x
         /\ WithMentions(x, ms).id = x.id
         /\ WithMentions(x, ms).version = x.version
         /\ WithMentions(x, ms).mentions = ms
BY DEF WithMentions, RowType, EventType, Row

\* A row and what is filed under its event by then are a complete version.
LEMMA AssembledComplete ==
  ASSUME NEW d, d \in TablesType, NEW x \in d.rows, NEW ms,
         MentionsAt(d, x.id, x.version) \subseteq ms, ms \subseteq MentionsOf(d, x.id)
  PROVE  /\ WithMentions(x, ms) \in EventType
         /\ Complete(d, WithMentions(x, ms))
<1>1. x \in RowType /\ ms \in SUBSET Envelopes
  BY DEF TablesType, MentionsOf
<1>2. \A i \in ms : \E y \in d.mentions : y.item = i /\ y.event = x.id
  BY DEF MentionsOf
<1> QED BY <1>1, <1>2, RowOfEvent DEF Complete

\* A commit adds a version above the stored ones of its event, and a mention
\* of it.
LEMMA CommitAppends ==
  ASSUME NEW d, Sound(d), NEW i \in Envelopes, NEW ev, Proposed(d, i, ev)
  PROVE  LET d2 == Save(d, i, ev)
         IN  /\ Sound(d2)
             /\ d.rows \subseteq d2.rows /\ d.mentions \subseteq d2.mentions
             /\ \A t : RowsAt(d, t) # {} => RowsAt(d2, t) = RowsAt(d, t)
             /\ \A e : Complete(d, e) => Complete(d2, e)
<1> DEFINE x  == [item |-> i, event |-> ev.id, version |-> ev.version]
           d2 == Save(d, i, ev)
<1>1. Sound(d2)
  BY SaveKeepsSound
<1>2. d2 = [raw |-> d.raw \cup {i}, rows |-> d.rows \cup {Row(ev)},
            mentions |-> d.mentions \cup {x}]
  BY SaveInserts
<1>3. d2.rows = d.rows \cup {Row(ev)} /\ d2.mentions = d.mentions \cup {x}
  BY <1>2
<1>4. /\ Row(ev).id = ev.id /\ Row(ev).version = ev.version
      /\ x.item = i /\ x.event = ev.id /\ x.version = ev.version
  BY DEF Row
<1>5. /\ ev.version \in Nat
      /\ \A r \in d.rows : r.version \in Nat /\ (r.id = ev.id => r.version < ev.version)
  BY ProposalIsNewest DEF Sound, TablesType, RowType
<1> HIDE DEF d2, x
<1>6. ASSUME NEW t, RowsAt(d, t) # {} PROVE RowsAt(d2, t) = RowsAt(d, t)
  <2>1. PICK r \in d.rows : r.id = t.event /\ r.version = t.version
    BY <1>6 DEF RowsAt
  <2>2. ~ (ev.id = t.event /\ ev.version = t.version)
    BY <1>5, <2>1
  <2> QED BY <1>3, <1>4, <2>2 DEF RowsAt
<1>7. ASSUME NEW e, Complete(d, e) PROVE Complete(d2, e)
  <2>1. Row(e) \in d.rows /\ Row(e).id = e.id /\ Row(e).version = e.version
    BY <1>7 DEF Complete, Row
  <2>2. ~ (x.event = e.id /\ x.version <= e.version)
    BY <1>4, <1>5, <2>1
  <2>3. MentionsAt(d2, e.id, e.version) = MentionsAt(d, e.id, e.version)
    BY <1>3, <2>2 DEF MentionsAt
  <2> QED BY <1>3, <1>7, <2>3 DEF Complete
<1> QED BY <1>1, <1>3, <1>6, <1>7 DEF d2

-----------------------------------------------------------------------------
(* The invariant is kept.                                                  *)

\* The tables are empty, nothing is held and nobody asks.
LEMMA InitRInv == Init => RInv
<1> SUFFICES ASSUME Init PROVE RInv
  OBVIOUS
<1> USE DEF Init
<1>1. Sound(db)
  BY EmptyIsSound
<1>2. TypeOK
  BY <1>1 DEF TypeOK, Sound, Stages
<1>3. HeldComplete /\ Reading
  BY DEF EmptyTables, HeldComplete, Reading
<1> QED BY <1>1, <1>2, <1>3 DEF RInv

\* A commit leaves what is held complete.
LEMMA CommitKeepsRInv ==
  ASSUME RInv, NEW i \in Envelopes, Commit(i)
  PROVE  RInv'
<1>1. PICK ev : Proposed(db, i, ev) /\ db' = Save(db, i, ev)
  BY CommitIsProposed DEF Commit
<1>2. /\ events' = events /\ versions' = versions /\ stage' = stage /\ rows' = rows
      /\ loaded' = loaded /\ asked' = asked /\ since' = since /\ answer' = answer
  BY DEF Commit
<1>3. /\ Sound(db') /\ db.rows \subseteq db'.rows
      /\ \A t : RowsAt(db, t) # {} => RowsAt(db', t) = RowsAt(db, t)
      /\ \A e : Complete(db, e) => Complete(db', e)
  BY <1>1, CommitAppends DEF RInv
<1>4. TypeOK'
  BY <1>2, <1>3 DEF RInv, TypeOK, Sound
<1>5. HeldComplete'
  BY <1>2, <1>3 DEF RInv, HeldComplete
<1>6. Reading'
  BY <1>2, <1>3 DEF RInv, Reading
<1> QED BY <1>3, <1>4, <1>5, <1>6 DEF RInv

\* A refresh assembles and installs complete versions.
LEMMA RefreshKeepsRInv ==
  ASSUME RInv, NEW r \in Requests,
         \/ SelectRows(r) \/ SelectMentions(r) \/ InstallEvents(r)
         \/ InstallVersions(r) \/ AnswerEvents(r)
  PROVE  RInv'
<1>0. /\ TypeOK /\ Sound(db) /\ Keyed(db) /\ HeldComplete /\ Reading
      /\ db \in TablesType
  BY DEF RInv, Sound
<1>a. /\ stage \in [Requests -> Stages] /\ rows \in [Requests -> SUBSET RowType]
      /\ loaded \in [Requests -> SUBSET EventType]
      /\ asked \in [Requests -> Target \cup {None}]
      /\ answer \in [Requests -> (SUBSET EventType) \cup {None}]
      /\ since \in [Requests -> SUBSET EventType]
  BY <1>0 DEF TypeOK
<1>1. ASSUME SelectRows(r) PROVE RInv'
  <2>1. /\ stage' = [stage EXCEPT ![r] = "selected"]
        /\ rows' = [rows EXCEPT ![r] = LatestRows(db)]
        /\ since' = [since EXCEPT ![r] = CurrentEvents]
        /\ db' = db /\ events' = events /\ versions' = versions
        /\ loaded' = loaded /\ asked' = asked /\ answer' = answer
    BY <1>1 DEF SelectRows
  <2>2. LatestRows(db) \subseteq db.rows /\ LatestRows(db) \in SUBSET RowType
    BY <1>0 DEF LatestRows, TablesType
  <2>3. CurrentEvents \in SUBSET EventType
    BY <1>0, LoadedType DEF CurrentEvents, MemoryType
  <2>4. \A x, y \in LatestRows(db) : x.id = y.id => x = y
    BY <1>0, LatestKeyed
  <2>5. TypeOK'
    BY <1>0, <1>a, <2>1, <2>2, <2>3, <2>4 DEF TypeOK, Stages
  <2>6. HeldComplete'
    BY <1>0, <2>1 DEF HeldComplete
  <2>7. Reading'
    BY <1>0, <1>a, <2>1, <2>2 DEF Reading
  <2> QED BY <1>0, <2>1, <2>5, <2>6, <2>7 DEF RInv
<1>2. ASSUME SelectMentions(r) PROVE RInv'
  <2> DEFINE built == Assemble(rows[r], db.mentions).events
  <2>1. /\ stage[r] = "selected"
        /\ stage' = [stage EXCEPT ![r] = "assembled"]
        /\ loaded' = [loaded EXCEPT ![r] = built]
        /\ rows' = [rows EXCEPT ![r] = {}]
        /\ db' = db /\ events' = events /\ versions' = versions
        /\ asked' = asked /\ since' = since /\ answer' = answer
    BY <1>2 DEF SelectMentions
  <2>2. built = {WithMentions(x, MentionsOf(db, x.id)) : x \in rows[r]}
    BY DEF Assemble, MentionsOf
  <2> HIDE DEF built
  <2>3. rows[r] \subseteq db.rows /\ \A x, y \in rows[r] : x.id = y.id => x = y
    BY <1>0, <2>1 DEF Reading, TypeOK
  <2>4. ASSUME NEW ev \in built
        PROVE  ev \in EventType /\ Complete(db, ev)
    <3>1. PICK x \in rows[r] : ev = WithMentions(x, MentionsOf(db, x.id))
      BY <2>2, <2>4
    <3>2. MentionsAt(db, x.id, x.version) \subseteq MentionsOf(db, x.id)
      BY DEF MentionsAt, MentionsOf
    <3> QED BY <1>0, <2>3, <3>1, <3>2, AssembledComplete
  <2>5. \A a, b \in built : a.id = b.id => a = b
    BY <2>2, <2>3 DEF WithMentions
  <2>6. TypeOK'
    BY <1>0, <1>a, <2>1, <2>4, <2>5 DEF TypeOK, Stages
  <2>7. HeldComplete'
    BY <1>0, <1>a, <2>1, <2>4 DEF HeldComplete
  <2>8. Reading'
    BY <1>0, <1>a, <2>1 DEF Reading
  <2> QED BY <1>0, <2>1, <2>6, <2>7, <2>8 DEF RInv
<1>3. ASSUME InstallEvents(r) PROVE RInv'
  <2>1. /\ stage' = [stage EXCEPT ![r] = "installing"] /\ events' = loaded[r]
        /\ db' = db /\ versions' = versions /\ rows' = rows /\ loaded' = loaded
        /\ asked' = asked /\ since' = since /\ answer' = answer
    BY <1>3 DEF InstallEvents
  <2>2. TypeOK'
    BY <1>0, <1>a, <2>1 DEF TypeOK, Stages, Reading
  <2>3. HeldComplete'
    BY <1>0, <2>1 DEF HeldComplete
  <2>4. Reading'
    BY <1>0, <1>a, <2>1 DEF Reading
  <2> QED BY <1>0, <2>1, <2>2, <2>3, <2>4 DEF RInv
<1>4. ASSUME InstallVersions(r) PROVE RInv'
  <2>1. /\ stage' = [stage EXCEPT ![r] = "refreshed"] /\ versions' = loaded[r]
        /\ loaded' = [loaded EXCEPT ![r] = {}]
        /\ db' = db /\ events' = events /\ rows' = rows
        /\ asked' = asked /\ since' = since /\ answer' = answer
    BY <1>4 DEF InstallVersions
  <2>2. TypeOK'
    BY <1>0, <1>a, <2>1 DEF TypeOK, Stages, Reading
  <2>3. HeldComplete'
    BY <1>0, <1>a, <2>1 DEF HeldComplete
  <2>4. Reading'
    BY <1>0, <1>a, <2>1 DEF Reading
  <2> QED BY <1>0, <2>1, <2>2, <2>3, <2>4 DEF RInv
<1>5. ASSUME AnswerEvents(r) PROVE RInv'
  <2>1. /\ stage' = [stage EXCEPT ![r] = "listed"]
        /\ answer' = [answer EXCEPT ![r] = events]
        /\ db' = db /\ events' = events /\ versions' = versions /\ rows' = rows
        /\ loaded' = loaded /\ asked' = asked /\ since' = since
    BY <1>5 DEF AnswerEvents
  <2>2. TypeOK'
    BY <1>0, <1>a, <2>1 DEF TypeOK, Stages
  <2>3. HeldComplete'
    BY <1>0, <1>a, <2>1 DEF HeldComplete
  <2>4. Reading'
    BY <1>0, <1>a, <2>1 DEF Reading
  <2> QED BY <1>0, <2>1, <2>2, <2>3, <2>4 DEF RInv
<1> QED BY <1>1, <1>2, <1>3, <1>4, <1>5

\* What the second SELECT makes of the row of a version is the version.
LEMMA VersionRead ==
  ASSUME RInv, NEW r \in Requests, stage[r] = "version row"
  PROVE  LET t     == asked[r]
             found == {WithMentions(x, MentionsAt(db, t.event, t.version)) :
                         x \in rows[r]}
         IN  /\ found = LoadEventVersion(db, t.event, t.version)
             /\ \A ev \in found : /\ ev \in EventType /\ Complete(db, ev)
                                  /\ ev.id = t.event /\ ev.version = t.version
             /\ \A a, b \in found : a = b
<1> DEFINE t == asked[r]
           found == {WithMentions(x, MentionsAt(db, t.event, t.version)) :
                       x \in rows[r]}
<1>1. t \in Target /\ rows[r] = RowsAt(db, t) /\ db \in TablesType /\ Keyed(db)
  BY DEF RInv, Reading, Sound
<1> HIDE DEF t
<1>2. found = LoadEventVersion(db, t.event, t.version)
  BY <1>1 DEF LoadEventVersion, RowsAt
<1>3. ASSUME NEW x \in rows[r]
      PROVE  LET ev == WithMentions(x, MentionsAt(db, t.event, t.version))
             IN  /\ ev \in EventType /\ Complete(db, ev)
                 /\ ev.id = t.event /\ ev.version = t.version
  <2>1. x \in db.rows /\ x.id = t.event /\ x.version = t.version
    BY <1>1, <1>3 DEF RowsAt
  <2>2. MentionsAt(db, x.id, x.version) \subseteq MentionsOf(db, x.id)
    BY DEF MentionsAt, MentionsOf
  <2> QED BY <1>1, <2>1, <2>2, AssembledComplete DEF WithMentions
<1>4. \A x, y \in rows[r] : x = y
  BY <1>1 DEF RowsAt, Keyed
<1> QED BY <1>2, <1>3, <1>4 DEF t

\* A version is answered from the cache or read, and kept.
LEMMA VersionKeepsRInv ==
  ASSUME RInv, NEW r \in Requests,
         \/ \E t \in Target : AnswerCached(r, t) \/ SelectVersionRow(r, t)
         \/ SelectVersionMentions(r) \/ Release(r)
  PROVE  RInv'
<1>0. /\ TypeOK /\ Sound(db) /\ Keyed(db) /\ HeldComplete /\ Reading
      /\ db \in TablesType
  BY DEF RInv, Sound
<1>a. /\ stage \in [Requests -> Stages] /\ rows \in [Requests -> SUBSET RowType]
      /\ loaded \in [Requests -> SUBSET EventType]
      /\ asked \in [Requests -> Target \cup {None}]
      /\ answer \in [Requests -> (SUBSET EventType) \cup {None}]
      /\ since \in [Requests -> SUBSET EventType]
      /\ versions \in SUBSET EventType
  BY <1>0 DEF TypeOK
<1>1. ASSUME NEW t \in Target, AnswerCached(r, t) PROVE RInv'
  <2>1. /\ stage' = [stage EXCEPT ![r] = "versioned"]
        /\ asked' = [asked EXCEPT ![r] = t]
        /\ answer' = [answer EXCEPT ![r] = Cached(t)]
        /\ db' = db /\ events' = events /\ versions' = versions /\ rows' = rows
        /\ loaded' = loaded /\ since' = since
    BY <1>1 DEF AnswerCached
  <2>2. Cached(t) \subseteq versions
    BY DEF Cached
  <2>3. TypeOK'
    BY <1>0, <1>a, <2>1, <2>2 DEF TypeOK, Stages
  <2>4. HeldComplete'
    BY <1>0, <1>a, <2>1, <2>2 DEF HeldComplete
  <2>5. Reading'
    BY <1>0, <1>a, <2>1 DEF Reading
  <2> QED BY <1>0, <2>1, <2>3, <2>4, <2>5 DEF RInv
<1>2. ASSUME NEW t \in Target, SelectVersionRow(r, t) PROVE RInv'
  <2>1. /\ asked' = [asked EXCEPT ![r] = t]
        /\ rows' = [rows EXCEPT ![r] = RowsAt(db, t)]
        /\ db' = db /\ events' = events /\ versions' = versions
        /\ loaded' = loaded /\ since' = since
    BY <1>2 DEF SelectVersionRow, RowsAt
  <2>2. /\ RowsAt(db, t) \subseteq db.rows /\ RowsAt(db, t) \in SUBSET RowType
        /\ \A x, y \in RowsAt(db, t) : x.id = y.id => x = y
    BY <1>0 DEF RowsAt, TablesType, Keyed
  <2>3. CASE RowsAt(db, t) = {}
    <3>1. /\ stage' = [stage EXCEPT ![r] = "versioned"]
          /\ answer' = [answer EXCEPT ![r] = {}]
      BY <1>2, <2>3 DEF SelectVersionRow, RowsAt
    <3>2. TypeOK'
      BY <1>0, <1>a, <2>1, <2>2, <3>1 DEF TypeOK, Stages
    <3>3. HeldComplete'
      BY <1>0, <1>a, <2>1, <3>1 DEF HeldComplete
    <3>4. Reading'
      BY <1>0, <1>a, <2>1, <2>2, <3>1 DEF Reading
    <3> QED BY <1>0, <2>1, <3>2, <3>3, <3>4 DEF RInv
  <2>4. CASE RowsAt(db, t) # {}
    <3>1. /\ stage' = [stage EXCEPT ![r] = "version row"]
          /\ answer' = answer
      BY <1>2, <2>4 DEF SelectVersionRow, RowsAt
    <3>2. TypeOK'
      BY <1>0, <1>a, <2>1, <2>2, <3>1 DEF TypeOK, Stages
    <3>3. HeldComplete'
      BY <1>0, <2>1, <3>1 DEF HeldComplete
    <3>4. Reading'
      BY <1>0, <1>a, <2>1, <2>2, <2>4, <3>1 DEF Reading
    <3> QED BY <1>0, <2>1, <3>2, <3>3, <3>4 DEF RInv
  <2> QED BY <2>3, <2>4
<1>3. ASSUME SelectVersionMentions(r) PROVE RInv'
  <2> DEFINE t == asked[r]
             found == {WithMentions(x, MentionsAt(db, t.event, t.version)) :
                         x \in rows[r]}
  <2>1. /\ stage[r] = "version row"
        /\ stage' = [stage EXCEPT ![r] = "versioned"]
        /\ answer' = [answer EXCEPT ![r] = found]
        /\ versions' = (versions \ Cached(t)) \cup found
        /\ rows' = [rows EXCEPT ![r] = {}]
        /\ db' = db /\ events' = events /\ loaded' = loaded
        /\ asked' = asked /\ since' = since
    BY <1>3 DEF SelectVersionMentions
  <2>2. /\ \A ev \in found : /\ ev \in EventType /\ Complete(db, ev)
                             /\ ev.id = t.event /\ ev.version = t.version
        /\ \A a, b \in found : a = b
    BY <2>1, VersionRead
  <2> HIDE DEF found, t
  <2>3. \A a, b \in versions' : a.id = b.id /\ a.version = b.version => a = b
    BY <1>0, <2>1, <2>2 DEF Cached, TypeOK
  <2>4. versions' \in SUBSET EventType
    BY <1>a, <2>1, <2>2
  <2>5. TypeOK'
    BY <1>0, <1>a, <2>1, <2>2, <2>3, <2>4 DEF TypeOK, Stages
  <2>6. HeldComplete'
    BY <1>0, <1>a, <2>1, <2>2 DEF HeldComplete
  <2>7. Reading'
    BY <1>0, <1>a, <2>1 DEF Reading
  <2> QED BY <1>0, <2>1, <2>5, <2>6, <2>7 DEF RInv
<1>4. ASSUME Release(r) PROVE RInv'
  <2>1. /\ stage' = [stage EXCEPT ![r] = "idle"] /\ rows' = [rows EXCEPT ![r] = {}]
        /\ since' = [since EXCEPT ![r] = {}] /\ asked' = [asked EXCEPT ![r] = None]
        /\ answer' = [answer EXCEPT ![r] = None]
        /\ db' = db /\ events' = events /\ versions' = versions /\ loaded' = loaded
    BY <1>4 DEF Release
  <2>2. TypeOK'
    BY <1>0, <1>a, <2>1 DEF TypeOK, Stages
  <2>3. HeldComplete'
    BY <1>0, <1>a, <2>1 DEF HeldComplete
  <2>4. Reading'
    BY <1>0, <1>a, <2>1 DEF Reading
  <2> QED BY <1>0, <2>1, <2>2, <2>3, <2>4 DEF RInv
<1> QED BY <1>1, <1>2, <1>3, <1>4

\* Every step keeps the invariant.
LEMMA NextRInv == RInv /\ [Next]_vars => RInv'
<1> SUFFICES ASSUME RInv, [Next]_vars PROVE RInv'
  OBVIOUS
<1>1. CASE UNCHANGED vars
  BY <1>1 DEF vars, RInv, TypeOK, HeldComplete, Reading
<1> QED BY <1>1, CommitKeepsRInv, RefreshKeepsRInv, VersionKeepsRInv DEF Next, Serve

\* The strengthening holds in every reachable state.
THEOREM ReadersInvariant == Spec => []RInv
BY InitRInv, NextRInv, PTL DEF Spec

-----------------------------------------------------------------------------
(* The properties.                                                         *)

\* Tables, caches and requests keep their shapes, and each cache its keys
\* (service.py 59-84, 173-189).
THEOREM ReadersTypeCorrect == Spec => []TypeOK
BY ReadersInvariant, PTL DEF RInv

\* Whatever the API holds or answers is a committed version with all of its
\* mentions (event_repository.py 61-108, service.py 70-84).
THEOREM NothingMissing == Spec => []ServedVersionsComplete
<1>1. RInv => ServedVersionsComplete
  <2> SUFFICES ASSUME RInv, NEW ev \in Served PROVE Complete(db, ev)
    BY DEF ServedVersionsComplete, Complete
  <2> QED BY DEF RInv, HeldComplete, Served
<1> QED BY <1>1, ReadersInvariant, PTL

\* What load_event_version returns is the version as it was recorded
\* (event_repository.py 110-140).
THEOREM HistoryReadExactly == Spec => HistoricalReadsExact
<1>1. ASSUME RInv, Next, NEW r \in Requests,
             stage[r] = "version row", stage'[r] = "versioned"
      PROVE  answer'[r] = LoadEventVersion(db, asked[r].event, asked[r].version)
  <2>1. stage \in [Requests -> Stages] /\ answer \in [Requests -> (SUBSET EventType) \cup {None}]
    BY <1>1 DEF RInv, TypeOK
  <2>2. CASE SelectVersionMentions(r)
    BY <1>1, <2>1, <2>2, VersionRead DEF SelectVersionMentions
  <2>3. CASE ~SelectVersionMentions(r)
    <3>1. ASSUME NEW i \in Envelopes, Commit(i) PROVE FALSE
      BY <1>1, <3>1 DEF Commit
    <3>2. ASSUME NEW q \in Requests, SelectRows(q) PROVE FALSE
      BY <1>1, <2>1, <3>2 DEF SelectRows
    <3>3. ASSUME NEW q \in Requests, NEW t \in Target, AnswerCached(q, t) PROVE FALSE
      BY <1>1, <2>1, <3>3 DEF AnswerCached
    <3>4. ASSUME NEW q \in Requests, NEW t \in Target, SelectVersionRow(q, t) PROVE FALSE
      <4>1. stage[q] = "idle" /\ stage' \in {[stage EXCEPT ![q] = "versioned"],
                                            [stage EXCEPT ![q] = "version row"]}
        BY <3>4 DEF SelectVersionRow
      <4> QED BY <1>1, <2>1, <4>1
    <3>5. ASSUME NEW q \in Requests, Serve(q) PROVE FALSE
      <4>1. CASE SelectVersionMentions(q)
        BY <1>1, <2>1, <2>3, <4>1 DEF SelectVersionMentions
      <4>2. CASE SelectMentions(q)
        BY <1>1, <2>1, <4>2 DEF SelectMentions
      <4>3. CASE InstallEvents(q) \/ InstallVersions(q)
        BY <1>1, <2>1, <4>3 DEF InstallEvents, InstallVersions
      <4>4. CASE AnswerEvents(q) \/ Release(q)
        BY <1>1, <2>1, <4>4 DEF AnswerEvents, Release
      <4> QED BY <3>5, <4>1, <4>2, <4>3, <4>4 DEF Serve
    <3> QED BY <1>1, <3>1, <3>2, <3>3, <3>4, <3>5 DEF Next
  <2> QED BY <2>2, <2>3
<1>2. RInv /\ [Next]_vars =>
        [\A r \in Requests :
           (stage[r] = "version row" /\ stage'[r] = "versioned") =>
             answer'[r] = LoadEventVersion(db, asked[r].event, asked[r].version)]_vars
  BY <1>1
<1> QED BY <1>2, ReadersInvariant, PTL DEF Spec, HistoricalReadsExact

-----------------------------------------------------------------------------
(* How old a refresh can be.                                               *)

\* Nothing in old is newer than its counterpart in new.
Covers(new, old) ==
  \A o \in old : \E n \in new : n.id = o.id /\ n.version >= o.version

\* What a refresh has read is no older than the events of its beginning.
LoadsFresh ==
  \A r \in Requests :
    /\ stage[r] = "selected" => Covers(rows[r], since[r])
    /\ stage[r] \in {"assembled", "installing"} => Covers(loaded[r], since[r])

\* Each event is as new as the row it was made of.
LEMMA AssembledCovers ==
  ASSUME NEW some, NEW ms, NEW old, Covers(some, old)
  PROVE  Covers(Assemble(some, ms).events, old)
<1>1. Assemble(some, ms).events
        = {WithMentions(x, {y.item : y \in {z \in ms : z.event = x.id}}) : x \in some}
  BY DEF Assemble
<1>2. \A x, m : WithMentions(x, m).id = x.id /\ WithMentions(x, m).version = x.version
  BY DEF WithMentions
<1>3. ASSUME NEW o \in old
      PROVE  \E n \in Assemble(some, ms).events : n.id = o.id /\ n.version >= o.version
  <2>1. PICK x \in some : x.id = o.id /\ x.version >= o.version
    BY DEF Covers
  <2> DEFINE n == WithMentions(x, {y.item : y \in {z \in ms : z.event = x.id}})
  <2>2. n \in Assemble(some, ms).events
    BY <1>1
  <2>3. n.id = o.id /\ n.version >= o.version
    BY <1>2, <2>1
  <2> QED BY <2>2, <2>3
<1> QED BY <1>3 DEF Covers

\* The latest rows are as new as the events made of them.
LEMMA LatestCoversCurrent ==
  ASSUME RInv
  PROVE  Covers(LatestRows(db), CurrentEvents)
<1>1. CurrentEvents = {WithMentions(x, MentionsOf(db, x.id)) : x \in LatestRows(db)}
  BY LoadedEvents DEF CurrentEvents
<1>2. \A x, m : WithMentions(x, m).id = x.id /\ WithMentions(x, m).version = x.version
  BY DEF WithMentions
<1>3. \A x \in LatestRows(db) : x.version \in Nat
  BY DEF RInv, Sound, TablesType, RowType, LatestRows
<1> QED BY <1>1, <1>2, <1>3 DEF Covers

\* Commits and other requests leave what a refresh has read alone.
LEMMA LoadsStayFresh ==
  ASSUME RInv, LoadsFresh, [Next]_vars
  PROVE  LoadsFresh'
<1>0. /\ stage \in [Requests -> Stages] /\ rows \in [Requests -> SUBSET RowType]
      /\ loaded \in [Requests -> SUBSET EventType]
      /\ since \in [Requests -> SUBSET EventType]
  BY DEF RInv, TypeOK
<1>1. ASSUME NEW i \in Envelopes, Commit(i) PROVE LoadsFresh'
  BY <1>1 DEF Commit, LoadsFresh
<1>2. ASSUME NEW r \in Requests, SelectRows(r) PROVE LoadsFresh'
  <2>1. /\ stage' = [stage EXCEPT ![r] = "selected"]
        /\ rows' = [rows EXCEPT ![r] = LatestRows(db)]
        /\ since' = [since EXCEPT ![r] = CurrentEvents]
        /\ loaded' = loaded
    BY <1>2 DEF SelectRows
  <2> QED BY <1>0, <2>1, LatestCoversCurrent DEF LoadsFresh
<1>3. ASSUME NEW r \in Requests, SelectMentions(r) PROVE LoadsFresh'
  <2>1. /\ stage[r] = "selected" /\ stage' = [stage EXCEPT ![r] = "assembled"]
        /\ loaded' = [loaded EXCEPT ![r] = Assemble(rows[r], db.mentions).events]
        /\ rows' = [rows EXCEPT ![r] = {}] /\ since' = since
    BY <1>3 DEF SelectMentions
  <2>2. Covers(Assemble(rows[r], db.mentions).events, since[r])
    BY <2>1, AssembledCovers DEF LoadsFresh
  <2> QED BY <1>0, <2>1, <2>2 DEF LoadsFresh
<1>4. ASSUME NEW r \in Requests, InstallEvents(r) PROVE LoadsFresh'
  BY <1>0, <1>4 DEF InstallEvents, LoadsFresh
<1>5. ASSUME NEW r \in Requests, InstallVersions(r) PROVE LoadsFresh'
  BY <1>0, <1>5 DEF InstallVersions, LoadsFresh
<1>6. ASSUME NEW r \in Requests, AnswerEvents(r) PROVE LoadsFresh'
  BY <1>0, <1>6 DEF AnswerEvents, LoadsFresh
<1>7. ASSUME NEW r \in Requests, NEW t \in Target, AnswerCached(r, t) PROVE LoadsFresh'
  BY <1>0, <1>7 DEF AnswerCached, LoadsFresh
<1>8. ASSUME NEW r \in Requests, NEW t \in Target, SelectVersionRow(r, t) PROVE LoadsFresh'
  <2>1. /\ stage' \in {[stage EXCEPT ![r] = "versioned"],
                       [stage EXCEPT ![r] = "version row"]}
        /\ \A q \in Requests : q # r => rows'[q] = rows[q]
        /\ loaded' = loaded /\ since' = since
    BY <1>0, <1>8 DEF SelectVersionRow
  <2> QED BY <1>0, <2>1 DEF LoadsFresh
<1>9. ASSUME NEW r \in Requests, SelectVersionMentions(r) PROVE LoadsFresh'
  BY <1>0, <1>9 DEF SelectVersionMentions, LoadsFresh
<1>10. ASSUME NEW r \in Requests, Release(r) PROVE LoadsFresh'
  BY <1>0, <1>10 DEF Release, LoadsFresh
<1>11. ASSUME UNCHANGED vars PROVE LoadsFresh'
  BY <1>11 DEF vars, LoadsFresh
<1> QED BY <1>1, <1>2, <1>3, <1>4, <1>5, <1>6, <1>7, <1>8, <1>9, <1>10, <1>11
        DEF Next, Serve

\* However many requests there are, what a refresh is about to install is no
\* older than the events current when it began (event_repository.py 61-108):
\* only what others install can make its answer older.
THEOREM RefreshesLoadFresh == Spec => []LoadsFresh
<1>1. Init => LoadsFresh
  BY DEF Init, LoadsFresh
<1>2. RInv /\ LoadsFresh /\ [Next]_vars => LoadsFresh'
  BY LoadsStayFresh
<1> QED BY <1>1, <1>2, ReadersInvariant, PTL DEF Spec

\* Where no request overlaps another, what was installed stays installed
\* until it is answered.
InstalledFresh ==
  \A r \in Requests :
    /\ stage[r] \in {"installing", "refreshed"} => Covers(events, since[r])
    /\ stage[r] = "listed" => Covers(answer[r], since[r])

\* One request at a time keeps it so.
LEMMA InstalledStaysFresh ==
  ASSUME \A q, r \in Requests : q = r,
         RInv, LoadsFresh, InstalledFresh, [Next]_vars
  PROVE  InstalledFresh'
<1>0. /\ stage \in [Requests -> Stages]
      /\ loaded \in [Requests -> SUBSET EventType]
      /\ since \in [Requests -> SUBSET EventType]
      /\ answer \in [Requests -> (SUBSET EventType) \cup {None}]
  BY DEF RInv, TypeOK
<1>1. ASSUME NEW i \in Envelopes, Commit(i) PROVE InstalledFresh'
  BY <1>1 DEF Commit, InstalledFresh
<1>2. ASSUME NEW r \in Requests, SelectRows(r) \/ SelectMentions(r)
      PROVE  InstalledFresh'
  BY <1>0, <1>2 DEF SelectRows, SelectMentions, InstalledFresh
<1>3. ASSUME NEW r \in Requests, InstallEvents(r) PROVE InstalledFresh'
  BY <1>0, <1>3 DEF InstallEvents, LoadsFresh, InstalledFresh
<1>4. ASSUME NEW r \in Requests, InstallVersions(r) PROVE InstalledFresh'
  BY <1>0, <1>4 DEF InstallVersions, InstalledFresh
<1>5. ASSUME NEW r \in Requests, AnswerEvents(r) PROVE InstalledFresh'
  BY <1>0, <1>5 DEF AnswerEvents, InstalledFresh
<1>6. ASSUME NEW r \in Requests, NEW t \in Target,
             AnswerCached(r, t) \/ SelectVersionRow(r, t)
      PROVE  InstalledFresh'
  <2>1. /\ stage' \in {[stage EXCEPT ![r] = "versioned"],
                       [stage EXCEPT ![r] = "version row"]}
        /\ events' = events /\ since' = since
    BY <1>6 DEF AnswerCached, SelectVersionRow
  <2> QED BY <1>0, <2>1 DEF InstalledFresh
<1>7. ASSUME NEW r \in Requests, SelectVersionMentions(r) \/ Release(r)
      PROVE  InstalledFresh'
  BY <1>0, <1>7 DEF SelectVersionMentions, Release, InstalledFresh
<1>8. ASSUME UNCHANGED vars PROVE InstalledFresh'
  BY <1>8 DEF vars, InstalledFresh
<1> QED BY <1>1, <1>2, <1>3, <1>4, <1>5, <1>6, <1>7, <1>8 DEF Next, Serve

\* A request that no other overlaps observes every commit made before it
\* (service.py 70-84), as the comment there promises to all.
THEOREM SoleRequestObserves ==
  ASSUME \A q, r \in Requests : q = r
  PROVE  Spec => []RefreshObservesCommits
<1>1. Init => InstalledFresh
  BY DEF Init, InstalledFresh
<1>2. RInv /\ LoadsFresh /\ InstalledFresh /\ [Next]_vars => InstalledFresh'
  BY InstalledStaysFresh
<1>3. InstalledFresh => RefreshObservesCommits
  BY DEF InstalledFresh, Covers, RefreshObservesCommits
<1> QED BY <1>1, <1>2, <1>3, ReadersInvariant, RefreshesLoadFresh, PTL DEF Spec

-----------------------------------------------------------------------------
(* Once the worker has stopped: the safety half of EventuallyCurrent.      *)

\* The refreshes under way that will install events that are not current.
Outdated ==
  {r \in Requests :
     \/ stage[r] = "selected" /\ rows[r] # LatestRows(db)
     \/ stage[r] = "assembled" /\ loaded[r] # CurrentEvents}

\* While nothing commits, no refresh becomes outdated; a refresh that is not
\* outdated makes the events current; and when none is, current events stay.
SettlesWhileIdle ==
  [][db' = db =>
       /\ Outdated' \subseteq Outdated
       /\ \A r \in Requests \ Outdated :
            stage[r] = "assembled" /\ stage'[r] # "assembled" =>
              events' = CurrentEvents'
       /\ Outdated = {} /\ events = CurrentEvents =>
            events' = CurrentEvents']_vars

\* Each step of a request that starts, or goes on with what is current, goes
\* on with what is current; the others leave _events and its reads alone.
LEMMA SettlingStep ==
  ASSUME RInv, Next, db' = db
  PROVE  /\ Outdated' \subseteq Outdated
         /\ \A r \in Requests \ Outdated :
              stage[r] = "assembled" /\ stage'[r] # "assembled" =>
                events' = CurrentEvents'
         /\ Outdated = {} /\ events = CurrentEvents => events' = CurrentEvents'
<1>0. /\ stage \in [Requests -> Stages] /\ rows \in [Requests -> SUBSET RowType]
      /\ loaded \in [Requests -> SUBSET EventType]
      /\ CurrentEvents' = CurrentEvents /\ LatestRows(db') = LatestRows(db)
  BY DEF RInv, TypeOK, CurrentEvents
<1> DEFINE Goal ==
      /\ Outdated' \subseteq Outdated
      /\ \A r \in Requests \ Outdated :
           stage[r] = "assembled" /\ stage'[r] # "assembled" =>
             events' = CurrentEvents'
      /\ Outdated = {} /\ events = CurrentEvents => events' = CurrentEvents'
<1>1. ASSUME NEW i \in Envelopes, Commit(i) PROVE Goal
  BY <1>0, <1>1 DEF Commit, Outdated
<1>2. ASSUME NEW r \in Requests, SelectRows(r) PROVE Goal
  BY <1>0, <1>2 DEF SelectRows, Outdated
<1>3. ASSUME NEW r \in Requests, SelectMentions(r) PROVE Goal
  <2>1. /\ stage[r] = "selected" /\ stage' = [stage EXCEPT ![r] = "assembled"]
        /\ loaded' = [loaded EXCEPT ![r] = Assemble(rows[r], db.mentions).events]
        /\ rows' = [rows EXCEPT ![r] = {}] /\ events' = events
    BY <1>3 DEF SelectMentions
  <2>2. rows[r] = LatestRows(db) =>
          Assemble(rows[r], db.mentions).events = CurrentEvents
    BY DEF CurrentEvents, LoadState
  <2> QED BY <1>0, <2>1, <2>2 DEF Outdated
<1>4. ASSUME NEW r \in Requests, InstallEvents(r) PROVE Goal
  BY <1>0, <1>4 DEF InstallEvents, Outdated
<1>5. ASSUME NEW r \in Requests, InstallVersions(r) \/ AnswerEvents(r) \/ Release(r)
      PROVE  Goal
  <2>1. /\ stage[r] \notin {"selected", "assembled"}
        /\ stage' \in {[stage EXCEPT ![r] = s] : s \in {"refreshed", "listed", "idle"}}
        /\ \A q \in Requests : q # r => rows'[q] = rows[q] /\ loaded'[q] = loaded[q]
        /\ events' = events
    BY <1>0, <1>5 DEF InstallVersions, AnswerEvents, Release
  <2> QED BY <1>0, <2>1 DEF Outdated
<1>6. ASSUME NEW r \in Requests, NEW t \in Target,
             AnswerCached(r, t) \/ SelectVersionRow(r, t)
      PROVE  Goal
  <2>1. /\ stage[r] = "idle"
        /\ stage' \in {[stage EXCEPT ![r] = "versioned"],
                       [stage EXCEPT ![r] = "version row"]}
        /\ \A q \in Requests : q # r => rows'[q] = rows[q]
        /\ loaded' = loaded /\ events' = events
    BY <1>0, <1>6 DEF AnswerCached, SelectVersionRow
  <2> QED BY <1>0, <2>1 DEF Outdated
<1>7. ASSUME NEW r \in Requests, SelectVersionMentions(r) PROVE Goal
  BY <1>0, <1>7 DEF SelectVersionMentions, Outdated
<1> QED BY <1>1, <1>2, <1>3, <1>4, <1>5, <1>6, <1>7 DEF Next, Serve

\* Old refreshes cannot leave the API behind once they are through, and the
\* next refresh brings it up to date: no step undoes either.
THEOREM SettlesOnceQuiet == Spec => SettlesWhileIdle
<1>1. RInv /\ [Next]_vars =>
        [db' = db =>
           /\ Outdated' \subseteq Outdated
           /\ \A r \in Requests \ Outdated :
                stage[r] = "assembled" /\ stage'[r] # "assembled" =>
                  events' = CurrentEvents'
           /\ Outdated = {} /\ events = CurrentEvents =>
                events' = CurrentEvents']_vars
  BY SettlingStep
<1> QED BY <1>1, ReadersInvariant, PTL DEF Spec, SettlesWhileIdle
=============================================================================
