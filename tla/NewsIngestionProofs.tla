------------------------- MODULE NewsIngestionProofs -------------------------
(***************************************************************************)
(* What an ingestion pass leaves behind, for any providers, any editions   *)
(* of their sites, any number of passes and any failure in any of them.    *)
(***************************************************************************)
EXTENDS NewsIngestion, WellFoundedInduction, TLAPS

-----------------------------------------------------------------------------
(* The inductive invariant.                                                *)

\* What the provider at n may have read.
ReadType(n) == {Unread} \cup (Editions[sources[n]] \ {Malformed})

\* Shapes, with the locals of the pass as one record.
Shapes ==
  /\ sources \in Configurations
  /\ feed \in [1 .. Len(sources) -> Served]
  /\ \A n \in 1 .. Len(sources) : feed[n] \in Editions[sources[n]]
  /\ pass \in [stage : Stages, position : 1 .. Len(sources),
               attempt : 0 .. MaxAttempts - 1,
               read : [1 .. Len(sources) -> {Unread} \cup Served],
               next : Nat \ {0}]
  /\ \A n \in 1 .. Len(sources) : pass.read[n] \in ReadType(n)

\* An identity is stored once, and so is a native id.
StoredOnce(items) ==
  \A a, b \in items :
    \/ SameIdentity(a, b)
    \/ a.source = b.source /\ a.native = b.native /\ a.native # <<>>
    => a = b

\* What a FRED item says is in its native id.
Identified ==
  /\ StoredOnce(stored)
  /\ \A r \in stored : r.source[1] = "fred" => r.native = r.content[1]

\* The pass is at position: those before it are read, those after it not,
\* and it yields what it has read.
Ordered ==
  /\ \A n \in 1 .. Len(sources) :
       /\ n < pass.position => pass.read[n] # Unread
       /\ n > pass.position => pass.read[n] = Unread
  /\ pass.stage \in {"requesting", "waiting"} => pass.read[pass.position] = Unread
  /\ pass.stage = "yielding" => pass.read[pass.position] # Unread
  /\ pass.stage = "completed" =>
       /\ pass.position = Len(sources)
       /\ pass.read[pass.position] # Unread
       /\ pass.next > Len(pass.read[pass.position])

\* What has been read up to next is ingested.
Ingested ==
  \A n \in 1 .. Len(sources) :
    \A k \in 1 .. ReadUpTo(n) : Kept(sources[n], pass.read[n][k])

NInv == Shapes /\ Identified /\ Ordered /\ Ingested

-----------------------------------------------------------------------------
(* Ingest.                                                                 *)

\* A FRED item, and no other, has a source of FRED's; its native id is its
\* reading, and neither None nor empty (http_sources.py 249-260).
LEMMA FredItem ==
  ASSUME NEW s, NEW e
  PROVE  /\ Item(s, e).source[1] = "fred" <=> Kind[s] = "fred"
         /\ Kind[s] = "fred" =>
              /\ Item(s, e).native = Reading(e)
              /\ Item(s, e).content[1] = Reading(e)
              /\ Item(s, e).native \notin {<<>>, <<NoText>>}
<1>1. /\ Item(s, e).source = SourceOf(s, e)
      /\ Item(s, e).native = Native(Kind[s], e)
      /\ Item(s, e).content = Content(s, e)
  BY DEF Item
<1>2. SourceOf(s, e)[1] = "fred" <=> Kind[s] = "fred"
  BY DEF SourceOf
<1>3. ASSUME Kind[s] = "fred"
      PROVE  /\ Native(Kind[s], e) = Reading(e)
             /\ Content(s, e)[1] = Reading(e)
             /\ Reading(e) \notin {<<>>, <<NoText>>}
  <2>1. Native(Kind[s], e) = Reading(e) /\ Content(s, e)[1] = Reading(e)
    BY <1>3 DEF Native, Content, Reading
  <2>2. Reading(e) \notin {<<>>, <<NoText>>}
    BY DEF Reading
  <2> QED BY <2>1, <2>2
<1> QED BY <1>1, <1>2, <1>3

\* Where an id is neither None nor empty, the same identity is the same
\* source and id.
LEMMA NativeIdentity ==
  ASSUME NEW r, NEW i, SameIdentity(r, i), i.native \notin {<<>>, <<NoText>>}
  PROVE  r.source = i.source /\ r.native = i.native
<1>1. Identity(i) = <<i.source, i.native>>
  BY DEF Identity
<1>2. CASE r.native \in {<<>>, <<NoText>>}
  <2>1. <<r.source, "sha256", r.content>> = <<i.source, i.native>>
    BY <1>1, <1>2 DEF SameIdentity, Identity
  <2> QED BY <2>1
<1>3. CASE r.native \notin {<<>>, <<NoText>>}
  BY <1>1, <1>3 DEF SameIdentity, Identity
<1> QED BY <1>2, <1>3

\* An item that is not refused is stored once it is ingested, and ids stay
\* unique, in memory and in the index.
LEMMA IngestKeeps ==
  ASSUME NEW items, NEW i, StoredOnce(items), ~Refuses(items, i)
  PROVE  /\ items \subseteq Ingest(items, i)
         /\ \A r \in Ingest(items, i) : r \in items \/ r = i
         /\ \E r \in Ingest(items, i) : SameIdentity(r, i)
         /\ StoredOnce(Ingest(items, i))
<1>1. CASE KnownItem(items, i)
  BY <1>1 DEF Ingest, KnownItem
<1>2. CASE ~KnownItem(items, i)
  <2>1. Ingest(items, i) = items \cup {i}
    BY <1>2 DEF Ingest
  <2>2. \A r \in items : ~SameIdentity(r, i) /\ ~SameIdentity(i, r)
    BY <1>2 DEF KnownItem, SameIdentity
  <2>3. \A r \in items :
          r.source = i.source /\ r.native = i.native => i.native = <<>>
    BY <1>2 DEF Refuses
  <2>4. StoredOnce(items \cup {i})
    BY <2>2, <2>3 DEF StoredOnce
  <2>5. SameIdentity(i, i)
    BY DEF SameIdentity
  <2> QED BY <2>1, <2>4, <2>5
<1> QED BY <1>1, <1>2

\* Storing more leaves what is kept in place.
LEMMA KeptStays ==
  ASSUME NEW s, NEW e, Kept(s, e), stored \subseteq stored'
  PROVE  Kept(s, e)'
BY DEF Kept

\* Ingest keeps Identified, and the entry it was for is kept.
LEMMA IngestEntry ==
  ASSUME NEW s, NEW e, Identified, ~Refuses(stored, Item(s, e)),
         stored' = Ingest(stored, Item(s, e))
  PROVE  /\ stored \subseteq stored'
         /\ Identified'
         /\ Kept(s, e)'
<1> DEFINE i == Item(s, e)
<1>1. /\ i.source[1] = "fred" <=> Kind[s] = "fred"
      /\ Kind[s] = "fred" =>
           /\ i.native = Reading(e)
           /\ i.content[1] = Reading(e)
           /\ i.native \notin {<<>>, <<NoText>>}
  BY FredItem
<1>2. ~Refuses(stored, i) /\ stored' = Ingest(stored, i)
  OBVIOUS
<1> HIDE DEF i
<1>3. /\ stored \subseteq stored'
      /\ \A r \in stored' : r \in stored \/ r = i
      /\ \E r \in stored' : SameIdentity(r, i)
      /\ StoredOnce(stored')
  BY <1>2, IngestKeeps DEF Identified
<1>4. \A r \in stored' : r.source[1] = "fred" => r.native = r.content[1]
  BY <1>1, <1>3 DEF Identified
<1>5. Identified'
  BY <1>3, <1>4 DEF Identified, StoredOnce, SameIdentity, Identity
<1>6. PICK r \in stored' : SameIdentity(r, i)
  BY <1>3
<1>7. ASSUME Kind[s] = "fred" PROVE r.content[1] = Reading(e)
  <2>1. r.source = i.source /\ r.native = i.native
    BY <1>1, <1>6, <1>7, NativeIdentity
  <2> QED BY <1>1, <1>4, <1>7, <2>1
<1>8. Kept(s, e)'
  BY <1>6, <1>7 DEF Kept, i, SameIdentity
<1> QED BY <1>3, <1>5, <1>8

-----------------------------------------------------------------------------
(* The steps.                                                              *)

\* How far an unread provider is read, one before position, and that at it.
LEMMA ReadUpToCases ==
  /\ \A n : pass.read[n] = Unread => ReadUpTo(n) = 0
  /\ \A n : pass.read[n] # Unread /\ n < pass.position
              => ReadUpTo(n) = Len(pass.read[n])
  /\ \A n : pass.read[n] # Unread /\ ~ (n < pass.position)
              => ReadUpTo(n) = pass.next - 1
BY DEF ReadUpTo

\* A step that leaves the position, the entries read and next alone leaves
\* what is ingested in place.
LEMMA SameReading ==
  ASSUME NInv, sources' = sources, stored' = stored, pass'.read = pass.read,
         pass'.position = pass.position, pass'.next = pass.next
  PROVE  Identified' /\ Ingested'
<1>1. Identified'
  BY DEF NInv, Identified
<1>2. \A n : ReadUpTo(n)' = ReadUpTo(n)
  BY DEF ReadUpTo
<1>3. \A s, e : Kept(s, e) => Kept(s, e)'
  BY KeptStays
<1>4. Ingested'
  BY <1>2, <1>3 DEF NInv, Ingested
<1> QED BY <1>1, <1>4

\* No pass has read anything before the first.
LEMMA NoPassShape ==
  ASSUME sources \in Configurations
  PROVE  /\ NoPass \in [stage : Stages, position : 1 .. Len(sources),
                        attempt : 0 .. MaxAttempts - 1,
                        read : [1 .. Len(sources) -> {Unread} \cup Served],
                        next : Nat \ {0}]
         /\ NoPass.stage = "ended" /\ NoPass.position = 1 /\ NoPass.next = 1
         /\ NoPass.attempt = 0
         /\ \A n \in 1 .. Len(sources) : NoPass.read[n] = Unread
<1>1. 1 \in 1 .. Len(sources) /\ 0 \in 0 .. MaxAttempts - 1
  BY EditionsAssumption, AttemptsAssumption
<1> QED BY <1>1 DEF NoPass, Stages

\* Where nothing is read nothing need be ingested.
LEMMA UnreadIngested ==
  ASSUME \A n \in 1 .. Len(sources) : pass.read[n] = Unread
  PROVE  Ingested
<1>1. \A n \in 1 .. Len(sources) : ReadUpTo(n) = 0
  BY ReadUpToCases
<1>2. 1 .. 0 = {}
  OBVIOUS
<1> QED BY <1>1, <1>2 DEF Ingested

\* Any deployment starts with nothing read and nothing stored.
LEMMA InitNInv == Init => NInv
<1> SUFFICES ASSUME Init PROVE NInv
  OBVIOUS
<1>1. sources \in Configurations /\ pass = NoPass /\ stored = {}
  BY DEF Init
<1>2. Shapes
  BY <1>1, NoPassShape DEF Init, Shapes, Served, ReadType
<1>3. Identified /\ Ingested
  BY <1>1, NoPassShape, UnreadIngested DEF Identified, StoredOnce
<1>4. Ordered
  <2>1. 1 \in 1 .. Len(sources)
    BY <1>1, EditionsAssumption
  <2> QED BY <1>1, <2>1, NoPassShape DEF Ordered
<1> QED BY <1>2, <1>3, <1>4 DEF NInv

\* What the sites publish disturbs no pass.
LEMMA PublishKeepsNInv ==
  ASSUME NInv, NEW n \in 1 .. Len(sources), Publish(n)
  PROVE  NInv'
<1>1. UNCHANGED <<sources, stored, pass>>
  BY DEF Publish
<1>2. PICK edition \in Editions[sources[n]] : feed' = [feed EXCEPT ![n] = edition]
  BY DEF Publish
<1>3. edition \in Served
  BY EditionsAssumption DEF NInv, Shapes, Served
<1>4. Shapes'
  BY <1>1, <1>2, <1>3 DEF NInv, Shapes, ReadType
<1>5. Ordered'
  BY <1>1 DEF NInv, Ordered
<1> QED BY <1>1, <1>4, <1>5, SameReading DEF NInv

\* A pass starts with the first provider, whatever was read before.
LEMMA StartKeepsNInv ==
  ASSUME NInv, Start
  PROVE  NInv'
<1>1. sources \in Configurations /\ 1 \in 1 .. Len(sources)
  BY EditionsAssumption DEF NInv, Shapes
<1>2. /\ UNCHANGED <<sources, feed, stored>>
      /\ pass' = [NoPass EXCEPT !.stage = "requesting"]
  BY DEF Start
<1>3. /\ pass' \in [stage : Stages, position : 1 .. Len(sources),
                    attempt : 0 .. MaxAttempts - 1,
                    read : [1 .. Len(sources) -> {Unread} \cup Served],
                    next : Nat \ {0}]
      /\ pass'.stage = "requesting" /\ pass'.position = 1
      /\ \A n \in 1 .. Len(sources) : pass'.read[n] = Unread
  BY <1>1, <1>2, NoPassShape DEF Stages
<1>4. Shapes'
  BY <1>2, <1>3 DEF NInv, Shapes, ReadType
<1>5. Identified'
  BY <1>2 DEF NInv, Identified
<1>6. Ordered'
  BY <1>1, <1>2, <1>3 DEF Ordered
<1>7. Ingested'
  <2>1. \A n \in 1 .. Len(sources) : ReadUpTo(n)' = 0
    BY <1>3 DEF ReadUpTo
  <2>2. 1 .. 0 = {}
    OBVIOUS
  <2> QED BY <1>2, <2>1, <2>2 DEF Ingested
<1> QED BY <1>4, <1>5, <1>6, <1>7 DEF NInv

\* A failure changes the stage only.
LEMMA FailureKeepsNInv ==
  ASSUME NInv, UNCHANGED <<sources, feed, stored>>,
         pass' = [pass EXCEPT !.stage = "failed"]
  PROVE  NInv'
<1>1. Shapes'
  BY DEF NInv, Shapes, ReadType, Stages
<1>2. /\ pass'.read = pass.read /\ pass'.position = pass.position
      /\ pass'.next = pass.next /\ pass'.stage = "failed"
  BY DEF NInv, Shapes
<1>3. Ordered'
  BY <1>2 DEF NInv, Ordered
<1> QED BY <1>1, <1>2, <1>3, SameReading DEF NInv

\* Pausing and waking read nothing.
LEMMA RetryKeepsNInv ==
  ASSUME NInv, TransientFailure \/ Wake
  PROVE  NInv'
<1>1. CASE TransientFailure /\ pass.attempt = MaxAttempts - 1
  BY <1>1, FailureKeepsNInv DEF TransientFailure
<1>2. CASE (TransientFailure /\ pass.attempt # MaxAttempts - 1) \/ Wake
  <2>1. /\ UNCHANGED <<sources, feed, stored>>
        /\ pass.stage \in {"requesting", "waiting"}
        /\ \/ /\ pass' = [pass EXCEPT !.stage = "waiting", !.attempt = @ + 1]
              /\ pass.attempt # MaxAttempts - 1
           \/ pass' = [pass EXCEPT !.stage = "requesting"]
    BY <1>2 DEF TransientFailure, Wake, Network
  <2>a. /\ pass.attempt \in 0 .. MaxAttempts - 1
        /\ pass.attempt # MaxAttempts - 1 => pass.attempt + 1 \in 0 .. MaxAttempts - 1
    BY AttemptsAssumption DEF NInv, Shapes
  <2>b. "waiting" \in Stages /\ "requesting" \in Stages
    BY DEF Stages
  <2>2. Shapes'
    BY <2>1, <2>a, <2>b DEF NInv, Shapes, ReadType
  <2>3. /\ pass'.read = pass.read /\ pass'.position = pass.position
        /\ pass'.next = pass.next /\ pass'.stage \in {"requesting", "waiting"}
    BY <2>1 DEF NInv, Shapes
  <2>4. Ordered'
    BY <2>1, <2>3 DEF NInv, Ordered
  <2> QED BY <2>1, <2>2, <2>3, <2>4, SameReading DEF NInv
<1> QED BY <1>1, <1>2

\* The answer is taken as a whole, and nothing of it is ingested yet.
LEMMA AnsweredKeepsNInv ==
  ASSUME NInv, Answered
  PROVE  NInv'
<1>p. PICK p \in 1 .. Len(sources) : p = pass.position
  BY DEF NInv, Shapes
<1>1. /\ UNCHANGED <<sources, feed, stored>>
      /\ pass.stage = "requesting" /\ feed[p] # Malformed
      /\ pass' = [pass EXCEPT !.stage = "yielding", !.next = 1,
                             !.read[p] = feed[p]]
  BY <1>p DEF Answered
<1>2. /\ p \in 1 .. Len(sources) /\ Source = sources[p]
      /\ Source \in DOMAIN Editions
  BY <1>p, EditionsAssumption DEF NInv, Shapes, Source
<1>3. feed[p] \in ReadType(p) \ {Unread} /\ feed[p] \in Served
  BY <1>1, <1>2, EditionsAssumption DEF NInv, Shapes, ReadType, Served
<1>4. /\ pass'.stage = "yielding" /\ pass'.next = 1 /\ pass'.position = p
      /\ pass'.attempt = pass.attempt
      /\ pass'.read = [pass.read EXCEPT ![p] = feed[p]]
  BY <1>1, <1>p DEF NInv, Shapes
<1>5. Shapes'
  <2>1. pass.read \in [1 .. Len(sources) -> {Unread} \cup Served]
    BY DEF NInv, Shapes
  <2>2. "yielding" \in Stages
    BY DEF Stages
  <2>3. \A n \in 1 .. Len(sources) : pass'.read[n] \in ReadType(n)
    BY <1>2, <1>3, <1>4, <2>1 DEF NInv, Shapes
  <2>4. pass'.read \in [1 .. Len(sources) -> {Unread} \cup Served]
    BY <1>2, <1>3, <1>4, <2>1
  <2>5. pass' = [pass EXCEPT !.stage = "yielding", !.next = 1, !.read = pass'.read]
    BY <1>1, <1>4
  <2>6. pass' \in [stage : Stages, position : 1 .. Len(sources),
                  attempt : 0 .. MaxAttempts - 1,
                  read : [1 .. Len(sources) -> {Unread} \cup Served],
                  next : Nat \ {0}]
    <3>1. pass \in [stage : Stages, position : 1 .. Len(sources),
                   attempt : 0 .. MaxAttempts - 1,
                   read : [1 .. Len(sources) -> {Unread} \cup Served],
                   next : Nat \ {0}]
      BY DEF NInv, Shapes
    <3>2. PICK half : half = [pass EXCEPT !.stage = "yielding", !.next = 1]
      OBVIOUS
    <3>3. half \in [stage : Stages, position : 1 .. Len(sources),
                   attempt : 0 .. MaxAttempts - 1,
                   read : [1 .. Len(sources) -> {Unread} \cup Served],
                   next : Nat \ {0}]
      <4>1. PICK one \in Nat \ {0} : one = 1
        OBVIOUS
      <4> QED BY <2>2, <3>1, <3>2, <4>1
    <3>4. pass' = [half EXCEPT !.read = pass'.read]
      BY <2>5, <3>2, Zenon
    <3> QED BY <2>4, <3>3, <3>4
  <2> QED BY <1>1, <2>3, <2>6 DEF NInv, Shapes, ReadType
<1>6. \A n \in 1 .. Len(sources) : n # p => pass'.read[n] = pass.read[n]
  BY <1>2, <1>4 DEF NInv, Shapes
<1>7. pass'.read[p] # Unread
  BY <1>2, <1>3, <1>4 DEF NInv, Shapes
<1>8. Ordered'
  BY <1>1, <1>2, <1>4, <1>6, <1>7, <1>p DEF NInv, Ordered
<1>9. Identified'
  BY <1>1 DEF NInv, Identified
<1>10. Ingested'
  <2>1. \A s, e : Kept(s, e) => Kept(s, e)'
    BY <1>1, KeptStays
  <2>2. ReadUpTo(p)' = 0
    BY <1>2, <1>4, <1>7 DEF ReadUpTo
  <2>3. ASSUME NEW n \in 1 .. Len(sources), n # p
        PROVE  ReadUpTo(n)' = ReadUpTo(n)
    <3>1. n < p \/ pass.read[n] = Unread
      BY <1>2, <1>p, <2>3 DEF NInv, Ordered
    <3> QED BY <1>4, <1>6, <1>p, <2>3, <3>1 DEF ReadUpTo
  <2>4. 1 .. 0 = {}
    OBVIOUS
  <2>5. ASSUME NEW n \in 1 .. Len(sources), NEW k \in 1 .. ReadUpTo(n)'
        PROVE  n # p /\ Kept(sources[n], pass.read[n][k])
    <3>1. n # p
      BY <2>2, <2>4, <2>5
    <3>2. k \in 1 .. ReadUpTo(n)
      BY <2>3, <2>5, <3>1
    <3> QED BY <3>1, <3>2 DEF NInv, Ingested
  <2>6. ASSUME NEW n \in 1 .. Len(sources), NEW k \in 1 .. ReadUpTo(n)'
        PROVE  Kept(sources[n], pass.read[n][k])'
    BY <1>1, <1>6, <2>1, <2>5, <2>6
  <2> QED BY <1>1, <2>6 DEF Ingested
<1> QED BY <1>5, <1>8, <1>9, <1>10 DEF NInv

\* An entry is passed by or ingested: what was read before it stays kept,
\* and it is kept itself if it should be.
LEMMA EntryKeepsNInv ==
  ASSUME NInv, Skip \/ IngestItem
  PROVE  NInv'
<1>p. PICK p \in 1 .. Len(sources) : p = pass.position
  BY DEF NInv, Shapes
<1>1. /\ UNCHANGED <<sources, feed>>
      /\ pass.stage = "yielding"
      /\ pass.next <= Len(Payload)
      /\ pass' = [pass EXCEPT !.next = pass.next + 1]
      /\ \/ stored' = stored /\ Yields(Kind[Source], Entry) = "nothing"
         \/ /\ stored' = Ingest(stored, Item(Source, Entry))
            /\ ~Refuses(stored, Item(Source, Entry))
  BY DEF Skip, IngestItem, HasEntry
<1>2. /\ p \in 1 .. Len(sources) /\ pass.next \in Nat \ {0}
      /\ Source = sources[p] /\ Payload = pass.read[p]
      /\ Entry = pass.read[p][pass.next]
  BY <1>p DEF NInv, Shapes, Source, Payload, Entry
<1>3. /\ pass'.stage = "yielding" /\ pass'.next = pass.next + 1
      /\ pass'.position = p /\ pass'.read = pass.read
  BY <1>1, <1>p DEF NInv, Shapes
<1>4. Shapes'
  <2>1. PICK next \in Nat \ {0} : next = pass.next + 1
    BY <1>2
  <2>2. pass' = [pass EXCEPT !.next = next]
    BY <1>1, <2>1
  <2> QED BY <1>1, <2>2 DEF NInv, Shapes, ReadType
<1>5. Ordered'
  BY <1>1, <1>3, <1>p DEF NInv, Ordered
<1>6. stored \subseteq stored' /\ Identified'
  BY <1>1, IngestEntry DEF NInv, Identified
<1>7. ASSUME NEW s, NEW e, s = Source, e = Entry PROVE Kept(s, e)'
  <2>1. CASE Yields(Kind[Source], Entry) = "nothing"
    BY <1>7, <2>1 DEF Kept
  <2>2. CASE /\ stored' = Ingest(stored, Item(Source, Entry))
              /\ ~Refuses(stored, Item(Source, Entry))
    BY <1>7, <2>2, IngestEntry DEF NInv
  <2> QED BY <1>1, <2>1, <2>2
<1>8. Ingested'
  <2>1. \A s, e : Kept(s, e) => Kept(s, e)'
    BY <1>6, KeptStays
  <2>2. pass.read[p] # Unread
    BY <1>1, <1>p DEF NInv, Ordered
  <2>3. ReadUpTo(p) = pass.next - 1 /\ ReadUpTo(p)' = pass.next
    BY <1>2, <1>3, <1>p, <2>2 DEF ReadUpTo
  <2>4. ASSUME NEW n \in 1 .. Len(sources), n # p
        PROVE  ReadUpTo(n)' = ReadUpTo(n)
    <3>1. n < p \/ pass.read[n] = Unread
      BY <1>2, <1>p, <2>4 DEF NInv, Ordered
    <3> QED BY <1>3, <1>p, <2>4, <3>1 DEF ReadUpTo
  <2>5. ASSUME NEW n \in 1 .. Len(sources), NEW k \in 1 .. ReadUpTo(n)'
        PROVE  Kept(sources[n], pass.read[n][k])'
    <3>1. CASE n = p /\ k = pass.next
      BY <1>1, <1>2, <1>3, <1>7, <3>1
    <3>2. CASE ~ (n = p /\ k = pass.next)
      <4>1. k \in 1 .. ReadUpTo(n)
        BY <1>2, <2>3, <2>4, <2>5, <3>2
      <4>2. Kept(sources[n], pass.read[n][k])
        BY <4>1 DEF NInv, Ingested
      <4> QED BY <1>1, <1>3, <2>1, <4>2
    <3> QED BY <3>1, <3>2
  <2> QED BY <1>1, <2>5 DEF Ingested
<1> QED BY <1>4, <1>5, <1>6, <1>8 DEF NInv

\* A provider that has nothing more has all of its entries ingested; the
\* next one has not been read.
LEMMA NextSourceKeepsNInv ==
  ASSUME NInv, NextSource
  PROVE  NInv'
<1>p. PICK p \in 1 .. Len(sources) : p = pass.position
  BY DEF NInv, Shapes
<1>1. /\ UNCHANGED <<sources, feed, stored>>
      /\ pass.stage = "yielding" /\ pass.next > Len(Payload)
      /\ \/ /\ p = Len(sources)
            /\ pass' = [pass EXCEPT !.stage = "completed"]
         \/ /\ p # Len(sources)
            /\ pass' = [pass EXCEPT !.stage = "requesting", !.attempt = 0,
                                   !.next = 1, !.position = p + 1]
  BY <1>p DEF NextSource
<1>2. /\ p \in 1 .. Len(sources) /\ Len(sources) \in Nat
      /\ Payload = pass.read[p] /\ pass.next \in Nat \ {0}
      /\ pass.read[p] # Unread
  BY <1>1, <1>p, EditionsAssumption DEF NInv, Shapes, Payload, Ordered
<1>3. Len(pass.read[p]) \in Nat
  <2>1. sources[p] \in DOMAIN Editions
    BY <1>2, EditionsAssumption DEF NInv, Shapes
  <2>2. pass.read[p] \in Editions[sources[p]] \ {Malformed}
    BY <1>2 DEF NInv, Shapes, ReadType
  <2> QED BY <2>1, <2>2, EditionsAssumption
<1>4. CASE p = Len(sources)
  <2>1. pass' = [pass EXCEPT !.stage = "completed"]
    BY <1>1, <1>4
  <2>2. /\ pass'.read = pass.read /\ pass'.position = p
        /\ pass'.next = pass.next /\ pass'.stage = "completed"
    BY <1>p, <2>1 DEF NInv, Shapes
  <2>3. Shapes'
    BY <1>1, <2>1 DEF NInv, Shapes, ReadType, Stages
  <2>4. Ordered'
    BY <1>1, <1>2, <1>4, <1>p, <2>2 DEF NInv, Ordered
  <2> QED BY <1>1, <1>p, <2>2, <2>3, <2>4, SameReading DEF NInv
<1>5. CASE p # Len(sources)
  <2>1. pass' = [pass EXCEPT !.stage = "requesting", !.attempt = 0,
                             !.next = 1, !.position = p + 1]
    BY <1>1, <1>5
  <2>2. p + 1 \in 1 .. Len(sources)
    BY <1>2, <1>5
  <2>3. /\ pass'.read = pass.read /\ pass'.position = p + 1
        /\ pass'.next = 1 /\ pass'.stage = "requesting"
    BY <2>1 DEF NInv, Shapes
  <2>4. Shapes'
    <3>1. "requesting" \in Stages /\ 0 \in 0 .. MaxAttempts - 1
      BY AttemptsAssumption DEF Stages
    <3>2. pass' \in [stage : Stages, position : 1 .. Len(sources),
                    attempt : 0 .. MaxAttempts - 1,
                    read : [1 .. Len(sources) -> {Unread} \cup Served],
                    next : Nat \ {0}]
      <4>1. pass \in [stage : Stages, position : 1 .. Len(sources),
                     attempt : 0 .. MaxAttempts - 1,
                     read : [1 .. Len(sources) -> {Unread} \cup Served],
                     next : Nat \ {0}]
        BY DEF NInv, Shapes
      <4>2. PICK half : half = [pass EXCEPT !.stage = "requesting", !.attempt = 0]
        OBVIOUS
      <4>3. half \in [stage : Stages, position : 1 .. Len(sources),
                     attempt : 0 .. MaxAttempts - 1,
                     read : [1 .. Len(sources) -> {Unread} \cup Served],
                     next : Nat \ {0}]
        BY <3>1, <4>1, <4>2
      <4>4. pass' = [half EXCEPT !.next = 1, !.position = p + 1]
        BY <2>1, <4>2, Zenon
      <4>5. PICK one \in Nat \ {0}, next \in 1 .. Len(sources) : one = 1 /\ next = p + 1
        BY <2>2
      <4>6. pass' = [half EXCEPT !.next = one, !.position = next]
        BY <4>4, <4>5
      <4> QED BY <4>3, <4>6
    <3>3. UNCHANGED <<sources, feed>>
      BY <1>1
    <3>4. Shapes
      BY DEF NInv
    <3> QED BY <2>3, <3>2, <3>3, <3>4 DEF Shapes, ReadType
  <2>5. Identified'
    BY <1>1 DEF NInv, Identified
  <2>6. pass.read[p + 1] = Unread
    BY <1>2, <1>p, <2>2 DEF NInv, Ordered
  <2>7. Ordered'
    BY <1>1, <1>2, <1>p, <2>2, <2>3, <2>6 DEF NInv, Ordered
  <2>8. Ingested'
    <3>1. \A s, e : Kept(s, e) => Kept(s, e)'
      BY <1>1, KeptStays
    <3>2. ASSUME NEW n \in 1 .. Len(sources), NEW k \in 1 .. ReadUpTo(n)'
          PROVE  k \in 1 .. ReadUpTo(n)
      <4>1. CASE n < p
        BY <1>2, <1>p, <2>2, <2>3, <3>2, <4>1 DEF ReadUpTo
      <4>2. CASE n = p
        <5>1. ReadUpTo(n)' = Len(pass.read[p]) /\ ReadUpTo(n) = pass.next - 1
          BY <1>2, <1>p, <2>2, <2>3, <4>2 DEF ReadUpTo
        <5> QED BY <1>1, <1>2, <1>3, <3>2, <5>1
      <4>3. CASE n > p
        <5>1. pass.read[n] = Unread
          BY <1>p, <4>3 DEF NInv, Ordered
        <5> QED BY <2>3, <3>2, <5>1 DEF ReadUpTo
      <4> QED BY <1>2, <4>1, <4>2, <4>3
    <3> QED BY <1>1, <2>3, <3>1, <3>2 DEF NInv, Ingested
  <2> QED BY <2>4, <2>5, <2>7, <2>8 DEF NInv
<1> QED BY <1>4, <1>5

\* Every step keeps the invariant.
LEMMA NextNInv == NInv /\ [Next]_vars => NInv'
<1> SUFFICES ASSUME NInv, [Next]_vars PROVE NInv'
  OBVIOUS
<1>1. CASE UNCHANGED vars
  <2>1. UNCHANGED <<sources, feed, stored, pass>>
    BY <1>1 DEF vars
  <2>2. Shapes'
    BY <2>1 DEF NInv, Shapes, ReadType
  <2>3. Ordered'
    BY <2>1 DEF NInv, Ordered
  <2> QED BY <2>1, <2>2, <2>3, SameReading DEF NInv
<1>2. CASE \E n \in 1 .. Len(sources) : Publish(n)
  BY <1>2, PublishKeepsNInv
<1>3. CASE Start
  BY <1>3, StartKeepsNInv
<1>4. CASE Die \/ AnsweredMalformed \/ Refused \/ EntryFails
  BY <1>4, FailureKeepsNInv DEF Die, AnsweredMalformed, Refused, EntryFails, Fail
<1>5. CASE TransientFailure \/ Wake
  BY <1>5, RetryKeepsNInv
<1>6. CASE Answered
  BY <1>6, AnsweredKeepsNInv
<1>7. CASE Skip \/ IngestItem
  BY <1>7, EntryKeepsNInv
<1>8. CASE NextSource
  BY <1>8, NextSourceKeepsNInv
<1> QED BY <1>1, <1>2, <1>3, <1>4, <1>5, <1>6, <1>7, <1>8 DEF Next, Work

\* The strengthening holds in every reachable state.
THEOREM PassInvariant == Spec => []NInv
BY InitNInv, NextNInv, PTL DEF Spec

-----------------------------------------------------------------------------
(* The properties.                                                         *)

\* Shapes, the bound on the attempts and the identity of stored items
\* (http_sources.py 42-67, service.py 98-115).
THEOREM PassTypeCorrect == Spec => []TypeOK
<1>1. NInv => TypeOK
  BY DEF NInv, Shapes, Identified, StoredOnce, TypeOK, ReadType
<1> QED BY <1>1, PassInvariant, PTL

\* However a pass ends it has ingested what it read, and a completed pass
\* every item of every provider (event_worker.py, http_sources.py).
THEOREM PassKeepsWhatItReads == Spec => []PassCoversFeeds
<1>1. ASSUME NInv PROVE PassCoversFeeds
  <2>1. ASSUME pass.stage = "completed", NEW n \in 1 .. Len(sources)
        PROVE  /\ pass.read[n] # Unread
               /\ \A k \in 1 .. Len(pass.read[n]) : Kept(sources[n], pass.read[n][k])
    <3>1. /\ pass.position = Len(sources) /\ pass.position \in Nat /\ n \in Nat
          /\ pass.read[pass.position] # Unread
          /\ pass.next > Len(pass.read[pass.position]) /\ pass.next \in Nat
      BY <1>1, <2>1, EditionsAssumption DEF NInv, Shapes, Ordered
    <3>2. pass.read[n] # Unread
      BY <1>1, <2>1, <3>1 DEF NInv, Ordered
    <3>3. Len(pass.read[n]) \in Nat
      <4>1. sources[n] \in DOMAIN Editions
        BY <1>1, <2>1, EditionsAssumption DEF NInv, Shapes
      <4>2. pass.read[n] \in Editions[sources[n]] \ {Malformed}
        BY <1>1, <2>1, <3>2 DEF NInv, Shapes, ReadType
      <4> QED BY <4>1, <4>2, EditionsAssumption
    <3>4. \A k \in 1 .. Len(pass.read[n]) : k \in 1 .. ReadUpTo(n)
      <4>1. CASE n = pass.position
        BY <3>1, <3>2, <3>3, <4>1 DEF ReadUpTo
      <4>2. CASE n < pass.position
        BY <3>2, <4>2 DEF ReadUpTo
      <4> QED BY <2>1, <3>1, <4>1, <4>2
    <3> QED BY <1>1, <2>1, <3>2, <3>4 DEF NInv, Ingested
  <2> QED BY <1>1, <2>1 DEF PassCoversFeeds, NInv, Ordered, Ingested
<1> QED BY <1>1, PassInvariant, PTL

-----------------------------------------------------------------------------
(* The safety half of PassEnds: what is left of a running pass.            *)

\* The providers left; whether the one at position has yet to answer; and
\* its attempts and pauses left, or the entries left of its answer.
ProvidersLeft == IF Running THEN Len(sources) + 1 - pass.position ELSE 0

Unanswered == IF pass.stage \in {"requesting", "waiting"} THEN 1 ELSE 0

AttemptsLeft ==
  2 * (MaxAttempts - pass.attempt) + IF pass.stage = "waiting" THEN 1 ELSE 0

EntriesLeft ==
  IF HasEntry THEN Len(Payload) + 1 - pass.next ELSE 0

Remaining ==
  <<ProvidersLeft, Unanswered, IF Unanswered = 1 THEN AttemptsLeft ELSE EntriesLeft>>

\* The lexicographic order of triples of numbers.
PassOrder == LexProductOrdering(OpToRel(<, Nat), Nat, 3)

\* Whatever a running pass does leaves less of it.
PassAdvances ==
  Running /\ pass' # pass => <<Remaining', Remaining>> \in PassOrder

\* Nothing goes down in this order for ever.
LEMMA PassOrderWellFounded == IsWellFoundedOn(PassOrder, [1 .. 3 -> Nat])
<1> DEFINE R == OpToRel(<, Nat)
<1>1. IsWellFoundedOn(R, Nat) /\ 3 \in Nat
  BY NatLessThanWellFounded
<1> HIDE DEF R
<1>2. IsWellFoundedOn(LexProductOrdering(R, Nat, 3), [1 .. 3 -> Nat])
  BY <1>1, WFLexProductOrdering
<1> QED BY <1>2 DEF PassOrder, R

LEMMA FirstLess ==
  ASSUME NEW a \in Nat, NEW b \in Nat, NEW c \in Nat,
         NEW x \in Nat, NEW y \in Nat, NEW z \in Nat,
         \/ x < a
         \/ x = a /\ y < b
         \/ x = a /\ y = b /\ z < c
  PROVE  <<<<x, y, z>>, <<a, b, c>>>> \in PassOrder
<1> DEFINE u == <<x, y, z>>
           v == <<a, b, c>>
<1>1. u \in [1 .. 3 -> Nat] /\ v \in [1 .. 3 -> Nat]
  OBVIOUS
<1>2. u[1] = x /\ u[2] = y /\ u[3] = z /\ v[1] = a /\ v[2] = b /\ v[3] = c
  OBVIOUS
<1> HIDE DEF u, v
<1>3. \E j \in 1 .. 3 : (\A i \in 1 .. j - 1 : u[i] = v[i]) /\ u[j] < v[j]
  <2>1. CASE x < a
    <3>1. \A i \in 1 .. 1 - 1 : u[i] = v[i]
      OBVIOUS
    <3> QED BY <1>2, <2>1, <3>1
  <2>2. CASE x = a /\ y < b
    <3>1. \A i \in 1 .. 2 - 1 : i = 1
      OBVIOUS
    <3>2. \A i \in 1 .. 2 - 1 : u[i] = v[i]
      BY <1>2, <2>2, <3>1
    <3> QED BY <1>2, <2>2, <3>2
  <2>3. CASE x = a /\ y = b /\ z < c
    <3>1. \A i \in 1 .. 3 - 1 : i = 1 \/ i = 2
      OBVIOUS
    <3>2. \A i \in 1 .. 3 - 1 : u[i] = v[i]
      BY <1>2, <2>3, <3>1
    <3> QED BY <1>2, <2>3, <3>2
  <2> QED BY <2>1, <2>2, <2>3
<1>4. \E j \in 1 .. 3 : /\ \A i \in 1 .. j - 1 : u[i] = v[i]
                       /\ <<u[j], v[j]>> \in OpToRel(<, Nat)
  BY <1>1, <1>3 DEF OpToRel
<1>5. <<u, v>> \in PassOrder
  BY <1>1, <1>4 DEF PassOrder, LexProductOrdering
<1> QED BY <1>5 DEF u, v

\* What is left are numbers.
Numbers ==
  /\ ProvidersLeft \in Nat /\ Unanswered \in {0, 1}
  /\ AttemptsLeft \in Nat /\ EntriesLeft \in Nat

LEMMA RemainingNumbers == NInv => Numbers
<1> SUFFICES ASSUME NInv PROVE Numbers
  OBVIOUS
<1>1. /\ pass.position \in 1 .. Len(sources) /\ Len(sources) \in Nat
      /\ pass.attempt \in 0 .. MaxAttempts - 1 /\ MaxAttempts \in Nat
      /\ pass.next \in Nat
  BY AttemptsAssumption, EditionsAssumption DEF NInv, Shapes
<1>2. ASSUME HasEntry PROVE Len(Payload) \in Nat
  <2>1. /\ sources[pass.position] \in DOMAIN Editions
        /\ Payload \in Editions[sources[pass.position]] \ {Malformed}
    BY <1>1, <1>2, EditionsAssumption DEF NInv, Shapes, ReadType, Ordered, HasEntry, Payload
  <2> QED BY <2>1, EditionsAssumption
<1>3. EntriesLeft \in Nat
  BY <1>1, <1>2 DEF EntriesLeft, HasEntry
<1> QED BY <1>1, <1>3 DEF Numbers, ProvidersLeft, Unanswered, AttemptsLeft

LEMMA RemainingNumbersNext == NInv' => Numbers'
BY RemainingNumbers, PTL

\* The triples of a step, by their components.
LEMMA Advance ==
  ASSUME Numbers, Numbers',
         \/ ProvidersLeft' < ProvidersLeft
         \/ /\ ProvidersLeft' = ProvidersLeft
            /\ \/ Unanswered' = 0 /\ Unanswered = 1
               \/ Unanswered' = 1 /\ Unanswered = 1 /\ AttemptsLeft' < AttemptsLeft
               \/ Unanswered' = 0 /\ Unanswered = 0 /\ EntriesLeft' < EntriesLeft
  PROVE  <<Remaining', Remaining>> \in PassOrder
<1> DEFINE Last == IF Unanswered = 1 THEN AttemptsLeft ELSE EntriesLeft
<1>1. ProvidersLeft \in Nat /\ Unanswered \in Nat /\ Last \in Nat
  BY DEF Numbers
<1>2. ProvidersLeft' \in Nat /\ Unanswered' \in Nat /\ Last' \in Nat
  BY DEF Numbers
<1>3. \/ ProvidersLeft' < ProvidersLeft
      \/ ProvidersLeft' = ProvidersLeft /\ Unanswered' < Unanswered
      \/ ProvidersLeft' = ProvidersLeft /\ Unanswered' = Unanswered /\ Last' < Last
  BY DEF Numbers
<1> HIDE DEF Last
<1>4. <<<<ProvidersLeft', Unanswered', Last'>>, <<ProvidersLeft, Unanswered, Last>>>>
        \in PassOrder
  BY <1>1, <1>2, <1>3, FirstLess
<1> QED BY <1>4 DEF Remaining, Last

\* A running pass has a provider left.
LEMMA ProviderLeft ==
  ASSUME NInv, Running
  PROVE  ProvidersLeft > 0
<1>1. pass.position \in 1 .. Len(sources) /\ Len(sources) \in Nat
  BY EditionsAssumption DEF NInv, Shapes
<1> QED BY <1>1 DEF ProvidersLeft

\* Each step of a running pass leaves less of it, so that after finitely
\* many the pass has ended: the attempts, the pauses, the entries and the
\* providers are each bounded, whatever the sites serve meanwhile
\* (http_sources.py 42-67, event_worker.py 19-78).
THEOREM PassesBounded ==
  /\ IsWellFoundedOn(PassOrder, [1 .. 3 -> Nat])
  /\ Spec => [](Remaining \in [1 .. 3 -> Nat]) /\ [][PassAdvances]_vars
<1>1. NInv => Remaining \in [1 .. 3 -> Nat]
  <2> SUFFICES ASSUME NInv PROVE Remaining \in [1 .. 3 -> Nat]
    OBVIOUS
  <2> DEFINE Last == IF Unanswered = 1 THEN AttemptsLeft ELSE EntriesLeft
  <2>1. ProvidersLeft \in Nat /\ Unanswered \in Nat /\ Last \in Nat
    BY RemainingNumbers DEF Numbers
  <2> HIDE DEF Last
  <2>2. <<ProvidersLeft, Unanswered, Last>> \in [1 .. 3 -> Nat]
    BY <2>1
  <2> QED BY <2>2 DEF Remaining, Last
<1>2. ASSUME NInv, NInv', Next, Running, pass' # pass
      PROVE  <<Remaining', Remaining>> \in PassOrder
  <2> DEFINE Less == \/ ProvidersLeft' < ProvidersLeft
                     \/ /\ ProvidersLeft' = ProvidersLeft
                        /\ \/ Unanswered' = 0 /\ Unanswered = 1
                           \/ /\ Unanswered' = 1 /\ Unanswered = 1
                              /\ AttemptsLeft' < AttemptsLeft
                           \/ /\ Unanswered' = 0 /\ Unanswered = 0
                              /\ EntriesLeft' < EntriesLeft
  <2>1. /\ pass \in [stage : Stages, position : 1 .. Len(sources),
                     attempt : 0 .. MaxAttempts - 1,
                     read : [1 .. Len(sources) -> {Unread} \cup Served],
                     next : Nat \ {0}]
        /\ Len(sources) \in Nat /\ MaxAttempts \in Nat
        /\ pass.position \in Nat /\ pass.attempt \in Nat /\ pass.next \in Nat
    BY <1>2, AttemptsAssumption, EditionsAssumption DEF NInv, Shapes
  <2>2. ProvidersLeft = Len(sources) + 1 - pass.position /\ ProvidersLeft > 0
    BY <1>2, ProviderLeft DEF ProvidersLeft
  <2>3. ASSUME pass'.stage \in {"failed", "completed"} PROVE Less
    <3>1. ~Running'
      BY <2>3 DEF Running
    <3>2. ProvidersLeft' = 0
      BY <3>1 DEF ProvidersLeft
    <3> QED BY <2>2, <3>2
  <2>4. ASSUME sources' = sources, pass'.position = pass.position, Running'
        PROVE  ProvidersLeft' = ProvidersLeft
    BY <2>2, <2>4 DEF ProvidersLeft
  <2>5. ASSUME AnsweredMalformed \/ Refused \/ EntryFails \/ Die PROVE Less
    <3>1. pass'.stage = "failed"
      BY <2>1, <2>5 DEF AnsweredMalformed, Refused, EntryFails, Die, Fail
    <3> QED BY <2>3, <3>1
  <2>6. ASSUME Answered PROVE Less
    <3>1. /\ pass.stage = "requesting" /\ pass'.stage = "yielding"
          /\ pass'.position = pass.position /\ sources' = sources
      BY <2>1, <2>6 DEF Answered
    <3>2. Running' /\ Unanswered' = 0
      BY <3>1 DEF Running, Unanswered
    <3>3. Unanswered = 1
      BY <3>1 DEF Unanswered
    <3> QED BY <2>4, <3>1, <3>2, <3>3
  <2>7. ASSUME TransientFailure PROVE Less
    <3>1. CASE pass.attempt = MaxAttempts - 1
      <4>1. pass'.stage = "failed"
        BY <2>1, <2>7, <3>1 DEF TransientFailure
      <4> QED BY <2>3, <4>1
    <3>2. CASE pass.attempt # MaxAttempts - 1
      <4>1. /\ pass.stage = "requesting" /\ pass'.stage = "waiting"
            /\ pass'.position = pass.position /\ sources' = sources
            /\ pass'.attempt = pass.attempt + 1
        BY <2>1, <2>7, <3>2 DEF TransientFailure, Network
      <4>2. Running' /\ Unanswered' = 1 /\ AttemptsLeft' = 2 * (MaxAttempts - pass'.attempt) + 1
        BY <4>1 DEF Running, Unanswered, AttemptsLeft
      <4>3. Unanswered = 1 /\ AttemptsLeft = 2 * (MaxAttempts - pass.attempt) + 0
        BY <4>1 DEF Unanswered, AttemptsLeft
      <4>4. pass'.attempt = pass.attempt + 1
        BY <4>1
      <4>5. AttemptsLeft' < AttemptsLeft
        BY <2>1, <4>2, <4>3, <4>4
      <4> QED BY <2>4, <4>1, <4>2, <4>3, <4>5
    <3> QED BY <3>1, <3>2
  <2>8. ASSUME Wake PROVE Less
    <3>1. /\ pass.stage = "waiting" /\ pass'.stage = "requesting"
          /\ pass'.position = pass.position /\ sources' = sources
      BY <2>1, <2>8 DEF Wake
    <3>2. pass'.attempt = pass.attempt
      BY <2>1, <2>8 DEF Wake
    <3>3. Running' /\ Unanswered' = 1 /\ AttemptsLeft' = 2 * (MaxAttempts - pass'.attempt) + 0
      BY <3>1 DEF Running, Unanswered, AttemptsLeft
    <3>4. Unanswered = 1 /\ AttemptsLeft = 2 * (MaxAttempts - pass.attempt) + 1
      BY <3>1 DEF Unanswered, AttemptsLeft
    <3>5. AttemptsLeft' < AttemptsLeft
      BY <2>1, <3>2, <3>3, <3>4
    <3> QED BY <2>4, <3>1, <3>3, <3>4, <3>5
  <2>9. ASSUME Skip \/ IngestItem PROVE Less
    <3>1. /\ HasEntry /\ pass'.stage = pass.stage /\ pass.stage = "yielding"
          /\ pass'.position = pass.position /\ sources' = sources
      BY <2>1, <2>9 DEF Skip, IngestItem, HasEntry
    <3>2. pass'.next = pass.next + 1 /\ Payload' = Payload
      BY <2>1, <2>9 DEF Skip, IngestItem, Payload
    <3>3. Running' /\ Unanswered' = 0
      BY <3>1 DEF Running, Unanswered
    <3>4. Unanswered = 0
      BY <3>1 DEF Unanswered
    <3>5. EntriesLeft = Len(Payload) + 1 - pass.next /\ EntriesLeft \in Nat
      BY <1>2, <3>1, RemainingNumbers DEF EntriesLeft, Numbers
    <3>6. HasEntry' => pass'.next <= Len(Payload) /\ EntriesLeft' = Len(Payload) + 1 - pass'.next
      BY <3>2 DEF EntriesLeft, HasEntry
    <3>7. ~HasEntry' => EntriesLeft' = 0
      BY DEF EntriesLeft
    <3>8. Len(Payload) \in Int /\ pass.next <= Len(Payload)
      <4>1. pass.read[pass.position] \in Editions[sources[pass.position]] \ {Malformed}
        BY <1>2, <2>1, <3>1 DEF NInv, Shapes, ReadType, Ordered
      <4>2. sources[pass.position] \in DOMAIN Editions
        BY <1>2, <2>1, EditionsAssumption DEF NInv, Shapes
      <4> QED BY <3>1, <4>1, <4>2, EditionsAssumption DEF HasEntry, Payload
    <3>9. EntriesLeft' < EntriesLeft
      <4>1. CASE HasEntry'
        BY <2>1, <3>2, <3>5, <3>6, <3>8, <4>1
      <4>2. CASE ~HasEntry'
        BY <2>1, <3>5, <3>7, <3>8, <4>2
      <4> QED BY <4>1, <4>2
    <3> QED BY <2>4, <3>1, <3>3, <3>4, <3>9
  <2>10. ASSUME NextSource PROVE Less
    <3>1. CASE pass.position = Len(sources)
      <4>1. pass'.stage = "completed"
        BY <2>1, <2>10, <3>1 DEF NextSource
      <4> QED BY <2>3, <4>1
    <3>2. CASE pass.position # Len(sources)
      <4>1. /\ pass'.stage = "requesting" /\ pass'.position = pass.position + 1
            /\ sources' = sources
        BY <2>1, <2>10, <3>2 DEF NextSource
      <4>2. Running'
        BY <4>1 DEF Running
      <4>3. ProvidersLeft' = Len(sources) + 1 - (pass.position + 1)
        BY <4>1, <4>2 DEF ProvidersLeft
      <4> QED BY <2>1, <2>2, <4>3
    <3> QED BY <3>1, <3>2
  <2>11. ~ (\E n \in 1 .. Len(sources) : Publish(n)) /\ ~Start
    BY <1>2 DEF Publish, Start, Running
  <2>12. Less
    BY <1>2, <2>5, <2>6, <2>7, <2>8, <2>9, <2>10, <2>11 DEF Next, Work
  <2>13. Numbers /\ Numbers'
    BY <1>2, RemainingNumbers, RemainingNumbersNext
  <2> QED BY <2>12, <2>13, Advance
<1>3. NInv /\ NInv' /\ [Next]_vars => [PassAdvances]_vars
  BY <1>2 DEF PassAdvances
<1>4. Spec => [](Remaining \in [1 .. 3 -> Nat]) /\ [][PassAdvances]_vars
  BY <1>1, <1>3, PassInvariant, PTL DEF Spec
<1> QED BY <1>4, PassOrderWellFounded
=============================================================================
