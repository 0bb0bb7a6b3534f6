---------------------------- MODULE NewsIngestion ----------------------------
(***************************************************************************)
(* One ingestion pass of services/worker/event_worker.py over its news     *)
(* providers: build_news_providers (app/providers/news/factory.py), the    *)
(* adapters and the bounded HTTP retry of app/providers/news/              *)
(* http_sources.py, and what the pass leaves in the raw items.             *)
(*                                                                         *)
(* main reads the providers one after another.  Each sends one request,    *)
(* tried MAX_HTTP_ATTEMPTS times, parses the answer and yields its items,  *)
(* and each item is ingested before the next is asked for.  Any exception  *)
(* ends the process with what is ingested so far; the next pass begins     *)
(* with the first provider again.  What a site serves may change at any    *)
(* time.                                                                   *)
(*                                                                         *)
(* ingest is EventService; here it stores an item once per identity, or    *)
(* meets the unique index on native ids.  A native id is the sequence of   *)
(* its parts: <<>> for None, <<NoText>> for the empty string.  The lease   *)
(* and the load before the pass are EventWorkers.  The length of a pause   *)
(* between attempts, and of a call, is left out: Wake ends the pause.      *)
(***************************************************************************)
EXTENDS Integers, Sequences

CONSTANTS
  Configurations,  \* sequences of sources: what Settings may configure
  Kind,            \* the kind of each source: rss, sec, fred or replay
  Name,            \* a feed's source_id, a filer's company, a series
  Editions,        \* what each source may serve, sequences of entries
  Malformed,       \* an answer that does not parse
  Followed,        \* the SEC forms taken
  NoText,          \* an empty or missing field
  Blank,           \* a field of white space
  MaxAttempts,     \* MAX_HTTP_ATTEMPTS, 3 in the code
  Unread           \* the source has not answered in this pass

ASSUME AttemptsAssumption == MaxAttempts \in Nat \ {0}

\* A deployment without a source does not start (config.py).
ASSUME EditionsAssumption ==
  /\ \A c \in Configurations :
       /\ Len(c) \in Nat \ {0}
       /\ \A n \in 1 .. Len(c) : c[n] \in DOMAIN Kind /\ c[n] \in DOMAIN Editions
  /\ \A s \in DOMAIN Editions :
       \A e \in Editions[s] : e # Unread /\ (e # Malformed => Len(e) \in Nat)

VARIABLES
  sources,   \* the providers of this deployment, in order
  feed,      \* what the site of each provider serves now
  stored,    \* raw_items: source, native id, content
  pass       \* the locals of the running pass, or of the last one

vars == <<sources, feed, stored, pass>>

\* Locals: the stage; the position in providers; the attempt of
\* _get_with_retry; what each provider has read; the next entry of the
\* provider being read.
NoPass ==
  [stage |-> "ended", position |-> 1, attempt |-> 0,
   read |-> [n \in 1 .. Len(sources) |-> Unread], next |-> 1]

Init ==
  /\ sources \in Configurations
  /\ feed \in [1 .. Len(sources) -> UNION {Editions[s] : s \in DOMAIN Editions}]
  /\ \A n \in 1 .. Len(sources) : feed[n] \in Editions[sources[n]]
  /\ stored = {}
  /\ pass = NoPass

\* A site serves something else: new entries, corrections, a broken answer.
Publish(n) ==
  /\ Kind[sources[n]] # "replay"
  /\ \E edition \in Editions[sources[n]] : feed' = [feed EXCEPT ![n] = edition]
  /\ UNCHANGED <<sources, stored, pass>>

Source == sources[pass.position]

-----------------------------------------------------------------------------
(* main.                                                                   *)

Start ==
  /\ pass.stage \in {"ended", "completed", "failed"}
  /\ pass' = [NoPass EXCEPT !.stage = "requesting"]
  /\ UNCHANGED <<sources, feed, stored>>

\* An exception leaves main: the process ends, the rest is not read.
Fail(stage) ==
  /\ pass.stage = stage
  /\ pass' = [pass EXCEPT !.stage = "failed"]
  /\ UNCHANGED <<sources, feed, stored>>

Running == pass.stage \in {"requesting", "waiting", "yielding"}

\* The process dies.
Die ==
  /\ Running
  /\ pass' = [pass EXCEPT !.stage = "failed"]
  /\ UNCHANGED <<sources, feed, stored>>

-----------------------------------------------------------------------------
(* _get_with_retry, and the parsing of a whole answer.                     *)

\* A success with an answer that parses, or the fixture of the replay.
Answered ==
  /\ pass.stage = "requesting"
  /\ feed[pass.position] # Malformed
  /\ pass' = [pass EXCEPT !.stage = "yielding", !.next = 1,
                          !.read[pass.position] = feed[pass.position]]
  /\ UNCHANGED <<sources, feed, stored>>

\* XML or JSON that does not parse, or SEC arrays of different lengths.
AnsweredMalformed ==
  /\ feed[pass.position] = Malformed
  /\ Fail("requesting")

Network == pass.stage = "requesting" /\ Kind[Source] # "replay"

\* A status or an error that is not tried again.
Refused == Network /\ Fail("requesting")

\* Faulty variant of TransientFailure: the attempt is not counted.
TransientFailureUncounted ==
  /\ Network
  /\ pass' = [pass EXCEPT !.stage = "waiting"]
  /\ UNCHANGED <<sources, feed, stored>>

\* A retryable status, a timeout or a network error: a pause, or, at the
\* last attempt, the error.
TransientFailure ==
  /\ Network
  /\ pass' = IF pass.attempt = MaxAttempts - 1
             THEN [pass EXCEPT !.stage = "failed"]
             ELSE [pass EXCEPT !.stage = "waiting", !.attempt = @ + 1]
  /\ UNCHANGED <<sources, feed, stored>>

Wake ==
  /\ pass.stage = "waiting"
  /\ pass' = [pass EXCEPT !.stage = "requesting"]
  /\ UNCHANGED <<sources, feed, stored>>

-----------------------------------------------------------------------------
(* The adapters: what an entry becomes.                                    *)

\* Nothing, an item, or an error that ends the stream: RSS skips entries
\* without title or link; SEC skips other forms and stumbles over an
\* acceptance time it cannot read; FRED skips missing values and stumbles
\* over a date it cannot read.
Yields(kind, e) ==
  CASE kind = "rss"  -> IF e.title = NoText \/ e.link = NoText THEN "nothing"
                        ELSE "item"
    [] kind = "sec"  -> IF e.form \notin Followed THEN "nothing"
                        ELSE IF e.accepted = "garbled" THEN "error"
                        ELSE "item"
    [] kind = "fred" -> IF e.date = NoText \/ e.value \in {NoText, "."}
                        THEN "nothing"
                        ELSE IF e.date = "garbled" THEN "error"
                        ELSE "item"
    [] OTHER         -> "item"

\* The guid as it is, or the stripped link.
GuidOrLink(e) == IF e.guid # NoText THEN e.guid ELSE e.link

\* Faulty variant of Native: a revised FRED value keeps its native id.
NativeByDate(kind, e) ==
  CASE kind = "rss"  -> IF GuidOrLink(e) = Blank THEN <<>> ELSE <<GuidOrLink(e)>>
    [] kind = "sec"  -> <<e.accession>>
    [] kind = "fred" -> <<e.date, e.vintage>>
    [] OTHER         -> <<e.native>>

\* native_id: guid or link, None if blank; the accession number, which may
\* be empty; date, vintage and value.
Native(kind, e) ==
  CASE kind = "rss"  -> IF GuidOrLink(e) = Blank THEN <<>> ELSE <<GuidOrLink(e)>>
    [] kind = "sec"  -> <<e.accession>>
    [] kind = "fred" -> <<e.date, e.vintage, e.value>>
    [] OTHER         -> <<e.native>>

\* provider and source_id: all filings have one.
SourceOf(s, e) ==
  CASE Kind[s] = "rss"  -> <<"official-rss", Name[s]>>
    [] Kind[s] = "sec"  -> <<"sec-edgar", "sec-edgar">>
    [] Kind[s] = "fred" -> <<"fred", Name[s]>>
    [] OTHER            -> <<"replay-news", e.source>>

\* What a FRED observation says, without the end of its vintage.
Reading(e) == <<e.date, e.vintage, e.value>>

\* What content_hash tells apart.
Content(s, e) ==
  CASE Kind[s] = "rss"  -> <<e.title, e.text>>
    [] Kind[s] = "sec"  -> <<Name[s], e.form, e.accession, e.accepted>>
    [] Kind[s] = "fred" -> <<Reading(e), e.until, Name[s]>>
    [] OTHER            -> <<e.text>>

Item(s, e) ==
  [source |-> SourceOf(s, e), native |-> Native(Kind[s], e), content |-> Content(s, e)]

\* native_id or the hash of the content.
Identity(i) ==
  IF i.native \in {<<>>, <<NoText>>}
  THEN <<i.source, "sha256", i.content>>
  ELSE <<i.source, i.native>>

SameIdentity(a, b) == Identity(a) = Identity(b)

KnownItem(items, i) == \E r \in items : SameIdentity(r, i)

\* The index on native ids takes the empty one for an id: a second item
\* with it, of another content, is refused.
Refuses(items, i) ==
  /\ ~KnownItem(items, i)
  /\ i.native # <<>>
  /\ \E r \in items : r.source = i.source /\ r.native = i.native

\* Faulty variant of Ingest: another content is another item.
IngestByContent(items, i) == items \cup {i}

\* ingest: an identity that is stored already is left as it is.
Ingest(items, i) == IF KnownItem(items, i) THEN items ELSE items \cup {i}

-----------------------------------------------------------------------------
(* async for item in provider.stream_items(): service.ingest(item).        *)

Payload == pass.read[pass.position]

HasEntry == pass.stage = "yielding" /\ pass.next <= Len(Payload)

Entry == Payload[pass.next]

Skip ==
  /\ HasEntry
  /\ Yields(Kind[Source], Entry) = "nothing"
  /\ pass' = [pass EXCEPT !.next = @ + 1]
  /\ UNCHANGED <<sources, feed, stored>>

IngestItem ==
  /\ HasEntry
  /\ Yields(Kind[Source], Entry) = "item"
  /\ ~Refuses(stored, Item(Source, Entry))
  /\ stored' = Ingest(stored, Item(Source, Entry))
  /\ pass' = [pass EXCEPT !.next = @ + 1]
  /\ UNCHANGED <<sources, feed>>

\* The entry cannot be read, or ingest raises, as it must where the index
\* refuses the item; items before it stay.
EntryFails ==
  /\ HasEntry
  /\ Yields(Kind[Source], Entry) # "nothing"
  /\ Fail("yielding")

\* The provider has nothing more: the next one, or the end of main.
NextSource ==
  /\ pass.stage = "yielding"
  /\ pass.next > Len(Payload)
  /\ pass' = IF pass.position = Len(sources)
             THEN [pass EXCEPT !.stage = "completed"]
             ELSE [pass EXCEPT !.stage = "requesting", !.attempt = 0,
                               !.next = 1, !.position = @ + 1]
  /\ UNCHANGED <<sources, feed, stored>>

-----------------------------------------------------------------------------
Work ==
  \/ Answered
  \/ AnsweredMalformed
  \/ Refused
  \/ TransientFailure
  \/ Wake
  \/ Skip
  \/ IngestItem
  \/ EntryFails
  \/ NextSource

Next ==
  \/ \E n \in 1 .. Len(sources) : Publish(n)
  \/ Start
  \/ Work
  \/ Die

Spec == Init /\ [][Next]_vars

\* A running pass goes on: its calls have timeouts, its pauses end.
FairSpec == Spec /\ WF_vars(Work)

-----------------------------------------------------------------------------
(* Types.                                                                  *)

Served == UNION {Editions[s] : s \in DOMAIN Editions}

Stages ==
  {"ended", "requesting", "waiting", "yielding", "completed", "failed"}

\* Shapes; what is read is an edition of its source; no more attempts are
\* made than allowed; an identity is stored once, a native id too.
TypeOK ==
  /\ sources \in Configurations
  /\ DOMAIN feed = 1 .. Len(sources)
  /\ \A n \in 1 .. Len(sources) : feed[n] \in Editions[sources[n]]
  /\ \A a, b \in stored :
       \/ SameIdentity(a, b)
       \/ a.source = b.source /\ a.native = b.native /\ a.native # <<>>
       => a = b
  /\ pass.stage \in Stages
  /\ pass.position \in 1 .. Len(sources)
  /\ pass.attempt \in 0 .. MaxAttempts - 1
  /\ pass.next \in Nat \ {0}
  /\ DOMAIN pass.read = 1 .. Len(sources)
  /\ \A n \in 1 .. Len(sources) :
       pass.read[n] \in {Unread} \cup (Editions[sources[n]] \ {Malformed})

-----------------------------------------------------------------------------
(* Properties.                                                             *)

\* The raw item an entry should become is there, or the one it repeats; a
\* FRED value that was revised is there beside the value it replaces.
Kept(s, e) ==
  Yields(Kind[s], e) = "item" =>
    \E r \in stored :
      /\ SameIdentity(r, Item(s, e))
      /\ Kind[s] = "fred" => r.content[1] = Reading(e)

\* How far a pass has read the entries of the provider at n.
ReadUpTo(n) ==
  CASE pass.read[n] = Unread   -> 0
    [] pass.read[n] # Unread /\ n < pass.position -> Len(pass.read[n])
    [] OTHER                   -> pass.next - 1

\* A pass, running, ended or broken off by any failure, has ingested what
\* it read, entry by entry and provider by provider, and nothing further:
\* a failure loses no item before it and reads no provider after it.  A
\* pass that completed has read every configured provider and holds every
\* item of each, FRED revisions among them (DEVELOPMENT_STATUS.md:38:
\* "Configured event adapters perform one bounded ingestion pass").
PassCoversFeeds ==
  /\ \A n \in 1 .. Len(sources) :
       /\ n < pass.position => pass.read[n] # Unread
       /\ n > pass.position => pass.read[n] = Unread
       /\ \A k \in 1 .. ReadUpTo(n) : Kept(sources[n], pass.read[n][k])
  /\ pass.stage = "completed" =>
       \A n \in 1 .. Len(sources) :
         /\ pass.read[n] # Unread
         /\ \A k \in 1 .. Len(pass.read[n]) : Kept(sources[n], pass.read[n][k])

\* "Bounded retry behavior" (DEVELOPMENT_STATUS.md:17): whatever the sites
\* do, however often, a pass comes to an end.
PassEnds == Running ~> ~Running
=============================================================================
