---------------------------- MODULE EventReaders ----------------------------
(***************************************************************************)
(* The API process reading canonical events while a worker writes them:    *)
(* the event routes of app/main.py, EventService.refresh and               *)
(* get_event_version, and the two-statement reads of SqlEventRepository.   *)
(*                                                                         *)
(* Each request runs refresh or get_event_version in a thread of the pool, *)
(* on one shared EventService.  A read is two SELECTs at READ COMMITTED,   *)
(* so commits fall between them; refresh then assigns _events and          *)
(* _versions one after the other; the route reads _events afterwards, on   *)
(* the event loop.  The API never reads its _by_identity and               *)
(* _by_content_hash, which are left out.  The writer is EventLog, which   *)
(* EventService implements: one service whose memory agrees with the       *)
(* tables whenever it decides.                                             *)
(***************************************************************************)
EXTENDS EventLog

CONSTANTS
  Requests,     \* threads of the pool, one request each
  MaxVersion,   \* the highest event_version a client asks for
  None          \* no answer yet, or no version asked for

ASSUME MaxVersionAssumption == MaxVersion \in Nat

VARIABLES
  events,     \* _events: the API's current canonical events
  versions,   \* _versions: the API's cache of event versions
  stage,      \* where each request is
  rows,       \* what its first SELECT returned
  loaded,     \* the events its load_state built
  asked,      \* the event and version a version request names
  since,      \* the current events when it began (no variable of the code)
  answer      \* the events of its response

vars == <<db, events, versions, stage, rows, loaded, asked, since, answer>>

CurrentEvents == LoadState(db).events

Target == [event : EventIds, version : 1 .. MaxVersion]

\* The API process is up, with the events of an empty database.
Init ==
  /\ db = EmptyTables
  /\ events = {}
  /\ versions = {}
  /\ stage = [r \in Requests |-> "idle"]
  /\ rows = [r \in Requests |-> {}]
  /\ loaded = [r \in Requests |-> {}]
  /\ asked = [r \in Requests |-> None]
  /\ since = [r \in Requests |-> {}]
  /\ answer = [r \in Requests |-> None]

\* The worker's ingest commits one item it does not know.
Commit(i) ==
  /\ LogCommit(i)
  /\ UNCHANGED <<events, versions, stage, rows, loaded, asked, since, answer>>

-----------------------------------------------------------------------------
(* GET /api/v1/events and /api/v1/events/{id}: refresh, then read.         *)

\* The request arrives; load_state, first SELECT.
SelectRows(r) ==
  /\ stage[r] = "idle"
  /\ stage' = [stage EXCEPT ![r] = "selected"]
  /\ rows' = [rows EXCEPT ![r] = LatestRows(db)]
  /\ since' = [since EXCEPT ![r] = CurrentEvents]
  /\ UNCHANGED <<db, events, versions, loaded, asked, answer>>

\* load_state, second SELECT, and the assembly of the events.
SelectMentions(r) ==
  /\ stage[r] = "selected"
  /\ stage' = [stage EXCEPT ![r] = "assembled"]
  /\ loaded' = [loaded EXCEPT ![r] = Assemble(rows[r], db.mentions).events]
  /\ rows' = [rows EXCEPT ![r] = {}]
  /\ UNCHANGED <<db, events, versions, asked, since, answer>>

\* Faulty variant of InstallEvents: only an empty service is filled.
InstallEventsOnce(r) ==
  /\ stage[r] = "assembled"
  /\ stage' = [stage EXCEPT ![r] = "installing"]
  /\ events' = IF events = {} THEN loaded[r] ELSE events
  /\ UNCHANGED <<db, versions, rows, loaded, asked, since, answer>>

\* refresh assigns _events.
InstallEvents(r) ==
  /\ stage[r] = "assembled"
  /\ stage' = [stage EXCEPT ![r] = "installing"]
  /\ events' = loaded[r]
  /\ UNCHANGED <<db, versions, rows, loaded, asked, since, answer>>

\* refresh assigns _versions.
InstallVersions(r) ==
  /\ stage[r] = "installing"
  /\ stage' = [stage EXCEPT ![r] = "refreshed"]
  /\ versions' = loaded[r]
  /\ loaded' = [loaded EXCEPT ![r] = {}]
  /\ UNCHANGED <<db, events, rows, asked, since, answer>>

\* The route reads _events.
AnswerEvents(r) ==
  /\ stage[r] = "refreshed"
  /\ stage' = [stage EXCEPT ![r] = "listed"]
  /\ answer' = [answer EXCEPT ![r] = events]
  /\ UNCHANGED <<db, events, versions, rows, loaded, asked, since>>

-----------------------------------------------------------------------------
(* GET /api/v1/events/{id}/versions/{v}: get_event_version.                *)

Cached(t) == {ev \in versions : ev.id = t.event /\ ev.version = t.version}

\* The version is in _versions.
AnswerCached(r, t) ==
  /\ stage[r] = "idle"
  /\ Cached(t) # {}
  /\ stage' = [stage EXCEPT ![r] = "versioned"]
  /\ asked' = [asked EXCEPT ![r] = t]
  /\ answer' = [answer EXCEPT ![r] = Cached(t)]
  /\ UNCHANGED <<db, events, versions, rows, loaded, since>>

\* It is not; load_event_version, first SELECT.
SelectVersionRow(r, t) ==
  /\ stage[r] = "idle"
  /\ Cached(t) = {}
  /\ asked' = [asked EXCEPT ![r] = t]
  /\ LET found == {x \in db.rows : x.id = t.event /\ x.version = t.version}
     IN  /\ rows' = [rows EXCEPT ![r] = found]
         /\ IF found = {}
            THEN /\ stage' = [stage EXCEPT ![r] = "versioned"]
                 /\ answer' = [answer EXCEPT ![r] = {}]
            ELSE /\ stage' = [stage EXCEPT ![r] = "version row"]
                 /\ UNCHANGED answer
  /\ UNCHANGED <<db, events, versions, loaded, since>>

\* Faulty variant of SelectVersionMentions: all mentions of the event.
SelectAllMentions(r) ==
  /\ stage[r] = "version row"
  /\ stage' = [stage EXCEPT ![r] = "versioned"]
  /\ LET t     == asked[r]
         found == {WithMentions(x, MentionsAt(db, t.event, MaxVersion)) :
                     x \in rows[r]}
     IN  /\ answer' = [answer EXCEPT ![r] = found]
         /\ versions' = (versions \ Cached(t)) \cup found
  /\ rows' = [rows EXCEPT ![r] = {}]
  /\ UNCHANGED <<db, events, loaded, asked, since>>

\* load_event_version, second SELECT; the answer is kept in _versions.
SelectVersionMentions(r) ==
  /\ stage[r] = "version row"
  /\ stage' = [stage EXCEPT ![r] = "versioned"]
  /\ LET t     == asked[r]
         found == {WithMentions(x, MentionsAt(db, t.event, t.version)) :
                     x \in rows[r]}
     IN  /\ answer' = [answer EXCEPT ![r] = found]
         /\ versions' = (versions \ Cached(t)) \cup found
  /\ rows' = [rows EXCEPT ![r] = {}]
  /\ UNCHANGED <<db, events, loaded, asked, since>>

\* The response is sent; the thread is free.
Release(r) ==
  /\ stage[r] \in {"listed", "versioned"}
  /\ stage' = [stage EXCEPT ![r] = "idle"]
  /\ rows' = [rows EXCEPT ![r] = {}]
  /\ since' = [since EXCEPT ![r] = {}]
  /\ asked' = [asked EXCEPT ![r] = None]
  /\ answer' = [answer EXCEPT ![r] = None]
  /\ UNCHANGED <<db, events, versions, loaded>>

Serve(r) ==
  \/ SelectMentions(r)
  \/ InstallEvents(r)
  \/ InstallVersions(r)
  \/ AnswerEvents(r)
  \/ SelectVersionMentions(r)
  \/ Release(r)

Next ==
  \/ \E i \in Envelopes : Commit(i)
  \/ \E r \in Requests : SelectRows(r)
  \/ \E r \in Requests, t \in Target : AnswerCached(r, t)
  \/ \E r \in Requests, t \in Target : SelectVersionRow(r, t)
  \/ \E r \in Requests : Serve(r)

Spec == Init /\ [][Next]_vars

\* The pool runs the threads it has started, and clients go on asking for
\* events: every list page load does.  Nothing is assumed of the writer.
Fairness ==
  \A r \in Requests : WF_vars(Serve(r)) /\ SF_vars(SelectRows(r))

FairSpec == Spec /\ Fairness

-----------------------------------------------------------------------------
(* Types.                                                                  *)

Stages ==
  {"idle", "selected", "assembled", "installing", "refreshed", "listed",
   "version row", "versioned"}

\* Shapes of the tables, the caches and the requests.  What load_state or
\* load_event_version selects, and the tuple load_state builds of it, have
\* one version of each event; so has _events, and _versions one event for
\* each id and version.
TypeOK ==
  /\ db \in TablesType
  /\ events \in SUBSET EventType
  /\ versions \in SUBSET EventType
  /\ \A a, b \in events : a.id = b.id => a = b
  /\ \A a, b \in versions : a.id = b.id /\ a.version = b.version => a = b
  /\ \A r \in Requests : \A a, b \in rows[r] : a.id = b.id => a = b
  /\ \A r \in Requests : \A a, b \in loaded[r] : a.id = b.id => a = b
  /\ stage \in [Requests -> Stages]
  /\ rows \in [Requests -> SUBSET RowType]
  /\ loaded \in [Requests -> SUBSET EventType]
  /\ asked \in [Requests -> Target \cup {None}]
  /\ since \in [Requests -> SUBSET EventType]
  /\ answer \in [Requests -> (SUBSET EventType) \cup {None}]

-----------------------------------------------------------------------------
(* Properties.                                                             *)

Served ==
  events \cup versions \cup UNION {answer[r] : r \in {q \in Requests : answer[q] # None}}

\* Nothing invented, nothing missing: whatever the API holds or has answered
\* is a committed version with every mention that version was written from
\* (it may hold later ones too), however the two SELECTs, the assignments
\* and the commits interleave.
ServedVersionsComplete ==
  \A ev \in Served :
    /\ Row(ev) \in db.rows
    /\ MentionsAt(db, ev.id, ev.version) \subseteq ev.mentions
    /\ \A i \in ev.mentions :
         \E x \in db.mentions : x.item = i /\ x.event = ev.id

\* An answer read from the tables by the two SELECTs of load_event_version
\* is the version as it was recorded, although newer versions commit
\* between the SELECTs.
HistoricalReadsExact ==
  [][\A r \in Requests :
       (stage[r] = "version row" /\ stage'[r] = "versioned") =>
         answer'[r] = LoadEventVersion(db, asked[r].event, asked[r].version)]_vars

\* Once the worker has stopped, the events the API serves become, and stay,
\* the committed ones: old refreshes still under way cannot leave the API
\* behind for ever.
EventuallyCurrent == <>[](events = CurrentEvents)

\* event_repository.py:115 (get_event_version serves it): "Reconstruct
\* cumulative mention membership as known at a historical version."
VersionAnswersExact ==
  \A r \in Requests :
    stage[r] = "versioned" =>
      answer[r] \subseteq LoadEventVersion(db, asked[r].event, asked[r].version)

\* service.py:71: "Reload indexes so API readers observe commits made by
\* the ingestion worker."  A request answers no older version of an event
\* than the one that was current when it began.
RefreshObservesCommits ==
  \A r \in Requests :
    stage[r] = "listed" =>
      \A old \in since[r] :
        \E ev \in answer[r] : ev.id = old.id /\ ev.version >= old.version
=============================================================================
