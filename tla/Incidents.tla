----------------------------- MODULE Incidents -----------------------------
(***************************************************************************)
(* The incidents of one organization: POST /events/ingest of the base      *)
(* detection types (server/src/routes/events.routes.ts) and the same work  *)
(* for a queued job (jobs/worker.ts), with correlation ids, evidence in    *)
(* the object store, notifications and the realtime message; the status    *)
(* changes and notes of operators; the notification rules; and a camera    *)
(* that is deleted with its incidents while the dashboard counts cameras   *)
(* in its cache (services/cache.service.ts, routes/misc.routes.ts).        *)
(*                                                                         *)
(* A request is a READ COMMITTED transaction, one step per statement; its  *)
(* rows are kept in the request until it commits.  A foreign key locks the *)
(* row it refers to until the transaction ends, and DELETE waits for that. *)
(* An event is named by the request that inserted it.  A statement after   *)
(* which only the audit row and COMMIT follow is one step with them; the   *)
(* audit row itself is left out.                                           *)
(***************************************************************************)
EXTENDS Naturals, FiniteSets

CONSTANTS
  Request,      \* requests there can be
  Camera, Rule, \* rows there can be
  Correlation,  \* correlation ids; Nil is a request without one
  MinSeverity,  \* [Rule -> min_severity]
  Severity,     \* severities that occur, by SEVERITY_RANK
  Viewer,       \* readers of the dashboard
  CacheTtl,     \* the 15 seconds of cacheSet
  RequestTime,  \* bound on how long a dashboard request takes
  MaxClock,     \* bound on the time
  Nil

ASSUME IncidentConstants ==
  /\ CacheTtl \in Nat /\ RequestTime \in Nat /\ MaxClock \in Nat
  /\ MinSeverity \in [Rule -> Nat] /\ Severity \subseteq Nat
  /\ Nil \notin Request \cup Camera \cup {"OPEN", "RESOLVED"}

VARIABLES
  clock,
  cameras,    \* rows of cameras
  status,     \* [Request -> status of the event it inserted, or Nil: no row]
  evidence,   \* rows of event_evidence: [event, key]
  notes,      \* rows of incident_notes: [event, by]
  notified,   \* rows of notifications: [event, rule, by]; a rule that is
              \* deleted, to which the column turns NULL, keeps its name here
  rules,      \* rows of notification_rules
  files,      \* keys in the object store
  messages,   \* event.created sent: [event, by]
  req,        \* the requests, Nil before they come
  cache,      \* the entry dashboard_stats, or Nil
  view,       \* [Viewer -> its request of the dashboard]
  changed     \* history: when a camera was last deleted

rows == <<cameras, status, evidence, notes, notified, rules>>
board == <<cache, view, changed>>
vars == <<clock, rows, files, messages, req, board>>

----------------------------------------------------------------------------
Ingest == {"route", "job"}
Kind == Ingest \cup {"status", "note", "remove"}

events == {e \in Request : status[e] # Nil}
Of(kinds) == {r \in Request : req[r] # Nil /\ req[r].kind \in kinds}
At(r, step) == req[r] # Nil /\ req[r].step = step
Ended == {"failed", "committed", "done"}

(* Ingests whose transaction is open, and those that have committed.       *)
Running == {r \in Of(Ingest) : req[r].step \notin Ended}
Answered == {r \in Of(Ingest) : req[r].step \in {"committed", "done"}}

SameCorrelation(r, s) ==
  req[r].correlation # Nil /\ req[s].correlation = req[r].correlation

Go(r, step) == req' = [req EXCEPT ![r].step = step]

(* The transaction is rolled back; files it stored stay.                   *)
Failed(request) ==
  [request EXCEPT !.step = "failed", !.event = Nil, !.key = Nil, !.read = {}]
Fail(r) == req' = [req EXCEPT ![r] = Failed(@)]

(* A foreign key of r is satisfied by the event.                           *)
Sees(r, e) == e \in events \/ e = r

(* r has inserted a row that refers to its event (or inserted the event,   *)
(* which refers to the camera).                                            *)
Pins(r) ==
  \/ req[r].event = r
  \/ req[r].key # Nil /\ req[r].step # "stored"
  \/ req[r].read # {} /\ req[r].step \in {"notified", "announced"}

----------------------------------------------------------------------------
(* The request finds its camera or event (requireTenantResource and, for a *)
(* job, its own SELECT; 404 otherwise).                                    *)
Arrive(r, kind, camera, correlation, severity, event) ==
  /\ req[r] = Nil
  /\ IF kind \in {"status", "note"} THEN event \in events ELSE event = Nil
  /\ IF kind \in Ingest \cup {"remove"} THEN camera \in cameras ELSE camera = Nil
  /\ IF kind \in Ingest THEN severity \in Severity ELSE severity = Nil
  /\ kind \notin Ingest => correlation = Nil
  /\ req' = [req EXCEPT ![r] =
       [kind |-> kind, step |-> "checked", camera |-> camera,
        correlation |-> correlation, severity |-> severity, event |-> event,
        key |-> Nil, read |-> {}, stable |-> rules, disturbed |-> FALSE]]
  /\ UNCHANGED <<clock, rows, files, messages, board>>

(* [mutant] an insert does not wait for one that has not committed. *)
NothingInFlight(r) == FALSE

(* Another transaction has inserted the correlation id and not ended.      *)
InFlight(r) ==
  \E s \in Running \ {r} : req[s].event = s /\ SameCorrelation(r, s)

(* [mutant] without ON CONFLICT the unique index refuses a second row. *)
InsertOrFail(r) ==
  /\ r \in Running /\ At(r, "checked") /\ ~InFlight(r)
  /\ IF req[r].camera \notin cameras \/ \E e \in events : SameCorrelation(r, e)
     THEN Fail(r)
     ELSE req' = [req EXCEPT ![r].step = "event", ![r].event = r]
  /\ UNCHANGED <<clock, rows, files, messages, board>>

(* INSERT ... ON CONFLICT DO NOTHING waits for an uncommitted row with the *)
(* correlation id and skips a committed one; the foreign key wants the     *)
(* camera to be there still.                                               *)
InsertEvent(r) ==
  /\ r \in Running /\ At(r, "checked") /\ ~InFlight(r)
  /\ IF \E e \in events : SameCorrelation(r, e) THEN Go(r, "conflict")
     ELSE IF req[r].camera \notin cameras THEN Fail(r)
     ELSE req' = [req EXCEPT ![r].step = "event", ![r].event = r]
  /\ UNCHANGED <<clock, rows, files, messages, board>>

(* The event that has the correlation id, unless it is gone again.         *)
FindEvent(r) ==
  /\ r \in Running /\ At(r, "conflict")
  /\ IF \E e \in events : SameCorrelation(r, e)
     THEN \E e \in events :
            /\ SameCorrelation(r, e)
            /\ req' = [req EXCEPT ![r].step = "event", ![r].event = e]
     ELSE Fail(r)
  /\ UNCHANGED <<clock, rows, files, messages, board>>

NewKey(r) == [camera |-> req[r].camera, event |-> req[r].event, at |-> clock]

(* [mutant] putObject is not awaited and its failure not noticed. *)
StoreUnawaited(r) ==
  /\ r \in Running /\ At(r, "event")
  /\ files' \in {files, files \cup {NewKey(r)}}
  /\ req' = [req EXCEPT ![r].step = "stored", ![r].key = NewKey(r)]
  /\ UNCHANGED <<clock, rows, messages, board>>

(* A request with a snapshot: putObject, then the row that refers to it.   *)
StoreSnapshot(r) ==
  /\ r \in Running /\ At(r, "event")
  /\ files' = files \cup {NewKey(r)}
  /\ req' = [req EXCEPT ![r].step = "stored", ![r].key = NewKey(r)]
  /\ UNCHANGED <<clock, rows, messages, board>>

InsertEvidence(r) ==
  /\ r \in Running /\ At(r, "stored")
  /\ IF Sees(r, req[r].event) THEN Go(r, "filed") ELSE Fail(r)
  /\ UNCHANGED <<clock, rows, files, messages, board>>

(* [mutant] a severity equal to the minimum is not enough. *)
DueAbove(rule, severity) == MinSeverity[rule] < severity

Due(rule, severity) == MinSeverity[rule] <= severity

(* dispatchNotifications: the rules are read, then a row is inserted for   *)
(* each that is due, if rule and event are there still.                    *)
ReadRules(r) ==
  /\ r \in Running /\ req[r].step \in {"event", "filed"}
  /\ req' = [req EXCEPT ![r].step = "rules",
               ![r].read = {n \in rules : Due(n, req[r].severity)}]
  /\ UNCHANGED <<clock, rows, files, messages, board>>

Notify(r) ==
  /\ r \in Running /\ At(r, "rules")
  /\ IF req[r].read # {} => req[r].read \subseteq rules /\ Sees(r, req[r].event)
     THEN Go(r, "notified") ELSE Fail(r)
  /\ UNCHANGED <<clock, rows, files, messages, board>>

(* putObject (mkdir, writeFile), a statement or the COMMIT throws, at any   *)
(* step of an ingest.  A file written in part stays like one that was      *)
(* stored before the failure.                                              *)
Throw(r) ==
  /\ r \in Running
  /\ req' = [req EXCEPT ![r] = [Failed(@) EXCEPT !.disturbed = TRUE]]
  /\ UNCHANGED <<clock, rows, files, messages, board>>

Message(r) == [event |-> req[r].event, by |-> r]

(* A job is announced in its transaction, a request of the route after it. *)
Announce(r) ==
  /\ \/ req[r].kind = "job" /\ At(r, "notified") /\ Go(r, "announced")
     \/ req[r].kind = "route" /\ At(r, "committed") /\ Go(r, "done")
  /\ messages' = messages \cup {Message(r)}
  /\ UNCHANGED <<clock, rows, files, board>>

CommitRows(r) ==
  /\ status' = IF req[r].event = r THEN [status EXCEPT ![r] = "OPEN"] ELSE status
  /\ evidence' = IF req[r].key = Nil THEN evidence
                 ELSE evidence \cup {[event |-> req[r].event, key |-> req[r].key]}
  /\ notified' = notified \cup
       {[event |-> req[r].event, rule |-> n, by |-> r] : n \in req[r].read}
  /\ UNCHANGED <<clock, cameras, notes, rules, files, messages, board>>

(* [mutant] both ways announce after the commit, which may be cut off. *)
CommitFirst(r) ==
  /\ r \in Running /\ At(r, "notified")
  /\ Go(r, "committed")
  /\ CommitRows(r)

Commit(r) ==
  /\ r \in Running
  /\ \/ req[r].kind = "route" /\ At(r, "notified") /\ Go(r, "committed")
     \/ req[r].kind = "job" /\ At(r, "announced") /\ Go(r, "done")
  /\ CommitRows(r)

----------------------------------------------------------------------------
(* PATCH status: the UPDATE changes no row if the event is gone by now.    *)
SetStatus(r, new) ==
  /\ r \in Of({"status"}) /\ At(r, "checked")
  /\ status' = IF req[r].event \in events
               THEN [status EXCEPT ![req[r].event] = new] ELSE status
  /\ Go(r, "done")
  /\ UNCHANGED <<clock, cameras, evidence, notes, notified, rules, files,
                 messages, board>>

(* POST notes. *)
AddNote(r) ==
  /\ r \in Of({"note"}) /\ At(r, "checked")
  /\ IF req[r].event \in events
     THEN /\ notes' = notes \cup {Message(r)}
          /\ Go(r, "done")
     ELSE Fail(r) /\ UNCHANGED notes
  /\ UNCHANGED <<clock, cameras, status, evidence, notified, rules, files,
                 messages, board>>

CreateRule(n) ==
  /\ n \notin rules
  /\ rules' = rules \cup {n}
  /\ UNCHANGED <<clock, cameras, status, evidence, notes, notified, files,
                 messages, req, board>>

(* Deleting a rule or a camera is history of the ingests it may disturb,   *)
(* as an error and a restart are of those they end.                        *)
Disturb(gone) ==
  [r \in Request |->
     IF r \in Running THEN [req[r] EXCEPT !.disturbed = TRUE, !.stable = @ \ gone]
     ELSE req[r]]

DeleteRule(n) ==
  /\ n \in rules
  /\ \A r \in Running : n \in req[r].read => req[r].step = "rules"
  /\ rules' = rules \ {n}
  /\ req' = Disturb({n})
  /\ UNCHANGED <<clock, cameras, status, evidence, notes, notified, files,
                 messages, board>>

(* A row inserted by an open transaction refers to the camera or to one of *)
(* its events.                                                             *)
Pinned(c) ==
  \E r \in Running : req[r].event # Nil /\ req[req[r].event].camera = c /\ Pins(r)

(* DELETE of the camera and, by cascade, of its events and their rows.     *)
RemoveCamera(r) ==
  LET c == req[r].camera
      gone == {e \in events : req[e].camera = c}
      Left(table) == {row \in table : row.event \notin gone} IN
  /\ r \in Of({"remove"}) /\ At(r, "checked")
  /\ ~Pinned(c)
  /\ cameras' = cameras \ {c}
  /\ status' = [e \in Request |-> IF e \in gone THEN Nil ELSE status[e]]
  /\ evidence' = Left(evidence) /\ notes' = Left(notes) /\ notified' = Left(notified)
  /\ req' = [Disturb({}) EXCEPT ![r].step = "removed"]
  /\ changed' = clock
  /\ UNCHANGED <<clock, rules, files, messages, cache, view>>

Invalidate(r) ==
  /\ r \in Of({"remove"}) /\ At(r, "removed")
  /\ cache' = Nil
  /\ Go(r, "done")
  /\ UNCHANGED <<clock, rows, files, messages, view, changed>>

----------------------------------------------------------------------------
Idle == [step |-> "idle", since |-> 0, value |-> {}]

(* [mutant] an entry is used however old it is. *)
CacheKept == cache # Nil

CacheHit == IF cache = Nil THEN FALSE ELSE cache.expires >= clock

(* GET /dashboard: the cached value is shown, or counted and cached.       *)
Look(v) ==
  /\ view[v].step = "idle"
  /\ view' = [view EXCEPT ![v] =
       IF CacheHit THEN [step |-> "shown", since |-> clock, value |-> cache.value]
       ELSE [step |-> "miss", since |-> clock, value |-> {}]]
  /\ UNCHANGED <<clock, rows, files, messages, req, cache, changed>>

Count(v) ==
  /\ view[v].step = "miss"
  /\ view' = [view EXCEPT ![v].step = "counted", ![v].value = cameras]
  /\ UNCHANGED <<clock, rows, files, messages, req, cache, changed>>

CacheSet(v) ==
  /\ view[v].step = "counted"
  /\ cache' = [value |-> view[v].value, expires |-> clock + CacheTtl]
  /\ view' = [view EXCEPT ![v].step = "shown"]
  /\ UNCHANGED <<clock, rows, files, messages, req, changed>>

Close(v) ==
  /\ view[v].step = "shown"
  /\ view' = [view EXCEPT ![v] = Idle]
  /\ UNCHANGED <<clock, rows, files, messages, req, cache, changed>>

Tick ==
  /\ clock < MaxClock
  /\ \A v \in Viewer :
       /\ view[v].step # "shown"
       /\ view[v].step # "idle" => clock < view[v].since + RequestTime
  /\ clock' = clock + 1
  /\ UNCHANGED <<rows, files, messages, req, board>>

(* The API process restarts: open transactions are rolled back, and what   *)
(* was to follow a commit does not happen.                                 *)
Restart ==
  /\ req' = [r \in Request |->
       IF req[r] = Nil THEN Nil
       ELSE IF req[r].step \in {"committed", "removed"}
       THEN [req[r] EXCEPT !.step = "done"]
       ELSE IF req[r].step \in Ended THEN req[r]
       ELSE [Failed(req[r]) EXCEPT !.disturbed = TRUE]]
  /\ cache' = Nil
  /\ view' = [v \in Viewer |-> Idle]
  /\ UNCHANGED <<clock, rows, files, messages, changed>>

----------------------------------------------------------------------------
Init ==
  /\ clock = 0
  /\ cameras = Camera
  /\ status = [r \in Request |-> Nil]
  /\ evidence = {} /\ notes = {} /\ notified = {}
  /\ rules \in SUBSET Rule
  /\ files = {} /\ messages = {}
  /\ req = [r \in Request |-> Nil]
  /\ cache = Nil
  /\ view = [v \in Viewer |-> Idle]
  /\ changed = 0

Step(r) ==
  \/ InsertEvent(r) \/ FindEvent(r) \/ StoreSnapshot(r) \/ InsertEvidence(r)
  \/ ReadRules(r) \/ Notify(r) \/ Commit(r) \/ Throw(r)
  \/ r \in Of(Ingest) /\ Announce(r)
  \/ AddNote(r) \/ \E new \in {"OPEN", "RESOLVED"} : SetStatus(r, new)
  \/ RemoveCamera(r) \/ Invalidate(r)

Next ==
  \/ \E r \in Request :
       \/ Step(r)
       \/ req[r] = Nil /\ \E kind \in Kind, camera \in Camera \cup {Nil},
             correlation \in Correlation \cup {Nil},
             severity \in Severity \cup {Nil}, event \in events \cup {Nil} :
            Arrive(r, kind, camera, correlation, severity, event)
  \/ \E n \in Rule : CreateRule(n) \/ DeleteRule(n)
  \/ \E v \in Viewer : Look(v) \/ Count(v) \/ CacheSet(v) \/ Close(v)
  \/ Tick \/ Restart

Spec == Init /\ [][Next]_vars

----------------------------------------------------------------------------
Keys == [camera : Camera, event : Request, at : 0..MaxClock]
Requests ==
  [kind : Kind, camera : Camera \cup {Nil}, correlation : Correlation \cup {Nil},
   step : Ended \cup {"checked", "conflict", "event", "stored", "filed", "rules",
                      "notified", "announced", "removed"},
   severity : Severity \cup {Nil}, event : Request \cup {Nil},
   key : Keys \cup {Nil}, read : SUBSET Rule, stable : SUBSET Rule,
   disturbed : BOOLEAN]
Entry == [value : SUBSET Camera, expires : Nat]

ASSUME NilAssumption == Nil \notin Requests \cup Keys \cup Entry

(* Every variable has the type the schema and the routes give it.          *)
TypeOK ==
  /\ clock \in 0..MaxClock /\ changed \in 0..MaxClock
  /\ cameras \subseteq Camera /\ rules \subseteq Rule /\ files \subseteq Keys
  /\ status \in [Request -> {"OPEN", "RESOLVED", Nil}]
  /\ evidence \subseteq [event : Request, key : Keys]
  /\ notes \cup messages \subseteq [event : Request, by : Request]
  /\ notified \subseteq [event : Request, rule : Rule, by : Request]
  /\ req \in [Request -> Requests \cup {Nil}]
  /\ cache \in Entry \cup {Nil}
  /\ view \in [Viewer -> [step : {"idle", "miss", "counted", "shown"},
                          since : 0..MaxClock, value : SUBSET Camera]]

(* The schema's "Idempotency" (0001_init.sql:223): all ingests of one      *)
(* correlation id that are answered name one event, by route or by job and *)
(* however they overlap, unless that event was deleted in between.         *)
RetriesAgree ==
  \A r, s \in Answered :
    SameCorrelation(r, s) /\ {req[r].event, req[s].event} \subseteq events =>
      req[r].event = req[s].event

(* That the same detection is ingested twice never makes an ingest fail    *)
(* (events.routes.ts:249-266): it takes a restart, an error of the store   *)
(* or the database, or a camera or a notification rule deleted meanwhile.  *)
FailsOnlyIfDisturbed ==
  \A r \in Of(Ingest) : req[r].step = "failed" => req[r].disturbed

(* Evidence that has a row has its file, and rows of evidence, notes and   *)
(* notifications have their event and its camera, whatever is deleted      *)
(* meanwhile and wherever a restart cuts the work off.                     *)
RowsComplete ==
  /\ \A row \in evidence : row.key \in files
  /\ \A row \in evidence \cup notes \cup notified : row.event \in events
  /\ \A e \in events : req[e].camera \in cameras

(* An answered ingest has notified every rule that was due and there all   *)
(* the time, and none that was not due (notification.service.ts:21-40).    *)
DueRulesNotified ==
  \A r \in Answered : req[r].event \in events =>
    LET told == {row.rule : row \in {x \in notified : x.by = r}} IN
    /\ {n \in req[r].stable : MinSeverity[n] <= req[r].severity} \subseteq told
    /\ \A n \in told : MinSeverity[n] <= req[r].severity

(* What the route announces is committed (events.routes.ts:295-296), and   *)
(* no job commits unannounced (jobs/worker.ts:121-124).                    *)
AnnouncedAsPromised ==
  /\ \A m \in messages : req[m.by].kind = "route" => m.by \in Answered
  /\ \A r \in Answered : req[r].kind = "job" => Message(r) \in messages

(* A camera that is gone is on the dashboard for no longer than an entry   *)
(* of the cache and the request that filled it last, although a count made *)
(* before cacheInvalidate may be cached after it (misc.routes.ts:22-49).   *)
DashboardFresh ==
  \A v \in Viewer :
    view[v].step = "shown" /\ view[v].value # cameras =>
      clock <= changed + CacheTtl + RequestTime

(* "Idempotency" for those who are notified: an event that is ingested     *)
(* again does not notify a rule again.                                     *)
NotifiedOnce ==
  \A x, y \in notified : x.event = y.event /\ x.rule = y.rule => x = y
=============================================================================
