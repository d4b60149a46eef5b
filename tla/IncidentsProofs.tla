--------------------------- MODULE IncidentsProofs ---------------------------
(***************************************************************************)
(* Theorems about Incidents, for any requests, cameras, rules, correlation *)
(* ids and readers of the dashboard.                                       *)
(***************************************************************************)
EXTENDS Incidents, TLAPS

(* An ingest has an event once it has inserted or found one, a key once it *)
(* has stored a file, and rules once it has read them; other requests have *)
(* neither key nor rules.                                                  *)
ShapeOk(q) ==
  IF q.kind \in Ingest
  THEN /\ q.camera \in Camera /\ q.severity \in Severity
       /\ q.step # "removed"
       /\ q.event = Nil <=> q.step \in {"checked", "conflict", "failed"}
       /\ q.key # Nil => q.step \notin {"checked", "conflict", "failed", "event"}
       /\ q.read # {} => q.step \in {"rules", "notified", "announced", "committed", "done"}
       /\ q.step = "announced" => q.kind = "job"
       /\ q.step = "committed" => q.kind = "route"
  ELSE /\ q.step \in {"checked", "removed", "done", "failed"}
       /\ q.key = Nil /\ q.read = {}
       /\ q.kind = "remove" => q.camera \in Camera
       /\ q.kind # "remove" /\ q.step = "checked" => q.event \in Request

(* What an ingest has found or done stays true of it.                      *)
IngestOk(r) ==
  /\ req[r].key # Nil => req[r].key \in files
  /\ req[r].event \notin {Nil, r} =>
       req[r].event \in Answered /\ SameCorrelation(r, req[r].event)
  /\ req[r].kind = "job" /\ req[r].step \in {"announced", "done"} =>
       Message(r) \in messages

DueOf(r, set) == {n \in set : MinSeverity[n] <= req[r].severity}

(* While it runs: its foreign keys hold, the rules it has to notify are    *)
(* those it has read, and what it found is there unless it was disturbed.  *)
RunningOk(r) ==
  /\ Pins(r) => /\ Sees(r, req[r].event)
                /\ req[req[r].event].camera \in cameras
  /\ req[r].stable \subseteq rules
  /\ req[r].step \in {"rules", "notified", "announced"} =>
       /\ DueOf(r, req[r].stable) \subseteq req[r].read
       /\ req[r].read \subseteq DueOf(r, Rule)
  /\ ~req[r].disturbed =>
       /\ req[r].camera \in cameras
       /\ req[r].event # Nil => Sees(r, req[r].event)
       /\ req[r].read \subseteq rules
       /\ req[r].step = "conflict" => \E e \in events : SameCorrelation(r, e)

RequestsOk ==
  /\ \A r \in Request : req[r] # Nil => ShapeOk(req[r])
  /\ \A r \in Of(Ingest) : IngestOk(r)
  /\ \A r \in Running : RunningOk(r)

EventsOk ==
  \A e \in events :
    e \in Answered /\ req[e].event = e /\ req[e].camera \in cameras

(* An event that is in the table or is being inserted is the only one of   *)
(* its correlation id.                                                     *)
Inserted(r) == req[r].event = r /\ r \in events \cup Running
OnePerCorrelation ==
  \A r, s \in Of(Ingest) :
    Inserted(r) /\ Inserted(s) /\ SameCorrelation(r, s) => r = s

NotifiedOk ==
  /\ \A row \in notified :
       /\ row.by \in Answered /\ row.event = req[row.by].event
       /\ row.rule \in DueOf(row.by, Rule)
  /\ \A r \in Answered : req[r].event \in events =>
       \A n \in DueOf(r, req[r].stable) :
         [event |-> req[r].event, rule |-> n, by |-> r] \in notified

MessagesOk ==
  \A m \in messages :
    m.by \in Of(Ingest) /\ (req[m.by].kind = "route" => m.by \in Answered)

(* A list of cameras that is wrong was made before the last change.        *)
BoardOk ==
  /\ changed <= clock
  /\ cache # Nil =>
       /\ cache.expires <= clock + CacheTtl
       /\ cache.value # cameras => cache.expires <= changed + RequestTime + CacheTtl
  /\ \A v \in Viewer :
       /\ view[v].since <= clock
       /\ view[v].step \in {"miss", "counted"} => clock <= view[v].since + RequestTime
       /\ view[v].step = "counted" /\ view[v].value # cameras => view[v].since <= changed
       /\ view[v].step = "shown" /\ view[v].value # cameras =>
            clock <= changed + CacheTtl + RequestTime

IInv ==
  /\ TypeOK /\ RequestsOk /\ EventsOk /\ OnePerCorrelation
  /\ RowsComplete /\ NotifiedOk /\ MessagesOk /\ FailsOnlyIfDisturbed
BInv == TypeOK /\ BoardOk

-----------------------------------------------------------------------------
LEMMA Fields ==
  ASSUME TypeOK, NEW r \in Request, req[r] # Nil
  PROVE  /\ req[r] \in Requests
         /\ req[r].kind \in Kind
         /\ req[r].camera \in Camera \cup {Nil}
         /\ req[r].event \in Request \cup {Nil}
         /\ req[r].key \in Keys \cup {Nil}
         /\ req[r].read \subseteq Rule /\ req[r].stable \subseteq Rule
         /\ req[r].severity \in Severity \cup {Nil}
         /\ req[r].disturbed \in BOOLEAN
  BY DEF TypeOK, Requests

(* A request of which only the step changes.                               *)
LEMMA GoTypes ==
  ASSUME TypeOK, NEW r \in Request, req[r] # Nil, NEW step,
         step \in Ended \cup {"checked", "conflict", "event", "stored", "filed",
                             "rules", "notified", "announced", "removed"},
         Go(r, step)
  PROVE  req' \in [Request -> Requests \cup {Nil}]
<1>1. [req[r] EXCEPT !.step = step] \in Requests
  BY Fields DEF Requests
<1> QED
  BY <1>1 DEF Go, TypeOK

LEMMA FailTypes ==
  ASSUME TypeOK, NEW r \in Request, req[r] # Nil, Fail(r)
  PROVE  req' \in [Request -> Requests \cup {Nil}]
<1>1. Failed(req[r]) \in Requests
  BY ZenonT(30), Fields DEF Failed, Requests, Ended
<1> QED
  BY <1>1 DEF Fail, TypeOK

LEMMA IngestFields ==
  ASSUME TypeOK, RequestsOk, NEW r \in Of(Ingest)
  PROVE  /\ r \in Request /\ req[r] # Nil /\ req[r] \in Requests
         /\ req[r].kind \in Ingest /\ req[r].kind \in Kind
         /\ ShapeOk(req[r]) /\ IngestOk(r)
         /\ req[r].camera \in Camera /\ req[r].severity \in Severity
  BY Fields DEF Of, RequestsOk, ShapeOk

LEMMA RunningFields ==
  ASSUME TypeOK, RequestsOk, NEW r \in Running
  PROVE  /\ r \in Of(Ingest) /\ r \in Request /\ req[r] # Nil
         /\ req[r] \in Requests /\ req[r].kind \in Ingest
         /\ ShapeOk(req[r]) /\ RunningOk(r)
  BY IngestFields DEF Running, RequestsOk

LEMMA IngestIsRunning ==
  ASSUME NEW r \in Request, req[r] # Nil, req[r].kind \in Ingest, req[r].step \notin Ended
  PROVE  r \in Running
  BY DEF Running, Of

(* An ingest takes a step before it commits.                               *)
IngestStep(r) ==
  \/ InsertEvent(r) \/ FindEvent(r) \/ StoreSnapshot(r) \/ InsertEvidence(r)
  \/ ReadRules(r) \/ Notify(r) \/ (r \in Of(Ingest) /\ Announce(r))

LEMMA IngestStepTypes ==
  ASSUME TypeOK, RequestsOk, NEW r \in Request, IngestStep(r)
  PROVE  TypeOK'
<1>1. req[r] # Nil /\ req[r] \in Requests /\ ShapeOk(req[r])
  <2>1. r \in Of(Ingest)
    BY DEF IngestStep, InsertEvent, FindEvent, StoreSnapshot, InsertEvidence,
           ReadRules, Notify, Running
  <2> QED
    BY <2>1, IngestFields
<1>2. UNCHANGED <<clock, rows, board>>
  BY DEF IngestStep, InsertEvent, FindEvent, StoreSnapshot, InsertEvidence,
         ReadRules, Notify, Announce
<1>3. req' \in [Request -> Requests \cup {Nil}]
  <2>1. CASE InsertEvent(r)
    <3>1. [req[r] EXCEPT !.step = "event", !.event = r] \in Requests
      BY <1>1 DEF Requests
    <3>2. CASE Fail(r)
      BY <1>1, <3>2, FailTypes
    <3>3. CASE Go(r, "conflict")
      BY <1>1, <3>3, GoTypes
    <3>4. CASE req' = [req EXCEPT ![r].step = "event", ![r].event = r]
      BY <3>1, <3>4 DEF TypeOK
    <3> QED
      BY <2>1, <3>2, <3>3, <3>4 DEF InsertEvent
  <2>2. CASE FindEvent(r)
    <3>1. CASE Fail(r)
      BY <1>1, <3>1, FailTypes
    <3>2. ASSUME NEW e \in events,
                 req' = [req EXCEPT ![r].step = "event", ![r].event = e]
          PROVE  req' \in [Request -> Requests \cup {Nil}]
      <4>1. [req[r] EXCEPT !.step = "event", !.event = e] \in Requests
        BY <1>1, <3>2 DEF Requests, events
      <4> QED
        BY <3>2, <4>1 DEF TypeOK
    <3> QED
      BY <2>2, <3>1, <3>2 DEF FindEvent
  <2>3. CASE StoreSnapshot(r)
    <3>1. NewKey(r) \in Keys
      BY <1>1, <2>3, RunningFields DEF StoreSnapshot, At, ShapeOk, NewKey, Keys, TypeOK, Requests
    <3>2. [req[r] EXCEPT !.step = "stored", !.key = NewKey(r)] \in Requests
      BY <1>1, <3>1 DEF Requests
    <3> QED
      BY <2>3, <3>2 DEF StoreSnapshot, TypeOK
  <2>4. CASE InsertEvidence(r)
    BY <1>1, <2>4, GoTypes, FailTypes DEF InsertEvidence
  <2>5. CASE ReadRules(r)
    <3>1. [req[r] EXCEPT !.step = "rules", !.read = {n \in rules : Due(n, req[r].severity)}]
            \in Requests
      BY <1>1 DEF Requests, TypeOK
    <3> QED
      BY <2>5, <3>1 DEF ReadRules, TypeOK
  <2>6. CASE Notify(r)
    BY <1>1, <2>6, GoTypes, FailTypes DEF Notify
  <2>7. CASE Announce(r)
    BY <1>1, <2>7, GoTypes DEF Announce, Ended
  <2> QED
    BY <2>1, <2>2, <2>3, <2>4, <2>5, <2>6, <2>7 DEF IngestStep
<1>4. files' \subseteq Keys
  <2>1. CASE StoreSnapshot(r)
    BY <1>1, <2>1, RunningFields DEF StoreSnapshot, At, ShapeOk, NewKey, Keys, TypeOK, Requests
  <2> QED
    BY <2>1 DEF IngestStep, InsertEvent, FindEvent, InsertEvidence, ReadRules,
                Notify, Announce, TypeOK
<1>5. messages' \subseteq [event : Request, by : Request]
  <2>1. CASE Announce(r)
    <3>1. req[r].event \in Request
      BY <1>1, <2>1 DEF Announce, At, ShapeOk, Requests, Ingest
    <3> QED
      BY <2>1, <3>1 DEF Announce, Message, TypeOK
  <2> QED
    BY <2>1 DEF IngestStep, InsertEvent, FindEvent, StoreSnapshot, InsertEvidence,
                ReadRules, Notify, TypeOK
<1> QED
  BY <1>2, <1>3, <1>4, <1>5 DEF TypeOK, rows, board

LEMMA ArriveTypes ==
  ASSUME TypeOK, NEW r \in Request, NEW kind \in Kind, NEW camera \in Camera \cup {Nil},
         NEW correlation \in Correlation \cup {Nil}, NEW severity \in Severity \cup {Nil},
         NEW event \in events \cup {Nil},
         Arrive(r, kind, camera, correlation, severity, event)
  PROVE  TypeOK'
<1> DEFINE new == [kind |-> kind, step |-> "checked", camera |-> camera,
                   correlation |-> correlation, severity |-> severity, event |-> event,
                   key |-> Nil, read |-> {}, stable |-> rules, disturbed |-> FALSE]
<1>1. new \in Requests
  BY DEF Requests, TypeOK, events
<1>2. req' = [req EXCEPT ![r] = new] /\ UNCHANGED <<clock, rows, files, messages, board>>
  BY DEF Arrive
<1> QED
  BY <1>1, <1>2 DEF TypeOK, rows, board

LEMMA CommitTypes ==
  ASSUME TypeOK, RequestsOk, NEW r \in Request, Commit(r)
  PROVE  TypeOK'
<1>1. r \in Running /\ UNCHANGED <<clock, cameras, notes, rules, files, messages, board>>
  BY DEF Commit, CommitRows
<1>2. req[r] # Nil /\ req[r] \in Requests /\ ShapeOk(req[r])
  BY <1>1, RunningFields
<1>3. req' \in [Request -> Requests \cup {Nil}]
  BY <1>2, GoTypes DEF Commit, Ended
<1>4. req[r].event \in Request /\ req[r].kind \in Ingest /\ req[r].read \subseteq Rule
      /\ req[r].key \in Keys \cup {Nil}
  BY <1>1, <1>2, RunningFields DEF Commit, At, ShapeOk, Requests
<1>5. status' \in [Request -> {"OPEN", "RESOLVED", Nil}]
  BY DEF TypeOK, Commit, CommitRows
<1>6. evidence' \subseteq [event : Request, key : Keys]
  BY <1>4 DEF TypeOK, Commit, CommitRows
<1>7. notified' \subseteq [event : Request, rule : Rule, by : Request]
  BY <1>4 DEF TypeOK, Commit, CommitRows
<1> QED
  BY <1>1, <1>3, <1>5, <1>6, <1>7 DEF TypeOK, board

LEMMA OperatorTypes ==
  ASSUME TypeOK, RequestsOk, NEW r \in Request,
         AddNote(r) \/ \E new \in {"OPEN", "RESOLVED"} : SetStatus(r, new)
  PROVE  TypeOK'
<1>1. req[r] # Nil /\ req[r].event \in Request
  BY DEF AddNote, SetStatus, Of, At, RequestsOk, ShapeOk, Kind, Ingest
<1>2. CASE AddNote(r)
  <2>1. req' \in [Request -> Requests \cup {Nil}]
    BY <1>1, <1>2, GoTypes, FailTypes DEF AddNote, Ended
  <2>2. notes' \subseteq [event : Request, by : Request]
    BY <1>1, <1>2 DEF AddNote, Message, TypeOK
  <2> QED
    BY <1>2, <2>1, <2>2 DEF AddNote, TypeOK, board
<1>3. CASE \E new \in {"OPEN", "RESOLVED"} : SetStatus(r, new)
  <2>1. req' \in [Request -> Requests \cup {Nil}]
    BY <1>1, <1>3, GoTypes DEF SetStatus, Ended
  <2>2. status' \in [Request -> {"OPEN", "RESOLVED", Nil}]
    BY <1>3 DEF SetStatus, TypeOK
  <2> QED
    BY <1>3, <2>1, <2>2 DEF SetStatus, TypeOK, board
<1> QED
  BY <1>2, <1>3

LEMMA DisturbTypes ==
  ASSUME TypeOK, NEW gone
  PROVE  Disturb(gone) \in [Request -> Requests \cup {Nil}]
<1>1. ASSUME NEW r \in Request, r \in Running
      PROVE  [req[r] EXCEPT !.disturbed = TRUE, !.stable = req[r].stable \ gone] \in Requests
  <2>1. req[r] \in Requests
    BY <1>1, Fields DEF Running, Of
  <2> QED
    BY <2>1 DEF Requests
<1> QED
  BY <1>1 DEF Disturb, TypeOK

LEMMA RemoveTypes ==
  ASSUME TypeOK, RequestsOk, NEW r \in Request, RemoveCamera(r)
  PROVE  TypeOK'
<1> DEFINE gone == {e \in events : req[e].camera = req[r].camera}
<1>1. req[r] # Nil /\ req[r].kind = "remove"
  BY DEF RemoveCamera, Of
<1>2. /\ cameras' = cameras \ {req[r].camera}
      /\ status' = [e \in Request |-> IF e \in gone THEN Nil ELSE status[e]]
      /\ evidence' \subseteq evidence /\ notes' \subseteq notes /\ notified' \subseteq notified
      /\ req' = [Disturb({}) EXCEPT ![r].step = "removed"]
      /\ changed' = clock
      /\ UNCHANGED <<clock, rules, files, messages, cache, view>>
  BY DEF RemoveCamera
<1>3. Disturb({}) \in [Request -> Requests \cup {Nil}] /\ Disturb({})[r] = req[r]
  <2>1. r \notin Running
    BY <1>1 DEF Running, Of, Ingest
  <2> QED
    BY <2>1, DisturbTypes DEF Disturb
<1>4. [req[r] EXCEPT !.step = "removed"] \in Requests
  BY <1>1, Fields DEF Requests
<1> HIDE DEF gone
<1>5. req' \in [Request -> Requests \cup {Nil}]
  BY <1>2, <1>3, <1>4
<1>6. status' \in [Request -> {"OPEN", "RESOLVED", Nil}]
  BY <1>2 DEF TypeOK
<1> QED
  BY <1>2, <1>5, <1>6 DEF TypeOK

LEMMA BoardTypes ==
  ASSUME TypeOK, NEW v \in Viewer, Look(v) \/ Count(v) \/ CacheSet(v) \/ Close(v)
  PROVE  TypeOK'
<1> DEFINE View == [step : {"idle", "miss", "counted", "shown"}, since : 0..MaxClock,
                    value : SUBSET Camera]
<1>1. view \in [Viewer -> View] /\ clock \in 0..MaxClock /\ cameras \subseteq Camera
      /\ cache \in Entry \cup {Nil} /\ CacheTtl \in Nat
  BY IncidentConstants DEF TypeOK
<1>2. UNCHANGED <<clock, rows, files, messages, req, changed>>
  BY DEF Look, Count, CacheSet, Close
<1>3. view' \in [Viewer -> View] /\ cache' \in Entry \cup {Nil}
  <2>1. CASE Look(v)
    <3>1. CacheHit => cache.value \in SUBSET Camera
      BY <1>1 DEF CacheHit, Entry
    <3> QED
      BY <1>1, <2>1, <3>1 DEF Look
  <2>2. CASE Count(v)
    BY <1>1, <2>2 DEF Count
  <2>3. CASE CacheSet(v)
    BY <1>1, <2>3 DEF CacheSet, Entry
  <2>4. CASE Close(v)
    BY <1>1, <2>4, IncidentConstants DEF Close, Idle
  <2> QED
    BY <2>1, <2>2, <2>3, <2>4
<1> QED
  BY <1>2, <1>3 DEF TypeOK, rows

LEMMA RestartTypes == TypeOK /\ Restart => TypeOK'
<1> SUFFICES ASSUME TypeOK, Restart PROVE TypeOK'
  OBVIOUS
<1>1. ASSUME NEW r \in Request, req[r] # Nil
      PROVE  [req[r] EXCEPT !.step = "done"] \in Requests
             /\ [Failed(req[r]) EXCEPT !.disturbed = TRUE] \in Requests
  BY ZenonT(30), <1>1, Fields DEF Requests, Failed, Ended
<1>2. req' \in [Request -> Requests \cup {Nil}]
  BY <1>1 DEF Restart, TypeOK
<1>3. view' \in [Viewer -> [step : {"idle", "miss", "counted", "shown"},
                            since : 0..MaxClock, value : SUBSET Camera]]
  BY IncidentConstants DEF Restart, Idle
<1> QED
  BY <1>2, <1>3 DEF Restart, TypeOK, rows

LEMMA ThrowTypes ==
  ASSUME TypeOK, NEW r \in Request, Throw(r)
  PROVE  TypeOK'
<1>1. req[r] # Nil
  BY DEF Throw, Running, Of
<1>2. [Failed(req[r]) EXCEPT !.disturbed = TRUE] \in Requests
  BY ZenonT(30), <1>1, Fields DEF Requests, Failed, Ended
<1>3. req' \in [Request -> Requests \cup {Nil}]
  BY <1>2 DEF Throw, TypeOK
<1> QED
  BY <1>3 DEF Throw, TypeOK, rows, board

LEMMA StepTypes == TypeOK /\ RequestsOk /\ [Next]_vars => TypeOK'
<1> SUFFICES ASSUME TypeOK, RequestsOk, [Next]_vars PROVE TypeOK'
  OBVIOUS
<1>1. ASSUME NEW r \in Request, Step(r) PROVE TypeOK'
  <2>1. CASE Commit(r)
    BY <2>1, CommitTypes
  <2>2. CASE AddNote(r) \/ \E new \in {"OPEN", "RESOLVED"} : SetStatus(r, new)
    BY <2>2, OperatorTypes
  <2>3. CASE RemoveCamera(r)
    BY <2>3, RemoveTypes
  <2>4. CASE Invalidate(r)
    BY <2>4, GoTypes DEF Invalidate, Of, Ended, TypeOK, rows
  <2>5. CASE Throw(r)
    BY <2>5, ThrowTypes
  <2> QED
    BY <1>1, <2>1, <2>2, <2>3, <2>4, <2>5, IngestStepTypes DEF Step, IngestStep
<1>2. ASSUME NEW n \in Rule, CreateRule(n) PROVE TypeOK'
  BY <1>2 DEF CreateRule, TypeOK, board
<1>3. ASSUME NEW n \in Rule, DeleteRule(n) PROVE TypeOK'
  BY <1>3, DisturbTypes DEF DeleteRule, TypeOK, board
<1>4. CASE Tick
  BY <1>4, IncidentConstants DEF Tick, TypeOK, rows, board
<1>5. CASE UNCHANGED vars
  BY <1>5 DEF vars, TypeOK, rows, board
<1> QED
  BY <1>1, <1>2, <1>3, <1>4, <1>5, ArriveTypes, BoardTypes, RestartTypes DEF Next

-----------------------------------------------------------------------------
(* What no step of an ingest changes.                                      *)
Keeps(q, new) ==
  /\ new.kind = q.kind /\ new.camera = q.camera /\ new.correlation = q.correlation
  /\ new.severity = q.severity /\ new.stable = q.stable
  /\ q.disturbed => new.disturbed

LEMMA AnsweredFields ==
  ASSUME TypeOK, RequestsOk, NEW r \in Answered
  PROVE  /\ r \in Of(Ingest) /\ r \in Request /\ req[r] # Nil
         /\ req[r] \in Requests /\ req[r].kind \in Ingest
         /\ ShapeOk(req[r]) /\ IngestOk(r) /\ req[r].event \in Request
<1>1. r \in Of(Ingest) /\ req[r].step \in {"committed", "done"}
  BY DEF Answered
<1>2. r \in Request /\ req[r] # Nil /\ req[r].kind \in Ingest /\ ShapeOk(req[r]) /\ IngestOk(r)
      /\ req[r] \in Requests
  BY <1>1, IngestFields
<1>3. req[r].event # Nil
  BY <1>1, <1>2 DEF ShapeOk
<1> QED
  BY <1>1, <1>2, <1>3 DEF Requests

(* The event a running ingest is pinned to.                                *)
LEMMA PinnedEvent ==
  ASSUME TypeOK, RequestsOk, NEW r \in Running, Pins(r)
  PROVE  req[r].event \in Request /\ req[r].event # Nil
BY RunningFields, IncidentConstants DEF Pins, ShapeOk, Requests

(* A step of one request leaves the others as they should be, as long as   *)
(* no row that they may have found disappears.                             *)
LEMMA OthersOk ==
  ASSUME TypeOK, RequestsOk, EventsOk, NEW r \in Request,
         \A u \in Request \ {r} : req'[u] = req[u],
         r \in Of(Ingest) => req'[r] # Nil /\ Keeps(req[r], req'[r]),
         r \in Answered => req'[r].step \in {"committed", "done"},
         events \subseteq events', UNCHANGED <<cameras, rules>>,
         files \subseteq files', messages \subseteq messages',
         NEW u \in Request \ {r}, req'[u] # Nil
  PROVE  /\ ShapeOk(req'[u])
         /\ u \in Of(Ingest) <=> u \in Of(Ingest)'
         /\ u \in Running <=> u \in Running'
         /\ u \in Answered <=> u \in Answered'
         /\ u \in Of(Ingest)' => IngestOk(u)'
         /\ u \in Running' => RunningOk(u)'
<1>1. req'[u] = req[u] /\ req[u] # Nil
  OBVIOUS
<1>2. ShapeOk(req'[u])
  BY <1>1 DEF RequestsOk
<1>3. /\ u \in Of(Ingest) <=> u \in Of(Ingest)'
      /\ u \in Running <=> u \in Running'
      /\ u \in Answered <=> u \in Answered'
  BY <1>1 DEF Of, Running, Answered
<1>4. ASSUME NEW e \in Answered
      PROVE  /\ e \in Answered' /\ req'[e].camera = req[e].camera
             /\ req'[e].correlation = req[e].correlation
  <2>1. e \in Of(Ingest) /\ e \in Request /\ req[e] # Nil
    BY <1>4, AnsweredFields
  <2>2. CASE e = r
    BY <1>4, <2>1, <2>2 DEF Keeps, Answered, Of
  <2>3. CASE e # r
    <3>1. req'[e] = req[e]
      BY <2>1, <2>3
    <3> QED
      BY <1>4, <2>1, <3>1 DEF Answered, Of
  <2> QED
    BY <2>2, <2>3
<1>5. ASSUME u \in Of(Ingest) PROVE IngestOk(u)'
  <2>1. IngestOk(u)
    BY <1>5 DEF RequestsOk
  <2>2. (req[u].key # Nil => req[u].key \in files)'
    BY <1>1, <2>1 DEF IngestOk
  <2>3. (req[u].event \notin {Nil, u} =>
           req[u].event \in Answered /\ SameCorrelation(u, req[u].event))'
    BY <1>1, <1>4, <2>1 DEF IngestOk, SameCorrelation
  <2>4. (req[u].kind = "job" /\ req[u].step \in {"announced", "done"} =>
           Message(u) \in messages)'
    BY <1>1, <2>1 DEF IngestOk, Message
  <2> QED
    BY <2>2, <2>3, <2>4 DEF IngestOk
<1>6. ASSUME u \in Running PROVE RunningOk(u)'
  <2>1. RunningOk(u) /\ u \in Of(Ingest) /\ IngestOk(u)
    BY <1>6, RunningFields, IngestFields
  <2>2. (Pins(u) => Sees(u, req[u].event) /\ req[req[u].event].camera \in cameras)'
    <3> SUFFICES ASSUME Pins(u)' PROVE Sees(u, req[u].event)' /\ (req[req[u].event].camera \in cameras)'
      OBVIOUS
    <3>1. Pins(u)
      BY <1>1 DEF Pins
    <3>2. Sees(u, req[u].event) /\ req[req[u].event].camera \in cameras
      BY <2>1, <3>1 DEF RunningOk
    <3>3. CASE req[u].event = u
      BY <1>1, <3>2, <3>3 DEF Sees
    <3>4. CASE req[u].event # u
      <4>1. req[u].event \in events /\ req[u].event \in Answered
        BY <3>2, <3>4 DEF Sees, EventsOk
      <4> QED
        BY <1>1, <1>4, <3>2, <4>1 DEF Sees
    <3> QED
      BY <3>3, <3>4
  <2>3. (req[u].stable \subseteq rules)'
    BY <1>1, <2>1 DEF RunningOk
  <2>4. (req[u].step \in {"rules", "notified", "announced"} =>
           /\ DueOf(u, req[u].stable) \subseteq req[u].read
           /\ req[u].read \subseteq DueOf(u, Rule))'
    BY <1>1, <2>1 DEF RunningOk, DueOf
  <2>5. ASSUME (~req[u].disturbed)'
        PROVE  (/\ req[u].camera \in cameras
                /\ req[u].event # Nil => Sees(u, req[u].event)
                /\ req[u].read \subseteq rules
                /\ req[u].step = "conflict" => \E e \in events : SameCorrelation(u, e))'
    <3>1. /\ req[u].camera \in cameras
          /\ req[u].event # Nil => Sees(u, req[u].event)
          /\ req[u].read \subseteq rules
          /\ req[u].step = "conflict" => \E e \in events : SameCorrelation(u, e)
      BY <1>1, <2>1, <2>5 DEF RunningOk
    <3>2. ASSUME NEW e \in events, SameCorrelation(u, e)
          PROVE  e \in events' /\ SameCorrelation(u, e)'
      BY <1>1, <1>4, <3>2 DEF SameCorrelation, EventsOk
    <3>3. (req[u].step = "conflict" => \E e \in events : SameCorrelation(u, e))'
      BY <1>1, <3>1, <3>2
    <3>4. (req[u].event # Nil => Sees(u, req[u].event))'
      BY <1>1, <3>1 DEF Sees
    <3> QED
      BY <1>1, <3>1, <3>3, <3>4
  <2> QED
    BY <2>2, <2>3, <2>4, <2>5 DEF RunningOk
<1> QED
  BY <1>2, <1>3, <1>5, <1>6

(* A step of an ingest that does not commit it: the tables stay, and what  *)
(* is left to show concerns this request alone.                            *)
LEMMA Advance ==
  ASSUME IInv, TypeOK', NEW r \in Running,
         \A u \in Request \ {r} : req'[u] = req[u],
         req'[r] # Nil, Keeps(req[r], req'[r]),
         req'[r].step \notin {"committed", "done"},
         UNCHANGED rows, files \subseteq files', messages \subseteq messages',
         \A m \in messages' \ messages : m.by = r /\ req[r].kind = "job",
         ShapeOk(req'[r]), IngestOk(r)',
         req'[r].step # "failed" => RunningOk(r)',
         req'[r].step = "failed" => req'[r].disturbed,
         req'[r].event = r /\ req[r].event # r =>
           \A s \in Of(Ingest) : Inserted(s) => ~SameCorrelation(r, s)
  PROVE  IInv'
<1> USE DEF IInv
<1>1. /\ r \in Of(Ingest) /\ r \in Request /\ req[r] # Nil /\ req[r].kind \in Ingest
      /\ r \notin Answered /\ req[r].step \notin Ended
  BY RunningFields DEF Running, Answered, Ended
<1>2. events' = events /\ UNCHANGED <<cameras, rules, status, evidence, notes, notified>>
  BY DEF rows, events
<1>3. ASSUME NEW u \in Request, u # r, req'[u] # Nil
      PROVE  /\ ShapeOk(req'[u])
             /\ u \in Of(Ingest) <=> u \in Of(Ingest)'
             /\ u \in Running <=> u \in Running'
             /\ u \in Answered <=> u \in Answered'
             /\ u \in Of(Ingest)' => IngestOk(u)'
             /\ u \in Running' => RunningOk(u)'
  BY <1>1, <1>2, <1>3, OthersOk
<1>4. Of(Ingest)' = Of(Ingest)
  BY <1>1, <1>3 DEF Of, Keeps
<1>5. Answered' = Answered
  BY <1>1, <1>3 DEF Answered, Of
<1>6. Running' \subseteq Running
  BY <1>1, <1>3 DEF Running, Of
<1>7. RequestsOk'
  <2>1. \A u \in Request : req'[u] # Nil => ShapeOk(req'[u])
    BY <1>3
  <2>2. \A u \in Of(Ingest)' : IngestOk(u)'
    BY <1>3 DEF Of
  <2>3. \A u \in Running' : RunningOk(u)'
    BY <1>3 DEF Running, Of, Ended
  <2> QED
    BY <2>1, <2>2, <2>3 DEF RequestsOk
<1>8. ASSUME NEW e \in events PROVE e \in Answered /\ e \in Request /\ e # r /\ req'[e] = req[e]
  BY <1>1 DEF EventsOk, events
<1>9. EventsOk'
  BY <1>2, <1>5, <1>8 DEF EventsOk
<1>10. OnePerCorrelation'
  <2> SUFFICES ASSUME NEW s \in Of(Ingest), NEW t \in Of(Ingest),
                      Inserted(s)', Inserted(t)', SameCorrelation(s, t)'
               PROVE  s = t
    BY <1>4 DEF OnePerCorrelation
  <2>1. SameCorrelation(s, t) /\ SameCorrelation(t, s)
    BY <1>1 DEF SameCorrelation, Keeps, Of
  <2>2. s # r => Inserted(s)
    BY <1>2, <1>6 DEF Inserted, Of
  <2>3. t # r => Inserted(t)
    BY <1>2, <1>6 DEF Inserted, Of
  <2>4. req'[r].event = r /\ req[r].event = r => Inserted(r)
    BY DEF Inserted
  <2>5. (s = r => req'[r].event = r) /\ (t = r => req'[r].event = r)
    BY DEF Inserted
  <2> QED
    BY <2>1, <2>2, <2>3, <2>4, <2>5 DEF OnePerCorrelation
<1>11. RowsComplete'
  <2>1. (\A row \in evidence : row.key \in files)'
    BY <1>2 DEF RowsComplete
  <2>2. (\A row \in evidence \cup notes \cup notified : row.event \in events)'
    BY <1>2 DEF RowsComplete
  <2>3. (\A e \in events : req[e].camera \in cameras)'
    BY <1>2, <1>8 DEF RowsComplete
  <2> QED
    BY <2>1, <2>2, <2>3 DEF RowsComplete
<1>12. NotifiedOk'
  <2>1. \A u \in Answered : req'[u] = req[u]
    BY <1>1 DEF Answered, Of
  <2> QED
    BY <1>2, <1>5, <2>1 DEF NotifiedOk, DueOf
<1>13. MessagesOk'
  <2> SUFFICES ASSUME NEW m \in messages'
               PROVE  m.by \in Of(Ingest) /\ (req'[m.by].kind = "route" => m.by \in Answered)
    BY <1>4, <1>5 DEF MessagesOk
  <2>1. CASE m \in messages
    BY <1>1, <2>1 DEF MessagesOk, Keeps, Of
  <2>2. CASE m \notin messages
    BY <1>1, <2>2 DEF Keeps
  <2> QED
    BY <2>1, <2>2
<1>14. FailsOnlyIfDisturbed'
  BY <1>1, <1>4 DEF FailsOnlyIfDisturbed, Keeps, Of
<1> QED
  BY <1>7, <1>9, <1>10, <1>11, <1>12, <1>13, <1>14

LEMMA FailedFields ==
  ASSUME NEW q \in Requests
  PROVE  /\ Failed(q) \in Requests /\ Keeps(q, Failed(q))
         /\ Failed(q).step = "failed" /\ Failed(q).event = Nil
         /\ Failed(q).key = Nil /\ Failed(q).read = {}
<1>1. Failed(q) \in Requests
  BY DEF Failed, Requests, Ended
<1>2. /\ Failed(q).kind = q.kind /\ Failed(q).camera = q.camera
      /\ Failed(q).correlation = q.correlation /\ Failed(q).severity = q.severity
      /\ Failed(q).stable = q.stable /\ Failed(q).disturbed = q.disturbed
  BY DEF Failed, Requests
<1>3. /\ Failed(q).step = "failed" /\ Failed(q).event = Nil
      /\ Failed(q).key = Nil /\ Failed(q).read = {}
  BY DEF Failed, Requests
<1> QED
  BY <1>1, <1>2, <1>3 DEF Keeps

(* A statement of an ingest fails only where something was deleted.        *)
LEMMA FailAdvances ==
  ASSUME IInv, TypeOK', NEW r \in Running, Fail(r), req[r].disturbed,
         UNCHANGED <<rows, files, messages>>
  PROVE  IInv'
<1>1. r \in Request /\ req[r] # Nil /\ ShapeOk(req[r]) /\ req[r] \in Requests /\ req[r].kind \in Ingest
  BY RunningFields DEF IInv
<1>2. req'[r] = Failed(req[r]) /\ \A u \in Request \ {r} : req'[u] = req[u]
  BY <1>1 DEF Fail, TypeOK, IInv
<1>3. /\ req'[r].step = "failed" /\ req'[r].event = Nil /\ req'[r].key = Nil
      /\ req'[r].read = {} /\ Keeps(req[r], req'[r]) /\ req'[r] \in Requests
  BY <1>1, <1>2, FailedFields
<1>4. req'[r] # Nil
  BY <1>3, NilAssumption
<1>5. ShapeOk(req'[r]) /\ IngestOk(r)'
  BY <1>1, <1>3 DEF ShapeOk, IngestOk, Keeps
<1>6. req'[r].event # r
  BY <1>1, <1>3, IncidentConstants
<1>7. req'[r].disturbed
  BY <1>3 DEF Keeps
<1> QED
  BY <1>2, <1>3, <1>4, <1>5, <1>6, <1>7, Advance

(* An error ends it wherever it is.                                        *)
LEMMA ThrowKeeps ==
  ASSUME IInv, TypeOK', NEW r \in Request, Throw(r)
  PROVE  IInv'
<1>1. r \in Running /\ UNCHANGED <<rows, files, messages>>
  BY DEF Throw
<1>2. req[r] # Nil /\ ShapeOk(req[r]) /\ req[r] \in Requests /\ req[r].kind \in Ingest
  BY <1>1, RunningFields DEF IInv
<1>3. /\ req'[r] = [Failed(req[r]) EXCEPT !.disturbed = TRUE]
      /\ \A u \in Request \ {r} : req'[u] = req[u]
  BY <1>2 DEF Throw, TypeOK, IInv
<1>4. Failed(req[r]) \in Requests /\ Keeps(req[r], Failed(req[r]))
      /\ Failed(req[r]).step = "failed" /\ Failed(req[r]).event = Nil
      /\ Failed(req[r]).key = Nil /\ Failed(req[r]).read = {}
  BY <1>2, FailedFields
<1>5. /\ req'[r].step = "failed" /\ req'[r].event = Nil /\ req'[r].key = Nil
      /\ req'[r].read = {} /\ req'[r].disturbed /\ Keeps(req[r], req'[r])
      /\ req'[r] \in Requests
  BY <1>3, <1>4 DEF Requests, Keeps
<1>6. req'[r] # Nil
  BY <1>5, NilAssumption
<1>7. ShapeOk(req'[r]) /\ IngestOk(r)'
  BY <1>2, <1>5 DEF ShapeOk, IngestOk, Keeps
<1>8. req'[r].event # r
  BY <1>5, IncidentConstants
<1> QED
  BY <1>1, <1>3, <1>5, <1>6, <1>7, <1>8, Advance

(* A running ingest goes to another step, still running.                   *)
LEMMA InsertEventKeeps ==
  ASSUME IInv, TypeOK', NEW r \in Request, InsertEvent(r)
  PROVE  IInv'
<1>1. r \in Running /\ req[r].step = "checked" /\ ~InFlight(r)
      /\ UNCHANGED <<rows, files, messages>>
  BY DEF InsertEvent, At
<1>2. req[r] # Nil /\ ShapeOk(req[r]) /\ req[r] \in Requests /\ req[r].kind \in Ingest
      /\ RunningOk(r) /\ IngestOk(r) /\ r # Nil
  BY <1>1, RunningFields, IngestFields, IncidentConstants DEF IInv
<1>3. req[r].event = Nil /\ req[r].key = Nil /\ req[r].read = {}
  BY <1>1, <1>2 DEF ShapeOk
<1>4. CASE \E e \in events : SameCorrelation(r, e)
  <2>1. Go(r, "conflict")
    BY <1>4 DEF InsertEvent
  <2>2. /\ \A u \in Request \ {r} : req'[u] = req[u]
        /\ req'[r] = [req[r] EXCEPT !.step = "conflict"]
    BY <2>1 DEF Go, TypeOK, IInv
  <2>3. Keeps(req[r], req'[r]) /\ req'[r].step = "conflict" /\ req'[r].event = Nil
        /\ req'[r].key = Nil /\ req'[r].read = {}
    BY <1>2, <1>3, <2>2 DEF Requests, Keeps
  <2>4. req'[r] # Nil
    BY <1>2, <2>2, NilAssumption DEF Requests
  <2>5. ShapeOk(req'[r]) /\ IngestOk(r)'
    BY <1>2, <2>3 DEF ShapeOk, IngestOk, Keeps
  <2>6. \E e \in events' : SameCorrelation(r, e)'
    <3>1. PICK e \in events : SameCorrelation(r, e)
      BY <1>4
    <3>2. req'[e].correlation = req[e].correlation
      BY <2>2, <2>3, <3>1 DEF Keeps, events
    <3> QED
      BY <1>1, <2>3, <3>1, <3>2 DEF SameCorrelation, Keeps, rows, events
  <2>7. RunningOk(r)'
    BY <1>1, <1>2, <2>3, <2>6 DEF RunningOk, Keeps, Pins, rows
  <2> QED
    BY <1>1, <1>2, <2>2, <2>3, <2>4, <2>5, <2>7, Advance
<1>5. CASE ~(\E e \in events : SameCorrelation(r, e)) /\ req[r].camera \notin cameras
  <2>1. Fail(r)
    BY <1>5 DEF InsertEvent
  <2>2. req[r].disturbed
    BY <1>2, <1>5 DEF RunningOk
  <2> QED
    BY <1>1, <2>1, <2>2, FailAdvances
<1>6. CASE ~(\E e \in events : SameCorrelation(r, e)) /\ req[r].camera \in cameras
  <2>1. req' = [req EXCEPT ![r].step = "event", ![r].event = r]
    BY <1>6 DEF InsertEvent
  <2>2. /\ \A u \in Request \ {r} : req'[u] = req[u]
        /\ req'[r] = [req[r] EXCEPT !.step = "event", !.event = r]
    BY <2>1 DEF TypeOK, IInv
  <2>3. Keeps(req[r], req'[r]) /\ req'[r].step = "event" /\ req'[r].event = r
        /\ req'[r].key = Nil /\ req'[r].read = {}
    BY <1>2, <1>3, <2>2 DEF Requests, Keeps
  <2>4. req'[r] # Nil
    <3>1. req'[r] \in Requests
      BY <1>2, <2>2 DEF Requests
    <3> QED
      BY <3>1, NilAssumption
  <2>5. ShapeOk(req'[r]) /\ IngestOk(r)'
    BY <1>2, <2>3 DEF ShapeOk, IngestOk, Keeps
  <2>6. RunningOk(r)'
    BY <1>1, <1>2, <1>6, <2>3 DEF RunningOk, Keeps, Sees, rows
  <2>7. \A s \in Of(Ingest) : Inserted(s) => ~SameCorrelation(r, s)
    BY <1>1, <1>2, <1>3, <1>6 DEF Inserted, InFlight, Of
  <2> QED
    BY <1>1, <1>2, <2>2, <2>3, <2>4, <2>5, <2>6, <2>7, Advance
<1> QED
  BY <1>4, <1>5, <1>6

LEMMA FindEventKeeps ==
  ASSUME IInv, TypeOK', NEW r \in Request, FindEvent(r)
  PROVE  IInv'
<1>1. r \in Running /\ req[r].step = "conflict"
      /\ UNCHANGED <<rows, files, messages>>
  BY DEF FindEvent, At
<1>2. req[r] # Nil /\ ShapeOk(req[r]) /\ req[r] \in Requests /\ req[r].kind \in Ingest
      /\ RunningOk(r) /\ IngestOk(r) /\ r # Nil
  BY <1>1, RunningFields, IngestFields, IncidentConstants DEF IInv
<1>3. req[r].event = Nil /\ req[r].key = Nil /\ req[r].read = {}
  BY <1>1, <1>2 DEF ShapeOk
<1>4. CASE ~\E e \in events : SameCorrelation(r, e)
  <2>1. req[r].disturbed
    BY <1>1, <1>2, <1>4 DEF RunningOk
  <2> QED
    BY <1>1, <1>4, <2>1, FailAdvances DEF FindEvent
<1>5. ASSUME NEW e \in events, SameCorrelation(r, e),
             req' = [req EXCEPT ![r].step = "event", ![r].event = e]
      PROVE  IInv'
  <2>1. /\ \A u \in Request \ {r} : req'[u] = req[u]
        /\ req'[r] = [req[r] EXCEPT !.step = "event", !.event = e]
    BY <1>5 DEF TypeOK, IInv
  <2>2. Keeps(req[r], req'[r]) /\ req'[r].step = "event" /\ req'[r].event = e
        /\ req'[r].key = Nil /\ req'[r].read = {}
    BY <1>2, <1>3, <2>1 DEF Requests, Keeps
  <2>3. e \in Answered /\ e # r /\ e \in Request /\ e # Nil
    BY <1>1, <1>5, IncidentConstants DEF IInv, EventsOk, Answered, Running, Ended, events
  <2>4. req'[r] # Nil
    <3>1. req'[r] \in Requests
      BY <1>2, <2>1, <2>3 DEF Requests
    <3> QED
      BY <3>1, NilAssumption
  <2>5. e \in Answered' /\ SameCorrelation(r, e)'
    BY <1>5, <2>1, <2>2, <2>3 DEF Answered, Of, SameCorrelation, Keeps
  <2>6. ShapeOk(req'[r]) /\ IngestOk(r)'
    BY <1>2, <2>2, <2>3, <2>5 DEF ShapeOk, IngestOk, Keeps
  <2>7. RunningOk(r)'
    <3>1. ~Pins(r)'
      BY <2>2, <2>3 DEF Pins
    <3>2. Sees(r, req[r].event)' /\ rules' = rules /\ cameras' = cameras
      BY <1>1, <1>5, <2>2 DEF Sees, rows, events
    <3>3. req[r].stable \subseteq rules /\ (~req[r].disturbed => req[r].camera \in cameras)
      BY <1>2 DEF RunningOk
    <3> QED
      BY <2>2, <3>1, <3>2, <3>3 DEF RunningOk, Keeps
  <2> QED
    BY <1>1, <1>2, <2>1, <2>2, <2>3, <2>4, <2>6, <2>7, Advance
<1> QED
  BY <1>4, <1>5 DEF FindEvent

LEMMA StoreSnapshotKeeps ==
  ASSUME IInv, TypeOK', NEW r \in Request, StoreSnapshot(r)
  PROVE  IInv'
<1>1. r \in Running /\ req[r].step = "event"
      /\ UNCHANGED <<rows, messages>> /\ files' = files \cup {NewKey(r)}
      /\ req' = [req EXCEPT ![r].step = "stored", ![r].key = NewKey(r)]
  BY DEF StoreSnapshot, At
<1>2. req[r] # Nil /\ ShapeOk(req[r]) /\ req[r] \in Requests /\ req[r].kind \in Ingest
      /\ RunningOk(r) /\ IngestOk(r) /\ r # Nil
  BY <1>1, RunningFields, IngestFields, IncidentConstants DEF IInv
<1>3. req[r].event # Nil /\ req[r].key = Nil /\ req[r].read = {}
  BY <1>1, <1>2 DEF ShapeOk
<1>4. /\ \A u \in Request \ {r} : req'[u] = req[u]
      /\ req'[r] = [req[r] EXCEPT !.step = "stored", !.key = NewKey(r)]
  BY <1>1 DEF TypeOK, IInv
<1>5. Keeps(req[r], req'[r]) /\ req'[r].step = "stored" /\ req'[r].key = NewKey(r)
      /\ req'[r].read = {} /\ req'[r].event = req[r].event
  BY <1>2, <1>3, <1>4 DEF Requests, Keeps
<1>6. req'[r] # Nil
  <2>1. req[r].event \in Request /\ req[r].camera \in Camera
    BY <1>2, <1>3, <1>1 DEF Requests, ShapeOk
  <2>2. NewKey(r) \in Keys
    BY <2>1 DEF NewKey, Keys, IInv, TypeOK
  <2>3. req'[r] \in Requests
    BY <1>2, <1>4, <2>2 DEF Requests
  <2> QED
    BY <2>3, NilAssumption
<1>7. ShapeOk(req'[r])
  BY <1>2, <1>3, <1>5 DEF ShapeOk, Keeps
<1>8. ASSUME req[r].event \notin {Nil, r}
      PROVE  (req[r].event \in Answered /\ SameCorrelation(r, req[r].event))'
  <2>1. req[r].event \in Answered /\ req[r].event # r
    BY <1>2, <1>8 DEF IngestOk
  <2> QED
    BY <1>2, <1>4, <1>5, <1>8, <2>1 DEF IngestOk, Answered, Of, SameCorrelation, Keeps
<1>9. IngestOk(r)'
  BY <1>1, <1>5, <1>8 DEF IngestOk
<1>10. ASSUME Pins(r)' PROVE Sees(r, req[r].event)' /\ (req[req[r].event].camera \in cameras)'
  <2>1. Pins(r) /\ req[r].event = r
    BY <1>5, <1>10 DEF Pins
  <2>2. req'[r].event = r /\ req'[r].camera = req[r].camera /\ cameras' = cameras
    BY <1>1, <1>5, <2>1 DEF Keeps, rows
  <2>3. req[r].camera \in cameras
    BY <1>2, <2>1 DEF RunningOk
  <2> QED
    BY <2>2, <2>3 DEF Sees
<1>11. RunningOk(r)'
  <2>1. cameras' = cameras /\ rules' = rules /\ events' = events
    BY <1>1 DEF rows, events
  <2>2. /\ req[r].stable \subseteq rules
        /\ ~req[r].disturbed => req[r].camera \in cameras /\ Sees(r, req[r].event)
    BY <1>2, <1>3 DEF RunningOk
  <2>3. Sees(r, req[r].event) => Sees(r, req[r].event)'
    BY <1>5, <2>1 DEF Sees
  <2> QED
    BY <1>5, <1>10, <2>1, <2>2, <2>3 DEF RunningOk, Keeps
<1> QED
  BY <1>1, <1>2, <1>4, <1>5, <1>6, <1>7, <1>9, <1>11, Advance

(* An ingest that has its event goes on with it.                           *)
LEMMA WithEvent ==
  ASSUME IInv, TypeOK', NEW r \in Running, req[r].event # Nil,
         \A u \in Request \ {r} : req'[u] = req[u],
         req'[r] \in Requests, Keeps(req[r], req'[r]), ShapeOk(req'[r]),
         req'[r].event = req[r].event, req'[r].key = req[r].key,
         req'[r].step \in {"filed", "rules", "notified", "announced"},
         UNCHANGED <<rows, files>>, messages \subseteq messages',
         \A m \in messages' \ messages : m.by = r /\ req[r].kind = "job",
         req'[r].step = "announced" => Message(r)' \in messages',
         Pins(r)' => Pins(r) \/ Sees(r, req[r].event),
         req'[r].step \in {"rules", "notified", "announced"} =>
           /\ DueOf(r, req[r].stable) \subseteq req'[r].read
           /\ req'[r].read \subseteq DueOf(r, Rule),
         ~req[r].disturbed => req'[r].read \subseteq rules
  PROVE  IInv'
<1>1. r \in Request /\ req[r] # Nil /\ ShapeOk(req[r]) /\ req[r] \in Requests
      /\ RunningOk(r) /\ IngestOk(r) /\ req[r].kind \in Ingest
  BY RunningFields, IngestFields DEF IInv
<1>2. req'[r] # Nil
  BY NilAssumption
<1>3. cameras' = cameras /\ rules' = rules /\ events' = events
  BY DEF rows, events
<1>4. ASSUME req[r].event # r
      PROVE  /\ req[r].event \in Answered /\ req[r].event \in Request
             /\ SameCorrelation(r, req[r].event)
             /\ req'[req[r].event] = req[req[r].event]
  <2>1. req[r].event \in Answered /\ SameCorrelation(r, req[r].event)
    BY <1>1, <1>4 DEF IngestOk
  <2> QED
    BY <1>4, <2>1 DEF Answered, Of
<1>5. IngestOk(r)'
  <2>1. (req[r].event \notin {Nil, r} =>
           req[r].event \in Answered /\ SameCorrelation(r, req[r].event))'
    BY <1>4 DEF Answered, Of, SameCorrelation, Keeps
  <2>2. (req[r].key # Nil => req[r].key \in files)'
    BY <1>1 DEF IngestOk
  <2>3. (req[r].kind = "job" /\ req[r].step \in {"announced", "done"} =>
           Message(r) \in messages)'
    OBVIOUS
  <2> QED
    BY <2>1, <2>2, <2>3 DEF IngestOk
<1>6. Sees(r, req[r].event) => Sees(r, req[r].event)'
  BY <1>3 DEF Sees
<1>7. ASSUME Pins(r)'
      PROVE  Sees(r, req[r].event)' /\ (req[req[r].event].camera \in cameras)'
  <2>1. Sees(r, req[r].event)
    BY <1>1, <1>7 DEF RunningOk
  <2>2. req[req[r].event].camera \in cameras
    <3>1. CASE Pins(r)
      BY <1>1, <3>1 DEF RunningOk
    <3>2. CASE req[r].event \in events
      BY <3>2 DEF IInv, EventsOk
    <3>3. CASE req[r].event = r
      BY <1>1, <3>3 DEF RunningOk, Pins
    <3> QED
      BY <2>1, <3>2, <3>3 DEF Sees
  <2>3. req'[req[r].event].camera = req[req[r].event].camera
    BY <1>1, <1>4 DEF Keeps
  <2> QED
    BY <1>3, <1>6, <2>1, <2>2, <2>3
<1>8. RunningOk(r)'
  <2>1. (req[r].step \in {"rules", "notified", "announced"} =>
           /\ DueOf(r, req[r].stable) \subseteq req[r].read
           /\ req[r].read \subseteq DueOf(r, Rule))'
    BY DEF Keeps, DueOf
  <2>2. (~req[r].disturbed =>
           /\ req[r].camera \in cameras
           /\ req[r].event # Nil => Sees(r, req[r].event)
           /\ req[r].read \subseteq rules
           /\ req[r].step = "conflict" => \E e \in events : SameCorrelation(r, e))'
    BY <1>1, <1>3, <1>6 DEF RunningOk, Keeps
  <2>3. (req[r].stable \subseteq rules)'
    BY <1>1, <1>3 DEF RunningOk, Keeps
  <2> QED
    BY <1>7, <2>1, <2>2, <2>3 DEF RunningOk
<1> QED
  BY <1>2, <1>5, <1>8, Advance

LEMMA GoFields ==
  ASSUME TypeOK, NEW r \in Request, req[r] # Nil, NEW step, Go(r, step),
         step \in {"filed", "notified", "announced", "committed", "done"}
  PROVE  /\ \A u \in Request \ {r} : req'[u] = req[u]
         /\ req'[r] \in Requests /\ Keeps(req[r], req'[r]) /\ req'[r].step = step
         /\ req'[r].event = req[r].event /\ req'[r].key = req[r].key
         /\ req'[r].read = req[r].read
<1>1. req[r] \in Requests
  BY Fields
<1>2. /\ \A u \in Request \ {r} : req'[u] = req[u]
      /\ req'[r] = [req[r] EXCEPT !.step = step]
  BY DEF Go, TypeOK
<1>3. req'[r] \in Requests
  BY <1>1, <1>2 DEF Requests, Ended
<1> QED
  BY <1>1, <1>2, <1>3 DEF Keeps, Requests

LEMMA InsertEvidenceKeeps ==
  ASSUME IInv, TypeOK', NEW r \in Request, InsertEvidence(r)
  PROVE  IInv'
<1>1. r \in Running /\ req[r].step = "stored" /\ UNCHANGED <<rows, files, messages>>
  BY DEF InsertEvidence, At
<1>2. req[r] # Nil /\ ShapeOk(req[r]) /\ req[r] \in Requests /\ req[r].kind \in Ingest
      /\ RunningOk(r) /\ req[r].event # Nil
  BY <1>1, RunningFields DEF IInv, ShapeOk
<1>3. CASE ~Sees(r, req[r].event)
  BY <1>1, <1>2, <1>3, FailAdvances DEF InsertEvidence, RunningOk
<1>4. CASE Sees(r, req[r].event)
  <2>1. /\ \A u \in Request \ {r} : req'[u] = req[u]
        /\ req'[r] \in Requests /\ Keeps(req[r], req'[r]) /\ req'[r].step = "filed"
        /\ req'[r].event = req[r].event /\ req'[r].key = req[r].key
        /\ req'[r].read = req[r].read
    BY <1>2, <1>4, GoFields DEF InsertEvidence, IInv
  <2>2. ShapeOk(req'[r])
    BY <1>1, <1>2, <2>1 DEF ShapeOk, Keeps
  <2>3. ~req[r].disturbed => req'[r].read \subseteq rules
    BY <1>2, <2>1 DEF RunningOk
  <2> QED
    BY <1>1, <1>2, <1>4, <2>1, <2>2, <2>3, WithEvent
<1> QED
  BY <1>3, <1>4

LEMMA ReadRulesKeeps ==
  ASSUME IInv, TypeOK', NEW r \in Request, ReadRules(r)
  PROVE  IInv'
<1>1. r \in Running /\ req[r].step \in {"event", "filed"} /\ UNCHANGED <<rows, files, messages>>
  BY DEF ReadRules
<1>2. req[r] # Nil /\ ShapeOk(req[r]) /\ req[r] \in Requests /\ req[r].kind \in Ingest
      /\ RunningOk(r) /\ req[r].event # Nil
  BY <1>1, RunningFields DEF IInv, ShapeOk
<1> DEFINE due == {n \in rules : Due(n, req[r].severity)}
<1>3. /\ \A u \in Request \ {r} : req'[u] = req[u]
      /\ req'[r] = [req[r] EXCEPT !.step = "rules", !.read = due]
  BY DEF ReadRules, TypeOK, IInv
<1>4. due \subseteq rules /\ rules \subseteq Rule
  BY DEF IInv, TypeOK
<1>5. DueOf(r, req[r].stable) \subseteq due /\ due \subseteq DueOf(r, Rule)
  BY <1>2, <1>4 DEF RunningOk, DueOf, Due
<1> HIDE DEF due
<1>6. /\ req'[r] \in Requests /\ Keeps(req[r], req'[r]) /\ req'[r].step = "rules"
      /\ req'[r].event = req[r].event /\ req'[r].key = req[r].key
      /\ req'[r].read = due
  BY <1>2, <1>3, <1>4 DEF Keeps, Requests
<1>7. ShapeOk(req'[r])
  BY <1>1, <1>2, <1>6 DEF ShapeOk, Keeps
<1>8. Pins(r)' => Pins(r)
  BY <1>1, <1>6 DEF Pins
<1> QED
  BY <1>1, <1>2, <1>3, <1>4, <1>5, <1>6, <1>7, <1>8, WithEvent

LEMMA NotifyKeeps ==
  ASSUME IInv, TypeOK', NEW r \in Request, Notify(r)
  PROVE  IInv'
<1>1. r \in Running /\ req[r].step = "rules" /\ UNCHANGED <<rows, files, messages>>
  BY DEF Notify, At
<1>2. req[r] # Nil /\ ShapeOk(req[r]) /\ req[r] \in Requests /\ req[r].kind \in Ingest
      /\ RunningOk(r) /\ req[r].event # Nil
  BY <1>1, RunningFields DEF IInv, ShapeOk
<1> DEFINE able == req[r].read # {} => req[r].read \subseteq rules /\ Sees(r, req[r].event)
<1>3. CASE ~able
  BY <1>1, <1>2, <1>3, FailAdvances DEF Notify, RunningOk
<1>4. CASE able
  <2>1. /\ \A u \in Request \ {r} : req'[u] = req[u]
        /\ req'[r] \in Requests /\ Keeps(req[r], req'[r]) /\ req'[r].step = "notified"
        /\ req'[r].event = req[r].event /\ req'[r].key = req[r].key
        /\ req'[r].read = req[r].read
    BY <1>2, <1>4, GoFields DEF Notify, IInv
  <2>2. ShapeOk(req'[r])
    BY <1>1, <1>2, <2>1 DEF ShapeOk, Keeps
  <2>3. /\ DueOf(r, req[r].stable) \subseteq req'[r].read
        /\ req'[r].read \subseteq DueOf(r, Rule)
        /\ ~req[r].disturbed => req'[r].read \subseteq rules
    BY <1>1, <1>2, <2>1 DEF RunningOk
  <2>4. Pins(r)' => Pins(r) \/ Sees(r, req[r].event)
    BY <1>1, <1>4, <2>1 DEF Pins
  <2> QED
    BY <1>1, <1>2, <2>1, <2>2, <2>3, <2>4, WithEvent
<1> QED
  BY <1>3, <1>4

LEMMA AnnounceJobKeeps ==
  ASSUME IInv, TypeOK', NEW r \in Of(Ingest), Announce(r), req[r].kind = "job"
  PROVE  IInv'
<1>1. req[r].step = "notified" /\ Go(r, "announced") /\ UNCHANGED <<rows, files>>
      /\ messages' = messages \cup {Message(r)}
  BY DEF Announce, At
<1>2. r \in Running
  BY <1>1 DEF Running, Ended
<1>3. r \in Request /\ req[r] # Nil /\ ShapeOk(req[r]) /\ req[r] \in Requests
      /\ req[r].kind \in Ingest /\ RunningOk(r) /\ req[r].event # Nil
  BY <1>1, <1>2, RunningFields DEF IInv, ShapeOk
<1>4. /\ \A u \in Request \ {r} : req'[u] = req[u]
      /\ req'[r] \in Requests /\ Keeps(req[r], req'[r]) /\ req'[r].step = "announced"
      /\ req'[r].event = req[r].event /\ req'[r].key = req[r].key
      /\ req'[r].read = req[r].read
  BY <1>1, <1>3, GoFields DEF IInv
<1>5. ShapeOk(req'[r])
  BY <1>1, <1>3, <1>4 DEF ShapeOk, Keeps
<1>6. /\ DueOf(r, req[r].stable) \subseteq req'[r].read
      /\ req'[r].read \subseteq DueOf(r, Rule)
      /\ ~req[r].disturbed => req'[r].read \subseteq rules
  BY <1>1, <1>3, <1>4 DEF RunningOk
<1>7. Pins(r)' => Pins(r)
  BY <1>1, <1>4 DEF Pins
<1>8. Message(r)' = Message(r) /\ Message(r).by = r
  BY <1>4 DEF Message
<1> QED
  BY <1>1, <1>2, <1>3, <1>4, <1>5, <1>6, <1>7, <1>8, WithEvent

-----------------------------------------------------------------------------
(* A step of a request that is no ingest, or comes in as one.              *)
LEMMA Outside ==
  ASSUME IInv, TypeOK', NEW r \in Request, r \notin Of(Ingest),
         \A u \in Request \ {r} : req'[u] = req[u],
         req'[r] # Nil, ShapeOk(req'[r]),
         UNCHANGED <<cameras, rules, evidence, notified, files, messages>>,
         events' = events, \A row \in notes' : row.event \in events,
         r \in Of(Ingest)' =>
           r \in Running' /\ IngestOk(r)' /\ RunningOk(r)' /\ req'[r].event # r
  PROVE  IInv'
<1> USE DEF IInv
<1>1. r \notin Running /\ r \notin Answered
  BY DEF Running, Answered
<1>2. ASSUME NEW u \in Request, u # r, req'[u] # Nil
      PROVE  /\ ShapeOk(req'[u])
             /\ u \in Of(Ingest) <=> u \in Of(Ingest)'
             /\ u \in Running <=> u \in Running'
             /\ u \in Answered <=> u \in Answered'
             /\ u \in Of(Ingest)' => IngestOk(u)'
             /\ u \in Running' => RunningOk(u)'
  BY <1>1, <1>2, OthersOk
<1>3. Of(Ingest)' \subseteq Of(Ingest) \cup {r} /\ Of(Ingest) \subseteq Of(Ingest)'
  BY DEF Of
<1>4. Running' \subseteq Running \cup {r}
  BY <1>2 DEF Running, Of
<1>5. Answered' = Answered /\ r \notin Answered'
  BY <1>1, <1>2 DEF Answered, Of, Running, Ended
<1>6. \A u \in Of(Ingest) : u # r /\ u \in Request /\ req'[u] = req[u]
  BY DEF Of
<1>7. RequestsOk'
  <2>1. \A u \in Request : req'[u] # Nil => ShapeOk(req'[u])
    BY <1>2
  <2>2. \A u \in Of(Ingest)' : IngestOk(u)'
    BY <1>2 DEF Of
  <2>3. \A u \in Running' : RunningOk(u)'
    BY <1>2 DEF Running, Of
  <2> QED
    BY <2>1, <2>2, <2>3 DEF RequestsOk
<1>8. \A e \in events : e \in Answered /\ e # r /\ req'[e] = req[e]
  BY <1>1, <1>6 DEF EventsOk, Answered
<1>9. EventsOk'
  BY <1>5, <1>8 DEF EventsOk
<1>10. OnePerCorrelation'
  <2> SUFFICES ASSUME NEW s \in Of(Ingest)', NEW t \in Of(Ingest)',
                      Inserted(s)', Inserted(t)', SameCorrelation(s, t)'
               PROVE  s = t
    BY DEF OnePerCorrelation
  <2>1. s # r /\ t # r
    BY DEF Inserted
  <2>2. s \in Of(Ingest) /\ t \in Of(Ingest)
    BY <1>3, <2>1
  <2>3. Inserted(s) /\ Inserted(t) /\ SameCorrelation(s, t)
    BY <1>4, <1>6, <2>1, <2>2 DEF Inserted, SameCorrelation
  <2> QED
    BY <2>2, <2>3 DEF OnePerCorrelation
<1>11. RowsComplete'
  <2>1. (\A row \in evidence : row.key \in files)'
    BY DEF RowsComplete
  <2>2. (\A row \in evidence \cup notes \cup notified : row.event \in events)'
    BY DEF RowsComplete
  <2>3. (\A e \in events : req[e].camera \in cameras)'
    BY <1>8 DEF RowsComplete
  <2> QED
    BY <2>1, <2>2, <2>3 DEF RowsComplete
<1>12. NotifiedOk'
  <2>1. \A u \in Answered : req'[u] = req[u]
    BY <1>6 DEF Answered
  <2> QED
    BY <1>5, <2>1 DEF NotifiedOk, DueOf
<1>13. MessagesOk'
  BY <1>3, <1>5, <1>6 DEF MessagesOk
<1>14. FailsOnlyIfDisturbed'
  BY <1>3, <1>6 DEF FailsOnlyIfDisturbed, Running, Ended
<1> QED
  BY <1>7, <1>9, <1>10, <1>11, <1>12, <1>13, <1>14

LEMMA ArriveKeeps ==
  ASSUME IInv, TypeOK', NEW r \in Request, NEW kind \in Kind,
         NEW camera \in Camera \cup {Nil},
         NEW correlation \in Correlation \cup {Nil}, NEW severity \in Severity \cup {Nil},
         NEW event \in events \cup {Nil},
         Arrive(r, kind, camera, correlation, severity, event)
  PROVE  IInv'
<1> DEFINE new == [kind |-> kind, step |-> "checked", camera |-> camera,
                   correlation |-> correlation, severity |-> severity, event |-> event,
                   key |-> Nil, read |-> {}, stable |-> rules, disturbed |-> FALSE]
<1>1. req[r] = Nil /\ UNCHANGED <<rows, files, messages>>
      /\ (IF kind \in {"status", "note"} THEN event \in events ELSE event = Nil)
      /\ (IF kind \in Ingest \cup {"remove"} THEN camera \in cameras ELSE camera = Nil)
      /\ (IF kind \in Ingest THEN severity \in Severity ELSE severity = Nil)
      /\ req' = [req EXCEPT ![r] = new]
  BY DEF Arrive
<1>2. req'[r] = new /\ \A u \in Request \ {r} : req'[u] = req[u]
  BY <1>1 DEF TypeOK, IInv
<1>3. new \in Requests
  BY DEF Requests, IInv, TypeOK, events
<1>4. new # Nil
  BY <1>3, NilAssumption
<1>5. ShapeOk(new)
  BY <1>1 DEF ShapeOk, Kind, Ingest, IInv, TypeOK, events
<1>6. ASSUME r \in Of(Ingest)'
      PROVE  r \in Running' /\ IngestOk(r)' /\ RunningOk(r)' /\ req'[r].event # r
  <2>1. /\ req'[r].kind \in Ingest /\ req'[r].event = Nil /\ req'[r].key = Nil
        /\ req'[r].read = {} /\ req'[r].stable = rules /\ req'[r].step = "checked"
        /\ req'[r].camera \in cameras
    BY <1>1, <1>2, <1>6 DEF Of, Ingest
  <2>2. r # Nil /\ rules' = rules /\ cameras' = cameras
    BY <1>1, IncidentConstants DEF rows
  <2> QED
    BY <1>6, <2>1, <2>2 DEF Running, Ended, IngestOk, RunningOk, Pins, Ingest
<1>7. r \notin Of(Ingest)
  BY <1>1 DEF Of
<1>8. \A row \in notes' : row.event \in events
  BY <1>1 DEF rows, IInv, RowsComplete
<1>9. events' = events /\ UNCHANGED <<cameras, rules, evidence, notified>>
  BY <1>1 DEF rows, events
<1> HIDE DEF new
<1> QED
  BY <1>1, <1>2, <1>4, <1>5, <1>6, <1>7, <1>8, <1>9, Outside

LEMMA OperatorKeeps ==
  ASSUME IInv, TypeOK', NEW r \in Request,
         \/ AddNote(r) \/ Invalidate(r)
         \/ \E new \in {"OPEN", "RESOLVED"} : SetStatus(r, new)
  PROVE  IInv'
<1>1. req[r] # Nil /\ req[r].kind \in {"note", "remove", "status"}
      /\ req[r].step \in {"checked", "removed"}
      /\ UNCHANGED <<cameras, rules, evidence, notified, files, messages>>
  BY DEF AddNote, Invalidate, SetStatus, Of, At, rows
<1>2. r \notin Of(Ingest) /\ ShapeOk(req[r]) /\ req[r] \in Requests
      /\ req[r].kind \notin Ingest
  BY <1>1, Fields DEF IInv, RequestsOk, Of, Ingest
<1>3. Go(r, "done") \/ Fail(r)
  BY DEF AddNote, Invalidate, SetStatus
<1>4. \A u \in Request \ {r} : req'[u] = req[u]
  BY <1>3 DEF Go, Fail, IInv, TypeOK
<1>5. /\ req'[r] \in Requests /\ req'[r].kind = req[r].kind
      /\ req'[r].camera = req[r].camera /\ req'[r].step \in {"done", "failed"}
      /\ req'[r].key = Nil /\ req'[r].read = {}
  <2>1. CASE Go(r, "done")
    BY <1>1, <1>2, <2>1, GoFields DEF IInv, Keeps, ShapeOk
  <2>2. CASE Fail(r)
    <3>1. req'[r] = Failed(req[r])
      BY <2>2 DEF Fail, IInv, TypeOK
    <3> QED
      BY <1>2, <3>1, FailedFields DEF Keeps
  <2> QED
    BY <1>3, <2>1, <2>2
<1>6. req'[r] # Nil /\ ShapeOk(req'[r]) /\ r \notin Of(Ingest)'
  BY <1>2, <1>5, NilAssumption DEF ShapeOk, Of
<1>7. events' = events
  <2>1. CASE \E new \in {"OPEN", "RESOLVED"} : SetStatus(r, new)
    <3>1. PICK new \in {"OPEN", "RESOLVED"} : SetStatus(r, new)
      BY <2>1
    <3>2. new # Nil
      BY IncidentConstants
    <3> QED
      BY <3>1, <3>2 DEF SetStatus, events, IInv, TypeOK
  <2>2. CASE status' = status
    BY <2>2 DEF events
  <2> QED
    BY <2>1, <2>2 DEF AddNote, Invalidate, rows
<1>8. \A row \in notes' : row.event \in events
  BY DEF AddNote, Invalidate, SetStatus, Message, rows, IInv, RowsComplete
<1> QED
  BY <1>1, <1>2, <1>4, <1>6, <1>7, <1>8, Outside

-----------------------------------------------------------------------------
(* An ingest whose transaction ends well, or that is announced after it.   *)
LEMMA Answering ==
  ASSUME IInv, TypeOK', NEW r \in Of(Ingest), req[r].step \notin {"failed"},
         \A u \in Request \ {r} : req'[u] = req[u],
         req'[r] # Nil, Keeps(req[r], req'[r]), req'[r].step \in {"committed", "done"},
         req'[r].event = req[r].event, req[r].event # Nil,
         ShapeOk(req'[r]), IngestOk(r)',
         UNCHANGED <<cameras, rules, notes, files>>,
         \/ events' = events
         \/ events' = events \cup {r} /\ r \in Running /\ req[r].event = r
                                    /\ req[r].camera \in cameras,
         messages \subseteq messages', \A m \in messages' \ messages : m.by = r,
         \A row \in evidence' : row.key \in files /\ row.event \in events',
         \A row \in notified' \ notified :
           /\ row.by = r /\ row.event = req[r].event /\ row.event \in events'
           /\ row.rule \in DueOf(r, Rule),
         notified \subseteq notified',
         req[r].event \in events' =>
           \A n \in DueOf(r, req[r].stable) :
             [event |-> req[r].event, rule |-> n, by |-> r] \in notified'
  PROVE  IInv'
<1> USE DEF IInv
<1>1. /\ r \in Request /\ req[r] # Nil /\ req[r].kind \in Ingest
      /\ r \in Of(Ingest)' /\ r \in Answered' /\ r \notin Running'
  BY IngestFields DEF Of, Keeps, Answered, Running, Ended
<1>2. ASSUME NEW u \in Request, u # r, req'[u] # Nil
      PROVE  /\ ShapeOk(req'[u])
             /\ u \in Of(Ingest) <=> u \in Of(Ingest)'
             /\ u \in Running <=> u \in Running'
             /\ u \in Answered <=> u \in Answered'
             /\ u \in Of(Ingest)' => IngestOk(u)'
             /\ u \in Running' => RunningOk(u)'
  BY <1>1, <1>2, OthersOk
<1>3. Of(Ingest)' = Of(Ingest)
  BY <1>1 DEF Of
<1>4. Running' = Running \ {r} /\ Answered' = Answered \cup {r}
  BY <1>1 DEF Running, Of, Answered
<1>5. RequestsOk'
  <2>1. \A u \in Request : req'[u] # Nil => ShapeOk(req'[u])
    BY <1>2
  <2>2. \A u \in Of(Ingest)' : IngestOk(u)'
    BY <1>2 DEF Of
  <2>3. \A u \in Running' : RunningOk(u)'
    BY <1>1, <1>2 DEF Running, Of
  <2> QED
    BY <2>1, <2>2, <2>3 DEF RequestsOk
<1>6. EventsOk'
  <2> SUFFICES ASSUME NEW e \in events'
               PROVE  e \in Answered' /\ req'[e].event = e /\ req'[e].camera \in cameras
    BY DEF EventsOk
  <2>1. CASE e = r
    <3>1. req[r].event = r /\ req[r].camera \in cameras
      <4>1. CASE r \in events
        BY <4>1 DEF EventsOk
      <4>2. CASE r \notin events
        BY <2>1, <4>2
      <4> QED
        BY <4>1, <4>2
    <3> QED
      BY <1>1, <2>1, <3>1 DEF Keeps
  <2>2. CASE e # r
    BY <1>4, <2>2 DEF EventsOk, events
  <2> QED
    BY <2>1, <2>2
<1>7. \A s \in Of(Ingest) : Inserted(s)' => Inserted(s)
  <2> SUFFICES ASSUME NEW s \in Of(Ingest) PROVE Inserted(s)' => Inserted(s)
    OBVIOUS
  <2>1. CASE s # r
    BY <1>4, <2>1 DEF Inserted, Of
  <2>2. CASE s = r
    BY <1>1, <2>2 DEF Inserted
  <2> QED
    BY <2>1, <2>2
<1>8. OnePerCorrelation'
  BY <1>1, <1>3, <1>7 DEF OnePerCorrelation, SameCorrelation, Keeps, Of
<1>9. RowsComplete'
  <2>1. (\A row \in evidence : row.key \in files)'
    OBVIOUS
  <2>2. (\A row \in evidence \cup notes \cup notified : row.event \in events)'
    BY DEF RowsComplete
  <2>3. (\A e \in events : req[e].camera \in cameras)'
    BY <1>6 DEF EventsOk
  <2> QED
    BY <2>1, <2>2, <2>3 DEF RowsComplete
<1>10. NotifiedOk'
  <2>1. ASSUME NEW row \in notified'
        PROVE  (row.by \in Answered /\ row.event = req[row.by].event
                /\ row.rule \in DueOf(row.by, Rule))'
    <3>1. CASE row \in notified
      BY <1>1, <1>4, <3>1 DEF NotifiedOk, DueOf, Keeps, Answered, Of
    <3>2. CASE row \notin notified
      BY <1>1, <1>4, <2>1, <3>2 DEF DueOf, Keeps
    <3> QED
      BY <3>1, <3>2
  <2>2. ASSUME NEW u \in Answered', (req[u].event \in events)',
               NEW n \in DueOf(u, req[u].stable)'
        PROVE  [event |-> req'[u].event, rule |-> n, by |-> u] \in notified'
    <3>1. CASE u = r
      BY <2>2, <3>1 DEF DueOf, Keeps
    <3>2. CASE u # r
      <4>1. u \in Answered /\ req'[u] = req[u]
        BY <1>4, <3>2 DEF Answered, Of
      <4>2. req[u].event \in events
        <5>1. req[u].event = r => r \in Answered
          BY <3>2, <4>1, AnsweredFields, IncidentConstants DEF IngestOk
        <5>2. req[u].event = r => events' = events
          BY <5>1 DEF Running, Answered, Ended
        <5> QED
          BY <2>2, <4>1, <5>2
      <4>3. n \in DueOf(u, req[u].stable)
        BY <2>2, <4>1 DEF DueOf
      <4> QED
        BY <4>1, <4>2, <4>3 DEF NotifiedOk
    <3> QED
      BY <3>1, <3>2
  <2> QED
    BY <2>1, <2>2 DEF NotifiedOk
<1>11. MessagesOk'
  <2> SUFFICES ASSUME NEW m \in messages'
               PROVE  m.by \in Of(Ingest) /\ (req'[m.by].kind = "route" => m.by \in Answered')
    BY <1>3 DEF MessagesOk
  <2>1. CASE m \in messages
    BY <1>1, <1>4, <2>1 DEF MessagesOk, Keeps, Of
  <2>2. CASE m \notin messages
    BY <1>1, <2>2
  <2> QED
    BY <2>1, <2>2
<1>12. FailsOnlyIfDisturbed'
  BY <1>3 DEF FailsOnlyIfDisturbed, Of
<1> QED
  BY <1>5, <1>6, <1>8, <1>9, <1>10, <1>11, <1>12

LEMMA AnnounceRouteKeeps ==
  ASSUME IInv, TypeOK', NEW r \in Of(Ingest), Announce(r), req[r].kind # "job"
  PROVE  IInv'
<1>1. req[r].step = "committed" /\ Go(r, "done") /\ UNCHANGED <<rows, files>>
      /\ messages' = messages \cup {Message(r)} /\ req[r].kind = "route"
  BY DEF Announce, At
<1>2. r \in Answered
  BY <1>1 DEF Answered
<1>3. r \in Request /\ req[r] # Nil /\ ShapeOk(req[r]) /\ req[r] \in Requests
      /\ req[r].kind \in Ingest /\ IngestOk(r) /\ req[r].event # Nil
  BY <1>2, AnsweredFields, IncidentConstants DEF IInv
<1>4. /\ \A u \in Request \ {r} : req'[u] = req[u]
      /\ req'[r] \in Requests /\ Keeps(req[r], req'[r]) /\ req'[r].step = "done"
      /\ req'[r].event = req[r].event /\ req'[r].key = req[r].key
      /\ req'[r].read = req[r].read
  BY <1>1, <1>3, GoFields DEF IInv
<1>5. req'[r] # Nil /\ ShapeOk(req'[r])
  BY <1>1, <1>3, <1>4, NilAssumption DEF ShapeOk, Keeps
<1>6. IngestOk(r)'
  <2>1. ASSUME req[r].event # r
        PROVE  req[r].event \in Answered' /\ SameCorrelation(r, req[r].event)'
    <3>1. req[r].event \in Answered /\ SameCorrelation(r, req[r].event)
      BY <1>3, <2>1 DEF IngestOk
    <3> QED
      BY <1>4, <2>1, <3>1 DEF Answered, Of, SameCorrelation, Keeps
  <2> QED
    BY <1>1, <1>3, <1>4, <2>1 DEF IngestOk, Keeps
<1>7. events' = events /\ UNCHANGED <<cameras, rules, notes, notified, evidence>>
  BY <1>1 DEF rows, events
<1>8. \A row \in evidence' : row.key \in files /\ row.event \in events'
  BY <1>7 DEF IInv, RowsComplete
<1>9. req[r].event \in events' =>
        \A n \in DueOf(r, req[r].stable) :
          [event |-> req[r].event, rule |-> n, by |-> r] \in notified'
  BY <1>2, <1>7 DEF IInv, NotifiedOk
<1>10. Message(r).by = r
  BY DEF Message
<1> QED
  BY <1>1, <1>3, <1>4, <1>5, <1>6, <1>7, <1>8, <1>9, <1>10, Answering

LEMMA CommitKeeps ==
  ASSUME IInv, TypeOK', NEW r \in Request, Commit(r)
  PROVE  IInv'
<1>1. /\ r \in Running /\ UNCHANGED <<cameras, notes, rules, files, messages>>
      /\ status' = IF req[r].event = r THEN [status EXCEPT ![r] = "OPEN"] ELSE status
      /\ evidence' = IF req[r].key = Nil THEN evidence
                     ELSE evidence \cup {[event |-> req[r].event, key |-> req[r].key]}
      /\ notified' = notified \cup
           {[event |-> req[r].event, rule |-> n, by |-> r] : n \in req[r].read}
  BY DEF Commit, CommitRows
<1>2. \/ req[r].kind = "route" /\ req[r].step = "notified" /\ Go(r, "committed")
      \/ req[r].kind = "job" /\ req[r].step = "announced" /\ Go(r, "done")
  BY DEF Commit, At
<1>3. r \in Of(Ingest) /\ req[r] # Nil /\ ShapeOk(req[r]) /\ req[r] \in Requests
      /\ req[r].kind \in Ingest /\ IngestOk(r) /\ RunningOk(r) /\ req[r].event # Nil
  BY <1>1, <1>2, RunningFields, IngestFields DEF IInv, ShapeOk
<1>4. /\ \A u \in Request \ {r} : req'[u] = req[u]
      /\ req'[r] \in Requests /\ Keeps(req[r], req'[r])
      /\ req'[r].step = IF req[r].kind = "job" THEN "done" ELSE "committed"
      /\ req'[r].event = req[r].event /\ req'[r].key = req[r].key
      /\ req'[r].read = req[r].read
  BY <1>2, <1>3, GoFields DEF IInv
<1>5. req'[r] # Nil /\ ShapeOk(req'[r])
  BY <1>2, <1>3, <1>4, NilAssumption DEF ShapeOk, Keeps, Ingest
<1>6. IngestOk(r)'
  <2>1. ASSUME req[r].event # r
        PROVE  req[r].event \in Answered' /\ SameCorrelation(r, req[r].event)'
    <3>1. req[r].event \in Answered /\ SameCorrelation(r, req[r].event)
      BY <1>3, <2>1 DEF IngestOk
    <3> QED
      BY <1>4, <2>1, <3>1 DEF Answered, Of, SameCorrelation, Keeps
  <2>2. (req[r].kind = "job" /\ req[r].step \in {"announced", "done"} =>
           Message(r) \in messages)'
    BY <1>1, <1>2, <1>3, <1>4 DEF IngestOk, Keeps, Message
  <2> QED
    BY <1>1, <1>3, <1>4, <2>1, <2>2 DEF IngestOk
<1>7. \/ req[r].event = r /\ events' = events \cup {r} /\ req[r].camera \in cameras
      \/ req[r].event # r /\ events' = events
  <2>1. CASE req[r].event = r
    <3>1. events' = events \cup {r}
      BY <1>1, <2>1, IncidentConstants DEF events, IInv, TypeOK
    <3>2. req[r].camera \in cameras
      BY <1>3, <2>1 DEF RunningOk, Pins
    <3> QED
      BY <2>1, <3>1, <3>2
  <2>2. CASE req[r].event # r
    BY <1>1, <2>2 DEF events
  <2> QED
    BY <2>1, <2>2
<1>8. req[r].key # Nil \/ req[r].read # {} => req[r].event \in events'
  BY <1>2, <1>3, <1>7 DEF RunningOk, Pins, Sees
<1>9. \A row \in evidence' : row.key \in files /\ row.event \in events'
  <2> SUFFICES ASSUME NEW row \in evidence'
               PROVE  row.key \in files /\ row.event \in events'
    OBVIOUS
  <2>1. CASE row \in evidence
    BY <1>7, <2>1 DEF IInv, RowsComplete
  <2>2. CASE row \notin evidence
    <3>1. row.key = req[r].key /\ row.event = req[r].event /\ req[r].key # Nil
      BY <1>1, <2>2
    <3> QED
      BY <1>3, <1>8, <3>1 DEF IngestOk
  <2> QED
    BY <2>1, <2>2
<1>10. req[r].read \subseteq DueOf(r, Rule) /\ DueOf(r, req[r].stable) \subseteq req[r].read
  BY <1>2, <1>3 DEF RunningOk
<1>11. \A row \in notified' \ notified :
         /\ row.by = r /\ row.event = req[r].event /\ row.event \in events'
         /\ row.rule \in DueOf(r, Rule)
  <2> SUFFICES ASSUME NEW row \in notified', row \notin notified
               PROVE  /\ row.by = r /\ row.event = req[r].event /\ row.event \in events'
                      /\ row.rule \in DueOf(r, Rule)
    OBVIOUS
  <2>1. PICK n \in req[r].read : row = [event |-> req[r].event, rule |-> n, by |-> r]
    BY <1>1
  <2> QED
    BY <1>8, <1>10, <2>1
<1>12. \A n \in DueOf(r, req[r].stable) :
         [event |-> req[r].event, rule |-> n, by |-> r] \in notified'
  BY <1>1, <1>10
<1>13. req[r].step # "failed" /\ req'[r].step \in {"committed", "done"}
  BY <1>2, <1>4
<1>14. notified \subseteq notified' /\ messages' = messages
  BY <1>1
<1> QED
  BY <1>1, <1>3, <1>4, <1>5, <1>6, <1>7, <1>9, <1>11, <1>12, <1>13, <1>14, Answering

-----------------------------------------------------------------------------
(* Nothing happens to a request that is not a running ingest.              *)
LEMMA NotDisturbed ==
  ASSUME NEW u \in Request, u \notin Of(Ingest)
  PROVE  \A gone : Disturb(gone)[u] = req[u]
  BY DEF Disturb, Running

(* Rows are deleted.  What running ingests refer to is not among them.     *)
LEMMA Disturbing ==
  ASSUME IInv, TypeOK', NEW gone,
         \A u \in Of(Ingest) : req'[u] = Disturb(gone)[u],
         \A u \in Request \ Of(Ingest) : req'[u] # Nil =>
           ShapeOk(req'[u]) /\ req'[u].kind \notin Ingest,
         rules' = rules \ gone, cameras' \subseteq cameras, UNCHANGED <<files, messages>>,
         events' \subseteq events, evidence' \subseteq evidence,
         notes' \subseteq notes, notified' \subseteq notified,
         \A row \in evidence' \cup notes' \cup notified' : row.event \in events',
         \A row \in notified : row.event \in events' => row \in notified',
         \A e \in events' : req[e].camera \in cameras',
         \A u \in Running : Pins(u) =>
           /\ req[u].event \in events => req[u].event \in events'
           /\ req[req[u].event].camera \in cameras'
  PROVE  IInv'
<1> USE DEF IInv
<1>1. ASSUME NEW u \in Of(Ingest)
      PROVE  /\ u \in Request /\ req'[u] # Nil /\ u \in Of(Ingest)'
             /\ req'[u].kind = req[u].kind /\ req'[u].camera = req[u].camera
             /\ req'[u].correlation = req[u].correlation
             /\ req'[u].severity = req[u].severity
             /\ req'[u].step = req[u].step /\ req'[u].event = req[u].event
             /\ req'[u].key = req[u].key /\ req'[u].read = req[u].read
             /\ u \notin Running => req'[u] = req[u]
             /\ u \in Running => req'[u].stable = req[u].stable \ gone /\ req'[u].disturbed
  <2>1. u \in Request /\ req[u] # Nil /\ req[u].kind \in Ingest /\ req'[u] = Disturb(gone)[u]
    BY <1>1, IngestFields
  <2>2. req'[u] # Nil
    <3>1. CASE u \in Running
      <4>1. req[u] \in Requests
        BY <3>1, RunningFields
      <4>2. req'[u] = [req[u] EXCEPT !.disturbed = TRUE, !.stable = req[u].stable \ gone]
        BY <2>1, <3>1 DEF Disturb
      <4>3. req'[u] \in Requests
        BY <4>1, <4>2 DEF Requests
      <4> QED
        BY <4>3, NilAssumption
    <3>2. CASE u \notin Running
      BY <2>1, <3>2 DEF Disturb
    <3> QED
      BY <3>1, <3>2
  <2>3. CASE u \in Running
    <3>1. req[u] \in Requests
      BY <2>3, RunningFields
    <3>2. req'[u] = [req[u] EXCEPT !.disturbed = TRUE, !.stable = req[u].stable \ gone]
      BY <2>1, <2>3 DEF Disturb
    <3> QED
      BY <2>1, <2>2, <2>3, <3>1, <3>2 DEF Of, Requests
  <2>4. CASE u \notin Running
    BY <2>1, <2>2, <2>4 DEF Disturb, Of
  <2> QED
    BY <2>3, <2>4
<1>2. Of(Ingest)' = Of(Ingest)
  BY <1>1 DEF Of
<1>3. Running' = Running /\ Answered' = Answered
  BY <1>1, <1>2 DEF Running, Answered
<1>4. ASSUME NEW u \in Of(Ingest) PROVE ShapeOk(req'[u]) /\ IngestOk(u)'
  <2>1. u \in Request /\ req[u] # Nil /\ ShapeOk(req[u]) /\ IngestOk(u)
    BY <1>4, IngestFields
  <2>2. ShapeOk(req'[u])
    BY <1>1, <2>1 DEF ShapeOk
  <2>3. (req[u].event \notin {Nil, u} =>
           req[u].event \in Answered /\ SameCorrelation(u, req[u].event))'
    BY <1>1, <1>3, <2>1 DEF IngestOk, SameCorrelation, Answered
  <2> QED
    BY <1>1, <2>1, <2>2, <2>3 DEF IngestOk, Message
<1>5. ASSUME NEW u \in Running PROVE RunningOk(u)'
  <2>1. u \in Of(Ingest) /\ RunningOk(u) /\ IngestOk(u)
    BY <1>5, RunningFields, IngestFields
  <2>2. (Pins(u) => Sees(u, req[u].event) /\ req[req[u].event].camera \in cameras)'
    <3> SUFFICES ASSUME Pins(u)'
                 PROVE  Sees(u, req[u].event)' /\ (req[req[u].event].camera \in cameras)'
      OBVIOUS
    <3>1. Pins(u) /\ Sees(u, req[u].event) /\ req[req[u].event].camera \in cameras'
      BY <1>1, <2>1 DEF Pins, RunningOk
    <3>2. req[u].event \in Of(Ingest)
      BY <2>1, <3>1 DEF Sees, EventsOk, Answered
    <3> QED
      BY <1>1, <1>5, <2>1, <3>1, <3>2 DEF Sees
  <2>3. (req[u].stable \subseteq rules)'
    BY <1>1, <1>5, <2>1 DEF RunningOk
  <2>4. (req[u].step \in {"rules", "notified", "announced"} =>
           /\ DueOf(u, req[u].stable) \subseteq req[u].read
           /\ req[u].read \subseteq DueOf(u, Rule))'
    BY <1>1, <1>5, <2>1 DEF RunningOk, DueOf
  <2> QED
    BY <1>1, <1>5, <2>1, <2>2, <2>3, <2>4 DEF RunningOk
<1>6. RequestsOk'
  BY <1>2, <1>3, <1>4, <1>5 DEF RequestsOk
<1>7. EventsOk'
  BY <1>1, <1>3 DEF EventsOk, Answered
<1>8. OnePerCorrelation'
  BY <1>1, <1>2, <1>3 DEF OnePerCorrelation, Inserted, SameCorrelation
<1>9. RowsComplete'
  <2>1. (\A row \in evidence : row.key \in files)'
    BY DEF RowsComplete
  <2>2. (\A row \in evidence \cup notes \cup notified : row.event \in events)'
    OBVIOUS
  <2>3. (\A e \in events : req[e].camera \in cameras)'
    BY <1>7 DEF EventsOk
  <2> QED
    BY <2>1, <2>2, <2>3 DEF RowsComplete
<1>10. NotifiedOk'
  <2>1. \A u \in Answered : req'[u] = req[u] /\ DueOf(u, Rule)' = DueOf(u, Rule)
    BY <1>1 DEF Answered, Running, DueOf, Ended
  <2>2. (\A row \in notified :
           /\ row.by \in Answered /\ row.event = req[row.by].event
           /\ row.rule \in DueOf(row.by, Rule))'
    BY <1>3, <2>1 DEF NotifiedOk
  <2>3. ASSUME NEW u \in Answered', (req[u].event \in events)',
               NEW n \in DueOf(u, req[u].stable)'
        PROVE  [event |-> req'[u].event, rule |-> n, by |-> u] \in notified'
    <3>1. u \in Answered /\ req'[u] = req[u]
      BY <1>3, <2>1
    <3>2. n \in DueOf(u, req[u].stable)
      BY <2>3, <3>1 DEF DueOf
    <3> QED
      BY <2>3, <3>1, <3>2 DEF NotifiedOk
  <2> QED
    BY <2>2, <2>3 DEF NotifiedOk
<1>11. MessagesOk'
  BY <1>1, <1>2, <1>3 DEF MessagesOk
<1>12. FailsOnlyIfDisturbed'
  BY <1>1, <1>2 DEF FailsOnlyIfDisturbed, Running
<1> QED
  BY <1>6, <1>7, <1>8, <1>9, <1>10, <1>11, <1>12

LEMMA DeleteRuleKeeps ==
  ASSUME IInv, TypeOK', NEW n \in Rule, DeleteRule(n)
  PROVE  IInv'
<1>1. rules' = rules \ {n} /\ req' = Disturb({n})
      /\ UNCHANGED <<cameras, status, evidence, notes, notified, files, messages>>
  BY DEF DeleteRule
<1>2. events' = events
  BY <1>1 DEF events
<1>3. \A u \in Of(Ingest) : req'[u] = Disturb({n})[u]
  BY <1>1
<1>4. \A u \in Request \ Of(Ingest) : req'[u] # Nil =>
        ShapeOk(req'[u]) /\ req'[u].kind \notin Ingest
  <2> SUFFICES ASSUME NEW u \in Request, u \notin Of(Ingest), req'[u] # Nil
               PROVE  ShapeOk(req'[u]) /\ req'[u].kind \notin Ingest
    OBVIOUS
  <2>1. req'[u] = req[u]
    BY <1>1, NotDisturbed
  <2> QED
    BY <2>1 DEF IInv, RequestsOk, Of
<1>5. \A row \in evidence' \cup notes' \cup notified' : row.event \in events'
  BY <1>1, <1>2 DEF IInv, RowsComplete
<1>6. \A e \in events' : req[e].camera \in cameras'
  BY <1>1, <1>2 DEF IInv, RowsComplete
<1>7. \A u \in Running : Pins(u) => req[req[u].event].camera \in cameras'
  BY <1>1 DEF IInv, RequestsOk, RunningOk
<1>8. /\ cameras' \subseteq cameras /\ events' \subseteq events
      /\ evidence' \subseteq evidence /\ notes' \subseteq notes
      /\ notified' \subseteq notified /\ UNCHANGED <<files, messages>>
  BY <1>1, <1>2
<1> QED
  BY <1>1, <1>2, <1>3, <1>4, <1>5, <1>6, <1>7, <1>8, Disturbing

LEMMA RemoveCameraKeeps ==
  ASSUME IInv, TypeOK', NEW r \in Request, RemoveCamera(r)
  PROVE  IInv'
<1> DEFINE c == req[r].camera
           gone == {e \in events : req[e].camera = c}
<1>1. /\ req[r] # Nil /\ req[r].kind = "remove" /\ req[r].step = "checked"
      /\ ~Pinned(c)
      /\ cameras' = cameras \ {c}
      /\ status' = [e \in Request |-> IF e \in gone THEN Nil ELSE status[e]]
      /\ evidence' = {row \in evidence : row.event \notin gone}
      /\ notes' = {row \in notes : row.event \notin gone}
      /\ notified' = {row \in notified : row.event \notin gone}
      /\ req' = [Disturb({}) EXCEPT ![r].step = "removed"]
      /\ UNCHANGED <<rules, files, messages>>
  BY DEF RemoveCamera, Of, At
<1>2. r \notin Of(Ingest) /\ r \notin Running
  BY <1>1 DEF Of, Ingest, Running
<1>3. events' = events \ gone
  BY <1>1 DEF events
<1>4. /\ \A u \in Request \ {r} : req'[u] = Disturb({})[u]
      /\ req'[r] = [req[r] EXCEPT !.step = "removed"]
  <2>1. Disturb({}) \in [Request -> Requests \cup {Nil}]
    BY DisturbTypes DEF IInv
  <2>2. Disturb({})[r] = req[r]
    BY <1>2, NotDisturbed
  <2> QED
    BY <1>1, <2>1, <2>2
<1>5. ShapeOk(req'[r]) /\ req'[r].kind \notin Ingest
  <2>1. req[r] \in Requests /\ ShapeOk(req[r])
    BY <1>1, Fields DEF IInv, RequestsOk
  <2>2. /\ req'[r].kind = "remove" /\ req'[r].step = "removed"
        /\ req'[r].camera = req[r].camera /\ req'[r].key = req[r].key
        /\ req'[r].read = req[r].read
    BY <1>1, <1>4, <2>1 DEF Requests
  <2> QED
    BY <1>1, <2>1, <2>2 DEF ShapeOk, Ingest
<1>6. \A u \in Of(Ingest) : req'[u] = Disturb({})[u]
  BY <1>2, <1>4 DEF Of
<1>7. \A u \in Request \ Of(Ingest) : req'[u] # Nil =>
        ShapeOk(req'[u]) /\ req'[u].kind \notin Ingest
  <2> SUFFICES ASSUME NEW u \in Request, u \notin Of(Ingest), u # r, req'[u] # Nil
               PROVE  ShapeOk(req'[u]) /\ req'[u].kind \notin Ingest
    BY <1>5
  <2>1. req'[u] = req[u]
    BY <1>4, NotDisturbed
  <2> QED
    BY <2>1 DEF IInv, RequestsOk, Of
<1>8. \A e \in events : e \notin gone => req[e].camera \in cameras'
  BY <1>1 DEF IInv, RowsComplete
<1>9. \A u \in Running : Pins(u) =>
        /\ req[u].event \in events => req[u].event \in events'
        /\ req[req[u].event].camera \in cameras'
  <2> SUFFICES ASSUME NEW u \in Running, Pins(u)
               PROVE  /\ req[u].event \in events => req[u].event \in events'
                      /\ req[req[u].event].camera \in cameras'
    OBVIOUS
  <2>1. req[u].event # Nil
    BY PinnedEvent DEF IInv
  <2>2. req[req[u].event].camera # c
    BY <1>1, <2>1 DEF Pinned
  <2>3. req[req[u].event].camera \in cameras
    BY DEF IInv, RequestsOk, RunningOk
  <2> QED
    BY <1>1, <1>3, <2>2, <2>3
<1>10. \A row \in evidence' \cup notes' \cup notified' : row.event \in events'
  BY <1>1, <1>3 DEF IInv, RowsComplete
<1>11. \A row \in notified : row.event \in events' => row \in notified'
  BY <1>1, <1>3
<1>12. \A e \in events' : req[e].camera \in cameras'
  BY <1>3, <1>8
<1>13. /\ cameras' \subseteq cameras /\ events' \subseteq events /\ rules' = rules \ {}
       /\ evidence' \subseteq evidence /\ notes' \subseteq notes
       /\ notified' \subseteq notified /\ UNCHANGED <<files, messages>>
  BY <1>1, <1>3
<1> HIDE DEF c, gone
<1> QED
  BY <1>6, <1>7, <1>9, <1>10, <1>11, <1>12, <1>13, Disturbing

LEMMA RestartKeeps ==
  ASSUME IInv, TypeOK', Restart
  PROVE  IInv'
<1> USE DEF IInv
<1>1. UNCHANGED <<cameras, status, evidence, notes, notified, rules, files, messages>>
      /\ events' = events
  BY DEF Restart, rows, events
<1>2. ASSUME NEW u \in Request
      PROVE  /\ req[u] = Nil => req'[u] = Nil
             /\ req[u] # Nil /\ req[u].step \in {"committed", "removed"} =>
                  req'[u] = [req[u] EXCEPT !.step = "done"]
             /\ req[u] # Nil /\ req[u].step \in {"failed", "done"} => req'[u] = req[u]
             /\ req[u] # Nil /\ req[u].step \notin Ended \cup {"removed"} =>
                  req'[u] = [Failed(req[u]) EXCEPT !.disturbed = TRUE]
  BY DEF Restart, Ended
<1>3. ASSUME NEW u \in Request, req[u] # Nil
      PROVE  /\ req'[u] # Nil
             /\ req'[u].kind = req[u].kind /\ req'[u].camera = req[u].camera
             /\ req'[u].correlation = req[u].correlation
             /\ req'[u].severity = req[u].severity /\ req'[u].stable = req[u].stable
             /\ req'[u].step \in {"failed", "done"}
             /\ req[u].step \in {"committed", "done", "removed"} =>
                  /\ req'[u].step = "done" /\ req'[u].event = req[u].event
                  /\ req'[u].key = req[u].key /\ req'[u].read = req[u].read
             /\ req[u].step = "failed" => req'[u] = req[u]
             /\ req[u].step \notin Ended \cup {"removed"} =>
                  /\ req'[u].step = "failed" /\ req'[u].event = Nil /\ req'[u].key = Nil
                  /\ req'[u].read = {} /\ req'[u].disturbed
  <2>1. req[u] \in Requests
    BY <1>3, Fields
  <2>2. CASE req[u].step \in {"committed", "removed"}
    <3>1. req'[u] = [req[u] EXCEPT !.step = "done"]
      BY <1>2, <1>3, <2>2
    <3>2. req'[u] \in Requests
      BY <2>1, <3>1 DEF Requests, Ended
    <3>3. req'[u] # Nil
      BY <3>2, NilAssumption
    <3>4. /\ req'[u].kind = req[u].kind /\ req'[u].camera = req[u].camera
          /\ req'[u].correlation = req[u].correlation
          /\ req'[u].severity = req[u].severity /\ req'[u].stable = req[u].stable
          /\ req'[u].step = "done" /\ req'[u].event = req[u].event
          /\ req'[u].key = req[u].key /\ req'[u].read = req[u].read
      BY <2>1, <3>1 DEF Requests
    <3> QED
      BY <2>2, <3>3, <3>4 DEF Ended
  <2>3. CASE req[u].step \in {"failed", "done"}
    BY <1>2, <1>3, <2>3 DEF Ended
  <2>4. CASE req[u].step \notin Ended \cup {"removed"}
    <3>1. req'[u] = [Failed(req[u]) EXCEPT !.disturbed = TRUE]
      BY <1>2, <1>3, <2>4
    <3>2. Failed(req[u]) \in Requests /\ Keeps(req[u], Failed(req[u]))
          /\ Failed(req[u]).step = "failed" /\ Failed(req[u]).event = Nil
          /\ Failed(req[u]).key = Nil /\ Failed(req[u]).read = {}
      BY <2>1, FailedFields
    <3>3. req'[u] \in Requests
      BY <3>1, <3>2 DEF Requests
    <3>4. req'[u] # Nil
      BY <3>3, NilAssumption
    <3>5. /\ req'[u].kind = req[u].kind /\ req'[u].camera = req[u].camera
          /\ req'[u].correlation = req[u].correlation
          /\ req'[u].severity = req[u].severity /\ req'[u].stable = req[u].stable
          /\ req'[u].step = "failed" /\ req'[u].event = Nil /\ req'[u].key = Nil
          /\ req'[u].read = {} /\ req'[u].disturbed
      BY <3>1, <3>2 DEF Requests, Keeps
    <3> QED
      BY <2>4, <3>4, <3>5 DEF Ended
  <2> QED
    BY <2>2, <2>3, <2>4 DEF Ended
<1>4. Of(Ingest)' = Of(Ingest)
  BY <1>2, <1>3 DEF Of
<1>5. Running' = {} /\ Answered' = Answered
  <2>1. \A u \in Of(Ingest) : /\ u \in Request /\ req[u] # Nil
                              /\ req[u].step # "removed"
    BY IngestFields DEF ShapeOk
  <2>2. \A u \in Of(Ingest) :
          req'[u].step \in {"committed", "done"} <=> req[u].step \in {"committed", "done"}
    BY <1>3, <2>1 DEF Ended
  <2>3. \A u \in Of(Ingest) : req'[u].step \in Ended
    BY <1>3, <2>1 DEF Ended
  <2> QED
    BY <1>4, <2>2, <2>3 DEF Running, Answered
<1>6. \A u \in Answered : /\ u \in Request /\ req[u] # Nil
                          /\ req'[u].event = req[u].event /\ req'[u].key = req[u].key
                          /\ req'[u].step = "done" /\ u \in Of(Ingest)
  BY <1>3 DEF Answered, Of
<1>7. ASSUME NEW u \in Request, req[u] # Nil PROVE ShapeOk(req'[u])
  <2>1. ShapeOk(req[u])
    BY <1>7 DEF RequestsOk
  <2> QED
    BY <1>3, <1>7, <2>1 DEF ShapeOk, Ended
<1>8. ASSUME NEW u \in Of(Ingest) PROVE IngestOk(u)'
  <2>1. u \in Request /\ req[u] # Nil /\ ShapeOk(req[u]) /\ IngestOk(u)
        /\ req[u].kind \in Ingest
    BY <1>8, IngestFields
  <2>2. CASE u \in Answered
    <3>1. (req[u].event \notin {Nil, u} =>
             req[u].event \in Answered /\ SameCorrelation(u, req[u].event))'
      BY <1>3, <1>5, <1>6, <2>1, <2>2 DEF IngestOk, SameCorrelation
    <3>2. req[u].kind = "job" => req[u].step = "done"
      BY <2>1, <2>2 DEF Answered, ShapeOk
    <3> QED
      BY <1>1, <1>3, <1>6, <2>1, <2>2, <3>1, <3>2 DEF IngestOk, Message
  <2>3. CASE u \notin Answered
    <3>1. req'[u].step = "failed" /\ req'[u].event = Nil /\ req'[u].key = Nil
      BY <1>3, <1>8, <2>1, <2>3 DEF Answered, Ended, ShapeOk
    <3> QED
      BY <3>1 DEF IngestOk
  <2> QED
    BY <2>2, <2>3
<1>9. RequestsOk'
  BY <1>2, <1>4, <1>5, <1>7, <1>8 DEF RequestsOk
<1>10. EventsOk'
  BY <1>1, <1>3, <1>5, <1>6 DEF EventsOk
<1>11. OnePerCorrelation'
  <2> SUFFICES ASSUME NEW s \in Of(Ingest), NEW t \in Of(Ingest),
                      Inserted(s)', Inserted(t)', SameCorrelation(s, t)'
               PROVE  s = t
    BY <1>4 DEF OnePerCorrelation
  <2>1. s \in events /\ t \in events
    BY <1>1, <1>5 DEF Inserted
  <2>2. Inserted(s) /\ Inserted(t)
    BY <2>1 DEF Inserted, EventsOk
  <2>3. SameCorrelation(s, t)
    BY <1>3 DEF SameCorrelation, Of
  <2> QED
    BY <2>2, <2>3 DEF OnePerCorrelation
<1>12. RowsComplete'
  <2>1. (\A row \in evidence : row.key \in files)'
    BY <1>1 DEF RowsComplete
  <2>2. (\A row \in evidence \cup notes \cup notified : row.event \in events)'
    BY <1>1 DEF RowsComplete
  <2>3. (\A e \in events : req[e].camera \in cameras)'
    BY <1>10 DEF EventsOk
  <2> QED
    BY <2>1, <2>2, <2>3 DEF RowsComplete
<1>13. NotifiedOk'
  <2>1. \A u \in Answered : req'[u].event = req[u].event /\ req'[u].stable = req[u].stable
                            /\ req'[u].severity = req[u].severity
    BY <1>3, <1>6
  <2> QED
    BY <1>1, <1>5, <2>1 DEF NotifiedOk, DueOf
<1>14. MessagesOk'
  BY <1>1, <1>3, <1>4, <1>5 DEF MessagesOk, Of
<1>15. FailsOnlyIfDisturbed'
  <2> SUFFICES ASSUME NEW u \in Of(Ingest), req'[u].step = "failed" PROVE req'[u].disturbed
    BY <1>4 DEF FailsOnlyIfDisturbed
  <2>1. u \in Request /\ req[u] # Nil /\ ShapeOk(req[u]) /\ req[u].kind \in Ingest
    BY IngestFields
  <2> QED
    BY <1>3, <2>1 DEF FailsOnlyIfDisturbed, Ended, ShapeOk
<1> QED
  BY <1>9, <1>10, <1>11, <1>12, <1>13, <1>14, <1>15

-----------------------------------------------------------------------------
LEMMA CreateRuleKeeps ==
  ASSUME IInv, TypeOK', NEW n \in Rule, CreateRule(n)
  PROVE  IInv'
<1> USE DEF IInv
<1>1. rules' = rules \cup {n}
      /\ UNCHANGED <<cameras, status, evidence, notes, notified, files, messages, req>>
  BY DEF CreateRule
<1>2. /\ events' = events /\ Of(Ingest)' = Of(Ingest)
      /\ Running' = Running /\ Answered' = Answered
  BY <1>1 DEF events, Of, Running, Answered
<1>3. RequestsOk'
  <2>1. ASSUME NEW u \in Of(Ingest) PROVE IngestOk(u)'
    BY <1>1, <1>2, <2>1 DEF RequestsOk, IngestOk, SameCorrelation, Message
  <2>2. ASSUME NEW u \in Running PROVE RunningOk(u)'
    BY <1>1, <1>2, <2>2 DEF RequestsOk, RunningOk, Pins, Sees, DueOf, SameCorrelation
  <2> QED
    BY <1>1, <1>2, <2>1, <2>2 DEF RequestsOk
<1>4. EventsOk' /\ RowsComplete'
  BY <1>1, <1>2 DEF EventsOk, RowsComplete
<1>5. OnePerCorrelation'
  BY <1>1, <1>2 DEF OnePerCorrelation, Inserted, SameCorrelation
<1>6. NotifiedOk'
  BY <1>1, <1>2 DEF NotifiedOk, DueOf
<1>7. MessagesOk' /\ FailsOnlyIfDisturbed'
  BY <1>1, <1>2 DEF MessagesOk, FailsOnlyIfDisturbed
<1> QED
  BY <1>3, <1>4, <1>5, <1>6, <1>7

(* Steps of the dashboard, and of the clock.                               *)
LEMMA UntouchedKeeps ==
  ASSUME IInv, TypeOK', UNCHANGED <<rows, files, messages, req>>
  PROVE  IInv'
<1>1. UNCHANGED <<cameras, status, evidence, notes, notified, rules, files, messages, req>>
  BY DEF rows
<1>2. /\ events' = events /\ Of(Ingest)' = Of(Ingest)
      /\ Running' = Running /\ Answered' = Answered
  BY <1>1 DEF events, Of, Running, Answered
<1>3. RequestsOk'
  <2>1. ASSUME NEW u \in Of(Ingest) PROVE IngestOk(u)'
    BY <1>1, <1>2, <2>1 DEF IInv, RequestsOk, IngestOk, SameCorrelation, Message
  <2>2. ASSUME NEW u \in Running PROVE RunningOk(u)'
    BY <1>1, <1>2, <2>2 DEF IInv, RequestsOk, RunningOk, Pins, Sees, DueOf, SameCorrelation
  <2> QED
    BY <1>1, <1>2, <2>1, <2>2 DEF IInv, RequestsOk
<1>4. EventsOk' /\ RowsComplete'
  BY <1>1, <1>2 DEF IInv, EventsOk, RowsComplete
<1>5. OnePerCorrelation'
  BY <1>1, <1>2 DEF IInv, OnePerCorrelation, Inserted, SameCorrelation
<1>6. NotifiedOk'
  BY <1>1, <1>2 DEF IInv, NotifiedOk, DueOf
<1>7. MessagesOk' /\ FailsOnlyIfDisturbed'
  BY <1>1, <1>2 DEF IInv, MessagesOk, FailsOnlyIfDisturbed
<1> QED
  BY <1>3, <1>4, <1>5, <1>6, <1>7 DEF IInv

LEMMA Started == Init => IInv
<1> SUFFICES ASSUME Init PROVE IInv
  OBVIOUS
<1>1. TypeOK
  BY IncidentConstants DEF Init, TypeOK, Idle
<1>2. /\ events = {} /\ Of(Ingest) = {} /\ Running = {} /\ Answered = {}
      /\ \A r \in Request : req[r] = Nil
      /\ evidence = {} /\ notes = {} /\ notified = {} /\ messages = {}
  BY DEF Init, events, Of, Running, Answered
<1> QED
  BY <1>1, <1>2 DEF IInv, RequestsOk, EventsOk, OnePerCorrelation, RowsComplete,
                    NotifiedOk, MessagesOk, FailsOnlyIfDisturbed

LEMMA Inductive == IInv /\ [Next]_vars => IInv'
<1> SUFFICES ASSUME IInv, [Next]_vars PROVE IInv'
  OBVIOUS
<1>1. TypeOK'
  BY StepTypes DEF IInv
<1>2. ASSUME NEW r \in Request, Step(r) PROVE IInv'
  <2>1. CASE InsertEvent(r)
    BY <1>1, <2>1, InsertEventKeeps
  <2>2. CASE FindEvent(r)
    BY <1>1, <2>2, FindEventKeeps
  <2>3. CASE StoreSnapshot(r)
    BY <1>1, <2>3, StoreSnapshotKeeps
  <2>4. CASE InsertEvidence(r)
    BY <1>1, <2>4, InsertEvidenceKeeps
  <2>5. CASE ReadRules(r)
    BY <1>1, <2>5, ReadRulesKeeps
  <2>6. CASE Notify(r)
    BY <1>1, <2>6, NotifyKeeps
  <2>7. CASE Commit(r)
    BY <1>1, <2>7, CommitKeeps
  <2>8. CASE r \in Of(Ingest) /\ Announce(r)
    BY <1>1, <2>8, AnnounceJobKeeps, AnnounceRouteKeeps
  <2>9. CASE \/ AddNote(r) \/ Invalidate(r)
             \/ \E new \in {"OPEN", "RESOLVED"} : SetStatus(r, new)
    BY <1>1, <2>9, OperatorKeeps
  <2>10. CASE RemoveCamera(r)
    BY <1>1, <2>10, RemoveCameraKeeps
  <2>11. CASE Throw(r)
    BY <1>1, <2>11, ThrowKeeps
  <2> QED
    BY <1>2, <2>1, <2>2, <2>3, <2>4, <2>5, <2>6, <2>7, <2>8, <2>9, <2>10, <2>11 DEF Step
<1>3. ASSUME NEW n \in Rule, CreateRule(n) \/ DeleteRule(n) PROVE IInv'
  BY <1>1, <1>3, CreateRuleKeeps, DeleteRuleKeeps
<1>4. ASSUME NEW v \in Viewer, Look(v) \/ Count(v) \/ CacheSet(v) \/ Close(v)
      PROVE  IInv'
  <2>1. UNCHANGED <<rows, files, messages, req>>
    BY <1>4 DEF Look, Count, CacheSet, Close
  <2> QED
    BY <1>1, <2>1, UntouchedKeeps
<1>5. CASE Tick \/ UNCHANGED vars
  <2>1. UNCHANGED <<rows, files, messages, req>>
    BY <1>5 DEF Tick, vars
  <2> QED
    BY <1>1, <2>1, UntouchedKeeps
<1>6. CASE Restart
  BY <1>1, <1>6, RestartKeeps
<1> QED
  BY <1>1, <1>2, <1>3, <1>4, <1>5, <1>6, ArriveKeeps DEF Next

-----------------------------------------------------------------------------
(* A step changes what the dashboard reads in one of these ways.           *)
LEMMA BoardSteps ==
  ASSUME Next
  PROVE  \/ \E r \in Request : RemoveCamera(r)
         \/ \E v \in Viewer : Look(v) \/ Count(v) \/ CacheSet(v) \/ Close(v)
         \/ Tick
         \/ UNCHANGED <<clock, cameras, changed>> /\ cache' \in {cache, Nil}
            /\ (view' = view \/ view' = [v \in Viewer |-> Idle])
<1> DEFINE Apart == UNCHANGED <<clock, cameras, board>>
<1>1. ASSUME NEW r \in Request, Step(r), ~RemoveCamera(r), ~Invalidate(r) PROVE Apart
  <2>1. CASE IngestStep(r)
    BY <2>1 DEF IngestStep, InsertEvent, FindEvent, StoreSnapshot, InsertEvidence,
                ReadRules, Notify, Announce, rows
  <2>2. CASE Commit(r)
    BY <2>2 DEF Commit, CommitRows
  <2>3. CASE AddNote(r) \/ \E new \in {"OPEN", "RESOLVED"} : SetStatus(r, new)
    BY <2>3 DEF AddNote, SetStatus
  <2>4. CASE Throw(r)
    BY <2>4 DEF Throw, rows
  <2> QED
    BY <1>1, <2>1, <2>2, <2>3, <2>4 DEF Step, IngestStep
<1>2. ASSUME NEW r \in Request, Invalidate(r)
      PROVE  UNCHANGED <<clock, cameras, view, changed>> /\ cache' = Nil
  BY <1>2 DEF Invalidate, rows
<1>3. ASSUME NEW r \in Request,
             \E kind \in Kind, camera \in Camera \cup {Nil},
                correlation \in Correlation \cup {Nil},
                severity \in Severity \cup {Nil}, event \in events \cup {Nil} :
               Arrive(r, kind, camera, correlation, severity, event)
      PROVE  Apart
  BY <1>3 DEF Arrive, rows
<1>4. ASSUME NEW n \in Rule, CreateRule(n) \/ DeleteRule(n) PROVE Apart
  BY <1>4 DEF CreateRule, DeleteRule
<1>5. CASE Restart
  BY <1>5 DEF Restart, rows
<1>6. Apart => UNCHANGED <<clock, cameras, changed>> /\ cache' = cache /\ view' = view
  BY DEF board
<1> HIDE DEF Apart
<1> QED
  BY <1>1, <1>2, <1>3, <1>4, <1>5, <1>6 DEF Next

LEMMA BoardKeeps == IInv /\ BoardOk /\ [Next]_vars => BoardOk'
<1> SUFFICES ASSUME IInv, BoardOk, [Next]_vars PROVE BoardOk'
  OBVIOUS
<1> DEFINE View == [step : {"idle", "miss", "counted", "shown"}, since : 0..MaxClock,
                    value : SUBSET Camera]
<1>1. /\ clock \in Nat /\ changed \in Nat /\ view \in [Viewer -> View]
      /\ cache # Nil => cache.expires \in Nat
      /\ CacheTtl \in Nat /\ RequestTime \in Nat /\ MaxClock \in Nat
  BY IncidentConstants DEF IInv, TypeOK, Entry
<1>2. \A v \in Viewer : view[v].since \in Nat
  BY <1>1
<1>3. CASE \E r \in Request : RemoveCamera(r)
  <2>1. changed' = clock /\ UNCHANGED <<clock, cache, view>>
    BY <1>3 DEF RemoveCamera
  <2> QED
    BY <1>1, <1>2, <2>1 DEF BoardOk
<1>4. ASSUME NEW v \in Viewer, Look(v) \/ Count(v) \/ CacheSet(v) \/ Close(v)
      PROVE  BoardOk'
  <2>1. UNCHANGED <<clock, cameras, changed>>
    BY <1>4 DEF Look, Count, CacheSet, Close, rows
  <2>2. ASSUME NEW w \in Viewer, w # v PROVE view'[w] = view[w]
    BY <1>1, <1>4, <2>2 DEF Look, Count, CacheSet, Close
  <2>3. CASE Look(v)
    <3>1. CASE CacheHit
      <4>1. view'[v].step = "shown" /\ view'[v].since = clock
            /\ view'[v].value = cache.value /\ cache' = cache
        BY <1>1, <2>3, <3>1 DEF Look
      <4>2. cache # Nil /\ cache.expires >= clock
        BY <3>1 DEF CacheHit
      <4>3. cache.value # cameras => clock <= changed + CacheTtl + RequestTime
        BY <1>1, <4>2 DEF BoardOk
      <4> QED
        BY <1>1, <1>2, <2>1, <2>2, <4>1, <4>3 DEF BoardOk
    <3>2. CASE ~CacheHit
      <4>1. view'[v].step = "miss" /\ view'[v].since = clock /\ cache' = cache
        BY <1>1, <2>3, <3>2 DEF Look
      <4> QED
        BY <1>1, <1>2, <2>1, <2>2, <4>1 DEF BoardOk
    <3> QED
      BY <3>1, <3>2
  <2>4. CASE Count(v)
    <3>1. view[v].step = "miss" /\ view'[v].step = "counted"
          /\ view'[v].since = view[v].since /\ view'[v].value = cameras /\ cache' = cache
      BY <1>1, <2>4 DEF Count
    <3> QED
      BY <1>1, <1>2, <2>1, <2>2, <3>1 DEF BoardOk
  <2>5. CASE CacheSet(v)
    <3>1. view[v].step = "counted" /\ view'[v].step = "shown"
          /\ view'[v].since = view[v].since /\ view'[v].value = view[v].value
          /\ cache'.value = view[v].value /\ cache'.expires = clock + CacheTtl
      BY <1>1, <2>5 DEF CacheSet
    <3>2. view[v].value # cameras => clock <= changed + RequestTime
      BY <1>1, <1>2, <3>1 DEF BoardOk
    <3> QED
      BY <1>1, <1>2, <2>1, <2>2, <3>1, <3>2 DEF BoardOk
  <2>6. CASE Close(v)
    <3>1. view'[v].step = "idle" /\ view'[v].since = 0 /\ cache' = cache
      BY <1>1, <2>6 DEF Close, Idle
    <3> QED
      BY <1>1, <1>2, <2>1, <2>2, <3>1 DEF BoardOk
  <2> QED
    BY <1>4, <2>3, <2>4, <2>5, <2>6
<1>5. CASE Tick
  <2>1. clock' = clock + 1 /\ UNCHANGED <<cameras, cache, view, changed>>
    BY <1>5 DEF Tick, rows, board
  <2>2. \A v \in Viewer :
          /\ view[v].step # "shown"
          /\ view[v].step # "idle" => clock < view[v].since + RequestTime
    BY <1>5 DEF Tick
  <2> QED
    BY <1>1, <1>2, <2>1, <2>2 DEF BoardOk
<1>6. CASE /\ UNCHANGED <<clock, cameras, changed>> /\ cache' \in {cache, Nil}
           /\ view' = view \/ view' = [v \in Viewer |-> Idle]
  BY <1>1, <1>6 DEF BoardOk, Idle
<1>7. CASE UNCHANGED vars
  BY <1>7 DEF vars, rows, board, BoardOk
<1> QED
  BY <1>3, <1>4, <1>5, <1>6, <1>7, BoardSteps

-----------------------------------------------------------------------------
(* The parts of IInv that TypeOK and the properties rest on always hold,   *)
(* whatever requests overlap, fail at any step, are cut off by a restart,  *)
(* or meet a camera or a rule that is deleted.                             *)
THEOREM IncidentInvariance == Spec => [](IInv /\ BoardOk)
<1>1. Init => IInv /\ BoardOk
  BY Started, IncidentConstants DEF Init, BoardOk, Idle
<1>2. (IInv /\ BoardOk) /\ [Next]_vars => (IInv /\ BoardOk)'
  BY Inductive, BoardKeeps
<1> QED
  BY <1>1, <1>2, PTL DEF Spec

(* Rows, requests and the cached entry keep the types of the schema and of *)
(* the routes.                                                             *)
THEOREM IncidentTypes == Spec => []TypeOK
<1>1. IInv => TypeOK
  BY DEF IInv
<1> QED
  BY <1>1, IncidentInvariance, PTL

(* Every retry of a detection is answered with the same event: an ingest   *)
(* that found an event found the one its correlation id has.               *)
LEMMA AnswersNameOneEvent == IInv => RetriesAgree
<1> SUFFICES ASSUME IInv, NEW r \in Answered, NEW s \in Answered, SameCorrelation(r, s),
                    req[r].event \in events, req[s].event \in events
             PROVE  req[r].event = req[s].event
  BY DEF RetriesAgree
<1>1. r \in Of(Ingest) /\ s \in Of(Ingest) /\ IngestOk(r) /\ IngestOk(s)
  BY DEF Answered, IInv, RequestsOk
<1> DEFINE e == req[r].event
           f == req[s].event
<1>2. e # Nil /\ f # Nil
  BY IncidentConstants DEF events
<1>3. e = r \/ (e \in Answered /\ SameCorrelation(r, e))
  BY <1>1, <1>2 DEF IngestOk
<1>4. f = s \/ (f \in Answered /\ SameCorrelation(s, f))
  BY <1>1, <1>2 DEF IngestOk
<1>5. e \in Of(Ingest) /\ f \in Of(Ingest)
  BY <1>1, <1>3, <1>4 DEF Answered
<1>6. SameCorrelation(e, f)
  BY <1>3, <1>4 DEF SameCorrelation
<1>7. Inserted(e) /\ Inserted(f)
  BY DEF Inserted, IInv, EventsOk
<1> QED
  BY <1>5, <1>6, <1>7 DEF IInv, OnePerCorrelation

(* All answered ingests of one correlation id name one event, by route or  *)
(* by job and however they overlap, unless it was deleted in between       *)
(* (0001_init.sql:223).                                                    *)
THEOREM RetriesNameOneEvent == Spec => []RetriesAgree
  BY IncidentInvariance, AnswersNameOneEvent, PTL

(* No ingest fails because the same detection is ingested a second time:   *)
(* it takes a restart, an error of the store or the database, or a camera  *)
(* or a rule that is deleted meanwhile.                                    *)
THEOREM DuplicatesNeverFail == Spec => []FailsOnlyIfDisturbed
<1>1. IInv => FailsOnlyIfDisturbed
  BY DEF IInv
<1> QED
  BY <1>1, IncidentInvariance, PTL

(* Evidence has its file, and rows of evidence, notes and notifications    *)
(* have their event and its camera, whatever is deleted and wherever a     *)
(* restart cuts the work off.                                              *)
THEOREM NoRowDangles == Spec => []RowsComplete
<1>1. IInv => RowsComplete
  BY DEF IInv
<1> QED
  BY <1>1, IncidentInvariance, PTL

LEMMA AnsweredAreTold == IInv => DueRulesNotified
<1> SUFFICES ASSUME IInv, NEW r \in Answered, req[r].event \in events
             PROVE  LET told == {row.rule : row \in {x \in notified : x.by = r}} IN
                    /\ {n \in req[r].stable : MinSeverity[n] <= req[r].severity} \subseteq told
                    /\ \A n \in told : MinSeverity[n] <= req[r].severity
  BY DEF DueRulesNotified
<1> DEFINE told == {row.rule : row \in {x \in notified : x.by = r}}
<1>1. ASSUME NEW n \in req[r].stable, MinSeverity[n] <= req[r].severity PROVE n \in told
  <2>1. [event |-> req[r].event, rule |-> n, by |-> r] \in notified
    BY <1>1 DEF IInv, NotifiedOk, DueOf
  <2> QED
    BY <2>1
<1>2. ASSUME NEW n \in told PROVE MinSeverity[n] <= req[r].severity
  <2>1. PICK row \in notified : row.by = r /\ row.rule = n
    BY <1>2
  <2>2. row.rule \in DueOf(row.by, Rule)
    BY DEF IInv, NotifiedOk
  <2> QED
    BY <2>1, <2>2 DEF DueOf
<1> QED
  BY <1>1, <1>2

(* An answered ingest has notified every rule that was due and stayed, and *)
(* none that was not due (notification.service.ts:21-40).                  *)
THEOREM DueRulesAreNotified == Spec => []DueRulesNotified
  BY IncidentInvariance, AnsweredAreTold, PTL

LEMMA AnnouncementsHold == IInv => AnnouncedAsPromised
<1> SUFFICES ASSUME IInv PROVE AnnouncedAsPromised
  OBVIOUS
<1>1. ASSUME NEW r \in Answered, req[r].kind = "job" PROVE Message(r) \in messages
  <2>1. r \in Request /\ req[r] # Nil /\ ShapeOk(req[r]) /\ IngestOk(r) /\ r \in Of(Ingest)
    BY <1>1 DEF Answered, Of, IInv, RequestsOk
  <2>2. req[r].step = "done"
    BY <1>1, <2>1 DEF Answered, ShapeOk, Ingest
  <2> QED
    BY <1>1, <2>1, <2>2 DEF IngestOk
<1> QED
  BY <1>1 DEF IInv, MessagesOk, AnnouncedAsPromised

(* The route announces what is committed, and no job commits unannounced   *)
(* (events.routes.ts:295-296, jobs/worker.ts:121-124).                     *)
THEOREM AnnouncementsAreKept == Spec => []AnnouncedAsPromised
  BY IncidentInvariance, AnnouncementsHold, PTL

(* The dashboard shows a camera that is gone for no longer than one entry  *)
(* of the cache lives and one request takes (misc.routes.ts:22-49).        *)
THEOREM DashboardCatchesUp == Spec => []DashboardFresh
<1>1. BoardOk => DashboardFresh
  BY DEF BoardOk, DashboardFresh
<1> QED
  BY <1>1, IncidentInvariance, PTL
=============================================================================
