---------------------------- MODULE CameraHealth ----------------------------
(***************************************************************************)
(* The health of one camera, server/src/media/health.service.ts, under the *)
(* concurrent callers it has: the media worker's POST /camera-health (one  *)
(* request per report, none waits for another) and connection tests.  Each *)
(* call runs in a READ COMMITTED transaction; reading the prior status and *)
(* writing the new one are two statements.                                 *)
(*                                                                         *)
(* log stands for the camera_health_events, events and audit rows, which   *)
(* one transaction always inserts together.  Left out: resolution, codec,  *)
(* frame rate, timestamps and the reconnect counter, which nothing reads   *)
(* back into a decision.                                                   *)
(***************************************************************************)
EXTENDS Naturals, Sequences

CONSTANTS
  Tx,          \* requests that may run at once
  Report,      \* the statuses the callers report
  Nil,         \* no row, no transaction, no event
  MaxAlerts    \* bound on the realtime messages sent

Status == {"ONLINE", "OFFLINE", "CONNECTING", "RECONNECTING", "DEGRADED",
           "AUTH_FAILED", "INVALID_STREAM", "DISABLED", "UNKNOWN"}
Health == {"HEALTHY", "DEGRADED", "UNHEALTHY", "UNKNOWN"}
OfflineStatuses == {"OFFLINE", "AUTH_FAILED", "INVALID_STREAM"}
HealthEvent == {"CAMERA_OFFLINE", "CAMERA_RECOVERED"}

ASSUME HealthConstants ==
  /\ Report \subseteq Status
  /\ MaxAlerts \in Nat
  /\ Nil \notin Tx \cup Status \cup HealthEvent \cup [status : Status, health : Health]

HealthFor(status) ==
  CASE status = "ONLINE" -> "HEALTHY"
    [] status \in {"DEGRADED", "CONNECTING", "RECONNECTING"} -> "DEGRADED"
    [] status \in OfflineStatuses -> "UNHEALTHY"
    [] OTHER -> "UNKNOWN"

Row(status) == [status |-> status, health |-> HealthFor(status)]

VARIABLES
  row,        \* status and health columns of the camera, Nil when deleted
  log,        \* the committed health events, oldest first
  published,  \* how often an event was sent to the realtime channel
  pc,         \* where each request is in applyHealthUpdate
  local,      \* what it reports, the prior status it read, what it emits
  rowLock     \* the request that has updated the row and not ended

healthVars == <<row, log, published, pc, local, rowLock>>

AtRest == [report |-> Nil, prior |-> Nil, emitted |-> Nil]

HealthInit ==
  /\ row = Row("UNKNOWN")
  /\ log = << >>
  /\ published = [e \in HealthEvent |-> 0]
  /\ pc = [t \in Tx |-> "idle"]
  /\ local = [t \in Tx |-> AtRest]
  /\ rowLock = Nil

EndTransaction(t) ==
  /\ pc' = [pc EXCEPT ![t] = "idle"]
  /\ local' = [local EXCEPT ![t] = AtRest]
  /\ rowLock' = IF rowLock = t THEN Nil ELSE rowLock

AlertsLeft ==
  published["CAMERA_OFFLINE"] + published["CAMERA_RECOVERED"] < MaxAlerts

(* The request finds the camera (404 otherwise). *)
Begin(t, status) ==
  /\ pc[t] = "idle" /\ row # Nil
  /\ AlertsLeft
  /\ pc' = [pc EXCEPT ![t] = "read"]
  /\ local' = [local EXCEPT ![t].report = status]
  /\ UNCHANGED <<row, log, published, rowLock>>

(* SELECT status; a camera deleted in the meantime ends the call. *)
ReadPrior(t) ==
  /\ pc[t] = "read"
  /\ IF row = Nil
     THEN EndTransaction(t)
     ELSE /\ local' = [local EXCEPT ![t].prior = row.status]
          /\ pc' = [pc EXCEPT ![t] = "update"]
          /\ UNCHANGED rowLock
  /\ UNCHANGED <<row, log, published>>

(* UPDATE cameras waits for the row; of a deleted camera it updates none. *)
UpdateRow(t) ==
  /\ pc[t] = "update" /\ rowLock = Nil
  /\ rowLock' = IF row = Nil THEN Nil ELSE t
  /\ pc' = [pc EXCEPT ![t] = "emit"]
  /\ UNCHANGED <<row, log, published, local>>

(* [mutant] any status but an offline one is a recovery. *)
EmittedOnAnyChange(prior, status) ==
  IF prior \notin OfflineStatuses /\ status \in OfflineStatuses
  THEN "CAMERA_OFFLINE"
  ELSE IF prior \in OfflineStatuses /\ status \notin OfflineStatuses
  THEN "CAMERA_RECOVERED" ELSE Nil

(* [mutant] only a camera that was online goes offline. *)
EmittedFromOnline(prior, status) ==
  IF prior = "ONLINE" /\ status \in OfflineStatuses
  THEN "CAMERA_OFFLINE"
  ELSE IF prior \in OfflineStatuses /\ status = "ONLINE"
  THEN "CAMERA_RECOVERED" ELSE Nil

(* The event a status change calls for. *)
Emitted(prior, status) ==
  IF prior \notin OfflineStatuses /\ status \in OfflineStatuses
  THEN "CAMERA_OFFLINE"
  ELSE IF prior \in OfflineStatuses /\ status = "ONLINE"
  THEN "CAMERA_RECOVERED" ELSE Nil

(* Decide and insert the event rows, which a deleted camera's foreign key  *)
(* refuses, then send the message: before the COMMIT.                      *)
Emit(t) ==
  /\ pc[t] = "emit"
  /\ LET event == Emitted(local[t].prior, local[t].report)
     IN  IF event # Nil /\ rowLock # t
         THEN EndTransaction(t) /\ UNCHANGED published
         ELSE /\ local' = [local EXCEPT ![t].emitted = event]
              /\ published' = IF event = Nil THEN published
                              ELSE [published EXCEPT ![event] = @ + 1]
              /\ pc' = [pc EXCEPT ![t] = "commit"]
              /\ UNCHANGED rowLock
  /\ UNCHANGED <<row, log>>

Commit(t) ==
  /\ pc[t] = "commit"
  /\ row' = IF rowLock = t THEN Row(local[t].report) ELSE row
  /\ log' = IF local[t].emitted = Nil THEN log
            ELSE Append(log, local[t].emitted)
  /\ EndTransaction(t)
  /\ UNCHANGED published

(* A failing statement, a lost connection, a crash of the API. *)
Rollback(t) ==
  /\ pc[t] # "idle"
  /\ EndTransaction(t)
  /\ UNCHANGED <<row, log, published>>

(* DELETE /cameras/:id takes the row and, by cascade, its health events. *)
DeleteCamera ==
  /\ row # Nil /\ rowLock = Nil
  /\ row' = Nil /\ log' = << >>
  /\ UNCHANGED <<published, pc, local, rowLock>>

Process(t) ==
  ReadPrior(t) \/ UpdateRow(t) \/ Emit(t) \/ Commit(t) \/ Rollback(t)

HealthNext ==
  \/ \E t \in Tx : Process(t) \/ \E status \in Report : Begin(t, status)
  \/ DeleteCamera

HealthSpec == HealthInit /\ [][HealthNext]_healthVars

-----------------------------------------------------------------------------
Stage == {"idle", "read", "update", "emit", "commit"}

(* Every variable has the type the schema and health.service.ts give it. *)
HealthTypeOK ==
  /\ row \in [status : Status, health : Health] \cup {Nil}
  /\ log \in Seq(HealthEvent)
  /\ published \in [HealthEvent -> Nat]
  /\ pc \in [Tx -> Stage]
  /\ local \in [Tx -> [report : Report \cup {Nil}, prior : Status \cup {Nil},
                       emitted : HealthEvent \cup {Nil}]]
  /\ rowLock \in Tx \cup {Nil}

(* However requests interleave, a health event commits together with the   *)
(* status it announces: CAMERA_OFFLINE with an unhealthy row,              *)
(* CAMERA_RECOVERED with a healthy one (health.service.ts:77-145).         *)
EventsMatchRow ==
  [][(log' # log /\ row' # Nil) =>
       LET event == log'[Len(log')]
       IN  row'.health = IF event = "CAMERA_OFFLINE" THEN "UNHEALTHY"
                         ELSE "HEALTHY"]_healthVars

(* health.service.ts:109-110: a recovery is recorded only after an outage  *)
(* that is on record and has not been recovered from.                      *)
RecoveryEndsOutage ==
  \A i \in DOMAIN log : log[i] = "CAMERA_RECOVERED" =>
    i > 1 /\ log[i - 1] = "CAMERA_OFFLINE"

(* A camera whose row says offline has that outage as its latest event, so *)
(* the history a dashboard shows agrees with the live status               *)
(* (health.service.ts:105-119).                                            *)
OutageOnRecord ==
  (row # Nil /\ row.status \in OfflineStatuses) =>
    log # << >> /\ log[Len(log)] = "CAMERA_OFFLINE"
=============================================================================
