-------------------------- MODULE DetectionEngine --------------------------
(***************************************************************************)
(* The safety and security detection engine, server/src/ai/engine.ts, as   *)
(* the API runs it: several requests at once, each inside one READ         *)
(* COMMITTED transaction of db/pool.ts (withTenant), every `await` of      *)
(* processDetection a point where the other requests run.                  *)
(*                                                                         *)
(* Database rows are shared state.  What a transaction wrote and has not   *)
(* committed is in pending[t], visible to nobody else; the rows it updated *)
(* stay locked until it ends.  The realtime channel is not transactional:  *)
(* published grows at the moment of the call.                              *)
(*                                                                         *)
(* A camera may be deleted, alone or with its site, and its incidents and  *)
(* rules go with it; audit rows and cooldown rows stay.                    *)
(*                                                                         *)
(* Left out: evidence files, the text of notifications, updated_at and     *)
(* last_alert_at (nothing reads them), the confidence column, and the      *)
(* deletion of the tenant itself.                                          *)
(***************************************************************************)
EXTENDS Naturals, Sequences, FiniteSets

CONSTANTS
  Camera,        \* cameras of the tenant
  EventType,     \* detection types in use, strings of ai/types.ts
  EventId,       \* uuids an incident may get
  Tx,            \* database connections: requests that may run at once
  Request,       \* the detection requests that may arrive
  RuleChoice,    \* the ai_rules configurations an administrator may choose
  Nil,           \* absence of a row, a rule or an override
  CorrelationWindow,   \* FIRE_SMOKE_CORRELATION_WINDOW_MS
  DefaultCooldown,     \* cooldown without a rule, 30 s
  MaxTime        \* bound on the clock

FireType == {"FIRE", "SMOKE", "FIRE_AND_SMOKE"}
Severity == {"INFO", "LOW", "MEDIUM", "HIGH", "CRITICAL"}
Kind     == {"create", "upgrade"}

RuleConfig == [enabled : BOOLEAN, minConfidence : Nat, minDuration : Nat,
               severity : Severity, cooldown : Nat]

RequestRecord == [camera : Camera, types : Seq(EventType), confidence : Nat,
                  duration : Nat, severity : Severity \cup {Nil}]

(* [mutant] every type has a bucket of its own. *)
BucketPerType(type) == type

(* Fire and smoke share one cooldown bucket per camera. *)
Bucket(type) == IF type \in FireType THEN "FIRE_SAFETY" ELSE type
CooldownKey(camera, type) == <<camera, Bucket(type)>>
Key == Camera \X {Bucket(type) : type \in EventType}

ASSUME ConstantTypes ==
  /\ Request \subseteq RequestRecord
  /\ RuleChoice \subseteq RuleConfig \cup {Nil}
  /\ Nil \in RuleChoice
  /\ CorrelationWindow \in Nat /\ DefaultCooldown \in Nat /\ MaxTime \in Nat
  /\ "FIRE_AND_SMOKE" \in EventType

ASSUME NilIsFresh ==
  /\ Nil \notin EventId \cup Tx \cup Severity \cup RuleConfig
  /\ Nil \notin [event : EventId \cup {Nil}, expires : Nat]
  /\ Nil \notin [camera : Camera, type : EventType, severity : Severity,
                 occurredAt : Nat]

(* evaluateDetection returns every event type once, and the buckets of the *)
(* types it can return for one detection are distinct.                     *)
ASSUME DistinctBuckets ==
  \A r \in Request : \A i, j \in DOMAIN r.types :
    Bucket(r.types[i]) = Bucket(r.types[j]) => i = j

DefaultSeverity(type) ==
  CASE type \in {"FIRE", "FIRE_AND_SMOKE"} -> "CRITICAL"
    [] type \in {"SMOKE", "UNAUTHORIZED_ENTRY", "AFTER_HOURS_ACTIVITY",
                 "OBJECT_REMOVED", "RESTRICTED_ZONE_ACTIVITY"} -> "HIGH"
    [] OTHER -> "MEDIUM"

VARIABLES
  now,        \* the clock the API and the database read
  cameras,    \* the cameras that exist
  rules,      \* the row findRule selects for a camera and a type, or Nil
  events,     \* committed incidents, by id
  cooldowns,  \* committed alert_cooldowns rows, by key
  auditLog,   \* how often incident.create / incident.upgrade was committed
  removed,    \* history: the incidents deleted with their camera
  published,  \* what was sent to the tenant's realtime channel
  pc,         \* where each request is in processDetection
  local,      \* its local variables
  pending,    \* its uncommitted writes
  rowLock,    \* who has updated an event row and not ended
  keyLock     \* who has upserted a cooldown row and not ended

store == <<cameras, events, cooldowns, auditLog, removed>>
locks == <<rowLock, keyLock>>
vars  == <<now, rules, store, published, pc, local, pending, locks>>

Incident == [camera : Camera, type : EventType, severity : Severity,
             occurredAt : Nat]
Cooldown == [event : EventId \cup {Nil}, expires : Nat]

Step == {"idle", "findRule", "readCooldown", "readIncident", "create", "fold",
         "upsert", "alert"}

LocalState ==
  [sig : Request \cup {Nil}, todo : Seq(EventType), began : Nat,
   rule : RuleConfig \cup {Nil}, at : Nat, incident : EventId \cup {Nil},
   created : BOOLEAN, upgraded : BOOLEAN]

Writes ==
  [events : [EventId -> Incident \cup {Nil}], upgrades : SUBSET EventId,
   cooldowns : [Key -> Cooldown \cup {Nil}],
   audits : SUBSET (EventId \X Kind)]

NoWrites ==
  [events |-> [e \in EventId |-> Nil], upgrades |-> {},
   cooldowns |-> [k \in Key |-> Nil], audits |-> {}]

AtRest == [sig |-> Nil, todo |-> << >>, began |-> 0, rule |-> Nil, at |-> 0,
           incident |-> Nil, created |-> FALSE, upgraded |-> FALSE]

Init ==
  /\ now = 0
  /\ cameras = Camera
  /\ removed = {}
  /\ rules = [p \in Camera \X EventType |-> Nil]
  /\ events = [e \in EventId |-> Nil]
  /\ cooldowns = [k \in Key |-> Nil]
  /\ auditLog = [p \in EventId \X Kind |-> 0]
  /\ published = {}
  /\ pc = [t \in Tx |-> "idle"]
  /\ local = [t \in Tx |-> AtRest]
  /\ pending = [t \in Tx |-> NoWrites]
  /\ rowLock = [e \in EventId |-> Nil]
  /\ keyLock = [k \in Key |-> Nil]

(* What request t is working on. *)
CurrentType(t) == Head(local[t].todo)
CurrentCamera(t) == local[t].sig.camera
CurrentKey(t) == CooldownKey(CurrentCamera(t), CurrentType(t))

UsedIds ==
  {e \in EventId : \/ events[e] # Nil \/ e \in removed
                   \/ \E t \in Tx : pending[t].events[e] # Nil
                   \/ \E k \in Kind : <<e, k>> \in published}

(* The transaction of t ends: its locks go, and what it wrote is forgotten *)
(* unless the action that uses this operator has just committed it.        *)
EndTransaction(t) ==
  /\ pc' = [pc EXCEPT ![t] = "idle"]
  /\ local' = [local EXCEPT ![t] = AtRest]
  /\ pending' = [pending EXCEPT ![t] = NoWrites]
  /\ rowLock' = [e \in EventId |-> IF rowLock[e] = t THEN Nil ELSE rowLock[e]]
  /\ keyLock' = [k \in Key |-> IF keyLock[k] = t THEN Nil ELSE keyLock[k]]

-----------------------------------------------------------------------------
(* POST /internal/detections, POST /events/ingest or an AI job: BEGIN, the *)
(* camera is visible, the event types to raise are known.                  *)
Receive(t, r) ==
  /\ pc[t] = "idle"
  /\ r.camera \in cameras
  /\ pc' = [pc EXCEPT ![t] = "findRule"]
  /\ local' = [local EXCEPT ![t] =
                 [AtRest EXCEPT !.sig = r, !.todo = r.types, !.began = now]]
  /\ UNCHANGED <<now, rules, store, published, pending, locks>>

(* requireTenantResource: the camera is gone, nothing is done. *)
Refuse(t, r) ==
  /\ pc[t] = "idle"
  /\ r.camera \notin cameras
  /\ UNCHANGED vars

(* The confidence threshold and the minimum observed duration. *)
Credible(sig, rule) ==
  rule # Nil => /\ sig.confidence >= rule.minConfidence
                /\ sig.duration >= rule.minDuration

(* A disabled rule throws: the whole transaction is rolled back. *)
RejectDisabled(t) ==
  /\ pc[t] = "findRule" /\ local[t].todo # << >>
  /\ LET rule == rules[<<CurrentCamera(t), CurrentType(t)>>]
     IN  rule # Nil /\ ~rule.enabled
  /\ EndTransaction(t)
  /\ UNCHANGED <<now, rules, store, published>>

(* noResult: a detection that is not credible is skipped. *)
SkipDetection(t) ==
  /\ pc[t] = "findRule" /\ local[t].todo # << >>
  /\ LET rule == rules[<<CurrentCamera(t), CurrentType(t)>>]
     IN  rule # Nil /\ rule.enabled /\ ~Credible(local[t].sig, rule)
  /\ local' = [local EXCEPT ![t].todo = Tail(local[t].todo)]
  /\ UNCHANGED <<now, rules, store, published, pc, pending, locks>>

FindRule(t) ==
  /\ pc[t] = "findRule" /\ local[t].todo # << >>
  /\ LET rule == rules[<<CurrentCamera(t), CurrentType(t)>>]
     IN  /\ rule # Nil => rule.enabled
         /\ Credible(local[t].sig, rule)
         /\ local' = [local EXCEPT ![t].rule = rule]
  /\ pc' = [pc EXCEPT ![t] = "readCooldown"]
  /\ UNCHANGED <<now, rules, store, published, pending, locks>>

(* [mutant] a window that has ended still folds. *)
WindowOpenAtEnd(key, n) == cooldowns[key] # Nil /\ cooldowns[key].event # Nil

(* The window is open at time n, and its incident was not deleted. *)
WindowOpen(key, n) ==
  /\ cooldowns[key] # Nil
  /\ cooldowns[key].expires > n
  /\ cooldowns[key].event # Nil

(* Select the cooldown row and decide: fold the detection into the active  *)
(* incident, or create one.                                                *)
ReadCooldown(t) ==
  /\ pc[t] = "readCooldown"
  /\ LET key == CurrentKey(t)
         within == WindowOpen(key, now)
         next == IF within
                 THEN IF CurrentType(t) \in FireType
                      THEN "readIncident" ELSE "fold"
                 ELSE "create"
     IN  /\ pc' = [pc EXCEPT ![t] = next]
         /\ local' = [local EXCEPT
              ![t].at = now, ![t].created = FALSE, ![t].upgraded = FALSE,
              ![t].incident = IF within THEN cooldowns[key].event ELSE Nil]
  /\ UNCHANGED <<now, rules, store, published, pending, locks>>

(* [mutant] an incident that is FIRE_AND_SMOKE already is upgraded again. *)
ComplementaryAgain(old, new) == old # new /\ {old, new} \subseteq FireType

Complementary(old, new) == {old, new} = {"FIRE", "SMOKE"}

(* Read the active incident, if it is still there, and decide whether fire *)
(* and smoke correlate.                                                    *)
ReadIncident(t) ==
  /\ pc[t] = "readIncident"
  /\ LET row == events[local[t].incident]
     IN  local' = [local EXCEPT ![t].upgraded =
           /\ row # Nil
           /\ Complementary(row.type, CurrentType(t))
           /\ local[t].at <= row.occurredAt + CorrelationWindow]
  /\ pc' = [pc EXCEPT ![t] = "fold"]
  /\ UNCHANGED <<now, rules, store, published, pending, locks>>

(* UPDATE events on the active incident: the upgrade when one was decided, *)
(* updated_at otherwise.  Both wait for the row; both find none when the   *)
(* incident was deleted.                                                   *)
FoldDetection(t) ==
  /\ pc[t] = "fold"
  /\ LET e == local[t].incident
     IN  \/ /\ events[e] = Nil
            /\ UNCHANGED <<rowLock, pending>>
         \/ /\ events[e] # Nil /\ rowLock[e] \in {Nil, t}
            /\ rowLock' = [rowLock EXCEPT ![e] = t]
            /\ pending' = [pending EXCEPT ![t].upgrades =
                 IF local[t].upgraded THEN @ \cup {e} ELSE @]
  /\ pc' = [pc EXCEPT ![t] = "upsert"]
  /\ UNCHANGED <<now, rules, store, published, local, keyLock>>

SeverityOf(sig, rule, type) ==
  IF sig.severity # Nil THEN sig.severity
  ELSE IF rule # Nil THEN rule.severity ELSE DefaultSeverity(type)

(* INSERT INTO events; occurred_at defaults to the transaction's start.    *)
(* Its foreign key refuses the incident of a deleted camera: Rollback.     *)
CreateIncident(t) ==
  /\ pc[t] = "create"
  /\ CurrentCamera(t) \in cameras
  /\ \E e \in EventId \ UsedIds :
       /\ pending' = [pending EXCEPT ![t].events[e] =
            [camera |-> CurrentCamera(t), type |-> CurrentType(t),
             severity |-> SeverityOf(local[t].sig, local[t].rule,
                                     CurrentType(t)),
             occurredAt |-> local[t].began]]
       /\ local' = [local EXCEPT ![t].incident = e, ![t].created = TRUE]
  /\ pc' = [pc EXCEPT ![t] = "upsert"]
  /\ UNCHANGED <<now, rules, store, published, locks>>

CooldownOf(rule) == IF rule # Nil THEN rule.cooldown ELSE DefaultCooldown

(* INSERT ... ON CONFLICT DO UPDATE on the cooldown row; it waits for any  *)
(* transaction that has written the same key.  Its foreign key refuses an  *)
(* incident that was deleted meanwhile: Rollback.                          *)
UpsertCooldown(t) ==
  /\ pc[t] = "upsert"
  /\ local[t].created \/ events[local[t].incident] # Nil
  /\ LET key == CurrentKey(t)
         alerted == local[t].created \/ local[t].upgraded
     IN  /\ keyLock[key] \in {Nil, t}
         /\ keyLock' = [keyLock EXCEPT ![key] = t]
         /\ pending' = [pending EXCEPT ![t].cooldowns[key] =
              [event |-> local[t].incident,
               expires |-> local[t].at + CooldownOf(local[t].rule)]]
         /\ pc' = [pc EXCEPT ![t] = IF alerted THEN "alert" ELSE "findRule"]
         /\ local' = IF alerted THEN local
                     ELSE [local EXCEPT ![t].todo = Tail(@)]
  /\ UNCHANGED <<now, rules, store, published, rowLock>>

(* [mutant] the message is sent by the caller, for the first incident only. *)
PublishedFirst(alert) ==
  IF \E a \in published : a[2] = alert[2] THEN published
  ELSE published \cup {alert}

PublishedWith(alert) == published \cup {alert}

(* Notifications and the audit row, part of the transaction, then the      *)
(* message on the realtime channel, which is not.                          *)
Alert(t) ==
  /\ pc[t] = "alert"
  /\ LET alert == <<local[t].incident,
                    IF local[t].created THEN "create" ELSE "upgrade">>
     IN  /\ pending' = [pending EXCEPT ![t].audits = @ \cup {alert}]
         /\ published' = PublishedWith(alert)
  /\ pc' = [pc EXCEPT ![t] = "findRule"]
  /\ local' = [local EXCEPT ![t].todo = Tail(@)]
  /\ UNCHANGED <<now, rules, store, locks>>

(* [mutant] the upgrade keeps the severity of the incident. *)
UpgradedTypeOnly(row) == [row EXCEPT !.type = "FIRE_AND_SMOKE"]

(* The UPDATE of a correlation upgrade, applied to the row. *)
Upgraded(row) == [row EXCEPT !.type = "FIRE_AND_SMOKE", !.severity = "CRITICAL"]

(* [mutant] the upgrade restarts the incident's time. *)
EventsAfterRestarting(w) ==
  [e \in EventId |->
     IF w.events[e] # Nil THEN w.events[e]
     ELSE IF e \in w.upgrades
          THEN [Upgraded(events[e]) EXCEPT !.occurredAt = now]
     ELSE events[e]]

(* The tables with the writes w applied. *)
EventsAfter(w) ==
  [e \in EventId |->
     IF w.events[e] # Nil THEN w.events[e]
     ELSE IF e \in w.upgrades THEN Upgraded(events[e])
     ELSE events[e]]

CooldownsAfter(w) ==
  [k \in Key |-> IF w.cooldowns[k] # Nil THEN w.cooldowns[k] ELSE cooldowns[k]]

(* [mutant] folded detections are audited as new incidents as well. *)
AuditsAfterFolding(w) ==
  [p \in EventId \X Kind |->
     IF p \in w.audits \/ \E k \in Key : /\ p[2] = "create"
                                        /\ w.cooldowns[k] # Nil
                                        /\ w.cooldowns[k].event = p[1]
     THEN auditLog[p] + 1 ELSE auditLog[p]]

AuditsAfter(w) ==
  [p \in EventId \X Kind |->
     IF p \in w.audits THEN auditLog[p] + 1 ELSE auditLog[p]]

(* COMMIT: all of the transaction's writes become visible at once. *)
Commit(t) ==
  /\ pc[t] = "findRule" /\ local[t].todo = << >>
  /\ events' = EventsAfter(pending[t])
  /\ cooldowns' = CooldownsAfter(pending[t])
  /\ auditLog' = AuditsAfter(pending[t])
  /\ EndTransaction(t)
  /\ UNCHANGED <<now, cameras, removed, rules, published>>

(* A statement or the connection fails, or Postgres picks t as the victim  *)
(* of a lock cycle: withTenant rolls back.  A crash of the API is this     *)
(* step for every open transaction.                                        *)
Rollback(t) ==
  /\ pc[t] # "idle"
  /\ EndTransaction(t)
  /\ UNCHANGED <<now, rules, store, published>>

(* POST, PATCH or DELETE of /ai-rules: another row, or none, is now the    *)
(* latest for the camera and type.                                         *)
ConfigureRule(c, type, rule) ==
  /\ c \in cameras
  /\ rules' = [rules EXCEPT ![<<c, type>>] = rule]
  /\ UNCHANGED <<now, store, published, pc, local, pending, locks>>

(* What open transactions wrote of these cameras makes the DELETE wait:    *)
(* their incidents and cooldown rows, by the row or by a foreign key.      *)
Untouched(gone) ==
  /\ \A t \in Tx, e \in EventId :
       pending[t].events[e] # Nil => pending[t].events[e].camera \notin gone
  /\ \A e \in EventId :
       rowLock[e] # Nil /\ events[e] # Nil => events[e].camera \notin gone
  /\ \A k \in Key : keyLock[k] # Nil => k[1] \notin gone

(* ON DELETE SET NULL. *)
CooldownsWithout(lost) ==
  [k \in Key |-> IF cooldowns[k] # Nil /\ cooldowns[k].event \in lost
                 THEN [cooldowns[k] EXCEPT !.event = Nil] ELSE cooldowns[k]]

(* DELETE /cameras/:id, or /sites/:id with all cameras of the site: the    *)
(* incidents and rules go in cascade.                                      *)
RemoveCameras(gone) ==
  /\ gone # {} /\ gone \subseteq cameras /\ Untouched(gone)
  /\ cameras' = cameras \ gone
  /\ LET lost == {e \in EventId : events[e] # Nil /\ events[e].camera \in gone}
     IN  /\ removed' = removed \cup lost
         /\ events' = [e \in EventId |-> IF e \in lost THEN Nil ELSE events[e]]
         /\ cooldowns' = CooldownsWithout(lost)
  /\ rules' = [p \in Camera \X EventType |->
                IF p[1] \in gone THEN Nil ELSE rules[p]]
  /\ UNCHANGED <<now, auditLog, published, pc, local, pending, locks>>

Tick ==
  /\ now < MaxTime
  /\ now' = now + 1
  /\ UNCHANGED <<rules, store, published, pc, local, pending, locks>>

TxNext(t) ==
  \/ \E r \in Request : Receive(t, r) \/ Refuse(t, r)
  \/ RejectDisabled(t) \/ SkipDetection(t) \/ FindRule(t)
  \/ ReadCooldown(t) \/ ReadIncident(t)
  \/ FoldDetection(t) \/ CreateIncident(t)
  \/ UpsertCooldown(t) \/ Alert(t)
  \/ Commit(t) \/ Rollback(t)

Next ==
  \/ \E t \in Tx : TxNext(t)
  \/ \E c \in Camera, type \in EventType, rule \in RuleChoice :
       ConfigureRule(c, type, rule)
  \/ \E gone \in SUBSET Camera : RemoveCameras(gone)
  \/ Tick

Spec == Init /\ [][Next]_vars

-----------------------------------------------------------------------------
KeyOf(row) == CooldownKey(row.camera, row.type)

(* Every variable has the type the schema and engine.ts give it. *)
TypeOK ==
  /\ now \in 0..MaxTime
  /\ cameras \subseteq Camera /\ removed \subseteq EventId
  /\ rules \in [Camera \X EventType -> RuleConfig \cup {Nil}]
  /\ events \in [EventId -> Incident \cup {Nil}]
  /\ cooldowns \in [Key -> Cooldown \cup {Nil}]
  /\ auditLog \in [EventId \X Kind -> Nat]
  /\ published \subseteq EventId \X Kind
  /\ pc \in [Tx -> Step]
  /\ local \in [Tx -> LocalState]
  /\ pending \in [Tx -> Writes]
  /\ rowLock \in [EventId -> Tx \cup {Nil}]
  /\ keyLock \in [Key -> Tx \cup {Nil}]

(* A committed cooldown row groups detections into a committed incident of *)
(* its own camera and bucket, whatever the requests interleave; it names   *)
(* no incident only when its camera was deleted (engine.ts:136-206,        *)
(* 0003_safety_security_schema.sql:134).                                   *)
CooldownTracksIncident ==
  \A k \in Key : cooldowns[k] # Nil =>
    IF cooldowns[k].event = Nil THEN k[1] \notin cameras
    ELSE LET row == events[cooldowns[k].event]
    IN  /\ row # Nil /\ row.camera = k[1]
        /\ k[2] = IF row.type \in FireType THEN "FIRE_SAFETY" ELSE row.type

(* Alerts and incidents commit together: every incident ever committed has *)
(* its creation alert exactly once, also after its camera was deleted, and *)
(* no alert is on record for one that was rolled back (engine.ts:173-226). *)
AlertedExactlyOnce ==
  \A e \in EventId :
    IF events[e] = Nil /\ e \notin removed
    THEN auditLog[<<e, "create">>] = 0 /\ auditLog[<<e, "upgrade">>] = 0
    ELSE auditLog[<<e, "create">>] = 1

(* An incident whose upgrade was alerted stays FIRE_AND_SMOKE and CRITICAL *)
(* as long as it exists, even when a request that read it before the       *)
(* upgrade commits later (engine.ts:158-165).                              *)
UpgradedIsCritical ==
  \A e \in EventId : (auditLog[<<e, "upgrade">>] > 0 /\ events[e] # Nil) =>
    events[e].type = "FIRE_AND_SMOKE" /\ events[e].severity = "CRITICAL"

(* Nothing is alerted silently: an alert on record was sent to the         *)
(* realtime channel before it was committed (engine.ts:209-237).           *)
CommittedWasPublished ==
  \A e \in EventId, k \in Kind :
    auditLog[<<e, k>>] > 0 => <<e, k>> \in published

(* Requests that all read the incident before the first upgrade committed  *)
(* may each upgrade and alert it; no others can (engine.ts:147-166).       *)
UpgradeAlertsBounded ==
  \A e \in EventId : auditLog[<<e, "upgrade">>] <= Cardinality(Tx)

(* A committed incident is never moved to another camera or time or taken  *)
(* out of its cooldown bucket, and lost only with its camera; only a fire  *)
(* or smoke incident changes type, and only to FIRE_AND_SMOKE              *)
(* (engine.ts:158-165, 0001_init.sql:216-217).                             *)
IncidentsOnlyEscalate ==
  [][\A e \in EventId : events[e] # Nil =>
       \/ events'[e] = events[e]
       \/ events'[e] = Nil /\ events[e].camera \in cameras \ cameras'
       \/ /\ events[e].type \in {"FIRE", "SMOKE"}
          /\ events'[e] = Upgraded(events[e])]_vars

(* README.md:252-255: within a cooldown window detections are folded into  *)
(* the incident; another incident appears only after the window has ended. *)
NoIncidentInsideWindow ==
  [][\A e \in EventId : (events[e] = Nil /\ events'[e] # Nil) =>
       ~WindowOpen(KeyOf(events'[e]), now)]_vars

(* README.md:247-249: fire and smoke on one camera within the correlation  *)
(* window are one FIRE_AND_SMOKE incident, never a fire incident and a     *)
(* smoke incident.                                                         *)
FireAndSmokeCorrelated ==
  \A e, f \in EventId :
    (events[e] # Nil /\ events[f] # Nil /\ events[e].camera = events[f].camera)
    => ~( /\ events[e].type = "FIRE" /\ events[f].type = "SMOKE"
          /\ events[e].occurredAt <= events[f].occurredAt + CorrelationWindow
          /\ events[f].occurredAt <= events[e].occurredAt + CorrelationWindow )

-----------------------------------------------------------------------------
(* The engine seen through one cooldown key. *)
OfKey(k, e) == events[e] # Nil /\ KeyOf(events[e]) = k

CooldownLengths ==
  {DefaultCooldown} \cup {rule.cooldown : rule \in RuleChoice \ {Nil}}

Promise(k) == INSTANCE CooldownPromise WITH
  Cooldowns <- CooldownLengths,
  incidents <- {e \in EventId : OfKey(k, e)},
  window <- cooldowns[k],
  alerts <- [p \in EventId \X Kind |-> IF OfKey(k, p[1]) THEN auditLog[p] ELSE 0]

(* README.md:246-255: for every camera and category the engine implements  *)
(* the promised grouping and alerting.                                     *)
KeepsPromise ==
  /\ \A k \in Key : Promise(k)!Init
  /\ [][\A k \in Key : [Promise(k)!Next]_(Promise(k)!vars)]_vars
=============================================================================
