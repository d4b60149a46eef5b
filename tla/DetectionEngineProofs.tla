----------------------- MODULE DetectionEngineProofs -----------------------
(***************************************************************************)
(* Theorems about DetectionEngine, for any number of cameras, incidents,   *)
(* concurrent requests, rules and any length of the windows.               *)
(***************************************************************************)
EXTENDS DetectionEngine, FiniteSetTheorems, TLAPS

(* A committed or uncommitted incident that detections of key k may join. *)
HasKey(row, k) == row # Nil /\ KeyOf(row) = k

(* Request t has created e and not committed it. *)
Own(t, e) == pending[t].events[e] # Nil

(* An incident a correlation upgrade makes, or leaves, FIRE_AND_SMOKE. *)
Escalates(row) == row.type \in {"FIRE", "SMOKE"} \/ row = Upgraded(row)

(* What a request has in hand while it is under way: processDetection runs *)
(* with a signal and an event type, and it folds into an incident.         *)
Working ==
  \A t \in Tx :
    /\ pc[t] # "idle" => local[t].sig \in Request
    /\ pc[t] \notin {"idle", "findRule"} => local[t].todo # << >>
    /\ pc[t] \in {"readIncident", "fold", "upsert", "alert"} =>
         local[t].incident \in EventId

TypeInv == TypeOK /\ Working

(* Cooldown rows, committed or written, name an incident of their key that *)
(* is committed or written by the same request; the committed ones of a    *)
(* deleted camera name none.                                               *)
Grouped ==
  /\ \A k \in Key : cooldowns[k] # Nil =>
       IF cooldowns[k].event = Nil THEN k[1] \notin cameras
       ELSE HasKey(events[cooldowns[k].event], k)
  /\ \A t \in Tx, k \in Key : pending[t].cooldowns[k] # Nil =>
       LET e == pending[t].cooldowns[k].event
       IN  e \in EventId /\ (HasKey(events[e], k) \/ HasKey(pending[t].events[e], k))

(* An incident being created is nobody else's and was never in the table;  *)
(* a deleted one does not come back.                                       *)
Fresh ==
  /\ \A e \in removed : events[e] = Nil
  /\ \A t \in Tx, e \in EventId : Own(t, e) =>
       /\ events[e] = Nil /\ e \notin removed
       /\ \A u \in Tx : Own(u, e) => u = t

(* Only incidents in the table are upgraded, and only those it escalates. *)
Upgrading ==
  \A t \in Tx : \A e \in pending[t].upgrades :
    events[e] # Nil /\ Escalates(events[e])

(* What a request has updated stays locked for the deletion of a camera.   *)
Locked ==
  \A t \in Tx :
    /\ \A e \in pending[t].upgrades : rowLock[e] = t
    /\ \A k \in Key : pending[t].cooldowns[k] # Nil => keyLock[k] = t

(* The incident of key k that a request has read may have been deleted. *)
Known(e, k) == e \in removed \/ HasKey(events[e], k)

(* What the steps of processDetection may rely on when request t is there. *)
StepOK(t) ==
  /\ pc[t] = "idle" => pending[t] = NoWrites
  /\ pc[t] = "create" => ~local[t].upgraded
  /\ pc[t] \in {"readIncident", "fold"} =>
       ~local[t].created /\ Known(local[t].incident, CurrentKey(t))
  /\ pc[t] = "readIncident" => ~local[t].upgraded
  /\ pc[t] \in {"fold", "upsert", "alert"} /\ local[t].upgraded =>
       /\ ~local[t].created
       /\ local[t].incident \in removed \/ Escalates(events[local[t].incident])
  /\ pc[t] \in {"upsert", "alert"} =>
       IF local[t].created
       THEN HasKey(pending[t].events[local[t].incident], CurrentKey(t))
       ELSE Known(local[t].incident, CurrentKey(t))
  /\ pc[t] = "upsert" /\ local[t].upgraded =>
       local[t].incident \in removed \cup pending[t].upgrades
  /\ pc[t] = "alert" /\ local[t].upgraded =>
       local[t].incident \in pending[t].upgrades
  /\ pc[t] = "alert" => local[t].created \/ local[t].upgraded

Steps == \A t \in Tx : StepOK(t)

(* The alerts a request has written are those of the incidents it creates  *)
(* and upgrades; only the incident at hand may still lack its alert.       *)
AlertsOK(t) ==
  /\ pending[t].audits \subseteq published
  /\ \A e \in EventId :
       /\ <<e, "create">> \in pending[t].audits => Own(t, e)
       /\ <<e, "upgrade">> \in pending[t].audits => e \in pending[t].upgrades
       /\ Own(t, e) => \/ <<e, "create">> \in pending[t].audits
                       \/ /\ pc[t] \in {"upsert", "alert"}
                          /\ local[t].created /\ local[t].incident = e

Alerting == \A t \in Tx : AlertsOK(t)

Inv ==
  /\ TypeInv /\ Grouped /\ Fresh /\ Upgrading /\ Locked /\ Steps /\ Alerting
  /\ AlertedExactlyOnce /\ UpgradedIsCritical /\ CommittedWasPublished

LEMMA KeyType ==
  ASSUME NEW c \in Camera, NEW type \in EventType
  PROVE  CooldownKey(c, type) \in Key
BY DEF CooldownKey, Key

LEMMA CurrentTypes ==
  ASSUME TypeOK, NEW t \in Tx, local[t].sig \in Request, local[t].todo # << >>
  PROVE  /\ CurrentType(t) \in EventType
         /\ CurrentCamera(t) \in Camera
         /\ CurrentKey(t) \in Key
         /\ Tail(local[t].todo) \in Seq(EventType)
<1>1. local[t].todo \in Seq(EventType)
  BY DEF TypeOK, LocalState
<1>2. CurrentType(t) \in EventType /\ Tail(local[t].todo) \in Seq(EventType)
  BY <1>1 DEF CurrentType
<1>3. CurrentCamera(t) \in Camera
  BY ConstantTypes DEF CurrentCamera, RequestRecord
<1>4. QED
  BY <1>2, <1>3, KeyType DEF CurrentKey

LEMMA SeverityType ==
  ASSUME NEW sig \in Request, NEW rule \in RuleConfig \cup {Nil},
         NEW type \in EventType
  PROVE  SeverityOf(sig, rule, type) \in Severity
<1>1. DefaultSeverity(type) \in Severity
  BY DEF DefaultSeverity, Severity
<1>2. sig.severity \in Severity \cup {Nil}
  BY ConstantTypes DEF RequestRecord
<1>3. rule # Nil => rule.severity \in Severity
  BY DEF RuleConfig
<1>4. QED
  BY <1>1, <1>2, <1>3 DEF SeverityOf

LEMMA RestTypes == AtRest \in LocalState /\ NoWrites \in Writes
BY DEF AtRest, LocalState, NoWrites, Writes

(* The local variables and the pending writes of a request keep their      *)
(* types under the assignments the actions make.                           *)
LEMMA LocalUpdates ==
  ASSUME NEW r \in LocalState
  PROVE  /\ \A s \in Seq(EventType) : [r EXCEPT !.todo = s] \in LocalState
         /\ \A rule \in RuleConfig \cup {Nil} :
              [r EXCEPT !.rule = rule] \in LocalState
         /\ \A u \in BOOLEAN : [r EXCEPT !.upgraded = u] \in LocalState
         /\ \A e \in EventId :
              [r EXCEPT !.incident = e, !.created = TRUE] \in LocalState
         /\ \A n \in Nat, e \in EventId \cup {Nil} :
              [r EXCEPT !.at = n, !.created = FALSE, !.upgraded = FALSE,
                        !.incident = e] \in LocalState
         /\ \A q \in Request, s \in Seq(EventType), n \in Nat :
              [r EXCEPT !.sig = q, !.todo = s, !.began = n] \in LocalState
<1>1. \A s \in Seq(EventType) : [r EXCEPT !.todo = s] \in LocalState
  BY DEF LocalState
<1>2. \A rule \in RuleConfig \cup {Nil} : [r EXCEPT !.rule = rule] \in LocalState
  BY DEF LocalState
<1>3. \A u \in BOOLEAN : [r EXCEPT !.upgraded = u] \in LocalState
  BY DEF LocalState
<1>4. \A e \in EventId : [r EXCEPT !.incident = e, !.created = TRUE] \in LocalState
  BY DEF LocalState
<1>5. \A n \in Nat, e \in EventId \cup {Nil} :
        [r EXCEPT !.at = n, !.created = FALSE, !.upgraded = FALSE,
                  !.incident = e] \in LocalState
  BY DEF LocalState
<1>6. \A q \in Request, s \in Seq(EventType), n \in Nat :
        [r EXCEPT !.sig = q, !.todo = s, !.began = n] \in LocalState
  BY DEF LocalState
<1>7. QED
  BY <1>1, <1>2, <1>3, <1>4, <1>5, <1>6

LEMMA WritesEvent ==
  ASSUME NEW w \in Writes, NEW e \in EventId, NEW row \in Incident
  PROVE  [w EXCEPT !.events[e] = row] \in Writes
BY DEF Writes

LEMMA WritesUpgrade ==
  ASSUME NEW w \in Writes, NEW e \in EventId
  PROVE  [w EXCEPT !.upgrades = w.upgrades \cup {e}] \in Writes
BY DEF Writes

LEMMA WritesCooldown ==
  ASSUME NEW w \in Writes, NEW k \in Key, NEW row \in Cooldown
  PROVE  [w EXCEPT !.cooldowns[k] = row] \in Writes
BY DEF Writes

LEMMA WritesAudit ==
  ASSUME NEW w \in Writes, NEW a \in EventId \X Kind
  PROVE  [w EXCEPT !.audits = w.audits \cup {a}] \in Writes
BY DEF Writes

LEMMA EndTransactionTypes ==
  ASSUME TypeInv, NEW t \in Tx, EndTransaction(t)
  PROVE  /\ pc' \in [Tx -> Step] /\ local' \in [Tx -> LocalState]
         /\ pending' \in [Tx -> Writes]
         /\ rowLock' \in [EventId -> Tx \cup {Nil}]
         /\ keyLock' \in [Key -> Tx \cup {Nil}]
         /\ Working'
<1>1. pc' \in [Tx -> Step]
  BY DEF TypeInv, TypeOK, EndTransaction, Step
<1>2. local' \in [Tx -> LocalState]
  BY RestTypes DEF TypeInv, TypeOK, EndTransaction
<1>3. pending' \in [Tx -> Writes]
  BY RestTypes DEF TypeInv, TypeOK, EndTransaction
<1>4. rowLock' \in [EventId -> Tx \cup {Nil}] /\ keyLock' \in [Key -> Tx \cup {Nil}]
  BY DEF TypeInv, TypeOK, EndTransaction
<1>5. Working'
  BY DEF TypeInv, TypeOK, EndTransaction, Working
<1>6. QED
  BY <1>1, <1>2, <1>3, <1>4, <1>5

LEMMA TypeInit == Init => TypeInv
<1>1. ASSUME Init PROVE TypeOK
  BY <1>1, RestTypes, ConstantTypes DEF Init, TypeOK, Step, Kind
<1>2. ASSUME Init PROVE Working
  BY <1>2 DEF Init, Working
<1>3. QED
  BY <1>1, <1>2 DEF TypeInv

LEMMA TypeStep == TypeInv /\ Upgrading /\ [Next]_vars => TypeInv'
<1> SUFFICES ASSUME TypeInv, Upgrading, [Next]_vars PROVE TypeInv'
  OBVIOUS
<1> USE DEF store, locks
<1>1. CASE UNCHANGED vars
  BY <1>1 DEF TypeInv, TypeOK, Working, vars
<1>2. ASSUME NEW t \in Tx, NEW r \in Request, Receive(t, r) PROVE TypeInv'
  <2>1. [AtRest EXCEPT !.sig = r, !.todo = r.types, !.began = now] \in LocalState
    <3>1. r.types \in Seq(EventType) /\ now \in Nat
      BY ConstantTypes DEF RequestRecord, TypeInv, TypeOK
    <3>2. QED
      BY <3>1, RestTypes, LocalUpdates
  <2>2. local' \in [Tx -> LocalState]
    BY <1>2, <2>1 DEF Receive, TypeInv, TypeOK
  <2>3. TypeOK'
    BY <1>2, <2>2 DEF Receive, TypeInv, TypeOK, Step
  <2>4. Working'
    BY <1>2 DEF Receive, Working, TypeInv, TypeOK, AtRest
  <2>5. QED
    BY <2>3, <2>4 DEF TypeInv
<1>3. ASSUME NEW t \in Tx, RejectDisabled(t) PROVE TypeInv'
  BY <1>3, EndTransactionTypes DEF RejectDisabled, TypeInv, TypeOK
<1>4. ASSUME NEW t \in Tx, SkipDetection(t) PROVE TypeInv'
  <2>1. Tail(local[t].todo) \in Seq(EventType)
    BY <1>4, CurrentTypes DEF SkipDetection, TypeInv, Working
  <2>2. local' \in [Tx -> LocalState]
    BY <1>4, <2>1, LocalUpdates DEF SkipDetection, TypeInv, TypeOK
  <2>3. TypeOK'
    BY <1>4, <2>2 DEF SkipDetection, TypeInv, TypeOK
  <2>4. Working'
    BY <1>4 DEF SkipDetection, Working, TypeInv, TypeOK, LocalState
  <2>5. QED
    BY <2>3, <2>4 DEF TypeInv
<1>5. ASSUME NEW t \in Tx, FindRule(t) PROVE TypeInv'
  <2>1. rules[<<CurrentCamera(t), CurrentType(t)>>] \in RuleConfig \cup {Nil}
    BY <1>5, CurrentTypes DEF FindRule, TypeInv, TypeOK, Working
  <2>2. local' \in [Tx -> LocalState]
    BY <1>5, <2>1, LocalUpdates DEF FindRule, TypeInv, TypeOK
  <2>3. TypeOK'
    BY <1>5, <2>2 DEF FindRule, TypeInv, TypeOK, Step
  <2>4. Working'
    BY <1>5 DEF FindRule, Working, TypeInv, TypeOK, LocalState
  <2>5. QED
    BY <2>3, <2>4 DEF TypeInv
<1>6. ASSUME NEW t \in Tx, ReadCooldown(t) PROVE TypeInv'
  <2> DEFINE within == WindowOpen(CurrentKey(t), now)
  <2>1. within => cooldowns[CurrentKey(t)].event \in EventId
    BY <1>6, CurrentTypes DEF ReadCooldown, WindowOpen, TypeInv, TypeOK, Cooldown, Working
  <2> DEFINE i == IF within THEN cooldowns[CurrentKey(t)].event ELSE Nil
             new == [local[t] EXCEPT !.at = now, !.created = FALSE,
                                     !.upgraded = FALSE, !.incident = i]
  <2>2. local' = [local EXCEPT ![t] = new]
    BY <1>6 DEF ReadCooldown
  <2>3. i \in EventId \cup {Nil}
    BY <2>1
  <2> HIDE DEF i
  <2>4. new \in LocalState
    <3>1. local[t] \in LocalState /\ now \in Nat
      BY ConstantTypes DEF TypeInv, TypeOK
    <3>2. QED
      BY <2>3, <3>1, LocalUpdates
  <2> HIDE DEF new
  <2>5. local' \in [Tx -> LocalState]
    BY <2>2, <2>4 DEF TypeInv, TypeOK
  <2>6. TypeOK'
    BY <1>6, <2>5 DEF ReadCooldown, TypeInv, TypeOK, Step
  <2>7. Working'
    BY <1>6, <2>1 DEF ReadCooldown, Working, TypeInv, TypeOK
  <2>8. QED
    BY <2>6, <2>7 DEF TypeInv
<1>7. ASSUME NEW t \in Tx, ReadIncident(t) PROVE TypeInv'
  <2> DEFINE u == /\ events[local[t].incident] # Nil
                  /\ Complementary(events[local[t].incident].type, CurrentType(t))
                  /\ local[t].at <= events[local[t].incident].occurredAt
                                       + CorrelationWindow
  <2>1. u \in BOOLEAN
    BY DEF Complementary
  <2>2. local' = [local EXCEPT ![t].upgraded = u]
    BY <1>7 DEF ReadIncident
  <2> HIDE DEF u
  <2>3. local' \in [Tx -> LocalState]
    BY <2>1, <2>2, LocalUpdates DEF TypeInv, TypeOK
  <2>4. TypeOK'
    BY <1>7, <2>3 DEF ReadIncident, TypeInv, TypeOK, Step
  <2>5. Working'
    BY <1>7, <2>2 DEF ReadIncident, Working, TypeInv, TypeOK
  <2>6. QED
    BY <2>4, <2>5 DEF TypeInv
<1>8. ASSUME NEW t \in Tx, FoldDetection(t) PROVE TypeInv'
  <2>1. local[t].incident \in EventId
    BY <1>8 DEF FoldDetection, TypeInv, Working
  <2> DEFINE new == [pending[t] EXCEPT !.upgrades =
                       pending[t].upgrades \cup {local[t].incident}]
  <2>2. new \in Writes
    <3>1. pending[t] \in Writes
      BY DEF TypeInv, TypeOK
    <3>2. QED
      BY <2>1, <3>1, WritesUpgrade
  <2>3. \/ pending' = [pending EXCEPT ![t] = new]
        \/ pending' = [pending EXCEPT ![t].upgrades = pending[t].upgrades]
        \/ pending' = pending
    <3>1. CASE events[local[t].incident] = Nil
      BY <1>8, <3>1 DEF FoldDetection
    <3>2. CASE events[local[t].incident] # Nil /\ local[t].upgraded
      BY <1>8, <3>2 DEF FoldDetection
    <3>3. CASE events[local[t].incident] # Nil /\ ~local[t].upgraded
      BY <1>8, <3>3 DEF FoldDetection
    <3>. QED  BY <3>1, <3>2, <3>3
  <2>4. [pending[t] EXCEPT !.upgrades = pending[t].upgrades] \in Writes
    BY DEF Writes, TypeInv, TypeOK
  <2> HIDE DEF new
  <2>5. pending' \in [Tx -> Writes]
    BY <2>2, <2>3, <2>4 DEF TypeInv, TypeOK
  <2>6. rowLock' \in [EventId -> Tx \cup {Nil}]
    BY <1>8, <2>1 DEF FoldDetection, TypeInv, TypeOK
  <2>7. TypeOK'
    BY <1>8, <2>1, <2>5, <2>6 DEF FoldDetection, TypeInv, TypeOK, Step
  <2>8. Working'
    BY <1>8 DEF FoldDetection, Working, TypeInv, TypeOK
  <2>9. QED
    BY <2>7, <2>8 DEF TypeInv
<1>9. ASSUME NEW t \in Tx, CreateIncident(t) PROVE TypeInv'
  <2> DEFINE row == [camera |-> CurrentCamera(t), type |-> CurrentType(t),
                     severity |-> SeverityOf(local[t].sig, local[t].rule,
                                             CurrentType(t)),
                     occurredAt |-> local[t].began]
  <2>1. PICK e \in EventId \ UsedIds :
          /\ pending' = [pending EXCEPT ![t].events[e] = row]
          /\ local' = [local EXCEPT ![t].incident = e, ![t].created = TRUE]
    BY <1>9 DEF CreateIncident
  <2>2. row \in Incident
    BY <1>9, CurrentTypes, SeverityType
       DEF CreateIncident, TypeInv, TypeOK, Working, LocalState, Incident
  <2> HIDE DEF row
  <2>3. [pending[t] EXCEPT !.events[e] = row] \in Writes
    <3>1. pending[t] \in Writes
      BY DEF TypeInv, TypeOK
    <3>2. QED
      BY <2>2, <3>1, WritesEvent
  <2>4. pending' \in [Tx -> Writes]
    BY <2>1, <2>3 DEF TypeInv, TypeOK
  <2>5. local' \in [Tx -> LocalState]
    BY <2>1, LocalUpdates DEF TypeInv, TypeOK
  <2>6. TypeOK'
    BY <1>9, <2>4, <2>5 DEF CreateIncident, TypeInv, TypeOK, Step
  <2>7. Working'
    BY <1>9, <2>1 DEF CreateIncident, Working, TypeInv, TypeOK
  <2>8. QED
    BY <2>6, <2>7 DEF TypeInv
<1>10. ASSUME NEW t \in Tx, UpsertCooldown(t) PROVE TypeInv'
  <2> DEFINE key == CurrentKey(t)
             row == [event |-> local[t].incident,
                     expires |-> local[t].at + CooldownOf(local[t].rule)]
  <2>1. key \in Key /\ Tail(local[t].todo) \in Seq(EventType)
    BY <1>10, CurrentTypes DEF UpsertCooldown, TypeInv, Working
  <2>2. CooldownOf(local[t].rule) \in Nat
    BY ConstantTypes DEF CooldownOf, TypeInv, TypeOK, LocalState, RuleConfig
  <2>3. row \in Cooldown
    BY <1>10, <2>2
       DEF UpsertCooldown, TypeInv, TypeOK, Working, LocalState, Cooldown
  <2>4. /\ pending' = [pending EXCEPT ![t].cooldowns[key] = row]
        /\ keyLock' = [keyLock EXCEPT ![key] = t]
    BY <1>10 DEF UpsertCooldown
  <2>5. \/ local' = local
        \/ local' = [local EXCEPT ![t].todo = Tail(local[t].todo)]
           /\ pc' = [pc EXCEPT ![t] = "findRule"]
    BY <1>10 DEF UpsertCooldown
  <2> HIDE DEF key, row
  <2>6. [pending[t] EXCEPT !.cooldowns[key] = row] \in Writes
    <3>1. pending[t] \in Writes
      BY DEF TypeInv, TypeOK
    <3>2. QED
      BY <2>1, <2>3, <3>1, WritesCooldown
  <2>7. pending' \in [Tx -> Writes] /\ keyLock' \in [Key -> Tx \cup {Nil}]
    BY <2>1, <2>4, <2>6 DEF TypeInv, TypeOK
  <2>8. [local[t] EXCEPT !.todo = Tail(local[t].todo)] \in LocalState
    BY <2>1, LocalUpdates DEF TypeInv, TypeOK
  <2>9. local' \in [Tx -> LocalState]
    BY <2>5, <2>8 DEF TypeInv, TypeOK
  <2>10. TypeOK'
    BY <1>10, <2>7, <2>9 DEF UpsertCooldown, TypeInv, TypeOK, Step
  <2>11. Working'
    BY <1>10, <2>5 DEF UpsertCooldown, Working, TypeInv, TypeOK
  <2>12. QED
    BY <2>10, <2>11 DEF TypeInv
<1>11. ASSUME NEW t \in Tx, Alert(t) PROVE TypeInv'
  <2> DEFINE alert == <<local[t].incident,
                        IF local[t].created THEN "create" ELSE "upgrade">>
  <2>1. alert \in EventId \X Kind /\ Tail(local[t].todo) \in Seq(EventType)
    BY <1>11, CurrentTypes DEF Alert, TypeInv, Working, Kind
  <2>2. /\ pending' = [pending EXCEPT ![t].audits = pending[t].audits \cup {alert}]
        /\ published' = published \cup {alert}
        /\ local' = [local EXCEPT ![t].todo = Tail(local[t].todo)]
    BY <1>11 DEF Alert, PublishedWith
  <2> HIDE DEF alert
  <2>3. [pending[t] EXCEPT !.audits = pending[t].audits \cup {alert}] \in Writes
    <3>1. pending[t] \in Writes
      BY DEF TypeInv, TypeOK
    <3>2. QED
      BY <2>1, <3>1, WritesAudit
  <2>4. pending' \in [Tx -> Writes]
    BY <2>2, <2>3 DEF TypeInv, TypeOK
  <2>5. local' \in [Tx -> LocalState]
    BY <2>1, <2>2, LocalUpdates DEF TypeInv, TypeOK
  <2>6. TypeOK'
    BY <1>11, <2>1, <2>2, <2>4, <2>5 DEF Alert, TypeInv, TypeOK, Step
  <2>7. Working'
    BY <1>11, <2>2 DEF Alert, Working, TypeInv, TypeOK
  <2>8. QED
    BY <2>6, <2>7 DEF TypeInv
<1>12. ASSUME NEW t \in Tx, Commit(t) PROVE TypeInv'
  <2>1. pending[t] \in Writes
    BY DEF TypeInv, TypeOK
  <2>2. events' \in [EventId -> Incident \cup {Nil}]
    <3>1. ASSUME NEW e \in EventId, e \in pending[t].upgrades
          PROVE  events[e] # Nil => Upgraded(events[e]) \in Incident
      BY ConstantTypes DEF TypeInv, TypeOK, Incident, Upgraded, Severity
    <3>2. QED
      BY <1>12, <2>1, <3>1 DEF Upgrading, Commit, EventsAfter, TypeInv, TypeOK, Writes
  <2>3. cooldowns' \in [Key -> Cooldown \cup {Nil}]
    BY <1>12, <2>1 DEF Commit, CooldownsAfter, TypeInv, TypeOK, Writes
  <2>4. auditLog' \in [EventId \X Kind -> Nat]
    BY <1>12 DEF Commit, AuditsAfter, TypeInv, TypeOK
  <2>5. QED
    BY <1>12, <2>2, <2>3, <2>4, EndTransactionTypes DEF Commit, TypeInv, TypeOK
<1>13. ASSUME NEW t \in Tx, Rollback(t) PROVE TypeInv'
  BY <1>13, EndTransactionTypes DEF Rollback, TypeInv, TypeOK
<1>14. ASSUME NEW c \in Camera, NEW type \in EventType, NEW rule \in RuleChoice,
              ConfigureRule(c, type, rule)
       PROVE  TypeInv'
  BY <1>14, ConstantTypes DEF ConfigureRule, TypeInv, TypeOK, Working
<1>15. ASSUME Tick PROVE TypeInv'
  BY <1>15, ConstantTypes DEF Tick, TypeInv, TypeOK, Working
<1>16. ASSUME NEW gone \in SUBSET Camera, RemoveCameras(gone) PROVE TypeInv'
  <2>1. rules' \in [Camera \X EventType -> RuleConfig \cup {Nil}]
    BY <1>16 DEF RemoveCameras, TypeInv, TypeOK
  <2>2. /\ cameras' \subseteq Camera /\ removed' \subseteq EventId
        /\ events' \in [EventId -> Incident \cup {Nil}]
    BY <1>16 DEF RemoveCameras, TypeInv, TypeOK
  <2>3. cooldowns' \in [Key -> Cooldown \cup {Nil}]
    BY <1>16 DEF RemoveCameras, CooldownsWithout, Cooldown, TypeInv, TypeOK
  <2>4. TypeOK'
    BY <1>16, <2>1, <2>2, <2>3 DEF RemoveCameras, TypeInv, TypeOK
  <2>5. Working'
    BY <1>16 DEF RemoveCameras, TypeInv, Working
  <2>6. QED
    BY <2>4, <2>5 DEF TypeInv
<1>17. ASSUME NEW t \in Tx, NEW r \in Request, Refuse(t, r) PROVE TypeInv'
  BY <1>1, <1>17 DEF Refuse
<1>18. QED
  BY <1>1, <1>2, <1>3, <1>4, <1>5, <1>6, <1>7, <1>8, <1>9, <1>10, <1>11, <1>12,
     <1>13, <1>14, <1>15, <1>16, <1>17 DEF Next, TxNext

-----------------------------------------------------------------------------
(* Rows and keys. *)
LEMMA UpgradedRow ==
  ASSUME NEW row \in Incident, Escalates(row)
  PROVE  /\ Upgraded(row) \in Incident /\ Upgraded(row) # Nil
         /\ Upgraded(row).type = "FIRE_AND_SMOKE"
         /\ Upgraded(row).severity = "CRITICAL"
         /\ KeyOf(Upgraded(row)) = KeyOf(row)
         /\ Escalates(Upgraded(row))
<1>1. /\ Upgraded(row) \in Incident
      /\ Upgraded(row).type = "FIRE_AND_SMOKE"
      /\ Upgraded(row).severity = "CRITICAL"
      /\ Upgraded(row).camera = row.camera
  BY ConstantTypes DEF Upgraded, Incident, Severity
<1>2. Upgraded(row) # Nil
  BY <1>1, NilIsFresh DEF Incident
<1>3. row.type \in FireType
  BY DEF Escalates, Upgraded, Incident, FireType
<1>4. KeyOf(Upgraded(row)) = KeyOf(row)
  BY <1>1, <1>3 DEF KeyOf, CooldownKey, Bucket, FireType
<1>5. Upgraded(Upgraded(row)) = Upgraded(row)
  BY DEF Upgraded, Incident
<1>6. QED
  BY <1>1, <1>2, <1>4, <1>5 DEF Escalates

(* The incident e stays in the table and in its cooldown key. *)
Stays(e) ==
  /\ events'[e] # Nil
  /\ KeyOf(events'[e]) = KeyOf(events[e])
  /\ Escalates(events[e]) => Escalates(events'[e])

(* No request takes a committed incident away or out of its key.           *)
IncidentsKept == \A e \in EventId : events[e] # Nil => Stays(e)

(* Nothing takes a committed incident out of its key, and what was deleted *)
(* is remembered.                                                          *)
IncidentsTraced ==
  /\ removed \subseteq removed'
  /\ \A e \in EventId : events[e] # Nil => e \in removed' \/ Stays(e)

LEMMA SameIncidents == events' = events /\ removed' = removed => IncidentsTraced
BY DEF IncidentsTraced, Stays

(* A request that does not move is not disturbed by the one that does. *)
LEMMA OthersKept ==
  ASSUME Inv, NEW u \in Tx, pc'[u] = pc[u], local'[u] = local[u],
         pending'[u] = pending[u], IncidentsTraced, published \subseteq published'
  PROVE  StepOK(u)' /\ AlertsOK(u)'
<1>1. StepOK(u) /\ AlertsOK(u)
  BY DEF Inv, Steps, Alerting
<1>2. CurrentKey(u)' = CurrentKey(u)
  BY DEF CurrentKey, CurrentCamera, CurrentType
<1>3. pc[u] \in {"readIncident", "fold", "upsert", "alert"} =>
        local[u].incident \in EventId
  BY DEF Inv, TypeInv, Working
<1>4. \A e \in EventId, k \in Key :
        /\ Known(e, k) => Known(e, k)'
        /\ e \in removed => e \in removed'
  BY DEF Known, HasKey, IncidentsTraced, Stays
<1>5. ASSUME pc[u] \in {"readIncident", "fold", "upsert", "alert"}
      PROVE  CurrentKey(u) \in Key
  BY <1>5, CurrentTypes DEF Inv, TypeInv, Working
<1>6. ASSUME pc[u] \in {"fold", "upsert", "alert"}, local[u].upgraded
      PROVE  \/ local[u].incident \in removed'
             \/ Escalates(events'[local[u].incident])
  <2>1. ~local[u].created /\ Known(local[u].incident, CurrentKey(u))
        /\ (local[u].incident \in removed \/ Escalates(events[local[u].incident]))
    BY <1>1, <1>6 DEF StepOK
  <2>2. QED
    BY <1>3, <1>6, <2>1 DEF Known, HasKey, IncidentsTraced, Stays
<1>7. StepOK(u)'
  BY <1>1, <1>2, <1>3, <1>4, <1>5, <1>6 DEF StepOK
<1>8. AlertsOK(u)'
  BY <1>1 DEF AlertsOK, Own
<1>9. QED
  BY <1>7, <1>8

(* A step that writes nothing can only disturb what its request relies on. *)
LEMMA NothingWritten ==
  ASSUME Inv, UNCHANGED <<store, published, pending>>
  PROVE  /\ Grouped' /\ Fresh' /\ Upgrading'
         /\ AlertedExactlyOnce' /\ UpgradedIsCritical' /\ CommittedWasPublished'
<1>1. Grouped'
  BY DEF Inv, Grouped, store
<1>2. Fresh'
  BY DEF Inv, Fresh, Own, store
<1>3. Upgrading'
  BY DEF Inv, Upgrading, store
<1>4. AlertedExactlyOnce' /\ UpgradedIsCritical' /\ CommittedWasPublished'
  BY DEF Inv, AlertedExactlyOnce, UpgradedIsCritical, CommittedWasPublished, store
<1>5. QED
  BY <1>1, <1>2, <1>3, <1>4

LEMMA EmptyWrites ==
  /\ NoWrites.upgrades = {} /\ NoWrites.audits = {}
  /\ \A e \in EventId : NoWrites.events[e] = Nil
  /\ \A k \in Key : NoWrites.cooldowns[k] = Nil
BY DEF NoWrites

LEMMA Ended ==
  ASSUME Inv, NEW t \in Tx, EndTransaction(t)
  PROVE  /\ pc'[t] = "idle" /\ pending'[t] = NoWrites
         /\ StepOK(t)' /\ AlertsOK(t)'
         /\ \A u \in Tx : u # t => /\ pc'[u] = pc[u] /\ local'[u] = local[u]
                                  /\ pending'[u] = pending[u]
<1>1. /\ pc'[t] = "idle" /\ pending'[t] = NoWrites
      /\ \A u \in Tx : u # t => /\ pc'[u] = pc[u] /\ local'[u] = local[u]
                               /\ pending'[u] = pending[u]
  BY DEF EndTransaction, Inv, TypeInv, TypeOK
<1>2. StepOK(t)'
  BY <1>1 DEF StepOK
<1>3. AlertsOK(t)'
  BY <1>1, EmptyWrites DEF AlertsOK, Own
<1>4. QED
  BY <1>1, <1>2, <1>3

(* Rolled back: the database is as it was. *)
LEMMA RolledBack ==
  ASSUME Inv, NEW t \in Tx, EndTransaction(t), UNCHANGED <<store, published>>
  PROVE  /\ Grouped' /\ Fresh' /\ Upgrading' /\ Steps' /\ Alerting'
         /\ AlertedExactlyOnce' /\ UpgradedIsCritical' /\ CommittedWasPublished'
<1>1. Steps' /\ Alerting'
  BY Ended, OthersKept, SameIncidents DEF Steps, Alerting, store
<1>2. Grouped'
  BY Ended, EmptyWrites DEF Inv, Grouped, store
<1>3. Fresh'
  BY Ended, EmptyWrites DEF Inv, Fresh, Own, store
<1>4. Upgrading'
  BY Ended, EmptyWrites DEF Inv, Upgrading, store
<1>5. AlertedExactlyOnce' /\ UpgradedIsCritical' /\ CommittedWasPublished'
  BY DEF Inv, AlertedExactlyOnce, UpgradedIsCritical, CommittedWasPublished, store
<1>6. QED
  BY <1>1, <1>2, <1>3, <1>4, <1>5

-----------------------------------------------------------------------------
(* The invariant. *)
LEMMA InvInit == Init => Inv
<1> SUFFICES ASSUME Init PROVE Inv
  OBVIOUS
<1>1. TypeInv
  BY TypeInit
<1>2. Grouped /\ Fresh /\ Upgrading /\ Locked
  BY EmptyWrites DEF Init, Grouped, Fresh, Own, Upgrading, Locked
<1>3. Steps
  BY DEF Init, Steps, StepOK
<1>4. Alerting
  BY EmptyWrites DEF Init, Alerting, AlertsOK, Own
<1>5. AlertedExactlyOnce /\ UpgradedIsCritical /\ CommittedWasPublished
  BY DEF Init, AlertedExactlyOnce, UpgradedIsCritical, CommittedWasPublished, Kind
<1>6. QED
  BY <1>1, <1>2, <1>3, <1>4, <1>5 DEF Inv

LEMMA ReadCooldownStep ==
  ASSUME Inv, NEW t \in Tx, ReadCooldown(t)
  PROVE  StepOK(t)' /\ AlertsOK(t)'
<1> DEFINE key == CurrentKey(t)
           row == cooldowns[key]
<1>1. /\ pc'[t] \in {"readIncident", "fold"} =>
           WindowOpen(key, now) /\ local'[t].incident = row.event
      /\ pc'[t] \in {"readIncident", "fold", "create"}
      /\ local'[t].created = FALSE /\ local'[t].upgraded = FALSE
      /\ local'[t].sig = local[t].sig /\ local'[t].todo = local[t].todo
  BY DEF ReadCooldown, Inv, TypeInv, TypeOK, LocalState
<1>2. key \in Key
  BY CurrentTypes DEF ReadCooldown, Inv, TypeInv, Working
<1>3. CurrentKey(t)' = key
  BY <1>1 DEF CurrentKey, CurrentCamera, CurrentType
<1>4. WindowOpen(key, now) => HasKey(events[row.event], key)
  BY <1>2 DEF WindowOpen, Inv, Grouped
<1>5. StepOK(t)'
  BY <1>1, <1>3, <1>4 DEF StepOK, ReadCooldown, store, HasKey, Known
<1>6. AlertsOK(t)'
  BY <1>1 DEF AlertsOK, Own, ReadCooldown, Inv, Alerting
<1>7. QED
  BY <1>5, <1>6

LEMMA ReadIncidentStep ==
  ASSUME Inv, NEW t \in Tx, ReadIncident(t)
  PROVE  StepOK(t)' /\ AlertsOK(t)'
<1> DEFINE row == events[local[t].incident]
<1>1. /\ local'[t].upgraded => Complementary(row.type, CurrentType(t))
      /\ local'[t].created = local[t].created
      /\ local'[t].incident = local[t].incident
      /\ local'[t].sig = local[t].sig /\ local'[t].todo = local[t].todo
      /\ pc[t] = "readIncident" /\ pc'[t] = "fold"
  BY DEF ReadIncident, Inv, TypeInv, TypeOK, LocalState
<1>2. CurrentKey(t)' = CurrentKey(t)
  BY <1>1 DEF CurrentKey, CurrentCamera, CurrentType
<1>3. local'[t].upgraded => Escalates(row)
  BY <1>1 DEF Complementary, Escalates
<1>4. StepOK(t)'
  BY <1>1, <1>2, <1>3
     DEF StepOK, ReadIncident, store, HasKey, Known, Inv, Steps, Escalates
<1>5. AlertsOK(t)'
  BY <1>1 DEF AlertsOK, Own, ReadIncident, Inv, Alerting
<1>6. QED
  BY <1>4, <1>5

LEMMA FoldStep ==
  ASSUME Inv, NEW t \in Tx, FoldDetection(t)
  PROVE  /\ StepOK(t)' /\ AlertsOK(t)' /\ Grouped' /\ Fresh' /\ Upgrading'
<1>1. /\ pending'[t].upgrades =
           IF local[t].upgraded /\ events[local[t].incident] # Nil
           THEN pending[t].upgrades \cup {local[t].incident}
           ELSE pending[t].upgrades
      /\ pending'[t].events = pending[t].events
      /\ pending'[t].cooldowns = pending[t].cooldowns
      /\ pending'[t].audits = pending[t].audits
      /\ \A u \in Tx : u # t => pending'[u] = pending[u]
      /\ pc[t] = "fold" /\ pc'[t] = "upsert" /\ local' = local
      /\ UNCHANGED <<store, published>>
  <2>1. CASE events[local[t].incident] = Nil
    BY <2>1 DEF FoldDetection, Inv, TypeInv, TypeOK
  <2>2. CASE events[local[t].incident] # Nil
    <3>1. /\ pending' = [pending EXCEPT ![t].upgrades =
               IF local[t].upgraded THEN @ \cup {local[t].incident} ELSE @]
          /\ pending \in [Tx -> Writes] /\ pending[t] \in Writes
          /\ pc \in [Tx -> Step]
      BY <2>2 DEF FoldDetection, Inv, TypeInv, TypeOK
    <3>2. /\ pc[t] = "fold" /\ pc'[t] = "upsert" /\ local' = local
          /\ UNCHANGED <<store, published>>
      BY <3>1 DEF FoldDetection
    <3>3. QED
      BY <2>2, <3>1, <3>2 DEF Writes
  <2>3. QED
    BY <2>1, <2>2
<1>2. StepOK(t) /\ AlertsOK(t) /\ local[t].incident \in EventId
  BY <1>1 DEF Inv, Steps, Alerting, TypeInv, Working
<1>3. CurrentKey(t)' = CurrentKey(t)
  BY <1>1 DEF CurrentKey, CurrentCamera, CurrentType
<1>4. StepOK(t)'
  BY <1>1, <1>2, <1>3 DEF StepOK, HasKey, Known, store
<1>5. AlertsOK(t)'
  BY <1>1, <1>2 DEF AlertsOK, Own
<1>6. Grouped'
  BY <1>1 DEF Inv, Grouped, store
<1>7. Fresh'
  BY <1>1 DEF Inv, Fresh, Own, store
<1>8. Upgrading'
  BY <1>1, <1>2 DEF Inv, Upgrading, StepOK, Fresh, store
<1>9. QED
  BY <1>4, <1>5, <1>6, <1>7, <1>8

LEMMA CreateStep ==
  ASSUME Inv, NEW t \in Tx, CreateIncident(t)
  PROVE  /\ StepOK(t)' /\ AlertsOK(t)' /\ Grouped' /\ Fresh' /\ Upgrading'
<1> DEFINE row == [camera |-> CurrentCamera(t), type |-> CurrentType(t),
                   severity |-> SeverityOf(local[t].sig, local[t].rule,
                                           CurrentType(t)),
                   occurredAt |-> local[t].began]
<1>1. PICK e \in EventId \ UsedIds :
        /\ pending' = [pending EXCEPT ![t].events[e] = row]
        /\ local' = [local EXCEPT ![t].incident = e, ![t].created = TRUE]
  BY DEF CreateIncident
<1>2. /\ row # Nil /\ KeyOf(row) = CurrentKey(t)
  <2>1. row \in Incident
    BY CurrentTypes, SeverityType
       DEF CreateIncident, Inv, TypeInv, TypeOK, Working, LocalState, Incident
  <2>2. QED
    BY <2>1, NilIsFresh DEF Incident, KeyOf, CurrentKey
<1> HIDE DEF row
<1>3. /\ events[e] = Nil /\ e \notin removed
      /\ \A u \in Tx : ~Own(u, e)
  BY <1>1 DEF UsedIds, Own
<1>4. /\ pending'[t].events[e] = row
      /\ \A f \in EventId : f # e => pending'[t].events[f] = pending[t].events[f]
      /\ pending'[t].upgrades = pending[t].upgrades
      /\ pending'[t].cooldowns = pending[t].cooldowns
      /\ pending'[t].audits = pending[t].audits
      /\ \A u \in Tx : u # t => pending'[u] = pending[u]
  BY <1>1 DEF Inv, TypeInv, TypeOK, Writes
<1>5. /\ local'[t].incident = e /\ local'[t].created = TRUE
      /\ local'[t].upgraded = local[t].upgraded
      /\ local'[t].sig = local[t].sig /\ local'[t].todo = local[t].todo
      /\ pc[t] = "create" /\ pc'[t] = "upsert"
      /\ UNCHANGED <<store, published>>
  BY <1>1 DEF CreateIncident, Inv, TypeInv, TypeOK, LocalState
<1>6. CurrentKey(t)' = CurrentKey(t)
  BY <1>5 DEF CurrentKey, CurrentCamera, CurrentType
<1>7. StepOK(t) /\ AlertsOK(t)
  BY DEF Inv, Steps, Alerting
<1>8. StepOK(t)'
  BY <1>2, <1>4, <1>5, <1>6, <1>7 DEF StepOK, HasKey
<1>9. AlertsOK(t)'
  BY <1>2, <1>4, <1>5, <1>7 DEF AlertsOK, Own
<1>10. Grouped'
  <2>1. \A f \in EventId, k \in Key, u \in Tx :
          HasKey(pending[u].events[f], k) => HasKey(pending'[u].events[f], k)
    BY <1>3, <1>4 DEF HasKey, Own
  <2>2. \A u \in Tx, k \in Key :
          pending'[u].cooldowns[k] = pending[u].cooldowns[k]
    BY <1>4
  <2>3. ASSUME NEW u \in Tx, NEW k \in Key, pending[u].cooldowns[k] # Nil
        PROVE  pending[u].cooldowns[k].event \in EventId
    BY <2>3 DEF Inv, Grouped
  <2>4. QED
    BY <1>5, <2>1, <2>2, <2>3 DEF Inv, Grouped, store
<1>11. Fresh'
  BY <1>3, <1>4, <1>5 DEF Inv, Fresh, Own, store
<1>12. Upgrading'
  BY <1>4, <1>5 DEF Inv, Upgrading, store
<1>13. QED
  BY <1>8, <1>9, <1>10, <1>11, <1>12

LEMMA UpsertStep ==
  ASSUME Inv, NEW t \in Tx, UpsertCooldown(t)
  PROVE  /\ StepOK(t)' /\ AlertsOK(t)' /\ Grouped' /\ Fresh' /\ Upgrading'
<1> DEFINE key == CurrentKey(t)
           e == local[t].incident
<1>1. key \in Key
  BY CurrentTypes DEF UpsertCooldown, Inv, TypeInv, Working
<1>2. StepOK(t) /\ AlertsOK(t) /\ pc[t] = "upsert"
  BY DEF UpsertCooldown, Inv, Steps, Alerting
<1>3. /\ HasKey(events[e], key) \/ HasKey(pending[t].events[e], key)
      /\ local[t].upgraded => e \in pending[t].upgrades
  <2>1. local[t].created \/ (events[e] # Nil /\ e \notin removed)
    BY DEF UpsertCooldown, Inv, Fresh
  <2>2. QED
    BY <1>2, <2>1 DEF StepOK, Known
<1> HIDE DEF key
<1>4. /\ pending'[t].cooldowns[key].event = e
      /\ \A k \in Key : k # key =>
           pending'[t].cooldowns[k] = pending[t].cooldowns[k]
      /\ pending'[t].upgrades = pending[t].upgrades
      /\ pending'[t].events = pending[t].events
      /\ pending'[t].audits = pending[t].audits
      /\ \A u \in Tx : u # t => pending'[u] = pending[u]
  BY <1>1 DEF UpsertCooldown, Inv, TypeInv, TypeOK, Writes, key
<1>5. /\ UNCHANGED <<store, published>>
      /\ \/ /\ local' = local /\ pc'[t] = "alert"
            /\ local[t].created \/ local[t].upgraded
         \/ pc'[t] = "findRule" /\ ~local[t].created
  BY DEF UpsertCooldown, Inv, TypeInv, TypeOK
<1>6. local' = local => CurrentKey(t)' = CurrentKey(t)
  BY DEF CurrentKey, CurrentCamera, CurrentType
<1>7. StepOK(t)'
  BY <1>2, <1>3, <1>4, <1>5, <1>6 DEF StepOK, Known, store
<1>8. AlertsOK(t)'
  BY <1>2, <1>4, <1>5 DEF AlertsOK, Own
<1>9. Grouped'
  <2>1. e \in EventId
    BY <1>2 DEF Inv, TypeInv, Working
  <2>2. QED
    BY <1>3, <1>4, <1>5, <2>1 DEF Inv, Grouped, store
<1>10. Fresh'
  BY <1>4, <1>5 DEF Inv, Fresh, Own, store
<1>11. Upgrading'
  BY <1>4, <1>5 DEF Inv, Upgrading, store
<1>12. QED
  BY <1>7, <1>8, <1>9, <1>10, <1>11

LEMMA AlertStep ==
  ASSUME Inv, NEW t \in Tx, Alert(t)
  PROVE  /\ StepOK(t)' /\ AlertsOK(t)' /\ Grouped' /\ Fresh' /\ Upgrading'
         /\ published \subseteq published'
<1> DEFINE e == local[t].incident
           alert == <<e, IF local[t].created THEN "create" ELSE "upgrade">>
<1>1. /\ pending'[t].audits = pending[t].audits \cup {alert}
      /\ published' = published \cup {alert}
      /\ pending'[t].upgrades = pending[t].upgrades
      /\ pending'[t].events = pending[t].events
      /\ pending'[t].cooldowns = pending[t].cooldowns
      /\ \A u \in Tx : u # t => pending'[u] = pending[u]
      /\ pc[t] = "alert" /\ pc'[t] = "findRule"
      /\ UNCHANGED store
  BY DEF Alert, PublishedWith, Inv, TypeInv, TypeOK, Writes
<1>2. StepOK(t) /\ AlertsOK(t) /\ e \in EventId
  BY <1>1 DEF Inv, Steps, Alerting, TypeInv, Working
<1>3. /\ local[t].created => Own(t, e) /\ alert = <<e, "create">>
      /\ ~local[t].created => e \in pending[t].upgrades /\ alert = <<e, "upgrade">>
  BY <1>1, <1>2 DEF StepOK, HasKey, Own
<1> HIDE DEF alert
<1>4. StepOK(t)'
  BY <1>1 DEF StepOK
<1>5. AlertsOK(t)'
  BY <1>1, <1>2, <1>3 DEF AlertsOK, Own
<1>6. Grouped'
  BY <1>1 DEF Inv, Grouped, store
<1>7. Fresh'
  BY <1>1 DEF Inv, Fresh, Own, store
<1>8. Upgrading'
  BY <1>1 DEF Inv, Upgrading, store
<1>9. QED
  BY <1>1, <1>4, <1>5, <1>6, <1>7, <1>8

(* COMMIT, row by row. *)
LEMMA CommittedRows ==
  ASSUME Inv, NEW t \in Tx, Commit(t)
  PROVE  /\ IncidentsKept /\ IncidentsTraced
         /\ \A e \in EventId :
              /\ Own(t, e) => events'[e] = pending[t].events[e]
              /\ ~Own(t, e) /\ e \in pending[t].upgrades =>
                   events'[e] = Upgraded(events[e])
              /\ ~Own(t, e) /\ e \notin pending[t].upgrades =>
                   events'[e] = events[e]
<1>1. \A e \in EventId :
        /\ Own(t, e) => events'[e] = pending[t].events[e]
        /\ ~Own(t, e) /\ e \in pending[t].upgrades =>
             events'[e] = Upgraded(events[e])
        /\ ~Own(t, e) /\ e \notin pending[t].upgrades => events'[e] = events[e]
  BY DEF Commit, EventsAfter, Own
<1>2. ASSUME NEW e \in EventId, events[e] # Nil
      PROVE  Stays(e)
  <2>1. ~Own(t, e) /\ events[e] \in Incident
    BY <1>2 DEF Inv, Fresh, TypeInv, TypeOK
  <2>2. CASE e \in pending[t].upgrades
    <3>1. Escalates(events[e])
      BY <2>2 DEF Inv, Upgrading
    <3>2. QED
      BY <1>1, <2>1, <2>2, <3>1, UpgradedRow DEF Stays
  <2>3. CASE e \notin pending[t].upgrades
    BY <1>1, <1>2, <2>1, <2>3 DEF Stays
  <2>4. QED
    BY <2>2, <2>3
<1>3. removed' = removed
  BY DEF Commit
<1>4. QED
  BY <1>1, <1>2, <1>3 DEF IncidentsKept, IncidentsTraced

LEMMA CommitStep ==
  ASSUME Inv, NEW t \in Tx, Commit(t)
  PROVE  /\ Grouped' /\ Fresh' /\ Upgrading' /\ Steps' /\ Alerting'
         /\ AlertedExactlyOnce' /\ UpgradedIsCritical' /\ CommittedWasPublished'
<1>1. /\ EndTransaction(t) /\ UNCHANGED <<published, cameras, removed>>
      /\ pc[t] = "findRule"
      /\ cooldowns' = CooldownsAfter(pending[t])
      /\ auditLog' = AuditsAfter(pending[t])
  BY DEF Commit
<1>2. Steps' /\ Alerting'
  BY <1>1, Ended, OthersKept, CommittedRows DEF Steps, Alerting
<1>3. ASSUME NEW e \in EventId, NEW k \in Key,
             HasKey(events[e], k) \/ HasKey(pending[t].events[e], k)
      PROVE  HasKey(events'[e], k)
  BY <1>3, CommittedRows DEF HasKey, IncidentsKept, Stays, Own
<1>4. Grouped'
  <2>1. ASSUME NEW k \in Key, cooldowns'[k] # Nil
        PROVE  IF cooldowns'[k].event = Nil THEN k[1] \notin cameras'
               ELSE HasKey(events'[cooldowns'[k].event], k)
    <3>1. /\ cooldowns'[k] \in Cooldown
          /\ \/ cooldowns'[k] = pending[t].cooldowns[k]
             \/ cooldowns'[k] = cooldowns[k]
      BY <1>1, <2>1 DEF CooldownsAfter, Inv, TypeInv, TypeOK, Writes
    <3>2. CASE cooldowns'[k] = pending[t].cooldowns[k]
      <4>1. LET e == pending[t].cooldowns[k].event
            IN  e \in EventId /\ (HasKey(events[e], k) \/ HasKey(pending[t].events[e], k))
        BY <2>1, <3>2 DEF Inv, Grouped
      <4>2. QED
        BY <1>3, <3>2, <4>1, NilIsFresh
    <3>3. CASE cooldowns'[k] = cooldowns[k]
      BY <1>1, <1>3, <2>1, <3>1, <3>3 DEF Inv, Grouped, Cooldown
    <3>4. QED
      BY <3>1, <3>2, <3>3
  <2>2. ASSUME NEW u \in Tx, NEW k \in Key, pending'[u].cooldowns[k] # Nil
        PROVE  LET e == pending'[u].cooldowns[k].event
               IN  /\ e \in EventId
                   /\ HasKey(events'[e], k) \/ HasKey(pending'[u].events[e], k)
    <3>1. u # t /\ pending'[u] = pending[u]
      BY <1>1, <2>2, Ended, EmptyWrites
    <3>2. pending[u].cooldowns[k].event \in EventId
      BY <2>2, <3>1 DEF Inv, Grouped
    <3>3. QED
      BY <1>3, <2>2, <3>1, <3>2 DEF Inv, Grouped
  <2>3. QED
    BY <2>1, <2>2 DEF Grouped
<1>5. Fresh'
  <2>1. ASSUME NEW u \in Tx, NEW e \in EventId, Own(u, e)'
        PROVE  /\ events'[e] = Nil /\ e \notin removed'
               /\ \A v \in Tx : Own(v, e)' => v = u
    <3>1. u # t /\ Own(u, e)
      BY <1>1, <2>1, Ended, EmptyWrites DEF Own
    <3>2. /\ events[e] = Nil /\ ~Own(t, e) /\ e \notin pending[t].upgrades
          /\ e \notin removed
          /\ \A v \in Tx : Own(v, e) => v = u
      BY <3>1 DEF Inv, Fresh, Upgrading
    <3>3. \A v \in Tx : Own(v, e)' => Own(v, e)
      BY <1>1, Ended, EmptyWrites DEF Own
    <3>4. QED
      BY <1>1, <3>2, <3>3, CommittedRows
  <2>2. ASSUME NEW e \in removed PROVE events'[e] = Nil
    <3>1. e \in EventId /\ events[e] = Nil /\ ~Own(t, e)
      BY DEF Inv, Fresh, TypeInv, TypeOK
    <3>2. e \notin pending[t].upgrades
      BY <3>1 DEF Inv, Upgrading
    <3>3. QED
      BY <3>1, <3>2, CommittedRows
  <2>3. QED
    BY <1>1, <2>1, <2>2 DEF Fresh
<1>6. Upgrading'
  <2>1. ASSUME NEW u \in Tx, NEW e \in pending'[u].upgrades
        PROVE  events'[e] # Nil /\ Escalates(events'[e])
    <3>1. u # t /\ e \in pending[u].upgrades /\ e \in EventId
      BY <1>1, Ended, EmptyWrites DEF Inv, TypeInv, TypeOK, Writes
    <3>2. QED
      BY <3>1, CommittedRows DEF Inv, Upgrading, IncidentsKept, Stays
  <2>2. QED
    BY <2>1 DEF Upgrading
<1>7. AlertsOK(t)
  BY DEF Inv, Alerting
<1>8. \A e \in EventId, k \in Kind :
        auditLog'[<<e, k>>] = IF <<e, k>> \in pending[t].audits
                              THEN auditLog[<<e, k>>] + 1 ELSE auditLog[<<e, k>>]
  BY <1>1 DEF AuditsAfter
<1>9. "create" \in Kind /\ "upgrade" \in Kind
  BY DEF Kind
<1>10. AlertedExactlyOnce'
  <2>1. ASSUME NEW e \in EventId
        PROVE  IF events'[e] = Nil /\ e \notin removed'
               THEN auditLog'[<<e, "create">>] = 0 /\ auditLog'[<<e, "upgrade">>] = 0
               ELSE auditLog'[<<e, "create">>] = 1
    <3>1. CASE Own(t, e)
      BY <1>1, <1>7, <1>8, <1>9, <3>1, CommittedRows
         DEF Own, AlertsOK, Inv, Fresh, AlertedExactlyOnce
    <3>2. CASE ~Own(t, e)
      <4>1. /\ <<e, "create">> \notin pending[t].audits
            /\ <<e, "upgrade">> \in pending[t].audits => events[e] # Nil
            /\ events'[e] = Nil <=> events[e] = Nil
        BY <1>7, <3>2, CommittedRows DEF AlertsOK, Inv, Upgrading, IncidentsKept, Stays
      <4>2. QED
        BY <1>1, <1>8, <1>9, <4>1 DEF Inv, AlertedExactlyOnce
    <3>3. QED
      BY <3>1, <3>2
  <2>2. QED
    BY <2>1 DEF AlertedExactlyOnce
<1>11. UpgradedIsCritical'
  <2>1. ASSUME NEW e \in EventId, auditLog'[<<e, "upgrade">>] > 0, events'[e] # Nil
        PROVE  /\ events'[e].type = "FIRE_AND_SMOKE"
               /\ events'[e].severity = "CRITICAL"
    <3>1. CASE e \in pending[t].upgrades
      <4>1. events[e] \in Incident /\ Escalates(events[e]) /\ ~Own(t, e)
        BY <3>1 DEF Inv, Upgrading, Fresh, TypeInv, TypeOK
      <4>2. QED
        BY <3>1, <4>1, CommittedRows, UpgradedRow
    <3>2. CASE e \notin pending[t].upgrades
      <4>1. auditLog[<<e, "upgrade">>] > 0
        BY <1>7, <1>8, <1>9, <2>1, <3>2 DEF AlertsOK
      <4>2. ~Own(t, e)
        <5>1. Own(t, e) => events[e] = Nil /\ e \notin removed
          BY DEF Inv, Fresh
        <5>2. events[e] = Nil /\ e \notin removed => auditLog[<<e, "upgrade">>] = 0
          BY DEF Inv, AlertedExactlyOnce
        <5>3. QED
          BY <4>1, <5>1, <5>2
      <4>3. QED
        BY <2>1, <3>2, <4>1, <4>2, CommittedRows DEF Inv, UpgradedIsCritical
    <3>3. QED
      BY <3>1, <3>2
  <2>2. QED
    BY <2>1 DEF UpgradedIsCritical
<1>12. CommittedWasPublished'
  BY <1>1, <1>7, <1>8 DEF Inv, CommittedWasPublished, AlertsOK
<1>13. QED
  BY <1>2, <1>4, <1>5, <1>6, <1>10, <1>11, <1>12

(* The deletion of cameras waits for what the requests have written: it    *)
(* takes no incident they upgrade, and empties no cooldown row they write. *)
LEMMA RemovalKeeps ==
  ASSUME Inv, NEW gone \in SUBSET Camera, RemoveCameras(gone)
  PROVE  /\ \A t \in Tx : \A e \in pending[t].upgrades :
              e \in EventId /\ events[e] # Nil /\ events'[e] = events[e]
         /\ \A t \in Tx, k \in Key : pending[t].cooldowns[k] # Nil =>
              k[1] \notin gone /\ cooldowns'[k] = cooldowns[k]
<1> DEFINE lost == {e \in EventId : events[e] # Nil /\ events[e].camera \in gone}
<1>1. /\ \A e \in EventId : events'[e] = IF e \in lost THEN Nil ELSE events[e]
      /\ cooldowns' = CooldownsWithout(lost) /\ Untouched(gone)
  BY DEF RemoveCameras
<1>2. ASSUME NEW t \in Tx, NEW e \in pending[t].upgrades
      PROVE  e \in EventId /\ events[e] # Nil /\ events'[e] = events[e]
  <2>1. e \in EventId /\ events[e] # Nil /\ rowLock[e] = t
    BY DEF Inv, TypeInv, TypeOK, Writes, Upgrading, Locked
  <2>2. rowLock[e] # Nil
    BY <2>1, NilIsFresh
  <2>3. QED
    BY <1>1, <2>1, <2>2 DEF Untouched
<1>3. ASSUME NEW t \in Tx, NEW k \in Key, pending[t].cooldowns[k] # Nil
      PROVE  k[1] \notin gone /\ cooldowns'[k] = cooldowns[k]
  <2>1. keyLock[k] = t /\ t # Nil
    BY <1>3, NilIsFresh DEF Inv, Locked
  <2>2. k[1] \notin gone
    BY <1>1, <2>1 DEF Untouched
  <2>3. cooldowns[k] # Nil => cooldowns[k].event \notin lost
    <3>1. ASSUME cooldowns[k] # Nil, cooldowns[k].event \in lost PROVE FALSE
      <4>1. HasKey(events[cooldowns[k].event], k)
        BY <3>1, NilIsFresh DEF Inv, Grouped
      <4>2. QED
        BY <2>2, <3>1, <4>1 DEF HasKey, KeyOf, CooldownKey
    <3>2. QED
      BY <3>1
  <2>4. QED
    BY <1>1, <2>2, <2>3 DEF CooldownsWithout
<1>4. QED
  BY <1>2, <1>3

(* What a request wrote keeps the camera: nothing it relies on is deleted. *)
LEMMA RemovalStep ==
  ASSUME Inv, NEW gone \in SUBSET Camera, RemoveCameras(gone)
  PROVE  /\ Grouped' /\ Fresh' /\ Upgrading' /\ Steps' /\ Alerting'
         /\ AlertedExactlyOnce' /\ UpgradedIsCritical' /\ CommittedWasPublished'
<1> DEFINE lost == {e \in EventId : events[e] # Nil /\ events[e].camera \in gone}
<1>1. /\ UNCHANGED <<auditLog, published, pc, local, pending>>
      /\ removed' = removed \cup lost /\ cameras' = cameras \ gone
      /\ \A e \in EventId : events'[e] = IF e \in lost THEN Nil ELSE events[e]
      /\ cooldowns' = CooldownsWithout(lost) /\ Untouched(gone)
  BY DEF RemoveCameras
<1>2. \A e \in EventId, k \in Key : HasKey(events[e], k) =>
        /\ e \in lost <=> k[1] \in gone
        /\ k[1] \notin gone => HasKey(events'[e], k)
  BY <1>1 DEF HasKey, KeyOf, CooldownKey
<1>3. \A t \in Tx : \A e \in pending[t].upgrades :
        e \in EventId /\ events[e] # Nil /\ events'[e] = events[e]
  BY RemovalKeeps
<1>4. \A t \in Tx, k \in Key : pending[t].cooldowns[k] # Nil => k[1] \notin gone
  BY RemovalKeeps
<1> HIDE DEF lost
<1>5. IncidentsTraced
  BY <1>1 DEF IncidentsTraced, Stays
<1>6. Steps' /\ Alerting'
  BY <1>1, <1>5, OthersKept DEF Steps, Alerting
<1>7. Grouped'
  <2>1. ASSUME NEW k \in Key, cooldowns'[k] # Nil
        PROVE  IF cooldowns'[k].event = Nil THEN k[1] \notin cameras'
               ELSE HasKey(events'[cooldowns'[k].event], k)
    <3>1. /\ cooldowns[k] # Nil /\ cooldowns[k] \in Cooldown
          /\ cooldowns'[k].event = IF cooldowns[k].event \in lost THEN Nil
                                   ELSE cooldowns[k].event
      BY <1>1, <2>1 DEF CooldownsWithout, Cooldown, Inv, TypeInv, TypeOK
    <3>2. CASE cooldowns[k].event = Nil
      <4>1. Nil \notin lost
        BY NilIsFresh DEF lost
      <4>2. QED
        BY <1>1, <3>1, <3>2, <4>1 DEF Inv, Grouped
    <3>3. CASE cooldowns[k].event # Nil
      <4>1. cooldowns[k].event \in EventId /\ HasKey(events[cooldowns[k].event], k)
        BY <3>1, <3>3 DEF Inv, Grouped, Cooldown
      <4>2. QED
        BY <1>1, <1>2, <3>1, <3>3, <4>1
    <3>4. QED
      BY <3>2, <3>3
  <2>2. ASSUME NEW t \in Tx, NEW k \in Key, pending[t].cooldowns[k] # Nil
        PROVE  LET e == pending[t].cooldowns[k].event
               IN  /\ e \in EventId
                   /\ HasKey(events'[e], k) \/ HasKey(pending[t].events[e], k)
    <3>1. LET e == pending[t].cooldowns[k].event
          IN  HasKey(events[e], k) \/ HasKey(pending[t].events[e], k)
      BY <2>2 DEF Inv, Grouped
    <3>2. pending[t].cooldowns[k].event \in EventId
      BY <2>2 DEF Inv, Grouped
    <3>3. QED
      BY <1>2, <1>4, <2>2, <3>1, <3>2
  <2>3. QED
    BY <1>1, <2>1, <2>2 DEF Grouped
<1>8. Fresh'
  BY <1>1 DEF Inv, Fresh, Own, lost, TypeInv, TypeOK
<1>9. Upgrading'
  BY <1>1, <1>3 DEF Inv, Upgrading
<1>10. AlertedExactlyOnce' /\ UpgradedIsCritical' /\ CommittedWasPublished'
  BY <1>1 DEF Inv, AlertedExactlyOnce, UpgradedIsCritical, CommittedWasPublished, lost
<1>11. QED
  BY <1>6, <1>7, <1>8, <1>9, <1>10

(* A lock is held until the transaction that took it ends. *)
LEMMA LockStep == TypeInv /\ Locked /\ [Next]_vars => Locked'
<1> SUFFICES ASSUME TypeInv, Locked, [Next]_vars PROVE Locked'
  OBVIOUS
<1>1. /\ pending \in [Tx -> Writes] /\ rowLock \in [EventId -> Tx \cup {Nil}]
      /\ keyLock \in [Key -> Tx \cup {Nil}]
      /\ \A t \in Tx : pending[t] \in Writes /\ pending[t].upgrades \subseteq EventId
  BY DEF TypeInv, TypeOK, Writes
<1>2. ASSUME UNCHANGED <<rowLock, keyLock>>,
             \A t \in Tx : /\ pending'[t].upgrades = pending[t].upgrades
                           /\ pending'[t].cooldowns = pending[t].cooldowns
      PROVE  Locked'
  BY <1>2 DEF Locked
<1>3. ASSUME NEW t \in Tx, EndTransaction(t) PROVE Locked'
  <2>1. /\ pending'[t] = NoWrites
        /\ \A u \in Tx : u # t => pending'[u] = pending[u]
        /\ \A e \in EventId : rowLock[e] # t => rowLock'[e] = rowLock[e]
        /\ \A k \in Key : keyLock[k] # t => keyLock'[k] = keyLock[k]
    BY <1>1, <1>3 DEF EndTransaction
  <2>2. QED
    BY <1>1, <2>1, EmptyWrites DEF Locked
<1>4. ASSUME NEW t \in Tx, FoldDetection(t) PROVE Locked'
  <2>1. CASE UNCHANGED <<rowLock, pending>>
    BY <1>2, <1>4, <2>1 DEF FoldDetection
  <2> DEFINE e == local[t].incident
  <2>2. ASSUME rowLock[e] \in {Nil, t}, rowLock' = [rowLock EXCEPT ![e] = t],
               pending' = [pending EXCEPT ![t].upgrades =
                            IF local[t].upgraded THEN @ \cup {e} ELSE @]
        PROVE  Locked'
    <3>1. e \in EventId /\ keyLock' = keyLock
      BY <1>4 DEF FoldDetection, TypeInv, Working
    <3>2. /\ pending'[t].upgrades \subseteq pending[t].upgrades \cup {e}
          /\ pending'[t].cooldowns = pending[t].cooldowns
          /\ \A u \in Tx : u # t => pending'[u] = pending[u]
      BY <1>1, <2>2 DEF Writes
    <3>3. \A f \in EventId : rowLock'[f] = IF f = e THEN t ELSE rowLock[f]
      BY <1>1, <2>2, <3>1
    <3>4. \A u \in Tx : u # t => e \notin pending[u].upgrades
      BY <2>2, NilIsFresh DEF Locked
    <3> HIDE DEF e
    <3>5. QED
      BY <1>1, <3>1, <3>2, <3>3, <3>4 DEF Locked
  <2>3. QED
    BY <1>4, <2>1, <2>2 DEF FoldDetection
<1>5. ASSUME NEW t \in Tx, UpsertCooldown(t) PROVE Locked'
  <2> DEFINE key == CurrentKey(t)
  <2>1. /\ keyLock[key] \in {Nil, t} /\ keyLock' = [keyLock EXCEPT ![key] = t]
        /\ pending' = [pending EXCEPT ![t].cooldowns[key] =
             [event |-> local[t].incident,
              expires |-> local[t].at + CooldownOf(local[t].rule)]]
        /\ rowLock' = rowLock
    BY <1>5 DEF UpsertCooldown
  <2>2. key \in Key
    BY <1>5, CurrentTypes DEF UpsertCooldown, TypeInv, Working
  <2> HIDE DEF key
  <2>3. /\ pending'[t].upgrades = pending[t].upgrades
        /\ \A k \in Key : k # key =>
             pending'[t].cooldowns[k] = pending[t].cooldowns[k]
        /\ \A u \in Tx : u # t => pending'[u] = pending[u]
    BY <1>1, <2>1 DEF Writes
  <2>4. \A k \in Key : keyLock'[k] = IF k = key THEN t ELSE keyLock[k]
    BY <1>1, <2>1, <2>2
  <2>5. \A u \in Tx : u # t => pending[u].cooldowns[key] = Nil
    BY <2>1, <2>2, NilIsFresh DEF Locked
  <2>6. QED
    BY <2>1, <2>3, <2>4, <2>5 DEF Locked
<1>6. ASSUME NEW t \in Tx, CreateIncident(t) PROVE Locked'
  <2>1. \A u \in Tx : /\ pending'[u].upgrades = pending[u].upgrades
                       /\ pending'[u].cooldowns = pending[u].cooldowns
    BY <1>1, <1>6 DEF CreateIncident, Writes
  <2>2. QED
    BY <1>2, <1>6, <2>1 DEF CreateIncident, locks
<1>7. ASSUME NEW t \in Tx, Alert(t) PROVE Locked'
  <2>1. \A u \in Tx : /\ pending'[u].upgrades = pending[u].upgrades
                       /\ pending'[u].cooldowns = pending[u].cooldowns
    BY <1>1, <1>7 DEF Alert, Writes
  <2>2. QED
    BY <1>2, <1>7, <2>1 DEF Alert, locks
<1>8. ASSUME UNCHANGED <<pending, locks>> PROVE Locked'
  BY <1>2, <1>8 DEF locks
<1>9. ASSUME NEW t \in Tx, TxNext(t) PROVE Locked'
  <2>1. CASE \/ \E r \in Request : Receive(t, r) \/ Refuse(t, r)
             \/ SkipDetection(t) \/ FindRule(t) \/ ReadCooldown(t) \/ ReadIncident(t)
    BY <1>8, <2>1 DEF Receive, Refuse, SkipDetection, FindRule, ReadCooldown,
                      ReadIncident, vars
  <2>2. CASE RejectDisabled(t) \/ Commit(t) \/ Rollback(t)
    BY <1>3, <2>2 DEF RejectDisabled, Commit, Rollback
  <2>3. QED
    BY <1>4, <1>5, <1>6, <1>7, <1>9, <2>1, <2>2 DEF TxNext
<1>10. QED
  BY <1>8, <1>9 DEF Next, vars, ConfigureRule, RemoveCameras, Tick

LEMMA InvStep == Inv /\ [Next]_vars => Inv'
<1> SUFFICES ASSUME Inv, [Next]_vars PROVE Inv'
  OBVIOUS
<1>1. TypeInv' /\ Locked'
  BY TypeStep, LockStep DEF Inv
<1> DEFINE Quiet == /\ Grouped' /\ Fresh' /\ Upgrading' /\ AlertedExactlyOnce'
                    /\ UpgradedIsCritical' /\ CommittedWasPublished'
           Others(t) == \A u \in Tx : u # t => StepOK(u)' /\ AlertsOK(u)'
<1>2. CASE UNCHANGED vars
  <2>1. Quiet
    BY <1>2, NothingWritten DEF vars
  <2>2. Steps' /\ Alerting'
    BY <1>2, OthersKept, SameIncidents DEF vars, store, Steps, Alerting
  <2>3. QED
    BY <1>1, <2>1, <2>2 DEF Inv
<1>3. ASSUME NEW t \in Tx, NEW r \in Request, Receive(t, r) PROVE Inv'
  <2>1. Quiet
    BY <1>3, NothingWritten DEF Receive
  <2>2. StepOK(t)' /\ AlertsOK(t)'
    BY <1>3 DEF Receive, Inv, TypeInv, TypeOK, Alerting, StepOK, AlertsOK, Own
  <2>3. Others(t)
    BY <1>3, OthersKept, SameIncidents DEF Receive, store, Inv, TypeInv, TypeOK
  <2>4. QED
    BY <1>1, <2>1, <2>2, <2>3 DEF Inv, Steps, Alerting
<1>4. ASSUME NEW t \in Tx, RejectDisabled(t) PROVE Inv'
  BY <1>1, <1>4, RolledBack DEF RejectDisabled, Inv
<1>5. ASSUME NEW t \in Tx, SkipDetection(t) PROVE Inv'
  <2>1. Quiet
    BY <1>5, NothingWritten DEF SkipDetection
  <2>2. StepOK(t)' /\ AlertsOK(t)'
    BY <1>5 DEF SkipDetection, Inv, Alerting, StepOK, AlertsOK, Own
  <2>3. Others(t)
    BY <1>5, OthersKept, SameIncidents DEF SkipDetection, store, Inv, TypeInv, TypeOK
  <2>4. QED
    BY <1>1, <2>1, <2>2, <2>3 DEF Inv, Steps, Alerting
<1>6. ASSUME NEW t \in Tx, FindRule(t) PROVE Inv'
  <2>1. Quiet
    BY <1>6, NothingWritten DEF FindRule
  <2>2. StepOK(t)' /\ AlertsOK(t)'
    BY <1>6 DEF FindRule, Inv, TypeInv, TypeOK, Alerting, StepOK, AlertsOK, Own
  <2>3. Others(t)
    BY <1>6, OthersKept, SameIncidents DEF FindRule, store, Inv, TypeInv, TypeOK
  <2>4. QED
    BY <1>1, <2>1, <2>2, <2>3 DEF Inv, Steps, Alerting
<1>7. ASSUME NEW t \in Tx, ReadCooldown(t) PROVE Inv'
  <2>1. Quiet
    BY <1>7, NothingWritten DEF ReadCooldown
  <2>2. Others(t)
    BY <1>7, OthersKept, SameIncidents DEF ReadCooldown, store, Inv, TypeInv, TypeOK
  <2>3. QED
    BY <1>1, <1>7, <2>1, <2>2, ReadCooldownStep DEF Inv, Steps, Alerting
<1>8. ASSUME NEW t \in Tx, ReadIncident(t) PROVE Inv'
  <2>1. Quiet
    BY <1>8, NothingWritten DEF ReadIncident
  <2>2. Others(t)
    BY <1>8, OthersKept, SameIncidents DEF ReadIncident, store, Inv, TypeInv, TypeOK
  <2>3. QED
    BY <1>1, <1>8, <2>1, <2>2, ReadIncidentStep DEF Inv, Steps, Alerting
<1> DEFINE Ledger == AlertedExactlyOnce' /\ UpgradedIsCritical' /\ CommittedWasPublished'
<1>9. ASSUME NEW t \in Tx, FoldDetection(t) PROVE Inv'
  <2>1. Ledger
    BY <1>9 DEF FoldDetection, store, Inv, AlertedExactlyOnce, UpgradedIsCritical,
                CommittedWasPublished
  <2>2. Others(t)
    BY <1>9, OthersKept, SameIncidents DEF FoldDetection, store, Inv, TypeInv, TypeOK
  <2>3. QED
    BY <1>1, <1>9, <2>1, <2>2, FoldStep DEF Inv, Steps, Alerting
<1>10. ASSUME NEW t \in Tx, CreateIncident(t) PROVE Inv'
  <2>1. Ledger
    BY <1>10 DEF CreateIncident, store, Inv, AlertedExactlyOnce, UpgradedIsCritical,
                 CommittedWasPublished
  <2>2. Others(t)
    BY <1>10, OthersKept, SameIncidents DEF CreateIncident, store, Inv, TypeInv, TypeOK
  <2>3. QED
    BY <1>1, <1>10, <2>1, <2>2, CreateStep DEF Inv, Steps, Alerting
<1>11. ASSUME NEW t \in Tx, UpsertCooldown(t) PROVE Inv'
  <2>1. Ledger
    BY <1>11 DEF UpsertCooldown, store, Inv, AlertedExactlyOnce, UpgradedIsCritical,
                 CommittedWasPublished
  <2>2. Others(t)
    BY <1>11, OthersKept, SameIncidents DEF UpsertCooldown, store, Inv, TypeInv, TypeOK
  <2>3. QED
    BY <1>1, <1>11, <2>1, <2>2, UpsertStep DEF Inv, Steps, Alerting
<1>12. ASSUME NEW t \in Tx, Alert(t) PROVE Inv'
  <2>1. Ledger
    BY <1>12, AlertStep DEF Alert, store, Inv, AlertedExactlyOnce, UpgradedIsCritical,
                            CommittedWasPublished
  <2>2. Others(t)
    BY <1>12, AlertStep, OthersKept, SameIncidents DEF Alert, store, Inv, TypeInv, TypeOK
  <2>3. QED
    BY <1>1, <1>12, <2>1, <2>2, AlertStep DEF Inv, Steps, Alerting
<1>13. ASSUME NEW t \in Tx, Commit(t) PROVE Inv'
  BY <1>1, <1>13, CommitStep DEF Inv
<1>14. ASSUME NEW t \in Tx, Rollback(t) PROVE Inv'
  BY <1>1, <1>14, RolledBack DEF Rollback, Inv
<1>15. CASE Tick \/ \E c \in Camera, type \in EventType, rule \in RuleChoice :
                      ConfigureRule(c, type, rule)
  <2>1. UNCHANGED <<store, published, pending, pc, local>>
    BY <1>15 DEF Tick, ConfigureRule
  <2>2. Quiet
    BY <2>1, NothingWritten
  <2>3. Steps' /\ Alerting'
    BY <2>1, OthersKept, SameIncidents DEF store, Steps, Alerting
  <2>4. QED
    BY <1>1, <2>2, <2>3 DEF Inv
<1>16. ASSUME NEW gone \in SUBSET Camera, RemoveCameras(gone) PROVE Inv'
  BY <1>1, <1>16, RemovalStep DEF Inv
<1>17. ASSUME NEW t \in Tx, NEW r \in Request, Refuse(t, r) PROVE Inv'
  BY <1>2, <1>17 DEF Refuse
<1>18. QED
  BY <1>2, <1>3, <1>4, <1>5, <1>6, <1>7, <1>8, <1>9, <1>10, <1>11, <1>12,
     <1>13, <1>14, <1>15, <1>16, <1>17 DEF Next, TxNext

-----------------------------------------------------------------------------
(* processDetection, its transactions and the rule changes around it keep  *)
(* the invariant, however many requests run.                               *)
THEOREM Invariance == Spec => []Inv
<1>1. Init => Inv
  BY InvInit
<1>2. Inv /\ [Next]_vars => Inv'
  BY InvStep
<1>3. QED
  BY <1>1, <1>2, PTL DEF Spec

(* The state of the engine and of its tables has the types of engine.ts    *)
(* and of the schema.                                                      *)
THEOREM TypeCorrectness == Spec => []TypeOK
<1>1. Inv => TypeOK
  BY DEF Inv, TypeInv
<1>2. QED
  BY <1>1, Invariance, PTL

(* A cooldown row always groups into a committed incident of its camera    *)
(* and bucket, until the camera is deleted (engine.ts:136-206,             *)
(* 0003_safety_security_schema.sql:134).                                   *)
THEOREM CooldownCorrectness == Spec => []CooldownTracksIncident
<1>1. ASSUME Inv PROVE CooldownTracksIncident
  <2>1. ASSUME NEW k \in Key, cooldowns[k] # Nil
        PROVE  IF cooldowns[k].event = Nil THEN k[1] \notin cameras
               ELSE LET row == events[cooldowns[k].event]
               IN  /\ row # Nil /\ row.camera = k[1]
                   /\ k[2] = IF row.type \in FireType THEN "FIRE_SAFETY"
                             ELSE row.type
    <3>1. IF cooldowns[k].event = Nil THEN k[1] \notin cameras
          ELSE HasKey(events[cooldowns[k].event], k)
      BY <1>1, <2>1 DEF Inv, Grouped
    <3>2. QED
      BY <3>1 DEF HasKey, KeyOf, CooldownKey, Bucket
  <2>2. QED
    BY <2>1 DEF CooldownTracksIncident
<1>2. QED
  BY <1>1, Invariance, PTL

(* Every incident ever committed was alerted once, with its creation, and  *)
(* no alert outlives a rollback; the alert outlives the incident when the  *)
(* camera is deleted (engine.ts:173-226).                                  *)
THEOREM AlertedOnce == Spec => []AlertedExactlyOnce
<1>1. Inv => AlertedExactlyOnce
  BY DEF Inv
<1>2. QED
  BY <1>1, Invariance, PTL

(* An alerted upgrade is never undone as long as the incident exists       *)
(* (engine.ts:158-165).                                                    *)
THEOREM UpgradesStick == Spec => []UpgradedIsCritical
<1>1. Inv => UpgradedIsCritical
  BY DEF Inv
<1>2. QED
  BY <1>1, Invariance, PTL

(* No alert is committed that was not published (engine.ts:209-237). *)
THEOREM NothingSilent == Spec => []CommittedWasPublished
<1>1. Inv => CommittedWasPublished
  BY DEF Inv
<1>2. QED
  BY <1>1, Invariance, PTL

(* Of a request's steps only COMMIT changes what is committed              *)
(* (pool.ts:102-104).                                                      *)
LEMMA OnlyCommitWrites ==
  ASSUME NEW t \in Tx, TxNext(t)
  PROVE  UNCHANGED store \/ Commit(t)
<1>1. ASSUME NEW r \in Request, Receive(t, r) \/ Refuse(t, r)
      PROVE  UNCHANGED store
  BY <1>1 DEF Receive, Refuse, vars
<1>2. CASE RejectDisabled(t) \/ SkipDetection(t) \/ FindRule(t)
  BY <1>2 DEF RejectDisabled, SkipDetection, FindRule
<1>3. CASE ReadCooldown(t) \/ ReadIncident(t)
  BY <1>3 DEF ReadCooldown, ReadIncident
<1>4. CASE FoldDetection(t) \/ CreateIncident(t)
  BY <1>4 DEF FoldDetection, CreateIncident
<1>5. CASE UpsertCooldown(t) \/ Alert(t) \/ Rollback(t)
  BY <1>5 DEF UpsertCooldown, Alert, Rollback
<1>. QED  BY <1>1, <1>2, <1>3, <1>4, <1>5 DEF TxNext

(* Committed incidents only escalate, whichever requests commit and in     *)
(* whatever order, and are lost only with their camera (engine.ts:158-165, *)
(* 0001_init.sql:216-217).                                                 *)
THEOREM OnlyEscalation == Spec => IncidentsOnlyEscalate
<1> DEFINE Escalation == \A e \in EventId : events[e] # Nil =>
       \/ events'[e] = events[e]
       \/ events'[e] = Nil /\ events[e].camera \in cameras \ cameras'
       \/ /\ events[e].type \in {"FIRE", "SMOKE"}
          /\ events'[e] = Upgraded(events[e])
<1>1. ASSUME Inv, [Next]_vars PROVE [Escalation]_vars
  <2>1. CASE events' = events
    BY <2>1
  <2>2. ASSUME NEW t \in Tx, Commit(t) PROVE Escalation
    <3>1. ASSUME NEW e \in EventId, events[e] # Nil
          PROVE  \/ events'[e] = events[e]
                 \/ /\ events[e].type \in {"FIRE", "SMOKE"}
                    /\ events'[e] = Upgraded(events[e])
      <4>1. ~Own(t, e)
        BY <1>1, <3>1 DEF Inv, Fresh
      <4>2. e \in pending[t].upgrades => Escalates(events[e])
        BY <1>1 DEF Inv, Upgrading
      <4>3. QED
        BY <1>1, <2>2, <4>1, <4>2, CommittedRows DEF Escalates
    <3>2. QED
      BY <3>1
  <2>3. ASSUME NEW gone \in SUBSET Camera, RemoveCameras(gone) PROVE Escalation
    BY <2>3 DEF RemoveCameras
  <2>4. \/ events' = events
        \/ \E t \in Tx : Commit(t)
        \/ \E gone \in SUBSET Camera : RemoveCameras(gone)
    <3>1. CASE \E t \in Tx : TxNext(t)
      BY <3>1, OnlyCommitWrites DEF store
    <3>2. CASE ~\E t \in Tx : TxNext(t)
      BY <1>1, <3>2 DEF Next, vars, store, ConfigureRule, Tick
    <3>. QED  BY <3>1, <3>2
  <2>5. QED
    BY <2>1, <2>2, <2>3, <2>4
<1>2. Inv /\ [Next]_vars => [Escalation]_vars
  BY <1>1
<1>3. QED
  BY <1>2, Invariance, PTL DEF Spec, IncidentsOnlyEscalate

-----------------------------------------------------------------------------
(* Requests that may still commit an upgrade of e. *)
Upgraders(e) ==
  {t \in Tx : \/ e \in pending[t].upgrades
              \/ pc[t] = "fold" /\ local[t].upgraded /\ local[t].incident = e}

(* Every upgrade alert on record, or still to come, is of another request. *)
UpgradesCounted ==
  \A e \in EventId :
    auditLog[<<e, "upgrade">>] + Cardinality(Upgraders(e)) <= Cardinality(Tx)

(* An incident that is FIRE_AND_SMOKE is not upgraded by whoever reads it  *)
(* now: the requests that may upgrade it grow fewer.                       *)
LEMMA NoNewUpgraders ==
  ASSUME Inv, [Next]_vars, NEW e \in EventId, auditLog[<<e, "upgrade">>] > 0
  PROVE  Upgraders(e)' \subseteq Upgraders(e)
<1> DEFINE Same(u) == pc'[u] = pc[u] /\ local'[u] = local[u] /\ pending'[u] = pending[u]
           Few(u) == u \in Upgraders(e)' => u \in Upgraders(e)
<1>0. /\ events[e] # Nil => events[e].type = "FIRE_AND_SMOKE"
      /\ pc \in [Tx -> Step] /\ local \in [Tx -> LocalState] /\ pending \in [Tx -> Writes]
  BY DEF Inv, UpgradedIsCritical, TypeInv, TypeOK
<1>1. ASSUME NEW u \in Tx, Same(u) PROVE Few(u)
  BY <1>1 DEF Upgraders
<1>2. ASSUME NEW u \in Tx, pending'[u] = pending[u], pc'[u] # "fold" PROVE Few(u)
  BY <1>2 DEF Upgraders
<1>3. ASSUME NEW u \in Tx, pending'[u] = NoWrites, pc'[u] = "idle" PROVE Few(u)
  BY <1>3, EmptyWrites DEF Upgraders
<1>4. ASSUME NEW t \in Tx, TxNext(t), NEW u \in Tx PROVE Few(u)
  <2>1. CASE EndTransaction(t)
    <3>1. u = t => pending'[u] = NoWrites /\ pc'[u] = "idle"
      BY <1>0, <2>1 DEF EndTransaction
    <3>2. u # t => Same(u)
      BY <1>0, <2>1 DEF EndTransaction
    <3>. QED  BY <1>1, <1>3, <3>1, <3>2
  <2>0. CASE \E r \in Request : Refuse(t, r)
    BY <1>1, <2>0 DEF Refuse, vars
  <2>2. CASE \/ \E r \in Request : Receive(t, r)
             \/ SkipDetection(t) \/ FindRule(t)
    <3>1. u = t => pending'[u] = pending[u] /\ pc'[u] # "fold"
      BY <1>0, <2>2 DEF Receive, SkipDetection, FindRule
    <3>2. u # t => Same(u)
      BY <1>0, <2>2 DEF Receive, SkipDetection, FindRule
    <3>. QED  BY <1>1, <1>2, <3>1, <3>2
  <2>3. CASE ReadCooldown(t)
    <3>1. UNCHANGED pending /\ local'[t].upgraded = FALSE
      BY <1>0, <2>3 DEF ReadCooldown, LocalState
    <3>2. u # t => Same(u)
      BY <1>0, <2>3 DEF ReadCooldown
    <3>. QED  BY <1>1, <3>1, <3>2 DEF Upgraders
  <2>4. CASE ReadIncident(t)
    <3>1. /\ UNCHANGED pending /\ local'[t].incident = local[t].incident
          /\ local'[t].upgraded =>
               /\ events[local[t].incident] # Nil
               /\ Complementary(events[local[t].incident].type, CurrentType(t))
      BY <1>0, <2>4 DEF ReadIncident, LocalState
    <3>2. ~(local'[t].upgraded /\ local'[t].incident = e)
      BY <1>0, <3>1 DEF Complementary
    <3>3. u # t => Same(u)
      BY <1>0, <2>4 DEF ReadIncident
    <3>. QED  BY <1>1, <3>1, <3>2, <3>3 DEF Upgraders
  <2>5. CASE FoldDetection(t)
    <3>1. /\ pc[t] = "fold" /\ pc'[t] = "upsert"
          /\ \/ pending' = pending
             \/ pending' = [pending EXCEPT ![t].upgrades =
                  IF local[t].upgraded THEN @ \cup {local[t].incident} ELSE @]
      BY <1>0, <2>5 DEF FoldDetection
    <3>2. e \in pending'[t].upgrades =>
            e \in pending[t].upgrades \/ (local[t].upgraded /\ local[t].incident = e)
      BY <1>0, <3>1 DEF Writes
    <3>3. u # t => Same(u)
      BY <1>0, <2>5 DEF FoldDetection
    <3>. QED  BY <1>1, <3>1, <3>2, <3>3 DEF Upgraders
  <2>6. CASE CreateIncident(t) \/ UpsertCooldown(t) \/ Alert(t)
    <3>1. pc'[t] # "fold" /\ pending'[t].upgrades = pending[t].upgrades
      <4>1. CASE CreateIncident(t)
        BY <1>0, <4>1 DEF CreateIncident, Writes
      <4>2. CASE UpsertCooldown(t)
        BY <1>0, <4>2 DEF UpsertCooldown, Writes
      <4>3. CASE Alert(t)
        BY <1>0, <4>3 DEF Alert, Writes
      <4>. QED  BY <2>6, <4>1, <4>2, <4>3
    <3>2. u # t => Same(u)
      BY <1>0, <2>6 DEF CreateIncident, UpsertCooldown, Alert
    <3>. QED  BY <1>1, <3>1, <3>2 DEF Upgraders
  <2>. QED
    BY <1>4, <2>0, <2>1, <2>2, <2>3, <2>4, <2>5, <2>6
       DEF TxNext, RejectDisabled, Commit, Rollback
<1>5. ASSUME ~\E t \in Tx : TxNext(t), NEW u \in Tx PROVE Few(u)
  <2>1. Same(u)
    BY <1>5 DEF Next, vars, ConfigureRule, RemoveCameras, Tick
  <2>. QED  BY <1>1, <2>1
<1>. QED  BY <1>4, <1>5 DEF Upgraders

(* An upgrade alert comes on record with a request that may upgrade and    *)
(* is over then.                                                           *)
LEMMA UpgradeRecorded ==
  ASSUME Inv, [Next]_vars, NEW e \in EventId
  PROVE  \/ auditLog'[<<e, "upgrade">>] = auditLog[<<e, "upgrade">>]
         \/ /\ auditLog'[<<e, "upgrade">>] = auditLog[<<e, "upgrade">>] + 1
            /\ \E t \in Upgraders(e) : t \notin Upgraders(e)'
<1>1. ASSUME NEW t \in Tx, Commit(t), <<e, "upgrade">> \in pending[t].audits
      PROVE  /\ auditLog'[<<e, "upgrade">>] = auditLog[<<e, "upgrade">>] + 1
             /\ t \in Upgraders(e) /\ t \notin Upgraders(e)'
  <2>1. e \in pending[t].upgrades
    BY <1>1 DEF Inv, Alerting, AlertsOK
  <2>2. pending'[t] = NoWrites /\ pc'[t] = "idle"
    BY <1>1, Ended DEF Commit
  <2>3. auditLog'[<<e, "upgrade">>] = auditLog[<<e, "upgrade">>] + 1
    BY <1>1 DEF Commit, AuditsAfter, Kind
  <2>. QED  BY <2>1, <2>2, <2>3, EmptyWrites DEF Upgraders
<1>2. ASSUME NEW t \in Tx, Commit(t), <<e, "upgrade">> \notin pending[t].audits
      PROVE  auditLog'[<<e, "upgrade">>] = auditLog[<<e, "upgrade">>]
  BY <1>2 DEF Commit, AuditsAfter, Kind
<1>3. UNCHANGED auditLog \/ \E t \in Tx : Commit(t)
  <2>1. CASE \E t \in Tx : TxNext(t)
    BY <2>1, OnlyCommitWrites DEF store
  <2>2. CASE ~\E t \in Tx : TxNext(t)
    BY <2>2 DEF Next, vars, store, ConfigureRule, RemoveCameras, Tick
  <2>. QED  BY <2>1, <2>2
<1>. QED  BY <1>1, <1>2, <1>3

(* An incident is alerted as upgraded at most once for every request that  *)
(* may run at the same time, however many arrive (engine.ts:147-166).      *)
THEOREM FewUpgradeAlerts ==
  ASSUME IsFiniteSet(Tx)
  PROVE  Spec => []UpgradeAlertsBounded
<1>0. /\ Cardinality(Tx) \in Nat
      /\ \A S : S \subseteq Tx => /\ IsFiniteSet(S) /\ Cardinality(S) \in Nat
                                 /\ Cardinality(S) <= Cardinality(Tx)
  BY FS_Subset, FS_CardinalityType
<1>1. Init => UpgradesCounted
  BY <1>0 DEF Init, UpgradesCounted, Upgraders, Kind
<1>2. Inv /\ UpgradesCounted /\ [Next]_vars => UpgradesCounted'
  <2>. SUFFICES ASSUME Inv, UpgradesCounted, [Next]_vars, NEW e \in EventId
                PROVE  auditLog'[<<e, "upgrade">>] + Cardinality(Upgraders(e)')
                         <= Cardinality(Tx)
    BY DEF UpgradesCounted
  <2>. DEFINE n == auditLog[<<e, "upgrade">>]
              U == Upgraders(e)
              V == Upgraders(e)'
  <2>1. n \in Nat /\ U \subseteq Tx /\ V \subseteq Tx
    BY DEF Inv, TypeInv, TypeOK, Kind, Upgraders
  <2>2. /\ IsFiniteSet(U) /\ Cardinality(U) \in Nat
        /\ IsFiniteSet(V) /\ Cardinality(V) \in Nat /\ Cardinality(V) <= Cardinality(Tx)
    BY <1>0, <2>1
  <2>3. n + Cardinality(U) <= Cardinality(Tx)
    BY DEF UpgradesCounted
  <2>4. n > 0 => V \subseteq U
    BY NoNewUpgraders
  <2>5. \/ auditLog'[<<e, "upgrade">>] = n
        \/ auditLog'[<<e, "upgrade">>] = n + 1 /\ \E t \in U : t \notin V
    BY UpgradeRecorded
  <2>. HIDE DEF n, U, V
  <2>6. V \subseteq U => Cardinality(V) <= Cardinality(U)
    BY <2>2, FS_Subset
  <2>7. CASE auditLog'[<<e, "upgrade">>] = n
    BY <1>0, <2>1, <2>2, <2>3, <2>4, <2>6, <2>7 DEF V
  <2>8. ASSUME auditLog'[<<e, "upgrade">>] = n + 1, NEW t \in U, t \notin V
        PROVE  n + 1 + Cardinality(V) <= Cardinality(Tx)
    <3>1. CASE n > 0
      <4>1. V \subseteq U \ {t} /\ IsFiniteSet(U \ {t})
            /\ Cardinality(U \ {t}) = Cardinality(U) - 1
        BY <2>2, <2>4, <2>8, <3>1, FS_RemoveElement
      <4>2. Cardinality(V) <= Cardinality(U \ {t})
        BY <4>1, FS_Subset
      <4>. QED  BY <1>0, <2>1, <2>2, <2>3, <4>1, <4>2
    <3>2. CASE n = 0
      <4>1. t \in Tx /\ V \subseteq Tx \ {t}
        BY <2>1, <2>8
      <4>2. IsFiniteSet(Tx \ {t}) /\ Cardinality(Tx \ {t}) = Cardinality(Tx) - 1
        BY <4>1, FS_RemoveElement
      <4>3. Cardinality(V) <= Cardinality(Tx \ {t})
        BY <4>1, <4>2, FS_Subset
      <4>. QED  BY <1>0, <2>2, <3>2, <4>2, <4>3
    <3>. QED  BY <2>1, <3>1, <3>2
  <2>. QED  BY <2>5, <2>7, <2>8 DEF V
<1>3. Inv /\ UpgradesCounted => UpgradeAlertsBounded
  <2>. SUFFICES ASSUME Inv, UpgradesCounted, NEW e \in EventId
                PROVE  auditLog[<<e, "upgrade">>] <= Cardinality(Tx)
    BY DEF UpgradeAlertsBounded
  <2>1. auditLog[<<e, "upgrade">>] \in Nat /\ Upgraders(e) \subseteq Tx
    BY DEF Inv, TypeInv, TypeOK, Kind, Upgraders
  <2>. QED  BY <1>0, <2>1 DEF UpgradesCounted
<1>. QED  BY <1>1, <1>2, <1>3, Invariance, PTL DEF Spec

-----------------------------------------------------------------------------
(***************************************************************************)
(* One request at a time: the engine implements CooldownPromise.           *)
(***************************************************************************)
OneAtATime == \A t, u \in Tx : t = u

(* Every rule is one the administrator chose.                              *)
RulesChosen ==
  /\ rules \in [Camera \X EventType -> RuleChoice]
  /\ \A t \in Tx : local[t].rule \in RuleChoice

(* The types that are left have cooldown keys of their own, which nothing  *)
(* was written for yet.                                                    *)
KeysLeft ==
  \A t \in Tx :
    LET todo == local[t].todo IN
    /\ \A i, j \in DOMAIN todo : Bucket(todo[i]) = Bucket(todo[j]) => i = j
    /\ \A i \in DOMAIN todo : i > 1 \/ pc[t] # "alert" =>
         pending[t].cooldowns[CooldownKey(CurrentCamera(t), todo[i])] = Nil

(* What was decided for the type at hand is still what the window says,    *)
(* unless the incident was deleted.                                        *)
Decided(t) ==
  /\ local[t].at <= now
  /\ pc[t] = "create" => ~WindowOpen(CurrentKey(t), local[t].at)
  /\ pc[t] \in {"readIncident", "fold", "upsert"} =>
       IF pc[t] = "upsert" /\ local[t].created
       THEN ~WindowOpen(CurrentKey(t), local[t].at)
       ELSE \/ local[t].incident \in removed
            \/ /\ WindowOpen(CurrentKey(t), local[t].at)
               /\ local[t].incident = cooldowns[CurrentKey(t)].event
  /\ pc[t] = "fold" /\ local[t].upgraded =>
       \/ local[t].incident \in removed
       \/ events[local[t].incident].type \in {"FIRE", "SMOKE"}

Decisions == \A t \in Tx : Decided(t)

(* A written window restarts that of its incident, or follows its end.     *)
WindowsWritten ==
  \A t \in Tx, k \in Key : pending[t].cooldowns[k] # Nil =>
    LET w == pending[t].cooldowns[k] IN
    \E n \in 0..now, c \in CooldownLengths :
      /\ w.expires = n + c
      /\ IF Own(t, w.event) THEN ~WindowOpen(k, n)
         ELSE WindowOpen(k, n) /\ w.event = cooldowns[k].event

(* An incident that is created or upgraded is the one of its window.       *)
AtHand(t, e) == pc[t] = "upsert" /\ local[t].incident = e

CreatedInWindow ==
  \A t \in Tx, e \in EventId, k \in Key : HasKey(pending[t].events[e], k) =>
    \/ AtHand(t, e)
    \/ pending[t].cooldowns[k] # Nil /\ pending[t].cooldowns[k].event = e

UpgradedInWindow ==
  \A t \in Tx : \A e \in pending[t].upgrades :
    /\ events[e].type \in {"FIRE", "SMOKE"}
    /\ \/ AtHand(t, e)
       \/ /\ pending[t].cooldowns[KeyOf(events[e])] # Nil
          /\ pending[t].cooldowns[KeyOf(events[e])].event = e
    /\ \/ AtHand(t, e) /\ local[t].upgraded
       \/ pc[t] = "alert" /\ local[t].incident = e
       \/ <<e, "upgrade">> \in pending[t].audits

SerialInv ==
  /\ RulesChosen /\ KeysLeft /\ Decisions
  /\ WindowsWritten /\ CreatedInWindow /\ UpgradedInWindow

(* What is used of the types: the request that runs, and its variables.    *)
LEMMA Running ==
  ASSUME Inv, OneAtATime, NEW t \in Tx
  PROVE  /\ \A u \in Tx : u = t
         /\ pc \in [Tx -> Step] /\ local \in [Tx -> LocalState]
         /\ pending \in [Tx -> Writes] /\ now \in Nat
         /\ local[t] \in LocalState /\ pending[t] \in Writes
BY ConstantTypes DEF OneAtATime, Inv, TypeInv, TypeOK

LEMMA LeftTypes ==
  ASSUME Inv, NEW t \in Tx, pc[t] # "idle", NEW i \in DOMAIN local[t].todo
  PROVE  /\ local[t].todo[i] \in EventType /\ CurrentCamera(t) \in Camera
         /\ CooldownKey(CurrentCamera(t), local[t].todo[i]) \in Key
<1>1. local[t].todo \in Seq(EventType) /\ local[t].sig \in Request
  BY DEF Inv, TypeInv, TypeOK, Working, LocalState
<1>2. local[t].todo[i] \in EventType
  BY <1>1
<1>3. CurrentCamera(t) \in Camera
  BY <1>1, ConstantTypes DEF CurrentCamera, RequestRecord
<1>. QED  BY <1>2, <1>3, KeyType

(* The keys of two types that are left differ.                             *)
LEMMA OtherKeys ==
  ASSUME Inv, KeysLeft, NEW t \in Tx, pc[t] # "idle", local[t].todo # << >>,
         NEW i \in DOMAIN local[t].todo
  PROVE  /\ 1 \in DOMAIN local[t].todo /\ local[t].todo[1] = CurrentType(t)
         /\ i # 1 => CooldownKey(CurrentCamera(t), local[t].todo[i]) # CurrentKey(t)
<1>1. local[t].todo \in Seq(EventType)
  BY DEF Inv, TypeInv, TypeOK, LocalState
<1>2. 1 \in DOMAIN local[t].todo /\ local[t].todo[1] = CurrentType(t)
  BY <1>1 DEF CurrentType
<1>. QED  BY <1>2 DEF KeysLeft, CurrentKey, CooldownKey

(* One type less is left.                                                  *)
LEMMA FewerKeys ==
  ASSUME Inv, KeysLeft, OneAtATime, NEW t \in Tx, pc[t] # "idle",
         local[t].todo # << >>, pc'[t] = "findRule",
         local'[t].todo = Tail(local[t].todo), local'[t].sig = local[t].sig,
         \A k \in Key : k # CurrentKey(t) =>
           pending'[t].cooldowns[k] = pending[t].cooldowns[k]
  PROVE  KeysLeft'
<1>1. local[t].todo \in Seq(EventType) /\ \A u \in Tx : u = t
  BY Running DEF LocalState
<1>2. /\ \A i \in DOMAIN local'[t].todo :
           i + 1 \in DOMAIN local[t].todo /\ i + 1 > 1 /\ i \in Nat
           /\ local'[t].todo[i] = local[t].todo[i + 1]
      /\ CurrentCamera(t)' = CurrentCamera(t)
  BY <1>1 DEF CurrentCamera
<1>3. ASSUME NEW i \in DOMAIN local'[t].todo, NEW j \in DOMAIN local'[t].todo,
             Bucket(local'[t].todo[i]) = Bucket(local'[t].todo[j])
      PROVE  i = j
  <2>1. i + 1 = j + 1
    BY <1>2, <1>3 DEF KeysLeft
  <2>. QED  BY <1>2, <2>1
<1>4. ASSUME NEW i \in DOMAIN local'[t].todo
      PROVE  pending'[t].cooldowns[CooldownKey(CurrentCamera(t), local'[t].todo[i])] = Nil
  <2>. DEFINE k == CooldownKey(CurrentCamera(t), local[t].todo[i + 1])
  <2>1. i + 1 \in DOMAIN local[t].todo /\ i + 1 > 1 /\ i + 1 # 1
    BY <1>2
  <2>2. k \in Key /\ k # CurrentKey(t)
    BY <2>1, LeftTypes, OtherKeys
  <2>3. pending[t].cooldowns[k] = Nil
    BY <2>1 DEF KeysLeft
  <2>. HIDE DEF k
  <2>4. pending'[t].cooldowns[k] = Nil
    BY <2>2, <2>3
  <2>. QED  BY <1>2, <2>4 DEF k
<1>5. /\ \A i, j \in DOMAIN local'[t].todo :
           Bucket(local'[t].todo[i]) = Bucket(local'[t].todo[j]) => i = j
      /\ \A i \in DOMAIN local'[t].todo :
           pending'[t].cooldowns[CooldownKey(CurrentCamera(t)', local'[t].todo[i])] = Nil
  BY <1>2, <1>3, <1>4
<1>. QED  BY <1>1, <1>5 DEF KeysLeft

(* As many types are left, and no other key is written.                    *)
LEMMA SameKeys ==
  ASSUME KeysLeft, OneAtATime, NEW t \in Tx, pc[t] # "alert",
         local'[t].todo = local[t].todo, local'[t].sig = local[t].sig,
         pending'[t].cooldowns = pending[t].cooldowns
  PROVE  KeysLeft'
<1>1. CurrentCamera(t)' = CurrentCamera(t) /\ \A u \in Tx : u = t
  BY DEF CurrentCamera, OneAtATime
<1>. QED  BY <1>1 DEF KeysLeft

(* A step that writes nothing, of a request with no incident at hand.      *)
LEMMA WritesKept ==
  ASSUME Inv, SerialInv, OneAtATime, NEW t \in Tx, UNCHANGED <<store, pending, now>>,
         pc[t] \notin {"upsert", "alert"}
  PROVE  WindowsWritten' /\ CreatedInWindow' /\ UpgradedInWindow'
<1>1. \A u \in Tx : u = t
  BY DEF OneAtATime
<1>2. \A k \in Key, n \in Nat : WindowOpen(k, n)' = WindowOpen(k, n)
  BY DEF WindowOpen, store
<1>3. WindowsWritten'
  BY DEF SerialInv, WindowsWritten, WindowOpen, Own, store
<1>4. CreatedInWindow'
  BY <1>1 DEF SerialInv, CreatedInWindow, AtHand
<1>5. UpgradedInWindow'
  BY ZenonT(30), <1>1 DEF SerialInv, UpgradedInWindow, AtHand, store
<1>. QED  BY <1>3, <1>4, <1>5

(* A request that is over has written nothing.                             *)
LEMMA EndedSerial ==
  ASSUME Inv, SerialInv, OneAtATime, NEW t \in Tx, EndTransaction(t), UNCHANGED <<rules, now>>
  PROVE  SerialInv'
<1>1. /\ pc'[t] = "idle" /\ local'[t] = AtRest /\ pending'[t] = NoWrites
      /\ \A u \in Tx : u = t /\ now \in Nat
  BY Running DEF EndTransaction
<1>2. RulesChosen'
  BY <1>1, ConstantTypes DEF SerialInv, RulesChosen, AtRest
<1>3. KeysLeft'
  <2>1. local'[t].todo = << >> /\ DOMAIN << >> = {}
    BY <1>1 DEF AtRest
  <2>. QED  BY <1>1, <2>1 DEF KeysLeft
<1>4. Decisions'
  BY <1>1 DEF Decisions, Decided, AtRest
<1>5. WindowsWritten' /\ CreatedInWindow' /\ UpgradedInWindow'
  BY <1>1, EmptyWrites DEF WindowsWritten, CreatedInWindow, UpgradedInWindow, HasKey
<1>. QED  BY <1>2, <1>3, <1>4, <1>5 DEF SerialInv

LEMMA ReceiveSerial ==
  ASSUME Inv, SerialInv, OneAtATime, NEW t \in Tx, NEW r \in Request, Receive(t, r)
  PROVE  SerialInv'
<1>1. /\ pc[t] = "idle" /\ pc'[t] = "findRule" /\ pending[t] = NoWrites
      /\ local'[t] = [AtRest EXCEPT !.sig = r, !.todo = r.types, !.began = now]
      /\ \A u \in Tx : u = t /\ now \in Nat
      /\ UNCHANGED <<now, rules, store, pending>>
  BY Running DEF Receive, Inv, Steps, StepOK
<1>2. /\ local'[t].sig = r /\ local'[t].todo = r.types
      /\ local'[t].at = 0 /\ local'[t].rule = Nil
  BY <1>1 DEF AtRest
<1>3. RulesChosen'
  BY <1>1, <1>2, ConstantTypes DEF SerialInv, RulesChosen
<1>4. KeysLeft'
  <2>1. r.types \in Seq(EventType) /\ r.camera \in Camera
    BY ConstantTypes DEF RequestRecord
  <2>2. ASSUME NEW i \in DOMAIN r.types
        PROVE  pending'[t].cooldowns[CooldownKey(r.camera, r.types[i])] = Nil
    <3>1. r.types[i] \in EventType
      BY <2>1
    <3>. QED  BY <1>1, <2>1, <3>1, KeyType, EmptyWrites
  <2>3. \A i, j \in DOMAIN r.types : Bucket(r.types[i]) = Bucket(r.types[j]) => i = j
    BY DistinctBuckets
  <2>4. CurrentCamera(t)' = r.camera
    BY <1>2 DEF CurrentCamera
  <2>5. /\ local'[t].todo = r.types /\ pending' = pending
        /\ \A u \in Tx : u = t
    BY <1>1, <1>2
  <2>. QED  BY <2>2, <2>3, <2>4, <2>5 DEF KeysLeft
<1>5. Decisions'
  <2>1. /\ pc'[t] = "findRule" /\ local'[t].at = 0 /\ now' \in Nat
        /\ \A u \in Tx : u = t
    BY <1>1, <1>2
  <2>. QED  BY <2>1 DEF Decisions, Decided
<1>. QED  BY <1>1, <1>3, <1>4, <1>5, WritesKept DEF SerialInv

LEMMA ReadSerial ==
  ASSUME Inv, SerialInv, OneAtATime, NEW t \in Tx,
         SkipDetection(t) \/ FindRule(t) \/ ReadCooldown(t) \/ ReadIncident(t)
  PROVE  SerialInv'
<1>0. /\ \A u \in Tx : u = t
      /\ pc \in [Tx -> Step] /\ local \in [Tx -> LocalState] /\ now \in Nat
      /\ local[t] \in LocalState /\ pc[t] \notin {"idle", "upsert", "alert"}
      /\ UNCHANGED <<now, rules, store, pending>>
  BY Running DEF SkipDetection, FindRule, ReadCooldown, ReadIncident
<1>1. WindowsWritten' /\ CreatedInWindow' /\ UpgradedInWindow'
  BY <1>0, WritesKept
<1>2. CASE SkipDetection(t)
  <2>1. local'[t] = [local[t] EXCEPT !.todo = Tail(local[t].todo)] /\ pc'[t] = "findRule"
        /\ local[t].todo # << >>
    BY <1>0, <1>2 DEF SkipDetection
  <2>2. /\ local'[t].todo = Tail(local[t].todo) /\ local'[t].sig = local[t].sig
        /\ local'[t].at = local[t].at /\ local'[t].rule = local[t].rule
    BY <1>0, <2>1 DEF LocalState
  <2>3. KeysLeft'
    BY <1>0, <2>1, <2>2, FewerKeys DEF SerialInv
  <2>4. RulesChosen' /\ Decisions'
    BY <1>0, <2>1, <2>2 DEF SerialInv, RulesChosen, Decisions, Decided
  <2>. QED  BY <1>1, <2>3, <2>4 DEF SerialInv
<1>3. CASE FindRule(t)
  <2>. DEFINE rule == rules[<<CurrentCamera(t), CurrentType(t)>>]
  <2>1. /\ local'[t] = [local[t] EXCEPT !.rule = rule] /\ pc'[t] = "readCooldown"
        /\ local[t].todo # << >>
    BY <1>0, <1>3 DEF FindRule
  <2>2. rule \in RuleChoice
    BY <1>0, <2>1, CurrentTypes DEF Inv, TypeInv, Working, SerialInv, RulesChosen
  <2>. HIDE DEF rule
  <2>3. /\ local'[t].todo = local[t].todo /\ local'[t].sig = local[t].sig
        /\ local'[t].at = local[t].at /\ local'[t].rule = rule
    BY <1>0, <2>1 DEF LocalState
  <2>4. KeysLeft'
    BY <1>0, <2>3, SameKeys DEF SerialInv
  <2>5. RulesChosen' /\ Decisions'
    BY <1>0, <2>1, <2>2, <2>3 DEF SerialInv, RulesChosen, Decisions, Decided
  <2>. QED  BY <1>1, <2>4, <2>5 DEF SerialInv
<1>4. CASE ReadCooldown(t)
  <2>. DEFINE key == CurrentKey(t)
              within == WindowOpen(key, now)
              i == IF within THEN cooldowns[key].event ELSE Nil
  <2>1. /\ local'[t] = [local[t] EXCEPT !.at = now, !.created = FALSE,
                                        !.upgraded = FALSE, !.incident = i]
        /\ pc'[t] \in {"readIncident", "fold", "create"}
        /\ within <=> pc'[t] # "create"
    BY <1>0, <1>4 DEF ReadCooldown
  <2>. HIDE DEF within, i
  <2>2. /\ local'[t].todo = local[t].todo /\ local'[t].sig = local[t].sig
        /\ local'[t].at = now /\ local'[t].rule = local[t].rule
        /\ local'[t].incident = i /\ local'[t].upgraded = FALSE
    BY <1>0, <2>1 DEF LocalState
  <2>3. CurrentKey(t)' = key
    BY <2>2 DEF CurrentKey, CurrentCamera, CurrentType
  <2>4. KeysLeft'
    BY <1>0, <2>2, SameKeys DEF SerialInv
  <2>5. RulesChosen'
    BY <1>0, <2>2 DEF SerialInv, RulesChosen
  <2>6. Decided(t)'
    <3>1. WindowOpen(CurrentKey(t), local[t].at)' = within
      BY <1>0, <2>2, <2>3 DEF WindowOpen, store, within
    <3>2. pc'[t] \in {"readIncident", "fold"} =>
            local'[t].incident = cooldowns'[CurrentKey(t)'].event
      BY <1>0, <2>1, <2>2, <2>3 DEF i, store
    <3>. QED  BY <1>0, <2>1, <2>2, <3>1, <3>2 DEF Decided
  <2>. QED  BY <1>0, <1>1, <2>4, <2>5, <2>6 DEF SerialInv, Decisions
<1>5. CASE ReadIncident(t)
  <2>. DEFINE u == /\ events[local[t].incident] # Nil
                   /\ Complementary(events[local[t].incident].type, CurrentType(t))
                   /\ local[t].at <= events[local[t].incident].occurredAt
                                        + CorrelationWindow
  <2>1. local'[t] = [local[t] EXCEPT !.upgraded = u] /\ pc'[t] = "fold"
        /\ pc[t] = "readIncident"
    BY <1>0, <1>5 DEF ReadIncident
  <2>2. u => events[local[t].incident].type \in {"FIRE", "SMOKE"}
    BY DEF Complementary
  <2>. HIDE DEF u
  <2>3. /\ local'[t].todo = local[t].todo /\ local'[t].sig = local[t].sig
        /\ local'[t].at = local[t].at /\ local'[t].rule = local[t].rule
        /\ local'[t].incident = local[t].incident /\ local'[t].upgraded = u
    BY <1>0, <2>1 DEF LocalState
  <2>4. CurrentKey(t)' = CurrentKey(t)
    BY <2>3 DEF CurrentKey, CurrentCamera, CurrentType
  <2>5. KeysLeft'
    BY <1>0, <2>3, SameKeys DEF SerialInv
  <2>6. RulesChosen'
    BY <1>0, <2>3 DEF SerialInv, RulesChosen
  <2>7. Decided(t)'
    <3>1. \A n : WindowOpen(CurrentKey(t), n)' = WindowOpen(CurrentKey(t), n)
      BY <1>0, <2>4 DEF WindowOpen, store
    <3>2. Decided(t)
      BY DEF SerialInv, Decisions
    <3>. QED  BY <1>0, <2>1, <2>2, <2>3, <2>4, <3>1, <3>2 DEF Decided, store
  <2>. QED  BY <1>0, <1>1, <2>5, <2>6, <2>7 DEF SerialInv, Decisions
<1>. QED  BY <1>2, <1>3, <1>4, <1>5

(* The active incident is updated: it is at hand until its window is.      *)
LEMMA FoldSerial ==
  ASSUME Inv, SerialInv, OneAtATime, NEW t \in Tx, FoldDetection(t)
  PROVE  SerialInv'
<1> DEFINE e == local[t].incident
<1>0. /\ \A u \in Tx : u = t
      /\ pc[t] = "fold" /\ pc'[t] = "upsert" /\ UNCHANGED <<now, rules, store, local>>
      /\ pending \in [Tx -> Writes] /\ pending[t] \in Writes /\ now \in Nat
      /\ ~local[t].created /\ e \in EventId
  BY Running DEF FoldDetection, Inv, Steps, StepOK, TypeInv, Working
<1>1. \/ events[e] = Nil /\ pending' = pending
      \/ /\ events[e] # Nil
         /\ pending' = [pending EXCEPT ![t].upgrades =
              IF local[t].upgraded THEN @ \cup {e} ELSE @]
  BY DEF FoldDetection
<1>2. /\ pending'[t].events = pending[t].events
      /\ pending'[t].cooldowns = pending[t].cooldowns
      /\ pending'[t].audits = pending[t].audits
      /\ pending'[t].upgrades = IF local[t].upgraded /\ events[e] # Nil
                                THEN pending[t].upgrades \cup {e}
                                ELSE pending[t].upgrades
  <2>1. CASE events[e] = Nil /\ pending' = pending
    BY <2>1
  <2>2. CASE /\ events[e] # Nil
             /\ pending' = [pending EXCEPT ![t].upgrades =
                  IF local[t].upgraded THEN @ \cup {e} ELSE @]
    BY <1>0, <2>2 DEF Writes
  <2>. QED  BY <1>1, <2>1, <2>2
<1>3. RulesChosen' /\ KeysLeft'
  <2>1. KeysLeft'
    BY <1>0, <1>2, SameKeys DEF SerialInv
  <2>. QED  BY <1>0, <2>1 DEF SerialInv, RulesChosen
<1>4. Decisions'
  <2>1. Decided(t)
    BY DEF SerialInv, Decisions
  <2>2. CurrentKey(t)' = CurrentKey(t)
    BY <1>0 DEF CurrentKey, CurrentCamera, CurrentType
  <2>3. WindowOpen(CurrentKey(t), local[t].at)' = WindowOpen(CurrentKey(t), local[t].at)
    BY <1>0, <2>2 DEF WindowOpen, store
  <2>4. Decided(t)'
    BY <1>0, <2>1, <2>2, <2>3 DEF Decided, store
  <2>. QED  BY <1>0, <2>4 DEF Decisions
<1>5. WindowsWritten'
  <2>1. \A k \in Key, n \in Nat : WindowOpen(k, n)' = WindowOpen(k, n)
    BY <1>0 DEF WindowOpen, store
  <2>2. \A f : Own(t, f)' = Own(t, f)
    BY <1>2 DEF Own
  <2>. QED  BY <1>0, <1>2, <2>1, <2>2 DEF SerialInv, WindowsWritten, store
<1>6. CreatedInWindow'
  <2>1. \A f : ~AtHand(t, f)
    BY <1>0 DEF AtHand
  <2>. QED  BY <1>0, <1>2, <2>1 DEF SerialInv, CreatedInWindow
<1>7. UpgradedInWindow'
  <2>. SUFFICES ASSUME NEW f \in pending'[t].upgrades
                PROVE  /\ events[f].type \in {"FIRE", "SMOKE"}
                       /\ \/ AtHand(t, f)'
                          \/ /\ pending[t].cooldowns[KeyOf(events[f])] # Nil
                             /\ pending[t].cooldowns[KeyOf(events[f])].event = f
                       /\ \/ AtHand(t, f)' /\ local[t].upgraded
                          \/ <<f, "upgrade">> \in pending[t].audits
    <3>1. \A u \in Tx : u = t
      BY <1>0
    <3>2. UNCHANGED <<events, local>> /\ pending'[t].cooldowns = pending[t].cooldowns
          /\ pending'[t].audits = pending[t].audits
      BY <1>0, <1>2 DEF store
    <3>. SUFFICES ASSUME NEW u \in Tx, NEW g \in pending'[u].upgrades
                  PROVE  /\ events'[g].type \in {"FIRE", "SMOKE"}
                         /\ \/ AtHand(u, g)'
                            \/ /\ pending'[u].cooldowns[KeyOf(events'[g])] # Nil
                               /\ pending'[u].cooldowns[KeyOf(events'[g])].event = g
                         /\ \/ AtHand(u, g)' /\ local'[u].upgraded
                            \/ pc'[u] = "alert" /\ local'[u].incident = g
                            \/ <<g, "upgrade">> \in pending'[u].audits
      BY DEF UpgradedInWindow
    <3>3. u = t
      BY <3>1
    <3>. QED  BY <3>2, <3>3 DEF AtHand
  <2>1. CASE f \in pending[t].upgrades
    BY <1>0, <2>1 DEF SerialInv, UpgradedInWindow, AtHand
  <2>2. CASE f = e /\ local[t].upgraded /\ events[e] # Nil
    BY <1>0, <2>2 DEF SerialInv, Decisions, Decided, AtHand, Inv, Fresh
  <2>. QED  BY <1>2, <2>1, <2>2
<1>. QED  BY <1>3, <1>4, <1>5, <1>6, <1>7 DEF SerialInv

(* A new incident is at hand until its window is written.                  *)
LEMMA CreateSerial ==
  ASSUME Inv, SerialInv, OneAtATime, NEW t \in Tx, CreateIncident(t)
  PROVE  SerialInv'
<1>0. /\ \A u \in Tx : u = t
      /\ pc[t] = "create" /\ pc'[t] = "upsert" /\ UNCHANGED <<now, rules, store>>
      /\ local \in [Tx -> LocalState] /\ local[t] \in LocalState
      /\ pending \in [Tx -> Writes] /\ pending[t] \in Writes /\ now \in Nat
  BY Running DEF CreateIncident
<1> DEFINE row == [camera |-> CurrentCamera(t), type |-> CurrentType(t),
                   severity |-> SeverityOf(local[t].sig, local[t].rule, CurrentType(t)),
                   occurredAt |-> local[t].began]
<1>1. PICK e \in EventId \ UsedIds :
        /\ pending' = [pending EXCEPT ![t].events[e] = row]
        /\ local' = [local EXCEPT ![t].incident = e, ![t].created = TRUE]
  BY DEF CreateIncident
<1> HIDE DEF row
<1>2. /\ events[e] = Nil /\ pending[t].events[e] = Nil
  BY DEF UsedIds
<1>3. /\ pending'[t].cooldowns = pending[t].cooldowns
      /\ pending'[t].audits = pending[t].audits
      /\ pending'[t].upgrades = pending[t].upgrades
      /\ \A f \in EventId : f # e => pending'[t].events[f] = pending[t].events[f]
  BY <1>0, <1>1 DEF Writes
<1>4. /\ local'[t].incident = e /\ local'[t].created = TRUE
      /\ local'[t].todo = local[t].todo /\ local'[t].sig = local[t].sig
      /\ local'[t].at = local[t].at /\ local'[t].rule = local[t].rule
  BY <1>0, <1>1 DEF LocalState
<1>5. RulesChosen' /\ KeysLeft'
  <2>1. KeysLeft'
    BY <1>0, <1>3, <1>4, SameKeys DEF SerialInv
  <2>. QED  BY <1>0, <1>4, <2>1 DEF SerialInv, RulesChosen
<1>6. Decisions'
  <2>1. Decided(t)
    BY DEF SerialInv, Decisions
  <2>2. CurrentKey(t)' = CurrentKey(t)
    BY <1>4 DEF CurrentKey, CurrentCamera, CurrentType
  <2>3. WindowOpen(CurrentKey(t), local[t].at)' = WindowOpen(CurrentKey(t), local[t].at)
    BY <1>0, <1>4, <2>2 DEF WindowOpen, store
  <2>4. Decided(t)'
    BY <1>0, <1>4, <2>1, <2>2, <2>3 DEF Decided
  <2>. QED  BY <1>0, <2>4 DEF Decisions
<1>7. WindowsWritten'
  <2>1. \A k \in Key, n \in Nat : WindowOpen(k, n)' = WindowOpen(k, n)
    BY <1>0 DEF WindowOpen, store
  <2>2. ASSUME NEW k \in Key, pending[t].cooldowns[k] # Nil
        PROVE  LET f == pending[t].cooldowns[k].event IN Own(t, f)' = Own(t, f)
    <3>1. /\ pending[t].cooldowns[k].event \in EventId
          /\ pending[t].cooldowns[k].event # e
      BY <1>2, <2>2 DEF Inv, Grouped, HasKey
    <3>. QED  BY <1>3, <3>1 DEF Own
  <2>. QED  BY <1>0, <1>3, <2>1, <2>2 DEF SerialInv, WindowsWritten, store
<1>8. CreatedInWindow'
  <2>1. \A f : ~AtHand(t, f)
    BY <1>0 DEF AtHand
  <2>2. AtHand(t, e)'
    BY <1>0, <1>4 DEF AtHand
  <2>. QED  BY <1>0, <1>3, <2>1, <2>2 DEF SerialInv, CreatedInWindow, HasKey
<1>9. UpgradedInWindow'
  <2>1. ASSUME NEW f \in pending[t].upgrades
        PROVE  /\ events[f].type \in {"FIRE", "SMOKE"}
               /\ pending[t].cooldowns[KeyOf(events[f])] # Nil
               /\ pending[t].cooldowns[KeyOf(events[f])].event = f
               /\ <<f, "upgrade">> \in pending[t].audits
    BY <1>0, <2>1 DEF SerialInv, UpgradedInWindow, AtHand
  <2>2. events' = events /\ \A u \in Tx : u = t
    BY <1>0 DEF store
  <2>3. \A f \in pending'[t].upgrades :
          /\ events'[f].type \in {"FIRE", "SMOKE"}
          /\ pending'[t].cooldowns[KeyOf(events'[f])] # Nil
          /\ pending'[t].cooldowns[KeyOf(events'[f])].event = f
          /\ <<f, "upgrade">> \in pending'[t].audits
    BY <1>3, <2>1, <2>2
  <2>. QED  BY <2>2, <2>3 DEF UpgradedInWindow
<1>. QED  BY <1>5, <1>6, <1>7, <1>8, <1>9 DEF SerialInv

(* The incident at hand is created or committed, never both.               *)
LEMMA AtHandIncident ==
  ASSUME Inv, NEW t \in Tx, pc[t] \in {"upsert", "alert"}
  PROVE  LET e == local[t].incident IN
         /\ e \in EventId /\ local[t].todo # << >>
         /\ CurrentKey(t) \in Key /\ Tail(local[t].todo) \in Seq(EventType)
         /\ local[t].created <=> Own(t, e)
         /\ IF local[t].created
            THEN HasKey(pending[t].events[e], CurrentKey(t)) /\ e \notin pending[t].upgrades
            ELSE events[e] # Nil => HasKey(events[e], CurrentKey(t))
<1>1. /\ local[t].incident \in EventId /\ local[t].todo # << >>
      /\ local[t].sig \in Request /\ TypeOK
  BY DEF Inv, TypeInv, Working
<1>2. CurrentKey(t) \in Key /\ Tail(local[t].todo) \in Seq(EventType)
  BY <1>1, CurrentTypes
<1>3. IF local[t].created
      THEN HasKey(pending[t].events[local[t].incident], CurrentKey(t))
      ELSE events[local[t].incident] # Nil =>
             HasKey(events[local[t].incident], CurrentKey(t))
  BY DEF Inv, Steps, StepOK, Known, Fresh
<1>4. Own(t, local[t].incident) => local[t].created
  <2>1. Own(t, local[t].incident) =>
          events[local[t].incident] = Nil /\ local[t].incident \notin removed
    BY <1>1 DEF Inv, Fresh
  <2>2. ~local[t].created => Known(local[t].incident, CurrentKey(t))
    BY DEF Inv, Steps, StepOK
  <2>. QED  BY <2>1, <2>2 DEF Known, HasKey
<1>5. Own(t, local[t].incident) => local[t].incident \notin pending[t].upgrades
  BY <1>1 DEF Inv, Upgrading, Fresh
<1>. QED  BY <1>1, <1>2, <1>3, <1>4, <1>5 DEF HasKey, Own

LEMMA UpsertSerial ==
  ASSUME Inv, SerialInv, OneAtATime, NEW t \in Tx, UpsertCooldown(t)
  PROVE  SerialInv'
<1> DEFINE e == local[t].incident
           key == CurrentKey(t)
           alerted == local[t].created \/ local[t].upgraded
           w == [event |-> e, expires |-> local[t].at + CooldownOf(local[t].rule)]
<1>0. /\ \A u \in Tx : u = t
      /\ pc[t] = "upsert" /\ UNCHANGED <<now, rules, store>>
      /\ local \in [Tx -> LocalState] /\ local[t] \in LocalState
      /\ pending \in [Tx -> Writes] /\ pending[t] \in Writes /\ now \in Nat
      /\ pc \in [Tx -> Step]
  BY Running DEF UpsertCooldown
<1>1. /\ e \in EventId /\ key \in Key /\ local[t].todo # << >>
      /\ local[t].created <=> Own(t, e)
      /\ IF local[t].created
         THEN HasKey(pending[t].events[e], key) /\ e \notin pending[t].upgrades
         ELSE HasKey(events[e], key) /\ e \notin removed
  BY <1>0, AtHandIncident DEF UpsertCooldown, Inv, Fresh
<1>2. /\ pending' = [pending EXCEPT ![t].cooldowns[key] = w]
      /\ pc' = [pc EXCEPT ![t] = IF alerted THEN "alert" ELSE "findRule"]
      /\ local' = IF alerted THEN local ELSE [local EXCEPT ![t].todo = Tail(@)]
  BY DEF UpsertCooldown
<1>3. pending[t].cooldowns[key] = Nil
  <2>1. 1 \in DOMAIN local[t].todo /\ local[t].todo[1] = CurrentType(t)
    <3>1. local[t].todo \in Seq(EventType)
      BY <1>0 DEF LocalState
    <3>. QED  BY <1>1, <3>1 DEF CurrentType
  <2>2. pending[t].cooldowns[CooldownKey(CurrentCamera(t), local[t].todo[1])] = Nil
    BY <1>0, <2>1 DEF SerialInv, KeysLeft
  <2>. QED  BY <2>1, <2>2 DEF CurrentKey
<1>4. w \in Cooldown /\ w # Nil /\ w.event = e
      /\ w.expires = local[t].at + CooldownOf(local[t].rule)
  <2>1. CooldownOf(local[t].rule) \in Nat /\ local[t].at \in Nat
    BY <1>0, ConstantTypes DEF CooldownOf, LocalState, RuleConfig
  <2>. QED  BY <1>1, <2>1, NilIsFresh DEF Cooldown
<1> HIDE DEF key, w, e, alerted
<1>5. /\ pending'[t].events = pending[t].events
      /\ pending'[t].audits = pending[t].audits
      /\ pending'[t].upgrades = pending[t].upgrades
      /\ pending'[t].cooldowns[key] = w
      /\ \A k \in Key : k # key => pending'[t].cooldowns[k] = pending[t].cooldowns[k]
  BY <1>0, <1>1, <1>2 DEF Writes
<1>6. /\ local'[t].sig = local[t].sig /\ local'[t].at = local[t].at
      /\ local'[t].rule = local[t].rule /\ local'[t].incident = e
      /\ IF alerted THEN pc'[t] = "alert" /\ local'[t].todo = local[t].todo
         ELSE pc'[t] = "findRule" /\ local'[t].todo = Tail(local[t].todo)
  <2>1. CASE alerted
    BY <1>0, <1>2, <2>1 DEF e
  <2>2. CASE ~alerted
    <3>1. local'[t] = [local[t] EXCEPT !.todo = Tail(local[t].todo)]
      BY <1>0, <1>2, <2>2
    <3>. QED  BY <1>0, <1>2, <2>2, <3>1 DEF LocalState, e
  <2>. QED  BY <2>1, <2>2
<1>7. RulesChosen' /\ Decisions'
  BY <1>0, <1>6 DEF SerialInv, RulesChosen, Decisions, Decided
<1>8. KeysLeft'
  <2>1. CASE ~alerted
    BY <1>0, <1>1, <1>5, <1>6, <2>1, FewerKeys DEF SerialInv, key
  <2>2. CASE alerted
    <3>1. CurrentCamera(t)' = CurrentCamera(t)
      BY <1>6 DEF CurrentCamera
    <3>2. ASSUME NEW i \in DOMAIN local[t].todo, i > 1
          PROVE  pending'[t].cooldowns[CooldownKey(CurrentCamera(t), local[t].todo[i])] = Nil
      <4>. DEFINE k == CooldownKey(CurrentCamera(t), local[t].todo[i])
      <4>1. k \in Key /\ k # key
        BY <1>0, <1>1, <3>2, LeftTypes, OtherKeys DEF SerialInv, key
      <4>2. pending[t].cooldowns[k] = Nil
        BY <3>2 DEF SerialInv, KeysLeft
      <4>. HIDE DEF k
      <4>3. pending'[t].cooldowns[k] = Nil
        BY <1>5, <4>1, <4>2
      <4>. QED  BY <4>3 DEF k
    <3>3. \A i, j \in DOMAIN local[t].todo :
            Bucket(local[t].todo[i]) = Bucket(local[t].todo[j]) => i = j
      BY DEF SerialInv, KeysLeft
    <3>4. /\ pc'[t] = "alert" /\ local'[t].todo = local[t].todo
          /\ \A u \in Tx : u = t
      BY <1>0, <1>6, <2>2
    <3>. QED  BY <3>1, <3>2, <3>3, <3>4 DEF KeysLeft
  <2>. QED  BY <2>1, <2>2
<1>9. WindowsWritten'
  <2>1. \A k \in Key, n \in Nat : WindowOpen(k, n)' = WindowOpen(k, n)
    BY <1>0 DEF WindowOpen, store
  <2>2. \A f : Own(t, f)' = Own(t, f)
    BY <1>5 DEF Own
  <2>3. /\ local[t].at \in 0..now /\ CooldownOf(local[t].rule) \in CooldownLengths
        /\ IF Own(t, e) THEN ~WindowOpen(key, local[t].at)
           ELSE WindowOpen(key, local[t].at) /\ e = cooldowns[key].event
    <3>1. local[t].rule \in RuleChoice /\ Decided(t) /\ local[t].at \in Nat
      BY <1>0 DEF SerialInv, RulesChosen, Decisions, LocalState
    <3>2. CooldownOf(local[t].rule) \in CooldownLengths
      BY <3>1 DEF CooldownOf, CooldownLengths
    <3>. QED  BY <1>0, <1>1, <3>1, <3>2 DEF Decided, key, e
  <2>4. ASSUME NEW k \in Key, pending'[t].cooldowns[k] # Nil
        PROVE  LET v == pending'[t].cooldowns[k] IN
               \E n \in 0..now, c \in CooldownLengths :
                 /\ v.expires = n + c
                 /\ IF Own(t, v.event) THEN ~WindowOpen(k, n)
                    ELSE WindowOpen(k, n) /\ v.event = cooldowns[k].event
    <3>1. CASE k = key
      BY <1>4, <1>5, <2>3, <3>1
    <3>2. CASE k # key
      BY <1>5, <2>4, <3>2 DEF SerialInv, WindowsWritten
    <3>. QED  BY <3>1, <3>2
  <2>. QED  BY <1>0, <2>1, <2>2, <2>4 DEF WindowsWritten, store
<1>10. CreatedInWindow'
  <2>1. ASSUME NEW f \in EventId, NEW k \in Key, HasKey(pending[t].events[f], k)
        PROVE  pending'[t].cooldowns[k] # Nil /\ pending'[t].cooldowns[k].event = f
    <3>1. CASE AtHand(t, f)
      <4>1. f = e
        BY <3>1 DEF AtHand, e
      <4>2. k = key
        BY <1>1, <2>1, <4>1 DEF HasKey, Own
      <4>. QED  BY <1>4, <1>5, <4>1, <4>2
    <3>2. CASE ~AtHand(t, f)
      <4>1. pending[t].cooldowns[k] # Nil /\ pending[t].cooldowns[k].event = f
        BY <2>1, <3>2 DEF SerialInv, CreatedInWindow
      <4>. QED  BY <1>3, <1>5, <4>1
    <3>. QED  BY <3>1, <3>2
  <2>. QED  BY <1>0, <1>5, <2>1 DEF CreatedInWindow
<1>11. UpgradedInWindow'
  <2>1. ASSUME NEW f \in pending[t].upgrades
        PROVE  /\ events[f].type \in {"FIRE", "SMOKE"}
               /\ pending'[t].cooldowns[KeyOf(events[f])] # Nil
               /\ pending'[t].cooldowns[KeyOf(events[f])].event = f
               /\ \/ pc'[t] = "alert" /\ e = f
                  \/ <<f, "upgrade">> \in pending[t].audits
    <3>0. /\ f \in EventId /\ events[f] \in Incident /\ KeyOf(events[f]) \in Key
          /\ events[f].type \in {"FIRE", "SMOKE"}
      <4>1. f \in EventId /\ events[f] \in Incident
        BY <1>0, <2>1 DEF Inv, Upgrading, TypeInv, TypeOK, Writes
      <4>. QED  BY <2>1, <4>1, KeyType DEF KeyOf, Incident, SerialInv, UpgradedInWindow
    <3>1. CASE AtHand(t, f)
      <4>1. f = e /\ KeyOf(events[f]) = key
        BY <1>1, <2>1, <3>1 DEF AtHand, e, HasKey
      <4>2. local[t].upgraded \/ <<f, "upgrade">> \in pending[t].audits
        BY <1>0, <2>1 DEF SerialInv, UpgradedInWindow
      <4>. QED  BY <1>4, <1>5, <1>6, <3>0, <4>1, <4>2 DEF alerted
    <3>2. CASE ~AtHand(t, f)
      <4>1. /\ pending[t].cooldowns[KeyOf(events[f])] # Nil
            /\ pending[t].cooldowns[KeyOf(events[f])].event = f
            /\ <<f, "upgrade">> \in pending[t].audits
        BY <1>0, <2>1, <3>2 DEF SerialInv, UpgradedInWindow
      <4>. QED  BY <1>3, <1>5, <3>0, <4>1
    <3>. QED  BY <3>1, <3>2
  <2>2. events' = events /\ \A u \in Tx : u = t
    BY <1>0 DEF store
  <2>. QED  BY <1>5, <1>6, <2>1, <2>2 DEF UpgradedInWindow
<1>. QED  BY <1>7, <1>8, <1>9, <1>10, <1>11 DEF SerialInv

LEMMA AlertSerial ==
  ASSUME Inv, SerialInv, OneAtATime, NEW t \in Tx, Alert(t)
  PROVE  SerialInv'
<1> DEFINE e == local[t].incident
           alert == <<e, IF local[t].created THEN "create" ELSE "upgrade">>
<1>0. /\ \A u \in Tx : u = t
      /\ pc[t] = "alert" /\ UNCHANGED <<now, rules, store>>
      /\ local \in [Tx -> LocalState] /\ local[t] \in LocalState
      /\ pending \in [Tx -> Writes] /\ pending[t] \in Writes /\ now \in Nat
      /\ pc'[t] = "findRule"
  BY Running DEF Alert
<1>1. /\ local[t].todo # << >>
      /\ local[t].created => e \notin pending[t].upgrades
  BY <1>0, AtHandIncident
<1>2. /\ pending' = [pending EXCEPT ![t].audits = @ \cup {alert}]
      /\ local' = [local EXCEPT ![t].todo = Tail(@)]
  BY DEF Alert
<1> HIDE DEF alert
<1>3. /\ pending'[t].events = pending[t].events
      /\ pending'[t].cooldowns = pending[t].cooldowns
      /\ pending'[t].upgrades = pending[t].upgrades
      /\ pending'[t].audits = pending[t].audits \cup {alert}
  BY <1>0, <1>2 DEF Writes
<1>4. /\ local'[t].sig = local[t].sig /\ local'[t].at = local[t].at
      /\ local'[t].rule = local[t].rule /\ local'[t].todo = Tail(local[t].todo)
  BY <1>0, <1>2 DEF LocalState
<1>5. RulesChosen' /\ Decisions'
  BY <1>0, <1>4 DEF SerialInv, RulesChosen, Decisions, Decided
<1>6. KeysLeft'
  BY <1>0, <1>1, <1>3, <1>4, FewerKeys DEF SerialInv
<1>7. WindowsWritten'
  <2>1. \A k \in Key, n \in Nat : WindowOpen(k, n)' = WindowOpen(k, n)
    BY <1>0 DEF WindowOpen, store
  <2>2. \A f : Own(t, f)' = Own(t, f)
    BY <1>3 DEF Own
  <2>. QED  BY <1>0, <1>3, <2>1, <2>2 DEF SerialInv, WindowsWritten, store
<1>8. CreatedInWindow'
  BY <1>0, <1>3 DEF SerialInv, CreatedInWindow, AtHand
<1>9. UpgradedInWindow'
  <2>1. ASSUME NEW f \in pending[t].upgrades
        PROVE  /\ events[f].type \in {"FIRE", "SMOKE"}
               /\ pending[t].cooldowns[KeyOf(events[f])] # Nil
               /\ pending[t].cooldowns[KeyOf(events[f])].event = f
               /\ <<f, "upgrade">> \in pending'[t].audits
    <3>1. /\ events[f].type \in {"FIRE", "SMOKE"}
          /\ pending[t].cooldowns[KeyOf(events[f])] # Nil
          /\ pending[t].cooldowns[KeyOf(events[f])].event = f
          /\ e = f \/ <<f, "upgrade">> \in pending[t].audits
      BY <1>0, <2>1 DEF SerialInv, UpgradedInWindow, AtHand
    <3>2. e = f => alert = <<f, "upgrade">>
      BY <1>1, <2>1 DEF alert
    <3>. QED  BY <1>3, <3>1, <3>2
  <2>2. events' = events /\ \A u \in Tx : u = t
    BY <1>0 DEF store
  <2>3. ASSUME NEW u \in Tx, NEW f \in pending'[u].upgrades
        PROVE  /\ events'[f].type \in {"FIRE", "SMOKE"}
               /\ pending'[u].cooldowns[KeyOf(events'[f])] # Nil
               /\ pending'[u].cooldowns[KeyOf(events'[f])].event = f
               /\ <<f, "upgrade">> \in pending'[u].audits
    <3>1. u = t /\ f \in pending[t].upgrades
      BY <1>3, <2>2
    <3>. QED  BY <1>3, <2>1, <2>2, <3>1
  <2>. QED  BY <2>3 DEF UpgradedInWindow
<1>. QED  BY <1>5, <1>6, <1>7, <1>8, <1>9 DEF SerialInv

LEMMA SerialInvInit == Init => SerialInv
<1>. SUFFICES ASSUME Init PROVE SerialInv
  OBVIOUS
<1>1. RulesChosen
  BY ConstantTypes DEF Init, RulesChosen, AtRest
<1>2. KeysLeft
  <2>1. AtRest.todo = << >> /\ DOMAIN << >> = {}
    BY DEF AtRest
  <2>. QED  BY <2>1 DEF Init, KeysLeft
<1>3. Decisions
  BY DEF Init, Decisions, Decided, AtRest
<1>4. WindowsWritten /\ CreatedInWindow /\ UpgradedInWindow
  BY EmptyWrites DEF Init, WindowsWritten, CreatedInWindow, UpgradedInWindow, HasKey
<1>. QED  BY <1>1, <1>2, <1>3, <1>4 DEF SerialInv

(* A camera is deleted: what was decided for it is void, what was written  *)
(* for others holds.                                                       *)
LEMMA RemovalSerial ==
  ASSUME Inv, SerialInv, NEW gone \in SUBSET Camera, RemoveCameras(gone)
  PROVE  SerialInv'
<1> DEFINE lost == {e \in EventId : events[e] # Nil /\ events[e].camera \in gone}
<1>0. /\ UNCHANGED <<now, pc, local, pending>> /\ removed' = removed \cup lost
      /\ \A e \in EventId : events'[e] = IF e \in lost THEN Nil ELSE events[e]
      /\ cooldowns' = CooldownsWithout(lost)
      /\ \A p \in Camera \X EventType : rules'[p] = Nil \/ rules'[p] = rules[p]
  BY DEF RemoveCameras
<1>1. /\ \A t \in Tx : \A e \in pending[t].upgrades :
           e \in EventId /\ events'[e] = events[e]
      /\ \A t \in Tx, k \in Key : pending[t].cooldowns[k] # Nil =>
           cooldowns'[k] = cooldowns[k]
  BY RemovalKeeps
<1>2. /\ \A k \in Key : cooldowns'[k] = cooldowns[k]
           \/ /\ cooldowns[k] # Nil /\ cooldowns'[k] # Nil /\ cooldowns'[k].event = Nil
              /\ cooldowns[k].event \in lost
      /\ \A k \in Key : \A n : WindowOpen(k, n)' => WindowOpen(k, n)
  <2>1. ASSUME NEW k \in Key
        PROVE  \/ cooldowns'[k] = cooldowns[k]
               \/ /\ cooldowns[k] # Nil /\ cooldowns'[k] # Nil /\ cooldowns'[k].event = Nil
                  /\ cooldowns[k].event \in lost
    <3>1. cooldowns[k] # Nil => cooldowns[k] \in Cooldown
      BY DEF Inv, TypeInv, TypeOK
    <3>2. cooldowns[k] \in Cooldown =>
            LET row == [cooldowns[k] EXCEPT !.event = Nil]
            IN  row \in Cooldown /\ row.event = Nil /\ row # Nil
      BY NilIsFresh DEF Cooldown
    <3>. QED  BY <1>0, <3>1, <3>2 DEF CooldownsWithout
  <2>. QED  BY <2>1 DEF WindowOpen
<1> HIDE DEF lost
<1>3. RulesChosen'
  <2>1. rules' = [p \in Camera \X EventType |-> IF p[1] \in gone THEN Nil ELSE rules[p]]
    BY DEF RemoveCameras
  <2>. QED  BY <1>0, <2>1, ConstantTypes DEF SerialInv, RulesChosen
<1>4. KeysLeft'
  BY <1>0 DEF SerialInv, KeysLeft, CurrentCamera
<1>5. Decisions'
  <2>. SUFFICES ASSUME NEW t \in Tx PROVE Decided(t)'
    BY DEF Decisions
  <2>. DEFINE k == CurrentKey(t)
              e == local[t].incident
  <2>1. Decided(t) /\ CurrentKey(t)' = k
    BY <1>0 DEF SerialInv, Decisions, CurrentKey, CurrentCamera, CurrentType
  <2>2. pc[t] \notin {"idle", "findRule"} => k \in Key
    BY CurrentTypes DEF Inv, TypeInv, Working
  <2>3. pc[t] \in {"readIncident", "fold", "upsert"} => e \in EventId
    BY DEF Inv, TypeInv, Working
  <2>. HIDE DEF k
  <2>5. ASSUME e \in EventId, e \in removed \/ events[e].type \in {"FIRE", "SMOKE"}
        PROVE  e \in removed' \/ events'[e].type \in {"FIRE", "SMOKE"}
    BY <1>0, <2>5
  <2>6. e \in removed => e \in removed'
    BY <1>0
  <2>7. ASSUME k \in Key
        PROVE  /\ ~WindowOpen(k, local[t].at) => ~WindowOpen(CurrentKey(t), local[t].at)'
               /\ WindowOpen(k, local[t].at) /\ e = cooldowns[k].event =>
                    \/ e \in removed'
                    \/ /\ WindowOpen(CurrentKey(t), local[t].at)'
                       /\ e = cooldowns'[CurrentKey(t)'].event
    <3>1. WindowOpen(CurrentKey(t), local[t].at)' <=>
            /\ cooldowns'[k] # Nil /\ cooldowns'[k].expires > local[t].at
            /\ cooldowns'[k].event # Nil
      BY <1>0, <2>1 DEF WindowOpen
    <3>2. \A n : WindowOpen(k, n) <=> /\ cooldowns[k] # Nil /\ cooldowns[k].expires > n
                                     /\ cooldowns[k].event # Nil
      BY DEF WindowOpen
    <3>3. \/ cooldowns'[k] = cooldowns[k]
          \/ /\ cooldowns'[k].event = Nil
             /\ cooldowns[k].event \in lost
      BY <1>2, <2>7
    <3>. QED  BY <1>0, <2>1, <3>1, <3>2, <3>3
  <2>8. /\ pc' = pc /\ local' = local /\ now' = now
        /\ pc[t] = "create" => k \in Key
        /\ pc[t] \in {"readIncident", "fold", "upsert"} => k \in Key /\ e \in EventId
    BY <1>0, <2>2, <2>3
  <2>. QED  BY <2>1, <2>5, <2>6, <2>7, <2>8 DEF Decided, k
<1>6. WindowsWritten'
  BY <1>0, <1>1 DEF SerialInv, WindowsWritten, WindowOpen, Own
<1>7. CreatedInWindow'
  BY <1>0 DEF SerialInv, CreatedInWindow, AtHand
<1>8. UpgradedInWindow'
  <2>. SUFFICES ASSUME NEW t \in Tx, NEW e \in pending[t].upgrades
                PROVE  /\ events'[e].type \in {"FIRE", "SMOKE"}
                       /\ \/ AtHand(t, e)
                          \/ /\ pending[t].cooldowns[KeyOf(events'[e])] # Nil
                             /\ pending[t].cooldowns[KeyOf(events'[e])].event = e
                       /\ \/ AtHand(t, e) /\ local[t].upgraded
                          \/ pc[t] = "alert" /\ local[t].incident = e
                          \/ <<e, "upgrade">> \in pending[t].audits
    <3>1. pending' = pending /\ local' = local /\ pc' = pc
          /\ \A t, e : AtHand(t, e)' <=> AtHand(t, e)
      BY <1>0 DEF AtHand
    <3>. QED  BY ZenonT(30), <3>1 DEF UpgradedInWindow
  <2>1. events'[e] = events[e]
    BY <1>1
  <2>. QED  BY <2>1 DEF SerialInv, UpgradedInWindow
<1>. QED  BY <1>3, <1>4, <1>5, <1>6, <1>7, <1>8 DEF SerialInv

LEMMA SerialInvStep ==
  ASSUME Inv, SerialInv, OneAtATime, [Next]_vars
  PROVE  SerialInv'
<1>2. ASSUME UNCHANGED <<store, pc, local, pending>>, now' \in {now, now + 1},
             rules' \in [Camera \X EventType -> RuleChoice]
      PROVE  SerialInv'
  <2>1. /\ now \in Nat /\ 0..now \subseteq 0..now' /\ now <= now'
        /\ \A t \in Tx : local[t].at \in Nat
    BY <1>2, ConstantTypes DEF Inv, TypeInv, TypeOK, LocalState
  <2>2. RulesChosen' /\ KeysLeft'
    BY <1>2 DEF SerialInv, RulesChosen, KeysLeft, CurrentCamera
  <2>3. /\ \A k, n : WindowOpen(k, n)' = WindowOpen(k, n)
        /\ \A t, e : Own(t, e)' = Own(t, e)
    BY <1>2 DEF WindowOpen, Own, store
  <2>4. Decisions'
    <3>. SUFFICES ASSUME NEW t \in Tx PROVE Decided(t)'
      BY DEF Decisions
    <3>1. Decided(t)
      BY DEF SerialInv, Decisions
    <3>2. /\ WindowOpen(CurrentKey(t), local[t].at)' = WindowOpen(CurrentKey(t), local[t].at)
          /\ CurrentKey(t)' = CurrentKey(t)
      BY <1>2 DEF WindowOpen, CurrentKey, CurrentCamera, CurrentType, store
    <3>. QED  BY <1>2, <2>1, <3>1, <3>2 DEF Decided, store
  <2>5. WindowsWritten'
    BY <1>2, <2>1, <2>3 DEF SerialInv, WindowsWritten, store
  <2>6. CreatedInWindow' /\ UpgradedInWindow'
    BY <1>2 DEF SerialInv, CreatedInWindow, UpgradedInWindow, AtHand, store
  <2>. QED  BY <2>2, <2>4, <2>5, <2>6 DEF SerialInv
<1>0. CASE UNCHANGED vars
  BY <1>0, <1>2 DEF vars, SerialInv, RulesChosen
<1>3. CASE Tick
  BY <1>2, <1>3 DEF Tick, SerialInv, RulesChosen
<1>1. ASSUME NEW t \in Tx, TxNext(t) PROVE SerialInv'
  <2>1. CASE RejectDisabled(t) \/ Commit(t) \/ Rollback(t)
    BY <2>1, EndedSerial DEF RejectDisabled, Commit, Rollback
  <2>2. ASSUME NEW r \in Request, Receive(t, r) PROVE SerialInv'
    BY <2>2, ReceiveSerial
  <2>8. CASE \E r \in Request : Refuse(t, r)
    BY <1>0, <2>8 DEF Refuse
  <2>3. CASE SkipDetection(t) \/ FindRule(t) \/ ReadCooldown(t) \/ ReadIncident(t)
    BY <2>3, ReadSerial
  <2>4. CASE FoldDetection(t)
    BY <2>4, FoldSerial
  <2>5. CASE CreateIncident(t)
    BY <2>5, CreateSerial
  <2>6. CASE UpsertCooldown(t)
    BY <2>6, UpsertSerial
  <2>7. CASE Alert(t)
    BY <2>7, AlertSerial
  <2>. QED  BY <1>1, <2>1, <2>2, <2>3, <2>4, <2>5, <2>6, <2>7, <2>8 DEF TxNext
<1>4. ASSUME NEW c \in Camera, NEW type \in EventType, NEW rule \in RuleChoice,
             ConfigureRule(c, type, rule)
      PROVE  SerialInv'
  BY <1>2, <1>4 DEF ConfigureRule, SerialInv, RulesChosen
<1>5. ASSUME NEW gone \in SUBSET Camera, RemoveCameras(gone) PROVE SerialInv'
  BY <1>5, RemovalSerial
<1>. QED  BY <1>0, <1>1, <1>3, <1>4, <1>5 DEF Next

-----------------------------------------------------------------------------
(* What a commit shows of the incidents and alerts of one key: nothing but *)
(* those of the window it writes there.                                    *)
LEMMA CommitOutsideWindow ==
  ASSUME Inv, SerialInv, OneAtATime, NEW t \in Tx, Commit(t), NEW k \in Key,
         NEW e \in EventId,
         pending[t].cooldowns[k] # Nil => pending[t].cooldowns[k].event # e
  PROVE  /\ OfKey(k, e)' <=> OfKey(k, e)
         /\ OfKey(k, e) => \A kind \in Kind :
              auditLog'[<<e, kind>>] = auditLog[<<e, kind>>]
<1>0. /\ pc[t] = "findRule" /\ auditLog' = AuditsAfter(pending[t])
      /\ AlertsOK(t) /\ \A f : ~AtHand(t, f)
  BY DEF Commit, Inv, Alerting, AtHand
<1>1. ~HasKey(pending[t].events[e], k)
  BY <1>0 DEF SerialInv, CreatedInWindow
<1>2. e \in pending[t].upgrades => KeyOf(events[e]) # k
  BY ZenonT(30), <1>0 DEF SerialInv, UpgradedInWindow
<1>3. OfKey(k, e)' <=> OfKey(k, e)
  <2>1. CASE Own(t, e)
    BY <1>1, <2>1, CommittedRows DEF OfKey, Own, HasKey, Inv, Fresh
  <2>2. CASE ~Own(t, e) /\ e \in pending[t].upgrades
    BY <2>2, CommittedRows DEF OfKey, IncidentsKept, Stays, Inv, Upgrading
  <2>3. CASE ~Own(t, e) /\ e \notin pending[t].upgrades
    BY <2>3, CommittedRows DEF OfKey
  <2>. QED  BY <2>1, <2>2, <2>3
<1>4. ASSUME OfKey(k, e), NEW kind \in Kind
      PROVE  auditLog'[<<e, kind>>] = auditLog[<<e, kind>>]
  <2>1. ~Own(t, e) /\ e \notin pending[t].upgrades
    BY <1>2, <1>4 DEF OfKey, Inv, Fresh
  <2>2. <<e, kind>> \notin pending[t].audits
    BY <1>0, <2>1 DEF AlertsOK, Kind
  <2>. QED  BY <1>0, <2>2 DEF AuditsAfter
<1>. QED  BY <1>3, <1>4

LEMMA CommitKeepsPromise ==
  ASSUME Inv, SerialInv, OneAtATime, NEW t \in Tx, Commit(t), NEW k \in Key
  PROVE  [Promise(k)!Next]_(Promise(k)!vars)
<1> DEFINE I == {e \in EventId : OfKey(k, e)}
           A == [p \in EventId \X Kind |-> IF OfKey(k, p[1]) THEN auditLog[p] ELSE 0]
           w == pending[t].cooldowns[k]
<1>0. /\ pc[t] = "findRule" /\ now' = now /\ now \in Nat
      /\ cooldowns' = CooldownsAfter(pending[t]) /\ auditLog' = AuditsAfter(pending[t])
      /\ AlertsOK(t) /\ \A f : ~AtHand(t, f)
      /\ pending[t] \in Writes /\ auditLog \in [EventId \X Kind -> Nat]
  BY Running DEF Commit, Inv, Alerting, AtHand, TypeInv, TypeOK
<1>1. cooldowns'[k] = IF w # Nil THEN w ELSE cooldowns[k]
  BY <1>0 DEF CooldownsAfter
<1>2. CASE w = Nil
  <2>1. I' = I
    BY <1>2, CommitOutsideWindow
  <2>2. A' = A
    BY <1>2, CommitOutsideWindow
  <2>. QED  BY <1>0, <1>1, <1>2, <2>1, <2>2 DEF Promise!vars
<1>3. CASE w # Nil
  <2>0. PICK e \in EventId : e = w.event
    BY <1>3 DEF Inv, Grouped
  <2>1. /\ e \in EventId /\ cooldowns'[k] = w /\ w = [event |-> e, expires |-> w.expires]
        /\ "create" \in Kind /\ "upgrade" \in Kind
    BY <1>0, <1>1, <1>3, <2>0 DEF Writes, Cooldown, Kind
  <2>2. PICK n \in 0..now, c \in CooldownLengths :
          /\ w.expires = n + c
          /\ IF Own(t, e) THEN ~WindowOpen(k, n)
             ELSE WindowOpen(k, n) /\ e = cooldowns[k].event
    BY <1>3, <2>0 DEF SerialInv, WindowsWritten
  <2>3. HasKey(events[e], k) \/ HasKey(pending[t].events[e], k)
    BY <1>3, <2>0 DEF Inv, Grouped
  <2> HIDE DEF w
  <2>4. \A f \in EventId : f # e =>
          /\ OfKey(k, f)' <=> OfKey(k, f)
          /\ OfKey(k, f) => \A kind \in Kind :
               auditLog'[<<f, kind>>] = auditLog[<<f, kind>>]
    BY <2>0, CommitOutsideWindow DEF w
  <2>5. \A p \in EventId \X Kind : p[1] # e => A'[p] = A[p]
    BY <2>4
  <2>6. /\ \A kind \in Kind : A'[<<e, kind>>] = IF OfKey(k, e)' THEN auditLog'[<<e, kind>>] ELSE 0
        /\ \A kind \in Kind : A[<<e, kind>>] = IF OfKey(k, e) THEN auditLog[<<e, kind>>] ELSE 0
    BY <2>1 DEF OfKey
  <2>7. \A kind \in Kind :
          auditLog'[<<e, kind>>] = IF <<e, kind>> \in pending[t].audits
                                   THEN auditLog[<<e, kind>>] + 1 ELSE auditLog[<<e, kind>>]
    BY <1>0, <2>1 DEF AuditsAfter
  <2>8. Promise(k)!Restart(e, n)
    <3>1. cooldowns'[k] = [event |-> e, expires |-> n + c]
      BY <2>1, <2>2
    <3>. QED  BY <3>1 DEF Promise!Restart
  <2>9. Promise(k)!Ended(n) <=> ~WindowOpen(k, n)
    <3>1. cooldowns[k] # Nil => cooldowns[k].expires \in Nat
      BY DEF Inv, TypeInv, TypeOK, Cooldown
    <3>. QED  BY <2>2, <3>1 DEF Promise!Ended, WindowOpen
  <2>10. CASE Own(t, e)
    <3>1. /\ events[e] = Nil /\ ~OfKey(k, e) /\ OfKey(k, e)'
          /\ e \notin pending[t].upgrades
      <4>1. events[e] = Nil /\ e \notin pending[t].upgrades
        BY <2>1, <2>10 DEF Inv, Fresh, Upgrading
      <4>2. events'[e] = pending[t].events[e]
        BY <2>1, <2>10, CommittedRows
      <4>3. HasKey(pending[t].events[e], k)
        BY <2>3, <4>1 DEF HasKey
      <4>. QED  BY <4>1, <4>2, <4>3 DEF OfKey, HasKey
    <3>2. /\ <<e, "create">> \in pending[t].audits /\ <<e, "upgrade">> \notin pending[t].audits
          /\ auditLog[<<e, "create">>] = 0 /\ auditLog[<<e, "upgrade">>] = 0
      BY <1>0, <2>1, <2>10, <3>1 DEF AlertsOK, Inv, AlertedExactlyOnce, Fresh
    <3>3. e \notin I /\ I' = I \cup {e}
      BY <2>1, <2>4, <3>1 DEF OfKey
    <3>4. A' = [A EXCEPT ![<<e, "create">>] = A[<<e, "create">>] + 1]
      <4>1. A'[<<e, "create">>] = A[<<e, "create">>] + 1 /\ A'[<<e, "upgrade">>] = A[<<e, "upgrade">>]
        BY <2>1, <2>6, <2>7, <3>1, <3>2
      <4>2. \A p \in EventId \X Kind :
              p[1] = e => p = <<e, "create">> \/ p = <<e, "upgrade">>
        BY DEF Kind
      <4> HIDE DEF A
      <4>3. \A p \in EventId \X Kind :
              A'[p] = IF p = <<e, "create">> THEN A[<<e, "create">>] + 1 ELSE A[p]
        BY <2>5, <4>1, <4>2
      <4>. QED  BY <4>3 DEF A
    <3>5. Promise(k)!NewIncident(e, n)
      BY <1>0, <2>2, <2>8, <2>9, <2>10, <3>3, <3>4 DEF Promise!NewIncident, Kind
    <3>. QED  BY <2>1, <2>2, <3>5 DEF Promise!Next
  <2>11. CASE ~Own(t, e)
    <3>1. /\ OfKey(k, e) /\ OfKey(k, e)' /\ WindowOpen(k, n) /\ e = cooldowns[k].event
          /\ <<e, "create">> \notin pending[t].audits
      <4>1. OfKey(k, e)
        BY <2>3, <2>11 DEF Own, HasKey, OfKey
      <4>2. OfKey(k, e)'
        <5>1. IncidentsKept
          BY CommittedRows
        <5>. QED  BY <2>1, <4>1, <5>1 DEF OfKey, IncidentsKept, Stays
      <4>. QED  BY <1>0, <2>1, <2>2, <2>11, <4>1, <4>2 DEF AlertsOK
    <3>2. I' = I
      BY <2>1, <2>4, <3>1 DEF OfKey
    <3>3. A'[<<e, "create">>] = A[<<e, "create">>]
      BY <2>1, <2>6, <2>7, <3>1
    <3>4. \A p \in EventId \X Kind :
            p[1] = e => p = <<e, "create">> \/ p = <<e, "upgrade">>
      BY DEF Kind
    <3>5. CASE e \in pending[t].upgrades
      <4>1. <<e, "upgrade">> \in pending[t].audits /\ auditLog[<<e, "upgrade">>] = 0
        <5>1. <<e, "upgrade">> \in pending[t].audits /\ events[e].type \in {"FIRE", "SMOKE"}
          BY <1>0, <3>5 DEF SerialInv, UpgradedInWindow
        <5>2. auditLog[<<e, "upgrade">>] \in Nat
          BY <1>0, <2>1
        <5>. QED  BY <2>1, <3>1, <5>1, <5>2 DEF Inv, UpgradedIsCritical, OfKey
      <4>2. A[<<e, "upgrade">>] = 0 /\ A'[<<e, "upgrade">>] = 1
        BY <2>1, <2>6, <2>7, <3>1, <4>1
      <4>3. A' = [A EXCEPT ![<<e, "upgrade">>] = 1]
        <5> HIDE DEF A
        <5>1. \A p \in EventId \X Kind : A'[p] = IF p = <<e, "upgrade">> THEN 1 ELSE A[p]
          BY <2>5, <3>3, <3>4, <4>2
        <5>. QED  BY <5>1 DEF A
      <4>4. Promise(k)!CorrelatedIn(n)
        BY <1>0, <2>2, <2>8, <2>9, <3>1, <3>2, <4>2, <4>3 DEF Promise!CorrelatedIn, Kind
      <4>. QED  BY <2>2, <4>4 DEF Promise!Next
    <3>6. CASE e \notin pending[t].upgrades
      <4>1. <<e, "upgrade">> \notin pending[t].audits
        BY <1>0, <2>1, <3>6 DEF AlertsOK
      <4>2. A'[<<e, "upgrade">>] = A[<<e, "upgrade">>]
        BY <2>1, <2>6, <2>7, <3>1, <4>1
      <4>3. A' = A
        <5> HIDE DEF A
        <5>1. \A p \in EventId \X Kind : A'[p] = A[p]
          BY <2>5, <3>3, <3>4, <4>2
        <5>. QED  BY <5>1 DEF A
      <4>4. Promise(k)!FoldedIn(n)
        BY <1>0, <2>2, <2>8, <2>9, <3>1, <3>2, <4>3 DEF Promise!FoldedIn
      <4>. QED  BY <2>2, <4>4 DEF Promise!Next
    <3>. QED  BY <3>5, <3>6
  <2>. QED  BY <2>10, <2>11
<1>. QED  BY <1>2, <1>3

(* The deletion of cameras is seen by the keys of those cameras only.      *)
LEMMA RemovalKeepsPromise ==
  ASSUME Inv, NEW gone \in SUBSET Camera, RemoveCameras(gone), NEW k \in Key
  PROVE  [Promise(k)!Next]_(Promise(k)!vars)
<1> DEFINE lost == {e \in EventId : events[e] # Nil /\ events[e].camera \in gone}
           A == [p \in EventId \X Kind |-> IF OfKey(k, p[1]) THEN auditLog[p] ELSE 0]
<1>0. /\ \A e \in EventId : events'[e] = IF e \in lost THEN Nil ELSE events[e]
      /\ cooldowns' = CooldownsWithout(lost) /\ UNCHANGED <<now, auditLog>>
      /\ gone \subseteq cameras
  BY DEF RemoveCameras
<1>1. \A e \in EventId : OfKey(k, e) => (e \in lost <=> k[1] \in gone)
  BY DEF OfKey, KeyOf, CooldownKey
<1>2. ASSUME cooldowns[k] # Nil
      PROVE  /\ cooldowns[k] \in Cooldown
             /\ cooldowns[k].event = Nil => k[1] \notin gone
             /\ cooldowns[k].event # Nil =>
                  (cooldowns[k].event \in lost <=> k[1] \in gone)
  <2>1. cooldowns[k] \in Cooldown
    BY <1>2 DEF Inv, TypeInv, TypeOK
  <2>2. cooldowns[k].event = Nil => k[1] \notin gone
    BY <1>0, <1>2 DEF Inv, Grouped
  <2>3. cooldowns[k].event # Nil =>
          cooldowns[k].event \in EventId /\ OfKey(k, cooldowns[k].event)
    BY <1>2, <2>1 DEF Inv, Grouped, HasKey, OfKey, Cooldown
  <2>. QED  BY <1>1, <2>1, <2>2, <2>3
<1>3. Nil \notin lost
  BY NilIsFresh
<1> HIDE DEF lost
<1>4. CASE k[1] \in gone
  <2>1. \A e \in EventId : ~OfKey(k, e)'
    BY <1>0, <1>1, <1>4 DEF OfKey
  <2>2. cooldowns'[k] = IF cooldowns[k] = Nil THEN Nil
                        ELSE [cooldowns[k] EXCEPT !.event = Nil]
    BY <1>0, <1>2, <1>4 DEF CooldownsWithout
  <2>3. Promise(k)!Remove
    <3>1. {e \in EventId : OfKey(k, e)}' = {}
      BY <2>1
    <3>2. A' = [p \in DOMAIN A |-> 0]
      <4>1. \A p \in EventId \X Kind : ~OfKey(k, p[1])'
        BY <2>1
      <4>. QED  BY <4>1
    <3>. QED  BY <1>0, <2>2, <3>1, <3>2 DEF Promise!Remove
  <2>. QED  BY <2>3 DEF Promise!Next
<1>5. CASE k[1] \notin gone
  <2>1. \A e \in EventId : OfKey(k, e)' <=> OfKey(k, e)
    BY <1>0, <1>1, <1>5 DEF OfKey, lost, KeyOf, CooldownKey
  <2>2. cooldowns'[k] = cooldowns[k]
    BY <1>0, <1>2, <1>3, <1>5 DEF CooldownsWithout
  <2>3. {e \in EventId : OfKey(k, e)}' = {e \in EventId : OfKey(k, e)} /\ A' = A
    BY <1>0, <2>1
  <2>. QED  BY <1>0, <2>2, <2>3 DEF Promise!vars
<1>. QED  BY <1>4, <1>5

(* As long as the requests of a tenant run one after the other, the engine *)
(* keeps the promise of README.md:246-255 for every camera and category:   *)
(* detections within a window are one incident with one alert, a           *)
(* correlated fire is alerted once more, the next incident follows the end *)
(* of the window.  Two at once break it: see MC_engine_duplicate.          *)
THEOREM PromiseKept ==
  ASSUME OneAtATime
  PROVE  Spec => KeepsPromise
<1>1. Init => \A k \in Key : Promise(k)!Init
  BY DEF Init, Promise!Init, OfKey, Kind
<1>2. ASSUME Inv, SerialInv, [Next]_vars, NEW k \in Key
      PROVE  [Promise(k)!Next]_(Promise(k)!vars)
  <2>1. ASSUME NEW t \in Tx, Commit(t) PROVE [Promise(k)!Next]_(Promise(k)!vars)
    BY <1>2, <2>1, CommitKeepsPromise
  <2>2. ASSUME UNCHANGED <<now, store>> PROVE [Promise(k)!Next]_(Promise(k)!vars)
    BY <2>2 DEF store, Promise!vars, OfKey
  <2>3. CASE Tick
    <3>1. UNCHANGED store /\ now' = now + 1
      BY <2>3 DEF Tick
    <3>2. Promise(k)!Tick
      BY <3>1 DEF store, Promise!Tick, OfKey
    <3>. QED  BY <3>2 DEF Promise!Next
  <2>4. ASSUME NEW gone \in SUBSET Camera, RemoveCameras(gone)
        PROVE  [Promise(k)!Next]_(Promise(k)!vars)
    BY <1>2, <2>4, RemovalKeepsPromise
  <2>5. \/ UNCHANGED <<now, store>> \/ Tick \/ \E t \in Tx : Commit(t)
        \/ \E gone \in SUBSET Camera : RemoveCameras(gone)
    BY ZenonT(30), <1>2 DEF Next, TxNext, vars, Receive, Refuse, RejectDisabled,
       SkipDetection, FindRule, ReadCooldown, ReadIncident, FoldDetection,
       CreateIncident, UpsertCooldown, Alert, Rollback, ConfigureRule
  <2>. QED  BY <2>1, <2>2, <2>3, <2>4, <2>5
<1>3. Inv /\ SerialInv /\ [Next]_vars =>
        \A k \in Key : [Promise(k)!Next]_(Promise(k)!vars)
  BY <1>2
<1>4. Inv /\ SerialInv /\ [Next]_vars => SerialInv'
  BY SerialInvStep
<1>. QED
  BY <1>1, <1>3, <1>4, SerialInvInit, Invariance, PTL DEF Spec, KeepsPromise
=============================================================================
