----------------------------- MODULE CameraFeed -----------------------------
(***************************************************************************)
(* A camera's pipeline in the media worker together with the API's record  *)
(* of its health: CameraPipeline sends reports (worker.ts, reportHealth),  *)
(* POST /internal/camera-health hands each to CameraHealth                 *)
(* (internal.routes.ts).  The reports travel as independent requests: one  *)
(* may overtake another, several may be processed at once, each may be     *)
(* lost, and none is retried.  Users test the connection and delete the    *)
(* camera meanwhile (cameras.routes.ts).                                   *)
(***************************************************************************)
EXTENDS CameraPipeline, CameraHealth

CONSTANT
  MaxTests     \* bound on the connection tests that fail

(* What a connection test makes of the probe's result. *)
TestStatus == {"ONLINE", "OFFLINE", "AUTH_FAILED", "INVALID_STREAM"}

(* What the worker and the tests report is a status that the API takes.    *)
ASSUME ReportAssumption == WorkerStatus \cup TestStatus \subseteq Report /\ MaxTests \in Nat

VARIABLES
  failedTests, \* history: connection tests that did not reach the camera
  reached      \* history: a connection test reached it

testVars == <<failedTests, reached>>
vars == <<pipelineVars, healthVars, testVars>>

Init == PipelineInit /\ HealthInit /\ failedTests = 0 /\ reached = FALSE

(* [mutant] a report the API did not take is sent again and arrives twice. *)
DeliverTwice(t, status) ==
  /\ outbox[status] > 0 /\ UNCHANGED <<pipelineVars, testVars>>
  /\ Begin(t, status)

(* A report reaches the API and is being processed. *)
Deliver(t, status) ==
  /\ ReportSettles(status)
  /\ Begin(t, status)
  /\ UNCHANGED testVars

(* reportHealth swallows the error of a request that fails. *)
Lose(status) == ReportSettles(status) /\ UNCHANGED <<healthVars, testVars>>

(* POST /cameras/:id/test-connection and /test: the API probes the camera  *)
(* itself and reports what it found, whatever the pipeline does.           *)
TestConnection(t, status) ==
  /\ status = "ONLINE" \/ failedTests < MaxTests
  /\ Begin(t, status)
  /\ failedTests' = IF status = "ONLINE" THEN failedTests ELSE failedTests + 1
  /\ reached' = (reached \/ status = "ONLINE")
  /\ UNCHANGED pipelineVars

(* DELETE /cameras/:id; the pipeline runs on until it is stopped. *)
Delete == DeleteCamera /\ UNCHANGED <<pipelineVars, testVars>>

WorkerStep == Step /\ UNCHANGED <<healthVars, testVars>>

ApiStep ==
  /\ \E t \in Tx : Process(t)
  /\ UNCHANGED <<pipelineVars, testVars>>

Next ==
  \/ WorkerStep \/ ApiStep \/ Delete
  \/ \E status \in WorkerStatus :
       Lose(status) \/ \E t \in Tx : Deliver(t, status)
  \/ \E t \in Tx, status \in TestStatus : TestConnection(t, status)

Spec == Init /\ [][Next]_vars

-----------------------------------------------------------------------------
Occurrences(event) == {i \in DOMAIN log : log[i] = event}

(* Streams that ended by themselves, each reported OFFLINE once. *)
Outages == {i \in Source : source[i].retryDelay # 0}

Delivered == {i \in Source : source[i].delivered}

(* The history never shows more outages than streams that ended and        *)
(* connection tests that failed, however the reports are lost, reordered   *)
(* or processed at once (worker.ts:102-106, connection.service.ts:56-76,   *)
(* health.service.ts:105-119).                                             *)
OutagesNotInvented ==
  Cardinality(Occurrences("CAMERA_OFFLINE")) <= Cardinality(Outages) + failedTests

(* A recovery is recorded only after an outage was, and only of a camera   *)
(* that delivered a frame or answered a connection test (worker.ts:131-134,*)
(* connection.service.ts:56-57, health.service.ts:112).                    *)
RecoveryIsReal ==
  Occurrences("CAMERA_RECOVERED") # {} =>
    (Delivered # {} \/ reached) /\ Occurrences("CAMERA_OFFLINE") # {}

(* health.service.ts:105-112, worker.ts:131-134: a camera whose outage is  *)
(* on record and that is shown online again has the recovery on record.    *)
RecoveryRecorded ==
  (row # Nil /\ row.status = "ONLINE" /\ log # << >>) =>
    log[Len(log)] = "CAMERA_RECOVERED"
=============================================================================
