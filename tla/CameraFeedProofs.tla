-------------------------- MODULE CameraFeedProofs --------------------------
(***************************************************************************)
(* Theorems about CameraFeed and the two modules it is composed of, for    *)
(* any number of reconnects, any delays, and any number of concurrent      *)
(* reports of any statuses.                                                *)
(***************************************************************************)
EXTENDS CameraFeed, FiniteSetTheorems, TLAPS

(***************************************************************************)
(* CameraPipeline                                                          *)
(***************************************************************************)

(* this.source is the latest FrameSource until the pipeline is stopped,    *)
(* and only the latest can have a process.                                 *)
LatestOnly ==
  /\ current = IF stopped THEN 0 ELSE created
  /\ \A i \in Source : source[i].process = "running" => i = created

(* The interval timers that are left are those of the earlier starts and,  *)
(* until it is stopped, the latest.                                        *)
TimersLeft ==
  /\ stopped => created > 0
  /\ statsTimers = IF stopped THEN created - 1 ELSE created

(* A reconnect is pending only after an exit, and never after a stop. *)
WaitsAlone ==
  timer # 0 => ~stopped /\ created > 0
               /\ \A i \in Source : source[i].process # "running"

(* A process is listened to until it is stopped with its pipeline. *)
Attended ==
  \A i \in Source : source[i].process = "running" =>
    IF stopped THEN source[i].stopped
    ELSE source[i].listening /\ ~source[i].stopped

PipelineInv == PipelineTypeOK /\ LatestOnly /\ TimersLeft /\ WaitsAlone /\ Attended

-----------------------------------------------------------------------------
LEMMA ZeroInRange == 0 \in 0..MaxSources /\ 0 \in 0..MaxDelay
BY PipelineConstants

(* A reconnect waits at least one unit and at most the maximum. *)
LEMMA DelayInRange ==
  ASSUME NEW n \in Nat \ {0}
  PROVE  RetryDelay(n) \in 1..MaxDelay
<1>. DEFINE p == PowersOfTwo[IF n < 7 THEN n ELSE 7]
<1>1. \A k \in 1..7 : PowersOfTwo[k] \in 1..64
  <2>. SUFFICES ASSUME NEW k \in 1..7 PROVE PowersOfTwo[k] \in 1..64
    OBVIOUS
  <2>1. k = 1 \/ k = 2 \/ k = 3 \/ k = 4 \/ k = 5 \/ k = 6 \/ k = 7
    OBVIOUS
  <2>. QED  BY <2>1 DEF PowersOfTwo
<1>2. p \in 1..64
  BY <1>1
<1>. HIDE DEF p
<1>3. BaseDelay * p \in Nat /\ BaseDelay * p >= 1
  <2>1. \A b \in Nat \ {0}, q \in 1..64 : b * q \in Nat /\ b * q >= 1
    OBVIOUS
  <2>. QED  BY <1>2, <2>1, PipelineConstants
<1>. QED  BY <1>3, PipelineConstants DEF RetryDelay, p

(* One more report under way. *)
LEMMA WithType ==
  ASSUME NEW box \in [WorkerStatus -> Nat], NEW status \in WorkerStatus
  PROVE  /\ With(box, status) \in [WorkerStatus -> Nat]
         /\ \A s \in WorkerStatus : s # status => With(box, status)[s] = box[s]
BY DEF With

LEMMA NewSourceType == NewSource \in SourceState
BY DEF NewSource, SourceState

LEMMA PipelineInvInit == PipelineInit => PipelineInv
<1>. SUFFICES ASSUME PipelineInit PROVE PipelineInv
  OBVIOUS
<1>1. source \in [Source -> SourceState]
  BY NewSourceType DEF PipelineInit
<1>2. outbox \in [WorkerStatus -> Nat]
  BY DEF PipelineInit
<1>3. PipelineTypeOK
  <2>1. stopped \in BOOLEAN /\ counted \in BOOLEAN
    BY Zenon DEF PipelineInit
  <2>. QED  BY <1>1, <1>2, <2>1, ZeroInRange DEF PipelineInit, PipelineTypeOK
<1>4. \A i \in Source : source[i].process # "running"
  BY DEF PipelineInit, NewSource
<1>. QED
  BY <1>3, <1>4 DEF PipelineInit, PipelineInv, LatestOnly, TimersLeft, WaitsAlone,
     Attended

(* A stream that starts while no process runs: of a fresh pipeline, or     *)
(* when the reconnect timer fires.                                         *)
LEMMA StartingKeepsInv ==
  ASSUME PipelineInv, ~stopped, StartStream, timer' = 0,
         UNCHANGED <<stopped, counted, inference>>,
         \A i \in Source : source[i].process # "running"
  PROVE  PipelineInv' /\ (SpawnMayFail = FALSE => Running' # {})
<1>1. PICK spawned \in {"running"} \cup IF SpawnMayFail THEN {"failed"} ELSE {} :
        source' = [i \in Source |->
          IF i = created' THEN [NewSource EXCEPT !.process = spawned,
                                  !.child = TRUE, !.listening = TRUE]
          ELSE IF i = current THEN [source[i] EXCEPT !.listening = FALSE]
          ELSE source[i]]
  BY DEF StartStream
<1>2. created' \in Source /\ created' = created + 1 /\ current' = created'
  BY PipelineConstants DEF StartStream, PipelineInv, PipelineTypeOK, Source
<1>3. /\ source'[created'] = [NewSource EXCEPT !.process = spawned,
                                 !.child = TRUE, !.listening = TRUE]
      /\ source'[created'] \in SourceState
      /\ source'[created'].process = spawned
      /\ source'[created'].listening /\ ~source'[created'].stopped
  BY <1>1, <1>2 DEF NewSource, SourceState
<1>4. ASSUME NEW i \in Source, i # created'
      PROVE  /\ source'[i] \in SourceState
             /\ source'[i].process = source[i].process
  BY ZenonT(30), <1>1, <1>4 DEF PipelineInv, PipelineTypeOK, SourceState
<1>5. source' \in [Source -> SourceState]
  <2>1. \A i \in Source : source'[i] \in SourceState
    BY <1>2, <1>3, <1>4
  <2>. QED  BY <1>1, <2>1
<1>6. outbox' \in [WorkerStatus -> Nat]
  BY WithType DEF StartStream, PipelineInv, PipelineTypeOK, WorkerStatus
<1>7. PipelineTypeOK'
  BY <1>2, <1>5, <1>6, PipelineConstants
     DEF StartStream, PipelineInv, PipelineTypeOK, TimersLeft, Source
<1>8. LatestOnly' /\ TimersLeft' /\ WaitsAlone' /\ Attended'
  BY <1>2, <1>3, <1>4 DEF StartStream, PipelineInv, PipelineTypeOK, LatestOnly,
     TimersLeft, WaitsAlone, Attended
<1>9. SpawnMayFail = FALSE => Running' # {}
  BY <1>1, <1>2, <1>3 DEF Running
<1>. QED  BY <1>7, <1>8, <1>9 DEF PipelineInv

LEMMA ExitKeepsInv ==
  ASSUME PipelineInv, NEW i \in Source, Exit(i)
  PROVE  /\ PipelineInv' /\ (~stopped' => timer' # 0)
         /\ stopped => UNCHANGED outbox
<1>0. /\ source[i].process = "running" /\ i = created /\ timer = 0
      /\ source[i] \in SourceState
      /\ UNCHANGED <<stopped, current, created, statsTimers, counted, inference>>
  BY DEF PipelineInv, PipelineTypeOK, LatestOnly, WaitsAlone, Exit
<1>1. CASE stopped
  <2>1. /\ source' = [source EXCEPT ![i].process = "exited", ![i].child = FALSE]
        /\ UNCHANGED <<attempts, timer, outbox>>
    BY <1>0, <1>1 DEF Exit, ExitHandled, PipelineInv, Attended
  <2>2. source' \in [Source -> SourceState]
    BY <1>0, <2>1 DEF PipelineInv, PipelineTypeOK, SourceState
  <2>3. \A j \in Source : source'[j].process # "running"
    BY <1>0, <2>1 DEF PipelineInv, PipelineTypeOK, LatestOnly, SourceState
  <2>. QED
    BY <1>0, <1>1, <2>1, <2>2, <2>3 DEF PipelineInv, PipelineTypeOK, LatestOnly,
       TimersLeft, WaitsAlone, Attended
<1>2. CASE ~stopped
  <2>1. /\ attempts' = attempts + 1
        /\ timer' = RetryDelay(attempts')
        /\ outbox' = With(With(outbox, "OFFLINE"), "RECONNECTING")
        /\ source' = [source EXCEPT ![i].process = "exited", ![i].child = FALSE,
                                    ![i].retryDelay = timer']
    BY <1>0, <1>2 DEF Exit, ExitHandled, PipelineInv, Attended
  <2>2. timer' \in 1..MaxDelay /\ attempts' \in Nat
    <3>1. attempts' \in Nat \ {0}
      BY <2>1 DEF PipelineInv, PipelineTypeOK
    <3>. QED  BY <2>1, <3>1, DelayInRange
  <2>3. source' \in [Source -> SourceState]
    <3>1. timer' \in Nat
      BY <2>2, PipelineConstants
    <3>2. [source[i] EXCEPT !.process = "exited", !.child = FALSE,
                            !.retryDelay = timer'] \in SourceState
      BY <1>0, <3>1 DEF SourceState
    <3>3. source' = [source EXCEPT ![i] =
            [source[i] EXCEPT !.process = "exited", !.child = FALSE,
                              !.retryDelay = timer']]
      BY <1>0, <2>1 DEF PipelineInv, PipelineTypeOK
    <3>. QED  BY <3>2, <3>3 DEF PipelineInv, PipelineTypeOK
  <2>4. \A j \in Source : source'[j].process # "running"
    BY <1>0, <2>1 DEF PipelineInv, PipelineTypeOK, LatestOnly, SourceState
  <2>5. outbox' \in [WorkerStatus -> Nat]
    BY <2>1, WithType DEF PipelineInv, PipelineTypeOK, WorkerStatus
  <2>6. created > 0
    BY <1>0 DEF Source
  <2>. QED
    BY <1>0, <1>2, <2>2, <2>3, <2>4, <2>5, <2>6, PipelineConstants
       DEF PipelineInv, PipelineTypeOK, LatestOnly, TimersLeft, WaitsAlone, Attended
<1>. QED  BY <1>1, <1>2

LEMMA StopKeepsInv ==
  ASSUME PipelineInv, Stop
  PROVE  PipelineInv'
<1>1. ASSUME NEW i \in Source
      PROVE  /\ source'[i] \in SourceState
             /\ source'[i].process = source[i].process
             /\ i = created => source'[i].stopped
  <2>1. source[i] \in SourceState
    BY DEF PipelineInv, PipelineTypeOK
  <2>2. CASE i # current
    BY <2>1, <2>2 DEF Stop, PipelineInv, LatestOnly
  <2>3. CASE i = current /\ ~source[i].child
    BY <2>1, <2>3 DEF Stop, SourceState
  <2>4. CASE i = current /\ source[i].child
    <3>. DEFINE sent == source[i].process = "running"
    <3>1. source'[i] = [source[i] EXCEPT
                          !.stopped = TRUE, !.child = FALSE, !.killTimer = TRUE,
                          !.killed = sent,
                          !.signal = IF sent THEN "TERM" ELSE "none"]
      BY <2>4 DEF Stop
    <3>2. sent \in BOOLEAN
      OBVIOUS
    <3>. HIDE DEF sent
    <3>. QED  BY <2>1, <3>1, <3>2 DEF SourceState
  <2>. QED  BY <2>2, <2>3, <2>4
<1>2. source' \in [Source -> SourceState]
  <2>1. source' = [i \in Source |-> source'[i]]
    BY DEF Stop
  <2>. QED  BY <1>1, <2>1
<1>3. PipelineTypeOK'
  <2>1. statsTimers' \in 0..MaxSources
    <3>1. created \in 0..MaxSources /\ created > 0 /\ statsTimers' = created - 1
      BY DEF Stop, PipelineInv, PipelineTypeOK, TimersLeft
    <3>. QED  BY <3>1, PipelineConstants
  <2>2. stopped' \in BOOLEAN
    BY Zenon DEF Stop
  <2>3. current' \in 0..MaxSources /\ timer' \in 0..MaxDelay
    BY ZeroInRange DEF Stop
  <2>. QED  BY <1>2, <2>1, <2>2, <2>3 DEF Stop, PipelineInv, PipelineTypeOK
<1>4. LatestOnly' /\ TimersLeft' /\ WaitsAlone' /\ Attended'
  BY <1>1 DEF Stop, PipelineInv, PipelineTypeOK, LatestOnly, TimersLeft, WaitsAlone,
     Attended
<1>. QED  BY <1>3, <1>4 DEF PipelineInv

(* Frames, pipes and grace periods leave process and stop of every source. *)
LEMMA SourceEventKeepsInv ==
  ASSUME PipelineInv, NEW i \in Source,
         Frame(i) \/ PipeClosed(i) \/ GracePeriodEnds(i)
  PROVE  PipelineInv' /\ Running' = Running
<1>1. CASE Frame(i)
  <2>1. source' \in [Source -> SourceState]
        /\ \A j \in Source : /\ source'[j].process = source[j].process
                             /\ source'[j].stopped = source[j].stopped
                             /\ source'[j].listening = source[j].listening
    BY ZenonT(30), <1>1 DEF Frame, PipelineInv, PipelineTypeOK, SourceState
  <2>2. outbox' \in [WorkerStatus -> Nat]
    BY <1>1, WithType DEF Frame, PipelineInv, PipelineTypeOK, WorkerStatus
  <2>. QED
    BY <1>1, <2>1, <2>2 DEF Frame, PipelineInv, PipelineTypeOK, LatestOnly, TimersLeft,
       WaitsAlone, Attended, Running
<1>2. CASE PipeClosed(i)
  <2>1. source' \in [Source -> SourceState]
        /\ \A j \in Source : /\ source'[j].process = "running"
                                <=> source[j].process = "running"
                             /\ source'[j].stopped = source[j].stopped
                             /\ source'[j].listening = source[j].listening
    BY <1>2 DEF PipeClosed, PipelineInv, PipelineTypeOK, SourceState
  <2>. QED
    BY <1>2, <2>1 DEF PipeClosed, PipelineInv, PipelineTypeOK, LatestOnly, TimersLeft,
       WaitsAlone, Attended, Running
<1>3. CASE GracePeriodEnds(i)
  <2>1. source' \in [Source -> SourceState]
        /\ \A j \in Source : /\ source'[j].process = source[j].process
                             /\ source'[j].stopped = source[j].stopped
                             /\ source'[j].listening = source[j].listening
    <3>1. PICK signal \in {"none", "TERM", "KILL"} :
            source' = [source EXCEPT ![i].killTimer = FALSE, ![i].signal = signal]
      BY <1>3 DEF GracePeriodEnds, PipelineInv, PipelineTypeOK, SourceState
    <3>2. [source[i] EXCEPT !.killTimer = FALSE, !.signal = signal] \in SourceState
      BY ZenonT(30) DEF PipelineInv, PipelineTypeOK, SourceState
    <3>3. source' = [source EXCEPT ![i] =
            [source[i] EXCEPT !.killTimer = FALSE, !.signal = signal]]
      BY <3>1 DEF PipelineInv, PipelineTypeOK
    <3>. QED  BY <3>2, <3>3 DEF PipelineInv, PipelineTypeOK, SourceState
  <2>. QED
    BY <1>3, <2>1 DEF GracePeriodEnds, PipelineInv, PipelineTypeOK, LatestOnly,
       TimersLeft, WaitsAlone, Attended, Running
<1>. QED  BY <1>1, <1>2, <1>3

LEMMA PipelineInvStep ==
  ASSUME PipelineInv, [PipelineNext]_pipelineVars
  PROVE  /\ PipelineInv'
         /\ stopped => outbox'["OFFLINE"] <= outbox["OFFLINE"]
         /\ SpawnMayFail = FALSE /\ KeepsTrying => KeepsTrying'
<1>. DEFINE NoOutage == stopped => outbox'["OFFLINE"] <= outbox["OFFLINE"]
            Keeps == SpawnMayFail = FALSE /\ KeepsTrying => KeepsTrying'
<1>0. outbox \in [WorkerStatus -> Nat] /\ outbox["OFFLINE"] \in Nat
  BY DEF PipelineInv, PipelineTypeOK, WorkerStatus
<1>1. CASE Start
  <2>1. \A i \in Source : source[i].process # "running"
    BY <1>1 DEF Start, PipelineInv, LatestOnly, Source
  <2>2. timer' = 0
    BY <1>1 DEF Start, PipelineInv, PipelineTypeOK, WaitsAlone
  <2>. QED  BY <1>1, <2>1, <2>2, StartingKeepsInv DEF Start, KeepsTrying
<1>2. CASE Reconnect
  <2>1. ~stopped /\ \A i \in Source : source[i].process # "running"
    BY <1>2 DEF Reconnect, PipelineInv, WaitsAlone
  <2>. QED  BY <1>2, <2>1, StartingKeepsInv DEF Reconnect, KeepsTrying
<1>3. CASE Stop
  BY <1>0, <1>3, StopKeepsInv DEF Stop, KeepsTrying
<1>4. ASSUME NEW i \in Source, Exit(i)
      PROVE  PipelineInv' /\ NoOutage /\ Keeps
  BY <1>0, <1>4, ExitKeepsInv DEF KeepsTrying
<1>5. ASSUME NEW i \in Source, Frame(i) \/ PipeClosed(i) \/ GracePeriodEnds(i)
      PROVE  PipelineInv' /\ NoOutage /\ Keeps
  <2>1. outbox'["OFFLINE"] = outbox["OFFLINE"]
    BY <1>0, <1>5, WithType
       DEF Frame, PipeClosed, GracePeriodEnds, WorkerStatus
  <2>2. UNCHANGED <<created, stopped, timer>>
    BY <1>5 DEF Frame, PipeClosed, GracePeriodEnds
  <2>. QED  BY <1>0, <1>5, <2>1, <2>2, SourceEventKeepsInv DEF KeepsTrying
<1>6. CASE InferenceAnswers
  <2>1. outbox' \in [WorkerStatus -> Nat] /\ outbox'["OFFLINE"] = outbox["OFFLINE"]
    BY <1>0, <1>6, WithType DEF InferenceAnswers, WorkerStatus
  <2>2. inference' \in {"idle", "inferring", "submitting"}
    BY <1>6 DEF InferenceAnswers
  <2>. QED
    BY <1>0, <1>6, <2>1, <2>2 DEF InferenceAnswers, PipelineInv, PipelineTypeOK,
       LatestOnly, TimersLeft, WaitsAlone, Attended, KeepsTrying, Running
<1>7. CASE InferenceEnds \/ FlushStats \/ UNCHANGED pipelineVars
  <2>1. /\ UNCHANGED <<stopped, current, created, source, attempts, timer,
                       statsTimers, outbox>>
        /\ counted' \in BOOLEAN
        /\ inference' \in {"idle", "inferring", "submitting"}
    <3>1. CASE InferenceEnds
      BY <3>1 DEF InferenceEnds, PipelineInv, PipelineTypeOK
    <3>2. CASE FlushStats
      BY <3>2 DEF FlushStats, PipelineInv, PipelineTypeOK
    <3>3. CASE UNCHANGED pipelineVars
      BY <3>3 DEF pipelineVars, PipelineInv, PipelineTypeOK
    <3>. QED  BY <1>7, <3>1, <3>2, <3>3
  <2>. QED
    BY <1>0, <2>1 DEF PipelineInv, PipelineTypeOK, LatestOnly, TimersLeft, WaitsAlone,
       Attended, KeepsTrying, Running
<1>8. ASSUME NEW status \in WorkerStatus, ReportSettles(status)
      PROVE  PipelineInv' /\ NoOutage /\ Keeps
  <2>1. outbox' \in [WorkerStatus -> Nat] /\ outbox'["OFFLINE"] <= outbox["OFFLINE"]
    BY <1>0, <1>8 DEF ReportSettles
  <2>. QED
    BY <1>8, <2>1 DEF ReportSettles, PipelineInv, PipelineTypeOK, LatestOnly,
       TimersLeft, WaitsAlone, Attended, KeepsTrying, Running
<1>. QED
  BY <1>1, <1>2, <1>3, <1>4, <1>5, <1>6, <1>7, <1>8 DEF PipelineNext, Step

(* However exits, timers, late frames and stops of a pipeline are ordered, *)
(* what its fields say of one another stays true.                          *)
THEOREM PipelineInvariance == PipelineSpec => []PipelineInv
BY PipelineInvInit, PipelineInvStep, PTL DEF PipelineSpec

(* The fields keep the types worker.ts and frame-source.ts give them; of   *)
(* the delay this includes that it never exceeds the maximum.              *)
THEOREM PipelineTypes == PipelineSpec => []PipelineTypeOK
<1>1. PipelineInv => PipelineTypeOK
  BY DEF PipelineInv
<1>. QED  BY <1>1, PipelineInvariance, PTL

(* A pipeline never has two ffmpeg processes, nor one while it waits to    *)
(* reconnect.                                                              *)
THEOREM AtMostOneProcess == PipelineSpec => []OneProcess
<1>1. PipelineInv => OneProcess
  <2>. SUFFICES ASSUME PipelineInv PROVE OneProcess
    OBVIOUS
  <2>1. Running \subseteq {created}
    BY DEF PipelineInv, LatestOnly, Running
  <2>2. IsFiniteSet({created}) /\ Cardinality({created}) = 1
    BY FS_Singleton
  <2>3. IsFiniteSet(Running) /\ Cardinality(Running) <= 1
    BY <2>1, <2>2, FS_Subset
  <2>4. timer # 0 => Running = {}
    BY DEF PipelineInv, WaitsAlone, Running
  <2>. QED  BY <2>3, <2>4 DEF OneProcess
<1>. QED  BY <1>1, PipelineInvariance, PTL

(* A pipeline that was stopped, because its camera was disabled or         *)
(* deleted, reports no outage, whenever its process ends.                  *)
THEOREM StopIsNoOutage == PipelineSpec => NoOutageAfterStop
<1>1. PipelineInv /\ [PipelineNext]_pipelineVars =>
        [stopped => outbox'["OFFLINE"] <= outbox["OFFLINE"]]_pipelineVars
  BY PipelineInvStep
<1>. QED  BY <1>1, PipelineInvariance, PTL DEF PipelineSpec, NoOutageAfterStop

(* As long as ffmpeg can be started, a pipeline that was not stopped has a *)
(* process or a reconnect pending, after any number of dropped streams.    *)
THEOREM NeverGivesUp ==
  ASSUME SpawnMayFail = FALSE
  PROVE  PipelineSpec => []KeepsTrying
<1>1. PipelineInit => KeepsTrying
  BY DEF PipelineInit, KeepsTrying
<1>2. PipelineInv /\ KeepsTrying /\ [PipelineNext]_pipelineVars => KeepsTrying'
  BY PipelineInvStep
<1>. QED  BY <1>1, <1>2, PipelineInvariance, PTL DEF PipelineSpec

-----------------------------------------------------------------------------
(***************************************************************************)
(* CameraHealth                                                            *)
(***************************************************************************)

(* Who has updated the row is past the UPDATE, and the camera is there. *)
RowHeld ==
  rowLock # Nil => pc[rowLock] \in {"emit", "commit"} /\ row # Nil

(* A request that is under way has a status to report. *)
Reporting == \A t \in Tx : pc[t] # "idle" => local[t].report \in Report

(* An event about to be committed is the one the report calls for, and its *)
(* request holds the row.                                                  *)
EventHeld ==
  \A t \in Tx : pc[t] = "commit" /\ local[t].emitted # Nil =>
    /\ rowLock = t
    /\ local[t].emitted = Emitted(local[t].prior, local[t].report)

HealthInv == HealthTypeOK /\ RowHeld /\ Reporting /\ EventHeld

-----------------------------------------------------------------------------
(* A row that is written has the columns of the schema. *)
LEMMA RowType ==
  ASSUME NEW status \in Status
  PROVE  Row(status) \in [status : Status, health : Health]
BY DEF Row, HealthFor, Health

(* What is emitted is a health event or nothing. *)
LEMMA EmittedType ==
  ASSUME NEW prior, NEW status
  PROVE  Emitted(prior, status) \in HealthEvent \cup {Nil}
BY DEF Emitted, HealthEvent

(* An event goes with the health of the status that called for it. *)
LEMMA EmittedHealth ==
  ASSUME NEW prior, NEW status \in Status, Emitted(prior, status) # Nil
  PROVE  Row(status).health = IF Emitted(prior, status) = "CAMERA_OFFLINE"
                              THEN "UNHEALTHY" ELSE "HEALTHY"
BY HealthConstants DEF Emitted, HealthEvent, Row, HealthFor, OfflineStatuses

(* Ending a transaction keeps the invariant, whatever it does to a row it  *)
(* holds or that nobody holds.                                             *)
LEMMA EndingKeepsInv ==
  ASSUME HealthInv, NEW t \in Tx, EndTransaction(t),
         row' \in [status : Status, health : Health] \cup {Nil},
         row' = Nil => row = Nil,
         log' \in Seq(HealthEvent), UNCHANGED published
  PROVE  HealthInv'
<1>1. /\ AtRest \in [report : Report \cup {Nil}, prior : Status \cup {Nil},
                     emitted : HealthEvent \cup {Nil}]
      /\ AtRest.emitted = Nil
  BY DEF AtRest
<1>2. HealthTypeOK'
  BY <1>1 DEF HealthInv, HealthTypeOK, EndTransaction, Stage
<1>3. RowHeld'
  BY DEF HealthInv, HealthTypeOK, RowHeld, EndTransaction
<1>4. Reporting'
  BY DEF HealthInv, HealthTypeOK, Reporting, EndTransaction
<1>5. EventHeld'
  BY DEF HealthInv, HealthTypeOK, EventHeld, EndTransaction
<1>. QED  BY <1>2, <1>3, <1>4, <1>5 DEF HealthInv

LEMMA HealthInvInit == HealthInit => HealthInv
<1>. SUFFICES ASSUME HealthInit PROVE HealthInv
  OBVIOUS
<1>1. Row("UNKNOWN") \in [status : Status, health : Health]
  BY RowType DEF Status
<1>2. << >> \in Seq(HealthEvent)
  OBVIOUS
<1>3. HealthTypeOK
  BY <1>1, <1>2 DEF HealthInit, HealthTypeOK, AtRest, Stage
<1>. QED  BY <1>3 DEF HealthInit, HealthInv, RowHeld, Reporting, EventHeld

-----------------------------------------------------------------------------
LEMMA BeginKeepsInv ==
  ASSUME HealthInv, NEW t \in Tx, NEW status \in Report, Begin(t, status)
  PROVE  HealthInv'
<1>1. HealthTypeOK'
  BY DEF HealthInv, HealthTypeOK, Begin, Stage
<1>2. RowHeld'
  BY DEF HealthInv, HealthTypeOK, RowHeld, Begin
<1>3. Reporting'
  BY DEF HealthInv, HealthTypeOK, Reporting, Begin
<1>4. EventHeld'
  BY DEF HealthInv, HealthTypeOK, EventHeld, Begin
<1>. QED  BY <1>1, <1>2, <1>3, <1>4 DEF HealthInv

LEMMA ReadPriorKeepsInv ==
  ASSUME HealthInv, NEW t \in Tx, ReadPrior(t)
  PROVE  HealthInv'
<1>1. CASE row = Nil
  BY <1>1, EndingKeepsInv DEF ReadPrior, HealthInv, HealthTypeOK
<1>2. CASE row # Nil
  <2>1. /\ row.status \in Status /\ pc[t] = "read"
        /\ local' = [local EXCEPT ![t].prior = row.status]
        /\ pc' = [pc EXCEPT ![t] = "update"]
        /\ UNCHANGED <<row, log, published, rowLock>>
    BY <1>2 DEF HealthInv, HealthTypeOK, ReadPrior
  <2>2. HealthTypeOK'
    BY <2>1 DEF HealthInv, HealthTypeOK, Stage
  <2>3. RowHeld'
    BY <2>1 DEF HealthInv, HealthTypeOK, RowHeld
  <2>4. Reporting'
    <3>1. \A u \in Tx : local'[u].report = local[u].report
      BY <2>1 DEF HealthInv, HealthTypeOK
    <3>. QED  BY <2>1, <3>1 DEF HealthInv, HealthTypeOK, Reporting
  <2>5. EventHeld'
    BY <2>1 DEF HealthInv, HealthTypeOK, EventHeld
  <2>. QED  BY <2>2, <2>3, <2>4, <2>5 DEF HealthInv
<1>. QED  BY <1>1, <1>2

LEMMA UpdateRowKeepsInv ==
  ASSUME HealthInv, NEW t \in Tx, UpdateRow(t)
  PROVE  HealthInv'
<1>1. HealthTypeOK'
  BY DEF HealthInv, HealthTypeOK, UpdateRow, Stage
<1>2. RowHeld'
  BY DEF HealthInv, HealthTypeOK, RowHeld, UpdateRow
<1>3. Reporting'
  BY DEF HealthInv, HealthTypeOK, Reporting, UpdateRow
<1>4. EventHeld'
  BY HealthConstants DEF HealthInv, HealthTypeOK, EventHeld, UpdateRow
<1>. QED  BY <1>1, <1>2, <1>3, <1>4 DEF HealthInv

LEMMA EmitKeepsInv ==
  ASSUME HealthInv, NEW t \in Tx, Emit(t)
  PROVE  HealthInv'
<1>. DEFINE event == Emitted(local[t].prior, local[t].report)
<1>0. event \in HealthEvent \cup {Nil}
  BY EmittedType
<1>1. CASE event # Nil /\ rowLock # t
  BY <1>1, EndingKeepsInv DEF Emit, HealthInv, HealthTypeOK
<1>2. CASE ~(event # Nil /\ rowLock # t)
  <2>. HIDE DEF event
  <2>1. /\ pc[t] = "emit"
        /\ local' = [local EXCEPT ![t].emitted = event]
        /\ published' = IF event = Nil THEN published
                        ELSE [published EXCEPT ![event] = @ + 1]
        /\ pc' = [pc EXCEPT ![t] = "commit"]
        /\ UNCHANGED <<row, log, rowLock>>
    BY <1>2 DEF Emit, event
  <2>2. HealthTypeOK'
    <3>1. published' \in [HealthEvent -> Nat]
      BY <1>0, <2>1 DEF HealthInv, HealthTypeOK
    <3>2. local' \in [Tx -> [report : Report \cup {Nil},
                             prior : Status \cup {Nil},
                             emitted : HealthEvent \cup {Nil}]]
      BY <1>0, <2>1 DEF HealthInv, HealthTypeOK
    <3>3. pc' \in [Tx -> Stage]
      BY <2>1 DEF HealthInv, HealthTypeOK, Stage
    <3>. QED  BY <2>1, <3>1, <3>2, <3>3 DEF HealthInv, HealthTypeOK
  <2>3. RowHeld'
    BY <2>1 DEF HealthInv, HealthTypeOK, RowHeld
  <2>4. Reporting'
    BY <2>1 DEF HealthInv, HealthTypeOK, Reporting
  <2>5. EventHeld'
    <3>1. ASSUME NEW u \in Tx, u # t
          PROVE  pc'[u] = pc[u] /\ local'[u] = local[u]
      BY <2>1, <3>1 DEF HealthInv, HealthTypeOK
    <3>2. /\ local'[t].emitted = event
          /\ local'[t].prior = local[t].prior
          /\ local'[t].report = local[t].report
      BY <2>1 DEF HealthInv, HealthTypeOK
    <3>. QED  BY <1>2, <2>1, <3>1, <3>2 DEF HealthInv, EventHeld, event
  <2>. QED  BY <2>2, <2>3, <2>4, <2>5 DEF HealthInv
<1>. QED  BY <1>1, <1>2

LEMMA CommitKeepsInv ==
  ASSUME HealthInv, NEW t \in Tx, Commit(t)
  PROVE  HealthInv'
<1>1. local[t].report \in Status /\ local[t].emitted \in HealthEvent \cup {Nil}
  BY HealthConstants DEF HealthInv, HealthTypeOK, Reporting, Commit
<1>2. row' \in [status : Status, health : Health] \cup {Nil}
  BY <1>1, RowType DEF Commit, HealthInv, HealthTypeOK
<1>3. row' = Nil => row = Nil
  BY <1>1, RowType, HealthConstants DEF Commit
<1>4. log' \in Seq(HealthEvent)
  BY <1>1 DEF Commit, HealthInv, HealthTypeOK
<1>. QED  BY <1>2, <1>3, <1>4, EndingKeepsInv DEF Commit

LEMMA DeleteCameraKeepsInv ==
  ASSUME HealthInv, DeleteCamera
  PROVE  HealthInv'
BY DEF HealthInv, HealthTypeOK, RowHeld, Reporting, EventHeld, DeleteCamera

LEMMA HealthInvStep ==
  ASSUME HealthInv, [HealthNext]_healthVars
  PROVE  HealthInv'
<1>1. ASSUME NEW t \in Tx, NEW status \in Report, Begin(t, status)
      PROVE  HealthInv'
  BY <1>1, BeginKeepsInv
<1>2. ASSUME NEW t \in Tx, ReadPrior(t) PROVE HealthInv'
  BY <1>2, ReadPriorKeepsInv
<1>3. ASSUME NEW t \in Tx, UpdateRow(t) PROVE HealthInv'
  BY <1>3, UpdateRowKeepsInv
<1>4. ASSUME NEW t \in Tx, Emit(t) PROVE HealthInv'
  BY <1>4, EmitKeepsInv
<1>5. ASSUME NEW t \in Tx, Commit(t) PROVE HealthInv'
  BY <1>5, CommitKeepsInv
<1>6. ASSUME NEW t \in Tx, Rollback(t) PROVE HealthInv'
  BY <1>6, EndingKeepsInv DEF Rollback, HealthInv, HealthTypeOK
<1>7. CASE DeleteCamera
  BY <1>7, DeleteCameraKeepsInv
<1>8. CASE UNCHANGED healthVars
  BY <1>8 DEF healthVars, HealthInv, HealthTypeOK, RowHeld, Reporting, EventHeld
<1>. QED
  BY <1>1, <1>2, <1>3, <1>4, <1>5, <1>6, <1>7, <1>8 DEF HealthNext, Process

(* In every reachable state of applyHealthUpdate under any callers, who    *)
(* holds the row and what is about to be committed fit together.           *)
THEOREM HealthInvariance == HealthSpec => []HealthInv
BY HealthInvInit, HealthInvStep, PTL DEF HealthSpec

(* The variables keep the types of the schema and of health.service.ts. *)
THEOREM HealthTypes == HealthSpec => []HealthTypeOK
<1>1. HealthInv => HealthTypeOK
  BY DEF HealthInv
<1>. QED  BY <1>1, HealthInvariance, PTL

-----------------------------------------------------------------------------
(* However many requests interleave, what one of them appends to the       *)
(* camera's history agrees with the health it writes in the same commit.   *)
THEOREM EventsAgree == HealthSpec => EventsMatchRow
<1>. DEFINE Agree ==
       (log' # log /\ row' # Nil) =>
         LET event == log'[Len(log')]
         IN  row'.health = IF event = "CAMERA_OFFLINE" THEN "UNHEALTHY"
                           ELSE "HEALTHY"
<1>1. ASSUME HealthInv, HealthNext PROVE Agree
  <2>1. ASSUME NEW t \in Tx, Commit(t) PROVE Agree
    <3>. SUFFICES ASSUME log' # log PROVE Agree
      OBVIOUS
    <3>1. /\ local[t].emitted \in HealthEvent /\ log \in Seq(HealthEvent)
          /\ log' = Append(log, local[t].emitted)
      BY <1>1, <2>1 DEF HealthInv, HealthTypeOK, Commit
    <3>2. log'[Len(log')] = local[t].emitted
      BY <3>1
    <3>3. /\ local[t].emitted # Nil /\ local[t].report \in Status
          /\ local[t].emitted = Emitted(local[t].prior, local[t].report)
          /\ row' = Row(local[t].report)
      BY <1>1, <2>1, <3>1, HealthConstants
         DEF HealthInv, Reporting, EventHeld, Commit
    <3>. QED  BY <3>2, <3>3, EmittedHealth
  <2>2. CASE DeleteCamera
    BY <2>2 DEF DeleteCamera
  <2>3. CASE UNCHANGED log
    BY <2>3
  <2>4. HealthNext => \/ \E t \in Tx : Commit(t)
                \/ DeleteCamera
                \/ UNCHANGED log
    BY DEF HealthNext, Process, Begin, ReadPrior, UpdateRow, Emit, Rollback
  <2>. QED  BY <1>1, <2>1, <2>2, <2>3, <2>4
<1>2. HealthInv /\ [HealthNext]_healthVars => [Agree]_healthVars
  BY <1>1
<1>. QED  BY <1>2, HealthInvariance, PTL DEF HealthSpec, EventsMatchRow

-----------------------------------------------------------------------------
(* The reports of one camera are processed one after the other.            *)
OneAtATime == \A t, u \in Tx : t = u

PriorRead(t) == pc[t] \in {"update", "emit", "commit"}

(* The status a request has read is still the row's.                       *)
PriorIsRow ==
  row # Nil => \A t \in Tx : PriorRead(t) => local[t].prior = row.status

EmittedAsCalled ==
  \A t \in Tx : pc[t] = "commit" =>
    local[t].emitted = Emitted(local[t].prior, local[t].report)

SerialInv == PriorIsRow /\ EmittedAsCalled /\ OutageOnRecord /\ RecoveryEndsOutage

(* A step that neither writes nor lets a request read.                     *)
LEMMA EndingKeepsSerial ==
  ASSUME OneAtATime, HealthInv, SerialInv, NEW t \in Tx, EndTransaction(t),
         UNCHANGED <<row, log>>
  PROVE  SerialInv'
<1>1. \A u \in Tx : pc'[u] = "idle"
  BY DEF OneAtATime, EndTransaction, HealthInv, HealthTypeOK
<1>. QED
  BY <1>1 DEF SerialInv, PriorIsRow, PriorRead, EmittedAsCalled, OutageOnRecord,
     RecoveryEndsOutage

LEMMA CommitKeepsSerial ==
  ASSUME OneAtATime, HealthInv, SerialInv, NEW t \in Tx, Commit(t)
  PROVE  SerialInv'
<1>. DEFINE event == local[t].emitted
<1>1. /\ pc[t] = "commit" /\ EndTransaction(t)
      /\ row' = IF rowLock = t THEN Row(local[t].report) ELSE row
      /\ log' = IF event = Nil THEN log ELSE Append(log, event)
      /\ event = Emitted(local[t].prior, local[t].report)
      /\ event # Nil => rowLock = t
      /\ rowLock = t => row # Nil
  BY HealthConstants DEF Commit, SerialInv, EmittedAsCalled, HealthInv, EventHeld, RowHeld
<1>2. \A u \in Tx : pc'[u] = "idle"
  BY <1>1 DEF OneAtATime, EndTransaction, HealthInv, HealthTypeOK
<1>3. PriorIsRow' /\ EmittedAsCalled'
  BY <1>2 DEF PriorIsRow, PriorRead, EmittedAsCalled
<1>4. log \in Seq(HealthEvent) /\ event \in HealthEvent \cup {Nil}
  BY DEF HealthInv, HealthTypeOK
<1>5. row # Nil => local[t].prior = row.status
  BY <1>1 DEF SerialInv, PriorIsRow, PriorRead
<1>6. CASE event = Nil
  <2>1. log' = log
    BY <1>1, <1>6
  <2>2. CASE rowLock = t
    <3>1. row' = Row(local[t].report) /\ row'.status = local[t].report /\ row # Nil
      BY <1>1, <2>2 DEF Row
    <3>2. local[t].report \in OfflineStatuses => row.status \in OfflineStatuses
      BY <1>1, <1>5, <1>6, <3>1, HealthConstants DEF Emitted, HealthEvent
    <3>. QED  BY <1>3, <2>1, <3>1, <3>2 DEF SerialInv, OutageOnRecord, RecoveryEndsOutage
  <2>3. CASE rowLock # t
    BY <1>1, <1>3, <2>1, <2>3 DEF SerialInv, OutageOnRecord, RecoveryEndsOutage
  <2>. QED  BY <2>2, <2>3
<1>7. CASE event # Nil
  <2>1. /\ log' = Append(log, event) /\ Len(log') = Len(log) + 1
        /\ DOMAIN log' = 1..(Len(log) + 1) /\ Len(log) \in Nat
        /\ \A i \in 1..Len(log) : log'[i] = log[i]
        /\ log'[Len(log')] = event /\ log' # << >> /\ DOMAIN log = 1..Len(log)
    BY <1>1, <1>4, <1>7
  <2>2. /\ row' = Row(local[t].report) /\ row'.status = local[t].report
        /\ local[t].prior = row.status /\ row # Nil
    BY <1>1, <1>5, <1>7 DEF Row
  <2>3. \/ event = "CAMERA_OFFLINE"
        \/ /\ event = "CAMERA_RECOVERED" /\ local[t].report = "ONLINE"
           /\ row.status \in OfflineStatuses
    BY <1>1, <1>7, <2>2 DEF Emitted
  <2>4. OutageOnRecord'
    BY <2>1, <2>2, <2>3 DEF OutageOnRecord, OfflineStatuses
  <2>5. RecoveryEndsOutage'
    <3>. SUFFICES ASSUME NEW i \in 1..(Len(log) + 1), log'[i] = "CAMERA_RECOVERED"
                  PROVE  i > 1 /\ log'[i - 1] = "CAMERA_OFFLINE"
      BY <2>1 DEF RecoveryEndsOutage
    <3>1. CASE i = Len(log) + 1
      <4>1. row.status \in OfflineStatuses
        BY <2>1, <2>3, <3>1
      <4>2. Len(log) >= 1 /\ log[Len(log)] = "CAMERA_OFFLINE"
        BY <1>4, <2>1, <2>2, <4>1 DEF SerialInv, OutageOnRecord
      <4>. QED  BY <2>1, <3>1, <4>2
    <3>2. CASE i \in 1..Len(log)
      <4>1. i > 1 /\ log[i - 1] = "CAMERA_OFFLINE"
        BY <2>1, <3>2 DEF SerialInv, RecoveryEndsOutage
      <4>. QED  BY <2>1, <3>2, <4>1
    <3>. QED  BY <2>1, <3>1, <3>2
  <2>. QED  BY <1>3, <2>4, <2>5 DEF SerialInv
<1>. QED  BY <1>6, <1>7

LEMMA SerialInvStep ==
  ASSUME OneAtATime, HealthInv, SerialInv, [HealthNext]_healthVars
  PROVE  SerialInv'
<1>0. /\ pc \in [Tx -> Stage]
      /\ local \in [Tx -> [report : Report \cup {Nil}, prior : Status \cup {Nil},
                           emitted : HealthEvent \cup {Nil}]]
      /\ \A t, u \in Tx : t = u
  BY DEF HealthInv, HealthTypeOK, OneAtATime
<1>. DEFINE Record == UNCHANGED <<row, log>> => OutageOnRecord' /\ RecoveryEndsOutage'
<1>1. Record
  BY DEF SerialInv, OutageOnRecord, RecoveryEndsOutage
<1>2. ASSUME NEW t \in Tx, NEW status \in Report, Begin(t, status) PROVE SerialInv'
  <2>1. pc'[t] = "read" /\ UNCHANGED <<row, log>>
    BY <1>0, <1>2 DEF Begin
  <2>. QED  BY <1>0, <1>1, <2>1 DEF SerialInv, PriorIsRow, PriorRead, EmittedAsCalled
<1>3. ASSUME NEW t \in Tx, ReadPrior(t) PROVE SerialInv'
  <2>1. CASE row = Nil
    BY <1>3, <2>1, EndingKeepsSerial DEF ReadPrior
  <2>2. CASE row # Nil
    <3>1. /\ local' = [local EXCEPT ![t].prior = row.status]
          /\ pc' = [pc EXCEPT ![t] = "update"] /\ UNCHANGED <<row, log>>
      BY <1>3, <2>2 DEF ReadPrior
    <3>2. local'[t].prior = row.status /\ pc'[t] = "update"
      BY <1>0, <3>1
    <3>. QED  BY <1>0, <1>1, <3>1, <3>2 DEF SerialInv, PriorIsRow, PriorRead, EmittedAsCalled
  <2>. QED  BY <2>1, <2>2
<1>4. ASSUME NEW t \in Tx, UpdateRow(t) PROVE SerialInv'
  <2>1. pc[t] = "update" /\ pc'[t] = "emit" /\ UNCHANGED <<row, log, local>>
    BY <1>0, <1>4 DEF UpdateRow
  <2>. QED  BY <1>0, <1>1, <2>1 DEF SerialInv, PriorIsRow, PriorRead, EmittedAsCalled
<1>5. ASSUME NEW t \in Tx, Emit(t) PROVE SerialInv'
  <2>. DEFINE event == Emitted(local[t].prior, local[t].report)
  <2>1. UNCHANGED <<row, log>>
    BY <1>5 DEF Emit
  <2>2. CASE EndTransaction(t)
    BY <2>1, <2>2, EndingKeepsSerial
  <2>3. CASE /\ pc[t] = "emit" /\ local' = [local EXCEPT ![t].emitted = event]
             /\ pc' = [pc EXCEPT ![t] = "commit"]
    <3>1. /\ pc'[t] = "commit" /\ local'[t].emitted = event
          /\ local'[t].prior = local[t].prior /\ local'[t].report = local[t].report
      BY <1>0, <2>3
    <3>. QED
      BY <1>0, <1>1, <2>1, <2>3, <3>1 DEF SerialInv, PriorIsRow, PriorRead, EmittedAsCalled
  <2>. QED  BY <1>5, <2>2, <2>3 DEF Emit
<1>6. ASSUME NEW t \in Tx, Commit(t) PROVE SerialInv'
  BY <1>6, CommitKeepsSerial
<1>7. ASSUME NEW t \in Tx, Rollback(t) PROVE SerialInv'
  BY <1>7, EndingKeepsSerial DEF Rollback
<1>8. CASE DeleteCamera
  <2>1. row' = Nil /\ log' = << >> /\ UNCHANGED <<pc, local>>
    BY <1>8 DEF DeleteCamera
  <2>. QED
    BY <2>1 DEF SerialInv, PriorIsRow, EmittedAsCalled, OutageOnRecord, RecoveryEndsOutage
<1>9. CASE UNCHANGED healthVars
  BY <1>9 DEF healthVars, SerialInv, PriorIsRow, PriorRead, EmittedAsCalled,
     OutageOnRecord, RecoveryEndsOutage
<1>. QED
  BY <1>2, <1>3, <1>4, <1>5, <1>6, <1>7, <1>8, <1>9 DEF HealthNext, Process

(* As long as a camera's reports are processed one after the other, its    *)
(* history tells the truth: a camera that is shown offline has that outage *)
(* as its latest event, and every recovery follows the outage it ends      *)
(* (health.service.ts:105-119).  Two at once break the second: see         *)
(* MC_health_double.                                                       *)
THEOREM SerialHistory ==
  ASSUME OneAtATime
  PROVE  HealthSpec => []OutageOnRecord /\ []RecoveryEndsOutage
<1>1. HealthInit => SerialInv
  BY DEF HealthInit, SerialInv, PriorIsRow, PriorRead, EmittedAsCalled, OutageOnRecord,
     RecoveryEndsOutage, Row, OfflineStatuses
<1>2. HealthInv /\ SerialInv /\ [HealthNext]_healthVars => SerialInv'
  BY SerialInvStep
<1>3. SerialInv => OutageOnRecord /\ RecoveryEndsOutage
  BY DEF SerialInv
<1>. QED  BY <1>1, <1>2, <1>3, HealthInvariance, PTL DEF HealthSpec

-----------------------------------------------------------------------------
(***************************************************************************)
(* CameraFeed                                                              *)
(***************************************************************************)

(* A source that is not created yet has done nothing, and one that runs    *)
(* has not ended.                                                          *)
SourcesInOrder ==
  \A i \in Source :
    /\ i > created => source[i] = NewSource
    /\ source[i].process = "running" => source[i].retryDelay = 0

Busy(statuses) == {t \in Tx : pc[t] # "idle" /\ local[t].report \in statuses}

(* Each ended stream is one OFFLINE report, which is under way, being      *)
(* processed, lost, or an event on record; each failed connection test is  *)
(* being processed, lost, or an event on record.                           *)
OutagesCounted ==
  /\ failedTests \in Nat
  /\ IsFiniteSet(Busy(OfflineStatuses))
  /\ Cardinality(Occurrences("CAMERA_OFFLINE")) + outbox["OFFLINE"]
       + Cardinality(Busy(OfflineStatuses)) <= Cardinality(Outages) + failedTests

(* The camera has delivered a frame or answered a test. *)
Alive == Delivered # {} \/ reached

(* ONLINE is reported only of frames, however late, or by such a test.     *)
OnlineOfFrames ==
  (\/ counted \/ inference # "idle" \/ outbox["ONLINE"] > 0
   \/ Busy({"ONLINE"}) # {} \/ Occurrences("CAMERA_RECOVERED") # {}) => Alive

(* Whoever has seen the camera offline can find an outage on record, until *)
(* the camera is deleted with its record.                                  *)
OfflineOnRecord ==
  IF row = Nil THEN log = << >>
  ELSE (\/ row.status \in OfflineStatuses
        \/ \E t \in Tx : PriorRead(t) /\ local[t].prior \in OfflineStatuses
        \/ Occurrences("CAMERA_RECOVERED") # {}) => Occurrences("CAMERA_OFFLINE") # {}

FeedInv ==
  /\ PipelineInv /\ HealthInv
  /\ SourcesInOrder /\ OutagesCounted /\ EmittedAsCalled
  /\ OnlineOfFrames /\ OfflineOnRecord

-----------------------------------------------------------------------------
(* Every step of the feed is a step of its parts or leaves them alone.     *)
LEMMA FeedStep == [Next]_vars => [PipelineNext]_pipelineVars /\ [HealthNext]_healthVars
<1>. SUFFICES ASSUME [Next]_vars
              PROVE  [PipelineNext]_pipelineVars /\ [HealthNext]_healthVars
  OBVIOUS
<1>1. CASE WorkerStep
  BY <1>1 DEF WorkerStep, PipelineNext
<1>2. CASE ApiStep
  BY <1>2 DEF ApiStep, HealthNext
<1>3. ASSUME NEW status \in WorkerStatus, Lose(status) \/ \E t \in Tx : Deliver(t, status)
      PROVE  [PipelineNext]_pipelineVars /\ [HealthNext]_healthVars
  BY <1>3, ReportAssumption DEF Lose, Deliver, PipelineNext, HealthNext
<1>4. ASSUME NEW t \in Tx, NEW status \in TestStatus, TestConnection(t, status)
      PROVE  [PipelineNext]_pipelineVars /\ [HealthNext]_healthVars
  BY <1>4, ReportAssumption DEF TestConnection, HealthNext
<1>5. CASE Delete
  BY <1>5 DEF Delete, HealthNext
<1>6. CASE UNCHANGED vars
  BY <1>6 DEF vars
<1>. QED  BY <1>1, <1>2, <1>3, <1>4, <1>5, <1>6 DEF Next

(* The composition implements both of its parts, whatever happens to the   *)
(* reports between them: all that is proved of a pipeline and of the       *)
(* health updates holds in it.                                             *)
THEOREM FeedImplementsParts == Spec => PipelineSpec /\ HealthSpec
<1>1. Init => PipelineInit /\ HealthInit
  BY DEF Init
<1>. QED  BY <1>1, FeedStep, PTL DEF Spec, PipelineSpec, HealthSpec

(* A stream that starts leaves what the sources have been through.         *)
LEMMA StartingKeepsHistory ==
  ASSUME PipelineInv, SourcesInOrder, StartStream
  PROVE  /\ SourcesInOrder'
         /\ \A i \in Source : /\ source'[i].delivered = source[i].delivered
                              /\ source'[i].retryDelay = source[i].retryDelay
         /\ outbox' = With(outbox, "CONNECTING")
<1>1. PICK spawned \in {"running"} \cup IF SpawnMayFail THEN {"failed"} ELSE {} :
        source' = [i \in Source |->
          IF i = created' THEN [NewSource EXCEPT !.process = spawned,
                                  !.child = TRUE, !.listening = TRUE]
          ELSE IF i = current THEN [source[i] EXCEPT !.listening = FALSE]
          ELSE source[i]]
  BY DEF StartStream
<1>2. /\ created' \in Source /\ created' = created + 1 /\ created \in Nat
      /\ current = 0 \/ current = created
      /\ \A i \in Source : i \in Nat /\ source[i] \in SourceState
  BY PipelineConstants DEF StartStream, PipelineInv, PipelineTypeOK, Source, LatestOnly
<1>3. /\ source[created'] = NewSource /\ source'[created'].retryDelay = 0
      /\ source'[created'].delivered = FALSE
      /\ NewSource.retryDelay = 0 /\ NewSource.delivered = FALSE
  <2>1. source[created'] = NewSource
    BY <1>2 DEF SourcesInOrder
  <2>2. source'[created'] = [NewSource EXCEPT !.process = spawned,
                               !.child = TRUE, !.listening = TRUE]
    BY <1>1, <1>2
  <2>. QED  BY <2>1, <2>2 DEF NewSource
<1>4. ASSUME NEW i \in Source, i # created'
      PROVE  /\ source'[i].delivered = source[i].delivered
             /\ source'[i].retryDelay = source[i].retryDelay
             /\ source'[i].process = source[i].process
             /\ i > created' => source'[i] = source[i]
  BY <1>1, <1>2, <1>4 DEF SourceState
<1>5. ASSUME NEW i \in Source
      PROVE  /\ i > created' => source'[i] = NewSource
             /\ source'[i].process = "running" => source'[i].retryDelay = 0
  <2>1. /\ i > created => source[i] = NewSource
        /\ source[i].process = "running" => source[i].retryDelay = 0
    BY DEF SourcesInOrder
  <2>2. CASE i = created'
    BY <1>2, <1>3, <2>2
  <2>3. CASE i # created'
    <3>1. i > created' => i > created
      BY <1>2
    <3>. QED  BY <1>4, <2>1, <2>3, <3>1
  <2>. QED  BY <2>2, <2>3
<1>6. SourcesInOrder'
  BY <1>5 DEF SourcesInOrder
<1>. QED  BY <1>3, <1>4, <1>6 DEF StartStream

(* What a step of the worker does to the history of its streams and to     *)
(* the reports that the record depends on.                                 *)
LEMMA WorkerKeepsHistory ==
  ASSUME PipelineInv, SourcesInOrder, Step
  PROVE  /\ SourcesInOrder'
         /\ \A i \in Source : source[i].delivered => source'[i].delivered
         /\ \A i \in Source : source[i].retryDelay # 0 => source'[i].retryDelay # 0
         /\ \/ outbox'["OFFLINE"] = outbox["OFFLINE"]
            \/ /\ outbox'["OFFLINE"] = outbox["OFFLINE"] + 1
               /\ \E i \in Source : source[i].retryDelay = 0 /\ source'[i].retryDelay # 0
         /\ counted' \/ inference' # "idle" \/ outbox'["ONLINE"] > 0 =>
              \/ counted \/ inference # "idle" \/ outbox["ONLINE"] > 0
              \/ \E i \in Source : source'[i].delivered
<1>. DEFINE Same(i) == /\ source'[i].delivered = source[i].delivered
                       /\ source'[i].retryDelay = source[i].retryDelay
            Online == counted' \/ inference' # "idle" \/ outbox'["ONLINE"] > 0 =>
                        \/ counted \/ inference # "idle" \/ outbox["ONLINE"] > 0
                        \/ \E i \in Source : source'[i].delivered
<1>0. /\ source \in [Source -> SourceState] /\ outbox \in [WorkerStatus -> Nat]
      /\ \A i \in Source : i \in Nat /\ source[i] \in SourceState
      /\ created \in Nat /\ {"OFFLINE", "ONLINE", "CONNECTING", "RECONNECTING"} = WorkerStatus
      /\ outbox["OFFLINE"] \in Nat /\ outbox["ONLINE"] \in Nat
  BY PipelineConstants DEF PipelineInv, PipelineTypeOK, WorkerStatus, Source
<1>1. ASSUME StartStream, UNCHANGED <<counted, inference>>
      PROVE  /\ SourcesInOrder' /\ \A i \in Source : Same(i)
             /\ outbox'["OFFLINE"] = outbox["OFFLINE"] /\ Online
  <2>1. outbox'["OFFLINE"] = outbox["OFFLINE"] /\ outbox'["ONLINE"] = outbox["ONLINE"]
    BY SMTT(30), <1>0, <1>1, StartingKeepsHistory, WithType
  <2>. QED  BY <1>1, <2>1, StartingKeepsHistory
<1>2. CASE Start \/ Reconnect
  <2>1. CASE StartStream
    BY <1>1, <1>2, <2>1 DEF Start, Reconnect
  <2>2. CASE UNCHANGED <<created, source, outbox, counted, inference>>
    BY <2>2 DEF SourcesInOrder
  <2>. QED  BY <1>2, <2>1, <2>2 DEF Start, Reconnect
<1>3. CASE Stop
  <2>1. ASSUME NEW i \in Source
        PROVE  /\ Same(i) /\ source'[i].process = source[i].process
               /\ i > created => source'[i] = source[i]
    <3>1. CASE i # current
      BY <1>3, <3>1 DEF Stop
    <3>2. CASE i = current
      <4>1. source[i] \in SourceState /\ current <= created
        BY <1>0, <3>2 DEF PipelineInv, LatestOnly
      <4>2. CASE ~source[i].child
        <5>1. source'[i] = [source[i] EXCEPT !.stopped = TRUE]
          BY <1>3, <3>2, <4>2 DEF Stop
        <5>. QED  BY <1>0, <3>2, <4>1, <5>1 DEF SourceState
      <4>3. CASE source[i].child
        <5>. DEFINE sent == source[i].process = "running"
        <5>1. source'[i] = [source[i] EXCEPT
                              !.stopped = TRUE, !.child = FALSE, !.killTimer = TRUE,
                              !.killed = sent,
                              !.signal = IF sent THEN "TERM" ELSE "none"]
          BY <1>3, <3>2, <4>3 DEF Stop
        <5>. HIDE DEF sent
        <5>. QED  BY <1>0, <3>2, <4>1, <5>1 DEF SourceState
      <4>. QED  BY <4>2, <4>3
    <3>. QED  BY <3>1, <3>2
  <2>2. UNCHANGED <<created, outbox, counted, inference>>
    BY <1>3 DEF Stop
  <2>. QED  BY <2>1, <2>2 DEF SourcesInOrder
<1>4. ASSUME NEW i \in Source, Exit(i)
      PROVE  /\ SourcesInOrder'
             /\ \A j \in Source : source'[j].delivered = source[j].delivered
             /\ \A j \in Source : source[j].retryDelay # 0 => source'[j].retryDelay # 0
             /\ \/ outbox'["OFFLINE"] = outbox["OFFLINE"]
                \/ /\ outbox'["OFFLINE"] = outbox["OFFLINE"] + 1
                   /\ source[i].retryDelay = 0 /\ source'[i].retryDelay # 0
             /\ outbox'["ONLINE"] = outbox["ONLINE"]
             /\ UNCHANGED <<counted, inference>>
  <2>1. /\ source[i].process = "running" /\ i = created /\ source[i] \in SourceState
        /\ source[i].retryDelay = 0
        /\ UNCHANGED <<created, counted, inference>>
    BY <1>0, <1>4 DEF Exit, PipelineInv, LatestOnly, SourcesInOrder
  <2>2. ASSUME NEW j \in Source, j # i PROVE source'[j] = source[j]
    BY <1>0, <1>4, <2>2 DEF Exit, ExitHandled
  <2>3. CASE stopped
    <3>1. UNCHANGED outbox
          /\ source' = [source EXCEPT ![i].process = "exited", ![i].child = FALSE]
      BY <1>4, <2>1, <2>3 DEF Exit, ExitHandled, PipelineInv, Attended
    <3>2. source'[i].process = "exited" /\ Same(i)
      BY <1>0, <2>1, <3>1 DEF SourceState
    <3>. QED  BY <1>0, <2>1, <2>2, <3>1, <3>2 DEF SourcesInOrder
  <2>4. CASE ~stopped
    <3>1. /\ attempts' = attempts + 1
          /\ timer' = RetryDelay(attempts')
          /\ outbox' = With(With(outbox, "OFFLINE"), "RECONNECTING")
          /\ source' = [source EXCEPT ![i].process = "exited", ![i].child = FALSE,
                                      ![i].retryDelay = timer']
      BY <1>4, <2>1, <2>4 DEF Exit, ExitHandled, PipelineInv, Attended
    <3>2. timer' \in 1..MaxDelay
      <4>1. attempts' \in Nat \ {0}
        BY <3>1 DEF PipelineInv, PipelineTypeOK
      <4>. QED  BY <3>1, <4>1, DelayInRange
    <3>3. timer' # 0
      BY <3>2
    <3>4. /\ source'[i].process = "exited" /\ source'[i].retryDelay = timer'
          /\ source'[i].delivered = source[i].delivered
      BY <1>0, <2>1, <3>1 DEF SourceState
    <3>5. /\ With(outbox, "OFFLINE") \in [WorkerStatus -> Nat]
          /\ With(outbox, "OFFLINE")["OFFLINE"] = outbox["OFFLINE"] + 1
          /\ With(outbox, "OFFLINE")["ONLINE"] = outbox["ONLINE"]
      BY <1>0 DEF With
    <3>6. /\ outbox'["OFFLINE"] = outbox["OFFLINE"] + 1
          /\ outbox'["ONLINE"] = outbox["ONLINE"]
      BY <1>0, <3>1, <3>5, WithType
    <3>. QED  BY <1>0, <2>1, <2>2, <3>3, <3>4, <3>6 DEF SourcesInOrder
  <2>. QED  BY <2>3, <2>4
<1>5. ASSUME NEW i \in Source, Frame(i)
      PROVE  /\ SourcesInOrder' /\ source'[i].delivered
             /\ \A j \in Source : /\ source[j].delivered => source'[j].delivered
                                  /\ source'[j].retryDelay = source[j].retryDelay
             /\ outbox'["OFFLINE"] = outbox["OFFLINE"]
  <2>1. /\ source' = [source EXCEPT ![i].delivered = TRUE] /\ UNCHANGED created
        /\ source[i].process # "none" /\ outbox' \in {outbox, With(outbox, "ONLINE")}
    BY <1>5 DEF Frame
  <2>2. ~(i > created)
    BY <1>0, <2>1 DEF SourcesInOrder, NewSource
  <2>3. /\ source'[i].delivered /\ source'[i].retryDelay = source[i].retryDelay
        /\ source'[i].process = source[i].process
    BY <1>0, <2>1 DEF SourceState
  <2>4. \A j \in Source : j # i => source'[j] = source[j]
    BY <1>0, <2>1
  <2>5. outbox'["OFFLINE"] = outbox["OFFLINE"]
    <3>1. With(outbox, "ONLINE")["OFFLINE"] = outbox["OFFLINE"]
      BY <1>0, WithType
    <3>. QED  BY <2>1, <3>1
  <2>. QED  BY <1>0, <2>1, <2>2, <2>3, <2>4, <2>5 DEF SourcesInOrder
<1>6. ASSUME NEW i \in Source, PipeClosed(i) \/ GracePeriodEnds(i)
      PROVE  /\ SourcesInOrder' /\ \A j \in Source : Same(j)
             /\ UNCHANGED <<outbox, counted, inference>>
  <2>1. UNCHANGED <<created, outbox, counted, inference>>
    BY <1>6 DEF PipeClosed, GracePeriodEnds
  <2>2. \A j \in Source : j # i => source'[j] = source[j]
    BY <1>0, <1>6 DEF PipeClosed, GracePeriodEnds
  <2>3. ~(i > created)
    BY <1>0, <1>6 DEF SourcesInOrder, NewSource, PipeClosed, GracePeriodEnds
  <2>4. Same(i) /\ (source'[i].process = "running" => source[i].process = "running")
    <3>1. CASE PipeClosed(i)
      BY <1>0, <3>1 DEF PipeClosed, SourceState
    <3>2. CASE GracePeriodEnds(i)
      BY <1>0, <3>2 DEF GracePeriodEnds, SourceState
    <3>. QED  BY <1>6, <3>1, <3>2
  <2>. QED  BY <1>0, <2>1, <2>2, <2>3, <2>4 DEF SourcesInOrder
<1>7. CASE InferenceAnswers
  <2>1. outbox'["OFFLINE"] = outbox["OFFLINE"]
    BY <1>0, <1>7, WithType DEF InferenceAnswers
  <2>. QED  BY <1>7, <2>1 DEF InferenceAnswers, SourcesInOrder
<1>8. CASE InferenceEnds \/ FlushStats
  <2>1. /\ UNCHANGED <<created, source, outbox>>
        /\ counted' => counted
        /\ inference' # "idle" => inference # "idle"
    BY <1>8 DEF InferenceEnds, FlushStats
  <2>. QED  BY <2>1 DEF SourcesInOrder
<1>. QED
  BY <1>2, <1>3, <1>4, <1>5, <1>6, <1>7, <1>8 DEF Step

-----------------------------------------------------------------------------
LEMMA OccurrencesFinite ==
  ASSUME HealthInv, NEW event
  PROVE  IsFiniteSet(Occurrences(event)) /\ Occurrences(event) \subseteq 1..Len(log)
<1>1. log \in Seq(HealthEvent)
  BY DEF HealthInv, HealthTypeOK
<1>2. Occurrences(event) \subseteq 1..Len(log) /\ Len(log) \in Nat
  BY <1>1 DEF Occurrences
<1>3. IsFiniteSet(1..Len(log))
  BY <1>2, FS_Interval
<1>. QED  BY <1>2, <1>3, FS_Subset

(* One more event on record.                                               *)
LEMMA Recording ==
  ASSUME HealthInv, NEW event \in HealthEvent, log' = Append(log, event)
  PROVE  /\ \A e : e # event => Occurrences(e)' = Occurrences(e)
         /\ Occurrences(event)' = Occurrences(event) \cup {Len(log) + 1}
         /\ Cardinality(Occurrences(event))' = Cardinality(Occurrences(event)) + 1
<1>1. log \in Seq(HealthEvent) /\ Len(log) \in Nat
  BY DEF HealthInv, HealthTypeOK
<1>2. /\ Len(log') = Len(log) + 1 /\ DOMAIN log' = 1..(Len(log) + 1)
      /\ \A i \in 1..Len(log) : log'[i] = log[i]
      /\ log'[Len(log) + 1] = event /\ DOMAIN log = 1..Len(log)
  BY <1>1
<1>3. \A e : e # event => Occurrences(e)' = Occurrences(e)
  BY <1>1, <1>2 DEF Occurrences
<1>4. Occurrences(event)' = Occurrences(event) \cup {Len(log) + 1}
  BY <1>1, <1>2 DEF Occurrences
<1>5. IsFiniteSet(Occurrences(event)) /\ Len(log) + 1 \notin Occurrences(event)
  BY <1>1, OccurrencesFinite
<1>6. Cardinality(Occurrences(event) \cup {Len(log) + 1}) = Cardinality(Occurrences(event)) + 1
  BY <1>5, FS_AddElement
<1>. QED  BY <1>3, <1>4, <1>6

LEMMA BeginningEffect ==
  ASSUME HealthInv, NEW t \in Tx, NEW status \in Report, Begin(t, status)
  PROVE  /\ \A S : status \in S => t \notin Busy(S) /\ Busy(S)' = Busy(S) \cup {t}
         /\ \A S : status \notin S => Busy(S)' = Busy(S)
         /\ \A u \in Tx : /\ PriorRead(u)' = PriorRead(u)
                          /\ local'[u].prior = local[u].prior
         /\ EmittedAsCalled => EmittedAsCalled'
         /\ UNCHANGED <<row, log>>
<1>1. /\ pc[t] = "idle" /\ pc' = [pc EXCEPT ![t] = "read"]
      /\ local' = [local EXCEPT ![t].report = status] /\ UNCHANGED <<row, log>>
  BY DEF Begin
<1>2. /\ pc'[t] = "read" /\ local'[t].report = status
      /\ local'[t].prior = local[t].prior
      /\ \A u \in Tx : u # t => pc'[u] = pc[u] /\ local'[u] = local[u]
  BY <1>1 DEF HealthInv, HealthTypeOK
<1>3. \A u \in Tx : PriorRead(u)' = PriorRead(u)
  BY <1>1, <1>2 DEF PriorRead
<1>4. \A S : status \in S => t \notin Busy(S) /\ Busy(S)' = Busy(S) \cup {t}
  BY <1>1, <1>2 DEF Busy
<1>5. \A S : status \notin S => Busy(S)' = Busy(S)
  BY <1>1, <1>2 DEF Busy
<1>6. EmittedAsCalled => EmittedAsCalled'
  BY <1>1, <1>2 DEF EmittedAsCalled
<1>. QED  BY <1>1, <1>2, <1>3, <1>4, <1>5, <1>6

(* What a step of a request does to the record: nothing, or it commits     *)
(* the event its report calls for and is over.                             *)
LEMMA ProcessEffect ==
  ASSUME HealthInv, EmittedAsCalled, NEW t \in Tx, Process(t)
  PROVE  /\ EmittedAsCalled'
         /\ \A S : Busy(S)' \subseteq Busy(S)
         /\ \A u \in Tx : PriorRead(u)' =>
              \/ PriorRead(u) /\ local'[u].prior = local[u].prior
              \/ local'[u].prior = row.status /\ UNCHANGED <<row, log>>
         /\ \/ UNCHANGED <<row, log>>
            \/ LET event == Emitted(local[t].prior, local[t].report) IN
               /\ PriorRead(t) /\ \A S : local[t].report \in S => t \in Busy(S)
               /\ row # Nil /\ row' # Nil /\ row' \in {row, Row(local[t].report)}
               /\ log' = IF event = Nil THEN log ELSE Append(log, event)
               /\ \A S : t \notin Busy(S)'
<1>. DEFINE Effect ==
       /\ EmittedAsCalled'
       /\ \A S : Busy(S)' \subseteq Busy(S)
       /\ \A u \in Tx : PriorRead(u)' =>
            \/ PriorRead(u) /\ local'[u].prior = local[u].prior
            \/ local'[u].prior = row.status /\ UNCHANGED <<row, log>>
<1>0. /\ pc \in [Tx -> Stage]
      /\ local \in [Tx -> [report : Report \cup {Nil}, prior : Status \cup {Nil},
                           emitted : HealthEvent \cup {Nil}]]
  BY DEF HealthInv, HealthTypeOK
<1>1. ASSUME EndTransaction(t) PROVE Effect /\ \A S : t \notin Busy(S)'
  <2>1. pc'[t] = "idle" /\ \A u \in Tx : u # t => pc'[u] = pc[u] /\ local'[u] = local[u]
    BY <1>0, <1>1 DEF EndTransaction
  <2>. QED  BY <1>1, <2>1 DEF EmittedAsCalled, Busy, PriorRead
<1>2. CASE ReadPrior(t)
  <2>1. CASE EndTransaction(t)
    BY <1>1, <1>2, <2>1 DEF ReadPrior
  <2>2. CASE ~EndTransaction(t)
    <3>1. /\ pc[t] = "read" /\ local' = [local EXCEPT ![t].prior = row.status]
          /\ pc' = [pc EXCEPT ![t] = "update"] /\ UNCHANGED <<row, log>>
      BY <1>0, <1>2, <2>2 DEF ReadPrior
    <3>2. /\ pc'[t] = "update" /\ local'[t].prior = row.status
          /\ local'[t].report = local[t].report
          /\ \A u \in Tx : u # t => pc'[u] = pc[u] /\ local'[u] = local[u]
      BY <1>0, <3>1
    <3>. QED  BY <3>1, <3>2 DEF EmittedAsCalled, Busy, PriorRead
  <2>. QED  BY <2>1, <2>2
<1>3. CASE UpdateRow(t)
  <2>1. /\ pc[t] = "update" /\ pc' = [pc EXCEPT ![t] = "emit"]
        /\ UNCHANGED <<row, log, local>>
    BY <1>3 DEF UpdateRow
  <2>2. pc'[t] = "emit" /\ \A u \in Tx : u # t => pc'[u] = pc[u]
    BY <1>0, <2>1
  <2>. QED  BY <2>1, <2>2 DEF EmittedAsCalled, Busy, PriorRead
<1>4. CASE Emit(t)
  <2>. DEFINE event == Emitted(local[t].prior, local[t].report)
  <2>1. UNCHANGED <<row, log>>
    BY <1>4 DEF Emit
  <2>2. CASE EndTransaction(t)
    BY <1>0, <1>1, <2>1, <2>2
  <2>3. CASE /\ pc[t] = "emit" /\ local' = [local EXCEPT ![t].emitted = event]
             /\ pc' = [pc EXCEPT ![t] = "commit"]
    <3>1. /\ pc'[t] = "commit" /\ local'[t].emitted = event
          /\ local'[t].prior = local[t].prior /\ local'[t].report = local[t].report
          /\ \A u \in Tx : u # t => pc'[u] = pc[u] /\ local'[u] = local[u]
      BY <1>0, <2>3
    <3>. QED  BY <2>1, <2>3, <3>1 DEF EmittedAsCalled, Busy, PriorRead
  <2>. QED  BY <1>4, <2>2, <2>3 DEF Emit
<1>5. CASE Commit(t)
  <2>. DEFINE event == Emitted(local[t].prior, local[t].report)
  <2>1. /\ pc[t] = "commit" /\ EndTransaction(t) /\ local[t].emitted = event
        /\ row' = IF rowLock = t THEN Row(local[t].report) ELSE row
        /\ log' = IF event = Nil THEN log ELSE Append(log, event)
        /\ event # Nil => rowLock = t
        /\ rowLock = t => row # Nil
    BY <1>5, HealthConstants DEF Commit, EmittedAsCalled, HealthInv, EventHeld, RowHeld
  <2>2. row # Nil => row' # Nil
    <3>1. local[t].report \in Status
      BY <2>1, HealthConstants DEF HealthInv, Reporting
    <3>. QED  BY <2>1, <3>1, RowType, HealthConstants
  <2>3. Effect /\ \A S : t \notin Busy(S)'
    BY <1>1, <2>1
  <2>4. PriorRead(t) /\ \A S : local[t].report \in S => t \in Busy(S)
    BY <2>1 DEF PriorRead, Busy
  <2>. HIDE DEF event, Effect
  <2>5. CASE row = Nil
    BY <2>1, <2>3, <2>5 DEF Effect
  <2>6. CASE row # Nil
    BY <2>1, <2>2, <2>3, <2>4, <2>6 DEF event, Effect
  <2>. QED  BY <2>5, <2>6
<1>6. CASE Rollback(t)
  BY <1>1, <1>6 DEF Rollback
<1>. QED  BY <1>2, <1>3, <1>4, <1>5, <1>6 DEF Process

(* An event on record was called for by the report that committed it.      *)
LEMMA RecordingEffect ==
  ASSUME HealthInv, NEW event \in HealthEvent \cup {Nil},
         log' = IF event = Nil THEN log ELSE Append(log, event)
  PROVE  \A e \in HealthEvent :
           /\ Occurrences(e) \subseteq Occurrences(e)'
           /\ e # event => Occurrences(e)' = Occurrences(e)
           /\ e = event => /\ Occurrences(e)' # {}
                           /\ Cardinality(Occurrences(e))' = Cardinality(Occurrences(e)) + 1
<1>1. CASE event = Nil
  <2>1. \A e \in HealthEvent : e # event
    BY <1>1, HealthConstants
  <2>2. log' = log
    BY <1>1
  <2>. QED  BY <2>1, <2>2 DEF Occurrences
<1>2. CASE event # Nil
  <2>1. event \in HealthEvent /\ log' = Append(log, event)
    BY <1>2
  <2>2. /\ \A e : e # event => Occurrences(e)' = Occurrences(e)
        /\ Occurrences(event)' = Occurrences(event) \cup {Len(log) + 1}
        /\ Cardinality(Occurrences(event))' = Cardinality(Occurrences(event)) + 1
    BY <2>1, Recording
  <2>3. ASSUME NEW e \in HealthEvent, e # event
        PROVE  Occurrences(e)' = Occurrences(e)
    BY <2>2, <2>3
  <2>4. Occurrences(event) \subseteq Occurrences(event)' /\ Occurrences(event)' # {}
    BY <2>2
  <2>. QED  BY <2>2, <2>3, <2>4
<1>. QED  BY <1>1, <1>2

(* What each event on record presupposes.                                  *)
LEMMA EmittedMeans ==
  ASSUME NEW prior, NEW status
  PROVE  /\ Emitted(prior, status) \in HealthEvent \cup {Nil}
         /\ Emitted(prior, status) = "CAMERA_OFFLINE" => status \in OfflineStatuses
         /\ Emitted(prior, status) = "CAMERA_RECOVERED" =>
              status = "ONLINE" /\ prior \in OfflineStatuses
         /\ status \in OfflineStatuses =>
              prior \in OfflineStatuses \/ Emitted(prior, status) = "CAMERA_OFFLINE"
BY HealthConstants DEF Emitted, HealthEvent, OfflineStatuses

LEMMA OutagesFinite == IsFiniteSet(Outages) /\ IsFiniteSet(Outages')
<1>1. IsFiniteSet(Source)
  BY PipelineConstants, FS_Interval DEF Source
<1>. QED  BY <1>1, FS_Subset DEF Outages

LEMMA FeedInvInit == Init => FeedInv
<1>. SUFFICES ASSUME Init PROVE FeedInv
  OBVIOUS
<1>1. PipelineInv /\ HealthInv
  BY PipelineInvInit, HealthInvInit DEF Init
<1>2. SourcesInOrder
  BY DEF Init, PipelineInit, SourcesInOrder, NewSource
<1>3. /\ \A s : Busy(s) = {} /\ Occurrences(s) = {}
      /\ \A t \in Tx : ~PriorRead(t) /\ pc[t] = "idle"
      /\ row = Row("UNKNOWN") /\ row # Nil /\ failedTests = 0
  BY RowType, HealthConstants DEF Init, HealthInit, Busy, Occurrences, PriorRead, Status
<1>4. outbox["OFFLINE"] = 0 /\ outbox["ONLINE"] = 0 /\ ~counted /\ inference = "idle"
  BY DEF Init, PipelineInit, WorkerStatus
<1>5. OutagesCounted
  <2>1. Cardinality({}) = 0 /\ IsFiniteSet({})
    BY FS_EmptySet
  <2>2. Cardinality(Outages) \in Nat
    BY OutagesFinite, FS_CardinalityType
  <2>. QED  BY <1>3, <1>4, <2>1, <2>2 DEF OutagesCounted
<1>6. EmittedAsCalled
  BY <1>3 DEF EmittedAsCalled
<1>7. OnlineOfFrames
  BY <1>3, <1>4 DEF OnlineOfFrames
<1>8. OfflineOnRecord
  BY <1>3 DEF OfflineOnRecord, Row, OfflineStatuses
<1>. QED  BY <1>1, <1>2, <1>5, <1>6, <1>7, <1>8 DEF FeedInv

(* The worker adds to the history and to what is under way.                *)
LEMMA WorkerKeepsFeed ==
  ASSUME FeedInv, WorkerStep
  PROVE  SourcesInOrder' /\ OutagesCounted' /\ EmittedAsCalled'
         /\ OnlineOfFrames' /\ OfflineOnRecord'
<1>0. /\ PipelineInv /\ SourcesInOrder /\ Step /\ UNCHANGED <<healthVars, failedTests, reached>>
      /\ outbox["OFFLINE"] \in Nat
  BY DEF FeedInv, WorkerStep, PipelineInv, PipelineTypeOK, WorkerStatus, testVars
<1>1. /\ SourcesInOrder'
      /\ \A i \in Source : source[i].delivered => source'[i].delivered
      /\ \A i \in Source : source[i].retryDelay # 0 => source'[i].retryDelay # 0
      /\ \/ outbox'["OFFLINE"] = outbox["OFFLINE"]
         \/ /\ outbox'["OFFLINE"] = outbox["OFFLINE"] + 1
            /\ \E i \in Source : source[i].retryDelay = 0 /\ source'[i].retryDelay # 0
      /\ counted' \/ inference' # "idle" \/ outbox'["ONLINE"] > 0 =>
           \/ counted \/ inference # "idle" \/ outbox["ONLINE"] > 0
           \/ \E i \in Source : source'[i].delivered
  BY <1>0, WorkerKeepsHistory
<1>2. /\ \A s : Busy(s)' = Busy(s) /\ Occurrences(s)' = Occurrences(s)
      /\ \A t \in Tx : PriorRead(t)' = PriorRead(t)
      /\ UNCHANGED <<row, log, pc, local>>
  BY <1>0 DEF healthVars, Busy, Occurrences, PriorRead
<1>3. OutagesCounted'
  <2>1. Outages \subseteq Outages'
    BY <1>1 DEF Outages
  <2>2. /\ Cardinality(Outages) \in Nat /\ Cardinality(Outages') \in Nat
        /\ Cardinality(Outages) <= Cardinality(Outages')
    BY <2>1, OutagesFinite, FS_Subset, FS_CardinalityType
  <2>3. /\ Cardinality(Occurrences("CAMERA_OFFLINE")) \in Nat
        /\ Cardinality(Busy(OfflineStatuses)) \in Nat /\ failedTests \in Nat
    BY OccurrencesFinite, FS_CardinalityType DEF FeedInv, OutagesCounted
  <2>4. CASE outbox'["OFFLINE"] = outbox["OFFLINE"]
    BY <1>0, <1>2, <2>2, <2>3, <2>4 DEF FeedInv, OutagesCounted
  <2>5. CASE /\ outbox'["OFFLINE"] = outbox["OFFLINE"] + 1
             /\ \E i \in Source : source[i].retryDelay = 0 /\ source'[i].retryDelay # 0
    <3>1. PICK i \in Source : i \notin Outages /\ i \in Outages'
      BY <2>5 DEF Outages
    <3>2. Cardinality(Outages \cup {i}) = Cardinality(Outages) + 1
      BY <3>1, OutagesFinite, FS_AddElement
    <3>3. Outages \cup {i} \subseteq Outages'
      BY <2>1, <3>1
    <3>4. Cardinality(Outages \cup {i}) <= Cardinality(Outages')
      BY <3>3, OutagesFinite, FS_Subset
    <3>. QED  BY <1>0, <1>2, <2>2, <2>3, <2>5, <3>2, <3>4 DEF FeedInv, OutagesCounted
  <2>. QED  BY <1>1, <2>4, <2>5
<1>4. EmittedAsCalled'
  BY <1>2 DEF FeedInv, EmittedAsCalled
<1>5. OnlineOfFrames'
  <2>1. Delivered \subseteq Delivered' /\ (Alive => Alive')
    BY <1>0, <1>1 DEF Delivered, Alive
  <2>2. (\E i \in Source : source'[i].delivered) => Alive'
    BY DEF Delivered, Alive
  <2>. QED  BY <1>1, <1>2, <2>1, <2>2 DEF FeedInv, OnlineOfFrames
<1>6. OfflineOnRecord'
  BY <1>2 DEF FeedInv, OfflineOnRecord
<1>. QED  BY <1>1, <1>3, <1>4, <1>5, <1>6

(* A request that is processed ends with at most the event that its report *)
(* calls for, and no longer counts as busy then.                           *)
LEMMA ApiKeepsFeed ==
  ASSUME FeedInv, ApiStep
  PROVE  SourcesInOrder' /\ OutagesCounted' /\ EmittedAsCalled'
         /\ OnlineOfFrames' /\ OfflineOnRecord'
<1>1. PICK t \in Tx : Process(t)
  BY DEF ApiStep
<1>. DEFINE report == local[t].report
            prior == local[t].prior
            event == Emitted(prior, report)
<1>2. /\ HealthInv /\ EmittedAsCalled /\ OutagesCounted /\ OnlineOfFrames /\ OfflineOnRecord
      /\ UNCHANGED <<pipelineVars, failedTests, reached>>
  BY DEF FeedInv, ApiStep, testVars
<1>3. /\ EmittedAsCalled'
      /\ \A s : Busy(s)' \subseteq Busy(s)
      /\ \A u \in Tx : PriorRead(u)' =>
           \/ PriorRead(u) /\ local'[u].prior = local[u].prior
           \/ local'[u].prior = row.status /\ UNCHANGED <<row, log>>
      /\ \/ UNCHANGED <<row, log>>
         \/ /\ PriorRead(t) /\ \A S : report \in S => t \in Busy(S)
            /\ row # Nil /\ row' # Nil /\ row' \in {row, Row(report)}
            /\ log' = IF event = Nil THEN log ELSE Append(log, event)
            /\ \A s : t \notin Busy(s)'
  BY <1>1, <1>2, ProcessEffect
<1>4. SourcesInOrder'
  BY <1>2 DEF FeedInv, SourcesInOrder, pipelineVars
<1>5. /\ Alive' = Alive /\ Outages' = Outages
      /\ UNCHANGED <<outbox, counted, inference, failedTests>>
  BY <1>2 DEF Alive, Delivered, Outages, pipelineVars
<1>6. /\ IsFiniteSet(Busy(OfflineStatuses)') /\ Cardinality(Busy(OfflineStatuses)') \in Nat
      /\ Cardinality(Busy(OfflineStatuses)) \in Nat
      /\ Cardinality(Busy(OfflineStatuses)') <= Cardinality(Busy(OfflineStatuses))
  BY <1>2, <1>3, FS_Subset, FS_CardinalityType DEF OutagesCounted
<1>7. /\ Cardinality(Occurrences("CAMERA_OFFLINE")) \in Nat
      /\ Cardinality(Outages) \in Nat /\ outbox["OFFLINE"] \in Nat /\ failedTests \in Nat
  BY <1>2, OccurrencesFinite, OutagesFinite, FS_CardinalityType
     DEF FeedInv, PipelineInv, PipelineTypeOK, WorkerStatus, OutagesCounted
<1>8. CASE UNCHANGED <<row, log>>
  <2>1. \A e : Occurrences(e)' = Occurrences(e)
    BY <1>8 DEF Occurrences
  <2>2. OutagesCounted'
    BY <1>2, <1>5, <1>6, <1>7, <2>1 DEF OutagesCounted
  <2>3. OnlineOfFrames'
    BY <1>2, <1>3, <1>5, <2>1 DEF OnlineOfFrames
  <2>4. OfflineOnRecord'
    BY <1>2, <1>3, <1>8, <2>1 DEF OfflineOnRecord
  <2>. QED  BY <1>3, <1>4, <2>2, <2>3, <2>4
<1>9. CASE /\ PriorRead(t) /\ \A S : report \in S => t \in Busy(S)
           /\ row # Nil /\ row' # Nil /\ row' \in {row, Row(report)}
           /\ log' = IF event = Nil THEN log ELSE Append(log, event)
           /\ \A s : t \notin Busy(s)'
  <2>2. /\ event \in HealthEvent \cup {Nil}
        /\ event = "CAMERA_OFFLINE" => report \in OfflineStatuses
        /\ event = "CAMERA_RECOVERED" => report = "ONLINE" /\ prior \in OfflineStatuses
        /\ report \in OfflineStatuses =>
             prior \in OfflineStatuses \/ event = "CAMERA_OFFLINE"
    BY EmittedMeans
  <2>. HIDE DEF event, prior, report
  <2>3. \A e \in HealthEvent :
           /\ Occurrences(e) \subseteq Occurrences(e)'
           /\ e # event => Occurrences(e)' = Occurrences(e)
           /\ e = event => /\ Occurrences(e)' # {}
                           /\ Cardinality(Occurrences(e))' = Cardinality(Occurrences(e)) + 1
    BY <1>2, <1>9, <2>2, RecordingEffect
  <2>4. {"CAMERA_OFFLINE", "CAMERA_RECOVERED"} \subseteq HealthEvent
    BY DEF HealthEvent
  <2>5. OutagesCounted'
    <3>1. CASE event = "CAMERA_OFFLINE"
      <4>1. /\ t \in Busy(OfflineStatuses) /\ t \notin Busy(OfflineStatuses)'
        BY <1>9, <2>2, <3>1
      <4>2. /\ Busy(OfflineStatuses)' \subseteq Busy(OfflineStatuses) \ {t}
            /\ IsFiniteSet(Busy(OfflineStatuses) \ {t})
            /\ Cardinality(Busy(OfflineStatuses) \ {t}) = Cardinality(Busy(OfflineStatuses)) - 1
        BY <1>2, <1>3, <4>1, FS_RemoveElement DEF OutagesCounted
      <4>3. Cardinality(Busy(OfflineStatuses)') <= Cardinality(Busy(OfflineStatuses)) - 1
        BY <4>2, FS_Subset
      <4>4. Cardinality(Occurrences("CAMERA_OFFLINE"))' = Cardinality(Occurrences("CAMERA_OFFLINE")) + 1
        BY <2>3, <2>4, <3>1
      <4>. QED  BY <1>2, <1>5, <1>6, <1>7, <4>3, <4>4 DEF OutagesCounted
    <3>2. CASE event # "CAMERA_OFFLINE"
      <4>1. Occurrences("CAMERA_OFFLINE")' = Occurrences("CAMERA_OFFLINE")
        BY <2>3, <2>4, <3>2
      <4>. QED  BY <1>2, <1>5, <1>6, <1>7, <4>1 DEF OutagesCounted
    <3>. QED  BY <3>1, <3>2
  <2>6. OnlineOfFrames'
    <3>1. CASE event = "CAMERA_RECOVERED"
      BY <1>2, <1>5, <1>9, <2>2, <3>1 DEF OnlineOfFrames
    <3>2. CASE event # "CAMERA_RECOVERED"
      <4>1. Occurrences("CAMERA_RECOVERED")' = Occurrences("CAMERA_RECOVERED")
        BY <2>3, <2>4, <3>2
      <4>. QED  BY <1>2, <1>3, <1>5, <4>1 DEF OnlineOfFrames
    <3>. QED  BY <3>1, <3>2
  <2>7. OfflineOnRecord'
    <3>. SUFFICES ASSUME \/ row'.status \in OfflineStatuses
                         \/ \E u \in Tx : PriorRead(u)' /\ local'[u].prior \in OfflineStatuses
                         \/ Occurrences("CAMERA_RECOVERED")' # {}
                  PROVE  Occurrences("CAMERA_OFFLINE")' # {}
      BY <1>9 DEF OfflineOnRecord
    <3>0. prior \in OfflineStatuses => Occurrences("CAMERA_OFFLINE") # {}
      BY <1>2, <1>9 DEF OfflineOnRecord, prior
    <3>1. event = "CAMERA_OFFLINE" => Occurrences("CAMERA_OFFLINE")' # {}
      BY <2>3, <2>4
    <3>2. Occurrences("CAMERA_OFFLINE") # {} => Occurrences("CAMERA_OFFLINE")' # {}
      BY <2>3, <2>4
    <3>3. CASE row'.status \in OfflineStatuses
      <4>1. CASE row' = row
        BY <1>2, <1>9, <3>2, <3>3, <4>1 DEF OfflineOnRecord
      <4>2. CASE row' = Row(report)
        <5>1. report \in OfflineStatuses
          BY <3>3, <4>2 DEF Row
        <5>. QED  BY <2>2, <3>0, <3>1, <3>2, <5>1
      <4>. QED  BY <1>9, <4>1, <4>2
    <3>4. ASSUME NEW u \in Tx, PriorRead(u)', local'[u].prior \in OfflineStatuses
          PROVE  Occurrences("CAMERA_OFFLINE") # {}
      BY <1>2, <1>3, <1>9, <3>4 DEF OfflineOnRecord
    <3>5. CASE Occurrences("CAMERA_RECOVERED")' # {}
      <4>1. CASE event = "CAMERA_RECOVERED"
        BY <2>2, <3>0, <3>2, <4>1
      <4>2. CASE event # "CAMERA_RECOVERED"
        <5>1. Occurrences("CAMERA_RECOVERED") # {}
          BY <2>3, <2>4, <3>5, <4>2
        <5>. QED  BY <1>2, <1>9, <3>2, <5>1 DEF OfflineOnRecord
      <4>. QED  BY <4>1, <4>2
    <3>. QED  BY <3>2, <3>3, <3>4, <3>5
  <2>. QED  BY <1>3, <1>4, <2>5, <2>6, <2>7
<1>. QED  BY <1>3, <1>8, <1>9

(* A report that is lost, and one that begins to be processed.             *)
LEMMA ReportKeepsFeed ==
  ASSUME FeedInv, NEW status \in WorkerStatus,
         Lose(status) \/ \E t \in Tx : Deliver(t, status)
  PROVE  SourcesInOrder' /\ OutagesCounted' /\ EmittedAsCalled'
         /\ OnlineOfFrames' /\ OfflineOnRecord'
<1>0. /\ HealthInv /\ EmittedAsCalled /\ OutagesCounted /\ OnlineOfFrames /\ OfflineOnRecord
      /\ outbox \in [WorkerStatus -> Nat] /\ {"OFFLINE", "ONLINE"} \subseteq WorkerStatus
  BY DEF FeedInv, PipelineInv, PipelineTypeOK, WorkerStatus
<1>1. /\ outbox[status] > 0 /\ outbox' = [outbox EXCEPT ![status] = @ - 1]
      /\ UNCHANGED <<created, source, counted, inference, failedTests, reached>>
  BY DEF Lose, Deliver, ReportSettles, testVars
<1>2. /\ outbox'[status] = outbox[status] - 1
      /\ \A s \in WorkerStatus : s # status => outbox'[s] = outbox[s]
  BY <1>0, <1>1
<1>3. SourcesInOrder' /\ Alive' = Alive /\ Outages' = Outages
  BY <1>1 DEF FeedInv, SourcesInOrder, Alive, Delivered, Outages
<1>4. /\ Cardinality(Occurrences("CAMERA_OFFLINE")) \in Nat
      /\ Cardinality(Busy(OfflineStatuses)) \in Nat /\ IsFiniteSet(Busy(OfflineStatuses))
      /\ Cardinality(Outages) \in Nat /\ failedTests \in Nat
      /\ \A s \in WorkerStatus : outbox[s] \in Nat
  BY <1>0, OccurrencesFinite, OutagesFinite, FS_CardinalityType DEF OutagesCounted
<1>5. CASE Lose(status)
  <2>1. UNCHANGED <<row, log, pc, local>>
    BY <1>5 DEF Lose, healthVars
  <2>2. /\ \A s : Busy(s)' = Busy(s) /\ Occurrences(s)' = Occurrences(s)
        /\ \A t \in Tx : PriorRead(t)' = PriorRead(t)
    BY <2>1 DEF Busy, Occurrences, PriorRead
  <2>3. EmittedAsCalled' /\ OfflineOnRecord'
    BY <1>0, <2>1, <2>2 DEF EmittedAsCalled, OfflineOnRecord
  <2>4. outbox'["OFFLINE"] \in Nat /\ outbox'["OFFLINE"] <= outbox["OFFLINE"]
    BY <1>0, <1>1, <1>2, <1>4
  <2>5. OutagesCounted'
    BY <1>0, <1>1, <1>3, <1>4, <2>2, <2>4 DEF OutagesCounted
  <2>6. outbox'["ONLINE"] > 0 => outbox["ONLINE"] > 0
    BY <1>0, <1>1, <1>2, <1>4
  <2>7. OnlineOfFrames'
    BY <1>0, <1>1, <1>3, <2>2, <2>6 DEF OnlineOfFrames
  <2>. QED  BY <1>3, <2>3, <2>5, <2>7
<1>6. ASSUME NEW t \in Tx, Deliver(t, status)
      PROVE  OutagesCounted' /\ EmittedAsCalled' /\ OnlineOfFrames' /\ OfflineOnRecord'
  <2>1. Begin(t, status)
    BY <1>6 DEF Deliver
  <2>2. /\ \A S : status \in S => t \notin Busy(S) /\ Busy(S)' = Busy(S) \cup {t}
        /\ \A S : status \notin S => Busy(S)' = Busy(S)
        /\ \A u \in Tx : /\ PriorRead(u)' = PriorRead(u)
                         /\ local'[u].prior = local[u].prior
        /\ EmittedAsCalled => EmittedAsCalled'
        /\ UNCHANGED <<row, log>>
    BY <1>0, <2>1, BeginningEffect, ReportAssumption
  <2>3. \A e : Occurrences(e)' = Occurrences(e)
    BY <2>2 DEF Occurrences
  <2>4. OfflineOnRecord'
    BY <1>0, <2>2, <2>3 DEF OfflineOnRecord
  <2>5. OutagesCounted'
    <3>1. CASE status = "OFFLINE"
      <4>1. status \in OfflineStatuses
        BY <3>1 DEF OfflineStatuses
      <4>2. /\ IsFiniteSet(Busy(OfflineStatuses)')
            /\ Cardinality(Busy(OfflineStatuses)') = Cardinality(Busy(OfflineStatuses)) + 1
        BY <1>4, <2>2, <4>1, FS_AddElement
      <4>. QED  BY <1>0, <1>1, <1>2, <1>3, <1>4, <2>3, <3>1, <4>2 DEF OutagesCounted
    <3>2. CASE status # "OFFLINE"
      <4>1. status \notin OfflineStatuses
        BY <3>2 DEF OfflineStatuses, WorkerStatus
      <4>. QED  BY <1>0, <1>1, <1>2, <1>3, <2>2, <2>3, <3>2, <4>1 DEF OutagesCounted
    <3>. QED  BY <3>1, <3>2
  <2>6. OnlineOfFrames'
    <3>1. outbox'["ONLINE"] > 0 => outbox["ONLINE"] > 0
      BY <1>0, <1>1, <1>2, <1>4
    <3>2. Busy({"ONLINE"})' # {} => Busy({"ONLINE"}) # {} \/ outbox["ONLINE"] > 0
      BY <1>1, <2>2
    <3>. QED  BY <1>0, <1>1, <1>3, <2>3, <3>1, <3>2 DEF OnlineOfFrames
  <2>. QED  BY <1>0, <2>2, <2>4, <2>5, <2>6
<1>. QED  BY <1>3, <1>5, <1>6

(* A connection test begins: it is counted before it is on record.         *)
LEMMA TestKeepsFeed ==
  ASSUME FeedInv, NEW t \in Tx, NEW status \in TestStatus, TestConnection(t, status)
  PROVE  SourcesInOrder' /\ OutagesCounted' /\ EmittedAsCalled'
         /\ OnlineOfFrames' /\ OfflineOnRecord'
<1>0. /\ HealthInv /\ EmittedAsCalled /\ OutagesCounted /\ OnlineOfFrames /\ OfflineOnRecord
      /\ outbox["OFFLINE"] \in Nat
  BY DEF FeedInv, PipelineInv, PipelineTypeOK, WorkerStatus
<1>1. /\ Begin(t, status) /\ UNCHANGED <<created, source, counted, inference, outbox>>
      /\ failedTests' = IF status = "ONLINE" THEN failedTests ELSE failedTests + 1
      /\ reached' = (reached \/ status = "ONLINE")
  BY DEF TestConnection, pipelineVars
<1>2. /\ \A S : status \in S => t \notin Busy(S) /\ Busy(S)' = Busy(S) \cup {t}
      /\ \A S : status \notin S => Busy(S)' = Busy(S)
      /\ \A u \in Tx : /\ PriorRead(u)' = PriorRead(u)
                       /\ local'[u].prior = local[u].prior
      /\ EmittedAsCalled'
      /\ UNCHANGED <<row, log>>
  BY <1>0, <1>1, BeginningEffect, ReportAssumption
<1>3. \A e : Occurrences(e)' = Occurrences(e)
  BY <1>2 DEF Occurrences
<1>4. SourcesInOrder' /\ Outages' = Outages
  BY <1>1 DEF FeedInv, SourcesInOrder, Outages
<1>5. OfflineOnRecord'
  BY <1>0, <1>2, <1>3 DEF OfflineOnRecord
<1>6. OutagesCounted'
  <2>1. /\ Cardinality(Occurrences("CAMERA_OFFLINE")) \in Nat
        /\ Cardinality(Busy(OfflineStatuses)) \in Nat /\ IsFiniteSet(Busy(OfflineStatuses))
        /\ Cardinality(Outages) \in Nat /\ failedTests \in Nat
    BY <1>0, OccurrencesFinite, OutagesFinite, FS_CardinalityType DEF OutagesCounted
  <2>2. CASE status = "ONLINE"
    <3>1. status \notin OfflineStatuses
      BY <2>2 DEF OfflineStatuses
    <3>. QED  BY <1>0, <1>1, <1>2, <1>3, <1>4, <2>2, <3>1 DEF OutagesCounted
  <2>3. CASE status # "ONLINE"
    <3>1. status \in OfflineStatuses
      BY <2>3 DEF OfflineStatuses, TestStatus
    <3>2. /\ IsFiniteSet(Busy(OfflineStatuses)')
          /\ Cardinality(Busy(OfflineStatuses)') = Cardinality(Busy(OfflineStatuses)) + 1
      BY <1>2, <2>1, <3>1, FS_AddElement
    <3>. QED  BY <1>0, <1>1, <1>3, <1>4, <2>1, <2>3, <3>2 DEF OutagesCounted
  <2>. QED  BY <2>2, <2>3
<1>7. OnlineOfFrames'
  <2>1. Alive => Alive'
    BY <1>1 DEF Alive, Delivered
  <2>2. Busy({"ONLINE"})' # {} => Busy({"ONLINE"}) # {} \/ Alive'
    BY <1>1, <1>2 DEF Alive
  <2>. QED  BY <1>0, <1>1, <1>3, <2>1, <2>2 DEF OnlineOfFrames
<1>. QED  BY <1>2, <1>4, <1>5, <1>6, <1>7

(* The camera is deleted with its record.                                  *)
LEMMA DeleteKeepsFeed ==
  ASSUME FeedInv, Delete
  PROVE  SourcesInOrder' /\ OutagesCounted' /\ EmittedAsCalled'
         /\ OnlineOfFrames' /\ OfflineOnRecord'
<1>0. /\ HealthInv /\ EmittedAsCalled /\ OutagesCounted /\ OnlineOfFrames
      /\ outbox["OFFLINE"] \in Nat
  BY DEF FeedInv, PipelineInv, PipelineTypeOK, WorkerStatus
<1>1. /\ row' = Nil /\ log' = << >> /\ UNCHANGED <<pc, local, failedTests, reached>>
      /\ UNCHANGED <<created, source, counted, inference, outbox>>
  BY DEF Delete, DeleteCamera, pipelineVars, testVars
<1>2. /\ \A S : Busy(S)' = Busy(S)
      /\ \A e : Occurrences(e)' = {}
  BY <1>1 DEF Busy, Occurrences
<1>3. SourcesInOrder' /\ Outages' = Outages /\ Alive' = Alive
  BY <1>1 DEF FeedInv, SourcesInOrder, Outages, Alive, Delivered
<1>4. EmittedAsCalled' /\ OfflineOnRecord'
  BY <1>0, <1>1 DEF EmittedAsCalled, OfflineOnRecord
<1>5. OutagesCounted'
  <2>1. /\ Cardinality(Occurrences("CAMERA_OFFLINE")) \in Nat
        /\ Cardinality(Busy(OfflineStatuses)) \in Nat
        /\ Cardinality(Outages) \in Nat /\ failedTests \in Nat
    BY <1>0, OccurrencesFinite, OutagesFinite, FS_CardinalityType DEF OutagesCounted
  <2>2. Cardinality(Occurrences("CAMERA_OFFLINE")') = 0
    BY <1>2, FS_EmptySet
  <2>. QED  BY <1>0, <1>1, <1>2, <1>3, <2>1, <2>2 DEF OutagesCounted
<1>6. OnlineOfFrames'
  BY <1>0, <1>1, <1>2, <1>3 DEF OnlineOfFrames
<1>. QED  BY <1>3, <1>4, <1>5, <1>6

LEMMA FeedInvStep == FeedInv /\ [Next]_vars => FeedInv'
<1>. SUFFICES ASSUME FeedInv, [Next]_vars PROVE FeedInv'
  OBVIOUS
<1>1. PipelineInv' /\ HealthInv'
  BY FeedStep, PipelineInvStep, HealthInvStep DEF FeedInv
<1>. DEFINE Kept == SourcesInOrder' /\ OutagesCounted' /\ EmittedAsCalled'
                    /\ OnlineOfFrames' /\ OfflineOnRecord'
<1>2. ASSUME WorkerStep PROVE Kept
  BY <1>2, WorkerKeepsFeed
<1>3. ASSUME ApiStep PROVE Kept
  BY <1>3, ApiKeepsFeed
<1>4. ASSUME NEW status \in WorkerStatus, Lose(status) \/ \E t \in Tx : Deliver(t, status)
      PROVE  Kept
  BY <1>4, ReportKeepsFeed
<1>5. ASSUME NEW t \in Tx, NEW status \in TestStatus, TestConnection(t, status)
      PROVE  Kept
  BY <1>5, TestKeepsFeed
<1>6. ASSUME Delete PROVE Kept
  BY <1>6, DeleteKeepsFeed
<1>7. ASSUME UNCHANGED vars PROVE Kept
  BY <1>7 DEF vars, pipelineVars, healthVars, testVars, FeedInv, SourcesInOrder,
     OutagesCounted, EmittedAsCalled, OnlineOfFrames, OfflineOnRecord, Busy, Occurrences,
     Outages, Alive, Delivered, PriorRead
<1>. HIDE DEF Kept
<1>8. Kept
  BY <1>2, <1>3, <1>4, <1>5, <1>6, <1>7 DEF Next
<1>. QED  BY <1>1, <1>8 DEF Kept, FeedInv

THEOREM FeedInvariance == Spec => []FeedInv
BY FeedInvInit, FeedInvStep, PTL DEF Spec

(* The history never shows more outages than streams that ended and        *)
(* connection tests that failed: a report that arrives late, interleaved   *)
(* or never records no outage that nobody saw (worker.ts:102-106,          *)
(* connection.service.ts:56-76, health.service.ts:105-119).                *)
THEOREM HistoryIsReal == Spec => []OutagesNotInvented
<1>1. FeedInv => OutagesNotInvented
  <2>. SUFFICES ASSUME FeedInv PROVE OutagesNotInvented
    OBVIOUS
  <2>1. /\ Cardinality(Occurrences("CAMERA_OFFLINE")) \in Nat
        /\ Cardinality(Busy(OfflineStatuses)) \in Nat /\ outbox["OFFLINE"] \in Nat
        /\ Cardinality(Outages) \in Nat /\ failedTests \in Nat
    BY OccurrencesFinite, OutagesFinite, FS_CardinalityType
       DEF FeedInv, OutagesCounted, PipelineInv, PipelineTypeOK, WorkerStatus
  <2>. QED  BY <2>1 DEF FeedInv, OutagesCounted, OutagesNotInvented
<1>. QED  BY <1>1, FeedInvariance, PTL

(* A recovery on record means that the camera delivered a frame or         *)
(* answered a connection test, and an outage on record (worker.ts:131-134, *)
(* connection.service.ts:56-57, health.service.ts:112).                    *)
THEOREM RecoveriesAreReal == Spec => []RecoveryIsReal
<1>1. FeedInv => RecoveryIsReal
  BY DEF FeedInv, OnlineOfFrames, OfflineOnRecord, RecoveryIsReal, Alive, Occurrences
<1>. QED  BY <1>1, FeedInvariance, PTL

(* As long as a camera's reports are processed one after the other, a      *)
(* camera that is shown offline has that outage as its latest event,       *)
(* whatever order the worker's reports arrive in and whichever are lost,   *)
(* and whatever tests are made in between (worker.ts:102-134,              *)
(* health.service.ts:105-119).                                             *)
THEOREM OutagesAreOnRecord ==
  ASSUME OneAtATime
  PROVE  Spec => []OutageOnRecord
BY FeedImplementsParts, SerialHistory, PTL
=============================================================================
