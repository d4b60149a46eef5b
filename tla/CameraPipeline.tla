--------------------------- MODULE CameraPipeline ---------------------------
(***************************************************************************)
(* One camera's pipeline in the media worker: CameraPipeline of            *)
(* server/src/media/worker.ts over the FrameSources of                     *)
(* server/src/media/frame-source.ts it starts one after the other.  The    *)
(* worker is a Node process, so every callback is one action: a timer, an  *)
(* event of an ffmpeg child, a fetch that settles.                         *)
(*                                                                         *)
(* Health reports are requests nobody waits for: outbox counts those that  *)
(* are under way, by status; they arrive in any order or never.            *)
(*                                                                         *)
(* Left out: the bytes of frames, detections and latencies (only whether a *)
(* frame was counted since the last flush matters), logging.               *)
(***************************************************************************)
EXTENDS Naturals, FiniteSets

CONSTANTS
  MaxSources,        \* bound on the FrameSources a pipeline creates
  MaxInFlight,       \* bound on the ONLINE reports under way at once
  BaseDelay,         \* config.media.reconnectBaseMs
  MaxDelay,          \* config.media.reconnectMaxMs
  SpawnMayFail,      \* ffmpeg may be impossible to start
  InferenceEnabled   \* the camera's inference_enabled

ASSUME PipelineConstants ==
  /\ MaxSources \in Nat /\ MaxInFlight \in Nat \ {0}
  /\ BaseDelay \in Nat \ {0} /\ MaxDelay \in Nat /\ MaxDelay >= BaseDelay
  /\ SpawnMayFail \in BOOLEAN /\ InferenceEnabled \in BOOLEAN

WorkerStatus == {"CONNECTING", "ONLINE", "OFFLINE", "RECONNECTING"}
Source == 1..MaxSources

VARIABLES
  stopped,     \* the pipeline was stopped
  current,     \* this.source, 0 for null
  created,     \* how many FrameSources were created
  source,      \* the FrameSources and their ffmpeg processes
  attempts,    \* reconnectAttempts
  timer,       \* delay of the pending reconnect timer, 0 for none
  statsTimers, \* interval timers that run flushStats
  counted,     \* this.frames > 0
  inference,   \* inFlight, and what it waits for
  outbox       \* health reports under way

pipelineVars == <<stopped, current, created, source, attempts, timer,
                  statsTimers, counted, inference, outbox>>

(* process: "drained" is a process that has exited and whose pipe may      *)
(* still deliver frames.  retryDelay: of the timer its exit set.           *)
SourceState ==
  [process : {"none", "failed", "running", "exited", "drained"},
   stopped : BOOLEAN, child : BOOLEAN, listening : BOOLEAN,
   signal : {"none", "TERM", "KILL"}, killed : BOOLEAN, killTimer : BOOLEAN,
   delivered : BOOLEAN, retryDelay : Nat]

NewSource ==
  [process |-> "none", stopped |-> FALSE, child |-> FALSE, listening |-> FALSE,
   signal |-> "none", killed |-> FALSE, killTimer |-> FALSE,
   delivered |-> FALSE, retryDelay |-> 0]

PipelineInit ==
  /\ stopped = FALSE /\ current = 0 /\ created = 0
  /\ source = [i \in Source |-> NewSource]
  /\ attempts = 0 /\ timer = 0 /\ statsTimers = 0
  /\ counted = FALSE /\ inference = "idle"
  /\ outbox = [s \in WorkerStatus |-> 0]

With(box, status) == [box EXCEPT ![status] = @ + 1]

(* start(): CONNECTING is reported, a FrameSource spawns ffmpeg and an     *)
(* interval for flushStats begins, whatever became of the spawn.           *)
StartStream ==
  /\ created < MaxSources
  /\ created' = created + 1
  /\ current' = created'
  /\ \E spawned \in {"running"} \cup IF SpawnMayFail THEN {"failed"} ELSE {} :
       source' = [i \in Source |->
         IF i = created' THEN [NewSource EXCEPT !.process = spawned,
                                 !.child = TRUE, !.listening = TRUE]
         ELSE IF i = current THEN [source[i] EXCEPT !.listening = FALSE]
         ELSE source[i]]
  /\ attempts' = 0
  /\ statsTimers' = statsTimers + 1
  /\ outbox' = With(outbox, "CONNECTING")

(* The call MediaWorker.reconcile makes. *)
Start ==
  /\ created = 0 /\ ~stopped
  /\ StartStream
  /\ UNCHANGED <<stopped, timer, counted, inference>>

PowersOfTwo == <<1, 2, 4, 8, 16, 32, 64>>

(* The delay before attempt n: doubled at most six times. *)
RetryDelay(n) ==
  LET delay == BaseDelay * PowersOfTwo[IF n < 7 THEN n ELSE 7]
  IN  IF delay < MaxDelay THEN delay ELSE MaxDelay

(* The 'exit' event of source i, reported and answered by scheduleReconnect*)
(* when neither the source nor the pipeline was stopped; the process of i  *)
(* is then in state p.                                                     *)
ExitHandled(i, p, reported) ==
  IF reported /\ source[i].listening
  THEN /\ attempts' = IF stopped THEN attempts ELSE attempts + 1
       /\ timer' = IF stopped THEN timer ELSE RetryDelay(attempts')
       /\ outbox' = IF stopped THEN With(outbox, "OFFLINE")
                    ELSE With(With(outbox, "OFFLINE"), "RECONNECTING")
       /\ source' = [source EXCEPT ![i].process = p, ![i].child = FALSE,
                                   ![i].retryDelay = timer']
  ELSE /\ source' = [source EXCEPT ![i].process = p, ![i].child = FALSE]
       /\ UNCHANGED <<attempts, timer, outbox>>

(* [mutant] the source's exit is reported although it was stopped. *)
ExitAlwaysReported(i) ==
  /\ source[i].process = "running"
  /\ ExitHandled(i, "exited", TRUE)
  /\ UNCHANGED <<stopped, current, created, statsTimers, counted, inference>>

(* [mutant] ffmpeg writing to stderr is taken for its exit. *)
ExitOnError(i) ==
  /\ source[i].process = "running"
  /\ ExitHandled(i, "running", ~source[i].stopped)
  /\ UNCHANGED <<stopped, current, created, statsTimers, counted, inference>>

(* [mutant] a stream that never delivered a frame is given up. *)
ExitGivingUp(i) ==
  /\ source[i].process = "running"
  /\ ExitHandled(i, "exited", ~source[i].stopped /\ source[i].delivered)
  /\ UNCHANGED <<stopped, current, created, statsTimers, counted, inference>>

(* ffmpeg ends: the camera hung up, the network failed, it crashed, or it  *)
(* follows a signal.                                                       *)
Exit(i) ==
  /\ source[i].process = "running"
  /\ ExitHandled(i, "exited", ~source[i].stopped)
  /\ UNCHANGED <<stopped, current, created, statsTimers, counted, inference>>

(* The reconnect timer fires. *)
Reconnect ==
  /\ timer # 0
  /\ timer' = 0
  /\ IF stopped
     THEN UNCHANGED <<current, created, source, attempts, statsTimers, outbox>>
     ELSE StartStream
  /\ UNCHANGED <<stopped, counted, inference>>

(* A complete JPEG arrives, possibly after the process has exited: the     *)
(* listener stays until the next reconnect, also after a stop.  The first  *)
(* frame since a flush reports ONLINE; a frame is dropped while inference  *)
(* is busy.                                                                *)
Frame(i) ==
  /\ source[i].process \in {"running", "exited"} /\ source[i].listening
  /\ outbox["ONLINE"] < MaxInFlight
  /\ source' = [source EXCEPT ![i].delivered = TRUE]
  /\ outbox' = IF counted THEN outbox ELSE With(outbox, "ONLINE")
  /\ counted' = TRUE
  /\ inference' = IF InferenceEnabled /\ inference = "idle"
                  THEN "inferring" ELSE inference
  /\ UNCHANGED <<stopped, current, created, attempts, timer, statsTimers>>

(* The pipe of an exited process is closed. *)
PipeClosed(i) ==
  /\ source[i].process = "exited"
  /\ source' = [source EXCEPT ![i].process = "drained"]
  /\ UNCHANGED <<stopped, current, created, attempts, timer, statsTimers,
                 counted, inference, outbox>>

(* The inference service answers: ONLINE is reported once more, then the   *)
(* detections are posted one by one.                                       *)
InferenceAnswers ==
  /\ inference = "inferring"
  /\ outbox["ONLINE"] < MaxInFlight
  /\ outbox' = With(outbox, "ONLINE")
  /\ \E detections \in BOOLEAN :
       inference' = IF detections THEN "submitting" ELSE "idle"
  /\ UNCHANGED <<stopped, current, created, source, attempts, timer,
                 statsTimers, counted>>

(* It fails or times out, or the detections have been posted or refused:   *)
(* the finally block.                                                      *)
InferenceEnds ==
  /\ inference # "idle"
  /\ inference' = "idle"
  /\ UNCHANGED <<stopped, current, created, source, attempts, timer,
                 statsTimers, counted, outbox>>

FlushStats ==
  /\ statsTimers > 0
  /\ counted' = FALSE
  /\ UNCHANGED <<stopped, current, created, source, attempts, timer,
                 statsTimers, inference, outbox>>

(* stop(): the pending timer and the latest interval are cleared, the      *)
(* current source is stopped: SIGTERM, and a timer for the grace period.   *)
Stop ==
  /\ created > 0 /\ ~stopped
  /\ stopped' = TRUE
  /\ timer' = 0
  /\ statsTimers' = statsTimers - 1
  /\ current' = 0
  /\ source' = [i \in Source |->
       IF i # current THEN source[i]
       ELSE IF ~source[i].child THEN [source[i] EXCEPT !.stopped = TRUE]
       ELSE LET sent == source[i].process = "running"
            IN  [source[i] EXCEPT
                   !.stopped = TRUE, !.child = FALSE, !.killTimer = TRUE,
                   !.killed = sent, !.signal = IF sent THEN "TERM" ELSE "none"]]
  /\ UNCHANGED <<created, attempts, counted, inference, outbox>>

(* The grace period ends.  child.killed says that a signal was sent, not   *)
(* that the process has gone.                                              *)
GracePeriodEnds(i) ==
  /\ source[i].killTimer
  /\ source' = [source EXCEPT ![i].killTimer = FALSE,
                  ![i].signal = IF source[i].killed THEN @ ELSE "KILL"]
  /\ UNCHANGED <<stopped, current, created, attempts, timer, statsTimers,
                 counted, inference, outbox>>

(* A process that was sent SIGKILL ends; SIGTERM ffmpeg may ignore. *)
Killed(i) == source[i].signal = "KILL" /\ Exit(i)

(* External: a report reaches the API, or the request fails. *)
ReportSettles(status) ==
  /\ outbox[status] > 0
  /\ outbox' = [outbox EXCEPT ![status] = @ - 1]
  /\ UNCHANGED <<stopped, current, created, source, attempts, timer,
                 statsTimers, counted, inference>>

Step ==
  \/ Start \/ Stop \/ Reconnect \/ FlushStats
  \/ InferenceAnswers \/ InferenceEnds
  \/ \E i \in Source : Exit(i) \/ Frame(i) \/ PipeClosed(i) \/ GracePeriodEnds(i)

PipelineNext == Step \/ \E status \in WorkerStatus : ReportSettles(status)

PipelineSpec == PipelineInit /\ [][PipelineNext]_pipelineVars

(* Timers of a live process fire, and the kernel ends what was killed.     *)
Fairness ==
  /\ WF_pipelineVars(Reconnect)
  /\ \A i \in Source : WF_pipelineVars(GracePeriodEnds(i)) /\ WF_pipelineVars(Killed(i))

FairSpec == PipelineSpec /\ Fairness

-----------------------------------------------------------------------------
(* Every variable has the type worker.ts and frame-source.ts give it. *)
PipelineTypeOK ==
  /\ stopped \in BOOLEAN
  /\ current \in 0..MaxSources /\ created \in 0..MaxSources
  /\ source \in [Source -> SourceState]
  /\ attempts \in Nat /\ timer \in 0..MaxDelay /\ statsTimers \in 0..MaxSources
  /\ counted \in BOOLEAN
  /\ inference \in {"idle", "inferring", "submitting"}
  /\ outbox \in [WorkerStatus -> Nat]

Running == {i \in Source : source[i].process = "running"}

(* frame-source.ts:10, media-worker.entry.ts:9: a pipeline has at most one *)
(* ffmpeg process, and none while it waits to reconnect, whatever the      *)
(* order of exits, timers and stops (worker.ts:102-129).                   *)
OneProcess == Cardinality(Running) <= 1 /\ (timer # 0 => Running = {})

(* worker.ts:17: a pipeline that was started and not stopped has a running *)
(* process or a reconnect pending; it is never silently given up.          *)
KeepsTrying == (created > 0 /\ ~stopped) => (Running # {} \/ timer # 0)

(* Stopping a pipeline, because its camera was disabled or deleted, is not *)
(* reported as an outage, also when its process dies of it later           *)
(* (worker.ts:102-106, 258-264, frame-source.ts:86-92).                    *)
NoOutageAfterStop ==
  [][stopped => outbox'["OFFLINE"] <= outbox["OFFLINE"]]_pipelineVars

(* worker.ts:17, frame-source.ts:17-18: while the camera delivers nothing, *)
(* the delay before each reconnect is twice the one before, up to the      *)
(* maximum.                                                                *)
BackoffGrows ==
  \A i \in Source : (i + 1 \in Source /\ source[i + 1].retryDelay # 0
                     /\ ~source[i].delivered /\ ~source[i + 1].delivered) =>
    \/ source[i + 1].retryDelay = 2 * source[i].retryDelay
    \/ source[i + 1].retryDelay = MaxDelay

(* A stream that ended is started again, unless the pipeline is stopped    *)
(* (worker.ts:116-129).                                                    *)
DroppedStreamRestarts ==
  \A i \in Source : i < MaxSources =>
    (source[i].process = "exited" ~> (created > i \/ stopped))

(* frame-source.ts:16,119: the process of a stopped source ends, by        *)
(* SIGKILL after the grace period if need be.                              *)
StoppedSourceEnds ==
  \A i \in Source : source[i].stopped ~> source[i].process # "running"
=============================================================================
