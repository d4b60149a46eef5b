----------------------------- MODULE MediaWorker -----------------------------
(***************************************************************************)
(* The media worker process, MediaWorker of server/src/media/worker.ts and *)
(* media-worker.entry.ts: every pollMs it reconciles the pipelines it runs *)
(* with the enabled cameras in the database.  reconcile awaits a query per *)
(* new camera and nothing keeps two of them apart, so calls may overlap.   *)
(*                                                                         *)
(* A pipeline is its camera and a number; what one does is CameraPipeline. *)
(* A reconcile that throws is an unhandled rejection, which ends a Node    *)
(* process and with it the pipes its ffmpeg children write to.             *)
(***************************************************************************)
EXTENDS Naturals, Sequences, FiniteSets

CONSTANTS
  Camera,         \* the cameras of all tenants
  Call,           \* reconcile calls that may be under way at once
  Limit,          \* config.media.maxConcurrentStreams
  SecretChoice,   \* what the credentials of a camera may hold
  DatabaseFails,  \* queries of the worker may fail
  Nil,            \* no pipeline
  MaxChanges,     \* bound on the changes made to cameras
  MaxPipelines    \* bound on the pipelines of one camera at once

Pipeline == [camera : Camera, number : 1..MaxPipelines]

(* The stored username and password: no row, both given, only one given.   *)
Secret == {"none", "both", "one"}

ASSUME WorkerConstants ==
  /\ IsFiniteSet(Camera)
  /\ Limit \in Nat /\ MaxChanges \in Nat /\ MaxPipelines \in Nat
  /\ SecretChoice \subseteq Secret
  /\ DatabaseFails \in BOOLEAN
  /\ Nil \notin Pipeline

VARIABLES
  enabled,    \* the cameras with enabled = true
  secrets,    \* the credentials of each camera
  changes,    \* how many changes were made
  phase,      \* of the process: "up", "stopping", "down"
  pipelines,  \* the Map: the pipeline of a camera, Nil for no entry
  running,    \* the pipelines started and not stopped
  pc,         \* where each reconcile is
  local       \* its cameras still to visit, and those it has found active

database == <<enabled, secrets, changes>>
memory   == <<pipelines, running>>
vars     == <<database, phase, memory, pc, local>>

AtRest == [todo |-> << >>, active |-> {}]

NoPipelines == [c \in Camera |-> Nil]

Init ==
  /\ enabled \in SUBSET Camera
  /\ secrets \in [Camera -> SecretChoice]
  /\ changes = 0
  /\ phase = "up"
  /\ pipelines = NoPipelines
  /\ running = {}
  /\ pc = [r \in Call |-> "idle"]
  /\ local = [r \in Call |-> AtRest]

-----------------------------------------------------------------------------
(* POST, PATCH and DELETE of /cameras: a camera is enabled or no longer.   *)
ToggleCamera(c) ==
  /\ changes < MaxChanges
  /\ changes' = changes + 1
  /\ enabled' = IF c \in enabled THEN enabled \ {c} ELSE enabled \cup {c}
  /\ UNCHANGED <<secrets, phase, memory, pc, local>>

(* PATCH /cameras with credentials: what the form leaves out is stored as  *)
(* the encryption of the empty string.                                     *)
ChangeSecret(c, s) ==
  /\ changes < MaxChanges /\ s # "none"
  /\ changes' = changes + 1
  /\ secrets' = [secrets EXCEPT ![c] = s]
  /\ UNCHANGED <<enabled, phase, memory, pc, local>>

(* decryptSecret rejects what encryptSecret makes of the empty string: the *)
(* third part of iv.tag.ciphertext is empty.                               *)
Decrypts(c) == secrets[c] # "one"

-----------------------------------------------------------------------------
(* The process ends: nothing of it is left. *)
ProcessEnds ==
  /\ phase' = "down"
  /\ pipelines' = NoPipelines
  /\ running' = {}
  /\ pc' = [r \in Call |-> "idle"]
  /\ local' = [r \in Call |-> AtRest]

(* [mutant] pipelines of cameras that are gone stay in the map. *)
StopInactiveKeepingEntries(map, live, active) ==
  /\ pipelines' = map
  /\ running' = live \ {map[c] : c \in Camera \ active}

(* [mutant] the pipelines of inactive cameras are forgotten, not stopped. *)
StopInactiveForgetting(map, live, active) ==
  /\ pipelines' = [c \in Camera |-> IF c \in active THEN map[c] ELSE Nil]
  /\ running' = live

(* The last loop of reconcile: the pipelines of inactive cameras stop.     *)
StopInactive(map, live, active) ==
  /\ pipelines' = [c \in Camera |-> IF c \in active THEN map[c] ELSE Nil]
  /\ running' = live \ {map[c] : c \in Camera \ active}

(* [mutant] every call of reconcile starts a pipeline for every camera. *)
KnownNever(map, todo, n) == n = 0

(* The first n cameras of todo have a pipeline. *)
Known(map, todo, n) == \A i \in 1..n : map[todo[i]] # Nil

(* The camera loop of call r from here to its next await or its end, with  *)
(* the Map and the running pipelines as they are now: cameras that have a  *)
(* pipeline are only marked active; the limit ends the loop.               *)
Walk(r, todo, active, map, live) ==
  LET room == IF Limit > Cardinality(active)
              THEN Limit - Cardinality(active) ELSE 0
  IN  \E n \in 0..Len(todo) :
        LET seen == active \cup {todo[i] : i \in 1..n}
        IN  /\ n <= room /\ Known(map, todo, n)
            /\ IF n = Len(todo) \/ n = room
               THEN /\ StopInactive(map, live, seen)
                    /\ pc' = [pc EXCEPT ![r] = "idle"]
                    /\ local' = [local EXCEPT ![r] = AtRest]
               ELSE /\ ~Known(map, todo, n + 1)
                    /\ pipelines' = map /\ running' = live
                    /\ pc' = [pc EXCEPT ![r] = "credentials"]
                    /\ local' = [local EXCEPT ![r] =
                         [todo |-> SubSeq(todo, n + 1, Len(todo)),
                          active |-> seen \cup {todo[n + 1]}]]

(* start(), and every tick of the interval it sets. *)
Poll(r) ==
  /\ phase = "up" /\ pc[r] = "idle"
  /\ pc' = [pc EXCEPT ![r] = "load"]
  /\ UNCHANGED <<database, phase, memory, local>>

(* The orders in which the rows may come back. *)
Rows(S) == {f \in [1..Cardinality(S) -> S] : \A i, j \in DOMAIN f :
                                               f[i] = f[j] => i = j}

(* SELECT the enabled cameras; there is no ORDER BY. *)
LoadCameras(r) ==
  /\ pc[r] = "load"
  /\ \E rows \in Rows(enabled) : Walk(r, rows, {}, pipelines, running)
  /\ UNCHANGED <<database, phase>>

(* The first pipeline of the camera, or the next while another is still    *)
(* referred to.                                                            *)
NewPipeline(c, p) ==
  LET Used(n) == [camera |-> c, number |-> n] \in running \cup {pipelines[c]} IN
  \E n \in 1..MaxPipelines :
    /\ ~Used(n) /\ \A k \in 1..(n - 1) : Used(k)
    /\ p = [camera |-> c, number |-> n]

(* The credentials of the camera at hand arrive and can be decrypted: its  *)
(* pipeline is created, entered in the Map and started.                    *)
StartPipeline(r) ==
  /\ pc[r] = "credentials"
  /\ LET c == Head(local[r].todo)
     IN  /\ Decrypts(c)
         /\ \E p \in Pipeline :
              /\ NewPipeline(c, p)
              /\ Walk(r, Tail(local[r].todo), local[r].active,
                      [pipelines EXCEPT ![c] = p], running \cup {p})
  /\ UNCHANGED <<database, phase>>

(* They cannot: decryptSecret throws, reconcile rejects. *)
DecryptThrows(r) ==
  /\ pc[r] = "credentials"
  /\ ~Decrypts(Head(local[r].todo))
  /\ ProcessEnds
  /\ UNCHANGED database

(* A query of reconcile fails, or the pool was closed by the shutdown. *)
QueryFails(r) ==
  /\ pc[r] # "idle"
  /\ DatabaseFails \/ phase = "stopping"
  /\ ProcessEnds
  /\ UNCHANGED database

(* SIGTERM: stop() clears the interval, the pipelines and the Map; the     *)
(* process exits once the pools are closed.                                *)
Shutdown ==
  /\ phase = "up"
  /\ phase' = "stopping"
  /\ pipelines' = NoPipelines
  /\ running' = {}
  /\ UNCHANGED <<database, pc, local>>

ShutdownEnds == phase = "stopping" /\ ProcessEnds /\ UNCHANGED database

(* External: the operator or a supervisor starts the process. *)
Launch ==
  /\ phase = "down"
  /\ phase' = "up"
  /\ UNCHANGED <<database, memory, pc, local>>

Reconcile(r) ==
  LoadCameras(r) \/ StartPipeline(r) \/ DecryptThrows(r)

Next ==
  \/ \E r \in Call : Poll(r) \/ Reconcile(r) \/ QueryFails(r)
  \/ Shutdown \/ ShutdownEnds \/ Launch
  \/ \E c \in Camera : ToggleCamera(c)
                       \/ \E s \in SecretChoice : ChangeSecret(c, s)

Spec == Init /\ [][Next]_vars

(* The interval of a live process fires, its queries are answered, and     *)
(* closePools ends once no query is under way.                             *)
FairSpec ==
  /\ Spec
  /\ WF_vars(ShutdownEnds)
  /\ \A r \in Call : WF_vars(Poll(r)) /\ WF_vars(Reconcile(r))

-----------------------------------------------------------------------------
RunningOf(c) == {p \in running : p.camera = c}

(* Every variable has the type worker.ts and the cameras table give it. *)
TypeOK ==
  /\ enabled \subseteq Camera /\ secrets \in [Camera -> Secret]
  /\ changes \in 0..MaxChanges
  /\ phase \in {"up", "stopping", "down"}
  /\ pipelines \in [Camera -> Pipeline \cup {Nil}]
  /\ running \subseteq Pipeline
  /\ pc \in [Call -> {"idle", "load", "credentials"}]
  /\ local \in [Call -> [todo : Seq(Camera), active : SUBSET Camera]]

(* media-worker.entry.ts:9: the worker manages one pipeline per camera.    *)
OnePipelinePerCamera == \A c \in Camera : Cardinality(RunningOf(c)) <= 1

(* Every pipeline that runs can still be stopped: the Map knows it, under  *)
(* its own camera (worker.ts:296-306).                                     *)
RunningIsManaged == \A p \in running : pipelines[p.camera] = p

(* .env.example:76: never more streams than the limit at once.             *)
StreamsWithinLimit == Cardinality(running) <= Limit

(* Between two reconciles the limit holds, also when the pipelines of one  *)
(* set of cameras have just been replaced by those of another              *)
(* (worker.ts:282-306).                                                    *)
LimitHoldsAtRest ==
  (\A r \in Call : pc[r] = "idle") => Cardinality(running) <= Limit

(* frame-source.ts:10: one broken camera never affects others.  A running  *)
(* pipeline of an enabled camera is not ended by what happens to another   *)
(* one, unless the operator shuts the worker down (worker.ts:283-306).     *)
OthersUndisturbed ==
  [][\A c \in Camera :
       (c \in enabled /\ Decrypts(c) /\ RunningOf(c) # {} /\ phase = "up") =>
         RunningOf(c)' # {} \/ phase' = "stopping"]_vars

(* A camera that is disabled stops being streamed, unless it is enabled    *)
(* again before the next poll (worker.ts:300-306).                         *)
DisabledStops ==
  \A c \in Camera : c \notin enabled ~> (c \in enabled \/ RunningOf(c) = {})

(* A camera that is enabled gets a pipeline while the worker is up and no  *)
(* more cameras are enabled than the limit (worker.ts:283-299).  Of more   *)
(* cameras than that the query, which has no order, may return one always  *)
(* too late.                                                               *)
Fits == Cardinality(enabled) <= Limit
EnabledStarts ==
  \A c \in Camera :
    (c \in enabled /\ Fits /\ phase = "up") ~>
      (c \notin enabled \/ RunningOf(c) # {} \/ ~Fits \/ phase # "up")
=============================================================================
