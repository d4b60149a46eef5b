---------------------------- MODULE HlsSessions ----------------------------
(***************************************************************************)
(* Live playback: the HLS sessions of the API process (HlsManager of       *)
(* server/src/media/hls.service.ts), their ffmpeg children, and the        *)
(* players (web/src/LivePlayer.tsx) that open a stream and then fetch its  *)
(* playlist and segments with a signed token of limited life.              *)
(*                                                                         *)
(* Time passes in ticks of the reaper's interval (15 s); timers are not    *)
(* late, so the reaper runs once between two ticks.  A camera stands for   *)
(* the pair of an organization and one of its cameras, the key of the map. *)
(***************************************************************************)
EXTENDS Naturals, FiniteSets

CONSTANTS
  Camera,
  Viewer,       \* players, one request at a time each
  Proc,         \* ffmpeg processes that can exist at once
  IdleTimeout,  \* HLS_IDLE_TIMEOUT_MS, in ticks
  TokenTtl,     \* STREAM_TTL_SECONDS, in ticks
  Nil

ASSUME HlsConstants ==
  /\ IdleTimeout \in Nat /\ TokenTtl \in Nat
  /\ Nil \notin Proc /\ Nil \notin Camera

VARIABLES
  sessions,   \* the Map: [Camera -> session or Nil]
  procs,      \* [Proc -> process or Nil]
  viewers,    \* [Viewer -> player or Nil]
  reaper,     \* the interval is set
  reapDue,    \* the interval has to fire before the next tick
  overlapped  \* history: processes whose entry a second start overwrote

vars == <<sessions, procs, viewers, reaper, reapDue, overlapped>>

Session == [proc : Proc, idle : 0..(IdleTimeout + 2)]

(* "killed" and "ended": the process is gone, its exit event is not        *)
(* delivered yet.  "orphan": it runs, the API process that started it not. *)
Process == [camera : Camera, state : {"running", "ended", "killed", "orphan"}]

(* token: age of the signed URL; fetched: time since the API last granted  *)
(* this player something.                                                  *)
Player == [camera : Camera, step : {"starting", "watching", "refused"},
           token : 0..(TokenTtl + 1), fetched : 0..(IdleTimeout + 1)]

ASSUME NilAssumption == Nil \notin Session /\ Nil \notin Process /\ Nil \notin Player

Has(v, step) == viewers[v] # Nil /\ viewers[v].step = step
Entry(k, p) == sessions[k] # Nil /\ sessions[k].proc = p
Ages(n, bound) == IF n < bound THEN n + 1 ELSE n

Watching(k) == [camera |-> k, step |-> "watching", token |-> 0, fetched |-> 0]

Init ==
  /\ sessions = [k \in Camera |-> Nil]
  /\ procs = [p \in Proc |-> Nil]
  /\ viewers = [v \in Viewer |-> Nil]
  /\ reaper = FALSE /\ reapDue = FALSE
  /\ overlapped = {}

----------------------------------------------------------------------------
(* GET /cameras/:id/live of a camera that can be streamed, up to the await *)
(* of ensureSession: a session in the map whose process was not killed is  *)
(* touched and shared, else the directory is made first.                   *)
Existing(k) == sessions[k] # Nil /\ procs[sessions[k].proc].state # "killed"

(* [mutant] sharing a session does not count as access. *)
OpenLiveUntouched(v, k) ==
  /\ viewers[v] = Nil
  /\ viewers' = [viewers EXCEPT ![v] =
       IF Existing(k) THEN Watching(k)
       ELSE [Watching(k) EXCEPT !.step = "starting"]]
  /\ UNCHANGED <<sessions, procs, reaper, reapDue, overlapped>>

OpenLive(v, k) ==
  /\ viewers[v] = Nil
  /\ viewers' = [viewers EXCEPT ![v] =
       IF Existing(k) THEN Watching(k)
       ELSE [Watching(k) EXCEPT !.step = "starting"]]
  /\ sessions' = IF Existing(k) THEN [sessions EXCEPT ![k].idle = 0]
                 ELSE sessions
  /\ UNCHANGED <<procs, reaper, reapDue, overlapped>>

(* The rest of ensureSession: spawn, write the map, set the reaper.  An    *)
(* entry another start made meanwhile is overwritten.                      *)
StartTranscoder(v) ==
  /\ Has(v, "starting")
  /\ LET k == viewers[v].camera IN
     \E p \in Proc :
       /\ procs[p] = Nil
       /\ procs' = [procs EXCEPT ![p] = [camera |-> k, state |-> "running"]]
       /\ sessions' = [sessions EXCEPT ![k] = [proc |-> p, idle |-> 0]]
       /\ overlapped' = overlapped \cup
            {q \in Proc : Entry(k, q) /\ procs[q].state = "running"}
       /\ viewers' = [viewers EXCEPT ![v] = Watching(k)]
  /\ reaper' = TRUE
  /\ UNCHANGED reapDue

(* mkdir rejects: the request fails, the player shows an error.            *)
StartFails(v) ==
  /\ Has(v, "starting")
  /\ viewers' = [viewers EXCEPT ![v] = Nil]
  /\ UNCHANGED <<sessions, procs, reaper, reapDue, overlapped>>

(* The API process ends (a signal, a crash, an ffmpeg that cannot be       *)
(* spawned: 'error' has no listener) and is started again: stopAll is not  *)
(* called, the children go on, tokens stay valid.                          *)
Restart ==
  /\ sessions' = [k \in Camera |-> Nil]
  /\ procs' = [p \in Proc |->
       IF procs[p] = Nil \/ procs[p].state \in {"ended", "killed"} THEN Nil
       ELSE [procs[p] EXCEPT !.state = "orphan"]]
  /\ viewers' = [v \in Viewer |-> IF Has(v, "starting") THEN Nil ELSE viewers[v]]
  /\ reaper' = FALSE /\ reapDue' = FALSE
  /\ overlapped' = {}

----------------------------------------------------------------------------
(* GET /cameras/:id/live/:artifact.  The playlist is fetched with the URL  *)
(* that carries the token.  The segments are fetched by the relative names *)
(* the playlist holds, and a relative reference drops the query.           *)
Artifact == {"manifest", "segment"}
Authorized(v, artifact) ==
  artifact = "manifest" /\ viewers[v].token <= TokenTtl

(* readArtifact marks the access, whether or not the file is there.        *)
Fetch(v, artifact) ==
  /\ Has(v, "watching")
  /\ LET k == viewers[v].camera IN
     IF Authorized(v, artifact)
     THEN /\ viewers' = [viewers EXCEPT ![v].fetched = 0]
          /\ sessions' = IF sessions[k] # Nil
                         THEN [sessions EXCEPT ![k].idle = 0] ELSE sessions
     ELSE /\ viewers' = [viewers EXCEPT ![v].step = "refused"]
          /\ UNCHANGED sessions
  /\ UNCHANGED <<procs, reaper, reapDue, overlapped>>

ClosePlayer(v) ==
  /\ Has(v, "watching") \/ Has(v, "refused")
  /\ viewers' = [viewers EXCEPT ![v] = Nil]
  /\ UNCHANGED <<sessions, procs, reaper, reapDue, overlapped>>

----------------------------------------------------------------------------
(* ffmpeg ends by itself: the stream drops, or the camera refuses it.      *)
TranscoderEnds(p) ==
  /\ procs[p] # Nil
  /\ procs[p].state \in {"running", "orphan"}
  /\ procs' = [procs EXCEPT ![p] =
       IF @.state = "orphan" THEN Nil ELSE [@ EXCEPT !.state = "ended"]]
  /\ UNCHANGED <<sessions, viewers, reaper, reapDue, overlapped>>

(* [mutant] the handler deletes the entry of its camera, whoever owns it. *)
ExitEventAny(p) ==
  /\ procs[p] # Nil
  /\ procs[p].state \in {"ended", "killed"}
  /\ procs' = [procs EXCEPT ![p] = Nil]
  /\ sessions' = [sessions EXCEPT ![procs[p].camera] = Nil]
  /\ overlapped' = overlapped \ {p}
  /\ UNCHANGED <<viewers, reaper, reapDue>>

(* The 'exit' handler removes the entry only if it is still its own.       *)
ExitEvent(p) ==
  /\ procs[p] # Nil
  /\ procs[p].state \in {"ended", "killed"}
  /\ procs' = [procs EXCEPT ![p] = Nil]
  /\ sessions' = [k \in Camera |-> IF Entry(k, p) THEN Nil ELSE sessions[k]]
  /\ overlapped' = overlapped \ {p}
  /\ UNCHANGED <<viewers, reaper, reapDue>>

----------------------------------------------------------------------------
Tick ==
  /\ ~reapDue
  /\ reapDue' = reaper
  /\ sessions' = [k \in Camera |->
       IF sessions[k] = Nil THEN Nil
       ELSE [sessions[k] EXCEPT !.idle = Ages(@, IdleTimeout + 2)]]
  /\ viewers' = [v \in Viewer |->
       IF viewers[v] = Nil THEN Nil
       ELSE [viewers[v] EXCEPT !.token = Ages(@, TokenTtl + 1),
                               !.fetched = Ages(@, IdleTimeout + 1)]]
  /\ UNCHANGED <<procs, reaper, overlapped>>

(* [mutant] the interval is cleared after every pass. *)
StaysSet(left) == FALSE

(* The interval is cleared when the map is empty.                          *)
StillSet(left) == \E k \in Camera : left[k] # Nil

Idle(k) == sessions[k] # Nil /\ sessions[k].idle > IdleTimeout

Reap ==
  /\ reapDue
  /\ LET left == [k \in Camera |-> IF Idle(k) THEN Nil ELSE sessions[k]] IN
     /\ sessions' = left
     /\ reaper' = StillSet(left)
  /\ procs' = [p \in Proc |->
       IF \E k \in Camera : Idle(k) /\ sessions[k].proc = p
       THEN [procs[p] EXCEPT !.state = IF @ = "running" THEN "killed" ELSE @]
       ELSE procs[p]]
  /\ reapDue' = FALSE
  /\ UNCHANGED <<viewers, overlapped>>

Play(v) ==
  \/ \E k \in Camera : OpenLive(v, k)
  \/ StartTranscoder(v) \/ StartFails(v)
  \/ \E artifact \in Artifact : Fetch(v, artifact)
  \/ ClosePlayer(v)

Next ==
  \/ \E v \in Viewer : Play(v)
  \/ \E p \in Proc : TranscoderEnds(p) \/ ExitEvent(p)
  \/ Tick \/ Reap \/ Restart

Spec == Init /\ [][Next]_vars

(* Timers fire and events are delivered; players may come and go or not.   *)
Fairness ==
  /\ WF_vars(Tick) /\ WF_vars(Reap)
  /\ \A p \in Proc : WF_vars(ExitEvent(p))
FairSpec == Spec /\ Fairness

----------------------------------------------------------------------------
TypeOK ==
  /\ sessions \in [Camera -> Session \cup {Nil}]
  /\ procs \in [Proc -> Process \cup {Nil}]
  /\ viewers \in [Viewer -> Player \cup {Nil}]
  /\ reaper \in BOOLEAN /\ reapDue \in BOOLEAN
  /\ overlapped \subseteq Proc

(* Every transcoder that runs is the one of its camera's entry, where the  *)
(* reaper finds it, unless two starts for one camera overlapped or the API *)
(* process ended (state "orphan").                                         *)
StreamsManaged ==
  \A p \in Proc :
    procs[p] # Nil /\ procs[p].state = "running" =>
      Entry(procs[p].camera, p) \/ p \in overlapped

(* "Idle sessions are reaped": none stays in the map for more than one     *)
(* pass of the reaper after its time, in whatever order sessions start,    *)
(* end and empty the map, on which the interval depends.                   *)
IdleSessionsReaped ==
  \A k \in Camera : sessions[k] # Nil => sessions[k].idle <= IdleTimeout + 1

(* A stream is not killed for idleness while one of its players was served *)
(* within the timeout, whoever shares the session.                         *)
WatchedNotReaped ==
  [][\A p \in Proc :
       procs[p] # Nil /\ procs'[p] # Nil
       /\ procs[p].state = "running" /\ procs'[p].state = "killed" =>
         \A v \in Viewer :
           Has(v, "watching") /\ viewers[v].camera = procs[p].camera =>
             viewers[v].fetched > IdleTimeout]_vars

(* When the players are gone for good, so are the transcoders, except the  *)
(* overlapped ones and the orphans.                                        *)
AbandonedStreamsEnd ==
  <>[](\A v \in Viewer : viewers[v] = Nil) =>
    <>[](\A p \in Proc : procs[p] # Nil =>
           procs[p].state = "orphan" \/ p \in overlapped)

(* "runs an FFmpeg process per active live session": one per camera.       *)
OneTranscoderPerCamera ==
  \A p, q \in Proc :
    /\ procs[p] # Nil /\ procs[p].state \in {"running", "orphan"}
    /\ procs[q] # Nil /\ procs[q].state \in {"running", "orphan"}
    /\ procs[p].camera = procs[q].camera
    => p = q

(* "so the API can authorize each manifest/segment request": a player is   *)
(* refused nothing while its signed URL has not expired.                   *)
FreshTokenServes ==
  \A v \in Viewer : Has(v, "refused") => viewers[v].token > TokenTtl
=============================================================================
