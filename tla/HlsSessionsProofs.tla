------------------------- MODULE HlsSessionsProofs -------------------------
(***************************************************************************)
(* What holds of live playback for any number of cameras, players and      *)
(* processes and any timeouts: a transcoder that runs is in the map, where *)
(* the reaper finds it, or was overwritten there by an overlapping start;  *)
(* and no stream is reaped under a player that was served within the       *)
(* timeout.                                                                *)
(***************************************************************************)
EXTENDS HlsSessions, TLAPS

(* An entry of the map names a process of its own camera that this API     *)
(* process started and has not killed.                                     *)
EntriesAreOwn ==
  \A k \in Camera : sessions[k] # Nil =>
    LET p == sessions[k].proc IN
    /\ procs[p] # Nil /\ procs[p].camera = k
    /\ procs[p].state \in {"running", "ended"}

(* A session is not idle for longer than any of its players.               *)
IdleCounts ==
  \A v \in Viewer :
    Has(v, "watching") /\ sessions[viewers[v].camera] # Nil =>
      \/ sessions[viewers[v].camera].idle <= viewers[v].fetched
      \/ viewers[v].fetched > IdleTimeout

HInv == TypeOK /\ EntriesAreOwn /\ StreamsManaged /\ IdleCounts

-----------------------------------------------------------------------------
LEMMA SessionFields ==
  ASSUME HInv, NEW k \in Camera, sessions[k] # Nil
  PROVE  /\ sessions[k] \in Session /\ sessions[k].proc \in Proc
         /\ sessions[k].idle \in 0..(IdleTimeout + 2)
         /\ procs[sessions[k].proc] # Nil
         /\ procs[sessions[k].proc].camera = k
         /\ procs[sessions[k].proc].state \in {"running", "ended"}
  BY DEF HInv, TypeOK, EntriesAreOwn, Session

LEMMA ProcessFields ==
  ASSUME HInv, NEW p \in Proc, procs[p] # Nil
  PROVE  /\ procs[p] \in Process /\ procs[p].camera \in Camera
         /\ procs[p].state \in {"running", "ended", "killed", "orphan"}
  BY DEF HInv, TypeOK, Process

LEMMA PlayerFields ==
  ASSUME HInv, NEW v \in Viewer, viewers[v] # Nil
  PROVE  /\ viewers[v] \in Player /\ viewers[v].camera \in Camera
         /\ viewers[v].step \in {"starting", "watching", "refused"}
         /\ viewers[v].token \in 0..(TokenTtl + 1)
         /\ viewers[v].fetched \in 0..(IdleTimeout + 1)
  BY DEF HInv, TypeOK, Player

LEMMA WatchingPlayer ==
  ASSUME NEW k \in Camera
  PROVE  /\ Watching(k) \in Player /\ Watching(k).camera = k
         /\ Watching(k).step = "watching" /\ Watching(k).fetched = 0
         /\ [Watching(k) EXCEPT !.step = "starting"] \in Player
         /\ [Watching(k) EXCEPT !.step = "starting"].step = "starting"
         /\ Watching(k) # Nil
<1>1. 0 \in 0..(TokenTtl + 1) /\ 0 \in 0..(IdleTimeout + 1)
  BY HlsConstants
<1>2. Watching(k) \in Player /\ [Watching(k) EXCEPT !.step = "starting"] \in Player
  BY <1>1 DEF Watching, Player
<1> QED
  BY <1>2, NilAssumption DEF Watching

(* The access of a session is noted: its idle time starts again.           *)
LEMMA Touched ==
  ASSUME HInv, NEW k \in Camera, sessions[k] # Nil,
         sessions' = [sessions EXCEPT ![k].idle = 0]
  PROVE  /\ sessions' \in [Camera -> Session \cup {Nil}]
         /\ \A c \in Camera : /\ sessions'[c] # Nil <=> sessions[c] # Nil
                              /\ sessions[c] # Nil => sessions'[c].proc = sessions[c].proc
                              /\ c # k => sessions'[c] = sessions[c]
         /\ sessions'[k].idle = 0
<1>1. \A c \in Camera : sessions'[c] = IF c = k THEN [sessions[k] EXCEPT !.idle = 0]
                                       ELSE sessions[c]
  BY DEF HInv, TypeOK
<1>2. 0 \in 0..(IdleTimeout + 2)
  BY HlsConstants
<1>3. /\ [sessions[k] EXCEPT !.idle = 0] \in Session
      /\ [sessions[k] EXCEPT !.idle = 0].proc = sessions[k].proc
      /\ [sessions[k] EXCEPT !.idle = 0].idle = 0
  BY <1>2, SessionFields DEF Session
<1> QED
  BY <1>1, <1>3, NilAssumption DEF HInv, TypeOK

(* A step that leaves the processes and who is in the map alone.           *)
LEMMA SameProcesses ==
  ASSUME HInv, TypeOK', IdleCounts', UNCHANGED <<procs, overlapped>>,
         \A c \in Camera : /\ sessions'[c] # Nil <=> sessions[c] # Nil
                           /\ sessions[c] # Nil => sessions'[c].proc = sessions[c].proc
  PROVE  HInv'
<1>1. EntriesAreOwn'
  BY DEF HInv, EntriesAreOwn
<1>2. StreamsManaged'
  BY ProcessFields DEF HInv, StreamsManaged, Entry
<1> QED
  BY <1>1, <1>2 DEF HInv

(* A step of one player that leaves map and processes alone.               *)
LEMMA OnePlayer ==
  ASSUME HInv, NEW v \in Viewer, NEW new \in Player \cup {Nil},
         viewers' = [viewers EXCEPT ![v] = new],
         UNCHANGED <<sessions, procs, reaper, reapDue, overlapped>>,
         new # Nil => new.step # "watching"
  PROVE  HInv'
<1>1. TypeOK'
  BY DEF HInv, TypeOK
<1>2. \A w \in Viewer : viewers'[w] = IF w = v THEN new ELSE viewers[w]
  BY DEF HInv, TypeOK
<1>3. IdleCounts'
  BY <1>2 DEF HInv, IdleCounts, Has
<1> QED
  BY <1>1, <1>3, SameProcesses

LEMMA OpenLiveStep ==
  ASSUME HInv, NEW v \in Viewer, NEW k \in Camera, OpenLive(v, k)
  PROVE  HInv'
<1>1. CASE Existing(k)
  <2>1. /\ viewers' = [viewers EXCEPT ![v] = Watching(k)]
        /\ sessions' = [sessions EXCEPT ![k].idle = 0]
        /\ UNCHANGED <<procs, reaper, reapDue, overlapped>> /\ sessions[k] # Nil
    BY <1>1 DEF OpenLive, Existing
  <2>2. /\ sessions' \in [Camera -> Session \cup {Nil}]
        /\ \A c \in Camera : /\ sessions'[c] # Nil <=> sessions[c] # Nil
                             /\ sessions[c] # Nil => sessions'[c].proc = sessions[c].proc
                             /\ c # k => sessions'[c] = sessions[c]
        /\ sessions'[k].idle = 0
    BY <2>1, Touched
  <2>3. TypeOK'
    BY <2>1, <2>2, WatchingPlayer DEF HInv, TypeOK
  <2>4. IdleCounts'
    <3> SUFFICES ASSUME NEW w \in Viewer, Has(w, "watching")',
                        sessions'[viewers'[w].camera] # Nil
                 PROVE  \/ sessions'[viewers'[w].camera].idle <= viewers'[w].fetched
                        \/ viewers'[w].fetched > IdleTimeout
      BY DEF IdleCounts
    <3>1. viewers'[w] = IF w = v THEN Watching(k) ELSE viewers[w]
      BY <2>1 DEF HInv, TypeOK
    <3>2. CASE w = v
      <4>1. viewers'[w].camera = k /\ viewers'[w].fetched = 0
        BY <3>1, <3>2, WatchingPlayer
      <4> QED
        BY <2>2, <4>1
    <3>3. CASE w # v
      <4>1. Has(w, "watching") /\ viewers'[w] = viewers[w]
        BY <3>1, <3>3 DEF Has
      <4>2. viewers[w].camera \in Camera /\ viewers[w].fetched \in 0..(IdleTimeout + 1)
        BY <4>1, PlayerFields DEF Has
      <4>3. CASE viewers[w].camera = k
        BY <2>2, <4>1, <4>2, <4>3, HlsConstants
      <4>4. CASE viewers[w].camera # k
        BY <2>2, <4>1, <4>2, <4>4 DEF HInv, IdleCounts
      <4> QED
        BY <4>3, <4>4
    <3> QED
      BY <3>2, <3>3
  <2> QED
    BY <2>1, <2>2, <2>3, <2>4, SameProcesses
<1>2. CASE ~Existing(k)
  <2>1. /\ viewers' = [viewers EXCEPT ![v] = [Watching(k) EXCEPT !.step = "starting"]]
        /\ UNCHANGED <<sessions, procs, reaper, reapDue, overlapped>>
    BY <1>2 DEF OpenLive
  <2> DEFINE new == [Watching(k) EXCEPT !.step = "starting"]
  <2>2. new \in Player \cup {Nil} /\ new.step # "watching"
    BY WatchingPlayer
  <2>3. viewers' = [viewers EXCEPT ![v] = new]
    BY <2>1
  <2> HIDE DEF new
  <2> QED
    BY <2>1, <2>2, <2>3, OnePlayer
<1> QED
  BY <1>1, <1>2

(* A second start puts its process over the entry of the first.            *)
LEMMA StartTranscoderStep ==
  ASSUME HInv, NEW v \in Viewer, StartTranscoder(v)
  PROVE  HInv'
<1> DEFINE k == viewers[v].camera
<1>1. k \in Camera
  BY PlayerFields DEF StartTranscoder, Has
<1>2. PICK p \in Proc :
        /\ procs[p] = Nil
        /\ procs' = [procs EXCEPT ![p] = [camera |-> k, state |-> "running"]]
        /\ sessions' = [sessions EXCEPT ![k] = [proc |-> p, idle |-> 0]]
        /\ overlapped' = overlapped \cup
             {q \in Proc : Entry(k, q) /\ procs[q].state = "running"}
        /\ viewers' = [viewers EXCEPT ![v] = Watching(k)]
  BY DEF StartTranscoder
<1> DEFINE process == [camera |-> k, state |-> "running"]
           entry == [proc |-> p, idle |-> 0]
<1>3. /\ process \in Process /\ process # Nil
      /\ process.camera = k /\ process.state = "running"
  BY <1>1, NilAssumption DEF Process
<1>4. entry \in Session /\ entry # Nil /\ entry.proc = p /\ entry.idle = 0
  BY HlsConstants, NilAssumption DEF Session
<1>5. /\ procs' = [procs EXCEPT ![p] = process]
      /\ sessions' = [sessions EXCEPT ![k] = entry]
  BY <1>2
<1> HIDE DEF k, process, entry
<1>6. /\ \A q \in Proc : procs'[q] = IF q = p THEN process ELSE procs[q]
      /\ \A c \in Camera : sessions'[c] = IF c = k THEN entry ELSE sessions[c]
      /\ \A w \in Viewer : viewers'[w] = IF w = v THEN Watching(k) ELSE viewers[w]
  BY <1>2, <1>5 DEF HInv, TypeOK
<1>7. TypeOK'
  <2>1. procs' \in [Proc -> Process \cup {Nil}]
    BY <1>3, <1>5 DEF HInv, TypeOK
  <2>2. sessions' \in [Camera -> Session \cup {Nil}]
    BY <1>4, <1>5 DEF HInv, TypeOK
  <2>3. viewers' \in [Viewer -> Player \cup {Nil}]
    BY <1>1, <1>2, WatchingPlayer DEF HInv, TypeOK
  <2>4. reaper' \in BOOLEAN /\ reapDue' \in BOOLEAN /\ overlapped' \subseteq Proc
    <3>1. reaper' = TRUE /\ reapDue' = reapDue
      BY DEF StartTranscoder
    <3> QED
      BY <1>2, <3>1 DEF HInv, TypeOK
  <2> QED
    BY <2>1, <2>2, <2>3, <2>4 DEF TypeOK
<1>8. EntriesAreOwn'
  <2> SUFFICES ASSUME NEW c \in Camera, sessions'[c] # Nil
               PROVE  LET q == sessions'[c].proc IN
                      /\ procs'[q] # Nil /\ procs'[q].camera = c
                      /\ procs'[q].state \in {"running", "ended"}
    BY DEF EntriesAreOwn
  <2>1. CASE c = k
    BY <1>3, <1>4, <1>6, <2>1
  <2>2. CASE c # k
    BY <1>2, <1>6, <2>2, SessionFields
  <2> QED
    BY <2>1, <2>2
<1>9. StreamsManaged'
  <2> SUFFICES ASSUME NEW q \in Proc, procs'[q] # Nil, procs'[q].state = "running"
               PROVE  Entry(procs[q].camera, q)' \/ q \in overlapped'
    BY DEF StreamsManaged
  <2>1. CASE q = p
    BY <1>1, <1>3, <1>4, <1>6, <2>1 DEF Entry
  <2>2. CASE q # p
    <3>1. procs'[q] = procs[q] /\ procs[q].camera \in Camera
      BY <1>6, <2>2, ProcessFields
    <3>2. Entry(procs[q].camera, q) \/ q \in overlapped
      BY <3>1 DEF HInv, StreamsManaged
    <3> QED
      BY <1>2, <1>6, <3>1, <3>2 DEF Entry
  <2> QED
    BY <2>1, <2>2
<1>10. IdleCounts'
  <2> SUFFICES ASSUME NEW w \in Viewer, Has(w, "watching")',
                      sessions'[viewers'[w].camera] # Nil
               PROVE  \/ sessions'[viewers'[w].camera].idle <= viewers'[w].fetched
                      \/ viewers'[w].fetched > IdleTimeout
    BY DEF IdleCounts
  <2>1. viewers'[w] \in Player /\ viewers'[w].fetched \in 0..(IdleTimeout + 1)
        /\ viewers'[w].camera \in Camera
    BY <1>7 DEF TypeOK, Has, Player
  <2>2. CASE viewers'[w].camera = k
    BY <1>4, <1>6, <2>1, <2>2, HlsConstants
  <2>3. CASE viewers'[w].camera # k
    <3>1. w # v
      BY ZenonT(30), <1>1, <1>6, <2>3, WatchingPlayer
    <3> QED
      BY <1>6, <2>1, <2>3, <3>1 DEF HInv, IdleCounts, Has
  <2> QED
    BY <2>2, <2>3
<1> QED
  BY <1>7, <1>8, <1>9, <1>10 DEF HInv

LEMMA StartFailsStep ==
  ASSUME HInv, NEW v \in Viewer, StartFails(v)
  PROVE  HInv'
  BY OnePlayer DEF StartFails

LEMMA ClosePlayerStep ==
  ASSUME HInv, NEW v \in Viewer, ClosePlayer(v)
  PROVE  HInv'
  BY OnePlayer DEF ClosePlayer

LEMMA RestartStep ==
  ASSUME HInv, Restart
  PROVE  HInv'
<1>1. /\ sessions' = [k \in Camera |-> Nil] /\ overlapped' = {}
      /\ viewers' = [v \in Viewer |-> IF Has(v, "starting") THEN Nil ELSE viewers[v]]
      /\ reaper' = FALSE /\ reapDue' = FALSE
  BY DEF Restart
<1>2. ASSUME NEW p \in Proc
      PROVE  procs'[p] # Nil => procs'[p] \in Process /\ procs'[p].state = "orphan"
  <2> DEFINE gone == procs[p] = Nil \/ procs[p].state \in {"ended", "killed"}
  <2>1. /\ gone => procs'[p] = Nil
        /\ ~gone => procs'[p] = [procs[p] EXCEPT !.state = "orphan"] /\ procs[p] # Nil
    BY DEF Restart
  <2>2. procs[p] # Nil => procs[p] \in Process
    BY ProcessFields
  <2> HIDE DEF gone
  <2>3. CASE gone
    BY <2>1, <2>3
  <2>4. CASE ~gone
    <3>1. procs[p] \in Process /\ procs'[p] = [procs[p] EXCEPT !.state = "orphan"]
      BY <2>1, <2>2, <2>4
    <3> QED
      BY <3>1 DEF Process
  <2> QED
    BY <2>3, <2>4
<1>3. procs' \in [Proc -> Process \cup {Nil}]
  BY <1>2 DEF Restart
<1>4. viewers' \in [Viewer -> Player \cup {Nil}]
  BY <1>1 DEF HInv, TypeOK
<1>5. TypeOK'
  BY <1>1, <1>3, <1>4 DEF TypeOK
<1>6. EntriesAreOwn' /\ IdleCounts'
  <2>1. \A c \in Camera : sessions'[c] = Nil
    BY <1>1
  <2>2. \A v \in Viewer : Has(v, "watching")' => viewers'[v].camera \in Camera
    BY <1>4 DEF Has, Player
  <2> QED
    BY <2>1, <2>2 DEF EntriesAreOwn, IdleCounts
<1>7. StreamsManaged'
  BY <1>2 DEF StreamsManaged
<1> QED
  BY <1>5, <1>6, <1>7 DEF HInv

-----------------------------------------------------------------------------
LEMMA FetchStep ==
  ASSUME HInv, NEW v \in Viewer, NEW artifact \in Artifact, Fetch(v, artifact)
  PROVE  HInv'
<1> DEFINE r == viewers[v]
           k == r.camera
<1>1. r # Nil /\ r \in Player /\ k \in Camera
  BY PlayerFields DEF Fetch, Has
<1>2. CASE Authorized(v, artifact)
  <2> DEFINE new == [r EXCEPT !.fetched = 0]
  <2>1. /\ viewers' = [viewers EXCEPT ![v] = new]
        /\ sessions' = IF sessions[k] # Nil
                       THEN [sessions EXCEPT ![k].idle = 0] ELSE sessions
        /\ UNCHANGED <<procs, reaper, reapDue, overlapped>>
    BY <1>2 DEF Fetch
  <2>2. /\ new \in Player /\ new # Nil /\ new.camera = k /\ new.fetched = 0
    BY <1>1, HlsConstants, NilAssumption DEF Player
  <2> HIDE DEF new, k, r
  <2>3. /\ sessions' \in [Camera -> Session \cup {Nil}]
        /\ \A c \in Camera : /\ sessions'[c] # Nil <=> sessions[c] # Nil
                             /\ sessions[c] # Nil => sessions'[c].proc = sessions[c].proc
                             /\ c # k => sessions'[c] = sessions[c]
        /\ sessions'[k] # Nil => sessions'[k].idle = 0
    <3>1. CASE sessions[k] # Nil
      BY <1>1, <2>1, <3>1, Touched
    <3>2. CASE sessions[k] = Nil
      BY <1>1, <2>1, <3>2 DEF HInv, TypeOK
    <3> QED
      BY <3>1, <3>2
  <2>4. TypeOK'
    <3>1. viewers' \in [Viewer -> Player \cup {Nil}]
      BY <2>1, <2>2 DEF HInv, TypeOK
    <3> QED
      BY <2>1, <2>3, <3>1 DEF HInv, TypeOK
  <2>5. IdleCounts'
    <3> SUFFICES ASSUME NEW w \in Viewer, Has(w, "watching")',
                        sessions'[viewers'[w].camera] # Nil
                 PROVE  \/ sessions'[viewers'[w].camera].idle <= viewers'[w].fetched
                        \/ viewers'[w].fetched > IdleTimeout
      BY DEF IdleCounts
    <3>1. viewers'[w] = IF w = v THEN new ELSE viewers[w]
      BY <2>1 DEF HInv, TypeOK
    <3>2. CASE w = v
      BY <2>2, <2>3, <3>1, <3>2
    <3>3. CASE w # v
      <4>1. Has(w, "watching") /\ viewers'[w] = viewers[w]
        BY <3>1, <3>3 DEF Has
      <4>2. viewers[w].camera \in Camera /\ viewers[w].fetched \in 0..(IdleTimeout + 1)
        BY <4>1, PlayerFields DEF Has
      <4>3. CASE viewers[w].camera = k
        BY <2>3, <4>1, <4>2, <4>3, HlsConstants
      <4>4. CASE viewers[w].camera # k
        BY <2>3, <4>1, <4>2, <4>4 DEF HInv, IdleCounts
      <4> QED
        BY <4>3, <4>4
    <3> QED
      BY <3>2, <3>3
  <2> QED
    BY <2>1, <2>3, <2>4, <2>5, SameProcesses
<1>3. CASE ~Authorized(v, artifact)
  <2> DEFINE new == [r EXCEPT !.step = "refused"]
  <2>1. /\ viewers' = [viewers EXCEPT ![v] = new]
        /\ UNCHANGED <<sessions, procs, reaper, reapDue, overlapped>>
    BY <1>3 DEF Fetch
  <2>2. new \in Player \cup {Nil} /\ new.step # "watching"
    BY <1>1 DEF Player
  <2> HIDE DEF new
  <2> QED
    BY <2>1, <2>2, OnePlayer
<1> QED
  BY <1>2, <1>3

(* A step of one process that is not killed for idleness.                  *)
LEMMA TranscoderEndsStep ==
  ASSUME HInv, NEW p \in Proc, TranscoderEnds(p)
  PROVE  HInv'
<1> DEFINE new == IF procs[p].state = "orphan" THEN Nil
                  ELSE [procs[p] EXCEPT !.state = "ended"]
<1>1. /\ procs[p] # Nil /\ procs[p].state \in {"running", "orphan"}
      /\ procs' = [procs EXCEPT ![p] = new]
      /\ UNCHANGED <<sessions, viewers, reaper, reapDue, overlapped>>
  BY DEF TranscoderEnds
<1>2. /\ procs[p].state = "orphan" => new = Nil
      /\ procs[p].state = "running" =>
           /\ new \in Process /\ new # Nil /\ new.camera = procs[p].camera
           /\ new.state = "ended"
  <2>1. procs[p] \in Process
    BY <1>1, ProcessFields
  <2> QED
    BY <2>1, NilAssumption DEF Process
<1> HIDE DEF new
<1>3. \A q \in Proc : procs'[q] = IF q = p THEN new ELSE procs[q]
  BY <1>1 DEF HInv, TypeOK
<1>4. TypeOK'
  <2>1. new \in Process \cup {Nil}
    BY <1>1, <1>2
  <2> QED
    BY <1>1, <2>1 DEF HInv, TypeOK
<1>5. EntriesAreOwn'
  BY <1>1, <1>2, <1>3, SessionFields DEF EntriesAreOwn
<1>6. StreamsManaged'
  BY <1>1, <1>2, <1>3 DEF HInv, StreamsManaged, Entry
<1>7. IdleCounts'
  BY <1>1 DEF HInv, IdleCounts, Has
<1> QED
  BY <1>4, <1>5, <1>6, <1>7 DEF HInv

LEMMA ExitEventStep ==
  ASSUME HInv, NEW p \in Proc, ExitEvent(p)
  PROVE  HInv'
<1>1. /\ procs[p] # Nil /\ procs[p].state \in {"ended", "killed"}
      /\ procs' = [procs EXCEPT ![p] = Nil]
      /\ sessions' = [k \in Camera |-> IF Entry(k, p) THEN Nil ELSE sessions[k]]
      /\ overlapped' = overlapped \ {p}
      /\ UNCHANGED <<viewers, reaper, reapDue>>
  BY DEF ExitEvent
<1>2. /\ \A q \in Proc : procs'[q] = IF q = p THEN Nil ELSE procs[q]
      /\ \A k \in Camera : sessions'[k] = IF Entry(k, p) THEN Nil ELSE sessions[k]
  BY <1>1 DEF HInv, TypeOK
<1>3. TypeOK'
  BY <1>1 DEF HInv, TypeOK
<1>4. EntriesAreOwn'
  BY <1>2, SessionFields DEF EntriesAreOwn, Entry
<1>5. StreamsManaged'
  <2> SUFFICES ASSUME NEW q \in Proc, procs'[q] # Nil, procs'[q].state = "running"
               PROVE  Entry(procs[q].camera, q)' \/ q \in overlapped'
    BY DEF StreamsManaged
  <2>1. q # p /\ procs'[q] = procs[q] /\ procs[q].camera \in Camera
    BY <1>2, ProcessFields
  <2>2. Entry(procs[q].camera, q) \/ q \in overlapped
    BY <2>1 DEF HInv, StreamsManaged
  <2> QED
    BY <1>1, <1>2, <2>1, <2>2 DEF Entry
<1>6. IdleCounts'
  <2> SUFFICES ASSUME NEW w \in Viewer, Has(w, "watching")',
                      sessions'[viewers'[w].camera] # Nil
               PROVE  \/ sessions'[viewers'[w].camera].idle <= viewers'[w].fetched
                      \/ viewers'[w].fetched > IdleTimeout
    BY DEF IdleCounts
  <2>1. Has(w, "watching") /\ viewers'[w] = viewers[w] /\ viewers[w].camera \in Camera
    BY <1>1, PlayerFields DEF Has
  <2> QED
    BY <1>2, <2>1 DEF HInv, IdleCounts
<1> QED
  BY <1>3, <1>4, <1>5, <1>6 DEF HInv

-----------------------------------------------------------------------------
(* Time. *)

LEMMA Aging ==
  ASSUME NEW n \in Nat, NEW bound \in Nat, n <= bound
  PROVE  Ages(n, bound) \in 0..bound /\ (Ages(n, bound) = n + 1 \/ n = bound)
  BY DEF Ages

LEMMA TickStep ==
  ASSUME HInv, Tick
  PROVE  HInv'
<1>1. /\ reapDue' = reaper /\ UNCHANGED <<procs, reaper, overlapped>>
      /\ sessions' = [k \in Camera |->
           IF sessions[k] = Nil THEN Nil
           ELSE [sessions[k] EXCEPT !.idle = Ages(sessions[k].idle, IdleTimeout + 2)]]
      /\ viewers' = [v \in Viewer |->
           IF viewers[v] = Nil THEN Nil
           ELSE [viewers[v] EXCEPT
                   !.token = Ages(viewers[v].token, TokenTtl + 1),
                   !.fetched = Ages(viewers[v].fetched, IdleTimeout + 1)]]
  BY DEF Tick
<1>2. ASSUME NEW k \in Camera, sessions[k] # Nil
      PROVE  /\ sessions'[k] \in Session /\ sessions'[k] # Nil
             /\ sessions'[k].proc = sessions[k].proc
             /\ sessions'[k].idle = Ages(sessions[k].idle, IdleTimeout + 2)
  <2> DEFINE r == sessions[k]
             idle == Ages(r.idle, IdleTimeout + 2)
  <2>1. sessions'[k] = [r EXCEPT !.idle = idle]
    BY <1>1, <1>2
  <2>2. r \in Session /\ r.idle \in 0..(IdleTimeout + 2)
    BY <1>2, SessionFields
  <2>3. idle \in 0..(IdleTimeout + 2)
    BY <2>2, HlsConstants, Aging
  <2> HIDE DEF idle
  <2>4. [r EXCEPT !.idle = idle] \in Session
        /\ [r EXCEPT !.idle = idle].proc = r.proc
        /\ [r EXCEPT !.idle = idle].idle = idle
    BY <2>2, <2>3 DEF Session
  <2> QED
    BY <2>1, <2>4, NilAssumption DEF idle
<1>3. \A k \in Camera : sessions[k] = Nil => sessions'[k] = Nil
  BY <1>1
<1>4. ASSUME NEW v \in Viewer, viewers[v] # Nil
      PROVE  /\ viewers'[v] \in Player /\ viewers'[v].camera = viewers[v].camera
             /\ viewers'[v].step = viewers[v].step
             /\ viewers'[v].fetched = Ages(viewers[v].fetched, IdleTimeout + 1)
  <2> DEFINE r == viewers[v]
             token == Ages(r.token, TokenTtl + 1)
             fetched == Ages(r.fetched, IdleTimeout + 1)
  <2>1. viewers'[v] = [r EXCEPT !.token = token, !.fetched = fetched]
    BY <1>1, <1>4
  <2>2. r \in Player /\ r.token \in 0..(TokenTtl + 1)
        /\ r.fetched \in 0..(IdleTimeout + 1)
    BY <1>4, PlayerFields
  <2>3. token \in 0..(TokenTtl + 1) /\ fetched \in 0..(IdleTimeout + 1)
    BY <2>2, HlsConstants, Aging
  <2> HIDE DEF token, fetched
  <2>4. LET new == [r EXCEPT !.token = token, !.fetched = fetched] IN
        /\ new \in Player /\ new.camera = r.camera /\ new.step = r.step
        /\ new.fetched = fetched
    BY <2>2, <2>3 DEF Player
  <2> QED
    BY <2>1, <2>4 DEF fetched
<1>5. \A v \in Viewer : viewers[v] = Nil => viewers'[v] = Nil
  BY <1>1
<1>6. TypeOK'
  <2>1. sessions' \in [Camera -> Session \cup {Nil}]
    BY <1>1, <1>2, <1>3
  <2>2. viewers' \in [Viewer -> Player \cup {Nil}]
    BY <1>1, <1>4, <1>5
  <2> QED
    BY <1>1, <2>1, <2>2 DEF HInv, TypeOK
<1>7. IdleCounts'
  <2> SUFFICES ASSUME NEW v \in Viewer, Has(v, "watching")',
                      sessions'[viewers'[v].camera] # Nil
               PROVE  \/ sessions'[viewers'[v].camera].idle <= viewers'[v].fetched
                      \/ viewers'[v].fetched > IdleTimeout
    BY DEF IdleCounts
  <2> DEFINE k == viewers[v].camera
             idle == sessions[k].idle
             fetched == viewers[v].fetched
  <2>1. /\ viewers[v] # Nil /\ k \in Camera /\ viewers'[v].camera = k
        /\ Has(v, "watching") /\ fetched \in 0..(IdleTimeout + 1)
        /\ viewers'[v].fetched = Ages(fetched, IdleTimeout + 1)
    BY <1>4, <1>5, PlayerFields DEF Has
  <2>2. /\ sessions[k] # Nil /\ idle \in 0..(IdleTimeout + 2)
        /\ sessions'[k].idle = Ages(idle, IdleTimeout + 2)
    BY <1>2, <1>3, <2>1, SessionFields
  <2>3. idle <= fetched \/ fetched > IdleTimeout
    BY <2>1, <2>2 DEF HInv, IdleCounts
  <2> HIDE DEF idle, fetched
  <2>4. \/ Ages(idle, IdleTimeout + 2) <= Ages(fetched, IdleTimeout + 1)
        \/ Ages(fetched, IdleTimeout + 1) > IdleTimeout
    BY <2>1, <2>2, <2>3, HlsConstants DEF Ages
  <2> QED
    BY <2>1, <2>2, <2>4
<1>8. \A k \in Camera : /\ sessions'[k] # Nil <=> sessions[k] # Nil
                        /\ sessions[k] # Nil => sessions'[k].proc = sessions[k].proc
  BY <1>2, <1>3
<1> QED
  BY <1>1, <1>6, <1>7, <1>8, SameProcesses

(* The reaper kills the processes of idle sessions and takes them off the  *)
(* map in the same step.                                                   *)
LEMMA ReapedProcess ==
  ASSUME HInv, Reap, NEW p \in Proc
  PROVE  \/ /\ procs'[p] = procs[p]
            /\ \A k \in Camera : Entry(k, p) => sessions'[k] = sessions[k]
         \/ /\ procs'[p] \in Process /\ procs'[p] # Nil /\ procs[p] # Nil
            /\ procs'[p].camera = procs[p].camera
            /\ procs[p].camera \in Camera
            /\ Idle(procs[p].camera) /\ Entry(procs[p].camera, p)
            /\ procs'[p].state \in {"killed", "ended"}
<1>1. /\ sessions' = [k \in Camera |-> IF Idle(k) THEN Nil ELSE sessions[k]]
      /\ procs' = [q \in Proc |->
           IF \E k \in Camera : Idle(k) /\ sessions[k].proc = q
           THEN [procs[q] EXCEPT
                   !.state = IF procs[q].state = "running" THEN "killed"
                             ELSE procs[q].state]
           ELSE procs[q]]
  BY DEF Reap
<1>2. CASE \E k \in Camera : Idle(k) /\ sessions[k].proc = p
  <2>1. PICK k \in Camera : Idle(k) /\ sessions[k].proc = p
    BY <1>2
  <2>2. /\ procs[p] # Nil /\ procs[p].camera = k /\ procs[p] \in Process
        /\ procs[p].state \in {"running", "ended"}
    BY <2>1, SessionFields, ProcessFields DEF Idle
  <2> DEFINE state == IF procs[p].state = "running" THEN "killed" ELSE procs[p].state
  <2>3. procs'[p] = [procs[p] EXCEPT !.state = state]
    BY <1>1, <1>2
  <2>4. state \in {"killed", "ended"}
    BY <2>2
  <2> HIDE DEF state
  <2>5. /\ [procs[p] EXCEPT !.state = state] \in Process
        /\ [procs[p] EXCEPT !.state = state].camera = procs[p].camera
        /\ [procs[p] EXCEPT !.state = state].state = state
    BY <2>2, <2>4 DEF Process
  <2> QED
    BY <2>1, <2>2, <2>3, <2>4, <2>5, NilAssumption DEF Entry, Idle
<1>3. CASE ~\E k \in Camera : Idle(k) /\ sessions[k].proc = p
  <2>1. procs'[p] = procs[p]
    BY <1>1, <1>3
  <2>2. \A k \in Camera : Entry(k, p) => sessions'[k] = sessions[k]
    BY <1>1, <1>3 DEF Entry
  <2> QED
    BY <2>1, <2>2
<1> QED
  BY <1>2, <1>3

LEMMA ReapStep ==
  ASSUME HInv, Reap
  PROVE  HInv'
<1>1. /\ sessions' = [k \in Camera |-> IF Idle(k) THEN Nil ELSE sessions[k]]
      /\ reaper' = StillSet(sessions') /\ reapDue' = FALSE
      /\ UNCHANGED <<viewers, overlapped>>
  BY DEF Reap
<1>2. TypeOK'
  <2>1. procs' \in [Proc -> Process \cup {Nil}]
    <3>1. \A p \in Proc : procs'[p] \in Process \cup {Nil}
      BY ReapedProcess DEF HInv, TypeOK
    <3>2. procs' = [p \in Proc |-> procs'[p]]
      BY DEF Reap
    <3> QED
      BY <3>1, <3>2
  <2>2. sessions' \in [Camera -> Session \cup {Nil}]
    BY <1>1 DEF HInv, TypeOK
  <2>3. reaper' \in BOOLEAN
    BY <1>1, Zenon DEF StillSet
  <2> QED
    BY <1>1, <2>1, <2>2, <2>3 DEF HInv, TypeOK
<1>3. \A k \in Camera : sessions'[k] # Nil => sessions'[k] = sessions[k] /\ ~Idle(k)
  BY <1>1
<1>4. EntriesAreOwn'
  <2> SUFFICES ASSUME NEW k \in Camera, sessions'[k] # Nil
               PROVE  LET q == sessions'[k].proc IN
                      /\ procs'[q] # Nil /\ procs'[q].camera = k
                      /\ procs'[q].state \in {"running", "ended"}
    BY DEF EntriesAreOwn
  <2> DEFINE q == sessions[k].proc
  <2>1. /\ sessions'[k] = sessions[k] /\ sessions[k] # Nil /\ ~Idle(k)
        /\ q \in Proc /\ procs[q] # Nil /\ procs[q].camera = k
        /\ procs[q].state \in {"running", "ended"}
    BY <1>3, SessionFields
  <2>2. procs'[q] = procs[q]
    BY <2>1, ReapedProcess
  <2> QED
    BY <2>1, <2>2
<1>5. StreamsManaged'
  <2> SUFFICES ASSUME NEW q \in Proc, procs'[q] # Nil, procs'[q].state = "running"
               PROVE  Entry(procs[q].camera, q)' \/ q \in overlapped'
    BY DEF StreamsManaged
  <2>1. /\ procs'[q] = procs[q]
        /\ \A k \in Camera : Entry(k, q) => sessions'[k] = sessions[k]
    BY ReapedProcess
  <2>2. procs[q].camera \in Camera
    BY <2>1, ProcessFields
  <2>3. Entry(procs[q].camera, q) \/ q \in overlapped
    BY <2>1 DEF HInv, StreamsManaged
  <2> QED
    BY <1>1, <2>1, <2>2, <2>3 DEF Entry
<1>6. IdleCounts'
  <2> SUFFICES ASSUME NEW w \in Viewer, Has(w, "watching")',
                      sessions'[viewers'[w].camera] # Nil
               PROVE  \/ sessions'[viewers'[w].camera].idle <= viewers'[w].fetched
                      \/ viewers'[w].fetched > IdleTimeout
    BY DEF IdleCounts
  <2>1. Has(w, "watching") /\ viewers'[w] = viewers[w] /\ viewers[w].camera \in Camera
    BY <1>1, PlayerFields DEF Has
  <2> QED
    BY <1>3, <2>1 DEF HInv, IdleCounts
<1> QED
  BY <1>2, <1>4, <1>5, <1>6 DEF HInv

-----------------------------------------------------------------------------
LEMMA Initially == Init => HInv
<1> SUFFICES ASSUME Init PROVE HInv
  OBVIOUS
<1>1. (\A k \in Camera : sessions[k] = Nil) /\ (\A p \in Proc : procs[p] = Nil)
      /\ \A v \in Viewer : viewers[v] = Nil
  BY DEF Init
<1>2. TypeOK
  BY DEF Init, TypeOK
<1> QED
  BY <1>1, <1>2 DEF HInv, EntriesAreOwn, StreamsManaged, IdleCounts, Has

LEMMA Inductive == HInv /\ [Next]_vars => HInv'
<1> SUFFICES ASSUME HInv, [Next]_vars PROVE HInv'
  OBVIOUS
<1>1. CASE \E v \in Viewer : Play(v)
  BY <1>1, OpenLiveStep, StartTranscoderStep, StartFailsStep, FetchStep,
     ClosePlayerStep DEF Play
<1>2. CASE \E p \in Proc : TranscoderEnds(p) \/ ExitEvent(p)
  BY <1>2, TranscoderEndsStep, ExitEventStep
<1>3. CASE Tick \/ Reap \/ Restart
  BY <1>3, TickStep, ReapStep, RestartStep
<1>4. CASE UNCHANGED vars
  <2>1. TypeOK' /\ IdleCounts'
    BY <1>4 DEF vars, HInv, TypeOK, IdleCounts, Has
  <2> QED
    BY <1>4, <2>1, SameProcesses DEF vars
<1> QED
  BY <1>1, <1>2, <1>3, <1>4 DEF Next

(* The map, the processes and the players fit together after any sequence  *)
(* of starts, ends, exits, reaps and restarts.                             *)
THEOREM StreamInvariance == Spec => []HInv
  BY Initially, Inductive, PTL DEF Spec

(* Every variable has the type hls.service.ts gives it.                    *)
THEOREM StreamTypes == Spec => []TypeOK
<1>1. HInv => TypeOK
  BY DEF HInv
<1> QED
  BY <1>1, StreamInvariance, PTL

(* A running transcoder is the one of its camera's entry, unless two       *)
(* starts overlapped or its API process is gone (ensureSession, 'exit').   *)
THEOREM StreamsAreManaged == Spec => []StreamsManaged
<1>1. HInv => StreamsManaged
  BY DEF HInv
<1> QED
  BY <1>1, StreamInvariance, PTL

(* Only the reaper kills, and only what is idle.                           *)
LEMMA OnlyReap ==
  ASSUME HInv, [Next]_vars, NEW p \in Proc, procs[p] # Nil, procs'[p] # Nil,
         procs[p].state = "running", procs'[p].state = "killed"
  PROVE  Reap
<1>1. procs'[p] # procs[p]
  OBVIOUS
<1>2. ASSUME NEW v \in Viewer, Play(v) PROVE FALSE
  <2>1. ~StartTranscoder(v)
    BY <1>1 DEF StartTranscoder, HInv, TypeOK
  <2> QED
    BY <1>1, <1>2, <2>1 DEF Play, OpenLive, StartFails, Fetch, ClosePlayer
<1>3. ASSUME NEW q \in Proc, TranscoderEnds(q) PROVE FALSE
  <2>1. procs'[p] = IF p = q THEN [procs[p] EXCEPT !.state = "ended"] ELSE procs[p]
    BY <1>3 DEF TranscoderEnds, HInv, TypeOK
  <2>2. procs[p] \in Process
    BY ProcessFields
  <2> QED
    BY <1>1, <2>1, <2>2 DEF Process
<1>4. ASSUME NEW q \in Proc, ExitEvent(q) PROVE FALSE
  BY <1>1, <1>4 DEF ExitEvent, HInv, TypeOK
<1>5. ~Tick /\ ~UNCHANGED vars
  BY <1>1 DEF Tick, vars
<1>6. ~Restart
  <2>1. SUFFICES ASSUME Restart PROVE FALSE
    OBVIOUS
  <2>2. procs'[p] = [procs[p] EXCEPT !.state = "orphan"]
    BY <2>1 DEF Restart
  <2>3. procs[p] \in Process
    BY ProcessFields
  <2> QED
    BY <2>2, <2>3 DEF Process
<1> QED
  BY <1>2, <1>3, <1>4, <1>5, <1>6 DEF Next

LEMMA NotUnderAPlayer ==
  ASSUME HInv, [Next]_vars, NEW p \in Proc, procs[p] # Nil, procs'[p] # Nil,
         procs[p].state = "running", procs'[p].state = "killed",
         NEW v \in Viewer, Has(v, "watching"), viewers[v].camera = procs[p].camera
  PROVE  viewers[v].fetched > IdleTimeout
<1>1. procs[p].camera \in Camera /\ Idle(procs[p].camera)
  BY OnlyReap, ReapedProcess
<1>2. /\ sessions[viewers[v].camera] # Nil
      /\ sessions[viewers[v].camera].idle > IdleTimeout
      /\ sessions[viewers[v].camera].idle \in 0..(IdleTimeout + 2)
  BY <1>1, SessionFields DEF Idle
<1>3. viewers[v].fetched \in 0..(IdleTimeout + 1)
  BY PlayerFields DEF Has
<1> QED
  BY <1>2, <1>3, HlsConstants DEF HInv, IdleCounts

(* No stream is reaped under a player that was served within the timeout,  *)
(* whoever shares it (touch, reapIdle).                                    *)
THEOREM NoReapUnderAPlayer == Spec => WatchedNotReaped
<1>1. HInv /\ [Next]_vars =>
        [\A p \in Proc :
           procs[p] # Nil /\ procs'[p] # Nil
           /\ procs[p].state = "running" /\ procs'[p].state = "killed" =>
             \A v \in Viewer :
               Has(v, "watching") /\ viewers[v].camera = procs[p].camera =>
                 viewers[v].fetched > IdleTimeout]_vars
  BY NotUnderAPlayer
<1> QED
  BY <1>1, StreamInvariance, PTL DEF Spec, WatchedNotReaped

-----------------------------------------------------------------------------
(* The interval.  It is set while there is a session, and a session past   *)
(* its time waits for a pass that is due.                                  *)
Timed(k) ==
  sessions[k] # Nil =>
    /\ reaper
    /\ \/ sessions[k].idle <= IdleTimeout
       \/ reapDue /\ sessions[k].idle <= IdleTimeout + 1

TimedInv == HInv /\ \A k \in Camera : Timed(k)

(* A step that leaves the interval set, and each session as it was, off    *)
(* the map, or just accessed.                                              *)
LEMMA StillTimed ==
  ASSUME NEW k \in Camera, Timed(k), reaper => reaper', UNCHANGED reapDue,
         sessions'[k] # Nil => \/ sessions'[k] = sessions[k]
                               \/ reaper' /\ sessions'[k].idle = 0
  PROVE  Timed(k)'
  BY HlsConstants DEF Timed

LEMMA ReaperKeepsTime == TimedInv /\ [Next]_vars => TimedInv'
<1> SUFFICES ASSUME TimedInv, [Next]_vars PROVE TimedInv'
  OBVIOUS
<1>1. HInv /\ HInv'
  BY Inductive DEF TimedInv
<1>2. ASSUME NEW k \in Camera PROVE Timed(k)'
  <2>1. Timed(k)
    BY DEF TimedInv
  <2>2. CASE \E v \in Viewer, c \in Camera : OpenLive(v, c)
    <3>1. PICK v \in Viewer, c \in Camera : OpenLive(v, c)
      BY <2>2
    <3>2. CASE Existing(c)
      <4>1. /\ sessions[c] # Nil /\ sessions' = [sessions EXCEPT ![c].idle = 0]
            /\ UNCHANGED <<reaper, reapDue>>
        BY <3>1, <3>2 DEF OpenLive, Existing
      <4>2. sessions'[k] # Nil => sessions'[k] = sessions[k] \/ sessions'[k].idle = 0
        BY <1>1, <4>1, Touched
      <4>3. sessions'[k] # Nil => sessions[k] # Nil
        BY <1>1, <4>1, Touched
      <4> QED
        BY <2>1, <4>1, <4>2, <4>3, StillTimed DEF Timed
    <3>3. CASE ~Existing(c)
      BY <2>1, <3>1, <3>3, StillTimed DEF OpenLive
    <3> QED
      BY <3>2, <3>3
  <2>3. CASE \E v \in Viewer : StartTranscoder(v)
    <3>1. PICK v \in Viewer : StartTranscoder(v)
      BY <2>3
    <3>2. sessions'[k] = sessions[k] \/ sessions'[k].idle = 0
      BY <1>1, <3>1 DEF StartTranscoder, HInv, TypeOK
    <3>3. reaper' /\ UNCHANGED reapDue
      BY <3>1 DEF StartTranscoder
    <3> QED
      BY <2>1, <3>2, <3>3, StillTimed
  <2>4. CASE \E v \in Viewer, artifact \in Artifact : Fetch(v, artifact)
    <3>1. PICK v \in Viewer, artifact \in Artifact : Fetch(v, artifact)
      BY <2>4
    <3> DEFINE c == viewers[v].camera
    <3>2. UNCHANGED <<reaper, reapDue>> /\ c \in Camera
      BY <1>1, <3>1, PlayerFields DEF Fetch, Has
    <3>3. CASE sessions' = [sessions EXCEPT ![c].idle = 0] /\ sessions[c] # Nil
      <4>1. sessions'[k] # Nil => sessions'[k] = sessions[k] \/ sessions'[k].idle = 0
        BY <1>1, <3>2, <3>3, Touched
      <4>2. sessions'[k] # Nil => sessions[k] # Nil
        BY <1>1, <3>2, <3>3, Touched
      <4> QED
        BY <2>1, <3>2, <4>1, <4>2, StillTimed DEF Timed
    <3>4. CASE UNCHANGED sessions
      BY <2>1, <3>2, <3>4, StillTimed
    <3> QED
      BY <3>1, <3>3, <3>4 DEF Fetch
  <2>5. CASE \E v \in Viewer : StartFails(v) \/ ClosePlayer(v)
    BY <2>1, <2>5, StillTimed DEF StartFails, ClosePlayer
  <2>6. CASE \E p \in Proc : TranscoderEnds(p) \/ ExitEvent(p)
    BY <2>1, <2>6, StillTimed DEF TranscoderEnds, ExitEvent
  <2>7. CASE Restart
    BY <2>7 DEF Restart, Timed
  <2>8. CASE Tick
    <3>1. sessions[k] = Nil => sessions'[k] = Nil
      BY <2>8 DEF Tick
    <3>2. CASE sessions[k] # Nil
      <4>1. /\ reaper /\ sessions[k].idle <= IdleTimeout
            /\ sessions[k].idle \in 0..(IdleTimeout + 2) /\ sessions[k] \in Session
        BY <1>1, <2>1, <2>8, <3>2, SessionFields DEF Tick, Timed
      <4>2. sessions'[k] = [sessions[k] EXCEPT
                              !.idle = Ages(sessions[k].idle, IdleTimeout + 2)]
        BY <2>8, <3>2 DEF Tick
      <4>3. sessions'[k].idle = Ages(sessions[k].idle, IdleTimeout + 2)
        BY <4>1, <4>2 DEF Session
      <4>4. sessions'[k].idle <= IdleTimeout + 1
        BY <4>1, <4>3, HlsConstants DEF Ages
      <4>5. reaper' = reaper /\ reapDue' = reaper
        BY <2>8 DEF Tick
      <4> QED
        BY <4>1, <4>4, <4>5 DEF Timed
    <3> QED
      BY <3>1, <3>2 DEF Timed
  <2>9. CASE Reap
    <3>1. sessions'[k] # Nil => sessions'[k] = sessions[k] /\ ~Idle(k)
      BY <2>9 DEF Reap
    <3>2. reaper' = StillSet(sessions')
      BY <2>9 DEF Reap
    <3>3. sessions'[k] # Nil => reaper'
      BY <3>2 DEF StillSet
    <3>4. sessions'[k] # Nil => sessions'[k].idle <= IdleTimeout
      <4>1. sessions[k] # Nil => sessions[k].idle \in 0..(IdleTimeout + 2)
        BY <1>1, SessionFields
      <4> QED
        BY <3>1, <4>1, HlsConstants DEF Idle
    <3> QED
      BY <3>3, <3>4 DEF Timed
  <2>10. CASE UNCHANGED vars
    BY <2>1, <2>10, StillTimed DEF vars
  <2> QED
    BY <2>2, <2>3, <2>4, <2>5, <2>6, <2>7, <2>8, <2>9, <2>10 DEF Next, Play
<1> QED
  BY <1>1, <1>2 DEF TimedInv

(* "Idle sessions are reaped" (hls.service.ts): none stays in the map for  *)
(* more than a pass of the reaper after its time, in whatever order        *)
(* sessions start, end and empty the map, on which the interval depends.   *)
THEOREM IdleAreReaped == Spec => []IdleSessionsReaped
<1>1. Init => TimedInv
  BY Initially DEF TimedInv, Timed, Init
<1>2. ASSUME TimedInv, NEW k \in Camera, sessions[k] # Nil
      PROVE  sessions[k].idle <= IdleTimeout + 1
  <2>1. Timed(k) /\ sessions[k].idle \in 0..(IdleTimeout + 2)
    BY <1>2, SessionFields DEF TimedInv
  <2> QED
    BY <1>2, <2>1, HlsConstants DEF Timed
<1>3. TimedInv => IdleSessionsReaped
  BY <1>2 DEF IdleSessionsReaped
<1> QED
  BY <1>1, <1>3, ReaperKeepsTime, PTL DEF Spec
=============================================================================
