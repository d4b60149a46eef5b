-------------------------- MODULE CooldownPromise --------------------------
(***************************************************************************)
(* What README.md:246-255 promises about one {camera, category}: within a  *)
(* cooldown window the detections are one incident with one alert, an      *)
(* incident of fire and smoke is alerted once more when the second of the  *)
(* two is seen, and the next incident comes after the window has ended.    *)
(* The incidents may be deleted, all of them, with their camera.           *)
(***************************************************************************)
EXTENDS Naturals

CONSTANTS EventId, Nil,
          Cooldowns   \* the lengths a window may have

VARIABLES
  now,        \* the clock
  incidents,  \* the incidents of this camera and category
  window,     \* the latest window: its incident, Nil once deleted, and its
              \* end; or Nil
  alerts      \* how often an incident was alerted, by kind

vars == <<now, incidents, window, alerts>>

Init ==
  /\ now = 0
  /\ incidents = {}
  /\ window = Nil
  /\ alerts = [p \in EventId \X {"create", "upgrade"} |-> 0]

(* A detection evaluated at time n restarts the window, for incident e. *)
Restart(e, n) ==
  \E c \in Cooldowns : window' = [event |-> e, expires |-> n + c]

(* There is no window at time n that could take a detection in. *)
Ended(n) == window = Nil \/ window.event = Nil \/ window.expires <= n

NewIncident(e, n) ==
  /\ Ended(n)
  /\ e \notin incidents
  /\ incidents' = incidents \cup {e}
  /\ alerts' = [alerts EXCEPT ![<<e, "create">>] = @ + 1]
  /\ Restart(e, n)
  /\ UNCHANGED now

FoldedIn(n) ==
  /\ ~Ended(n)
  /\ Restart(window.event, n)
  /\ UNCHANGED <<now, incidents, alerts>>

CorrelatedIn(n) ==
  /\ ~Ended(n)
  /\ alerts[<<window.event, "upgrade">>] = 0
  /\ alerts' = [alerts EXCEPT ![<<window.event, "upgrade">>] = 1]
  /\ Restart(window.event, n)
  /\ UNCHANGED <<now, incidents>>

Remove ==
  /\ incidents' = {}
  /\ window' = IF window = Nil THEN Nil ELSE [window EXCEPT !.event = Nil]
  /\ alerts' = [p \in DOMAIN alerts |-> 0]
  /\ UNCHANGED now

Tick == now' = now + 1 /\ UNCHANGED <<incidents, window, alerts>>

(* A detection takes effect some time after it was evaluated. *)
Next ==
  \/ \E n \in 0..now : \/ \E e \in EventId : NewIncident(e, n)
                       \/ FoldedIn(n) \/ CorrelatedIn(n)
  \/ Remove \/ Tick

Spec == Init /\ [][Next]_vars
=============================================================================
