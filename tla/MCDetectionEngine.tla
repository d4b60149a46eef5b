------------------------- MODULE MCDetectionEngine -------------------------
(* Instances of DetectionEngine for TLC.  One unit of time is 10 seconds.  *)
EXTENDS DetectionEngine, TLC

CONSTANTS cam1, e1, e2, e3, t1, t2

EventSymmetry == Permutations(EventId)
Symmetry == EventSymmetry \cup Permutations(Tx)

Signal(camera, types) ==
  [camera |-> camera, types |-> types, confidence |-> 1, duration |-> 0,
   severity |-> Nil]

(* Fire and smoke, one detection per request, as rawClass FIRE and SMOKE.  *)
FireTypes == {"FIRE", "SMOKE", "FIRE_AND_SMOKE"}
FireRequests == {Signal(cam1, <<"FIRE">>), Signal(cam1, <<"SMOKE">>)}

NoRules == {Nil}

(* A request without a severity of its own, for a PERSON detection that    *)
(* two rules of the camera match; the rows come back in no fixed order.    *)
PersonTypes == {"UNAUTHORIZED_ENTRY", "AFTER_HOURS_ACTIVITY", "FIRE_AND_SMOKE"}
PersonRequests ==
  {Signal(cam1, <<"UNAUTHORIZED_ENTRY", "AFTER_HOURS_ACTIVITY">>),
   Signal(cam1, <<"AFTER_HOURS_ACTIVITY", "UNAUTHORIZED_ENTRY">>)}

Rule(enabled, minConfidence) ==
  [enabled |-> enabled, minConfidence |-> minConfidence, minDuration |-> 0,
   severity |-> "LOW", cooldown |-> 1]

(* No rule, a rule the signal passes, one it fails, a disabled one. *)
PersonRules == {Nil, Rule(TRUE, 2), Rule(FALSE, 0)}

(* One request at a time may raise fire, smoke, both, or an entry. *)
MixedTypes == FireTypes \cup {"UNAUTHORIZED_ENTRY"}
MixedRequests ==
  {Signal(cam1, <<type>>) : type \in MixedTypes}
=============================================================================
