---------------------------- MODULE MCCameraFeed ----------------------------
(* Instances of CameraFeed for TLC. *)
EXTENDS CameraFeed, TLC

CONSTANTS t1, t2

Symmetry == Permutations(Tx)

(* AUTH_FAILED and INVALID_STREAM are treated alike from the probe on, so  *)
(* one of them is explored; and at most two reports  are under way.       *)
OneRefusal == \A t \in Tx : local[t].report # "INVALID_STREAM"
FewUnderWay ==
  outbox["CONNECTING"] + outbox["ONLINE"] + outbox["OFFLINE"] + outbox["RECONNECTING"] <= 2

(* What becomes of the process of a stopped pipeline is MC_pipeline's.     *)
GraceGoesOn == \A i \in Source : source[i].killTimer => source'[i].killTimer
=============================================================================
