-------------------------- MODULE MCCameraHealth --------------------------
(* Instances of CameraHealth for TLC. *)
EXTENDS CameraHealth, TLC

CONSTANTS t1, t2, t3

Symmetry == Permutations(Tx)

(* What the media worker reports, and what a connection test adds. *)
WorkerReports == {"CONNECTING", "ONLINE", "OFFLINE", "RECONNECTING"}
AllReports == WorkerReports \cup {"AUTH_FAILED", "INVALID_STREAM"}
=============================================================================
