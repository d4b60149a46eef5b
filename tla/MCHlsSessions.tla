--------------------------- MODULE MCHlsSessions ---------------------------
(* Instances of HlsSessions for TLC. *)
EXTENDS HlsSessions
CONSTANTS c1, c2, v1, v2, p1, p2, p3
=============================================================================
