--------------------------- MODULE MCMediaWorker ---------------------------
(* Instances of MediaWorker for TLC. *)
EXTENDS MediaWorker, TLC

CONSTANTS c1, c2, c3, c4, r1, r2

Symmetry == Permutations(Camera)
=============================================================================
