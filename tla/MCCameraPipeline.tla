-------------------------- MODULE MCCameraPipeline --------------------------
(* CameraPipeline for TLC: delays are in units of reconnectBaseMs. *)
EXTENDS CameraPipeline
=============================================================================
