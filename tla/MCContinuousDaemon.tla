-------------------------- MODULE MCContinuousDaemon --------------------------
(* Instances of ContinuousDaemon for TLC. *)
EXTENDS ContinuousDaemon
=============================================================================
