------------------------------ MODULE MCMulticore ------------------------------
(* Instances of Multicore for TLC. *)
EXTENDS Multicore
=============================================================================
