----------------------------- MODULE MCSerialSweep -----------------------------
(* Instances of SerialSweep for TLC. *)
EXTENDS SerialSweep
=============================================================================
