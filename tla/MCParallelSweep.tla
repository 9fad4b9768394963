---------------------------- MODULE MCParallelSweep ----------------------------
(* Instances of ParallelSweep for TLC. *)
EXTENDS ParallelSweep, TLC

(* Worker slots are interchangeable: a slot number only names a dashboard   *)
(* row.  Used by the runs that check no liveness.                           *)
WorkerSymmetry == Permutations(Workers)

Uncapped == NoCap

(* worker_count in run_parallel_sweep *)
ASSUME PoolSize == Cardinality(Workers) = Smaller(Ceiling, N)
=============================================================================
