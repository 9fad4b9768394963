--------------------------------- MODULE Sweep ---------------------------------
(***************************************************************************)
(* What a sweep of `govfuzz auto` promises its caller, whichever of its two *)
(* implementations runs (sweep_phase in cli.rs): candidates are handed out  *)
(* in rank order, each once; a good result is checkpointed before it is     *)
(* reported; the sweep may stop handing out at any time, but answers only   *)
(* when every candidate it handed out has a result, and answers with an     *)
(* error exactly when one of them has failed.                               *)
(***************************************************************************)
EXTENDS Integers, FiniteSets

CONSTANT N      \* number of ranked candidates

VARIABLES
  taken,        \* how many candidates were handed out
  durable,      \* ranks in the dependency checkpoint on disk
  results,      \* the result of each rank, "none" while there is none
  answer        \* what the sweep returned

vars == <<taken, durable, results, answer>>
Rank == 0 .. (N - 1)

Init ==
  /\ taken = 0 /\ durable = {} /\ answer = "none"
  /\ results = [i \in Rank |-> "none"]

Open(i) == answer = "none" /\ i < taken /\ results[i] = "none"

Take ==
  /\ answer = "none" /\ taken < N
  /\ taken' = taken + 1
  /\ UNCHANGED <<durable, results, answer>>

(* One write of the checkpoint covers everything folded into it so far, a   *)
(* candidate whose own write failed included.                               *)
Save ==
  /\ answer = "none"
  /\ durable \subseteq durable' /\ durable' \subseteq 0 .. (taken - 1)
  /\ UNCHANGED <<taken, results, answer>>

Record(i, r) ==
  /\ Open(i) /\ (r = "err" \/ i \in durable)
  /\ results' = [results EXCEPT ![i] = r]
  /\ UNCHANGED <<taken, durable, answer>>

Answer ==
  /\ answer = "none" /\ \A i \in Rank : ~Open(i)
  /\ answer' = IF \E i \in Rank : results[i] = "err" THEN "err" ELSE "ok"
  /\ UNCHANGED <<taken, durable, results>>

Next ==
  \/ Take \/ Save \/ Answer
  \/ \E i \in Rank, r \in {"fuzzed", "other", "err"} : Record(i, r)

Spec == Init /\ [][Next]_vars

-----------------------------------------------------------------------------
(* A cap of `cap` fuzzed targets, `seed` of them fuzzed before, selects the *)
(* earliest candidates that fuzz: those with fewer than cap - seed fuzzing  *)
(* candidates before them.                                                  *)
FuzzedBelow(outcome, i) ==
  Cardinality({j \in Rank : j < i /\ outcome[j] = "fuzzed"})
Selection(outcome, seed, cap) ==
  {i \in Rank : outcome[i] = "fuzzed" /\ seed + FuzzedBelow(outcome, i) < cap}
=============================================================================
