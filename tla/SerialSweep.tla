------------------------------ MODULE SerialSweep ------------------------------
(***************************************************************************)
(* The serial loop of sweep_phase (crates/cli/src/auto/cli.rs), which a     *)
(* host with one processor runs instead of the worker pool.  The loop is    *)
(* one thread; the operator's keys and the clock interleave with it.        *)
(***************************************************************************)
EXTENDS RunStatus, FiniteSets

CONSTANTS
  N,           \* number of ranked candidates
  Cap0,        \* --max-targets at start, or NoCap
  MaxSeed,     \* bound on the successes counted before this sweep
  Outcomes,    \* what an attempt may return
  Keys,        \* the keys the operator may press
  MaxKeys,     \* bound on key presses
  HasBudget,   \* --max-work-dir-mb is not zero
  DiskFaults   \* writes and measurements under the work directory may fail

Results == {"fuzzed", "other", "err"}
Rank == 0 .. (N - 1)

ASSUME SerialAssumption ==
  /\ N \in Nat /\ N > 0
  /\ Cap0 \in Nat \cup {NoCap} /\ MaxSeed \in Nat /\ MaxKeys \in Nat
  /\ Outcomes \subseteq Results /\ Keys \subseteq AllKeys
  /\ HasBudget \in BOOLEAN /\ DiskFaults \in BOOLEAN

VARIABLES
  pc,             \* where the loop is
  begun,          \* candidates begun; the current one is begun - 1
  results,        \* the vector `results`, by rank
  already_fuzzed, \* successes reloaded or counted by an earlier phase
  fuzz_successes,
  cap, fuzzed, paused, quit, keys,   \* RunStatus, and keys pressed
  exhausted,      \* WorkDirBudget.exhausted
  expired,        \* the campaign deadline has passed
  outcome,        \* what attempting each rank would return
  saved,          \* ranks with a result.json
  manifest, manifest_file,  \* the dependency checkpoint, in memory and on disk
  returned,
  late            \* candidates begun after the deadline (history)

controls == <<cap, paused, quit, keys>>
disk == <<saved, manifest, manifest_file>>
vars == <<pc, begun, results, already_fuzzed, fuzz_successes, controls, fuzzed,
          exhausted, expired, outcome, disk, returned, late>>

Current == begun - 1

Init ==
  /\ pc = "top" /\ begun = 0 /\ results = [i \in Rank |-> "none"]
  /\ already_fuzzed \in 0 .. MaxSeed
  /\ fuzz_successes = already_fuzzed /\ fuzzed = already_fuzzed
  /\ cap = Cap0 /\ paused = FALSE /\ quit = FALSE /\ keys = 0
  /\ exhausted \in (IF HasBudget THEN BOOLEAN ELSE {FALSE})
  /\ expired = FALSE
  /\ outcome \in [Rank -> Outcomes]
  /\ saved = {} /\ manifest = {} /\ manifest_file = {}
  /\ returned = "none" /\ late = 0

CapReached(count) == cap # NoCap /\ count >= cap

-----------------------------------------------------------------------------
(* Variants with a plausible mistake each. *)

(* The deadline is not looked at. *)
CheckIgnoresDeadline ==
  /\ pc = "top"
  /\ pc' = IF begun = N \/ exhausted \/ quit \/ CapReached(fuzz_successes)
             THEN "return" ELSE "hold"
  /\ UNCHANGED <<begun, results, already_fuzzed, fuzz_successes, controls,
                 fuzzed, exhausted, expired, outcome, disk, returned, late>>

(* Reloaded successes are not counted against the cap. *)
CheckForgetsSeed ==
  /\ pc = "top"
  /\ pc' = IF \/ begun = N \/ exhausted \/ quit \/ expired
              \/ CapReached(fuzz_successes - already_fuzzed)
             THEN "return" ELSE "hold"
  /\ UNCHANGED <<begun, results, already_fuzzed, fuzz_successes, controls,
                 fuzzed, exhausted, expired, outcome, disk, returned, late>>

(* The pause waits for a resume only. *)
HoldUntilResumed ==
  /\ pc = "hold"
  /\ IF quit \/ paused
       THEN pc' = (IF paused THEN "hold" ELSE "return") /\ UNCHANGED <<begun, late>>
       ELSE /\ pc' = "attempt" /\ begun' = begun + 1
            /\ late' = IF expired THEN late + 1 ELSE late
  /\ UNCHANGED <<results, already_fuzzed, fuzz_successes, controls, fuzzed,
                 exhausted, expired, outcome, disk, returned>>

(* A failed checkpoint is ignored like a failed result.json. *)
CheckpointIgnored ==
  /\ pc = "deps"
  /\ manifest' = manifest \cup {Current}
  /\ \/ manifest_file' = manifest'
     \/ DiskFaults /\ UNCHANGED manifest_file
  /\ pc' = "push"
  /\ UNCHANGED <<begun, results, already_fuzzed, fuzz_successes, controls,
                 fuzzed, saved, exhausted, expired, outcome, returned, late>>

-----------------------------------------------------------------------------
(* The checks before each candidate: the output ceiling, `q`, the deadline  *)
(* and the live cap.  All but the cap are latches.                          *)
Check ==
  /\ pc = "top"
  /\ pc' = IF \/ begun = N \/ exhausted \/ quit \/ expired
              \/ CapReached(fuzz_successes)
             THEN "return" ELSE "hold"
  /\ UNCHANGED <<begun, results, already_fuzzed, fuzz_successes, controls,
                 fuzzed, exhausted, expired, outcome, disk, returned, late>>

(* The pause: left by a resume or `q`, whatever else has changed meanwhile. *)
Hold ==
  /\ pc = "hold" /\ (~paused \/ quit)
  /\ IF quit
       THEN pc' = "return" /\ UNCHANGED <<begun, late>>
       ELSE /\ pc' = "attempt" /\ begun' = begun + 1
            /\ late' = IF expired THEN late + 1 ELSE late
  /\ UNCHANGED <<results, already_fuzzed, fuzz_successes, controls, fuzzed,
                 exhausted, expired, outcome, disk, returned>>

(* The 200 ms polls of a pause; nothing else is looked at. *)
Poll == pc = "hold" /\ paused /\ ~quit /\ UNCHANGED vars

(* The attempt, abstracted to its outcome; an error leaves the loop at once. *)
Attempt ==
  /\ pc = "attempt"
  /\ LET got == outcome[Current] IN
       /\ pc' = IF got = "err" THEN "fail" ELSE "persist"
       /\ fuzzed' = IF got = "fuzzed" THEN fuzzed + 1 ELSE fuzzed
       /\ fuzz_successes' = IF got = "fuzzed" THEN fuzz_successes + 1 ELSE fuzz_successes
  /\ UNCHANGED <<begun, results, already_fuzzed, controls, exhausted, expired,
                 outcome, disk, returned, late>>

(* persist_target_result: best effort. *)
Persist ==
  /\ pc = "persist"
  /\ \/ saved' = saved \cup {Current}
     \/ DiskFaults /\ UNCHANGED saved
  /\ pc' = "deps"
  /\ UNCHANGED <<begun, results, already_fuzzed, fuzz_successes, controls,
                 fuzzed, exhausted, expired, outcome, manifest, manifest_file,
                 returned, late>>

(* checkpoint_dependency_result: a failure ends the sweep. *)
CheckpointDependencies ==
  /\ pc = "deps"
  /\ manifest' = manifest \cup {Current}
  /\ \/ manifest_file' = manifest' /\ pc' = "push"
     \/ DiskFaults /\ pc' = "fail" /\ UNCHANGED manifest_file
  /\ UNCHANGED <<begun, results, already_fuzzed, fuzz_successes, controls,
                 fuzzed, saved, exhausted, expired, outcome, returned, late>>

(* results.push, then WorkDirBudget.checkpoint: below the ceiling, at it, or *)
(* impossible to measure.                                                    *)
PushAndMeasure ==
  /\ pc = "push"
  /\ results' = [results EXCEPT ![Current] = outcome[Current]]
  /\ \/ pc' = "top" /\ ~exhausted /\ UNCHANGED exhausted
     \/ pc' = "return" /\ (exhausted \/ HasBudget) /\ exhausted' = TRUE
     \/ pc' = "fail" /\ HasBudget /\ ~exhausted /\ DiskFaults /\ UNCHANGED exhausted
  /\ UNCHANGED <<begun, already_fuzzed, fuzz_successes, controls, fuzzed,
                 expired, outcome, disk, returned, late>>

Return ==
  /\ pc \in {"return", "fail"} /\ returned = "none"
  /\ returned' = IF pc = "fail" THEN "err" ELSE "ok"
  /\ UNCHANGED <<pc, begun, results, already_fuzzed, fuzz_successes, controls,
                 fuzzed, exhausted, expired, outcome, disk, late>>

Loop ==
  \/ Check \/ Hold \/ Attempt \/ Persist \/ CheckpointDependencies
  \/ PushAndMeasure \/ Return

-----------------------------------------------------------------------------
(* The operator and the clock. *)

Press(k) ==
  /\ k \in Keys /\ keys < MaxKeys /\ returned = "none"
  /\ keys' = keys + 1
  /\ quit' = (quit \/ k = "q")
  /\ paused' = IF k = "p" THEN ~paused ELSE paused
  /\ cap' = CASE k = "]" -> adjusted_cap(cap, fuzzed, 1)
              [] k = "[" -> adjusted_cap(cap, fuzzed, -1)
              [] OTHER -> cap
  /\ UNCHANGED <<pc, begun, results, already_fuzzed, fuzz_successes, fuzzed,
                 exhausted, expired, outcome, disk, returned, late>>

DeadlinePasses ==
  /\ ~expired /\ returned = "none"
  /\ expired' = TRUE
  /\ UNCHANGED <<pc, begun, results, already_fuzzed, fuzz_successes, controls,
                 fuzzed, exhausted, outcome, disk, returned, late>>

Finished == returned # "none" /\ UNCHANGED vars

Next ==
  \/ Loop \/ Poll
  \/ \E k \in AllKeys : Press(k)
  \/ DeadlinePasses
  \/ Finished

(* The loop is one thread, and every attempt ends; the operator is free. *)
Spec == Init /\ [][Next]_vars
FairSpec == Spec /\ WF_vars(Loop)

-----------------------------------------------------------------------------
(* The loop's state keeps its types, and it never begins a candidate past   *)
(* the last rank.                                                           *)
TypeOK ==
  /\ pc \in {"top", "hold", "attempt", "persist", "deps", "push", "return", "fail"}
  /\ begun \in 0 .. N /\ late \in Nat
  /\ pc \in {"attempt", "persist", "deps", "push"} => Current \in Rank
  /\ results \in [Rank -> Results \cup {"none"}]
  /\ already_fuzzed \in 0 .. MaxSeed
  /\ fuzz_successes \in Nat /\ fuzzed = fuzz_successes
  /\ cap \in Nat \cup {NoCap} /\ keys \in 0 .. MaxKeys
  /\ paused \in BOOLEAN /\ quit \in BOOLEAN
  /\ exhausted \in BOOLEAN /\ expired \in BOOLEAN
  /\ outcome \in [Rank -> Outcomes]
  /\ saved \subseteq Rank /\ manifest_file \subseteq manifest /\ manifest \subseteq Rank
  /\ returned \in {"none", "ok", "err"}

(* An error the loop leaves with stands for the result of the candidate  *)
(* it was working on.                                                     *)
Abstract == INSTANCE Sweep WITH
  taken <- begun, durable <- manifest_file, answer <- returned,
  results <- [i \in Rank |-> IF pc = "fail" /\ i = Current THEN "err" ELSE results[i]]

(* The serial loop is a sweep: ranks in order, each once, durable before   *)
(* they are reported, and an error exactly when a candidate failed.        *)
SerialIsSweep == Abstract!Spec

(* Without the operator the loop fuzzes exactly the selection of the cap,   *)
(* however many of the successes were reloaded, and nothing once they       *)
(* already meet it.                                                         *)
FuzzesSelection ==
  LET picked == {i \in Rank : results[i] = "fuzzed"}
  IN cap = Cap0 /\ cap # NoCap /\ keys = 0 =>
       /\ picked \subseteq Abstract!Selection(outcome, already_fuzzed, Cap0)
       /\ returned = "ok" /\ ~exhausted /\ ~expired =>
            picked = Abstract!Selection(outcome, already_fuzzed, Cap0)

(* At most one candidate begins after the deadline: the one that was held   *)
(* by a pause, or the one past its check.                                   *)
OneLateCandidate == late <= 1

(* The loop ends unless it stays paused, and `q` ends it even then. *)
SerialReturns == (<>[]~paused \/ <>quit) => <>(returned # "none")
=============================================================================
