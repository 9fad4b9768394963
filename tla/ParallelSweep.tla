----------------------------- MODULE ParallelSweep -----------------------------
(***************************************************************************)
(* The worker pool of `govfuzz auto` (run_parallel_sweep in                *)
(* crates/cli/src/auto/cli.rs), together with the live controls an         *)
(* operator turns while it runs (run_status.rs, controls.rs) and the       *)
(* output ceiling it honours (storage.rs).                                 *)
(*                                                                         *)
(* Candidates are the ranks 0..N-1.  A worker polls the stop conditions,   *)
(* takes a permit, claims the next rank from a shared cursor, attempts it, *)
(* counts a success against the cap, makes the result durable and hands it *)
(* back in the slot of its rank.  Every load and store of a shared atomic  *)
(* that another thread can separate is a step of its own.                  *)
(***************************************************************************)
EXTENDS RunStatus, FiniteSets

CONSTANTS
  Workers,     \* the slots of the pool, one thread each
  N,           \* number of ranked candidates
  Ada,         \* the ranks whose candidate is an Ada target
  Ceiling,     \* RunStatus.jobs_ceiling
  Jobs0,       \* --jobs at start
  Cap0,        \* --max-targets at start, or NoCap
  Seed,        \* initial_successes: fuzzed targets counted before the sweep
  Outcomes,    \* what an attempt may return, a subset of Results
  Keys,        \* the keys the operator may press
  MaxKeys,     \* bound on key presses
  HasDeadline, \* --campaign-time without a split
  HasBudget,   \* --max-work-dir-mb is not zero
  DiskFaults,  \* writes and measurements under the work directory may fail
  NoWorker     \* the Ada lock is free

Results == {"fuzzed", "other", "err"}
Rank == 0 .. (N - 1)

ASSUME NAssumption == N \in Nat /\ N > 0
ASSUME WorkersAssumption ==
  IsFiniteSet(Workers) /\ Workers # {} /\ NoWorker \notin Workers
ASSUME JobsAssumption ==
  Ceiling \in Nat /\ Jobs0 \in Nat /\ 1 <= Jobs0 /\ Jobs0 <= Ceiling
ASSUME CountAssumption ==
  Cap0 \in Nat \cup {NoCap} /\ Seed \in Nat /\ MaxKeys \in Nat
ASSUME SetAssumption ==
  Ada \subseteq Rank /\ Outcomes \subseteq Results /\ Keys \subseteq AllKeys
ASSUME FlagAssumption ==
  HasDeadline \in BOOLEAN /\ HasBudget \in BOOLEAN /\ DiskFaults \in BOOLEAN

VARIABLES
  pc,            \* where each worker is in its loop
  idx,           \* the rank a worker has claimed, N when it has none
  limit,         \* the --jobs value a worker read in admit
  mine,          \* the success number a worker drew
  result,        \* what a worker's attempt returned, "none" before
  cursor, stopped, success_count, admitted,   \* the shared atomics
  ada_attempt_lock,
  slots,         \* position-indexed results, "none" until handed back
  jobs, cap, fuzzed, paused, quit, keys,      \* RunStatus, and keys pressed
  exhausted,     \* WorkDirBudget.exhausted
  expired,       \* the campaign deadline has passed
  outcome,       \* what attempting each rank would return
  saved,         \* ranks with a result.json
  manifest,      \* ranks folded into the dependency checkpoint
  manifest_file, \* ... and into the checkpoint on disk
  returned       \* what run_parallel_sweep returned

locals == <<idx, limit, mine, result>>
controls == <<jobs, cap, paused, quit, keys>>
disk == <<saved, manifest, manifest_file>>
vars == <<pc, locals, cursor, stopped, success_count, admitted,
          ada_attempt_lock, slots, controls, fuzzed, exhausted, expired,
          outcome, disk, returned>>

(* The program counter, in the order of the loop. *)
Labels == {"top", "pause", "limit", "cas", "claim", "lock", "attempt", "count",
           "cap", "stop", "finish", "persist", "deps", "budget", "fail",
           "slot", "done"}
(* Between a claim and the hand-back: the target is in flight. *)
InFlightLabels == {"lock", "attempt", "count", "cap", "stop", "finish",
                   "persist", "deps", "budget", "fail", "slot"}
PermitLabels == InFlightLabels \cup {"claim"}
InFlight(w) == pc[w] \in InFlightLabels
Holders == {w \in Workers : pc[w] \in PermitLabels}

Goto(w, label) == pc' = [pc EXCEPT ![w] = label]

Init ==
  /\ pc = [w \in Workers |-> "top"]
  /\ idx = [w \in Workers |-> N]
  /\ limit = [w \in Workers |-> 0]
  /\ mine = [w \in Workers |-> 0]
  /\ result = [w \in Workers |-> "none"]
  /\ cursor = 0 /\ stopped = FALSE /\ success_count = Seed /\ admitted = 0
  /\ ada_attempt_lock = NoWorker
  /\ slots = [i \in Rank |-> "none"]
  /\ jobs = Jobs0 /\ cap = Cap0 /\ fuzzed = Seed
  /\ paused = FALSE /\ quit = FALSE /\ keys = 0
  /\ exhausted \in (IF HasBudget THEN BOOLEAN ELSE {FALSE})
  /\ expired = FALSE
  /\ outcome \in [Rank -> Outcomes]
  /\ saved = {} /\ manifest = {} /\ manifest_file = {}
  /\ returned = "none"

-----------------------------------------------------------------------------
(* Variants of the definitions below with a plausible mistake each; the     *)
(* properties tell them apart from the code.                                *)

(* A worker parked by a pause waits inside admit. *)
AdmitPausedWaits(w) ==
  /\ pc[w] = "pause"
  /\ Goto(w, IF paused THEN "pause" ELSE "limit")
  /\ UNCHANGED <<locals, cursor, stopped, success_count, admitted,
                 ada_attempt_lock, slots, controls, fuzzed, exhausted, expired,
                 outcome, disk, returned>>

(* A worker that meets a pause in admit leaves the pool. *)
AdmitPausedLeaves(w) ==
  /\ pc[w] = "pause"
  /\ Goto(w, IF paused THEN "done" ELSE "limit")
  /\ UNCHANGED <<locals, cursor, stopped, success_count, admitted,
                 ada_attempt_lock, slots, controls, fuzzed, exhausted, expired,
                 outcome, disk, returned>>

(* The comparison admits one worker too many. *)
may_admit_one_more(current, most) == current <= most

(* The permit of a worker past the last rank is not returned. *)
ClaimKeepsPermit(w) ==
  /\ pc[w] = "claim"
  /\ cursor' = cursor + 1
  /\ IF cursor >= N
       THEN /\ admitted' = admitted
            /\ Goto(w, "done")
            /\ UNCHANGED idx
       ELSE /\ idx' = [idx EXCEPT ![w] = cursor]
            /\ Goto(w, "lock")
            /\ UNCHANGED admitted
  /\ UNCHANGED <<limit, mine, result, stopped, success_count, ada_attempt_lock,
                 slots, controls, fuzzed, exhausted, expired, outcome, disk,
                 returned>>

(* Candidates are taken from the back, as from a stack. *)
ClaimFromTail(w) ==
  /\ pc[w] = "claim"
  /\ cursor' = cursor + 1
  /\ IF cursor >= N
       THEN /\ admitted' = admitted - 1
            /\ Goto(w, "done")
            /\ UNCHANGED idx
       ELSE /\ idx' = [idx EXCEPT ![w] = N - 1 - cursor]
            /\ Goto(w, "lock")
            /\ UNCHANGED admitted
  /\ UNCHANGED <<limit, mine, result, stopped, success_count, ada_attempt_lock,
                 slots, controls, fuzzed, exhausted, expired, outcome, disk,
                 returned>>

(* The lock is taken and dropped in the same statement. *)
LockAdaDropped(w) ==
  /\ pc[w] = "lock"
  /\ IF idx[w] \in Ada
       THEN ada_attempt_lock = NoWorker /\ UNCHANGED ada_attempt_lock
       ELSE UNCHANGED ada_attempt_lock
  /\ Goto(w, "attempt")
  /\ UNCHANGED <<locals, cursor, stopped, success_count, admitted, slots,
                 controls, fuzzed, exhausted, expired, outcome, disk, returned>>

(* A pause suspends the targets in flight too. *)
AttemptWaits(w) ==
  /\ pc[w] = "attempt"
  /\ \/ paused /\ UNCHANGED vars
     \/ /\ ~paused
        /\ result' = [result EXCEPT ![w] = outcome[idx[w]]]
        /\ Goto(w, IF outcome[idx[w]] = "fuzzed" THEN "count" ELSE "finish")
        /\ UNCHANGED <<idx, limit, mine, cursor, stopped, success_count, admitted,
                       ada_attempt_lock, slots, controls, fuzzed, exhausted,
                       expired, outcome, disk, returned>>

(* The cap is compared one success too late. *)
ReadCapLate(w) ==
  /\ pc[w] = "cap"
  /\ mine' = [mine EXCEPT ![w] = 0]
  /\ Goto(w, IF cap # NoCap /\ mine[w] > cap THEN "stop" ELSE "finish")
  /\ UNCHANGED <<idx, limit, result, cursor, stopped, success_count, admitted,
                 ada_attempt_lock, slots, controls, fuzzed, exhausted, expired,
                 outcome, disk, returned>>

(* The files are written before the manifest is extended. *)
CheckpointBehind(w) ==
  /\ pc[w] = "deps"
  /\ manifest' = manifest \cup {idx[w]}
  /\ \/ /\ manifest_file' = manifest
        /\ Goto(w, "budget")
        /\ UNCHANGED result
     \/ /\ DiskFaults
        /\ result' = [result EXCEPT ![w] = "err"]
        /\ Goto(w, "fail")
        /\ UNCHANGED manifest_file
  /\ UNCHANGED <<idx, limit, mine, cursor, stopped, success_count, admitted,
                 ada_attempt_lock, slots, controls, fuzzed, exhausted, expired,
                 outcome, saved, returned>>

(* Only good results are handed back. *)
HandBackGoodOnly(w) ==
  /\ pc[w] = "slot"
  /\ slots' = IF result[w] = "err" THEN slots ELSE [slots EXCEPT ![idx[w]] = result[w]]
  /\ ada_attempt_lock' = IF idx[w] \in Ada THEN NoWorker ELSE ada_attempt_lock
  /\ admitted' = admitted - 1
  /\ idx' = [idx EXCEPT ![w] = N]
  /\ result' = [result EXCEPT ![w] = "none"]
  /\ Goto(w, "top")
  /\ UNCHANGED <<limit, mine, cursor, stopped, success_count, controls, fuzzed,
                 exhausted, expired, outcome, disk, returned>>

(* The collector looks at the best-ranked candidate only. *)
CollectFirst ==
  /\ (\A w \in Workers : pc[w] = "done") /\ returned = "none"
  /\ returned' = IF slots[0] = "err" THEN "err" ELSE "ok"
  /\ UNCHANGED <<pc, locals, cursor, stopped, success_count, admitted,
                 ada_attempt_lock, slots, controls, fuzzed, exhausted, expired,
                 outcome, disk>>

(* The clamp is forgotten. *)
adjust_jobs_unclamped(delta) == jobs + delta

-----------------------------------------------------------------------------
(* The worker loop. *)

(* The four stop conditions at the top.  Each is a latch, so reading them   *)
(* one after the other gives what one read at the first of them gives.      *)
Check(w) ==
  /\ pc[w] = "top"
  /\ Goto(w, IF stopped \/ exhausted \/ quit \/ expired THEN "done" ELSE "pause")
  /\ stopped' = (stopped \/ exhausted \/ (~quit /\ expired))
  /\ UNCHANGED <<locals, cursor, success_count, admitted, ada_attempt_lock,
                 slots, controls, fuzzed, exhausted, expired, outcome, disk,
                 returned>>

(* admit: the paused flag, the live limit, then the compare-and-swap. *)
AdmitPaused(w) ==
  /\ pc[w] = "pause"
  /\ Goto(w, IF paused THEN "top" ELSE "limit")
  /\ UNCHANGED <<locals, cursor, stopped, success_count, admitted,
                 ada_attempt_lock, slots, controls, fuzzed, exhausted, expired,
                 outcome, disk, returned>>

AdmitLimit(w) ==
  /\ pc[w] = "limit"
  /\ limit' = [limit EXCEPT ![w] = jobs]
  /\ Goto(w, "cas")
  /\ UNCHANGED <<idx, mine, result, cursor, stopped, success_count, admitted,
                 ada_attempt_lock, slots, controls, fuzzed, exhausted, expired,
                 outcome, disk, returned>>

may_admit(current, most) == current < most

AdmitCas(w) ==
  /\ pc[w] = "cas"
  /\ limit' = [limit EXCEPT ![w] = 0]
  /\ IF may_admit(admitted, limit[w])
       THEN admitted' = admitted + 1 /\ Goto(w, "claim")
       ELSE admitted' = admitted /\ Goto(w, "top")
  /\ UNCHANGED <<idx, mine, result, cursor, stopped, success_count,
                 ada_attempt_lock, slots, controls, fuzzed, exhausted, expired,
                 outcome, disk, returned>>

(* cursor.fetch_add; a worker past the last rank leaves, dropping its       *)
(* permit.                                                                  *)
Claim(w) ==
  /\ pc[w] = "claim"
  /\ cursor' = cursor + 1
  /\ IF cursor >= N
       THEN /\ admitted' = admitted - 1
            /\ Goto(w, "done")
            /\ UNCHANGED idx
       ELSE /\ idx' = [idx EXCEPT ![w] = cursor]
            /\ Goto(w, "lock")
            /\ UNCHANGED admitted
  /\ UNCHANGED <<limit, mine, result, stopped, success_count, ada_attempt_lock,
                 slots, controls, fuzzed, exhausted, expired, outcome, disk,
                 returned>>

(* Ada attempts share one staged source tree, so they take a lock, and keep *)
(* it to the end of the iteration.                                          *)
LockAda(w) ==
  /\ pc[w] = "lock"
  /\ IF idx[w] \in Ada
       THEN ada_attempt_lock = NoWorker /\ ada_attempt_lock' = w
       ELSE UNCHANGED ada_attempt_lock
  /\ Goto(w, "attempt")
  /\ UNCHANGED <<locals, cursor, stopped, success_count, admitted, slots,
                 controls, fuzzed, exhausted, expired, outcome, disk, returned>>

(* The attempt itself, abstracted to its outcome.  A panic inside it is     *)
(* caught and becomes an "other" result.                                    *)
Attempt(w) ==
  /\ pc[w] = "attempt"
  /\ result' = [result EXCEPT ![w] = outcome[idx[w]]]
  /\ Goto(w, IF outcome[idx[w]] = "fuzzed" THEN "count" ELSE "finish")
  /\ UNCHANGED <<idx, limit, mine, cursor, stopped, success_count, admitted,
                 ada_attempt_lock, slots, controls, fuzzed, exhausted, expired,
                 outcome, disk, returned>>

(* success_count.fetch_add, the read of the live cap, the store of stopped. *)
CountSuccess(w) ==
  /\ pc[w] = "count"
  /\ success_count' = success_count + 1
  /\ mine' = [mine EXCEPT ![w] = success_count + 1]
  /\ Goto(w, "cap")
  /\ UNCHANGED <<idx, limit, result, cursor, stopped, admitted,
                 ada_attempt_lock, slots, controls, fuzzed, exhausted, expired,
                 outcome, disk, returned>>

ReadCap(w) ==
  /\ pc[w] = "cap"
  /\ mine' = [mine EXCEPT ![w] = 0]
  /\ Goto(w, IF cap # NoCap /\ mine[w] >= cap THEN "stop" ELSE "finish")
  /\ UNCHANGED <<idx, limit, result, cursor, stopped, success_count, admitted,
                 ada_attempt_lock, slots, controls, fuzzed, exhausted, expired,
                 outcome, disk, returned>>

StopAtCap(w) ==
  /\ pc[w] = "stop"
  /\ stopped' = TRUE
  /\ Goto(w, "finish")
  /\ UNCHANGED <<locals, cursor, success_count, admitted, ada_attempt_lock,
                 slots, controls, fuzzed, exhausted, expired, outcome, disk,
                 returned>>

(* status.worker_finish, or worker_failed for an error. *)
WorkerFinish(w) ==
  /\ pc[w] = "finish"
  /\ fuzzed' = IF result[w] = "fuzzed" THEN fuzzed + 1 ELSE fuzzed
  /\ Goto(w, IF result[w] = "err" THEN "fail" ELSE "persist")
  /\ UNCHANGED <<locals, cursor, stopped, success_count, admitted,
                 ada_attempt_lock, slots, controls, exhausted, expired, outcome,
                 disk, returned>>

(* persist_target_result: best effort, a failed write is ignored. *)
Persist(w) ==
  /\ pc[w] = "persist"
  /\ \/ saved' = saved \cup {idx[w]}
     \/ DiskFaults /\ UNCHANGED saved
  /\ Goto(w, "deps")
  /\ UNCHANGED <<locals, cursor, stopped, success_count, admitted,
                 ada_attempt_lock, slots, controls, fuzzed, exhausted, expired,
                 outcome, manifest, manifest_file, returned>>

(* checkpoint_dependency_result under its mutex: the manifest in memory is  *)
(* extended first, then both files are replaced.                            *)
CheckpointDependencies(w) ==
  /\ pc[w] = "deps"
  /\ manifest' = manifest \cup {idx[w]}
  /\ \/ /\ manifest_file' = manifest'
        /\ Goto(w, "budget")
        /\ UNCHANGED result
     \/ /\ DiskFaults
        /\ result' = [result EXCEPT ![w] = "err"]
        /\ Goto(w, "fail")
        /\ UNCHANGED manifest_file
  /\ UNCHANGED <<idx, limit, mine, cursor, stopped, success_count, admitted,
                 ada_attempt_lock, slots, controls, fuzzed, exhausted, expired,
                 outcome, saved, returned>>

(* WorkDirBudget.checkpoint: a latched answer, or a measurement that is     *)
(* below the ceiling, at it, or impossible.                                 *)
CheckpointBudget(w) ==
  /\ pc[w] = "budget"
  /\ \/ /\ exhausted
        /\ stopped' = TRUE
        /\ Goto(w, "slot")
        /\ UNCHANGED <<result, exhausted>>
     \/ /\ ~exhausted
        /\ Goto(w, "slot")
        /\ UNCHANGED <<result, exhausted, stopped>>
     \/ /\ HasBudget /\ ~exhausted
        /\ exhausted' = TRUE /\ stopped' = TRUE
        /\ Goto(w, "slot")
        /\ UNCHANGED result
     \/ /\ HasBudget /\ ~exhausted /\ DiskFaults
        /\ result' = [result EXCEPT ![w] = "err"]
        /\ Goto(w, "fail")
        /\ UNCHANGED <<exhausted, stopped>>
  /\ UNCHANGED <<idx, limit, mine, cursor, success_count, admitted,
                 ada_attempt_lock, slots, controls, fuzzed, expired, outcome,
                 disk, returned>>

StopOnError(w) ==
  /\ pc[w] = "fail"
  /\ stopped' = TRUE
  /\ Goto(w, "slot")
  /\ UNCHANGED <<locals, cursor, success_count, admitted, ada_attempt_lock,
                 slots, controls, fuzzed, exhausted, expired, outcome, disk,
                 returned>>

(* The slot is written, then the guards drop: the Ada lock and the permit. *)
HandBack(w) ==
  /\ pc[w] = "slot"
  /\ slots' = [slots EXCEPT ![idx[w]] = result[w]]
  /\ ada_attempt_lock' = IF idx[w] \in Ada THEN NoWorker ELSE ada_attempt_lock
  /\ admitted' = admitted - 1
  /\ idx' = [idx EXCEPT ![w] = N]
  /\ result' = [result EXCEPT ![w] = "none"]
  /\ Goto(w, "top")
  /\ UNCHANGED <<limit, mine, cursor, stopped, success_count, controls, fuzzed,
                 exhausted, expired, outcome, disk, returned>>

Worker(w) ==
  \/ Check(w) \/ AdmitPaused(w) \/ AdmitLimit(w) \/ AdmitCas(w) \/ Claim(w)
  \/ LockAda(w) \/ Attempt(w) \/ CountSuccess(w) \/ ReadCap(w) \/ StopAtCap(w)
  \/ WorkerFinish(w) \/ Persist(w) \/ CheckpointDependencies(w)
  \/ CheckpointBudget(w) \/ StopOnError(w) \/ HandBack(w)

-----------------------------------------------------------------------------
(* The operator, the clock, and the collector after the join. *)

AllDone == \A w \in Workers : pc[w] = "done"

(* RunStatus.adjust_jobs *)
adjust_jobs(delta) == Smaller(Larger(jobs + delta, 1), Ceiling)

(* controls::apply for one key press.  After the last worker has left, the *)
(* keys no longer reach this sweep.                                         *)
Press(k) ==
  /\ k \in Keys /\ keys < MaxKeys /\ ~AllDone
  /\ keys' = keys + 1
  /\ quit' = (quit \/ k = "q")
  /\ paused' = IF k = "p" THEN ~paused ELSE paused
  /\ jobs' = CASE k = "+" -> adjust_jobs(1)
               [] k = "-" -> adjust_jobs(-1)
               [] OTHER -> jobs
  /\ cap' = CASE k = "]" -> adjusted_cap(cap, fuzzed, 1)
              [] k = "[" -> adjusted_cap(cap, fuzzed, -1)
              [] OTHER -> cap
  /\ UNCHANGED <<pc, locals, cursor, stopped, success_count, admitted,
                 ada_attempt_lock, slots, fuzzed, exhausted, expired, outcome,
                 disk, returned>>

DeadlinePasses ==
  /\ HasDeadline /\ ~expired /\ ~AllDone
  /\ expired' = TRUE
  /\ UNCHANGED <<pc, locals, cursor, stopped, success_count, admitted,
                 ada_attempt_lock, slots, controls, fuzzed, exhausted, outcome,
                 disk, returned>>

(* The collector walks the slots in rank order: the first error is what the *)
(* sweep returns, whatever else completed.                                  *)
Collect ==
  /\ AllDone /\ returned = "none"
  /\ returned' = IF \E i \in Rank : slots[i] = "err" THEN "err" ELSE "ok"
  /\ UNCHANGED <<pc, locals, cursor, stopped, success_count, admitted,
                 ada_attempt_lock, slots, controls, fuzzed, exhausted, expired,
                 outcome, disk>>

Finished == returned # "none" /\ UNCHANGED vars

Next ==
  \/ \E w \in Workers : Worker(w)
  \/ \E k \in AllKeys : Press(k)
  \/ DeadlinePasses
  \/ Collect
  \/ Finished

(* The scheduler runs every thread, and an attempt ends because every       *)
(* subprocess it waits for has a timeout.  Nothing obliges the operator.    *)
Fairness ==
  /\ \A w \in Workers : WF_vars(Worker(w))
  /\ WF_vars(Collect)

Spec == Init /\ [][Next]_vars
FairSpec == Spec /\ Fairness

-----------------------------------------------------------------------------
(* The pool's state keeps its types; `jobs` stays between 1 and the ceiling *)
(* whatever keys are pressed.                                               *)
TypeOK ==
  /\ pc \in [Workers -> Labels]
  /\ idx \in [Workers -> 0 .. N]
  /\ \A w \in Workers : InFlight(w) => idx[w] \in Rank
  /\ limit \in [Workers -> 0 .. Ceiling]
  /\ mine \in [Workers -> Nat]
  /\ result \in [Workers -> Results \cup {"none"}]
  /\ cursor \in Nat /\ success_count \in Nat /\ admitted \in Int
  /\ stopped \in BOOLEAN
  /\ ada_attempt_lock \in Workers \cup {NoWorker}
  /\ slots \in [Rank -> Results \cup {"none"}]
  /\ jobs \in 1 .. Ceiling /\ cap \in Nat \cup {NoCap} /\ fuzzed \in Nat
  /\ paused \in BOOLEAN /\ quit \in BOOLEAN /\ keys \in 0 .. MaxKeys
  /\ exhausted \in BOOLEAN /\ expired \in BOOLEAN
  /\ outcome \in [Rank -> Outcomes]
  /\ saved \subseteq Rank /\ manifest \subseteq Rank
  /\ manifest_file \subseteq manifest
  /\ returned \in {"none", "ok", "err"}

(* No candidate is lost and none is attempted twice: a worker in flight     *)
(* has claimed a rank below the cursor whose slot is empty, no two workers  *)
(* the same one, and an empty slot below the cursor has its worker.         *)
ClaimIsOpen ==
  \A w \in Workers : InFlight(w) => idx[w] < cursor /\ slots[idx[w]] = "none"
ClaimsDiffer ==
  \A v, w \in Workers : InFlight(v) /\ InFlight(w) /\ idx[v] = idx[w] => v = w
NoneLost ==
  \A i \in Rank : i < cursor /\ slots[i] = "none" =>
    \E w \in Workers : InFlight(w) /\ idx[w] = i
FilledBelowCursor == \A i \in Rank : slots[i] # "none" => i < cursor
EveryClaimAccounted ==
  ClaimIsOpen /\ ClaimsDiffer /\ NoneLost /\ FilledBelowCursor

(* Two Ada targets are never between build and hand-back at the same time:  *)
(* they would rebuild the same staged tree.                                 *)
InAda(w) == InFlight(w) /\ pc[w] # "lock" /\ idx[w] \in Ada
AdaSerial == \A v, w \in Workers : InAda(v) /\ InAda(w) => v = w

(* No permit leaks and none is forged: the counter is the number of workers *)
(* between admission and the drop of their guard, so after a sweep it is 0. *)
PermitsMatch == admitted = Cardinality(Holders)

(* While the operator has not lowered --jobs, no more than --jobs workers   *)
(* hold a candidate, although the pool has a thread per core.               *)
WithinJobs == "-" \notin Keys => admitted <= jobs

(* What the collector will report is already durable: a result handed back  *)
(* as good is in the dependency checkpoint on disk, and in its result.json  *)
(* unless that write failed.                                                *)
HandedBackIsDurable ==
  \A i \in Rank : slots[i] \in {"fuzzed", "other"} =>
    i \in manifest_file /\ (~DiskFaults => i \in saved)

CapReached(count) == cap # NoCap /\ count >= cap

(* A pool that ended before the last candidate has a reason that still      *)
(* holds: the operator, the ceiling, the deadline, an error, or the cap     *)
(* (unless the operator could raise it after it had stopped the pool).      *)
StopIsJustified ==
  AllDone /\ cursor < N /\ "]" \notin Keys =>
    \/ quit \/ exhausted \/ expired \/ CapReached(success_count)
    \/ \E i \in Rank : slots[i] = "err"

(* Past the cap only the workers already beyond their stop check finish a   *)
(* target: at most one each, and the one that reached the cap does not.     *)
(* Lowering the cap while the pool runs does not widen that.                *)
OvershootWithinPool ==
  Seed < Cap0 /\ "]" \notin Keys => success_count < Cap0 + Cardinality(Workers)

(* The state of the abstract sweep, read off the pool's. *)
Abstract == INSTANCE Sweep WITH
  taken <- Smaller(cursor, N), durable <- manifest_file, results <- slots,
  answer <- returned

(* The pool is a sweep, whatever the threads do between the hand-out of a   *)
(* rank and its result.                                                     *)
PoolIsSweep == Abstract!Spec

(* The pool's rank-earliest successes up to the cap are the serial sweep's: *)
(* every target the serial loop would have fuzzed is fuzzed here too, and   *)
(* every other success ranks after all of them.                             *)
PoolSelectsSerialSet ==
  LET picked == {i \in Rank : slots[i] = "fuzzed"}
      serial == Abstract!Selection(outcome, Seed, Cap0)
      undisturbed == cap = Cap0 /\ cap # NoCap /\ ~quit /\ ~exhausted /\ ~expired
  IN returned = "ok" /\ undisturbed /\ "]" \notin Keys =>
       /\ serial \subseteq picked
       /\ \A i \in picked \ serial : \A j \in serial : j < i

(* Unless it stays paused, the pool drains and the sweep returns; `q` and   *)
(* the deadline end it paused or not: a parked worker still passes the      *)
(* checks at the top.                                                       *)
SweepReturns == (<>[]~paused \/ <>(quit \/ expired)) => <>(returned # "none")

(* Targets in flight finish during a pause, however long it lasts. *)
PauseLetsTargetsFinish ==
  <>[]paused => <>[](\A w \in Workers : ~InFlight(w))
=============================================================================
