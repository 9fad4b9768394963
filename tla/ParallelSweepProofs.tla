-------------------------- MODULE ParallelSweepProofs --------------------------
(***************************************************************************)
(* Safety of the worker pool for every number of workers and candidates.   *)
(*                                                                         *)
(* The invariants of ParallelSweep are not inductive as they stand: that a *)
(* slot is filled once needs to know that a worker about to hand back has  *)
(* a result, that Ada attempts exclude each other needs the lock to name   *)
(* the worker inside, and that a result handed back is durable needs to    *)
(* know what each label between the attempt and the slot has written.      *)
(***************************************************************************)
EXTENDS ParallelSweep, FiniteSetTheorems, TLAPS

(* The first cap of an uncapped run is ten above what has fuzzed. *)
LEMMA PlusTen == \A x \in Nat : x + 10 \in Nat
OBVIOUS

(* What a worker carries at each label after its attempt. *)
Attempted == {"count", "cap", "stop", "finish", "persist", "deps", "budget",
              "fail", "slot"}
ResultInv ==
  \A w \in Workers :
    /\ pc[w] \in Attempted => result[w] # "none"
    /\ pc[w] \in {"persist", "deps", "budget"} => result[w] \in {"fuzzed", "other"}
    /\ pc[w] = "fail" => result[w] = "err"

(* The Ada lock names the one worker inside. *)
AdaInv == \A w \in Workers : InAda(w) <=> ada_attempt_lock = w

(* What is on disk by each label. *)
Recorded(i) == ~DiskFaults => i \in saved
DurableInv ==
  /\ \A w \in Workers :
       /\ pc[w] \in {"deps", "budget"} => Recorded(idx[w])
       /\ pc[w] = "budget" => idx[w] \in manifest_file
       /\ pc[w] = "slot" /\ result[w] \in {"fuzzed", "other"} =>
            idx[w] \in manifest_file /\ Recorded(idx[w])
  /\ HandedBackIsDurable

(* A limit read by a worker is never above the live one unless it was       *)
(* lowered since.                                                           *)
LimitInv ==
  "-" \notin Keys => admitted <= jobs /\ \A w \in Workers : limit[w] <= jobs

IInv ==
  /\ TypeOK
  /\ ResultInv
  /\ EveryClaimAccounted
  /\ AdaInv
  /\ DurableInv
  /\ LimitInv
  /\ PermitsMatch

-----------------------------------------------------------------------------
(* Type correctness. *)

LEMMA TypeInit == Init => TypeOK
  <1> SUFFICES ASSUME Init PROVE TypeOK
    OBVIOUS
  <1> USE NAssumption, JobsAssumption, CountAssumption, SetAssumption DEF Init
  <1>1. exhausted \in BOOLEAN /\ stopped \in BOOLEAN /\ expired \in BOOLEAN
        /\ paused \in BOOLEAN /\ quit \in BOOLEAN
    OBVIOUS
  <1>2. /\ pc \in [Workers -> Labels] /\ idx \in [Workers -> 0 .. N]
        /\ \A w \in Workers : InFlight(w) => idx[w] \in Rank
    BY DEF Labels, InFlight, InFlightLabels
  <1>3. /\ limit \in [Workers -> 0 .. Ceiling] /\ mine \in [Workers -> Nat]
        /\ result \in [Workers -> Results \cup {"none"}]
        /\ slots \in [Rank -> Results \cup {"none"}]
    OBVIOUS
  <1> QED
    BY <1>1, <1>2, <1>3 DEF TypeOK, NoCap

LEMMA TypeNext == TypeOK /\ [Next]_vars => TypeOK'
  <1> SUFFICES ASSUME TypeOK, [Next]_vars
               PROVE  TypeOK'
    OBVIOUS
  <1> USE NAssumption, JobsAssumption, CountAssumption, SetAssumption
  <1> USE DEF TypeOK, Labels, InFlight, InFlightLabels, Results, Rank, Goto, locals, controls, disk
  <1>1. ASSUME NEW w \in Workers, Check(w) PROVE TypeOK'
    BY <1>1 DEF Check
  <1>2. ASSUME NEW w \in Workers, AdmitPaused(w) PROVE TypeOK'
    BY <1>2 DEF AdmitPaused
  <1>3. ASSUME NEW w \in Workers, AdmitLimit(w) PROVE TypeOK'
    BY <1>3 DEF AdmitLimit
  <1>4. ASSUME NEW w \in Workers, AdmitCas(w) PROVE TypeOK'
    <2> USE <1>4 DEF AdmitCas
    <2>1. /\ \/ pc' = [pc EXCEPT ![w] = "claim"]
             \/ pc' = [pc EXCEPT ![w] = "top"]
          /\ admitted' \in Int
      OBVIOUS
    <2>2. /\ pc' \in [Workers -> Labels]
          /\ (\A v \in Workers : InFlight(v) => idx[v] \in Rank)'
      BY <2>1
    <2>3. limit' \in [Workers -> 0 .. Ceiling]
      OBVIOUS
    <2> QED
      BY <2>1, <2>2, <2>3
  <1>5. ASSUME NEW w \in Workers, Claim(w) PROVE TypeOK'
    <2> USE <1>5 DEF Claim
    <2>1. cursor' \in Nat /\ admitted' \in Int
      OBVIOUS
    <2>2. CASE cursor >= N
      <3>1. pc' = [pc EXCEPT ![w] = "done"] /\ UNCHANGED idx
        BY <2>2
      <3>2. /\ pc' \in [Workers -> Labels]
            /\ (\A v \in Workers : InFlight(v) => idx[v] \in Rank)'
        BY <3>1
      <3> QED
        BY <2>1, <3>1, <3>2
    <2>3. CASE cursor < N
      <3>1. /\ pc' = [pc EXCEPT ![w] = "lock"]
            /\ idx' = [idx EXCEPT ![w] = cursor] /\ cursor \in Rank
        BY <2>3
      <3>2. /\ pc' \in [Workers -> Labels] /\ idx' \in [Workers -> 0 .. N]
            /\ (\A v \in Workers : InFlight(v) => idx[v] \in Rank)'
        BY <3>1
      <3> QED
        BY <2>1, <3>2
    <2> QED
      BY <2>2, <2>3
  <1>6. ASSUME NEW w \in Workers, LockAda(w) PROVE TypeOK'
    BY <1>6 DEF LockAda
  <1>7. ASSUME NEW w \in Workers, Attempt(w) PROVE TypeOK'
    BY <1>7 DEF Attempt
  <1>8. ASSUME NEW w \in Workers, CountSuccess(w) PROVE TypeOK'
    BY <1>8 DEF CountSuccess
  <1>9. ASSUME NEW w \in Workers, ReadCap(w) PROVE TypeOK'
    BY <1>9 DEF ReadCap
  <1>10. ASSUME NEW w \in Workers, StopAtCap(w) PROVE TypeOK'
    BY <1>10 DEF StopAtCap
  <1>11. ASSUME NEW w \in Workers, WorkerFinish(w) PROVE TypeOK'
    BY <1>11 DEF WorkerFinish
  <1>12. ASSUME NEW w \in Workers, Persist(w) PROVE TypeOK'
    BY <1>12 DEF Persist
  <1>13. ASSUME NEW w \in Workers, CheckpointDependencies(w) PROVE TypeOK'
    <2> USE <1>13 DEF CheckpointDependencies
    <2>1. idx[w] \in Rank
      OBVIOUS
    <2>2. manifest' \subseteq Rank /\ manifest_file' \subseteq manifest'
      BY <2>1
    <2>3. \/ pc' = [pc EXCEPT ![w] = "budget"]
          \/ pc' = [pc EXCEPT ![w] = "fail"]
      OBVIOUS
    <2>4. /\ pc' \in [Workers -> Labels]
          /\ (\A v \in Workers : InFlight(v) => idx[v] \in Rank)'
      BY <2>1, <2>3
    <2>5. result' \in [Workers -> Results \cup {"none"}]
      OBVIOUS
    <2> QED
      BY <2>2, <2>4, <2>5
  <1>14. ASSUME NEW w \in Workers, CheckpointBudget(w) PROVE TypeOK'
    BY <1>14 DEF CheckpointBudget
  <1>15. ASSUME NEW w \in Workers, StopOnError(w) PROVE TypeOK'
    BY <1>15 DEF StopOnError
  <1>16. ASSUME NEW w \in Workers, HandBack(w) PROVE TypeOK'
    BY <1>16 DEF HandBack
  <1>17. ASSUME NEW k \in AllKeys, Press(k) PROVE TypeOK'
    <2> USE <1>17 DEF Press
    <2>1. quit' \in BOOLEAN /\ paused' \in BOOLEAN
      OBVIOUS
    <2>2. jobs' \in 1 .. Ceiling
      BY DEF adjust_jobs, Larger, Smaller
    <2>3. cap' \in Nat \cup {NoCap}
      <3>1. ASSUME NEW x \in Int PROVE Larger(Larger(x, 1), Larger(fuzzed, 1)) \in Nat
        BY DEF Larger
      <3>2. ASSUME cap # NoCap PROVE Larger(cap \div 10, 1) \in Int
        BY <3>2 DEF Larger
      <3>3. ASSUME NEW d \in {1, -1}, cap # NoCap
            PROVE  cap + d * Larger(cap \div 10, 1) \in Int
        <4>1. ASSUME NEW s \in Int PROVE cap + d * s \in Int
          <5>1. 1 * s = s /\ (-1) * s = -s
            OBVIOUS
          <5>2. d * s \in Int
            BY <5>1
          <5> QED
            BY <3>3, <5>2
        <4> QED
          BY <3>2, <3>3, <4>1
      <3>4. ASSUME NEW d \in {1, -1} PROVE adjusted_cap(cap, fuzzed, d) \in Nat \cup {NoCap}
        <4>1. CASE cap # NoCap
          <5> DEFINE want == cap + d * Larger(cap \div 10, 1)
          <5>1. want \in Int
            BY <3>3, <4>1
          <5>2. adjusted_cap(cap, fuzzed, d) = Larger(Larger(want, 1), Larger(fuzzed, 1))
            BY <4>1 DEF adjusted_cap
          <5> HIDE DEF want
          <5> QED
            BY <5>1, <5>2, <3>1
        <4>2. CASE cap = NoCap
          <5>1. fuzzed + 10 \in Nat
            <6>1. fuzzed \in Nat
              OBVIOUS
            <6> QED
              BY <6>1, PlusTen, Zenon
          <5>2. adjusted_cap(cap, fuzzed, d) \in {fuzzed + 10, NoCap}
            BY <4>2, Zenon DEF adjusted_cap
          <5> QED
            BY <5>1, <5>2
        <4> QED
          BY <4>1, <4>2
      <3> QED
        BY <3>4
    <2>4. keys' \in 0 .. MaxKeys
      OBVIOUS
    <2> QED
      BY <2>1, <2>2, <2>3, <2>4
  <1>18. CASE DeadlinePasses
    BY <1>18 DEF DeadlinePasses
  <1>19. CASE Collect
    BY <1>19 DEF Collect
  <1>20. CASE UNCHANGED vars
    BY <1>20 DEF vars
  <1> QED
    BY <1>1, <1>2, <1>3, <1>4, <1>5, <1>6, <1>7, <1>8, <1>9, <1>10, <1>11, <1>12, <1>13, <1>14, <1>15, <1>16, <1>17, <1>18, <1>19, <1>20 DEF Next, Worker, Finished

(* Every behaviour of the pool keeps every variable in its type, for every *)
(* number of workers, candidates and key presses.                          *)
THEOREM SweepTypeCorrect == Spec => []TypeOK
  BY TypeInit, TypeNext, PTL DEF Spec

-----------------------------------------------------------------------------
(* Claims. *)

(* Only a claim and a hand-back change what is in flight. *)
Quiet ==
  /\ UNCHANGED <<idx, cursor, slots>>
  /\ \A v \in Workers : InFlight(v)' <=> InFlight(v)

LEMMA QuietSteps ==
  ASSUME TypeOK, [Next]_vars
  PROVE  Quiet \/ (\E w \in Workers : Claim(w) \/ HandBack(w))
  <1> USE DEF TypeOK, Quiet, InFlight, InFlightLabels, Goto, locals
  <1>1. ASSUME NEW w \in Workers, Check(w) PROVE Quiet
    BY <1>1 DEF Check
  <1>2. ASSUME NEW w \in Workers, AdmitPaused(w) PROVE Quiet
    BY <1>2 DEF AdmitPaused
  <1>3. ASSUME NEW w \in Workers, AdmitLimit(w) PROVE Quiet
    BY <1>3 DEF AdmitLimit
  <1>4. ASSUME NEW w \in Workers, AdmitCas(w) PROVE Quiet
    BY <1>4 DEF AdmitCas
  <1>5. ASSUME NEW w \in Workers, LockAda(w) PROVE Quiet
    BY <1>5 DEF LockAda
  <1>6. ASSUME NEW w \in Workers, Attempt(w) PROVE Quiet
    BY <1>6 DEF Attempt
  <1>7. ASSUME NEW w \in Workers, CountSuccess(w) PROVE Quiet
    BY <1>7 DEF CountSuccess
  <1>8. ASSUME NEW w \in Workers, ReadCap(w) PROVE Quiet
    BY <1>8 DEF ReadCap
  <1>9. ASSUME NEW w \in Workers, StopAtCap(w) PROVE Quiet
    BY <1>9 DEF StopAtCap
  <1>10. ASSUME NEW w \in Workers, WorkerFinish(w) PROVE Quiet
    BY <1>10 DEF WorkerFinish
  <1>11. ASSUME NEW w \in Workers, Persist(w) PROVE Quiet
    BY <1>11 DEF Persist
  <1>12. ASSUME NEW w \in Workers, CheckpointDependencies(w) PROVE Quiet
    BY <1>12 DEF CheckpointDependencies
  <1>13. ASSUME NEW w \in Workers, CheckpointBudget(w) PROVE Quiet
    BY <1>13 DEF CheckpointBudget
  <1>14. ASSUME NEW w \in Workers, StopOnError(w) PROVE Quiet
    BY <1>14 DEF StopOnError
  <1>15. ASSUME NEW k \in AllKeys, Press(k) PROVE Quiet
    BY <1>15 DEF Press
  <1>16. CASE DeadlinePasses
    BY <1>16 DEF DeadlinePasses
  <1>17. CASE Collect
    BY <1>17 DEF Collect
  <1>18. CASE UNCHANGED vars
    BY <1>18 DEF vars
  <1> QED
    BY <1>1, <1>2, <1>3, <1>4, <1>5, <1>6, <1>7, <1>8, <1>9, <1>10, <1>11, <1>12, <1>13, <1>14, <1>15, <1>16, <1>17, <1>18 DEF Next, Worker, Finished

LEMMA ResultNext == TypeOK /\ ResultInv /\ [Next]_vars => ResultInv'
  <1> SUFFICES ASSUME TypeOK, ResultInv, [Next]_vars
               PROVE  ResultInv'
    OBVIOUS
  <1> USE SetAssumption DEF TypeOK, ResultInv, Attempted, InFlight, InFlightLabels, Results, Goto, locals
  <1>1. ASSUME NEW w \in Workers, Check(w) PROVE ResultInv'
    BY <1>1 DEF Check
  <1>2. ASSUME NEW w \in Workers, AdmitPaused(w) PROVE ResultInv'
    BY <1>2 DEF AdmitPaused
  <1>3. ASSUME NEW w \in Workers, AdmitLimit(w) PROVE ResultInv'
    BY <1>3 DEF AdmitLimit
  <1>4. ASSUME NEW w \in Workers, AdmitCas(w) PROVE ResultInv'
    BY <1>4 DEF AdmitCas
  <1>5. ASSUME NEW w \in Workers, Claim(w) PROVE ResultInv'
    BY <1>5 DEF Claim
  <1>6. ASSUME NEW w \in Workers, LockAda(w) PROVE ResultInv'
    BY <1>6 DEF LockAda
  <1>7. ASSUME NEW w \in Workers, Attempt(w) PROVE ResultInv'
    BY <1>7 DEF Attempt
  <1>8. ASSUME NEW w \in Workers, CountSuccess(w) PROVE ResultInv'
    BY <1>8 DEF CountSuccess
  <1>9. ASSUME NEW w \in Workers, ReadCap(w) PROVE ResultInv'
    BY <1>9 DEF ReadCap
  <1>10. ASSUME NEW w \in Workers, StopAtCap(w) PROVE ResultInv'
    BY <1>10 DEF StopAtCap
  <1>11. ASSUME NEW w \in Workers, WorkerFinish(w) PROVE ResultInv'
    BY <1>11 DEF WorkerFinish
  <1>12. ASSUME NEW w \in Workers, Persist(w) PROVE ResultInv'
    BY <1>12 DEF Persist
  <1>13. ASSUME NEW w \in Workers, CheckpointDependencies(w) PROVE ResultInv'
    BY <1>13 DEF CheckpointDependencies
  <1>14. ASSUME NEW w \in Workers, CheckpointBudget(w) PROVE ResultInv'
    BY <1>14 DEF CheckpointBudget
  <1>15. ASSUME NEW w \in Workers, StopOnError(w) PROVE ResultInv'
    BY <1>15 DEF StopOnError
  <1>16. ASSUME NEW w \in Workers, HandBack(w) PROVE ResultInv'
    BY <1>16 DEF HandBack
  <1>17. ASSUME NEW k \in AllKeys, Press(k) PROVE ResultInv'
    BY <1>17 DEF Press
  <1>18. CASE DeadlinePasses
    BY <1>18 DEF DeadlinePasses
  <1>19. CASE Collect
    BY <1>19 DEF Collect
  <1>20. CASE UNCHANGED vars
    BY <1>20 DEF vars
  <1> QED
    BY <1>1, <1>2, <1>3, <1>4, <1>5, <1>6, <1>7, <1>8, <1>9, <1>10, <1>11, <1>12, <1>13, <1>14, <1>15, <1>16, <1>17, <1>18, <1>19, <1>20 DEF Next, Worker, Finished

LEMMA ClaimsNext ==
  TypeOK /\ ResultInv /\ EveryClaimAccounted /\ [Next]_vars => EveryClaimAccounted'
  <1> SUFFICES ASSUME TypeOK, ResultInv, EveryClaimAccounted, [Next]_vars
               PROVE  EveryClaimAccounted'
    OBVIOUS
  <1> USE NAssumption DEF EveryClaimAccounted, ClaimIsOpen, ClaimsDiffer, NoneLost, FilledBelowCursor
  <1>1. CASE Quiet
    BY <1>1 DEF Quiet
  <1>2. ASSUME NEW w \in Workers, Claim(w)
        PROVE  EveryClaimAccounted'
    <2> USE <1>2 DEF Claim, TypeOK, Goto, InFlight, InFlightLabels, Rank
    <2>1. CASE cursor >= N
      <3>1. /\ pc' = [pc EXCEPT ![w] = "done"]
            /\ UNCHANGED <<idx, slots>> /\ cursor' = cursor + 1
        BY <2>1
      <3>2. \A v \in Workers : InFlight(v)' <=> InFlight(v)
        BY <3>1
      <3> HIDE <1>2 DEF Claim, InFlight
      <3> QED
        BY <3>1, <3>2, <2>1
    <2>2. CASE cursor < N
      <3>1. /\ pc' = [pc EXCEPT ![w] = "lock"]
            /\ idx' = [idx EXCEPT ![w] = cursor]
            /\ UNCHANGED slots /\ cursor' = cursor + 1 /\ cursor \in Rank
        BY <2>2
      <3>2. InFlight(w)' /\ idx'[w] = cursor /\ ~InFlight(w)
        BY <3>1
      <3>3. \A v \in Workers \ {w} : (InFlight(v)' <=> InFlight(v)) /\ idx'[v] = idx[v]
        BY <3>1
      <3> HIDE <1>2 DEF Claim, InFlight
      <3>4. ClaimIsOpen'
        BY <3>1, <3>2, <3>3
      <3>5. ClaimsDiffer'
        BY <3>2, <3>3
      <3>6. NoneLost'
        <4> SUFFICES ASSUME NEW i \in Rank, i < cursor + 1, slots[i] = "none"
                     PROVE  \E v \in Workers : InFlight(v)' /\ idx'[v] = i
          BY <3>1 DEF NoneLost
        <4>1. CASE i = cursor
          BY <4>1, <3>2
        <4>2. CASE i < cursor
          <5>1. PICK v \in Workers : InFlight(v) /\ idx[v] = i
            BY <4>2
          <5> QED
            BY <5>1, <3>2, <3>3
        <4> QED
          BY <4>1, <4>2
      <3>7. FilledBelowCursor'
        BY <3>1
      <3> QED
        BY <3>4, <3>5, <3>6, <3>7
    <2> QED
      BY <2>1, <2>2
  <1>3. ASSUME NEW w \in Workers, HandBack(w)
        PROVE  EveryClaimAccounted'
    <2>1. /\ pc' = [pc EXCEPT ![w] = "top"] /\ pc[w] = "slot"
          /\ idx' = [idx EXCEPT ![w] = N]
          /\ slots' = [slots EXCEPT ![idx[w]] = result[w]]
          /\ UNCHANGED cursor /\ result[w] # "none"
      BY <1>3 DEF HandBack, Goto, ResultInv, Attempted
    <2>2. ~InFlight(w)' /\ InFlight(w) /\ idx[w] \in Rank
      BY <2>1 DEF TypeOK, InFlight, InFlightLabels
    <2>3. \A v \in Workers \ {w} : (InFlight(v)' <=> InFlight(v)) /\ idx'[v] = idx[v]
      BY <2>1 DEF TypeOK, InFlight
    <2>4. /\ slots'[idx[w]] # "none"
          /\ \A i \in Rank : i # idx[w] => slots'[i] = slots[i]
      BY <2>1, <2>2 DEF TypeOK
    <2>5. \A v \in Workers : InFlight(v) => idx[v] \in Rank
      BY DEF TypeOK
    <2>6. ClaimIsOpen'
      BY <2>1, <2>2, <2>3, <2>4, <2>5
    <2>7. ClaimsDiffer'
      BY <2>2, <2>3
    <2>8. NoneLost'
      BY <2>1, <2>2, <2>3, <2>4
    <2>9. FilledBelowCursor'
      BY <2>1, <2>2, <2>4
    <2> QED
      BY <2>6, <2>7, <2>8, <2>9
  <1> QED
    BY <1>1, <1>2, <1>3, QuietSteps

-----------------------------------------------------------------------------
(* The Ada lock. *)

LEMMA AdaNext == TypeOK /\ AdaInv /\ [Next]_vars => AdaInv'
  <1> SUFFICES ASSUME TypeOK, AdaInv, [Next]_vars
               PROVE  AdaInv'
    OBVIOUS
  <1> USE NAssumption, WorkersAssumption, SetAssumption
  <1> USE DEF TypeOK, AdaInv, InAda, InFlight, InFlightLabels, Rank, Goto, locals
  <1>1. ASSUME NEW w \in Workers, Check(w) PROVE AdaInv'
    BY <1>1 DEF Check
  <1>2. ASSUME NEW w \in Workers, AdmitPaused(w) PROVE AdaInv'
    BY <1>2 DEF AdmitPaused
  <1>3. ASSUME NEW w \in Workers, AdmitLimit(w) PROVE AdaInv'
    BY <1>3 DEF AdmitLimit
  <1>4. ASSUME NEW w \in Workers, AdmitCas(w) PROVE AdaInv'
    BY <1>4 DEF AdmitCas
  <1>5. ASSUME NEW w \in Workers, Claim(w) PROVE AdaInv'
    BY <1>5 DEF Claim
  <1>6. ASSUME NEW w \in Workers, LockAda(w) PROVE AdaInv'
    BY <1>6 DEF LockAda
  <1>7. ASSUME NEW w \in Workers, Attempt(w) PROVE AdaInv'
    BY <1>7 DEF Attempt
  <1>8. ASSUME NEW w \in Workers, CountSuccess(w) PROVE AdaInv'
    BY <1>8 DEF CountSuccess
  <1>9. ASSUME NEW w \in Workers, ReadCap(w) PROVE AdaInv'
    BY <1>9 DEF ReadCap
  <1>10. ASSUME NEW w \in Workers, StopAtCap(w) PROVE AdaInv'
    BY <1>10 DEF StopAtCap
  <1>11. ASSUME NEW w \in Workers, WorkerFinish(w) PROVE AdaInv'
    BY <1>11 DEF WorkerFinish
  <1>12. ASSUME NEW w \in Workers, Persist(w) PROVE AdaInv'
    BY <1>12 DEF Persist
  <1>13. ASSUME NEW w \in Workers, CheckpointDependencies(w) PROVE AdaInv'
    BY <1>13 DEF CheckpointDependencies
  <1>14. ASSUME NEW w \in Workers, CheckpointBudget(w) PROVE AdaInv'
    BY <1>14 DEF CheckpointBudget
  <1>15. ASSUME NEW w \in Workers, StopOnError(w) PROVE AdaInv'
    BY <1>15 DEF StopOnError
  <1>16. ASSUME NEW w \in Workers, HandBack(w) PROVE AdaInv'
    BY <1>16 DEF HandBack
  <1>17. ASSUME NEW k \in AllKeys, Press(k) PROVE AdaInv'
    BY <1>17 DEF Press
  <1>18. CASE DeadlinePasses
    BY <1>18 DEF DeadlinePasses
  <1>19. CASE Collect
    BY <1>19 DEF Collect
  <1>20. CASE UNCHANGED vars
    BY <1>20 DEF vars
  <1> QED
    BY <1>1, <1>2, <1>3, <1>4, <1>5, <1>6, <1>7, <1>8, <1>9, <1>10, <1>11, <1>12, <1>13, <1>14, <1>15, <1>16, <1>17, <1>18, <1>19, <1>20 DEF Next, Worker, Finished

-----------------------------------------------------------------------------
(* Durability. *)

LEMMA DurableNext ==
  TypeOK /\ ResultInv /\ DurableInv /\ [Next]_vars => DurableInv'
  <1> SUFFICES ASSUME TypeOK, ResultInv, DurableInv, [Next]_vars
               PROVE  DurableInv'
    OBVIOUS
  <1> USE FlagAssumption
  <1> USE DEF TypeOK, ResultInv, DurableInv, HandedBackIsDurable, Recorded, InFlight,
              InFlightLabels, Attempted, Goto, locals, disk
  <1>1. ASSUME NEW w \in Workers, Check(w) PROVE DurableInv'
    BY <1>1 DEF Check
  <1>2. ASSUME NEW w \in Workers, AdmitPaused(w) PROVE DurableInv'
    BY <1>2 DEF AdmitPaused
  <1>3. ASSUME NEW w \in Workers, AdmitLimit(w) PROVE DurableInv'
    BY <1>3 DEF AdmitLimit
  <1>4. ASSUME NEW w \in Workers, AdmitCas(w) PROVE DurableInv'
    BY <1>4 DEF AdmitCas
  <1>5. ASSUME NEW w \in Workers, Claim(w) PROVE DurableInv'
    BY <1>5 DEF Claim
  <1>6. ASSUME NEW w \in Workers, LockAda(w) PROVE DurableInv'
    BY <1>6 DEF LockAda
  <1>7. ASSUME NEW w \in Workers, Attempt(w) PROVE DurableInv'
    BY <1>7 DEF Attempt
  <1>8. ASSUME NEW w \in Workers, CountSuccess(w) PROVE DurableInv'
    BY <1>8 DEF CountSuccess
  <1>9. ASSUME NEW w \in Workers, ReadCap(w) PROVE DurableInv'
    BY <1>9 DEF ReadCap
  <1>10. ASSUME NEW w \in Workers, StopAtCap(w) PROVE DurableInv'
    BY <1>10 DEF StopAtCap
  <1>11. ASSUME NEW w \in Workers, WorkerFinish(w) PROVE DurableInv'
    BY <1>11 DEF WorkerFinish
  <1>12. ASSUME NEW w \in Workers, Persist(w) PROVE DurableInv'
    BY <1>12 DEF Persist
  <1>13. ASSUME NEW w \in Workers, CheckpointDependencies(w) PROVE DurableInv'
    BY <1>13 DEF CheckpointDependencies
  <1>14. ASSUME NEW w \in Workers, CheckpointBudget(w) PROVE DurableInv'
    BY <1>14 DEF CheckpointBudget
  <1>15. ASSUME NEW w \in Workers, StopOnError(w) PROVE DurableInv'
    BY <1>15 DEF StopOnError
  <1>16. ASSUME NEW w \in Workers, HandBack(w) PROVE DurableInv'
    BY <1>16 DEF HandBack
  <1>17. ASSUME NEW k \in AllKeys, Press(k) PROVE DurableInv'
    BY <1>17 DEF Press
  <1>18. CASE DeadlinePasses
    BY <1>18 DEF DeadlinePasses
  <1>19. CASE Collect
    BY <1>19 DEF Collect
  <1>20. CASE UNCHANGED vars
    BY <1>20 DEF vars
  <1> QED
    BY <1>1, <1>2, <1>3, <1>4, <1>5, <1>6, <1>7, <1>8, <1>9, <1>10, <1>11, <1>12, <1>13, <1>14, <1>15, <1>16, <1>17, <1>18, <1>19, <1>20 DEF Next, Worker, Finished

-----------------------------------------------------------------------------
(* Permits. *)

LEMMA LimitNext == TypeOK /\ LimitInv /\ [Next]_vars => LimitInv'
  <1> SUFFICES ASSUME TypeOK, LimitInv, [Next]_vars
               PROVE  LimitInv'
    OBVIOUS
  <1> USE JobsAssumption, SetAssumption
  <1> USE DEF TypeOK, LimitInv, Goto, locals, controls
  <1>1. ASSUME NEW w \in Workers, Check(w) PROVE LimitInv'
    BY <1>1 DEF Check
  <1>2. ASSUME NEW w \in Workers, AdmitPaused(w) PROVE LimitInv'
    BY <1>2 DEF AdmitPaused
  <1>3. ASSUME NEW w \in Workers, AdmitLimit(w) PROVE LimitInv'
    BY <1>3 DEF AdmitLimit
  <1>4. ASSUME NEW w \in Workers, AdmitCas(w) PROVE LimitInv'
    <2> SUFFICES ASSUME "-" \notin Keys
                 PROVE  admitted' <= jobs' /\ \A v \in Workers : limit'[v] <= jobs'
      BY DEF LimitInv
    <2> USE <1>4 DEF AdmitCas
    <2>1. UNCHANGED jobs /\ limit' = [limit EXCEPT ![w] = 0]
      OBVIOUS
    <2>2. \A v \in Workers : limit'[v] <= jobs'
      BY <2>1
    <2>3. limit[w] <= jobs /\ limit[w] \in Int
      OBVIOUS
    <2>4. CASE may_admit(admitted, limit[w])
      BY <2>1, <2>2, <2>3, <2>4 DEF may_admit
    <2>5. CASE ~may_admit(admitted, limit[w])
      BY <2>1, <2>2, <2>5
    <2> QED
      BY <2>4, <2>5
  <1>5. ASSUME NEW w \in Workers, Claim(w) PROVE LimitInv'
    BY <1>5 DEF Claim
  <1>6. ASSUME NEW w \in Workers, LockAda(w) PROVE LimitInv'
    BY <1>6 DEF LockAda
  <1>7. ASSUME NEW w \in Workers, Attempt(w) PROVE LimitInv'
    BY <1>7 DEF Attempt
  <1>8. ASSUME NEW w \in Workers, CountSuccess(w) PROVE LimitInv'
    BY <1>8 DEF CountSuccess
  <1>9. ASSUME NEW w \in Workers, ReadCap(w) PROVE LimitInv'
    BY <1>9 DEF ReadCap
  <1>10. ASSUME NEW w \in Workers, StopAtCap(w) PROVE LimitInv'
    BY <1>10 DEF StopAtCap
  <1>11. ASSUME NEW w \in Workers, WorkerFinish(w) PROVE LimitInv'
    BY <1>11 DEF WorkerFinish
  <1>12. ASSUME NEW w \in Workers, Persist(w) PROVE LimitInv'
    BY <1>12 DEF Persist
  <1>13. ASSUME NEW w \in Workers, CheckpointDependencies(w) PROVE LimitInv'
    BY <1>13 DEF CheckpointDependencies
  <1>14. ASSUME NEW w \in Workers, CheckpointBudget(w) PROVE LimitInv'
    BY <1>14 DEF CheckpointBudget
  <1>15. ASSUME NEW w \in Workers, StopOnError(w) PROVE LimitInv'
    BY <1>15 DEF StopOnError
  <1>16. ASSUME NEW w \in Workers, HandBack(w) PROVE LimitInv'
    BY <1>16 DEF HandBack
  <1>17. ASSUME NEW k \in AllKeys, Press(k) PROVE LimitInv'
    <2> USE <1>17 DEF Press
    <2>1. "-" \notin Keys => jobs' >= jobs
      BY DEF adjust_jobs, Larger, Smaller
    <2>2. jobs' \in Int
      BY TypeNext
    <2>3. UNCHANGED <<admitted, limit>>
      OBVIOUS
    <2> HIDE <1>17 DEF Press
    <2> QED
      BY <2>1, <2>2, <2>3
  <1>18. CASE DeadlinePasses
    BY <1>18 DEF DeadlinePasses
  <1>19. CASE Collect
    BY <1>19 DEF Collect
  <1>20. CASE UNCHANGED vars
    BY <1>20 DEF vars
  <1> QED
    BY <1>1, <1>2, <1>3, <1>4, <1>5, <1>6, <1>7, <1>8, <1>9, <1>10, <1>11, <1>12, <1>13, <1>14, <1>15, <1>16, <1>17, <1>18, <1>19, <1>20 DEF Next, Worker, Finished

LEMMA HoldersFinite == IsFiniteSet(Holders) /\ Cardinality(Holders) \in Nat
  BY WorkersAssumption, FS_Subset, FS_CardinalityType DEF Holders

(* Only admission, a claim past the end and a hand-back touch a permit. *)
PermitQuiet == Holders' = Holders /\ admitted' = admitted

LEMMA PermitsNext == TypeOK /\ PermitsMatch /\ [Next]_vars => PermitsMatch'
  <1> SUFFICES ASSUME TypeOK, PermitsMatch, [Next]_vars
               PROVE  PermitsMatch'
    OBVIOUS
  <1> USE DEF TypeOK, Holders, PermitLabels, InFlightLabels, Goto, locals, PermitQuiet
  <1>1. ASSUME NEW w \in Workers, Check(w) PROVE PermitQuiet
    BY <1>1 DEF Check
  <1>2. ASSUME NEW w \in Workers, AdmitPaused(w) PROVE PermitQuiet
    BY <1>2 DEF AdmitPaused
  <1>3. ASSUME NEW w \in Workers, AdmitLimit(w) PROVE PermitQuiet
    BY <1>3 DEF AdmitLimit
  <1>4. ASSUME NEW w \in Workers, LockAda(w) PROVE PermitQuiet
    BY <1>4 DEF LockAda
  <1>5. ASSUME NEW w \in Workers, Attempt(w) PROVE PermitQuiet
    BY <1>5 DEF Attempt
  <1>6. ASSUME NEW w \in Workers, CountSuccess(w) PROVE PermitQuiet
    BY <1>6 DEF CountSuccess
  <1>7. ASSUME NEW w \in Workers, ReadCap(w) PROVE PermitQuiet
    BY <1>7 DEF ReadCap
  <1>8. ASSUME NEW w \in Workers, StopAtCap(w) PROVE PermitQuiet
    BY <1>8 DEF StopAtCap
  <1>9. ASSUME NEW w \in Workers, WorkerFinish(w) PROVE PermitQuiet
    BY <1>9 DEF WorkerFinish
  <1>10. ASSUME NEW w \in Workers, Persist(w) PROVE PermitQuiet
    BY <1>10 DEF Persist
  <1>11. ASSUME NEW w \in Workers, CheckpointDependencies(w) PROVE PermitQuiet
    BY <1>11 DEF CheckpointDependencies
  <1>12. ASSUME NEW w \in Workers, CheckpointBudget(w) PROVE PermitQuiet
    BY <1>12 DEF CheckpointBudget
  <1>13. ASSUME NEW w \in Workers, StopOnError(w) PROVE PermitQuiet
    BY <1>13 DEF StopOnError
  <1>14. ASSUME NEW k \in AllKeys, Press(k) PROVE PermitQuiet
    BY <1>14 DEF Press
  <1>15. DeadlinePasses => PermitQuiet
    BY DEF DeadlinePasses
  <1>16. Collect => PermitQuiet
    BY DEF Collect
  <1>17. UNCHANGED vars => PermitQuiet
    BY DEF vars
  <1>18. PermitQuiet => PermitsMatch'
    BY DEF PermitsMatch
  <1>19. ASSUME NEW w \in Workers, Holders' = Holders \cup {w}, w \notin Holders,
               admitted' = admitted + 1
        PROVE  PermitsMatch'
    <2> HIDE DEF Holders, PermitLabels, InFlightLabels
    <2>1. Cardinality(Holders') = Cardinality(Holders) + 1
      BY <1>19, HoldersFinite, FS_AddElement
    <2> QED
      BY <1>19, <2>1 DEF PermitsMatch
  <1>20. ASSUME NEW w \in Workers, Holders' = Holders \ {w}, w \in Holders,
               admitted' = admitted - 1
        PROVE  PermitsMatch'
    <2> HIDE DEF Holders, PermitLabels, InFlightLabels
    <2>1. Cardinality(Holders') = Cardinality(Holders) - 1
      BY <1>20, HoldersFinite, FS_RemoveElement
    <2> QED
      BY <1>20, <2>1 DEF PermitsMatch
  <1>21. ASSUME NEW w \in Workers, AdmitCas(w) PROVE PermitsMatch'
    <2>1. CASE may_admit(admitted, limit[w])
      <3>1. pc' = [pc EXCEPT ![w] = "claim"] /\ pc[w] = "cas" /\ admitted' = admitted + 1
        BY <1>21, <2>1 DEF AdmitCas
      <3>2. Holders' = Holders \cup {w} /\ w \notin Holders
        BY <3>1
      <3> QED
        BY <3>1, <3>2, <1>19
    <2>2. CASE ~may_admit(admitted, limit[w])
      <3>1. pc' = [pc EXCEPT ![w] = "top"] /\ pc[w] = "cas" /\ admitted' = admitted
        BY <1>21, <2>2 DEF AdmitCas
      <3>2. PermitQuiet
        BY <3>1
      <3> QED
        BY <3>2, <1>18
    <2> QED
      BY <2>1, <2>2
  <1>22. ASSUME NEW w \in Workers, Claim(w) PROVE PermitsMatch'
    <2>1. CASE cursor >= N
      <3>1. pc' = [pc EXCEPT ![w] = "done"] /\ pc[w] = "claim" /\ admitted' = admitted - 1
        BY <1>22, <2>1 DEF Claim
      <3>2. Holders' = Holders \ {w} /\ w \in Holders
        BY <3>1
      <3> QED
        BY <3>1, <3>2, <1>20
    <2>2. CASE ~(cursor >= N)
      <3>1. pc' = [pc EXCEPT ![w] = "lock"] /\ pc[w] = "claim" /\ admitted' = admitted
        BY <1>22, <2>2 DEF Claim
      <3>2. PermitQuiet
        BY <3>1
      <3> QED
        BY <3>2, <1>18
    <2> QED
      BY <2>1, <2>2
  <1>23. ASSUME NEW w \in Workers, HandBack(w) PROVE PermitsMatch'
    <2>1. pc' = [pc EXCEPT ![w] = "top"] /\ pc[w] = "slot" /\ admitted' = admitted - 1
      BY <1>23 DEF HandBack
    <2>2. Holders' = Holders \ {w} /\ w \in Holders
      BY <2>1
    <2> QED
      BY <2>1, <2>2, <1>20
  <1> QED
    BY <1>1, <1>2, <1>3, <1>4, <1>5, <1>6, <1>7, <1>8, <1>9, <1>10, <1>11, <1>12, <1>13, <1>14, <1>15, <1>16, <1>17, <1>18, <1>21, <1>22, <1>23 DEF Next, Worker, Finished

-----------------------------------------------------------------------------
(* The invariant, and what follows from it. *)

LEMMA IInvInit == Init => IInv
  <1> SUFFICES ASSUME Init PROVE IInv
    OBVIOUS
  <1>1. TypeOK
    BY TypeInit
  <1>2. /\ \A w \in Workers : pc[w] = "top" /\ ~InFlight(w) /\ limit[w] = 0
        /\ \A i \in Rank : slots[i] = "none"
    BY DEF Init, InFlight, InFlightLabels
  <1>3. ResultInv /\ AdaInv /\ DurableInv
    BY <1>2, WorkersAssumption
    DEF Init, ResultInv, AdaInv, InAda, DurableInv, HandedBackIsDurable, Attempted
  <1>4. EveryClaimAccounted
    BY <1>2, NAssumption
    DEF Init, EveryClaimAccounted, ClaimIsOpen, ClaimsDiffer, NoneLost, FilledBelowCursor, Rank
  <1>5. LimitInv
    BY <1>2, JobsAssumption DEF Init, LimitInv
  <1>6. PermitsMatch
    <2>1. Holders = {}
      BY <1>2 DEF Holders, PermitLabels, InFlightLabels
    <2> QED
      BY <2>1, FS_EmptySet DEF Init, PermitsMatch
  <1> QED
    BY <1>1, <1>3, <1>4, <1>5, <1>6 DEF IInv

LEMMA IInvNext == IInv /\ [Next]_vars => IInv'
  BY TypeNext, ResultNext, ClaimsNext, AdaNext, DurableNext, LimitNext, PermitsNext
  DEF IInv

LEMMA IInvAlways == Spec => []IInv
  BY IInvInit, IInvNext, PTL DEF Spec

(* Whatever the number of workers and candidates, and whatever the operator *)
(* presses, run_parallel_sweep hands every claimed candidate to exactly one *)
(* worker and loses none.                                                   *)
THEOREM SweepAccountsForClaims == Spec => []EveryClaimAccounted
  <1>1. IInv => EveryClaimAccounted
    BY DEF IInv
  <1> QED
    BY <1>1, IInvAlways, PTL

(* Ada attempts of a pool of any size never overlap. *)
THEOREM SweepAdaSerial == Spec => []AdaSerial
  <1>1. IInv => AdaSerial
    BY DEF IInv, AdaInv, AdaSerial
  <1> QED
    BY <1>1, IInvAlways, PTL

(* The admission counter is the number of permits held: AdmissionGuard      *)
(* neither leaks a permit nor returns one twice.                            *)
THEOREM SweepPermitsMatch == Spec => []PermitsMatch
  <1>1. IInv => PermitsMatch
    BY DEF IInv
  <1> QED
    BY <1>1, IInvAlways, PTL

(* Unless --jobs is lowered, the pool never runs more than --jobs targets,  *)
(* although its threads number as many as the host has cores.               *)
THEOREM SweepWithinJobs == Spec => []WithinJobs
  <1>1. IInv => WithinJobs
    BY DEF IInv, LimitInv, WithinJobs
  <1> QED
    BY <1>1, IInvAlways, PTL

(* A good result in a slot is in the dependency checkpoint on disk, and in  *)
(* its result.json unless the disk failed.                                  *)
THEOREM SweepDurable == Spec => []HandedBackIsDurable
  <1>1. IInv => HandedBackIsDurable
    BY DEF IInv, DurableInv
  <1> QED
    BY <1>1, IInvAlways, PTL

-----------------------------------------------------------------------------
(* The pool implements the abstract sweep. *)

(* Only the checkpoint writes the manifest, only the collector answers. *)
Framed == UNCHANGED <<manifest, manifest_file, returned>>
LEMMA FrameSteps ==
  ASSUME [Next]_vars
  PROVE  Framed \/ (\E w \in Workers : CheckpointDependencies(w)) \/ Collect
  <1> USE DEF Framed, disk
  <1>1. ASSUME NEW w \in Workers, Check(w) PROVE Framed
    BY <1>1 DEF Check
  <1>2. ASSUME NEW w \in Workers, AdmitPaused(w) PROVE Framed
    BY <1>2 DEF AdmitPaused
  <1>3. ASSUME NEW w \in Workers, AdmitLimit(w) PROVE Framed
    BY <1>3 DEF AdmitLimit
  <1>4. ASSUME NEW w \in Workers, AdmitCas(w) PROVE Framed
    BY <1>4 DEF AdmitCas
  <1>5. ASSUME NEW w \in Workers, Claim(w) PROVE Framed
    BY <1>5 DEF Claim
  <1>6. ASSUME NEW w \in Workers, LockAda(w) PROVE Framed
    BY <1>6 DEF LockAda
  <1>7. ASSUME NEW w \in Workers, Attempt(w) PROVE Framed
    BY <1>7 DEF Attempt
  <1>8. ASSUME NEW w \in Workers, CountSuccess(w) PROVE Framed
    BY <1>8 DEF CountSuccess
  <1>9. ASSUME NEW w \in Workers, ReadCap(w) PROVE Framed
    BY <1>9 DEF ReadCap
  <1>10. ASSUME NEW w \in Workers, StopAtCap(w) PROVE Framed
    BY <1>10 DEF StopAtCap
  <1>11. ASSUME NEW w \in Workers, WorkerFinish(w) PROVE Framed
    BY <1>11 DEF WorkerFinish
  <1>12. ASSUME NEW w \in Workers, Persist(w) PROVE Framed
    BY <1>12 DEF Persist
  <1>13. ASSUME NEW w \in Workers, CheckpointBudget(w) PROVE Framed
    BY <1>13 DEF CheckpointBudget
  <1>14. ASSUME NEW w \in Workers, StopOnError(w) PROVE Framed
    BY <1>14 DEF StopOnError
  <1>15. ASSUME NEW w \in Workers, HandBack(w) PROVE Framed
    BY <1>15 DEF HandBack
  <1>16. ASSUME NEW k \in AllKeys, Press(k) PROVE Framed
    BY <1>16 DEF Press
  <1>17. ASSUME DeadlinePasses PROVE Framed
    BY <1>17 DEF DeadlinePasses
  <1>18. ASSUME UNCHANGED vars PROVE Framed
    BY <1>18 DEF vars
  <1> QED
    BY <1>1, <1>2, <1>3, <1>4, <1>5, <1>6, <1>7, <1>8, <1>9, <1>10, <1>11, <1>12, <1>13, <1>14, <1>15, <1>16, <1>17, <1>18 DEF Next, Worker, Finished

(* The sweep has answered only if every worker has left, and the checkpoint *)
(* holds claimed ranks only.                                                *)
ReturnInv == returned # "none" => AllDone
ManifestInv == \A i \in manifest : i < cursor
RefineInv == IInv /\ ReturnInv /\ ManifestInv

(* A worker that has left the pool does not come back. *)
Left == {w \in Workers : pc[w] = "done"}
LEMMA DoneStays ==
  ASSUME TypeOK, [Next]_vars
  PROVE  Left \subseteq Left'
  <1> USE DEF TypeOK, Left, Goto
  <1>1. ASSUME NEW w \in Workers, Check(w) PROVE Left \subseteq Left'
    BY <1>1 DEF Check
  <1>2. ASSUME NEW w \in Workers, AdmitPaused(w) PROVE Left \subseteq Left'
    BY <1>2 DEF AdmitPaused
  <1>3. ASSUME NEW w \in Workers, AdmitLimit(w) PROVE Left \subseteq Left'
    BY <1>3 DEF AdmitLimit
  <1>4. ASSUME NEW w \in Workers, AdmitCas(w) PROVE Left \subseteq Left'
    BY <1>4 DEF AdmitCas
  <1>5. ASSUME NEW w \in Workers, Claim(w) PROVE Left \subseteq Left'
    BY <1>5 DEF Claim
  <1>6. ASSUME NEW w \in Workers, LockAda(w) PROVE Left \subseteq Left'
    BY <1>6 DEF LockAda
  <1>7. ASSUME NEW w \in Workers, Attempt(w) PROVE Left \subseteq Left'
    BY <1>7 DEF Attempt
  <1>8. ASSUME NEW w \in Workers, CountSuccess(w) PROVE Left \subseteq Left'
    BY <1>8 DEF CountSuccess
  <1>9. ASSUME NEW w \in Workers, ReadCap(w) PROVE Left \subseteq Left'
    BY <1>9 DEF ReadCap
  <1>10. ASSUME NEW w \in Workers, StopAtCap(w) PROVE Left \subseteq Left'
    BY <1>10 DEF StopAtCap
  <1>11. ASSUME NEW w \in Workers, WorkerFinish(w) PROVE Left \subseteq Left'
    BY <1>11 DEF WorkerFinish
  <1>12. ASSUME NEW w \in Workers, Persist(w) PROVE Left \subseteq Left'
    BY <1>12 DEF Persist
  <1>13. ASSUME NEW w \in Workers, CheckpointDependencies(w) PROVE Left \subseteq Left'
    BY <1>13 DEF CheckpointDependencies
  <1>14. ASSUME NEW w \in Workers, CheckpointBudget(w) PROVE Left \subseteq Left'
    BY <1>14 DEF CheckpointBudget
  <1>15. ASSUME NEW w \in Workers, StopOnError(w) PROVE Left \subseteq Left'
    BY <1>15 DEF StopOnError
  <1>16. ASSUME NEW w \in Workers, HandBack(w) PROVE Left \subseteq Left'
    BY <1>16 DEF HandBack
  <1>17. ASSUME NEW k \in AllKeys, Press(k) PROVE Left \subseteq Left'
    BY <1>17 DEF Press
  <1>18. ASSUME DeadlinePasses PROVE Left \subseteq Left'
    BY <1>18 DEF DeadlinePasses
  <1>19. ASSUME Collect PROVE Left \subseteq Left'
    BY <1>19 DEF Collect
  <1>20. ASSUME UNCHANGED vars PROVE Left \subseteq Left'
    BY <1>20 DEF vars
  <1> QED
    BY <1>1, <1>2, <1>3, <1>4, <1>5, <1>6, <1>7, <1>8, <1>9, <1>10, <1>11, <1>12, <1>13, <1>14, <1>15, <1>16, <1>17, <1>18, <1>19, <1>20 DEF Next, Worker, Finished

LEMMA RefineNext == RefineInv /\ [Next]_vars => RefineInv'
  <1> SUFFICES ASSUME RefineInv, [Next]_vars
               PROVE  RefineInv'
    OBVIOUS
  <1>1. IInv'
    BY IInvNext DEF RefineInv
  <1>2. TypeOK /\ TypeOK' /\ EveryClaimAccounted /\ ReturnInv /\ ManifestInv
    BY <1>1 DEF IInv, RefineInv
  <1>3. ReturnInv'
    <2>1. CASE AllDone
      BY <1>2, <2>1, DoneStays DEF ReturnInv, AllDone, Left
    <2>2. CASE ~AllDone
      BY <1>2, <2>2, FrameSteps DEF Framed, ReturnInv, CheckpointDependencies, Collect
    <2> QED
      BY <2>1, <2>2
  <1>4. cursor' >= cursor /\ cursor \in Nat /\ cursor' \in Nat
    BY <1>2, QuietSteps DEF Quiet, TypeOK, Claim, HandBack
  <1>5. ManifestInv'
    <2>1. \A i \in manifest : i \in Int
      BY <1>2, NAssumption DEF TypeOK, Rank
    <2>2. CASE UNCHANGED manifest
      BY <1>2, <1>4, <2>1, <2>2 DEF ManifestInv
    <2>3. ASSUME NEW w \in Workers, CheckpointDependencies(w)
          PROVE  ManifestInv'
      <3>1. InFlight(w) /\ manifest' = manifest \cup {idx[w]}
        BY <2>3 DEF CheckpointDependencies, InFlight, InFlightLabels
      <3>2. idx[w] < cursor /\ idx[w] \in Int
        BY <1>2, <3>1, NAssumption DEF EveryClaimAccounted, ClaimIsOpen, TypeOK, Rank
      <3> QED
        BY <1>2, <1>4, <2>1, <3>1, <3>2 DEF ManifestInv
    <2> QED
      BY <2>2, <2>3, FrameSteps DEF Framed, Collect, disk
  <1> QED
    BY <1>1, <1>3, <1>5 DEF RefineInv

(* run_parallel_sweep, of any size and under any interleaving, implements    *)
(* the abstract sweep that the serial loop implements too: its steps hand   *)
(* out a rank, save the checkpoint, record a result or answer, in the order *)
(* that Sweep allows, and everything else it does is invisible.             *)
THEOREM SweepImplementsAbstract == Spec => PoolIsSweep
  <1> DEFINE taken == Smaller(cursor, N)
  <1>1. Init => RefineInv /\ Abstract!Init
    <2> SUFFICES ASSUME Init PROVE RefineInv /\ Abstract!Init
      OBVIOUS
    <2>1. taken = 0
      BY NAssumption DEF Init, Smaller
    <2> QED
      BY <2>1, IInvInit DEF Init, RefineInv, ReturnInv, ManifestInv, Abstract!Init, Abstract!Rank, Rank
  <1>2. RefineInv /\ RefineInv' /\ [Next]_vars => [Abstract!Next]_(Abstract!vars)
    <2> SUFFICES ASSUME RefineInv, RefineInv', [Next]_vars
                 PROVE  Abstract!Next \/ UNCHANGED Abstract!vars
      OBVIOUS
    <2> USE NAssumption
    <2>1. /\ TypeOK /\ ResultInv /\ EveryClaimAccounted /\ DurableInv /\ ReturnInv /\ ManifestInv
          /\ TypeOK' /\ EveryClaimAccounted' /\ ManifestInv'
          /\ cursor \in Nat /\ Abstract!Rank = Rank
      BY DEF RefineInv, IInv, TypeOK, Abstract!Rank, Rank
    <2>2. ASSUME NEW w \in Workers, Claim(w)
          PROVE  Abstract!Take \/ UNCHANGED Abstract!vars
      <3>1. cursor' = cursor + 1 /\ UNCHANGED <<manifest_file, slots, returned>> /\ returned = "none"
        BY <2>1, <2>2 DEF Claim, disk, ReturnInv, AllDone
      <3> QED
        BY <2>1, <3>1 DEF Abstract!Take, Abstract!vars, Smaller
    <2>3. ASSUME NEW w \in Workers, HandBack(w)
          PROVE  Abstract!Next
      <3>1. /\ UNCHANGED <<cursor, manifest_file, returned>> /\ returned = "none"
            /\ slots' = [slots EXCEPT ![idx[w]] = result[w]]
            /\ pc[w] = "slot" /\ InFlight(w)
        BY <2>1, <2>3 DEF HandBack, disk, ReturnInv, AllDone, InFlight, InFlightLabels
      <3>2. idx[w] \in Rank /\ idx[w] < cursor /\ slots[idx[w]] = "none"
        BY <2>1, <3>1 DEF TypeOK, EveryClaimAccounted, ClaimIsOpen
      <3>3. result[w] \in {"fuzzed", "other", "err"}
        BY <2>1, <3>1 DEF TypeOK, Results, ResultInv, Attempted
      <3>4. result[w] = "err" \/ idx[w] \in manifest_file
        BY <2>1, <3>1, <3>3 DEF DurableInv
      <3>5. idx[w] < Smaller(cursor, N)
        BY <2>1, <3>2 DEF Smaller, Rank
      <3>6. Abstract!Record(idx[w], result[w])
        BY <3>1, <3>2, <3>4, <3>5 DEF Abstract!Record, Abstract!Open
      <3> QED
        BY <2>1, <3>2, <3>3, <3>6 DEF Abstract!Next
    <2>4. ASSUME NEW w \in Workers, CheckpointDependencies(w)
          PROVE  Abstract!Save \/ UNCHANGED Abstract!vars
      <3>1. /\ UNCHANGED <<cursor, slots, returned>> /\ returned = "none"
            /\ manifest_file' = manifest' \/ UNCHANGED manifest_file
            /\ manifest \subseteq manifest'
        BY <2>1, <2>4 DEF CheckpointDependencies, ReturnInv, AllDone
      <3>2. \A i \in manifest' : i \in 0 .. (Smaller(cursor, N) - 1)
        BY <2>1, <3>1 DEF ManifestInv, TypeOK, Rank, Smaller
      <3>3. manifest_file \subseteq manifest
        BY <2>1 DEF TypeOK
      <3> QED
        BY <3>1, <3>2, <3>3 DEF Abstract!Save, Abstract!vars
    <2>5. ASSUME Collect
          PROVE  Abstract!Answer
      <3>1. /\ AllDone /\ returned = "none" /\ UNCHANGED <<cursor, slots, manifest_file>>
            /\ returned' = IF \E i \in Rank : slots[i] = "err" THEN "err" ELSE "ok"
        BY <2>5 DEF Collect, disk
      <3>2. \A w \in Workers : ~InFlight(w)
        BY <3>1 DEF AllDone, InFlight, InFlightLabels
      <3>3. \A i \in Rank : ~(i < cursor /\ slots[i] = "none")
        BY <2>1, <3>2 DEF EveryClaimAccounted, NoneLost
      <3>4. \A i \in Rank : ~Abstract!Open(i)
        BY <2>1, <3>3 DEF Abstract!Open, Smaller, Rank
      <3> QED
        BY <2>1, <3>1, <3>4 DEF Abstract!Answer
    <2>6. CASE UNCHANGED <<cursor, slots, manifest, manifest_file, returned>>
      BY <2>6 DEF Abstract!vars
    <2> QED
      BY <2>1, <2>2, <2>3, <2>4, <2>5, <2>6, QuietSteps, FrameSteps DEF Framed, Quiet, Abstract!Next
  <1> QED
    BY <1>1, <1>2, RefineNext, PTL DEF Spec, PoolIsSweep, Abstract!Spec
=============================================================================
