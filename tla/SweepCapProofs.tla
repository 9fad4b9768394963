---------------------------- MODULE SweepCapProofs ----------------------------
(***************************************************************************)
(* The cap of the worker pool: why it stops, how far past the cap it may   *)
(* go, and that it fuzzes what the serial loop would have fuzzed, for      *)
(* every number of workers and candidates.                                 *)
(*                                                                         *)
(* All three are counting arguments over state that several workers change *)
(* between one another's steps: success_count and the status line's        *)
(* `fuzzed` are incremented at different labels, and the cap that is read  *)
(* against one of them is lowered against the other.  The invariant ties   *)
(* each counter to the set of workers or ranks behind it.                  *)
(***************************************************************************)
EXTENDS ParallelSweepProofs

(* What a worker carries: the outcome of its rank, unless a later step      *)
(* failed; and the success number it drew.                                  *)
OutcomeInv ==
  /\ \A w \in Workers :
       /\ pc[w] \in Attempted => result[w] \in {outcome[idx[w]], "err"}
       /\ pc[w] \in {"count", "cap", "stop"} => result[w] = "fuzzed"
       /\ pc[w] = "cap" => mine[w] \in 1 .. success_count
  /\ \A i \in Rank : slots[i] \in {"none", "err", outcome[i]}

(* The successes counted and not yet in the status line. *)
Late == {w \in Workers : pc[w] \in {"cap", "stop", "finish"} /\ result[w] = "fuzzed"}
LateInv == fuzzed + Cardinality(Late) = success_count

(* The ranks behind success_count: claimed, fuzzed and past the count. *)
CountedLabels == {"cap", "stop", "finish", "persist", "deps", "budget", "fail", "slot"}
Counted ==
  {i \in Rank :
     /\ outcome[i] = "fuzzed"
     /\ \/ slots[i] # "none"
        \/ \E w \in Workers : pc[w] \in CountedLabels /\ idx[w] = i}
CountInv == success_count = Seed + Cardinality(Counted)

(* Why the pool stops. *)
CapHit == success_count >= 1 /\ CapReached(success_count)
SomeError ==
  \/ \E i \in Rank : slots[i] = "err"
  \/ \E w \in Workers : pc[w] \in {"fail", "slot"} /\ result[w] = "err"
StopReason == exhausted \/ expired \/ CapHit \/ SomeError
ReasonInv ==
  "]" \notin Keys =>
    /\ stopped => StopReason
    /\ \A w \in Workers : pc[w] = "stop" => CapHit
    /\ \A w \in Workers : pc[w] = "done" => cursor >= N \/ quit \/ StopReason

(* Past their stop check and not yet counted; counted and about to stop. *)
ActiveLabels == {"pause", "limit", "cas", "claim", "lock", "attempt", "count"}
Active == {w \in Workers : pc[w] \in ActiveLabels}
Pending == {w \in Workers : pc[w] = "stop" \/ (pc[w] = "cap" /\ mine[w] >= Cap0)}
PoolInv ==
  "]" \notin Keys /\ Seed < Cap0 =>
    /\ cap # NoCap
    /\ ~stopped => cap <= Cap0 /\ success_count < Cap0 + Cardinality(Pending)
    /\ stopped => success_count + Cardinality(Active) < Cap0 + Cardinality(Workers)

(* A sweep that answered ok has no error among its results. *)
OkInv == returned = "ok" => \A i \in Rank : slots[i] # "err"

-----------------------------------------------------------------------------
LEMMA OutcomeNext == IInv /\ OutcomeInv /\ [Next]_vars => OutcomeInv'
  <1> SUFFICES ASSUME IInv, OutcomeInv, [Next]_vars
               PROVE  OutcomeInv'
    OBVIOUS
  <1>0. TypeOK /\ ClaimIsOpen /\ ClaimsDiffer
    BY DEF IInv, EveryClaimAccounted
  <1> USE <1>0, NAssumption DEF TypeOK, ClaimIsOpen, ClaimsDiffer, OutcomeInv, Attempted, InFlight, InFlightLabels, Goto, locals, Rank
  <1>1. ASSUME NEW w \in Workers, Check(w) PROVE OutcomeInv'
    BY <1>1 DEF Check
  <1>2. ASSUME NEW w \in Workers, AdmitPaused(w) PROVE OutcomeInv'
    BY <1>2 DEF AdmitPaused
  <1>3. ASSUME NEW w \in Workers, AdmitLimit(w) PROVE OutcomeInv'
    BY <1>3 DEF AdmitLimit
  <1>4. ASSUME NEW w \in Workers, AdmitCas(w) PROVE OutcomeInv'
    BY <1>4 DEF AdmitCas
  <1>5. ASSUME NEW w \in Workers, Claim(w) PROVE OutcomeInv'
    BY <1>5 DEF Claim
  <1>6. ASSUME NEW w \in Workers, LockAda(w) PROVE OutcomeInv'
    BY <1>6 DEF LockAda
  <1>7. ASSUME NEW w \in Workers, Attempt(w) PROVE OutcomeInv'
    BY <1>7 DEF Attempt
  <1>8. ASSUME NEW w \in Workers, CountSuccess(w) PROVE OutcomeInv'
    BY <1>8 DEF CountSuccess
  <1>9. ASSUME NEW w \in Workers, ReadCap(w) PROVE OutcomeInv'
    BY <1>9 DEF ReadCap
  <1>10. ASSUME NEW w \in Workers, StopAtCap(w) PROVE OutcomeInv'
    BY <1>10 DEF StopAtCap
  <1>11. ASSUME NEW w \in Workers, WorkerFinish(w) PROVE OutcomeInv'
    BY <1>11 DEF WorkerFinish
  <1>12. ASSUME NEW w \in Workers, Persist(w) PROVE OutcomeInv'
    BY <1>12 DEF Persist
  <1>13. ASSUME NEW w \in Workers, CheckpointDependencies(w) PROVE OutcomeInv'
    BY <1>13 DEF CheckpointDependencies
  <1>14. ASSUME NEW w \in Workers, CheckpointBudget(w) PROVE OutcomeInv'
    BY <1>14 DEF CheckpointBudget
  <1>15. ASSUME NEW w \in Workers, StopOnError(w) PROVE OutcomeInv'
    BY <1>15 DEF StopOnError
  <1>16. ASSUME NEW w \in Workers, HandBack(w) PROVE OutcomeInv'
    BY <1>16 DEF HandBack
  <1>17. ASSUME NEW k \in AllKeys, Press(k) PROVE OutcomeInv'
    BY <1>17 DEF Press
  <1>18. ASSUME DeadlinePasses PROVE OutcomeInv'
    BY <1>18 DEF DeadlinePasses
  <1>19. ASSUME Collect PROVE OutcomeInv'
    BY <1>19 DEF Collect
  <1>20. ASSUME UNCHANGED vars PROVE OutcomeInv'
    BY <1>20 DEF vars
  <1> QED
    BY <1>1, <1>2, <1>3, <1>4, <1>5, <1>6, <1>7, <1>8, <1>9, <1>10, <1>11, <1>12, <1>13, <1>14, <1>15, <1>16, <1>17, <1>18, <1>19, <1>20 DEF Next, Worker, Finished

(* Counting workers. *)
LEMMA SubsetsFinite ==
  ASSUME NEW S \in SUBSET Workers
  PROVE  IsFiniteSet(S) /\ Cardinality(S) \in Nat /\ Cardinality(S) <= Cardinality(Workers)
         /\ Cardinality(Workers) \in Nat
  BY WorkersAssumption, FS_Subset, FS_CardinalityType

LEMMA LateNext == IInv /\ OutcomeInv /\ LateInv /\ [Next]_vars => LateInv'
  <1> SUFFICES ASSUME IInv, OutcomeInv, LateInv, [Next]_vars
               PROVE  LateInv'
    OBVIOUS
  <1> DEFINE Same == UNCHANGED <<fuzzed, success_count, Late>>
  <1>a. TypeOK /\ ResultInv
    BY DEF IInv
  <1>b. Late \in SUBSET Workers /\ fuzzed \in Nat /\ success_count \in Nat
    BY <1>a DEF Late, TypeOK
  <1> USE <1>a DEF TypeOK, ResultInv, Attempted, OutcomeInv, Late, Goto, locals
  <1>1. ASSUME NEW w \in Workers, Check(w) PROVE Same
    BY <1>1 DEF Check
  <1>2. ASSUME NEW w \in Workers, AdmitPaused(w) PROVE Same
    BY <1>2 DEF AdmitPaused
  <1>3. ASSUME NEW w \in Workers, AdmitLimit(w) PROVE Same
    BY <1>3 DEF AdmitLimit
  <1>4. ASSUME NEW w \in Workers, AdmitCas(w) PROVE Same
    BY <1>4 DEF AdmitCas
  <1>5. ASSUME NEW w \in Workers, Claim(w) PROVE Same
    BY <1>5 DEF Claim
  <1>6. ASSUME NEW w \in Workers, LockAda(w) PROVE Same
    BY <1>6 DEF LockAda
  <1>7. ASSUME NEW w \in Workers, Attempt(w) PROVE Same
    BY <1>7 DEF Attempt
  <1>8. ASSUME NEW w \in Workers, ReadCap(w) PROVE Same
    BY <1>8 DEF ReadCap
  <1>9. ASSUME NEW w \in Workers, StopAtCap(w) PROVE Same
    BY <1>9 DEF StopAtCap
  <1>10. ASSUME NEW w \in Workers, Persist(w) PROVE Same
    BY <1>10 DEF Persist
  <1>11. ASSUME NEW w \in Workers, CheckpointDependencies(w) PROVE Same
    BY <1>11 DEF CheckpointDependencies
  <1>12. ASSUME NEW w \in Workers, CheckpointBudget(w) PROVE Same
    BY <1>12 DEF CheckpointBudget
  <1>13. ASSUME NEW w \in Workers, StopOnError(w) PROVE Same
    BY <1>13 DEF StopOnError
  <1>14. ASSUME NEW w \in Workers, HandBack(w) PROVE Same
    BY <1>14 DEF HandBack
  <1>15. ASSUME NEW k \in AllKeys, Press(k) PROVE Same
    BY <1>15 DEF Press
  <1>16. ASSUME DeadlinePasses PROVE Same
    BY <1>16 DEF DeadlinePasses
  <1>17. ASSUME Collect PROVE Same
    BY <1>17 DEF Collect
  <1>18. ASSUME UNCHANGED vars PROVE Same
    BY <1>18 DEF vars
  <1>30. ASSUME NEW w \in Workers, CountSuccess(w) PROVE LateInv'
    <2>1. Late' = Late \cup {w} /\ w \notin Late
          /\ success_count' = success_count + 1 /\ fuzzed' = fuzzed
      BY <1>30 DEF CountSuccess
    <2> HIDE DEF Late
    <2>2. Cardinality(Late') = Cardinality(Late) + 1
      BY <2>1, <1>b, SubsetsFinite, FS_AddElement
    <2> QED
      BY <1>b, <2>1, <2>2, SubsetsFinite DEF LateInv
  <1>31. ASSUME NEW w \in Workers, WorkerFinish(w) PROVE Same \/ LateInv'
    <2>1. CASE result[w] # "fuzzed"
      BY <1>31, <2>1 DEF WorkerFinish
    <2>2. CASE result[w] = "fuzzed"
      <3>1. Late' = Late \ {w} /\ w \in Late
            /\ success_count' = success_count /\ fuzzed' = fuzzed + 1
        BY <1>31, <2>2 DEF WorkerFinish
      <3> HIDE DEF Late
      <3>2. Cardinality(Late') = Cardinality(Late) - 1
        BY <3>1, <1>b, SubsetsFinite, FS_RemoveElement
      <3> QED
        BY <1>b, <3>1, <3>2, SubsetsFinite DEF LateInv
    <2> QED
      BY <2>1, <2>2
  <1>32. Same => LateInv'
    BY DEF LateInv
  <1> HIDE DEF Same
  <1> QED
    BY <1>1, <1>2, <1>3, <1>4, <1>5, <1>6, <1>7, <1>8, <1>9, <1>10, <1>11, <1>12, <1>13, <1>14, <1>15, <1>16, <1>17, <1>18, <1>30, <1>31, <1>32 DEF Next, Worker, Finished

LEMMA CountedFinite == IsFiniteSet(Counted) /\ Cardinality(Counted) \in Nat
  <1>1. IsFiniteSet(Rank)
    BY NAssumption, FS_Interval DEF Rank
  <1>2. Counted \subseteq Rank
    BY DEF Counted
  <1> QED
    BY <1>1, <1>2, FS_Subset, FS_CardinalityType

LEMMA CountNext == IInv /\ OutcomeInv /\ CountInv /\ [Next]_vars => CountInv'
  <1> SUFFICES ASSUME IInv, OutcomeInv, CountInv, [Next]_vars
               PROVE  CountInv'
    OBVIOUS
  <1> DEFINE Same == UNCHANGED <<success_count, Counted>>
  <1>a. TypeOK /\ ResultInv /\ ClaimIsOpen /\ ClaimsDiffer
    BY DEF IInv, EveryClaimAccounted
  <1> USE <1>a DEF TypeOK, InFlight, InFlightLabels, ResultInv, Attempted, OutcomeInv, Counted, CountedLabels, Goto, locals
  <1>1. ASSUME NEW w \in Workers, Check(w) PROVE Same
    BY <1>1 DEF Check
  <1>2. ASSUME NEW w \in Workers, AdmitPaused(w) PROVE Same
    BY <1>2 DEF AdmitPaused
  <1>3. ASSUME NEW w \in Workers, AdmitLimit(w) PROVE Same
    BY <1>3 DEF AdmitLimit
  <1>4. ASSUME NEW w \in Workers, AdmitCas(w) PROVE Same
    BY <1>4 DEF AdmitCas
  <1>5. ASSUME NEW w \in Workers, LockAda(w) PROVE Same
    BY <1>5 DEF LockAda
  <1>6. ASSUME NEW w \in Workers, Attempt(w) PROVE Same
    BY <1>6 DEF Attempt
  <1>7. ASSUME NEW w \in Workers, ReadCap(w) PROVE Same
    BY <1>7 DEF ReadCap
  <1>8. ASSUME NEW w \in Workers, StopAtCap(w) PROVE Same
    BY <1>8 DEF StopAtCap
  <1>9. ASSUME NEW w \in Workers, WorkerFinish(w) PROVE Same
    BY <1>9 DEF WorkerFinish
  <1>10. ASSUME NEW w \in Workers, Persist(w) PROVE Same
    BY <1>10 DEF Persist
  <1>11. ASSUME NEW w \in Workers, CheckpointDependencies(w) PROVE Same
    BY <1>11 DEF CheckpointDependencies
  <1>12. ASSUME NEW w \in Workers, CheckpointBudget(w) PROVE Same
    BY <1>12 DEF CheckpointBudget
  <1>13. ASSUME NEW w \in Workers, StopOnError(w) PROVE Same
    BY <1>13 DEF StopOnError
  <1>14. ASSUME NEW k \in AllKeys, Press(k) PROVE Same
    BY <1>14 DEF Press
  <1>15. ASSUME DeadlinePasses PROVE Same
    BY <1>15 DEF DeadlinePasses
  <1>16. ASSUME Collect PROVE Same
    BY <1>16 DEF Collect
  <1>17. ASSUME UNCHANGED vars PROVE Same
    BY <1>17 DEF vars
  <1>29. ASSUME NEW w \in Workers, Claim(w) PROVE Same
    BY <1>29 DEF Claim
  <1>30. ASSUME NEW w \in Workers, CountSuccess(w) PROVE CountInv'
    <2>1. pc[w] = "count" /\ pc' = [pc EXCEPT ![w] = "cap"] /\ UNCHANGED <<idx, slots, outcome>>
          /\ success_count' = success_count + 1
      BY <1>30 DEF CountSuccess
    <2>2. idx[w] \in Rank /\ outcome[idx[w]] = "fuzzed" /\ slots[idx[w]] = "none"
      BY <2>1 DEF ClaimIsOpen
    <2>3. \A v \in Workers : idx[v] = idx[w] /\ v # w => pc[v] \notin CountedLabels
      BY <2>1 DEF ClaimsDiffer
    <2>4. Counted' = Counted \cup {idx[w]} /\ idx[w] \notin Counted
      BY <2>1, <2>2, <2>3
    <2> HIDE DEF Counted
    <2>5. Cardinality(Counted') = Cardinality(Counted) + 1
      BY <2>4, CountedFinite, FS_AddElement
    <2> QED
      BY CountAssumption, <2>1, <2>5, CountedFinite DEF CountInv
  <1>31. ASSUME NEW w \in Workers, HandBack(w) PROVE Same
    <2>1. pc[w] = "slot" /\ pc' = [pc EXCEPT ![w] = "top"] /\ UNCHANGED <<success_count, outcome>>
          /\ slots' = [slots EXCEPT ![idx[w]] = result[w]] /\ idx' = [idx EXCEPT ![w] = N]
      BY <1>31 DEF HandBack
    <2>2. idx[w] \in Rank /\ result[w] # "none"
      BY <2>1
    <2>3. ASSUME NEW i \in Rank, outcome[i] = "fuzzed"
          PROVE  i \in Counted' <=> i \in Counted
      <3>1. CASE i = idx[w]
        BY <2>1, <2>2, <2>3, <3>1
      <3>2. CASE i # idx[w]
        BY <2>1, <2>2, <2>3, <3>2
      <3> QED
        BY <3>1, <3>2
    <2> QED
      BY <2>1, <2>3
  <1>32. Same => CountInv'
    BY CountAssumption DEF CountInv
  <1> HIDE DEF Same
  <1> QED
    BY <1>1, <1>2, <1>3, <1>4, <1>5, <1>6, <1>7, <1>8, <1>9, <1>10, <1>11, <1>12, <1>13, <1>14, <1>15, <1>16, <1>17, <1>29, <1>30, <1>31, <1>32 DEF Next, Worker, Finished

(* RunStatus.adjust_cap lowers the cap, but not below what has fuzzed. *)
LEMMA Lowered ==
  ASSUME NEW c \in Nat, NEW f \in Nat
  PROVE  /\ adjusted_cap(c, f, -1) \in Nat
         /\ adjusted_cap(c, f, -1) <= Larger(c - 1, Larger(f, 1))
  <1> DEFINE step == Larger(c \div 10, 1)
  <1>1. step \in Nat /\ step >= 1
    BY DEF Larger
  <1>2. adjusted_cap(c, f, -1) = Larger(Larger(c + (-1) * step, 1), Larger(f, 1))
    BY DEF adjusted_cap, NoCap
  <1> HIDE DEF step
  <1>3. c + (-1) * step = c - step
    BY <1>1
  <1> QED
    BY <1>1, <1>2, <1>3 DEF Larger

(* A reached cap stays reached. *)
LEMMA CapHitStays ==
  ASSUME IInv, LateInv, [Next]_vars, CapHit, "]" \notin Keys
  PROVE  CapHit'
  <1>a. TypeOK /\ cap \in Nat /\ success_count \in Nat /\ fuzzed \in Nat
    BY DEF IInv, TypeOK, CapHit, CapReached
  <1> DEFINE Same == cap' = cap /\ success_count' \in Nat /\ success_count' >= success_count
  <1> USE <1>a
  <1>1. ASSUME NEW w \in Workers, Check(w) PROVE Same
    BY <1>1 DEF Check, controls
  <1>2. ASSUME NEW w \in Workers, AdmitPaused(w) PROVE Same
    BY <1>2 DEF AdmitPaused, controls
  <1>3. ASSUME NEW w \in Workers, AdmitLimit(w) PROVE Same
    BY <1>3 DEF AdmitLimit, controls
  <1>4. ASSUME NEW w \in Workers, AdmitCas(w) PROVE Same
    BY <1>4 DEF AdmitCas, controls
  <1>5. ASSUME NEW w \in Workers, Claim(w) PROVE Same
    BY <1>5 DEF Claim, controls
  <1>6. ASSUME NEW w \in Workers, LockAda(w) PROVE Same
    BY <1>6 DEF LockAda, controls
  <1>7. ASSUME NEW w \in Workers, Attempt(w) PROVE Same
    BY <1>7 DEF Attempt, controls
  <1>8. ASSUME NEW w \in Workers, CountSuccess(w) PROVE Same
    BY <1>8 DEF CountSuccess, controls
  <1>9. ASSUME NEW w \in Workers, ReadCap(w) PROVE Same
    BY <1>9 DEF ReadCap, controls
  <1>10. ASSUME NEW w \in Workers, StopAtCap(w) PROVE Same
    BY <1>10 DEF StopAtCap, controls
  <1>11. ASSUME NEW w \in Workers, WorkerFinish(w) PROVE Same
    BY <1>11 DEF WorkerFinish, controls
  <1>12. ASSUME NEW w \in Workers, Persist(w) PROVE Same
    BY <1>12 DEF Persist, controls
  <1>13. ASSUME NEW w \in Workers, CheckpointDependencies(w) PROVE Same
    BY <1>13 DEF CheckpointDependencies, controls
  <1>14. ASSUME NEW w \in Workers, CheckpointBudget(w) PROVE Same
    BY <1>14 DEF CheckpointBudget, controls
  <1>15. ASSUME NEW w \in Workers, StopOnError(w) PROVE Same
    BY <1>15 DEF StopOnError, controls
  <1>16. ASSUME NEW w \in Workers, HandBack(w) PROVE Same
    BY <1>16 DEF HandBack, controls
  <1>17. ASSUME DeadlinePasses PROVE Same
    BY <1>17 DEF DeadlinePasses, controls
  <1>18. ASSUME Collect PROVE Same
    BY <1>18 DEF Collect, controls
  <1>19. ASSUME UNCHANGED vars PROVE Same
    BY <1>19 DEF vars, controls
  <1>30. ASSUME NEW k \in AllKeys, Press(k), k # "["  PROVE Same
    <2>1. k # "]" /\ success_count' = success_count
      BY <1>30, Zenon DEF Press
    <2>2. cap' = cap
      BY <1>30, <2>1, Zenon DEF Press
    <2> QED
      BY <2>1, <2>2
  <1>31. ASSUME Press("[") PROVE CapHit'
    <2>1. cap' = adjusted_cap(cap, fuzzed, -1) /\ success_count' = success_count
      BY <1>31 DEF Press
    <2>2. fuzzed <= success_count
      <3>1. Late \in SUBSET Workers
        BY DEF Late
      <3> QED
        BY <3>1, SubsetsFinite DEF LateInv
    <2>3. cap' \in Nat /\ cap' <= Larger(cap - 1, Larger(fuzzed, 1))
      BY <2>1, Lowered
    <2>4. success_count >= 1 /\ success_count >= cap
      BY DEF CapHit, CapReached
    <2>5. success_count' >= cap'
      BY <2>1, <2>2, <2>3, <2>4 DEF Larger
    <2> QED
      BY <2>1, <2>3, <2>4, <2>5 DEF CapHit, CapReached, NoCap
  <1>32. Same => CapHit'
    BY DEF CapHit, CapReached, NoCap
  <1> HIDE DEF Same
  <1> QED
    BY <1>1, <1>2, <1>3, <1>4, <1>5, <1>6, <1>7, <1>8, <1>9, <1>10, <1>11, <1>12, <1>13, <1>14, <1>15, <1>16, <1>17, <1>18, <1>19, <1>30, <1>31, <1>32 DEF Next, Worker, Finished

(* An error on its way to its slot is not lost. *)
LEMMA ErrorStays ==
  ASSUME IInv, [Next]_vars, SomeError
  PROVE  SomeError'
  <1>a. TypeOK /\ ResultInv /\ ClaimIsOpen
    BY DEF IInv, EveryClaimAccounted
  <1>1. ASSUME NEW i \in Rank, slots[i] = "err"
        PROVE  SomeError'
    <2>1. slots'[i] = "err"
      BY <1>a, <1>1, QuietSteps
      DEF Quiet, Claim, HandBack, ClaimIsOpen, TypeOK, InFlight, InFlightLabels
    <2> QED
      BY <2>1 DEF SomeError
  <1>2. ASSUME NEW v \in Workers, pc[v] \in {"fail", "slot"}, result[v] = "err"
        PROVE  SomeError'
    <2> DEFINE Kept == pc'[v] \in {"fail", "slot"} /\ result'[v] = "err"
    <2> USE <1>a, <1>2 DEF TypeOK, Goto, locals
    <2>1. ASSUME NEW w \in Workers, Check(w) PROVE Kept
      BY <2>1 DEF Check
    <2>2. ASSUME NEW w \in Workers, AdmitPaused(w) PROVE Kept
      BY <2>2 DEF AdmitPaused
    <2>3. ASSUME NEW w \in Workers, AdmitLimit(w) PROVE Kept
      BY <2>3 DEF AdmitLimit
    <2>4. ASSUME NEW w \in Workers, AdmitCas(w) PROVE Kept
      BY <2>4 DEF AdmitCas
    <2>5. ASSUME NEW w \in Workers, Claim(w) PROVE Kept
      BY <2>5 DEF Claim
    <2>6. ASSUME NEW w \in Workers, LockAda(w) PROVE Kept
      BY <2>6 DEF LockAda
    <2>7. ASSUME NEW w \in Workers, Attempt(w) PROVE Kept
      BY <2>7 DEF Attempt
    <2>8. ASSUME NEW w \in Workers, CountSuccess(w) PROVE Kept
      BY <2>8 DEF CountSuccess
    <2>9. ASSUME NEW w \in Workers, ReadCap(w) PROVE Kept
      BY <2>9 DEF ReadCap
    <2>10. ASSUME NEW w \in Workers, StopAtCap(w) PROVE Kept
      BY <2>10 DEF StopAtCap
    <2>11. ASSUME NEW w \in Workers, WorkerFinish(w) PROVE Kept
      BY <2>11 DEF WorkerFinish
    <2>12. ASSUME NEW w \in Workers, Persist(w) PROVE Kept
      BY <2>12 DEF Persist
    <2>13. ASSUME NEW w \in Workers, CheckpointDependencies(w) PROVE Kept
      BY <2>13 DEF CheckpointDependencies
    <2>14. ASSUME NEW w \in Workers, CheckpointBudget(w) PROVE Kept
      BY <2>14 DEF CheckpointBudget
    <2>15. ASSUME NEW w \in Workers, StopOnError(w) PROVE Kept
      BY <2>15 DEF StopOnError
    <2>16. ASSUME NEW k \in AllKeys, Press(k) PROVE Kept
      BY <2>16 DEF Press
    <2>17. ASSUME DeadlinePasses PROVE Kept
      BY <2>17 DEF DeadlinePasses
    <2>18. ASSUME Collect PROVE Kept
      BY <2>18 DEF Collect
    <2>19. ASSUME UNCHANGED vars PROVE Kept
      BY <2>19 DEF vars
    <2>30. ASSUME NEW w \in Workers, HandBack(w) PROVE Kept \/ SomeError'
      <3>1. CASE w = v
        <4>1. idx[v] \in Rank /\ slots'[idx[v]] = "err"
          BY <2>30, <3>1 DEF HandBack, InFlight, InFlightLabels
        <4> QED
          BY <4>1 DEF SomeError
      <3>2. CASE w # v
        BY <2>30, <3>2 DEF HandBack
      <3> QED
        BY <3>1, <3>2
    <2>31. Kept => SomeError'
      BY DEF SomeError
    <2> HIDE DEF Kept
    <2> QED
      BY <2>1, <2>2, <2>3, <2>4, <2>5, <2>6, <2>7, <2>8, <2>9, <2>10, <2>11, <2>12, <2>13, <2>14, <2>15, <2>16, <2>17, <2>18, <2>19, <2>30, <2>31 DEF Next, Worker, Finished
  <1> QED
    BY <1>1, <1>2 DEF SomeError

LEMMA ReasonStays ==
  ASSUME IInv, LateInv, [Next]_vars, StopReason, "]" \notin Keys
  PROVE  StopReason'
  <1> DEFINE Kept == (exhausted => exhausted') /\ (expired => expired')
  <1>a. TypeOK
    BY DEF IInv
  <1> USE <1>a DEF TypeOK
  <1>1. ASSUME NEW w \in Workers, Check(w) PROVE Kept
    BY <1>1 DEF Check
  <1>2. ASSUME NEW w \in Workers, AdmitPaused(w) PROVE Kept
    BY <1>2 DEF AdmitPaused
  <1>3. ASSUME NEW w \in Workers, AdmitLimit(w) PROVE Kept
    BY <1>3 DEF AdmitLimit
  <1>4. ASSUME NEW w \in Workers, AdmitCas(w) PROVE Kept
    BY <1>4 DEF AdmitCas
  <1>5. ASSUME NEW w \in Workers, Claim(w) PROVE Kept
    BY <1>5 DEF Claim
  <1>6. ASSUME NEW w \in Workers, LockAda(w) PROVE Kept
    BY <1>6 DEF LockAda
  <1>7. ASSUME NEW w \in Workers, Attempt(w) PROVE Kept
    BY <1>7 DEF Attempt
  <1>8. ASSUME NEW w \in Workers, CountSuccess(w) PROVE Kept
    BY <1>8 DEF CountSuccess
  <1>9. ASSUME NEW w \in Workers, ReadCap(w) PROVE Kept
    BY <1>9 DEF ReadCap
  <1>10. ASSUME NEW w \in Workers, StopAtCap(w) PROVE Kept
    BY <1>10 DEF StopAtCap
  <1>11. ASSUME NEW w \in Workers, WorkerFinish(w) PROVE Kept
    BY <1>11 DEF WorkerFinish
  <1>12. ASSUME NEW w \in Workers, Persist(w) PROVE Kept
    BY <1>12 DEF Persist
  <1>13. ASSUME NEW w \in Workers, CheckpointDependencies(w) PROVE Kept
    BY <1>13 DEF CheckpointDependencies
  <1>14. ASSUME NEW w \in Workers, CheckpointBudget(w) PROVE Kept
    BY <1>14 DEF CheckpointBudget
  <1>15. ASSUME NEW w \in Workers, StopOnError(w) PROVE Kept
    BY <1>15 DEF StopOnError
  <1>16. ASSUME NEW w \in Workers, HandBack(w) PROVE Kept
    BY <1>16 DEF HandBack
  <1>17. ASSUME NEW k \in AllKeys, Press(k) PROVE Kept
    BY <1>17 DEF Press
  <1>18. ASSUME DeadlinePasses PROVE Kept
    BY <1>18 DEF DeadlinePasses
  <1>19. ASSUME Collect PROVE Kept
    BY <1>19 DEF Collect
  <1>20. ASSUME UNCHANGED vars PROVE Kept
    BY <1>20 DEF vars
  <1>30. Kept
    <2> HIDE DEF Kept
    <2> QED
      BY <1>1, <1>2, <1>3, <1>4, <1>5, <1>6, <1>7, <1>8, <1>9, <1>10, <1>11, <1>12, <1>13, <1>14, <1>15, <1>16, <1>17, <1>18, <1>19, <1>20 DEF Next, Worker, Finished
  <1> QED
    BY <1>30, ErrorStays, CapHitStays DEF StopReason

LEMMA ReasonNext ==
  IInv /\ OutcomeInv /\ LateInv /\ ReasonInv /\ [Next]_vars => ReasonInv'
  <1> SUFFICES ASSUME IInv, OutcomeInv, LateInv, ReasonInv, [Next]_vars, "]" \notin Keys
               PROVE  ReasonInv'
    BY DEF ReasonInv
  <1>a. TypeOK /\ ResultInv /\ TypeOK'
    BY IInvNext DEF IInv
  <1> DEFINE StopStep ==
        stopped' => \/ stopped \/ exhausted' \/ expired'
                    \/ \E w \in Workers :
                         \/ pc[w] = "stop"
                         \/ pc'[w] = "slot" /\ result'[w] = "err"
  <1> DEFINE CapStep ==
        \A v \in Workers :
          pc'[v] = "stop" => \/ pc[v] = "stop"
                             \/ /\ pc[v] = "cap" /\ cap # NoCap /\ mine[v] >= cap
                                /\ UNCHANGED <<cap, success_count>>
  <1> DEFINE DoneStep ==
        /\ \A v \in Workers :
             pc'[v] = "done" => pc[v] = "done" \/ cursor' >= N \/ quit' \/ stopped'
        /\ quit => quit'
        /\ cursor' >= cursor
  <1> DEFINE Facts == StopStep /\ CapStep /\ DoneStep
  <1> USE <1>a, NAssumption DEF TypeOK, Goto, locals, controls, ResultInv
  <1>1. ASSUME NEW w \in Workers, Check(w) PROVE Facts
    BY <1>1 DEF Check
  <1>2. ASSUME NEW w \in Workers, AdmitPaused(w) PROVE Facts
    BY <1>2 DEF AdmitPaused
  <1>3. ASSUME NEW w \in Workers, AdmitLimit(w) PROVE Facts
    BY <1>3 DEF AdmitLimit
  <1>4. ASSUME NEW w \in Workers, AdmitCas(w) PROVE Facts
    BY <1>4 DEF AdmitCas
  <1>5. ASSUME NEW w \in Workers, Claim(w) PROVE Facts
    BY <1>5 DEF Claim
  <1>6. ASSUME NEW w \in Workers, LockAda(w) PROVE Facts
    BY <1>6 DEF LockAda
  <1>7. ASSUME NEW w \in Workers, Attempt(w) PROVE Facts
    BY <1>7 DEF Attempt
  <1>8. ASSUME NEW w \in Workers, CountSuccess(w) PROVE Facts
    BY <1>8 DEF CountSuccess
  <1>9. ASSUME NEW w \in Workers, ReadCap(w) PROVE Facts
    BY <1>9 DEF ReadCap
  <1>10. ASSUME NEW w \in Workers, StopAtCap(w) PROVE Facts
    BY <1>10 DEF StopAtCap
  <1>11. ASSUME NEW w \in Workers, WorkerFinish(w) PROVE Facts
    BY <1>11 DEF WorkerFinish
  <1>12. ASSUME NEW w \in Workers, Persist(w) PROVE Facts
    BY <1>12 DEF Persist
  <1>13. ASSUME NEW w \in Workers, CheckpointDependencies(w) PROVE Facts
    BY <1>13 DEF CheckpointDependencies
  <1>14. ASSUME NEW w \in Workers, CheckpointBudget(w) PROVE Facts
    BY <1>14 DEF CheckpointBudget
  <1>15. ASSUME NEW w \in Workers, StopOnError(w) PROVE Facts
    BY <1>15 DEF StopOnError
  <1>16. ASSUME NEW w \in Workers, HandBack(w) PROVE Facts
    BY <1>16 DEF HandBack
  <1>17. ASSUME NEW k \in AllKeys, Press(k) PROVE Facts
    BY <1>17 DEF Press
  <1>18. ASSUME DeadlinePasses PROVE Facts
    BY <1>18 DEF DeadlinePasses
  <1>19. ASSUME Collect PROVE Facts
    BY <1>19 DEF Collect
  <1>20. ASSUME UNCHANGED vars PROVE Facts
    BY <1>20 DEF vars
  <1>30. Facts
    <2> HIDE DEF Facts
    <2> QED
      BY <1>1, <1>2, <1>3, <1>4, <1>5, <1>6, <1>7, <1>8, <1>9, <1>10, <1>11, <1>12, <1>13, <1>14, <1>15, <1>16, <1>17, <1>18, <1>19, <1>20 DEF Next, Worker, Finished
  <1>31. (\E w \in Workers : pc[w] = "stop") => CapHit'
    BY CapHitStays DEF ReasonInv
  <1>32. stopped' => StopReason'
    BY <1>30, <1>31, ReasonStays DEF ReasonInv, StopReason, SomeError
  <1>33. ASSUME NEW v \in Workers, pc'[v] = "stop"
         PROVE  CapHit'
    <2>1. CASE pc[v] = "stop"
      BY <1>31, <2>1
    <2>2. CASE pc[v] # "stop"
      <3>1. /\ pc[v] = "cap" /\ cap # NoCap /\ mine[v] >= cap
            /\ UNCHANGED <<cap, success_count>>
        BY <1>30, <1>33, <2>2
      <3>2. mine[v] \in 1 .. success_count
        BY <3>1 DEF OutcomeInv
      <3> QED
        BY <3>1, <3>2 DEF CapHit, CapReached, NoCap
    <2> QED
      BY <2>1, <2>2
  <1>34. ASSUME NEW v \in Workers, pc'[v] = "done"
         PROVE  cursor' >= N \/ quit' \/ StopReason'
    <2>1. \/ pc[v] = "done" \/ cursor' >= N \/ quit' \/ stopped'
      BY <1>30, <1>34
    <2>2. ASSUME pc[v] = "done" PROVE cursor' >= N \/ quit' \/ StopReason'
      <3>1. cursor >= N \/ quit \/ StopReason
        BY <2>2 DEF ReasonInv
      <3> QED
        BY <1>30, <3>1, ReasonStays
    <2> QED
      BY <1>32, <2>1, <2>2
  <1> QED
    BY <1>32, <1>33, <1>34 DEF ReasonInv

(* The cap moves with the key only. *)
LEMMA CapSteps ==
  ASSUME TypeOK, [Next]_vars, "]" \notin Keys
  PROVE  cap' = cap \/ Press("[")
  <1> DEFINE Same == cap' = cap
  <1>1. ASSUME NEW w \in Workers, Check(w) PROVE Same
    BY <1>1 DEF Check, controls
  <1>2. ASSUME NEW w \in Workers, AdmitPaused(w) PROVE Same
    BY <1>2 DEF AdmitPaused, controls
  <1>3. ASSUME NEW w \in Workers, AdmitLimit(w) PROVE Same
    BY <1>3 DEF AdmitLimit, controls
  <1>4. ASSUME NEW w \in Workers, AdmitCas(w) PROVE Same
    BY <1>4 DEF AdmitCas, controls
  <1>5. ASSUME NEW w \in Workers, Claim(w) PROVE Same
    BY <1>5 DEF Claim, controls
  <1>6. ASSUME NEW w \in Workers, LockAda(w) PROVE Same
    BY <1>6 DEF LockAda, controls
  <1>7. ASSUME NEW w \in Workers, Attempt(w) PROVE Same
    BY <1>7 DEF Attempt, controls
  <1>8. ASSUME NEW w \in Workers, CountSuccess(w) PROVE Same
    BY <1>8 DEF CountSuccess, controls
  <1>9. ASSUME NEW w \in Workers, ReadCap(w) PROVE Same
    BY <1>9 DEF ReadCap, controls
  <1>10. ASSUME NEW w \in Workers, StopAtCap(w) PROVE Same
    BY <1>10 DEF StopAtCap, controls
  <1>11. ASSUME NEW w \in Workers, WorkerFinish(w) PROVE Same
    BY <1>11 DEF WorkerFinish, controls
  <1>12. ASSUME NEW w \in Workers, Persist(w) PROVE Same
    BY <1>12 DEF Persist, controls
  <1>13. ASSUME NEW w \in Workers, CheckpointDependencies(w) PROVE Same
    BY <1>13 DEF CheckpointDependencies, controls
  <1>14. ASSUME NEW w \in Workers, CheckpointBudget(w) PROVE Same
    BY <1>14 DEF CheckpointBudget, controls
  <1>15. ASSUME NEW w \in Workers, StopOnError(w) PROVE Same
    BY <1>15 DEF StopOnError, controls
  <1>16. ASSUME NEW w \in Workers, HandBack(w) PROVE Same
    BY <1>16 DEF HandBack, controls
  <1>17. ASSUME DeadlinePasses PROVE Same
    BY <1>17 DEF DeadlinePasses, controls
  <1>18. ASSUME Collect PROVE Same
    BY <1>18 DEF Collect, controls
  <1>19. ASSUME UNCHANGED vars PROVE Same
    BY <1>19 DEF vars, controls
  <1>30. ASSUME NEW k \in AllKeys, Press(k), k # "["  PROVE Same
    <2>1. k # "]"
      BY <1>30, Zenon DEF Press
    <2> QED
      BY <1>30, <2>1, Zenon DEF Press
  <1> HIDE DEF Same
  <1>31. Same \/ Press("[")
    BY <1>1, <1>2, <1>3, <1>4, <1>5, <1>6, <1>7, <1>8, <1>9, <1>10, <1>11, <1>12, <1>13, <1>14, <1>15, <1>16, <1>17, <1>18, <1>19, <1>30 DEF Next, Worker, Finished
  <1> QED
    BY <1>31 DEF Same

LEMMA PoolNext ==
  IInv /\ OutcomeInv /\ LateInv /\ PoolInv /\ [Next]_vars => PoolInv'
  <1> SUFFICES ASSUME IInv, OutcomeInv, LateInv, PoolInv, [Next]_vars,
                      "]" \notin Keys, Seed < Cap0
               PROVE  PoolInv'
    BY DEF PoolInv
  <1>a. TypeOK /\ TypeOK'
    BY IInvNext DEF IInv
  <1>b. Cap0 \in Nat /\ Cap0 >= 1 /\ cap \in Nat /\ success_count \in Nat /\ fuzzed \in Nat
    BY <1>a, CountAssumption DEF TypeOK, PoolInv, NoCap
  <1>c. /\ Active \in SUBSET Workers /\ Active' \in SUBSET Workers
        /\ Pending \in SUBSET Workers /\ Pending' \in SUBSET Workers
        /\ Late \in SUBSET Workers
    BY DEF Active, Pending, Late
  <1>d. /\ Cardinality(Active) \in Nat /\ Cardinality(Active') \in Nat
        /\ Cardinality(Pending) \in Nat /\ Cardinality(Pending') \in Nat
        /\ Cardinality(Late) \in Nat /\ Cardinality(Workers) \in Nat
    BY <1>c, SubsetsFinite
  <1>e. Cardinality(Active) + Cardinality(Pending) <= Cardinality(Workers)
    <2>1. Active \cap Pending = {} /\ Active \cup Pending \in SUBSET Workers
      BY DEF Active, ActiveLabels, Pending
    <2>2. IsFiniteSet(Active) /\ IsFiniteSet(Pending)
      BY <1>c, SubsetsFinite
    <2>3. Cardinality(Active \cup Pending)
            = Cardinality(Active) + Cardinality(Pending) - Cardinality(Active \cap Pending)
      BY <2>2, FS_Union
    <2>4. Cardinality(Active \cup Pending) <= Cardinality(Workers)
      BY <2>1, SubsetsFinite
    <2>5. Cardinality(Active \cap Pending) = 0
      BY <2>1, FS_EmptySet, Zenon
    <2> QED
      BY <1>d, <2>3, <2>4, <2>5
  <1>f. ~stopped => fuzzed < Cap0
    <2> SUFFICES ASSUME ~stopped PROVE fuzzed < Cap0
      OBVIOUS
    <2>1. Pending \subseteq Late
      BY DEF Pending, Late, OutcomeInv
    <2>2. Cardinality(Pending) <= Cardinality(Late)
      BY <1>c, <2>1, SubsetsFinite, FS_Subset
    <2>3. success_count < Cap0 + Cardinality(Pending)
      BY DEF PoolInv
    <2> QED
      BY <1>b, <1>d, <2>2, <2>3 DEF LateInv
  <1> DEFINE Facts ==
        /\ success_count' = success_count
        /\ stopped => stopped'
        /\ stopped' => Active' \subseteq Active
        /\ ~stopped' /\ cap <= Cap0 => Pending \subseteq Pending'
  <1> USE <1>a, <1>b DEF TypeOK, Goto, locals, Active, ActiveLabels, Pending, NoCap
  <1>1. ASSUME NEW w \in Workers, Check(w) PROVE Facts
    BY <1>1 DEF Check
  <1>2. ASSUME NEW w \in Workers, AdmitPaused(w) PROVE Facts
    BY <1>2 DEF AdmitPaused
  <1>3. ASSUME NEW w \in Workers, AdmitLimit(w) PROVE Facts
    BY <1>3 DEF AdmitLimit
  <1>4. ASSUME NEW w \in Workers, AdmitCas(w) PROVE Facts
    BY <1>4 DEF AdmitCas
  <1>5. ASSUME NEW w \in Workers, Claim(w) PROVE Facts
    BY <1>5 DEF Claim
  <1>6. ASSUME NEW w \in Workers, LockAda(w) PROVE Facts
    BY <1>6 DEF LockAda
  <1>7. ASSUME NEW w \in Workers, Attempt(w) PROVE Facts
    BY <1>7 DEF Attempt
  <1>8. ASSUME NEW w \in Workers, ReadCap(w) PROVE Facts
    BY <1>8 DEF ReadCap
  <1>9. ASSUME NEW w \in Workers, StopAtCap(w) PROVE Facts
    BY <1>9 DEF StopAtCap
  <1>10. ASSUME NEW w \in Workers, WorkerFinish(w) PROVE Facts
    BY <1>10 DEF WorkerFinish
  <1>11. ASSUME NEW w \in Workers, Persist(w) PROVE Facts
    BY <1>11 DEF Persist
  <1>12. ASSUME NEW w \in Workers, CheckpointDependencies(w) PROVE Facts
    BY <1>12 DEF CheckpointDependencies
  <1>13. ASSUME NEW w \in Workers, CheckpointBudget(w) PROVE Facts
    BY <1>13 DEF CheckpointBudget
  <1>14. ASSUME NEW w \in Workers, StopOnError(w) PROVE Facts
    BY <1>14 DEF StopOnError
  <1>15. ASSUME NEW w \in Workers, HandBack(w) PROVE Facts
    BY <1>15 DEF HandBack
  <1>16. ASSUME NEW k \in AllKeys, Press(k) PROVE Facts
    BY <1>16 DEF Press
  <1>17. ASSUME DeadlinePasses PROVE Facts
    BY <1>17 DEF DeadlinePasses
  <1>18. ASSUME Collect PROVE Facts
    BY <1>18 DEF Collect
  <1>19. ASSUME UNCHANGED vars PROVE Facts
    BY <1>19 DEF vars
  <1> HIDE DEF Active, Pending
  <1>30. (\E w \in Workers : CountSuccess(w)) \/ Facts
    <2> HIDE DEF Facts
    <2> QED
      BY <1>1, <1>2, <1>3, <1>4, <1>5, <1>6, <1>7, <1>8, <1>9, <1>10, <1>11, <1>12, <1>13, <1>14, <1>15, <1>16, <1>17, <1>18, <1>19 DEF Next, Worker, Finished
  <1>31. cap' # NoCap /\ (~stopped => (cap <= Cap0 /\ cap' <= Cap0)) /\ cap' \in Nat
    <2>1. ~stopped => cap <= Cap0
      BY DEF PoolInv
    <2>2. ASSUME Press("[") PROVE cap' # NoCap /\ (~stopped => cap' <= Cap0) /\ cap' \in Nat
      <3>1. cap' = adjusted_cap(cap, fuzzed, -1)
        BY <2>2 DEF Press
      <3>2. cap' \in Nat /\ cap' <= Larger(cap - 1, Larger(fuzzed, 1))
        BY <3>1, Lowered
      <3>3. cap <= Cap0 /\ fuzzed < Cap0 => cap' <= Cap0
        BY <3>2 DEF Larger
      <3> QED
        BY <2>1, <3>2, <3>3, <1>f
    <2> QED
      BY <2>1, <2>2, CapSteps
  <1>32. ASSUME Facts PROVE PoolInv'
    <2>1. CASE stopped'
      <3>1. Cardinality(Active') <= Cardinality(Active)
        BY <1>32, <1>c, <2>1, SubsetsFinite, FS_Subset
      <3>2. success_count + Cardinality(Active) < Cap0 + Cardinality(Workers)
        BY <1>d, <1>e DEF PoolInv
      <3> QED
        BY <1>31, <1>32, <1>d, <2>1, <3>1, <3>2 DEF PoolInv
    <2>2. CASE ~stopped'
      <3>1. Cardinality(Pending) <= Cardinality(Pending')
        BY <1>31, <1>32, <1>c, <2>2, SubsetsFinite, FS_Subset
      <3> QED
        BY <1>31, <1>32, <1>d, <2>2, <3>1 DEF PoolInv
    <2> QED
      BY <2>1, <2>2
  <1>33. ASSUME NEW w \in Workers, CountSuccess(w) PROVE PoolInv'
    <2>1. /\ pc[w] = "count" /\ pc' = [pc EXCEPT ![w] = "cap"]
          /\ mine' = [mine EXCEPT ![w] = success_count + 1]
          /\ success_count' = success_count + 1 /\ stopped' = stopped
      BY <1>33 DEF CountSuccess
    <2>2. CASE stopped
      <3>1. Active' = Active \ {w} /\ w \in Active
        BY <2>1 DEF Active
      <3>2. Cardinality(Active') = Cardinality(Active) - 1
        BY <1>c, <3>1, SubsetsFinite, FS_RemoveElement
      <3> QED
        BY <1>31, <1>d, <2>1, <2>2, <3>2 DEF PoolInv
    <2>3. CASE ~stopped /\ success_count + 1 < Cap0
      BY <1>31, <1>d, <2>1, <2>3 DEF PoolInv
    <2>4. CASE ~stopped /\ success_count + 1 >= Cap0
      <3>1. Pending' = Pending \cup {w} /\ w \notin Pending
        BY <2>1, <2>4 DEF Pending
      <3>2. Cardinality(Pending') = Cardinality(Pending) + 1
        BY <1>c, <3>1, SubsetsFinite, FS_AddElement
      <3> QED
        BY <1>31, <1>d, <2>1, <2>4, <3>2 DEF PoolInv
    <2> QED
      BY <2>2, <2>3, <2>4
  <1> QED
    BY <1>30, <1>32, <1>33

LEMMA OkNext == RefineInv /\ OkInv /\ [Next]_vars => OkInv'
  <1> SUFFICES ASSUME RefineInv, OkInv, [Next]_vars, returned' = "ok"
               PROVE  \A i \in Rank : slots'[i] # "err"
    BY DEF OkInv
  <1>1. TypeOK /\ ReturnInv
    BY DEF RefineInv, IInv
  <1>2. CASE Collect
    BY <1>2 DEF Collect
  <1>3. CASE returned = "ok"
    <2>1. \A w \in Workers : pc[w] = "done"
      BY <1>1, <1>3 DEF ReturnInv, AllDone
    <2>2. slots' = slots
      BY <1>1, <2>1, QuietSteps DEF Quiet, Claim, HandBack
    <2> QED
      BY <1>3, <2>2 DEF OkInv
  <1> QED
    BY <1>2, <1>3, FrameSteps DEF Framed, CheckpointDependencies

-----------------------------------------------------------------------------
(* The invariant, and what follows from it. *)

CapInv ==
  /\ RefineInv
  /\ OutcomeInv
  /\ LateInv
  /\ CountInv
  /\ ReasonInv
  /\ PoolInv
  /\ OkInv

LEMMA CapInvInit == Init => CapInv
  <1> SUFFICES ASSUME Init PROVE CapInv
    OBVIOUS
  <1> USE NAssumption, CountAssumption
  <1>1. IInv
    BY IInvInit
  <1>2. \A w \in Workers : pc[w] = "top"
    BY DEF Init
  <1>3. RefineInv /\ OutcomeInv /\ OkInv
    BY <1>1, <1>2 DEF Init, RefineInv, ReturnInv, ManifestInv, OutcomeInv, OkInv, Attempted
  <1>4. LateInv
    <2>1. Late = {}
      BY <1>2 DEF Late
    <2>2. Cardinality(Late) = 0
      BY <2>1, FS_EmptySet, Zenon
    <2> QED
      BY <2>2 DEF Init, LateInv
  <1>5. CountInv
    <2>1. Counted = {}
      BY <1>2 DEF Init, Counted, CountedLabels
    <2>2. Cardinality(Counted) = 0
      BY <2>1, FS_EmptySet, Zenon
    <2> QED
      BY <2>2 DEF Init, CountInv
  <1>6. ReasonInv
    BY <1>2 DEF Init, ReasonInv
  <1>7. PoolInv
    <2>1. Pending \in SUBSET Workers
      BY DEF Pending
    <2>2. Cardinality(Pending) \in Nat
      BY <2>1, SubsetsFinite
    <2> QED
      BY <2>2 DEF Init, PoolInv, NoCap
  <1> QED
    BY <1>3, <1>4, <1>5, <1>6, <1>7 DEF CapInv

LEMMA CapInvAlways == Spec => []CapInv
  <1>1. CapInv /\ [Next]_vars => CapInv'
    <2> SUFFICES ASSUME CapInv, [Next]_vars PROVE CapInv'
      OBVIOUS
    <2>1. IInv
      BY DEF CapInv, RefineInv
    <2> QED
      BY <2>1, RefineNext, OutcomeNext, LateNext, CountNext, ReasonNext, PoolNext, OkNext
      DEF CapInv
  <1> QED
    BY <1>1, CapInvInit, PTL DEF Spec

LEMMA JustifiedFromInv == CapInv => StopIsJustified
  <1> SUFFICES ASSUME CapInv, AllDone, cursor < N, "]" \notin Keys
               PROVE  \/ quit \/ exhausted \/ expired \/ CapReached(success_count)
                      \/ \E i \in Rank : slots[i] = "err"
    BY DEF StopIsJustified
  <1>1. PICK w \in Workers : TRUE
    BY WorkersAssumption
  <1>2. cursor \in Nat
    BY DEF CapInv, RefineInv, IInv, TypeOK
  <1>3. cursor >= N \/ quit \/ StopReason
    BY <1>1 DEF CapInv, ReasonInv, AllDone
  <1> QED
    BY <1>2, <1>3, NAssumption DEF StopReason, SomeError, CapHit, AllDone

(* A pool of any size that ended before the last candidate was stopped by   *)
(* `q`, the output ceiling, the deadline, an error or the cap, and the      *)
(* reason still holds when it has ended: a cap lowered with `[` while       *)
(* workers are between their count and their stop cannot take it back.      *)
THEOREM SweepStopJustified == Spec => []StopIsJustified
  BY JustifiedFromInv, CapInvAlways, PTL

(* However the pool interleaves, and whenever the cap is lowered, fewer     *)
(* successes than one per worker land beyond the cap the sweep began with.  *)
THEOREM SweepOvershootBounded == Spec => []OvershootWithinPool
  <1>1. CapInv => OvershootWithinPool
    <2> SUFFICES ASSUME CapInv, Seed < Cap0, "]" \notin Keys
                 PROVE  success_count < Cap0 + Cardinality(Workers)
      BY DEF OvershootWithinPool
    <2>1. Active \in SUBSET Workers /\ Pending \in SUBSET Workers
      BY DEF Active, Pending
    <2>2. /\ Cardinality(Active) \in Nat /\ Cardinality(Pending) \in Nat
          /\ Cardinality(Pending) <= Cardinality(Workers) /\ Cardinality(Workers) \in Nat
      BY <2>1, SubsetsFinite
    <2>3. success_count \in Nat /\ Cap0 \in Int /\ stopped \in BOOLEAN
      BY CountAssumption DEF CapInv, RefineInv, IInv, TypeOK, NoCap
    <2>4. PoolInv
      BY DEF CapInv
    <2>5. CASE stopped
      BY <2>2, <2>3, <2>4, <2>5 DEF PoolInv
    <2>6. CASE ~stopped
      BY <2>2, <2>3, <2>4, <2>6 DEF PoolInv
    <2> QED
      BY <2>5, <2>6
  <1> QED
    BY <1>1, CapInvAlways, PTL

(* The Cardinality of the instance is Cardinality. *)
LEMMA SameCardinality == ASSUME NEW S PROVE Abstract!Cardinality(S) = Cardinality(S)
  BY Zenon DEF Abstract!Cardinality, Cardinality

(* More fuzzing candidates lie below a later rank. *)
LEMMA FuzzedBelowMonotone ==
  ASSUME NEW i \in Rank, NEW j \in Rank, i <= j
  PROVE  /\ Abstract!FuzzedBelow(outcome, i) <= Abstract!FuzzedBelow(outcome, j)
         /\ Abstract!FuzzedBelow(outcome, i) \in Nat
         /\ Abstract!FuzzedBelow(outcome, j) \in Nat
  <1> DEFINE Below(k) == {m \in Rank : m < k /\ outcome[m] = "fuzzed"}
  <1>1. IsFiniteSet(Rank) /\ Abstract!Rank = Rank
    BY NAssumption, FS_Interval DEF Rank, Abstract!Rank
  <1>2. Below(i) \subseteq Below(j) /\ Below(i) \subseteq Rank /\ Below(j) \subseteq Rank
    BY NAssumption DEF Rank
  <1>3. /\ Abstract!FuzzedBelow(outcome, i) = Cardinality(Below(i))
        /\ Abstract!FuzzedBelow(outcome, j) = Cardinality(Below(j))
    BY <1>1, SameCardinality DEF Abstract!FuzzedBelow
  <1> HIDE DEF Below
  <1> QED
    BY <1>1, <1>2, <1>3, FS_Subset, FS_CardinalityType

(* A pool that answered ok and was stopped by nothing but its cap has       *)
(* fuzzed every target the serial loop would have, and whatever it fuzzed   *)
(* besides ranks after them.                                                *)
THEOREM SweepSelectsSerialSet == Spec => []PoolSelectsSerialSet
  <1> DEFINE picked == {i \in Rank : slots[i] = "fuzzed"}
  <1> DEFINE serial == Abstract!Selection(outcome, Seed, Cap0)
  <1>1. CapInv => PoolSelectsSerialSet
    <2> SUFFICES ASSUME CapInv, returned = "ok", cap = Cap0, cap # NoCap,
                        ~quit, ~exhausted, ~expired, "]" \notin Keys
                 PROVE  /\ serial \subseteq picked
                        /\ \A i \in picked \ serial : \A j \in serial : j < i
      BY DEF PoolSelectsSerialSet
    <2>1. /\ TypeOK /\ EveryClaimAccounted /\ AllDone /\ OutcomeInv /\ CountInv
          /\ \A i \in Rank : slots[i] # "err"
      BY DEF CapInv, RefineInv, IInv, ReturnInv, OkInv
    <2>2. cursor \in Nat /\ success_count \in Nat /\ Seed \in Nat /\ Cap0 \in Nat
      BY <2>1, CountAssumption DEF TypeOK
    <2>3. \A w \in Workers : ~InFlight(w) /\ pc[w] \notin CountedLabels
      BY <2>1 DEF AllDone, InFlight, InFlightLabels, CountedLabels
    <2>4. \A i \in Rank : i < cursor <=> slots[i] # "none"
      BY <2>1, <2>3 DEF EveryClaimAccounted, NoneLost, FilledBelowCursor
    <2>5. \A i \in Rank : i < cursor => slots[i] = outcome[i]
      BY <2>1, <2>4 DEF OutcomeInv
    <2>6. \A i : i \in serial <=> /\ i \in Rank /\ outcome[i] = "fuzzed"
                                  /\ Seed + Abstract!FuzzedBelow(outcome, i) < Cap0
      BY DEF Abstract!Selection, Abstract!Rank, Rank
    <2>7. \A i \in picked : i \in Rank /\ outcome[i] = "fuzzed"
      BY <2>4, <2>5
    <2>8. ASSUME NEW j \in serial PROVE j < cursor
      <3>1. j \in Rank /\ Seed + Abstract!FuzzedBelow(outcome, j) < Cap0
        BY <2>6
      <3>2. CASE cursor >= N
        BY <2>2, <3>1, <3>2, NAssumption DEF Rank
      <3>3. CASE cursor < N /\ j >= cursor
        <4>1. CapReached(success_count)
          BY <2>1, <3>3, JustifiedFromInv DEF StopIsJustified
        <4>2. Cap0 <= Seed + Cardinality(Counted)
          BY <2>1, <4>1 DEF CapReached, CountInv
        <4> DEFINE Below == {m \in Rank : m < j /\ outcome[m] = "fuzzed"}
        <4>3. Counted \subseteq Below
          <5> SUFFICES ASSUME NEW m \in Counted PROVE m \in Below
            OBVIOUS
          <5>1. m \in Rank /\ outcome[m] = "fuzzed" /\ slots[m] # "none"
            BY <2>3 DEF Counted
          <5>2. m < cursor /\ m \in Int /\ j \in Int
            BY <2>4, <3>1, <5>1, NAssumption DEF Rank
          <5> QED
            BY <2>2, <3>3, <5>1, <5>2
        <4>4. IsFiniteSet(Below)
          <5>1. IsFiniteSet(Rank) /\ Below \subseteq Rank
            BY NAssumption, FS_Interval DEF Rank
          <5> QED
            BY <5>1, FS_Subset
        <4>5. Abstract!FuzzedBelow(outcome, j) = Cardinality(Below)
          BY SameCardinality DEF Abstract!FuzzedBelow, Abstract!Rank, Rank
        <4> HIDE DEF Below
        <4>6. /\ Cardinality(Counted) <= Cardinality(Below)
              /\ Cardinality(Counted) \in Nat /\ Cardinality(Below) \in Nat
          BY <4>3, <4>4, FS_Subset, FS_CardinalityType
        <4> QED
          BY <2>2, <3>1, <4>2, <4>5, <4>6
      <3> QED
        BY <2>2, <3>1, <3>2, <3>3, NAssumption DEF Rank
    <2>9. serial \subseteq picked
      BY <2>5, <2>6, <2>8
    <2>10. ASSUME NEW i \in picked \ serial, NEW j \in serial
           PROVE  j < i
      <3> HIDE DEF picked, serial
      <3>1. /\ i \in Rank /\ ~(Seed + Abstract!FuzzedBelow(outcome, i) < Cap0)
            /\ j \in Rank /\ Seed + Abstract!FuzzedBelow(outcome, j) < Cap0
        BY <2>6, <2>7
      <3>2. i \in Int /\ j \in Int
        BY <3>1, NAssumption DEF Rank
      <3> SUFFICES ASSUME i <= j PROVE FALSE
        BY <3>2
      <3> QED
        BY <2>2, <3>1, FuzzedBelowMonotone
    <2> QED
      BY <2>9, <2>10
  <1> QED
    BY <1>1, CapInvAlways, PTL
===============================================================================
