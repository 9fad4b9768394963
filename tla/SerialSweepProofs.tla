--------------------------- MODULE SerialSweepProofs ---------------------------
(***************************************************************************)
(* Safety of the serial sweep for every number of candidates, and that it  *)
(* implements the abstract sweep.                                          *)
(***************************************************************************)
EXTENDS SerialSweep, FiniteSetTheorems, TLAPS

(* The labels between the beginning of a candidate and its push. *)
Busy == pc \in {"attempt", "persist", "deps", "push"}

(* What is in `results`: every candidate begun and left, with its outcome;  *)
(* and what the current one has behind it at each label.                    *)
ResultsInv ==
  /\ \A i \in Rank :
       /\ results[i] \in {"none", outcome[i]} \ {"err"}
       /\ i >= begun => results[i] = "none"
       /\ i < begun /\ ~(i = Current /\ (Busy \/ pc = "fail")) => results[i] # "none"
  /\ Busy => results[Current] = "none"
  /\ pc = "fail" => Current \in Rank
  /\ pc = "hold" => begun < N
  /\ pc \in {"persist", "deps", "push"} => outcome[Current] # "err"

(* The checkpoint holds candidates begun, and the one about to be pushed. *)
FileInv ==
  /\ \A i \in manifest : i < begun
  /\ pc = "push" => Current \in manifest_file

AnswerInv ==
  /\ returned # "none" => pc \in {"return", "fail"}
  /\ returned = "ok" => pc = "return"

(* A candidate begun late is the last one. *)
LateInv == late = 0 \/ (late = 1 /\ expired /\ pc # "hold")

(* The candidates behind fuzz_successes. *)
Counted == {i \in Rank : /\ i < begun /\ outcome[i] = "fuzzed"
                         /\ ~(i = Current /\ pc = "attempt")}
CountInv == fuzz_successes = already_fuzzed + Cardinality(Counted)

(* Without keys the cap is the one the sweep began with: every candidate    *)
(* begun was selected, and the loop leaves for a reason.                    *)
SelectionInv ==
  keys = 0 =>
    /\ cap = Cap0 /\ ~quit
    /\ pc = "hold" => ~CapReached(fuzz_successes)
    /\ pc = "return" => begun = N \/ exhausted \/ expired \/ CapReached(fuzz_successes)
    /\ Cap0 # NoCap => \A i \in Rank :
         i < begun => already_fuzzed + Abstract!FuzzedBelow(outcome, i) < Cap0

-----------------------------------------------------------------------------
(* Type correctness. *)

(* The first cap of an uncapped run is ten above what has fuzzed. *)
LEMMA PlusTen == \A x \in Nat : x + 10 \in Nat
OBVIOUS

(* RunStatus.adjust_cap gives a cap, or leaves an uncapped run uncapped. *)
LEMMA AdjustedType ==
  ASSUME NEW c \in Nat \cup {NoCap}, NEW f \in Nat, NEW d \in {1, -1}
  PROVE  adjusted_cap(c, f, d) \in Nat \cup {NoCap}
  <1>1. CASE c = NoCap
    <2>1. adjusted_cap(c, f, d) \in {f + 10, NoCap}
      BY <1>1, Zenon DEF adjusted_cap
    <2> QED
      BY <2>1, PlusTen
  <1>2. CASE c # NoCap
    <2> DEFINE step == Larger(c \div 10, 1)
    <2>1. c \in Nat /\ step \in Nat
      BY <1>2 DEF Larger
    <2>2. adjusted_cap(c, f, d) = Larger(Larger(c + d * step, 1), Larger(f, 1))
      BY <1>2 DEF adjusted_cap
    <2> HIDE DEF step
    <2>3. c + d * step \in Int
      <3>1. 1 * step = step /\ (-1) * step = -step
        BY <2>1
      <3>2. d * step \in Int
        BY <2>1, <3>1
      <3> QED
        BY <2>1, <3>2
    <2>4. ASSUME NEW x \in Int PROVE Larger(Larger(x, 1), Larger(f, 1)) \in Nat
      BY DEF Larger
    <2> QED
      BY <2>2, <2>3, <2>4
  <1> QED
    BY <1>1, <1>2

LEMMA SerialTypeInit == Init => TypeOK
  <1> SUFFICES ASSUME Init PROVE TypeOK
    OBVIOUS
  <1> USE SerialAssumption DEF Init
  <1>1. exhausted \in BOOLEAN /\ expired \in BOOLEAN /\ paused \in BOOLEAN /\ quit \in BOOLEAN
    OBVIOUS
  <1>2. already_fuzzed \in Nat /\ fuzz_successes \in Nat
    OBVIOUS
  <1> QED
    BY <1>1, <1>2 DEF TypeOK, NoCap

LEMMA SerialTypeNext == TypeOK /\ ResultsInv /\ [Next]_vars => TypeOK'
  <1> SUFFICES ASSUME TypeOK, ResultsInv, [Next]_vars
               PROVE  TypeOK'
    OBVIOUS
  <1>a. pc = "hold" => begun < N
    BY DEF ResultsInv
  <1> USE <1>a, SerialAssumption DEF TypeOK, Current, Rank, controls, disk, Results
  <1>1. ASSUME Check PROVE TypeOK'
    BY <1>1 DEF Check
  <1>2. ASSUME Hold PROVE TypeOK'
    BY <1>2 DEF Hold
  <1>3. ASSUME Attempt PROVE TypeOK'
    BY <1>3 DEF Attempt
  <1>4. ASSUME Persist PROVE TypeOK'
    BY <1>4 DEF Persist
  <1>5. ASSUME CheckpointDependencies PROVE TypeOK'
    BY <1>5 DEF CheckpointDependencies
  <1>6. ASSUME PushAndMeasure PROVE TypeOK'
    BY <1>6 DEF PushAndMeasure
  <1>7. ASSUME Return PROVE TypeOK'
    BY <1>7 DEF Return
  <1>8. ASSUME DeadlinePasses PROVE TypeOK'
    BY <1>8 DEF DeadlinePasses
  <1>20. ASSUME NEW k \in AllKeys, Press(k) PROVE TypeOK'
    <2>1. cap' \in Nat \cup {NoCap}
      <3>1. adjusted_cap(cap, fuzzed, 1) \in Nat \cup {NoCap}
        BY AdjustedType
      <3>2. adjusted_cap(cap, fuzzed, -1) \in Nat \cup {NoCap}
        BY AdjustedType
      <3>3. cap' \in {adjusted_cap(cap, fuzzed, 1), adjusted_cap(cap, fuzzed, -1), cap}
        BY <1>20, Zenon DEF Press
      <3> QED
        BY <3>1, <3>2, <3>3
    <2>2. quit' \in BOOLEAN /\ paused' \in BOOLEAN
      BY <1>20 DEF Press
    <2>3. /\ keys' \in 0 .. MaxKeys
          /\ UNCHANGED <<pc, begun, results, already_fuzzed, fuzz_successes, fuzzed,
                         exhausted, expired, outcome, disk, returned, late>>
      BY <1>20 DEF Press
    <2> QED
      BY <2>1, <2>2, <2>3
  <1>21. ASSUME UNCHANGED vars PROVE TypeOK'
    BY <1>21 DEF vars
  <1> QED
    BY <1>1, <1>2, <1>3, <1>4, <1>5, <1>6, <1>7, <1>8, <1>20, <1>21 DEF Next, Loop, Finished, Poll

LEMMA ResultsNext ==
  TypeOK /\ ResultsInv /\ [Next]_vars => ResultsInv'
  <1> SUFFICES ASSUME TypeOK, ResultsInv, [Next]_vars
               PROVE  ResultsInv'
    OBVIOUS
  <1> USE SerialAssumption DEF TypeOK, ResultsInv, Busy, Current, Rank
  <1>1. ASSUME Check PROVE ResultsInv'
    BY <1>1 DEF Check
  <1>2. ASSUME Hold PROVE ResultsInv'
    BY <1>2 DEF Hold
  <1>3. ASSUME Attempt PROVE ResultsInv'
    BY <1>3 DEF Attempt
  <1>4. ASSUME Persist PROVE ResultsInv'
    BY <1>4 DEF Persist
  <1>5. ASSUME CheckpointDependencies PROVE ResultsInv'
    BY <1>5 DEF CheckpointDependencies
  <1>6. ASSUME Return PROVE ResultsInv'
    BY <1>6 DEF Return
  <1>7. ASSUME NEW k \in AllKeys, Press(k) PROVE ResultsInv'
    BY <1>7 DEF Press
  <1>8. ASSUME DeadlinePasses PROVE ResultsInv'
    BY <1>8 DEF DeadlinePasses
  <1>9. ASSUME UNCHANGED vars PROVE ResultsInv'
    BY <1>9 DEF vars
  <1>20. ASSUME PushAndMeasure PROVE ResultsInv'
    <2>1. /\ results' = [results EXCEPT ![Current] = outcome[Current]]
          /\ pc = "push" /\ pc' \in {"top", "return", "fail"}
          /\ UNCHANGED <<begun, outcome>>
      BY <1>20 DEF PushAndMeasure
    <2>2. Current \in Rank /\ outcome[Current] # "err"
      BY <2>1
    <2>3. \A i \in Rank : results'[i] = IF i = Current THEN outcome[i] ELSE results[i]
      BY <2>1, <2>2
    <2>4. outcome[Current] # "none"
      BY <2>2 DEF Results
    <2> QED
      BY <2>1, <2>2, <2>3, <2>4
  <1> QED
    BY <1>1, <1>2, <1>3, <1>4, <1>5, <1>6, <1>7, <1>8, <1>9, <1>20 DEF Next, Loop, Finished, Poll

LEMMA FileNext ==
  TypeOK /\ ResultsInv /\ FileInv /\ AnswerInv /\ LateInv /\ [Next]_vars
    => FileInv' /\ AnswerInv' /\ LateInv'
  <1> SUFFICES ASSUME TypeOK, ResultsInv, FileInv, AnswerInv, LateInv, [Next]_vars
               PROVE  FileInv' /\ AnswerInv' /\ LateInv'
    OBVIOUS
  <1> USE SerialAssumption DEF TypeOK, FileInv, AnswerInv, LateInv, Current, Rank, disk
  <1>1. ASSUME Check PROVE FileInv' /\ AnswerInv' /\ LateInv'
    BY <1>1 DEF Check
  <1>2. ASSUME Hold PROVE FileInv' /\ AnswerInv' /\ LateInv'
    BY <1>2 DEF Hold
  <1>3. ASSUME Attempt PROVE FileInv' /\ AnswerInv' /\ LateInv'
    BY <1>3 DEF Attempt
  <1>4. ASSUME Persist PROVE FileInv' /\ AnswerInv' /\ LateInv'
    BY <1>4 DEF Persist
  <1>5. ASSUME CheckpointDependencies PROVE FileInv' /\ AnswerInv' /\ LateInv'
    BY <1>5 DEF CheckpointDependencies
  <1>6. ASSUME PushAndMeasure PROVE FileInv' /\ AnswerInv' /\ LateInv'
    BY <1>6 DEF PushAndMeasure
  <1>7. ASSUME Return PROVE FileInv' /\ AnswerInv' /\ LateInv'
    BY <1>7 DEF Return
  <1>8. ASSUME NEW k \in AllKeys, Press(k) PROVE FileInv' /\ AnswerInv' /\ LateInv'
    BY <1>8 DEF Press
  <1>9. ASSUME DeadlinePasses PROVE FileInv' /\ AnswerInv' /\ LateInv'
    BY <1>9 DEF DeadlinePasses
  <1>10. ASSUME UNCHANGED vars PROVE FileInv' /\ AnswerInv' /\ LateInv'
    BY <1>10 DEF vars
  <1> QED
    BY <1>1, <1>2, <1>3, <1>4, <1>5, <1>6, <1>7, <1>8, <1>9, <1>10 DEF Next, Loop, Finished, Poll

LEMMA CountedFinite == IsFiniteSet(Counted) /\ Cardinality(Counted) \in Nat
  <1>1. IsFiniteSet(Rank)
    BY SerialAssumption, FS_Interval DEF Rank
  <1>2. Counted \subseteq Rank
    BY DEF Counted
  <1> QED
    BY <1>1, <1>2, FS_Subset, FS_CardinalityType

LEMMA CountNext == TypeOK /\ ResultsInv /\ CountInv /\ [Next]_vars => CountInv'
  <1> SUFFICES ASSUME TypeOK, ResultsInv, CountInv, [Next]_vars
               PROVE  CountInv'
    OBVIOUS
  <1> DEFINE Same == UNCHANGED <<fuzz_successes, already_fuzzed, Counted>>
  <1> USE SerialAssumption DEF TypeOK, Current, Rank, Counted
  <1>1. ASSUME Check PROVE Same
    BY <1>1 DEF Check
  <1>2. ASSUME Persist PROVE Same
    BY <1>2 DEF Persist
  <1>3. ASSUME CheckpointDependencies PROVE Same
    BY <1>3 DEF CheckpointDependencies
  <1>4. ASSUME PushAndMeasure PROVE Same
    BY <1>4 DEF PushAndMeasure
  <1>5. ASSUME Return PROVE Same
    BY <1>5 DEF Return
  <1>6. ASSUME NEW k \in AllKeys, Press(k) PROVE Same
    BY <1>6 DEF Press
  <1>7. ASSUME DeadlinePasses PROVE Same
    BY <1>7 DEF DeadlinePasses
  <1>8. ASSUME UNCHANGED vars PROVE Same
    BY <1>8 DEF vars
  <1>20. ASSUME Hold PROVE Same
    <2>1. CASE quit
      BY <1>20, <2>1 DEF Hold
    <2>2. CASE ~quit
      <3>1. pc' = "attempt" /\ begun' = begun + 1 /\ pc = "hold"
            /\ UNCHANGED <<fuzz_successes, already_fuzzed, outcome>>
        BY <1>20, <2>2 DEF Hold
      <3>2. \A i \in Rank : i < begun' /\ i # begun' - 1 <=> i < begun
        BY <3>1
      <3> QED
        BY <3>1, <3>2
    <2> QED
      BY <2>1, <2>2
  <1>21. ASSUME Attempt PROVE Same \/ CountInv'
    <2>1. /\ pc = "attempt" /\ pc' # "attempt" /\ Current \in Rank
          /\ UNCHANGED <<begun, already_fuzzed, outcome>>
          /\ fuzz_successes' = IF outcome[Current] = "fuzzed" THEN fuzz_successes + 1
                                                              ELSE fuzz_successes
      BY <1>21 DEF Attempt
    <2>2. CASE outcome[Current] # "fuzzed"
      BY <2>1, <2>2
    <2>3. CASE outcome[Current] = "fuzzed"
      <3>1. Counted' = Counted \cup {Current} /\ Current \notin Counted
        BY <2>1, <2>3
      <3> HIDE DEF Counted
      <3>2. Cardinality(Counted') = Cardinality(Counted) + 1
        BY <3>1, CountedFinite, FS_AddElement
      <3> QED
        BY <2>1, <2>3, <3>2, CountedFinite DEF CountInv
    <2> QED
      BY <2>2, <2>3
  <1>22. Same => CountInv'
    BY DEF CountInv
  <1> HIDE DEF Same
  <1> QED
    BY <1>1, <1>2, <1>3, <1>4, <1>5, <1>6, <1>7, <1>8, <1>20, <1>21, <1>22 DEF Next, Loop, Finished, Poll

(* The Cardinality of the instance is Cardinality. *)
LEMMA SameCardinality == ASSUME NEW S PROVE Abstract!Cardinality(S) = Cardinality(S)
  BY Zenon DEF Abstract!Cardinality, Cardinality

Below(i) == {j \in Rank : j < i /\ outcome[j] = "fuzzed"}

LEMMA BelowIsBelow ==
  ASSUME NEW i \in Int
  PROVE  /\ Abstract!FuzzedBelow(outcome, i) = Cardinality(Below(i))
         /\ IsFiniteSet(Below(i)) /\ Cardinality(Below(i)) \in Nat
  <1>1. IsFiniteSet(Rank) /\ Below(i) \subseteq Rank
    BY SerialAssumption, FS_Interval DEF Rank, Below
  <1>2. Abstract!FuzzedBelow(outcome, i) = Cardinality(Below(i))
    BY SameCardinality DEF Abstract!FuzzedBelow, Abstract!Rank, Rank, Below
  <1> QED
    BY <1>1, <1>2, FS_Subset, FS_CardinalityType

LEMMA SelectionNext ==
  TypeOK /\ ResultsInv /\ CountInv /\ SelectionInv /\ [Next]_vars => SelectionInv'
  <1> SUFFICES ASSUME TypeOK, ResultsInv, CountInv, SelectionInv, [Next]_vars, keys' = 0
               PROVE  SelectionInv'
    BY DEF SelectionInv
  <1>19. ASSUME NEW k \in AllKeys, Press(k) PROVE FALSE
    <2>1. keys' = keys + 1 /\ keys \in 0 .. MaxKeys
      BY <1>19 DEF Press, TypeOK
    <2> QED
      BY <2>1, SerialAssumption
  <1> DEFINE Why == begun = N \/ exhausted \/ expired \/ CapReached(fuzz_successes)
  <1> DEFINE Facts ==
        /\ keys = 0 /\ cap' = cap /\ quit' = quit /\ outcome' = outcome
        /\ already_fuzzed' = already_fuzzed
        /\ pc' = "hold" => /\ fuzz_successes' = fuzz_successes
                           /\ pc = "hold" \/ ~CapReached(fuzz_successes)
        /\ pc' = "return" => \/ quit
                             \/ Why'
                             \/ pc = "return" /\ (Why => Why')
        /\ begun' = begun \/ (begun' = begun + 1 /\ pc = "hold")
  <1> USE SerialAssumption DEF TypeOK, CapReached, controls
  <1>1. ASSUME Check PROVE Facts
    BY <1>1 DEF Check
  <1>2. ASSUME Hold PROVE Facts
    BY <1>2 DEF Hold
  <1>3. ASSUME Attempt PROVE Facts
    BY <1>3 DEF Attempt
  <1>4. ASSUME Persist PROVE Facts
    BY <1>4 DEF Persist
  <1>5. ASSUME CheckpointDependencies PROVE Facts
    BY <1>5 DEF CheckpointDependencies
  <1>6. ASSUME PushAndMeasure PROVE Facts
    BY <1>6 DEF PushAndMeasure
  <1>7. ASSUME Return PROVE Facts
    BY <1>7 DEF Return
  <1>8. ASSUME DeadlinePasses PROVE Facts
    BY <1>8 DEF DeadlinePasses
  <1>9. ASSUME UNCHANGED vars PROVE Facts
    BY <1>9 DEF vars
  <1>20. Facts
    <2> HIDE DEF Facts
    <2> QED
      BY <1>1, <1>2, <1>3, <1>4, <1>5, <1>6, <1>7, <1>8, <1>9, <1>19 DEF Next, Loop, Finished, Poll
  <1>21. cap' = Cap0 /\ ~quit' /\ cap = Cap0
    BY <1>20 DEF SelectionInv
  <1>22. (pc = "hold" => ~CapReached(fuzz_successes))'
    BY <1>20 DEF SelectionInv
  <1>23. (pc = "return" => begun = N \/ exhausted \/ expired \/ CapReached(fuzz_successes))'
    BY <1>20 DEF SelectionInv
  <1>24. ASSUME Cap0 # NoCap, NEW i \in Rank, i < begun'
         PROVE  already_fuzzed' + Abstract!FuzzedBelow(outcome', i) < Cap0
    <2>1. CASE i < begun
      BY <1>20, <1>24, <2>1 DEF SelectionInv
    <2>2. CASE ~(i < begun)
      <3>1. i = begun /\ pc = "hold" /\ i \in Int
        BY <1>20, <1>24, <2>2 DEF Rank
      <3>2. fuzz_successes < Cap0
        BY <1>20, <1>21, <1>24, <3>1 DEF SelectionInv, NoCap
      <3>3. Counted = Below(i)
        BY <3>1 DEF Counted, Below
      <3>4. fuzz_successes = already_fuzzed + Abstract!FuzzedBelow(outcome, i)
        BY <3>1, <3>3, BelowIsBelow DEF CountInv
      <3> QED
        BY <1>20, <3>2, <3>4
    <2> QED
      BY <2>1, <2>2
  <1> QED
    BY <1>21, <1>22, <1>23, <1>24 DEF SelectionInv

-----------------------------------------------------------------------------
(* The invariant, and what follows from it. *)

SerialInv ==
  /\ TypeOK
  /\ ResultsInv
  /\ FileInv
  /\ AnswerInv
  /\ LateInv
  /\ CountInv
  /\ SelectionInv

LEMMA SerialInvInit == Init => SerialInv
  <1> SUFFICES ASSUME Init PROVE SerialInv
    OBVIOUS
  <1> USE SerialAssumption
  <1>1. TypeOK
    BY SerialTypeInit
  <1>2. ResultsInv /\ FileInv /\ AnswerInv /\ LateInv
    BY DEF Init, ResultsInv, Busy, FileInv, AnswerInv, LateInv, Rank
  <1>3. CountInv
    <2>1. Counted = {}
      BY DEF Init, Counted, Rank
    <2>2. Cardinality(Counted) = 0
      BY <2>1, FS_EmptySet, Zenon
    <2> QED
      BY <2>2 DEF Init, CountInv
  <1>4. SelectionInv
    BY DEF Init, SelectionInv, Rank
  <1> QED
    BY <1>1, <1>2, <1>3, <1>4 DEF SerialInv

LEMMA SerialInvNext == SerialInv /\ [Next]_vars => SerialInv'
  BY SerialTypeNext, ResultsNext, FileNext, CountNext, SelectionNext DEF SerialInv

LEMMA SerialInvAlways == Spec => []SerialInv
  BY SerialInvInit, SerialInvNext, PTL DEF Spec

(* The serial loop keeps its types and never begins a candidate past the    *)
(* last rank, whatever keys are pressed.                                    *)
THEOREM SerialTypeCorrect == Spec => []TypeOK
  <1>1. SerialInv => TypeOK
    BY DEF SerialInv
  <1> QED
    BY <1>1, SerialInvAlways, PTL

(* At most one candidate of any list begins after the deadline, however     *)
(* long a pause holds the loop between its check and the attempt.           *)
THEOREM SerialOneLate == Spec => []OneLateCandidate
  <1>1. SerialInv => OneLateCandidate
    BY DEF SerialInv, LateInv, OneLateCandidate
  <1> QED
    BY <1>1, SerialInvAlways, PTL

(* Without the operator, the serial loop over any list fuzzes what the cap  *)
(* selects and nothing else, reloaded successes counted.                    *)
THEOREM SerialFuzzesSelection == Spec => []FuzzesSelection
  <1> DEFINE picked == {i \in Rank : results[i] = "fuzzed"}
  <1> DEFINE selected == Abstract!Selection(outcome, already_fuzzed, Cap0)
  <1>1. SerialInv => FuzzesSelection
    <2> SUFFICES ASSUME SerialInv, cap = Cap0, cap # NoCap, keys = 0
                 PROVE  /\ picked \subseteq selected
                        /\ returned = "ok" /\ ~exhausted /\ ~expired => picked = selected
      BY DEF FuzzesSelection
    <2>1. TypeOK /\ ResultsInv /\ AnswerInv /\ CountInv /\ SelectionInv
      BY DEF SerialInv
    <2>2. begun \in Nat /\ already_fuzzed \in Nat /\ Cap0 \in Nat /\ fuzz_successes \in Nat
      BY <2>1, SerialAssumption DEF TypeOK
    <2>3. \A i : i \in selected <=> /\ i \in Rank /\ outcome[i] = "fuzzed"
                                    /\ already_fuzzed + Abstract!FuzzedBelow(outcome, i) < Cap0
      BY DEF Abstract!Selection, Abstract!Rank, Rank
    <2>4. ASSUME NEW i \in picked PROVE i \in selected
      <3>1. i \in Rank /\ i < begun /\ outcome[i] = "fuzzed" /\ i \in Int
        BY <2>1, <2>2, SerialAssumption DEF ResultsInv, Rank
      <3> QED
        BY <2>1, <2>3, <3>1 DEF SelectionInv
    <2>5. ASSUME returned = "ok", ~exhausted, ~expired, NEW j \in selected
          PROVE  j \in picked
      <3>1. pc = "return" /\ (begun = N \/ fuzz_successes >= Cap0)
        BY <2>1, <2>5 DEF AnswerInv, SelectionInv, CapReached
      <3>2. /\ j \in Rank /\ outcome[j] = "fuzzed" /\ j \in Int
            /\ already_fuzzed + Abstract!FuzzedBelow(outcome, j) < Cap0
        BY <2>3, <2>5, SerialAssumption DEF Rank
      <3>3. j < begun
        <4> SUFFICES ASSUME j >= begun PROVE FALSE
          BY <2>2, <3>2
        <4>1. fuzz_successes >= Cap0
          BY <3>1, <3>2, SerialAssumption DEF Rank
        <4>2. Counted \subseteq Below(j)
          BY <2>2, <3>2, SerialAssumption DEF Counted, Below, Rank
        <4>3. /\ Cardinality(Counted) <= Cardinality(Below(j)) /\ Cardinality(Counted) \in Nat
              /\ Cardinality(Below(j)) \in Nat
              /\ Abstract!FuzzedBelow(outcome, j) = Cardinality(Below(j))
          BY <3>2, <4>2, BelowIsBelow, CountedFinite, FS_Subset
        <4> QED
          BY <2>1, <2>2, <3>2, <4>1, <4>3 DEF CountInv
      <3> QED
        BY <2>1, <3>1, <3>2, <3>3 DEF ResultsInv, Busy
    <2> QED
      BY <2>4, <2>5
  <1> QED
    BY <1>1, SerialInvAlways, PTL

(* The serial loop implements the abstract sweep, as the pool does: callers *)
(* of sweep_phase cannot tell which of the two ran.                         *)
THEOREM SerialImplementsAbstract == Spec => SerialIsSweep
  <1> DEFINE mapped == [i \in Rank |-> IF pc = "fail" /\ i = Current THEN "err" ELSE results[i]]
  <1>1. Init => Abstract!Init
    <2> SUFFICES ASSUME Init PROVE Abstract!Init
      OBVIOUS
    <2>1. mapped = [i \in Rank |-> "none"] /\ Abstract!Rank = Rank
      BY DEF Init, Abstract!Rank, Rank
    <2> QED
      BY <2>1 DEF Init, Abstract!Init
  <1>2. SerialInv /\ SerialInv' /\ [Next]_vars => [Abstract!Next]_(Abstract!vars)
    <2> SUFFICES ASSUME SerialInv, SerialInv', [Next]_vars
                 PROVE  Abstract!Next \/ UNCHANGED Abstract!vars
      OBVIOUS
    <2>1. /\ TypeOK /\ ResultsInv /\ FileInv /\ AnswerInv
          /\ TypeOK' /\ FileInv' /\ ResultsInv'
      BY DEF SerialInv
    <2>2. begun \in 0 .. N /\ N \in Nat /\ Abstract!Rank = Rank
      BY <2>1, SerialAssumption DEF TypeOK, Abstract!Rank, Rank
    <2> DEFINE Still == UNCHANGED <<begun, manifest_file, returned, mapped>>
    <2>3. Still => UNCHANGED Abstract!vars
      BY DEF Abstract!vars
    <2>4. ASSUME NEW k \in AllKeys, Press(k) PROVE Still
      BY <2>4 DEF Press, disk, Current
    <2>5. ASSUME Check \/ Persist \/ DeadlinePasses \/ UNCHANGED vars PROVE Still
      BY <2>5 DEF Check, Persist, DeadlinePasses, vars, disk, Current
    <2>6. ASSUME Hold PROVE Still \/ Abstract!Take
      <3>1. CASE quit
        BY <2>6, <3>1 DEF Hold, disk, Current
      <3>2. CASE ~quit
        <4>1. /\ pc = "hold" /\ pc' = "attempt" /\ begun' = begun + 1 /\ returned = "none"
              /\ UNCHANGED <<manifest_file, returned, results>>
          BY <2>1, <2>6, <3>2 DEF Hold, disk, AnswerInv
        <4>2. UNCHANGED mapped
          BY <4>1
        <4>3. begun < N
          BY <2>1, <4>1 DEF ResultsInv
        <4> QED
          BY <4>1, <4>2, <4>3 DEF Abstract!Take
      <3> QED
        BY <3>1, <3>2
    <2>7. ASSUME NEW r \in {"fuzzed", "other", "err"}, Busy, Current \in Rank,
                 mapped' = [mapped EXCEPT ![Current] = r],
                 r = "err" \/ Current \in manifest_file,
                 UNCHANGED <<begun, manifest_file, returned>>
          PROVE  Abstract!Next
      <3>1. returned = "none" /\ mapped[Current] = "none" /\ Current < begun
        BY <2>1, <2>2, <2>7 DEF Busy, AnswerInv, ResultsInv, Current
      <3>2. Abstract!Record(Current, r)
        BY <2>7, <3>1 DEF Abstract!Record, Abstract!Open
      <3> QED
        BY <2>2, <2>7, <3>2 DEF Abstract!Next
    <2>8. ASSUME Attempt PROVE Still \/ Abstract!Next
      <3>1. /\ pc = "attempt" /\ UNCHANGED <<begun, manifest_file, returned, results>>
            /\ pc' = IF outcome[Current] = "err" THEN "fail" ELSE "persist"
            /\ Current \in Rank /\ Busy
        BY <2>1, <2>8 DEF Attempt, disk, TypeOK, Busy
      <3>2. CASE outcome[Current] = "err"
        <4>1. mapped' = [mapped EXCEPT ![Current] = "err"]
          BY <3>1, <3>2 DEF Current
        <4> QED
          BY <2>7, <3>1, <4>1
      <3>3. CASE outcome[Current] # "err"
        BY <3>1, <3>3 DEF Current
      <3> QED
        BY <3>2, <3>3
    <2>9. ASSUME CheckpointDependencies PROVE Abstract!Save \/ Abstract!Next
      <3>1. /\ pc = "deps" /\ UNCHANGED <<begun, returned, results>>
            /\ Current \in Rank /\ Busy /\ returned = "none"
        BY <2>1, <2>9 DEF CheckpointDependencies, TypeOK, Busy, AnswerInv
      <3>2. CASE manifest_file' = manifest' /\ pc' = "push"
        <4>1. UNCHANGED mapped
          BY <3>1, <3>2 DEF Current
        <4>2. manifest_file \subseteq manifest'
          BY <2>1, <2>9 DEF TypeOK, CheckpointDependencies
        <4>3. manifest' \subseteq 0 .. (begun - 1)
          BY <2>1, <2>2, <3>1, SerialAssumption DEF FileInv, TypeOK, Rank
        <4> QED
          BY <3>1, <3>2, <4>1, <4>2, <4>3 DEF Abstract!Save
      <3>3. CASE pc' = "fail" /\ UNCHANGED manifest_file
        <4>1. mapped' = [mapped EXCEPT ![Current] = "err"]
          BY <3>1, <3>3 DEF Current
        <4> QED
          BY <2>7, <3>1, <3>3, <4>1
      <3> QED
        BY <2>9, <3>2, <3>3 DEF CheckpointDependencies
    <2>10. ASSUME PushAndMeasure PROVE Abstract!Next
      <3>1. /\ pc = "push" /\ UNCHANGED <<begun, manifest_file, returned>>
            /\ results' = [results EXCEPT ![Current] = outcome[Current]]
            /\ pc' \in {"top", "return", "fail"}
            /\ Current \in Rank /\ Busy /\ Current \in manifest_file
        BY <2>1, <2>10 DEF PushAndMeasure, disk, TypeOK, Busy, FileInv
      <3>2. CASE pc' = "fail"
        <4>1. mapped' = [mapped EXCEPT ![Current] = "err"]
          BY <2>1, <3>1, <3>2 DEF Current, TypeOK
        <4> QED
          BY <2>7, <3>1, <4>1
      <3>3. CASE pc' # "fail"
        <4>1. mapped' = [mapped EXCEPT ![Current] = outcome[Current]]
          BY <2>1, <3>1, <3>3 DEF Current, TypeOK
        <4>2. outcome[Current] \in {"fuzzed", "other", "err"}
          BY <2>1, <3>1, SerialAssumption DEF TypeOK, Results
        <4> QED
          BY <2>7, <3>1, <4>1, <4>2
      <3> QED
        BY <3>2, <3>3
    <2>11. ASSUME Return PROVE Abstract!Answer
      <3>1. /\ pc \in {"return", "fail"} /\ returned = "none"
            /\ returned' = IF pc = "fail" THEN "err" ELSE "ok"
            /\ UNCHANGED <<pc, begun, results, manifest_file>>
        BY <2>11 DEF Return, disk
      <3>2. \A i \in Rank : ~Abstract!Open(i)
        BY <2>1, <3>1 DEF Abstract!Open, ResultsInv, Busy
      <3>3. (\E i \in Rank : mapped[i] = "err") <=> pc = "fail"
        BY <2>1, <3>1 DEF ResultsInv
      <3>4. UNCHANGED mapped
        BY <3>1 DEF Current
      <3> HIDE DEF mapped
      <3>5. mapped = [i \in Rank |-> IF pc = "fail" /\ i = Current THEN "err" ELSE results[i]]
        BY DEF mapped
      <3> QED
        BY <2>2, <3>1, <3>2, <3>3, <3>4, <3>5 DEF Abstract!Answer, mapped
    <2> HIDE DEF Still
    <2> QED
      BY <2>3, <2>4, <2>5, <2>6, <2>8, <2>9, <2>10, <2>11
      DEF Next, Loop, Finished, Poll, Abstract!Next
  <1> QED
    BY <1>1, <1>2, SerialInvInit, SerialInvNext, PTL DEF Spec, SerialIsSweep, Abstract!Spec
================================================================================
