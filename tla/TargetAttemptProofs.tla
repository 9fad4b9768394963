-------------------------- MODULE TargetAttemptProofs --------------------------
(***************************************************************************)
(* An attempt gives up, and the memo writes off, only what cannot be       *)
(* built, for any number of workers, targets and sources, any defects and  *)
(* any repair cap; the fragment a target was linked with stays.            *)
(*                                                                         *)
(* The argument follows one attempt whose source can be built and that     *)
(* nothing has hindered (Hopeful): at each station of a round it says what *)
(* the errors at hand still allow (StationInv), and it counts the rounds   *)
(* against the repairs made (RoundInv).  The other workers only make       *)
(* hope vanish, never appear.                                              *)
(***************************************************************************)
EXTENDS TargetAttempt, FiniteSetTheorems, TLAPS

(* The stations at which an attempt holds errors of a build or a check. *)
Failing == {"compat", "write", "probe", "ladder", "fallback", "judge"}
Places == {"idle", "load", "inherited", "round", "check", "build", "record", "saving"} \cup Failing
Works == [at : Places, target : Targets, round : 0 .. MaxRounds, alternate : BOOLEAN,
          repaired : SUBSET Defect, distrust : BOOLEAN, errs : SUBSET Error, memo : Memo]
Reason == Hindrance \cup {"trial", "edit", "driver"}
Mishap == Reason \X Sources

AttemptTypeInv ==
  /\ defects \in [Sources -> SUBSET Defect] /\ clumsy \in [Targets -> SUBSET DriverError]
  /\ fragment \in Fragment /\ compiler \in BOOLEAN /\ dialects \subseteq Targets
  /\ memo \subseteq Memo /\ \A m, n \in memo : m = n
  /\ runs \in 1 .. MaxRuns /\ up \in BOOLEAN /\ force \in BOOLEAN /\ late \in BOOLEAN
  /\ verdict \in [Targets -> {"none", "built", "failed", "again"}]
  /\ work \in [Workers -> Works] /\ mishaps \subseteq Mishap

Hindered(s) == Excused(s, Hindrance)
Misled(s) == Excused(s, Hindrance \cup {"edit", "driver"})
Trialled(s) == Excused(s, {"trial"})

Hopeful(w) == clumsy[work[w].target] = {} /\ Builds(Source(w), force) /\ ~Hindered(Source(w))
Plan(w) == Repairable(work[w].errs)
Wanting(w) == {"undef", "fcommon"} \cap defects[Source(w)]
Shows(w) == CompileErrors(w, work[w].alternate)

(* Every round but one has cured something; what is wrong with the driver   *)
(* is always among the errors.                                              *)
RoundInv(w) ==
  /\ work[w].repaired \subseteq defects[Source(w)] \cap Cured
  /\ work[w].round <= Cardinality(work[w].repaired) + (IF work[w].distrust THEN 1 ELSE 0)
  /\ work[w].alternate => compiler
  /\ At(w, "idle") => work[w] = NoWork
  /\ At(w, "check") => Doubt(w)
  /\ work[w].at \in Failing => work[w].errs \cap Cured \subseteq defects[Source(w)] \ work[w].repaired
  /\ work[w].at \in Failing \cup {"record"}
       => clumsy[work[w].target] \subseteq work[w].errs \/ Hindered(Source(w))

StationInv(w) ==
  Hopeful(w) =>
    /\ work[w].distrust => defects[Source(w)] \cap {"gcc", "old", "picky"} # {}
    /\ At(w, "compat") => /\ work[w].errs # {}
                          /\ \/ work[w].errs = Shows(w)
                             \/ Shows(w) = {} /\ work[w].errs \subseteq Wanting(w)
    /\ At(w, "write") => "fcommon" \in defects[Source(w)]
    /\ At(w, "write") \/ At(w, "probe") => Shows(w) = {}
    /\ At(w, "ladder") => /\ work[w].errs # {}
                          /\ work[w].errs = Shows(w) \/ work[w].errs \subseteq {"undef"}
    /\ At(w, "fallback") => work[w].errs # {} /\ work[w].errs = Shows(w) \ {"old"}
    /\ At(w, "judge") => /\ Plan(w) # {} \/ Doubt(w)
                         /\ Plan(w) = {} => defects[Source(w)] \cap {"gcc", "old", "picky"} # {}
    /\ ~At(w, "record")

(* What an attempt has loaded was written in its own phase. *)
LoadedInv(w) ==
  /\ \A s \in work[w].memo.entries : ~Builds(s, force) \/ Misled(s)
  /\ ~At(w, "idle") => work[w].memo.label.force = force
  /\ At(w, "inherited") => Source(w) \in work[w].memo.entries

WorkerInv(w) == RoundInv(w) /\ StationInv(w) /\ LoadedInv(w)
MemoInv == \A m \in memo : \A s \in m.entries : ~Builds(s, m.label.force) \/ Misled(s)

(* A fragment that was relied on is not on trial. *)
OnTrial(w) == At(w, "write") \/ At(w, "probe")
FragmentInv ==
  /\ \A w \in Workers : At(w, "probe") /\ "fcommon" \in defects[Source(w)]
       => Hindered(Source(w)) \/ (fragment = "fcommon" /\ Trying(w) = {})
  /\ \A t \in Targets : verdict[t] = "built" /\ "fcommon" \in defects[SourceOf[t]]
       => Trialled(SourceOf[t]) \/ (fragment = "fcommon" /\ \A v \in Workers : ~OnTrial(v))

WorkersInv == \A w \in Workers : WorkerInv(w)
AttemptInv == AttemptTypeInv /\ WorkersInv /\ MemoInv /\ FragmentInv

-----------------------------------------------------------------------------
(* The operators. *)

LEMMA SourceType == ASSUME AttemptTypeInv, NEW w \in Workers
                    PROVE  /\ Source(w) \in Sources /\ work[w] \in Works
                           /\ defects[Source(w)] \subseteq Defect
                           /\ clumsy[work[w].target] \subseteq DriverError
  <1>1. work[w] \in Works
    BY DEF AttemptTypeInv
  <1>2. work[w].target \in Targets
    BY <1>1 DEF Works
  <1> QED
    BY <1>1, <1>2, AttemptAssumption DEF AttemptTypeInv, Source

LEMMA ErrorsType ==
  ASSUME AttemptTypeInv, NEW w \in Workers
  PROVE  /\ \A gcc \in BOOLEAN : CompileErrors(w, gcc) \subseteq Error /\ BuildErrors(w, gcc) \subseteq Error
         /\ LinkErrors(w) \subseteq Error /\ CheckErrors(w) \subseteq Error /\ RungErrors(w) \subseteq Error
  <1>1. /\ Source(w) \in Sources /\ work[w] \in Works /\ defects[Source(w)] \subseteq Defect
        /\ clumsy[work[w].target] \subseteq DriverError
    BY SourceType
  <1>2. ASSUME NEW gcc \in BOOLEAN PROVE CompileErrors(w, gcc) \subseteq Error
    BY <1>1 DEF CompileErrors, Error
  <1>3. LinkErrors(w) \subseteq Error
    BY <1>1 DEF LinkErrors, Error
  <1>4. work[w].alternate \in BOOLEAN
    BY <1>1 DEF Works
  <1>5. defects[Source(w)] \cap {"picky"} \subseteq Error
    BY <1>1 DEF Error
  <1> QED
    BY <1>2, <1>3, <1>4, <1>5 DEF BuildErrors, CheckErrors, RungErrors

LEMMA NoWorkType == NoWork \in Works /\ NoWork.at = "idle"
  <1>1. (CHOOSE t \in Targets : TRUE) \in Targets
    BY AttemptAssumption
  <1>2. NoLabel \in Label
    BY DEF NoLabel, Label, Fragment
  <1>3. [label |-> NoLabel, entries |-> {}] \in Memo
    BY <1>2 DEF Memo
  <1>4. 0 \in 0 .. MaxRounds
    BY AttemptAssumption
  <1> QED
    BY <1>1, <1>3, <1>4 DEF NoWork, Works, Places

(* A mishap is noted for the sources of some workers. *)
LEMMA NoteIs ==
  ASSUME AttemptTypeInv, NEW who \in SUBSET Workers,
         NEW what \in Reason, Note(what, who)
  PROVE  /\ mishaps \subseteq mishaps' /\ mishaps' \subseteq Mishap
         /\ \A v \in who : \E m \in mishaps' : m[1] = what /\ m[2] = Source(v)
  <1>1. mishaps' = mishaps \cup ({what} \X {Source(w) : w \in who})
    BY DEF Note
  <1>2. \A v \in who : Source(v) \in Sources
    BY SourceType
  <1>3. \A v \in who : /\ <<what, Source(v)>> \in mishaps'
                         /\ <<what, Source(v)>>[1] = what /\ <<what, Source(v)>>[2] = Source(v)
    BY <1>1
  <1>4. mishaps' \subseteq Mishap
    BY <1>1, <1>2 DEF Mishap, AttemptTypeInv
  <1> QED
    BY <1>1, <1>3, <1>4

(* The attempt of w ends with a built target. *)
LEMMA BuiltIs ==
  ASSUME AttemptTypeInv, NEW w \in Workers, Built(w)
  PROVE  /\ work' = [work EXCEPT ![w] = NoWork]
         /\ verdict' = [verdict EXCEPT ![work[w].target] = "built"]
         /\ mishaps \subseteq mishaps' /\ mishaps' \subseteq Mishap
         /\ "fcommon" \in defects[Source(w)] /\ Trying(w) # {}
              => \E m \in mishaps' : m[1] = "trial" /\ m[2] = Source(w)
  <1>1. CASE "fcommon" \in defects[Source(w)] /\ Trying(w) # {}
    <2>1. Note("trial", {w})
      BY <1>1 DEF Built
    <2> QED
      BY <2>1, NoteIs DEF Built, Reason
  <1>2. CASE ~("fcommon" \in defects[Source(w)] /\ Trying(w) # {})
    BY <1>2 DEF Built, AttemptTypeInv
  <1> QED
    BY <1>1, <1>2

(* A step of one attempt keeps the types if the new attempt has its own. *)
LEMMA WorkType ==
  ASSUME AttemptTypeInv, NEW w \in Workers, NEW x \in Works, work' = [work EXCEPT ![w] = x]
  PROVE  work' \in [Workers -> Works]
  BY DEF AttemptTypeInv

LEMMA FieldTypes ==
  ASSUME AttemptTypeInv, NEW w \in Workers
  PROVE  /\ work[w].at \in Places /\ work[w].target \in Targets /\ work[w].round \in 0 .. MaxRounds
         /\ work[w].alternate \in BOOLEAN /\ work[w].repaired \in SUBSET Defect
         /\ work[w].distrust \in BOOLEAN /\ work[w].errs \in SUBSET Error /\ work[w].memo \in Memo
         /\ work[w].memo.label \in Label /\ work[w].memo.entries \in SUBSET Sources
  <1>1. work[w] \in Works
    BY DEF AttemptTypeInv
  <1>2. work[w].memo \in Memo
    BY <1>1 DEF Works
  <1> QED
    BY <1>1, <1>2 DEF Works, Memo

-----------------------------------------------------------------------------
(* Types. *)

LEMMA TypeNext == AttemptTypeInv /\ [Next]_vars => AttemptTypeInv'
  <1> SUFFICES ASSUME AttemptTypeInv, [Next]_vars PROVE AttemptTypeInv'
    OBVIOUS
  <1> USE DEF world, project, run
  (* Most steps only change one attempt. *)
  <1>a. ASSUME UNCHANGED <<defects, clumsy, memo, runs, up, force, late>>, fragment' \in Fragment, compiler' \in BOOLEAN,
               dialects' \subseteq Targets, verdict' \in [Targets -> {"none", "built", "failed", "again"}],
               work' \in [Workers -> Works], mishaps' \subseteq Mishap
        PROVE  AttemptTypeInv'
    BY <1>a DEF AttemptTypeInv
  <1>b. ASSUME NEW w \in Workers, NEW place \in Places, NEW e \in SUBSET Error,
               GoTo(w, place) \/ Fails(w, e, place)
        PROVE  work' \in [Workers -> Works]
    <2>1. work \in [Workers -> Works]
      BY DEF AttemptTypeInv
    <2> QED
      BY <1>b, <2>1 DEF GoTo, Fails, Works
  <1>c. ASSUME NEW w \in Workers, Built(w)
        PROVE  /\ work' \in [Workers -> Works] /\ mishaps' \subseteq Mishap
               /\ verdict' \in [Targets -> {"none", "built", "failed", "again"}]
    BY <1>c, BuiltIs, NoWorkType DEF AttemptTypeInv
  <1>d. /\ fragment \in Fragment /\ compiler \in BOOLEAN /\ dialects \subseteq Targets
        /\ verdict \in [Targets -> {"none", "built", "failed", "again"}]
        /\ work \in [Workers -> Works] /\ mishaps \subseteq Mishap
        /\ defects \in [Sources -> SUBSET Defect] /\ clumsy \in [Targets -> SUBSET DriverError]
    BY DEF AttemptTypeInv
  <1>1. ASSUME NEW w \in Workers, NEW t \in Targets, Begin(w, t) PROVE AttemptTypeInv'
    <2>1. project_fingerprint \in Label
      BY DEF project_fingerprint, Label, AttemptTypeInv
    <2> DEFINE x == [work[w] EXCEPT !.at = "load", !.target = t, !.memo.label = project_fingerprint]
    <2>2. x \in Works
      <3>1. work[w] \in Works /\ work[w].memo \in Memo /\ "load" \in Places
        BY FieldTypes, SourceType DEF Places
      <3>2. [work[w].memo EXCEPT !.label = project_fingerprint] \in Memo
        BY <2>1, <3>1 DEF Memo
      <3> QED
        BY <3>1, <3>2 DEF Works
    <2>3. work' \in [Workers -> Works]
      <3>1. work' = [work EXCEPT ![w] = x]
        BY <1>1 DEF Begin
      <3> QED
        BY <2>2, <3>1, WorkType
    <2> QED
      BY <1>1, <1>a, <1>d, <2>3 DEF Begin
  <1>2. ASSUME NEW w \in Workers, Load(w) PROVE AttemptTypeInv'
    <2>1. Known(work[w].memo.label) \subseteq Sources
      BY DEF Known, Memo, AttemptTypeInv
    <2> DEFINE new == Known(work[w].memo.label)
    <2> DEFINE place == IF Source(w) \in new THEN "inherited" ELSE "round"
    <2> DEFINE x == [work[w] EXCEPT !.memo.entries = new, !.at = place]
    <2>2. x \in Works
      <3>1. work[w] \in Works /\ work[w].memo \in Memo /\ place \in Places
        BY FieldTypes, SourceType DEF Places
      <3>2. [work[w].memo EXCEPT !.entries = new] \in Memo
        BY <2>1, <3>1 DEF Memo
      <3> HIDE DEF new, place
      <3> QED
        BY <3>1, <3>2 DEF Works
    <2>3. work' \in [Workers -> Works]
      <3>1. work' = [work EXCEPT ![w] = x]
        BY <1>2 DEF Load
      <3> QED
        BY <2>2, <3>1, WorkType
    <2> QED
      BY <1>2, <1>a, <1>d, <2>3 DEF Load
  <1>3. ASSUME NEW w \in Workers, StartRound(w) PROVE AttemptTypeInv'
    <2> DEFINE place == IF work[w].round > 0 /\ ~work[w].distrust THEN "check" ELSE "build"
    <2> DEFINE x == [work[w] EXCEPT !.alternate = compiler, !.at = place]
    <2>1. x \in Works
      <3>1. work[w] \in Works /\ place \in Places
        BY SourceType DEF Places
      <3> HIDE DEF place
      <3> QED
        BY <1>d, <3>1 DEF Works
    <2>2. work' = [work EXCEPT ![w] = x]
      BY <1>3 DEF StartRound
    <2>3. work' \in [Workers -> Works]
      BY <2>1, <2>2, WorkType
    <2> QED
      BY <1>3, <1>a, <1>d, <2>3 DEF StartRound
  <1>4. ASSUME NEW w \in Workers, CutOff(w) PROVE AttemptTypeInv'
    <2>1. work' \in [Workers -> Works]
      BY <1>4, <1>b DEF CutOff, Places, Error
    <2>2. mishaps' \subseteq Mishap
      BY <1>4, NoteIs DEF CutOff, Reason, Hindrance
    <2> QED
      BY <1>4, <1>a, <1>d, <2>1, <2>2 DEF CutOff
  <1>5. ASSUME NEW w \in Workers, Check(w) PROVE AttemptTypeInv'
    <2>1. work' \in [Workers -> Works]
      BY <1>5, <1>b, ErrorsType DEF Check, Places, Failing
    <2> QED
      BY <1>5, <1>a, <1>d, <2>1 DEF Check
  <1>e. \A w \in Workers : work[w].alternate \in BOOLEAN /\ work[w].errs \subseteq Error /\ work[w].target \in Targets
    BY <1>d DEF Works
  <1>6. ASSUME NEW w \in Workers, Build(w) PROVE AttemptTypeInv'
    <2>1. BuildErrors(w, work[w].alternate) \subseteq Error
      BY <1>e, ErrorsType
    <2>2. CASE Built(w)
      BY <1>6, <1>a, <1>c, <1>d, <2>2 DEF Build
    <2>3. CASE Fails(w, BuildErrors(w, work[w].alternate), "compat") /\ UNCHANGED <<verdict, mishaps>>
      BY <1>6, <1>a, <1>b, <1>d, <2>1, <2>3 DEF Build, Places, Failing
    <2> QED
      BY <1>6, <2>2, <2>3 DEF Build
  <1>7. ASSUME NEW w \in Workers, Compat(w) PROVE AttemptTypeInv'
    <2>1. work' \in [Workers -> Works]
      BY <1>7, <1>b DEF Compat, Places, Failing
    <2>2. mishaps' \subseteq Mishap
      BY <1>7, <1>d, NoteIs DEF Compat, Reason, Hindrance
    <2> QED
      BY <1>7, <1>a, <1>d, <2>1, <2>2 DEF Compat
  <1>8. ASSUME NEW w \in Workers, WriteFragment(w) PROVE AttemptTypeInv'
    <2>1. work' \in [Workers -> Works]
      BY <1>8, <1>b DEF WriteFragment, Places, Failing
    <2>2. mishaps' \subseteq Mishap
      <3>1. Relying(w) \subseteq Workers
        BY DEF Relying, Trying
      <3> QED
        BY <1>8, <1>d, <3>1, NoteIs DEF WriteFragment, Reason, Hindrance
    <2>3. fragment' \in Fragment
      BY <1>8, <1>d DEF WriteFragment, Fragment
    <2> QED
      BY <1>8, <1>a, <1>d, <2>1, <2>2, <2>3 DEF WriteFragment
  <1>9. ASSUME NEW w \in Workers, Probe(w) PROVE AttemptTypeInv'
    <2> DEFINE e == BuildErrors(w, work[w].alternate)
    <2>1. e \subseteq Error /\ work[w].errs \subseteq Error
      BY <1>e, ErrorsType
    <2>2. CASE Built(w) /\ UNCHANGED fragment
      BY <1>9, <1>a, <1>c, <1>d, <2>2 DEF Probe
    <2>3. CASE /\ fragment' \in Fragment /\ UNCHANGED <<verdict, mishaps>>
               /\ \E x \in {e, work[w].errs} : Fails(w, x, "ladder")
      BY <1>9, <1>a, <1>b, <1>d, <2>1, <2>3 DEF Probe, Places, Failing
    <2>4. \/ Built(w) /\ UNCHANGED fragment
          \/ /\ fragment' \in Fragment /\ UNCHANGED <<verdict, mishaps>>
             /\ \E x \in {e, work[w].errs} : Fails(w, x, "ladder")
      BY <1>9, <1>d DEF Probe, Fragment
    <2> QED
      BY <2>2, <2>3, <2>4
  <1>10. ASSUME NEW w \in Workers, Ladder(w) PROVE AttemptTypeInv'
    <2>1. RungErrors(w) \subseteq Error /\ work[w].errs \subseteq Error
      BY <1>e, ErrorsType
    <2>2. CASE GoTo(w, "judge") /\ UNCHANGED <<dialects, verdict, mishaps>>
      BY <1>10, <1>a, <1>b, <1>d, <2>2 DEF Ladder, Places, Failing
    <2>3. CASE Built(w) /\ dialects' = dialects \cup {work[w].target}
      BY <1>10, <1>a, <1>c, <1>d, <1>e, <2>3 DEF Ladder
    <2>4. CASE (\E e \in ladder_best(w) : Fails(w, e, "fallback")) /\ UNCHANGED <<dialects, verdict, mishaps>>
      BY <1>10, <1>a, <1>b, <1>d, <2>1, <2>4 DEF Ladder, ladder_best, Places, Failing
    <2> QED
      BY <1>10, <2>2, <2>3, <2>4 DEF Ladder
  <1>11. ASSUME NEW w \in Workers, Fallback(w) PROVE AttemptTypeInv'
    <2>1. CASE Built(w) /\ compiler' = TRUE
      BY <1>11, <1>a, <1>c, <1>d, <2>1 DEF Fallback
    <2>2. CASE GoTo(w, "judge") /\ UNCHANGED <<compiler, verdict>> /\ (Note("compiler", {w}) \/ UNCHANGED mishaps)
      <3>1. mishaps' \subseteq Mishap
        BY <1>d, <2>2, NoteIs DEF Reason, Hindrance
      <3> QED
        BY <1>11, <1>a, <1>b, <1>d, <2>2, <3>1 DEF Fallback, Places, Failing
    <2> QED
      BY <1>11, <2>1, <2>2 DEF Fallback
  <1>12. ASSUME NEW w \in Workers, Judge(w) PROVE AttemptTypeInv'
    <2>1. CASE GoTo(w, "record")
      BY <1>12, <1>a, <1>b, <1>d, <2>1 DEF Judge, Places
    <2>2. ASSUME ~AtCap(w), NEW cured \in SUBSET Defect, NEW wary \in BOOLEAN, NextRound(w, cured, wary)
          PROVE  AttemptTypeInv'
      <3>1. work[w].round + 1 \in 0 .. MaxRounds
        <4>1. work[w].round \in 0 .. MaxRounds /\ work[w].round # MaxRounds
          BY <2>2, FieldTypes DEF AtCap
        <4> QED
          BY <4>1, AttemptAssumption
      <3>2. work' \in [Workers -> Works]
        BY <1>d, <2>2, <3>1 DEF NextRound, Works, Places
      <3> QED
        BY <1>12, <1>a, <1>d, <3>2 DEF Judge
    <2>3. Repairable(work[w].errs) \subseteq Defect /\ work[w].distrust \in BOOLEAN
      BY <1>d DEF Repairable, Defect, Works
    <2> QED
      BY <1>12, <2>1, <2>2, <2>3 DEF Judge
  <1>13. ASSUME NEW w \in Workers, Record(w) PROVE AttemptTypeInv'
    <2>1. work' \in [Workers -> Works]
      <3>1. CASE GoTo(w, "saving")
        BY <1>b, <3>1 DEF Places
      <3>2. ASSUME NEW new \in SUBSET Sources,
                   work' = [work EXCEPT ![w].at = "saving", ![w].memo.entries = @ \cup new]
            PROVE  work' \in [Workers -> Works]
        <4>1. work[w] \in Works /\ work[w].memo \in Memo /\ "saving" \in Places
          BY FieldTypes, SourceType DEF Places
        <4>2. [work[w].memo EXCEPT !.entries = @ \cup new] \in Memo
          BY <4>1 DEF Memo
        <4>3. [work[w] EXCEPT !.at = "saving", !.memo.entries = @ \cup new] \in Works
          BY <4>1, <4>2 DEF Works
        <4>4. work' = [work EXCEPT ![w] = [work[w] EXCEPT !.at = "saving", !.memo.entries = @ \cup new]]
          BY <3>2
        <4> QED
          BY <4>3, <4>4, WorkType
      <3>3. \A scoped \in BOOLEAN : (IF scoped THEN {Source(w)} ELSE {}) \in SUBSET Sources
        BY SourceType
      <3>4. CASE \E scoped \in BOOLEAN :
                   work' = [work EXCEPT ![w].at = "saving",
                              ![w].memo.entries = @ \cup (IF scoped THEN {Source(w)} ELSE {})]
        BY <3>2, <3>3, <3>4
      <3> QED
        BY <1>13, <3>1, <3>4 DEF Record
    <2>2. mishaps' \subseteq Mishap
      BY <1>13, <1>d, NoteIs DEF Record, Reason
    <2> QED
      BY <1>13, <2>1, <2>2 DEF Record, AttemptTypeInv
  <1>14. ASSUME NEW w \in Workers, Save(w) PROVE AttemptTypeInv'
    <2>1. work' \in [Workers -> Works] /\ verdict' \in [Targets -> {"none", "built", "failed", "again"}]
      BY <1>14, <1>d, NoWorkType DEF Save
    <2>2. work[w].memo \in Memo
      BY <1>d DEF Works
    <2> QED
      BY <1>14, <2>1, <2>2 DEF Save, AttemptTypeInv
  <1>15. ASSUME DeadlinePasses PROVE AttemptTypeInv'
    BY <1>15 DEF DeadlinePasses, AttemptTypeInv
  <1>16. ASSUME ForcedPhase PROVE AttemptTypeInv'
    BY <1>16 DEF ForcedPhase, AttemptTypeInv
  <1>17. ASSUME Kill PROVE AttemptTypeInv'
    BY <1>17, NoWorkType DEF Kill, AttemptTypeInv
  <1>18. ASSUME NEW resume \in BOOLEAN, NEW mended \in SUBSET Sources, StartRun(resume, mended)
         PROVE  AttemptTypeInv'
    <2>1. runs' \in 1 .. MaxRuns
      BY <1>18, AttemptAssumption DEF StartRun, AttemptTypeInv
    <2>2. defects' \in [Sources -> SUBSET Defect] /\ UNCHANGED <<clumsy, compiler, work>>
      BY <1>18, <1>d DEF StartRun
    <2>3. /\ fragment' \in Fragment /\ dialects' \subseteq Targets /\ memo' \subseteq Memo /\ \A m, n \in memo' : m = n
          /\ up' \in BOOLEAN /\ force' \in BOOLEAN /\ late' \in BOOLEAN
      BY <1>18 DEF StartRun, refresh_regenerable_state, AttemptTypeInv, Fragment
    <2>4. verdict' \in [Targets -> {"none", "built", "failed", "again"}] /\ mishaps' \subseteq Mishap
      BY <1>18, <1>d DEF StartRun, Mishap, Reason
    <2> QED
      BY <1>d, <2>1, <2>2, <2>3, <2>4 DEF AttemptTypeInv
  <1>19. ASSUME UNCHANGED vars PROVE AttemptTypeInv'
    BY <1>19 DEF vars, AttemptTypeInv
  <1> QED
    BY <1>1, <1>2, <1>3, <1>4, <1>5, <1>6, <1>7, <1>8, <1>9, <1>10, <1>11, <1>12, <1>13, <1>14,
       <1>15, <1>16, <1>17, <1>18, <1>19 DEF Next, Step

-----------------------------------------------------------------------------
(* What one attempt means to the others. *)

(* The sources stay as they are, the compiler once settled stays settled,   *)
(* and no mishap is forgotten.                                              *)
Calm ==
  /\ UNCHANGED <<defects, clumsy, force>>
  /\ compiler => compiler'
  /\ mishaps \subseteq mishaps'

LEMMA ExcusesStay ==
  ASSUME mishaps \subseteq mishaps', NEW s
  PROVE  /\ Hindered(s) => Hindered(s)'
         /\ Misled(s) => Misled(s)'
         /\ Trialled(s) => Trialled(s)'
  BY DEF Excused, Hindered, Misled, Trialled

LEMMA BuildsStay ==
  ASSUME Calm, NEW s \in Sources, NEW f \in BOOLEAN
  PROVE  Builds(s, f)' => Builds(s, f)
  BY DEF Calm, Builds, Rounds

(* Hope may vanish during an attempt, but it does not appear. *)
LEMMA HopeStays ==
  ASSUME Calm, AttemptTypeInv, NEW w \in Workers, work'[w].target = work[w].target
  PROVE  /\ Source(w)' = Source(w) /\ defects'[Source(w)] = defects[Source(w)]
         /\ Hindered(Source(w)) => Hindered(Source(w))'
         /\ Hopeful(w)' => Hopeful(w)
  <1>1. Source(w)' = Source(w)
    BY DEF Source
  <1>2. Source(w) \in Sources /\ force \in BOOLEAN
    BY SourceType DEF AttemptTypeInv
  <1>3. Hindered(Source(w)) => Hindered(Source(w))'
    BY <1>1 DEF Calm, Excused, Hindered
  <1>4. Builds(Source(w), force)' => Builds(Source(w), force)
    BY <1>1 DEF Calm, Builds, Rounds
  <1> QED
    BY <1>1, <1>3, <1>4 DEF Hopeful, Calm

(* What the attempt has loaded stays true. *)
LEMMA EntriesStay ==
  ASSUME AttemptTypeInv, Calm, NEW w \in Workers, WorkerInv(w), NEW s \in work[w].memo.entries
  PROVE  ~Builds(s, force)' \/ Misled(s)'
  <1>1. s \in Sources /\ force \in BOOLEAN
    BY FieldTypes DEF AttemptTypeInv
  <1>2. ~Builds(s, force) \/ Misled(s)
    BY DEF WorkerInv, LoadedInv
  <1> QED
    BY <1>1, <1>2, ExcusesStay, BuildsStay DEF Calm, Builds, Rounds

(* What another worker does leaves the attempt of v where it is. *)
LEMMA OthersKeep ==
  ASSUME AttemptTypeInv, Calm, NEW v \in Workers, work'[v] = work[v], WorkerInv(v)
  PROVE  WorkerInv(v)'
  <1>1. /\ Source(v)' = Source(v) /\ defects'[Source(v)] = defects[Source(v)]
        /\ Hindered(Source(v)) => Hindered(Source(v))'
        /\ Hopeful(v)' => Hopeful(v)
    BY HopeStays
  <1>2. \A place : At(v, place)' <=> At(v, place)
    BY DEF At
  <1>3. RoundInv(v)'
    BY <1>1, <1>2 DEF WorkerInv, RoundInv, Calm, Doubt
  <1>4. Shows(v)' = Shows(v) /\ Plan(v)' = Plan(v)
    BY <1>1 DEF Shows, Plan, CompileErrors, Repairable, Showing, Calm
  <1>5. StationInv(v)'
    BY <1>1, <1>2, <1>4 DEF WorkerInv, StationInv, Doubt, Wanting
  <1>6. LoadedInv(v)'
    <2>1. \A s \in work[v].memo.entries : ~Builds(s, force)' \/ Misled(s)'
      BY <1>1, EntriesStay
    <2> QED
      BY <1>1, <1>2, <2>1 DEF WorkerInv, LoadedInv, Calm
  <1> QED
    BY <1>3, <1>5, <1>6 DEF WorkerInv

(* A worker without an attempt claims nothing. *)
LEMMA NoWorkInv ==
  ASSUME NEW w \in Workers, work'[w] = NoWork
  PROVE  WorkerInv(w)'
  <1>1. /\ work'[w].at = "idle" /\ work'[w].repaired = {} /\ work'[w].round = 0
        /\ work'[w].distrust = FALSE /\ work'[w].alternate = FALSE /\ work'[w].memo.entries = {}
    BY DEF NoWork
  <1>2. RoundInv(w)'
    BY <1>1, FS_EmptySet DEF RoundInv, At, Failing
  <1>3. StationInv(w)'
    BY <1>1 DEF StationInv, At
  <1>4. LoadedInv(w)'
    BY <1>1 DEF LoadedInv, At
  <1> QED
    BY <1>2, <1>3, <1>4 DEF WorkerInv

-----------------------------------------------------------------------------
(* The steps of one attempt. *)

(* The attempt moves on within its round. *)
SameRound(w) ==
  /\ work'[w].target = work[w].target /\ work'[w].round = work[w].round
  /\ work'[w].alternate = work[w].alternate /\ work'[w].repaired = work[w].repaired
  /\ work'[w].distrust = work[w].distrust /\ work'[w].memo = work[w].memo

(* The errors at hand are of this source. *)
Sound(w, e) == e \cap Cured \subseteq defects[Source(w)] \ work[w].repaired
Frank(w, e) == clumsy[work[w].target] \subseteq e \/ Hindered(Source(w))

LEMMA MovesAre ==
  ASSUME AttemptTypeInv, NEW w \in Workers, NEW e, NEW place
  PROVE  /\ GoTo(w, place) => /\ work'[w] = [work[w] EXCEPT !.at = place]
                              /\ SameRound(w) /\ work'[w].at = place /\ work'[w].errs = work[w].errs
                              /\ \A v \in Workers \ {w} : work'[v] = work[v]
         /\ Fails(w, e, place) => /\ work'[w] = [work[w] EXCEPT !.at = place, !.errs = e]
                                  /\ SameRound(w) /\ work'[w].at = place /\ work'[w].errs = e
                                  /\ \A v \in Workers \ {w} : work'[v] = work[v]
  <1>1. work[w] \in Works /\ work \in [Workers -> Works]
    BY DEF AttemptTypeInv
  <1>2. ASSUME GoTo(w, place)
        PROVE  /\ work'[w] = [work[w] EXCEPT !.at = place]
               /\ \A v \in Workers \ {w} : work'[v] = work[v]
    BY <1>1, <1>2 DEF GoTo
  <1>3. ASSUME Fails(w, e, place)
        PROVE  /\ work'[w] = [work[w] EXCEPT !.at = place, !.errs = e]
               /\ \A v \in Workers \ {w} : work'[v] = work[v]
    BY <1>1, <1>3 DEF Fails
  <1>4. ASSUME work'[w] = [work[w] EXCEPT !.at = place]
        PROVE  SameRound(w) /\ work'[w].at = place /\ work'[w].errs = work[w].errs
    BY <1>1, <1>4 DEF SameRound, Works
  <1>5. ASSUME work'[w] = [work[w] EXCEPT !.at = place, !.errs = e]
        PROVE  SameRound(w) /\ work'[w].at = place /\ work'[w].errs = e
    BY <1>1, <1>5 DEF SameRound, Works
  <1> QED
    BY <1>2, <1>3, <1>4, <1>5

(* Only the station has to be looked at then. *)
LEMMA RoundGoesOn ==
  ASSUME AttemptTypeInv, Calm, NEW w \in Workers, WorkerInv(w), SameRound(w), ~At(w, "idle"),
         work'[w].at \notin {"idle", "check", "inherited"},
         work'[w].at \in Failing => Sound(w, work'[w].errs),
         work'[w].at \in Failing \cup {"record"} =>
           clumsy[work[w].target] \subseteq work'[w].errs \/ Hindered(Source(w))'
  PROVE  /\ RoundInv(w)' /\ LoadedInv(w)'
         /\ Shows(w)' = Shows(w) /\ Source(w)' = Source(w)
         /\ Hopeful(w)' => Hopeful(w)
         /\ defects'[Source(w)] = defects[Source(w)]
         /\ Doubt(w)' = Doubt(w)
  <1>1. /\ Source(w)' = Source(w) /\ defects'[Source(w)] = defects[Source(w)]
        /\ Hindered(Source(w)) => Hindered(Source(w))'
        /\ Hopeful(w)' => Hopeful(w)
    BY HopeStays DEF SameRound
  <1>2. Shows(w)' = Shows(w)
    BY <1>1 DEF Shows, CompileErrors, Showing, Calm, SameRound
  <1>3. Doubt(w)' = Doubt(w)
    BY DEF Doubt, SameRound
  <1>4. RoundInv(w)'
    BY <1>1 DEF WorkerInv, RoundInv, SameRound, Sound, At, Calm
  <1>5. LoadedInv(w)'
    <2>1. \A s \in work[w].memo.entries : ~Builds(s, force)' \/ Misled(s)'
      BY <1>1, EntriesStay
    <2> QED
      BY <2>1 DEF WorkerInv, LoadedInv, Calm, SameRound, At
  <1> QED
    BY <1>1, <1>2, <1>3, <1>4, <1>5

(* What a build or a check reports is of the source, and a wrong driver     *)
(* always shows.                                                            *)
LEMMA ReportsAreSound ==
  ASSUME AttemptTypeInv, NEW w \in Workers
  PROVE  /\ \A gcc \in BOOLEAN :
              /\ Sound(w, CompileErrors(w, gcc)) /\ Frank(w, CompileErrors(w, gcc))
              /\ Sound(w, BuildErrors(w, gcc)) /\ Frank(w, BuildErrors(w, gcc))
         /\ Sound(w, CheckErrors(w)) /\ Frank(w, CheckErrors(w))
         /\ Sound(w, RungErrors(w)) /\ Frank(w, RungErrors(w))
  <1> DEFINE d == defects[Source(w)]
  <1>1. /\ d \subseteq Defect /\ work[w].alternate \in BOOLEAN
        /\ clumsy[work[w].target] \subseteq DriverError
    BY SourceType, FieldTypes
  <1>2. ASSUME NEW gcc \in BOOLEAN
        PROVE  /\ Sound(w, CompileErrors(w, gcc))
               /\ clumsy[work[w].target] \subseteq CompileErrors(w, gcc)
    BY <1>1 DEF Sound, CompileErrors, Cured, DriverError
  <1>3. Sound(w, LinkErrors(w))
    BY DEF Sound, LinkErrors, Cured
  <1>4. Sound(w, CheckErrors(w)) /\ Frank(w, CheckErrors(w))
    BY <1>1, <1>2 DEF Sound, Frank, CheckErrors, Cured
  <1>5. Sound(w, RungErrors(w)) /\ Frank(w, RungErrors(w))
    BY <1>1, <1>2, <1>3 DEF Sound, Frank, RungErrors, DriverError
  <1> QED
    BY <1>2, <1>3, <1>4, <1>5 DEF BuildErrors, Frank

(* What a hopeful attempt knows of its source. *)
LEMMA HopeMeans ==
  ASSUME AttemptTypeInv, NEW w \in Workers, WorkerInv(w), Hopeful(w)
  PROVE  /\ "dup" \notin defects[Source(w)]
         /\ "clang" \notin Shows(w) /\ ("stub" \in defects[Source(w)] => force)
         /\ \A e : Repairable(e) = {} /\ e \subseteq Shows(w) => e \subseteq {"gcc", "old"}
         /\ Shows(w) \cap {"fcommon", "dup", "undef", "picky"} = {}
  <1>1. /\ "dup" \notin defects[Source(w)] /\ ("stub" \in defects[Source(w)] => force)
        /\ ("clang" \in defects[Source(w)] => ~compiler) /\ clumsy[work[w].target] = {}
    BY DEF Hopeful, Builds
  <1>2. work[w].alternate => compiler
    BY DEF WorkerInv, RoundInv
  <1>3. /\ Shows(w) \subseteq {"gcc", "old", "missing", "stub", "deep"}
        /\ "stub" \in Shows(w) => "stub" \in defects[Source(w)]
    BY <1>1, <1>2 DEF Shows, CompileErrors, Showing
  <1> QED
    BY <1>1, <1>3 DEF Repairable

(* Only the project, the run and the verdicts change, or the attempt of w. *)
LEMMA StepsAreCalm ==
  ASSUME AttemptTypeInv, NEW w \in Workers, Step(w) \/ \E t \in Targets : Begin(w, t)
  PROVE  Calm
  <1> USE DEF world, project, run
  <1>1. ASSUME mishaps \subseteq mishaps', UNCHANGED <<defects, clumsy, force>>, compiler' = compiler \/ compiler'
        PROVE  Calm
    BY <1>1 DEF Calm
  <1>2. CASE \E t \in Targets : Begin(w, t)
    BY <1>1, <1>2 DEF Begin
  <1>3. CASE Load(w) \/ StartRound(w) \/ Check(w) \/ Judge(w) \/ Save(w)
    BY <1>1, <1>3 DEF Load, StartRound, Check, Judge, Save
  <1>4. CASE CutOff(w) \/ Record(w)
    BY <1>1, <1>4 DEF CutOff, Record, Note
  <1>5. CASE Build(w)
    BY <1>1, <1>5, BuiltIs DEF Build
  <1>6. CASE Compat(w)
    BY <1>1, <1>6 DEF Compat, Note
  <1>7. CASE WriteFragment(w)
    BY <1>1, <1>7 DEF WriteFragment, Note
  <1>8. CASE Probe(w)
    BY <1>1, <1>8, BuiltIs DEF Probe
  <1>9. CASE Ladder(w)
    BY <1>1, <1>9, BuiltIs DEF Ladder
  <1>10. CASE Fallback(w)
    BY <1>1, <1>10, BuiltIs DEF Fallback, Note
  <1> QED
    BY <1>2, <1>3, <1>4, <1>5, <1>6, <1>7, <1>8, <1>9, <1>10 DEF Step

(* A mishap takes the hope away. *)
LEMMA NoteExcuses ==
  ASSUME AttemptTypeInv, NEW w \in Workers, work'[w].target = work[w].target,
         NEW who \in SUBSET Workers, w \in who,
         NEW what \in Hindrance, Note(what, who)
  PROVE  Hindered(Source(w))' /\ ~Hopeful(w)'
  <1>1. Source(w)' = Source(w)
    BY DEF Source
  <1>2. what \in Reason
    BY DEF Reason
  <1>3. \E m \in mishaps' : m[1] = what /\ m[2] = Source(w)
    BY <1>2, NoteIs
  <1> QED
    BY <1>1, <1>3 DEF Excused, Hindered, Hopeful

LEMMA CheckKeeps ==
  ASSUME AttemptInv, Calm, NEW w \in Workers, Check(w)
  PROVE  WorkerInv(w)'
  <1> DEFINE e == CheckErrors(w)
  <1>1. AttemptTypeInv /\ WorkerInv(w) /\ At(w, "check") /\ Doubt(w)
    BY DEF AttemptInv, WorkersInv, WorkerInv, RoundInv, Check
  <1>2. SameRound(w) /\ work'[w].errs = e /\ work'[w].at = (IF e # {} THEN "judge" ELSE "build")
    BY <1>1, MovesAre DEF Check
  <1>3. Sound(w, e) /\ Frank(w, e)
    BY <1>1, ReportsAreSound
  <1>4. Hindered(Source(w)) => Hindered(Source(w))'
    BY <1>1, <1>2, HopeStays DEF SameRound
  <1>5. /\ RoundInv(w)' /\ LoadedInv(w)' /\ Shows(w)' = Shows(w) /\ Source(w)' = Source(w)
        /\ Hopeful(w)' => Hopeful(w)
        /\ defects'[Source(w)] = defects[Source(w)] /\ Doubt(w)' = Doubt(w)
    <2>1. ~At(w, "idle") /\ work'[w].at \notin {"idle", "check", "inherited"}
      BY <1>1, <1>2 DEF At
    <2> HIDE DEF e
    <2> QED
      BY <1>1, <1>2, <1>3, <1>4, <2>1, RoundGoesOn DEF Frank
  <1>6. StationInv(w)'
    <2> SUFFICES ASSUME Hopeful(w), Hopeful(w)'
                 PROVE  /\ work[w].distrust => defects[Source(w)] \cap {"gcc", "old", "picky"} # {}
                        /\ e # {} /\ Repairable(e) = {} => defects[Source(w)] \cap {"gcc", "old", "picky"} # {}
      BY <1>1, <1>2, <1>5 DEF StationInv, At, SameRound, Plan, Repairable, Calm
    <2>1. work[w].distrust => defects[Source(w)] \cap {"gcc", "old", "picky"} # {}
      BY <1>1 DEF WorkerInv, StationInv
    <2>2. ASSUME e # {}, Repairable(e) = {} PROVE defects[Source(w)] \cap {"gcc", "old", "picky"} # {}
      <3>1. Repairable(Shows(w)) = {}
        BY <2>2 DEF CheckErrors, Shows, Repairable
      <3>2. Shows(w) \subseteq {"gcc", "old"}
        BY <1>1, <3>1, HopeMeans
      <3>3. Shows(w) \cap {"gcc", "old"} \subseteq defects[Source(w)]
        BY DEF Shows, CompileErrors, Hopeful
      <3> QED
        BY <2>2, <3>2, <3>3 DEF CheckErrors, Shows
    <2> QED
      BY <2>1, <2>2
  <1> QED
    BY <1>5, <1>6 DEF WorkerInv

LEMMA BuildKeeps ==
  ASSUME AttemptInv, Calm, NEW w \in Workers, Build(w)
  PROVE  WorkerInv(w)'
  <1> DEFINE e == BuildErrors(w, work[w].alternate)
  <1>1. AttemptTypeInv /\ WorkerInv(w) /\ At(w, "build") /\ work[w].alternate \in BOOLEAN
    BY FieldTypes DEF AttemptInv, WorkersInv, Build
  <1>2. CASE Built(w)
    BY <1>1, <1>2, BuiltIs, NoWorkInv DEF AttemptTypeInv
  <1>3. CASE e # {} /\ Fails(w, e, "compat")
    <2>1. SameRound(w) /\ work'[w].errs = e /\ work'[w].at = "compat"
      BY <1>1, <1>3, MovesAre
    <2>2. Sound(w, e) /\ Frank(w, e)
      BY <1>1, ReportsAreSound
    <2>3. Hindered(Source(w)) => Hindered(Source(w))'
      BY <1>1, <2>1, HopeStays DEF SameRound
    <2>4. /\ RoundInv(w)' /\ LoadedInv(w)' /\ Shows(w)' = Shows(w) /\ Source(w)' = Source(w)
          /\ Hopeful(w)' => Hopeful(w)
          /\ defects'[Source(w)] = defects[Source(w)]
      <3>1. ~At(w, "idle")
        BY <1>1 DEF At
      <3> HIDE DEF e
      <3> QED
        BY <1>1, <2>1, <2>2, <2>3, <3>1, RoundGoesOn DEF Frank
    <2>5. StationInv(w)'
      <3> SUFFICES ASSUME Hopeful(w)
                   PROVE  /\ work[w].distrust => defects[Source(w)] \cap {"gcc", "old", "picky"} # {}
                          /\ \/ e = Shows(w)
                             \/ Shows(w) = {} /\ e \subseteq Wanting(w)
        BY <1>3, <2>1, <2>4 DEF StationInv, At, SameRound, Wanting
      <3>1. "dup" \notin defects[Source(w)]
        BY <1>1, HopeMeans
      <3>2. LinkErrors(w) \subseteq Wanting(w)
        BY <3>1 DEF LinkErrors, Wanting
      <3> QED
        BY <1>1, <3>2 DEF WorkerInv, StationInv, BuildErrors, Shows
    <2> QED
      BY <2>4, <2>5 DEF WorkerInv
  <1> QED
    BY <1>2, <1>3 DEF Build

LEMMA CompatKeeps ==
  ASSUME AttemptInv, Calm, NEW w \in Workers, Compat(w)
  PROVE  WorkerInv(w)'
  <1>1. AttemptTypeInv /\ WorkerInv(w) /\ At(w, "compat")
    BY DEF AttemptInv, WorkersInv, Compat
  <1>2. /\ SameRound(w) /\ work'[w].errs = work[w].errs
        /\ work'[w].at = (IF TriesFragment(w) THEN "write" ELSE "ladder")
    BY <1>1, MovesAre DEF Compat
  <1>3. /\ Sound(w, work[w].errs)
        /\ clumsy[work[w].target] \subseteq work[w].errs \/ Hindered(Source(w))
    BY <1>1 DEF WorkerInv, RoundInv, At, Failing, Sound
  <1>4. Hindered(Source(w)) => Hindered(Source(w))'
    BY <1>1, <1>2, HopeStays DEF SameRound
  <1>5. /\ RoundInv(w)' /\ LoadedInv(w)' /\ Shows(w)' = Shows(w) /\ Source(w)' = Source(w)
        /\ Hopeful(w)' => Hopeful(w)
        /\ defects'[Source(w)] = defects[Source(w)]
    <2>1. ~At(w, "idle") /\ work'[w].at \notin {"idle", "check", "inherited"}
      BY <1>1, <1>2 DEF At
    <2> QED
      BY <1>1, <1>2, <1>3, <1>4, <2>1, RoundGoesOn
  <1>6. StationInv(w)'
    <2> SUFFICES ASSUME Hopeful(w), Hopeful(w)'
                 PROVE  /\ work[w].distrust => defects[Source(w)] \cap {"gcc", "old", "picky"} # {}
                        /\ TriesFragment(w) => Shows(w) = {} /\ "fcommon" \in defects[Source(w)]
                        /\ ~TriesFragment(w) => /\ work[w].errs # {}
                                                /\ work[w].errs = Shows(w) \/ work[w].errs \subseteq {"undef"}
      BY <1>2, <1>5 DEF StationInv, At, SameRound
    <2>1. /\ work[w].distrust => defects[Source(w)] \cap {"gcc", "old", "picky"} # {}
          /\ work[w].errs # {}
          /\ \/ work[w].errs = Shows(w)
             \/ Shows(w) = {} /\ work[w].errs \subseteq {"undef", "fcommon"} \cap defects[Source(w)]
      BY <1>1 DEF WorkerInv, StationInv, Wanting
    <2>2. Shows(w) \cap {"fcommon", "dup"} = {}
      BY <1>1, HopeMeans
    <2>3. TriesFragment(w) => Shows(w) = {} /\ "fcommon" \in defects[Source(w)]
      BY <2>1, <2>2 DEF TriesFragment, output_may_require_fcommon
    <2>4. ~("fcommon" \in work[w].errs /\ fragment # "absent")
      <3> SUFFICES ASSUME "fcommon" \in work[w].errs /\ fragment # "absent" PROVE FALSE
        OBVIOUS
      <3>1. Note("fragment", {w})
        BY DEF Compat
      <3> QED
        BY <1>1, <1>2, <3>1, NoteExcuses DEF SameRound, Hindrance
    <2>5. ~TriesFragment(w) => "fcommon" \notin work[w].errs
      BY <2>4 DEF TriesFragment, output_may_require_fcommon
    <2> QED
      BY <2>1, <2>3, <2>5
  <1> QED
    BY <1>5, <1>6 DEF WorkerInv

LEMMA WriteKeeps ==
  ASSUME AttemptInv, Calm, NEW w \in Workers, WriteFragment(w)
  PROVE  WorkerInv(w)'
  <1>1. AttemptTypeInv /\ WorkerInv(w) /\ At(w, "write")
    BY DEF AttemptInv, WorkersInv, WriteFragment
  <1>2. /\ SameRound(w) /\ work'[w].errs = work[w].errs
        /\ \/ work'[w].at = "probe"
           \/ work'[w].at = "ladder" /\ Note("unwritten", Relying(w))
    BY <1>1, MovesAre DEF WriteFragment
  <1>3. /\ Sound(w, work[w].errs)
        /\ clumsy[work[w].target] \subseteq work[w].errs \/ Hindered(Source(w))
    BY <1>1 DEF WorkerInv, RoundInv, At, Failing, Sound
  <1>4. Hindered(Source(w)) => Hindered(Source(w))'
    BY <1>1, <1>2, HopeStays DEF SameRound
  <1>5. /\ RoundInv(w)' /\ LoadedInv(w)' /\ Shows(w)' = Shows(w) /\ Source(w)' = Source(w)
        /\ Hopeful(w)' => Hopeful(w)
        /\ defects'[Source(w)] = defects[Source(w)]
    <2>1. ~At(w, "idle") /\ work'[w].at \notin {"idle", "check", "inherited"}
      BY <1>1, <1>2 DEF At
    <2> QED
      BY <1>1, <1>2, <1>3, <1>4, <2>1, RoundGoesOn
  (* A hopeful attempt is here for the fragment, so a failed write hinders it. *)
  <1>6. ASSUME Hopeful(w), Hopeful(w)' PROVE work'[w].at = "probe"
    <2> SUFFICES ASSUME Note("unwritten", Relying(w)) PROVE FALSE
      BY <1>2
    <2>1. "fcommon" \in defects[Source(w)]
      BY <1>1, <1>6 DEF WorkerInv, StationInv
    <2>2. w \in Relying(w) /\ Relying(w) \subseteq Workers
      BY <2>1 DEF Relying, Trying
    <2>3. "unwritten" \in Hindrance
      BY DEF Hindrance
    <2> QED
      BY <1>1, <1>2, <1>6, <2>2, <2>3, NoteExcuses DEF SameRound
  <1>7. StationInv(w)'
    BY <1>1, <1>2, <1>5, <1>6 DEF WorkerInv, StationInv, At, SameRound
  <1> QED
    BY <1>5, <1>7 DEF WorkerInv

(* A fragment that stays during the trial leaves nothing but an undefined   *)
(* symbol.                                                                  *)
LEMMA ProbeKeeps ==
  ASSUME AttemptInv, Calm, NEW w \in Workers, Probe(w)
  PROVE  WorkerInv(w)'
  <1> DEFINE e == BuildErrors(w, work[w].alternate)
  <1> DEFINE x == IF ~output_may_require_fcommon(e) THEN e ELSE work[w].errs
  <1>1. AttemptTypeInv /\ WorkerInv(w) /\ At(w, "probe") /\ work[w].alternate \in BOOLEAN
    BY FieldTypes DEF AttemptInv, WorkersInv, Probe
  <1>2. CASE Built(w)
    BY <1>1, <1>2, BuiltIs, NoWorkInv DEF AttemptTypeInv
  <1>3. CASE e # {} /\ Fails(w, x, "ladder")
    <2>1. SameRound(w) /\ work'[w].errs = x /\ work'[w].at = "ladder"
      BY <1>1, <1>3, MovesAre
    <2>2. Sound(w, x) /\ Frank(w, x)
      <3>1. Sound(w, e) /\ Frank(w, e)
        BY <1>1, ReportsAreSound
      <3>2. Sound(w, work[w].errs) /\ Frank(w, work[w].errs)
        BY <1>1 DEF WorkerInv, RoundInv, At, Failing, Sound, Frank
      <3> HIDE DEF e
      <3> QED
        BY <3>1, <3>2
    <2>3. Hindered(Source(w)) => Hindered(Source(w))'
      BY <1>1, <2>1, HopeStays DEF SameRound
    <2>4. /\ RoundInv(w)' /\ LoadedInv(w)' /\ Shows(w)' = Shows(w) /\ Source(w)' = Source(w)
          /\ Hopeful(w)' => Hopeful(w)
          /\ defects'[Source(w)] = defects[Source(w)]
      <3>1. ~At(w, "idle")
        BY <1>1 DEF At
      <3> HIDE DEF x
      <3> QED
        BY <1>1, <2>1, <2>2, <2>3, <3>1, RoundGoesOn DEF Frank
    <2>5. StationInv(w)'
      <3> SUFFICES ASSUME Hopeful(w)
                   PROVE  /\ work[w].distrust => defects[Source(w)] \cap {"gcc", "old", "picky"} # {}
                          /\ x # {} /\ x \subseteq {"undef"}
        BY <2>1, <2>4 DEF StationInv, At, SameRound
      <3>1. /\ "dup" \notin defects[Source(w)] /\ Shows(w) = {}
            /\ "fcommon" \in defects[Source(w)] => fragment = "fcommon"
        <4>1. ~Hindered(Source(w))
          BY DEF Hopeful
        <4> QED
          BY <1>1, <4>1, HopeMeans DEF WorkerInv, StationInv, AttemptInv, FragmentInv
      <3>2. e \subseteq {"undef"}
        BY <3>1 DEF BuildErrors, Shows, LinkErrors
      <3>3. x = e
        BY <3>2 DEF output_may_require_fcommon
      <3> QED
        BY <1>1, <1>3, <3>2, <3>3 DEF WorkerInv, StationInv
    <2> QED
      BY <2>4, <2>5 DEF WorkerInv
  <1> QED
    BY <1>2, <1>3 DEF Probe

(* An older standard is tried only on what a compiler reports, and either   *)
(* builds the target or leaves the other errors.                            *)
LEMMA LadderKeeps ==
  ASSUME AttemptInv, Calm, NEW w \in Workers, Ladder(w)
  PROVE  WorkerInv(w)'
  <1>1. AttemptTypeInv /\ WorkerInv(w) /\ At(w, "ladder") /\ ~At(w, "idle")
    BY DEF AttemptInv, WorkersInv, Ladder, At
  <1>2. CASE Built(w)
    BY <1>1, <1>2, BuiltIs, NoWorkInv DEF AttemptTypeInv
  <1>3. ASSUME NEW x \in {work[w].errs, RungErrors(w)}, NEW place \in {"judge", "fallback"},
               SameRound(w), work'[w].errs = x, work'[w].at = place
        PROVE  /\ RoundInv(w)' /\ LoadedInv(w)' /\ Shows(w)' = Shows(w) /\ Source(w)' = Source(w)
               /\ Hopeful(w)' => Hopeful(w)
               /\ defects'[Source(w)] = defects[Source(w)]
    <2>1. Sound(w, x) /\ Frank(w, x)
      <3>1. Sound(w, RungErrors(w)) /\ Frank(w, RungErrors(w))
        BY <1>1, ReportsAreSound
      <3>2. Sound(w, work[w].errs) /\ Frank(w, work[w].errs)
        BY <1>1 DEF WorkerInv, RoundInv, At, Failing, Sound, Frank
      <3> QED
        BY <3>1, <3>2
    <2>2. Hindered(Source(w)) => Hindered(Source(w))'
      BY <1>1, <1>3, HopeStays DEF SameRound
    <2> QED
      BY <1>1, <1>3, <2>1, <2>2, RoundGoesOn DEF Frank
  <1>4. ASSUME Hopeful(w)
        PROVE  /\ work[w].distrust => defects[Source(w)] \cap {"gcc", "old", "picky"} # {}
               /\ work[w].errs # {} /\ (work[w].errs = Shows(w) \/ work[w].errs \subseteq {"undef"})
    BY <1>1, <1>4 DEF WorkerInv, StationInv
  <1>5. CASE is_pure_link_failure(work[w].errs) /\ GoTo(w, "judge")
    <2>1. SameRound(w) /\ work'[w].errs = work[w].errs /\ work'[w].at = "judge"
      BY <1>1, <1>5, MovesAre
    <2>2. /\ RoundInv(w)' /\ LoadedInv(w)' /\ Shows(w)' = Shows(w) /\ Source(w)' = Source(w)
          /\ Hopeful(w)' => Hopeful(w)
          /\ defects'[Source(w)] = defects[Source(w)]
      BY <1>3, <2>1
    <2>3. StationInv(w)'
      <3> SUFFICES ASSUME Hopeful(w)
                   PROVE  /\ work[w].distrust => defects[Source(w)] \cap {"gcc", "old", "picky"} # {}
                          /\ "undef" \in work[w].errs
        BY <2>1, <2>2 DEF StationInv, At, SameRound, Plan, Repairable
      <3> QED
        BY <1>4, <1>5 DEF is_pure_link_failure
    <2> QED
      BY <2>2, <2>3 DEF WorkerInv
  <1>6. ASSUME ~is_pure_link_failure(work[w].errs), RungErrors(w) # {},
               NEW x, x \in ladder_best(w), Fails(w, x, "fallback")
        PROVE  WorkerInv(w)'
    <2>1. SameRound(w) /\ work'[w].errs = x /\ work'[w].at = "fallback"
      <3>1. work[w] \in Works /\ work \in [Workers -> Works]
        BY <1>1 DEF AttemptTypeInv
      <3>2. work'[w] = [work[w] EXCEPT !.at = "fallback", !.errs = x]
        BY <1>6, <3>1 DEF Fails
      <3> QED
        BY <3>1, <3>2 DEF SameRound, Works
    <2>2. x \in {work[w].errs, RungErrors(w)}
      BY <1>6 DEF ladder_best
    <2>3. /\ RoundInv(w)' /\ LoadedInv(w)' /\ Shows(w)' = Shows(w) /\ Source(w)' = Source(w)
          /\ Hopeful(w)' => Hopeful(w)
          /\ defects'[Source(w)] = defects[Source(w)]
      BY <1>3, <2>1, <2>2
    <2>4. StationInv(w)'
      <3> SUFFICES ASSUME Hopeful(w)
                   PROVE  /\ work[w].distrust => defects[Source(w)] \cap {"gcc", "old", "picky"} # {}
                          /\ x # {} /\ x = Shows(w) \ {"old"}
        BY <2>1, <2>3 DEF StationInv, At, SameRound
      <3>1. work[w].errs = Shows(w)
        BY <1>4, <1>6 DEF is_pure_link_failure
      <3>2. Shows(w) \ {"old"} # {}
        <4> SUFFICES ASSUME Shows(w) \ {"old"} = {} PROVE FALSE
          OBVIOUS
        <4>1. "old" \in Shows(w)
          BY <1>4, <3>1
        <4>2. "old" \in defects[Source(w)]
          BY <4>1 DEF Shows, CompileErrors, Showing, Hopeful
        <4>3. defects[Source(w)] \cap {"dup", "undef", "fcommon"} = {}
          BY <4>2 DEF Hopeful, Builds
        <4>4. LinkErrors(w) = {}
          BY <4>3 DEF LinkErrors
        <4> QED
          BY <1>6, <4>4 DEF RungErrors, Shows
      <3>3. RungErrors(w) = Shows(w) \ {"old"}
        BY <3>2 DEF RungErrors, Shows
      <3>4. RungErrors(w) \subseteq work[w].errs
        BY <3>1, <3>3
      <3>5. x = RungErrors(w)
        BY <1>6, <3>4 DEF ladder_best
      <3> QED
        BY <1>4, <3>2, <3>3, <3>5
    <2> QED
      BY <2>3, <2>4 DEF WorkerInv
  <1> QED
    BY <1>2, <1>5, <1>6 DEF Ladder

(* The other compiler builds what only it accepts, unless another worker    *)
(* has settled on it in the meantime.                                       *)
LEMMA FallbackKeeps ==
  ASSUME AttemptInv, Calm, NEW w \in Workers, Fallback(w)
  PROVE  WorkerInv(w)'
  <1> DEFINE cures == BuildErrors(w, TRUE) = {}
  <1>1. AttemptTypeInv /\ WorkerInv(w) /\ At(w, "fallback") /\ ~At(w, "idle")
    BY DEF AttemptInv, WorkersInv, Fallback, At
  <1>2. CASE Built(w)
    BY <1>1, <1>2, BuiltIs, NoWorkInv DEF AttemptTypeInv
  <1>3. CASE /\ ~(TriesGcc(w) /\ cures) /\ GoTo(w, "judge")
             /\ IF ~work[w].alternate /\ cures THEN Note("compiler", {w}) ELSE UNCHANGED mishaps
    <2>1. SameRound(w) /\ work'[w].errs = work[w].errs /\ work'[w].at = "judge"
      BY <1>1, <1>3, MovesAre
    <2>2. /\ Sound(w, work[w].errs)
          /\ clumsy[work[w].target] \subseteq work[w].errs \/ Hindered(Source(w))
      BY <1>1 DEF WorkerInv, RoundInv, At, Failing, Sound
    <2>3. Hindered(Source(w)) => Hindered(Source(w))'
      BY <1>1, <2>1, HopeStays DEF SameRound
    <2>4. /\ RoundInv(w)' /\ LoadedInv(w)' /\ Shows(w)' = Shows(w) /\ Source(w)' = Source(w)
          /\ Hopeful(w)' => Hopeful(w)
          /\ defects'[Source(w)] = defects[Source(w)]
      BY <1>1, <2>1, <2>2, <2>3, RoundGoesOn
    <2>5. StationInv(w)'
      <3> SUFFICES ASSUME Hopeful(w), Hopeful(w)'
                   PROVE  /\ work[w].distrust => defects[Source(w)] \cap {"gcc", "old", "picky"} # {}
                          /\ Plan(w) # {}
        BY <2>1, <2>4 DEF StationInv, At, SameRound, Plan, Repairable, Calm
      <3>1. /\ work[w].distrust => defects[Source(w)] \cap {"gcc", "old", "picky"} # {}
            /\ work[w].errs # {} /\ work[w].errs = Shows(w) \ {"old"}
        BY <1>1 DEF WorkerInv, StationInv
      <3>2. ASSUME Plan(w) = {} PROVE FALSE
        <4> DEFINE d == defects[Source(w)]
        <4>1. work[w].errs = {"gcc"}
          BY <1>1, <3>1, <3>2, HopeMeans DEF Plan
        <4>2. "gcc" \in d /\ ~work[w].alternate
          BY <3>1, <4>1 DEF Shows, CompileErrors, Showing, Hopeful
        <4>3. d \cap {"clang", "old", "undef", "fcommon", "dup"} = {} /\ clumsy[work[w].target] = {}
          BY <4>2 DEF Hopeful, Builds
        <4>4. (d \cap Showing(w)) \ work[w].repaired = {}
          BY <3>1, <4>1 DEF Shows, CompileErrors, Showing
        <4>5. CompileErrors(w, TRUE) = {}
          BY <4>3, <4>4 DEF CompileErrors
        <4>6. LinkErrors(w) = {}
          BY <4>3 DEF LinkErrors
        <4>7. cures
          BY <4>5, <4>6 DEF BuildErrors
        <4>8. Note("compiler", {w})
          BY <1>3, <4>2, <4>7
        <4> QED
          BY <1>1, <2>1, <4>8, NoteExcuses DEF SameRound, Hindrance
      <3> QED
        BY <3>1, <3>2
    <2> QED
      BY <2>4, <2>5 DEF WorkerInv
  <1> QED
    BY <1>2, <1>3 DEF Fallback

LEMMA CuredIsFinite ==
  ASSUME NEW S, NEW T, T \subseteq S \cap Cured
  PROVE  /\ IsFiniteSet(T) /\ IsFiniteSet(S \cap Cured)
         /\ Cardinality(T) \in Nat /\ Cardinality(S \cap Cured) \in Nat
         /\ Cardinality(T) <= Cardinality(S \cap Cured)
  <1>1. IsFiniteSet(Cured)
    <2>1. Cured = {"missing"} \cup ({"deep"} \cup ({"undef"} \cup {"stub"}))
      BY DEF Cured
    <2> QED
      BY <2>1, FS_Singleton, FS_Union
  <1>2. IsFiniteSet(S \cap Cured)
    <2>1. S \cap Cured \subseteq Cured
      OBVIOUS
    <2> QED
      BY <1>1, <2>1, FS_Subset
  <1> QED
    BY <1>2, FS_Subset, FS_CardinalityType

(* A repair that is made counts. *)
LEMMA RepairCounts ==
  ASSUME NEW S, NEW T, T \subseteq S \cap Cured, NEW x \in (S \cap Cured) \ T
  PROVE  Cardinality(T) + 1 <= Cardinality(S \cap Cured)
  <1>1. /\ IsFiniteSet(T) /\ Cardinality(T) \in Nat
    BY CuredIsFinite
  <1>2. Cardinality(T \cup {x}) = Cardinality(T) + 1
    BY <1>1, FS_AddElement
  <1>3. T \cup {x} \subseteq S \cap Cured
    OBVIOUS
  <1>4. Cardinality(T \cup {x}) <= Cardinality(S \cap Cured)
    BY <1>3, CuredIsFinite
  <1> QED
    BY <1>2, <1>4

(* The cap is met only if there is more to repair than it allows. *)
LEMMA JudgeKeeps ==
  ASSUME AttemptInv, Calm, NEW w \in Workers, Judge(w)
  PROVE  WorkerInv(w)'
  <1> DEFINE d == defects[Source(w)]
  <1> DEFINE plan == Repairable(work[w].errs)
  <1> DEFINE done == work[w].repaired
  <1>1. AttemptTypeInv /\ WorkerInv(w) /\ At(w, "judge") /\ ~At(w, "idle")
    BY DEF AttemptInv, WorkersInv, Judge, At
  <1>2. done \subseteq d \cap Cured /\ plan \subseteq (d \cap Cured) \ done
    BY <1>1 DEF WorkerInv, RoundInv, At, Failing, Repairable, Cured
  <1>3. /\ work[w].round \in Nat /\ work[w].round <= Cardinality(done) + (IF work[w].distrust THEN 1 ELSE 0)
        /\ MaxRounds \in Nat /\ work[w].distrust \in BOOLEAN
    BY <1>1, FieldTypes, AttemptAssumption DEF WorkerInv, RoundInv
  <1>4. ASSUME Hopeful(w)
        PROVE  /\ plan # {} \/ Doubt(w)
               /\ plan = {} \/ work[w].distrust => d \cap {"gcc", "old", "picky"} # {}
               /\ d \cap Cured # {} => Rounds(d) <= MaxRounds
    BY <1>1, <1>4 DEF WorkerInv, StationInv, Plan, Hopeful, Builds
  <1>5. CASE GoTo(w, "record") /\ (AtCap(w) \/ (plan = {} /\ ~Doubt(w)))
    <2>1. SameRound(w) /\ work'[w].errs = work[w].errs /\ work'[w].at = "record"
      BY <1>1, <1>5, MovesAre
    <2>2. clumsy[work[w].target] \subseteq work[w].errs \/ Hindered(Source(w))
      BY <1>1 DEF WorkerInv, RoundInv, At, Failing
    <2>3. Hindered(Source(w)) => Hindered(Source(w))'
      BY <1>1, <2>1, HopeStays DEF SameRound
    <2>4. RoundInv(w)' /\ LoadedInv(w)' /\ (Hopeful(w)' => Hopeful(w))
      <3>1. "record" \notin Failing
        BY DEF Failing
      <3> QED
        BY <1>1, <2>1, <2>2, <2>3, <3>1, RoundGoesOn
    <2>5. ~Hopeful(w)
      <3> SUFFICES ASSUME Hopeful(w) PROVE FALSE
        OBVIOUS
      <3>1. work[w].round = MaxRounds
        BY <1>4, <1>5 DEF AtCap
      <3>2. Cardinality(done) \in Nat /\ Cardinality(d \cap Cured) \in Nat /\ Cardinality(done) <= Cardinality(d \cap Cured)
        BY <1>2, CuredIsFinite
      <3>3. CASE plan # {}
        <4>1. PICK x : x \in plan
          BY <3>3
        <4>2. Cardinality(done) + 1 <= Cardinality(d \cap Cured) /\ d \cap Cured # {}
          BY <1>2, <4>1, RepairCounts
        <4>3. Cardinality(d \cap Cured) + (IF work[w].distrust THEN 1 ELSE 0) <= Rounds(d)
          BY <1>4, <3>2 DEF Rounds
        <4>4. Rounds(d) <= MaxRounds /\ Rounds(d) \in Nat
          BY <1>4, <3>2, <4>2 DEF Rounds
        <4> HIDE DEF d, done
        <4> QED
          BY <1>3, <3>1, <3>2, <4>2, <4>3, <4>4
      <3>4. CASE plan = {}
        <4>1. work[w].round > 0 /\ work[w].distrust = FALSE
          BY <1>3, <1>4, <3>4 DEF Doubt
        <4>2. Cardinality(done) > 0
          BY <1>3, <3>2, <4>1
        <4>3. done # {}
          BY <4>2, FS_EmptySet
        <4>4. d \cap Cured # {}
          BY <1>2, <4>3
        <4>5. Rounds(d) = Cardinality(d \cap Cured) + 1
          BY <1>4, <3>4 DEF Rounds
        <4>6. Rounds(d) <= MaxRounds
          BY <1>4, <4>4
        <4> HIDE DEF d, done
        <4> QED
          BY <1>3, <3>1, <3>2, <4>1, <4>5, <4>6
      <3> QED
        BY <3>3, <3>4
    <2>6. StationInv(w)'
      BY <2>4, <2>5 DEF StationInv
    <2> QED
      BY <2>4, <2>6 DEF WorkerInv
  <1>6. ASSUME NEW cured \in SUBSET Defect, NEW wary \in BOOLEAN, NextRound(w, cured, wary),
               cured \subseteq (d \cap Cured) \ done,
               work[w].round + 1 <= Cardinality(done \cup cured) + (IF wary THEN 1 ELSE 0),
               Hopeful(w) => (wary => d \cap {"gcc", "old", "picky"} # {})
        PROVE  WorkerInv(w)'
    <2>1. work[w] \in Works /\ work \in [Workers -> Works]
      BY <1>1 DEF AttemptTypeInv
    <2>2. work'[w] = [work[w] EXCEPT !.at = "round", !.round = @ + 1, !.repaired = @ \cup cured, !.distrust = wary]
      BY <1>6, <2>1 DEF NextRound
    <2>3. /\ work'[w].at = "round" /\ work'[w].round = work[w].round + 1
          /\ work'[w].repaired = done \cup cured /\ work'[w].distrust = wary
          /\ work'[w].target = work[w].target /\ work'[w].memo = work[w].memo
          /\ work'[w].alternate = work[w].alternate
      BY <2>1, <2>2 DEF Works
    <2>4. /\ Source(w)' = Source(w) /\ defects'[Source(w)] = d
          /\ Hopeful(w)' => Hopeful(w)
      BY <1>1, <2>3, HopeStays
    <2>5. RoundInv(w)'
      <3>1. "round" \notin Failing /\ "round" # "record" /\ "round" # "idle" /\ "round" # "check"
        BY DEF Failing
      <3>2. work[w].alternate => compiler'
        BY <1>1 DEF WorkerInv, RoundInv, Calm
      <3>3. work'[w].repaired \subseteq d \cap Cured
        BY <1>2, <1>6, <2>3
      <3>4. work'[w].round <= Cardinality(work'[w].repaired) + (IF work'[w].distrust THEN 1 ELSE 0)
        BY <1>6, <2>3
      <3> QED
        BY <2>3, <2>4, <3>1, <3>2, <3>3, <3>4 DEF RoundInv, At
    <2>6. StationInv(w)'
      BY <1>6, <2>3, <2>4 DEF StationInv, At
    <2>7. LoadedInv(w)'
      <3>1. \A s \in work[w].memo.entries : ~Builds(s, force)' \/ Misled(s)'
        BY <1>1, EntriesStay
      <3> QED
        BY <1>1, <2>3, <3>1 DEF WorkerInv, LoadedInv, Calm, At
    <2> QED
      BY <2>5, <2>6, <2>7 DEF WorkerInv
  <1>7. CASE plan # {} /\ NextRound(w, plan, work[w].distrust)
    <2>1. plan \in SUBSET Defect
      BY DEF Repairable, Defect
    <2>2. PICK x : x \in plan
      BY <1>7
    <2>3. done \cup plan \subseteq (done \cup plan) \cap Cured /\ x \in ((done \cup plan) \cap Cured) \ done
      BY <1>2, <2>2
    <2>4. Cardinality(done) + 1 <= Cardinality((done \cup plan) \cap Cured)
      BY <2>3, RepairCounts
    <2>5. (done \cup plan) \cap Cured = done \cup plan
      BY <2>3
    <2>6. Cardinality(done) \in Nat /\ Cardinality(done \cup plan) \in Nat
      BY <1>2, <2>3, CuredIsFinite
    <2>7. work[w].round + 1 <= Cardinality(done \cup plan) + (IF work[w].distrust THEN 1 ELSE 0)
      <3> DEFINE n == Cardinality(done)
      <3> DEFINE m == Cardinality(done \cup plan)
      <3>1. n \in Nat /\ m \in Nat /\ n + 1 <= m /\ work[w].round <= n + (IF work[w].distrust THEN 1 ELSE 0)
        BY <1>3, <2>4, <2>5, <2>6
      <3> HIDE DEF n, m
      <3>2. work[w].round + 1 <= m + (IF work[w].distrust THEN 1 ELSE 0)
        BY <1>3, <3>1
      <3> QED
        BY <3>2 DEF m
    <2> QED
      BY <1>2, <1>3, <1>4, <1>6, <1>7, <2>1, <2>7
  <1>8. CASE plan = {} /\ Doubt(w) /\ NextRound(w, {}, TRUE)
    <2>1. Cardinality(done) \in Nat /\ done \cup {} = done /\ work[w].distrust = FALSE
      BY <1>2, <1>3, <1>8, CuredIsFinite DEF Doubt
    <2>2. work[w].round + 1 <= Cardinality(done \cup {}) + 1
      BY <1>3, <2>1
    <2> QED
      BY <1>4, <1>6, <1>8, <2>2
  <1> QED
    BY <1>5, <1>7, <1>8 DEF Judge

LEMMA BeginKeeps ==
  ASSUME AttemptInv, Calm, NEW w \in Workers, NEW t \in Targets, Begin(w, t)
  PROVE  WorkerInv(w)' /\ \A v \in Workers \ {w} : work'[v] = work[v]
  <1>1. AttemptTypeInv /\ work \in [Workers -> Works] /\ work[w] = NoWork
    BY DEF AttemptInv, AttemptTypeInv, WorkersInv, WorkerInv, RoundInv, Begin
  <1>2. NoWork \in Works /\ NoWork.memo \in Memo
    BY NoWorkType DEF Works
  <1>3. work'[w] = [NoWork EXCEPT !.at = "load", !.target = t, !.memo.label = project_fingerprint]
    BY <1>1 DEF Begin
  <1>4. /\ work'[w].at = "load" /\ work'[w].repaired = {} /\ work'[w].round = 0
        /\ work'[w].distrust = FALSE /\ work'[w].alternate = FALSE /\ work'[w].memo.entries = {}
        /\ work'[w].memo.label = project_fingerprint
    BY <1>3 DEF NoWork
  <1>5. RoundInv(w)'
    BY <1>4, FS_EmptySet DEF RoundInv, At, Failing
  <1>6. StationInv(w)'
    BY <1>4 DEF StationInv, At
  <1>7. LoadedInv(w)'
    BY <1>4 DEF LoadedInv, At, project_fingerprint, Calm
  <1>8. \A v \in Workers \ {w} : work'[v] = work[v]
    BY <1>1 DEF Begin
  <1> QED
    BY <1>5, <1>6, <1>7, <1>8 DEF WorkerInv

LEMMA LoadKeeps ==
  ASSUME AttemptInv, Calm, NEW w \in Workers, Load(w)
  PROVE  WorkerInv(w)' /\ \A v \in Workers \ {w} : work'[v] = work[v]
  <1> DEFINE new == Known(work[w].memo.label)
  <1> DEFINE place == IF Source(w) \in new THEN "inherited" ELSE "round"
  <1>1. /\ AttemptTypeInv /\ work \in [Workers -> Works] /\ WorkerInv(w) /\ ~At(w, "idle")
        /\ work[w] \in Works /\ work[w].memo \in Memo /\ force \in BOOLEAN
    BY FieldTypes DEF AttemptInv, AttemptTypeInv, WorkersInv, Load, At
  <1>2. work'[w] = [work[w] EXCEPT !.memo.entries = new, !.at = place]
    BY <1>1 DEF Load
  <1>3. /\ work'[w].at = place /\ work'[w].repaired = work[w].repaired /\ work'[w].round = work[w].round
        /\ work'[w].distrust = work[w].distrust /\ work'[w].alternate = work[w].alternate
        /\ work'[w].memo.entries = new /\ work'[w].memo.label = work[w].memo.label
        /\ work'[w].target = work[w].target
    <2> HIDE DEF new, place
    <2> QED
      BY <1>1, <1>2 DEF Works, Memo
  <1>4. place \in {"inherited", "round"}
    OBVIOUS
  <1>5. /\ Source(w)' = Source(w) /\ defects'[Source(w)] = defects[Source(w)]
        /\ Hopeful(w)' => Hopeful(w)
    BY <1>1, <1>3, HopeStays
  <1>6. RoundInv(w)'
    <2> HIDE DEF place
    <2> QED
      BY <1>1, <1>3, <1>4, <1>5 DEF WorkerInv, RoundInv, At, Failing, Calm
  <1>7. StationInv(w)'
    <2> HIDE DEF place
    <2> QED
      BY <1>1, <1>3, <1>4, <1>5 DEF WorkerInv, StationInv, At
  <1>8. LoadedInv(w)'
    <2>1. ASSUME NEW s \in new PROVE ~Builds(s, force)' \/ Misled(s)'
      <3>1. PICK m \in memo : m.label = work[w].memo.label /\ s \in m.entries
        BY DEF Known
      <3>2. m \in Memo /\ s \in Sources
        BY <1>1, <3>1 DEF AttemptTypeInv, Memo
      <3>3. m.label.force = force
        BY <1>1, <3>1 DEF WorkerInv, LoadedInv
      <3>4. ~Builds(s, force) \/ Misled(s)
        BY <3>1, <3>3 DEF AttemptInv, MemoInv
      <3> QED
        BY <1>1, <3>2, <3>4, ExcusesStay, BuildsStay DEF Calm, Builds, Rounds
    <2>2. work[w].memo.label.force = force
      BY <1>1 DEF WorkerInv, LoadedInv
    <2>3. place = "inherited" => Source(w) \in new
      OBVIOUS
    <2> HIDE DEF new, place
    <2> QED
      BY <1>3, <1>4, <1>5, <2>1, <2>2, <2>3 DEF LoadedInv, At, Calm
  <1>9. \A v \in Workers \ {w} : work'[v] = work[v]
    BY <1>1 DEF Load
  <1> QED
    BY <1>6, <1>7, <1>8, <1>9 DEF WorkerInv

LEMMA StartRoundKeeps ==
  ASSUME AttemptInv, Calm, NEW w \in Workers, StartRound(w)
  PROVE  WorkerInv(w)' /\ \A v \in Workers \ {w} : work'[v] = work[v]
  <1> DEFINE place == IF work[w].round > 0 /\ ~work[w].distrust THEN "check" ELSE "build"
  <1>1. /\ AttemptTypeInv /\ work \in [Workers -> Works] /\ WorkerInv(w) /\ ~At(w, "idle")
        /\ work[w] \in Works /\ force \in BOOLEAN
    BY DEF AttemptInv, AttemptTypeInv, WorkersInv, StartRound, At
  <1>2. work'[w] = [work[w] EXCEPT !.alternate = compiler, !.at = place] /\ compiler' = compiler
    BY <1>1 DEF StartRound, project
  <1>3. /\ work'[w].at = place /\ work'[w].repaired = work[w].repaired /\ work'[w].round = work[w].round
        /\ work'[w].distrust = work[w].distrust /\ work'[w].alternate = compiler
        /\ work'[w].memo = work[w].memo /\ work'[w].target = work[w].target
    <2> HIDE DEF place
    <2> QED
      BY <1>1, <1>2 DEF Works
  <1>4. place \in {"check", "build"} /\ (place = "check" => Doubt(w))
    BY DEF Doubt
  <1>5. /\ Source(w)' = Source(w) /\ defects'[Source(w)] = defects[Source(w)]
        /\ Hopeful(w)' => Hopeful(w)
    BY <1>1, <1>3, HopeStays
  <1> HIDE DEF place
  <1>6. RoundInv(w)'
    BY <1>1, <1>2, <1>3, <1>4, <1>5 DEF WorkerInv, RoundInv, At, Failing, Doubt
  <1>7. StationInv(w)'
    BY <1>1, <1>3, <1>4, <1>5 DEF WorkerInv, StationInv, At
  <1>8. LoadedInv(w)'
    <2>1. \A s \in work[w].memo.entries : ~Builds(s, force)' \/ Misled(s)'
      BY <1>1, EntriesStay
    <2> QED
      BY <1>1, <1>3, <1>4, <2>1 DEF WorkerInv, LoadedInv, Calm, At
  <1>9. \A v \in Workers \ {w} : work'[v] = work[v]
    BY <1>1 DEF StartRound
  <1> QED
    BY <1>6, <1>7, <1>8, <1>9 DEF WorkerInv

LEMMA CutOffKeeps ==
  ASSUME AttemptInv, Calm, NEW w \in Workers, CutOff(w)
  PROVE  WorkerInv(w)'
  <1>1. AttemptTypeInv /\ WorkerInv(w) /\ ~At(w, "idle") /\ Note("cutoff", {w}) /\ Fails(w, {"cutoff"}, "record")
    BY DEF AttemptInv, WorkersInv, CutOff, At
  <1>2. SameRound(w) /\ work'[w].at = "record"
    <2>1. work[w] \in Works /\ work \in [Workers -> Works]
      BY <1>1 DEF AttemptTypeInv
    <2>2. work'[w] = [work[w] EXCEPT !.at = "record", !.errs = {"cutoff"}]
      BY <1>1, <2>1 DEF Fails
    <2> QED
      BY <2>1, <2>2 DEF SameRound, Works
  <1>3. Hindered(Source(w))' /\ ~Hopeful(w)'
    BY <1>1, <1>2, NoteExcuses DEF SameRound, Hindrance
  <1>4. RoundInv(w)' /\ LoadedInv(w)'
    <2>1. "record" \notin Failing
      BY DEF Failing
    <2> QED
      BY <1>1, <1>2, <1>3, <2>1, RoundGoesOn
  <1> QED
    BY <1>3, <1>4 DEF WorkerInv, StationInv

(* What is memoised is not the driver's fault, or noted. *)
LEMMA RecordKeeps ==
  ASSUME AttemptInv, Calm, NEW w \in Workers, Record(w)
  PROVE  WorkerInv(w)' /\ \A v \in Workers \ {w} : work'[v] = work[v]
  <1>1. /\ AttemptTypeInv /\ work \in [Workers -> Works] /\ WorkerInv(w) /\ ~At(w, "idle")
        /\ work[w] \in Works /\ work[w].memo \in Memo /\ force \in BOOLEAN
    BY FieldTypes DEF AttemptInv, AttemptTypeInv, WorkersInv, Record, At
  <1>2. CASE GoTo(w, "saving")
    <2>1. SameRound(w) /\ work'[w].at = "saving" /\ \A v \in Workers \ {w} : work'[v] = work[v]
      BY <1>1, <1>2, MovesAre
    <2>2. "saving" \notin Failing
      BY DEF Failing
    <2>3. RoundInv(w)' /\ LoadedInv(w)' /\ (Hopeful(w)' => Hopeful(w)) /\ Source(w)' = Source(w)
          /\ defects'[Source(w)] = defects[Source(w)]
      BY <1>1, <2>1, <2>2, RoundGoesOn
    <2>4. StationInv(w)'
      BY <1>1, <2>1, <2>3 DEF WorkerInv, StationInv, At, SameRound
    <2> QED
      BY <2>1, <2>3, <2>4 DEF WorkerInv
  <1>3. ASSUME NEW scoped \in BOOLEAN, At(w, "record"), closure_scoped(work[w].errs, scoped),
               work' = [work EXCEPT ![w].at = "saving",
                          ![w].memo.entries = @ \cup (IF scoped THEN {Source(w)} ELSE {})],
               IF scoped /\ Ambiguous(work[w].errs) THEN Note("driver", {w}) ELSE UNCHANGED mishaps
        PROVE  WorkerInv(w)' /\ \A v \in Workers \ {w} : work'[v] = work[v]
    <2> DEFINE new == IF scoped THEN {Source(w)} ELSE {}
    <2>1. work'[w] = [work[w] EXCEPT !.at = "saving", !.memo.entries = @ \cup new]
      BY <1>1, <1>3
    <2>2. /\ work'[w].at = "saving" /\ work'[w].repaired = work[w].repaired /\ work'[w].round = work[w].round
          /\ work'[w].distrust = work[w].distrust /\ work'[w].alternate = work[w].alternate
          /\ work'[w].memo.entries = work[w].memo.entries \cup new
          /\ work'[w].memo.label = work[w].memo.label /\ work'[w].target = work[w].target
      <3> HIDE DEF new
      <3> QED
        BY <1>1, <2>1 DEF Works, Memo
    <2>3. /\ Source(w)' = Source(w) /\ defects'[Source(w)] = defects[Source(w)]
          /\ Hopeful(w)' => Hopeful(w)
      BY <1>1, <2>2, HopeStays
    <2>4. RoundInv(w)'
      BY <1>1, <2>2, <2>3 DEF WorkerInv, RoundInv, At, Failing, Calm
    <2>5. StationInv(w)'
      BY <1>1, <2>2, <2>3 DEF WorkerInv, StationInv, At
    <2>6. LoadedInv(w)'
      <3>1. ASSUME NEW s \in work[w].memo.entries \cup new
            PROVE  ~Builds(s, force)' \/ Misled(s)'
        <4>1. s \in Sources
          BY <1>1, SourceType, FieldTypes
        <4>2. CASE ~Builds(s, force) \/ Misled(s)
          BY <1>1, <4>1, <4>2, ExcusesStay, BuildsStay DEF Calm, Builds, Rounds
        <4>3. CASE s \in work[w].memo.entries
          BY <1>1, <4>2, <4>3 DEF WorkerInv, LoadedInv
        <4>4. CASE scoped /\ s = Source(w) /\ Builds(s, force) /\ ~Misled(s)
          <5>1. ~Hindered(Source(w)) /\ clumsy[work[w].target] # {}
            BY <1>1, <1>3, <4>4 DEF WorkerInv, StationInv, Hopeful, Hindered, Misled, Excused
          <5>2. clumsy[work[w].target] \subseteq work[w].errs
            BY <1>1, <1>3, <5>1 DEF WorkerInv, RoundInv, At
          <5>3. clumsy[work[w].target] \subseteq DriverError
            BY <1>1 DEF AttemptTypeInv, Works
          <5>4. Note("driver", {w})
            BY <1>3, <4>4, <5>1, <5>2, <5>3 DEF closure_scoped, Ambiguous
          <5>5. \E m \in mishaps' : m[1] = "driver" /\ m[2] = Source(w)
            BY <1>1, <5>4, NoteIs DEF Reason
          <5> QED
            BY <4>4, <5>5 DEF Misled, Excused
        <4> QED
          BY <4>2, <4>3, <4>4
      <3> HIDE DEF new
      <3> QED
        BY <1>1, <2>2, <2>3, <3>1 DEF WorkerInv, LoadedInv, At, Calm
    <2>7. \A v \in Workers \ {w} : work'[v] = work[v]
      BY <1>1, <1>3
    <2> QED
      BY <2>4, <2>5, <2>6, <2>7 DEF WorkerInv
  <1> QED
    BY <1>2, <1>3 DEF Record

(* No step of a worker reaches into the attempt of another. *)
LEMMA OthersUntouched ==
  ASSUME AttemptTypeInv, NEW w \in Workers, Step(w)
  PROVE  \A v \in Workers \ {w} : work'[v] = work[v]
  <1>1. work \in [Workers -> Works]
    BY DEF AttemptTypeInv
  <1>2. ASSUME Built(w) \/ \E place : GoTo(w, place)
        PROVE  \A v \in Workers \ {w} : work'[v] = work[v]
    BY <1>1, <1>2 DEF Built, GoTo
  <1>3. ASSUME NEW e, NEW place, Fails(w, e, place)
        PROVE  \A v \in Workers \ {w} : work'[v] = work[v]
    BY <1>1, <1>3 DEF Fails
  <1>4. CASE Load(w) \/ StartRound(w) \/ Save(w) \/ Record(w)
    BY <1>1, <1>4 DEF Load, StartRound, Save, Record, GoTo
  <1>5. CASE CutOff(w) \/ Check(w)
    BY <1>1, <1>5 DEF CutOff, Check, Fails
  <1>6. CASE Compat(w) \/ WriteFragment(w)
    BY <1>2, <1>6 DEF Compat, WriteFragment
  <1>7. CASE Build(w)
    BY <1>2, <1>3, <1>7 DEF Build
  <1>8. CASE Probe(w)
    BY <1>2, <1>3, <1>8 DEF Probe
  <1>9. CASE Ladder(w)
    BY <1>2, <1>3, <1>9 DEF Ladder
  <1>10. CASE Fallback(w)
    BY <1>2, <1>10 DEF Fallback
  <1>11. CASE Judge(w)
    BY <1>1, <1>11 DEF Judge, NextRound, GoTo
  <1> QED
    BY <1>4, <1>5, <1>6, <1>7, <1>8, <1>9, <1>10, <1>11 DEF Step

LEMMA WorkersNext == AttemptInv /\ [Next]_vars => WorkersInv'
  <1> SUFFICES ASSUME AttemptInv, [Next]_vars PROVE WorkersInv'
    OBVIOUS
  <1>1. AttemptTypeInv /\ \A v \in Workers : WorkerInv(v)
    BY DEF AttemptInv, WorkersInv
  <1>2. ASSUME NEW w \in Workers, Step(w) \/ \E t \in Targets : Begin(w, t) PROVE WorkersInv'
    <2>1. Calm
      BY <1>1, <1>2, StepsAreCalm
    <2>2. \A v \in Workers \ {w} : work'[v] = work[v]
      BY <1>1, <1>2, <2>1, BeginKeeps, OthersUntouched
    <2>3. ASSUME Save(w) PROVE WorkerInv(w)'
      <3>1. work'[w] = NoWork
        BY <1>1, <2>3 DEF Save, AttemptTypeInv
      <3> QED
        BY <3>1, NoWorkInv
    <2>4. WorkerInv(w)'
      BY <1>2, <2>1, <2>3, BeginKeeps, LoadKeeps, StartRoundKeeps, CutOffKeeps, CheckKeeps, BuildKeeps,
         CompatKeeps, WriteKeeps, ProbeKeeps, LadderKeeps, FallbackKeeps, JudgeKeeps, RecordKeeps DEF Step
    <2>5. \A v \in Workers \ {w} : WorkerInv(v)'
      BY <1>1, <2>1, <2>2, OthersKeep
    <2> QED
      BY <2>4, <2>5 DEF WorkersInv
  (* Between the phases and the runs nobody has an attempt. *)
  <1>3. Idle => \A v \in Workers : work[v] = NoWork
    BY <1>1 DEF Idle, WorkerInv, RoundInv
  <1>4. CASE ForcedPhase \/ \E resume \in BOOLEAN, mended \in SUBSET Sources : StartRun(resume, mended)
    <2>1. Idle /\ UNCHANGED work
      BY <1>4 DEF ForcedPhase, StartRun
    <2> QED
      BY <1>3, <2>1, NoWorkInv DEF WorkersInv
  <1>5. CASE Kill
    BY <1>5, NoWorkInv DEF Kill, WorkersInv
  <1>6. CASE DeadlinePasses \/ UNCHANGED vars
    <2>1. Calm /\ UNCHANGED work
      BY <1>6 DEF DeadlinePasses, vars, world, project, run, Calm
    <2> QED
      BY <1>1, <2>1, OthersKeep DEF WorkersInv
  <1> QED
    BY <1>2, <1>4, <1>5, <1>6 DEF Next

(* An entry of the memo stays true: a run that mends a source says so, and  *)
(* what a worker saves it has loaded or seen for itself.                    *)
LEMMA MemoNext == AttemptInv /\ [Next]_vars => MemoInv'
  <1> SUFFICES ASSUME AttemptInv, [Next]_vars PROVE MemoInv'
    OBVIOUS
  <1>1. AttemptTypeInv /\ MemoInv /\ \A v \in Workers : WorkerInv(v)
    BY DEF AttemptInv, WorkersInv
  <1>2. \A m \in memo : m.label.force \in BOOLEAN /\ m.entries \subseteq Sources
    BY <1>1 DEF AttemptTypeInv, Memo, Label
  <1>3. ASSUME memo' \subseteq memo, Calm \/ (UNCHANGED <<defects, compiler, mishaps>>) PROVE MemoInv'
    <2> SUFFICES ASSUME NEW m \in memo', NEW s \in m.entries
                 PROVE  ~Builds(s, m.label.force)' \/ Misled(s)'
      BY DEF MemoInv
    <2>1. ~Builds(s, m.label.force) \/ Misled(s)
      BY <1>1, <1>3 DEF MemoInv
    <2>2. CASE Calm
      BY <1>2, <1>3, <2>1, <2>2, ExcusesStay DEF Builds, Rounds, Calm
    <2>3. CASE UNCHANGED <<defects, compiler, mishaps>>
      BY <2>1, <2>3 DEF Builds, Rounds, Misled, Excused
    <2> QED
      BY <1>3, <2>2, <2>3
  <1>4. ASSUME NEW w \in Workers, Step(w) \/ \E t \in Targets : Begin(w, t) PROVE MemoInv'
    <2>1. Calm
      BY <1>1, <1>4, StepsAreCalm
    <2>2. CASE Save(w)
      <3>1. CASE memo' = {work[w].memo}
        <4>1. ~At(w, "idle") /\ force \in BOOLEAN /\ work[w].memo.entries \subseteq Sources
          BY <1>1, <2>2, FieldTypes DEF Save, At, AttemptTypeInv
        <4>2. /\ work[w].memo.label.force = force
              /\ \A s \in work[w].memo.entries : ~Builds(s, force) \/ Misled(s)
          BY <1>1, <4>1 DEF WorkerInv, LoadedInv
        <4>3. ASSUME NEW m \in memo', NEW s \in m.entries
              PROVE  ~Builds(s, m.label.force)' \/ Misled(s)'
          <5>1. m = work[w].memo
            BY <3>1
          <5>2. m.label.force = force /\ (~Builds(s, force) \/ Misled(s))
            BY <4>2, <5>1
          <5> QED
            BY <2>1, <5>2, ExcusesStay DEF Builds, Rounds, Calm
        <4> QED
          BY <4>3 DEF MemoInv
      <3>2. CASE memo' = {}
        BY <3>2 DEF MemoInv
      <3> QED
        BY <2>2, <3>1, <3>2 DEF Save
    <2>3. CASE ~Save(w)
      <3>1. memo' \subseteq memo
        BY <1>4, <2>3 DEF Step, Begin, Load, StartRound, CutOff, Check, Build, Compat, WriteFragment,
           Probe, Ladder, Fallback, Judge, Record
      <3> QED
        BY <1>3, <2>1, <3>1
    <2> QED
      BY <2>2, <2>3
  <1>5. CASE DeadlinePasses \/ ForcedPhase \/ Kill \/ UNCHANGED vars
    BY <1>3, <1>5 DEF DeadlinePasses, ForcedPhase, Kill, vars, world, project
  <1>6. ASSUME NEW resume \in BOOLEAN, NEW mended \in SUBSET Sources, StartRun(resume, mended) PROVE MemoInv'
    <2>1. CASE ~resume
      BY <1>6, <2>1 DEF StartRun, refresh_regenerable_state, MemoInv
    <2>2. CASE resume
      <3>1. memo' = memo /\ compiler' = compiler /\ mishaps' = mishaps \cup ({"edit"} \X mended)
        BY <1>6, <2>2 DEF StartRun
      <3>2. ASSUME NEW m \in memo, NEW s \in m.entries
            PROVE  ~Builds(s, m.label.force)' \/ Misled(s)'
        <4>1. s \in Sources /\ (~Builds(s, m.label.force) \/ Misled(s))
          BY <1>1, <1>2 DEF MemoInv
        <4>2. CASE s \in mended
          <5>1. <<"edit", s>> \in mishaps' /\ <<"edit", s>>[1] = "edit" /\ <<"edit", s>>[2] = s
            BY <3>1, <4>2
          <5> QED
            BY <5>1 DEF Misled, Excused
        <4>3. CASE s \notin mended
          <5>1. defects'[s] = defects[s]
            BY <1>6, <4>1, <4>3 DEF StartRun
          <5>2. Misled(s) => Misled(s)'
            BY <3>1 DEF Misled, Excused
          <5> QED
            BY <3>1, <4>1, <5>1, <5>2 DEF Builds, Rounds
        <4> QED
          BY <4>2, <4>3
      <3> QED
        BY <3>1, <3>2 DEF MemoInv
    <2> QED
      BY <2>1, <2>2
  <1> QED
    BY <1>4, <1>5, <1>6 DEF Next

-----------------------------------------------------------------------------
(* The fragment. *)

(* No trial begins. *)
NoTrialBegins ==
  \A v \in Workers : /\ OnTrial(v)' => OnTrial(v)
                     /\ At(v, "probe")' => At(v, "probe") /\ Source(v)' = Source(v)

(* While no trial begins and the fragment stays, it is enough to look at    *)
(* the targets built in this step.                                          *)
LEMMA TrialQuiet ==
  ASSUME FragmentInv, fragment' = fragment, NoTrialBegins, mishaps \subseteq mishaps',
         \A v \in Workers : At(v, "probe") => UNCHANGED defects,
         \A t \in Targets :
           verdict'[t] = "built" /\ "fcommon" \in defects'[SourceOf[t]] =>
             \/ verdict[t] = "built" /\ "fcommon" \in defects[SourceOf[t]]
             \/ Trialled(SourceOf[t])'
             \/ fragment = "fcommon" /\ \A v \in Workers : ~OnTrial(v)'
  PROVE  FragmentInv'
  <1>1. \A s : Trialled(s) => Trialled(s)'
    BY ExcusesStay
  <1>2. ASSUME NEW w \in Workers, At(w, "probe")', "fcommon" \in defects'[Source(w)']
        PROVE  Hindered(Source(w))' \/ (fragment' = "fcommon" /\ Trying(w)' = {})
    <2>1. At(w, "probe") /\ Source(w)' = Source(w) /\ defects' = defects
      BY <1>2 DEF NoTrialBegins
    <2>2. Trying(w)' \subseteq Trying(w)
      BY DEF NoTrialBegins, Trying, OnTrial
    <2>3. Hindered(Source(w)) \/ (fragment = "fcommon" /\ Trying(w) = {})
      BY <1>2, <2>1 DEF FragmentInv
    <2>4. Hindered(Source(w)) => Hindered(Source(w))'
      BY <2>1 DEF Hindered, Excused
    <2> QED
      BY <2>2, <2>3, <2>4
  <1>3. ASSUME NEW t \in Targets, verdict'[t] = "built", "fcommon" \in defects'[SourceOf[t]]
        PROVE  Trialled(SourceOf[t])' \/ (fragment' = "fcommon" /\ \A v \in Workers : ~OnTrial(v)')
    <2>1. CASE verdict[t] = "built" /\ "fcommon" \in defects[SourceOf[t]]
      <3>1. Trialled(SourceOf[t]) \/ (fragment = "fcommon" /\ \A v \in Workers : ~OnTrial(v))
        BY <2>1 DEF FragmentInv
      <3> QED
        BY <1>1, <3>1 DEF NoTrialBegins
    <2> QED
      BY <1>3, <2>1
  <1> QED
    BY <1>2, <1>3 DEF FragmentInv

(* A target that needs the fragment is built only where it is, and no trial *)
(* is on but its own, or the mishap is noted.                               *)
LEMMA BuiltNeedsFragment ==
  ASSUME AttemptInv, Calm, NEW w \in Workers, Built(w), LinkErrors(w) = {}, fragment' = fragment
  PROVE  FragmentInv'
  <1>1. AttemptTypeInv /\ FragmentInv /\ WorkerInv(w) /\ mishaps \subseteq mishaps' /\ UNCHANGED defects
    BY DEF AttemptInv, WorkersInv, Calm
  <1>2. /\ work' = [work EXCEPT ![w] = NoWork]
        /\ verdict' = [verdict EXCEPT ![work[w].target] = "built"]
        /\ "fcommon" \in defects[Source(w)] /\ Trying(w) # {} 
             => \E m \in mishaps' : m[1] = "trial" /\ m[2] = Source(w)
    BY <1>1, BuiltIs
  <1>3. /\ work \in [Workers -> Works] /\ verdict \in [Targets -> {"none", "built", "failed", "again"}]
        /\ NoWork.at = "idle"
    BY <1>1, NoWorkType DEF AttemptTypeInv
  <1>4. ~OnTrial(w)' /\ ~At(w, "probe")' /\ \A v \in Workers \ {w} : work'[v] = work[v]
    BY <1>2, <1>3 DEF OnTrial, At
  <1>5. NoTrialBegins
    BY <1>4 DEF NoTrialBegins, OnTrial, At, Source
  <1>6. ASSUME NEW t \in Targets, verdict'[t] = "built", "fcommon" \in defects'[SourceOf[t]]
        PROVE  \/ verdict[t] = "built" /\ "fcommon" \in defects[SourceOf[t]]
               \/ Trialled(SourceOf[t])'
               \/ fragment = "fcommon" /\ \A v \in Workers : ~OnTrial(v)'
    <2>1. CASE t # work[w].target
      BY <1>1, <1>2, <1>3, <1>6, <2>1
    <2>2. CASE t = work[w].target
      <3>1. SourceOf[t] = Source(w) /\ "fcommon" \in defects[Source(w)]
        BY <1>1, <1>6, <2>2 DEF Source
      <3>2. "fcommon" \notin work[w].repaired
        BY <1>1 DEF WorkerInv, RoundInv, Cured
      <3>3. fragment = "fcommon"
        BY <3>1, <3>2 DEF LinkErrors
      <3>4. CASE Trying(w) # {}
        BY <1>2, <3>1, <3>4 DEF Trialled, Excused
      <3>5. CASE Trying(w) = {}
        <4>1. \A v \in Workers : ~OnTrial(v)'
          BY <1>4, <3>5 DEF Trying, OnTrial, At
        <4> QED
          BY <3>3, <4>1
      <3> QED
        BY <3>4, <3>5
    <2> QED
      BY <2>1, <2>2
  <1> QED
    BY <1>1, <1>5, <1>6, TrialQuiet

LEMMA FragmentNext == AttemptInv /\ [Next]_vars => FragmentInv'
  <1> SUFFICES ASSUME AttemptInv, [Next]_vars PROVE FragmentInv'
    OBVIOUS
  <1> USE DEF world, project, run
  <1>1. /\ AttemptTypeInv /\ FragmentInv /\ work \in [Workers -> Works]
        /\ \A v \in Workers : WorkerInv(v) /\ work[v] \in Works
        /\ verdict \in [Targets -> {"none", "built", "failed", "again"}]
    BY DEF AttemptInv, WorkersInv, AttemptTypeInv
  (* The attempt of w moves elsewhere and nothing is built. *)
  <1>2. ASSUME NEW w \in Workers, Calm, UNCHANGED <<fragment, defects>>,
               \A v \in Workers \ {w} : work'[v] = work[v], work'[w].at \notin {"write", "probe"},
               \A t \in Targets : verdict'[t] = "built" => verdict[t] = "built"
        PROVE  FragmentInv'
    <2>1. NoTrialBegins
      BY <1>2 DEF NoTrialBegins, OnTrial, At, Source
    <2>2. mishaps \subseteq mishaps'
      BY <1>2 DEF Calm
    <2> QED
      BY <1>1, <1>2, <2>1, <2>2, TrialQuiet
  <1>3. ASSUME NEW w \in Workers, NEW t \in Targets, Begin(w, t) PROVE FragmentInv'
    <2>1. Calm
      BY <1>1, <1>3, StepsAreCalm
    <2>2. work'[w].at = "load" /\ \A v \in Workers \ {w} : work'[v] = work[v]
      BY <1>1, <1>3 DEF Begin, Works
    <2> QED
      BY <1>2, <1>3, <2>1, <2>2 DEF Begin
  <1>4. ASSUME NEW w \in Workers, Step(w) PROVE FragmentInv'
    <2>1. Calm /\ \A v \in Workers \ {w} : work'[v] = work[v]
      BY <1>1, <1>4, StepsAreCalm, OthersUntouched
    <2>2. CASE Load(w) \/ StartRound(w) \/ CutOff(w) \/ Check(w) \/ Judge(w) \/ Record(w)
      <3>1. work'[w].at \notin {"write", "probe"}
        BY <1>1, <2>2 DEF Load, StartRound, CutOff, Check, Judge, Record, GoTo, Fails, NextRound, Works
      <3>2. UNCHANGED <<fragment, defects, verdict>>
        BY <2>2 DEF Load, StartRound, CutOff, Check, Judge, Record
      <3> QED
        BY <1>2, <2>1, <3>1, <3>2
    <2>3. CASE Save(w)
      <3>1. work'[w] = NoWork /\ NoWork.at = "idle"
        BY <1>1, <2>3, NoWorkType DEF Save
      <3>2. \A t \in Targets : verdict'[t] = "built" => verdict[t] = "built"
        BY <1>1, <2>3 DEF Save
      <3> QED
        BY <1>2, <2>1, <2>3, <3>1, <3>2 DEF Save
    <2>4. CASE Build(w)
      <3>1. CASE BuildErrors(w, work[w].alternate) = {} /\ Built(w)
        <4>1. LinkErrors(w) = {}
          BY <2>4, <3>1 DEF BuildErrors, Build
        <4> QED
          BY <2>1, <2>4, <3>1, <4>1, BuiltNeedsFragment DEF Build
      <3>2. CASE Fails(w, BuildErrors(w, work[w].alternate), "compat") /\ UNCHANGED verdict
        <4>1. work'[w].at = "compat"
          BY <1>1, <3>2 DEF Fails, Works
        <4> QED
          BY <1>2, <2>1, <2>4, <3>2, <4>1 DEF Build
      <3> QED
        BY <2>4, <3>1, <3>2 DEF Build
    <2>5. CASE Ladder(w)
      <3>1. CASE RungErrors(w) = {} /\ Built(w)
        <4>1. LinkErrors(w) = {}
          BY <2>5, <3>1 DEF RungErrors, Ladder
        <4> QED
          BY <2>1, <2>5, <3>1, <4>1, BuiltNeedsFragment DEF Ladder
      <3>2. CASE UNCHANGED verdict /\ (GoTo(w, "judge") \/ \E e \in ladder_best(w) : Fails(w, e, "fallback"))
        <4>1. work'[w].at \notin {"write", "probe"}
          BY <1>1, <3>2 DEF GoTo, Fails, Works
        <4> QED
          BY <1>2, <2>1, <2>5, <3>2, <4>1 DEF Ladder
      <3> QED
        BY <2>5, <3>1, <3>2 DEF Ladder
    <2>6. CASE Fallback(w)
      <3>1. CASE BuildErrors(w, TRUE) = {} /\ Built(w)
        <4>1. LinkErrors(w) = {}
          BY <2>6, <3>1 DEF BuildErrors, Fallback
        <4> QED
          BY <2>1, <2>6, <3>1, <4>1, BuiltNeedsFragment DEF Fallback
      <3>2. CASE UNCHANGED verdict /\ GoTo(w, "judge")
        <4>1. work'[w].at = "judge"
          BY <1>1, <3>2, MovesAre
        <4> QED
          BY <1>2, <2>1, <2>6, <3>2, <4>1 DEF Fallback
      <3> QED
        BY <2>6, <3>1, <3>2 DEF Fallback
    (* A trial is begun only where there is no fragment yet. *)
    <2>7. CASE Compat(w)
      <3>1. work'[w].at = (IF TriesFragment(w) THEN "write" ELSE "ladder")
        BY <1>1, <2>7, MovesAre DEF Compat
      <3>2. UNCHANGED <<fragment, defects, verdict>>
        BY <2>7 DEF Compat
      <3>3. CASE ~TriesFragment(w)
        BY <1>2, <2>1, <3>1, <3>2, <3>3
      <3>4. CASE TriesFragment(w)
        <4>1. fragment = "absent" /\ work'[w].at = "write"
          BY <3>1, <3>4 DEF TriesFragment
        <4>2. ASSUME NEW v \in Workers, At(v, "probe")', "fcommon" \in defects[Source(v)']
              PROVE  Hindered(Source(v))'
          <5>1. v # w /\ At(v, "probe") /\ Source(v)' = Source(v)
            BY <2>1, <4>1, <4>2 DEF At, Source
          <5>2. Hindered(Source(v))
            BY <1>1, <4>1, <4>2, <5>1 DEF FragmentInv
          <5> QED
            BY <2>1, <5>1, <5>2 DEF Hindered, Excused, Calm
        <4>3. ASSUME NEW t \in Targets, verdict[t] = "built", "fcommon" \in defects[SourceOf[t]]
              PROVE  Trialled(SourceOf[t])'
          <5>1. Trialled(SourceOf[t])
            BY <1>1, <4>1, <4>3 DEF FragmentInv
          <5> QED
            BY <2>1, <5>1 DEF Trialled, Excused, Calm
        <4> QED
          BY <3>2, <4>2, <4>3 DEF FragmentInv
      <3> QED
        BY <3>3, <3>4
    <2>8. CASE WriteFragment(w)
      <3>1. /\ SameRound(w) /\ At(w, "write") /\ UNCHANGED <<defects, verdict>>
            /\ \/ /\ work'[w].at = "probe" /\ fragment' = "fcommon"
                  /\ Trying(w) = {} \/ Note("overlap", Relying(w))
               \/ work'[w].at = "ladder" /\ Note("unwritten", Relying(w))
        BY <1>1, <2>8, MovesAre DEF WriteFragment
      <3>2. \A v \in Workers : Source(v)' = Source(v)
        BY <2>1, <3>1 DEF Source, SameRound
      <3>3. Trying(w)' = Trying(w) /\ Relying(w) \subseteq Workers
        BY <2>1 DEF Trying, Relying, At
      <3>4. ASSUME NEW v \in Workers, At(v, "probe")', "fcommon" \in defects[Source(v)']
            PROVE  Hindered(Source(v))' \/ (fragment' = "fcommon" /\ Trying(v)' = {})
        <4>1. v \in Trying(w) \cup {w} /\ "fcommon" \in defects[Source(v)]
          BY <2>1, <3>2, <3>4 DEF Trying, At
        <4>2. v \in Relying(w)
          BY <4>1 DEF Relying
        <4>3. ASSUME NEW what \in Hindrance, Note(what, Relying(w)) PROVE Hindered(Source(v))'
          <5>1. \E m \in mishaps' : m[1] = what /\ m[2] = Source(v)
            BY <1>1, <3>3, <4>2, <4>3, NoteIs DEF Reason
          <5> QED
            BY <3>2, <5>1 DEF Hindered, Excused
        <4>4. CASE Note("overlap", Relying(w)) \/ Note("unwritten", Relying(w))
          BY <4>3, <4>4 DEF Hindrance
        <4>5. CASE Trying(w) = {} /\ v = w
          BY <3>1, <3>3, <3>4, <4>4, <4>5 DEF At
        <4> QED
          BY <3>1, <4>1, <4>4, <4>5
      <3>5. ASSUME NEW t \in Targets, verdict[t] = "built", "fcommon" \in defects[SourceOf[t]]
            PROVE  Trialled(SourceOf[t])'
        <4>1. Trialled(SourceOf[t])
          BY <1>1, <3>1, <3>5 DEF FragmentInv, OnTrial
        <4> QED
          BY <2>1, <4>1 DEF Trialled, Excused, Calm
      <3> QED
        BY <3>1, <3>4, <3>5 DEF FragmentInv
    <2>9. CASE Probe(w)
      <3> DEFINE e == BuildErrors(w, work[w].alternate)
      <3>1. At(w, "probe") /\ UNCHANGED defects
        BY <2>9 DEF Probe
      <3>2. CASE e = {} /\ Built(w) /\ UNCHANGED fragment
        <4>1. LinkErrors(w) = {}
          BY <3>2 DEF BuildErrors
        <4> QED
          BY <2>1, <3>2, <4>1, BuiltNeedsFragment
      <3>3. CASE (\E x : Fails(w, x, "ladder")) /\ UNCHANGED verdict
        <4>1. work'[w].at = "ladder"
          BY <1>1, <3>3 DEF Fails, Works
        <4>2. ASSUME NEW v \in Workers, At(v, "probe")', "fcommon" \in defects[Source(v)']
              PROVE  Hindered(Source(v))'
          <5>1. v # w /\ At(v, "probe") /\ Source(v)' = Source(v)
            BY <2>1, <4>1, <4>2 DEF At, Source
          <5>2. w \in Trying(v)
            BY <3>1, <5>1 DEF Trying
          <5>3. Hindered(Source(v))
            BY <1>1, <4>2, <5>1, <5>2 DEF FragmentInv
          <5> QED
            BY <2>1, <5>1, <5>3 DEF Hindered, Excused, Calm
        <4>3. ASSUME NEW t \in Targets, verdict[t] = "built", "fcommon" \in defects[SourceOf[t]]
              PROVE  Trialled(SourceOf[t])'
          <5>1. Trialled(SourceOf[t])
            BY <1>1, <3>1, <4>3 DEF FragmentInv, OnTrial
          <5> QED
            BY <2>1, <5>1 DEF Trialled, Excused, Calm
        <4> QED
          BY <3>1, <3>3, <4>2, <4>3 DEF FragmentInv
      <3> QED
        BY <2>9, <3>2, <3>3 DEF Probe
    <2> QED
      BY <1>4, <2>2, <2>3, <2>4, <2>5, <2>6, <2>7, <2>8, <2>9 DEF Step
  <1>5. CASE DeadlinePasses \/ ForcedPhase \/ UNCHANGED vars
    <2>1. UNCHANGED <<fragment, defects, work, mishaps>>
      BY <1>5 DEF DeadlinePasses, ForcedPhase, vars
    <2>2. \A t \in Targets : verdict'[t] = "built" => verdict[t] = "built"
      BY <1>1, <1>5 DEF DeadlinePasses, ForcedPhase, vars
    <2>3. NoTrialBegins
      BY <2>1 DEF NoTrialBegins, OnTrial, At, Source
    <2> QED
      BY <1>1, <2>1, <2>2, <2>3, TrialQuiet
  <1>6. CASE Kill
    <2>1. UNCHANGED <<fragment, defects, verdict, mishaps>> /\ \A v \in Workers : work'[v] = NoWork
      BY <1>6 DEF Kill
    <2>2. NoTrialBegins
      BY <2>1, NoWorkType DEF NoTrialBegins, OnTrial, At
    <2> QED
      BY <1>1, <2>1, <2>2, TrialQuiet
  <1>7. ASSUME NEW resume \in BOOLEAN, NEW mended \in SUBSET Sources, StartRun(resume, mended) PROVE FragmentInv'
    <2>1. \A v \in Workers : work'[v].at = "idle" /\ work'[v] = work[v]
      BY <1>7 DEF StartRun, Idle, At
    <2>2. CASE ~resume
      <3>1. \A t \in Targets : verdict'[t] = "none"
        BY <1>7, <2>2 DEF StartRun
      <3> QED
        BY <2>1, <3>1 DEF FragmentInv, At
    <2>3. CASE resume
      <3>1. fragment' = fragment /\ mishaps \subseteq mishaps'
        BY <1>7, <2>3 DEF StartRun
      <3>2. NoTrialBegins
        BY <2>1 DEF NoTrialBegins, OnTrial, At
      <3>3. ASSUME NEW t \in Targets, verdict'[t] = "built", "fcommon" \in defects'[SourceOf[t]]
            PROVE  verdict[t] = "built" /\ "fcommon" \in defects[SourceOf[t]]
        <4>1. SourceOf[t] \in Sources
          BY AttemptAssumption
        <4>2. verdict[t] = "built" /\ SourceOf[t] \notin mended
          BY <1>7, <2>3, <3>3 DEF StartRun
        <4> QED
          BY <1>7, <3>3, <4>1, <4>2 DEF StartRun
      <3>4. \A v \in Workers : ~At(v, "probe")
        BY <2>1 DEF At
      <3> QED
        BY <1>1, <3>1, <3>2, <3>3, <3>4, TrialQuiet
    <2> QED
      BY <2>2, <2>3
  <1> QED
    BY <1>3, <1>4, <1>5, <1>6, <1>7 DEF Next

-----------------------------------------------------------------------------
(* The invariant, and what follows from it. *)

LEMMA AttemptInvAlways == Spec => []AttemptInv
  <1>1. Init => AttemptInv
    <2> SUFFICES ASSUME Init PROVE AttemptInv
      OBVIOUS
    <2>1. AttemptTypeInv
      <3>0. fragment \in Fragment
        BY DEF Init, Fragment
      <3>1. defects \in [Sources -> SUBSET Defect] /\ clumsy \in [Targets -> SUBSET DriverError]
        BY AttemptAssumption DEF Init
      <3>2. work \in [Workers -> Works] /\ mishaps \subseteq Mishap
        BY NoWorkType DEF Init
      <3>3. runs \in 1 .. MaxRuns
        BY AttemptAssumption DEF Init
      <3> QED
        BY <3>0, <3>1, <3>2, <3>3 DEF Init, AttemptTypeInv
    <2>2. \A w \in Workers : work[w] = NoWork
      BY DEF Init
    <2>3. ASSUME NEW w \in Workers PROVE WorkerInv(w)
      <3>1. /\ work[w].at = "idle" /\ work[w].repaired = {} /\ work[w].round = 0
            /\ work[w].distrust = FALSE /\ work[w].alternate = FALSE /\ work[w].memo.entries = {}
        <4>1. work[w] = NoWork
          BY <2>2
        <4> QED
          BY <4>1 DEF NoWork
      <3>2. RoundInv(w)
        BY <2>2, <3>1, FS_EmptySet DEF RoundInv, At, Failing
      <3>3. StationInv(w) /\ LoadedInv(w)
        BY <3>1 DEF StationInv, LoadedInv, At
      <3> QED
        BY <3>2, <3>3 DEF WorkerInv
    <2>4. MemoInv
      BY DEF Init, MemoInv
    <2>5. FragmentInv
      BY <2>2, NoWorkType DEF Init, FragmentInv, At
    <2> QED
      BY <2>1, <2>3, <2>4, <2>5 DEF AttemptInv, WorkersInv
  <1>2. AttemptInv /\ [Next]_vars => AttemptInv'
    <2> SUFFICES ASSUME AttemptInv, [Next]_vars PROVE AttemptInv'
      OBVIOUS
    <2>1. AttemptTypeInv
      BY DEF AttemptInv
    <2> QED
      BY <2>1, TypeNext, WorkersNext, MemoNext, FragmentNext DEF AttemptInv
  <1> QED
    BY <1>1, <1>2, PTL DEF Spec

(* The project, the memo and the attempts keep their types over any number  *)
(* of runs, and no attempt goes past --max-repair-rounds.                   *)
THEOREM AttemptTypeCorrect == Spec => []TypeOK
  <1>1. AttemptTypeInv => TypeOK
    <2> SUFFICES ASSUME AttemptTypeInv PROVE TypeOK
      OBVIOUS
    <2>1. Cardinality(memo) <= 1
      <3>1. CASE memo = {}
        BY <3>1, FS_EmptySet
      <3>2. ASSUME NEW m \in memo PROVE Cardinality(memo) <= 1
        <4>1. memo = {m}
          BY DEF AttemptTypeInv
        <4>2. Cardinality({m}) = 1
          BY FS_Singleton
        <4> QED
          BY <4>1, <4>2
      <3> QED
        BY <3>1, <3>2
    <2> QED
      BY <2>1 DEF AttemptTypeInv, TypeOK, Works, Places, Failing, Mishap, Reason
  <1> QED
    BY <1>1, AttemptInvAlways, PTL DEF AttemptInv

(* Whatever the workers do to each other, run_attempt gives up only on a    *)
(* target whose source or driver cannot be built within the repair cap, or  *)
(* if an attempt at this source was hindered.                               *)
THEOREM AttemptGivesUpHonestly == Spec => []GivesUpHonestly
  <1>1. AttemptInv => GivesUpHonestly
    BY DEF AttemptInv, WorkersInv, WorkerInv, StationInv, Hopeful, Hindered, GivesUpHonestly
  <1> QED
    BY <1>1, AttemptInvAlways, PTL

(* The memo of closures that could not be built holds none that could be in *)
(* the phase it was written in, and no target is written off unseen that    *)
(* its own attempt would have built; unless an attempt at the source was    *)
(* hindered, the source was mended, or an error of a driver got into the    *)
(* memo, which errors_are_closure_scoped does not rule out.                 *)
THEOREM AttemptMemoTrue == Spec => []MemoIsTrue
  <1>1. ASSUME AttemptInv PROVE MemoIsTrue
    <2>1. MemoInv
      BY <1>1 DEF AttemptInv
    <2>2. \A w \in Workers : At(w, "inherited") => ~Builds(Source(w), force) \/ Misled(Source(w))
      BY <1>1 DEF AttemptInv, WorkersInv, WorkerInv, LoadedInv
    <2> QED
      BY <2>1, <2>2 DEF MemoIsTrue, MemoInv, Misled
  <1> QED
    BY <1>1, AttemptInvAlways, PTL

(* A target that was linked with the -fcommon fragment still has it when    *)
(* other lanes are built from its Makefile, unless another worker had it on *)
(* trial when the target was built.                                         *)
THEOREM AttemptFragmentKept == Spec => []FragmentKept
  <1>1. AttemptInv => FragmentKept
    BY DEF AttemptInv, FragmentInv, FragmentKept, Trialled
  <1> QED
    BY <1>1, AttemptInvAlways, PTL
===============================================================================
