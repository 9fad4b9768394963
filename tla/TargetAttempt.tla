----------------------------- MODULE TargetAttempt -----------------------------
(***************************************************************************)
(* One target's attempt on the C lane (auto/attempt.rs), as the workers of *)
(* a sweep run it side by side: the memo of closures that could not be     *)
(* built, the repair rounds, and the build with its retries.               *)
(*                                                                         *)
(* The attempts share four things in the work directory: the memo, the     *)
(* -fcommon fragment every Makefile includes, the compiler found to be     *)
(* needed, and the C standards found to be needed.                         *)
(*                                                                         *)
(* What is wrong with a source is a set of defects:                        *)
(*   gcc, clang      only this compiler accepts it                         *)
(*   fcommon         links only with the fragment                          *)
(*   dup             duplicate definitions the fragment does not cure      *)
(*   old             compiles only under an older standard                 *)
(*   missing, deep   a repair cures it; deep shows once missing is cured   *)
(*   undef           an undefined symbol, which a repair cures             *)
(*   stub            only a forced repair cures it                         *)
(*   picky           the syntax check rejects it, the compiler does not    *)
(* Errors are the defects a build reports, "cutoff" for the text of an     *)
(* abandoned build, and what may be wrong with the generated driver:       *)
(*   harness         an error whose report names the driver's file         *)
(*   unplaced        one of a kind that carries no file, such as an        *)
(*                   incomplete type                                       *)
(***************************************************************************)
EXTENDS Naturals, FiniteSets

CONSTANTS
  Workers, Targets,
  Sources, SourceOf,   \* the source file of each target
  Worlds,              \* what the defects of the sources may be
  Drivers,             \* what may be wrong with the targets' generated drivers
  MaxRounds,           \* --max-repair-rounds
  MaxRuns,             \* bound on runs over one work directory
  Faults               \* SUBSET {"kill", "deadline", "edit", "io"}

Defect == {"gcc", "clang", "fcommon", "dup", "old", "missing", "deep", "undef", "stub",
           "picky"}
DriverError == {"harness", "unplaced"}
Error == Defect \cup DriverError \cup {"cutoff"}

ASSUME AttemptAssumption ==
  /\ SourceOf \in [Targets -> Sources] /\ Worlds \subseteq [Sources -> SUBSET Defect]
  /\ Drivers \subseteq [Targets -> SUBSET DriverError] /\ Targets # {}
  /\ MaxRounds \in Nat /\ MaxRuns \in Nat \ {0}
  /\ Faults \subseteq {"kill", "deadline", "edit", "io"}

VARIABLES
  defects, clumsy,             \* what is wrong with the sources and with the drivers
  fragment, compiler, dialects,        \* c_compat.mk, c_compiler.txt, cxx_dialects
  memo,                                \* what MEMO_FILE parses to: one memo or none
  runs, up, force, late,       \* runs so far, one is on, its phase is forced, its budget gone
  verdict,                     \* what is known of each target
  work,                        \* each worker's attempt
  mishaps                      \* <<what, source>> that explains a wrong verdict

world == <<defects, clumsy>>
project == <<fragment, compiler, dialects>>
run == <<runs, up, force, late>>
vars == <<world, project, memo, run, verdict, work, mishaps>>

(* A write of c_compat.mk that fails may leave it empty. *)
Fragment == {"absent", "empty", "fcommon"}

Label == [force : BOOLEAN, fragment : Fragment, dialects : SUBSET Targets]
Memo == [label : Label, entries : SUBSET Sources]

(* The attempt a worker is in: where it is, its target, the locals of       *)
(* run_attempt and try_build_c, and the memo it has loaded.                 *)
NoLabel == [force |-> FALSE, fragment |-> "absent", dialects |-> {}]
NoWork ==
  [at |-> "idle", target |-> CHOOSE t \in Targets : TRUE, round |-> 0, alternate |-> FALSE,
   repaired |-> {}, distrust |-> FALSE, errs |-> {}, memo |-> [label |-> NoLabel, entries |-> {}]]
At(w, place) == work[w].at = place
Idle == \A w \in Workers : At(w, "idle")

Init ==
  /\ defects \in Worlds /\ clumsy \in Drivers
  /\ fragment = "absent" /\ compiler = FALSE /\ dialects = {} /\ memo = {}
  /\ runs = 1 /\ up = TRUE /\ force = FALSE /\ late = FALSE
  /\ verdict = [t \in Targets |-> "none"]
  /\ work = [w \in Workers |-> NoWork]
  /\ mishaps = {}

-----------------------------------------------------------------------------
(* Variants with a plausible mistake each. *)

(* The fingerprint leaves the force flag out. *)
fingerprint_without_force == [force |-> FALSE, fragment |-> fragment, dialects |-> dialects]

(* The fragment is tried although it is there. *)
TriesFragmentAnyway(w) == work[w].errs \cap {"fcommon", "dup"} # {}

(* The check is always believed. *)
DoubtNever(w) == FALSE

-----------------------------------------------------------------------------
(* What a build reports.  A compiler that stops leaves the linker nothing   *)
(* to say.                                                                  *)
Source(w) == SourceOf[work[w].target]

Showing(w) == {"missing", "stub"} \cup (IF "missing" \in work[w].repaired THEN {"deep"} ELSE {})

CompileErrors(w, gcc) ==
  LET d == defects[Source(w)]
  IN (IF gcc THEN d \cap {"clang"} ELSE d \cap {"gcc"})
       \cup (d \cap {"old"})
       \cup ((d \cap Showing(w)) \ work[w].repaired)
       \cup clumsy[work[w].target]

LinkErrors(w) ==
  (defects[Source(w)] \cap ({"dup", "undef"} \cup (IF fragment = "fcommon" THEN {} ELSE {"fcommon"})))
    \ work[w].repaired

BuildErrors(w, gcc) ==
  IF CompileErrors(w, gcc) # {} THEN CompileErrors(w, gcc) ELSE LinkErrors(w)

CheckErrors(w) == CompileErrors(w, work[w].alternate) \cup (defects[Source(w)] \cap {"picky"})

(* plan_repair_forced_with_source_policy offers something for one of them. *)
Repairable(e) == e \cap ({"missing", "deep", "undef"} \cup (IF force THEN {"stub"} ELSE {}))

output_may_require_fcommon(e) == e \cap {"fcommon", "dup"} # {}

-----------------------------------------------------------------------------
(* attempt_with_progress: the memo comes before the cascade. *)

(* project_fingerprint.  The compiler is not part of it. *)
project_fingerprint == [force |-> force, fragment |-> fragment, dialects |-> dialects]

(* The sweep hands out the target, if there is budget left. *)
Begin(w, t) ==
  /\ At(w, "idle") /\ verdict[t] \in {"none", "again"} /\ up /\ ~late
  /\ \A v \in Workers : At(v, "idle") \/ work[v].target # t
  /\ work' = [work EXCEPT ![w].at = "load", ![w].target = t, ![w].memo.label = project_fingerprint]
  /\ UNCHANGED <<world, project, memo, run, verdict, mishaps>>

(* ClosureMemo::load: a file that does not parse, or that was written under *)
(* another project state, counts for nothing.                               *)
Known(label) == UNION {m.entries : m \in {n \in memo : n.label = label}}

(* terminal_failure_for: a hit goes straight to the record, a miss to the   *)
(* first round of run_attempt.                                              *)
Load(w) ==
  LET entries == Known(work[w].memo.label)
  IN /\ At(w, "load")
     /\ work' = [work EXCEPT ![w].memo.entries = entries,
                             ![w].at = IF Source(w) \in entries THEN "inherited" ELSE "round"]
     /\ UNCHANGED <<world, project, memo, run, verdict, mishaps>>

-----------------------------------------------------------------------------
(* run_attempt: one round of the repair loop. *)

GoTo(w, place) == work' = [work EXCEPT ![w].at = place]
Fails(w, e, place) == work' = [work EXCEPT ![w].at = place, ![w].errs = e]
Note(what, who) == mishaps' = mishaps \cup ({what} \X {Source(w) : w \in who})

(* The round is a full build if it is the first, or the check is no longer  *)
(* trusted.  The compiler is chosen here, once for the whole round.         *)
StartRound(w) ==
  /\ At(w, "round") /\ ~(work[w].round > 0 /\ late)
  /\ work' = [work EXCEPT
                ![w].alternate = compiler,
                ![w].at = IF work[w].round > 0 /\ ~work[w].distrust THEN "check" ELSE "build"]
  /\ UNCHANGED <<world, project, memo, run, verdict, mishaps>>

(* campaign_budget_exhausted before a further round *)
CutOff(w) ==
  /\ At(w, "round") /\ work[w].round > 0 /\ late
  /\ Fails(w, {"cutoff"}, "record") /\ Note("cutoff", {w})
  /\ UNCHANGED <<world, project, memo, run, verdict>>

(* The syntaxcheck target of the Makefile *)
Check(w) ==
  /\ At(w, "check")
  /\ Fails(w, CheckErrors(w), IF CheckErrors(w) # {} THEN "judge" ELSE "build")
  /\ UNCHANGED <<world, project, memo, run, verdict, mishaps>>

(* Workers that look whether the fragment helps *)
Trying(w) == {v \in Workers \ {w} : At(v, "write") \/ At(v, "probe")}

(* The attempt ends with a built target, thanks perhaps to a fragment that  *)
(* is only on trial.                                                        *)
Built(w) ==
  /\ verdict' = [verdict EXCEPT ![work[w].target] = "built"]
  /\ work' = [work EXCEPT ![w] = NoWork]
  /\ IF "fcommon" \in defects[Source(w)] /\ Trying(w) # {} THEN Note("trial", {w})
                                                           ELSE UNCHANGED mishaps

Build(w) ==
  LET e == BuildErrors(w, work[w].alternate)
  IN /\ At(w, "build")
     /\ \/ e = {} /\ Built(w)
        \/ e # {} /\ Fails(w, e, "compat") /\ UNCHANGED <<verdict, mishaps>>
     /\ UNCHANGED <<world, project, memo, run>>

(* The fragment is tried if the link calls for it and there is no such     *)
(* file yet, whatever it says.                                              *)
TriesFragment(w) == output_may_require_fcommon(work[w].errs) /\ fragment = "absent"

Compat(w) ==
  /\ At(w, "compat")
  /\ GoTo(w, IF TriesFragment(w) THEN "write" ELSE "ladder")
  /\ IF "fcommon" \in work[w].errs /\ fragment # "absent" THEN Note("fragment", {w}) ELSE UNCHANGED mishaps
  /\ UNCHANGED <<world, project, memo, run, verdict>>

(* Those who may miss the fragment if one of them meddles with it *)
Relying(w) == {v \in Trying(w) \cup {w} : "fcommon" \in defects[Source(v)]}

(* If the file cannot be opened or, opened and so emptied, not be written,  *)
(* nothing is tried.                                                        *)
WriteFragment(w) ==
  /\ At(w, "write")
  /\ \/ /\ fragment' = "fcommon" /\ GoTo(w, "probe")
        /\ IF Trying(w) # {} THEN Note("overlap", Relying(w)) ELSE UNCHANGED mishaps
     \/ /\ "io" \in Faults
        /\ fragment' \in {fragment, "empty"} /\ GoTo(w, "ladder")
        /\ Note("unwritten", Relying(w))
  /\ UNCHANGED <<world, compiler, dialects, memo, run, verdict>>

(* The fragment is kept, and the new errors count, if the duplicates went. *)
Probe(w) ==
  LET e == BuildErrors(w, work[w].alternate)
      helps == ~output_may_require_fcommon(e)
  IN /\ At(w, "probe")
     /\ \/ e = {} /\ Built(w) /\ UNCHANGED fragment
        \/ /\ e # {} /\ fragment' = (IF helps THEN fragment ELSE "absent")
           /\ Fails(w, IF helps THEN e ELSE work[w].errs, "ladder")
           /\ UNCHANGED <<verdict, mishaps>>
     /\ UNCHANGED <<world, compiler, dialects, memo, run>>

(* The ladder of older standards, each a build of its own.  A standard, or  *)
(* a compiler, cannot define a symbol.                                      *)
is_pure_link_failure(e) == e \subseteq {"undef"}

RungErrors(w) ==
  LET e == CompileErrors(w, work[w].alternate) \ {"old"}
  IN IF e # {} THEN e ELSE LinkErrors(w)

(* The errors of the best rung are adopted if there are no more of them:    *)
(* certainly if they are among those of the default, perhaps if not.        *)
ladder_best(w) == {RungErrors(w)} \cup (IF RungErrors(w) \subseteq work[w].errs THEN {} ELSE {work[w].errs})

Ladder(w) ==
  /\ At(w, "ladder")
  /\ \/ is_pure_link_failure(work[w].errs) /\ GoTo(w, "judge") /\ UNCHANGED <<dialects, verdict, mishaps>>
     \/ /\ ~is_pure_link_failure(work[w].errs) /\ RungErrors(w) = {}
        /\ Built(w) /\ dialects' = dialects \cup {work[w].target}
     \/ /\ ~is_pure_link_failure(work[w].errs) /\ RungErrors(w) # {}
        /\ \E e \in ladder_best(w) : Fails(w, e, "fallback")
        /\ UNCHANGED <<dialects, verdict, mishaps>>
  /\ UNCHANGED <<world, fragment, compiler, memo, run>>

(* The other compiler, unless it is in use or already known to be needed *)
TriesGcc(w) == ~work[w].alternate /\ ~compiler

Fallback(w) ==
  LET cures == BuildErrors(w, TRUE) = {}
  IN /\ At(w, "fallback")
     /\ \/ TriesGcc(w) /\ cures /\ Built(w) /\ compiler' = TRUE
        \/ /\ ~(TriesGcc(w) /\ cures) /\ GoTo(w, "judge")
           /\ IF ~work[w].alternate /\ cures THEN Note("compiler", {w}) ELSE UNCHANGED mishaps
           /\ UNCHANGED <<compiler, verdict>>
     /\ UNCHANGED <<world, fragment, dialects, memo, run>>

NextRound(w, cured, wary) ==
  work' = [work EXCEPT ![w].at = "round", ![w].round = @ + 1,
                       ![w].repaired = @ \cup cured, ![w].distrust = wary]

AtCap(w) == work[w].round = MaxRounds

(* A check, not a build, may have been the last to speak. *)
Doubt(w) == work[w].round > 0 /\ ~work[w].distrust

(* The failed branch of the loop: a repair, one more full build, or, at the *)
(* cap or with nothing left to try, the end.                                *)
Judge(w) ==
  LET plan == Repairable(work[w].errs)
  IN /\ At(w, "judge")
     /\ \/ ~AtCap(w) /\ plan # {} /\ NextRound(w, plan, work[w].distrust)
        \/ ~AtCap(w) /\ plan = {} /\ Doubt(w) /\ NextRound(w, {}, TRUE)
        \/ (AtCap(w) \/ (plan = {} /\ ~Doubt(w))) /\ GoTo(w, "record")
     /\ UNCHANGED <<world, project, memo, run, verdict, mishaps>>

-----------------------------------------------------------------------------
(* The end of attempt_with_progress. *)

(* errors_are_closure_scoped.  The driver is recognised by its file name,   *)
(* which only two kinds of error carry.  classify drops the unclassified    *)
(* text if there is any classified error and shortens it if there is much,  *)
(* so next to other errors the driver's may go unnoticed; and the text of   *)
(* an unclassified error may happen to mention the driver.                  *)
Unclassified == {"gcc", "clang", "fcommon", "dup", "old", "picky"}
closure_scoped(e, scoped) ==
  IF scoped THEN e # {"harness"} ELSE e \cap (Unclassified \cup {"harness"}) # {}

(* Errors of the driver that are not all recognisable as such *)
Ambiguous(e) == e \cap DriverError # {} /\ e # {"harness"}

(* ClosureMemo::record, then save: the file is truncated first.  An         *)
(* inherited failure is recorded again as it was.                           *)
Record(w) ==
  /\ \/ /\ At(w, "inherited")
        /\ GoTo(w, "saving") /\ UNCHANGED mishaps
     \/ \E scoped \in BOOLEAN :
          /\ At(w, "record") /\ closure_scoped(work[w].errs, scoped)
          /\ work' = [work EXCEPT ![w].at = "saving",
                        ![w].memo.entries = @ \cup (IF scoped THEN {Source(w)} ELSE {})]
          /\ IF scoped /\ Ambiguous(work[w].errs) THEN Note("driver", {w}) ELSE UNCHANGED mishaps
  /\ memo' = {}
  /\ UNCHANGED <<world, project, run, verdict>>

(* Two writes at once, or a full disk, leave a file that does not parse. *)
Save(w) ==
  /\ At(w, "saving")
  /\ memo' \in {{work[w].memo}, {}}
  /\ verdict' = [verdict EXCEPT ![work[w].target] = "failed"]
  /\ work' = [work EXCEPT ![w] = NoWork]
  /\ UNCHANGED <<world, project, run, mishaps>>

-----------------------------------------------------------------------------
(* The run around the attempts. *)

DeadlinePasses ==
  /\ "deadline" \in Faults /\ up /\ ~late
  /\ late' = TRUE
  /\ UNCHANGED <<world, project, memo, runs, up, force, verdict, work, mishaps>>

(* Phase 2 attempts again, forced, what phase 1 could not build. *)
ForcedPhase ==
  /\ Idle /\ up /\ ~force /\ ~late /\ \A t \in Targets : verdict[t] \in {"built", "failed"}
  /\ force' = TRUE
  /\ verdict' = [t \in Targets |-> IF verdict[t] = "failed" THEN "again" ELSE verdict[t]]
  /\ UNCHANGED <<world, project, memo, runs, up, late, work, mishaps>>

(* work_state::prepare: a fresh run removes the memo, the fragment and the  *)
(* standards, a resumed one keeps them.  The compiler is always kept.       *)
refresh_regenerable_state == fragment' = "absent" /\ dialects' = {} /\ memo' = {}

(* Before a run somebody may mend sources; a resumed run attempts the       *)
(* targets of those again.                                                  *)
StartRun(resume, mended) ==
  /\ Idle /\ runs < MaxRuns /\ runs' = runs + 1
  /\ mended = {} \/ "edit" \in Faults
  /\ defects' = [s \in Sources |-> IF s \in mended THEN {} ELSE defects[s]]
  /\ up' = TRUE /\ force' = FALSE /\ late' = FALSE
  /\ \/ /\ ~resume /\ refresh_regenerable_state
        /\ verdict' = [t \in Targets |-> "none"] /\ mishaps' = {}
     \/ /\ resume /\ UNCHANGED <<fragment, dialects, memo>>
        /\ verdict' = [t \in Targets |-> IF SourceOf[t] \in mended THEN "none"
                                         ELSE IF verdict[t] = "again" THEN "failed" ELSE verdict[t]]
        /\ mishaps' = mishaps \cup ({"edit"} \X mended)
  /\ UNCHANGED <<clumsy, compiler, work>>

(* The process dies: what is on disk stays as it is. *)
Kill ==
  /\ "kill" \in Faults /\ up
  /\ work' = [w \in Workers |-> NoWork] /\ up' = FALSE
  /\ UNCHANGED <<world, project, memo, runs, force, late, verdict, mishaps>>

Step(w) ==
  \/ Load(w) \/ StartRound(w) \/ CutOff(w) \/ Check(w) \/ Build(w) \/ Compat(w)
  \/ WriteFragment(w) \/ Probe(w) \/ Ladder(w) \/ Fallback(w) \/ Judge(w)
  \/ Record(w) \/ Save(w)

Next ==
  \/ \E w \in Workers : Step(w) \/ \E t \in Targets : Begin(w, t)
  \/ DeadlinePasses \/ ForcedPhase \/ Kill
  \/ \E resume \in BOOLEAN, mended \in SUBSET Sources : StartRun(resume, mended)

Spec == Init /\ [][Next]_vars

-----------------------------------------------------------------------------
(* What may keep an attempt from a build it would otherwise reach: the      *)
(* budget ended, another worker's trial of the fragment came in between,    *)
(* the fragment could not be written, or another worker found the compiler. *)
Hindrance == {"cutoff", "fragment", "overlap", "unwritten", "compiler"}

(* The project, the memo and the attempts keep their types; no attempt goes *)
(* past the repair cap.                                                     *)
TypeOK ==
  /\ defects \in [Sources -> SUBSET Defect] /\ clumsy \in [Targets -> SUBSET DriverError]
  /\ fragment \in Fragment /\ compiler \in BOOLEAN /\ dialects \subseteq Targets
  /\ memo \subseteq Memo /\ Cardinality(memo) <= 1
  /\ runs \in 1 .. MaxRuns /\ up \in BOOLEAN /\ force \in BOOLEAN /\ late \in BOOLEAN
  /\ verdict \in [Targets -> {"none", "built", "failed", "again"}]
  /\ work \in [Workers ->
       [at : {"idle", "load", "inherited", "round", "check", "build", "compat", "write", "probe",
              "ladder", "fallback", "judge", "record", "saving"},
        target : Targets, round : 0 .. MaxRounds, alternate : BOOLEAN, repaired : SUBSET Defect,
        distrust : BOOLEAN, errs : SUBSET Error, memo : Memo]]
  /\ mishaps \subseteq (Hindrance \cup {"trial", "edit", "driver"}) \X Sources

(* The sources an undisturbed attempt builds, given the compiler the        *)
(* project has settled on.  What only another compiler or another standard  *)
(* cures must be all that is left once the repairs are made, since neither  *)
(* is tried together with anything else.  A repair takes a round, and one   *)
(* more is needed if the check goes on to report what only a full build     *)
(* can settle.                                                              *)
Cured == {"missing", "deep", "undef", "stub"}
Rounds(d) == Cardinality(d \cap Cured) + (IF d \cap {"gcc", "old", "picky"} # {} THEN 1 ELSE 0)
Builds(s, forced) ==
  LET d == defects[s]
  IN /\ "dup" \notin d /\ ~({"gcc", "clang"} \subseteq d)
     /\ "clang" \in d => ~compiler
     /\ "stub" \in d => forced
     /\ "gcc" \in d => d \cap {"old", "undef", "fcommon"} = {}
     /\ "old" \in d => d \cap {"undef", "fcommon"} = {}
     /\ d \cap Cured # {} => Rounds(d) <= MaxRounds

Excused(s, reasons) == \E m \in mishaps : m[1] \in reasons /\ m[2] = s

(* An attempt gives up on a target only if its source or its driver cannot  *)
(* be built, or if it, or an earlier attempt at the same source, was        *)
(* hindered.                                                                *)
GivesUpHonestly ==
  \A w \in Workers : At(w, "record")
    => \/ clumsy[work[w].target] # {} \/ ~Builds(Source(w), force)
       \/ Excused(Source(w), Hindrance)

(* Nothing gets into the memo that an undisturbed attempt would build, and  *)
(* a target is written off unseen only if its own attempt would have failed *)
(* too, in this phase and with what the project knows by now; unless an     *)
(* attempt at the source was hindered, the source was mended, or an error   *)
(* of a driver was taken for one of the closure.                            *)
MemoIsTrue ==
  LET Misled(s) == Excused(s, Hindrance \cup {"edit", "driver"})
  IN /\ \A m \in memo : \A s \in m.entries : ~Builds(s, m.label.force) \/ Misled(s)
     /\ \A w \in Workers : At(w, "inherited") => ~Builds(Source(w), force) \/ Misled(Source(w))

(* A target is written off unseen only if its own attempt would have failed *)
(* too: "re-running the cascade would spend a full round budget reaching    *)
(* the identical verdict" (attempt_with_progress).                          *)
InheritsSameVerdict ==
  \A w \in Workers : At(w, "inherited") => ~Builds(Source(w), force)

(* The lanes built later from the same Makefile see the fragment a target   *)
(* was linked with, unless another worker had it on trial at that moment.   *)
FragmentKept ==
  \A t \in Targets : verdict[t] = "built" /\ "fcommon" \in defects[SourceOf[t]]
    => fragment = "fcommon" \/ Excused(SourceOf[t], {"trial"})
=============================================================================
