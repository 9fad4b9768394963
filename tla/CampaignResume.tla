---------------------------- MODULE CampaignResume ----------------------------
(***************************************************************************)
(* What `govfuzz auto` keeps in a work directory between runs, and how a   *)
(* later run with --resume decides which results it may reuse.             *)
(*                                                                         *)
(* The world outside has three identities that only grow: the build        *)
(* context, the content of each target's source file, and the govfuzz      *)
(* binary.  A result carries the identities it was obtained under; the     *)
(* program does not store these with the result, it keeps one marker per   *)
(* identity for the whole work directory, and 0 stands for a missing one.  *)
(*                                                                         *)
(* A sweep is the set of targets it still has to attempt: the order and    *)
(* the threads are the business of ParallelSweep.                          *)
(***************************************************************************)
EXTENDS Naturals, Functions

CONSTANTS
  Targets,
  MaxEdits,   \* bound on changes of the world
  Faults      \* what may happen to a run, a subset of FaultKinds

(* stop: q, a deadline, a budget or a met cap end the handing out of targets *)
(* kill: the process dies, or an error aborts the run                        *)
(* toggle: [f] is pressed        nocache: --no-discovery-cache is given      *)
(* edit_running: the world changes during a sweep                            *)
(* write_error: a write whose error the code ignores fails                   *)
FaultKinds == {"stop", "kill", "toggle", "nocache", "edit_running", "write_error"}

ASSUME ResumeAssumption == Targets # {} /\ MaxEdits \in Nat /\ Faults \subseteq FaultKinds

VARIABLES
  now, edits,                       \* the world
  record, fp, files, producer,      \* result.json files, build-context.fingerprint,
                                    \* source-files, work-state.json
  stage, opts, incompatible, scope, \* the run
  todo, resumed, upgrade,           \* what Select decided
  results, forced_results,
  live_force, stopped,
  log,                              \* every attempt ever made
  missed                            \* a run did not bring a file up to date: its write
                                    \* failed unnoticed, or the cache was off

world == <<now, edits>>
disk == <<record, fp, files, producer>>
choice == <<opts, incompatible, scope, resumed, upgrade>>
sweep == <<todo, results, forced_results>>
flags == <<live_force, stopped>>
history == <<log, missed>>
vars == <<world, disk, stage, choice, sweep, flags, history>>

Version == 1 .. MaxEdits + 1
Result == [fuzzed : BOOLEAN, forced : BOOLEAN, ctx : Version, src : Version, bin : Version]
IsPartial(f, T) == DOMAIN f \subseteq Targets /\ \A t \in DOMAIN f : f[t] \in T
NoResults == [t \in {} |-> 0]
Put(f, t, r) == [u \in DOMAIN f \cup {t} |-> IF u = t THEN r ELSE f[u]]
Union(f, g) == [u \in DOMAIN f \cup DOMAIN g |-> IF u \in DOMAIN g THEN g[u] ELSE f[u]]

Init ==
  /\ now = [ctx |-> 1, src |-> [t \in Targets |-> 1], bin |-> 1] /\ edits = 0
  /\ record = NoResults /\ fp = 0 /\ files = NoResults /\ producer = 0
  /\ stage = "off"
  /\ opts = [resume |-> FALSE, force |-> FALSE, cache |-> TRUE]
  /\ incompatible = FALSE
  /\ scope = [published |-> FALSE, unchanged |-> {}]
  /\ todo = {} /\ resumed = NoResults /\ upgrade = NoResults
  /\ results = NoResults /\ forced_results = NoResults
  /\ live_force = FALSE /\ stopped = FALSE
  /\ log = {} /\ missed = FALSE

-----------------------------------------------------------------------------
(* Variants with a plausible mistake each. *)

(* One changed file makes the whole tree changed. *)
publish_tree ==
  IF \A t \in Targets : t \in DOMAIN files /\ files[t] = now.src[t] THEN Targets ELSE {}

(* An unforced run keeps forced results. *)
resume_should_reattempt_keeps_forced(prior_fuzzed, prior_forced, now_force) ==
  ~prior_forced /\ now_force /\ ~prior_fuzzed

(* Any earlier fingerprint will do. *)
build_context_unchanged_if_known == fp # 0

(* Everything phase 1 attempted is forced. *)
Retry_all(all) == DOMAIN all

(* Only what this run attempted is forced. *)
Retry_attempted(all) == {t \in DOMAIN all : ~all[t].fuzzed /\ t \notin DOMAIN upgrade}

(* The forced result is kept only when it fuzzed. *)
merge_if_fuzzed(all, forced) ==
  Union(all, Restrict(forced, {t \in DOMAIN forced : forced[t].fuzzed}))

(* A resumed run considers only the targets it has a record of. *)
Remaining_recorded(settled) == (IF opts.resume THEN DOMAIN record ELSE Targets) \ settled

-----------------------------------------------------------------------------
(* The world. *)
Stamp(t) == [ctx |-> now.ctx, src |-> now.src[t], bin |-> now.bin]

Idle == stage \in {"off", "done"}
Sweeping == stage \in {"phase1", "phase2"}

Edit ==
  /\ edits < MaxEdits /\ edits' = edits + 1
  /\ Idle \/ ("edit_running" \in Faults /\ Sweeping)
  /\ \/ now' = [now EXCEPT !.ctx = @ + 1]
     \/ \E t \in Targets : now' = [now EXCEPT !.src[t] = @ + 1]
     \/ Idle /\ now' = [now EXCEPT !.bin = @ + 1]
  /\ UNCHANGED <<disk, stage, choice, sweep, flags, history>>

-----------------------------------------------------------------------------
(* report::atomic_write where the caller drops its result: all or nothing. *)
Written(old, new) == {new} \cup (IF "write_error" \in Faults THEN {old} ELSE {})

(* work_state::prepare is the first thing a run does to the work directory: *)
(* the binary is compared with the one that wrote it and takes its place.   *)
(* What prepare then clears can be generated again; the records stay.       *)
StartRun(resume, force, cache) ==
  /\ Idle
  /\ cache \/ "nocache" \in Faults
  /\ opts' = [resume |-> resume, force |-> force, cache |-> cache]
  /\ incompatible' = (producer # 0 /\ producer # now.bin)
  /\ producer' = now.bin
  /\ scope' = [published |-> FALSE, unchanged |-> {}]
  /\ todo' = {} /\ resumed' = NoResults /\ upgrade' = NoResults
  /\ results' = NoResults /\ forced_results' = NoResults
  /\ live_force' = FALSE /\ stopped' = FALSE
  /\ stage' = "prepared"
  /\ UNCHANGED <<world, record, fp, files, history>>

(* resume_scope::publish: the files with the content of the last run. *)
publish == {t \in DOMAIN files : files[t] = now.src[t]}

(* discover_or_reuse: compare with the last run, then take its place. *)
Discover ==
  /\ stage = "prepared"
  /\ \/ /\ opts.cache
        /\ scope' = [published |-> TRUE, unchanged |-> publish]
        /\ files' \in Written(files, now.src)
        /\ missed' = (missed \/ files' # now.src)
     \/ ~opts.cache /\ missed' = TRUE /\ UNCHANGED <<scope, files>>
  /\ stage' = "discovered"
  /\ UNCHANGED <<world, record, fp, producer, opts, incompatible, resumed, upgrade,
                 sweep, flags, log>>

file_unchanged(t) == ~scope.published \/ t \in scope.unchanged

resume_should_reattempt(prior_fuzzed, prior_forced, now_force) ==
  \/ prior_forced /\ ~now_force
  \/ ~prior_forced /\ now_force /\ ~prior_fuzzed

Reattempt(r) ==
  \/ incompatible /\ ~r.fuzzed
  \/ resume_should_reattempt(r.fuzzed, r.forced, opts.force)

(* discovery::build_context_fingerprint, which leaves the force flag out. *)
build_context_fingerprint == now.ctx

build_context_unchanged == fp = build_context_fingerprint

FingerprintNow == build_context_fingerprint

(* Every candidate that is not settled is attempted. *)
Remaining(settled) == Targets \ settled

(* The resume block of run_inner: split the candidates into those reloaded, *)
(* those that wait for phase 2 with their old result, and the rest.         *)
Select ==
  LET known == {t \in DOMAIN record :
                  opts.resume /\ build_context_unchanged /\ file_unchanged(t)}
      stale == {t \in known : Reattempt(record[t])}
      waits == {t \in stale : ~record[t].forced /\ opts.force /\ ~record[t].fuzzed}
  IN /\ stage = "discovered"
     /\ resumed' = Restrict(record, known \ stale)
     /\ upgrade' = Restrict(record, waits)
     /\ todo' = Remaining((known \ stale) \cup waits)
     /\ fp' \in Written(fp, FingerprintNow)
     /\ missed' = (missed \/ fp' # FingerprintNow)
     /\ live_force' = opts.force
     /\ stage' = "phase1"
     /\ UNCHANGED <<world, record, files, producer, opts, incompatible, scope, results,
                    forced_results, stopped, log>>

-----------------------------------------------------------------------------
(* The sweeps: an attempt ends with its result in result.json. *)
Outcome(t, fuzzed, forced) ==
  [fuzzed |-> fuzzed, forced |-> forced, ctx |-> now.ctx, src |-> now.src[t],
   bin |-> now.bin]

(* persist_target_result *)
Persist(t, r) ==
  /\ record' \in Written(record, Put(record, t, r))
  /\ missed' = (missed \/ record' # Put(record, t, r))
  /\ log' = log \cup {<<t, Stamp(t)>>}
  /\ UNCHANGED <<fp, files, producer>>

Attempt(t) ==
  /\ stage = "phase1" /\ t \in todo /\ ~stopped
  /\ todo' = todo \ {t}
  /\ \E fuzzed \in BOOLEAN :
       LET r == Outcome(t, fuzzed, FALSE) IN results' = Put(results, t, r) /\ Persist(t, r)
  /\ UNCHANGED <<world, stage, choice, forced_results, flags>>

(* What phase 1 could not fuzz, and what waited for phase 2. *)
Retry(all) == {t \in DOMAIN all : ~all[t].fuzzed}

EndPhase1 ==
  LET all == Union(results, upgrade)
      goes == live_force /\ ~stopped /\ Retry(all) # {}
  IN /\ stage = "phase1" /\ (todo = {} \/ stopped)
     /\ results' = all
     /\ todo' = IF goes THEN Retry(all) ELSE {}
     /\ stage' = IF goes THEN "phase2" ELSE "reporting"
     /\ UNCHANGED <<world, disk, choice, forced_results, flags, history>>

AttemptForced(t) ==
  /\ stage = "phase2" /\ t \in todo /\ ~stopped
  /\ todo' = todo \ {t}
  /\ \E fuzzed \in BOOLEAN :
       LET r == Outcome(t, fuzzed, TRUE)
       IN forced_results' = Put(forced_results, t, r) /\ Persist(t, r)
  /\ UNCHANGED <<world, stage, choice, results, flags>>

merge_forced_retry(all, forced) == Union(all, forced)

(* The forced results are folded in, the reloaded ones appended. *)
Finish ==
  /\ \/ stage = "phase2" /\ (todo = {} \/ stopped)
     \/ stage = "reporting"
  /\ results' = Union(merge_forced_retry(results, forced_results), resumed)
  /\ stage' = "done"
  /\ UNCHANGED <<world, disk, choice, todo, forced_results, flags, history>>

(* [f], RunStatus::set_force *)
Toggle ==
  /\ "toggle" \in Faults /\ Sweeping
  /\ live_force' = ~live_force
  /\ UNCHANGED <<world, disk, stage, choice, sweep, stopped, history>>

Stop ==
  /\ "stop" \in Faults /\ Sweeping /\ ~stopped
  /\ stopped' = TRUE
  /\ UNCHANGED <<world, disk, stage, choice, sweep, live_force, history>>

(* Nothing but the files survives. *)
Kill ==
  /\ "kill" \in Faults /\ ~Idle
  /\ stage' = "off"
  /\ UNCHANGED <<world, disk, choice, sweep, flags, history>>

Next ==
  \/ Edit
  \/ \E resume, force, cache \in BOOLEAN : StartRun(resume, force, cache)
  \/ Discover \/ Select
  \/ \E t \in Targets : Attempt(t) \/ AttemptForced(t)
  \/ EndPhase1 \/ Finish
  \/ Toggle \/ Stop \/ Kill

(* Runs are started again and again, and however often one is killed, no    *)
(* step is the one that is always hit: in the long run some target is done. *)
Fairness ==
  /\ WF_vars(\E resume, force, cache \in BOOLEAN : StartRun(resume, force, cache))
  /\ SF_vars(Discover) /\ SF_vars(Select)
  /\ SF_vars(\E t \in Targets : Attempt(t))
  /\ WF_vars(EndPhase1) /\ WF_vars(Finish)
  /\ WF_vars(\E t \in Targets : AttemptForced(t))

Spec == Init /\ [][Next]_vars
FairSpec == Spec /\ Fairness

-----------------------------------------------------------------------------
(* The work directory, the world and a run keep their types: whatever       *)
(* order runs, kills and edits come in, only results that the code can have *)
(* written are on disk.                                                     *)
TypeOK ==
  /\ now \in [ctx : Version, src : [Targets -> Version], bin : Version]
  /\ edits \in 0 .. MaxEdits
  /\ IsPartial(record, Result)
  /\ fp \in {0} \cup Version /\ producer \in {0} \cup Version
  /\ IsPartial(files, Version)
  /\ stage \in {"off", "prepared", "discovered", "phase1", "phase2", "reporting", "done"}
  /\ opts \in [resume : BOOLEAN, force : BOOLEAN, cache : BOOLEAN]
  /\ incompatible \in BOOLEAN
  /\ scope \in [published : BOOLEAN, unchanged : SUBSET Targets]
  /\ todo \subseteq Targets
  /\ \A f \in {resumed, upgrade, results, forced_results} : IsPartial(f, Result)
  /\ live_force \in BOOLEAN /\ stopped \in BOOLEAN
  /\ missed \in BOOLEAN
  /\ log \subseteq Targets \X [ctx : Version, src : Version, bin : Version]

(* A resumed run repeats no attempt that was already made on this source    *)
(* with this build, unless the answer on file is a forced one and this run  *)
(* is not, and as long as every run wrote its files.  Kills, stops and      *)
(* edits to other files change nothing in that.                             *)
ResumeRepeatsNothing ==
  [][\A t \in todo \ todo' :
       stage = "phase1" /\ stage' = "phase1" /\ opts.resume /\ ~missed /\ <<t, Stamp(t)>> \in log
         => t \in DOMAIN record /\ record[t].forced /\ ~opts.force]_vars

(* Forcing never costs reach: what fuzzed in this run or was reloaded is    *)
(* not attempted again, so neither its place in the report nor its record   *)
(* on disk gives way to a forced result.                                    *)
ForceCannotCostReach ==
  [][~Idle =>
       /\ \A t \in DOMAIN results : results[t].fuzzed =>
            results'[t] = results[t] /\ (t \in DOMAIN record => record'[t] = record[t])
       /\ Sweeping => \A t \in DOMAIN resumed : record'[t] = record[t]]_vars

(* A run that never forced reports no forced result, of its own or of an    *)
(* earlier run.                                                             *)
UnforcedReportsUnforced ==
  stage = "done" /\ ~opts.force /\ DOMAIN forced_results = {}
    => \A t \in DOMAIN results : ~results[t].forced

(* Whatever the phases, the merge and the reload did, the report of a run   *)
(* says of each target what the work directory says, if it could be written *)
ReportMatchesRecords ==
  stage = "done" /\ ~missed => \A t \in DOMAIN results : t \in DOMAIN record /\ results[t] = record[t]

(* What a run reloads was obtained on the source and the build context that *)
(* are there now, and a failure also with the present govfuzz, as long as   *)
(* every run brought its files up to date.                                  *)
ReusedIsFresh ==
  [][stage = "discovered" /\ stage' = "phase1" /\ ~missed
       => \A t \in DOMAIN resumed' :
            /\ resumed'[t].ctx = now.ctx /\ resumed'[t].src = now.src[t]
            /\ resumed'[t].fuzzed \/ resumed'[t].bin = now.bin]_vars

(* A run that keeps the work of another build reports no failure that was   *)
(* not reproduced with this build.                                          *)
OldFailuresReattempted ==
  [][stage' = "done" /\ ~Idle /\ incompatible
       => \A t \in DOMAIN results' : results'[t].fuzzed \/ results'[t].bin = now.bin]_vars

(* A campaign that is only ever resumed gets through all its targets, even  *)
(* if each run is killed after a single one, as long as writes succeed.     *)
Settled == opts.resume /\ ~opts.force
ResumeConverges == <>[]Settled /\ []~missed => <>(DOMAIN record = Targets)
=============================================================================
