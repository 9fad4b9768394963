# A TLA+ model of govfuzz's campaign engine

govfuzz finds fuzzable functions in a source tree, writes harnesses for them, builds and
fuzzes them. Most of its code turns text into text. What keeps state over time, runs in
several threads or processes, or has to survive a crash is the engine around it: the sweep
of `govfuzz auto`, the attempt at one target, the fuzzing loop with its fork server, the
work directory that carries results from one run to the next, the multicore orchestrator
and the scheduler of the continuous daemon. This project models these, checks them with TLC
and proves their safety properties with TLAPS. Paths are relative to `src/crates/`.

## Inventory

| Component | State | Operations | Talks to | Hard part |
|---|---|---|---|---|
| Parallel sweep, `cli/src/auto/cli.rs` `run_parallel_sweep` | cursor, permits, stop flag, success count, result slots | stop check, admit, claim, attempt, count, persist, hand back, collect | run status, budget, report files | threads interleave between every two atomics; the operator moves the limits |
| Serial sweep, `cli.rs` `sweep_phase` | position, results, success count | checks, pause, attempt, persist, measure | the same | a pause that looks at `q` only |
| Run status and keys, `run_status.rs`, `controls.rs` | jobs, cap, pause, quit, force, tallies | one method per key | read by every worker | values go stale between read and use |
| Work-directory budget, `storage.rs` | a latch | measure after each target | the sweep | a failing measurement |
| Resume and force, `cli.rs` `run_inner`, `work_state.rs`, `resume_scope.rs` | result.json per target, three identity markers per work directory | prepare, discover, select, two phases, merge, report | the sweep, the file system, the next run | a run ends early, the world changes, force alternates |
| Results and checkpoints, `report.rs` | files replaced atomically | persist a target, extend the dependency checkpoint | the sweep, resume | crash between two files, ignored write errors |
| Target attempt, `attempt.rs`, `closure_memo.rs` | repair round, compiler, project-wide fragment, memo of hopeless closures | check, build with retries, repair, give up, memoise | other workers through the work directory | one worker's trial is another one's build environment |
| Fuzz engine, `fuzz.rs`, `corpus/src/manager.rs` | pool, deduplication state, findings, signatures, queue | pick, run warm or fresh, record, verify, report, retain, persist | the fork server, the next pass | a warm process lies in both directions; a pass dies between two writes |
| Multicore fuzz, `multicore_fuzz/src/lib.rs` | children, reports, shared and worker queues | spawn, supervise, kill, merge, summarise | `govfuzz fuzz` processes, the next campaign | hanging and dying workers, reused directories |
| Continuous daemon, `continuous_daemon/src/lib.rs` | queue, list of jobs, next id, jobs.jsonl | submit, take, run, record, drop, restart | clients, `govfuzz fuzz` processes | crash in a write, restart, several workers |
| Minimiser, event log, JSON-RPC daemon, shims | see `PROJECT.json` | | | not modelled |
| Parsers, static analysis, generators, SBOM, governance, reports, ranking | none | pure functions | | not modelled: nothing happens over time |

What makes them correct:

- sweep: no candidate lost or attempted twice, Ada targets one at a time (they share a
  staged tree), permits exact, results durable before they count, no stop without a reason,
  the selection the cap asks for, and an end;
- resume: nothing done is done again, nothing stale is reused, forcing never costs a
  result, the report agrees with the disk, and a campaign killed again and again still ends;
- attempt: a target is given up, or written off on a sibling's word, only if it cannot be
  built;
- engine: no finding that only a worn-out process shows, no fault swallowed, each root cause
  once, a queue without crashing inputs;
- multicore: a true summary, no input lost, an end although workers hang;
- daemon: a job is in one place, the list is current, acknowledged jobs survive and finish.

`PROJECT.json` lists the hazards behind these, each at its line.

## Modules

| Module | Models | MC module |
|---|---|---|
| `Sweep` | what either sweep promises its caller; the abstract specification | |
| `RunStatus` | the operator's keys and the arithmetic of jobs and cap | |
| `ParallelSweep` | the worker pool with the operator, the deadline, the budget and the disk | `MCParallelSweep` |
| `ParallelSweepProofs`, `SweepCapProofs` | theorems about it, and about its cap | |
| `SerialSweep` | the loop of a host with one processor | `MCSerialSweep` |
| `SerialSweepProofs` | theorems about it | |
| `CampaignResume` | a work directory through many runs | `MCCampaignResume` |
| `CampaignResumeProofs` | theorems about it | |
| `TargetAttempt` | attempts of several workers on the C lane, over two runs | `MCTargetAttempt` |
| `TargetAttemptProofs` | theorems about it | |
| `FuzzLoop` | the passes of the builtin engine over one target | `MCFuzzLoop` |
| `FuzzLoopProofs` | theorems about it | |
| `Multicore` | campaigns of several worker processes | `MCMulticore` |
| `MulticoreProofs` | theorems about it | |
| `ContinuousDaemon` | the daemon's scheduler through restarts | `MCContinuousDaemon` |
| `ContinuousDaemonProofs` | theorems about it | |

Each module has a section of variants with a plausible mistake: operators that differ from a
definition of the model the way a bug in the code would. No specification uses them. They
are there to show that each property can tell the code from a wrong version of it.

Each module has a `TypeOK`. The run `SweepSafety` lists it, because there it also says that
`jobs` stays between 1 and the ceiling; the others are proved and left out of the lists.

The modules meet at their outcomes. `ParallelSweep` and `SerialSweep` take what an attempt
returns as given; `TargetAttempt` looks inside it as far as the build, and `FuzzLoop` at the
passes after it. `CampaignResume` takes a sweep as one step per target that may end anywhere.
`Multicore` and `ContinuousDaemon` see the engine as a process that records, finds and ends.

### Sweep, and what implements it

`Sweep` has four variables: how many ranks were handed out, what the dependency checkpoint
on disk covers, the result of each rank, and the answer. Ranks go out in order and once each;
a result other than an error needs the checkpoint; the answer needs every result and is an
error exactly when one of them is. Stopping early is always allowed.

`PoolIsSweep` and `SerialIsSweep` say that both loops implement it. The pool maps its
cursor (cut at `N`, since workers push it past the end), `manifest_file`, `slots` and
`returned`. The serial loop has no slot for the candidate it fails on: while it leaves with
`?`, that candidate's result is mapped to an error. `Selection` is the reference for the
cap: both `PoolSelectsSerialSet` and `FuzzesSelection` compare with it.

### ParallelSweep

Candidates are ranks `0..N-1`. A worker thread is a program counter `pc` that follows the
loop body of `run_parallel_sweep`, one label per access to something shared: the four stop
conditions (`Check`), the closure `admit` (`AdmitPaused`, `AdmitLimit`, `AdmitCas`), the
cursor (`Claim`), the Ada mutex (`LockAda`), the attempt itself, the success counter, the
live cap and the stop flag (`CountSuccess`, `ReadCap`, `StopAtCap`), the status tally
(`WorkerFinish`), `result.json` (`Persist`), the dependency checkpoint, the budget, the stop
on an error, and `HandBack`, which fills the slot and drops the guards. `Press` is
`controls::apply`; `Collect` is the loop after the join. `cursor`, `stopped`,
`success_count`, `admitted`, `ada_attempt_lock` and `slots` are the variables of the same
names. `outcome` fixes in the initial state what attempting each rank would give, so that
the pool and the serial loop can be compared on the same candidates. `saved`, `manifest`
and `manifest_file` are the sets of ranks in files and in memory.

Reading the four stop conditions is one step: all are latches, so reading them one after
the other yields what a single read at the first of them yields. The status line, the
dashboard row and the printed prefixes are left out.

### SerialSweep

One thread, so `pc` is a single label; the operator and the clock interleave with it. The
pause (`Hold`, `Poll`) is left by a resume or `q` and by nothing else. `late` counts the
candidates begun after the deadline, for `OneLateCandidate` only: the loop is one candidate
late at most, the one past its check, paused or not.

### CampaignResume

The world has three identities: build context, content of each source file, govfuzz
build. A result carries, for the properties only, the identities it was obtained under;
the program keeps none of them with a result but one marker each for the work directory
(`fp` is `build-context.fingerprint`, `files` is `source-files`, `producer` is
`work-state.json`). `StartRun` is `work_state::prepare`, `Discover` is `discover_or_reuse`,
`Select` the resume block of `run_inner` with its write of the fingerprint, `Attempt` and
`AttemptForced` a target of phase 1 and 2 up to its `result.json`, `EndPhase1` the decision
whether phase 2 runs, `Finish` the merge and the append of the reloaded results. `Stop`
stands for `q`, the deadline, the budget and a met cap, which all end the handing out of
targets and keep phase 2 from starting; `Kill` for a dead process and for the errors
that abort a run. `Faults` says which of these an instance allows.

`missed` is history: some run left a file behind the world, because its write failed
unnoticed or because it ran without the discovery cache, which never publishes a scope. Four
properties hold only while it is false; where they say so, the file they would have needed
does not exist.

Identities only grow: a file that is changed and changed back is not covered. The world
changes between runs and, with `edit_running`, during a sweep, not between the first steps
of a run. The discovery cache decides only whether the candidates are computed again.

### TargetAttempt

What is wrong with a source is a set of defects, each named for the retry or the repair
that cures it; a build reports those of them that the present project state does not cure.
A generated driver may be wrong too, in one of two ways: with an error whose report names the
driver's file, and with one of a kind that carries no file. `closure_scoped` is
`errors_are_closure_scoped` on these: only a list that shows nothing but the driver's file is
surely kept out of the memo.
A worker follows `attempt_with_progress` (load the memo, inherit or run), `run_attempt`
(round, check or build, judge, next round) and `try_build_c` (the build, the `-fcommon`
fragment and its trial, the ladder of standards, the other compiler). Shared are the files
in the work directory: the fragment, `c_compiler.txt`, the standards and the memo. A run has
an unforced phase and then a forced one; a second run is fresh or resumed, and sources may
have been mended before it.

The workers do disturb each other, and the code has no lock for it; files fail to be
written; and the memo believes errors it should not. `mishaps` is history: it names the
source and the reason whenever a step meets such a situation. Each property excuses only the
reasons that bear on it:

| Reason | The step notes that | Excuses |
|---|---|---|
| `cutoff` | the budget cut the attempt off between two rounds | `GivesUpHonestly`, `MemoIsTrue` |
| `fragment` | the fragment was there after the build had failed without it | the same |
| `overlap` | two trials of the fragment overlapped, and the source needs it | the same |
| `unwritten` | the fragment could not be written, and the source needs it | the same |
| `compiler` | another worker settled the compiler since this round began | the same |
| `driver` | an error of the driver was recorded as one of the closure | `MemoIsTrue` |
| `edit` | the source was mended before a resume | `MemoIsTrue` |
| `trial` | a target was linked while another worker had the fragment on trial | `FragmentKept` |

The properties say that nothing else makes an attempt give up, the memo lie or a fragment
vanish. None of the reasons can be left out: without any one of them TLC finds the property
violated. Each is an observation below.

Not in it: the Ada and the other lanes, the retry of a sequence harness as a direct one, the
degradation to report-only, archives and whole source sets at the link.

### FuzzLoop

`may[i]` is what a fresh process can do on input `i`: one outcome for a deterministic target,
several for a flaky one. The fork server may hide a fault (`RunWarm` never carries a
sanitizer report), show a signature that only its own past made, or die (`RunDied`, which
runs the input again in a fresh process). One turn of the loop of
`run_builtin_with_progress` is `PickSeed`, or `Probe` (the colourising and comparison-logging
runs, which change nothing but may kill the server and leave trace events) and `Mutate`; the
run; `Record` (the corpus manager's signature); `Recheck` (the second opinion of #416);
`ReportEvent`, `ReportCrash`, `ReportOracle`; and `Retain`. After the loop come
`ConfirmSinks` (#422) and `Persist`. `Abort` is an error or the death of the process at any
point. Two lanes: libFuzzer-style C drivers, whose faults are sanitizer reports, and
event-log harnesses, whose faults are signatures.

A pass starts from what earlier ones left: `Loaded` are the findings whose keys it reads
back, at most `DedupLimit` of them, `LoadedInputs` the testcases it knows to crash. The second
limit is on distinct inputs, and an empty testcase does not count.

Which input is picked or made is a free choice: energies, length control, dictionaries and
mutation operators only bias it. Whether an input grows coverage is a free choice bounded
by `MaxNovel`. `revealed`, `lost`, `crowded`, `observed`, `seeded` are history: what an
execution showed for certain, which first sightings failed, whether a limit was hit, which
crashing inputs a pass has noted, which inputs came from outside.

### Multicore

The orchestrator is a label `pc` through `run_multicore`: spawn one worker after the other
with a copy of the shared queue, pass over the pending ones with `try_wait`, kill those that
are overdue, sort the reports, merge the queues file by file, write the summary. A pass
decides about killing once, at its start. A worker may record an input, write a finding,
end with its coverage corpus, die between the two files of a record, or do nothing for
ever. After a failed spawn or `try_wait` the campaign returns an error and its processes run
on as `orphans` into directories that the next campaign uses; `clean` says that this has not
happened yet.

A queue maps names to contents: the corpus manager names an input after its signature, so
two workers can use one name for two inputs.

### ContinuousDaemon

One step per critical section of the `inner` mutex. `seen`, `queue`, `next_id`, `shutdown`
are `InnerState`; `file` is `jobs.jsonl`. A job has the number of its submission beside the
id the scheduler gave it, because ids repeat after a restart. `Persist` is what `persist` and
`persist_locked` do to the file, the errors they ignore included: the whole list is written,
or the old file stays, or some lines of the new one. A crash that hits a write has the last
effect too. `intact` says that the last write went through. A start that cannot read the file
takes it for empty (`Read`).

`mishaps` is history: "unsaved" once a daemon has started from a file whose last write did not
go through, "unread" once one could not read it, "shared_id" once an id was given out that a
known job has. A failed write alone is no mishap: while the daemon runs, and if a later
write makes up for it, nothing is lost, and the properties say so. The webhook changes nothing
in the scheduler.

## Runs

| Run | Shows | Bounds |
|---|---|---|
| SweepSafety | types, claims, Ada, permits, jobs, durability, justified stop, overshoot, the serial selection, `PoolIsSweep` | 2 workers, 3 candidates of which 2 Ada, cap 2 with 1 reloaded, 2 keys, deadline, budget, disk faults |
| SweepLive | the sweep returns, on a stop even when paused; a pause lets targets finish | 2 workers, 2 Ada candidates, no cap, 3 keys, deadline |
| Serial | the selection of the cap, one late candidate, `SerialIsSweep`, the loop returns | 3 candidates, cap 3 with 0 to 3 reloaded, 3 keys, deadline, budget, disk faults |
| ResumeSafety | nothing repeated, forcing costs nothing, report equals records, a killed campaign converges | 2 targets, 1 edit, stops, kills, toggles, no cache |
| ResumeFresh | nothing stale reused, unforced stays unforced, old failures tried again | 2 targets, 2 edits, also during sweeps, write errors, runs sweep to the end |
| Attempt | a target is given up or memoised honestly, the fragment stays | 2 workers, 3 targets of 2 sources, 8 pairs of defects, right and wrong drivers, 2 rounds, 2 runs, kills, deadline, edits, failing writes |
| FuzzLoop | no artefacts, one finding per root cause, nothing swallowed, kept mutants are clean | 3 inputs, 13 targets of both lanes, 2 passes of 2 executions, all limits within reach, aborts, failing spawns and writes |
| Multicore | true summaries, everything merged, nothing lost, a campaign returns | 1 or 2 workers, 2 inputs, 2 campaigns, failing spawns and files, dying workers |
| Daemon | one place, current list, acknowledged jobs known and finished, finished stays finished, drop returns | 2 workers, 2 clients, 2 jobs, 2 restarts, writes that fail or are cut short, an unreadable file |

Two workers are enough for every race between two of them; one candidate more than workers
makes a worker claim twice. A cap of 2 with one success reloaded leaves candidates on both
sides of it. Two targets let one be redone and the other not; two edits let markers and
results come from different worlds; the number of runs is not bounded. In `Attempt` two
targets share a source, so one can inherit the other's verdict while a third disturbs both;
the pairs are those in which one source's cure matters to the other. One driver of each
wrong kind, one of them on the shared source, lets a driver's error reach the sibling.
The two targets of the shared source are interchangeable, as the workers are (`Symmetry`). Two passes let the
second start from what the first left, two executions let one deduplicate against the other,
and a queue of one file, a pool of three and two deduplication keys make every limit bite.
Two campaigns let a directory be reused. Two restarts let a restored job be restored again,
and two jobs let an id be given out twice and a job be overtaken by another's write.
`MaxKeys`, `MaxEdits`, `MaxSubmits`, `MaxRestarts`, `MaxRuns`, `MaxPasses`, `MaxIters`,
`MaxNovel`, `MaxCampaigns` and `MaxKept` are the only caps on counters.

The sweep, resume and daemon runs check deadlock: a finished sweep stutters in `Finished`, a
new campaign run can always start, the daemon always has a worker that polls. `Attempt`,
`FuzzLoop` and `Multicore` do not, because their last run, pass or campaign ends for good;
that a multicore campaign ends at all is `CampaignReturns`.

### Findings

Three runs check what a comment says and find that the code does otherwise; `PROJECT.json`
quotes the lines.

- `ResumeAfterStop`: markers are replaced before the work is redone, so a run that ends
  early makes old results look current.
- `FuzzSeeds`: two seeds crash in one cluster. The first gets the finding, the second is
  noted in memory only; the next pass reads back the first alone and, when its fork server
  hides the crash, writes the second to the clean queue. Nothing is near a limit in this run.
- `MemoCutOff`: an attempt that the campaign budget cut off is memoised as an exhausted
  one, and after `--resume` a sibling that would build is written off.

### Observations

The models show more places where a comment or a document says more than the code does, or
where the properties need the exceptions they name. These have no run of their own.

Sweep and resume:

- the pool compares the success count with the cap only after a success, so with `Seed` at
  the cap it still fuzzes a target (`cli.rs:1783` says a resumed run does not); the serial
  loop is right;
- a parked worker past its stop check takes a freed permit, so the overshoot past a cap is
  bounded by the pool, `OvershootWithinPool`, and not by `--jobs - 1` (`cli.rs:3170`);
- a cap raised with `]` after a worker has latched the stop does not revive the sweep, so
  `StopIsJustified` fails with that key (`run_status.rs:263`);
- the serial pause does not notice the deadline, although `cli.rs:2007` says so;
- with `--force`, a failure of another build waits for phase 2 and is reported untried when
  that phase is dropped: `OldFailuresReattempted` fails with `Faults = {"toggle"}`
  (`cli.rs:1712`);
- the comment at `cli.rs:2269` describes a merge that keeps phase 1's outcome when forcing
  did not fuzz; `merge_forced_retry` replaces it, and `ReportMatchesRecords` depends on it;
- with `--no-discovery-cache` no scope is published and results of changed files are
  reloaded (`cli.rs:1734`; the comment at `cli.rs:2831` says otherwise).

Attempt:

- a worker whose clang build failed skips gcc when another has written `c_compiler.txt` in
  between (`attempt.rs:5672`), and the memo's fingerprint leaves that file out;
- a worker skips its fragment trial when another's trial is on (`attempt.rs:5529`), and a
  trial that does not help removes the fragment under a target built meanwhile (`5553`);
- at the repair cap a verdict of the syntax check stands, which the code elsewhere does not
  trust (`3384`);
- a source mended before `--resume` keeps its memo entry;
- an error of the generated driver can enter the memo and write off siblings that build
  (`driver`): `errors_are_closure_scoped` looks for the driver's file in two kinds of error and
  lets every other kind pass (`closure_memo.rs:119`), an incomplete type among them, which
  carries no file; and `classify` drops the unclassified text when anything else matched. The
  comments at `closure_memo.rs:74` and `117` say otherwise. Without this reason
  `MemoIsTrue` fails: one target's driver meets an incomplete type, the next target of the same
  source inherits the verdict;
- when the write of `c_compat.mk` fails the trial is skipped (`attempt.rs:5531`), and the empty
  file it may leave keeps every later attempt of the run from its own trial (`5529`);
- `c_compiler.txt` is not among the files a fresh run removes (`work_state.rs:43`), so "for
  the rest of the run" lasts longer;
- a memo hit drops the repairs of the attempt it stands for, so that the degradation to
  report-only can come out differently (`1245`).

Engine:

- cluster and signature count as seen before they are verified, and the signature file is
  written before the finding: a flaky first sighting, or a pass that dies in between, hides
  the fault from later passes (`lost`);
- at the deduplication limit faults are dropped within a pass and can be written again by
  the next one; a full queue repeats event findings (`crowded`);
- a crashing seed that the warm process hides and that grows no coverage stays in the queue;
- an oracle hit is not replayed, so `ArtefactsNotReported` speaks of clusters and signatures;
- trace events of probes and of repeated runs are read with the next input and become its
  finding;
- a crash that reproduces under the same rule at another place confirms the first one.

Multicore and daemon:

- processes outlive a campaign that failed; a worker's stderr is a pipe that nobody reads;
- after a merge that failed, the next campaign's copy can overwrite an input that was never
  merged; findings left in a reused worker directory are counted again;
- the daemon's ids restart from zero while restored jobs keep theirs (`lib.rs:102`,
  `src/docs/site/daemon.md:76`);
- an acknowledged job is lost when the daemon ends while the last write of `jobs.jsonl` had
  failed or was cut short: the rewrite in place is not atomic, and both `persist` and
  `persist_locked` ignore its error, so `submit` returns `Ok` either way (`lib.rs:191`, `390`;
  `daemon.md:71`);
- a `jobs.jsonl` that cannot be read counts as empty, and the next write replaces it
  (`lib.rs:110`).

### Fairness

`ParallelSweep`: weak fairness of each worker (the operating system runs every thread; an
attempt ends because each subprocess has a timeout) and of the collector. The operator is
not obliged to do anything, so `SweepReturns` assumes that the sweep does not stay paused,
or is stopped. A mutex may in principle be passed over for ever; here an Ada target holds it
for one iteration and there are finitely many, so weak fairness suffices.

`SerialSweep`: weak fairness of the one thread, for the same reasons.

`CampaignResume`: somebody starts runs again, and kills do not always hit the same step
(strong fairness of discovery, selection and of some attempt). Nothing says which target
an attempt is for.

`Multicore`: weak fairness of the orchestrator and of the clock. Workers have none: they may
hang for ever. Errors (`Fail`) are not obliged to happen.

`ContinuousDaemon`: weak fairness of each worker and of the client inside `submit`, a job
ends with its time budget, and a daemon that is down is started again.

`TargetAttempt` and `FuzzLoop` state none; their properties are about safety.

## Proofs

Every safety property that a run checks, invariant, action property or refinement, is also a
theorem: it holds for every number of workers, candidates, targets, inputs, jobs, runs,
passes and campaigns, every limit and every choice of outcomes and faults. There are eight
proof modules, one per component and a second one for the cap of the pool. Each has one
inductive invariant, a conjunction of named parts; TLC checked every part on small
instances before it was proved.

| Proof module | Theorems beside the type invariant | Invariant |
|---|---|---|
| `ParallelSweepProofs` | claims, Ada, permits, jobs, durability, the refinement `PoolIsSweep` | `IInv`, `RefineInv` |
| `SweepCapProofs` | `StopIsJustified`, `OvershootWithinPool`, `PoolSelectsSerialSet` | `CapInv` |
| `SerialSweepProofs` | `OneLateCandidate`, `FuzzesSelection`, the refinement `SerialIsSweep` | `SerialInv` |
| `CampaignResumeProofs` | all six safety properties of `CampaignResume` | `ResumeInv` |
| `TargetAttemptProofs` | `GivesUpHonestly`, `MemoIsTrue`, `FragmentKept` | `AttemptInv` |
| `FuzzLoopProofs` | all four safety properties of `FuzzLoop` | `LoopInv` |
| `MulticoreProofs` | `SummaryIsTrue`, `EverythingImported`, `NothingLost` | `MulticoreInv` |
| `ContinuousDaemonProofs` | `OnePlace`, `ListIsCurrent`, `AckedIsKnown`, `FinishedStaysFinished` | `DaemonInv` |

None of the properties is inductive by itself. What the invariants add, and why:

**The pool.** `ResultInv`: a worker has a result exactly from its attempt to its hand-back;
without it `HandBack` could write an empty slot and lose a candidate. `AdaInv`: the holder of
the lock is the one worker past the lock with an Ada rank; mutual exclusion alone does not
say who may release it. `DurableInv`: a worker past the checkpoint with a good result has its
rank on disk, so that the slot it fills later is covered. `LimitInv`: the limit a worker read
is no more than the present one unless the operator may lower it. The refinement adds that
an answer comes after every worker has left, and that the checkpoint in memory holds claimed
ranks only.
The part of `HandedBackIsDurable` about `result.json` speaks of instances without disk
faults; the run has them, so that part rests on the proof.

**The cap** is a counting argument. `success_count` and the status line's `fuzzed` are
incremented at different labels, and the cap that is read against one of them is lowered
against the other. `LateInv` and `CountInv` tie the counters to the sets of workers and ranks
behind them. `PoolInv` bounds the successes still to come by the workers past their stop
check: before the stop flag is set, some worker that will set it is on its way. All three
properties exclude the key `]`: it raises the cap after the stop was decided, and they
are false with it (see Observations).

**The serial loop.** `CountInv` is the same count for one thread. `SelectionInv` says every
candidate begun had fewer successes than the cap before it; with the count this is the
reference `Selection`.

**Resume.** The program keeps one marker per identity for the whole directory, so no single
action shows that a record is fresh. `VersionInv`: nothing on disk is newer than the world.
`PlacesInv`: a target is to do, done, waiting for phase 2 or reloaded, never two of these.
`AgreeInv`: memory and files say the same. `MarkersInv`, `RepeatInv`: no marker is older than
an attempt. `FreshInv`, `BinaryInv`, `UpgradeInv`, `OldInv`: no record is older than the
markers. Three theorems carry a hypothesis on `Faults`, a choice of environment: the world
stands still during a sweep (`ResumeNeverRepeats`), runs are not cut short
(`ResumeReusesFresh`, where `ResumeAfterStop` is the counterexample without it), runs are
not stopped and keep their force flag (`ResumeReattemptsOldFailures`, see Observations).
Kills, edits between runs and failing writes stay in all three where the property allows
them.

**The attempt.** The proof follows an attempt whose source and driver can be built and whose
source was not hindered (`Hopeful`). `StationInv` says at each station what the errors at hand still
allow: at the ladder they are compile errors, or an undefined symbol and nothing else; at
the other compiler they are those an older standard leaves; at the verdict there is a repair
or a reason to doubt the check. `RoundInv` counts: every round but one has cured a defect, so
the cap is met only if there is more to cure than it allows. Other workers make hope vanish
and never appear (`HopeStays`, `OthersKeep`). `LoadedInv` and `MemoInv` carry a verdict from
the attempt that reached it through the file to the one that inherits it; that the
fingerprint has the force flag is what makes them inductive. A driver's error goes the same
way, and `RoundInv` keeps it among the errors up to the record, so a verdict that is
the driver's fault is either not recorded or noted as `driver`. `FragmentInv`: a fragment that
was relied on is there and not on trial, neither taken back nor emptied, unless the source
was hindered, or the target linked during a trial.

This proof corrected the model. It could not be closed with the first definition of `Builds`,
which promised a build for sources with two defects that no single retry cures together
(a gcc-only source with an undefined symbol, say), and the failing step, the ladder, turned
out to leave out that the errors of the best rung replace those of the default
(`attempt.rs:5694`). Both are in the model now, the second as `ladder_best`; the pairs of
defects of the run were extended by the sets that showed it.

**The engine.** `RunInv` says what an execution has established at each station: a crash, and
whatever a fresh process showed, is something the input can do. `DedupInv`: a pass knows the
keys of all findings, although it reloads them from files that an aborted pass left.
`ReportedInv`: every key that was seen is a finding or counted as lost, or is the one under
way. The assumption that a key tells its kind (a cluster is no signature, neither is an
oracle or an outcome word) reflects their formats.

**Multicore.** `SuperviseInv`: who is running, reaped, reported at each label. `NamesInv`:
what a file's name says about its content. Names are not unique, directories outlive a
campaign and a clash is renamed without looking whether the new name is taken; that it is
free, and that the copy at the next start overwrites nothing that is not kept elsewhere,
follows from `NamesInv`. `MergeInv`: what is not imported yet is still to be read. The
assumption that names of different kinds differ reflects how they are formed: a signature, a
content hash, a worker's prefix.

**The daemon.** A worker finds its job in the list by id, and a start gives out ids again, so
that an update by id hits the right entry is no property of one step. `PlacesInv`: a
submission is one entry of each list. `AckedInv`: until a daemon has started from a bad file,
what is acknowledged is listed, and on disk if the last write went through; a failed write
makes the second half void and a later one restores it from the first. `CurrentInv`: while no id was shared, what waits or runs is listed under
its own id, and the file is behind the list only in ways a restart may meet.

The assumptions are the named ones of the modules: constants in their sets, finite pools,
at least one candidate, worker or target.

The queue after a daemon's restart (`InFileOrder`) and the sorted reports of a campaign
(`Sorted`) are stated as the sequences in the required order, not computed element by
element, so that the provers can reason about them.

Only model-checked, because fairness and `ENABLED` are beyond this prover: `SweepReturns`,
`PauseLetsTargetsFinish`, `SerialReturns`, `ResumeConverges`, `CampaignReturns`,
`AckedFinishes`, `DropReturns`. The refinements are proved in full, since `Sweep` states no
fairness.

## Plan

Done: the modules above; all their safety properties are proved. Next, in this order:

1. Towards liveness, as safety: measures that decrease with every step of the pool, the
   serial loop and the orchestrator, so that only fairness is left to TLC.
2. The Ada lane of an attempt, and the retry of a sequence harness as a direct one.
3. Delta debugging (`replay_min/src/minimize.rs`) and the stub-generating build loop
   (`stub_gen/src/build_loop.rs`) as functions against a reference definition.

## Not modelled, and why

Most of the 368,000 lines of the repository are parsers, pattern rules, generators of
harnesses, stubs and Makefiles, document ingest and report rendering, and their tests:
functions of text without state, order or failure of their own, whose correctness is a
matter of the languages they treat and of example files. A model of a parser would be the
parser again. The map is therefore small against the whole repository: it covers the core of
the code in which something happens over time. Left out of that code:

- the AFL `fork_server` crate: a protocol library that no other crate calls;
- the other lanes of an attempt (Ada, C++, Rust, Java, ...): other build tools in the same
  frame of memo, rounds and verdict, without the fragment and compiler files of the C lane;
- the AFL and libFuzzer engines: external processes that `fuzz.rs` starts and reads;
- run tracing and compiler interception: shims inside the target; what the engine reads from
  them is in `FuzzLoop`;
- the JSON-RPC daemon: one request at a time, nothing kept between two.
