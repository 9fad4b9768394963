------------------------------- MODULE FuzzLoop -------------------------------
(***************************************************************************)
(* The builtin fuzzing engine (crates/cli/src/fuzz.rs,                     *)
(* run_builtin_with_progress) with its persistent fork server and the      *)
(* corpus manager.  A target is fuzzed by several passes over one work     *)
(* directory; a pass keeps everything but findings, signature files and    *)
(* the queue in memory, and may be ended at any moment by an error or by   *)
(* the death of the process.                                               *)
(*                                                                         *)
(* may[i] is the set of outcomes a fresh process can have on input i: one  *)
(* outcome for a deterministic target, several for a flaky one.  A warm    *)
(* process may hide a fault, or show one that its own past made.           *)
(***************************************************************************)
EXTENDS Naturals, FiniteSets

CONSTANTS
  Inputs, Blank,      \* inputs; the empty one
  Clusters, Sigs,     \* sanitizer crashes by root cause; event signatures
  Intended,           \* signatures of intended rejections and stub raises
  RuleOf,             \* rule_id of a sanitizer report
  SeedSets,           \* what a pass may be given as seeds
  Lanes,              \* SUBSET {"driver", "event"}
  Targets(_),         \* the targets of a lane: what may and hits can be
  MaxPasses, MaxIters, MaxNovel,  \* bounds
  DedupLimit,         \* max_finding_dedup_keys
  PoolLimit, QueueLimit,          \* retention limits
  StopAfter,          \* stop_after_findings
  Faults              \* SUBSET {"abort", "spawn", "io"}

Reports == Clusters \cup {"glue"}
Oracles == {"oracle", "sink"}   \* findings of the runtime oracles: per input, per pass
Outcome == {"clean", "reject"} \cup Reports \cup Sigs

ASSUME FuzzAssumption ==
  /\ Blank \in Inputs /\ Intended \subseteq Sigs /\ Lanes \subseteq {"driver", "event"}
  /\ SeedSets \subseteq SUBSET Inputs \ {{}} /\ \A seeds \in SeedSets : IsFiniteSet(seeds)
  /\ Clusters \cap Sigs = {}   \* a key tells its kind
  /\ (Clusters \cup Sigs) \cap ({"clean", "reject", "glue", "cap"} \cup Oracles) = {}
  /\ {MaxPasses, MaxIters, MaxNovel, DedupLimit, PoolLimit, QueueLimit, StopAfter} \subseteq Nat
  /\ \A l \in Lanes : Targets(l) \subseteq
       [may : [Inputs -> SUBSET Outcome \ {{}}], hits : SUBSET Inputs]
  /\ Faults \subseteq {"abort", "spawn", "io"}

VARIABLES
  lane, may, hits,            \* the target; hits: inputs that trip the runtime oracle
  findings, sigs, queue,      \* the work directory
  pc, pass, server,           \* the pass and its fork server
  left, iter, novel,          \* seeds not run yet, executions, coverage grown
  pool, pool_len, crashing,   \* inputs; pool_len counts repetitions
  clusters, oracles, traced, unpersisted,  \* what was seen, in memory
  unread,                     \* inputs whose runtrace events are not read yet
  input, from_fork_server, seen, new_signature, made_progress, events,  \* the execution
  found, all_rejected, answer,
  revealed, lost, crowded, observed, seeded  \* history

target == <<lane, may, hits>>
disk == <<findings, sigs, queue>>
run == <<input, from_fork_server, seen, new_signature, made_progress, events>>
corpus == <<left, pool, pool_len, crashing>>
memory == <<clusters, oracles, traced, unpersisted>>
counts == <<iter, novel, found, all_rejected>>
history == <<revealed, lost, crowded, observed, seeded>>
vars == <<target, disk, pc, pass, server, corpus, memory, unread, run, counts,
          answer, history>>

c_libfuzzer_harness == lane = "driver"
Least(a, b) == IF a <= b THEN a ELSE b
Content(q) == {f[2] : f \in q}
Keys == {f.key : f \in findings}

Init ==
  /\ lane \in Lanes /\ \E t \in Targets(lane) : may = t.may /\ hits = t.hits
  /\ findings = {} /\ sigs = {} /\ queue = {}
  /\ pc = "idle" /\ pass = 0 /\ server = "none" /\ answer = "none"
  /\ left = {} /\ pool = {} /\ pool_len = 0 /\ crashing = {}
  /\ clusters = {} /\ oracles = {} /\ traced = {} /\ unpersisted = {} /\ unread = {}
  /\ input = Blank /\ from_fork_server = FALSE /\ seen = "clean"
  /\ new_signature = FALSE /\ made_progress = FALSE /\ events = {}
  /\ iter = 0 /\ novel = 0 /\ found = 0 /\ all_rejected = TRUE
  /\ revealed = {} /\ lost = {} /\ crowded = FALSE /\ observed = {} /\ seeded = {}

-----------------------------------------------------------------------------
(* Variants with a plausible mistake each. *)

(* Any completed re-run confirms the event. *)
EventReproducesAlways(outcome) == outcome \in Outcome

(* A pass starts with empty deduplication state. *)
LoadedNothing == {{}}

(* The warm process is trusted. *)
NeedsFreshRunNever == FALSE

(* Clusters are deduplicated by rule. *)
AdmittedByRule(report) ==
  /\ \A c \in clusters \cap Reports : RuleOf[c] # RuleOf[report]
  /\ Cardinality(clusters) < DedupLimit

-----------------------------------------------------------------------------
(* Helpers of the loop. *)
Spawned == {"up"} \cup (IF "spawn" \in Faults THEN {"none"} ELSE {})
Finding(key) == [key |-> key, input |-> input, pass |-> pass]
Emit(key) == findings' = findings \cup {Finding(key)} /\ found' = found + 1
EmitNothing == UNCHANGED <<findings, found>>
Trips(i) == {i} \cap hits

(* The locals of one turn of the loop, and of the pass, go out of scope. *)
DropRun ==
  /\ input' = Blank /\ from_fork_server' = FALSE /\ seen' = "clean"
  /\ new_signature' = FALSE /\ made_progress' = FALSE /\ events' = {}
DropPass ==
  /\ pc' = "idle" /\ server' = "none" /\ DropRun
  /\ left' = {} /\ pool' = {} /\ pool_len' = 0 /\ crashing' = {}
  /\ clusters' = {} /\ oracles' = {} /\ traced' = {} /\ unpersisted' = {} /\ unread' = {}
  /\ iter' = 0 /\ found' = 0 /\ all_rejected' = TRUE

(* CorpusManager::reserve, for one more file of the queue. *)
Room == Cardinality(queue) < QueueLimit

(* existing_finding_dedup_keys: the keys of at most DedupLimit findings, in  *)
(* the order of the directory.                                               *)
Loaded == {F \in SUBSET findings : Cardinality(F) = Least(DedupLimit, Cardinality(findings))}

(* existing_crash_testcases: here the limit is on distinct inputs, and a     *)
(* finding with an empty testcase does not count.                            *)
Testcases == {f.input : f \in findings} \ {Blank}
LoadedInputs == {I \in SUBSET Testcases : Cardinality(I) = Least(DedupLimit, Cardinality(Testcases))}

(* sanitizer_crash_reproduces: the same rule, not the same cluster. *)
CrashReproduces(outcome) == outcome \in Reports /\ RuleOf[outcome] = RuleOf[seen]

(* finding_reproduces_per_spawn: the signature, or any sanitizer report. *)
EventReproduces(outcome) == outcome = seen \/ outcome \in Reports

(* #416 asks for a second opinion only where the warm process may have     *)
(* hidden a crash of an input about to be kept.                            *)
NeedsFreshRun ==
  from_fork_server /\ made_progress /\ c_libfuzzer_harness /\ seen \notin Reports

-----------------------------------------------------------------------------
(* The pass. *)

StartPass(seeds) ==
  /\ pc = "idle" /\ pass < MaxPasses
  /\ pass' = pass + 1 /\ pc' = "top"
  /\ left' = seeds /\ pool' = seeds /\ pool_len' = Cardinality(seeds)
  /\ \E F \in Loaded : /\ clusters' = {f.key : f \in F} \ Oracles
                       /\ oracles' = {f.key : f \in F} \cap Oracles
  /\ IF c_libfuzzer_harness
       THEN crashing' \in LoadedInputs
       ELSE crashing' = {}
  /\ server' \in Spawned
  /\ answer' = "none"
  /\ crowded' = (crowded \/ Cardinality(findings) > DedupLimit)
  /\ seeded' = seeded \cup seeds
  /\ UNCHANGED <<target, disk, traced, unpersisted, unread, run, counts, revealed, lost,
                 observed>>

(* The seeds come first, one execution each. *)
PickSeed(i) ==
  /\ pc = "top" /\ iter < MaxIters /\ i \in left
  /\ input' = i /\ left' = left \ {i} /\ pc' = "exec"
  /\ UNCHANGED <<target, disk, pass, server, pool, pool_len, crashing, memory,
                 unread, from_fork_server, seen, new_signature, made_progress, events,
                 counts, answer, history>>

(* colorize_base and capture_cmplog run variants of the chosen base on the *)
(* server.  Their outcome is ignored and the coverage map restored, but    *)
(* the server may die of them and their runtrace events stay in the log.   *)
Probe(i) ==
  /\ pc = "top" /\ iter < MaxIters /\ left = {}
  /\ c_libfuzzer_harness /\ server = "up" /\ i # Blank
  /\ server' \in {"up", "dead"} /\ unread' = unread \cup Trips(i)
  /\ pc' = "mutate"
  /\ UNCHANGED <<target, disk, pass, corpus, memory, run, counts, answer, history>>

Mutate(i) ==
  /\ pc = "mutate" \/ (pc = "top" /\ iter < MaxIters /\ left = {})
  /\ input' = i /\ pc' = "exec"
  /\ UNCHANGED <<target, disk, pass, server, corpus, memory, unread,
                 from_fork_server, seen, new_signature, made_progress, events,
                 counts, answer, history>>

(* What follows the execution: it is counted, its coverage is folded in    *)
(* and the runtrace log is read.                                           *)
Observe(outcome, warm) ==
  /\ seen' = outcome /\ from_fork_server' = warm
  /\ \/ made_progress' = FALSE /\ UNCHANGED novel
     \/ novel < MaxNovel /\ made_progress' = TRUE /\ novel' = novel + 1
  /\ events' = unread \cup Trips(input) /\ unread' = {}
  /\ iter' = iter + 1 /\ all_rejected' = (all_rejected /\ outcome = "reject")
  /\ new_signature' = FALSE /\ pc' = "record"
  /\ traced' = IF events' # {} THEN traced \cup {input} ELSE traced
  /\ UNCHANGED <<target, disk, pass, corpus, clusters, oracles, unpersisted, input, found,
                 answer, history>>

(* ForkOutcome::Ran never carries a sanitizer report. *)
RunWarm ==
  /\ pc = "exec" /\ server = "up" /\ input # Blank
  /\ \E outcome \in {"clean"} \cup (IF c_libfuzzer_harness THEN {} ELSE Sigs) :
       Observe(outcome, TRUE)
  /\ UNCHANGED server

(* ForkOutcome::Died: the input is run again in a fresh process and the    *)
(* server is started anew.                                                 *)
RunDied ==
  /\ pc = "exec" /\ server # "none" /\ input # Blank
  /\ \E outcome \in may[input] : Observe(outcome, FALSE)
  /\ server' \in Spawned

RunFresh ==
  /\ pc = "exec" /\ (server = "none" \/ input = Blank)
  /\ \E outcome \in may[input] : Observe(outcome, FALSE)
  /\ UNCHANGED server

(* CorpusManager::record: a signature is marked as seen, on disk if there  *)
(* is room, before anything verifies it.                                   *)
Record ==
  /\ pc = "record"
  /\ LET new == seen \in Sigs \ (sigs \cup unpersisted) IN
       /\ new_signature' = new /\ made_progress' = (made_progress \/ new)
       /\ unpersisted' = IF new THEN unpersisted \cup {seen} ELSE unpersisted
       /\ IF new /\ Room
            THEN sigs' = sigs \cup {seen} /\ queue' = queue \cup {<<seen, input>>}
            ELSE UNCHANGED <<sigs, queue>>
       /\ crowded' = (crowded \/ (new /\ ~Room))
  /\ pc' = "recheck"
  /\ UNCHANGED <<target, findings, pass, server, corpus, clusters, oracles,
                 traced, unread, input, from_fork_server, seen, events, counts, answer,
                 revealed, lost, observed, seeded>>

Recheck ==
  /\ pc = "recheck" /\ pc' = "events"
  /\ IF NeedsFreshRun
       THEN /\ \E outcome \in may[input] :
                 seen' = IF outcome \in Reports THEN outcome ELSE seen
            /\ unread' = unread \cup Trips(input)
       ELSE UNCHANGED <<seen, unread>>
  /\ UNCHANGED <<target, disk, pass, server, corpus, memory, input, from_fork_server,
                 new_signature, made_progress, events, counts, answer, history>>

ReportEvent ==
  /\ pc = "events" /\ pc' = "crash"
  /\ IF ~new_signature \/ seen \in Intended
       THEN EmitNothing /\ UNCHANGED <<unread, lost>>
       ELSE \/ ~from_fork_server /\ Emit(seen) /\ UNCHANGED <<unread, lost>>
            \/ /\ from_fork_server /\ unread' = unread \cup Trips(input)
               /\ \E outcome \in may[input] :
                    IF EventReproduces(outcome)
                      THEN Emit(seen) /\ UNCHANGED lost
                      ELSE EmitNothing /\ lost' = lost \cup {seen}
  /\ UNCHANGED <<target, sigs, queue, pass, server, corpus, memory, run, iter, novel,
                 all_rejected, answer, revealed, crowded, observed, seeded>>

(* first_of_sanitizer_cluster: at the limit a sentinel takes the place of  *)
(* every later cluster.                                                    *)
Admitted(report) == report \notin clusters /\ Cardinality(clusters) < DedupLimit

Remember(report) ==
  IF report \in clusters \/ Cardinality(clusters) > DedupLimit THEN clusters
  ELSE clusters \cup {IF Cardinality(clusters) < DedupLimit THEN report ELSE "cap"}

ReportCrash ==
  /\ pc = "crash" /\ pc' = "oracle"
  /\ IF seen \notin Reports \/ seen = "glue"
       THEN EmitNothing /\ UNCHANGED <<clusters, unread, lost, crowded>>
       ELSE /\ clusters' = Remember(seen)
            /\ crowded' = (crowded \/ "cap" \in clusters')
            /\ IF ~Admitted(seen)
                 THEN EmitNothing /\ UNCHANGED <<unread, lost>>
                 ELSE \/ ~c_libfuzzer_harness /\ Emit(seen) /\ UNCHANGED <<unread, lost>>
                      \/ /\ c_libfuzzer_harness /\ unread' = unread \cup Trips(input)
                         /\ \E outcome \in may[input] :
                              IF CrashReproduces(outcome)
                                THEN Emit(seen) /\ UNCHANGED lost
                                ELSE EmitNothing /\ lost' = lost \cup {seen}
  /\ UNCHANGED <<target, sigs, queue, pass, server, corpus, oracles, traced, unpersisted,
                 run, iter, novel, all_rejected, answer, revealed, observed, seeded>>

ReportOracle ==
  /\ pc = "oracle" /\ pc' = "retain"
  /\ IF events # {} /\ "oracle" \notin oracles
       THEN Emit("oracle") /\ oracles' = oracles \cup {"oracle"}
       ELSE EmitNothing /\ UNCHANGED oracles
  /\ UNCHANGED <<target, sigs, queue, pass, server, corpus, clusters, traced, unpersisted,
                 unread, run, iter, novel, all_rejected, answer, history>>

(* What an execution showed that a fresh process shows every time. *)
Shown == (({seen} \cap (Clusters \cup (Sigs \ Intended))) \cap
            (IF Cardinality(may[input]) = 1 THEN may[input] ELSE {}))
         \cup (IF events # {} THEN {"oracle"} ELSE {})

PoolLength(keep) == IF keep THEN pool_len + 1 ELSE pool_len

Retain ==
  /\ pc = "retain"
  /\ crashing' = IF seen \in Reports /\ Cardinality(crashing) < DedupLimit
                   THEN crashing \cup {input} ELSE crashing
  /\ LET keep == made_progress /\ seen \notin Reports /\ input # Blank /\ pool_len < PoolLimit
     IN  /\ pool' = IF keep THEN pool \cup {input} ELSE pool
         /\ pool_len' = PoolLength(keep)
  /\ pc' = IF found >= StopAfter THEN "sinks" ELSE "top"
  /\ revealed' = revealed \cup Shown
  /\ observed' = observed \cup IF seen \in Clusters /\ may[input] \subseteq Reports
                                 THEN {input} \cap crashing' ELSE {}
  /\ DropRun
  /\ UNCHANGED <<target, disk, pass, server, left, memory, unread, counts,
                 answer, lost, crowded, seeded>>

(* The loop ends: iterations used up, or the time budget. *)
EndLoop ==
  /\ pc = "top" /\ pc' = "sinks"
  /\ UNCHANGED <<target, disk, pass, server, corpus, memory, unread, run, counts,
                 answer, history>>

(* #422: after the loop, a sink that the inputs of the pass were seen to    *)
(* control is a finding of its own, with one of them as its testcase.       *)
ConfirmSinks ==
  /\ pc = "sinks" /\ pc' = "persist"
  /\ \/ EmitNothing /\ UNCHANGED oracles
     \/ \E i \in traced :
          /\ "sink" \notin oracles /\ oracles' = oracles \cup {"sink"}
          /\ findings' = findings \cup {[Finding("sink") EXCEPT !.input = i]}
          /\ found' = found + 1
  /\ UNCHANGED <<target, sigs, queue, pass, server, corpus, clusters, traced, unpersisted,
                 unread, run, iter, novel, all_rejected, answer, history>>

(* persist_coverage_corpus: files named after their content. *)
Persistable == {i \in pool \ (crashing \cup {Blank}) : <<i, i>> \notin queue}

(* An I/O error ends the writing and is only logged. *)
Persist ==
  /\ pc = "persist"
  /\ \E S \in SUBSET Persistable :
       /\ LET most == Least(Cardinality(Persistable), QueueLimit - Cardinality(queue)) IN
            \/ Cardinality(S) = most
            \/ "io" \in Faults /\ Cardinality(S) < most
       /\ queue' = queue \cup {<<i, i>> : i \in S}
  /\ answer' = IF iter > 0 /\ all_rejected /\ found = 0 THEN "rejected_all" ELSE "ok"
  /\ DropPass
  /\ UNCHANGED <<target, findings, sigs, pass, novel, history>>

(* An error on the way out, or the death of the process: what was in       *)
(* memory is gone, and a signature already marked stays marked.            *)
Abort ==
  /\ "abort" \in Faults /\ pc # "idle"
  /\ answer' = "failed" /\ DropPass
  /\ lost' = IF pc \in {"recheck", "events"} /\ new_signature THEN lost \cup {seen} ELSE lost
  /\ UNCHANGED <<target, disk, pass, novel, revealed, crowded, observed, seeded>>

Step ==
  \/ \E i \in Inputs : PickSeed(i) \/ Probe(i) \/ Mutate(i)
  \/ RunWarm \/ RunDied \/ RunFresh \/ Record \/ Recheck \/ ReportEvent \/ ReportCrash
  \/ ReportOracle \/ Retain \/ EndLoop \/ ConfirmSinks \/ Persist

Next == (\E seeds \in SeedSets : StartPass(seeds)) \/ Step \/ Abort

Spec == Init /\ [][Next]_vars

-----------------------------------------------------------------------------
(* Every variable has its type. *)
TypeOK ==
  /\ lane \in Lanes /\ may \in [Inputs -> SUBSET Outcome] /\ hits \subseteq Inputs
  /\ findings \subseteq [key : Clusters \cup Sigs \cup Oracles, input : Inputs, pass : 1 .. MaxPasses]
  /\ sigs \subseteq Sigs /\ queue \subseteq (Sigs \cup Inputs) \X Inputs
  /\ pc \in {"idle", "top", "mutate", "exec", "record", "recheck", "events", "crash",
             "oracle", "retain", "sinks", "persist"}
  /\ pass \in 0 .. MaxPasses /\ server \in {"none", "up", "dead"}
  /\ left \subseteq pool /\ pool \subseteq Inputs /\ crashing \subseteq Inputs
  /\ Cardinality(pool) <= pool_len /\ iter \in 0 .. MaxIters /\ novel \in 0 .. MaxNovel
  /\ clusters \subseteq Clusters \cup Sigs \cup {"cap"} /\ unpersisted \subseteq Sigs
  /\ oracles \subseteq Oracles /\ traced \subseteq Inputs
  /\ {from_fork_server, new_signature, made_progress, all_rejected, crowded}
       \subseteq BOOLEAN
  /\ unread \cup events \subseteq hits
  /\ input \in Inputs /\ seen \in Outcome /\ found \in Nat
  /\ answer \in {"none", "ok", "rejected_all", "failed"}
  /\ lost \cup revealed \subseteq Clusters \cup Sigs \cup {"oracle"}
  /\ observed \cup seeded \subseteq Inputs

(* A fault that only the past of the warm process made is never a finding  *)
(* of a crash cluster or of an event signature: the testcase of such a     *)
(* finding can show its fault, or a sanitizer crash of the same rule, in a *)
(* fresh process (the replay checks of the fork server path).  An oracle   *)
(* hit is not replayed, so nothing is said of it.                          *)
ArtefactsNotReported ==
  \A f \in findings :
    /\ f.key \in Clusters => \E o \in may[f.input] \cap Reports : RuleOf[o] = RuleOf[f.key]
    /\ f.key \in Sigs => may[f.input] \cap ({f.key} \cup Reports) # {}

(* However many passes and inputs meet a fault, it is written once, as     *)
(* long as no limit made the engine forget what it has (#35, #389).        *)
OneFindingPerRootCause ==
  ~crowded => \A f, g \in findings : f.key = g.key => f = g

(* Between two executions, a fault that an execution showed and that its   *)
(* input shows in every fresh process has a finding, unless the first      *)
(* sighting of the same key did not reproduce or was cut off, or a limit   *)
(* suppressed it: deduplication and the hand-over from the fork server     *)
(* swallow nothing else.                                                   *)
RevealedIsReported == pc \in {"top", "idle"} /\ ~crowded => revealed \ lost \subseteq Keys

(* #416: an input the engine made itself and kept for its coverage never   *)
(* crashes in every fresh process, even if the warm process hid it.        *)
KeptMutantsAreClean ==
  c_libfuzzer_harness =>
    \A i \in Content(queue) \ seeded : ~(may[i] \subseteq Reports)

(* "crash inputs (this run's, plus any recorded by an earlier pass) are    *)
(* excluded from the persisted corpus": an input that crashes every time,  *)
(* and that a pass saw crash and noted, is not written to the queue later. *)
SeenCrasherStaysOut ==
  [][\A i \in observed : <<i, i>> \in queue' => <<i, i>> \in queue]_vars
=============================================================================
