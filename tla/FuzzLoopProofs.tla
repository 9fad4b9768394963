---------------------------- MODULE FuzzLoopProofs ----------------------------
(***************************************************************************)
(* What the builtin engine reports and keeps, for any target, any inputs,  *)
(* limits and number of passes.                                            *)
(*                                                                         *)
(* The state a finding rests on is spread over the memory of a pass        *)
(* (clusters, oracles, unpersisted), the work directory (findings, sigs)   *)
(* and the execution under way, and a pass may end at any moment.  The     *)
(* invariant says how they agree: what an execution has established at     *)
(* each of its stations (RunInv), which keys the deduplication knows       *)
(* (DedupInv), and where every key that was seen has gone (ReportedInv).   *)
(***************************************************************************)
EXTENDS FuzzLoop, FiniteSetTheorems, TLAPS

(* The stations of an execution. *)
Settled == {"crash", "oracle", "retain"}
Executed == {"record", "recheck", "events"} \cup Settled

LoopTypeInv ==
  /\ lane \in Lanes /\ may \in [Inputs -> SUBSET Outcome] /\ hits \subseteq Inputs
  /\ findings \subseteq [key : Clusters \cup Sigs \cup Oracles, input : Inputs, pass : 1 .. MaxPasses]
  /\ sigs \subseteq Sigs /\ queue \subseteq (Sigs \cup Inputs) \X Inputs
  /\ pc \in {"idle", "top", "mutate", "exec", "sinks", "persist"} \cup Executed
  /\ pass \in 0 .. MaxPasses /\ (pc # "idle" => pass > 0) /\ server \in {"none", "up", "dead"}
  /\ left \subseteq pool /\ pool \subseteq Inputs /\ crashing \subseteq Inputs
  /\ IsFiniteSet(pool) /\ pool_len \in Nat /\ Cardinality(pool) <= pool_len
  /\ iter \in 0 .. MaxIters /\ (pc \in {"mutate", "exec"} => iter < MaxIters) /\ novel \in 0 .. MaxNovel
  /\ clusters \subseteq Clusters \cup Sigs \cup {"cap"} /\ unpersisted \subseteq Sigs
  /\ oracles \subseteq Oracles /\ traced \subseteq Inputs
  /\ from_fork_server \in BOOLEAN /\ new_signature \in BOOLEAN /\ made_progress \in BOOLEAN
  /\ all_rejected \in BOOLEAN /\ crowded \in BOOLEAN
  /\ unread \subseteq hits /\ events \subseteq hits
  /\ input \in Inputs /\ seen \in Outcome /\ found \in Nat
  /\ answer \in {"none", "ok", "rejected_all", "failed"}
  /\ lost \subseteq Clusters \cup Sigs /\ revealed \subseteq Clusters \cup Sigs \cup {"oracle"}
  /\ observed \subseteq Inputs /\ seeded \subseteq Inputs

(* What is known of the execution at its stations: a crash, and whatever a  *)
(* fresh process showed, is something the input can do; an input about to   *)
(* be kept for its coverage has been seen not to crash.                     *)
RunInv ==
  /\ pc \in Executed /\ (~from_fork_server \/ seen \in Reports) => seen \in may[input]
  /\ c_libfuzzer_harness /\ from_fork_server /\ pc \in {"record", "recheck"} => seen = "clean"
  /\ pc = "record" => ~new_signature
  /\ new_signature => seen \in Sigs
  /\ c_libfuzzer_harness /\ pc \in {"events"} \cup Settled /\ made_progress /\ seen \notin Reports
       => ~(may[input] \subseteq Reports)

KeptInv ==
  c_libfuzzer_harness =>
    /\ \A i \in pool \ seeded : ~(may[i] \subseteq Reports)
    /\ \A q \in queue : q[2] \notin seeded => ~(may[q[2]] \subseteq Reports)

(* While no limit was met, a pass knows the keys of all findings. *)
DedupInv ==
  /\ IsFiniteSet(findings) /\ IsFiniteSet(clusters)
  /\ ~crowded =>
       /\ Cardinality(clusters) <= DedupLimit
       /\ \A f \in findings : f.key \in Sigs => f.key \in sigs
       /\ pc # "idle" => \A f \in findings : f.key \in clusters \cup oracles \cup Sigs
       /\ new_signature /\ pc \in {"recheck", "events"} => seen \in sigs /\ seen \notin Keys
       /\ \A f, g \in findings : f.key = g.key => f = g

(* While no limit was met, what was seen is a finding or counted as lost. *)
ReportedInv ==
  /\ "oracle" \in oracles => "oracle" \in Keys
  /\ ~crowded =>
       /\ revealed \subseteq Keys \cup lost
       /\ clusters \cap Clusters \subseteq Keys \cup lost
       /\ \A s \in (sigs \cup unpersisted) \ Intended :
            s \in Keys \cup lost \/ (pc \in {"recheck", "events"} /\ new_signature /\ s = seen)
       /\ pc \in {"recheck", "events"} /\ seen \in Sigs => seen \in sigs \cup unpersisted
       /\ pc \in Settled /\ seen \in Sigs \ Intended => seen \in Keys \cup lost
       /\ pc \in {"oracle", "retain"} /\ seen \in Clusters => seen \in Keys \cup lost
       /\ pc = "retain" /\ events # {} => "oracle" \in Keys

LoopInv == LoopTypeInv /\ RunInv /\ KeptInv /\ DedupInv /\ ReportedInv /\ ArtefactsNotReported

-----------------------------------------------------------------------------
(* What the operations do. *)

(* The target is run, in the warm process or in a fresh one. *)
Ran ==
  /\ pc = "exec" /\ pc' = "record"
  /\ seen' \in Outcome /\ from_fork_server' \in BOOLEAN
  /\ from_fork_server' => seen' = "clean" \/ (~c_libfuzzer_harness /\ seen' \in Sigs)
  /\ ~from_fork_server' => seen' \in may[input]
  /\ made_progress' \in BOOLEAN /\ novel' \in 0 .. MaxNovel /\ iter' = iter + 1
  /\ events' \subseteq hits /\ unread' = {} /\ traced' \subseteq traced \cup {input}
  /\ all_rejected' \in BOOLEAN /\ new_signature' = FALSE /\ server' \in {"none", "up", "dead"}
  /\ UNCHANGED <<lane, may, hits, findings, sigs, queue, pass, left, pool, pool_len, crashing,
                 clusters, oracles, unpersisted, input, found, answer, revealed, lost, crowded,
                 observed, seeded>>

LEMMA KindsAre ==
  /\ Clusters \cap Sigs = {} /\ Reports \cap Sigs = {} /\ Clusters \subseteq Reports
  /\ "clean" \notin Reports /\ "clean" \notin Sigs /\ "clean" \in Outcome /\ "cap" \notin Reports
  /\ Oracles \cap Reports = {} /\ Oracles \cap Sigs = {} /\ "glue" \notin Clusters
  /\ "oracle" \in Oracles /\ "sink" \in Oracles /\ Sigs \subseteq Outcome /\ Reports \subseteq Outcome
  /\ "cap" \notin Oracles /\ Reports = Clusters \cup {"glue"}
  BY FuzzAssumption DEF Reports, Oracles, Outcome

LEMMA ObserveIs ==
  ASSUME LoopTypeInv, NEW outcome \in Outcome, NEW warm \in BOOLEAN, Observe(outcome, warm)
  PROVE  /\ pc' = "record" /\ seen' = outcome /\ from_fork_server' = warm
         /\ made_progress' \in BOOLEAN /\ novel' \in 0 .. MaxNovel /\ iter' = iter + 1
         /\ events' \subseteq hits /\ unread' = {} /\ traced' \subseteq traced \cup {input}
         /\ all_rejected' \in BOOLEAN /\ new_signature' = FALSE
         /\ UNCHANGED <<lane, may, hits, findings, sigs, queue, pass, left, pool, pool_len, crashing,
                        clusters, oracles, unpersisted, input, found, answer, revealed, lost, crowded,
                        observed, seeded>>
  <1>1. novel' \in 0 .. MaxNovel
    BY FuzzAssumption DEF LoopTypeInv, Observe
  <1>2. made_progress' \in BOOLEAN /\ all_rejected' \in BOOLEAN
    BY DEF Observe
  <1> QED
    BY <1>1, <1>2 DEF LoopTypeInv, Observe, Trips, target, disk, corpus, history

LEMMA RunIs ==
  ASSUME LoopTypeInv, RunWarm \/ RunDied \/ RunFresh
  PROVE  Ran
  <1>1. pc = "exec" /\ server' \in {"none", "up", "dead"} /\ may[input] \subseteq Outcome
    BY DEF RunWarm, RunDied, RunFresh, Spawned, LoopTypeInv
  <1>2. \E outcome \in Outcome, warm \in BOOLEAN :
          /\ Observe(outcome, warm)
          /\ warm => outcome = "clean" \/ (~c_libfuzzer_harness /\ outcome \in Sigs)
          /\ ~warm => outcome \in may[input]
    <2>1. CASE RunWarm
      <3>1. PICK outcome \in {"clean"} \cup (IF c_libfuzzer_harness THEN {} ELSE Sigs) : Observe(outcome, TRUE)
        BY <2>1 DEF RunWarm
      <3> QED
        BY <3>1, KindsAre
    <2>2. CASE RunDied \/ RunFresh
      BY <1>1, <2>2 DEF RunDied, RunFresh
    <2> QED
      BY <2>1, <2>2
  <1> QED
    BY <1>1, <1>2, ObserveIs DEF Ran

(* A finding is added, or none. *)
Adds(key, i) ==
  /\ findings' = findings \cup {[key |-> key, input |-> i, pass |-> pass]} /\ found' = found + 1

LEMMA AddsIs ==
  ASSUME LoopTypeInv, pc # "idle", NEW key \in Clusters \cup Sigs \cup Oracles, NEW i \in Inputs, Adds(key, i)
  PROVE  /\ findings' \subseteq [key : Clusters \cup Sigs \cup Oracles, input : Inputs, pass : 1 .. MaxPasses]
         /\ found' \in Nat
         /\ IsFiniteSet(findings) => IsFiniteSet(findings')
         /\ Keys' = Keys \cup {key}
         /\ \E f : f.key = key /\ f.input = i /\ findings' = findings \cup {f}
  <1> DEFINE f == [key |-> key, input |-> i, pass |-> pass]
  <1>1. findings' = findings \cup {f} /\ found' = found + 1
    BY DEF Adds
  <1>2. f \in [key : Clusters \cup Sigs \cup Oracles, input : Inputs, pass : 1 .. MaxPasses]
    BY FuzzAssumption DEF LoopTypeInv
  <1>3. f.key = key /\ f.input = i
    OBVIOUS
  <1> HIDE DEF f
  <1>4. IsFiniteSet(findings) => IsFiniteSet(findings')
    BY <1>1, FS_AddElement
  <1>5. Keys' = Keys \cup {key}
    BY <1>1, <1>3 DEF Keys
  <1> QED
    BY <1>1, <1>2, <1>3, <1>4, <1>5 DEF LoopTypeInv

LEMMA RecordIs ==
  ASSUME LoopTypeInv, Record
  PROVE  /\ pc = "record" /\ pc' = "recheck"
         /\ \/ /\ seen \in Sigs /\ seen \notin sigs \cup unpersisted /\ new_signature' = TRUE /\ made_progress' = TRUE
               /\ unpersisted' = unpersisted \cup {seen}
               /\ \/ sigs' = sigs \cup {seen} /\ queue' = queue \cup {<<seen, input>>} /\ crowded' = crowded
                  \/ crowded' = TRUE /\ UNCHANGED <<sigs, queue>>
            \/ /\ seen \in Sigs => seen \in sigs \cup unpersisted
               /\ new_signature' = FALSE /\ made_progress' = made_progress
               /\ UNCHANGED <<unpersisted, sigs, queue, crowded>>
         /\ UNCHANGED <<lane, may, hits, findings, pass, server, left, pool, pool_len, crashing, clusters, oracles,
                        traced, unread, input, from_fork_server, seen, events, iter, novel, found,
                        all_rejected, answer, revealed, lost, observed, seeded>>
  <1>1. CASE seen \in Sigs \ (sigs \cup unpersisted)
    <2>1. new_signature' = TRUE /\ made_progress' = TRUE
      BY <1>1 DEF Record
    <2>2. CASE Room
      <3>1. crowded' = crowded
        BY <2>2 DEF Record, LoopTypeInv
      <3> QED
        BY <1>1, <2>1, <2>2, <3>1 DEF Record, target, corpus, counts
    <2>3. CASE ~Room
      <3>1. crowded' = TRUE
        BY <1>1, <2>3 DEF Record, LoopTypeInv
      <3> QED
        BY <1>1, <2>1, <2>3, <3>1 DEF Record, target, corpus, counts
    <2> QED
      BY <2>2, <2>3
  <1>2. CASE seen \notin Sigs \ (sigs \cup unpersisted)
    <2>1. new_signature' = FALSE /\ made_progress' = made_progress /\ crowded' = crowded
      <3> DEFINE new == seen \in Sigs \ (sigs \cup unpersisted)
      <3>1. new = FALSE
        BY <1>2
      <3>2. /\ new_signature' = new /\ made_progress' = (made_progress \/ new)
            /\ crowded' = (crowded \/ (new /\ ~Room))
        BY DEF Record
      <3>3. made_progress \in BOOLEAN /\ crowded \in BOOLEAN
        BY DEF LoopTypeInv
      <3> HIDE DEF new
      <3> QED
        BY <3>1, <3>2, <3>3, Zenon
    <2> QED
      BY <1>2, <2>1 DEF Record, target, corpus, counts
  <1> QED
    BY <1>1, <1>2

LEMMA RecheckIs ==
  ASSUME LoopTypeInv, RunInv, Recheck
  PROVE  /\ pc = "recheck" /\ pc' = "events"
         /\ \/ seen' = seen /\ (c_libfuzzer_harness /\ made_progress /\ seen \notin Reports
                                  => seen \in may[input] \/ ~(may[input] \subseteq Reports))
            \/ seen' \in may[input] \cap Reports /\ seen = "clean"
         /\ unread' \subseteq hits
         /\ UNCHANGED <<lane, may, hits, findings, sigs, queue, pass, server, left, pool, pool_len, crashing,
                        clusters, oracles, traced, unpersisted, input, from_fork_server, new_signature,
                        made_progress, events, iter, novel, found, all_rejected, answer,
                        revealed, lost, crowded, observed, seeded>>
  <1>1. /\ pc = "recheck" /\ pc' = "events" /\ unread' \subseteq hits
        /\ UNCHANGED <<lane, may, hits, findings, sigs, queue, pass, server, left, pool, pool_len, crashing,
                       clusters, oracles, traced, unpersisted, input, from_fork_server, new_signature,
                       made_progress, events, iter, novel, found, all_rejected, answer,
                       revealed, lost, crowded, observed, seeded>>
    BY DEF Recheck, LoopTypeInv, Trips, target, disk, corpus, memory, counts, history
  <1>2. CASE NeedsFreshRun
    <2>1. PICK outcome \in may[input] : seen' = IF outcome \in Reports THEN outcome ELSE seen
      BY <1>2 DEF Recheck
    <2>2. seen = "clean"
      BY <1>1, <1>2 DEF NeedsFreshRun, RunInv
    <2> QED
      BY <1>1, <2>1, <2>2
  <1>3. CASE ~NeedsFreshRun
    <2>1. seen' = seen
      BY <1>3 DEF Recheck
    <2>2. c_libfuzzer_harness /\ made_progress /\ seen \notin Reports => seen \in may[input]
      BY <1>1, <1>3 DEF NeedsFreshRun, RunInv, Executed
    <2> QED
      BY <1>1, <2>1, <2>2
  <1> QED
    BY <1>2, <1>3

(* ReportEvent: a new signature is reported if a fresh process can show it, *)
(* or a crash, and is counted as lost if not.                               *)
LEMMA ReportEventIs ==
  ASSUME LoopTypeInv, RunInv, ReportEvent
  PROVE  /\ pc = "events" /\ pc' = "crash" /\ unread' \subseteq hits
         /\ \/ (~new_signature \/ seen \in Intended) /\ UNCHANGED <<findings, found, lost>>
            \/ /\ new_signature /\ seen \in Sigs /\ Adds(seen, input) /\ lost' = lost
               /\ may[input] \cap ({seen} \cup Reports) # {}
            \/ new_signature /\ seen \in Sigs /\ lost' = lost \cup {seen} /\ UNCHANGED <<findings, found>>
         /\ UNCHANGED <<lane, may, hits, sigs, queue, pass, server, left, pool, pool_len, crashing,
                        clusters, oracles, traced, unpersisted, input, from_fork_server, seen,
                        new_signature, made_progress, events, iter, novel, all_rejected, answer,
                        revealed, crowded, observed, seeded>>
  <1>1. /\ pc = "events" /\ pc' = "crash" /\ unread' \subseteq hits
        /\ UNCHANGED <<lane, may, hits, sigs, queue, pass, server, left, pool, pool_len, crashing,
                       clusters, oracles, traced, unpersisted, input, from_fork_server, seen,
                       new_signature, made_progress, events, iter, novel, all_rejected, answer,
                       revealed, crowded, observed, seeded>>
    BY DEF ReportEvent, LoopTypeInv, Trips, target, corpus, memory, run
  <1>2. CASE ~new_signature \/ seen \in Intended
    BY <1>1, <1>2 DEF ReportEvent, EmitNothing
  <1>3. CASE ~(~new_signature \/ seen \in Intended)
    <2>1. new_signature /\ seen \in Sigs
      BY <1>3 DEF RunInv
    <2>2. CASE ~from_fork_server /\ Emit(seen) /\ UNCHANGED <<unread, lost>>
      <3>1. seen \in may[input]
        BY <1>1, <2>2 DEF RunInv, Executed
      <3> QED
        BY <1>1, <2>1, <2>2, <3>1 DEF Emit, Finding, Adds
    <2>3. ASSUME NEW outcome \in may[input],
                 IF EventReproduces(outcome) THEN Emit(seen) /\ UNCHANGED lost
                                             ELSE EmitNothing /\ lost' = lost \cup {seen}
          PROVE  \/ Adds(seen, input) /\ lost' = lost /\ may[input] \cap ({seen} \cup Reports) # {}
                 \/ lost' = lost \cup {seen} /\ UNCHANGED <<findings, found>>
      BY <2>3 DEF Emit, Finding, Adds, EmitNothing, EventReproduces
    <2> QED
      BY <1>1, <1>3, <2>1, <2>2, <2>3 DEF ReportEvent
  <1> QED
    BY <1>2, <1>3

(* ReportCrash: the first of a root cause is reported if a fresh process    *)
(* shows its rule again, and is counted as lost if not; a repetition is     *)
(* not, and nothing is once the limit was met.                              *)
LEMMA ReportCrashIs ==
  ASSUME LoopTypeInv, RunInv, DedupInv, ReportCrash
  PROVE  /\ pc = "crash" /\ pc' = "oracle" /\ unread' \subseteq hits /\ crowded' \in BOOLEAN
         /\ \/ /\ seen \notin Clusters \/ (seen \in clusters /\ (crowded => crowded'))
               /\ UNCHANGED <<findings, found, lost, clusters>> /\ (~crowded' => ~crowded)
            \/ /\ crowded' = TRUE /\ clusters' \subseteq clusters \cup {"cap"} /\ IsFiniteSet(clusters')
               /\ UNCHANGED <<findings, found, lost>>
            \/ /\ seen \in Clusters /\ seen \notin clusters /\ clusters' = clusters \cup {seen}
               /\ IsFiniteSet(clusters') /\ Cardinality(clusters') <= DedupLimit
               /\ (~crowded' => ~crowded)
               /\ \/ Adds(seen, input) /\ lost' = lost /\ \E o \in may[input] \cap Reports : RuleOf[o] = RuleOf[seen]
                  \/ UNCHANGED <<findings, found>> /\ lost' = lost \cup {seen}
         /\ UNCHANGED <<lane, may, hits, sigs, queue, pass, server, left, pool, pool_len, crashing,
                        oracles, traced, unpersisted, input, from_fork_server, seen,
                        new_signature, made_progress, events, iter, novel, all_rejected, answer,
                        revealed, observed, seeded>>
  <1>1. /\ pc = "crash" /\ pc' = "oracle" /\ unread' \subseteq hits
        /\ UNCHANGED <<lane, may, hits, sigs, queue, pass, server, left, pool, pool_len, crashing,
                       oracles, traced, unpersisted, input, from_fork_server, seen,
                       new_signature, made_progress, events, iter, novel, all_rejected, answer,
                       revealed, observed, seeded>>
    BY DEF ReportCrash, LoopTypeInv, Trips, EmitNothing, target, corpus, run
  <1>2. CASE seen \notin Reports \/ seen = "glue"
    <2>1. seen \notin Clusters
      BY <1>2, KindsAre
    <2> QED
      BY <1>1, <1>2, <2>1 DEF ReportCrash, EmitNothing, LoopTypeInv
  <1>3. CASE ~(seen \notin Reports \/ seen = "glue")
    <2> DEFINE k == Cardinality(clusters)
    <2>1. seen \in Clusters /\ seen # "cap"
      BY <1>3, KindsAre
    <2>2. k \in Nat /\ DedupLimit \in Nat /\ IsFiniteSet(clusters)
      BY FS_CardinalityType, FuzzAssumption DEF DedupInv
    <2>3. clusters' = Remember(seen) /\ crowded' = (crowded \/ "cap" \in clusters')
      BY <1>3 DEF ReportCrash
    <2>4. crowded' \in BOOLEAN /\ (crowded => crowded') /\ ("cap" \in clusters' => crowded')
      BY <2>3 DEF LoopTypeInv
    <2>5. crowded' = TRUE \/ ~crowded'
      BY <2>4
    <2>6. ~Admitted(seen) => UNCHANGED <<findings, found, lost>>
      BY <1>3 DEF ReportCrash, EmitNothing
    <2>7. CASE seen \in clusters
      BY <1>1, <2>1, <2>3, <2>4, <2>6, <2>7 DEF Remember, Admitted
    <2>8. CASE seen \notin clusters /\ ~(k < DedupLimit)
      <3>1. UNCHANGED <<findings, found, lost>>
        BY <2>6, <2>8 DEF Admitted
      <3>2. CASE k > DedupLimit
        <4>1. clusters' = clusters
          BY <2>3, <3>2 DEF Remember
        <4>2. crowded
          BY <2>2, <3>2 DEF DedupInv
        <4> QED
          BY <1>1, <2>2, <2>4, <2>5, <3>1, <4>1, <4>2
      <3>3. CASE ~(k > DedupLimit)
        <4>1. clusters' = clusters \cup {"cap"}
          BY <2>3, <2>8, <3>3 DEF Remember
        <4>2. IsFiniteSet(clusters')
          BY <2>2, <4>1, FS_AddElement
        <4> QED
          BY <1>1, <2>4, <2>5, <3>1, <4>1, <4>2
      <3> QED
        BY <3>2, <3>3
    <2>9. CASE seen \notin clusters /\ k < DedupLimit
      <3>1. clusters' = clusters \cup {seen}
        BY <2>2, <2>3, <2>9 DEF Remember
      <3>2. IsFiniteSet(clusters') /\ Cardinality(clusters') = k + 1
        BY <2>2, <2>9, <3>1, FS_AddElement
      <3>3. Cardinality(clusters') <= DedupLimit
        BY <2>2, <2>9, <3>2
      <3>4. Admitted(seen)
        BY <2>9 DEF Admitted
      <3>5. \/ Adds(seen, input) /\ lost' = lost /\ \E o \in may[input] \cap Reports : RuleOf[o] = RuleOf[seen]
            \/ UNCHANGED <<findings, found>> /\ lost' = lost \cup {seen}
        <4>1. CASE ~c_libfuzzer_harness /\ Emit(seen) /\ UNCHANGED <<unread, lost>>
          <5>1. seen \in may[input] /\ seen \in Reports
            BY <1>1, <1>3 DEF RunInv, Executed, Settled
          <5> QED
            BY <4>1, <5>1 DEF Emit, Finding, Adds
        <4>2. ASSUME NEW outcome \in may[input],
                     IF CrashReproduces(outcome) THEN Emit(seen) /\ UNCHANGED lost
                                                 ELSE EmitNothing /\ lost' = lost \cup {seen}
              PROVE  \/ Adds(seen, input) /\ lost' = lost /\ \E o \in may[input] \cap Reports : RuleOf[o] = RuleOf[seen]
                     \/ UNCHANGED <<findings, found>> /\ lost' = lost \cup {seen}
          BY <4>2 DEF Emit, Finding, Adds, EmitNothing, CrashReproduces
        <4> QED
          BY <1>3, <3>4, <4>1, <4>2 DEF ReportCrash
      <3> QED
        BY <1>1, <2>1, <2>4, <2>9, <3>1, <3>2, <3>3, <3>5
    <2> QED
      BY <2>7, <2>8, <2>9
  <1> QED
    BY <1>2, <1>3

LEMMA ReportOracleIs ==
  ASSUME ReportOracle
  PROVE  /\ pc = "oracle" /\ pc' = "retain"
         /\ \/ events # {} /\ "oracle" \notin oracles /\ Adds("oracle", input) /\ oracles' = oracles \cup {"oracle"}
            \/ (events # {} => "oracle" \in oracles) /\ UNCHANGED <<findings, found, oracles>>
         /\ UNCHANGED <<lane, may, hits, sigs, queue, pass, server, left, pool, pool_len, crashing,
                        clusters, traced, unpersisted, unread, input, from_fork_server, seen,
                        new_signature, made_progress, events, iter, novel, all_rejected, answer,
                        revealed, lost, crowded, observed, seeded>>
  BY DEF ReportOracle, Emit, EmitNothing, Finding, Adds, target, corpus, run, history

LEMMA ConfirmSinksIs ==
  ASSUME ConfirmSinks
  PROVE  /\ pc = "sinks" /\ pc' = "persist"
         /\ \/ UNCHANGED <<findings, found, oracles>>
            \/ \E i \in traced : "sink" \notin oracles /\ Adds("sink", i) /\ oracles' = oracles \cup {"sink"}
         /\ UNCHANGED <<lane, may, hits, sigs, queue, pass, server, left, pool, pool_len, crashing,
                        clusters, traced, unpersisted, unread, input, from_fork_server, seen,
                        new_signature, made_progress, events, iter, novel, all_rejected, answer,
                        revealed, lost, crowded, observed, seeded>>
  <1>1. ASSUME NEW i, NEW q, q = [Finding("sink") EXCEPT !.input = i]
        PROVE  q = [key |-> "sink", input |-> i, pass |-> pass]
    BY <1>1 DEF Finding
  <1> QED
    BY <1>1 DEF ConfirmSinks, EmitNothing, Adds, target, corpus, run, history

(* StartPass: a pass knows every key, if the limit lets it read them all.   *)
LEMMA StartPassIs ==
  ASSUME LoopTypeInv, DedupInv, NEW seeds \in SeedSets, StartPass(seeds)
  PROVE  /\ pc = "idle" /\ pc' = "top" /\ pass < MaxPasses /\ pass' = pass + 1
         /\ left' = seeds /\ pool' = seeds /\ pool_len' = Cardinality(seeds) /\ IsFiniteSet(seeds)
         /\ seeds \subseteq Inputs /\ crashing' \subseteq Inputs /\ server' \in {"none", "up", "dead"}
         /\ clusters' \subseteq Keys \ Oracles /\ oracles' \subseteq Keys \cap Oracles
         /\ IsFiniteSet(clusters') /\ Cardinality(clusters') <= DedupLimit
         /\ crowded' \in BOOLEAN /\ (crowded => crowded')
         /\ ~crowded' => Keys \subseteq clusters' \cup oracles'
         /\ answer' = "none" /\ seeded' = seeded \cup seeds
         /\ UNCHANGED <<lane, may, hits, findings, sigs, queue, traced, unpersisted, unread, input,
                        from_fork_server, seen, new_signature, made_progress, events, iter, novel,
                        found, all_rejected, revealed, lost, observed>>
  <1>1. PICK F \in Loaded : /\ clusters' = {f.key : f \in F} \ Oracles
                            /\ oracles' = {f.key : f \in F} \cap Oracles
    BY DEF StartPass
  <1> DEFINE n == Cardinality(findings)
  <1>2. n \in Nat /\ DedupLimit \in Nat /\ IsFiniteSet(findings)
    BY FS_CardinalityType, FuzzAssumption DEF DedupInv
  <1>3. F \subseteq findings /\ Cardinality(F) = Least(DedupLimit, n)
    BY DEF Loaded
  <1>4. IsFiniteSet(F) /\ Cardinality(F) <= DedupLimit /\ (n <= DedupLimit => Cardinality(F) = n)
    BY <1>2, <1>3, FS_Subset DEF Least
  <1>5. n <= DedupLimit => F = findings
    BY <1>2, <1>3, <1>4, FS_Subset
  <1> DEFINE K == {f.key : f \in F}
  <1>6. IsFiniteSet(K) /\ Cardinality(K) <= Cardinality(F)
    <2> DEFINE g == [f \in F |-> f.key]
    <2>1. g \in Surjection(F, K)
      BY DEF Surjection
    <2> HIDE DEF g, K
    <2> QED
      BY <1>4, <2>1, FS_Surjection
  <1>7. IsFiniteSet(clusters') /\ Cardinality(clusters') <= DedupLimit
    <2>1. clusters' \subseteq K
      BY <1>1
    <2> HIDE DEF K
    <2>2. IsFiniteSet(clusters') /\ Cardinality(clusters') <= Cardinality(K)
      BY <1>6, <2>1, FS_Subset
    <2>3. Cardinality(clusters') \in Nat /\ Cardinality(K) \in Nat /\ Cardinality(F) \in Nat
      BY <1>4, <1>6, <2>2, FS_CardinalityType
    <2> QED
      BY <1>2, <1>4, <1>6, <2>2, <2>3
  <1>8. crowded' = (crowded \/ n > DedupLimit)
    BY DEF StartPass
  <1>9. crowded' \in BOOLEAN /\ (crowded => crowded') /\ (~crowded' => ~(n > DedupLimit))
    BY <1>8 DEF LoopTypeInv
  <1>10. ~crowded' => Keys \subseteq clusters' \cup oracles'
    <2>1. ~(n > DedupLimit) => n <= DedupLimit
      BY <1>2
    <2>2. F = findings => Keys \subseteq clusters' \cup oracles'
      BY <1>1 DEF Keys
    <2> QED
      BY <1>5, <1>9, <2>1, <2>2
  <1>11. clusters' \subseteq Keys \ Oracles /\ oracles' \subseteq Keys \cap Oracles
    BY <1>1, <1>3 DEF Keys
  <1>12. crashing' \subseteq Inputs
    <2>1. \A f \in findings : f.input \in Inputs
      BY DEF LoopTypeInv
    <2>2. Testcases \subseteq Inputs
      BY <2>1 DEF Testcases
    <2>3. \A I \in LoadedInputs : I \subseteq Testcases
      BY DEF LoadedInputs
    <2>4. crashing' \in LoadedInputs \/ crashing' = {}
      BY DEF StartPass
    <2> QED
      BY <2>2, <2>3, <2>4
  <1>13. seeds \subseteq Inputs /\ IsFiniteSet(seeds)
    BY FuzzAssumption
  <1> QED
    BY <1>7, <1>9, <1>10, <1>11, <1>12, <1>13
       DEF StartPass, Spawned, target, disk, run, counts

LEMMA RetainIs ==
  ASSUME LoopTypeInv, Retain
  PROVE  /\ pc = "retain" /\ pc' \in {"sinks", "top"} /\ crashing' \subseteq crashing \cup {input}
         /\ \/ UNCHANGED <<pool, pool_len>>
            \/ /\ made_progress /\ seen \notin Reports
               /\ pool' = pool \cup {input} /\ pool_len' = pool_len + 1
         /\ revealed' = revealed \cup Shown /\ observed' \subseteq observed \cup {input} /\ DropRun
         /\ UNCHANGED <<lane, may, hits, findings, sigs, queue, pass, server, left, clusters, oracles,
                        traced, unpersisted, unread, iter, novel, found, all_rejected, answer,
                        lost, crowded, seeded>>
  <1>1. crashing' \subseteq crashing \cup {input} /\ pc' \in {"sinks", "top"}
    BY DEF Retain
  <1>2. \/ UNCHANGED <<pool, pool_len>>
        \/ /\ made_progress /\ seen \notin Reports
           /\ pool' = pool \cup {input} /\ pool_len' = pool_len + 1
    BY DEF Retain, PoolLength
  <1>3. observed' \subseteq observed \cup {input}
    BY DEF Retain
  <1> QED
    BY <1>1, <1>2, <1>3 DEF Retain, target, disk, memory, counts

LEMMA PersistIs ==
  ASSUME Persist
  PROVE  /\ pc = "persist" /\ DropPass /\ answer' \in {"ok", "rejected_all"}
         /\ \E S \in SUBSET pool : queue' = queue \cup {<<i, i>> : i \in S}
         /\ UNCHANGED <<lane, may, hits, findings, sigs, pass, novel, revealed, lost, crowded,
                        observed, seeded>>
  BY DEF Persist, Persistable, target, history

LEMMA AbortIs ==
  ASSUME Abort
  PROVE  /\ pc # "idle" /\ DropPass /\ answer' = "failed"
         /\ \/ pc \in {"recheck", "events"} /\ new_signature /\ lost' = lost \cup {seen}
            \/ ~(pc \in {"recheck", "events"} /\ new_signature) /\ lost' = lost
         /\ UNCHANGED <<lane, may, hits, findings, sigs, queue, pass, novel, revealed, crowded,
                        observed, seeded>>
  BY DEF Abort, target, disk

-----------------------------------------------------------------------------
(* The invariant is inductive. *)

LEMMA StepIs ==
  ASSUME LoopTypeInv, [Next]_vars
  PROVE  \/ \E seeds \in SeedSets : StartPass(seeds)
         \/ \E i \in Inputs : PickSeed(i) \/ Probe(i) \/ Mutate(i)
         \/ Ran \/ Record \/ Recheck \/ ReportEvent \/ ReportCrash
         \/ ReportOracle \/ Retain \/ EndLoop \/ ConfirmSinks \/ Persist \/ Abort
         \/ UNCHANGED vars
  BY RunIs DEF Next, Step

LEMMA TypeNext == LoopTypeInv /\ RunInv /\ DedupInv /\ [Next]_vars => LoopTypeInv'
  <1> SUFFICES ASSUME LoopTypeInv, RunInv, DedupInv, [Next]_vars PROVE LoopTypeInv'
    OBVIOUS
  <1>a. /\ MaxPasses \in Nat /\ MaxIters \in Nat /\ MaxNovel \in Nat /\ Blank \in Inputs
        /\ "clean" \in Outcome /\ may[input] \subseteq Outcome
        /\ Oracles = {"oracle", "sink"}
    BY FuzzAssumption, KindsAre DEF LoopTypeInv, Oracles
  <1>b. UNCHANGED <<lane, may, hits>> => lane' \in Lanes /\ may' \in [Inputs -> SUBSET Outcome] /\ hits' \subseteq Inputs
    BY DEF LoopTypeInv
  <1> USE DEF Settled, Executed
  <1>1. ASSUME NEW i \in Inputs, PickSeed(i) PROVE LoopTypeInv'
    BY <1>1, <1>a DEF PickSeed, LoopTypeInv, Trips, target, disk, corpus, memory, run, counts, history
  <1>2. ASSUME NEW i \in Inputs, Probe(i) PROVE LoopTypeInv'
    BY <1>2, <1>a DEF Probe, LoopTypeInv, Trips, target, disk, corpus, memory, run, counts, history
  <1>3. ASSUME NEW i \in Inputs, Mutate(i) PROVE LoopTypeInv'
    BY <1>3, <1>a DEF Mutate, LoopTypeInv, Trips, target, disk, corpus, memory, run, counts, history
  <1>4. ASSUME EndLoop PROVE LoopTypeInv'
    BY <1>4, <1>a DEF EndLoop, LoopTypeInv, Trips, target, disk, corpus, memory, run, counts, history
  <1>5. ASSUME UNCHANGED vars PROVE LoopTypeInv'
    BY <1>5, <1>a DEF vars, LoopTypeInv, Trips, target, disk, corpus, memory, run, counts, history
  <1>20. ASSUME Ran PROVE LoopTypeInv'
    <2>1. /\ from_fork_server' \in BOOLEAN /\ new_signature' \in BOOLEAN /\ made_progress' \in BOOLEAN
          /\ all_rejected' \in BOOLEAN /\ crowded' \in BOOLEAN
      BY <1>20 DEF LoopTypeInv, Ran
    <2>2. iter' \in 0 .. MaxIters
      BY <1>20, <1>a DEF LoopTypeInv, Ran
    <2>3. traced' \subseteq Inputs /\ seen' \in Outcome /\ pc' = "record" /\ pass > 0
      BY <1>20 DEF LoopTypeInv, Ran
    <2> QED
      BY <1>20, <2>1, <2>2, <2>3 DEF LoopTypeInv, Ran
  <1>21. ASSUME Record PROVE LoopTypeInv'
    <2>1. pc = "record" /\ pc' = "recheck" /\ new_signature' \in BOOLEAN /\ made_progress' \in BOOLEAN /\ crowded' \in BOOLEAN
      BY <1>21, RecordIs DEF LoopTypeInv
    <2>2. unpersisted' \subseteq Sigs /\ sigs' \subseteq Sigs /\ queue' \subseteq (Sigs \cup Inputs) \X Inputs
      <3>1. /\ queue' = queue \/ (seen \in Sigs /\ queue' = queue \cup {<<seen, input>>})
            /\ unpersisted' = unpersisted \/ (seen \in Sigs /\ unpersisted' = unpersisted \cup {seen})
            /\ sigs' = sigs \/ (seen \in Sigs /\ sigs' = sigs \cup {seen})
        BY <1>21, RecordIs
      <3> QED
        BY <3>1 DEF LoopTypeInv
    <2>3. UNCHANGED <<lane, may, hits, findings, pass, server, left, pool, pool_len, crashing, clusters, oracles,
                      traced, unread, input, from_fork_server, seen, events, iter, novel, found,
                      all_rejected, answer, revealed, lost, observed, seeded>>
      BY <1>21, RecordIs
    <2> QED
      BY <2>1, <2>2, <2>3 DEF LoopTypeInv
  <1>22. ASSUME Recheck PROVE LoopTypeInv'
    <2>1. pc = "recheck" /\ pc' = "events" /\ seen' \in Outcome /\ unread' \subseteq hits
      BY <1>22, <1>a, RecheckIs DEF LoopTypeInv
    <2>2. UNCHANGED <<lane, may, hits, findings, sigs, queue, pass, server, left, pool, pool_len, crashing,
                      clusters, oracles, traced, unpersisted, input, from_fork_server, new_signature,
                      made_progress, events, iter, novel, found, all_rejected, answer,
                      revealed, lost, crowded, observed, seeded>>
      BY <1>22, RecheckIs
    <2> QED
      BY <2>1, <2>2 DEF LoopTypeInv
  <1>23. ASSUME ReportEvent PROVE LoopTypeInv'
    <2>1. /\ findings' \subseteq [key : Clusters \cup Sigs \cup Oracles, input : Inputs, pass : 1 .. MaxPasses]
          /\ found' \in Nat /\ lost' \subseteq Clusters \cup Sigs
      <3>1. CASE UNCHANGED <<findings, found>> /\ (lost' = lost \/ (seen \in Sigs /\ lost' = lost \cup {seen}))
        BY <3>1 DEF LoopTypeInv
      <3>2. CASE seen \in Sigs /\ Adds(seen, input) /\ lost' = lost
        BY <1>23, <3>2, ReportEventIs, AddsIs DEF LoopTypeInv
      <3> QED
        BY <1>23, <3>1, <3>2, ReportEventIs
    <2> QED
      BY <1>23, <2>1, ReportEventIs DEF LoopTypeInv
  <1>24. ASSUME ReportCrash PROVE LoopTypeInv'
    <2>1. /\ findings' \subseteq [key : Clusters \cup Sigs \cup Oracles, input : Inputs, pass : 1 .. MaxPasses]
          /\ found' \in Nat /\ lost' \subseteq Clusters \cup Sigs
      <3>1. CASE UNCHANGED <<findings, found>> /\ (lost' = lost \/ (seen \in Clusters /\ lost' = lost \cup {seen}))
        BY <3>1 DEF LoopTypeInv
      <3>2. CASE seen \in Clusters /\ Adds(seen, input) /\ lost' = lost
        BY <1>24, <3>2, ReportCrashIs, AddsIs DEF LoopTypeInv
      <3> QED
        BY <1>24, <3>1, <3>2, ReportCrashIs
    <2>2. clusters' \subseteq Clusters \cup Sigs \cup {"cap"}
      BY <1>24, ReportCrashIs DEF LoopTypeInv
    <2> QED
      BY <1>24, <2>1, <2>2, ReportCrashIs DEF LoopTypeInv
  <1>25. ASSUME ReportOracle PROVE LoopTypeInv'
    <2>1. /\ findings' \subseteq [key : Clusters \cup Sigs \cup Oracles, input : Inputs, pass : 1 .. MaxPasses]
          /\ found' \in Nat
      <3>1. CASE UNCHANGED <<findings, found>>
        BY <3>1 DEF LoopTypeInv
      <3>2. CASE Adds("oracle", input)
        BY <1>25, <1>a, <3>2, ReportOracleIs, AddsIs DEF LoopTypeInv
      <3> QED
        BY <1>25, <3>1, <3>2, ReportOracleIs
    <2> QED
      BY <1>25, <1>a, <2>1, ReportOracleIs DEF LoopTypeInv
  <1>26. ASSUME ConfirmSinks PROVE LoopTypeInv'
    <2>1. /\ findings' \subseteq [key : Clusters \cup Sigs \cup Oracles, input : Inputs, pass : 1 .. MaxPasses]
          /\ found' \in Nat
      <3>1. CASE UNCHANGED <<findings, found>>
        BY <3>1 DEF LoopTypeInv
      <3>2. ASSUME NEW i \in traced, Adds("sink", i)
            PROVE  /\ findings' \subseteq [key : Clusters \cup Sigs \cup Oracles, input : Inputs, pass : 1 .. MaxPasses]
                   /\ found' \in Nat
        BY <1>26, <1>a, <3>2, ConfirmSinksIs, AddsIs DEF LoopTypeInv
      <3> QED
        BY <1>26, <3>1, <3>2, ConfirmSinksIs
    <2> QED
      BY <1>26, <1>a, <2>1, ConfirmSinksIs DEF LoopTypeInv
  <1>27. ASSUME NEW seeds \in SeedSets, StartPass(seeds) PROVE LoopTypeInv'
    <2>1. Keys \subseteq Clusters \cup Sigs \cup Oracles
      BY DEF Keys, LoopTypeInv
    <2>2. pool_len' \in Nat /\ Cardinality(pool') <= pool_len' /\ IsFiniteSet(pool')
      <3>1. pool' = seeds /\ pool_len' = Cardinality(seeds) /\ IsFiniteSet(seeds)
        BY <1>27, StartPassIs
      <3>2. Cardinality(seeds) \in Nat
        BY <3>1, FS_CardinalityType
      <3> QED
        BY <3>1, <3>2
    <2>3. pass' \in 0 .. MaxPasses /\ pass' > 0
      BY <1>27, <1>a, StartPassIs DEF LoopTypeInv
    <2> QED
      BY <1>27, <2>1, <2>2, <2>3, StartPassIs DEF LoopTypeInv
  <1>28. ASSUME Retain PROVE LoopTypeInv'
    <2>1. /\ IsFiniteSet(pool') /\ pool_len' \in Nat /\ Cardinality(pool') <= pool_len'
          /\ left' \subseteq pool' /\ pool' \subseteq Inputs
      <3>1. CASE UNCHANGED <<pool, pool_len>>
        BY <1>28, <3>1, RetainIs DEF LoopTypeInv
      <3>2. CASE pool' = pool \cup {input} /\ pool_len' = pool_len + 1
        <4>1. /\ IsFiniteSet(pool') /\ (Cardinality(pool') = Cardinality(pool) \/ Cardinality(pool') = Cardinality(pool) + 1)
          BY <3>2, FS_AddElement DEF LoopTypeInv
        <4>2. Cardinality(pool) \in Nat
          BY FS_CardinalityType DEF LoopTypeInv
        <4> QED
          BY <1>28, <3>2, <4>1, <4>2, RetainIs DEF LoopTypeInv
      <3> QED
        BY <1>28, <3>1, <3>2, RetainIs
    <2>2. Shown \subseteq Clusters \cup Sigs \cup {"oracle"}
      BY DEF Shown
    <2> QED
      BY <1>28, <1>a, <2>1, <2>2, RetainIs DEF LoopTypeInv, DropRun
  <1>c. IsFiniteSet({}) /\ Cardinality({}) = 0
    BY FS_EmptySet
  <1>d. ASSUME DropPass
        PROVE  /\ pc' = "idle" /\ server' = "none" /\ input' \in Inputs /\ seen' \in Outcome
               /\ from_fork_server' = FALSE /\ new_signature' = FALSE /\ made_progress' = FALSE
               /\ events' = {} /\ unread' = {} /\ left' = {} /\ pool' = {} /\ crashing' = {}
               /\ IsFiniteSet(pool') /\ pool_len' \in Nat /\ Cardinality(pool') <= pool_len'
               /\ clusters' = {} /\ oracles' = {} /\ traced' = {} /\ unpersisted' = {}
               /\ iter' \in 0 .. MaxIters /\ found' \in Nat /\ all_rejected' = TRUE
    <2>1. iter' \in 0 .. MaxIters /\ found' \in Nat
      BY <1>a, <1>d DEF DropPass
    <2>2. IsFiniteSet(pool') /\ pool_len' \in Nat /\ Cardinality(pool') <= pool_len'
      BY <1>c, <1>d DEF DropPass
    <2> QED
      BY <1>a, <1>d, <2>1, <2>2 DEF DropPass, DropRun
  <1>29. ASSUME Persist PROVE LoopTypeInv'
    <2>1. queue' \subseteq (Sigs \cup Inputs) \X Inputs
      BY <1>29, PersistIs DEF LoopTypeInv
    <2> QED
      BY <1>29, <1>d, <2>1, PersistIs DEF LoopTypeInv
  <1>30. ASSUME Abort PROVE LoopTypeInv'
    <2>1. lost' \subseteq Clusters \cup Sigs
      BY <1>30, AbortIs DEF LoopTypeInv, RunInv
    <2> QED
      BY <1>30, <1>d, <2>1, AbortIs DEF LoopTypeInv
  <1> QED
    BY <1>1, <1>2, <1>3, <1>4, <1>5, <1>20, <1>21, <1>22, <1>23, <1>24, <1>25, <1>26, <1>27, <1>28, <1>29, <1>30, StepIs

LEMMA RunNext == LoopTypeInv /\ RunInv /\ DedupInv /\ [Next]_vars => RunInv'
  <1> SUFFICES ASSUME LoopTypeInv, RunInv, DedupInv, [Next]_vars PROVE RunInv'
    OBVIOUS
  <1> USE DEF Settled, Executed, c_libfuzzer_harness
  <1>a. ASSUME pc' \notin Executed, UNCHANGED <<seen, new_signature>> PROVE RunInv'
    BY <1>a DEF RunInv
  <1>b. ASSUME pc' \notin Executed, new_signature' = FALSE PROVE RunInv'
    BY <1>b DEF RunInv
  <1>1. ASSUME NEW i \in Inputs, PickSeed(i) PROVE RunInv'
    BY <1>1, <1>a DEF PickSeed, run
  <1>2. ASSUME NEW i \in Inputs, Probe(i) PROVE RunInv'
    BY <1>2, <1>a DEF Probe, run
  <1>3. ASSUME NEW i \in Inputs, Mutate(i) PROVE RunInv'
    BY <1>3, <1>a DEF Mutate, run
  <1>4. ASSUME EndLoop PROVE RunInv'
    BY <1>4, <1>a DEF EndLoop, run
  <1>20. ASSUME Ran PROVE RunInv'
    <2>1. /\ pc' = "record" /\ new_signature' = FALSE /\ lane' = lane /\ may' = may /\ input' = input
          /\ from_fork_server' => seen' = "clean" \/ (lane # "driver" /\ seen' \in Sigs)
          /\ ~from_fork_server' => seen' \in may[input]
      BY <1>20 DEF Ran
    <2> QED
      BY <2>1, KindsAre DEF RunInv
  <1>21. ASSUME Record PROVE RunInv'
    <2>1. /\ pc = "record" /\ pc' = "recheck" /\ (new_signature' => seen \in Sigs)
          /\ UNCHANGED <<lane, may, input, seen, from_fork_server>>
      BY <1>21, RecordIs
    <2> QED
      BY <2>1 DEF RunInv
  <1>22. ASSUME Recheck PROVE RunInv'
    <2>1. /\ pc = "recheck" /\ pc' = "events" 
          /\ UNCHANGED <<lane, may, input, from_fork_server, new_signature, made_progress>>
      BY <1>22, RecheckIs
    <2>2. CASE /\ seen' = seen
               /\ c_libfuzzer_harness /\ made_progress /\ seen \notin Reports
                    => seen \in may[input] \/ ~(may[input] \subseteq Reports)
      BY <2>1, <2>2 DEF RunInv
    <2>3. CASE seen' \in may[input] \cap Reports /\ seen = "clean"
      BY <2>1, <2>3, KindsAre DEF RunInv
    <2> QED
      BY <1>22, <2>2, <2>3, RecheckIs
  <1>23. ASSUME pc \in {"events", "crash", "oracle"}, pc' \in Settled,
                UNCHANGED <<lane, may, input, seen, from_fork_server, new_signature, made_progress>>
         PROVE  RunInv'
    BY <1>23 DEF RunInv
  <1>24. ASSUME ReportEvent PROVE RunInv'
    BY <1>23, <1>24, ReportEventIs
  <1>25. ASSUME ReportCrash PROVE RunInv'
    BY <1>23, <1>25, ReportCrashIs
  <1>26. ASSUME ReportOracle PROVE RunInv'
    BY <1>23, <1>26, ReportOracleIs
  <1>27. ASSUME Retain PROVE RunInv'
    BY <1>27, <1>b, RetainIs DEF DropRun
  <1>28. ASSUME ConfirmSinks PROVE RunInv'
    BY <1>28, <1>a, ConfirmSinksIs
  <1>29. ASSUME Persist PROVE RunInv'
    BY <1>29, <1>b, PersistIs DEF DropPass, DropRun
  <1>30. ASSUME Abort PROVE RunInv'
    BY <1>30, <1>b, AbortIs DEF DropPass, DropRun
  <1>31. ASSUME NEW seeds \in SeedSets, StartPass(seeds) PROVE RunInv'
    BY <1>31, <1>a, StartPassIs
  <1>32. ASSUME UNCHANGED vars PROVE RunInv'
    BY <1>32 DEF RunInv, vars, run, target
  <1> QED
    BY <1>1, <1>2, <1>3, <1>4, <1>20, <1>21, <1>22, <1>24, <1>25, <1>26, <1>27, <1>28, <1>29, <1>30, <1>31, <1>32, StepIs

LEMMA KeptNext == LoopTypeInv /\ RunInv /\ DedupInv /\ KeptInv /\ [Next]_vars => KeptInv'
  <1> SUFFICES ASSUME LoopTypeInv, RunInv, DedupInv, KeptInv, [Next]_vars PROVE KeptInv'
    OBVIOUS
  <1> USE DEF c_libfuzzer_harness
  <1>a. ASSUME UNCHANGED <<lane, may, pool, queue, seeded>> PROVE KeptInv'
    BY <1>a DEF KeptInv
  <1>1. ASSUME NEW i \in Inputs, PickSeed(i) PROVE KeptInv'
    BY <1>1, <1>a DEF PickSeed, target, disk, corpus, history
  <1>2. ASSUME NEW i \in Inputs, Probe(i) PROVE KeptInv'
    BY <1>2, <1>a DEF Probe, target, disk, corpus, history
  <1>3. ASSUME NEW i \in Inputs, Mutate(i) PROVE KeptInv'
    BY <1>3, <1>a DEF Mutate, target, disk, corpus, history
  <1>4. ASSUME EndLoop PROVE KeptInv'
    BY <1>4, <1>a DEF EndLoop, target, disk, corpus, history
  <1>5. ASSUME UNCHANGED vars PROVE KeptInv'
    BY <1>5, <1>a DEF vars, target, disk, corpus, history
  <1>20. ASSUME Ran PROVE KeptInv'
    BY <1>20, <1>a DEF Ran
  <1>21. ASSUME Record PROVE KeptInv'
    <2>1. UNCHANGED <<lane, may, pool, seeded>> /\ pc = "record"
      BY <1>21, RecordIs
    <2>2. CASE queue' = queue
      BY <1>a, <2>1, <2>2
    <2>3. CASE seen \in Sigs /\ queue' = queue \cup {<<seen, input>>}
      <3>1. ASSUME lane = "driver" PROVE ~(may[input] \subseteq Reports)
        <4>1. ~from_fork_server
          BY <2>1, <2>3, <3>1, KindsAre DEF RunInv
        <4>2. seen \in may[input]
          BY <2>1, <4>1 DEF RunInv, Executed
        <4> QED
          BY <2>3, <4>2, KindsAre
      <3> QED
        BY <2>1, <2>3, <3>1 DEF KeptInv
    <2> QED
      BY <1>21, <2>2, <2>3, RecordIs
  <1>22. ASSUME Recheck PROVE KeptInv'
    BY <1>22, <1>a, RecheckIs
  <1>23. ASSUME ReportEvent PROVE KeptInv'
    BY <1>23, <1>a, ReportEventIs
  <1>24. ASSUME ReportCrash PROVE KeptInv'
    BY <1>24, <1>a, ReportCrashIs
  <1>25. ASSUME ReportOracle PROVE KeptInv'
    BY <1>25, <1>a, ReportOracleIs
  <1>26. ASSUME ConfirmSinks PROVE KeptInv'
    BY <1>26, <1>a, ConfirmSinksIs
  <1>27. ASSUME Retain PROVE KeptInv'
    <2>1. pc = "retain" /\ UNCHANGED <<lane, may, queue, seeded>>
      BY <1>27, RetainIs
    <2>2. CASE pool' = pool
      BY <1>a, <2>1, <2>2
    <2>3. CASE made_progress /\ seen \notin Reports /\ pool' = pool \cup {input}
      <3>1. lane = "driver" => ~(may[input] \subseteq Reports)
        BY <2>1, <2>3 DEF RunInv, Settled
      <3> QED
        BY <2>1, <2>3, <3>1 DEF KeptInv
    <2> QED
      BY <1>27, <2>2, <2>3, RetainIs
  <1>28. ASSUME Persist PROVE KeptInv'
    <2>1. PICK S \in SUBSET pool : queue' = queue \cup {<<i, i>> : i \in S}
      BY <1>28, PersistIs
    <2>2. UNCHANGED <<lane, may, seeded>> /\ pool' = {}
      BY <1>28, PersistIs DEF DropPass
    <2> QED
      BY <2>1, <2>2 DEF KeptInv
  <1>29. ASSUME Abort PROVE KeptInv'
    BY <1>29, AbortIs DEF KeptInv, DropPass
  <1>30. ASSUME NEW seeds \in SeedSets, StartPass(seeds) PROVE KeptInv'
    <2>1. pool' = seeds /\ seeded' = seeded \cup seeds /\ UNCHANGED <<lane, may, queue>>
      BY <1>30, StartPassIs
    <2> QED
      BY <2>1 DEF KeptInv
  <1> QED
    BY <1>1, <1>2, <1>3, <1>4, <1>5, <1>20, <1>21, <1>22, <1>23, <1>24, <1>25, <1>26, <1>27, <1>28, <1>29, <1>30, StepIs

LEMMA ArtefactsNext ==
  LoopTypeInv /\ RunInv /\ DedupInv /\ ArtefactsNotReported /\ [Next]_vars => ArtefactsNotReported'
  <1> SUFFICES ASSUME LoopTypeInv, RunInv, DedupInv, ArtefactsNotReported, [Next]_vars
               PROVE  ArtefactsNotReported'
    OBVIOUS
  <1>a. ASSUME UNCHANGED <<may, findings>> PROVE ArtefactsNotReported'
    BY <1>a DEF ArtefactsNotReported
  <1>b. ASSUME may' = may, pc # "idle", NEW key \in Clusters \cup Sigs \cup Oracles, NEW i \in Inputs, Adds(key, i),
               key \in Clusters => \E o \in may[i] \cap Reports : RuleOf[o] = RuleOf[key],
               key \in Sigs => may[i] \cap ({key} \cup Reports) # {}
        PROVE  ArtefactsNotReported'
    <2>1. PICK f : f.key = key /\ f.input = i /\ findings' = findings \cup {f}
      BY <1>b, AddsIs
    <2> QED
      BY <1>b, <2>1 DEF ArtefactsNotReported
  <1>1. ASSUME NEW i \in Inputs, PickSeed(i) PROVE ArtefactsNotReported'
    BY <1>1, <1>a DEF PickSeed, target, disk
  <1>2. ASSUME NEW i \in Inputs, Probe(i) PROVE ArtefactsNotReported'
    BY <1>2, <1>a DEF Probe, target, disk
  <1>3. ASSUME NEW i \in Inputs, Mutate(i) PROVE ArtefactsNotReported'
    BY <1>3, <1>a DEF Mutate, target, disk
  <1>4. ASSUME EndLoop PROVE ArtefactsNotReported'
    BY <1>4, <1>a DEF EndLoop, target, disk
  <1>5. ASSUME UNCHANGED vars PROVE ArtefactsNotReported'
    BY <1>5, <1>a DEF vars, target, disk
  <1>20. ASSUME Ran PROVE ArtefactsNotReported'
    BY <1>20, <1>a DEF Ran
  <1>21. ASSUME Record PROVE ArtefactsNotReported'
    BY <1>21, <1>a, RecordIs
  <1>22. ASSUME Recheck PROVE ArtefactsNotReported'
    BY <1>22, <1>a, RecheckIs
  <1>23. ASSUME ReportEvent PROVE ArtefactsNotReported'
    <2>1. may' = may /\ pc # "idle" /\ input \in Inputs
      BY <1>23, ReportEventIs DEF LoopTypeInv
    <2>2. CASE findings' = findings
      BY <1>a, <2>1, <2>2
    <2>3. CASE seen \in Sigs /\ Adds(seen, input) /\ may[input] \cap ({seen} \cup Reports) # {}
      BY <1>b, <2>1, <2>3, KindsAre
    <2> QED
      BY <1>23, <2>2, <2>3, ReportEventIs
  <1>24. ASSUME ReportCrash PROVE ArtefactsNotReported'
    <2>1. may' = may /\ pc # "idle" /\ input \in Inputs
      BY <1>24, ReportCrashIs DEF LoopTypeInv
    <2>2. CASE findings' = findings
      BY <1>a, <2>1, <2>2
    <2>3. CASE seen \in Clusters /\ Adds(seen, input) /\ \E o \in may[input] \cap Reports : RuleOf[o] = RuleOf[seen]
      BY <1>b, <2>1, <2>3, KindsAre
    <2> QED
      BY <1>24, <2>2, <2>3, ReportCrashIs
  <1>25. ASSUME ReportOracle PROVE ArtefactsNotReported'
    <2>1. may' = may /\ pc # "idle" /\ input \in Inputs
      BY <1>25, ReportOracleIs DEF LoopTypeInv
    <2>2. findings' = findings \/ Adds("oracle", input)
      BY <1>25, ReportOracleIs
    <2> QED
      BY <1>a, <1>b, <2>1, <2>2, KindsAre
  <1>26. ASSUME ConfirmSinks PROVE ArtefactsNotReported'
    <2>1. may' = may /\ pc # "idle" /\ traced \subseteq Inputs
      BY <1>26, ConfirmSinksIs DEF LoopTypeInv
    <2>2. findings' = findings \/ \E i \in traced : Adds("sink", i)
      BY <1>26, ConfirmSinksIs
    <2> QED
      BY <1>a, <1>b, <2>1, <2>2, KindsAre
  <1>27. ASSUME Retain PROVE ArtefactsNotReported'
    BY <1>27, <1>a, RetainIs
  <1>28. ASSUME Persist PROVE ArtefactsNotReported'
    BY <1>28, <1>a, PersistIs
  <1>29. ASSUME Abort PROVE ArtefactsNotReported'
    BY <1>29, <1>a, AbortIs
  <1>30. ASSUME NEW seeds \in SeedSets, StartPass(seeds) PROVE ArtefactsNotReported'
    BY <1>30, <1>a, StartPassIs
  <1> QED
    BY <1>1, <1>2, <1>3, <1>4, <1>5, <1>20, <1>21, <1>22, <1>23, <1>24, <1>25, <1>26, <1>27, <1>28, <1>29, <1>30, StepIs

LEMMA DedupNext == LoopTypeInv /\ RunInv /\ DedupInv /\ [Next]_vars => DedupInv'
  <1> SUFFICES ASSUME LoopTypeInv, RunInv, DedupInv, [Next]_vars PROVE DedupInv'
    OBVIOUS
  <1> DEFINE Waiting == new_signature /\ pc \in {"recheck", "events"}
  <1>a. ASSUME UNCHANGED <<findings, clusters, oracles, sigs, crowded>>, pc' # "idle" => pc # "idle",
               Waiting' => Waiting /\ seen' = seen
        PROVE  DedupInv'
    BY <1>a DEF DedupInv, Keys
  (* A finding under a key that no finding has yet. *)
  <1>b. ASSUME pc # "idle", ~Waiting', sigs' = sigs, ~crowded' => ~crowded,
               clusters \subseteq clusters', oracles \subseteq oracles',
               IsFiniteSet(clusters'), ~crowded' => Cardinality(clusters') <= DedupLimit,
               NEW key \in Clusters \cup Sigs \cup Oracles, NEW i \in Inputs, Adds(key, i),
               ~crowded => key \notin Keys, key \in clusters' \cup oracles' \cup Sigs,
               key \in Sigs /\ ~crowded => key \in sigs
        PROVE  DedupInv'
    <2>1. PICK f : f.key = key /\ f.input = i /\ findings' = findings \cup {f}
      BY <1>b, AddsIs
    <2>2. IsFiniteSet(findings')
      BY <1>b, AddsIs DEF DedupInv
    <2>3. ASSUME ~crowded' PROVE \A g, h \in findings' : g.key = h.key => g = h
      <3>1. \A g \in findings : g.key # key
        BY <1>b, <2>3 DEF Keys
      <3> QED
        BY <1>b, <2>1, <2>3, <3>1 DEF DedupInv
    <2>4. ASSUME ~crowded' PROVE \A g \in findings' : /\ g.key \in Sigs => g.key \in sigs'
                                                      /\ g.key \in clusters' \cup oracles' \cup Sigs
      BY <1>b, <2>1, <2>4 DEF DedupInv
    <2> QED
      BY <1>b, <2>2, <2>3, <2>4 DEF DedupInv
  <1>1. ASSUME NEW i \in Inputs, PickSeed(i) PROVE DedupInv'
    BY <1>1, <1>a DEF PickSeed, disk, memory, history, run
  <1>2. ASSUME NEW i \in Inputs, Probe(i) PROVE DedupInv'
    BY <1>2, <1>a DEF Probe, disk, memory, history, run
  <1>3. ASSUME NEW i \in Inputs, Mutate(i) PROVE DedupInv'
    BY <1>3, <1>a DEF Mutate, disk, memory, history, run
  <1>4. ASSUME EndLoop PROVE DedupInv'
    BY <1>4, <1>a DEF EndLoop, disk, memory, history, run
  <1>5. ASSUME UNCHANGED vars PROVE DedupInv'
    BY <1>5, <1>a DEF vars, disk, memory, history, run
  <1>20. ASSUME Ran PROVE DedupInv'
    BY <1>20, <1>a DEF Ran
  <1>21. ASSUME Record PROVE DedupInv'
    <2>1. /\ UNCHANGED <<findings, clusters, oracles, seen>> /\ pc = "record" /\ pc' = "recheck"
      BY <1>21, RecordIs
    <2>2. CASE new_signature' = FALSE /\ UNCHANGED <<sigs, crowded>>
      BY <1>a, <2>1, <2>2
    <2>3. CASE crowded' = TRUE
      BY <2>1, <2>3 DEF DedupInv
    <2>4. CASE seen \in Sigs /\ seen \notin sigs /\ sigs' = sigs \cup {seen} /\ crowded' = crowded
      <3>1. ~crowded => seen \notin Keys
        BY <2>4 DEF DedupInv, Keys
      <3> QED
        BY <2>1, <2>4, <3>1 DEF DedupInv, Keys
    <2> QED
      BY <1>21, <2>2, <2>3, <2>4, RecordIs
  <1>22. ASSUME Recheck PROVE DedupInv'
    <2>1. new_signature => seen' = seen
      BY <1>22, RecheckIs, KindsAre DEF RunInv
    <2> QED
      BY <1>22, <1>a, <2>1, RecheckIs
  <1>23. ASSUME ReportEvent PROVE DedupInv'
    <2>1. /\ pc = "events" /\ pc' = "crash" /\ input \in Inputs
          /\ UNCHANGED <<sigs, crowded, clusters, oracles>>
      BY <1>23, ReportEventIs DEF LoopTypeInv
    <2>2. CASE findings' = findings
      BY <1>a, <2>1, <2>2
    <2>3. CASE new_signature /\ seen \in Sigs /\ Adds(seen, input)
      <3>1. ~crowded => seen \in sigs /\ seen \notin Keys
        BY <2>1, <2>3 DEF DedupInv
      <3>2. IsFiniteSet(clusters) /\ (~crowded => Cardinality(clusters) <= DedupLimit)
        BY DEF DedupInv
      <3> QED
        BY <1>b, <2>1, <2>3, <3>1, <3>2
    <2> QED
      BY <1>23, <2>2, <2>3, ReportEventIs
  <1>24. ASSUME ReportCrash PROVE DedupInv'
    <2>1. /\ pc = "crash" /\ pc' = "oracle" /\ input \in Inputs /\ UNCHANGED <<sigs, oracles>>
      BY <1>24, ReportCrashIs DEF LoopTypeInv
    <2>2. CASE UNCHANGED <<findings, clusters>> /\ (~crowded' => ~crowded)
      BY <2>1, <2>2 DEF DedupInv, Keys
    <2>3. CASE crowded' = TRUE /\ findings' = findings /\ IsFiniteSet(clusters')
      BY <2>3 DEF DedupInv
    <2>4. CASE /\ seen \in Clusters /\ seen \notin clusters /\ clusters' = clusters \cup {seen}
               /\ IsFiniteSet(clusters') /\ Cardinality(clusters') <= DedupLimit
               /\ ~crowded' => ~crowded
      <3>1. CASE findings' = findings
        BY <2>1, <2>4, <3>1 DEF DedupInv, Keys
      <3>2. CASE Adds(seen, input)
        <4>1. ~crowded => seen \notin Keys
          <5>1. seen \notin oracles /\ seen \notin Sigs
            BY <2>4, KindsAre DEF LoopTypeInv
          <5> QED
            BY <2>1, <2>4, <5>1 DEF DedupInv, Keys
        <4> QED
          BY <1>b, <2>1, <2>4, <3>2, <4>1, KindsAre
      <3> QED
        BY <1>24, <2>4, <3>1, <3>2, ReportCrashIs
    <2> QED
      BY <1>24, <2>2, <2>3, <2>4, ReportCrashIs
  <1>c. \A key \in Oracles : ~crowded /\ pc # "idle" /\ key \notin oracles => key \notin Keys
    BY KindsAre DEF DedupInv, Keys, LoopTypeInv
  <1>25. ASSUME ReportOracle PROVE DedupInv'
    <2>1. /\ pc = "oracle" /\ pc' = "retain" /\ input \in Inputs /\ UNCHANGED <<sigs, clusters, crowded>>
      BY <1>25, ReportOracleIs DEF LoopTypeInv
    <2>2. CASE UNCHANGED <<findings, oracles>>
      BY <1>a, <2>1, <2>2
    <2>3. CASE "oracle" \notin oracles /\ Adds("oracle", input) /\ oracles' = oracles \cup {"oracle"}
      <3>1. ~crowded => "oracle" \notin Keys
        BY <1>c, <2>1, <2>3, KindsAre
      <3>2. IsFiniteSet(clusters) /\ (~crowded => Cardinality(clusters) <= DedupLimit)
        BY DEF DedupInv
      <3> QED
        BY <1>b, <2>1, <2>3, <3>1, <3>2, KindsAre
    <2> QED
      BY <1>25, <2>2, <2>3, ReportOracleIs
  <1>26. ASSUME ConfirmSinks PROVE DedupInv'
    <2>1. /\ pc = "sinks" /\ pc' = "persist" /\ traced \subseteq Inputs /\ UNCHANGED <<sigs, clusters, crowded>>
      BY <1>26, ConfirmSinksIs DEF LoopTypeInv
    <2>2. CASE UNCHANGED <<findings, oracles>>
      BY <1>a, <2>1, <2>2
    <2>3. ASSUME NEW i \in traced, "sink" \notin oracles, Adds("sink", i), oracles' = oracles \cup {"sink"}
          PROVE  DedupInv'
      <3>1. ~crowded => "sink" \notin Keys
        BY <1>c, <2>1, <2>3, KindsAre
      <3>2. IsFiniteSet(clusters) /\ (~crowded => Cardinality(clusters) <= DedupLimit)
        BY DEF DedupInv
      <3> QED
        BY <1>b, <2>1, <2>3, <3>1, <3>2, KindsAre
    <2> QED
      BY <1>26, <2>2, <2>3, ConfirmSinksIs
  <1>27. ASSUME Retain PROVE DedupInv'
    BY <1>27, <1>a, RetainIs
  <1>28. ASSUME UNCHANGED <<findings, sigs, crowded>>, DropPass PROVE DedupInv'
    <2>1. pc' = "idle" /\ clusters' = {} /\ IsFiniteSet(clusters') /\ Cardinality(clusters') = 0
      BY <1>28, FS_EmptySet DEF DropPass
    <2>2. DedupLimit \in Nat
      BY FuzzAssumption
    <2> QED
      BY <1>28, <2>1, <2>2 DEF DedupInv
  <1>29. ASSUME Persist PROVE DedupInv'
    BY <1>28, <1>29, PersistIs
  <1>30. ASSUME Abort PROVE DedupInv'
    BY <1>28, <1>30, AbortIs
  <1>31. ASSUME NEW seeds \in SeedSets, StartPass(seeds) PROVE DedupInv'
    <2>1. /\ UNCHANGED <<findings, sigs>> /\ IsFiniteSet(clusters') /\ Cardinality(clusters') <= DedupLimit
          /\ pc' = "top" /\ (crowded => crowded') /\ (~crowded' => Keys \subseteq clusters' \cup oracles')
      BY <1>31, StartPassIs
    <2> QED
      BY <2>1 DEF DedupInv, Keys
  <1> QED
    BY <1>1, <1>2, <1>3, <1>4, <1>5, <1>20, <1>21, <1>22, <1>23, <1>24, <1>25, <1>26, <1>27, <1>29, <1>30, <1>31, StepIs

LEMMA ReportedNext == LoopTypeInv /\ RunInv /\ DedupInv /\ ReportedInv /\ [Next]_vars => ReportedInv'
  <1> SUFFICES ASSUME LoopTypeInv, RunInv, DedupInv, ReportedInv, [Next]_vars PROVE ReportedInv'
    OBVIOUS
  <1> USE DEF Settled
  (* Between executions *)
  <1>a. ASSUME UNCHANGED <<findings, clusters, oracles, sigs, unpersisted, crowded, revealed, lost>>,
               pc \notin {"recheck", "events"}, pc' \notin {"recheck", "events"} \cup Settled
        PROVE  ReportedInv'
    BY <1>a DEF ReportedInv, Keys
  <1>1. ASSUME NEW i \in Inputs, PickSeed(i) PROVE ReportedInv'
    BY <1>1, <1>a DEF PickSeed, disk, memory, history
  <1>2. ASSUME NEW i \in Inputs, Probe(i) PROVE ReportedInv'
    BY <1>2, <1>a DEF Probe, disk, memory, history
  <1>3. ASSUME NEW i \in Inputs, Mutate(i) PROVE ReportedInv'
    BY <1>3, <1>a DEF Mutate, disk, memory, history
  <1>4. ASSUME EndLoop PROVE ReportedInv'
    BY <1>4, <1>a DEF EndLoop, disk, memory, history
  <1>20. ASSUME Ran PROVE ReportedInv'
    BY <1>20, <1>a DEF Ran
  <1>21. ASSUME Record PROVE ReportedInv'
    <2>1. /\ UNCHANGED <<findings, clusters, oracles, seen, revealed, lost>> /\ pc = "record" /\ pc' = "recheck"
          /\ Keys' = Keys
      BY <1>21, RecordIs DEF Keys
    <2>2. CASE /\ new_signature' = FALSE /\ UNCHANGED <<sigs, unpersisted, crowded>>
               /\ seen \in Sigs => seen \in sigs \cup unpersisted
      BY <2>1, <2>2 DEF ReportedInv
    <2>3. CASE crowded' = TRUE
      BY <2>1, <2>3 DEF ReportedInv
    <2>4. CASE /\ new_signature' = TRUE /\ sigs' = sigs \cup {seen} /\ unpersisted' = unpersisted \cup {seen}
               /\ crowded' = crowded
      BY <2>1, <2>4 DEF ReportedInv
    <2> QED
      BY <1>21, <2>2, <2>3, <2>4, RecordIs
  <1>22. ASSUME Recheck PROVE ReportedInv'
    <2>1. /\ UNCHANGED <<findings, clusters, oracles, sigs, unpersisted, new_signature, crowded, revealed, lost>>
          /\ pc = "recheck" /\ pc' = "events" /\ Keys' = Keys
      BY <1>22, RecheckIs DEF Keys
    <2>2. (new_signature => seen' = seen) /\ (seen' = seen \/ seen' \notin Sigs)
      BY <1>22, RecheckIs, KindsAre DEF RunInv
    <2> QED
      BY <2>1, <2>2 DEF ReportedInv
  <1>23. ASSUME ReportEvent PROVE ReportedInv'
    <2>1. /\ UNCHANGED <<clusters, oracles, sigs, unpersisted, seen, crowded, revealed>>
          /\ pc = "events" /\ pc' = "crash" /\ lost \subseteq lost' /\ pc # "idle" /\ input \in Inputs
      BY <1>23, ReportEventIs DEF LoopTypeInv
    <2>2. Keys \subseteq Keys' /\ (new_signature /\ seen \notin Intended => seen \in Keys' \cup lost')
      <3>1. CASE findings' = findings
        BY <1>23, <3>1, ReportEventIs DEF Keys, Adds
      <3>2. CASE seen \in Sigs /\ Adds(seen, input)
        BY <2>1, <3>2, AddsIs
      <3> QED
        BY <1>23, <3>1, <3>2, ReportEventIs
    <2>3. ASSUME ~crowded PROVE \A s \in (sigs \cup unpersisted) \ Intended : s \in Keys' \cup lost'
      BY <2>1, <2>2, <2>3 DEF ReportedInv
    <2>4. ~crowded /\ seen \in Sigs \ Intended => seen \in Keys' \cup lost'
      BY <2>1, <2>3 DEF ReportedInv
    <2> QED
      BY <2>1, <2>2, <2>3, <2>4 DEF ReportedInv
  <1>24. ASSUME ReportCrash PROVE ReportedInv'
    <2>1. /\ UNCHANGED <<oracles, sigs, unpersisted, seen, revealed>> /\ (crowded => crowded')
          /\ pc = "crash" /\ pc' = "oracle" /\ lost \subseteq lost' /\ pc # "idle" /\ input \in Inputs
      BY <1>24, ReportCrashIs DEF LoopTypeInv
    <2>2. Keys \subseteq Keys' /\ (seen \in Clusters /\ seen \notin clusters /\ ~crowded' => seen \in Keys' \cup lost')
      <3>1. CASE findings' = findings
        BY <1>24, <3>1, ReportCrashIs DEF Keys, Adds
      <3>2. CASE seen \in Clusters /\ Adds(seen, input)
        BY <2>1, <3>2, AddsIs
      <3> QED
        BY <1>24, <3>1, <3>2, ReportCrashIs
    <2>3. ~crowded' => clusters' \subseteq clusters \cup {seen}
      BY <1>24, ReportCrashIs
    <2>4. ASSUME ~crowded' PROVE /\ clusters' \cap Clusters \subseteq Keys' \cup lost'
                                 /\ seen \in Clusters => seen \in Keys' \cup lost'
      BY <2>1, <2>2, <2>3, <2>4 DEF ReportedInv
    <2>5. ASSUME ~crowded' PROVE /\ revealed' \subseteq Keys' \cup lost'
                                 /\ \A s \in (sigs' \cup unpersisted') \ Intended : s \in Keys' \cup lost'
                                 /\ seen \in Sigs \ Intended => seen \in Keys' \cup lost'
      BY <2>1, <2>2, <2>5 DEF ReportedInv
    <2>6. "oracle" \in oracles' => "oracle" \in Keys'
      BY <2>1, <2>2 DEF ReportedInv
    <2> QED
      BY <2>1, <2>4, <2>5, <2>6 DEF ReportedInv
  (* The oracles only add a finding. *)
  <1>b. ASSUME pc \notin {"recheck", "events"}, pc' \notin {"recheck", "events"}, pc' = "retain" => pc = "oracle",
               pc' # "crash", pc' # "oracle",
               UNCHANGED <<clusters, sigs, unpersisted, seen, events, crowded, revealed, lost>>,
               Keys \subseteq Keys', "oracle" \in oracles' => "oracle" \in Keys',
               pc' = "retain" /\ events # {} => "oracle" \in Keys'
        PROVE  ReportedInv'
    BY <1>b DEF ReportedInv
  <1>25. ASSUME ReportOracle PROVE ReportedInv'
    <2>1. /\ UNCHANGED <<clusters, sigs, unpersisted, seen, events, crowded, revealed, lost>>
          /\ pc = "oracle" /\ pc' = "retain" /\ input \in Inputs
      BY <1>25, ReportOracleIs DEF LoopTypeInv
    <2>2. CASE UNCHANGED <<findings, oracles>> /\ (events # {} => "oracle" \in oracles)
      <3>1. Keys' = Keys
        BY <2>2 DEF Keys
      <3>2. "oracle" \in oracles => "oracle" \in Keys
        BY DEF ReportedInv
      <3> QED
        BY <1>b, <2>1, <2>2, <3>1, <3>2
    <2>3. CASE Adds("oracle", input) /\ oracles' = oracles \cup {"oracle"}
      <3>1. Keys' = Keys \cup {"oracle"}
        BY <2>1, <2>3, AddsIs, KindsAre
      <3> QED
        BY <1>b, <2>1, <2>3, <3>1
    <2> QED
      BY <1>25, <2>2, <2>3, ReportOracleIs
  <1>26. ASSUME ConfirmSinks PROVE ReportedInv'
    <2>1. /\ UNCHANGED <<clusters, sigs, unpersisted, seen, events, crowded, revealed, lost>>
          /\ pc = "sinks" /\ pc' = "persist" /\ traced \subseteq Inputs
      BY <1>26, ConfirmSinksIs DEF LoopTypeInv
    <2>2. CASE UNCHANGED <<findings, oracles>>
      BY <1>a, <2>1, <2>2
    <2>3. ASSUME NEW i \in traced, Adds("sink", i), oracles' = oracles \cup {"sink"} PROVE ReportedInv'
      <3>1. Keys' = Keys \cup {"sink"}
        BY <2>1, <2>3, AddsIs, KindsAre
      <3>2. "oracle" \in oracles' => "oracle" \in Keys'
        BY <2>3, <3>1 DEF ReportedInv
      <3> QED
        BY <1>b, <2>1, <3>1, <3>2
    <2> QED
      BY <1>26, <2>2, <2>3, ConfirmSinksIs
  <1>27. ASSUME Retain PROVE ReportedInv'
    <2>1. /\ UNCHANGED <<findings, clusters, oracles, sigs, unpersisted, crowded, lost>> /\ Keys' = Keys
          /\ pc = "retain" /\ pc' \in {"sinks", "top"} /\ revealed' = revealed \cup Shown
      BY <1>27, RetainIs DEF Keys
    <2>2. ~crowded => Shown \subseteq Keys \cup lost
      BY <2>1 DEF ReportedInv, Shown
    <2> QED
      BY <2>1, <2>2 DEF ReportedInv
  <1>28. ASSUME Persist PROVE ReportedInv'
    <2>1. /\ UNCHANGED <<findings, sigs, crowded, revealed, lost>> /\ Keys' = Keys
          /\ pc = "persist" /\ pc' = "idle" /\ clusters' = {} /\ oracles' = {} /\ unpersisted' = {}
      BY <1>28, PersistIs DEF Keys, DropPass
    <2> QED
      BY <2>1 DEF ReportedInv
  <1>29. ASSUME Abort PROVE ReportedInv'
    <2>1. /\ UNCHANGED <<findings, sigs, crowded, revealed>> /\ Keys' = Keys
          /\ pc' = "idle" /\ clusters' = {} /\ oracles' = {} /\ unpersisted' = {}
          /\ lost \subseteq lost' /\ (pc \in {"recheck", "events"} /\ new_signature => seen \in lost')
      BY <1>29, AbortIs DEF Keys, DropPass
    <2> QED
      BY <2>1 DEF ReportedInv
  <1>30. ASSUME NEW seeds \in SeedSets, StartPass(seeds) PROVE ReportedInv'
    <2>1. /\ UNCHANGED <<findings, sigs, unpersisted, revealed, lost>> /\ Keys' = Keys
          /\ pc = "idle" /\ pc' = "top" /\ clusters' \subseteq Keys /\ oracles' \subseteq Keys
          /\ (crowded => crowded')
      BY <1>30, StartPassIs DEF Keys
    <2> QED
      BY <2>1 DEF ReportedInv
  <1>31. ASSUME UNCHANGED vars PROVE ReportedInv'
    BY <1>31 DEF ReportedInv, Keys, vars, disk, memory, history, run
  <1> QED
    BY <1>1, <1>2, <1>3, <1>4, <1>20, <1>21, <1>22, <1>23, <1>24, <1>25, <1>26, <1>27, <1>28, <1>29, <1>30, <1>31, StepIs

LEMMA LoopInit == Init => LoopInv
  <1> SUFFICES ASSUME Init PROVE LoopInv
    OBVIOUS
  <1>1. PICK t \in Targets(lane) : may = t.may /\ hits = t.hits
    BY DEF Init
  <1>2. lane \in Lanes /\ may \in [Inputs -> SUBSET Outcome] /\ hits \subseteq Inputs
    <2>1. lane \in Lanes
      BY DEF Init
    <2>2. t \in [may : [Inputs -> SUBSET Outcome \ {{}}], hits : SUBSET Inputs]
      BY <1>1, <2>1, FuzzAssumption
    <2> QED
      BY <1>1, <2>1, <2>2
  <1>3. IsFiniteSet({}) /\ Cardinality({}) = 0
    BY FS_EmptySet
  <1>4. {MaxPasses, MaxIters, MaxNovel, DedupLimit} \subseteq Nat /\ Blank \in Inputs /\ "clean" \in Outcome
    BY FuzzAssumption, KindsAre
  <1>5. /\ findings = {} /\ sigs = {} /\ queue = {} /\ left = {} /\ pool = {} /\ crashing = {}
        /\ clusters = {} /\ oracles = {} /\ traced = {} /\ unpersisted = {} /\ unread = {}
        /\ events = {} /\ revealed = {} /\ lost = {} /\ observed = {} /\ seeded = {}
        /\ pc = "idle" /\ server = "none" /\ answer = "none" /\ input = Blank /\ seen = "clean"
    BY DEF Init
  <1>6. /\ pool_len = 0 /\ pass = 0 /\ iter = 0 /\ novel = 0 /\ found = 0
    BY DEF Init
  <1>7. /\ from_fork_server = FALSE /\ new_signature = FALSE /\ made_progress = FALSE
        /\ all_rejected = TRUE /\ crowded = FALSE
    BY DEF Init
  <1>8. LoopTypeInv
    <2>1. 0 \in 0 .. MaxPasses /\ 0 \in 0 .. MaxIters /\ 0 \in 0 .. MaxNovel /\ 0 \in Nat
      BY <1>4
    <2>2. IsFiniteSet(pool) /\ Cardinality(pool) <= pool_len
      BY <1>3, <1>5, <1>6
    <2> QED
      BY <1>2, <1>4, <1>5, <1>6, <1>7, <2>1, <2>2 DEF LoopTypeInv
  <1>9. RunInv /\ KeptInv /\ ArtefactsNotReported
    BY <1>5, <1>7 DEF RunInv, KeptInv, ArtefactsNotReported, Executed, Settled
  <1>10. DedupInv
    BY <1>3, <1>4, <1>5, <1>7 DEF DedupInv
  <1>11. ReportedInv
    BY <1>5 DEF ReportedInv, Settled
  <1> QED
    BY <1>8, <1>9, <1>10, <1>11 DEF LoopInv

LEMMA LoopInvAlways == Spec => []LoopInv
  <1>1. LoopInv /\ [Next]_vars => LoopInv'
    BY TypeNext, RunNext, KeptNext, DedupNext, ReportedNext, ArtefactsNext DEF LoopInv
  <1> QED
    BY <1>1, LoopInit, PTL DEF Spec

-----------------------------------------------------------------------------
(* What follows from it. *)

(* Every variable of the engine keeps its type; the pool holds no more      *)
(* inputs than it counts.                                                   *)
THEOREM LoopTypeCorrect == Spec => []TypeOK
  <1>1. LoopInv => TypeOK
    BY DEF LoopInv, LoopTypeInv, TypeOK, Executed, Settled
  <1> QED
    BY <1>1, LoopInvAlways, PTL

(* The replays of the fork server path keep out every fault that only the   *)
(* past of the warm process made.                                           *)
THEOREM LoopReportsReal == Spec => []ArtefactsNotReported
  BY LoopInvAlways, PTL DEF LoopInv

(* Until a limit is met, a root cause is written once, whatever passes and  *)
(* inputs meet it and wherever a pass was cut off.                          *)
THEOREM LoopDeduplicates == Spec => []OneFindingPerRootCause
  <1>1. LoopInv => OneFindingPerRootCause
    BY DEF LoopInv, DedupInv, OneFindingPerRootCause
  <1> QED
    BY <1>1, LoopInvAlways, PTL

(* Until a limit is met, deduplication swallows nothing: what an execution  *)
(* showed and every fresh process shows has a finding, unless the first     *)
(* sighting of its key did not reproduce or was cut off.                    *)
THEOREM LoopReportsRevealed == Spec => []RevealedIsReported
  <1>1. LoopInv => RevealedIsReported
    BY DEF LoopInv, ReportedInv, RevealedIsReported
  <1> QED
    BY <1>1, LoopInvAlways, PTL

(* #416: no input the engine made itself and kept crashes in every fresh    *)
(* process, although the warm process may have hidden the crash.            *)
THEOREM LoopKeepsClean == Spec => []KeptMutantsAreClean
  <1>1. LoopInv => KeptMutantsAreClean
    BY DEF LoopInv, KeptInv, KeptMutantsAreClean, Content
  <1> QED
    BY <1>1, LoopInvAlways, PTL
===============================================================================
