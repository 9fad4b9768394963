-------------------------- MODULE CampaignResumeProofs --------------------------
(***************************************************************************)
(* What a resumed campaign may rely on, for every set of targets and any   *)
(* number of runs, edits, kills and stops.                                 *)
(*                                                                         *)
(* The program keeps one marker per identity for the whole directory, so   *)
(* no single action shows that a record is fresh.  The inductive invariant *)
(* relates the records to the markers at each stage of a run: the versions *)
(* only grow (VersionInv), a target has one place in a run (PlacesInv),    *)
(* memory and files agree (AgreeInv), no marker is older than an attempt   *)
(* (MarkersInv, RepeatInv), and no record is older than the markers        *)
(* (FreshInv, BinaryInv).  The last holds only of runs that are not cut    *)
(* short: run_inner writes the markers before the sweep that earns them.   *)
(***************************************************************************)
EXTENDS CampaignResume, TLAPS

(* The world only moves with an edit, so its versions never run ahead of    *)
(* the number of edits, nor anything in the work directory ahead of them.   *)
VersionInv ==
  /\ now.ctx <= edits + 1 /\ now.bin <= edits + 1
  /\ \A t \in Targets : now.src[t] <= edits + 1
  /\ fp <= now.ctx /\ producer <= now.bin
  /\ \A t \in DOMAIN files : files[t] <= now.src[t]
  /\ \A t \in DOMAIN record :
       record[t].ctx <= now.ctx /\ record[t].src <= now.src[t] /\ record[t].bin <= now.bin
  /\ ~Idle => producer = now.bin

(* Every target is in one place: still to do, done, waiting for phase 2 or  *)
(* reloaded; phase 2 holds what phase 1 could not fuzz.                     *)
Failed == {t \in DOMAIN results : ~results[t].fuzzed}
PlacesInv ==
  /\ stage \in {"prepared", "discovered"} => DOMAIN results = {} /\ DOMAIN resumed = {}
  /\ stage \in {"prepared", "discovered", "phase1"} => DOMAIN forced_results = {}
  /\ stage = "phase1" =>
       /\ \A t \in todo : t \notin DOMAIN results /\ t \notin DOMAIN upgrade
       /\ DOMAIN results \cap DOMAIN upgrade = {}
  /\ stage \in {"phase2", "reporting"} =>
       /\ todo \subseteq Failed /\ DOMAIN forced_results \subseteq Failed
       /\ todo \cap DOMAIN forced_results = {}
  /\ stage \in {"phase1", "phase2", "reporting"} =>
       /\ \A t \in DOMAIN resumed : t \notin todo /\ t \notin DOMAIN results
       /\ DOMAIN resumed \subseteq DOMAIN record
  /\ stage = "phase1" => DOMAIN resumed \cap DOMAIN upgrade = {}
  /\ stage = "reporting" => DOMAIN forced_results = {} /\ todo = {}

(* What carries the mark of --force. *)
ForcedInv ==
  /\ \A t \in DOMAIN resumed : stage \in {"phase1", "phase2", "reporting"} /\ ~opts.force
       => ~resumed[t].forced
  /\ \A t \in DOMAIN upgrade : stage = "phase1" => ~upgrade[t].forced
  /\ \A t \in DOMAIN results : stage \in {"phase1", "phase2", "reporting"}
       => ~results[t].forced
  /\ UnforcedReportsUnforced

(* What a run holds in memory is what its files say. *)
Agrees(f) == \A t \in DOMAIN f : t \in DOMAIN record /\ f[t] = record[t]
AgreeInv ==
  ~missed =>
    /\ stage \in {"phase1", "phase2", "reporting"} => Agrees(resumed) /\ Agrees(forced_results)
    /\ stage = "phase1" => Agrees(upgrade)
    /\ stage \in {"phase1", "phase2", "reporting"} =>
         \A t \in DOMAIN results \ DOMAIN forced_results :
           t \in DOMAIN record /\ results[t] = record[t]
    /\ ReportMatchesRecords

(* No marker of the work directory is older than an attempt made. *)
MarkersCover ==
  \A e \in log :
    /\ e[1] \in DOMAIN record
    /\ e[2].ctx <= fp /\ e[1] \in DOMAIN files /\ e[2].src <= files[e[1]]
    /\ e[2].bin <= producer
MarkersInv ==
  "edit_running" \notin Faults /\ ~missed =>
    /\ MarkersCover
    /\ stage \notin {"off", "prepared", "done"} => files = now.src
    /\ stage \in {"phase1", "phase2"} => fp = now.ctx

(* What was tried on the present source with the present build is settled,  *)
(* or has a forced answer that this run may not use.                        *)
Tried(t) == \E e \in log : e[1] = t /\ e[2] = Stamp(t)
RepeatInv ==
  "edit_running" \notin Faults /\ ~missed =>
    /\ ~Idle /\ incompatible /\ stage \in {"prepared", "discovered"}
         => \A e \in log : e[2].bin # now.bin
    /\ stage = "discovered" =>
         \A e \in log : e[2].src = now.src[e[1]] => ~scope.published \/ e[1] \in scope.unchanged
    /\ stage = "phase1" /\ opts.resume =>
         \A t \in todo : Tried(t) => t \in DOMAIN record /\ record[t].forced /\ ~opts.force

(* Runs that are neither stopped nor killed, and whose force flag is left   *)
(* alone, end with every target attempted or reloaded.                      *)
Uninterrupted == Faults \cap {"stop", "kill", "toggle"} = {}

(* A record on file was obtained on the markers' world or a later one.      *)
UpToDate(t) ==
  /\ fp <= record[t].ctx
  /\ t \in DOMAIN files /\ files[t] <= record[t].src
FreshInv ==
  Uninterrupted /\ ~missed =>
    /\ Idle \/ stage \in {"prepared", "phase2", "reporting"} =>
         \A t \in DOMAIN record : UpToDate(t)
    /\ stage = "discovered" =>
         /\ scope.published
         /\ \A t \in DOMAIN record :
              fp <= record[t].ctx /\ (t \in scope.unchanged => record[t].src = now.src[t])
    /\ stage \notin {"off", "prepared", "done"} => DOMAIN files = Targets
    /\ stage = "discovered" => files = now.src
    /\ stage = "phase1" => \A t \in DOMAIN record \ todo : UpToDate(t)

(* A failure on file is one of the binary that last used the directory,     *)
(* unless the run is about to attempt it again.                             *)
Current(r) == r.fuzzed \/ r.bin = producer
BinaryInv ==
  Uninterrupted /\ ~missed =>
    /\ Idle \/ stage = "reporting" => \A t \in DOMAIN record : Current(record[t])
    /\ stage \in {"prepared", "discovered"} /\ ~incompatible =>
         \A t \in DOMAIN record : Current(record[t])
    /\ stage = "phase1" => \A t \in DOMAIN record \ (todo \cup DOMAIN upgrade) : Current(record[t])
    /\ stage = "phase2" => \A t \in DOMAIN record \ todo : Current(record[t])

(* What waits for phase 2 gets there unless the run is stopped or the force *)
(* flag cleared.                                                            *)
Unhindered == Faults \cap {"stop", "toggle"} = {}
UpgradeInv ==
  Unhindered =>
    /\ ~Idle => ~stopped
    /\ stage = "phase1" => (DOMAIN upgrade # {} => live_force) /\ \A t \in DOMAIN upgrade : ~upgrade[t].fuzzed

(* A run on the work of another binary. *)
OldInv ==
  Unhindered /\ incompatible =>
    /\ stage \in {"phase1", "phase2", "reporting"} => \A t \in DOMAIN resumed : resumed[t].fuzzed
    /\ stage \in {"phase1", "reporting"} =>
         \A t \in DOMAIN results : results[t].fuzzed \/ results[t].bin = now.bin
    /\ stage = "phase2" =>
         /\ \A t \in DOMAIN results :
              \/ results[t].fuzzed \/ results[t].bin = now.bin
              \/ t \in todo \/ t \in DOMAIN forced_results
         /\ \A t \in DOMAIN forced_results : forced_results[t].bin = now.bin

-----------------------------------------------------------------------------
(* Partial functions. *)

LEMMA PutIs ==
  ASSUME NEW f, NEW t, NEW r
  PROVE  /\ DOMAIN Put(f, t, r) = DOMAIN f \cup {t}
         /\ Put(f, t, r)[t] = r
         /\ \A u \in DOMAIN f : u # t => Put(f, t, r)[u] = f[u]
  BY DEF Put

LEMMA UnionIs ==
  ASSUME NEW f, NEW g
  PROVE  /\ DOMAIN Union(f, g) = DOMAIN f \cup DOMAIN g
         /\ \A u \in DOMAIN g : Union(f, g)[u] = g[u]
         /\ \A u \in DOMAIN f : u \notin DOMAIN g => Union(f, g)[u] = f[u]
  BY DEF Union

LEMMA RestrictIs ==
  ASSUME NEW f, NEW S
  PROVE  DOMAIN Restrict(f, S) = S /\ \A u \in S : Restrict(f, S)[u] = f[u]
  BY DEF Restrict

LEMMA PartialOperators ==
  ASSUME NEW T, NEW f, NEW g, IsPartial(f, T), IsPartial(g, T)
  PROVE  /\ IsPartial(Union(f, g), T)
         /\ \A t \in Targets : \A r \in T : IsPartial(Put(f, t, r), T)
         /\ \A S \in SUBSET DOMAIN f : IsPartial(Restrict(f, S), T)
  <1>1. IsPartial(Union(f, g), T)
    <2> DEFINE h == Union(f, g)
    <2>1. /\ DOMAIN h = DOMAIN f \cup DOMAIN g
          /\ \A u \in DOMAIN g : h[u] = g[u]
          /\ \A u \in DOMAIN f : u \notin DOMAIN g => h[u] = f[u]
      BY UnionIs
    <2> HIDE DEF h
    <2>2. IsPartial(h, T)
      BY <2>1 DEF IsPartial
    <2> QED
      BY <2>2 DEF h
  <1>2. ASSUME NEW t \in Targets, NEW r \in T PROVE IsPartial(Put(f, t, r), T)
    <2> DEFINE h == Put(f, t, r)
    <2>1. /\ DOMAIN h = DOMAIN f \cup {t} /\ h[t] = r
          /\ \A u \in DOMAIN f : u # t => h[u] = f[u]
      BY DEF Put
    <2> HIDE DEF h
    <2>2. IsPartial(h, T)
      BY <2>1 DEF IsPartial
    <2> QED
      BY <2>2 DEF h
  <1>3. ASSUME NEW S \in SUBSET DOMAIN f PROVE IsPartial(Restrict(f, S), T)
    BY RestrictIs DEF IsPartial
  <1> QED
    BY <1>1, <1>2, <1>3

LEMMA NothingIsPartial == ASSUME NEW T PROVE IsPartial(NoResults, T) /\ DOMAIN NoResults = {}
  BY DEF NoResults, IsPartial

-----------------------------------------------------------------------------
(* The steps. *)

(* An edit advances one identity of the world by one. *)
LEMMA EditIs ==
  ASSUME TypeOK, Edit
  PROVE  /\ edits < MaxEdits /\ edits' = edits + 1
         /\ Idle \/ ("edit_running" \in Faults /\ Sweeping)
         /\ now' \in [ctx : Nat, src : [Targets -> Nat], bin : Nat]
         /\ now.ctx <= now'.ctx /\ now'.ctx <= now.ctx + 1
         /\ now.bin <= now'.bin /\ now'.bin <= now.bin + 1
         /\ ~Idle => now'.bin = now.bin
         /\ \A t \in Targets : now.src[t] <= now'.src[t] /\ now'.src[t] <= now.src[t] + 1
         /\ UNCHANGED <<disk, stage, choice, sweep, flags, history>>
  <1>0. /\ now \in [ctx : Nat, src : [Targets -> Nat], bin : Nat]
        /\ now.ctx \in Nat /\ now.bin \in Nat /\ now.src \in [Targets -> Nat]
    BY ResumeAssumption DEF TypeOK, Version
  <1>1. CASE now' = [now EXCEPT !.ctx = @ + 1]
    BY <1>0, <1>1 DEF Edit
  <1>2. ASSUME NEW t \in Targets, now' = [now EXCEPT !.src[t] = @ + 1]
        PROVE  /\ now' \in [ctx : Nat, src : [Targets -> Nat], bin : Nat]
               /\ now'.ctx = now.ctx /\ now'.bin = now.bin
               /\ now'.src = [now.src EXCEPT ![t] = @ + 1]
    <2> DEFINE s == [now.src EXCEPT ![t] = @ + 1]
    <2>1. s \in [Targets -> Nat]
      BY <1>0
    <2>2. now' = [now EXCEPT !.src = s]
      BY <1>2, Zenon
    <2> HIDE DEF s
    <2>3. /\ now' \in [ctx : Nat, src : [Targets -> Nat], bin : Nat]
          /\ now'.ctx = now.ctx /\ now'.bin = now.bin /\ now'.src = s
      BY <1>0, <2>1, <2>2
    <2> QED
      BY <2>3 DEF s
  <1>3. CASE Idle /\ now' = [now EXCEPT !.bin = @ + 1]
    BY <1>0, <1>3 DEF Edit
  <1>4. ASSUME NEW t \in Targets, now' = [now EXCEPT !.src[t] = @ + 1]
        PROVE  \A u \in Targets : now.src[u] <= now'.src[u] /\ now'.src[u] <= now.src[u] + 1
    BY <1>0, <1>2, <1>4
  <1> QED
    BY <1>0, <1>1, <1>2, <1>3, <1>4 DEF Edit

(* An attempt of either phase. *)
LEMMA OutcomeIs ==
  ASSUME TypeOK, NEW t \in Targets, NEW fuzzed \in BOOLEAN, NEW forced \in BOOLEAN
  PROVE  /\ Outcome(t, fuzzed, forced) \in Result
         /\ Outcome(t, fuzzed, forced).fuzzed = fuzzed
         /\ Outcome(t, fuzzed, forced).forced = forced
         /\ Outcome(t, fuzzed, forced).ctx = now.ctx
         /\ Outcome(t, fuzzed, forced).src = now.src[t]
         /\ Outcome(t, fuzzed, forced).bin = now.bin
         /\ Stamp(t) \in [ctx : Version, src : Version, bin : Version]
         /\ Stamp(t).ctx = now.ctx /\ Stamp(t).src = now.src[t] /\ Stamp(t).bin = now.bin
  BY DEF TypeOK, Outcome, Result, Stamp

LEMMA PersistIs ==
  ASSUME TypeOK, NEW t \in Targets, NEW r \in Result, Persist(t, r)
  PROVE  /\ record' = record \/ record' = Put(record, t, r)
         /\ ~missed' => ~missed /\ record' = Put(record, t, r)
         /\ missed' \in BOOLEAN
         /\ log' = log \cup {<<t, Stamp(t)>>}
         /\ UNCHANGED <<fp, files, producer>>
         /\ DOMAIN record \subseteq DOMAIN record'
         /\ \A u \in DOMAIN record : u # t => record'[u] = record[u]
         /\ IsPartial(record', Result)
  <1>1. /\ record' = record \/ record' = Put(record, t, r)
        /\ ~missed' => ~missed /\ record' = Put(record, t, r)
        /\ missed' \in BOOLEAN
        /\ log' = log \cup {<<t, Stamp(t)>>}
        /\ UNCHANGED <<fp, files, producer>>
    BY DEF Persist, Written, TypeOK
  <1>2. IsPartial(record, Result)
    BY DEF TypeOK
  <1> DEFINE h == Put(record, t, r)
  <1>3. /\ DOMAIN h = DOMAIN record \cup {t}
        /\ \A u \in DOMAIN record : u # t => h[u] = record[u]
    BY DEF Put
  <1>4. IsPartial(h, Result)
    BY <1>2, PartialOperators
  <1>5. record' = record \/ record' = h
    BY <1>1
  <1> HIDE DEF h
  <1>6. /\ DOMAIN record \subseteq DOMAIN record'
        /\ \A u \in DOMAIN record : u # t => record'[u] = record[u]
    BY <1>3, <1>5
  <1>7. IsPartial(record', Result)
    BY <1>2, <1>4, <1>5, Zenon
  <1> QED
    BY <1>1, <1>6, <1>7

LEMMA ResumeTypeNext == TypeOK /\ VersionInv /\ [Next]_vars => TypeOK'
  <1> SUFFICES ASSUME TypeOK, VersionInv, [Next]_vars
               PROVE  TypeOK'
    OBVIOUS
  <1> USE ResumeAssumption DEF world, disk, choice, sweep, flags, history
  <1>1. ASSUME Edit PROVE TypeOK'
    <2>1. now' \in [ctx : Version, src : [Targets -> Version], bin : Version]
      <3>1. /\ now' \in [ctx : Nat, src : [Targets -> Nat], bin : Nat]
            /\ now'.ctx \in 1 .. MaxEdits + 1 /\ now'.bin \in 1 .. MaxEdits + 1
            /\ \A t \in Targets : now'.src[t] \in 1 .. MaxEdits + 1
        <4>1. /\ now.ctx \in 1 .. MaxEdits + 1 /\ now.bin \in 1 .. MaxEdits + 1
              /\ now.src \in [Targets -> 1 .. MaxEdits + 1] /\ edits \in Nat
          BY DEF TypeOK, Version
        <4>2. now' \in [ctx : Nat, src : [Targets -> Nat], bin : Nat]
          BY <1>1, EditIs
        <4>3. now'.ctx \in Nat /\ now'.bin \in Nat /\ \A t \in Targets : now'.src[t] \in Nat
          BY <4>2
        <4> QED
          BY <1>1, <4>1, <4>2, <4>3, EditIs DEF VersionInv
      <3> QED
        BY <3>1 DEF Version
    <2> QED
      BY <1>1, <2>1, EditIs DEF TypeOK
  <1>2. ASSUME NEW resume \in BOOLEAN, NEW force \in BOOLEAN, NEW cache \in BOOLEAN,
               StartRun(resume, force, cache)
        PROVE  TypeOK'
    <2>1. \A f \in {resumed', upgrade', results', forced_results'} : IsPartial(f, Result)
      BY <1>2, NothingIsPartial DEF StartRun
    <2>2. /\ opts' \in [resume : BOOLEAN, force : BOOLEAN, cache : BOOLEAN]
          /\ scope' \in [published : BOOLEAN, unchanged : SUBSET Targets]
          /\ incompatible' \in BOOLEAN /\ live_force' \in BOOLEAN /\ stopped' \in BOOLEAN
      BY <1>2 DEF StartRun
    <2> QED
      BY <1>2, <2>1, <2>2 DEF TypeOK, StartRun
  <1>3. ASSUME Discover PROVE TypeOK'
    <2>1. IsPartial(files', Version) /\ missed' \in BOOLEAN
      BY <1>3 DEF TypeOK, Discover, Written, IsPartial
    <2>2. scope' \in [published : BOOLEAN, unchanged : SUBSET Targets]
      <3>1. publish \subseteq Targets
        BY DEF publish, TypeOK, IsPartial
      <3>2. scope' = scope \/ scope' = [published |-> TRUE, unchanged |-> publish]
        BY <1>3 DEF Discover
      <3>3. scope \in [published : BOOLEAN, unchanged : SUBSET Targets]
        BY DEF TypeOK
      <3>4. [published |-> TRUE, unchanged |-> publish] \in [published : BOOLEAN, unchanged : SUBSET Targets]
        BY <3>1
      <3> QED
        BY <3>2, <3>3, <3>4
    <2> QED
      BY <1>3, <2>1, <2>2 DEF TypeOK, Discover
  <1>4. ASSUME Select PROVE TypeOK'
    <2> DEFINE known == {t \in DOMAIN record :
                           opts.resume /\ build_context_unchanged /\ file_unchanged(t)}
    <2> DEFINE stale == {t \in known : Reattempt(record[t])}
    <2> DEFINE waits == {t \in stale : ~record[t].forced /\ opts.force /\ ~record[t].fuzzed}
    <2>1. /\ resumed' = Restrict(record, known \ stale) /\ upgrade' = Restrict(record, waits)
          /\ todo' = Targets \ ((known \ stale) \cup waits)
      BY <1>4 DEF Select, Remaining
    <2>2. IsPartial(resumed', Result) /\ IsPartial(upgrade', Result)
      BY <2>1, PartialOperators DEF TypeOK
    <2>3. fp' \in {0} \cup Version /\ missed' \in BOOLEAN
      BY <1>4 DEF Select, TypeOK, Written, FingerprintNow, build_context_fingerprint
    <2> QED
      BY <1>4, <2>1, <2>2, <2>3 DEF TypeOK, Select
  <1>5. ASSUME NEW t \in Targets, Attempt(t) PROVE TypeOK'
    <2>1. PICK fuzzed \in BOOLEAN :
            results' = Put(results, t, Outcome(t, fuzzed, FALSE)) /\ Persist(t, Outcome(t, fuzzed, FALSE))
      BY <1>5 DEF Attempt
    <2>2. IsPartial(results', Result)
      BY <2>1, OutcomeIs, PartialOperators DEF TypeOK
    <2>3. Outcome(t, fuzzed, FALSE) \in Result /\ Stamp(t) \in [ctx : Version, src : Version, bin : Version]
      BY OutcomeIs
    <2>4. /\ IsPartial(record', Result) /\ missed' \in BOOLEAN
          /\ log' = log \cup {<<t, Stamp(t)>>} /\ UNCHANGED <<fp, files, producer>>
      BY <2>1, <2>3, PersistIs
    <2>5. log' \subseteq Targets \X [ctx : Version, src : Version, bin : Version]
      BY <2>3, <2>4 DEF TypeOK
    <2> QED
      BY <1>5, <2>2, <2>4, <2>5 DEF TypeOK, Attempt
  <1>6. ASSUME NEW t \in Targets, AttemptForced(t) PROVE TypeOK'
    <2>1. PICK fuzzed \in BOOLEAN :
            forced_results' = Put(forced_results, t, Outcome(t, fuzzed, TRUE)) /\ Persist(t, Outcome(t, fuzzed, TRUE))
      BY <1>6 DEF AttemptForced
    <2>2. IsPartial(forced_results', Result)
      BY <2>1, OutcomeIs, PartialOperators DEF TypeOK
    <2>3. Outcome(t, fuzzed, TRUE) \in Result /\ Stamp(t) \in [ctx : Version, src : Version, bin : Version]
      BY OutcomeIs
    <2>4. /\ IsPartial(record', Result) /\ missed' \in BOOLEAN
          /\ log' = log \cup {<<t, Stamp(t)>>} /\ UNCHANGED <<fp, files, producer>>
      BY <2>1, <2>3, PersistIs
    <2>5. log' \subseteq Targets \X [ctx : Version, src : Version, bin : Version]
      BY <2>3, <2>4 DEF TypeOK
    <2> QED
      BY <1>6, <2>2, <2>4, <2>5 DEF TypeOK, AttemptForced
  <1>7. ASSUME EndPhase1 PROVE TypeOK'
    <2>1. IsPartial(results', Result)
      BY <1>7, PartialOperators DEF TypeOK, EndPhase1
    <2>2. todo' \subseteq Targets /\ stage' \in {"phase2", "reporting"}
      BY <1>7, <2>1 DEF EndPhase1, Retry, IsPartial
    <2> QED
      BY <1>7, <2>1, <2>2 DEF TypeOK, EndPhase1
  <1>8. ASSUME Finish PROVE TypeOK'
    <2>1. IsPartial(results', Result)
      BY <1>8, PartialOperators DEF TypeOK, Finish, merge_forced_retry
    <2> QED
      BY <1>8, <2>1 DEF TypeOK, Finish
  <1>9. ASSUME Toggle PROVE TypeOK'
    BY <1>9 DEF TypeOK, Toggle
  <1>10. ASSUME Stop PROVE TypeOK'
    BY <1>10 DEF TypeOK, Stop
  <1>11. ASSUME Kill PROVE TypeOK'
    BY <1>11 DEF TypeOK, Kill
  <1>12. ASSUME UNCHANGED vars PROVE TypeOK'
    BY <1>12 DEF TypeOK, vars
  <1> QED
    BY <1>1, <1>2, <1>3, <1>4, <1>5, <1>6, <1>7, <1>8, <1>9, <1>10, <1>11, <1>12 DEF Next

(* g is f with r at t. *)
Extended(g, f, t, r) ==
  /\ DOMAIN g = DOMAIN f \cup {t} /\ g[t] = r
  /\ \A u \in DOMAIN f : u # t => g[u] = f[u]

(* The result of an attempt made now, and its place on disk. *)
MadeNow(t, r) == r.ctx = now.ctx /\ r.src = now.src[t] /\ r.bin = now.bin
OnDisk(t, r) ==
  /\ record' = record \/ Extended(record', record, t, r)
  /\ ~missed' => ~missed /\ Extended(record', record, t, r)
  /\ log' = log \cup {<<t, Stamp(t)>>}
  /\ UNCHANGED <<fp, files, producer>>

LEMMA AttemptIs ==
  ASSUME TypeOK, NEW t \in Targets, Attempt(t)
  PROVE  /\ stage = "phase1" /\ t \in todo /\ todo' = todo \ {t} /\ ~stopped
         /\ \E r \in Result : /\ ~r.forced /\ MadeNow(t, r)
                              /\ Extended(results', results, t, r) /\ OnDisk(t, r)
         /\ UNCHANGED <<now, edits, stage, opts, incompatible, scope, resumed, upgrade,
                        forced_results, live_force, stopped>>
  <1>1. PICK fuzzed \in BOOLEAN :
          results' = Put(results, t, Outcome(t, fuzzed, FALSE)) /\ Persist(t, Outcome(t, fuzzed, FALSE))
    BY DEF Attempt
  <1> DEFINE r == Outcome(t, fuzzed, FALSE)
  <1>2. r \in Result /\ ~r.forced /\ MadeNow(t, r)
    BY OutcomeIs DEF MadeNow
  <1>3. results' = Put(results, t, r) /\ Persist(t, r)
    BY <1>1
  <1> HIDE DEF r
  <1>4. Extended(results', results, t, r)
    BY <1>3 DEF Put, Extended
  <1>5. OnDisk(t, r)
    <2>1. Extended(Put(record, t, r), record, t, r)
      BY DEF Put, Extended
    <2> QED
      BY <1>2, <1>3, <2>1, PersistIs DEF OnDisk
  <1> QED
    BY <1>2, <1>4, <1>5 DEF Attempt, world, choice, flags

LEMMA AttemptForcedIs ==
  ASSUME TypeOK, NEW t \in Targets, AttemptForced(t)
  PROVE  /\ stage = "phase2" /\ t \in todo /\ todo' = todo \ {t} /\ ~stopped
         /\ \E r \in Result : /\ MadeNow(t, r) /\ OnDisk(t, r)
                              /\ Extended(forced_results', forced_results, t, r)
         /\ UNCHANGED <<now, edits, stage, opts, incompatible, scope, resumed, upgrade,
                        results, live_force, stopped>>
  <1>1. PICK fuzzed \in BOOLEAN :
          /\ forced_results' = Put(forced_results, t, Outcome(t, fuzzed, TRUE))
          /\ Persist(t, Outcome(t, fuzzed, TRUE))
    BY DEF AttemptForced
  <1> DEFINE r == Outcome(t, fuzzed, TRUE)
  <1>2. r \in Result /\ MadeNow(t, r)
    BY OutcomeIs DEF MadeNow
  <1>3. forced_results' = Put(forced_results, t, r) /\ Persist(t, r)
    BY <1>1
  <1> HIDE DEF r
  <1>4. Extended(forced_results', forced_results, t, r)
    BY <1>3 DEF Put, Extended
  <1>5. OnDisk(t, r)
    <2>1. Extended(Put(record, t, r), record, t, r)
      BY DEF Put, Extended
    <2> QED
      BY <1>2, <1>3, <2>1, PersistIs DEF OnDisk
  <1> QED
    BY <1>2, <1>4, <1>5 DEF AttemptForced, world, choice, flags

(* What the resume block decides about each target. *)
Known(t) == opts.resume /\ fp = now.ctx /\ file_unchanged(t)
LEMMA SelectIs ==
  ASSUME TypeOK, Select
  PROVE  /\ stage = "discovered" /\ stage' = "phase1"
         /\ DOMAIN resumed' \cup DOMAIN upgrade' \subseteq DOMAIN record
         /\ DOMAIN resumed' \cap DOMAIN upgrade' = {}
         /\ todo' = Targets \ (DOMAIN resumed' \cup DOMAIN upgrade')
         /\ \A t \in DOMAIN resumed' :
              /\ resumed'[t] = record[t] /\ Known(t)
              /\ incompatible => record[t].fuzzed
              /\ ~opts.force => ~record[t].forced
         /\ \A t \in DOMAIN upgrade' :
              /\ upgrade'[t] = record[t] /\ Known(t)
              /\ opts.force /\ ~record[t].forced /\ ~record[t].fuzzed
         /\ \A t \in DOMAIN record : Known(t) /\ t \in todo' =>
              (incompatible /\ ~record[t].fuzzed) \/ (record[t].forced /\ ~opts.force)
         /\ fp' = fp \/ fp' = now.ctx
         /\ ~missed' => ~missed /\ fp' = now.ctx
         /\ live_force' = opts.force
         /\ UNCHANGED <<now, edits, record, files, producer, opts, incompatible, scope,
                        results, forced_results, stopped, log>>
  <1> DEFINE known == {t \in DOMAIN record :
                         opts.resume /\ build_context_unchanged /\ file_unchanged(t)}
  <1> DEFINE stale == {t \in known : Reattempt(record[t])}
  <1> DEFINE waits == {t \in stale : ~record[t].forced /\ opts.force /\ ~record[t].fuzzed}
  <1>1. /\ resumed' = Restrict(record, known \ stale) /\ upgrade' = Restrict(record, waits)
        /\ todo' = Targets \ ((known \ stale) \cup waits)
    BY DEF Select, Remaining
  <1>2. \A t \in DOMAIN record : t \in known <=> Known(t)
    BY DEF Known, build_context_unchanged, build_context_fingerprint
  <1>3. known \subseteq DOMAIN record /\ stale \subseteq known /\ waits \subseteq stale
    OBVIOUS
  <1>4. \A t \in DOMAIN record : record[t] \in Result
    BY DEF TypeOK, IsPartial
  <1>5. \A t \in known : t \notin stale =>
          (incompatible => record[t].fuzzed) /\ (~opts.force => ~record[t].forced)
    BY DEF Reattempt, resume_should_reattempt
  <1>6. \A t \in stale \ waits :
          (incompatible /\ ~record[t].fuzzed) \/ (record[t].forced /\ ~opts.force)
    BY DEF Reattempt, resume_should_reattempt
  <1>7. \A t \in waits : opts.force /\ ~record[t].forced /\ ~record[t].fuzzed
    OBVIOUS
  <1> HIDE DEF known, stale, waits
  <1>8. /\ DOMAIN resumed' = known \ stale /\ \A t \in known \ stale : resumed'[t] = record[t]
        /\ DOMAIN upgrade' = waits /\ \A t \in waits : upgrade'[t] = record[t]
    BY <1>1, RestrictIs
  <1>9. /\ fp' = fp \/ fp' = now.ctx
        /\ ~missed' => ~missed /\ fp' = now.ctx
    BY DEF Select, Written, FingerprintNow, build_context_fingerprint, TypeOK
  <1> QED
    BY <1>1, <1>2, <1>3, <1>5, <1>6, <1>7, <1>8, <1>9 DEF Select, world

LEMMA EndPhase1Is ==
  ASSUME TypeOK, EndPhase1
  PROVE  /\ stage = "phase1" /\ (todo = {} \/ stopped)
         /\ DOMAIN results' = DOMAIN results \cup DOMAIN upgrade
         /\ \A t \in DOMAIN upgrade : results'[t] = upgrade[t]
         /\ \A t \in DOMAIN results : t \notin DOMAIN upgrade => results'[t] = results[t]
         /\ \/ stage' = "phase2" /\ todo' = Failed'
            \/ /\ stage' = "reporting" /\ todo' = {}
               /\ ~live_force \/ stopped \/ Failed' = {}
         /\ UNCHANGED <<now, edits, record, fp, files, producer, opts, incompatible, scope,
                        resumed, upgrade, forced_results, live_force, stopped, log, missed>>
  <1>1. results' = Union(results, upgrade)
    BY DEF EndPhase1
  <1>2. Failed' = Retry(results')
    BY DEF Failed, Retry
  <1>3. /\ DOMAIN results' = DOMAIN results \cup DOMAIN upgrade
        /\ \A t \in DOMAIN upgrade : results'[t] = upgrade[t]
        /\ \A t \in DOMAIN results : t \notin DOMAIN upgrade => results'[t] = results[t]
    BY <1>1 DEF Union
  <1>4. \/ stage' = "phase2" /\ todo' = Failed'
        \/ /\ stage' = "reporting" /\ todo' = {}
           /\ ~live_force \/ stopped \/ Failed' = {}
    BY <1>1, <1>2 DEF EndPhase1
  <1> QED
    BY <1>3, <1>4 DEF EndPhase1, world, disk, choice, flags, history

LEMMA FinishIs ==
  ASSUME TypeOK, Finish
  PROVE  /\ (stage = "phase2" /\ (todo = {} \/ stopped)) \/ stage = "reporting"
         /\ stage' = "done"
         /\ DOMAIN results' = DOMAIN results \cup DOMAIN forced_results \cup DOMAIN resumed
         /\ \A t \in DOMAIN resumed : results'[t] = resumed[t]
         /\ \A t \in DOMAIN forced_results :
              t \notin DOMAIN resumed => results'[t] = forced_results[t]
         /\ \A t \in DOMAIN results :
              t \notin DOMAIN resumed /\ t \notin DOMAIN forced_results => results'[t] = results[t]
         /\ UNCHANGED <<now, edits, record, fp, files, producer, opts, incompatible, scope,
                        resumed, upgrade, todo, forced_results, live_force, stopped, log, missed>>
  <1> DEFINE merged == Union(results, forced_results)
  <1>1. results' = Union(merged, resumed)
    BY DEF Finish, merge_forced_retry
  <1>2. /\ DOMAIN merged = DOMAIN results \cup DOMAIN forced_results
        /\ \A t \in DOMAIN forced_results : merged[t] = forced_results[t]
        /\ \A t \in DOMAIN results : t \notin DOMAIN forced_results => merged[t] = results[t]
    BY UnionIs
  <1> HIDE DEF merged
  <1>3. /\ DOMAIN results' = DOMAIN merged \cup DOMAIN resumed
        /\ \A t \in DOMAIN resumed : results'[t] = resumed[t]
        /\ \A t \in DOMAIN merged : t \notin DOMAIN resumed => results'[t] = merged[t]
    BY <1>1 DEF Union
  <1> QED
    BY <1>2, <1>3 DEF Finish, world, disk, choice, flags, history

-----------------------------------------------------------------------------
(* Places, marks and files. *)

LEMMA PlacesNext == TypeOK /\ PlacesInv /\ [Next]_vars => PlacesInv'
  <1> SUFFICES ASSUME TypeOK, PlacesInv, [Next]_vars
               PROVE  PlacesInv'
    OBVIOUS
  <1> USE NothingIsPartial DEF PlacesInv, Failed, Idle, Sweeping, world, disk, choice, sweep, flags, history
  <1>1. ASSUME Edit PROVE PlacesInv'
    BY <1>1, EditIs DEF Extended, OnDisk
  <1>2. ASSUME NEW resume \in BOOLEAN, NEW force \in BOOLEAN, NEW cache \in BOOLEAN, StartRun(resume, force, cache) PROVE PlacesInv'
    BY <1>2 DEF StartRun, Extended, OnDisk
  <1>3. ASSUME Discover PROVE PlacesInv'
    BY <1>3 DEF Discover, Extended, OnDisk
  <1>4. ASSUME Select PROVE PlacesInv'
    BY <1>4, SelectIs DEF Extended, OnDisk
  <1>5. ASSUME NEW t \in Targets, Attempt(t) PROVE PlacesInv'
    BY <1>5, AttemptIs DEF Extended, OnDisk
  <1>6. ASSUME EndPhase1 PROVE PlacesInv'
    BY <1>6, EndPhase1Is DEF Extended, OnDisk
  <1>7. ASSUME Finish PROVE PlacesInv'
    BY <1>7, FinishIs DEF Extended, OnDisk
  <1>8. ASSUME Toggle PROVE PlacesInv'
    BY <1>8 DEF Toggle, Extended, OnDisk
  <1>9. ASSUME Stop PROVE PlacesInv'
    BY <1>9 DEF Stop, Extended, OnDisk
  <1>10. ASSUME Kill PROVE PlacesInv'
    BY <1>10 DEF Kill, Extended, OnDisk
  <1>11. ASSUME UNCHANGED vars PROVE PlacesInv'
    BY <1>11 DEF vars, Extended, OnDisk
  <1>21. ASSUME NEW t \in Targets, AttemptForced(t) PROVE PlacesInv'
    <2>1. PICK r \in Result : /\ MadeNow(t, r) /\ OnDisk(t, r)
                              /\ Extended(forced_results', forced_results, t, r)
      BY <1>21, AttemptForcedIs
    <2>2. /\ stage = "phase2" /\ t \in todo /\ todo' = todo \ {t}
          /\ UNCHANGED <<now, edits, stage, opts, incompatible, scope, resumed, upgrade,
                         results, live_force, stopped>>
      BY <1>21, AttemptForcedIs
    <2> QED
      BY <2>1, <2>2 DEF Extended, OnDisk
  <1> QED
    BY <1>1, <1>2, <1>3, <1>4, <1>5, <1>6, <1>7, <1>8, <1>9, <1>10, <1>11, <1>21 DEF Next

LEMMA ForcedNext == TypeOK /\ PlacesInv /\ ForcedInv /\ [Next]_vars => ForcedInv'
  <1> SUFFICES ASSUME TypeOK, PlacesInv, ForcedInv, [Next]_vars
               PROVE  ForcedInv'
    OBVIOUS
  <1> USE NothingIsPartial DEF PlacesInv, ForcedInv, UnforcedReportsUnforced, Idle, Sweeping, world, disk, choice, sweep, flags, history
  <1>1. ASSUME Edit PROVE ForcedInv'
    BY <1>1, EditIs DEF Extended, OnDisk
  <1>2. ASSUME NEW resume \in BOOLEAN, NEW force \in BOOLEAN, NEW cache \in BOOLEAN, StartRun(resume, force, cache) PROVE ForcedInv'
    BY <1>2 DEF StartRun, Extended, OnDisk
  <1>3. ASSUME Discover PROVE ForcedInv'
    BY <1>3 DEF Discover, Extended, OnDisk
  <1>4. ASSUME Select PROVE ForcedInv'
    BY <1>4, SelectIs DEF Extended, OnDisk
  <1>5. ASSUME NEW t \in Targets, AttemptForced(t) PROVE ForcedInv'
    BY <1>5, AttemptForcedIs DEF Extended, OnDisk
  <1>6. ASSUME EndPhase1 PROVE ForcedInv'
    BY <1>6, EndPhase1Is DEF Extended, OnDisk
  <1>7. ASSUME Finish PROVE ForcedInv'
    BY <1>7, FinishIs DEF Extended, OnDisk
  <1>8. ASSUME Toggle PROVE ForcedInv'
    BY <1>8 DEF Toggle, Extended, OnDisk
  <1>9. ASSUME Stop PROVE ForcedInv'
    BY <1>9 DEF Stop, Extended, OnDisk
  <1>10. ASSUME Kill PROVE ForcedInv'
    BY <1>10 DEF Kill, Extended, OnDisk
  <1>11. ASSUME UNCHANGED vars PROVE ForcedInv'
    BY <1>11 DEF vars, Extended, OnDisk
  <1>20. ASSUME NEW t \in Targets, Attempt(t) PROVE ForcedInv'
    <2>1. PICK r \in Result : /\ ~r.forced /\ MadeNow(t, r)
                              /\ Extended(results', results, t, r) /\ OnDisk(t, r)
      BY <1>20, AttemptIs
    <2>2. /\ stage = "phase1" /\ t \in todo /\ todo' = todo \ {t}
          /\ UNCHANGED <<now, edits, stage, opts, incompatible, scope, resumed, upgrade,
                         forced_results, live_force, stopped>>
      BY <1>20, AttemptIs
    <2> QED
      BY <2>1, <2>2 DEF Extended, OnDisk
  <1> QED
    BY <1>1, <1>2, <1>3, <1>4, <1>5, <1>6, <1>7, <1>8, <1>9, <1>10, <1>11, <1>20 DEF Next

LEMMA AgreeNext == TypeOK /\ PlacesInv /\ AgreeInv /\ [Next]_vars => AgreeInv'
  <1> SUFFICES ASSUME TypeOK, PlacesInv, AgreeInv, [Next]_vars
               PROVE  AgreeInv'
    OBVIOUS
  <1> USE NothingIsPartial DEF PlacesInv, AgreeInv, Agrees, ReportMatchesRecords, Failed, Idle, Sweeping, world, disk, choice, sweep, flags, history
  <1>1. ASSUME Edit PROVE AgreeInv'
    BY <1>1, EditIs DEF Extended, OnDisk
  <1>2. ASSUME NEW resume \in BOOLEAN, NEW force \in BOOLEAN, NEW cache \in BOOLEAN, StartRun(resume, force, cache) PROVE AgreeInv'
    BY <1>2 DEF StartRun, Extended, OnDisk
  <1>3. ASSUME Discover PROVE AgreeInv'
    BY <1>3 DEF Discover, Extended, OnDisk
  <1>4. ASSUME Select PROVE AgreeInv'
    BY <1>4, SelectIs DEF Extended, OnDisk
  <1>5. ASSUME NEW t \in Targets, AttemptForced(t) PROVE AgreeInv'
    BY <1>5, AttemptForcedIs DEF Extended, OnDisk
  <1>6. ASSUME EndPhase1 PROVE AgreeInv'
    BY <1>6, EndPhase1Is DEF Extended, OnDisk
  <1>7. ASSUME Finish PROVE AgreeInv'
    BY <1>7, FinishIs DEF Extended, OnDisk
  <1>8. ASSUME Toggle PROVE AgreeInv'
    BY <1>8 DEF Toggle, Extended, OnDisk
  <1>9. ASSUME Stop PROVE AgreeInv'
    BY <1>9 DEF Stop, Extended, OnDisk
  <1>10. ASSUME Kill PROVE AgreeInv'
    BY <1>10 DEF Kill, Extended, OnDisk
  <1>11. ASSUME UNCHANGED vars PROVE AgreeInv'
    BY <1>11 DEF vars, Extended, OnDisk
  <1>20. ASSUME NEW t \in Targets, Attempt(t) PROVE AgreeInv'
    <2>1. PICK r \in Result : /\ ~r.forced /\ MadeNow(t, r)
                              /\ Extended(results', results, t, r) /\ OnDisk(t, r)
      BY <1>20, AttemptIs
    <2>2. /\ stage = "phase1" /\ t \in todo /\ todo' = todo \ {t}
          /\ UNCHANGED <<now, edits, stage, opts, incompatible, scope, resumed, upgrade,
                         forced_results, live_force, stopped>>
      BY <1>20, AttemptIs
    <2> QED
      BY <2>1, <2>2 DEF Extended, OnDisk
  <1> QED
    BY <1>1, <1>2, <1>3, <1>4, <1>5, <1>6, <1>7, <1>8, <1>9, <1>10, <1>11, <1>20 DEF Next

LEMMA VersionNext == TypeOK /\ VersionInv /\ [Next]_vars => VersionInv'
  <1> SUFFICES ASSUME TypeOK, VersionInv, [Next]_vars
               PROVE  VersionInv'
    OBVIOUS
  <1> USE ResumeAssumption DEF VersionInv, Idle, Sweeping, world, disk, choice, sweep, flags, history
  <1>1. ASSUME NEW resume \in BOOLEAN, NEW force \in BOOLEAN, NEW cache \in BOOLEAN, StartRun(resume, force, cache) PROVE VersionInv'
    BY <1>1 DEF StartRun, Extended, OnDisk, MadeNow, TypeOK, Version, Written
  <1>2. ASSUME Discover PROVE VersionInv'
    BY <1>2 DEF Discover, Extended, OnDisk, MadeNow, TypeOK, Version, Written
  <1>3. ASSUME Select PROVE VersionInv'
    BY <1>3, SelectIs DEF Extended, OnDisk, MadeNow, TypeOK, Version, Written
  <1>4. ASSUME EndPhase1 PROVE VersionInv'
    BY <1>4, EndPhase1Is DEF Extended, OnDisk, MadeNow, TypeOK, Version, Written
  <1>5. ASSUME Finish PROVE VersionInv'
    BY <1>5, FinishIs DEF Extended, OnDisk, MadeNow, TypeOK, Version, Written
  <1>6. ASSUME Toggle PROVE VersionInv'
    BY <1>6 DEF Toggle, Extended, OnDisk, MadeNow, TypeOK, Version, Written
  <1>7. ASSUME Stop PROVE VersionInv'
    BY <1>7 DEF Stop, Extended, OnDisk, MadeNow, TypeOK, Version, Written
  <1>8. ASSUME Kill PROVE VersionInv'
    BY <1>8 DEF Kill, Extended, OnDisk, MadeNow, TypeOK, Version, Written
  <1>9. ASSUME UNCHANGED vars PROVE VersionInv'
    BY <1>9 DEF vars, Extended, OnDisk, MadeNow, TypeOK, Version, Written
  <1>20. ASSUME NEW t \in Targets, Attempt(t) PROVE VersionInv'
    <2>1. PICK r \in Result : /\ ~r.forced /\ MadeNow(t, r)
                              /\ Extended(results', results, t, r) /\ OnDisk(t, r)
      BY <1>20, AttemptIs
    <2>2. /\ stage = "phase1" /\ t \in todo /\ todo' = todo \ {t}
          /\ UNCHANGED <<now, edits, stage, opts, incompatible, scope, resumed, upgrade,
                         forced_results, live_force, stopped>>
      BY <1>20, AttemptIs
    <2> QED
      BY <2>1, <2>2 DEF Extended, OnDisk, MadeNow, TypeOK, Version
  <1>21. ASSUME NEW t \in Targets, AttemptForced(t) PROVE VersionInv'
    <2>1. PICK r \in Result : /\ MadeNow(t, r) /\ OnDisk(t, r)
                              /\ Extended(forced_results', forced_results, t, r)
      BY <1>21, AttemptForcedIs
    <2>2. /\ stage = "phase2" /\ t \in todo /\ todo' = todo \ {t}
          /\ UNCHANGED <<now, edits, stage, opts, incompatible, scope, resumed, upgrade,
                         results, live_force, stopped>>
      BY <1>21, AttemptForcedIs
    <2> QED
      BY <2>1, <2>2 DEF Extended, OnDisk, MadeNow, TypeOK, Version
  <1>22. ASSUME Edit PROVE VersionInv'
    <2>1. /\ now.ctx \in Nat /\ now.bin \in Nat /\ edits \in Nat
          /\ \A t \in Targets : now.src[t] \in Nat
          /\ fp \in Nat /\ producer \in Nat
          /\ DOMAIN files \subseteq Targets /\ \A t \in DOMAIN files : files[t] \in Nat
      BY DEF TypeOK, Version, IsPartial
    <2>2. /\ DOMAIN record \subseteq Targets
          /\ \A t \in DOMAIN record :
               record[t].ctx \in Nat /\ record[t].src \in Nat /\ record[t].bin \in Nat
      BY DEF TypeOK, Version, IsPartial, Result
    <2>3. now'.ctx \in Nat /\ now'.bin \in Nat /\ \A t \in Targets : now'.src[t] \in Nat
      BY <1>22, EditIs
    <2> QED
      BY <1>22, <2>1, <2>2, <2>3, EditIs
  <1> QED
    BY <1>1, <1>2, <1>3, <1>4, <1>5, <1>6, <1>7, <1>8, <1>9, <1>20, <1>21, <1>22 DEF Next

-----------------------------------------------------------------------------
(* Markers, and what was tried before. *)

LEMMA MarkersNext ==
  TypeOK /\ VersionInv /\ MarkersInv /\ [Next]_vars => MarkersInv'
  <1> SUFFICES ASSUME TypeOK, VersionInv, MarkersInv, [Next]_vars,
                      "edit_running" \notin Faults, ~missed'
               PROVE  MarkersInv'
    BY DEF MarkersInv
  <1>a. /\ now.ctx \in Nat /\ now.bin \in Nat /\ fp \in Nat /\ producer \in Nat
        /\ now.src \in [Targets -> Nat] /\ \A t \in DOMAIN files : files[t] \in Nat
        /\ \A e \in log : /\ e[1] \in Targets
                          /\ e[2].ctx \in Nat /\ e[2].src \in Nat /\ e[2].bin \in Nat
    BY DEF TypeOK, Version, IsPartial
  <1> USE <1>a DEF MarkersInv, MarkersCover, Idle, Sweeping, world, disk, choice, sweep, flags, history
  <1>1. ASSUME Edit PROVE MarkersInv'
    BY <1>1, EditIs
  <1>2. ASSUME EndPhase1 PROVE MarkersInv'
    BY <1>2, EndPhase1Is
  <1>3. ASSUME Finish PROVE MarkersInv'
    BY <1>3, FinishIs
  <1>4. ASSUME Toggle PROVE MarkersInv'
    BY <1>4 DEF Toggle
  <1>5. ASSUME Stop PROVE MarkersInv'
    BY <1>5 DEF Stop
  <1>6. ASSUME Kill PROVE MarkersInv'
    BY <1>6 DEF Kill
  <1>7. ASSUME UNCHANGED vars PROVE MarkersInv'
    BY <1>7 DEF vars
  <1>20. ASSUME NEW t \in Targets, Attempt(t) PROVE MarkersInv'
    <2>1. PICK r \in Result : OnDisk(t, r)
      BY <1>20, AttemptIs
    <2>2. stage = "phase1" /\ stage' = stage /\ now' = now
      BY <1>20, AttemptIs
    <2>3. DOMAIN record \subseteq DOMAIN record' /\ t \in DOMAIN record' /\ ~missed
      BY <2>1 DEF OnDisk, Extended
    <2>4. fp' = now.ctx /\ files' = now.src /\ producer' = now.bin /\ UNCHANGED <<fp, files, producer>>
      BY <2>1, <2>2, <2>3 DEF OnDisk, VersionInv
    <2>5. log' = log \cup {<<t, Stamp(t)>>}
      BY <2>1 DEF OnDisk
    <2>6. Stamp(t).ctx = now.ctx /\ Stamp(t).src = now.src[t] /\ Stamp(t).bin = now.bin
      BY DEF Stamp
    <2>7. MarkersCover'
      BY <2>3, <2>4, <2>5, <2>6
    <2> QED
      BY <2>2, <2>4, <2>7
  <1>21. ASSUME NEW t \in Targets, AttemptForced(t) PROVE MarkersInv'
    <2>1. PICK r \in Result : OnDisk(t, r)
      BY <1>21, AttemptForcedIs
    <2>2. stage = "phase2" /\ stage' = stage /\ now' = now
      BY <1>21, AttemptForcedIs
    <2>3. DOMAIN record \subseteq DOMAIN record' /\ t \in DOMAIN record' /\ ~missed
      BY <2>1 DEF OnDisk, Extended
    <2>4. fp' = now.ctx /\ files' = now.src /\ producer' = now.bin /\ UNCHANGED <<fp, files, producer>>
      BY <2>1, <2>2, <2>3 DEF OnDisk, VersionInv
    <2>5. log' = log \cup {<<t, Stamp(t)>>}
      BY <2>1 DEF OnDisk
    <2>6. Stamp(t).ctx = now.ctx /\ Stamp(t).src = now.src[t] /\ Stamp(t).bin = now.bin
      BY DEF Stamp
    <2>7. MarkersCover'
      BY <2>3, <2>4, <2>5, <2>6
    <2> QED
      BY <2>2, <2>4, <2>7
  <1>22. ASSUME Discover PROVE MarkersInv'
    <2>1. /\ files' = now.src /\ ~missed /\ stage' = "discovered"
          /\ UNCHANGED <<now, record, fp, producer, log>>
      BY <1>22 DEF Discover, TypeOK
    <2>2. \A e \in log : e[2].src <= now.src[e[1]]
      BY <2>1 DEF VersionInv
    <2> QED
      BY <2>1, <2>2
  <1>23. ASSUME Select PROVE MarkersInv'
    <2>1. /\ fp' = now.ctx /\ ~missed /\ stage = "discovered" /\ stage' = "phase1"
          /\ UNCHANGED <<now, record, files, producer, log>>
      BY <1>23, SelectIs
    <2>2. \A e \in log : e[2].ctx <= now.ctx
      BY <2>1 DEF VersionInv
    <2> QED
      BY <2>1, <2>2
  <1>24. ASSUME NEW resume \in BOOLEAN, NEW force \in BOOLEAN, NEW cache \in BOOLEAN,
                StartRun(resume, force, cache)
         PROVE  MarkersInv'
    <2>1. /\ producer' = now.bin /\ stage' = "prepared" /\ ~missed
          /\ UNCHANGED <<now, record, fp, files, log>>
      BY <1>24 DEF StartRun
    <2>2. \A e \in log : e[2].bin <= now.bin
      BY <2>1 DEF VersionInv
    <2> QED
      BY <2>1, <2>2
  <1> QED
    BY <1>1, <1>2, <1>3, <1>4, <1>5, <1>6, <1>7, <1>20, <1>21, <1>22, <1>23, <1>24 DEF Next

LEMMA RepeatNext ==
  TypeOK /\ VersionInv /\ MarkersInv /\ RepeatInv /\ [Next]_vars => RepeatInv'
  <1> SUFFICES ASSUME TypeOK, VersionInv, MarkersInv, RepeatInv, [Next]_vars,
                      "edit_running" \notin Faults, ~missed'
               PROVE  RepeatInv'
    BY DEF RepeatInv
  <1>a. /\ now.ctx \in Nat /\ now.bin \in Nat /\ fp \in Nat /\ producer \in Nat
        /\ now.src \in [Targets -> Nat] /\ \A t \in DOMAIN files : files[t] \in Nat
        /\ \A e \in log : /\ e[1] \in Targets
                          /\ e[2].ctx \in Nat /\ e[2].src \in Nat /\ e[2].bin \in Nat
    BY DEF TypeOK, Version, IsPartial
  <1>b. todo \subseteq Targets
    BY DEF TypeOK
  <1> USE <1>a DEF RepeatInv, Idle, Sweeping, world, disk, choice, sweep, flags, history
  <1>1. ASSUME Edit PROVE RepeatInv'
    BY <1>1, EditIs DEF Tried, Stamp
  <1>2. ASSUME NEW t \in Targets, AttemptForced(t) PROVE RepeatInv'
    BY <1>2, AttemptForcedIs DEF Tried, Stamp
  <1>3. ASSUME EndPhase1 PROVE RepeatInv'
    BY <1>3, EndPhase1Is DEF Tried, Stamp
  <1>4. ASSUME Finish PROVE RepeatInv'
    BY <1>4, FinishIs DEF Tried, Stamp
  <1>5. ASSUME Toggle PROVE RepeatInv'
    BY <1>5 DEF Toggle, Tried, Stamp
  <1>6. ASSUME Stop PROVE RepeatInv'
    BY <1>6 DEF Stop, Tried, Stamp
  <1>7. ASSUME Kill PROVE RepeatInv'
    BY <1>7 DEF Kill, Tried, Stamp
  <1>8. ASSUME UNCHANGED vars PROVE RepeatInv'
    BY <1>8 DEF vars, Tried, Stamp
  <1>20. ASSUME NEW t \in Targets, Attempt(t) PROVE RepeatInv'
    <2>1. PICK r \in Result : OnDisk(t, r)
      BY <1>20, AttemptIs
    <2>2. stage = "phase1" /\ todo' = todo \ {t} /\ UNCHANGED <<stage, now, opts>>
      BY <1>20, AttemptIs
    <2>3. Extended(record', record, t, r) /\ ~missed /\ log' = log \cup {<<t, Stamp(t)>>}
      BY <2>1 DEF OnDisk
    <2>4. \A u \in todo' : Tried(u)' => Tried(u) /\ u # t
      BY <2>2, <2>3 DEF Tried, Stamp
    <2>5. \A u \in DOMAIN record : u # t => u \in DOMAIN record' /\ record'[u] = record[u]
      BY <2>3 DEF Extended
    <2> QED
      BY <2>2, <2>3, <2>4, <2>5
  <1>22. ASSUME Discover PROVE RepeatInv'
    <2>1. /\ ~missed /\ stage = "prepared" /\ stage' = "discovered"
          /\ UNCHANGED <<now, log, incompatible>>
          /\ scope' = [published |-> TRUE, unchanged |-> publish]
      BY <1>22 DEF Discover, TypeOK
    <2>2. \A e \in log : e[2].src = now.src[e[1]] => e[1] \in publish
      BY <2>1 DEF MarkersInv, MarkersCover, VersionInv, publish
    <2> QED
      BY <2>1, <2>2
  <1>23. ASSUME Select PROVE RepeatInv'
    <2>1. /\ ~missed /\ stage = "discovered" /\ stage' = "phase1"
          /\ UNCHANGED <<now, record, opts, log, incompatible, scope>>
      BY <1>23, SelectIs
    <2>2. ASSUME opts.resume, NEW t \in todo', Tried(t)
          PROVE  t \in DOMAIN record /\ record[t].forced /\ ~opts.force
      <3>1. PICK e \in log : e[1] = t /\ e[2] = Stamp(t)
        BY <2>2 DEF Tried
      <3>2. t \in Targets /\ e[2].ctx = now.ctx /\ e[2].src = now.src[t] /\ e[2].bin = now.bin
        BY <3>1 DEF Stamp
      <3>3. t \in DOMAIN record /\ fp = now.ctx
        BY <2>1, <3>1, <3>2 DEF MarkersInv, MarkersCover, VersionInv
      <3>4. file_unchanged(t) /\ ~incompatible
        BY <2>1, <3>1, <3>2 DEF file_unchanged
      <3> QED
        BY <1>23, <2>2, <3>3, <3>4, SelectIs DEF Known
    <2>3. \A t \in todo' : Tried(t)' => Tried(t)
      BY <2>1 DEF Tried, Stamp
    <2> QED
      BY <2>1, <2>2, <2>3
  <1>24. ASSUME NEW resume \in BOOLEAN, NEW force \in BOOLEAN, NEW cache \in BOOLEAN,
                StartRun(resume, force, cache)
         PROVE  RepeatInv'
    <2>1. /\ stage' = "prepared" /\ ~missed /\ UNCHANGED <<now, log>>
          /\ incompatible' => producer # now.bin
      BY <1>24 DEF StartRun
    <2>2. producer # now.bin => \A e \in log : e[2].bin # now.bin
      BY <2>1 DEF MarkersInv, MarkersCover, VersionInv
    <2> QED
      BY <2>1, <2>2
  <1> QED
    BY <1>1, <1>2, <1>3, <1>4, <1>5, <1>6, <1>7, <1>8, <1>20, <1>22, <1>23, <1>24 DEF Next

-----------------------------------------------------------------------------
(* Runs that are not interrupted. *)

LEMMA UpgradeNext == TypeOK /\ UpgradeInv /\ [Next]_vars => UpgradeInv'
  <1> SUFFICES ASSUME TypeOK, UpgradeInv, [Next]_vars, Unhindered
               PROVE  UpgradeInv'
    BY DEF UpgradeInv
  <1> USE DEF UpgradeInv, Unhindered, Idle, Sweeping, world, disk, choice, sweep, flags, history
  <1>1. ASSUME Edit PROVE UpgradeInv'
    BY <1>1, EditIs
  <1>2. ASSUME NEW resume \in BOOLEAN, NEW force \in BOOLEAN, NEW cache \in BOOLEAN, StartRun(resume, force, cache) PROVE UpgradeInv'
    BY <1>2 DEF StartRun
  <1>3. ASSUME Discover PROVE UpgradeInv'
    BY <1>3 DEF Discover
  <1>4. ASSUME Select PROVE UpgradeInv'
    BY <1>4, SelectIs
  <1>5. ASSUME NEW t \in Targets, Attempt(t) PROVE UpgradeInv'
    BY <1>5, AttemptIs
  <1>6. ASSUME NEW t \in Targets, AttemptForced(t) PROVE UpgradeInv'
    BY <1>6, AttemptForcedIs
  <1>7. ASSUME EndPhase1 PROVE UpgradeInv'
    BY <1>7, EndPhase1Is
  <1>8. ASSUME Finish PROVE UpgradeInv'
    BY <1>8, FinishIs
  <1>9. ASSUME Toggle PROVE UpgradeInv'
    BY <1>9 DEF Toggle
  <1>10. ASSUME Stop PROVE UpgradeInv'
    BY <1>10 DEF Stop
  <1>11. ASSUME Kill PROVE UpgradeInv'
    BY <1>11 DEF Kill
  <1>12. ASSUME UNCHANGED vars PROVE UpgradeInv'
    BY <1>12 DEF vars
  <1> QED
    BY <1>1, <1>2, <1>3, <1>4, <1>5, <1>6, <1>7, <1>8, <1>9, <1>10, <1>11, <1>12 DEF Next

LEMMA OldNext ==
  TypeOK /\ PlacesInv /\ UpgradeInv /\ OldInv /\ [Next]_vars => OldInv'
  <1> SUFFICES ASSUME TypeOK, PlacesInv, UpgradeInv, OldInv, [Next]_vars, Unhindered, incompatible'
               PROVE  OldInv'
    BY DEF OldInv
  <1> USE DEF OldInv, Idle, Sweeping, world, disk, choice, sweep, flags, history
  <1>1. ASSUME Edit PROVE OldInv'
    BY <1>1, EditIs DEF PlacesInv
  <1>2. ASSUME NEW resume \in BOOLEAN, NEW force \in BOOLEAN, NEW cache \in BOOLEAN, StartRun(resume, force, cache) PROVE OldInv'
    BY <1>2 DEF StartRun, PlacesInv
  <1>3. ASSUME Discover PROVE OldInv'
    BY <1>3 DEF Discover, PlacesInv
  <1>4. ASSUME Select PROVE OldInv'
    BY <1>4, SelectIs DEF PlacesInv
  <1>5. ASSUME Finish PROVE OldInv'
    BY <1>5, FinishIs DEF PlacesInv
  <1>6. ASSUME Toggle PROVE OldInv'
    BY <1>6 DEF Toggle, PlacesInv
  <1>7. ASSUME Stop PROVE OldInv'
    BY <1>7 DEF Stop, PlacesInv
  <1>8. ASSUME Kill PROVE OldInv'
    BY <1>8 DEF Kill, PlacesInv
  <1>9. ASSUME UNCHANGED vars PROVE OldInv'
    BY <1>9 DEF vars, PlacesInv
  <1>20. ASSUME NEW t \in Targets, Attempt(t) PROVE OldInv'
    <2>1. PICK r \in Result : MadeNow(t, r) /\ Extended(results', results, t, r)
      BY <1>20, AttemptIs
    <2>2. /\ stage = "phase1" /\ UNCHANGED <<now, stage, incompatible, resumed>>
      BY <1>20, AttemptIs
    <2> QED
      BY <2>1, <2>2 DEF Extended, MadeNow
  <1>21. ASSUME NEW t \in Targets, AttemptForced(t) PROVE OldInv'
    <2>1. PICK r \in Result : MadeNow(t, r) /\ Extended(forced_results', forced_results, t, r)
      BY <1>21, AttemptForcedIs
    <2>2. /\ stage = "phase2" /\ todo' = todo \ {t}
          /\ UNCHANGED <<now, stage, incompatible, resumed, results>>
      BY <1>21, AttemptForcedIs
    <2> QED
      BY <2>1, <2>2 DEF Extended, MadeNow
  <1>22. ASSUME EndPhase1 PROVE OldInv'
    <2>1. /\ stage = "phase1" /\ incompatible /\ UNCHANGED <<now, resumed, forced_results>>
          /\ stage' \in {"phase2", "reporting"}
      BY <1>22, EndPhase1Is
    <2>2. \A t \in DOMAIN results : results[t].fuzzed \/ results[t].bin = now.bin
      BY <2>1
    <2>3. \A t \in DOMAIN upgrade : ~upgrade[t].fuzzed
      BY <2>1 DEF UpgradeInv
    <2>4. ASSUME NEW t \in DOMAIN results'
          PROVE  \/ results'[t].fuzzed \/ results'[t].bin = now.bin
                 \/ t \in Failed' /\ t \in DOMAIN upgrade
      BY <1>22, <2>2, <2>3, <2>4, EndPhase1Is DEF Failed
    <2>5. CASE stage' = "phase2"
      <3>1. todo' = Failed' /\ DOMAIN forced_results' = {}
        BY <1>22, <2>1, <2>5, EndPhase1Is DEF PlacesInv
      <3> QED
        BY <2>1, <2>4, <2>5, <3>1
    <2>6. CASE stage' = "reporting"
      <3>1. ~live_force \/ Failed' = {}
        BY <1>22, <2>1, <2>6, EndPhase1Is DEF UpgradeInv
      <3>2. DOMAIN upgrade # {} => live_force
        BY <2>1 DEF UpgradeInv
      <3> QED
        BY <2>1, <2>4, <2>6, <3>1, <3>2
    <2> QED
      BY <2>1, <2>5, <2>6
  <1> QED
    BY <1>1, <1>2, <1>3, <1>4, <1>5, <1>6, <1>7, <1>8, <1>9, <1>20, <1>21, <1>22 DEF Next

LEMMA UninterruptedIsUnhindered == Uninterrupted => Unhindered
  BY DEF Uninterrupted, Unhindered

LEMMA FreshNext ==
  TypeOK /\ VersionInv /\ PlacesInv /\ UpgradeInv /\ FreshInv /\ [Next]_vars => FreshInv'
  <1> SUFFICES ASSUME TypeOK, VersionInv, PlacesInv, UpgradeInv, FreshInv, [Next]_vars,
                      Uninterrupted, ~missed'
               PROVE  FreshInv'
    BY DEF FreshInv
  <1>a. /\ now.ctx \in Nat /\ fp \in Nat /\ now.src \in [Targets -> Nat]
        /\ \A t \in DOMAIN files : files[t] \in Nat
        /\ DOMAIN record \subseteq Targets
        /\ \A t \in DOMAIN record : record[t].ctx \in Nat /\ record[t].src \in Nat
    BY DEF TypeOK, Version, IsPartial, Result
  <1> USE <1>a DEF FreshInv, UpToDate, Idle, Sweeping, world, disk, choice, sweep, flags, history
  <1>1. ASSUME Edit PROVE FreshInv'
    BY <1>1, EditIs
  <1>2. ASSUME NEW resume \in BOOLEAN, NEW force \in BOOLEAN, NEW cache \in BOOLEAN, StartRun(resume, force, cache) PROVE FreshInv'
    BY <1>2 DEF StartRun
  <1>3. ASSUME Finish PROVE FreshInv'
    BY <1>3, FinishIs
  <1>4. ASSUME Toggle PROVE FreshInv'
    BY <1>4 DEF Toggle
  <1>5. ASSUME Stop PROVE FreshInv'
    BY <1>5 DEF Stop
  <1>6. ASSUME UNCHANGED vars PROVE FreshInv'
    BY <1>6 DEF vars
  <1>20. ASSUME NEW t \in Targets, Attempt(t) PROVE FreshInv'
    <2>1. PICK r \in Result : MadeNow(t, r) /\ OnDisk(t, r)
      BY <1>20, AttemptIs
    <2>2. /\ stage = "phase1" /\ todo' = todo \ {t} /\ UNCHANGED <<stage, now>>
      BY <1>20, AttemptIs
    <2>3. Extended(record', record, t, r) /\ ~missed /\ UNCHANGED <<fp, files>>
      BY <2>1 DEF OnDisk
    <2>4. fp <= r.ctx /\ t \in DOMAIN files /\ files[t] <= r.src
      BY <2>1, <2>2, <2>3 DEF MadeNow, VersionInv
    <2> QED
      BY <2>2, <2>3, <2>4 DEF Extended
  <1>21. ASSUME NEW t \in Targets, AttemptForced(t) PROVE FreshInv'
    <2>1. PICK r \in Result : MadeNow(t, r) /\ OnDisk(t, r)
      BY <1>21, AttemptForcedIs
    <2>2. /\ stage = "phase2" /\ UNCHANGED <<stage, now>>
      BY <1>21, AttemptForcedIs
    <2>3. Extended(record', record, t, r) /\ ~missed /\ UNCHANGED <<fp, files>>
      BY <2>1 DEF OnDisk
    <2>4. fp <= r.ctx /\ t \in DOMAIN files /\ files[t] <= r.src
      BY <2>1, <2>2, <2>3 DEF MadeNow, VersionInv
    <2> QED
      BY <2>2, <2>3, <2>4 DEF Extended
  <1>22. ASSUME Discover PROVE FreshInv'
    <2>1. /\ ~missed /\ stage = "prepared" /\ stage' = "discovered"
          /\ files' = now.src /\ UNCHANGED <<now, record, fp>>
          /\ scope' = [published |-> TRUE, unchanged |-> publish]
      BY <1>22 DEF Discover, TypeOK
    <2>2. \A t \in DOMAIN record : t \in publish => record[t].src = now.src[t]
      BY <2>1 DEF publish, VersionInv
    <2> QED
      BY <2>1, <2>2
  <1>23. ASSUME Select PROVE FreshInv'
    <2>1. /\ ~missed /\ stage = "discovered" /\ stage' = "phase1" /\ fp' = now.ctx
          /\ UNCHANGED <<now, record, files>>
      BY <1>23, SelectIs
    <2>2. ASSUME NEW t \in DOMAIN record \ todo' PROVE UpToDate(t)'
      <3>1. Known(t)
        BY <1>23, SelectIs
      <3>2. fp = now.ctx /\ t \in scope.unchanged
        BY <2>1, <3>1 DEF Known, file_unchanged
      <3> QED
        BY <2>1, <3>2
    <2> QED
      BY <2>1, <2>2
  <1>24. ASSUME EndPhase1 PROVE FreshInv'
    <2>1. /\ ~missed /\ stage = "phase1" /\ stage' \in {"phase2", "reporting"} /\ (todo = {} \/ stopped)
          /\ UNCHANGED <<now, record, fp, files>>
      BY <1>24, EndPhase1Is
    <2>2. ~stopped
      BY <2>1, UninterruptedIsUnhindered DEF UpgradeInv, Idle
    <2> QED
      BY <1>24, <2>1, <2>2, EndPhase1Is
  <1>25. ASSUME Kill PROVE FreshInv'
    BY <1>25 DEF Kill, Uninterrupted
  <1> QED
    BY <1>1, <1>2, <1>3, <1>4, <1>5, <1>6, <1>20, <1>21, <1>22, <1>23, <1>24, <1>25 DEF Next

LEMMA BinaryNext ==
  TypeOK /\ VersionInv /\ PlacesInv /\ AgreeInv /\ UpgradeInv /\ BinaryInv /\ [Next]_vars
    => BinaryInv'
  <1> SUFFICES ASSUME TypeOK, VersionInv, PlacesInv, AgreeInv, UpgradeInv, BinaryInv,
                      [Next]_vars, Uninterrupted, ~missed'
               PROVE  BinaryInv'
    BY DEF BinaryInv
  <1> USE DEF BinaryInv, Current, Idle, Sweeping, world, disk, choice, sweep, flags, history
  <1>1. ASSUME Edit PROVE BinaryInv'
    BY <1>1, EditIs
  <1>2. ASSUME Toggle PROVE BinaryInv'
    BY <1>2 DEF Toggle
  <1>3. ASSUME Stop PROVE BinaryInv'
    BY <1>3 DEF Stop
  <1>4. ASSUME UNCHANGED vars PROVE BinaryInv'
    BY <1>4 DEF vars
  <1>20. ASSUME NEW t \in Targets, Attempt(t) PROVE BinaryInv'
    <2>1. PICK r \in Result : MadeNow(t, r) /\ OnDisk(t, r)
      BY <1>20, AttemptIs
    <2>2. /\ stage = "phase1" /\ todo' = todo \ {t} /\ UNCHANGED <<stage, now, upgrade>>
      BY <1>20, AttemptIs
    <2>3. Extended(record', record, t, r) /\ ~missed /\ UNCHANGED producer
      BY <2>1 DEF OnDisk
    <2>4. r.bin = producer
      BY <2>1, <2>2 DEF MadeNow, VersionInv
    <2> QED
      BY <2>2, <2>3, <2>4 DEF Extended
  <1>21. ASSUME NEW t \in Targets, AttemptForced(t) PROVE BinaryInv'
    <2>1. PICK r \in Result : MadeNow(t, r) /\ OnDisk(t, r)
      BY <1>21, AttemptForcedIs
    <2>2. /\ stage = "phase2" /\ todo' = todo \ {t} /\ UNCHANGED <<stage, now>>
      BY <1>21, AttemptForcedIs
    <2>3. Extended(record', record, t, r) /\ ~missed /\ UNCHANGED producer
      BY <2>1 DEF OnDisk
    <2>4. r.bin = producer
      BY <2>1, <2>2 DEF MadeNow, VersionInv
    <2> QED
      BY <2>2, <2>3, <2>4 DEF Extended
  <1>22. ASSUME Discover PROVE BinaryInv'
    <2>1. /\ ~missed /\ stage = "prepared" /\ stage' = "discovered"
          /\ UNCHANGED <<record, producer, incompatible>>
      BY <1>22 DEF Discover, TypeOK
    <2> QED
      BY <2>1
  <1>23. ASSUME Select PROVE BinaryInv'
    <2>1. /\ ~missed /\ stage = "discovered" /\ stage' = "phase1"
          /\ UNCHANGED <<record, producer>>
      BY <1>23, SelectIs
    <2>2. ASSUME NEW t \in DOMAIN record \ (todo' \cup DOMAIN upgrade')
          PROVE  Current(record[t])
      <3>1. t \in DOMAIN resumed'
        BY <1>23, SelectIs DEF TypeOK, IsPartial
      <3>2. incompatible => record[t].fuzzed
        BY <1>23, <3>1, SelectIs
      <3> QED
        BY <2>1, <3>2
    <2> QED
      BY <2>1, <2>2
  <1>24. ASSUME EndPhase1 PROVE BinaryInv'
    <2>1. /\ ~missed /\ stage = "phase1" /\ stage' \in {"phase2", "reporting"}
          /\ UNCHANGED <<record, producer>>
      BY <1>24, EndPhase1Is
    <2>2. todo = {}
      BY <1>24, <2>1, EndPhase1Is, UninterruptedIsUnhindered DEF UpgradeInv
    <2>3. DOMAIN upgrade \subseteq Failed'
      BY <1>24, <2>1, EndPhase1Is, UninterruptedIsUnhindered DEF UpgradeInv, Failed
    <2>4. CASE stage' = "phase2"
      <3>1. todo' = Failed'
        BY <1>24, <2>4, EndPhase1Is
      <3> QED
        BY <2>1, <2>2, <2>3, <2>4, <3>1
    <2>5. CASE stage' = "reporting"
      <3>1. DOMAIN upgrade = {}
        BY <1>24, <2>1, <2>3, <2>5, EndPhase1Is, UninterruptedIsUnhindered DEF UpgradeInv
      <3> QED
        BY <2>1, <2>2, <2>5, <3>1
    <2> QED
      BY <2>1, <2>4, <2>5
  <1>25. ASSUME Finish PROVE BinaryInv'
    <2>1. /\ ~missed /\ stage' = "done" /\ UNCHANGED <<record, producer>>
          /\ stage = "reporting" \/ (stage = "phase2" /\ (todo = {} \/ stopped))
      BY <1>25, FinishIs
    <2>2. ~stopped
      BY <2>1, UninterruptedIsUnhindered DEF UpgradeInv
    <2> QED
      BY <2>1, <2>2
  <1>26. ASSUME Kill PROVE BinaryInv'
    BY <1>26 DEF Kill, Uninterrupted
  <1>27. ASSUME NEW resume \in BOOLEAN, NEW force \in BOOLEAN, NEW cache \in BOOLEAN,
                StartRun(resume, force, cache)
         PROVE  BinaryInv'
    <2>1. /\ Idle /\ ~missed /\ stage' = "prepared" /\ producer' = now.bin
          /\ incompatible' = (producer # 0 /\ producer # now.bin) /\ record' = record
      BY <1>27 DEF StartRun
    <2>2. \A t \in DOMAIN record : record[t].bin \in Nat /\ record[t].bin # 0
      BY ResumeAssumption DEF TypeOK, IsPartial, Result, Version
    <2>3. ASSUME ~incompatible', NEW t \in DOMAIN record PROVE record[t].fuzzed \/ record[t].bin = now.bin
      BY <2>1, <2>2, <2>3
    <2> QED
      BY <2>1, <2>3
  <1> QED
    BY <1>1, <1>2, <1>3, <1>4, <1>20, <1>21, <1>22, <1>23, <1>24, <1>25, <1>26, <1>27 DEF Next

-----------------------------------------------------------------------------
(* All of it together. *)
ResumeInv ==
  /\ TypeOK /\ VersionInv /\ PlacesInv /\ ForcedInv /\ AgreeInv
  /\ MarkersInv /\ RepeatInv /\ UpgradeInv /\ OldInv /\ FreshInv /\ BinaryInv

LEMMA ResumeInvInit == Init => ResumeInv
  <1> SUFFICES ASSUME Init PROVE ResumeInv
    OBVIOUS
  <1> USE ResumeAssumption, NothingIsPartial DEF Init
  <1>a. 1 \in Version
    BY DEF Version
  <1>1. TypeOK
    <2>1. IsPartial(NoResults, Result) /\ IsPartial(NoResults, Version)
      BY NothingIsPartial
    <2>2. now \in [ctx : Version, src : [Targets -> Version], bin : Version]
      BY <1>a
    <2>3. \A f \in {resumed, upgrade, results, forced_results} : f = NoResults
      OBVIOUS
    <2>4. IsPartial(record, Result) /\ IsPartial(files, Version)
          /\ \A f \in {resumed, upgrade, results, forced_results} : IsPartial(f, Result)
      BY <2>1, <2>3
    <2>5. /\ edits \in 0 .. MaxEdits /\ fp = 0 /\ producer = 0 /\ todo \subseteq Targets
          /\ opts \in [resume : BOOLEAN, force : BOOLEAN, cache : BOOLEAN]
          /\ scope \in [published : BOOLEAN, unchanged : SUBSET Targets]
      OBVIOUS
    <2>6. /\ incompatible \in BOOLEAN /\ live_force \in BOOLEAN /\ stopped \in BOOLEAN
          /\ missed \in BOOLEAN /\ stage = "off" /\ log = {}
      OBVIOUS
    <2> HIDE DEF Init
    <2> QED
      BY <2>2, <2>4, <2>5, <2>6 DEF TypeOK
  <1>2. VersionInv
    BY DEF VersionInv, Idle
  <1>3. PlacesInv /\ ForcedInv /\ AgreeInv
    BY DEF PlacesInv, ForcedInv, AgreeInv, UnforcedReportsUnforced, ReportMatchesRecords
  <1>4. MarkersInv /\ RepeatInv
    BY DEF MarkersInv, MarkersCover, RepeatInv, Idle
  <1>5. UpgradeInv /\ OldInv
    BY DEF UpgradeInv, OldInv, Idle
  <1>6. FreshInv /\ BinaryInv
    BY DEF FreshInv, BinaryInv
  <1> QED
    BY <1>1, <1>2, <1>3, <1>4, <1>5, <1>6 DEF ResumeInv

LEMMA ResumeInvNext == ResumeInv /\ [Next]_vars => ResumeInv'
  BY ResumeTypeNext, VersionNext, PlacesNext, ForcedNext, AgreeNext, MarkersNext,
     RepeatNext, UpgradeNext, OldNext, FreshNext, BinaryNext, Zenon DEF ResumeInv

LEMMA ResumeInvAlways == Spec => []ResumeInv
  BY ResumeInvInit, ResumeInvNext, PTL DEF Spec

(* Whatever runs, kills, edits and failed writes follow each other, the     *)
(* work directory holds only results the code can have written.             *)
THEOREM ResumeTypeCorrect == Spec => []TypeOK
  <1>1. ResumeInv => TypeOK
    BY DEF ResumeInv
  <1> QED
    BY <1>1, ResumeInvAlways, PTL

(* A run that never forced reports no forced result: the reload refuses     *)
(* them and phase 1 makes none.                                             *)
THEOREM ResumeReportsUnforced == Spec => []UnforcedReportsUnforced
  <1>1. ResumeInv => UnforcedReportsUnforced
    BY DEF ResumeInv, ForcedInv
  <1> QED
    BY <1>1, ResumeInvAlways, PTL

(* The report says of each target what its result.json says, unless a       *)
(* write failed: the merge and the append put no result over a newer one.   *)
THEOREM ResumeReportIsOnDisk == Spec => []ReportMatchesRecords
  <1>1. ResumeInv => ReportMatchesRecords
    BY DEF ResumeInv, AgreeInv, ReportMatchesRecords
  <1> QED
    BY <1>1, ResumeInvAlways, PTL

(* What fuzzed unforced, in this run or before it, is never given up for a  *)
(* forced result, in memory or on disk.                                     *)
THEOREM ResumeKeepsReach == Spec => ForceCannotCostReach
  <1> DEFINE Kept ==
        ~Idle =>
          /\ \A t \in DOMAIN results : results[t].fuzzed =>
               results'[t] = results[t] /\ (t \in DOMAIN record => record'[t] = record[t])
          /\ Sweeping => \A t \in DOMAIN resumed : record'[t] = record[t]
  <1>1. ASSUME TypeOK, PlacesInv, Next PROVE Kept
    <2> USE <1>1 DEF Kept, Idle, Sweeping, PlacesInv, Failed, world, disk, choice, sweep, flags, history
    <2>1. ASSUME Edit PROVE Kept
      BY <2>1, EditIs
    <2>2. ASSUME NEW resume \in BOOLEAN, NEW force \in BOOLEAN, NEW cache \in BOOLEAN, StartRun(resume, force, cache) PROVE Kept
      BY <2>2 DEF StartRun
    <2>3. ASSUME Discover PROVE Kept
      BY <2>3 DEF Discover
    <2>4. ASSUME Select PROVE Kept
      BY <2>4, SelectIs
    <2>5. ASSUME EndPhase1 PROVE Kept
      BY <2>5, EndPhase1Is
    <2>6. ASSUME Finish PROVE Kept
      BY <2>6, FinishIs
    <2>7. ASSUME Toggle PROVE Kept
      BY <2>7 DEF Toggle
    <2>8. ASSUME Stop PROVE Kept
      BY <2>8 DEF Stop
    <2>9. ASSUME Kill PROVE Kept
      BY <2>9 DEF Kill
    <2>20. ASSUME NEW t \in Targets, Attempt(t) PROVE Kept
      <3>1. PICK r \in Result : Extended(results', results, t, r) /\ OnDisk(t, r)
        BY <2>20, AttemptIs
      <3>2. stage = "phase1" /\ t \in todo
        BY <2>20, AttemptIs
      <3> QED
        BY <3>1, <3>2 DEF Extended, OnDisk
    <2>21. ASSUME NEW t \in Targets, AttemptForced(t) PROVE Kept
      <3>1. PICK r \in Result : OnDisk(t, r)
        BY <2>21, AttemptForcedIs
      <3>2. stage = "phase2" /\ t \in todo /\ UNCHANGED results
        BY <2>21, AttemptForcedIs
      <3> QED
        BY <3>1, <3>2 DEF Extended, OnDisk
    <2> QED
      BY <2>1, <2>2, <2>3, <2>4, <2>5, <2>6, <2>7, <2>8, <2>9, <2>20, <2>21 DEF Next
  <1>2. ResumeInv /\ [Next]_vars => [Kept]_vars
    BY <1>1 DEF ResumeInv
  <1> QED
    BY <1>2, ResumeInvAlways, PTL DEF Spec, ForceCannotCostReach

(* When the source does not change under a running sweep, a resumed run     *)
(* attempts nothing twice on the same source with the same build, however   *)
(* the runs before it ended.                                                *)
THEOREM ResumeNeverRepeats ==
  ASSUME "edit_running" \notin Faults
  PROVE  Spec => ResumeRepeatsNothing
  <1> DEFINE Once ==
        \A t \in todo \ todo' :
          stage = "phase1" /\ stage' = "phase1" /\ opts.resume /\ ~missed /\ <<t, Stamp(t)>> \in log
            => t \in DOMAIN record /\ record[t].forced /\ ~opts.force
  <1>1. ASSUME TypeOK, RepeatInv PROVE Once
    <2> SUFFICES ASSUME NEW t \in todo, stage = "phase1", opts.resume, ~missed, <<t, Stamp(t)>> \in log
                 PROVE  t \in DOMAIN record /\ record[t].forced /\ ~opts.force
      OBVIOUS
    <2>1. Tried(t)
      BY DEF Tried
    <2> QED
      BY <1>1, <2>1 DEF RepeatInv
  <1>2. ResumeInv /\ [Next]_vars => [Once]_vars
    BY <1>1 DEF ResumeInv
  <1> QED
    BY <1>2, ResumeInvAlways, PTL DEF Spec, ResumeRepeatsNothing

(* When runs are not cut short, what a run reloads is true of the source    *)
(* and the build context that are there now, and a failure also of the      *)
(* present govfuzz.                                                         *)
THEOREM ResumeReusesFresh ==
  ASSUME Uninterrupted
  PROVE  Spec => ReusedIsFresh
  <1> DEFINE Fresh ==
        stage = "discovered" /\ stage' = "phase1" /\ ~missed
          => \A t \in DOMAIN resumed' :
               /\ resumed'[t].ctx = now.ctx /\ resumed'[t].src = now.src[t]
               /\ resumed'[t].fuzzed \/ resumed'[t].bin = now.bin
  <1>1. ASSUME TypeOK, VersionInv, FreshInv, BinaryInv, Next PROVE Fresh
    <2> USE <1>1 DEF Fresh
    <2>1. ASSUME Select PROVE Fresh
      <3> SUFFICES ASSUME stage = "discovered", ~missed, NEW t \in DOMAIN resumed'
                   PROVE  /\ resumed'[t].ctx = now.ctx /\ resumed'[t].src = now.src[t]
                          /\ resumed'[t].fuzzed \/ resumed'[t].bin = now.bin
        OBVIOUS
      <3>1. /\ t \in DOMAIN record /\ resumed'[t] = record[t] /\ fp = now.ctx
            /\ file_unchanged(t) /\ (incompatible => record[t].fuzzed)
        BY <2>1, SelectIs DEF Known
      <3>2. /\ scope.published /\ fp <= record[t].ctx
            /\ t \in scope.unchanged => record[t].src = now.src[t]
        BY <3>1 DEF FreshInv
      <3>3. record[t].src = now.src[t] /\ now.ctx <= record[t].ctx
        BY <3>1, <3>2 DEF file_unchanged, FreshInv
      <3>4. record[t].ctx = now.ctx
        BY <3>1, <3>3 DEF VersionInv, TypeOK, IsPartial, Result, Version
      <3>5. record[t].fuzzed \/ record[t].bin = now.bin
        BY <3>1 DEF BinaryInv, Current, VersionInv, Idle
      <3> QED
        BY <3>1, <3>3, <3>4, <3>5
    <2>2. ASSUME ~Select PROVE ~(stage = "discovered" /\ stage' = "phase1")
      BY <2>2 DEF Next, Edit, StartRun, Discover, Attempt, AttemptForced, EndPhase1, Finish,
                  Toggle, Stop, Kill, Idle, Sweeping
    <2> QED
      BY <2>1, <2>2
  <1>2. ResumeInv /\ [Next]_vars => [Fresh]_vars
    BY <1>1 DEF ResumeInv
  <1> QED
    BY <1>2, ResumeInvAlways, PTL DEF Spec, ReusedIsFresh

(* A run of another govfuzz over the same directory that is not stopped and *)
(* keeps its force flag attempts every old failure again, killed runs       *)
(* before it or not.                                                        *)
THEOREM ResumeReattemptsOldFailures ==
  ASSUME Unhindered
  PROVE  Spec => OldFailuresReattempted
  <1> DEFINE Redone ==
        stage' = "done" /\ ~Idle /\ incompatible
          => \A t \in DOMAIN results' : results'[t].fuzzed \/ results'[t].bin = now.bin
  <1>1. ASSUME TypeOK, PlacesInv, UpgradeInv, OldInv, Next PROVE Redone
    <2> USE <1>1 DEF Redone
    <2>1. ASSUME Finish PROVE Redone
      <3> SUFFICES ASSUME ~Idle, incompatible, NEW t \in DOMAIN results'
                   PROVE  results'[t].fuzzed \/ results'[t].bin = now.bin
        OBVIOUS
      <3>1. /\ stage \in {"phase2", "reporting"} /\ (stage = "phase2" => todo = {})
        BY <2>1, FinishIs DEF UpgradeInv
      <3>2. CASE t \in DOMAIN resumed
        BY <2>1, <3>1, <3>2, FinishIs DEF OldInv
      <3>3. CASE t \notin DOMAIN resumed /\ t \in DOMAIN forced_results
        BY <2>1, <3>1, <3>3, FinishIs DEF OldInv, PlacesInv
      <3>4. CASE t \notin DOMAIN resumed /\ t \notin DOMAIN forced_results
        BY <2>1, <3>1, <3>4, FinishIs DEF OldInv
      <3> QED
        BY <3>2, <3>3, <3>4
    <2>2. ASSUME ~Finish PROVE ~(stage' = "done" /\ ~Idle)
      BY <2>2 DEF Next, Edit, StartRun, Discover, Select, Attempt, AttemptForced, EndPhase1,
                  Toggle, Stop, Kill, Idle, Sweeping
    <2> QED
      BY <2>1, <2>2
  <1>2. ResumeInv /\ [Next]_vars => [Redone]_vars
    BY <1>1 DEF ResumeInv
  <1> QED
    BY <1>2, ResumeInvAlways, PTL DEF Spec, OldFailuresReattempted
=================================================================================
