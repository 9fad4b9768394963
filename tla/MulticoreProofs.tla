---------------------------- MODULE MulticoreProofs ----------------------------
(***************************************************************************)
(* The merge of a campaign loses no input and its summary is true, for any *)
(* number of workers, inputs, signatures and campaigns.                    *)
(*                                                                         *)
(* Names are not unique: two workers may use one name for two inputs, the  *)
(* directories outlive a campaign, and a clash is renamed without looking  *)
(* whether the new name is taken.  That the new name is free, and that the *)
(* copy at the next start overwrites nothing that is not kept elsewhere,   *)
(* follows from what each name says about its content (NamesInv) and from  *)
(* who can still write (SuperviseInv, CleanInv).                           *)
(***************************************************************************)
EXTENDS Multicore, FiniteSetTheorems, WellFoundedInduction, TLAPS

(* Who writes when: a worker that is not running writes nothing, and no     *)
(* process outlives its campaign unless a campaign failed.                  *)
Reports == [id : Worker, code : {"none", "ok", "failed"}, findings : Nat]
Finished == pc = "idle" /\ answer = "ok"
Supervising == pc \in {"pass", "visit", "kill", "sort", "sync"} \/ Finished
MTypeInv ==
  /\ pc \in {"idle", "spawn", "pass", "visit", "kill", "sort", "sync"}
  /\ campaigns \in 0 .. MaxCampaigns /\ count \in 0 .. MaxWorkers
  /\ overdue \in BOOLEAN /\ should_kill \in BOOLEAN
  /\ todo \subseteq Member
  /\ child \in [Worker -> {"none", "running", "ok", "failed", "reaped"}]
  /\ per_worker \in Seq(Reports)
  /\ answer \in {"none", "ok", "err"} /\ clean \in BOOLEAN
  /\ sigs \in [Worker -> SUBSET Sigs] /\ findings \in [Worker -> SUBSET Clusters]
  /\ orphans \subseteq Worker /\ DOMAIN queue = Worker

SuperviseInv ==
  /\ Reported \subseteq Member
  /\ \A i, j \in DOMAIN per_worker : per_worker[i].id = per_worker[j].id => i = j
  /\ pc = "spawn" => DOMAIN per_worker = {} /\ \A w \in Member : child[w] # "reaped"
  /\ pc # "idle" \/ Finished => \A w \in Worker \ Member : child[w] = "none"
  /\ Supervising =>
       \A w \in Member : IF w \in Reported THEN child[w] = "reaped"
                                           ELSE child[w] \in {"running", "ok", "failed"}
  /\ pc \in {"visit", "kill"} => todo \cap Reported = {}
  /\ pc = "kill" => todo # {}
  /\ pc \in {"sort", "sync"} \/ Finished => Reported = Member
  /\ pc = "sync" \/ Finished =>
       \A i, j \in DOMAIN per_worker : i < j => per_worker[i].id < per_worker[j].id

CleanInv ==
  clean => /\ orphans = {}
           /\ pc = "idle" => \A w \in Worker : ~Alive(w)
           /\ Supervising => \A i \in DOMAIN per_worker :
                per_worker[i].findings = Cardinality(findings[per_worker[i].id])

(* The names of the files.  A file of a worker that does not carry a        *)
(* signature it has seen is one of the shared queue, or named after its     *)
(* content; a clash was renamed once, when its signature was new.           *)
Clash == Worker \X Sigs
NamesInv ==
  /\ DOMAIN shared \subseteq Sigs \cup Contents \cup Clash
  /\ Kept(shared) \subseteq Contents
  /\ \A c \in DOMAIN shared \cap Contents : shared[c] = c
  /\ \A w \in Worker :
       /\ DOMAIN queue[w] \subseteq Sigs \cup Contents \cup Clash
       /\ Kept(queue[w]) \subseteq Contents
       /\ \A c \in DOMAIN queue[w] \cap Contents : queue[w][c] = c
       /\ \A s \in DOMAIN queue[w] \cap Sigs : s \notin sigs[w] => queue[w][s] \in Kept(shared)
       /\ \A n \in DOMAIN queue[w] \cap Clash : queue[w][n] \in Kept(shared)
       /\ \A s \in Sigs : <<w, s>> \in DOMAIN shared =>
            s \in sigs[w] /\ (s \in DOMAIN queue[w] => queue[w][s] \in Kept(shared))

(* What is not imported yet is still to be read. *)
MergeInv ==
  /\ \A u \in unread : pc = "sync" => \E i \in DOMAIN per_worker : \E n \in DOMAIN queue[per_worker[i].id] : u = <<i, n>>
  /\ clean /\ pc = "sync" =>
       \A i \in DOMAIN per_worker : \A n \in DOMAIN queue[per_worker[i].id] :
         <<i, n>> \in unread \/ queue[per_worker[i].id][n] \in Kept(shared)
  /\ clean => \A w \in Worker : pc = "idle" \/ child[w] = "none" =>
       Kept(queue[w]) \subseteq Kept(shared)
MulticoreInv == MTypeInv /\ SuperviseInv /\ CleanInv /\ NamesInv /\ MergeInv

-----------------------------------------------------------------------------
(* Operators. *)

(* A set of natural numbers has a lowest one. *)
LEMMA LowestIs ==
  ASSUME NEW S \in SUBSET Nat, S # {}
  PROVE  Lowest(S) \in S
  <1> DEFINE R == OpToRel(<, Nat)
  <1>1. \A x, y \in Nat : <<x, y>> \in R <=> x < y
    BY DEF OpToRel
  <1>2. IsWellFoundedOn(R, Nat)
    BY NatLessThanWellFounded
  <1> HIDE DEF R
  <1>3. PICK x \in S : \A y \in S : ~(<<y, x>> \in R)
    BY <1>2, WFMin
  <1>4. \A y \in S : x <= y
    <2> SUFFICES ASSUME NEW y \in S PROVE x <= y
      OBVIOUS
    <2>1. x \in Nat /\ y \in Nat /\ ~(<<y, x>> \in R)
      BY <1>3
    <2>2. ~(y < x)
      BY <1>1, <2>1
    <2> QED
      BY <2>1, <2>2
  <1> QED
    BY <1>4 DEF Lowest

LEMMA OverIs ==
  ASSUME NEW f, NEW g
  PROVE  /\ DOMAIN Over(f, g) = DOMAIN f \cup DOMAIN g
         /\ \A n \in DOMAIN f : Over(f, g)[n] = f[n]
         /\ \A n \in DOMAIN g : n \notin DOMAIN f => Over(f, g)[n] = g[n]
  BY DEF Over

LEMMA WorkersAreNat == Worker \subseteq Nat /\ Member \subseteq Worker
  BY MulticoreAssumption DEF Worker, Member

LEMMA ReportIs ==
  ASSUME MTypeInv, NEW w \in Worker, NEW code \in {"none", "ok", "failed"}
  PROVE  /\ Report(w, code) \in Reports /\ Report(w, code).id = w
         /\ Report(w, code).findings = Cardinality(findings[w])
  <1>1. findings[w] \subseteq Clusters
    BY DEF MTypeInv
  <1>2. Cardinality(findings[w]) \in Nat
    BY <1>1, MulticoreAssumption, FS_Subset, FS_CardinalityType
  <1> QED
    BY <1>2 DEF Report, Reports

(* q is p with r at its end. *)
Pushed(q, p, r) ==
  /\ q \in Seq(Reports)
  /\ DOMAIN q = DOMAIN p \cup {Len(p) + 1} /\ Len(p) + 1 \notin DOMAIN p
  /\ \A i \in DOMAIN p : q[i] = p[i]
  /\ q[Len(p) + 1] = r

LEMMA PushIs == ASSUME NEW p \in Seq(Reports), NEW r \in Reports PROVE Pushed(Append(p, r), p, r)
  BY DEF Pushed

-----------------------------------------------------------------------------
(* What each operation does. *)

LEMMA SpawnIs ==
  ASSUME MTypeInv, Spawn
  PROVE  /\ pc = "spawn"
         /\ \/ /\ pc' = "pass" /\ UNCHANGED <<answer, clean, queue, child>>
               /\ \A w \in Member : child[w] # "none"
            \/ \E w \in Member :
                 /\ child[w] = "none" /\ queue' = [queue EXCEPT ![w] = Over(shared, queue[w])]
                 /\ \/ child' = [child EXCEPT ![w] = "running"] /\ UNCHANGED <<pc, answer, clean>>
                    \/ pc' = "idle" /\ answer' = "err" /\ clean' = FALSE /\ UNCHANGED child
         /\ UNCHANGED <<campaigns, count, overdue, should_kill, todo, per_worker, unread, shared,
                        sigs, findings, orphans>>
  <1> DEFINE waiting == {w \in Member : child[w] = "none"}
  <1>1. waiting # {} => Lowest(waiting) \in waiting
    <2>1. waiting \subseteq Nat
      BY WorkersAreNat
    <2> QED
      BY <2>1, LowestIs
  <1>2. CASE waiting = {}
    BY <1>2 DEF Spawn, loop
  <1>3. CASE waiting # {}
    <2> DEFINE w == Lowest(waiting)
    <2>1. w \in Member /\ child[w] = "none"
      BY <1>1, <1>3
    <2>2. /\ pc = "spawn" /\ queue' = [queue EXCEPT ![w] = Over(shared, queue[w])]
          /\ \/ child' = [child EXCEPT ![w] = "running"] /\ UNCHANGED <<pc, answer, clean>>
             \/ pc' = "idle" /\ answer' = "err" /\ clean' = FALSE /\ UNCHANGED child
          /\ UNCHANGED <<campaigns, count, overdue, should_kill, todo, per_worker, unread, shared,
                         sigs, findings, orphans>>
      BY <1>3 DEF Spawn, loop, Return, Copied
    <2> HIDE DEF w
    <2> QED
      BY <2>1, <2>2
  <1> QED
    BY <1>2, <1>3

LEMMA BeginPassIs ==
  ASSUME BeginPass
  PROVE  /\ pc = "pass"
         /\ \/ pc' = "sort" /\ Member \subseteq Reported /\ UNCHANGED <<todo, should_kill>>
            \/ pc' = "visit" /\ todo' = Member \ Reported /\ should_kill' = overdue
         /\ UNCHANGED <<campaigns, count, overdue, per_worker, child, unread,
                        answer, clean, shared, queue, sigs, findings, orphans>>
  BY DEF BeginPass, dirs

(* A worker that ended, by itself or by the kill, is reported. *)
Reap(w, code) ==
  /\ todo' = todo \ {w} /\ child' = [child EXCEPT ![w] = "reaped"]
  /\ Pushed(per_worker', per_worker, Report(w, code))

LEMMA TryWaitIs ==
  ASSUME MTypeInv, SuperviseInv, TryWait
  PROVE  /\ pc = "visit"
         /\ \E w \in todo :
              \/ pc' = "kill" /\ UNCHANGED <<todo, child, per_worker>>
              \/ pc' = "visit" /\ todo' = todo \ {w} /\ UNCHANGED <<child, per_worker>>
              \/ pc' = "visit" /\ ~Alive(w) /\ Reap(w, child[w])
         /\ UNCHANGED <<campaigns, count, overdue, should_kill, unread,
                        answer, clean, shared, queue, sigs, findings, orphans>>
  <1> DEFINE w == Lowest(todo)
  <1>1. w \in todo /\ w \in Member /\ w \in Worker
    <2>1. todo \subseteq Nat /\ todo # {}
      BY WorkersAreNat DEF TryWait, MTypeInv
    <2> QED
      BY <2>1, LowestIs, WorkersAreNat DEF MTypeInv
  <1>2. /\ pc = "visit"
        /\ \/ pc' = "kill" /\ UNCHANGED <<todo, child, per_worker>>
           \/ pc' = "visit" /\ todo' = todo \ {w} /\ UNCHANGED <<child, per_worker>>
           \/ /\ pc' = "visit" /\ todo' = todo \ {w} /\ ~Alive(w)
              /\ per_worker' = Append(per_worker, Report(w, child[w]))
              /\ child' = [child EXCEPT ![w] = "reaped"]
        /\ UNCHANGED <<campaigns, count, overdue, should_kill, unread,
                       answer, clean, shared, queue, sigs, findings, orphans>>
    BY DEF TryWait, dirs
  <1> HIDE DEF w
  <1>3. ASSUME ~Alive(w), per_worker' = Append(per_worker, Report(w, child[w])), pc = "visit"
        PROVE  Pushed(per_worker', per_worker, Report(w, child[w]))
    <2>1. child[w] \in {"ok", "failed"}
      BY <1>1, <1>3 DEF SuperviseInv, Supervising, Alive
    <2>2. Report(w, child[w]) \in Reports
      BY <1>1, <2>1, ReportIs
    <2> QED
      BY <1>3, <2>2, PushIs DEF MTypeInv
  <1> QED
    BY <1>1, <1>2, <1>3 DEF Reap

LEMMA KillIs ==
  ASSUME MTypeInv, SuperviseInv, Kill
  PROVE  /\ pc = "kill" /\ pc' = "visit"
         /\ \E w \in todo : Reap(w, "none")
         /\ UNCHANGED <<campaigns, count, overdue, should_kill, unread,
                        answer, clean, shared, queue, sigs, findings, orphans>>
  <1> DEFINE w == Lowest(todo)
  <1>1. w \in todo /\ w \in Worker
    <2>1. todo \subseteq Nat /\ todo # {}
      BY WorkersAreNat DEF Kill, MTypeInv, SuperviseInv
    <2> QED
      BY <2>1, LowestIs, WorkersAreNat DEF MTypeInv
  <1>2. /\ pc = "kill" /\ pc' = "visit" /\ todo' = todo \ {w}
        /\ per_worker' = Append(per_worker, Report(w, "none"))
        /\ child' = [child EXCEPT ![w] = "reaped"]
        /\ UNCHANGED <<campaigns, count, overdue, should_kill, unread,
                       answer, clean, shared, queue, sigs, findings, orphans>>
    BY DEF Kill, dirs
  <1> HIDE DEF w
  <1>3. Pushed(per_worker', per_worker, Report(w, "none"))
    BY <1>1, <1>2, ReportIs, PushIs DEF MTypeInv
  <1> QED
    BY <1>1, <1>2, <1>3 DEF Reap

LEMMA SortReportsIs ==
  ASSUME MTypeInv, SortReports
  PROVE  /\ pc = "sort" /\ pc' = "sync"
         /\ per_worker' \in Seq(Reports) /\ DOMAIN per_worker' = DOMAIN per_worker
         /\ \E at \in [DOMAIN per_worker -> DOMAIN per_worker] :
              /\ \A i, j \in DOMAIN per_worker : at[i] = at[j] => i = j
              /\ \A j \in DOMAIN per_worker : \E i \in DOMAIN per_worker : at[i] = j
              /\ \A i \in DOMAIN per_worker : per_worker'[i] = per_worker[at[i]]
         /\ \A i, j \in DOMAIN per_worker : i < j => per_worker'[i].id <= per_worker'[j].id
         /\ \A u \in unread' : \E i \in DOMAIN per_worker' :
              \E n \in DOMAIN queue[per_worker'[i].id] : u = <<i, n>>
         /\ \A i \in DOMAIN per_worker' : \A n \in DOMAIN queue[per_worker'[i].id] : <<i, n>> \in unread'
         /\ UNCHANGED <<campaigns, count, overdue, should_kill, todo, child,
                        answer, clean, shared, queue, sigs, findings, orphans>>
  <1> DEFINE D == DOMAIN per_worker
  <1>1. PICK at \in Bijection(D, D) :
          /\ per_worker' = [i \in D |-> per_worker[at[i]]]
          /\ \A i, j \in D : i < j => per_worker[at[i]].id <= per_worker[at[j]].id
    BY DEF SortReports, Sorted
  <1>2. /\ at \in [D -> D] /\ \A i, j \in D : at[i] = at[j] => i = j
        /\ \A j \in D : \E i \in D : at[i] = j
    BY DEF Bijection, Injection, Surjection, IsInjective
  <1>3. per_worker \in Seq(Reports)
    BY DEF MTypeInv
  <1>4. /\ DOMAIN per_worker' = D /\ \A i \in D : per_worker'[i] = per_worker[at[i]] /\ per_worker'[i] \in Reports
    BY <1>1, <1>2, <1>3
  <1>5. per_worker' \in Seq(Reports)
    <2>1. D = 1 .. Len(per_worker) /\ Len(per_worker) \in Nat
      BY <1>3
    <2> QED
      BY <1>1, <1>4, <2>1
  <1>6. /\ \A u \in unread' : \E i \in DOMAIN per_worker' :
              \E n \in DOMAIN queue[per_worker'[i].id] : u = <<i, n>>
        /\ \A i \in DOMAIN per_worker' : \A n \in DOMAIN queue[per_worker'[i].id] : <<i, n>> \in unread'
    BY <1>4 DEF SortReports
  <1> QED
    BY <1>1, <1>2, <1>4, <1>5, <1>6 DEF SortReports, dirs

(* The file n of worker w is imported under a name that was free. *)
NewFile(name, w, n) ==
  /\ name \notin DOMAIN shared /\ n \notin Clash /\ queue[w][n] \notin Kept(shared)
  /\ name = n \/ (name = <<w, n>> /\ n \in sigs[w])
  /\ DOMAIN shared' = DOMAIN shared \cup {name} /\ shared'[name] = queue[w][n]
  /\ \A m \in DOMAIN shared : shared'[m] = shared[m]

(* The file n of worker w, the i-th of the reports, is merged. *)
Synced(i, w, n) ==
  /\ i \in DOMAIN per_worker /\ w \in Worker /\ w = per_worker[i].id /\ n \in DOMAIN queue[w]
  /\ unread' = unread \ {<<i, n>>}
  /\ \/ shared' = shared /\ queue[w][n] \in Kept(shared)
     \/ \E name : NewFile(name, w, n)

(* Nothing in the shared queue is overwritten. *)
LEMMA SyncFileIs ==
  ASSUME MTypeInv, NamesInv, MergeInv, SyncFile
  PROVE  /\ pc = "sync"
         /\ \E i, w, n : Synced(i, w, n)
         /\ UNCHANGED <<pc, campaigns, count, overdue, should_kill, todo, per_worker, child,
                        answer, clean, queue, sigs, findings, orphans>>
  <1> DEFINE firsts == {u[1] : u \in unread}
  <1>1. PICK i, n : /\ n \in {u[2] : u \in {v \in unread : v[1] = i}}
                    /\ unread' = unread \ {<<i, n>>}
                    /\ shared' = IF queue[per_worker[i].id][n] \in Kept(shared) THEN shared
                                 ELSE Imported(per_worker[i].id, n)
    BY DEF SyncFile
  <1>2. PICK u \in unread : u[1] = i /\ u[2] = n
    BY <1>1
  <1>3. i \in DOMAIN per_worker /\ n \in DOMAIN queue[per_worker[i].id]
    BY <1>2 DEF MergeInv, SyncFile
  <1> DEFINE w == per_worker[i].id
  <1>4. w \in Worker
    <2>1. per_worker \in Seq(Reports)
      BY DEF MTypeInv
    <2>2. per_worker[i] \in Reports
      BY <1>3, <2>1
    <2> QED
      BY <2>2 DEF Reports
  <1>5. CASE queue[w][n] \in Kept(shared)
    BY <1>1, <1>3, <1>4, <1>5 DEF SyncFile, loop, dirs, Synced
  <1>6. CASE queue[w][n] \notin Kept(shared)
    <2> DEFINE name == Destination(w, n)
    <2>1. n \notin Clash /\ n \in Sigs \cup Contents /\ (n \in Sigs => n \in sigs[w])
      BY <1>3, <1>4, <1>6 DEF NamesInv
    <2>2. n \in DOMAIN shared => n \in Sigs
      <3>1. ASSUME n \in DOMAIN shared, n \in Contents PROVE FALSE
        BY <1>3, <1>4, <1>6, <3>1 DEF NamesInv, Kept
      <3> QED
        BY <2>1, <3>1
    <2>3. n \in DOMAIN shared => <<w, n>> \notin DOMAIN shared
      BY <1>3, <1>4, <1>6, <2>2 DEF NamesInv
    <2>4. /\ name \notin DOMAIN shared
          /\ name = n \/ (name = <<w, n>> /\ n \in sigs[w])
      BY <2>1, <2>2, <2>3 DEF Destination
    <2>5. shared' = Over(File(name, queue[w][n]), shared)
      BY <1>1, <1>6 DEF Imported
    <2> HIDE DEF name
    <2>6. /\ DOMAIN shared' = DOMAIN shared \cup {name} /\ shared'[name] = queue[w][n]
          /\ \A m \in DOMAIN shared : shared'[m] = shared[m]
      BY <2>4, <2>5 DEF Over, File
    <2>7. /\ unread' = unread \ {<<i, n>>} /\ pc = "sync"
          /\ UNCHANGED <<pc, campaigns, count, overdue, should_kill, todo, per_worker, child,
                         answer, clean, queue, sigs, findings, orphans>>
      BY <1>1 DEF SyncFile, loop, dirs
    <2>8. NewFile(name, w, n)
      BY <1>6, <2>1, <2>4, <2>6 DEF NewFile
    <2>9. Synced(i, w, n)
      BY <1>3, <1>4, <2>7, <2>8 DEF Synced
    <2> QED
      BY <2>7, <2>9
  <1> QED
    BY <1>5, <1>6

LEMMA WorkerRecordIs ==
  ASSUME MTypeInv, NEW w \in Worker, NEW s \in Sigs, NEW c \in Contents, WorkerRecord(w, s, c)
  PROVE  /\ Running(w) /\ s \notin sigs[w] /\ sigs' = [sigs EXCEPT ![w] = sigs[w] \cup {s}]
         /\ \/ queue' = [queue EXCEPT ![w] = Over(File(s, c), queue[w])] /\ UNCHANGED child
            \/ Alive(w) /\ child' = [child EXCEPT ![w] = "failed"] /\ UNCHANGED queue
         /\ UNCHANGED <<pc, campaigns, count, overdue, should_kill, todo, per_worker, unread,
                        answer, clean, shared, findings, orphans>>
  BY DEF WorkerRecord, loop

LEMMA WorkerExitsIs ==
  ASSUME MTypeInv, NEW w \in Worker, NEW kept \in SUBSET Contents, WorkerExits(w, kept)
  PROVE  /\ Running(w)
         /\ queue' = [queue EXCEPT ![w] = Over(queue[w], [c \in kept |-> c])]
         /\ \/ w \in orphans /\ orphans' = orphans \ {w} /\ UNCHANGED child
            \/ Alive(w) /\ child' = [child EXCEPT ![w] = "ok"] /\ UNCHANGED orphans
         /\ UNCHANGED <<pc, campaigns, count, overdue, should_kill, todo, per_worker, unread,
                        answer, clean, shared, sigs, findings>>
  BY DEF WorkerExits, loop, Running

(* What the two writes of a worker leave of its directory. *)
Wrote(h, g, s, c) ==
  /\ DOMAIN h = DOMAIN g \cup {s} /\ h[s] = c
  /\ \A n \in DOMAIN g : n # s => h[n] = g[n]
LEMMA FileOver == ASSUME NEW g, NEW s, NEW c PROVE Wrote(Over(File(s, c), g), g, s, c)
  BY DEF Over, File, Wrote

LEMMA KeptOver ==
  ASSUME MTypeInv, NEW w \in Worker, NEW kept,
         queue' = [queue EXCEPT ![w] = Over(queue[w], [c \in kept |-> c])]
  PROVE  /\ DOMAIN queue'[w] = DOMAIN queue[w] \cup kept
         /\ \A n \in DOMAIN queue[w] : queue'[w][n] = queue[w][n]
         /\ \A n \in kept : n \notin DOMAIN queue[w] => queue'[w][n] = n
  <1> DEFINE h == Over(queue[w], [c \in kept |-> c])
  <1>1. queue'[w] = h
    BY DEF MTypeInv
  <1>2. /\ DOMAIN h = DOMAIN queue[w] \cup kept
        /\ \A n \in DOMAIN queue[w] : h[n] = queue[w][n]
        /\ \A n \in kept : n \notin DOMAIN queue[w] => h[n] = n
    BY DEF Over
  <1> HIDE DEF h
  <1> QED
    BY <1>1, <1>2

-----------------------------------------------------------------------------
(* The invariant is inductive. *)

LEMMA TypeNext == MTypeInv /\ SuperviseInv /\ NamesInv /\ MergeInv /\ [Next]_vars => MTypeInv'
  <1> SUFFICES ASSUME MTypeInv, SuperviseInv, NamesInv, MergeInv, [Next]_vars PROVE MTypeInv'
    OBVIOUS
  <1> USE MulticoreAssumption DEF Member
  <1>1. ASSUME BeginPass PROVE MTypeInv'
    BY <1>1, BeginPassIs DEF MTypeInv, loop, dirs, Return
  <1>2. ASSUME EndPass PROVE MTypeInv'
    BY <1>2 DEF EndPass, MTypeInv, loop, dirs, Return
  <1>3. ASSUME SortReports PROVE MTypeInv'
    BY <1>3, SortReportsIs DEF MTypeInv, loop, dirs, Return
  <1>4. ASSUME SyncFile PROVE MTypeInv'
    BY <1>4, SyncFileIs DEF MTypeInv, loop, dirs, Return
  <1>5. ASSUME Fail PROVE MTypeInv'
    BY <1>5 DEF Fail, MTypeInv, loop, dirs, Return
  <1>6. ASSUME Summarise PROVE MTypeInv'
    BY <1>6 DEF Summarise, MTypeInv, loop, dirs, Return
  <1>7. ASSUME BudgetElapses PROVE MTypeInv'
    BY <1>7 DEF BudgetElapses, MTypeInv, loop, dirs, Return
  <1>8. ASSUME NEW w \in Worker, NEW f \in Clusters, WorkerFinds(w, f) PROVE MTypeInv'
    BY <1>8 DEF WorkerFinds, MTypeInv, loop, dirs, Return
  <1>9. ASSUME UNCHANGED vars PROVE MTypeInv'
    BY <1>9 DEF vars, MTypeInv, loop, dirs, Return
  <1>20. ASSUME NEW n \in 1 .. MaxWorkers, Start(n) PROVE MTypeInv'
    <2>1. count' \in 0 .. MaxWorkers /\ campaigns' \in 0 .. MaxCampaigns /\ per_worker' \in Seq(Reports)
      BY <1>20 DEF Start, MTypeInv
    <2>2. orphans' \subseteq Worker /\ child' \in [Worker -> {"none", "running", "ok", "failed", "reaped"}]
      BY <1>20 DEF Start, MTypeInv
    <2>3. overdue' \in BOOLEAN /\ should_kill' \in BOOLEAN
      BY <1>20 DEF Start
    <2> QED
      BY <1>20, <2>1, <2>2, <2>3 DEF Start, MTypeInv, dirs
  <1>21. ASSUME TryWait PROVE MTypeInv'
    BY <1>21, TryWaitIs DEF MTypeInv, Reap, Pushed
  <1>22. ASSUME Kill PROVE MTypeInv'
    BY <1>22, KillIs DEF MTypeInv, Reap, Pushed
  <1>23. ASSUME NEW w \in Worker, NEW s \in Sigs, NEW c \in Contents, WorkerRecord(w, s, c) PROVE MTypeInv'
    <2>1. DOMAIN queue' = Worker /\ sigs' \in [Worker -> SUBSET Sigs]
          /\ child' \in [Worker -> {"none", "running", "ok", "failed", "reaped"}]
      BY <1>23, WorkerRecordIs DEF MTypeInv
    <2> QED
      BY <1>23, <2>1, WorkerRecordIs DEF MTypeInv
  <1>24. ASSUME NEW w \in Worker, NEW kept \in SUBSET Contents, WorkerExits(w, kept) PROVE MTypeInv'
    <2>1. DOMAIN queue' = Worker /\ child' \in [Worker -> {"none", "running", "ok", "failed", "reaped"}]
      BY <1>24, WorkerExitsIs DEF MTypeInv
    <2>2. orphans' \subseteq Worker
      BY <1>24, WorkerExitsIs DEF MTypeInv
    <2>3. UNCHANGED <<pc, campaigns, count, overdue, should_kill, todo, per_worker, answer, clean, sigs, findings>>
      BY <1>24, WorkerExitsIs
    <2> QED
      BY <2>1, <2>2, <2>3 DEF MTypeInv
  <1>25. ASSUME Spawn PROVE MTypeInv'
    <2>1. DOMAIN queue' = Worker /\ child' \in [Worker -> {"none", "running", "ok", "failed", "reaped"}]
      BY <1>25, SpawnIs DEF MTypeInv
    <2>2. /\ pc' \in {"spawn", "pass", "idle"} /\ answer' \in {answer, "err"}
          /\ UNCHANGED <<campaigns, count, overdue, should_kill, todo, per_worker, sigs, findings, orphans>>
      BY <1>25, SpawnIs
    <2>3. clean' \in BOOLEAN
      BY <1>25, SpawnIs DEF MTypeInv
    <2> QED
      BY <2>1, <2>2, <2>3 DEF MTypeInv
  <1> QED
    BY <1>1, <1>2, <1>3, <1>4, <1>5, <1>6, <1>7, <1>8, <1>9, <1>20, <1>21, <1>22, <1>23, <1>24, <1>25 DEF Next, Orchestrate

LEMMA SuperviseNext ==
  MTypeInv /\ SuperviseInv /\ NamesInv /\ MergeInv /\ [Next]_vars => SuperviseInv'
  <1> SUFFICES ASSUME MTypeInv, SuperviseInv, NamesInv, MergeInv, [Next]_vars PROVE SuperviseInv'
    OBVIOUS
  <1>a. DOMAIN child = Worker /\ Member \subseteq Worker
    BY WorkersAreNat DEF MTypeInv
  <1> USE DEF Finished, Supervising
  (* A step that leaves the reports and the campaign as they are. *)
  <1>b. ASSUME UNCHANGED <<per_worker, count>>
        PROVE  Reported' = Reported /\ Member' = Member
    BY <1>b DEF Reported, Member
  <1>1. ASSUME BeginPass PROVE SuperviseInv'
    BY <1>1, <1>a, <1>b, BeginPassIs DEF SuperviseInv, loop, dirs, Return
  <1>2. ASSUME EndPass PROVE SuperviseInv'
    BY <1>2, <1>a, <1>b DEF EndPass, SuperviseInv, loop, dirs, Return
  <1>3. ASSUME SyncFile PROVE SuperviseInv'
    BY <1>3, <1>a, <1>b, SyncFileIs DEF SuperviseInv, loop, dirs, Return
  <1>4. ASSUME Fail PROVE SuperviseInv'
    BY <1>4, <1>a, <1>b DEF Fail, SuperviseInv, loop, dirs, Return
  <1>5. ASSUME Summarise PROVE SuperviseInv'
    BY <1>5, <1>a, <1>b DEF Summarise, SuperviseInv, loop, dirs, Return
  <1>6. ASSUME BudgetElapses PROVE SuperviseInv'
    BY <1>6, <1>a, <1>b DEF BudgetElapses, SuperviseInv, loop, dirs, Return
  <1>7. ASSUME NEW w \in Worker, NEW f \in Clusters, WorkerFinds(w, f) PROVE SuperviseInv'
    BY <1>7, <1>a, <1>b DEF WorkerFinds, SuperviseInv, loop, dirs, Return
  <1>8. ASSUME UNCHANGED vars PROVE SuperviseInv'
    BY <1>8, <1>a, <1>b DEF vars, SuperviseInv, loop, dirs, Return
  <1>20. ASSUME NEW n \in 1 .. MaxWorkers, Start(n) PROVE SuperviseInv'
    BY <1>20 DEF Start, SuperviseInv, Reported, Member
  <1>21. ASSUME Spawn PROVE SuperviseInv'
    <2>1. /\ pc = "spawn" /\ UNCHANGED <<per_worker, count>> /\ Reported' = Reported /\ Member' = Member
          /\ DOMAIN per_worker = {} /\ Reported = {}
      BY <1>21, <1>b, SpawnIs DEF SuperviseInv, Reported
    <2>2. CASE pc' = "pass" /\ UNCHANGED child /\ \A w \in Member : child[w] # "none"
      <3>1. \A w \in Member : child[w] \in {"running", "ok", "failed"}
        BY <1>a, <2>1, <2>2 DEF SuperviseInv, MTypeInv
      <3> QED
        BY <2>1, <2>2, <3>1 DEF SuperviseInv
    <2>3. CASE pc' = pc /\ \E w \in Member : child' = [child EXCEPT ![w] = "running"]
      BY <1>a, <2>1, <2>3 DEF SuperviseInv
    <2>4. CASE pc' = "idle" /\ answer' = "err"
      BY <2>1, <2>4 DEF SuperviseInv
    <2> QED
      BY <1>21, <2>2, <2>3, <2>4, SpawnIs
  <1>22. ASSUME NEW w \in todo, NEW code, Reap(w, code), pc \in {"visit", "kill"}, pc' = "visit",
                Report(w, code).id = w, UNCHANGED <<count, answer>>
         PROVE  SuperviseInv'
    <2>1. Member' = Member /\ w \in Member /\ w \notin Reported
      BY <1>22 DEF Member, MTypeInv, SuperviseInv
    <2>2. /\ DOMAIN per_worker' = DOMAIN per_worker \cup {Len(per_worker) + 1}
          /\ \A i \in DOMAIN per_worker : per_worker'[i] = per_worker[i]
          /\ per_worker'[Len(per_worker) + 1].id = w
      BY <1>22 DEF Reap, Pushed
    <2>3. Reported' = Reported \cup {w}
      BY <2>2 DEF Reported
    <2>4. \A i \in DOMAIN per_worker : per_worker[i].id # w
      BY <2>1 DEF Reported
    <2>5. \A i, j \in DOMAIN per_worker' : per_worker'[i].id = per_worker'[j].id => i = j
      BY <2>2, <2>4 DEF SuperviseInv
    <2>6. todo' = todo \ {w} /\ child'[w] = "reaped" /\ \A v \in Worker : v # w => child'[v] = child[v]
      BY <1>22, <1>a, <2>1 DEF Reap
    <2> QED
      BY <1>22, <1>a, <2>1, <2>3, <2>5, <2>6 DEF SuperviseInv
  <1>23. ASSUME TryWait PROVE SuperviseInv'
    <2>1. PICK w \in todo :
              \/ pc' = "kill" /\ UNCHANGED <<todo, child, per_worker>>
              \/ pc' = "visit" /\ todo' = todo \ {w} /\ UNCHANGED <<child, per_worker>>
              \/ pc' = "visit" /\ ~Alive(w) /\ Reap(w, child[w])
      BY <1>23, TryWaitIs
    <2>2. pc = "visit" /\ UNCHANGED <<count, answer>>
      BY <1>23, TryWaitIs
    <2>3. CASE pc' = "kill" /\ UNCHANGED <<todo, child, per_worker>>
      BY <1>b, <2>1, <2>2, <2>3 DEF SuperviseInv
    <2>4. CASE pc' = "visit" /\ todo' = todo \ {w} /\ UNCHANGED <<child, per_worker>>
      BY <1>b, <2>1, <2>2, <2>4 DEF SuperviseInv
    <2>5. CASE pc' = "visit" /\ ~Alive(w) /\ Reap(w, child[w])
      BY <1>22, <2>2, <2>5 DEF Report
    <2> QED
      BY <2>1, <2>3, <2>4, <2>5
  <1>24. ASSUME Kill PROVE SuperviseInv'
    BY <1>22, <1>24, KillIs DEF Report
  <1>25. ASSUME SortReports PROVE SuperviseInv'
    <2>1. /\ pc = "sort" /\ pc' = "sync" /\ DOMAIN per_worker' = DOMAIN per_worker
          /\ UNCHANGED <<count, todo, child, answer>>
          /\ \A i, j \in DOMAIN per_worker : i < j => per_worker'[i].id <= per_worker'[j].id
      BY <1>25, SortReportsIs
    <2>2. PICK at \in [DOMAIN per_worker -> DOMAIN per_worker] :
              /\ \A i, j \in DOMAIN per_worker : at[i] = at[j] => i = j
              /\ \A j \in DOMAIN per_worker : \E i \in DOMAIN per_worker : at[i] = j
              /\ \A i \in DOMAIN per_worker : per_worker'[i] = per_worker[at[i]]
      BY <1>25, SortReportsIs
    <2>3. Reported' = Reported /\ Member' = Member
      BY <2>1, <2>2 DEF Reported, Member
    <2>4. \A i, j \in DOMAIN per_worker' : per_worker'[i].id = per_worker'[j].id => i = j
      BY <2>1, <2>2 DEF SuperviseInv
    <2>5. \A i, j \in DOMAIN per_worker' : i < j => per_worker'[i].id < per_worker'[j].id
      <3> SUFFICES ASSUME NEW i \in DOMAIN per_worker', NEW j \in DOMAIN per_worker', i < j
                   PROVE  per_worker'[i].id < per_worker'[j].id
        OBVIOUS
      <3>1. per_worker \in Seq(Reports) /\ DOMAIN per_worker \subseteq Nat
        BY DEF MTypeInv
      <3>2. per_worker'[i] \in Reports /\ per_worker'[j] \in Reports /\ i # j
        BY <2>1, <2>2, <3>1
      <3>3. per_worker'[i].id \in Nat /\ per_worker'[j].id \in Nat
        BY <3>2, WorkersAreNat DEF Reports
      <3>4. per_worker'[i].id <= per_worker'[j].id /\ per_worker'[i].id # per_worker'[j].id
        BY <2>1, <2>4, <3>2
      <3> QED
        BY <3>3, <3>4
    <2> QED
      BY <2>1, <2>3, <2>4, <2>5 DEF SuperviseInv
  <1>26. ASSUME NEW w \in Worker, NEW s \in Sigs, NEW c \in Contents, WorkerRecord(w, s, c) PROVE SuperviseInv'
    <2>1. \A v \in Worker : child'[v] = child[v] \/ (child[v] = "running" /\ child'[v] = "failed")
      BY <1>26, <1>a, WorkerRecordIs DEF Alive
    <2>2. UNCHANGED <<pc, count, todo, per_worker, answer>>
      BY <1>26, WorkerRecordIs
    <2> QED
      BY <1>a, <1>b, <2>1, <2>2 DEF SuperviseInv
  <1>27. ASSUME NEW w \in Worker, NEW kept \in SUBSET Contents, WorkerExits(w, kept) PROVE SuperviseInv'
    <2>1. \A v \in Worker : child'[v] = child[v] \/ (child[v] = "running" /\ child'[v] = "ok")
      BY <1>27, <1>a, WorkerExitsIs DEF Alive
    <2>2. UNCHANGED <<pc, count, todo, per_worker, answer>>
      BY <1>27, WorkerExitsIs
    <2> QED
      BY <1>a, <1>b, <2>1, <2>2 DEF SuperviseInv
  <1> QED
    BY <1>1, <1>2, <1>3, <1>4, <1>5, <1>6, <1>7, <1>8, <1>20, <1>21, <1>23, <1>24, <1>25, <1>26, <1>27 DEF Next, Orchestrate

LEMMA CleanNext ==
  MTypeInv /\ SuperviseInv /\ CleanInv /\ NamesInv /\ MergeInv /\ [Next]_vars => CleanInv'
  <1> SUFFICES ASSUME MTypeInv, SuperviseInv, CleanInv, NamesInv, MergeInv, [Next]_vars, clean'
               PROVE  CleanInv'
    BY DEF CleanInv
  <1>a. /\ DOMAIN child = Worker /\ Member \subseteq Worker /\ DOMAIN findings = Worker
        /\ per_worker \in Seq(Reports)
    BY WorkersAreNat DEF MTypeInv
  <1> USE DEF Finished, Supervising
  <1>1. ASSUME BeginPass PROVE CleanInv'
    BY <1>1, <1>a, BeginPassIs DEF CleanInv, loop, dirs, Return, Alive
  <1>2. ASSUME EndPass PROVE CleanInv'
    BY <1>2, <1>a DEF EndPass, CleanInv, loop, dirs, Return, Alive
  <1>3. ASSUME SyncFile PROVE CleanInv'
    BY <1>3, <1>a, SyncFileIs DEF CleanInv, loop, dirs, Return, Alive
  <1>4. ASSUME Fail PROVE CleanInv'
    BY <1>4, <1>a DEF Fail, CleanInv, loop, dirs, Return, Alive
  <1>5. ASSUME BudgetElapses PROVE CleanInv'
    BY <1>5, <1>a DEF BudgetElapses, CleanInv, loop, dirs, Return, Alive
  <1>6. ASSUME UNCHANGED vars PROVE CleanInv'
    BY <1>6, <1>a DEF vars, CleanInv, loop, dirs, Return, Alive
  <1>20. ASSUME NEW n \in 1 .. MaxWorkers, Start(n) PROVE CleanInv'
    BY <1>20 DEF Start, CleanInv, Alive
  <1>21. ASSUME Spawn PROVE CleanInv'
    BY <1>21, SpawnIs DEF CleanInv, Alive, SuperviseInv
  <1>22. ASSUME NEW w \in todo, NEW code, Reap(w, code), pc \in {"visit", "kill"}, pc' = "visit",
                Report(w, code).id = w, Report(w, code).findings = Cardinality(findings[w]),
                UNCHANGED <<findings, clean, orphans>>
         PROVE  CleanInv'
    <2>1. /\ DOMAIN per_worker' = DOMAIN per_worker \cup {Len(per_worker) + 1}
          /\ \A i \in DOMAIN per_worker : per_worker'[i] = per_worker[i]
          /\ per_worker'[Len(per_worker) + 1] = Report(w, code)
      BY <1>22 DEF Reap, Pushed
    <2> QED
      BY <1>22, <2>1 DEF CleanInv
  <1>23. ASSUME TryWait PROVE CleanInv'
    <2>1. PICK w \in todo :
              \/ pc' = "kill" /\ UNCHANGED <<todo, child, per_worker>>
              \/ pc' = "visit" /\ todo' = todo \ {w} /\ UNCHANGED <<child, per_worker>>
              \/ pc' = "visit" /\ ~Alive(w) /\ Reap(w, child[w])
      BY <1>23, TryWaitIs
    <2>2. pc = "visit" /\ UNCHANGED <<findings, clean, orphans>>
      BY <1>23, TryWaitIs
    <2>3. CASE pc' \in {"kill", "visit"} /\ UNCHANGED <<child, per_worker>>
      BY <2>2, <2>3 DEF CleanInv
    <2>4. CASE pc' = "visit" /\ Reap(w, child[w])
      BY <1>22, <2>2, <2>4 DEF Report
    <2> QED
      BY <2>1, <2>3, <2>4
  <1>24. ASSUME Kill PROVE CleanInv'
    BY <1>22, <1>24, KillIs DEF Report
  <1>25. ASSUME SortReports PROVE CleanInv'
    <2>1. /\ pc = "sort" /\ pc' = "sync" /\ DOMAIN per_worker' = DOMAIN per_worker
          /\ UNCHANGED <<child, clean, findings, orphans>>
      BY <1>25, SortReportsIs
    <2>2. PICK at \in [DOMAIN per_worker -> DOMAIN per_worker] :
            \A i \in DOMAIN per_worker : per_worker'[i] = per_worker[at[i]]
      BY <1>25, SortReportsIs
    <2> QED
      BY <2>1, <2>2 DEF CleanInv
  <1>26. ASSUME Summarise PROVE CleanInv'
    BY <1>26, <1>a DEF Summarise, Return, CleanInv, SuperviseInv, Alive, loop, dirs
  (* With no process left over, only a worker that is not reported writes. *)
  <1>27. ASSUME NEW w \in Worker, Running(w), clean
         PROVE  Alive(w) /\ pc # "idle" /\ (Supervising => w \notin Reported)
    BY <1>27, <1>a DEF CleanInv, Running, Alive, SuperviseInv
  <1>28. ASSUME NEW w \in Worker, NEW s \in Sigs, NEW c \in Contents, WorkerRecord(w, s, c) PROVE CleanInv'
    BY <1>27, <1>28, WorkerRecordIs DEF CleanInv
  <1>29. ASSUME NEW w \in Worker, NEW kept \in SUBSET Contents, WorkerExits(w, kept) PROVE CleanInv'
    BY <1>27, <1>29, WorkerExitsIs DEF CleanInv
  <1>30. ASSUME NEW w \in Worker, NEW f \in Clusters, WorkerFinds(w, f) PROVE CleanInv'
    <2>1. /\ Running(w) /\ UNCHANGED <<pc, answer, child, clean, orphans, per_worker>>
          /\ \A v \in Worker : v # w => findings'[v] = findings[v]
      BY <1>30, <1>a DEF WorkerFinds, loop
    <2>2. clean /\ pc # "idle" /\ (Supervising => w \notin Reported)
      BY <1>27, <2>1
    <2>3. Supervising => \A i \in DOMAIN per_worker : per_worker[i].id # w /\ per_worker[i].id \in Worker
      <3>1. \A i \in DOMAIN per_worker : per_worker[i] \in Reports
        BY <1>a
      <3>2. \A i \in DOMAIN per_worker : per_worker[i].id \in Worker
        BY <3>1 DEF Reports
      <3> QED
        BY <2>2, <3>2 DEF Reported
    <2> QED
      BY <2>1, <2>2, <2>3 DEF CleanInv
  <1> QED
    BY <1>1, <1>2, <1>3, <1>4, <1>5, <1>6, <1>20, <1>21, <1>23, <1>24, <1>25, <1>26, <1>28, <1>29, <1>30 DEF Next, Orchestrate

LEMMA NamesNext == MTypeInv /\ NamesInv /\ MergeInv /\ [Next]_vars => NamesInv'
  <1> SUFFICES ASSUME MTypeInv, NamesInv, MergeInv, [Next]_vars PROVE NamesInv'
    OBVIOUS
  <1>a. DOMAIN queue = Worker /\ DOMAIN sigs = Worker /\ Member \subseteq Worker
    BY WorkersAreNat DEF MTypeInv
  <1>b. Contents \cap Sigs = {} /\ Clash \cap (Contents \cup Sigs) = {}
    BY MulticoreAssumption DEF Clash
  <1>c. ASSUME UNCHANGED <<shared, queue, sigs>> PROVE NamesInv'
    BY <1>c DEF NamesInv, Kept
  <1>1. ASSUME NEW n \in 1 .. MaxWorkers, Start(n) PROVE NamesInv'
    BY <1>1, <1>c DEF Start, dirs, vars
  <1>2. ASSUME EndPass PROVE NamesInv'
    BY <1>2, <1>c DEF EndPass, dirs, vars
  <1>3. ASSUME Fail PROVE NamesInv'
    BY <1>3, <1>c DEF Fail, dirs, vars
  <1>4. ASSUME Summarise PROVE NamesInv'
    BY <1>4, <1>c DEF Summarise, dirs, vars
  <1>5. ASSUME BudgetElapses PROVE NamesInv'
    BY <1>5, <1>c DEF BudgetElapses, dirs, vars
  <1>6. ASSUME NEW w \in Worker, NEW f \in Clusters, WorkerFinds(w, f) PROVE NamesInv'
    BY <1>6, <1>c DEF WorkerFinds, dirs, vars
  <1>7. ASSUME UNCHANGED vars PROVE NamesInv'
    BY <1>7, <1>c DEF vars, dirs, vars
  <1>20. ASSUME BeginPass \/ SortReports PROVE NamesInv'
    BY <1>20, <1>c DEF BeginPass, SortReports, dirs
  <1>21. ASSUME TryWait \/ Kill PROVE NamesInv'
    BY <1>21, <1>c DEF TryWait, Kill, dirs
  <1>22. ASSUME Spawn PROVE NamesInv'
    <2>1. CASE queue' = queue
      BY <1>22, <2>1, <1>c, SpawnIs
    <2>2. ASSUME NEW w \in Member, queue' = [queue EXCEPT ![w] = Over(shared, queue[w])] PROVE NamesInv'
      <3>1. /\ DOMAIN queue'[w] = DOMAIN shared \cup DOMAIN queue[w]
            /\ \A n \in DOMAIN shared : queue'[w][n] = shared[n] /\ queue'[w][n] \in Kept(shared)
            /\ \A n \in DOMAIN queue[w] : n \notin DOMAIN shared => queue'[w][n] = queue[w][n]
        <4> DEFINE h == Over(shared, queue[w])
        <4>1. queue'[w] = h
          BY <1>a, <2>2
        <4>2. /\ DOMAIN h = DOMAIN shared \cup DOMAIN queue[w]
              /\ \A n \in DOMAIN shared : h[n] = shared[n]
              /\ \A n \in DOMAIN queue[w] : n \notin DOMAIN shared => h[n] = queue[w][n]
          BY DEF Over
        <4> HIDE DEF h
        <4> QED
          BY <4>1, <4>2 DEF Kept
      <3>2. \A v \in Worker : v # w => queue'[v] = queue[v]
        BY <1>a, <2>2
      <3>3. shared' = shared /\ sigs' = sigs /\ w \in Worker
        BY <1>22, <1>a, SpawnIs
      <3>4. Kept(queue'[w]) \subseteq Kept(shared) \cup Kept(queue[w])
        BY <3>1 DEF Kept
      <3> QED
        BY <3>1, <3>2, <3>3, <3>4 DEF NamesInv
    <2> QED
      BY <1>22, <2>1, <2>2, SpawnIs
  <1>23. ASSUME SyncFile PROVE NamesInv'
    <2>1. PICK i, w, n : Synced(i, w, n)
      BY <1>23, SyncFileIs
    <2>2. queue' = queue /\ sigs' = sigs
      BY <1>23, SyncFileIs
    <2>3. CASE shared' = shared
      BY <1>c, <2>2, <2>3
    <2>a. w \in Worker /\ n \in DOMAIN queue[w]
      BY <2>1 DEF Synced
    <2>4. ASSUME NEW name, NewFile(name, w, n) PROVE NamesInv'
      <3>1. Kept(shared') = Kept(shared) \cup {queue[w][n]}
        BY <2>4 DEF NewFile, Kept
      <3>2. n \in DOMAIN queue[w] /\ n \in Sigs \cup Contents /\ queue[w][n] \in Contents
        BY <2>a, <2>4 DEF NewFile, NamesInv, Kept
      <3>3. name \in Sigs \cup Contents \cup Clash
        BY <2>a, <2>4, <3>2 DEF NewFile, Clash, MTypeInv
      <3>4. name \in Contents => shared'[name] = name
        <4>1. ASSUME name \in Contents PROVE name = n
          <5>1. n \in sigs[w] => <<w, n>> \in Clash
            BY <2>a DEF Clash, MTypeInv
          <5> QED
            BY <1>b, <2>4, <4>1, <5>1 DEF NewFile
        <4> QED
          BY <2>a, <2>4, <3>2, <4>1 DEF NewFile, NamesInv
      <3>5. ASSUME NEW v \in Worker, NEW s \in Sigs, <<v, s>> \in DOMAIN shared'
            PROVE  s \in sigs[v] /\ (s \in DOMAIN queue[v] => queue[v][s] \in Kept(shared'))
        <4>1. CASE <<v, s>> \in DOMAIN shared
          BY <3>1, <4>1 DEF NamesInv
        <4>2. CASE <<v, s>> = name
          <5>1. <<v, s>> # n
            BY <2>4 DEF NewFile, Clash
          <5>2. v = w /\ s = n /\ n \in sigs[w]
            BY <2>4, <4>2, <5>1 DEF NewFile
          <5> QED
            BY <3>1, <5>2
        <4> QED
          BY <2>4, <3>5, <4>1, <4>2 DEF NewFile
      <3>6. /\ DOMAIN shared' \subseteq Sigs \cup Contents \cup Clash /\ Kept(shared') \subseteq Contents
            /\ \A c \in DOMAIN shared' \cap Contents : shared'[c] = c
        BY <2>4, <3>1, <3>2, <3>3, <3>4 DEF NewFile, NamesInv
      <3> QED
        BY <2>2, <3>1, <3>5, <3>6 DEF NamesInv
    <2> QED
      BY <2>1, <2>3, <2>4 DEF Synced
  <1>24. ASSUME NEW w \in Worker, NEW s \in Sigs, NEW c \in Contents, WorkerRecord(w, s, c) PROVE NamesInv'
    <2>1. /\ s \notin sigs[w] /\ sigs'[w] = sigs[w] \cup {s}
          /\ \A v \in Worker : v # w => sigs'[v] = sigs[v] /\ queue'[v] = queue[v]
          /\ shared' = shared
      BY <1>24, <1>a, WorkerRecordIs
    <2>2. \/ queue'[w] = queue[w]
          \/ /\ DOMAIN queue'[w] = DOMAIN queue[w] \cup {s} /\ queue'[w][s] = c
             /\ \A n \in DOMAIN queue[w] : n # s => queue'[w][n] = queue[w][n]
      <3>1. queue' = queue \/ queue' = [queue EXCEPT ![w] = Over(File(s, c), queue[w])]
        BY <1>24, WorkerRecordIs
      <3>2. CASE queue' = queue
        BY <3>2
      <3>3. CASE queue' = [queue EXCEPT ![w] = Over(File(s, c), queue[w])]
        <4>1. queue'[w] = Over(File(s, c), queue[w])
          BY <3>3, <1>a
        <4>2. Wrote(queue'[w], queue[w], s, c)
          BY <4>1, FileOver
        <4> QED
          BY <4>2 DEF Wrote
      <3> QED
        BY <3>1, <3>2, <3>3
    <2>3. <<w, s>> \notin DOMAIN shared /\ s \notin Contents /\ s \notin Clash
      BY <1>b, <2>1 DEF NamesInv
    <2>4. Kept(queue'[w]) \subseteq Kept(queue[w]) \cup {c}
      BY <2>2 DEF Kept
    <2> QED
      BY <2>1, <2>2, <2>3, <2>4 DEF NamesInv
  <1>25. ASSUME NEW w \in Worker, NEW kept \in SUBSET Contents, WorkerExits(w, kept) PROVE NamesInv'
    <2>1. sigs' = sigs /\ shared' = shared /\ \A v \in Worker : v # w => queue'[v] = queue[v]
      BY <1>25, <1>a, WorkerExitsIs
    <2>2. /\ DOMAIN queue'[w] = DOMAIN queue[w] \cup kept
          /\ \A n \in DOMAIN queue[w] : queue'[w][n] = queue[w][n]
          /\ \A n \in kept : n \notin DOMAIN queue[w] => queue'[w][n] = n
      <3>1. queue' = [queue EXCEPT ![w] = Over(queue[w], [c \in kept |-> c])]
        BY <1>25, WorkerExitsIs
      <3> QED
        BY <3>1, KeptOver
    <2>3. Kept(queue'[w]) \subseteq Kept(queue[w]) \cup kept
      BY <2>2 DEF Kept
    <2> QED
      BY <1>b, <2>1, <2>2, <2>3 DEF NamesInv
  <1> QED
    BY <1>1, <1>2, <1>3, <1>4, <1>5, <1>6, <1>7, <1>20, <1>21, <1>22, <1>23, <1>24, <1>25 DEF Next, Orchestrate

LEMMA MergeNext ==
  MTypeInv /\ SuperviseInv /\ CleanInv /\ NamesInv /\ MergeInv /\ [Next]_vars => MergeInv'
  <1> SUFFICES ASSUME MTypeInv, SuperviseInv, CleanInv, NamesInv, MergeInv, [Next]_vars
               PROVE  MergeInv'
    OBVIOUS
  <1>a. /\ DOMAIN child = Worker /\ DOMAIN queue = Worker /\ Member \subseteq Worker
        /\ \A i \in DOMAIN per_worker : per_worker[i].id \in Worker
    <2>1. \A i \in DOMAIN per_worker : per_worker[i] \in Reports
      BY DEF MTypeInv
    <2> QED
      BY <2>1, WorkersAreNat DEF MTypeInv, Reports
  <1> USE DEF Finished, Supervising
  <1>1. ASSUME EndPass PROVE MergeInv'
    BY <1>1, <1>a DEF EndPass, MergeInv, loop, dirs, Return, Kept
  <1>2. ASSUME Fail PROVE MergeInv'
    BY <1>2, <1>a DEF Fail, MergeInv, loop, dirs, Return, Kept
  <1>3. ASSUME BudgetElapses PROVE MergeInv'
    BY <1>3, <1>a DEF BudgetElapses, MergeInv, loop, dirs, Return, Kept
  <1>4. ASSUME NEW w \in Worker, NEW f \in Clusters, WorkerFinds(w, f) PROVE MergeInv'
    BY <1>4, <1>a DEF WorkerFinds, MergeInv, loop, dirs, Return, Kept
  <1>5. ASSUME UNCHANGED vars PROVE MergeInv'
    BY <1>5, <1>a DEF vars, MergeInv, loop, dirs, Return, Kept
  <1>20. ASSUME NEW n \in 1 .. MaxWorkers, Start(n) PROVE MergeInv'
    BY <1>20 DEF Start, MergeInv, dirs, Kept
  <1>21. ASSUME Spawn PROVE MergeInv'
    <2>1. pc = "spawn" /\ pc' # "sync" /\ UNCHANGED <<shared>>
      BY <1>21, SpawnIs
    <2>2. CASE pc' = "pass" /\ UNCHANGED <<clean, queue, child>>
      BY <2>1, <2>2 DEF MergeInv, Kept
    <2>3. ASSUME NEW w \in Member, queue' = [queue EXCEPT ![w] = Over(shared, queue[w])],
                 child' = [child EXCEPT ![w] = "running"], UNCHANGED <<pc, clean>>
          PROVE  MergeInv'
      BY <1>a, <2>1, <2>3 DEF MergeInv, Kept
    <2>4. CASE clean' = FALSE
      BY <2>1, <2>4 DEF MergeInv
    <2> QED
      BY <1>21, <2>2, <2>3, <2>4, SpawnIs
  <1>22. ASSUME BeginPass PROVE MergeInv'
    BY <1>22, BeginPassIs DEF MergeInv, Kept
  <1>23. ASSUME TryWait PROVE MergeInv'
    <2>1. /\ pc' \in {"kill", "visit"} /\ UNCHANGED <<clean, shared, queue>>
          /\ \A w \in Worker : child'[w] = "none" => child[w] = "none"
      BY <1>23, <1>a, TryWaitIs DEF Reap
    <2> QED
      BY <2>1 DEF MergeInv, Kept
  <1>24. ASSUME Kill PROVE MergeInv'
    <2>1. /\ pc' = "visit" /\ UNCHANGED <<clean, shared, queue>>
          /\ \A w \in Worker : child'[w] = "none" => child[w] = "none"
      BY <1>24, <1>a, KillIs DEF Reap
    <2> QED
      BY <2>1 DEF MergeInv, Kept
  <1>25. ASSUME SortReports PROVE MergeInv'
    <2>1. /\ pc = "sort" /\ pc' = "sync" /\ UNCHANGED <<child, clean, shared, queue>>
          /\ \A u \in unread' : \E i \in DOMAIN per_worker' :
               \E n \in DOMAIN queue[per_worker'[i].id] : u = <<i, n>>
          /\ \A i \in DOMAIN per_worker' : \A n \in DOMAIN queue[per_worker'[i].id] : <<i, n>> \in unread'
      BY <1>25, SortReportsIs
    <2>2. clean' => \A w \in Worker : pc' = "idle" \/ child'[w] = "none" => Kept(queue'[w]) \subseteq Kept(shared')
      BY <2>1 DEF MergeInv
    <2> QED
      BY <2>1, <2>2 DEF MergeInv
  <1>26. ASSUME SyncFile PROVE MergeInv'
    <2>1. PICK i, w, n : Synced(i, w, n)
      BY <1>26, SyncFileIs
    <2>2. pc' = "sync" /\ UNCHANGED <<pc, per_worker, child, clean, queue>>
      BY <1>26, SyncFileIs
    <2>3. Kept(shared) \subseteq Kept(shared') /\ queue[w][n] \in Kept(shared')
      <3>1. CASE shared' = shared /\ queue[w][n] \in Kept(shared)
        BY <3>1
      <3>2. ASSUME NEW name, NewFile(name, w, n)
            PROVE  Kept(shared) \subseteq Kept(shared') /\ queue[w][n] \in Kept(shared')
        BY <3>2 DEF NewFile, Kept
      <3> QED
        BY <2>1, <3>1, <3>2 DEF Synced
    <2>4. \A u \in unread' : \E j \in DOMAIN per_worker : \E m \in DOMAIN queue[per_worker[j].id] : u = <<j, m>>
      BY <2>1, <2>2 DEF MergeInv, Synced
    <2>5. clean => \A j \in DOMAIN per_worker : \A m \in DOMAIN queue[per_worker[j].id] :
                     <<j, m>> \in unread' \/ queue[per_worker[j].id][m] \in Kept(shared')
      BY <2>1, <2>2, <2>3 DEF MergeInv, Synced
    <2>6. clean => \A v \in Worker : pc = "idle" \/ child[v] = "none" => Kept(queue[v]) \subseteq Kept(shared')
      BY <2>3 DEF MergeInv
    <2> QED
      BY <2>2, <2>4, <2>5, <2>6 DEF MergeInv
  <1>27. ASSUME Summarise PROVE MergeInv'
    <2>1. pc = "sync" /\ pc' = "idle" /\ unread = {} /\ clean' = clean /\ UNCHANGED <<shared, queue>>
      BY <1>27 DEF Summarise, Return, dirs, MTypeInv
    <2>2. ASSUME clean, NEW w \in Worker PROVE Kept(queue[w]) \subseteq Kept(shared)
      <3>1. CASE w \in Member
        <4>1. PICK i \in DOMAIN per_worker : per_worker[i].id = w
          BY <2>1, <3>1 DEF SuperviseInv, Reported
        <4> QED
          BY <2>1, <2>2, <4>1 DEF MergeInv, Kept
      <3>2. CASE w \notin Member
        BY <2>1, <2>2, <3>2 DEF MergeInv, SuperviseInv
      <3> QED
        BY <3>1, <3>2
    <2> QED
      BY <2>1, <2>2 DEF MergeInv
  <1>28. ASSUME NEW w \in Worker, Running(w),
                UNCHANGED <<pc, per_worker, unread, clean, shared>>,
                DOMAIN queue[w] \subseteq DOMAIN queue'[w],
                \A v \in Worker : v # w => queue'[v] = queue[v] /\ child'[v] = child[v],
                Alive(w) => child'[w] # "none"
         PROVE  MergeInv'
    <2>1. \A v \in Worker : DOMAIN queue[v] \subseteq DOMAIN queue'[v]
      BY <1>28
    <2>2. \A u \in unread' : pc' = "sync" => \E i \in DOMAIN per_worker : \E n \in DOMAIN queue'[per_worker[i].id] : u = <<i, n>>
      BY <1>28, <1>a, <2>1 DEF MergeInv
    <2>3. ASSUME clean PROVE Alive(w) /\ pc # "idle" /\ pc # "sync" /\ child'[w] # "none"
      BY <1>28, <1>a, <2>3 DEF CleanInv, Running, Alive, SuperviseInv
    <2> QED
      BY <1>28, <2>2, <2>3 DEF MergeInv
  <1>29. ASSUME NEW w \in Worker, NEW s \in Sigs, NEW c \in Contents, WorkerRecord(w, s, c) PROVE MergeInv'
    <2>1. /\ Running(w) /\ UNCHANGED <<pc, per_worker, unread, clean, shared>>
          /\ \A v \in Worker : v # w => queue'[v] = queue[v] /\ child'[v] = child[v]
          /\ Alive(w) => child'[w] # "none"
      BY <1>29, <1>a, WorkerRecordIs DEF Alive
    <2>2. DOMAIN queue[w] \subseteq DOMAIN queue'[w]
      <3>1. queue' = queue \/ queue' = [queue EXCEPT ![w] = Over(File(s, c), queue[w])]
        BY <1>29, WorkerRecordIs
      <3>2. CASE queue' = queue
        BY <3>2
      <3>3. CASE queue' = [queue EXCEPT ![w] = Over(File(s, c), queue[w])]
        <4>1. queue'[w] = Over(File(s, c), queue[w])
          BY <3>3, <1>a
        <4>2. Wrote(queue'[w], queue[w], s, c)
          BY <4>1, FileOver
        <4> QED
          BY <4>2 DEF Wrote
      <3> QED
        BY <3>1, <3>2, <3>3
    <2> QED
      BY <1>28, <2>1, <2>2
  <1>30. ASSUME NEW w \in Worker, NEW kept \in SUBSET Contents, WorkerExits(w, kept) PROVE MergeInv'
    <2>1. /\ Running(w) /\ UNCHANGED <<pc, per_worker, unread, clean, shared>>
          /\ \A v \in Worker : v # w => queue'[v] = queue[v] /\ child'[v] = child[v]
          /\ Alive(w) => child'[w] # "none"
      BY <1>30, <1>a, WorkerExitsIs DEF Alive
    <2>2. DOMAIN queue[w] \subseteq DOMAIN queue'[w]
      <3>1. queue' = [queue EXCEPT ![w] = Over(queue[w], [c \in kept |-> c])]
        BY <1>30, WorkerExitsIs
      <3> HIDE DEF Finished, Supervising
      <3>2. DOMAIN queue'[w] = DOMAIN queue[w] \cup kept
        BY ONLY MTypeInv, w \in Worker, <3>1, KeptOver
      <3> QED
        BY <3>2
    <2> QED
      BY <1>28, <2>1, <2>2
  <1> QED
    BY <1>1, <1>2, <1>3, <1>4, <1>5, <1>20, <1>21, <1>22, <1>23, <1>24, <1>25, <1>26, <1>27, <1>29, <1>30 DEF Next, Orchestrate

-----------------------------------------------------------------------------
LEMMA MulticoreInit == Init => MulticoreInv
  <1> SUFFICES ASSUME Init PROVE MulticoreInv
    OBVIOUS
  <1>1. DOMAIN Empty = {} /\ Kept(Empty) = {}
    BY DEF Empty, Kept
  <1>2. /\ pc = "idle" /\ answer = "none" /\ unread = {} /\ shared = Empty /\ orphans = {}
        /\ \A w \in Worker : queue[w] = Empty /\ child[w] = "none"
    BY DEF Init
  <1>3. per_worker = <<>> /\ per_worker \in Seq(Reports) /\ DOMAIN per_worker = {}
    BY DEF Init
  <1>4. MTypeInv
    <2>1. 0 \in 0 .. MaxCampaigns /\ 0 \in 0 .. MaxWorkers
      BY MulticoreAssumption
    <2>2. child \in [Worker -> {"none", "running", "ok", "failed", "reaped"}]
      BY DEF Init
    <2>3. /\ sigs \in [Worker -> SUBSET Sigs] /\ findings \in [Worker -> SUBSET Clusters]
          /\ orphans \subseteq Worker /\ DOMAIN queue = Worker
      BY DEF Init
    <2>4. /\ pc = "idle" /\ campaigns = 0 /\ count = 0 /\ todo = {} /\ answer = "none"
          /\ overdue \in BOOLEAN /\ should_kill \in BOOLEAN /\ clean \in BOOLEAN
      BY DEF Init
    <2> QED
      BY <1>3, <2>1, <2>2, <2>3, <2>4 DEF MTypeInv
  <1>5. SuperviseInv
    BY <1>2, <1>3 DEF SuperviseInv, Reported, Supervising, Finished
  <1>6. CleanInv
    BY <1>2, <1>3 DEF CleanInv, Supervising, Finished, Alive
  <1>7. NamesInv
    BY <1>1, <1>2 DEF NamesInv
  <1>8. MergeInv
    BY <1>1, <1>2 DEF MergeInv
  <1> QED
    BY <1>4, <1>5, <1>6, <1>7, <1>8 DEF MulticoreInv

LEMMA MulticoreInvAlways == Spec => []MulticoreInv
  <1>1. MulticoreInv /\ [Next]_vars => MulticoreInv'
    BY TypeNext, SuperviseNext, CleanNext, NamesNext, MergeNext DEF MulticoreInv
  <1> QED
    BY <1>1, MulticoreInit, PTL DEF Spec

-----------------------------------------------------------------------------
(* What follows from it. *)

(* Strictly growing ids that are exactly 0 .. count - 1 are the positions.  *)
LEMMA IdsArePositions ==
  ASSUME NEW f, NEW n \in Nat, NEW k \in Nat, f \in [1 .. n -> 0 .. (k - 1)],
         \A i, j \in 1 .. n : i < j => f[i] < f[j],
         \A v \in 0 .. (k - 1) : \E i \in 1 .. n : f[i] = v
  PROVE  n = k /\ \A i \in 1 .. n : f[i] = i - 1
  <1>1. ASSUME NEW m \in 0 .. n, NEW p \in Nat,
               \A i \in 1 .. m : f[i] < p, p <= k,
               \A v \in 0 .. (p - 1) : \E i \in 1 .. m : f[i] = v
        PROVE  m = p
    <2> DEFINE g == [i \in 1 .. m |-> f[i]]
    <2>1. \A i \in 1 .. m : g[i] = f[i] /\ i \in 1 .. n /\ f[i] \in Nat
      OBVIOUS
    <2>2. g \in [1 .. m -> 0 .. (p - 1)]
      BY <1>1, <2>1
    <2>3. \A i, j \in 1 .. m : g[i] = g[j] => i = j
      <3> SUFFICES ASSUME NEW i \in 1 .. m, NEW j \in 1 .. m, i # j PROVE g[i] # g[j]
        OBVIOUS
      <3>1. i < j \/ j < i
        OBVIOUS
      <3>2. f[i] < f[j] \/ f[j] < f[i]
        BY <2>1, <3>1
      <3>3. f[i] # f[j]
        BY <2>1, <3>2
      <3> QED
        BY <2>1, <3>3
    <2>4. \A v \in 0 .. (p - 1) : \E i \in 1 .. m : g[i] = v
      BY <1>1, <2>1
    <2> HIDE DEF g
    <2>5. g \in Bijection(1 .. m, 0 .. (p - 1))
      BY <2>2, <2>3, <2>4 DEF Bijection, Injection, Surjection, IsInjective
    <2>6. /\ IsFiniteSet(1 .. m) /\ Cardinality(1 .. m) = m
      <3>1. m \in Int /\ 1 \in Int
        OBVIOUS
      <3> QED
        BY <3>1, FS_Interval
    <2>7. Cardinality(0 .. (p - 1)) = p
      <3>1. p - 1 \in Int /\ 0 \in Int
        OBVIOUS
      <3> QED
        BY <3>1, FS_Interval
    <2>8. ExistsBijection(1 .. m, 0 .. (p - 1))
      BY <2>5 DEF ExistsBijection
    <2> QED
      BY <2>6, <2>7, <2>8, FS_Bijection
  <1>2. n = k
    <2>1. n \in 0 .. n /\ k <= k
      OBVIOUS
    <2>2. \A i \in 1 .. n : f[i] < k
      OBVIOUS
    <2> QED
      BY <1>1, <2>1, <2>2
  <1>3. ASSUME NEW i \in 1 .. n PROVE f[i] = i - 1
    <2> DEFINE m == i - 1
    <2> DEFINE p == f[i]
    <2>1. m \in 0 .. n /\ p \in Nat /\ p <= k /\ p < k /\ i \in 1 .. n
      OBVIOUS
    <2>2. \A j \in 1 .. m : f[j] < p
      OBVIOUS
    <2>3. \A v \in 0 .. (p - 1) : \E j \in 1 .. m : f[j] = v
      <3> SUFFICES ASSUME NEW v \in 0 .. (p - 1) PROVE \E j \in 1 .. m : f[j] = v
        OBVIOUS
      <3>1. PICK j \in 1 .. n : f[j] = v
        OBVIOUS
      <3>2. f[j] < f[i] /\ f[j] \in Int /\ f[i] \in Int
        BY <3>1
      <3>3. ~(i < j) /\ i # j
        <4>1. CASE i < j
          BY <3>2, <4>1
        <4>2. CASE i = j
          BY <3>2, <4>2
        <4> QED
          BY <4>1, <4>2
      <3>4. j \in 1 .. m
        BY <3>3
      <3> QED
        BY <3>1, <3>4
    <2>4. m = p
      <3> HIDE DEF m, p
      <3> QED
        BY <1>1, <2>1, <2>2, <2>3
    <2> QED
      BY <2>4
  <1> QED
    BY <1>2, <1>3

(* Multicore's summary: one report per worker, in the order of their ids,   *)
(* no process of the campaign left, and counts of findings that still hold. *)
THEOREM MulticoreSummaryTrue == Spec => []SummaryIsTrue
  <1>1. MulticoreInv => SummaryIsTrue
    <2> SUFFICES ASSUME MTypeInv, SuperviseInv, CleanInv, pc = "idle", answer = "ok"
                 PROVE  /\ Len(per_worker) = count
                        /\ \A i \in 1 .. count : per_worker[i].id = i - 1
                        /\ \A w \in Member : child[w] = "reaped"
                        /\ clean => \A i \in DOMAIN per_worker :
                             per_worker[i].findings = Cardinality(findings[per_worker[i].id])
      BY DEF MulticoreInv, SummaryIsTrue
    <2>1. Finished /\ Supervising /\ Reported = Member
      BY DEF Finished, Supervising, SuperviseInv
    <2>2. \A w \in Member : child[w] = "reaped"
      BY <2>1 DEF SuperviseInv
    <2>3. clean => \A i \in DOMAIN per_worker :
                     per_worker[i].findings = Cardinality(findings[per_worker[i].id])
      BY <2>1 DEF CleanInv
    <2>4. /\ Len(per_worker) \in Nat /\ DOMAIN per_worker = 1 .. Len(per_worker)
          /\ count \in Nat /\ count <= MaxWorkers
      BY MulticoreAssumption DEF MTypeInv
    <2>5. Member = 0 .. (count - 1)
      BY <2>4, MulticoreAssumption DEF Member, Worker
    <2> DEFINE f == [i \in 1 .. Len(per_worker) |-> per_worker[i].id]
    <2>6. f \in [1 .. Len(per_worker) -> 0 .. (count - 1)]
      BY <2>1, <2>4, <2>5 DEF Reported
    <2>7. \A i, j \in 1 .. Len(per_worker) : i < j => f[i] < f[j]
      BY <2>1, <2>4 DEF SuperviseInv
    <2>8. \A v \in 0 .. (count - 1) : \E i \in 1 .. Len(per_worker) : f[i] = v
      BY <2>1, <2>4, <2>5 DEF Reported
    <2>9. \A i \in 1 .. Len(per_worker) : f[i] = per_worker[i].id
      OBVIOUS
    <2> HIDE DEF f
    <2>10. Len(per_worker) = count /\ \A i \in 1 .. Len(per_worker) : f[i] = i - 1
      BY <2>4, <2>6, <2>7, <2>8, IdsArePositions
    <2> QED
      BY <2>2, <2>3, <2>9, <2>10
  <1> QED
    BY <1>1, MulticoreInvAlways, PTL

(* After a merge the shared queue has every input of every worker, the      *)
(* clashes that sync_worker_corpora renames included.                       *)
THEOREM MulticoreImportsAll == Spec => []EverythingImported
  <1>1. MulticoreInv => EverythingImported
    BY WorkersAreNat DEF MulticoreInv, MergeInv, EverythingImported
  <1> QED
    BY <1>1, MulticoreInvAlways, PTL

(* No step loses an input of the shared queue, and none of a worker's       *)
(* directory while no campaign has failed: neither the copy that            *)
(* overwrites files of a reused directory, nor a signature recorded again,  *)
(* nor a kill.                                                              *)
THEOREM MulticoreLosesNothing == Spec => NothingLost
  <1>1. MulticoreInv /\ [Next]_vars
          => /\ Kept(shared) \subseteq Kept(shared')
             /\ clean' => Retained \subseteq Retained'
    <2> SUFFICES ASSUME MTypeInv, NamesInv, MergeInv, [Next]_vars
                 PROVE  /\ Kept(shared) \subseteq Kept(shared')
                        /\ clean' => Retained \subseteq Retained'
      BY DEF MulticoreInv
    <2>a. DOMAIN queue = Worker /\ Member \subseteq Worker
      BY WorkersAreNat DEF MTypeInv
    <2> DEFINE Goal == /\ Kept(shared) \subseteq Kept(shared')
                       /\ clean' => Retained \subseteq Retained'
    <2>b. ASSUME UNCHANGED <<shared, queue>> PROVE Goal
      BY <2>b DEF Retained, Kept
    <2>c. ASSUME shared' = shared, NEW w \in Worker, \A v \in Worker : v # w => queue'[v] = queue[v],
                 Kept(queue[w]) \subseteq Kept(queue'[w]) \cup Kept(shared)
          PROVE  Goal
      BY <2>c DEF Retained
    <2>1. ASSUME \/ \E n \in 1 .. MaxWorkers : Start(n)
                 \/ BeginPass \/ TryWait \/ Kill \/ EndPass \/ SortReports \/ Fail \/ Summarise
                 \/ BudgetElapses \/ UNCHANGED vars
                 \/ \E w \in Worker, f \in Clusters : WorkerFinds(w, f)
          PROVE  Goal
      <3>1. UNCHANGED <<shared, queue>>
        BY <2>1 DEF Start, BeginPass, TryWait, Kill, EndPass, SortReports, Fail, Summarise,
                    BudgetElapses, WorkerFinds, dirs, vars
      <3> QED
        BY <2>b, <3>1
    <2>2. ASSUME Spawn PROVE Goal
      <3>1. CASE queue' = queue
        BY <2>2, <2>b, <3>1, SpawnIs
      <3>2. CASE clean' = FALSE
        BY <2>2, <3>2, SpawnIs
      <3>3. ASSUME NEW w \in Member, child[w] = "none", UNCHANGED clean,
                   queue' = [queue EXCEPT ![w] = Over(shared, queue[w])]
            PROVE  Goal
        <4>1. shared' = shared /\ \A v \in Worker : v # w => queue'[v] = queue[v]
          BY <2>2, <2>a, <3>3, SpawnIs
        <4>2. CASE clean
          BY <2>a, <2>c, <3>3, <4>1, <4>2 DEF MergeInv
        <4>3. CASE ~clean
          BY <3>3, <4>1, <4>3
        <4> QED
          BY <4>2, <4>3
      <3> QED
        BY <2>2, <3>1, <3>2, <3>3, SpawnIs
    <2>3. ASSUME SyncFile PROVE Goal
      <3>1. PICK i, w, n : Synced(i, w, n)
        BY <2>3, SyncFileIs
      <3>2. queue' = queue
        BY <2>3, SyncFileIs
      <3>3. Kept(shared) \subseteq Kept(shared')
        <4>1. CASE shared' = shared
          BY <4>1
        <4>2. ASSUME NEW name, NewFile(name, w, n) PROVE Kept(shared) \subseteq Kept(shared')
          BY <4>2 DEF NewFile, Kept
        <4> QED
          BY <3>1, <4>1, <4>2 DEF Synced
      <3> QED
        BY <3>2, <3>3 DEF Retained
    <2>4. ASSUME NEW w \in Worker, NEW s \in Sigs, NEW c \in Contents, WorkerRecord(w, s, c) PROVE Goal
      <3>1. shared' = shared /\ s \notin sigs[w] /\ \A v \in Worker : v # w => queue'[v] = queue[v]
        BY <2>4, <2>a, WorkerRecordIs
      <3>2. queue' = queue \/ queue' = [queue EXCEPT ![w] = Over(File(s, c), queue[w])]
        BY <2>4, WorkerRecordIs
      <3>3. CASE queue' = queue
        BY <2>b, <3>1, <3>3
      <3>4. CASE queue' = [queue EXCEPT ![w] = Over(File(s, c), queue[w])]
        <4>1. /\ DOMAIN queue'[w] = DOMAIN queue[w] \cup {s}
              /\ \A n \in DOMAIN queue[w] : n # s => queue'[w][n] = queue[w][n]
          <5>1. queue'[w] = Over(File(s, c), queue[w])
            BY <3>4, <2>a
          <5>2. Wrote(queue'[w], queue[w], s, c)
            BY <5>1, FileOver
          <5> QED
            BY <5>2 DEF Wrote
        <4>2. s \in DOMAIN queue[w] => queue[w][s] \in Kept(shared)
          BY <3>1 DEF NamesInv
        <4>3. Kept(queue[w]) \subseteq Kept(queue'[w]) \cup Kept(shared)
          BY <4>1, <4>2 DEF Kept
        <4> QED
          BY <2>c, <3>1, <4>3
      <3> QED
        BY <3>2, <3>3, <3>4
    <2>5. ASSUME NEW w \in Worker, NEW kept \in SUBSET Contents, WorkerExits(w, kept) PROVE Goal
      <3>1. shared' = shared /\ \A v \in Worker : v # w => queue'[v] = queue[v]
        BY <2>5, <2>a, WorkerExitsIs
      <3>2. queue' = [queue EXCEPT ![w] = Over(queue[w], [c \in kept |-> c])]
        BY <2>5, WorkerExitsIs
      <3>3. /\ DOMAIN queue'[w] = DOMAIN queue[w] \cup kept
            /\ \A n \in DOMAIN queue[w] : queue'[w][n] = queue[w][n]
        BY <3>2, KeptOver
      <3>4. Kept(queue[w]) \subseteq Kept(queue'[w])
        BY <3>3 DEF Kept
      <3> QED
        BY <2>c, <3>1, <3>4
    <2> QED
      BY <2>1, <2>2, <2>3, <2>4, <2>5 DEF Next, Orchestrate
  <1> QED
    BY <1>1, MulticoreInvAlways, PTL DEF Spec, NothingLost

(* The orchestrator and the directories keep their types, and no worker is  *)
(* reported twice.                                                          *)
THEOREM MulticoreTypeCorrect == Spec => []TypeOK
  <1>1. MulticoreInv => TypeOK
    <2> SUFFICES ASSUME MTypeInv, SuperviseInv, NamesInv PROVE TypeOK
      BY DEF MulticoreInv
    <2>1. Len(per_worker) = Cardinality(Reported)
      <3> DEFINE n == Len(per_worker)
      <3> DEFINE f == [i \in 1 .. n |-> per_worker[i].id]
      <3>1. n \in Nat /\ DOMAIN per_worker = 1 .. n
        BY DEF MTypeInv
      <3> HIDE DEF n
      <3>2. \A i \in 1 .. n : f[i] = per_worker[i].id
        OBVIOUS
      <3>3. f \in [1 .. n -> Reported]
        BY <3>1 DEF Reported
      <3> HIDE DEF f
      <3>4. \A i, j \in 1 .. n : f[i] = f[j] => i = j
        BY <3>1, <3>2 DEF SuperviseInv
      <3>5. \A v \in Reported : \E i \in 1 .. n : f[i] = v
        BY <3>1, <3>2 DEF Reported
      <3>6. f \in Bijection(1 .. n, Reported)
        BY <3>3, <3>4, <3>5 DEF Bijection, Injection, Surjection, IsInjective
      <3>7. IsFiniteSet(1 .. n) /\ Cardinality(1 .. n) = n
        BY <3>1, FS_Interval
      <3>8. ExistsBijection(1 .. n, Reported)
        BY <3>6 DEF ExistsBijection
      <3>9. n = Cardinality(Reported)
        BY <3>7, <3>8, FS_Bijection
      <3> QED
        BY <3>9 DEF n
    <2> QED
      BY <2>1 DEF MTypeInv, SuperviseInv, NamesInv, TypeOK
  <1> QED
    BY <1>1, MulticoreInvAlways, PTL
===============================================================================
