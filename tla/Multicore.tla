------------------------------- MODULE Multicore -------------------------------
(***************************************************************************)
(* Multi-core fuzzing campaigns (crates/multicore_fuzz): one orchestrator  *)
(* starts a `govfuzz fuzz` process per worker directory, supervises them,  *)
(* and merges their queues into the shared queue of the harness.  Several  *)
(* campaigns run one after the other over the same work directory, whose   *)
(* worker directories are reused.                                          *)
(*                                                                         *)
(* A queue maps file names to contents.  CorpusManager::record names an    *)
(* input after the signature it showed, so two workers may use one name    *)
(* for two inputs; the coverage corpus is named after its content.  The    *)
(* merge renames a clash to <<worker, name>> (worker-N-name in the code).  *)
(***************************************************************************)
EXTENDS Naturals, Sequences, FiniteSets, Functions

CONSTANTS
  MaxWorkers,    \* bound on the worker count
  Contents,      \* inputs
  Sigs,          \* event signatures
  Clusters,      \* findings a worker may write
  MaxCampaigns,  \* bound on campaigns
  Timed,         \* campaigns have a time budget
  MaxKept,       \* bound on the coverage corpus of one run
  Faults         \* SUBSET {"spawn", "io", "die"}

Worker == 0 .. (MaxWorkers - 1)

ASSUME MulticoreAssumption ==
  /\ MaxWorkers \in Nat \ {0} /\ MaxCampaigns \in Nat /\ MaxKept \in Nat
  /\ Timed \in BOOLEAN /\ Contents \cap Sigs = {} /\ Faults \subseteq {"spawn", "io", "die"}
  /\ IsFiniteSet(Contents) /\ IsFiniteSet(Clusters)
  /\ (Worker \X Sigs) \cap (Contents \cup Sigs) = {}   \* a name tells its kind

VARIABLES
  pc,          \* where run_multicore is
  campaigns,   \* campaigns started
  count,       \* workers of this campaign
  overdue,     \* budget and grace have elapsed
  should_kill, \* what the present pass decided at its start
  todo,        \* workers the present pass has not looked at
  child,       \* state of each worker's process
  per_worker,  \* WorkerReports, in the order they were pushed
  unread,      \* files of each worker the merge has not handled
  answer,      \* what the last campaign returned
  clean,       \* no campaign has failed so far (history)
  shared,      \* the shared queue
  queue, sigs, findings,  \* each worker directory
  orphans      \* workers whose process outlived its campaign

loop == <<overdue, should_kill, todo, per_worker>>
dirs == <<queue, sigs, findings>>
vars == <<pc, campaigns, count, loop, child, unread, answer, clean,
          shared, dirs, orphans>>

Kept(q) == {q[n] : n \in DOMAIN q}
Member == {w \in Worker : w < count}
Lowest(S) == CHOOSE w \in S : \A v \in S : w <= v
Empty == [n \in {} |-> 0]
Over(f, g) == [n \in DOMAIN f \cup DOMAIN g |-> IF n \in DOMAIN f THEN f[n] ELSE g[n]]
File(name, content) == [n \in {name} |-> content]

Init ==
  /\ pc = "idle" /\ campaigns = 0 /\ count = 0
  /\ overdue = FALSE /\ should_kill = FALSE /\ todo = {} /\ per_worker = <<>>
  /\ child = [w \in Worker |-> "none"]
  /\ unread = {} /\ answer = "none" /\ clean = TRUE
  /\ shared = Empty
  /\ queue = [w \in Worker |-> Empty] /\ sigs = [w \in Worker |-> {}]
  /\ findings = [w \in Worker |-> {}]
  /\ orphans = {}

Alive(w) == child[w] = "running"
Report(w, code) == [id |-> w, code |-> code, findings |-> Cardinality(findings[w])]
Reported == {per_worker[i].id : i \in DOMAIN per_worker}

-----------------------------------------------------------------------------
(* Variants with a plausible mistake each. *)

(* A worker is asked to end and reported without waiting for its end. *)
KillWithoutWait ==
  /\ pc = "kill"
  /\ LET w == Lowest(todo) IN
       /\ per_worker' = Append(per_worker, Report(w, "none"))
       /\ todo' = todo \ {w}
  /\ pc' = "visit"
  /\ UNCHANGED <<campaigns, count, overdue, should_kill, child, unread, answer,
                 clean, shared, dirs, orphans>>

(* A file whose name the shared queue has is skipped. *)
ImportedByName(w, n) == IF n \in DOMAIN shared THEN shared ELSE Over(File(n, queue[w][n]), shared)

(* The deadline is enforced by the workers alone. *)
BeginPassTrusting ==
  /\ pc = "pass"
  /\ LET pending == Member \ Reported IN
       IF pending = {}
         THEN pc' = "sort" /\ UNCHANGED <<todo, should_kill>>
         ELSE pc' = "visit" /\ todo' = pending /\ should_kill' = FALSE
  /\ UNCHANGED <<campaigns, count, overdue, per_worker, child, unread,
                 answer, clean, shared, dirs, orphans>>

-----------------------------------------------------------------------------
(* The orchestrator. *)

Start(n) ==
  /\ pc = "idle" /\ campaigns < MaxCampaigns
  /\ pc' = "spawn" /\ campaigns' = campaigns + 1
  /\ count' = n
  /\ overdue' = FALSE /\ should_kill' = FALSE /\ todo' = {} /\ unread' = {}
  /\ per_worker' = <<>> /\ answer' = "none"
  /\ orphans' = orphans \cup {w \in Worker : Alive(w)}
  /\ child' = [w \in Worker |-> "none"]
  /\ UNCHANGED <<clean, shared, dirs>>

Return(result) ==
  /\ pc' = "idle" /\ answer' = result
  /\ clean' = (clean /\ result = "ok")

(* copy_shared_queue_to_worker: same names are overwritten. *)
Copied(w) == Over(shared, queue[w])

(* One turn of the spawn loop.  A spawn that fails for another reason than  *)
(* the two it rides out leaves run_multicore, and the earlier workers run   *)
(* on.                                                                      *)
Spawn ==
  /\ pc = "spawn"
  /\ LET waiting == {w \in Member : child[w] = "none"} IN
       IF waiting = {}
         THEN /\ pc' = "pass" /\ UNCHANGED <<answer, clean, queue, child>>
         ELSE LET w == Lowest(waiting) IN
              /\ queue' = [queue EXCEPT ![w] = Copied(w)]
              /\ \/ /\ child' = [child EXCEPT ![w] = "running"]
                    /\ UNCHANGED <<pc, answer, clean>>
                 \/ "spawn" \in Faults /\ Return("err") /\ UNCHANGED child
  /\ UNCHANGED <<campaigns, count, loop, unread, shared, sigs,
                 findings, orphans>>

(* A pass over the pending workers decides about killing once. *)
BeginPass ==
  /\ pc = "pass"
  /\ LET pending == Member \ Reported IN
       IF pending = {}
         THEN pc' = "sort" /\ UNCHANGED <<todo, should_kill>>
         ELSE pc' = "visit" /\ todo' = pending /\ should_kill' = overdue
  /\ UNCHANGED <<campaigns, count, overdue, per_worker, child, unread,
                 answer, clean, shared, dirs, orphans>>

TryWait ==
  /\ pc = "visit" /\ todo # {}
  /\ LET w == Lowest(todo) IN
       IF Alive(w) /\ should_kill
         THEN pc' = "kill" /\ UNCHANGED <<todo, child, per_worker>>
         ELSE /\ todo' = todo \ {w} /\ UNCHANGED pc
              /\ per_worker' = IF Alive(w) THEN per_worker
                               ELSE Append(per_worker, Report(w, child[w]))
              /\ child' = IF Alive(w) THEN child ELSE [child EXCEPT ![w] = "reaped"]
  /\ UNCHANGED <<campaigns, count, overdue, should_kill, unread,
                 answer, clean, shared, dirs, orphans>>

(* kill and wait; a worker that has ended since try_wait counts as killed. *)
Kill ==
  /\ pc = "kill"
  /\ LET w == Lowest(todo) IN
       /\ child' = [child EXCEPT ![w] = "reaped"]
       /\ per_worker' = Append(per_worker, Report(w, "none"))
       /\ todo' = todo \ {w}
  /\ pc' = "visit"
  /\ UNCHANGED <<campaigns, count, overdue, should_kill, unread,
                 answer, clean, shared, dirs, orphans>>

EndPass ==
  /\ pc = "visit" /\ todo = {}
  /\ pc' = "pass" /\ should_kill' = FALSE
  /\ UNCHANGED <<campaigns, count, overdue, todo, per_worker, child, unread, answer, clean,
                 shared, dirs, orphans>>

(* per_worker.sort_by_key, and the listing of the files to merge. *)
Sorted(reports) ==
  {[i \in DOMAIN reports |-> reports[at[i]]] : at \in
     {p \in Bijection(DOMAIN reports, DOMAIN reports) :
        \A i, j \in DOMAIN reports : i < j => reports[p[i]].id <= reports[p[j]].id}}

(* A variant with a plausible mistake: only workers that completed are merged. *)
SortReportsCompleted ==
  /\ pc = "sort"
  /\ per_worker' \in Sorted(per_worker)
  /\ unread' = UNION {{<<i, n>> : n \in DOMAIN queue[per_worker'[i].id]} :
                       i \in {j \in DOMAIN per_worker' : per_worker'[j].code = "ok"}}
  /\ pc' = "sync"
  /\ UNCHANGED <<campaigns, count, overdue, should_kill, todo, child, answer,
                 clean, shared, dirs, orphans>>

SortReports ==
  /\ pc = "sort"
  /\ per_worker' \in Sorted(per_worker)
  /\ unread' = UNION {{<<i, n>> : n \in DOMAIN queue[per_worker'[i].id]} :
                       i \in DOMAIN per_worker}
  /\ pc' = "sync"
  /\ UNCHANGED <<campaigns, count, overdue, should_kill, todo, child,
                 answer, clean, shared, dirs, orphans>>

(* sync_worker_corpora, one file: an input the shared queue has is skipped, *)
(* another is written under its name, or under the worker's if that is      *)
(* taken.  Workers come in the order of the reports, the files of a worker  *)
(* in any order (the code sorts them).                                      *)
Destination(w, n) == IF n \in DOMAIN shared THEN <<w, n>> ELSE n

Imported(w, n) == Over(File(Destination(w, n), queue[w][n]), shared)

SyncFile ==
  /\ pc = "sync" /\ unread # {}
  /\ LET i == Lowest({u[1] : u \in unread}) IN
       \E n \in {u[2] : u \in {v \in unread : v[1] = i}} :
         LET w == per_worker[i].id IN
         /\ unread' = unread \ {<<i, n>>}
         /\ shared' = IF queue[w][n] \in Kept(shared) THEN shared ELSE Imported(w, n)
  /\ UNCHANGED <<pc, campaigns, count, loop, child, answer, clean,
                 dirs, orphans>>

(* Any of the `?` of the supervision and the merge: try_wait, a file that   *)
(* cannot be read or written.                                               *)
Fail ==
  /\ "io" \in Faults
  /\ pc = "sync" \/ (pc = "visit" /\ todo # {})
  /\ Return("err")
  /\ UNCHANGED <<campaigns, count, loop, child, unread, shared, dirs, orphans>>

(* write_campaign_artifacts *)
Summarise ==
  /\ pc = "sync" /\ unread = {}
  /\ Return("ok")
  /\ UNCHANGED <<campaigns, count, loop, child, unread, shared, dirs, orphans>>

Orchestrate ==
  \/ Spawn \/ BeginPass \/ TryWait \/ Kill \/ EndPass \/ SortReports \/ SyncFile
  \/ Summarise

-----------------------------------------------------------------------------
(* A worker process, or one left over from a campaign that failed.  Nothing *)
(* obliges it to go on: it may hang in the target, or on its stderr pipe,   *)
(* which nobody reads.                                                      *)
Running(w) == Alive(w) \/ w \in orphans

(* CorpusManager::record of an input with a signature new to the directory: *)
(* the signature is written first, then the input.                          *)
WorkerRecord(w, s, c) ==
  /\ Running(w) /\ s \notin sigs[w]
  /\ sigs' = [sigs EXCEPT ![w] = @ \cup {s}]
  /\ \/ queue' = [queue EXCEPT ![w] = Over(File(s, c), @)] /\ UNCHANGED child
     \/ /\ "die" \in Faults /\ Alive(w)
        /\ child' = [child EXCEPT ![w] = "failed"] /\ UNCHANGED queue
  /\ UNCHANGED <<pc, campaigns, count, loop, unread, answer, clean,
                 shared, findings, orphans>>

WorkerFinds(w, f) ==
  /\ Running(w) /\ f \notin findings[w]
  /\ findings' = [findings EXCEPT ![w] = @ \cup {f}]
  /\ UNCHANGED <<pc, campaigns, count, loop, child, unread, answer,
                 clean, shared, queue, sigs, orphans>>

(* At the end of its run the engine persists its coverage corpus. *)
WorkerExits(w, kept) ==
  /\ Running(w) /\ Cardinality(kept) <= MaxKept
  /\ queue' = [queue EXCEPT ![w] = Over(@, [c \in kept |-> c])]
  /\ IF w \in orphans
       THEN orphans' = orphans \ {w} /\ UNCHANGED child
       ELSE child' = [child EXCEPT ![w] = "ok"] /\ UNCHANGED orphans
  /\ UNCHANGED <<pc, campaigns, count, loop, unread, answer, clean,
                 shared, sigs, findings>>

BudgetElapses ==
  /\ pc \in {"pass", "visit", "kill"} /\ Timed /\ ~overdue
  /\ overdue' = TRUE
  /\ UNCHANGED <<pc, campaigns, count, should_kill, todo, per_worker,
                 child, unread, answer, clean, shared, dirs, orphans>>

Next ==
  \/ \E n \in 1 .. MaxWorkers : Start(n)
  \/ Orchestrate \/ Fail \/ BudgetElapses
  \/ \E w \in Worker :
       \/ \E s \in Sigs, c \in Contents : WorkerRecord(w, s, c)
       \/ \E f \in Clusters : WorkerFinds(w, f)
       \/ \E kept \in SUBSET Contents : WorkerExits(w, kept)

(* The orchestrator is scheduled and time passes.  Workers may hang. *)
Spec == Init /\ [][Next]_vars
FairSpec == Spec /\ WF_vars(Orchestrate) /\ WF_vars(BudgetElapses)

-----------------------------------------------------------------------------
(* The orchestrator and the directories keep their types, and no worker is  *)
(* reported twice.                                                          *)
TypeOK ==
  /\ pc \in {"idle", "spawn", "pass", "visit", "kill", "sort", "sync"}
  /\ campaigns \in 0 .. MaxCampaigns /\ count \in 0 .. MaxWorkers
  /\ overdue \in BOOLEAN /\ should_kill \in BOOLEAN
  /\ todo \subseteq Member
  /\ child \in [Worker -> {"none", "running", "ok", "failed", "reaped"}]
  /\ Reported \subseteq Member /\ Len(per_worker) = Cardinality(Reported)
  /\ answer \in {"none", "ok", "err"} /\ clean \in BOOLEAN
  /\ Kept(shared) \subseteq Contents
  /\ \A w \in Worker : Kept(queue[w]) \subseteq Contents
  /\ sigs \in [Worker -> SUBSET Sigs] /\ findings \in [Worker -> SUBSET Clusters]
  /\ orphans \subseteq Worker

(* A summary has one report per worker in the order of their ids, whatever  *)
(* order they ended in, no process of the campaign is left, and what was    *)
(* counted for a worker is what its directory holds: the count was taken    *)
(* when the worker could write no more (unless one of a failed campaign     *)
(* still does).                                                             *)
SummaryIsTrue ==
  pc = "idle" /\ answer = "ok" =>
    /\ Len(per_worker) = count
    /\ \A i \in 1 .. count : per_worker[i].id = i - 1
    /\ \A w \in Member : child[w] = "reaped"
    /\ clean => \A i \in DOMAIN per_worker :
                  per_worker[i].findings = Cardinality(findings[per_worker[i].id])

(* After a merge the shared queue has every input of every worker, name     *)
(* clashes included.                                                        *)
EverythingImported ==
  pc = "idle" /\ answer = "ok" /\ clean =>
    \A w \in Member : Kept(queue[w]) \subseteq Kept(shared)

(* No step takes an input out of the shared queue.  While no campaign has   *)
(* failed, none is lost on its way there either: neither by the copy at the *)
(* start of the next campaign, which overwrites files of the reused worker  *)
(* directories, nor by a kill.                                              *)
Retained == Kept(shared) \cup UNION {Kept(queue[w]) : w \in Worker}
NothingLost ==
  [][/\ Kept(shared) \subseteq Kept(shared')
     /\ clean' => Retained \subseteq Retained']_vars

(* A campaign with a time budget returns although workers hang. *)
CampaignReturns == Timed => (pc # "idle") ~> (pc = "idle")
=============================================================================
