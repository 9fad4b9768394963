--------------------------- MODULE ContinuousDaemon ---------------------------
(***************************************************************************)
(* The job scheduler of crates/continuous_daemon: submissions, a pool of   *)
(* worker threads, the jobs.jsonl file that carries the job set over a     *)
(* restart, and the restart itself.                                        *)
(*                                                                         *)
(* A job is known by its submission number `job`, which stands for its     *)
(* project, harness and budget; `id` is the job_id the scheduler assigns.  *)
(* Each critical section of the `inner` mutex is one step.                 *)
(***************************************************************************)
EXTENDS Naturals, Sequences, FiniteSets

CONSTANTS
  Workers,          \* max_concurrent_jobs threads
  Clients,          \* threads calling Scheduler::submit
  MaxSubmits,       \* bound on submissions
  MaxRestarts       \* bound on restarts

ASSUME DaemonAssumption ==
  /\ IsFiniteSet(Workers) /\ Workers # {} /\ Workers \cap Clients = {}
  /\ MaxSubmits \in Nat /\ MaxRestarts \in Nat

VARIABLES
  up,        \* the daemon process exists
  shutdown, queue, seen, next_id,     \* InnerState
  pc,        \* worker and client threads
  held,      \* the job a thread is busy with
  file,      \* jobs.jsonl
  intact,    \* the last write of it went through
  submits, restarts,
  acked,     \* submissions whose submit returned
  done,      \* submissions whose final state a worker has recorded
  mishaps    \* history: "unsaved", a start has read a file whose last write did
             \* not go through; "unread", a start could not read the file;
             \* "shared_id", two listed jobs have had the same id

disk == <<file, intact>>
vars == <<up, shutdown, queue, seen, next_id, pc, held, disk, submits, restarts,
          acked, done, mishaps>>

Threads == Workers \cup Clients
Final == {"complete", "failed"}
JobState == {"queued", "running"} \cup Final
Job == [job : 1 .. MaxSubmits, id : 0 .. MaxSubmits, state : JobState]
NoJob == [job |-> 0, id |-> 0, state |-> "queued"]

Init ==
  /\ up = TRUE /\ shutdown = FALSE
  /\ queue = <<>> /\ seen = <<>> /\ next_id = 0
  /\ pc = [t \in Threads |-> "idle"]
  /\ held = [t \in Threads |-> NoJob]
  /\ file = <<>> /\ intact = TRUE
  /\ submits = 0 /\ restarts = 0
  /\ acked = {} /\ done = {} /\ mishaps = {}

Goto(t, label) == pc' = [pc EXCEPT ![t] = label]

-----------------------------------------------------------------------------
(* Variants with a plausible mistake each. *)

(* Workers look at the queue when submit notifies them only, and a start that *)
(* restores jobs does not.                                                    *)
HasWorkNotified == queue # <<>> /\ restarts = 0

(* Failed jobs are tried again after a restart. *)
RestoredRetriesFailed(job) ==
  IF job.state \in {"running", "failed"} THEN [job EXCEPT !.state = "queued"] ELSE job

(* The final state is written to the job that was submitted last. *)
SetStateLast(id, state) ==
  IF seen = <<>> THEN seen ELSE [seen EXCEPT ![Len(seen)].state = state]

(* A worker looks at the job without taking it off the queue. *)
DequeuePeeks == queue

(* A submission is acknowledged without being persisted. *)
SubmitPersistSkipped(c) ==
  /\ up /\ pc[c] = "persist"
  /\ acked' = acked \cup {held[c].job}
  /\ held' = [held EXCEPT ![c] = NoJob]
  /\ Goto(c, "idle")
  /\ UNCHANGED <<up, shutdown, queue, seen, next_id, disk, submits, restarts, done, mishaps>>

(* A worker leaves only once the queue is empty. *)
ExitWhenDrained(w) ==
  /\ up /\ pc[w] = "idle" /\ shutdown /\ queue = <<>>
  /\ Goto(w, "exited")
  /\ UNCHANGED <<up, shutdown, queue, seen, next_id, held, disk, submits,
                 restarts, acked, done, mishaps>>

-----------------------------------------------------------------------------
(* The loops over `seen` stop at the first job with the id. *)
FirstWith(id, i) == seen[i].id = id /\ \A j \in 1 .. (i - 1) : seen[j].id # id

SetState(id, state) ==
  [i \in DOMAIN seen |->
     IF FirstWith(id, i) THEN [seen[i] EXCEPT !.state = state] ELSE seen[i]]

(* Scheduler::submit: the job is queued under the lock, then persisted     *)
(* under a second one.                                                     *)
Submit(c) ==
  /\ up /\ ~shutdown /\ pc[c] = "idle" /\ submits < MaxSubmits
  /\ submits' = submits + 1
  /\ next_id' = next_id + 1
  /\ LET job == [job |-> submits + 1, id |-> next_id, state |-> "queued"]
     IN /\ queue' = Append(queue, job)
        /\ seen' = Append(seen, job)
        /\ held' = [held EXCEPT ![c] = job]
  /\ mishaps' = IF \E i \in DOMAIN seen : seen[i].id = next_id
                 THEN mishaps \cup {"shared_id"} ELSE mishaps
  /\ Goto(c, "persist")
  /\ UNCHANGED <<up, shutdown, disk, restarts, acked, done>>

(* persist and persist_locked write the whole list over the file, which is  *)
(* truncated first, and ignore an error: the old file stays, or some lines. *)
CutShort ==
  /\ \E n \in 0 .. (Len(seen) - 1) : file' = SubSeq(seen, 1, n)
  /\ intact' = FALSE

Persist ==
  \/ file' = seen /\ intact' = TRUE
  \/ UNCHANGED file /\ intact' = FALSE
  \/ CutShort

SubmitPersist(c) ==
  /\ up /\ pc[c] = "persist"
  /\ Persist
  /\ acked' = acked \cup {held[c].job}
  /\ held' = [held EXCEPT ![c] = NoJob]
  /\ Goto(c, "idle")
  /\ UNCHANGED <<up, shutdown, queue, seen, next_id, submits, restarts, done, mishaps>>

(* worker_loop *)
HasWork == queue # <<>>

Dequeue == Tail(queue)

Take(w) ==
  /\ up /\ pc[w] = "idle" /\ ~shutdown /\ HasWork
  /\ held' = [held EXCEPT ![w] = Head(queue)]
  /\ queue' = Dequeue
  /\ seen' = SetState(Head(queue).id, "running")
  /\ Goto(w, "taken")
  /\ UNCHANGED <<up, shutdown, next_id, disk, submits, restarts, acked, done, mishaps>>

(* cv.wait_timeout on an empty queue *)
Poll(w) == up /\ pc[w] = "idle" /\ ~shutdown /\ ~HasWork /\ UNCHANGED vars

PersistTaken(w) ==
  /\ up /\ pc[w] = "taken"
  /\ Persist
  /\ Goto(w, "running")
  /\ UNCHANGED <<up, shutdown, queue, seen, next_id, held, submits, restarts,
                 acked, done, mishaps>>

(* run_one_job returns, and the final state is recorded. *)
Record(w) ==
  /\ up /\ pc[w] = "running"
  /\ \E final \in Final : seen' = SetState(held[w].id, final)
  /\ done' = done \cup {held[w].job}
  /\ Goto(w, "recorded")
  /\ UNCHANGED <<up, shutdown, queue, next_id, held, disk, submits, restarts, acked, mishaps>>

(* The webhook, sent after this, changes nothing here. *)
PersistDone(w) ==
  /\ up /\ pc[w] = "recorded"
  /\ Persist
  /\ Goto(w, "idle")
  /\ held' = [held EXCEPT ![w] = NoJob]
  /\ UNCHANGED <<up, shutdown, queue, seen, next_id, submits, restarts, acked, done, mishaps>>

Exit(w) ==
  /\ up /\ pc[w] = "idle" /\ shutdown
  /\ Goto(w, "exited")
  /\ UNCHANGED <<up, shutdown, queue, seen, next_id, held, disk, submits,
                 restarts, acked, done, mishaps>>

-----------------------------------------------------------------------------
(* Drop signals the workers, joins them, and the process ends. *)
DropScheduler ==
  /\ up /\ ~shutdown /\ \A c \in Clients : pc[c] = "idle"
  /\ restarts < MaxRestarts
  /\ shutdown' = TRUE
  /\ UNCHANGED <<up, queue, seen, next_id, pc, held, disk, submits, restarts,
                 acked, done, mishaps>>

Joined ==
  /\ up /\ shutdown /\ \A w \in Workers : pc[w] = "exited"
  /\ up' = FALSE
  /\ UNCHANGED <<shutdown, queue, seen, next_id, pc, held, disk, submits,
                 restarts, acked, done, mishaps>>

(* A kill at any point; one that hits a write leaves a part of the file. *)
Writing == \E t \in Threads : pc[t] \in {"persist", "taken", "recorded"}

Crash ==
  /\ up /\ restarts < MaxRestarts
  /\ up' = FALSE
  /\ UNCHANGED disk \/ (Writing /\ CutShort)
  /\ UNCHANGED <<shutdown, queue, seen, next_id, pc, held, submits, restarts,
                 acked, done, mishaps>>

(* Scheduler::start: running jobs are reset, unfinished ones queued again. *)
Restored(job) ==
  IF job.state = "running" THEN [job EXCEPT !.state = "queued"] ELSE job

(* The positions S of the file in the order they are met. *)
InFileOrder(S) ==
  {at \in [1 .. Cardinality(S) -> S] :
     /\ \A m, n \in DOMAIN at : m < n => at[m] < at[n]
     /\ \A i \in S : \E n \in DOMAIN at : at[n] = i}

(* A file that cannot be read counts as empty. *)
Read(jobs) ==
  \/ jobs = file /\ mishaps' = mishaps \cup (IF intact THEN {} ELSE {"unsaved"})
  \/ jobs = <<>> /\ mishaps' = mishaps \cup {"unread"}

Restart ==
  /\ ~up /\ restarts < MaxRestarts
  /\ up' = TRUE /\ shutdown' = FALSE /\ next_id' = 0
  /\ restarts' = restarts + 1
  /\ \E jobs \in {file, <<>>} :
       /\ Read(jobs)
       /\ seen' = [i \in DOMAIN jobs |-> Restored(jobs[i])]
       /\ \E at \in InFileOrder({i \in DOMAIN jobs : Restored(jobs[i]).state = "queued"}) :
            queue' = [n \in DOMAIN at |-> seen'[at[n]]]
  /\ pc' = [t \in Threads |-> "idle"]
  /\ held' = [t \in Threads |-> NoJob]
  /\ UNCHANGED <<disk, submits, acked, done>>

Next ==
  \/ \E c \in Clients : Submit(c) \/ SubmitPersist(c)
  \/ \E w \in Workers :
       \/ Take(w) \/ Poll(w) \/ PersistTaken(w) \/ Record(w) \/ PersistDone(w)
       \/ Exit(w)
  \/ DropScheduler \/ Joined \/ Crash \/ Restart

(* Threads are scheduled, a run ends with its time budget, and a daemon     *)
(* that went down is started again.  Nothing obliges a client to submit.    *)
Fairness ==
  /\ \A c \in Clients : WF_vars(SubmitPersist(c))
  /\ \A w \in Workers :
       WF_vars(Take(w) \/ PersistTaken(w) \/ Record(w) \/ PersistDone(w) \/ Exit(w))
  /\ WF_vars(Joined) /\ WF_vars(Restart)

Spec == Init /\ [][Next]_vars
FairSpec == Spec /\ Fairness

-----------------------------------------------------------------------------
(* The scheduler's state keeps its types over restarts.                     *)
TypeOK ==
  /\ up \in BOOLEAN /\ shutdown \in BOOLEAN
  /\ queue \in Seq(Job) /\ seen \in Seq(Job) /\ file \in Seq(Job)
  /\ next_id \in 0 .. MaxSubmits
  /\ pc \in [Threads -> {"idle", "persist", "taken", "running", "recorded", "exited"}]
  /\ held \in [Threads -> Job \cup {NoJob}]
  /\ submits \in 0 .. MaxSubmits /\ restarts \in 0 .. MaxRestarts
  /\ acked \subseteq 1 .. MaxSubmits /\ done \subseteq 1 .. MaxSubmits
  /\ intact \in BOOLEAN /\ mishaps \subseteq {"unsaved", "unread", "shared_id"}

Busy(w) == pc[w] \in {"taken", "running"}
Waiting == {queue[i].job : i \in DOMAIN queue}
Taken == {held[w].job : w \in {v \in Workers : Busy(v)}}
Known == {seen[i].job : i \in DOMAIN seen}

(* No job is in two places: waiting twice, on two workers, or both. *)
OnePlace ==
  up => /\ Cardinality(Waiting) = Len(queue)
        /\ Waiting \cap Taken = {}
        /\ \A v, w \in Workers : Busy(v) /\ Busy(w) /\ held[v].job = held[w].job => v = w

(* While ids are unique, a job that list_jobs shows as unfinished has       *)
(* somebody to finish it, and one it shows as finished has nobody: the      *)
(* state shown is the current one.                                          *)
ListIsCurrent ==
  up /\ "shared_id" \notin mishaps => \A i \in DOMAIN seen :
    CASE seen[i].state = "queued" -> seen[i].job \in Waiting
      [] seen[i].state = "running" -> seen[i].job \in Taken
      [] OTHER -> seen[i].job \in done /\ seen[i].job \notin Waiting \cup Taken

(* A submission that was acknowledged is known to every later daemon,       *)
(* shared ids or not, unless a daemon started from a file it could not read *)
(* or whose last write had failed or was cut short: a failed write that a   *)
(* later one made good loses nothing.                                       *)
AckedIsKnown == up /\ mishaps \cap {"unsaved", "unread"} = {} => acked \subseteq Known

(* What jobs.jsonl says is finished is never started again while ids are    *)
(* unique, although the file may be an old one, cut short or unreadable.    *)
FinishedOnDisk == {file[i].job : i \in {j \in DOMAIN file : file[j].state \in Final}}
FinishedStaysFinished ==
  up /\ "shared_id" \notin mishaps => FinishedOnDisk \cap (Waiting \cup Taken) = {}

(* Every acknowledged job runs to its end, through crashes and restarts,    *)
(* unless an id was shared, or a daemon started from a file it could not    *)
(* read or whose last write had not gone through.                           *)
AckedFinishes ==
  \A j \in 1 .. MaxSubmits : j \in acked ~> (j \in done \/ mishaps # {})

(* Dropping the scheduler ends the process although jobs are waiting. *)
DropReturns == shutdown ~> ~up
=============================================================================
