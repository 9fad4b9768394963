------------------------ MODULE ContinuousDaemonProofs ------------------------
(***************************************************************************)
(* The daemon's job lists, for any number of workers, clients,             *)
(* submissions, crashes and restarts.                                      *)
(*                                                                         *)
(* A worker finds its job in the list by id, and a start gives out ids     *)
(* again, so that an update by id hits the right entry is no property of   *)
(* one step.  The inductive invariant says that a submission is one entry  *)
(* of each list (PlacesInv), that what waits or runs is listed under the   *)
(* id it carries, and that the file is behind the list only in ways a      *)
(* restart may meet (AckedInv, CurrentInv).                                *)
(***************************************************************************)
EXTENDS ContinuousDaemon, FiniteSetTheorems, TLAPS

(* A thread at work has a job of its own; nothing is numbered ahead of the  *)
(* submissions.                                                             *)
JobsOf(s) == {s[i].job : i \in DOMAIN s}
AtWork == {"persist", "taken", "running", "recorded"}
CountInv ==
  /\ next_id <= submits
  /\ \A t \in Threads : pc[t] \in AtWork => held[t] \in Job
  /\ \A i \in DOMAIN queue : queue[i].job <= submits
  /\ \A i \in DOMAIN seen : seen[i].job <= submits
  /\ \A i \in DOMAIN file : file[i].job <= submits
  /\ \A t \in Threads : held[t].job <= submits
  /\ \A c \in Clients : pc[c] \in {"idle", "persist"}
  /\ \A w \in Workers : pc[w] # "persist"

(* A submission is one entry of each list, and on at most one worker. *)
Distinct(s) == \A i, j \in DOMAIN s : s[i].job = s[j].job => i = j
PlacesInv ==
  /\ Distinct(queue) /\ Distinct(seen) /\ Distinct(file)
  /\ Waiting \cap Taken = {}
  /\ \A v, w \in Workers : Busy(v) /\ Busy(w) /\ held[v].job = held[w].job => v = w

(* What is acknowledged is listed, and on disk once a write goes through. *)
Mislaid == mishaps \cap {"unsaved", "unread"} # {}
AckedInv ==
  /\ up /\ ~Mislaid => acked \subseteq Known
  /\ intact /\ ~Mislaid => acked \subseteq JobsOf(file)
  /\ up => \A c \in Clients : pc[c] = "persist" => held[c].job \in Known

(* As long as no two jobs have had one id: the list is current, what waits  *)
(* or runs is listed under its own id, and what the file says is finished   *)
(* is finished.                                                             *)
OneId(s) == \A i, j \in DOMAIN s : s[i].id = s[j].id => i = j
Listed(s, job) == \E i \in DOMAIN s : s[i].job = job.job /\ s[i].id = job.id
Shown(i) ==
  /\ seen[i].state = "queued" => seen[i].job \in Waiting
  /\ seen[i].state = "running" => seen[i].job \in Taken
  /\ seen[i].state \in Final => seen[i].job \in done /\ seen[i].job \notin Waiting \cup Taken
Settled ==
  \A i \in DOMAIN file : file[i].state \in Final =>
    \A k \in DOMAIN seen : seen[k].job = file[i].job => seen[k].state \in Final
CurrentInv ==
  "shared_id" \notin mishaps =>
    /\ OneId(seen) /\ OneId(file)
    /\ \A i \in DOMAIN file : file[i].state \in Final => file[i].job \in done
    /\ up => /\ \A i \in DOMAIN queue : Listed(seen, queue[i])
             /\ \A w \in Workers : Busy(w) => Listed(seen, held[w])
             /\ Settled
             /\ \A i \in DOMAIN seen : Shown(i)
DaemonInv == TypeOK /\ CountInv /\ PlacesInv /\ AckedInv /\ CurrentInv

-----------------------------------------------------------------------------
(* What each operation does to the lists. *)
USE DEF disk

(* t is s with x at its end. *)
Grown(t, s, x) ==
  /\ t \in Seq(Job)
  /\ DOMAIN t = DOMAIN s \cup {Len(s) + 1} /\ Len(s) + 1 \notin DOMAIN s
  /\ \A i \in DOMAIN s : t[i] = s[i]
  /\ t[Len(s) + 1] = x

LEMMA AppendIs == ASSUME NEW s \in Seq(Job), NEW x \in Job PROVE Grown(Append(s, x), s, x)
  BY DEF Grown

LEMMA SubmitIs ==
  ASSUME TypeOK, CountInv, NEW c \in Clients, Submit(c)
  PROVE  \E job \in Job :
           /\ job.job = submits + 1 /\ job.id = next_id /\ job.state = "queued"
           /\ Grown(queue', queue, job) /\ Grown(seen', seen, job)
           /\ held' = [held EXCEPT ![c] = job] /\ pc' = [pc EXCEPT ![c] = "persist"]
           /\ up /\ submits < MaxSubmits /\ submits' = submits + 1 /\ next_id' = next_id + 1
           /\ mishaps' \in {mishaps, mishaps \cup {"shared_id"}}
           /\ "shared_id" \notin mishaps' => \A i \in DOMAIN seen : seen[i].id # next_id
           /\ UNCHANGED <<up, shutdown, file, intact, restarts, acked, done>>
  <1> DEFINE job == [job |-> submits + 1, id |-> next_id, state |-> "queued"]
  <1>1. job \in Job /\ job.job = submits + 1 /\ job.id = next_id /\ job.state = "queued"
    BY DaemonAssumption DEF TypeOK, CountInv, Submit, Job, JobState
  <1>2. queue' = Append(queue, job) /\ seen' = Append(seen, job) /\ held' = [held EXCEPT ![c] = job]
    BY DEF Submit
  <1> HIDE DEF job
  <1>3. Grown(queue', queue, job) /\ Grown(seen', seen, job)
    BY <1>1, <1>2, AppendIs DEF TypeOK
  <1> QED
    BY <1>1, <1>2, <1>3 DEF Submit, Goto

(* Only states change, and only where the id is. *)
LEMMA SetStateIs ==
  ASSUME seen \in Seq(Job), NEW id, NEW state \in JobState
  PROVE  /\ SetState(id, state) \in Seq(Job)
         /\ DOMAIN SetState(id, state) = DOMAIN seen
         /\ \A i \in DOMAIN seen :
              /\ SetState(id, state)[i].job = seen[i].job
              /\ SetState(id, state)[i].id = seen[i].id
              /\ SetState(id, state)[i].state \in {seen[i].state, state}
              /\ seen[i].id # id => SetState(id, state)[i] = seen[i]
              /\ OneId(seen) /\ seen[i].id = id => SetState(id, state)[i].state = state
  <1> DEFINE new(i) == IF FirstWith(id, i) THEN [seen[i] EXCEPT !.state = state] ELSE seen[i]
  <1>1. \A i \in DOMAIN seen : seen[i] \in Job
    OBVIOUS
  <1>2. ASSUME NEW r \in Job PROVE [r EXCEPT !.state = state] \in Job
    BY DEF Job
  <1>3. ASSUME NEW r \in Job
        PROVE  /\ [r EXCEPT !.state = state].job = r.job /\ [r EXCEPT !.state = state].id = r.id
               /\ [r EXCEPT !.state = state].state = state
    BY DEF Job
  <1>4. \A i \in DOMAIN seen : new(i) \in Job
    BY <1>1, <1>2
  <1>5. SetState(id, state) = [i \in DOMAIN seen |-> new(i)]
    BY DEF SetState
  <1>6. ASSUME NEW i \in DOMAIN seen, OneId(seen), seen[i].id = id PROVE FirstWith(id, i)
    BY <1>6 DEF OneId, FirstWith
  <1>7. \A i \in DOMAIN seen : seen[i].id # id => ~FirstWith(id, i)
    BY DEF FirstWith
  <1>8. \A i \in DOMAIN seen :
              /\ new(i).job = seen[i].job /\ new(i).id = seen[i].id
              /\ new(i).state \in {seen[i].state, state}
              /\ seen[i].id # id => new(i) = seen[i]
              /\ OneId(seen) /\ seen[i].id = id => new(i).state = state
    BY <1>1, <1>3, <1>6, <1>7
  <1> HIDE DEF new
  <1> QED
    BY <1>4, <1>5, <1>8

(* The list t is the list s with a new state at one id. *)
Updated(t, s, id, state) ==
  /\ t \in Seq(Job) /\ DOMAIN t = DOMAIN s
  /\ \A i \in DOMAIN s :
       /\ t[i].job = s[i].job /\ t[i].id = s[i].id /\ t[i].state \in {s[i].state, state}
       /\ s[i].id # id => t[i] = s[i]
       /\ OneId(s) /\ s[i].id = id => t[i].state = state

LEMMA TakeIs ==
  ASSUME TypeOK, NEW w \in Workers, Take(w)
  PROVE  /\ up /\ pc[w] = "idle" /\ pc' = [pc EXCEPT ![w] = "taken"]
         /\ queue # <<>> /\ 1 \in DOMAIN queue /\ held' = [held EXCEPT ![w] = queue[1]]
         /\ queue[1] \in Job /\ queue' \in Seq(Job)
         /\ \A i \in DOMAIN queue' : i + 1 \in DOMAIN queue /\ queue'[i] = queue[i + 1]
         /\ \A i \in DOMAIN queue : i = 1 \/ (i - 1 \in DOMAIN queue' /\ queue'[i - 1] = queue[i])
         /\ Updated(seen', seen, queue[1].id, "running")
         /\ UNCHANGED <<up, shutdown, next_id, file, intact, submits, restarts, acked, done, mishaps>>
  <1>1. queue # <<>> /\ queue \in Seq(Job) /\ queue' = Tail(queue)
    BY DEF Take, HasWork, Dequeue, TypeOK
  <1>2. Head(queue) = queue[1] /\ queue[1] \in Job /\ 1 \in DOMAIN queue
    BY <1>1
  <1>3. seen' = SetState(queue[1].id, "running")
    BY <1>2 DEF Take
  <1>4. Updated(seen', seen, queue[1].id, "running")
    BY <1>3, SetStateIs DEF Updated, TypeOK, JobState
  <1>5. /\ queue' \in Seq(Job)
        /\ \A i \in DOMAIN queue' : i + 1 \in DOMAIN queue /\ queue'[i] = queue[i + 1]
        /\ \A i \in DOMAIN queue : i = 1 \/ (i - 1 \in DOMAIN queue' /\ queue'[i - 1] = queue[i])
    BY <1>1
  <1> QED
    BY <1>1, <1>2, <1>4, <1>5 DEF Take, Goto

LEMMA RecordIs ==
  ASSUME TypeOK, NEW w \in Workers, Record(w)
  PROVE  /\ up /\ pc[w] = "running" /\ pc' = [pc EXCEPT ![w] = "recorded"]
         /\ \E final \in Final : Updated(seen', seen, held[w].id, final)
         /\ done' = done \cup {held[w].job}
         /\ UNCHANGED <<up, shutdown, queue, next_id, held, file, intact, submits, restarts, acked, mishaps>>
  <1>1. PICK final \in Final : seen' = SetState(held[w].id, final)
    BY DEF Record
  <1>2. final \in JobState /\ seen \in Seq(Job)
    BY DEF JobState, TypeOK
  <1>3. Updated(seen', seen, held[w].id, final)
    BY <1>1, <1>2, SetStateIs DEF Updated
  <1> QED
    BY <1>3 DEF Record, Goto

(* What a write leaves: the old file, or lines of the list, and all of them *)
(* if it went through.                                                      *)
LineOfList == \A i \in DOMAIN file : i \in DOMAIN seen /\ file[i] = seen[i]
Rewritten ==
  /\ UNCHANGED seen /\ file' \in Seq(Job) /\ intact' \in BOOLEAN
  /\ UNCHANGED file \/ LineOfList'
  /\ intact' => file' = seen

LEMMA CutShortIs ==
  ASSUME TypeOK, CutShort, UNCHANGED seen PROVE file' \in Seq(Job) /\ LineOfList' /\ intact' = FALSE
  <1>1. PICK n \in 0 .. (Len(seen) - 1) : file' = SubSeq(seen, 1, n)
    BY DEF CutShort
  <1>2. file' \in Seq(Job) /\ \A i \in DOMAIN file' : i \in DOMAIN seen /\ file'[i] = seen[i]
    BY <1>1 DEF TypeOK
  <1> QED
    BY <1>2 DEF CutShort, LineOfList

LEMMA PersistIs == ASSUME TypeOK, Persist, UNCHANGED seen PROVE Rewritten
  <1>1. CASE file' = seen /\ intact' = TRUE
    BY <1>1 DEF Rewritten, LineOfList, TypeOK
  <1>2. CASE UNCHANGED file /\ intact' = FALSE
    BY <1>2 DEF Rewritten, TypeOK
  <1>3. CASE CutShort
    BY <1>3, CutShortIs DEF Rewritten
  <1> QED
    BY <1>1, <1>2, <1>3 DEF Persist

(* A crash leaves the file, or a part of what was being written. *)
LEMMA CrashIs ==
  ASSUME TypeOK, Crash
  PROVE  /\ up' = FALSE
         /\ UNCHANGED disk \/ (intact' = FALSE /\ file' \in Seq(Job) /\ LineOfList')
         /\ UNCHANGED <<shutdown, queue, seen, next_id, pc, held, submits, restarts, acked, done, mishaps>>
  BY CutShortIs DEF Crash

(* The queue has the queued jobs of the list, each once. *)
Queued(at) ==
  /\ \A m, n \in DOMAIN queue : at[m] = at[n] => m = n
  /\ \A n \in DOMAIN queue : queue[n] = seen[at[n]] /\ seen[at[n]].state = "queued"
  /\ \A i \in DOMAIN seen : seen[i].state = "queued" => \E n \in DOMAIN queue : at[n] = i

(* A start lists the jobs it reads, and queues those that are not final. *)
RestoredFrom(jobs) ==
  /\ jobs \in Seq(Job) /\ jobs \in {file, <<>>} /\ Read(jobs)
  /\ DOMAIN seen' = DOMAIN jobs
  /\ \A i \in DOMAIN jobs :
       /\ seen'[i].job = jobs[i].job /\ seen'[i].id = jobs[i].id
       /\ seen'[i].state # "running"
       /\ jobs[i].state \in Final => seen'[i].state = jobs[i].state
       /\ seen'[i].state \in Final => jobs[i].state \in Final

LEMMA RestartIs ==
  ASSUME TypeOK, Restart
  PROVE  /\ up' /\ next_id' = 0 /\ restarts < MaxRestarts /\ restarts' = restarts + 1
         /\ shutdown' = FALSE
         /\ seen' \in Seq(Job) /\ \E jobs \in {file, <<>>} : RestoredFrom(jobs)
         /\ queue' \in Seq(Job)
         /\ \E at \in [DOMAIN queue' -> DOMAIN seen'] : Queued(at)'
         /\ pc' = [t \in Threads |-> "idle"] /\ held' = [t \in Threads |-> NoJob]
         /\ UNCHANGED <<file, intact, submits, acked, done>>
  <1>0. PICK jobs \in {file, <<>>} :
          /\ Read(jobs)
          /\ seen' = [i \in DOMAIN jobs |-> Restored(jobs[i])]
          /\ \E at \in InFileOrder({i \in DOMAIN jobs : Restored(jobs[i]).state = "queued"}) :
               queue' = [n \in DOMAIN at |-> seen'[at[n]]]
    BY DEF Restart
  <1> DEFINE open == {i \in DOMAIN jobs : Restored(jobs[i]).state = "queued"}
  <1>1. jobs \in Seq(Job) /\ seen' = [i \in DOMAIN jobs |-> Restored(jobs[i])]
    BY <1>0 DEF TypeOK
  <1>2. ASSUME NEW r \in Job
        PROVE  /\ Restored(r) \in Job
               /\ Restored(r).job = r.job /\ Restored(r).id = r.id /\ Restored(r).state # "running"
               /\ r.state \in Final => Restored(r).state = r.state
               /\ Restored(r).state \in Final => r.state \in Final
    BY DEF Restored, Job, JobState, Final
  <1>3. \A i \in DOMAIN jobs : jobs[i] \in Job
    BY <1>1
  <1>4. /\ seen' \in Seq(Job) /\ DOMAIN seen' = DOMAIN jobs
        /\ \A i \in DOMAIN jobs : seen'[i] = Restored(jobs[i])
    <2>1. DOMAIN seen' = 1 .. Len(jobs) /\ Len(jobs) \in Nat
      BY <1>1
    <2> QED
      BY <1>1, <1>2, <1>3, <2>1
  <1>5. PICK at \in InFileOrder(open) : queue' = [n \in DOMAIN at |-> seen'[at[n]]]
    BY <1>0
  <1>6. IsFiniteSet(open) /\ Cardinality(open) \in Nat
    <2>1. open \subseteq 1 .. Len(jobs) /\ Len(jobs) \in Nat
      BY <1>1
    <2>2. IsFiniteSet(1 .. Len(jobs))
      BY <2>1, FS_Interval
    <2> QED
      BY <2>1, <2>2, FS_Subset, FS_CardinalityType
  <1> DEFINE N == Cardinality(open)
  <1> HIDE DEF N
  <1>7. /\ at \in [1 .. N -> open]
        /\ \A m, n \in 1 .. N : m < n => at[m] < at[n]
        /\ \A i \in open : \E n \in 1 .. N : at[n] = i
    BY <1>5 DEF InFileOrder, N
  <1>8. N \in Nat
    BY <1>6 DEF N
  <1>9. open \subseteq DOMAIN jobs /\ \A i \in DOMAIN jobs : i \in open <=> seen'[i].state = "queued"
    BY <1>4
  <1>10. DOMAIN jobs \subseteq Nat
    BY <1>1
  <1> HIDE DEF open
  <1>11. DOMAIN queue' = 1 .. N /\ \A n \in 1 .. N : queue'[n] = seen'[at[n]] /\ at[n] \in DOMAIN jobs
    BY <1>5, <1>7, <1>9
  <1>12. queue' \in Seq(Job)
    <2>1. \A n \in 1 .. N : queue'[n] \in Job
      BY <1>11, <1>2, <1>3, <1>4
    <2>2. queue' = [n \in 1 .. N |-> queue'[n]]
      BY <1>5, <1>7
    <2> QED
      BY <2>1, <2>2, <1>8
  <1>13. \A m, n \in 1 .. N : at[m] = at[n] => m = n
    <2> SUFFICES ASSUME NEW m \in 1 .. N, NEW n \in 1 .. N, m # n PROVE at[m] # at[n]
      OBVIOUS
    <2>1. m < n \/ n < m
      BY <1>8
    <2>2. at[m] < at[n] \/ at[n] < at[m]
      BY <2>1, <1>7
    <2>3. at[m] \in Nat /\ at[n] \in Nat
      BY <1>7, <1>9, <1>10
    <2> QED
      BY <2>2, <2>3
  <1>14. at \in [DOMAIN queue' -> DOMAIN jobs]
    BY <1>7, <1>9, <1>11
  <1>15. /\ \A n \in DOMAIN queue' : queue'[n] = seen'[at[n]] /\ seen'[at[n]].state = "queued"
         /\ \A i \in DOMAIN jobs : seen'[i].state = "queued" => \E n \in DOMAIN queue' : at[n] = i
    BY <1>7, <1>9, <1>11
  <1>16. \E f \in [DOMAIN queue' -> DOMAIN seen'] : Queued(f)'
    <2>1. at \in [DOMAIN queue' -> DOMAIN seen'] /\ \A m, n \in DOMAIN queue' : at[m] = at[n] => m = n
      BY <1>4, <1>11, <1>13, <1>14
    <2>2. Queued(at)'
      BY <2>1, <1>4, <1>15 DEF Queued
    <2> QED
      BY <2>1, <2>2
  <1>17. \A i \in DOMAIN jobs :
              /\ seen'[i].job = jobs[i].job /\ seen'[i].id = jobs[i].id
              /\ seen'[i].state # "running"
              /\ jobs[i].state \in Final => seen'[i].state = jobs[i].state
              /\ seen'[i].state \in Final => jobs[i].state \in Final
    BY <1>2, <1>3, <1>4
  <1>18. RestoredFrom(jobs)
    BY <1>0, <1>1, <1>4, <1>17 DEF RestoredFrom
  <1> QED
    BY <1>4, <1>12, <1>16, <1>18 DEF Restart, disk

-----------------------------------------------------------------------------
(* The invariant is inductive. *)

LEMMA DaemonTypeNext == TypeOK /\ CountInv /\ [Next]_vars => TypeOK'
  <1> SUFFICES ASSUME TypeOK, CountInv, [Next]_vars PROVE TypeOK'
    OBVIOUS
  <1> USE DaemonAssumption DEF Threads
  <1>1. ASSUME NEW w \in Workers, Exit(w) PROVE TypeOK'
    BY <1>1 DEF Exit, TypeOK, Goto
  <1>2. ASSUME DropScheduler PROVE TypeOK'
    BY <1>2 DEF DropScheduler, TypeOK, Goto
  <1>3. ASSUME Joined PROVE TypeOK'
    BY <1>3 DEF Joined, TypeOK, Goto
  <1>4. ASSUME Crash PROVE TypeOK'
    BY <1>4, CrashIs DEF TypeOK, Goto
  <1>5. ASSUME UNCHANGED vars PROVE TypeOK'
    BY <1>5 DEF vars, TypeOK, Goto
  <1>20. ASSUME NEW c \in Clients, Submit(c) PROVE TypeOK'
    <2>1. PICK job \in Job :
            /\ Grown(queue', queue, job) /\ Grown(seen', seen, job)
            /\ held' = [held EXCEPT ![c] = job] /\ pc' = [pc EXCEPT ![c] = "persist"]
            /\ submits < MaxSubmits /\ submits' = submits + 1 /\ next_id' = next_id + 1
            /\ mishaps' \in {mishaps, mishaps \cup {"shared_id"}}
            /\ UNCHANGED <<up, shutdown, file, intact, restarts, acked, done>>
      BY <1>20, SubmitIs
    <2>2. submits' \in 0 .. MaxSubmits /\ next_id' \in 0 .. MaxSubmits
      BY <2>1 DEF TypeOK, CountInv
    <2>3. queue' \in Seq(Job) /\ seen' \in Seq(Job)
      BY <2>1 DEF Grown
    <2> QED
      BY <2>1, <2>2, <2>3 DEF TypeOK
  <1>21. ASSUME NEW c \in Clients, SubmitPersist(c) PROVE TypeOK'
    <2>1. held[c].job \in 1 .. MaxSubmits
      BY <1>21 DEF SubmitPersist, CountInv, AtWork, Job
    <2>2. held' \in [Threads -> Job \cup {NoJob}] /\ pc' \in [Threads -> {"idle", "persist", "taken", "running", "recorded", "exited"}]
      BY <1>21 DEF SubmitPersist, TypeOK, Goto
    <2>3. Rewritten
      BY <1>21, PersistIs DEF SubmitPersist
    <2> QED
      BY <1>21, <2>1, <2>2, <2>3 DEF SubmitPersist, Rewritten, TypeOK
  <1>22. ASSUME NEW w \in Workers, Take(w) PROVE TypeOK'
    <2>1. seen' \in Seq(Job)
      BY <1>22, TakeIs DEF Updated
    <2> QED
      BY <1>22, <2>1, TakeIs DEF TypeOK
  <1>23. ASSUME NEW w \in Workers, Record(w) PROVE TypeOK'
    <2>1. seen' \in Seq(Job)
      BY <1>23, RecordIs DEF Updated
    <2>2. held[w].job \in 1 .. MaxSubmits
      BY <1>23, RecordIs DEF CountInv, AtWork, Job
    <2> QED
      BY <1>23, <2>1, <2>2, RecordIs DEF TypeOK
  <1>24. ASSUME NEW w \in Workers, PersistDone(w) PROVE TypeOK'
    <2>1. held' \in [Threads -> Job \cup {NoJob}] /\ pc' \in [Threads -> {"idle", "persist", "taken", "running", "recorded", "exited"}]
      BY <1>24 DEF PersistDone, TypeOK, Goto
    <2>2. Rewritten
      BY <1>24, PersistIs DEF PersistDone
    <2> QED
      BY <1>24, <2>1, <2>2 DEF PersistDone, Rewritten, TypeOK
  <1>25. ASSUME Restart PROVE TypeOK'
    <2>1. seen' \in Seq(Job) /\ queue' \in Seq(Job)
      BY <1>25, RestartIs
    <2>2. /\ pc' = [t \in Threads |-> "idle"] /\ held' = [t \in Threads |-> NoJob]
          /\ up' = TRUE /\ shutdown' = FALSE /\ next_id' = 0
          /\ restarts < MaxRestarts /\ restarts' = restarts + 1
          /\ UNCHANGED <<file, intact, submits, acked, done>>
          /\ mishaps' \subseteq {"unsaved", "unread", "shared_id"}
      BY <1>25 DEF Restart, Read, TypeOK
    <2>3. /\ pc' \in [Threads -> {"idle", "persist", "taken", "running", "recorded", "exited"}]
          /\ held' \in [Threads -> Job \cup {NoJob}]
      BY <2>2
    <2>4. restarts' \in 0 .. MaxRestarts /\ next_id' \in 0 .. MaxSubmits
      BY <2>2 DEF TypeOK
    <2>5. /\ UNCHANGED <<file, intact, submits, acked, done>> /\ up' \in BOOLEAN /\ shutdown' \in BOOLEAN
          /\ mishaps' \subseteq {"unsaved", "unread", "shared_id"}
      BY <2>2
    <2> HIDE DEF Threads
    <2> QED
      BY <2>1, <2>3, <2>4, <2>5 DEF TypeOK
  <1>26. ASSUME NEW w \in Workers, Poll(w) PROVE UNCHANGED vars
    BY <1>26 DEF Poll
  <1>27. ASSUME NEW w \in Workers, PersistTaken(w) PROVE TypeOK'
    <2>1. pc' \in [Threads -> {"idle", "persist", "taken", "running", "recorded", "exited"}]
      BY <1>27 DEF PersistTaken, TypeOK, Goto
    <2>2. Rewritten
      BY <1>27, PersistIs DEF PersistTaken
    <2> QED
      BY <1>27, <2>1, <2>2 DEF PersistTaken, Rewritten, TypeOK
  <1> QED
    BY <1>1, <1>2, <1>3, <1>4, <1>5, <1>20, <1>21, <1>22, <1>23, <1>24, <1>25, <1>26, <1>27 DEF Next

LEMMA CountNext == TypeOK /\ CountInv /\ [Next]_vars => CountInv'
  <1> SUFFICES ASSUME TypeOK, CountInv, [Next]_vars PROVE CountInv'
    OBVIOUS
  <1> USE DaemonAssumption DEF Threads
  <1>a. /\ submits \in Nat /\ next_id \in Nat
        /\ \A i \in DOMAIN queue : queue[i].job \in Nat
        /\ \A i \in DOMAIN seen : seen[i].job \in Nat
        /\ \A i \in DOMAIN file : file[i].job \in Nat
        /\ \A t \in Threads : held[t].job \in Nat
        /\ DOMAIN pc = Threads /\ DOMAIN held = Threads
    <2>1. \A r \in Job \cup {NoJob} : r.job \in Nat
      BY DEF Job, NoJob
    <2>2. /\ \A i \in DOMAIN queue : queue[i] \in Job
          /\ \A i \in DOMAIN seen : seen[i] \in Job
          /\ \A i \in DOMAIN file : file[i] \in Job
      BY DEF TypeOK
    <2>3. /\ \A t \in Threads : held[t] \in Job \cup {NoJob}
          /\ DOMAIN pc = Threads /\ DOMAIN held = Threads
          /\ submits \in Nat /\ next_id \in Nat
      BY DEF TypeOK
    <2> QED
      BY <2>1, <2>2, <2>3
  <1>1. ASSUME NEW w \in Workers, Exit(w) PROVE CountInv'
    BY <1>1, <1>a DEF Exit, CountInv, Goto, AtWork
  <1>2. ASSUME DropScheduler PROVE CountInv'
    BY <1>2, <1>a DEF DropScheduler, CountInv, Goto, AtWork
  <1>3. ASSUME Joined PROVE CountInv'
    BY <1>3, <1>a DEF Joined, CountInv, Goto, AtWork
  <1>4. ASSUME UNCHANGED vars PROVE CountInv'
    BY <1>4, <1>a DEF vars, CountInv, Goto, AtWork
  <1>b. ASSUME Rewritten, UNCHANGED submits PROVE \A i \in DOMAIN file' : file'[i].job <= submits'
    BY <1>b DEF Rewritten, LineOfList, CountInv
  <1>20. ASSUME NEW c \in Clients, Submit(c) PROVE CountInv'
    <2>1. PICK job \in Job :
            /\ job.job = submits + 1
            /\ Grown(queue', queue, job) /\ Grown(seen', seen, job)
            /\ held' = [held EXCEPT ![c] = job] /\ pc' = [pc EXCEPT ![c] = "persist"]
            /\ submits' = submits + 1 /\ next_id' = next_id + 1 /\ file' = file
      BY <1>20, SubmitIs
    <2>2. /\ \A i \in DOMAIN queue' : queue'[i].job <= submits'
          /\ \A i \in DOMAIN seen' : seen'[i].job <= submits'
          /\ \A i \in DOMAIN file' : file'[i].job <= submits'
      BY <2>1, <1>a DEF Grown, CountInv
    <2>3. \A t \in Threads : held'[t].job <= submits' /\ (pc'[t] \in AtWork => held'[t] \in Job)
      BY <2>1, <1>a DEF CountInv
    <2>4. next_id' <= submits'
      BY <2>1, <1>a DEF CountInv
    <2> QED
      BY <2>1, <2>2, <2>3, <2>4, <1>a DEF CountInv
  <1>21. ASSUME NEW c \in Clients, SubmitPersist(c) PROVE CountInv'
    <2>1. \A i \in DOMAIN file' : file'[i].job <= submits'
      BY <1>21, <1>b, PersistIs DEF SubmitPersist
    <2> QED
      BY <1>21, <2>1, <1>a DEF SubmitPersist, CountInv, Goto, AtWork, NoJob
  <1>22. ASSUME NEW w \in Workers, Take(w) PROVE CountInv'
    <2>1. \A i \in DOMAIN queue' : queue'[i].job <= submits
      BY <1>22, TakeIs DEF CountInv
    <2>2. \A i \in DOMAIN seen' : seen'[i].job <= submits
      BY <1>22, TakeIs DEF CountInv, Updated
    <2>3. queue[1].job <= submits /\ queue[1] \in Job
      BY <1>22, TakeIs DEF CountInv
    <2>4. \A t \in Threads : held'[t].job <= submits /\ (pc'[t] \in AtWork => held'[t] \in Job)
      BY <1>22, <2>3, <1>a, TakeIs DEF CountInv
    <2> QED
      BY <1>22, <2>1, <2>2, <2>4, <1>a, TakeIs DEF CountInv
  <1>23. ASSUME NEW w \in Workers, Record(w) PROVE CountInv'
    <2>1. \A i \in DOMAIN seen' : seen'[i].job <= submits
      BY <1>23, RecordIs DEF CountInv, Updated
    <2> QED
      BY <1>23, <2>1, <1>a, RecordIs DEF CountInv, AtWork
  <1>24. ASSUME NEW w \in Workers, PersistDone(w) PROVE CountInv'
    <2>1. \A i \in DOMAIN file' : file'[i].job <= submits'
      BY <1>24, <1>b, PersistIs DEF PersistDone
    <2> QED
      BY <1>24, <2>1, <1>a DEF PersistDone, CountInv, Goto, AtWork, NoJob
  <1>25. ASSUME NEW w \in Workers, PersistTaken(w) PROVE CountInv'
    <2>1. \A i \in DOMAIN file' : file'[i].job <= submits'
      BY <1>25, <1>b, PersistIs DEF PersistTaken
    <2> QED
      BY <1>25, <2>1, <1>a DEF PersistTaken, CountInv, Goto, AtWork
  <1>26. ASSUME Restart PROVE CountInv'
    <2>1. \A i \in DOMAIN seen' : seen'[i].job <= submits
      BY <1>26, RestartIs DEF RestoredFrom, CountInv
    <2>2. PICK at \in [DOMAIN queue' -> DOMAIN seen'] : Queued(at)'
      BY <1>26, RestartIs
    <2>3. \A i \in DOMAIN queue' : queue'[i].job <= submits
      BY <2>1, <2>2 DEF Queued
    <2> QED
      BY <1>26, <2>1, <2>3, <1>a, RestartIs DEF CountInv, AtWork, NoJob
  <1>27. ASSUME Crash PROVE CountInv'
    <2>1. \A i \in DOMAIN file' : file'[i].job <= submits
      BY <1>27, CrashIs DEF LineOfList, CountInv
    <2> QED
      BY <1>27, <2>1, CrashIs DEF CountInv
  <1>28. ASSUME NEW w \in Workers, Poll(w) PROVE UNCHANGED vars
    BY <1>28 DEF Poll
  <1> QED
    BY <1>1, <1>2, <1>3, <1>4, <1>20, <1>21, <1>22, <1>23, <1>24, <1>25, <1>26, <1>27, <1>28 DEF Next

LEMMA PlacesNext == TypeOK /\ CountInv /\ PlacesInv /\ [Next]_vars => PlacesInv'
  <1> SUFFICES ASSUME TypeOK, CountInv, PlacesInv, [Next]_vars PROVE PlacesInv'
    OBVIOUS
  <1> USE DaemonAssumption DEF Threads
  <1>a. /\ submits \in Nat /\ DOMAIN pc = Threads /\ DOMAIN held = Threads
        /\ \A i \in DOMAIN queue : queue[i].job \in Nat
        /\ \A i \in DOMAIN seen : seen[i].job \in Nat
        /\ \A t \in Threads : held[t].job \in Nat
    <2>1. \A r \in Job \cup {NoJob} : r.job \in Nat
      BY DEF Job, NoJob
    <2>2. /\ \A i \in DOMAIN queue : queue[i] \in Job
          /\ \A i \in DOMAIN seen : seen[i] \in Job
          /\ \A t \in Threads : held[t] \in Job \cup {NoJob}
          /\ submits \in Nat /\ DOMAIN pc = Threads /\ DOMAIN held = Threads
      BY DEF TypeOK
    <2> QED
      BY <2>1, <2>2
  <1>b. ASSUME Rewritten PROVE Distinct(file')
    BY <1>b DEF Rewritten, LineOfList, PlacesInv, Distinct
  <1>1. ASSUME NEW w \in Workers, Exit(w) PROVE PlacesInv'
    BY <1>1, <1>a DEF Exit, PlacesInv, Goto, Busy, Waiting, Taken
  <1>2. ASSUME DropScheduler PROVE PlacesInv'
    BY <1>2, <1>a DEF DropScheduler, PlacesInv, Goto, Busy, Waiting, Taken
  <1>3. ASSUME Joined PROVE PlacesInv'
    BY <1>3, <1>a DEF Joined, PlacesInv, Goto, Busy, Waiting, Taken
  <1>4. ASSUME UNCHANGED vars PROVE PlacesInv'
    BY <1>4, <1>a DEF vars, PlacesInv, Goto, Busy, Waiting, Taken
  <1>20. ASSUME NEW c \in Clients, Submit(c) PROVE PlacesInv'
    <2>1. PICK job \in Job :
            /\ job.job = submits + 1
            /\ Grown(queue', queue, job) /\ Grown(seen', seen, job)
            /\ held' = [held EXCEPT ![c] = job] /\ pc' = [pc EXCEPT ![c] = "persist"]
            /\ UNCHANGED file
      BY <1>20, SubmitIs
    <2>2. Distinct(queue') /\ Distinct(seen')
      BY <2>1, <1>a DEF Distinct, Grown, CountInv, PlacesInv
    <2>3. Waiting' = Waiting \cup {submits + 1}
      BY <2>1 DEF Waiting, Grown
    <2>4. \A w \in Workers : pc'[w] = pc[w] /\ held'[w] = held[w]
      BY <2>1, <1>a
    <2>5. Taken' = Taken /\ submits + 1 \notin Taken
      BY <2>4, <1>a DEF Taken, Busy, CountInv
    <2> QED
      BY <2>1, <2>2, <2>3, <2>4, <2>5 DEF PlacesInv, Busy
  <1>21. ASSUME NEW w \in Workers, Take(w) PROVE PlacesInv'
    <2>1. Distinct(queue') /\ Distinct(seen') /\ Distinct(file')
      <3>1. ASSUME NEW i \in DOMAIN queue', NEW j \in DOMAIN queue', queue'[i].job = queue'[j].job
            PROVE  i = j
        <4>1. i + 1 \in DOMAIN queue /\ j + 1 \in DOMAIN queue /\ queue[i + 1].job = queue[j + 1].job
          BY <1>21, <3>1, TakeIs
        <4>2. i + 1 = j + 1
          BY <4>1 DEF PlacesInv, Distinct
        <4>3. queue' \in Seq(Job)
          BY <1>21, TakeIs
        <4>4. i \in Nat /\ j \in Nat
          BY <4>3
        <4> QED
          BY <4>2, <4>4
      <3>2. Distinct(seen') /\ file' = file
        BY <1>21, TakeIs DEF Updated, Distinct, PlacesInv
      <3> QED
        BY <3>1, <3>2 DEF Distinct, PlacesInv
    <2>2. Waiting' \subseteq Waiting /\ queue[1].job \notin Waiting'
      <3>1. ASSUME NEW i \in DOMAIN queue' PROVE queue'[i].job \in Waiting /\ queue'[i].job # queue[1].job
        <4>1. i + 1 \in DOMAIN queue /\ 1 \in DOMAIN queue /\ queue'[i] = queue[i + 1] /\ queue' \in Seq(Job)
          BY <1>21, TakeIs
        <4>2. i \in Nat /\ i # 0
          BY <4>1
        <4>3. queue[i + 1].job # queue[1].job
          BY <4>1, <4>2 DEF PlacesInv, Distinct
        <4> QED
          BY <4>1, <4>3 DEF Waiting
      <3> QED
        BY <3>1 DEF Waiting
    <2>3. queue[1].job \in Waiting
      BY <1>21, TakeIs DEF Waiting
    <2>4. /\ \A v \in Workers : v # w => pc'[v] = pc[v] /\ held'[v] = held[v]
          /\ held'[w] = queue[1] /\ ~Busy(w)
      BY <1>21, <1>a, TakeIs DEF Busy
    <2>5. \A v \in Workers : Busy(v)' => v = w \/ (Busy(v) /\ held'[v].job \in Taken)
      BY <2>4 DEF Busy, Taken
    <2>6. Taken' \subseteq Taken \cup {queue[1].job}
      BY <2>4, <2>5 DEF Taken
    <2>7. \A v \in Workers : v # w /\ Busy(v)' => held'[v].job # queue[1].job
      BY <2>3, <2>5 DEF PlacesInv
    <2> QED
      BY <2>1, <2>2, <2>4, <2>5, <2>6, <2>7 DEF PlacesInv
  <1>22. ASSUME NEW w \in Workers, Record(w) PROVE PlacesInv'
    <2>1. Distinct(seen')
      BY <1>22, RecordIs DEF Updated, Distinct, PlacesInv
    <2>2. \A v \in Workers : Busy(v)' => Busy(v)
      BY <1>22, <1>a, RecordIs DEF Busy
    <2>3. Taken' \subseteq Taken /\ Waiting' = Waiting
      BY <1>22, <2>2, RecordIs DEF Taken, Waiting
    <2> QED
      BY <1>22, <2>1, <2>2, <2>3, RecordIs DEF PlacesInv, Distinct
  <1>23. ASSUME Crash PROVE PlacesInv'
    <2>1. Distinct(file')
      <3>1. UNCHANGED <<file, seen>> \/ (LineOfList' /\ UNCHANGED seen)
        BY <1>23, CrashIs
      <3> QED
        BY <3>1 DEF LineOfList, Distinct, PlacesInv
    <2>2. UNCHANGED <<queue, seen, pc, held>>
      BY <1>23, CrashIs
    <2> QED
      BY <2>1, <2>2 DEF PlacesInv, Distinct, Waiting, Taken, Busy
  <1>24. ASSUME Restart PROVE PlacesInv'
    <2>1. /\ \A t \in Threads : pc'[t] = "idle"
          /\ file' = file
      BY <1>24, RestartIs
    <2>2. Taken' = {} /\ \A w \in Workers : ~Busy(w)'
      BY <2>1 DEF Taken, Busy
    <2>3. Distinct(seen')
      BY <1>24, RestartIs DEF RestoredFrom, Distinct, PlacesInv
    <2>4. PICK at \in [DOMAIN queue' -> DOMAIN seen'] : Queued(at)'
      BY <1>24, RestartIs
    <2>6. Distinct(queue')
      BY <2>3, <2>4 DEF Distinct, Queued
    <2> QED
      BY <2>1, <2>2, <2>3, <2>6 DEF PlacesInv
  <1>25. ASSUME NEW w \in Workers, Poll(w) PROVE UNCHANGED vars
    BY <1>25 DEF Poll
  <1>26. ASSUME NEW c \in Clients, SubmitPersist(c) PROVE PlacesInv'
    <2>1. Persist /\ UNCHANGED <<queue, seen>>
      BY <1>26 DEF SubmitPersist
    <2>2. Distinct(file')
      BY <2>1, <1>b, PersistIs
    <2>3. \A v \in Workers : Busy(v)' => Busy(v) /\ held'[v] = held[v]
      BY <1>26, <1>a DEF SubmitPersist, Goto, Busy
    <2>4. Taken' \subseteq Taken /\ Waiting' = Waiting
      BY <2>1, <2>3 DEF Taken, Waiting
    <2> QED
      BY <2>1, <2>2, <2>3, <2>4 DEF PlacesInv, Distinct
  <1>27. ASSUME NEW w \in Workers, PersistTaken(w) PROVE PlacesInv'
    <2>1. Persist /\ UNCHANGED <<queue, seen>>
      BY <1>27 DEF PersistTaken
    <2>2. Distinct(file')
      BY <2>1, <1>b, PersistIs
    <2>3. \A v \in Workers : Busy(v)' => Busy(v) /\ held'[v] = held[v]
      BY <1>27, <1>a DEF PersistTaken, Goto, Busy
    <2>4. Taken' \subseteq Taken /\ Waiting' = Waiting
      BY <2>1, <2>3 DEF Taken, Waiting
    <2> QED
      BY <2>1, <2>2, <2>3, <2>4 DEF PlacesInv, Distinct
  <1>28. ASSUME NEW w \in Workers, PersistDone(w) PROVE PlacesInv'
    <2>1. Persist /\ UNCHANGED <<queue, seen>>
      BY <1>28 DEF PersistDone
    <2>2. Distinct(file')
      BY <2>1, <1>b, PersistIs
    <2>3. \A v \in Workers : Busy(v)' => Busy(v) /\ held'[v] = held[v]
      BY <1>28, <1>a DEF PersistDone, Goto, Busy
    <2>4. Taken' \subseteq Taken /\ Waiting' = Waiting
      BY <2>1, <2>3 DEF Taken, Waiting
    <2> QED
      BY <2>1, <2>2, <2>3, <2>4 DEF PlacesInv, Distinct
  <1> QED
    BY <1>1, <1>2, <1>3, <1>4, <1>20, <1>21, <1>22, <1>23, <1>24, <1>25, <1>26, <1>27, <1>28 DEF Next

LEMMA AckedNext == TypeOK /\ CountInv /\ AckedInv /\ [Next]_vars => AckedInv'
  <1> SUFFICES ASSUME TypeOK, CountInv, AckedInv, [Next]_vars PROVE AckedInv'
    OBVIOUS
  <1> USE DaemonAssumption DEF Threads
  <1>a. DOMAIN pc = Threads /\ DOMAIN held = Threads
    BY DEF TypeOK
  <1>1. ASSUME NEW w \in Workers, Exit(w) PROVE AckedInv'
    BY <1>1, <1>a DEF Exit, AckedInv, Mislaid, JobsOf, Known, Goto
  <1>2. ASSUME DropScheduler PROVE AckedInv'
    BY <1>2, <1>a DEF DropScheduler, AckedInv, Mislaid, JobsOf, Known, Goto
  <1>3. ASSUME Joined PROVE AckedInv'
    BY <1>3, <1>a DEF Joined, AckedInv, Mislaid, JobsOf, Known, Goto
  <1>4. ASSUME UNCHANGED vars PROVE AckedInv'
    BY <1>4, <1>a DEF vars, AckedInv, Mislaid, JobsOf, Known, Goto
  <1>20. ASSUME NEW c \in Clients, Submit(c) PROVE AckedInv'
    <2>1. PICK job \in Job :
            /\ Grown(seen', seen, job) /\ up /\ up'
            /\ held' = [held EXCEPT ![c] = job] /\ pc' = [pc EXCEPT ![c] = "persist"]
            /\ mishaps' \in {mishaps, mishaps \cup {"shared_id"}}
            /\ UNCHANGED <<file, intact, acked>>
      BY <1>20, SubmitIs
    <2>2. Known \subseteq Known' /\ job.job \in Known'
      BY <2>1 DEF Known, Grown
    <2>3. \A d \in Clients : pc'[d] = "persist" => held'[d].job \in Known'
      BY <2>1, <2>2, <1>a DEF AckedInv
    <2>4. Mislaid' <=> Mislaid
      BY <2>1 DEF Mislaid
    <2> QED
      BY <2>1, <2>2, <2>3, <2>4 DEF AckedInv
  <1>21. ASSUME NEW c \in Clients, SubmitPersist(c) PROVE AckedInv'
    <2>1. /\ up /\ up' /\ pc[c] = "persist" /\ Persist /\ seen' = seen
          /\ acked' = acked \cup {held[c].job} /\ mishaps' = mishaps
          /\ held' = [held EXCEPT ![c] = NoJob] /\ pc' = [pc EXCEPT ![c] = "idle"]
      BY <1>21 DEF SubmitPersist, Goto
    <2>2. (intact' => JobsOf(file') = Known) /\ Known' = Known
      BY <2>1, PersistIs DEF Rewritten, JobsOf, Known
    <2> QED
      BY <2>1, <2>2, <1>a DEF AckedInv, Mislaid
  <1>22. ASSUME NEW w \in Workers, NEW id, NEW state, Updated(seen', seen, id, state),
                UNCHANGED <<up, file, intact, acked, mishaps>>,
                \A c \in Clients : pc'[c] = pc[c] /\ held'[c] = held[c]
         PROVE  AckedInv'
    <2>1. Known' = Known
      BY <1>22 DEF Updated, Known
    <2> QED
      BY <1>22, <2>1 DEF AckedInv, Mislaid
  <1>23. ASSUME NEW w \in Workers, Take(w) PROVE AckedInv'
    <2>1. \A c \in Clients : pc'[c] = pc[c] /\ held'[c] = held[c]
      BY <1>23, <1>a, TakeIs
    <2> QED
      BY <1>22, <1>23, <2>1, TakeIs
  <1>24. ASSUME NEW w \in Workers, Record(w) PROVE AckedInv'
    <2>1. \A c \in Clients : pc'[c] = pc[c] /\ held'[c] = held[c]
      BY <1>24, <1>a, RecordIs
    <2> QED
      BY <1>22, <1>24, <2>1, RecordIs
  <1>25. ASSUME Crash PROVE AckedInv'
    <2>1. up' = FALSE /\ (UNCHANGED <<file, intact>> \/ intact' = FALSE) /\ UNCHANGED <<acked, mishaps>>
      BY <1>25, CrashIs
    <2> QED
      BY <2>1 DEF AckedInv, Mislaid, JobsOf
  <1>26. ASSUME Restart PROVE AckedInv'
    <2>1. PICK jobs \in {file, <<>>} : RestoredFrom(jobs)
      BY <1>26, RestartIs
    <2>2. Known' = JobsOf(jobs) /\ (~Mislaid' => ~Mislaid /\ intact /\ jobs = file)
      BY <2>1 DEF RestoredFrom, Read, Known, JobsOf, Mislaid
    <2>3. \A c \in Clients : pc'[c] = "idle"
      BY <1>26, RestartIs
    <2>4. UNCHANGED <<file, intact, acked>>
      BY <1>26, RestartIs
    <2> QED
      BY <2>2, <2>3, <2>4 DEF AckedInv, JobsOf
  <1>27. ASSUME NEW w \in Workers, Poll(w) PROVE UNCHANGED vars
    BY <1>27 DEF Poll
  <1>28. ASSUME up, Persist, UNCHANGED <<up, seen, acked, mishaps>>,
                \A c \in Clients : pc'[c] = pc[c] /\ held'[c] = held[c]
         PROVE  AckedInv'
    <2>1. (intact' => JobsOf(file') = Known) /\ Known' = Known
      BY <1>28, PersistIs DEF Rewritten, JobsOf, Known
    <2> QED
      BY <1>28, <2>1 DEF AckedInv, Mislaid
  <1>29. ASSUME NEW w \in Workers, PersistTaken(w) PROVE AckedInv'
    BY <1>28, <1>29, <1>a DEF PersistTaken, Goto
  <1>30. ASSUME NEW w \in Workers, PersistDone(w) PROVE AckedInv'
    BY <1>28, <1>30, <1>a DEF PersistDone, Goto
  <1> QED
    BY <1>1, <1>2, <1>3, <1>4, <1>20, <1>21, <1>23, <1>24, <1>25, <1>26, <1>27, <1>29, <1>30 DEF Next

LEMMA CurrentNext == TypeOK /\ CountInv /\ PlacesInv /\ PlacesInv' /\ CurrentInv /\ [Next]_vars => CurrentInv'
  <1> SUFFICES ASSUME TypeOK, CountInv, PlacesInv, PlacesInv', CurrentInv, [Next]_vars,
                      "shared_id" \notin mishaps'
               PROVE  CurrentInv'
    BY DEF CurrentInv
  <1> USE DaemonAssumption DEF Threads
  <1>a. DOMAIN pc = Threads /\ DOMAIN held = Threads
    BY DEF TypeOK
  <1>1. ASSUME NEW w \in Workers, Exit(w) PROVE CurrentInv'
    BY <1>1, <1>a DEF Exit, CurrentInv, Settled, Goto, Shown, Listed, OneId, Waiting, Taken, Busy
  <1>2. ASSUME DropScheduler PROVE CurrentInv'
    BY <1>2, <1>a DEF DropScheduler, CurrentInv, Settled, Goto, Shown, Listed, OneId, Waiting, Taken, Busy
  <1>3. ASSUME Joined PROVE CurrentInv'
    BY <1>3, <1>a DEF Joined, CurrentInv, Settled, Goto, Shown, Listed, OneId, Waiting, Taken, Busy
  <1>4. ASSUME UNCHANGED vars PROVE CurrentInv'
    BY <1>4, <1>a DEF vars, CurrentInv, Settled, Goto, Shown, Listed, OneId, Waiting, Taken, Busy
  (* A step that writes the list to the file. *)
  <1>19. ASSUME up, UNCHANGED <<up, queue, seen, done, mishaps>>, Persist, "shared_id" \notin mishaps,
                \A w \in Workers : Busy(w)' <=> Busy(w), \A w \in Workers : Busy(w) => held'[w] = held[w]
         PROVE  CurrentInv'
    <2>1. Waiting' = Waiting /\ Taken' = Taken
      BY <1>19 DEF Waiting, Taken
    <2>2. \A i \in DOMAIN seen : Shown(i) /\ Shown(i)'
      BY <1>19, <2>1 DEF Shown, CurrentInv
    <2>3. UNCHANGED file \/ LineOfList'
      BY <1>19, PersistIs DEF Rewritten
    <2>4. \A i \in DOMAIN file' : file'[i].state \in Final => file'[i].job \in done'
      BY <1>19, <2>2, <2>3 DEF Shown, LineOfList, CurrentInv
    <2>5. Settled' /\ OneId(file') /\ OneId(seen)
      BY <1>19, <2>3 DEF CurrentInv, OneId, LineOfList, Settled, PlacesInv, Distinct
    <2> QED
      BY <1>19, <2>2, <2>4, <2>5 DEF CurrentInv, OneId, Listed
  <1>20. ASSUME NEW c \in Clients, SubmitPersist(c) PROVE CurrentInv'
    <2>1. \A w \in Workers : pc'[w] = pc[w] /\ held'[w] = held[w]
      BY <1>20, <1>a DEF SubmitPersist, Goto
    <2> QED
      BY <1>19, <1>20, <2>1 DEF SubmitPersist, Busy
  <1>21. ASSUME NEW w \in Workers, PersistTaken(w) PROVE CurrentInv'
    <2>1. \A v \in Workers : (Busy(v)' <=> Busy(v)) /\ held'[v] = held[v]
      BY <1>21, <1>a DEF PersistTaken, Goto, Busy
    <2> QED
      BY <1>19, <1>21, <2>1 DEF PersistTaken
  <1>22. ASSUME NEW w \in Workers, PersistDone(w) PROVE CurrentInv'
    <2>1. \A v \in Workers : (Busy(v)' <=> Busy(v)) /\ (Busy(v) => held'[v] = held[v])
      BY <1>22, <1>a DEF PersistDone, Goto, Busy
    <2> QED
      BY <1>19, <1>22, <2>1 DEF PersistDone
  <1>23. ASSUME NEW c \in Clients, Submit(c) PROVE CurrentInv'
    <2>1. PICK job \in Job :
            /\ job.job = submits + 1 /\ job.id = next_id /\ job.state = "queued"
            /\ Grown(queue', queue, job) /\ Grown(seen', seen, job)
            /\ held' = [held EXCEPT ![c] = job] /\ pc' = [pc EXCEPT ![c] = "persist"]
            /\ up /\ mishaps' \in {mishaps, mishaps \cup {"shared_id"}}
            /\ \A i \in DOMAIN seen : seen[i].id # next_id
            /\ UNCHANGED <<up, file, done>>
      BY <1>23, SubmitIs
    <2>2. "shared_id" \notin mishaps
      BY <2>1
    <2>3. OneId(seen')
      BY <2>1, <2>2 DEF OneId, Grown, CurrentInv
    <2>4. Waiting' = Waiting \cup {submits + 1}
      BY <2>1 DEF Waiting, Grown
    <2>5. \A w \in Workers : pc'[w] = pc[w] /\ held'[w] = held[w]
      BY <2>1, <1>a
    <2>6. Taken' = Taken
      BY <2>5 DEF Taken, Busy
    <2>7. \A i \in DOMAIN seen : seen[i].job # submits + 1 /\ Shown(i)
      <3>1. \A i \in DOMAIN seen : seen[i] \in Job /\ seen[i].job <= submits
        BY DEF TypeOK, CountInv
      <3>2. \A i \in DOMAIN seen : seen[i].job \in Nat /\ submits \in Nat
        BY <3>1 DEF Job, TypeOK
      <3> QED
        BY <2>1, <2>2, <3>1, <3>2 DEF CurrentInv
    <2>8. \A i \in DOMAIN seen' : Shown(i)'
      <3>1. ASSUME NEW i \in DOMAIN seen PROVE Shown(i)'
        BY <2>1, <2>4, <2>6, <2>7, <3>1 DEF Shown, Grown
      <3>2. PICK n : n = Len(seen) + 1
        OBVIOUS
      <3>3. seen'[n] = job
        BY <2>1, <3>2 DEF Grown
      <3>4. Shown(n)'
        BY <2>1, <2>4, <3>3 DEF Shown, Final
      <3>5. DOMAIN seen' = DOMAIN seen \cup {n}
        BY <2>1, <3>2 DEF Grown
      <3> QED
        BY <3>1, <3>4, <3>5
    <2>9. ASSUME NEW r, Listed(seen, r) PROVE Listed(seen', r)
      BY <2>1, <2>9 DEF Listed, Grown
    <2>10. Listed(seen', job)
      BY <2>1 DEF Listed, Grown
    <2>11. \A i \in DOMAIN queue' : Listed(seen', queue'[i])
      BY <2>1, <2>2, <2>9, <2>10 DEF CurrentInv, Grown
    <2>12. \A w \in Workers : Busy(w)' => Listed(seen', held'[w])
      BY <2>1, <2>2, <2>5, <2>9 DEF CurrentInv, Busy
    <2>13. Settled'
      <3>1. \A i \in DOMAIN file : file[i] \in Job /\ file[i].job <= submits
        BY DEF TypeOK, CountInv
      <3>2. \A i \in DOMAIN file : file[i].job \in Nat /\ submits \in Nat
        BY <3>1 DEF Job, TypeOK
      <3>3. \A i \in DOMAIN file : file[i].job # submits + 1
        BY <3>1, <3>2
      <3> QED
        BY <2>1, <2>2, <3>3 DEF CurrentInv, Settled, Grown
    <2> QED
      BY <2>1, <2>2, <2>3, <2>8, <2>11, <2>12, <2>13 DEF CurrentInv
  <1>24. ASSUME NEW w \in Workers, Take(w) PROVE CurrentInv'
    <2>1. "shared_id" \notin mishaps /\ up /\ up' /\ mishaps' = mishaps /\ file' = file /\ done' = done
      BY <1>24, TakeIs
    <2> DEFINE q == queue[1]
    <2>2. PICK k \in DOMAIN seen : seen[k].job = q.job /\ seen[k].id = q.id
      BY <1>24, <2>1, TakeIs DEF CurrentInv, Listed
    <2>3. Updated(seen', seen, q.id, "running") /\ q.job \in Waiting
      BY <1>24, TakeIs DEF Waiting
    <2>4. /\ \A v \in Workers : v # w => pc'[v] = pc[v] /\ held'[v] = held[v]
          /\ held'[w] = q /\ pc'[w] = "taken" /\ pc[w] = "idle"
      BY <1>24, <1>a, TakeIs
    <2>5. Taken' = Taken \cup {q.job}
      BY <2>4 DEF Taken, Busy
    <2>6. Waiting' \subseteq Waiting /\ Waiting \subseteq Waiting' \cup {q.job}
      <3>1. ASSUME NEW i \in DOMAIN queue' PROVE queue'[i].job \in Waiting
        BY <1>24, TakeIs DEF Waiting
      <3>2. ASSUME NEW i \in DOMAIN queue PROVE queue[i].job \in Waiting' \cup {q.job}
        BY <1>24, TakeIs DEF Waiting
      <3> QED
        BY <3>1, <3>2 DEF Waiting
    <2>7. OneId(seen) /\ OneId(seen') /\ \A i \in DOMAIN seen : Shown(i)
      BY <2>1, <2>3 DEF CurrentInv, OneId, Updated
    <2>8. seen[k].state \notin Final
      BY <2>2, <2>3, <2>7 DEF Shown
    <2>9. \A i \in DOMAIN seen : i # k => seen'[i] = seen[i] /\ seen[i].job # q.job
      BY <2>2, <2>3, <2>7 DEF OneId, Updated, PlacesInv, Distinct
    <2>10. seen'[k].job = q.job /\ seen'[k].state = "running"
      BY <2>2, <2>3, <2>7 DEF Updated
    <2>11. \A i \in DOMAIN seen : Shown(i)'
      <3>1. ASSUME NEW i \in DOMAIN seen, i # k PROVE Shown(i)'
        BY <2>1, <2>5, <2>6, <2>7, <2>9, <3>1 DEF Shown
      <3>2. Shown(k)'
        BY <2>5, <2>10 DEF Shown, Final
      <3> QED
        BY <3>1, <3>2
    <2>12. ASSUME NEW r, Listed(seen, r) PROVE Listed(seen', r)
      BY <2>3, <2>12 DEF Listed, Updated
    <2>13. Listed(seen, q)
      BY <2>2 DEF Listed
    <2>14. \A i \in DOMAIN queue' : Listed(seen', queue'[i])
      BY <1>24, <2>1, <2>12, TakeIs DEF CurrentInv
    <2>15. \A v \in Workers : Busy(v)' => Listed(seen', held'[v])
      BY <2>1, <2>4, <2>12, <2>13 DEF CurrentInv, Busy
    <2>16. Settled'
      BY <2>1, <2>2, <2>3, <2>8, <2>9, <2>10 DEF CurrentInv, Settled, Updated
    <2>17. DOMAIN seen' = DOMAIN seen
      BY <2>3 DEF Updated
    <2> HIDE DEF q
    <2> QED
      BY <2>1, <2>7, <2>11, <2>14, <2>15, <2>16, <2>17 DEF CurrentInv
  <1>25. ASSUME NEW w \in Workers, Record(w) PROVE CurrentInv'
    <2>1. /\ "shared_id" \notin mishaps /\ up /\ up' /\ mishaps' = mishaps /\ file' = file
          /\ done' = done \cup {held[w].job} /\ UNCHANGED <<queue, held>> /\ pc[w] = "running"
      BY <1>25, RecordIs
    <2> DEFINE q == held[w]
    <2>2. PICK k \in DOMAIN seen : seen[k].job = q.job /\ seen[k].id = q.id
      BY <2>1 DEF CurrentInv, Listed, Busy
    <2>3. PICK final \in Final : Updated(seen', seen, q.id, final)
      BY <1>25, RecordIs
    <2>4. ~Busy(w)' /\ \A v \in Workers : v # w => (Busy(v)' <=> Busy(v))
      BY <1>25, <1>a, RecordIs DEF Busy
    <2>5. Taken' \subseteq Taken /\ Taken \subseteq Taken' \cup {q.job} /\ q.job \in Taken /\ q.job \notin Taken'
      <3>1. \A v \in Workers : v # w /\ Busy(v) => held[v].job # q.job
        BY <2>1 DEF PlacesInv, Busy
      <3> QED
        BY <2>1, <2>4, <3>1 DEF Taken, Busy
    <2>6. Waiting' = Waiting /\ q.job \notin Waiting
      BY <2>1, <2>5 DEF Waiting, PlacesInv
    <2>7. OneId(seen) /\ OneId(seen') /\ \A i \in DOMAIN seen : Shown(i)
      BY <2>1, <2>3 DEF CurrentInv, OneId, Updated
    <2>9. \A i \in DOMAIN seen : i # k => seen'[i] = seen[i] /\ seen[i].job # q.job
      BY <2>2, <2>3, <2>7 DEF OneId, Updated, PlacesInv, Distinct
    <2>10. seen'[k].job = q.job /\ seen'[k].state \in Final
      BY <2>2, <2>3, <2>7 DEF Updated
    <2>11. \A i \in DOMAIN seen : Shown(i)'
      <3>1. ASSUME NEW i \in DOMAIN seen, i # k PROVE Shown(i)'
        BY <2>1, <2>5, <2>6, <2>7, <2>9, <3>1 DEF Shown
      <3>2. Shown(k)'
        BY <2>1, <2>5, <2>6, <2>10 DEF Shown, Final
      <3> QED
        BY <3>1, <3>2
    <2>12. ASSUME NEW r, Listed(seen, r) PROVE Listed(seen', r)
      BY <2>3, <2>12 DEF Listed, Updated
    <2>14. \A i \in DOMAIN queue' : Listed(seen', queue'[i])
      BY <2>1, <2>12 DEF CurrentInv
    <2>15. \A v \in Workers : Busy(v)' => Listed(seen', held'[v])
      BY <2>1, <2>4, <2>12 DEF CurrentInv
    <2>16. Settled'
      BY <2>1, <2>3, <2>2, <2>9, <2>10 DEF CurrentInv, Settled, Updated
    <2>17. DOMAIN seen' = DOMAIN seen
      BY <2>3 DEF Updated
    <2> HIDE DEF q
    <2> QED
      BY <2>1, <2>7, <2>11, <2>14, <2>15, <2>16, <2>17 DEF CurrentInv
  <1>26. ASSUME Crash PROVE CurrentInv'
    <2>1. up /\ up' = FALSE /\ UNCHANGED <<seen, done>> /\ "shared_id" \notin mishaps
      BY <1>26, CrashIs DEF Crash
    <2>2. OneId(seen) /\ OneId(seen')
      BY <2>1 DEF CurrentInv, OneId
    <2>3. OneId(file')
      BY <1>26, <2>1, CrashIs DEF CurrentInv, LineOfList, OneId
    <2>4. \A i \in DOMAIN file' : file'[i].state \in Final => file'[i].job \in done
      BY <1>26, <2>1, CrashIs DEF CurrentInv, LineOfList, Shown
    <2> QED
      BY <2>1, <2>2, <2>3, <2>4 DEF CurrentInv
  <1>27. ASSUME Restart PROVE CurrentInv'
    <2>1. /\ "shared_id" \notin mishaps /\ UNCHANGED <<file, done>>
          /\ \A t \in Threads : pc'[t] = "idle"
      BY <1>27, RestartIs DEF RestoredFrom, Read
    <2>a. PICK jobs \in {file, <<>>} : RestoredFrom(jobs)
      BY <1>27, RestartIs
    <2>2. Taken' = {} /\ \A w \in Workers : ~Busy(w)'
      BY <2>1 DEF Taken, Busy
    <2>3. PICK at \in [DOMAIN queue' -> DOMAIN seen'] : Queued(at)'
      BY <1>27, RestartIs
    <2>4. /\ OneId(file) /\ OneId(seen')
          /\ \A i \in DOMAIN file : file[i].state \in Final => file[i].job \in done
          /\ \A i \in DOMAIN seen' :
               seen'[i].state # "running" /\ (seen'[i].state \in Final => seen'[i].job \in done)
      BY <2>1, <2>a DEF CurrentInv, RestoredFrom, OneId
    <2>5. \A i \in DOMAIN seen' : Shown(i)'
      <3> SUFFICES ASSUME NEW i \in DOMAIN seen' PROVE Shown(i)'
        OBVIOUS
      <3>1. seen'[i].state = "queued" => seen'[i].job \in Waiting'
        BY <2>3 DEF Queued, Waiting
      <3>2. seen'[i].state \in Final => seen'[i].job \in done' /\ seen'[i].job \notin Waiting'
        <4> SUFFICES ASSUME seen'[i].state \in Final
                     PROVE  seen'[i].job \in done' /\ \A n \in DOMAIN queue' : queue'[n].job # seen'[i].job
          BY DEF Waiting
        <4>1. seen'[i].job \in done'
          BY <2>1, <2>4
        <4>2. ASSUME NEW n \in DOMAIN queue', queue'[n].job = seen'[i].job PROVE FALSE
          <5>1. at[n] \in DOMAIN seen' /\ seen'[at[n]].job = seen'[i].job /\ seen'[at[n]].state = "queued"
            BY <2>3, <4>2 DEF Queued
          <5>2. at[n] = i
            BY <5>1 DEF PlacesInv, Distinct
          <5> QED
            BY <5>1, <5>2 DEF Final
        <4> QED
          BY <4>1, <4>2
      <3> QED
        BY <2>2, <2>4, <3>1, <3>2 DEF Shown
    <2>6. \A n \in DOMAIN queue' : Listed(seen', queue'[n])
      BY <2>3 DEF Queued, Listed
    <2>7. Settled'
      BY <2>1, <2>a DEF RestoredFrom, Settled, PlacesInv, Distinct
    <2> QED
      BY <2>1, <2>2, <2>4, <2>5, <2>6, <2>7 DEF CurrentInv, OneId
  <1>28. ASSUME NEW w \in Workers, Poll(w) PROVE UNCHANGED vars
    BY <1>28 DEF Poll
  <1> QED
    BY <1>1, <1>2, <1>3, <1>4, <1>20, <1>21, <1>22, <1>23, <1>24, <1>25, <1>26, <1>27, <1>28 DEF Next

LEMMA DaemonInvAlways == Spec => []DaemonInv
  <1>1. Init => DaemonInv
    <2> SUFFICES ASSUME Init PROVE DaemonInv
      OBVIOUS
    <2> USE DaemonAssumption DEF Init, Threads
    <2>1. TypeOK
      <3>1. queue \in Seq(Job) /\ seen \in Seq(Job) /\ file \in Seq(Job)
        OBVIOUS
      <3>2. /\ pc \in [Threads -> {"idle", "persist", "taken", "running", "recorded", "exited"}]
            /\ held \in [Threads -> Job \cup {NoJob}]
        OBVIOUS
      <3>3. /\ next_id \in 0 .. MaxSubmits /\ submits \in 0 .. MaxSubmits /\ restarts \in 0 .. MaxRestarts
            /\ acked = {} /\ done = {} /\ mishaps = {}
        OBVIOUS
      <3>4. up \in BOOLEAN /\ shutdown \in BOOLEAN /\ intact \in BOOLEAN
        OBVIOUS
      <3> HIDE DEF Init, Threads
      <3> QED
        BY <3>1, <3>2, <3>3, <3>4 DEF TypeOK
    <2>2. CountInv
      BY DEF CountInv, AtWork, NoJob
    <2>3. PlacesInv
      BY DEF PlacesInv, Distinct, Waiting, Taken, Busy
    <2>4. AckedInv /\ CurrentInv
      BY DEF AckedInv, CurrentInv, Settled, OneId, Busy, JobsOf
    <2> QED
      BY <2>1, <2>2, <2>3, <2>4 DEF DaemonInv
  <1>2. DaemonInv /\ [Next]_vars => DaemonInv'
    <2> SUFFICES ASSUME DaemonInv, [Next]_vars PROVE DaemonInv'
      OBVIOUS
    <2>1. TypeOK' /\ CountInv' /\ PlacesInv' /\ AckedInv'
      BY DaemonTypeNext, CountNext, PlacesNext, AckedNext DEF DaemonInv
    <2> QED
      BY <2>1, CurrentNext DEF DaemonInv
  <1> QED
    BY <1>1, <1>2, PTL DEF Spec

(* The lists, the file and the threads keep their types over crashes and    *)
(* restarts: no thread finishes a job it does not have.                     *)
THEOREM DaemonTypeCorrect == Spec => []TypeOK
  <1>1. DaemonInv => TypeOK
    BY DEF DaemonInv
  <1> QED
    BY <1>1, DaemonInvAlways, PTL

(* No submission waits twice, runs twice at once, or waits while it runs,   *)
(* although a restart gives out its ids again and may find a file that is   *)
(* older than the lists it replaces.                                        *)
THEOREM DaemonOnePlace == Spec => []OnePlace
  <1>1. ASSUME DaemonInv PROVE OnePlace
    <2>1. TypeOK /\ PlacesInv
      BY <1>1 DEF DaemonInv
    <2> DEFINE f == [i \in 1 .. Len(queue) |-> queue[i].job]
    <2>2. DOMAIN queue = 1 .. Len(queue) /\ Len(queue) \in Nat
      BY <2>1 DEF TypeOK
    <2>3. f \in Bijection(1 .. Len(queue), Waiting)
      <3>1. Waiting = {f[i] : i \in 1 .. Len(queue)}
        BY <2>2 DEF Waiting
      <3>2. \A i, j \in 1 .. Len(queue) : f[i] = f[j] => i = j
        BY <2>1, <2>2 DEF PlacesInv, Distinct
      <3>3. f \in [1 .. Len(queue) -> Waiting]
        BY <3>1
      <3> HIDE DEF f
      <3>4. f \in Injection(1 .. Len(queue), Waiting)
        BY <3>2, <3>3 DEF Injection, IsInjective
      <3>5. f \in Surjection(1 .. Len(queue), Waiting)
        BY <3>1, <3>3 DEF Surjection
      <3> QED
        BY <3>4, <3>5 DEF Bijection
    <2>4. IsFiniteSet(1 .. Len(queue)) /\ Cardinality(1 .. Len(queue)) = Len(queue)
      <3>1. /\ IsFiniteSet(1 .. Len(queue))
            /\ Cardinality(1 .. Len(queue)) = IF 1 > Len(queue) THEN 0 ELSE Len(queue) - 1 + 1
        BY <2>2, FS_Interval
      <3> QED
        BY <2>2, <3>1
    <2>5. Cardinality(Waiting) = Len(queue)
      BY <2>3, <2>4, FS_Bijection DEF ExistsBijection
    <2> QED
      BY <2>1, <2>5 DEF PlacesInv, OnePlace
  <1> QED
    BY <1>1, DaemonInvAlways, PTL

(* While ids are unique, the state list_jobs shows is the state the job is  *)
(* in: the update by id hits the job the worker holds.                      *)
THEOREM DaemonListIsCurrent == Spec => []ListIsCurrent
  <1>1. ASSUME DaemonInv PROVE ListIsCurrent
    <2> SUFFICES ASSUME up, "shared_id" \notin mishaps, NEW i \in DOMAIN seen
                 PROVE  CASE seen[i].state = "queued" -> seen[i].job \in Waiting
                          [] seen[i].state = "running" -> seen[i].job \in Taken
                          [] OTHER -> seen[i].job \in done /\ seen[i].job \notin Waiting \cup Taken
      BY DEF ListIsCurrent
    <2>1. Shown(i) /\ seen[i] \in Job
      BY <1>1 DEF DaemonInv, CurrentInv, TypeOK
    <2>2. seen[i].state \in {"queued", "running"} \cup Final
      BY <2>1 DEF Job, JobState
    <2>3. seen[i].state # "queued" /\ seen[i].state # "running" => seen[i].state \in Final
      BY <2>2
    <2>4. "queued" # "running"
      OBVIOUS
    <2> QED
      BY <2>1, <2>3, <2>4, Zenon DEF Shown
  <1> QED
    BY <1>1, DaemonInvAlways, PTL

(* A submission that was acknowledged is in the list of every daemon that   *)
(* runs after it, unless one of them started from a file it could not read  *)
(* or whose last write had not gone through.                                *)
THEOREM DaemonKnowsAcked == Spec => []AckedIsKnown
  <1>1. DaemonInv => AckedIsKnown
    BY DEF DaemonInv, AckedInv, Mislaid, AckedIsKnown
  <1> QED
    BY <1>1, DaemonInvAlways, PTL

(* While ids are unique, a job that the file says is finished neither waits *)
(* nor runs, in this daemon or in one that was started from the file.       *)
THEOREM DaemonFinishedStays == Spec => []FinishedStaysFinished
  <1>1. ASSUME DaemonInv PROVE FinishedStaysFinished
    <2> SUFFICES ASSUME up, "shared_id" \notin mishaps, NEW i \in DOMAIN file, file[i].state \in Final
                 PROVE  file[i].job \notin Waiting \cup Taken
      BY DEF FinishedStaysFinished, FinishedOnDisk
    <2>1. ASSUME NEW k \in DOMAIN seen, seen[k].job = file[i].job PROVE file[i].job \notin Waiting \cup Taken
      BY <1>1, <2>1 DEF DaemonInv, CurrentInv, Settled, Shown
    <2>2. \A j \in Waiting \cup Taken : \E k \in DOMAIN seen : seen[k].job = j
      BY <1>1 DEF DaemonInv, CurrentInv, Waiting, Taken, Listed
    <2> QED
      BY <2>1, <2>2
  <1> QED
    BY <1>1, DaemonInvAlways, PTL
===============================================================================
