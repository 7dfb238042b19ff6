--------------------------- MODULE JobQueueProofs ---------------------------
(***************************************************************************)
(* The safety of the job queue for any number of jobs, replicas and        *)
(* faults.  ExclusiveExecution is not inductive on its own: a claim is     *)
(* safe because the row it commits was locked while it was queued and due  *)
(* (LockedRowsAreDue), and a retry is late enough because age and due of a *)
(* queued row always add up to its backoff (BackoffPending).               *)
(*                                                                         *)
(* The webhook worker of WebhookDelivery runs on that queue.  Its own      *)
(* properties rest on one count: a claim pays for one POST, and a job      *)
(* whose claim was not spent is never seen in the queue again              *)
(* (PostsFollowClaims, WorkerProgress).                                    *)
(***************************************************************************)
EXTENDS WebhookDelivery, TLAPS

USE DEF kind

\* A row that a poll has locked is queued and due, and its poller holds no job.
LockedRowsAreDue ==
    \A j \in JobIds : \A w \in rowLock[j] :
        /\ status[j] = "queued"
        /\ due[j] <= 0
        /\ holding[w] = None

\* A poll locks one row (LIMIT 1, one transaction per worker), and no two polls
\* lock the same one (FOR UPDATE SKIP LOCKED).
OneLockPerWorker ==
    \A j, k \in JobIds : \A w \in rowLock[j], v \in rowLock[k] : (j = k) <=> (w = v)

\* A queued job has an attempt left, an id not yet used has made none.
QueuedHasAttemptsLeft ==
    \A j \in JobIds :
        /\ status[j] = "queued" => attempts[j] < max[j]
        /\ status[j] = "unused" => attempts[j] = 0

\* The part of the backoff not yet waited for is still ahead of run_at.
BackoffPending ==
    \A j \in JobIds : (status[j] = "queued" /\ attempts[j] > 0) =>
        \/ age[j] >= Backoff(attempts[j])
        \/ age[j] + due[j] >= Backoff(attempts[j])

IInv ==
    /\ TypeOK
    /\ ExclusiveExecution
    /\ AttemptsWithinLimit
    /\ LockedRowsAreDue
    /\ OneLockPerWorker
    /\ QueuedHasAttemptsLeft
    /\ BackoffPending
-----------------------------------------------------------------------------
\* The wait fail_job computes is a whole number of 5-second units.
LEMMA BackoffType ==
    ASSUME NEW a \in Nat
    PROVE  Backoff(a) \in Nat
BY DEF Backoff

\* No job waits longer for a retry than reap_old_jobs keeps its row.
LEMMA BackoffBelowRetention ==
    ASSUME NEW a \in Nat, a <= MaxAttempts
    PROVE  Backoff(a) <= Retention
<1>1. Retention >= Backoff(MaxAttempts) /\ Retention \in Nat
  BY RetentionAssumption
<1>2. Backoff(a) <= Backoff(MaxAttempts)
  BY MaxAttemptsAssumption DEF Backoff
<1>3. Backoff(a) \in Nat /\ Backoff(MaxAttempts) \in Nat
  BY BackoffType, MaxAttemptsAssumption
<1> QED
  BY <1>1, <1>2, <1>3

\* The empty table satisfies the invariant.
LEMMA InitIInv == Init => IInv
BY NoneAssumption, MaxAttemptsAssumption, RetentionAssumption, MaxFaultsAssumption
   DEF Init, IInv, TypeOK, ExclusiveExecution, AttemptsWithinLimit, LockedRowsAreDue,
       OneLockPerWorker, QueuedHasAttemptsLeft, BackoffPending, Status, Present, Queues,
       JobTypes

-----------------------------------------------------------------------------
\* A new row is queued with all its attempts ahead of it (enqueue).
LEMMA EnqueueKeepsIInv ==
    ASSUME IInv, NEW j \in JobIds, NEW q \in Queues, NEW t \in JobTypes,
           NEW d \in 0..MaxDelay, NEW m \in 1..MaxAttempts,
           Enqueue(j, q, t, d, m)
    PROVE  IInv'
<1> USE DEF Enqueue, workerVars
<1>1. TypeOK'
  BY MaxAttemptsAssumption, MaxDelayAssumption, RetentionAssumption DEF IInv, TypeOK, Status
<1>2. ExclusiveExecution'
  BY DEF IInv, TypeOK, ExclusiveExecution
<1>3. AttemptsWithinLimit' /\ QueuedHasAttemptsLeft'
  BY MaxAttemptsAssumption
     DEF IInv, TypeOK, AttemptsWithinLimit, QueuedHasAttemptsLeft, Present
<1>4. LockedRowsAreDue' /\ OneLockPerWorker'
  BY DEF IInv, TypeOK, LockedRowsAreDue, OneLockPerWorker
<1>5. BackoffPending'
  BY DEF IInv, TypeOK, BackoffPending, QueuedHasAttemptsLeft
<1> QED
  BY <1>1, <1>2, <1>3, <1>4, <1>5 DEF IInv

\* The SELECT of a poll locks one row that is queued and due.
LEMMA PollSelectKeepsIInv ==
    ASSUME IInv, NEW w \in Workers, PollSelect(w)
    PROVE  IInv'
<1>1. PICK j \in JobIds : /\ status[j] = "queued" /\ due[j] <= 0
                          /\ rowLock[j] = {}
                          /\ rowLock' = [rowLock EXCEPT ![j] = @ \cup {w}]
  BY DEF PollSelect, Pollable, Eligible
<1>2. /\ holding[w] = None
      /\ \A k \in JobIds : w \notin rowLock[k]
      /\ UNCHANGED <<status, queue, jobType, attempts, max, due, age, lockedBy, holding, seen, alive, faults>>
  BY DEF PollSelect, Idle, Polling, rows, workerVars
<1>3. TypeOK'
  BY <1>1, <1>2 DEF IInv, TypeOK
<1>4. ExclusiveExecution' /\ AttemptsWithinLimit' /\ QueuedHasAttemptsLeft' /\ BackoffPending'
  BY <1>2 DEF IInv, ExclusiveExecution, AttemptsWithinLimit, QueuedHasAttemptsLeft,
              BackoffPending, Present
<1>5. LockedRowsAreDue'
  BY <1>1, <1>2 DEF IInv, TypeOK, LockedRowsAreDue
<1>6. OneLockPerWorker'
  BY <1>1, <1>2, NoneAssumption DEF IInv, TypeOK, OneLockPerWorker
<1> QED
  BY <1>3, <1>4, <1>5, <1>6 DEF IInv

\* The UPDATE and COMMIT of a poll start one more attempt of the locked row.
LEMMA PollCommitKeepsIInv ==
    ASSUME IInv, NEW w \in Workers, PollCommit(w)
    PROVE  IInv'
<1>1. PICK j \in JobIds :
        /\ w \in rowLock[j]
        /\ status' = [status EXCEPT ![j] = "running"]
        /\ attempts' = [attempts EXCEPT ![j] = attempts[j] + 1]
        /\ lockedBy' = [lockedBy EXCEPT ![j] = w]
        /\ age' = [age EXCEPT ![j] = 0]
        /\ rowLock' = [rowLock EXCEPT ![j] = @ \ {w}]
        /\ holding' = [holding EXCEPT ![w] = j]
        /\ seen' = [seen EXCEPT ![w] = attempts[j] + 1]
        /\ UNCHANGED <<queue, jobType, max, due, alive, faults>>
  BY DEF PollCommit
<1>2. w # None /\ status[j] = "queued" /\ holding[w] = None /\ attempts[j] < max[j]
  BY <1>1, NoneAssumption DEF IInv, LockedRowsAreDue, QueuedHasAttemptsLeft
<1>3. TypeOK'
  BY <1>1, RetentionAssumption DEF IInv, TypeOK, Status
<1>4. ExclusiveExecution'
  BY <1>1, <1>2 DEF IInv, TypeOK, ExclusiveExecution
<1>5. AttemptsWithinLimit' /\ QueuedHasAttemptsLeft'
  BY <1>1, <1>2 DEF IInv, TypeOK, AttemptsWithinLimit, QueuedHasAttemptsLeft, Present
<1>6. LockedRowsAreDue' /\ OneLockPerWorker'
  BY <1>1, <1>2 DEF IInv, TypeOK, LockedRowsAreDue, OneLockPerWorker
<1>7. BackoffPending'
  BY <1>1, <1>2 DEF IInv, TypeOK, BackoffPending
<1> QED
  BY <1>3, <1>4, <1>5, <1>6, <1>7 DEF IInv

\* Releasing a worker's row locks, by rollback or by its death, is harmless.
LEMMA RollbackKeepsIInv ==
    ASSUME IInv, NEW w \in Workers, PollAborts(w) \/ Crash(w)
    PROVE  IInv'
<1>1. /\ UNCHANGED <<status, queue, jobType, attempts, max, due, age, lockedBy>>
      /\ rowLock' = [j \in JobIds |-> rowLock[j] \ {w}]
      /\ faults < MaxFaults /\ faults' = faults + 1
      /\ alive' \in SUBSET Workers
      /\ \/ UNCHANGED <<holding, seen>>
         \/ /\ holding' = [holding EXCEPT ![w] = None]
            /\ seen' = [seen EXCEPT ![w] = 0]
  BY DEF PollAborts, Crash, rows, workerVars, IInv, TypeOK
<1>2. TypeOK'
  BY <1>1, MaxFaultsAssumption DEF IInv, TypeOK
<1>3. ExclusiveExecution'
  BY <1>1, NoneAssumption DEF IInv, TypeOK, ExclusiveExecution
<1>4. AttemptsWithinLimit' /\ QueuedHasAttemptsLeft' /\ BackoffPending'
  BY <1>1 DEF IInv, AttemptsWithinLimit, QueuedHasAttemptsLeft, BackoffPending, Present
<1>5. LockedRowsAreDue'
  BY <1>1 DEF IInv, TypeOK, LockedRowsAreDue
<1>6. OneLockPerWorker'
  BY <1>1, NoneAssumption DEF IInv, TypeOK, OneLockPerWorker
<1> QED
  BY <1>2, <1>3, <1>4, <1>5, <1>6 DEF IInv

-----------------------------------------------------------------------------
\* What complete_job and fail_job share: the row of the worker's own job is
\* settled, or requeued with its backoff while it has attempts left.
LEMMA SetRowKeepsIInv ==
    ASSUME IInv, NEW w \in Workers, holding[w] # None,
           NEW s, NEW d \in Int, SetRow(holding[w], s, d),
           \/ s \in Settled
           \/ /\ s = "queued"
              /\ attempts[holding[w]] < max[holding[w]]
              /\ d = Backoff(attempts[holding[w]]),
           Release(w), UNCHANGED <<rowLock, faults>>
    PROVE  IInv'
<1> DEFINE j == holding[w]
<1>1. /\ j \in JobIds /\ status[j] = "running" /\ lockedBy[j] = w
      /\ \A v \in Workers : v # w => holding[v] # j
  BY DEF IInv, TypeOK, ExclusiveExecution
<1>2. /\ status' = [status EXCEPT ![j] = s]
      /\ due' = [due EXCEPT ![j] = d]
      /\ lockedBy' = [lockedBy EXCEPT ![j] = None]
      /\ age' = [age EXCEPT ![j] = 0]
      /\ UNCHANGED <<attempts, max, queue, jobType>>
  BY <1>1 DEF SetRow, Present
<1>3. /\ holding' = [holding EXCEPT ![w] = None]
      /\ seen' = [seen EXCEPT ![w] = 0]
      /\ UNCHANGED <<alive, rowLock, faults>>
  BY DEF Release
<1>4. TypeOK'
  BY <1>1, <1>2, <1>3, RetentionAssumption DEF IInv, TypeOK, Status, Settled
<1>5. ExclusiveExecution'
  BY <1>1, <1>2, <1>3 DEF IInv, TypeOK, ExclusiveExecution
<1>6. AttemptsWithinLimit' /\ QueuedHasAttemptsLeft'
  BY <1>1, <1>2 DEF IInv, TypeOK, AttemptsWithinLimit, QueuedHasAttemptsLeft, Present, Settled
<1>7. LockedRowsAreDue' /\ OneLockPerWorker'
  BY <1>1, <1>2, <1>3 DEF IInv, TypeOK, LockedRowsAreDue, OneLockPerWorker
<1>8. BackoffPending'
  <2> SUFFICES ASSUME NEW k \in JobIds, status'[k] = "queued", attempts'[k] > 0
               PROVE  \/ age'[k] >= Backoff(attempts'[k])
                      \/ age'[k] + due'[k] >= Backoff(attempts'[k])
    BY DEF BackoffPending
  <2>1. CASE k = j
    <3>1. attempts'[k] = attempts[j] /\ attempts[j] \in Nat /\ age'[k] = 0 /\ due'[k] = d
      BY <1>1, <1>2, <2>1 DEF IInv, TypeOK
    <3>2. d = Backoff(attempts[j])
      BY <1>1, <1>2, <2>1 DEF IInv, TypeOK, Settled
    <3> QED
      BY <3>1, <3>2, BackoffType
  <2>2. CASE k # j
    BY <1>2, <2>2 DEF IInv, TypeOK, BackoffPending
  <2> QED
    BY <2>1, <2>2
<1> QED
  BY <1>4, <1>5, <1>6, <1>7, <1>8 DEF IInv

\* complete_job settles the worker's own row.
LEMMA CompleteJobKeepsIInv ==
    ASSUME IInv, NEW w \in Workers, CompleteJob(w)
    PROVE  IInv'
<1>1. holding[w] \in JobIds /\ due[holding[w]] \in Int
  BY DEF CompleteJob, Handles, IInv, TypeOK
<1> QED
  BY <1>1, SetRowKeepsIInv DEF CompleteJob, Handles, Settled

\* fail_job, with the attempts the poll returned or with max_attempts.
LEMMA FailJobKeepsIInv ==
    ASSUME IInv, NEW w \in Workers, FailJob(w) \/ AbandonJob(w)
    PROVE  IInv'
<1> DEFINE j == holding[w]
<1>1. /\ j \in JobIds /\ j # None /\ due[j] \in Int
      /\ attempts[j] \in Nat /\ max[j] \in Nat /\ seen[w] = attempts[j]
  BY DEF FailJob, AbandonJob, Handles, IInv, TypeOK, ExclusiveExecution
<1>2. Release(w) /\ UNCHANGED <<rowLock, faults>>
  BY DEF FailJob, AbandonJob
<1>3. FailedRow(j, attempts[j]) \/ FailedRow(j, max[j])
  BY <1>1 DEF FailJob, AbandonJob
<1>4. CASE SetRow(j, "failed", due[j])
  BY <1>1, <1>2, <1>4, SetRowKeepsIInv DEF Settled
<1>5. CASE attempts[j] < max[j] /\ SetRow(j, "queued", Backoff(attempts[j]))
  <2>1. Backoff(attempts[j]) \in Int
    BY <1>1, BackoffType
  <2> QED
    BY <1>1, <1>2, <1>5, <2>1, SetRowKeepsIInv
<1> QED
  BY <1>1, <1>3, <1>4, <1>5 DEF FailedRow, GivesUp, RetryDue

\* A worker that drops or passes over its job leaves the row running.
LEMMA DropJobKeepsIInv ==
    ASSUME IInv, NEW w \in Workers, DropJob(w) \/ SkipJob(w)
    PROVE  IInv'
<1>1. /\ UNCHANGED <<status, queue, jobType, attempts, max, due, age, lockedBy, rowLock, alive>>
      /\ (faults < MaxFaults /\ faults' = faults + 1) \/ faults' = faults
      /\ holding' = [holding EXCEPT ![w] = None]
      /\ seen' = [seen EXCEPT ![w] = 0]
  BY DEF DropJob, SkipJob, Release, rows
<1>2. TypeOK'
  BY <1>1, MaxFaultsAssumption DEF IInv, TypeOK
<1>3. ExclusiveExecution' /\ LockedRowsAreDue'
  BY <1>1 DEF IInv, TypeOK, ExclusiveExecution, LockedRowsAreDue
<1>4. AttemptsWithinLimit' /\ QueuedHasAttemptsLeft' /\ BackoffPending' /\ OneLockPerWorker'
  BY <1>1 DEF IInv, AttemptsWithinLimit, QueuedHasAttemptsLeft, BackoffPending,
              OneLockPerWorker, Present
<1> QED
  BY <1>2, <1>3, <1>4 DEF IInv

\* The reaper removes settled rows only, which no worker holds or locks.
LEMMA ReapKeepsIInv ==
    ASSUME IInv, ReapOldJobs
    PROVE  IInv'
<1>1. /\ status' = [j \in JobIds |-> IF Reapable(j) THEN "reaped" ELSE status[j]]
      /\ UNCHANGED <<queue, jobType, attempts, max, due, age, lockedBy, rowLock, holding, seen,
                     alive, faults>>
  BY DEF ReapOldJobs, workerVars
<1>2. \A j \in JobIds : Reapable(j) => status[j] \notin {"queued", "running", "unused"}
  BY DEF Reapable, Settled
<1>3. TypeOK'
  BY <1>1 DEF IInv, TypeOK, Status
<1>4. ExclusiveExecution' /\ LockedRowsAreDue' /\ OneLockPerWorker'
  BY <1>1, <1>2 DEF IInv, TypeOK, ExclusiveExecution, LockedRowsAreDue, OneLockPerWorker
<1>5. AttemptsWithinLimit' /\ QueuedHasAttemptsLeft' /\ BackoffPending'
  BY <1>1, <1>2 DEF IInv, TypeOK, AttemptsWithinLimit, QueuedHasAttemptsLeft,
                    BackoffPending, Present
<1> QED
  BY <1>3, <1>4, <1>5 DEF IInv

\* The clock takes from run_at what it adds to the time since the failure.
LEMMA TickKeepsIInv ==
    ASSUME IInv, Tick
    PROVE  IInv'
<1>1. /\ due' = [j \in JobIds |->
                   IF status[j] = "queued" /\ due[j] > -Lag THEN due[j] - 1 ELSE due[j]]
      /\ age' = [j \in JobIds |->
                   IF Present(j) /\ age[j] <= Retention THEN age[j] + 1 ELSE age[j]]
      /\ UNCHANGED <<status, queue, jobType, attempts, max, lockedBy, rowLock, holding, seen,
                     alive, faults>>
  BY DEF Tick, workerVars
<1>2. TypeOK'
  BY <1>1, LagAssumption, RetentionAssumption DEF IInv, TypeOK
<1>3. ExclusiveExecution' /\ AttemptsWithinLimit' /\ QueuedHasAttemptsLeft' /\ OneLockPerWorker'
  BY <1>1 DEF IInv, ExclusiveExecution, AttemptsWithinLimit, QueuedHasAttemptsLeft,
              OneLockPerWorker, Present
<1>4. LockedRowsAreDue'
  BY <1>1, LagAssumption DEF IInv, TypeOK, LockedRowsAreDue
<1>5. BackoffPending'
  <2> SUFFICES ASSUME NEW j \in JobIds, status[j] = "queued", attempts[j] > 0
               PROVE  \/ age'[j] >= Backoff(attempts[j])
                      \/ age'[j] + due'[j] >= Backoff(attempts[j])
    BY <1>1 DEF BackoffPending
  <2>1. /\ attempts[j] \in Nat /\ attempts[j] <= MaxAttempts
        /\ age[j] \in Nat /\ due[j] \in Int /\ Retention \in Nat
    BY MaxAttemptsAssumption, RetentionAssumption
       DEF IInv, TypeOK, AttemptsWithinLimit, Present
  <2>2. Backoff(attempts[j]) \in Nat /\ Backoff(attempts[j]) <= Retention
    BY <2>1, BackoffType, BackoffBelowRetention
  <2>3. age[j] >= Backoff(attempts[j]) \/ age[j] + due[j] >= Backoff(attempts[j])
    BY DEF IInv, BackoffPending
  <2>4. /\ age'[j] = IF age[j] <= Retention THEN age[j] + 1 ELSE age[j]
        /\ due'[j] = due[j] \/ due'[j] = due[j] - 1
    BY <1>1 DEF Present
  <2> QED
    BY <2>1, <2>2, <2>3, <2>4
<1> QED
  BY <1>2, <1>3, <1>4, <1>5 DEF IInv

-----------------------------------------------------------------------------
\* Every step of the queue preserves the invariant.
LEMMA NextKeepsIInv == IInv /\ [Next]_vars => IInv'
<1> SUFFICES ASSUME IInv, [Next]_vars
             PROVE  IInv'
  OBVIOUS
<1>1. CASE \E j \in JobIds, q \in Queues, t \in JobTypes, d \in 0..MaxDelay, m \in 1..MaxAttempts :
           Enqueue(j, q, t, d, m)
  BY <1>1, EnqueueKeepsIInv
<1>2. CASE \E w \in Workers : PollSelect(w)
  BY <1>2, PollSelectKeepsIInv
<1>3. CASE \E w \in Workers : PollCommit(w)
  BY <1>3, PollCommitKeepsIInv
<1>4. CASE \E w \in Workers : PollAborts(w) \/ Crash(w)
  BY <1>4, RollbackKeepsIInv
<1>5. CASE \E w \in Workers : CompleteJob(w)
  BY <1>5, CompleteJobKeepsIInv
<1>6. CASE \E w \in Workers : FailJob(w) \/ AbandonJob(w)
  BY <1>6, FailJobKeepsIInv
<1>7. CASE \E w \in Workers : DropJob(w) \/ SkipJob(w)
  BY <1>7, DropJobKeepsIInv
<1>8. CASE ReapOldJobs
  BY <1>8, ReapKeepsIInv
<1>9. CASE Tick
  BY <1>9, TickKeepsIInv
<1>10. CASE UNCHANGED vars
  BY <1>10 DEF vars, rows, workerVars, IInv, TypeOK, ExclusiveExecution, AttemptsWithinLimit,
               LockedRowsAreDue, OneLockPerWorker, QueuedHasAttemptsLeft, BackoffPending, Present
<1> QED
  BY <1>1, <1>2, <1>3, <1>4, <1>5, <1>6, <1>7, <1>8, <1>9, <1>10 DEF Next

\* The inductive invariant holds in every reachable state.
THEOREM QueueInvariant == Spec => []IInv
<1>1. Init => IInv
  BY InitIInv
<1>2. IInv /\ [Next]_vars => IInv'
  BY NextKeepsIInv
<1> QED
  BY <1>1, <1>2, PTL DEF Spec

\* Type correctness of the columns and of the workers' state.
THEOREM TypeCorrect == Spec => []TypeOK
<1>1. IInv => TypeOK
  BY DEF IInv
<1> QED
  BY <1>1, QueueInvariant, PTL

\* SKIP LOCKED and the attempts counter keep a job to one replica at a time.
THEOREM Exclusive == Spec => []ExclusiveExecution
<1>1. IInv => ExclusiveExecution
  BY DEF IInv
<1> QED
  BY <1>1, QueueInvariant, PTL

\* No job is attempted more often than max_attempts.
THEOREM Bounded == Spec => []AttemptsWithinLimit
<1>1. IInv => AttemptsWithinLimit
  BY DEF IInv
<1> QED
  BY <1>1, QueueInvariant, PTL

-----------------------------------------------------------------------------
\* Only a claim makes a row running, only the reaper changes a settled row.
LEMMA StepsOnRows ==
    ASSUME IInv, [Next]_vars, NEW j \in JobIds
    PROVE  /\ status[j] \in Settled => status'[j] \in {status[j], "reaped"}
           /\ (status[j] = "queued" /\ status'[j] = "running") => due[j] <= 0
<1> USE DEF Settled
<1>0. status[j] \in Status /\ status \in [JobIds -> Status]
  BY DEF IInv, TypeOK
<1>1. CASE \E k \in JobIds, q \in Queues, t \in JobTypes, d \in 0..MaxDelay, m \in 1..MaxAttempts :
           Enqueue(k, q, t, d, m)
  BY <1>0, <1>1 DEF Enqueue
<1>2. CASE \E w \in Workers : PollCommit(w)
  <2>1. PICK w \in Workers, k \in JobIds :
               w \in rowLock[k] /\ status' = [status EXCEPT ![k] = "running"]
    BY <1>2 DEF PollCommit
  <2>2. status[k] = "queued" /\ due[k] <= 0
    BY <2>1, NoneAssumption DEF IInv, LockedRowsAreDue
  <2> QED
    BY <1>0, <2>1, <2>2
<1>3. CASE \E w \in Workers : CompleteJob(w) \/ FailJob(w) \/ AbandonJob(w)
  <2>1. PICK w \in Workers : CompleteJob(w) \/ FailJob(w) \/ AbandonJob(w)
    BY <1>3
  <2>2. holding[w] \in JobIds /\ status[holding[w]] = "running"
    BY <2>1 DEF CompleteJob, FailJob, AbandonJob, Handles, IInv, TypeOK, ExclusiveExecution
  <2>3. \E s \in {"completed", "failed", "queued"} :
               status' = [status EXCEPT ![holding[w]] = s]
    BY <2>1, <2>2 DEF CompleteJob, FailJob, AbandonJob, FailedRow, SetRow, Present
  <2> QED
    BY <1>0, <2>2, <2>3
<1>4. CASE ReapOldJobs
  BY <1>0, <1>4 DEF ReapOldJobs, Reapable
<1>5. CASE UNCHANGED status
  BY <1>5
<1>6. CASE \E w \in Workers : \/ PollSelect(w) \/ PollAborts(w) \/ DropJob(w)
                              \/ SkipJob(w) \/ Crash(w)
  BY <1>5, <1>6 DEF PollSelect, PollAborts, DropJob, SkipJob, Crash, rows
<1>7. CASE Tick \/ UNCHANGED vars
  BY <1>5, <1>7 DEF Tick, vars, rows
<1> QED
  BY <1>1, <1>2, <1>3, <1>4, <1>6, <1>7 DEF Next

\* A completed or failed job is never run again.
THEOREM Final == Spec => SettledIsFinal
<1>1. IInv /\ [Next]_vars => [SettledRowsStay]_vars
  BY StepsOnRows DEF SettledRowsStay
<1> QED
  BY <1>1, QueueInvariant, PTL DEF Spec, SettledIsFinal

\* A retry waits for the exponential backoff, whichever replica takes it.
THEOREM BackoffHonoured == Spec => RetryWaitsForBackoff
<1>1. IInv /\ [Next]_vars => [RetriesAreLateEnough]_vars
  <2> SUFFICES ASSUME IInv, [Next]_vars, NEW j \in JobIds,
                      status[j] = "queued", status'[j] = "running", attempts[j] > 0
               PROVE  age[j] >= Backoff(attempts[j])
    BY DEF RetriesAreLateEnough
  <2>1. due[j] <= 0 /\ due[j] \in Int /\ age[j] \in Nat /\ attempts[j] \in Nat
    BY StepsOnRows, RetentionAssumption DEF IInv, TypeOK
  <2>2. age[j] >= Backoff(attempts[j]) \/ age[j] + due[j] >= Backoff(attempts[j])
    BY DEF IInv, BackoffPending
  <2> QED
    BY <2>1, <2>2, BackoffType
<1> QED
  BY <1>1, QueueInvariant, PTL DEF Spec, RetryWaitsForBackoff

-----------------------------------------------------------------------------
\* The workers that run a job, as AbstractQueue sees them.
Runner == [j \in JobIds |-> {w \in Workers : holding[w] = j}]

\* When a worker lets go of its job, the job has no runner left.
LEMMA ReleaseEmptiesRunner ==
    ASSUME IInv, NEW w \in Workers, holding[w] # None,
           holding' = [holding EXCEPT ![w] = None]
    PROVE  /\ holding[w] \in JobIds
           /\ status[holding[w]] = "running"
           /\ Runner[holding[w]] = {w}
           /\ Runner' = [Runner EXCEPT ![holding[w]] = {}]
<1> DEFINE j == holding[w]
<1>1. /\ j \in JobIds /\ status[j] = "running" /\ lockedBy[j] = w
      /\ holding \in [Workers -> JobIds \cup {None}]
  BY DEF IInv, TypeOK, ExclusiveExecution
<1>2. \A v \in Workers : holding[v] = j => v = w
  BY <1>1, NoneAssumption DEF IInv, ExclusiveExecution
<1>3. Runner[j] = {w}
  BY <1>1, <1>2 DEF Runner
<1>4. \A k \in JobIds : {v \in Workers : holding'[v] = k}
                          = IF k = j THEN {} ELSE {v \in Workers : holding[v] = k}
  BY <1>1, <1>2, NoneAssumption
<1>5. Runner' = [Runner EXCEPT ![j] = {}]
  BY <1>1, <1>4 DEF Runner
<1> QED
  BY <1>1, <1>3, <1>5

\* The COMMIT of a poll starts a job that nobody runs.
LEMMA PollCommitStarts ==
    ASSUME IInv, NEW w \in Workers, PollCommit(w)
    PROVE  \E j \in JobIds : Queue!Start(j, w)
<1>1. PICK j \in JobIds :
        /\ w \in rowLock[j]
        /\ status' = [status EXCEPT ![j] = "running"]
        /\ attempts' = [attempts EXCEPT ![j] = attempts[j] + 1]
        /\ holding' = [holding EXCEPT ![w] = j]
        /\ UNCHANGED max
  BY DEF PollCommit
<1>2. status[j] = "queued" /\ holding[w] = None /\ attempts[j] < max[j]
  BY <1>1 DEF IInv, LockedRowsAreDue, QueuedHasAttemptsLeft
<1>3. holding \in [Workers -> JobIds \cup {None}]
  BY DEF IInv, TypeOK
<1>4. \A v \in Workers : holding[v] # j
  BY <1>1, <1>2, NoneAssumption DEF IInv, ExclusiveExecution
<1>5. Runner[j] = {} /\ \A k \in JobIds : w \notin Runner[k]
  BY <1>2, <1>4, NoneAssumption DEF Runner
<1>6. \A k \in JobIds : {v \in Workers : holding'[v] = k}
                          = IF k = j THEN {w} ELSE {v \in Workers : holding[v] = k}
  BY <1>1, <1>2, <1>3, <1>4, NoneAssumption
<1>7. Runner' = [Runner EXCEPT ![j] = {w}]
  BY <1>6 DEF Runner
<1>8. Queue!Start(j, w)
  BY <1>1, <1>2, <1>5, <1>7 DEF Queue!Start, Runner
<1> QED
  BY <1>8

\* complete_job and fail_job end the run of the worker's own job.
LEMMA SetRowFinishes ==
    ASSUME IInv, NEW w \in Workers, holding[w] # None,
           NEW s \in {"queued", "completed", "failed"}, NEW d, SetRow(holding[w], s, d),
           s = "queued" => attempts[holding[w]] < max[holding[w]],
           Release(w)
    PROVE  \E j \in JobIds : Queue!Finish(j, w, s)
<1> DEFINE j == holding[w]
<1>1. holding' = [holding EXCEPT ![w] = None]
  BY DEF Release
<1>2. /\ j \in JobIds /\ status[j] = "running" /\ Runner[j] = {w}
      /\ Runner' = [Runner EXCEPT ![j] = {}]
  BY <1>1, ReleaseEmptiesRunner
<1>3. status' = [status EXCEPT ![j] = s] /\ UNCHANGED <<attempts, max>>
  BY <1>2 DEF SetRow, Present
<1>4. Queue!Finish(j, w, s)
  BY <1>2, <1>3 DEF Queue!Finish, Runner
<1> QED
  BY <1>2, <1>4

\* A dropped job or a dead worker is a lost run, or no change at all.
LEMMA LettingGoLoses ==
    ASSUME IInv, NEW w \in Workers, UNCHANGED <<status, attempts, max>>,
           holding' = [holding EXCEPT ![w] = None]
    PROVE  (\E j \in JobIds : Queue!Lose(j, w)) \/ UNCHANGED Queue!queueVars
<1>1. CASE holding[w] # None
  <2>1. /\ holding[w] \in JobIds /\ Runner[holding[w]] = {w}
        /\ Runner' = [Runner EXCEPT ![holding[w]] = {}]
    BY <1>1, ReleaseEmptiesRunner
  <2>2. \E j \in JobIds : Queue!Lose(j, w)
    BY <2>1 DEF Queue!Lose, Runner
  <2> QED
    BY <2>2
<1>2. CASE holding[w] = None
  <2>1. holding' = holding
    BY <1>2 DEF IInv, TypeOK
  <2> QED
    BY <2>1 DEF Queue!queueVars
<1> QED
  BY <1>1, <1>2

\* Every step of the table and its workers is a step of the queue or none.
LEMMA StepRefines ==
    ASSUME IInv, [Next]_vars
    PROVE  [Queue!Next]_(Queue!queueVars)
<1>1. CASE \E j \in JobIds, q \in Queues, t \in JobTypes, d \in 0..MaxDelay, m \in 1..MaxAttempts :
           Enqueue(j, q, t, d, m)
  <2>1. PICK j \in JobIds, q \in Queues, t \in JobTypes, d \in 0..MaxDelay, m \in 1..MaxAttempts :
           Enqueue(j, q, t, d, m)
    BY <1>1
  <2>2. max' = [max EXCEPT ![j] = m] /\ max'[j] = m /\ m \in Nat
    BY <2>1, MaxAttemptsAssumption DEF Enqueue, IInv, TypeOK
  <2>3. Queue!Submit(j)
    BY <2>1, <2>2 DEF Enqueue, workerVars, Queue!Submit
  <2> QED
    BY <2>3 DEF Queue!Next
<1>2. CASE \E w \in Workers : PollCommit(w)
  BY <1>2, PollCommitStarts DEF Queue!Next
<1>3. CASE \E w \in Workers : CompleteJob(w)
  <2>1. PICK w \in Workers : CompleteJob(w)
    BY <1>3
  <2>2. \E j \in JobIds : Queue!Finish(j, w, "completed")
    BY <2>1, SetRowFinishes DEF CompleteJob, Handles
  <2> QED
    BY <2>2 DEF Queue!Next
<1>4. CASE \E w \in Workers : FailJob(w) \/ AbandonJob(w)
  <2>1. PICK w \in Workers : FailJob(w) \/ AbandonJob(w)
    BY <1>4
  <2> DEFINE j == holding[w]
  <2>2. /\ j \in JobIds /\ j # None /\ attempts[j] \in Nat /\ max[j] \in Nat
        /\ seen[w] = attempts[j] /\ Release(w)
    BY <2>1 DEF FailJob, AbandonJob, Handles, IInv, TypeOK, ExclusiveExecution
  <2>3. FailedRow(j, attempts[j]) \/ FailedRow(j, max[j])
    BY <2>1, <2>2 DEF FailJob, AbandonJob
  <2>4. CASE SetRow(j, "failed", due[j])
    <3>1. \E k \in JobIds : Queue!Finish(k, w, "failed")
      BY <2>2, <2>4, SetRowFinishes
    <3> QED
      BY <3>1 DEF Queue!Next
  <2>5. CASE attempts[j] < max[j] /\ SetRow(j, "queued", Backoff(attempts[j]))
    <3>1. \E k \in JobIds : Queue!Finish(k, w, "queued")
      BY <2>2, <2>5, SetRowFinishes
    <3> QED
      BY <3>1 DEF Queue!Next
  <2> QED
    BY <2>2, <2>3, <2>4, <2>5 DEF FailedRow, GivesUp, RetryDue
<1>5. CASE \E w \in Workers : DropJob(w) \/ SkipJob(w) \/ Crash(w)
  <2>1. PICK w \in Workers : DropJob(w) \/ SkipJob(w) \/ Crash(w)
    BY <1>5
  <2>2. UNCHANGED <<status, attempts, max>> /\ holding' = [holding EXCEPT ![w] = None]
    BY <2>1 DEF DropJob, SkipJob, Crash, Release, rows
  <2> QED
    BY <2>2, LettingGoLoses DEF Queue!Next
<1>6. CASE ReapOldJobs
  <2> DEFINE S == {j \in JobIds : Reapable(j)}
  <2>1. Queue!Forget(S)
    BY <1>6 DEF ReapOldJobs, workerVars, Reapable, Settled, Queue!Forget
  <2> QED
    BY <2>1 DEF Queue!Next
<1>7. CASE UNCHANGED <<status, attempts, max, holding>>
  BY <1>7 DEF Queue!queueVars
<1>8. CASE \E w \in Workers : PollSelect(w) \/ PollAborts(w)
  BY <1>7, <1>8 DEF PollSelect, PollAborts, rows, workerVars
<1>9. CASE Tick \/ UNCHANGED vars
  BY <1>7, <1>9 DEF Tick, vars, rows, workerVars
<1> QED
  BY <1>1, <1>2, <1>3, <1>4, <1>5, <1>6, <1>8, <1>9 DEF Next

\* The table, its locks and its workers implement the queue of AbstractQueue.
THEOREM Implements == Spec => RefinesQueue
<1>1. Init => Queue!Init
  BY NoneAssumption DEF Init, Queue!Init
<1>2. IInv /\ [Next]_vars => [Queue!Next]_(Queue!queueVars)
  BY StepRefines
<1> QED
  BY <1>1, <1>2, QueueInvariant, PTL DEF Spec, RefinesQueue, Queue!Spec

-----------------------------------------------------------------------------
\* A worker has a step of its loop to do exactly while it has a job.
StepFollowsJob ==
    \A w \in Workers : holding[w] = None <=> step[w] = "poll"

\* A claim allows one POST, the log counts no more than the POSTs, and a job
\* that goes back to the queue or is settled has used its last claim up.
PostsFollowClaims ==
    \A d \in JobIds :
        /\ tries[d] <= posts[d]
        /\ posts[d] <= attempts[d]
        /\ status[d] # "running" => posts[d] = attempts[d]

\* A job is completed for a delivery that was accepted, and failed for one that
\* has used up its attempts.
VerdictEarned ==
    \A d \in JobIds :
        /\ status[d] = "completed" => accepted[d] > 0
        /\ status[d] = "failed" => attempts[d] = max[d]

\* What the step of a worker says of its delivery: before the POST the claim is
\* unspent, after it the POST is not yet in the log, and only an accepted one
\* leads to complete_job.
WorkerProgress ==
    \A w \in Workers : holding[w] # None =>
        LET d == holding[w] IN
        /\ step[w] = "post" => posts[d] + 1 = attempts[d]
        /\ step[w] # "post" => posts[d] = attempts[d]
        /\ step[w] \in {"record2xx", "recordOther"} => tries[d] < posts[d]
        /\ step[w] \in {"record2xx", "complete"} => accepted[d] > 0

\* A delivery logged as delivered, and known to be, has a job that is completed,
\* stranded or about to be completed: nobody will POST it again.
DeliveredIsDone ==
    \A d \in JobIds : (delivery[d] = "delivered" /\ d \notin unheard) =>
        /\ status[d] \in {"running", "completed", "reaped"}
        /\ \A w \in Workers : holding[w] = d => step[w] = "complete"

DeliveryInv ==
    /\ IInv
    /\ DeliveryTypeOK
    /\ StepFollowsJob
    /\ PostsFollowClaims
    /\ VerdictEarned
    /\ WorkerProgress
    /\ DeliveredIsDone

\* The parts about workers, claims and the log.
DeliveryParts ==
    /\ StepFollowsJob
    /\ PostsFollowClaims
    /\ VerdictEarned
    /\ WorkerProgress
    /\ DeliveredIsDone

\* The types of the columns and counters the parts speak of.
LEMMA DeliveryTypes ==
    ASSUME DeliveryInv
    PROVE  /\ status \in [JobIds -> Status] /\ attempts \in [JobIds -> Nat]
           /\ max \in [JobIds -> 0..MaxAttempts] /\ holding \in [Workers -> JobIds \cup {None}]
           /\ delivery \in [JobIds -> DeliveryStatus] /\ tries \in [JobIds -> Nat]
           /\ step \in [Workers -> Steps] /\ posts \in [JobIds -> Nat]
           /\ accepted \in [JobIds -> Nat] /\ unheard \in SUBSET JobIds
BY DEF DeliveryInv, DeliveryTypeOK, TypeOK

\* A job has one worker at a time, and its row says running.
LEMMA OneHolder ==
    ASSUME IInv, NEW w \in Workers, holding[w] # None
    PROVE  /\ holding[w] \in JobIds
           /\ status[holding[w]] = "running"
           /\ \A v \in Workers : holding[v] = holding[w] => v = w
<1>1. holding[w] \in JobIds
  BY DEF IInv, TypeOK
<1>2. status[holding[w]] = "running" /\ lockedBy[holding[w]] = w
  BY DEF IInv, ExclusiveExecution
<1>3. \A v \in Workers : holding[v] = holding[w] => lockedBy[holding[w]] = v
  BY DEF IInv, ExclusiveExecution
<1> QED
  BY <1>1, <1>2, <1>3

\* A failed statement that only the worker or the dispatcher notices leaves the
\* queue as it is.
LEMMA FaultKeepsIInv ==
    ASSUME IInv, faults < MaxFaults, faults' = faults + 1,
           UNCHANGED <<rows, rowLock, workerVars>>
    PROVE  IInv'
<1>1. UNCHANGED <<status, queue, jobType, attempts, max, due, age, lockedBy, rowLock, holding, seen, alive>>
  BY DEF rows, workerVars
<1>2. faults' \in 0..MaxFaults
  BY MaxFaultsAssumption DEF IInv, TypeOK
<1>3. TypeOK'
  BY <1>1, <1>2 DEF IInv, TypeOK
<1>4. /\ ExclusiveExecution' /\ AttemptsWithinLimit' /\ LockedRowsAreDue'
      /\ OneLockPerWorker' /\ QueuedHasAttemptsLeft' /\ BackoffPending'
  BY <1>1 DEF IInv, ExclusiveExecution, AttemptsWithinLimit, LockedRowsAreDue,
              OneLockPerWorker, QueuedHasAttemptsLeft, BackoffPending, Present
<1> QED
  BY <1>3, <1>4 DEF IInv

\* A step that leaves the queue alone keeps its invariant.
LEMMA QueueStutters ==
    ASSUME IInv, UNCHANGED queueVars
    PROVE  IInv'
BY NextKeepsIInv DEF queueVars

\* A step that claims, posts and settles nothing and logs no delivery keeps the
\* parts.
LEMMA QuietKeepsParts ==
    ASSUME DeliveryInv, UNCHANGED <<status, attempts, max, holding, step, tries, history>>,
           \A d \in JobIds : delivery'[d] = "delivered" => delivery[d] = "delivered"
    PROVE  DeliveryParts'
BY DEF DeliveryInv, DeliveryParts, StepFollowsJob, PostsFollowClaims, VerdictEarned,
       WorkerProgress, DeliveredIsDone, history

\* complete_job, fail_job, a lost UPDATE and a crash: the worker goes back to
\* polling, and the row it lets go of is one its claim was spent on, unless it
\* stays running.
LEMMA LettingGoKeepsParts ==
    ASSUME DeliveryInv, NEW w \in Workers,
           holding' = [holding EXCEPT ![w] = None],
           step' = [step EXCEPT ![w] = "poll"],
           UNCHANGED <<attempts, max, delivery, tries, history>>,
           \/ UNCHANGED status
           \/ /\ holding[w] # None
              /\ step[w] \in {"complete", "fail"}
              /\ \E s \in Status :
                  /\ status' = [status EXCEPT ![holding[w]] = s]
                  /\ s \in {"queued", "completed", "failed"}
                  /\ s = "completed" <=> step[w] = "complete"
                  /\ s = "failed" => attempts[holding[w]] = max[holding[w]]
    PROVE  DeliveryParts'
<1>1. StepFollowsJob'
  BY DeliveryTypes, NoneAssumption DEF DeliveryInv, StepFollowsJob
<1>2. \A v \in Workers : holding'[v] # None => v # w /\ holding'[v] = holding[v] /\ step'[v] = step[v]
  BY DeliveryTypes
<1>3. WorkerProgress'
  BY <1>2 DEF DeliveryInv, WorkerProgress, history
<1>4. CASE UNCHANGED status
  <2>1. PostsFollowClaims' /\ VerdictEarned'
    BY <1>4 DEF DeliveryInv, PostsFollowClaims, VerdictEarned, history
  <2>2. DeliveredIsDone'
    BY <1>2, <1>4, NoneAssumption DEF DeliveryInv, DeliveredIsDone, history
  <2> QED
    BY <1>1, <1>3, <2>1, <2>2 DEF DeliveryParts
<1>5. CASE ~ UNCHANGED status
  <2> DEFINE j == holding[w]
  <2>1. PICK s \in Status :
          /\ status' = [status EXCEPT ![j] = s]
          /\ s \in {"queued", "completed", "failed"}
          /\ s = "completed" <=> step[w] = "complete"
          /\ s = "failed" => attempts[j] = max[j]
    BY <1>5
  <2>2. j # None /\ step[w] \in {"complete", "fail"}
    BY <1>5
  <2>3. j \in JobIds
    BY <2>2, OneHolder DEF DeliveryInv
  <2>4. posts[j] = attempts[j] /\ (step[w] = "complete" => accepted[j] > 0)
    BY <2>2 DEF DeliveryInv, WorkerProgress
  <2>5. (delivery[j] = "delivered" /\ j \notin unheard) => s = "completed"
    BY <2>1, <2>2, <2>3 DEF DeliveryInv, DeliveredIsDone
  <2>6. \A d \in JobIds : status'[d] = IF d = j THEN s ELSE status[d]
    BY <2>1, <2>3, DeliveryTypes
  <2>7. PostsFollowClaims' /\ VerdictEarned'
    BY <2>1, <2>4, <2>6 DEF DeliveryInv, PostsFollowClaims, VerdictEarned, history
  <2>8. DeliveredIsDone'
    BY <1>2, <2>5, <2>6, NoneAssumption DEF DeliveryInv, DeliveredIsDone, history
  <2> QED
    BY <1>1, <1>3, <2>7, <2>8 DEF DeliveryParts
<1> QED
  BY <1>4, <1>5

\* The types and the parts, together with the queue's invariant, are the whole.
LEMMA PartsSuffice ==
    ASSUME IInv', DeliveryTypeOK', DeliveryParts'
    PROVE  DeliveryInv'
BY DEF DeliveryInv, DeliveryParts

\* create_webhook and delete_webhook touch no job.
LEMMA RegistrationKeepsDeliveryInv ==
    ASSUME DeliveryInv, NEW h \in Webhooks, CreateWebhook(h) \/ DeleteWebhook(h)
    PROVE  DeliveryInv'
<1>1. IInv'
  BY QueueStutters DEF DeliveryInv, CreateWebhook, DeleteWebhook
<1>2. DeliveryTypeOK'
  BY <1>1 DEF DeliveryInv, IInv, DeliveryTypeOK, DeliveryStatus, CreateWebhook, DeleteWebhook,
              dispatchVars, history
<1>3. DeliveryParts'
  BY QuietKeepsParts, DeliveryTypes
     DEF CreateWebhook, DeleteWebhook, queueVars, vars, rows, workerVars
<1> QED
  BY <1>1, <1>2, <1>3, PartsSuffice

\* dispatch_event before it enqueues, or when it fails.
LEMMA DispatchKeepsDeliveryInv ==
    ASSUME DeliveryInv, NEW p \in Dispatchers,
           \/ \E e \in Events : DispatchSelect(p, e)
           \/ \E h \in Webhooks, d \in JobIds : InsertDelivery(p, h, d)
           \/ DispatchFails(p)
    PROVE  DeliveryInv'
<1>1. CASE \E e \in Events : DispatchSelect(p, e)
  <2>1. IInv'
    BY <1>1, QueueStutters DEF DeliveryInv, DispatchSelect
  <2>2. DeliveryTypeOK'
    BY <1>1, <2>1 DEF DeliveryInv, IInv, DeliveryTypeOK, DispatchSelect, hookVars, history
  <2>3. DeliveryParts'
    BY <1>1, QuietKeepsParts DEF DispatchSelect, queueVars, vars, rows, workerVars, hookVars
  <2> QED
    BY <2>1, <2>2, <2>3, PartsSuffice
<1>2. CASE \E h \in Webhooks, d \in JobIds : InsertDelivery(p, h, d)
  <2>1. IInv'
    BY <1>2, QueueStutters DEF DeliveryInv, InsertDelivery
  <2>2. DeliveryTypeOK'
    BY <1>2, <2>1 DEF DeliveryInv, IInv, DeliveryTypeOK, DeliveryStatus, InsertDelivery, history
  <2>3. \A d \in JobIds : delivery'[d] = "delivered" => delivery[d] = "delivered"
    BY <1>2, DeliveryTypes DEF InsertDelivery
  <2>4. DeliveryParts'
    BY <1>2, <2>3, QuietKeepsParts DEF InsertDelivery, queueVars, vars, rows, workerVars
  <2> QED
    BY <2>1, <2>2, <2>4, PartsSuffice
<1>3. CASE DispatchFails(p)
  <2>1. IInv'
    BY <1>3, FaultKeepsIInv DEF DeliveryInv, DispatchFails
  <2>2. DeliveryTypeOK'
    BY <1>3, <2>1 DEF DeliveryInv, IInv, DeliveryTypeOK, DispatchFails, hookVars, history
  <2>3. DeliveryParts'
    BY <1>3, QuietKeepsParts DEF DispatchFails, rows, workerVars, hookVars
  <2> QED
    BY <2>1, <2>2, <2>3, PartsSuffice
<1> QED
  BY <1>1, <1>2, <1>3

\* The job of a delivery starts with no claim and no POST.
LEMMA EnqueueKeepsDeliveryInv ==
    ASSUME DeliveryInv, NEW p \in Dispatchers, EnqueueDelivery(p)
    PROVE  DeliveryInv'
<1> DEFINE j == inserted[p]
<1>1. /\ j \in JobIds /\ status[j] = "unused"
      /\ Enqueue(j, "webhooks", "webhook.deliver", 0, MaxAttempts)
  BY DEF EnqueueDelivery, Enqueue, DeliveryInv, DeliveryTypeOK
<1>2. /\ 0 \in 0..MaxDelay /\ MaxAttempts \in 1..MaxAttempts
      /\ "webhooks" \in Queues /\ "webhook.deliver" \in JobTypes
  BY MaxDelayAssumption, MaxAttemptsAssumption DEF Queues, JobTypes
<1>3. IInv'
  BY <1>1, <1>2, EnqueueKeepsIInv DEF DeliveryInv
<1>4. DeliveryTypeOK'
  BY <1>3 DEF DeliveryInv, IInv, DeliveryTypeOK, EnqueueDelivery, hookVars, history
<1>5. /\ status' = [status EXCEPT ![j] = "queued"] /\ max' = [max EXCEPT ![j] = MaxAttempts]
      /\ UNCHANGED <<attempts, holding, step, delivery, tries, posts, accepted, unheard>>
  BY <1>1 DEF Enqueue, EnqueueDelivery, workerVars, hookVars, history
<1>6. StepFollowsJob' /\ WorkerProgress'
  BY <1>5 DEF DeliveryInv, StepFollowsJob, WorkerProgress
<1>7. PostsFollowClaims' /\ VerdictEarned' /\ DeliveredIsDone'
  BY <1>1, <1>5, DeliveryTypes
     DEF DeliveryInv, PostsFollowClaims, VerdictEarned, DeliveredIsDone
<1> QED
  BY <1>3, <1>4, <1>6, <1>7 DEF DeliveryInv

\* The SELECT of a poll, and its rollback.
LEMMA SelectKeepsDeliveryInv ==
    ASSUME DeliveryInv, NEW w \in Workers, WorkerSelects(w) \/ WorkerPollFails(w)
    PROVE  DeliveryInv'
<1>1. IInv'
  BY PollSelectKeepsIInv, RollbackKeepsIInv DEF DeliveryInv, WorkerSelects, WorkerPollFails
<1>2. UNCHANGED <<hookVars, dispatchVars, step, history>>
  BY DEF WorkerSelects, WorkerPollFails
<1>3. DeliveryTypeOK'
  BY <1>1, <1>2 DEF DeliveryInv, IInv, DeliveryTypeOK, hookVars, dispatchVars, history
<1>4. UNCHANGED <<status, attempts, max, holding>>
  BY DEF WorkerSelects, WorkerPollFails, PollSelect, PollAborts, rows, workerVars
<1>5. DeliveryParts'
  BY <1>2, <1>4, QuietKeepsParts DEF hookVars
<1> QED
  BY <1>1, <1>3, <1>5, PartsSuffice

\* The COMMIT of a poll pays for one POST of a delivery that nobody has and
\* that is not logged as delivered.
LEMMA ClaimKeepsDeliveryInv ==
    ASSUME DeliveryInv, NEW w \in Workers, WorkerClaims(w)
    PROVE  DeliveryInv'
<1>1. IInv'
  BY PollCommitKeepsIInv DEF DeliveryInv, WorkerClaims
<1>2. step' = [step EXCEPT ![w] = "post"] /\ UNCHANGED <<delivery, tries, posts, accepted, unheard>>
  BY DEF WorkerClaims, hookVars, history
<1>3. DeliveryTypeOK'
  BY <1>1 DEF DeliveryInv, IInv, DeliveryTypeOK, WorkerClaims, Steps, hookVars, dispatchVars, history
<1>4. PICK j \in JobIds :
        /\ w \in rowLock[j]
        /\ status' = [status EXCEPT ![j] = "running"]
        /\ attempts' = [attempts EXCEPT ![j] = attempts[j] + 1]
        /\ holding' = [holding EXCEPT ![w] = j]
        /\ UNCHANGED max
  BY DEF WorkerClaims, PollCommit
<1>5. status[j] = "queued" /\ holding[w] = None
  BY <1>4 DEF DeliveryInv, IInv, LockedRowsAreDue
<1>6. \A v \in Workers : holding[v] # j
  BY <1>5, OneHolder, NoneAssumption DEF DeliveryInv
<1>7. posts[j] = attempts[j] /\ (delivery[j] # "delivered" \/ j \in unheard)
  BY <1>5 DEF DeliveryInv, PostsFollowClaims, DeliveredIsDone
<1>8. /\ \A d \in JobIds : status'[d] = IF d = j THEN "running" ELSE status[d]
      /\ \A d \in JobIds : attempts'[d] = IF d = j THEN attempts[d] + 1 ELSE attempts[d]
      /\ \A v \in Workers : holding'[v] = IF v = w THEN j ELSE holding[v]
      /\ \A v \in Workers : step'[v] = IF v = w THEN "post" ELSE step[v]
  BY <1>2, <1>4, DeliveryTypes
<1>9. StepFollowsJob'
  BY <1>8, NoneAssumption DEF DeliveryInv, StepFollowsJob
<1>10. PostsFollowClaims' /\ VerdictEarned'
  BY <1>2, <1>4, <1>7, <1>8, DeliveryTypes DEF DeliveryInv, PostsFollowClaims, VerdictEarned
<1>11. WorkerProgress'
  <2> SUFFICES ASSUME NEW v \in Workers, holding'[v] # None
               PROVE  LET d == holding'[v] IN
                      /\ step'[v] = "post" => posts'[d] + 1 = attempts'[d]
                      /\ step'[v] # "post" => posts'[d] = attempts'[d]
                      /\ step'[v] \in {"record2xx", "recordOther"} => tries'[d] < posts'[d]
                      /\ step'[v] \in {"record2xx", "complete"} => accepted'[d] > 0
    BY DEF WorkerProgress
  <2>1. CASE v = w
    BY <1>2, <1>7, <1>8, <2>1
  <2>2. CASE v # w
    <3>1. holding'[v] = holding[v] /\ step'[v] = step[v] /\ holding[v] # j /\ holding[v] \in JobIds
      BY <1>6, <1>8, <2>2, DeliveryTypes
    <3>2. attempts'[holding[v]] = attempts[holding[v]]
      BY <1>8, <3>1
    <3> QED
      BY <1>2, <3>1, <3>2 DEF DeliveryInv, WorkerProgress
  <2> QED
    BY <2>1, <2>2
<1>12. DeliveredIsDone'
  BY <1>2, <1>7, <1>8 DEF DeliveryInv, DeliveredIsDone
<1> QED
  BY <1>1, <1>3, <1>9, <1>10, <1>11, <1>12 DEF DeliveryInv

\* The POST spends the claim: the worker's own delivery gets one POST more, and
\* an answer of 2xx means the receiver accepted it.
LEMMA PostKeepsDeliveryInv ==
    ASSUME DeliveryInv, NEW w \in Workers, NEW reply \in Replies, ExecutePost(w, reply)
    PROVE  DeliveryInv'
<1> DEFINE j == holding[w]
<1>1. IInv'
  BY QueueStutters DEF DeliveryInv, ExecutePost
<1>2. /\ step[w] = "post"
      /\ posts' = [posts EXCEPT ![j] = @ + 1]
      /\ accepted' = IF reply \in {"2xx", "unanswered"}
                     THEN [accepted EXCEPT ![j] = @ + 1] ELSE accepted
      /\ step' = [step EXCEPT ![w] = IF reply = "2xx" THEN "record2xx" ELSE "recordOther"]
      /\ UNCHANGED <<status, attempts, max, holding, delivery, tries, unheard>>
  BY DEF ExecutePost, queueVars, vars, rows, workerVars, hookVars
<1>3. j # None
  BY <1>2 DEF DeliveryInv, StepFollowsJob
<1>4. j \in JobIds /\ status[j] = "running" /\ \A v \in Workers : holding[v] = j => v = w
  BY <1>3, OneHolder DEF DeliveryInv
<1>5. posts' \in [JobIds -> Nat] /\ accepted' \in [JobIds -> Nat] /\ step' \in [Workers -> Steps]
  BY <1>2, <1>4, DeliveryTypes DEF Steps
<1>6. DeliveryTypeOK'
  BY <1>1, <1>5 DEF DeliveryInv, IInv, DeliveryTypeOK, ExecutePost, hookVars, dispatchVars
<1>7. posts[j] + 1 = attempts[j] /\ tries[j] <= posts[j]
  BY <1>2, <1>3, <1>4 DEF DeliveryInv, WorkerProgress, PostsFollowClaims
<1>8. /\ \A d \in JobIds : posts'[d] = IF d = j THEN posts[d] + 1 ELSE posts[d]
      /\ \A d \in JobIds : accepted'[d] >= accepted[d]
      /\ reply = "2xx" => accepted'[j] > 0
  BY <1>2, <1>4, DeliveryTypes
<1>9. /\ step'[w] \in {"record2xx", "recordOther"}
      /\ step'[w] = "record2xx" => reply = "2xx"
      /\ \A v \in Workers : v # w => step'[v] = step[v]
  BY <1>2, DeliveryTypes
<1>10. StepFollowsJob'
  BY <1>2, <1>3, <1>9 DEF DeliveryInv, StepFollowsJob
<1>11. PostsFollowClaims' /\ VerdictEarned'
  BY <1>2, <1>4, <1>5, <1>7, <1>8, DeliveryTypes DEF DeliveryInv, PostsFollowClaims, VerdictEarned
<1>12. WorkerProgress'
  <2> SUFFICES ASSUME NEW v \in Workers, holding[v] # None
               PROVE  LET d == holding[v] IN
                      /\ step'[v] = "post" => posts'[d] + 1 = attempts[d]
                      /\ step'[v] # "post" => posts'[d] = attempts[d]
                      /\ step'[v] \in {"record2xx", "recordOther"} => tries[d] < posts'[d]
                      /\ step'[v] \in {"record2xx", "complete"} => accepted'[d] > 0
    BY <1>2 DEF WorkerProgress
  <2>1. CASE v = w
    <3>1. posts'[j] = attempts[j] /\ tries[j] < posts'[j]
      BY <1>4, <1>5, <1>7, <1>8, DeliveryTypes
    <3> QED
      BY <1>8, <1>9, <2>1, <3>1
  <2>2. CASE v # w
    <3>1. holding[v] \in JobIds /\ holding[v] # j
      BY <1>4, <2>2, OneHolder DEF DeliveryInv
    <3>2. posts'[holding[v]] = posts[holding[v]] /\ accepted'[holding[v]] >= accepted[holding[v]]
      BY <1>8, <3>1
    <3>3. accepted[holding[v]] \in Nat /\ accepted'[holding[v]] \in Nat
      BY <1>5, <3>1, DeliveryTypes
    <3> QED
      BY <1>9, <2>2, <3>2, <3>3 DEF DeliveryInv, WorkerProgress
  <2> QED
    BY <2>1, <2>2
<1>13. DeliveredIsDone'
  <2>1. delivery[j] # "delivered" \/ j \in unheard
    BY <1>2, <1>4 DEF DeliveryInv, DeliveredIsDone
  <2> QED
    BY <1>2, <1>9, <2>1 DEF DeliveryInv, DeliveredIsDone
<1> QED
  BY <1>1, <1>6, <1>10, <1>11, <1>12, <1>13 DEF DeliveryInv

\* The UPDATE of the log counts a POST already made, and says delivered only of
\* an accepted one; if it fails, or seems to, the job will be retried.
LEMMA RecordKeepsDeliveryInv ==
    ASSUME DeliveryInv, NEW w \in Workers, RecordOutcome(w) \/ RecordFails(w)
    PROVE  DeliveryInv'
<1> DEFINE j == holding[w]
<1>1. IInv'
  BY QueueStutters, FaultKeepsIInv DEF DeliveryInv, RecordOutcome, RecordFails
<1>2. /\ step[w] \in {"record2xx", "recordOther"}
      /\ UNCHANGED <<status, attempts, max, holding, hook, target, todo, inserted, posts, accepted>>
  BY DEF RecordOutcome, RecordFails, queueVars, vars, rows, workerVars, dispatchVars
<1>3. j # None
  BY <1>2 DEF DeliveryInv, StepFollowsJob
<1>4. j \in JobIds /\ status[j] = "running" /\ \A v \in Workers : holding[v] = j => v = w
  BY <1>3, OneHolder DEF DeliveryInv
<1>5. \E s \in {"complete", "fail"} :
         /\ step' = [step EXCEPT ![w] = s]
         /\ s = "complete" => step[w] = "record2xx"
  BY DEF RecordOutcome, RecordFails, Verdict
<1>6. /\ step'[w] \in {"complete", "fail"}
      /\ step'[w] = "complete" => step[w] = "record2xx"
      /\ \A v \in Workers : v # w => step'[v] = step[v]
      /\ step' \in [Workers -> Steps]
  BY <1>5, DeliveryTypes DEF Steps
<1>7. /\ \/ UNCHANGED <<delivery, tries>> /\ (delivery[j] = "gone" \/ UNCHANGED unheard)
         \/ /\ \E s \in {"delivered", "failed"} :
                  delivery' = [delivery EXCEPT ![j] = s] /\ s = RecordedStatus(step[w])
            /\ tries' = [tries EXCEPT ![j] = @ + 1]
      /\ \/ UNCHANGED <<delivery, unheard>>
         \/ unheard' = unheard \cup {j}
         \/ unheard' = unheard \ {j} /\ step'[w] = Verdict(step[w])
  BY DeliveryTypes DEF RecordOutcome, RecordFails, LogOutcome, RecordedStatus
<1>8. /\ delivery' \in [JobIds -> DeliveryStatus] /\ tries' \in [JobIds -> Nat]
      /\ unheard' \in SUBSET JobIds
      /\ \A d \in JobIds : d # j =>
            /\ delivery'[d] = delivery[d]
            /\ tries'[d] = tries[d]
            /\ d \in unheard' <=> d \in unheard
      /\ tries'[j] = tries[j] \/ tries'[j] = tries[j] + 1
  BY <1>4, <1>7, DeliveryTypes DEF DeliveryStatus
<1>9. DeliveryTypeOK'
  BY <1>1, <1>2, <1>6, <1>8 DEF DeliveryInv, IInv, DeliveryTypeOK
<1>10. /\ posts[j] = attempts[j] /\ tries[j] < posts[j]
       /\ step[w] = "record2xx" => accepted[j] > 0
       /\ delivery[j] # "delivered" \/ j \in unheard
  BY <1>2, <1>3, <1>4 DEF DeliveryInv, WorkerProgress, DeliveredIsDone
<1>11. StepFollowsJob'
  BY <1>2, <1>3, <1>6 DEF DeliveryInv, StepFollowsJob
<1>12. PostsFollowClaims' /\ VerdictEarned'
  BY <1>2, <1>4, <1>8, <1>10, DeliveryTypes DEF DeliveryInv, PostsFollowClaims, VerdictEarned
<1>13. WorkerProgress'
  <2> SUFFICES ASSUME NEW v \in Workers, holding[v] # None
               PROVE  LET d == holding[v] IN
                      /\ step'[v] = "post" => posts[d] + 1 = attempts[d]
                      /\ step'[v] # "post" => posts[d] = attempts[d]
                      /\ step'[v] \in {"record2xx", "recordOther"} => tries'[d] < posts[d]
                      /\ step'[v] \in {"record2xx", "complete"} => accepted[d] > 0
    BY <1>2 DEF WorkerProgress
  <2>1. CASE v = w
    BY <1>6, <1>10, <2>1
  <2>2. CASE v # w
    <3>1. holding[v] \in JobIds /\ holding[v] # j
      BY <1>4, <2>2, OneHolder DEF DeliveryInv
    <3> QED
      BY <1>6, <1>8, <2>2, <3>1 DEF DeliveryInv, WorkerProgress
  <2> QED
    BY <2>1, <2>2
<1>14. DeliveredIsDone'
  <2> SUFFICES ASSUME NEW d \in JobIds, delivery'[d] = "delivered", d \notin unheard'
               PROVE  /\ status[d] \in {"running", "completed", "reaped"}
                      /\ \A v \in Workers : holding[v] = d => step'[v] = "complete"
    BY <1>2 DEF DeliveredIsDone
  <2>1. CASE d = j
    <3>1. step'[w] = "complete"
      <4>1. CASE UNCHANGED <<delivery, unheard>>
        BY <1>10, <2>1, <4>1
      <4>2. CASE ~ UNCHANGED <<delivery, unheard>>
        <5>1. step'[w] = Verdict(step[w]) /\ delivery'[j] = "delivered"
          BY <1>7, <2>1, <4>2
        <5>2. step[w] = "record2xx"
          BY <1>4, <1>7, <1>10, <4>2, <5>1, <2>1, DeliveryTypes DEF RecordedStatus
        <5> QED
          BY <5>1, <5>2 DEF Verdict
      <4> QED
        BY <4>1, <4>2
    <3> QED
      BY <1>4, <2>1, <3>1
  <2>2. CASE d # j
    BY <1>6, <1>8, <2>2 DEF DeliveryInv, DeliveredIsDone
  <2> QED
    BY <2>1, <2>2
<1> QED
  BY <1>1, <1>9, <1>11, <1>12, <1>13, <1>14 DEF DeliveryInv

\* complete_job and fail_job settle or requeue the worker's own job.
LEMMA SettleKeepsDeliveryInv ==
    ASSUME DeliveryInv, NEW w \in Workers, WorkerCompletes(w) \/ WorkerFails(w)
    PROVE  DeliveryInv'
<1> DEFINE j == holding[w]
<1>1. IInv'
  BY CompleteJobKeepsIInv, FailJobKeepsIInv DEF DeliveryInv, WorkerCompletes, WorkerFails
<1>2. /\ step' = [step EXCEPT ![w] = "poll"]
      /\ UNCHANGED <<hookVars, dispatchVars, history>>
      /\ holding[w] # None /\ holding' = [holding EXCEPT ![w] = None]
  BY DEF WorkerCompletes, WorkerFails, CompleteJob, FailJob, Handles, Release
<1>3. DeliveryTypeOK'
  <2>1. step' \in [Workers -> Steps]
    BY <1>2, DeliveryTypes DEF Steps
  <2> QED
    BY <1>1, <1>2, <2>1 DEF DeliveryInv, IInv, DeliveryTypeOK, hookVars, dispatchVars, history
<1>4. j \in JobIds /\ status[j] = "running" /\ Present(j)
  BY <1>2, OneHolder DEF DeliveryInv, Present
<1>5. seen[w] = attempts[j] /\ attempts[j] <= max[j]
  BY <1>2, <1>4 DEF DeliveryInv, IInv, ExclusiveExecution, AttemptsWithinLimit
<1>6. attempts[j] \in Nat /\ max[j] \in Nat
  BY <1>4, DeliveryTypes
<1>7. /\ UNCHANGED <<attempts, max>>
      /\ step[w] \in {"complete", "fail"}
      /\ \E s \in Status :
           /\ status' = [status EXCEPT ![j] = s]
           /\ s \in {"queued", "completed", "failed"}
           /\ s = "completed" <=> step[w] = "complete"
           /\ s = "failed" => attempts[j] = max[j]
  <2>1. CASE WorkerCompletes(w)
    BY <1>4, <2>1 DEF WorkerCompletes, CompleteJob, SetRow, Status
  <2>2. CASE WorkerFails(w)
    <3>1. step[w] = "fail" /\ FailedRow(j, attempts[j])
      BY <1>5, <2>2 DEF WorkerFails, FailJob
    <3>2. CASE attempts[j] >= max[j]
      <4>1. SetRow(j, "failed", due[j]) /\ attempts[j] = max[j]
        BY <1>5, <1>6, <3>1, <3>2 DEF FailedRow, GivesUp
      <4> QED
        BY <1>4, <3>1, <4>1 DEF SetRow, Status
    <3>3. CASE ~ (attempts[j] >= max[j])
      <4>1. SetRow(j, "queued", RetryDue(j, attempts[j]))
        BY <3>1, <3>3 DEF FailedRow, GivesUp
      <4> QED
        BY <1>4, <3>1, <4>1 DEF SetRow, Status
    <3> QED
      BY <3>2, <3>3
  <2> QED
    BY <2>1, <2>2
<1>8. DeliveryParts'
  BY <1>2, <1>7, LettingGoKeepsParts DEF hookVars
<1> QED
  BY <1>1, <1>3, <1>8, PartsSuffice

\* A lost UPDATE and a crash strand the job: its row stays running.
LEMMA LosingKeepsDeliveryInv ==
    ASSUME DeliveryInv, NEW w \in Workers, WorkerDrops(w) \/ WorkerCrashes(w)
    PROVE  DeliveryInv'
<1>1. IInv'
  BY DropJobKeepsIInv, RollbackKeepsIInv DEF DeliveryInv, WorkerDrops, WorkerCrashes
<1>2. /\ step' = [step EXCEPT ![w] = "poll"]
      /\ UNCHANGED <<hookVars, dispatchVars, history, status, attempts, max>>
      /\ holding' = [holding EXCEPT ![w] = None]
  BY DEF WorkerDrops, WorkerCrashes, DropJob, Crash, Release, rows
<1>3. DeliveryTypeOK'
  <2>1. step' \in [Workers -> Steps]
    BY <1>2, DeliveryTypes DEF Steps
  <2> QED
    BY <1>1, <1>2, <2>1 DEF DeliveryInv, IInv, DeliveryTypeOK, hookVars, dispatchVars, history
<1>4. DeliveryParts'
  BY <1>2, LettingGoKeepsParts DEF hookVars
<1> QED
  BY <1>1, <1>3, <1>4, PartsSuffice

\* The reaper takes settled rows only, and the clock no column the log reads.
LEMMA HousekeepingKeepsDeliveryInv ==
    ASSUME DeliveryInv, Housekeeping
    PROVE  DeliveryInv'
<1>1. IInv'
  BY ReapKeepsIInv, TickKeepsIInv DEF DeliveryInv, Housekeeping
<1>2. UNCHANGED <<hookVars, dispatchVars, step, history>>
  BY DEF Housekeeping
<1>3. DeliveryTypeOK'
  BY <1>1, <1>2 DEF DeliveryInv, IInv, DeliveryTypeOK, hookVars, dispatchVars, history
<1>4. CASE Tick
  <2>1. UNCHANGED <<status, attempts, max, holding>>
    BY <1>4 DEF Tick, workerVars
  <2>2. DeliveryParts'
    BY <1>2, <2>1, QuietKeepsParts DEF hookVars
  <2> QED
    BY <1>1, <1>3, <2>2, PartsSuffice
<1>5. CASE ReapOldJobs
  <2>1. /\ UNCHANGED <<attempts, max, holding, step, delivery, tries, posts, accepted, unheard>>
        /\ \A d \in JobIds : \/ status'[d] = status[d]
                             \/ status[d] \in Settled /\ status'[d] = "reaped"
    BY <1>2, <1>5 DEF ReapOldJobs, Reapable, workerVars, hookVars, history
  <2>2. StepFollowsJob' /\ WorkerProgress'
    BY <2>1 DEF DeliveryInv, StepFollowsJob, WorkerProgress
  <2>3. PostsFollowClaims' /\ VerdictEarned' /\ DeliveredIsDone'
    BY <2>1 DEF DeliveryInv, PostsFollowClaims, VerdictEarned, DeliveredIsDone, Settled
  <2> QED
    BY <1>1, <1>3, <2>2, <2>3 DEF DeliveryInv
<1> QED
  BY <1>4, <1>5 DEF Housekeeping

\* Every step of dispatchers, workers, owners and the clock keeps the invariant.
LEMMA NextKeepsDeliveryInv == DeliveryInv /\ [DeliveryNext]_allVars => DeliveryInv'
<1> SUFFICES ASSUME DeliveryInv, [DeliveryNext]_allVars
             PROVE  DeliveryInv'
  OBVIOUS
<1>1. CASE \E h \in Webhooks : CreateWebhook(h) \/ DeleteWebhook(h)
  BY <1>1, RegistrationKeepsDeliveryInv
<1>2. CASE \E p \in Dispatchers : DispatchNext(p)
  BY <1>2, DispatchKeepsDeliveryInv, EnqueueKeepsDeliveryInv DEF DispatchNext
<1>3. CASE \E w \in Workers : WorkerStep(w)
  BY <1>3, SelectKeepsDeliveryInv, ClaimKeepsDeliveryInv, PostKeepsDeliveryInv,
     RecordKeepsDeliveryInv, SettleKeepsDeliveryInv DEF WorkerStep
<1>4. CASE \E w \in Workers : WorkerFault(w)
  BY <1>4, SelectKeepsDeliveryInv, RecordKeepsDeliveryInv, LosingKeepsDeliveryInv DEF WorkerFault
<1>5. CASE Housekeeping
  BY <1>5, HousekeepingKeepsDeliveryInv
<1>6. CASE UNCHANGED allVars
  <2>1. IInv'
    BY <1>6, QueueStutters DEF DeliveryInv, allVars, queueVars
  <2>2. DeliveryTypeOK'
    BY <1>6, <2>1 DEF allVars, DeliveryInv, IInv, DeliveryTypeOK, hookVars, dispatchVars, history
  <2>3. DeliveryParts'
    BY <1>6, QuietKeepsParts DEF allVars, vars, rows, workerVars, hookVars
  <2> QED
    BY <2>1, <2>2, <2>3, PartsSuffice
<1> QED
  BY <1>1, <1>2, <1>3, <1>4, <1>5, <1>6 DEF DeliveryNext

\* The inductive invariant of the webhook worker on its queue.
THEOREM DeliveryInvariant == DeliverySpec => []DeliveryInv
<1>1. DeliveryInit => DeliveryInv
  <2> SUFFICES ASSUME DeliveryInit
               PROVE  DeliveryInv
    OBVIOUS
  <2>1. IInv
    BY InitIInv DEF DeliveryInit
  <2>2. DeliveryTypeOK
    BY <2>1 DEF DeliveryInit, IInv, DeliveryTypeOK, DeliveryStatus, Steps
  <2>3. DeliveryParts
    BY DEF DeliveryInit, Init, DeliveryParts, StepFollowsJob, PostsFollowClaims, VerdictEarned,
           WorkerProgress, DeliveredIsDone
  <2> QED
    BY <2>1, <2>2, <2>3 DEF DeliveryInv, DeliveryParts
<1>2. DeliveryInv /\ [DeliveryNext]_allVars => DeliveryInv'
  BY NextKeepsDeliveryInv
<1> QED
  BY <1>1, <1>2, PTL DEF DeliverySpec

\* No receiver is called more often than max_attempts, and the log counts no
\* attempt that was not made, for any number of webhooks, replicas and faults.
THEOREM PostsBounded == DeliverySpec => []PostsWithinLimit
<1>1. DeliveryInv => PostsWithinLimit
  BY DEF DeliveryInv, IInv, PostsFollowClaims, AttemptsWithinLimit, PostsWithinLimit
<1> QED
  BY <1>1, DeliveryInvariant, PTL

\* Completed jobs were accepted by the receiver, failed ones used every attempt.
THEOREM VerdictHolds == DeliverySpec => []VerdictIsTrue
<1>1. DeliveryInv => VerdictIsTrue
  BY DEF DeliveryInv, PostsFollowClaims, VerdictEarned, VerdictIsTrue
<1> QED
  BY <1>1, DeliveryInvariant, PTL

\* A delivery logged as delivered is never POSTed or logged as failed again,
\* unless the answer to the UPDATE that logged it was lost.
THEOREM DeliveredIsFinal == DeliverySpec => RecordedDeliveryIsFinal
<1>1. ASSUME DeliveryInv, [DeliveryNext]_allVars, NEW d \in JobIds,
             delivery[d] = "delivered", d \notin unheard
      PROVE  delivery'[d] \in {"delivered", "gone"} /\ posts'[d] = posts[d]
  <2> USE <1>1
  <2>1. CASE UNCHANGED <<delivery, posts>>
    BY <2>1
  <2>2. CASE \E h \in Webhooks : CreateWebhook(h) \/ DeleteWebhook(h)
    BY <2>2, DeliveryTypes DEF CreateWebhook, DeleteWebhook, history
  <2>3. CASE \E p \in Dispatchers : DispatchNext(p)
    BY <2>3, DeliveryTypes
       DEF DispatchNext, DispatchSelect, InsertDelivery, EnqueueDelivery, DispatchFails,
           hookVars, history
  <2>4. CASE \E w \in Workers, reply \in Replies : ExecutePost(w, reply)
    <3>1. PICK w \in Workers, reply \in Replies : ExecutePost(w, reply)
      BY <2>4
    <3>2. step[w] = "post" /\ posts' = [posts EXCEPT ![holding[w]] = @ + 1] /\ UNCHANGED delivery
      BY <3>1 DEF ExecutePost, hookVars
    <3>3. holding[w] # d
      BY <3>2 DEF DeliveryInv, DeliveredIsDone
    <3> QED
      BY <3>2, <3>3, DeliveryTypes
  <2>5. CASE \E w \in Workers : RecordOutcome(w) \/ RecordFails(w)
    <3>1. PICK w \in Workers : RecordOutcome(w) \/ RecordFails(w)
      BY <2>5
    <3>2. holding[w] # d
      BY <3>1 DEF RecordOutcome, RecordFails, DeliveryInv, DeliveredIsDone
    <3> QED
      BY <3>1, <3>2, DeliveryTypes DEF RecordOutcome, RecordFails, LogOutcome
  <2>6. CASE \E w \in Workers : \/ WorkerSelects(w) \/ WorkerClaims(w) \/ WorkerCompletes(w)
                                \/ WorkerFails(w) \/ WorkerPollFails(w) \/ WorkerDrops(w)
                                \/ WorkerCrashes(w)
    BY <2>6 DEF WorkerSelects, WorkerClaims, WorkerCompletes, WorkerFails,
                WorkerPollFails, WorkerDrops, WorkerCrashes, hookVars, history
  <2>7. CASE Housekeeping \/ UNCHANGED allVars
    BY <2>7 DEF Housekeeping, allVars, hookVars, history
  <2> QED
    BY <2>2, <2>3, <2>4, <2>5, <2>6, <2>7 DEF DeliveryNext, WorkerStep, WorkerFault
<1>2. DeliveryInv /\ [DeliveryNext]_allVars =>
        [DeliveredRowsStay]_allVars
  BY <1>1 DEF DeliveredRowsStay
<1> QED
  BY <1>2, DeliveryInvariant, PTL DEF DeliverySpec, RecordedDeliveryIsFinal
=============================================================================
