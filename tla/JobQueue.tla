------------------------------ MODULE JobQueue ------------------------------
(***************************************************************************)
(* The background job queue of src/services/job_queue.rs: one row of       *)
(* background_jobs per job, replicas that poll it with                     *)
(* SELECT ... FOR UPDATE SKIP LOCKED, and the retry, backoff and reaping   *)
(* rules.  The columns the code reads or writes are functions from job ids *)
(* (last_error and locked_at are written and never read: left out).        *)
(*                                                                         *)
(* Time.  run_at and updated_at are kept relative to the clock: due[j] is  *)
(* run_at - now and age[j] is now - updated_at, in units of the 5 seconds  *)
(* the backoff is a multiple of.  Tick moves every row at once.            *)
(***************************************************************************)
EXTENDS Integers, FiniteSets

CONSTANTS
    JobIds,       \* the ids Uuid::now_v7 may hand out; an id is used once
    Workers,      \* worker incarnations; a restarted replica is a new one
    None,         \* SQL NULL
    MaxAttempts,  \* bound: the largest max_attempts a caller passes
    MaxDelay,     \* bound: how far ahead a caller may set run_at
    Retention,    \* the retention period of reap_old_jobs
    Lag,          \* bound: rows overdue by more than Lag are not ordered
    MaxFaults     \* bound: crashes and failed statements in one behaviour

ASSUME NoneAssumption == None \notin Workers /\ None \notin JobIds
ASSUME MaxAttemptsAssumption == MaxAttempts \in 1..10
ASSUME MaxDelayAssumption == MaxDelay \in Nat
ASSUME LagAssumption == Lag \in Nat
ASSUME MaxFaultsAssumption == MaxFaults \in Nat

VARIABLES
    status,       \* [JobIds -> Status]
    queue,        \* [JobIds -> Queues]
    jobType,      \* job_type, [JobIds -> JobTypes]
    attempts,     \* [JobIds -> Nat]
    max,          \* max_attempts, [JobIds -> 0..MaxAttempts]
    due,          \* run_at - now
    age,          \* now - updated_at
    lockedBy,     \* locked_by, [JobIds -> Workers \cup {None}]
    rowLock,      \* the open transactions whose SELECT ... FOR UPDATE returned the row
    alive,        \* the worker incarnations that still run
    holding,      \* the job whose record poll_next_job returned to a worker
    seen,         \* the attempts column of that record
    faults        \* crashes and failed statements so far

kind == <<queue, jobType>>
rows == <<status, attempts, max, due, age, lockedBy, kind>>
workerVars == <<holding, seen, alive>>
vars == <<rows, rowLock, workerVars, faults>>

Status == {"unused", "queued", "running", "completed", "failed", "reaped"}
Settled == {"completed", "failed"}

\* The queue background_worker_loop polls, and the one enqueue falls back to.
Queues == {"webhooks", "default"}

\* The job_type the worker knows; the others stand for one.
JobTypes == {"webhook.deliver", "other"}

\* 2^attempts * 5 seconds in 5-second units, the exponent clamped to 0..10.
Backoff(a) ==
    <<1, 2, 4, 8, 16, 32, 64, 128, 256, 512, 1024>>[1 + IF a > 10 THEN 10 ELSE a]

\* A row outlives any wait for a retry, as 14 days outlive 10 * 2^10 seconds.
ASSUME RetentionAssumption == Retention \in Nat /\ Retention >= Backoff(MaxAttempts)

TypeOK ==
    /\ status \in [JobIds -> Status]
    /\ queue \in [JobIds -> Queues]
    /\ jobType \in [JobIds -> JobTypes]
    /\ attempts \in [JobIds -> Nat]
    /\ max \in [JobIds -> 0..MaxAttempts]
    /\ due \in [JobIds -> Int]
    /\ age \in [JobIds -> 0..(Retention + 1)]
    /\ lockedBy \in [JobIds -> Workers \cup {None}]
    /\ rowLock \in [JobIds -> SUBSET Workers]
    /\ alive \in SUBSET Workers
    /\ holding \in [Workers -> JobIds \cup {None}]
    /\ seen \in [Workers -> Nat]
    /\ faults \in 0..MaxFaults

Init ==
    /\ status = [j \in JobIds |-> "unused"]
    /\ queue = [j \in JobIds |-> "default"]
    /\ jobType = [j \in JobIds |-> "other"]
    /\ attempts = [j \in JobIds |-> 0]
    /\ max = [j \in JobIds |-> 0]
    /\ due = [j \in JobIds |-> 0]
    /\ age = [j \in JobIds |-> 0]
    /\ lockedBy = [j \in JobIds |-> None]
    /\ rowLock = [j \in JobIds |-> {}]
    /\ alive = Workers
    /\ holding = [w \in Workers |-> None]
    /\ seen = [w \in Workers |-> 0]
    /\ faults = 0

-----------------------------------------------------------------------------
\* enqueue: the caller names the job type and a queue (or none: "default"),
\* run_at is NOW() or a time the caller names, attempts defaults to 0.
Enqueue(j, q, t, d, m) ==
    /\ status[j] = "unused"
    /\ status' = [status EXCEPT ![j] = "queued"]
    /\ queue' = [queue EXCEPT ![j] = q]
    /\ jobType' = [jobType EXCEPT ![j] = t]
    /\ max' = [max EXCEPT ![j] = m]
    /\ due' = [due EXCEPT ![j] = d]
    /\ age' = [age EXCEPT ![j] = 0]
    /\ UNCHANGED <<attempts, lockedBy, rowLock, workerVars, faults>>

\* Mutants of Eligible: the poll also picks up rows given up on, or only the
\* rows that fall due at this very moment.
EligibleAlsoFailed(j) ==
    queue[j] = "webhooks" /\ status[j] \in {"queued", "failed"} /\ due[j] <= 0
EligibleOnTheDot(j) == queue[j] = "webhooks" /\ status[j] = "queued" /\ due[j] = 0

\* The WHERE clause of the poll: the worker's queue, queued and run_at <= NOW().
Eligible(j) == queue[j] = "webhooks" /\ status[j] = "queued" /\ due[j] <= 0

\* Mutant of Pollable: a SELECT without FOR UPDATE SKIP LOCKED.
PollableIgnoringLocks == {j \in JobIds : Eligible(j)}

\* The rows FOR UPDATE SKIP LOCKED leaves to choose from.
Pollable == {j \in JobIds : Eligible(j) /\ rowLock[j] = {}}

\* Inside a transaction: the worker holds a row lock between SELECT and COMMIT.
Polling(w) == \E j \in JobIds : w \in rowLock[j]

Idle(w) == w \in alive /\ holding[w] = None /\ ~Polling(w)

\* poll_next_job, the SELECT: the earliest run_at of the rows not locked.
PollSelect(w) ==
    /\ Idle(w)
    /\ \E j \in Pollable :
        /\ \A k \in Pollable : due[j] <= due[k]
        /\ rowLock' = [rowLock EXCEPT ![j] = @ \cup {w}]
    /\ UNCHANGED <<rows, workerVars, faults>>

\* poll_next_job, the UPDATE ... RETURNING and the COMMIT.
PollCommit(w) ==
    \E j \in JobIds :
        /\ w \in rowLock[j]
        /\ status' = [status EXCEPT ![j] = "running"]
        /\ attempts' = [attempts EXCEPT ![j] = attempts[j] + 1]
        /\ lockedBy' = [lockedBy EXCEPT ![j] = w]
        /\ age' = [age EXCEPT ![j] = 0]
        /\ rowLock' = [rowLock EXCEPT ![j] = @ \ {w}]
        /\ holding' = [holding EXCEPT ![w] = j]
        /\ seen' = [seen EXCEPT ![w] = attempts[j] + 1]
        /\ UNCHANGED <<kind, max, due, alive, faults>>

\* poll_next_job returns Err: dropping the transaction rolls it back.
PollAborts(w) ==
    /\ Polling(w)
    /\ faults < MaxFaults
    /\ faults' = faults + 1
    /\ rowLock' = [j \in JobIds |-> rowLock[j] \ {w}]
    /\ UNCHANGED <<rows, workerVars>>

\* An UPDATE ... WHERE id = j: it waits for a lock and misses a deleted row.
Updatable(j) == rowLock[j] = {}
Present(j) == status[j] \notin {"unused", "reaped"}

Release(w) ==
    /\ holding' = [holding EXCEPT ![w] = None]
    /\ seen' = [seen EXCEPT ![w] = 0]
    /\ UNCHANGED alive

\* The columns an UPDATE by complete_job or fail_job gives row j.
SetRow(j, s, d) ==
    IF Present(j)
    THEN /\ status' = [status EXCEPT ![j] = s]
         /\ due' = [due EXCEPT ![j] = d]
         /\ lockedBy' = [lockedBy EXCEPT ![j] = None]
         /\ age' = [age EXCEPT ![j] = 0]
         /\ UNCHANGED <<attempts, max, kind>>
    ELSE UNCHANGED rows

\* The worker has a job, and goes into the branch of the one type it knows.
Handles(w) == holding[w] # None /\ jobType[holding[w]] = "webhook.deliver"

\* complete_job
CompleteJob(w) ==
    /\ Handles(w)
    /\ LET j == holding[w] IN
        /\ Updatable(j)
        /\ SetRow(j, "completed", due[j])
    /\ Release(w)
    /\ UNCHANGED <<rowLock, faults>>

\* Mutant of GivesUp: off by one.
GivesUpLate(a, m) == a > m

\* fail_job retries while attempts < max_attempts, else gives up.
GivesUp(a, m) == a >= m

\* Mutant of RetryDue: run_at is left as it was.
RetryAtOnce(j, a) == due[j]

\* run_at of the retry: NOW() plus the backoff of the attempts so far.
RetryDue(j, a) == Backoff(a)

\* Mutant of FailedRow: a retry gets a status the table does not know.
RetryUnknownStatus(j, a) ==
    SetRow(j, IF GivesUp(a, max[j]) THEN "failed" ELSE "retrying", RetryDue(j, a))

\* The row fail_job leaves.
FailedRow(j, a) ==
    IF GivesUp(a, max[j])
    THEN SetRow(j, "failed", due[j])
    ELSE SetRow(j, "queued", RetryDue(j, a))

\* fail_job, called with the attempts of the record the poll returned.
FailJob(w) ==
    /\ Handles(w)
    /\ LET j == holding[w] IN Updatable(j) /\ FailedRow(j, seen[w])
    /\ Release(w)
    /\ UNCHANGED <<rowLock, faults>>

\* fail_job, called with attempts = max_attempts: a payload the worker cannot
\* read is not retried.
AbandonJob(w) ==
    /\ Handles(w)
    /\ LET j == holding[w] IN Updatable(j) /\ FailedRow(j, max[j])
    /\ Release(w)
    /\ UNCHANGED <<rowLock, faults>>

\* A job of any other type is passed over: the loop goes on to the next one and
\* leaves the row running.
SkipJob(w) ==
    /\ holding[w] # None
    /\ ~Handles(w)
    /\ Release(w)
    /\ UNCHANGED <<rows, rowLock, faults>>

\* The worker loop discards an error of complete_job or fail_job (`let _ =`)
\* and goes on to the next job, as it does when the COMMIT of the poll took
\* effect and its answer was lost.
DropJob(w) ==
    /\ holding[w] # None
    /\ faults < MaxFaults
    /\ faults' = faults + 1
    /\ Release(w)
    /\ UNCHANGED <<rows, rowLock>>

\* The replica stops: PostgreSQL rolls back its transaction, the rest is lost.
Crash(w) ==
    /\ w \in alive
    /\ faults < MaxFaults
    /\ faults' = faults + 1
    /\ alive' = alive \ {w}
    /\ holding' = [holding EXCEPT ![w] = None]
    /\ seen' = [seen EXCEPT ![w] = 0]
    /\ rowLock' = [j \in JobIds |-> rowLock[j] \ {w}]
    /\ UNCHANGED rows

\* reap_old_jobs: settled rows whose updated_at is before the cutoff.
Reapable(j) == status[j] \in Settled /\ age[j] > Retention

ReapOldJobs ==
    /\ \E j \in JobIds : Reapable(j)
    /\ status' = [j \in JobIds |-> IF Reapable(j) THEN "reaped" ELSE status[j]]
    /\ UNCHANGED <<kind, attempts, max, due, age, lockedBy, rowLock, workerVars, faults>>

\* One unit of time: an overdue row stops counting at Lag, an old one at the
\* retention period.  Rows that no longer exist keep no clock.
Tick ==
    /\ due' = [j \in JobIds |->
                IF status[j] = "queued" /\ due[j] > -Lag THEN due[j] - 1 ELSE due[j]]
    /\ age' = [j \in JobIds |->
                IF Present(j) /\ age[j] <= Retention THEN age[j] + 1 ELSE age[j]]
    /\ UNCHANGED <<status, kind, attempts, max, lockedBy, rowLock, workerVars, faults>>

Next ==
    \/ \E j \in JobIds, q \in Queues, t \in JobTypes, d \in 0..MaxDelay, m \in 1..MaxAttempts :
        Enqueue(j, q, t, d, m)
    \/ \E w \in Workers : PollSelect(w)
    \/ \E w \in Workers : PollCommit(w)
    \/ \E w \in Workers : PollAborts(w)
    \/ \E w \in Workers : CompleteJob(w)
    \/ \E w \in Workers : FailJob(w)
    \/ \E w \in Workers : AbandonJob(w)
    \/ \E w \in Workers : SkipJob(w)
    \/ \E w \in Workers : DropJob(w)
    \/ \E w \in Workers : Crash(w)
    \/ ReapOldJobs
    \/ Tick

Spec == Init /\ [][Next]_vars

\* The loop of background_worker_loop never ends, and the clock never stops:
\* each worker takes the steps it can, callers and faults owe nothing.
Fairness ==
    /\ WF_vars(Tick)
    /\ \A w \in Workers :
        /\ WF_vars(PollSelect(w))
        /\ WF_vars(PollCommit(w))
        /\ WF_vars(CompleteJob(w) \/ FailJob(w) \/ AbandonJob(w) \/ SkipJob(w))

FairSpec == Spec /\ Fairness

-----------------------------------------------------------------------------
\* A worker that runs a job is the one its row names, on its latest attempt:
\* no two replicas ever run the same job, and none runs a job that was
\* requeued, settled or reaped under it (poll_next_job, complete_job, fail_job).
ExclusiveExecution ==
    \A w \in Workers : holding[w] # None =>
        /\ status[holding[w]] = "running"
        /\ lockedBy[holding[w]] = w
        /\ seen[w] = attempts[holding[w]]

\* No job is claimed more often than its max_attempts, across any mix of
\* failures, crashes and replicas (poll_next_job counts, fail_job compares).
AttemptsWithinLimit ==
    \A j \in JobIds : Present(j) => attempts[j] <= max[j]

SettledRowsStay ==
    \A j \in JobIds : status[j] \in Settled => status'[j] \in {status[j], "reaped"}

\* A completed or failed job is never queued or run again; only the reaper
\* may still touch its row.
SettledIsFinal == [][SettledRowsStay]_vars

RetriesAreLateEnough ==
    \A j \in JobIds :
        (/\ status[j] = "queued"
         /\ status'[j] = "running"
         /\ attempts[j] > 0) => age[j] >= Backoff(attempts[j])

\* A retry starts no earlier than the exponential backoff after the failure
\* that caused it, whichever replica picks it up.
RetryWaitsForBackoff == [][RetriesAreLateEnough]_vars

\* A row that says running although no worker runs the job.
Stranded(j) == status[j] = "running" /\ \A w \in Workers : holding[w] # j

\* A queued job that the worker loop polls for and has a branch for.
Awaited(j) ==
    status[j] = "queued" /\ queue[j] = "webhooks" /\ jobType[j] = "webhook.deliver"

\* As long as a replica is alive every queued webhook.deliver job of the
\* "webhooks" queue is completed or given up on, whatever other jobs, of any
\* queue and type, retries and faults come in between; the only way out is a
\* fault that loses the worker, or the statement, that would have settled it.
SettlesUnlessStranded ==
    \A j \in JobIds : Awaited(j) ~>
        \/ status[j] \in Settled \cup {"reaped"}
        \/ Stranded(j) /\ faults > 0
        \/ alive = {}

\* The queue its users see: the workers that have a job's record run it.
Queue == INSTANCE AbstractQueue WITH
    Jobs <- JobIds,
    Runners <- Workers,
    phase <- status,
    runs <- attempts,
    limit <- max,
    runner <- [j \in JobIds |-> {w \in Workers : holding[w] = j}]

\* Rows, row locks, backoff and the stale record of a worker implement the queue
\* of AbstractQueue: a job is started by one free worker at a time and never
\* beyond its limit, ended only by the worker that runs it, put back only with
\* an attempt left, and not touched once it is settled, except by the reaper.
RefinesQueue == Queue!Spec
=============================================================================
