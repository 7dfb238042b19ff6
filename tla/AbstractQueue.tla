--------------------------- MODULE AbstractQueue ---------------------------
(***************************************************************************)
(* What a user of services/job_queue.rs may rely on, without rows, locks,  *)
(* clocks or transactions: a job waits, is run by one worker at a time at  *)
(* most `limit` times, and is settled once.  A run may be lost with its    *)
(* worker, and then the job is nobody's.                                   *)
(***************************************************************************)
EXTENDS Naturals

CONSTANTS Jobs, Runners

VARIABLES
    phase,    \* [Jobs -> Phases]
    runs,     \* [Jobs -> how often it was started]
    limit,    \* [Jobs -> how often it may be started]
    runner    \* [Jobs -> the workers that run it]

queueVars == <<phase, runs, limit, runner>>

Phases == {"unused", "queued", "running", "completed", "failed", "reaped"}

Init ==
    /\ phase = [j \in Jobs |-> "unused"]
    /\ runs = [j \in Jobs |-> 0]
    /\ limit = [j \in Jobs |-> 0]
    /\ runner = [j \in Jobs |-> {}]

\* Whoever submits a job says how often it may be started.
Submit(j) ==
    /\ phase[j] = "unused"
    /\ phase' = [phase EXCEPT ![j] = "queued"]
    /\ limit'[j] \in Nat
    /\ limit' = [limit EXCEPT ![j] = limit'[j]]
    /\ UNCHANGED <<runs, runner>>

\* A free worker starts a job that nobody runs and that has a run left.
Start(j, w) ==
    /\ phase[j] = "queued"
    /\ runs[j] < limit[j]
    /\ runner[j] = {}
    /\ \A k \in Jobs : w \notin runner[k]
    /\ phase' = [phase EXCEPT ![j] = "running"]
    /\ runs' = [runs EXCEPT ![j] = runs[j] + 1]
    /\ runner' = [runner EXCEPT ![j] = {w}]
    /\ UNCHANGED limit

\* Its one worker ends the run.  Only a job with a run left waits again.
Finish(j, w, p) ==
    /\ phase[j] = "running"
    /\ runner[j] = {w}
    /\ p = "queued" => runs[j] < limit[j]
    /\ phase' = [phase EXCEPT ![j] = p]
    /\ runner' = [runner EXCEPT ![j] = {}]
    /\ UNCHANGED <<runs, limit>>

\* The worker, or the news of how the run ended, is lost.
Lose(j, w) ==
    /\ runner[j] = {w}
    /\ runner' = [runner EXCEPT ![j] = {}]
    /\ UNCHANGED <<phase, runs, limit>>

\* Settled jobs are forgotten.
Forget(S) ==
    /\ \A j \in S : phase[j] \in {"completed", "failed"}
    /\ phase' = [j \in Jobs |-> IF j \in S THEN "reaped" ELSE phase[j]]
    /\ UNCHANGED <<runs, limit, runner>>

Next ==
    \/ \E j \in Jobs : Submit(j)
    \/ \E j \in Jobs, w \in Runners : Start(j, w)
    \/ \E j \in Jobs, w \in Runners, p \in {"queued", "completed", "failed"} : Finish(j, w, p)
    \/ \E j \in Jobs, w \in Runners : Lose(j, w)
    \/ \E S \in SUBSET Jobs : Forget(S)

Spec == Init /\ [][Next]_queueVars
=============================================================================
