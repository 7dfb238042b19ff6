-------------------------- MODULE WebhookDelivery --------------------------
(***************************************************************************)
(* Outbound webhooks: the registrations and the event dispatch of          *)
(* src/services/webhook.rs, and the worker loop of src/main.rs that takes  *)
(* their jobs off the queue of JobQueue, POSTs them and settles them.      *)
(* The job of a delivery has the delivery's id: the job payload names it.  *)
(***************************************************************************)
EXTENDS JobQueue

CONSTANTS
    Webhooks,     \* webhook registrations
    Dispatchers,  \* concurrent callers of dispatch_event
    Events,       \* events: records [app, org, type]
    Scope         \* [Webhooks -> [app, org, events]], None for SQL NULL

VARIABLES
    hook,         \* [Webhooks -> {"unused", "active", "deleted"}]
    delivery,     \* status column of webhook_deliveries, [JobIds -> ...]
    target,       \* webhook_id of the delivery
    tries,        \* attempts column of webhook_deliveries
    todo,         \* the matching webhooks a dispatcher has still to serve
    inserted,     \* the delivery a dispatcher has inserted and not yet enqueued
    step,         \* where a worker is in its loop
    posts,        \* POSTs sent for a delivery (history)
    accepted,     \* POSTs the receiver processed (history)
    unheard       \* deliveries whose last logged outcome the worker took for a
                  \* failed UPDATE: the answer was lost (history)

hookVars == <<hook, delivery, target, tries>>
dispatchVars == <<todo, inserted>>
history == <<posts, accepted, unheard>>
queueVars == vars
allVars == <<vars, hookVars, dispatchVars, step, history>>

DeliveryStatus == {"unused", "pending", "delivered", "failed", "gone"}
Steps == {"poll", "post", "record2xx", "recordOther", "complete", "fail"}

DeliveryTypeOK ==
    /\ TypeOK
    /\ hook \in [Webhooks -> {"unused", "active", "deleted"}]
    /\ delivery \in [JobIds -> DeliveryStatus]
    /\ target \in [JobIds -> Webhooks \cup {None}]
    /\ tries \in [JobIds -> Nat]
    /\ todo \in [Dispatchers -> SUBSET Webhooks]
    /\ inserted \in [Dispatchers -> JobIds \cup {None}]
    /\ step \in [Workers -> Steps]
    /\ posts \in [JobIds -> Nat]
    /\ accepted \in [JobIds -> Nat]
    /\ unheard \in SUBSET JobIds

DeliveryInit ==
    /\ Init
    /\ hook = [h \in Webhooks |-> "unused"]
    /\ delivery = [d \in JobIds |-> "unused"]
    /\ target = [d \in JobIds |-> None]
    /\ tries = [d \in JobIds |-> 0]
    /\ todo = [p \in Dispatchers |-> {}]
    /\ inserted = [p \in Dispatchers |-> None]
    /\ step = [w \in Workers |-> "poll"]
    /\ posts = [d \in JobIds |-> 0]
    /\ accepted = [d \in JobIds |-> 0]
    /\ unheard = {}

-----------------------------------------------------------------------------
\* create_webhook
CreateWebhook(h) ==
    /\ hook[h] = "unused"
    /\ hook' = [hook EXCEPT ![h] = "active"]
    /\ UNCHANGED <<queueVars, delivery, target, tries, dispatchVars, step, history>>

\* delete_webhook: the rows of webhook_deliveries go with it (ON DELETE
\* CASCADE), the queued jobs do not.
DeleteWebhook(h) ==
    /\ hook[h] = "active"
    /\ hook' = [hook EXCEPT ![h] = "deleted"]
    /\ delivery' = [d \in JobIds |-> IF target[d] = h THEN "gone" ELSE delivery[d]]
    /\ UNCHANGED <<queueVars, target, tries, dispatchVars, step, history>>

\* The WHERE clause of dispatch_event.
Matches(h, e) ==
    /\ hook[h] = "active"
    /\ IF e.app = None THEN Scope[h].app = None ELSE Scope[h].app = e.app
    /\ e.org = None \/ Scope[h].org = None \/ Scope[h].org = e.org
    /\ "*" \in Scope[h].events \/ e.type \in Scope[h].events

DispatchIdle(p) == todo[p] = {} /\ inserted[p] = None

\* dispatch_event, the SELECT of the matching webhooks.
DispatchSelect(p, e) ==
    /\ DispatchIdle(p)
    /\ todo' = [todo EXCEPT ![p] = {h \in Webhooks : Matches(h, e)}]
    /\ UNCHANGED <<queueVars, hookVars, inserted, step, history>>

\* dispatch_event, the INSERT of the outbox row.  The foreign key refuses a
\* webhook deleted since the SELECT, and the error ends the whole dispatch.
InsertDelivery(p, h, d) ==
    /\ inserted[p] = None
    /\ h \in todo[p]
    /\ delivery[d] = "unused"
    /\ IF hook[h] = "active"
       THEN /\ delivery' = [delivery EXCEPT ![d] = "pending"]
            /\ target' = [target EXCEPT ![d] = h]
            /\ inserted' = [inserted EXCEPT ![p] = d]
            /\ todo' = [todo EXCEPT ![p] = todo[p] \ {h}]
       ELSE /\ todo' = [todo EXCEPT ![p] = {}]
            /\ UNCHANGED <<delivery, target, inserted>>
    /\ UNCHANGED <<queueVars, hook, tries, step, history>>

\* dispatch_event, the call of JobQueueService::enqueue (run_at NOW()).
EnqueueDelivery(p) ==
    /\ inserted[p] # None
    /\ Enqueue(inserted[p], "webhooks", "webhook.deliver", 0, MaxAttempts)
    /\ inserted' = [inserted EXCEPT ![p] = None]
    /\ UNCHANGED <<hookVars, todo, step, history>>

\* A statement of dispatch_event fails, or the replica stops in the middle.
DispatchFails(p) ==
    /\ ~DispatchIdle(p)
    /\ faults < MaxFaults
    /\ faults' = faults + 1
    /\ todo' = [todo EXCEPT ![p] = {}]
    /\ inserted' = [inserted EXCEPT ![p] = None]
    /\ UNCHANGED <<rows, rowLock, workerVars, hookVars, step, history>>

-----------------------------------------------------------------------------
\* poll_next_job of the "webhooks" queue.
WorkerSelects(w) ==
    /\ PollSelect(w)
    /\ UNCHANGED <<hookVars, dispatchVars, step, history>>

WorkerClaims(w) ==
    /\ PollCommit(w)
    /\ step' = [step EXCEPT ![w] = "post"]
    /\ UNCHANGED <<hookVars, dispatchVars, history>>

\* execute_delivery, the POST, to the URL in the job's payload: a 2xx, another
\* status, or no answer within 10 seconds, which the receiver may have processed.
Replies == {"2xx", "refused", "lost", "unanswered"}

ExecutePost(w, reply) ==
    /\ step[w] = "post"
    /\ LET d == holding[w] IN
        /\ posts' = [posts EXCEPT ![d] = @ + 1]
        /\ accepted' = IF reply \in {"2xx", "unanswered"}
                       THEN [accepted EXCEPT ![d] = @ + 1]
                       ELSE accepted
    /\ step' = [step EXCEPT ![w] = IF reply = "2xx" THEN "record2xx" ELSE "recordOther"]
    /\ UNCHANGED <<queueVars, hookVars, dispatchVars, unheard>>

\* Mutants of Verdict: the status of the answer is ignored, or a success fails.
VerdictAlwaysComplete(s) == "complete"
VerdictAlwaysFail(s) == "fail"

\* The outcome the worker acts on, and the one it logs.
Verdict(s) == IF s = "record2xx" THEN "complete" ELSE "fail"

\* The status column execute_delivery writes.
RecordedStatus(s) == IF s = "record2xx" THEN "delivered" ELSE "failed"

\* execute_delivery, the UPDATE of the delivery row, if there still is one.
LogOutcome(w) ==
    LET d == holding[w] IN
    IF delivery[d] = "gone"
    THEN UNCHANGED <<delivery, tries>>
    ELSE /\ delivery' = [delivery EXCEPT ![d] = RecordedStatus(step[w])]
         /\ tries' = [tries EXCEPT ![d] = @ + 1]

RecordOutcome(w) ==
    /\ step[w] \in {"record2xx", "recordOther"}
    /\ LogOutcome(w)
    /\ step' = [step EXCEPT ![w] = Verdict(step[w])]
    /\ unheard' = unheard \ {holding[w]}
    /\ UNCHANGED <<queueVars, hook, target, dispatchVars, posts, accepted>>

\* The UPDATE returns an error, having taken effect or not: execute_delivery
\* returns Err and the job is retried.
RecordFails(w) ==
    /\ step[w] \in {"record2xx", "recordOther"}
    /\ faults < MaxFaults
    /\ faults' = faults + 1
    /\ \/ UNCHANGED <<delivery, tries, unheard>>
       \/ LogOutcome(w) /\ unheard' = unheard \cup {holding[w]}
    /\ step' = [step EXCEPT ![w] = "fail"]
    /\ UNCHANGED <<rows, rowLock, workerVars, hook, target, dispatchVars, posts, accepted>>

\* poll_next_job returns Err; the loop sleeps and polls again.
WorkerPollFails(w) ==
    /\ PollAborts(w)
    /\ UNCHANGED <<hookVars, dispatchVars, step, history>>

WorkerCompletes(w) ==
    /\ step[w] = "complete"
    /\ CompleteJob(w)
    /\ step' = [step EXCEPT ![w] = "poll"]
    /\ UNCHANGED <<hookVars, dispatchVars, history>>

WorkerFails(w) ==
    /\ step[w] = "fail"
    /\ FailJob(w)
    /\ step' = [step EXCEPT ![w] = "poll"]
    /\ UNCHANGED <<hookVars, dispatchVars, history>>

\* The error of complete_job or fail_job is discarded, or the COMMIT of the poll
\* took effect and its answer was lost.
WorkerDrops(w) ==
    /\ step[w] \in {"post", "complete", "fail"}
    /\ DropJob(w)
    /\ step' = [step EXCEPT ![w] = "poll"]
    /\ UNCHANGED <<hookVars, dispatchVars, history>>

WorkerCrashes(w) ==
    /\ Crash(w)
    /\ step' = [step EXCEPT ![w] = "poll"]
    /\ UNCHANGED <<hookVars, dispatchVars, history>>

\* The hourly cleanup, and the clock.
Housekeeping ==
    /\ ReapOldJobs \/ Tick
    /\ UNCHANGED <<hookVars, dispatchVars, step, history>>

DispatchNext(p) ==
    \/ \E e \in Events : DispatchSelect(p, e)
    \/ \E h \in Webhooks, d \in JobIds : InsertDelivery(p, h, d)
    \/ EnqueueDelivery(p)
    \/ DispatchFails(p)

WorkerStep(w) ==
    \/ WorkerSelects(w)
    \/ WorkerClaims(w)
    \/ \E reply \in Replies : ExecutePost(w, reply)
    \/ RecordOutcome(w)
    \/ WorkerCompletes(w)
    \/ WorkerFails(w)

WorkerFault(w) ==
    \/ WorkerPollFails(w)
    \/ RecordFails(w)
    \/ WorkerDrops(w)
    \/ WorkerCrashes(w)

DeliveryNext ==
    \/ \E h \in Webhooks : CreateWebhook(h)
    \/ \E h \in Webhooks : DeleteWebhook(h)
    \/ \E p \in Dispatchers : DispatchNext(p)
    \/ \E w \in Workers : WorkerStep(w)
    \/ \E w \in Workers : WorkerFault(w)
    \/ Housekeeping

DeliverySpec == DeliveryInit /\ [][DeliveryNext]_allVars

\* The worker loop runs on, a dispatch under way goes on, the clock ticks.
\* Webhook owners, callers of dispatch_event, the reaper and faults owe nothing.
DeliveryFairness ==
    /\ WF_allVars(Tick /\ UNCHANGED <<hookVars, dispatchVars, step, history>>)
    /\ \A p \in Dispatchers : WF_allVars(EnqueueDelivery(p))
    /\ \A w \in Workers : WF_allVars(WorkerStep(w))

DeliveryFairSpec == DeliverySpec /\ DeliveryFairness

-----------------------------------------------------------------------------
\* The delivery log counts no attempt that was not a POST, and each claim of
\* the job makes at most one POST: a receiver is never called more often than
\* max_attempts, whatever crashes or statements fail in between.
PostsWithinLimit ==
    \A d \in JobIds :
        /\ tries[d] <= posts[d]
        /\ posts[d] <= attempts[d]
        /\ Present(d) => attempts[d] <= max[d]

\* The verdict on a job is true of the receiver: completed means that it accepted
\* the delivery, failed that max_attempts POSTs went out, although POST, log and
\* queue are three steps that crash separately.
VerdictIsTrue ==
    \A d \in JobIds :
        /\ status[d] = "completed" => accepted[d] > 0
        /\ status[d] = "failed" => posts[d] = max[d]

DeliveredRowsStay ==
    \A d \in JobIds : (delivery[d] = "delivered" /\ d \notin unheard) =>
        /\ delivery'[d] \in {"delivered", "gone"}
        /\ posts'[d] = posts[d]

\* Once a delivery is logged as delivered it is never POSTed again and never
\* logged as failed, through crashes, failed statements and other workers; only
\* deleting the webhook removes the row.  The one exception is the delivery
\* whose UPDATE took effect while execute_delivery was told it had failed.
RecordedDeliveryIsFinal == [][DeliveredRowsStay]_allVars

\* An outbox row whose dispatch is over and that has no job.
Orphaned(d) == status[d] = "unused" /\ \A p \in Dispatchers : inserted[p] # d

\* Up to one fault an outbox row does not stay pending: it is delivered, given
\* up on or removed with its webhook, unless the fault struck between the two
\* INSERTs of dispatch_event or took away the worker that had the job.
PendingIsResolved ==
    \A d \in JobIds : delivery[d] = "pending" ~>
        \/ delivery[d] # "pending"
        \/ Orphaned(d)
        \/ Stranded(d)
        \/ faults > 1
=============================================================================
