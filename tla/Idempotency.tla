---------------------------- MODULE Idempotency ----------------------------
(***************************************************************************)
(* The idempotency guard of src/middleware/idempotency.rs: requests that   *)
(* carry the same Idempotency-Key to the same route, the row of            *)
(* idempotency_keys they compete for, and the handler behind the guard.    *)
(*                                                                         *)
(* A request is known by its caller and its body.  Its scope, the hash the *)
(* rows are keyed by, sees the session of a bearer token and nothing of    *)
(* other callers, and the body only after from_utf8_lossy.                 *)
(***************************************************************************)
EXTENDS Integers, FiniteSets

CONSTANTS
    Requests,        \* requests with one Idempotency-Key; each is sent once
    None,            \* no request, no answer
    Caller,          \* [Requests -> callers]
    Body,            \* [Requests -> request bodies]
    SessionCallers,  \* the callers that present an access token
    TextBodies,      \* the bodies that are valid UTF-8 without U+FFFD
    SchemaColumns,   \* the columns idempotency_keys has
    MaxFaults        \* bound: failed statements and dropped requests

ASSUME IdemNoneAssumption == None \notin Requests
ASSUME IdemFaultsAssumption == MaxFaults \in Nat
ASSUME IdemScopeAssumption ==   \* a session's identity is "user:session"
    "anonymous" \notin SessionCallers /\ "replacement" \notin TextBodies

VARIABLES
    keys,       \* [Scopes -> row of idempotency_keys]
    pc,         \* [Requests -> the step a request takes next]
    outcome,    \* [Requests -> what its handler answered]
    from,       \* [Requests -> the request whose answer it was given]
    faults,     \* failed statements and dropped requests so far
    started,    \* history: requests that were passed on to the handler
    disturbed   \* history: scopes whose row was released, expired or missed

history == <<started, disturbed>>
vars == <<keys, pc, outcome, from, faults, history>>

\* Callers without an access token share one identity.
Identity(c) == IF c \in SessionCallers THEN c ELSE "anonymous"

\* Invalid bytes become U+FFFD: bodies that have either may be the same text.
Digest(b) == IF b \in TextBodies THEN b ELSE "replacement"

Scope(r) == <<Identity(Caller[r]), Digest(Body[r])>>
Scopes == {Scope(r) : r \in Requests}

\* The columns the statements of the guard name.
GuardColumns == {"scope_hash", "expires_at", "status_code", "content_type",
                 "response_body", "completed_at"}

\* A statement that names a column the table does not have is an error.
StoreWorks == GuardColumns \subseteq SchemaColumns

NoKey == [state |-> "absent", answer |-> None, expired |-> FALSE]
InFlight == [state |-> "inflight", answer |-> None, expired |-> FALSE]

Labels == {"claim", "lookup", "run", "bare", "settle", "done"}
Outcomes == {"none", "settled", "unsettled"}

TypeOK ==
    /\ keys \in [Scopes -> [state : {"absent", "inflight", "stored"},
                            answer : Requests \cup {None}, expired : BOOLEAN]]
    /\ \A k \in Scopes : (keys[k].state = "stored") <=> (keys[k].answer # None)
    /\ pc \in [Requests -> Labels]
    /\ outcome \in [Requests -> Outcomes]
    /\ from \in [Requests -> Requests \cup {None}]
    /\ faults \in 0..MaxFaults
    /\ started \in SUBSET Requests
    /\ disturbed \in SUBSET Scopes

Init ==
    /\ keys = [k \in Scopes |-> NoKey]
    /\ pc = [r \in Requests |-> "claim"]
    /\ outcome = [r \in Requests |-> "none"]
    /\ from = [r \in Requests |-> None]
    /\ faults = 0
    /\ started = {} /\ disturbed = {}

-----------------------------------------------------------------------------
Goto(r, label) == pc' = [pc EXCEPT ![r] = label]

\* next.run: from here on the handler has had the request.
Run(r, label) == Goto(r, label) /\ started' = started \cup {r}

Row(r) == keys[Scope(r)]
SetRow(r, new) == keys' = [keys EXCEPT ![Scope(r)] = new]

Disturb(r) == disturbed' = disturbed \cup {Scope(r)}

Fault == faults < MaxFaults /\ faults' = faults + 1

\* Mutant of Claimable: a row that has no response yet does not count.
ClaimableInFlight(row) == row.state \in {"absent", "inflight"} \/ row.expired

\* The INSERT finds no row once the DELETE has removed an expired one.
Claimable(row) == row.state = "absent" \/ row.expired

\* claim_key, the INSERT wins: the request runs.
ClaimInsert(r) ==
    /\ pc[r] = "claim" /\ StoreWorks
    /\ Claimable(Row(r))
    /\ SetRow(r, InFlight)
    /\ Run(r, "run")
    /\ UNCHANGED <<outcome, from, faults, disturbed>>

\* claim_key, the INSERT does nothing.
ClaimConflict(r) ==
    /\ pc[r] = "claim" /\ StoreWorks
    /\ ~Claimable(Row(r))
    /\ Goto(r, "lookup")
    /\ UNCHANGED <<keys, outcome, from, faults, history>>

\* claim_key, the SELECT: replay, conflict, or a row that is gone meanwhile.
ClaimLookup(r) ==
    /\ pc[r] = "lookup"
    /\ \/ Row(r).state = "absent" /\ Run(r, "run")
       \/ Row(r).state # "absent" /\ Goto(r, "done") /\ UNCHANGED started
    /\ from' = [from EXCEPT ![r] = Row(r).answer]
    /\ UNCHANGED <<keys, outcome, faults, disturbed>>

\* The COMMIT of an INSERT that wins, whether or not the request hears of it.
ClaimTakesEffect(r) ==
    pc[r] = "claim" /\ StoreWorks /\ Claimable(Row(r)) /\ SetRow(r, InFlight)

\* claim_key returns Err, perhaps for a COMMIT that took effect: the request
\* runs without replay protection.
ClaimFails(r) ==
    /\ pc[r] \in {"claim", "lookup"}
    /\ IF StoreWorks THEN Fault ELSE UNCHANGED faults
    /\ Run(r, "bare")
    /\ Disturb(r)
    /\ UNCHANGED keys \/ ClaimTakesEffect(r)
    /\ UNCHANGED <<outcome, from>>

\* The handler answers: settled with 2xx or 4xx; unsettled is a 5xx, or a body
\* of more than MAX_CACHED_BODY bytes, for which the client is sent a 500.
HandlerAnswers(r, o) ==
    /\ pc[r] \in {"run", "bare"}
    /\ outcome' = [outcome EXCEPT ![r] = o]
    /\ from' = [from EXCEPT ![r] = r]
    /\ Goto(r, IF pc[r] = "run" THEN "settle" ELSE "done")
    /\ UNCHANGED <<keys, faults, history>>

\* Mutant of Stores: a 5xx answer is stored as well.
StoresAnyStatus(o) == TRUE

\* Only settled outcomes are stored; the others release the key.
Stores(o) == o = "settled"

\* Mutant of Completed: the body is not written.
CompletedWithoutBody(row, r) == [row EXCEPT !.state = "stored"]

\* The row complete_key leaves.
Completed(row, r) == [row EXCEPT !.state = "stored", !.answer = r]

\* complete_key, if the row is still there.
CompleteKey(r) ==
    /\ pc[r] = "settle" /\ Stores(outcome[r])
    /\ IF Row(r).state = "absent" THEN UNCHANGED keys
       ELSE SetRow(r, Completed(Row(r), r))
    /\ UNCHANGED disturbed

\* release_key, whoever's row it is.
ReleaseKey(r) ==
    /\ pc[r] = "settle" /\ ~Stores(outcome[r])
    /\ SetRow(r, NoKey)
    /\ Disturb(r)

\* The row is completed or released, and the answer sent.
Settle(r) ==
    /\ CompleteKey(r) \/ ReleaseKey(r)
    /\ Goto(r, "done")
    /\ UNCHANGED <<outcome, from, faults, started>>

\* complete_key or release_key fails, perhaps after it took effect: logged, and
\* the answer is sent anyway.
SettleFails(r) ==
    /\ pc[r] = "settle"
    /\ Fault
    /\ \/ UNCHANGED <<keys, disturbed>>
       \/ CompleteKey(r) \/ ReleaseKey(r)
    /\ Goto(r, "done")
    /\ UNCHANGED <<outcome, from, started>>

\* The timeout layer drops the request, or the replica stops, perhaps while a
\* statement is taking effect.  The row stays: nothing completes or releases it.
RequestDropped(r) ==
    /\ pc[r] # "done"
    /\ Fault
    /\ \/ UNCHANGED <<keys, disturbed>>
       \/ ClaimTakesEffect(r) /\ UNCHANGED disturbed
       \/ CompleteKey(r) \/ ReleaseKey(r)
    /\ Goto(r, "done")
    /\ UNCHANGED <<outcome, from, started>>

\* The TTL (a day by default) runs out, long after the request timeout.
KeyExpires(k) ==
    /\ keys[k].state # "absent" /\ ~keys[k].expired
    /\ \A r \in Requests : Scope(r) = k => pc[r] \notin {"lookup", "run", "settle"}
    /\ keys' = [keys EXCEPT ![k].expired = TRUE]
    /\ disturbed' = disturbed \cup {k}
    /\ UNCHANGED <<pc, outcome, from, faults, started>>

\* Mutant of Reapable: the cleanup keeps rows without a response.
ReapableStored(row) == row.state = "stored" /\ row.expired

\* The hourly DELETE ... WHERE expires_at <= now().
Reapable(row) == row.expired

Cleanup(k) ==
    /\ Reapable(keys[k])
    /\ keys' = [keys EXCEPT ![k] = NoKey]
    /\ UNCHANGED <<pc, outcome, from, faults, history>>

-----------------------------------------------------------------------------
Proceed(r) ==
    \/ ClaimInsert(r)
    \/ ClaimConflict(r)
    \/ ClaimLookup(r)
    \/ \E o \in {"settled", "unsettled"} : HandlerAnswers(r, o)
    \/ Settle(r)

Next ==
    \/ \E r \in Requests : Proceed(r)
    \/ \E r \in Requests : ClaimFails(r)
    \/ \E r \in Requests : SettleFails(r)
    \/ \E r \in Requests : RequestDropped(r)
    \/ \E k \in Scopes : KeyExpires(k)
    \/ \E k \in Scopes : Cleanup(k)

Spec == Init /\ [][Next]_vars

\* A request that has claimed its key goes on, time passes, the cleanup runs.
Fairness ==
    /\ \A r \in Requests : WF_vars(pc[r] # "claim" /\ Proceed(r))
    /\ \A k \in Scopes : WF_vars(KeyExpires(k)) /\ WF_vars(Cleanup(k))

FairSpec == Spec /\ Fairness

-----------------------------------------------------------------------------
\* As long as the row is neither released nor expired and every claim of it is
\* answered, one request of a scope at most is passed on to the handler: a
\* request that was dropped, or whose answer could not be stored, still has the
\* row, and a retry is told of a conflict instead of running again.
HandlerRunsOnce ==
    \A r, q \in started : (Scope(r) = Scope(q) /\ Scope(r) \notin disturbed) => r = q

\* No caller is mixed up with another, unless both come without an access token.
SameCaller(r, q) ==
    Caller[r] = Caller[q] \/ {Caller[r], Caller[q]} \cap SessionCallers = {}

\* No body is mixed up with another, unless both have bytes that are no text.
SameBody(r, q) == Body[r] = Body[q] \/ {Body[r], Body[q]} \cap TextBodies = {}

\* A replayed answer was settled: a transient failure is never repeated from the
\* store.  It answered the same request as far as the guard can tell requests
\* apart, and as long as nothing happens to the row every answer that requests of
\* the scope are given, the first included, is that one.
ReplaysOnlySettled ==
    \A r \in Requests : from[r] \notin {r, None} =>
        /\ outcome[from[r]] = "settled"
        /\ SameCaller(r, from[r]) /\ SameBody(r, from[r])
        /\ \A q \in Requests :
             (Scope(q) = Scope(r) /\ Scope(r) \notin disturbed) => from[q] \in {from[r], None}

\* A key does not stay in flight for ever, even if its request was dropped.
InFlightEnds ==
    \A k \in Scopes : []<>(keys[k].state # "inflight")

\* What claim_key says of itself: of two duplicates one loses the race, rather
\* than both executing.
OneAtATime ==
    \A r, q \in Requests :
        (/\ pc[r] \in {"run", "bare"} /\ pc[q] \in {"run", "bare"}
         /\ Scope(r) = Scope(q)) => r = q
=============================================================================
