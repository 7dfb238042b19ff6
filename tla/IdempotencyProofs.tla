-------------------------- MODULE IdempotencyProofs --------------------------
(***************************************************************************)
(* The guard passes one request of an undisturbed scope on to the handler, *)
(* and replays only settled answers, for any number of requests, callers,  *)
(* bodies and faults, and whether or not the table has the columns that    *)
(* the statements name.                                                    *)
(***************************************************************************)
EXTENDS Idempotency, TLAPS

USE DEF history

\* Only a key whose expiry was noted can be taken over or cleaned up.
ExpiredIsDisturbed == \A k \in Scopes : keys[k].expired => k \in disturbed

\* A request that ran, or that was told of somebody else's row, left or saw a row
\* that is still there: a later INSERT cannot win, and the SELECT finds it.
RowOutlivesRequest ==
    \A r \in Requests :
        ((r \in started \/ pc[r] = "lookup") /\ Scope(r) \notin disturbed) =>
            Row(r).state # "absent"

\* A request that is about to settle, has an outcome or an answer of its own was
\* passed on to the handler.
Busy == {"run", "bare", "settle"}

StartedBefore ==
    \A r \in Requests :
        (pc[r] \in Busy \/ outcome[r] # "none" \/ from[r] = r) => r \in started

\* What the guard may hand out as the answer of request q to scope k: q has
\* that scope, and its settled outcome does not change any more.
Replayable(q, k) == Scope(q) = k /\ outcome[q] = "settled" /\ pc[q] = "done"

StoredIsReplayable ==
    \A k \in Scopes : keys[k].answer # None => Replayable(keys[k].answer, k)

GivenIsReplayable ==
    \A r \in Requests : from[r] \notin {r, None} => Replayable(from[r], Scope(r))

IInv ==
    /\ TypeOK
    /\ ExpiredIsDisturbed
    /\ RowOutlivesRequest
    /\ StartedBefore
    /\ HandlerRunsOnce
    /\ StoredIsReplayable
    /\ GivenIsReplayable

-----------------------------------------------------------------------------
KeyRow == [state : {"absent", "inflight", "stored"},
           answer : Requests \cup {None}, expired : BOOLEAN]

\* The row of a request is one of the table's.
LEMMA RowType ==
    ASSUME TypeOK, NEW r \in Requests
    PROVE  Scope(r) \in Scopes /\ Row(r) = keys[Scope(r)] /\ Row(r) \in KeyRow
  BY DEF TypeOK, Scopes, Row, KeyRow

\* The rows the guard writes are rows.
LEMMA WrittenRows ==
    ASSUME TypeOK, NEW r \in Requests
    PROVE  /\ NoKey \in KeyRow /\ InFlight \in KeyRow
           /\ Completed(Row(r), r) \in KeyRow
           /\ Completed(Row(r), r).state = "stored"
           /\ Completed(Row(r), r).answer = r
           /\ Completed(Row(r), r).expired = Row(r).expired
           /\ NoKey.state = "absent" /\ NoKey.answer = None /\ ~NoKey.expired
           /\ InFlight.state = "inflight" /\ InFlight.answer = None /\ ~InFlight.expired
<1>1. Row(r) \in KeyRow
  BY RowType
<1> QED
  BY <1>1 DEF NoKey, InFlight, Completed, KeyRow

\* The initial state.
LEMMA InitIInv == Init => IInv
<1> SUFFICES ASSUME Init
             PROVE  IInv
  OBVIOUS
<1>1. TypeOK
  BY IdemFaultsAssumption DEF Init, TypeOK, NoKey, Labels, Outcomes
<1>2. ExpiredIsDisturbed /\ StoredIsReplayable /\ GivenIsReplayable
  BY DEF Init, ExpiredIsDisturbed, StoredIsReplayable, GivenIsReplayable, NoKey
<1>3. RowOutlivesRequest /\ StartedBefore /\ HandlerRunsOnce
  BY IdemNoneAssumption
  DEF Init, RowOutlivesRequest, StartedBefore, Busy, HandlerRunsOnce
<1> QED
  BY <1>1, <1>2, <1>3 DEF IInv

-----------------------------------------------------------------------------
\* claim_key, the INSERT: in an undisturbed scope it wins only when there is no
\* row, so nobody ran before.
LEMMA ClaimInsertStep ==
    ASSUME IInv, NEW r \in Requests, ClaimInsert(r)
    PROVE  IInv'
<1> USE DEF ClaimInsert, SetRow, Run, Goto
<1>1. Scope(r) \in Scopes /\ Row(r) = keys[Scope(r)] /\ Row(r) \in KeyRow
  BY RowType DEF IInv
<1>2. InFlight \in KeyRow /\ InFlight.state = "inflight" /\ InFlight.answer = None
      /\ ~InFlight.expired
  BY WrittenRows DEF IInv
<1>3. TypeOK'
  BY <1>1, <1>2 DEF IInv, TypeOK, Labels, KeyRow
<1>4. ExpiredIsDisturbed'
  BY <1>1, <1>2 DEF IInv, TypeOK, ExpiredIsDisturbed
<1>5. \A q \in Requests : keys'[Scope(q)] = keys[Scope(q)] \/ keys'[Scope(q)] = InFlight
  BY <1>1, RowType DEF IInv, TypeOK
<1>6. RowOutlivesRequest'
  BY <1>1, <1>2, <1>5 DEF IInv, TypeOK, RowOutlivesRequest, Row, Scopes
<1>10. StartedBefore'
  BY DEF IInv, TypeOK, StartedBefore, Busy
<1>7. HandlerRunsOnce'
  <2>1. Scope(r) \notin disturbed => Row(r).state = "absent"
    BY <1>1 DEF IInv, ExpiredIsDisturbed, Claimable
  <2>2. \A q \in started : Scope(r) \notin disturbed => Scope(q) # Scope(r)
    BY <2>1 DEF IInv, TypeOK, RowOutlivesRequest, Row
  <2> QED
    BY <2>2 DEF IInv, HandlerRunsOnce, Scope
<1>8. StoredIsReplayable'
  BY <1>1, <1>2 DEF IInv, TypeOK, StoredIsReplayable, Replayable
<1>9. GivenIsReplayable'
  BY DEF IInv, TypeOK, GivenIsReplayable, Replayable
<1> QED
  BY <1>3, <1>4, <1>6, <1>7, <1>8, <1>9, <1>10 DEF IInv

\* claim_key, the INSERT finds a row.
LEMMA ClaimConflictStep ==
    ASSUME IInv, NEW r \in Requests, ClaimConflict(r)
    PROVE  IInv'
<1> USE DEF ClaimConflict, Goto
<1>1. TypeOK'
  BY DEF IInv, TypeOK, Labels
<1>2. ExpiredIsDisturbed'
  BY DEF IInv, ExpiredIsDisturbed
<1>3. RowOutlivesRequest'
  BY DEF IInv, TypeOK, RowOutlivesRequest, Row, Scope, Claimable
<1>4. HandlerRunsOnce' /\ StartedBefore'
  BY DEF IInv, TypeOK, HandlerRunsOnce, StartedBefore, Busy, Scope
<1>5. StoredIsReplayable' /\ GivenIsReplayable'
  BY DEF IInv, TypeOK, StoredIsReplayable, GivenIsReplayable, Replayable, Scope
<1> QED
  BY <1>1, <1>2, <1>3, <1>4, <1>5 DEF IInv

\* claim_key, the SELECT: a row that is gone belongs to a disturbed scope, and the
\* answer of a stored one may be replayed.
LEMMA ClaimLookupStep ==
    ASSUME IInv, NEW r \in Requests, ClaimLookup(r)
    PROVE  IInv'
<1> USE DEF ClaimLookup, Run, Goto
<1>1. Scope(r) \in Scopes /\ Row(r) = keys[Scope(r)] /\ Row(r) \in KeyRow
  BY RowType DEF IInv
<1>2. TypeOK'
  BY <1>1 DEF IInv, TypeOK, Labels, KeyRow
<1>3. ExpiredIsDisturbed'
  BY DEF IInv, ExpiredIsDisturbed
<1>4. Row(r).state = "absent" => Scope(r) \in disturbed
  BY DEF IInv, RowOutlivesRequest
<1>5. \A q \in started' : Scope(q) \notin disturbed => q \in started
  BY <1>4
<1>6. \A q \in Requests : pc'[q] = "lookup" => pc[q] = "lookup"
  BY DEF IInv, TypeOK
<1>7. RowOutlivesRequest'
  BY <1>5, <1>6 DEF IInv, RowOutlivesRequest, Row, Scope
<1>8. HandlerRunsOnce'
  BY <1>5 DEF IInv, HandlerRunsOnce, Scope
<1>11. StartedBefore'
  <2>1. Row(r).answer = r => r \in started
    BY <1>1, IdemNoneAssumption DEF IInv, StoredIsReplayable, Replayable, StartedBefore
  <2> QED
    BY <2>1 DEF IInv, TypeOK, StartedBefore, Busy
<1>9. StoredIsReplayable'
  BY DEF IInv, TypeOK, StoredIsReplayable, Replayable
<1>10. GivenIsReplayable'
  BY <1>1 DEF IInv, TypeOK, StoredIsReplayable, GivenIsReplayable, Replayable
<1> QED
  BY <1>2, <1>3, <1>7, <1>8, <1>9, <1>10, <1>11 DEF IInv

\* claim_key fails, perhaps after its COMMIT took effect: the scope is disturbed.
LEMMA ClaimFailsStep ==
    ASSUME IInv, NEW r \in Requests, ClaimFails(r)
    PROVE  IInv'
<1> USE DEF ClaimFails, Run, Goto, Disturb
<1>1. Scope(r) \in Scopes /\ Row(r) = keys[Scope(r)] /\ Row(r) \in KeyRow
  BY RowType DEF IInv
<1>2. InFlight \in KeyRow /\ InFlight.state = "inflight" /\ InFlight.answer = None
      /\ ~InFlight.expired
  BY WrittenRows DEF IInv
<1>3. keys' = keys \/ keys' = [keys EXCEPT ![Scope(r)] = InFlight]
  BY DEF ClaimTakesEffect, SetRow
<1>4. faults' \in 0..MaxFaults
  BY IdemFaultsAssumption DEF IInv, TypeOK, Fault
<1>5. TypeOK'
  BY <1>1, <1>2, <1>3, <1>4 DEF IInv, TypeOK, Labels, KeyRow
<1>6. ExpiredIsDisturbed'
  BY <1>1, <1>2, <1>3 DEF IInv, TypeOK, ExpiredIsDisturbed
<1>7. \A q \in Requests : Scope(q) \notin disturbed' =>
        q # r /\ Scope(q) # Scope(r) /\ Scope(q) \in Scopes
        /\ (q \in started' <=> q \in started)
        /\ pc'[q] = pc[q] /\ keys'[Scope(q)] = keys[Scope(q)]
  BY <1>3, RowType DEF IInv, TypeOK
<1>8. RowOutlivesRequest' /\ StartedBefore' /\ HandlerRunsOnce'
  <2>1. RowOutlivesRequest'
    BY <1>7 DEF IInv, RowOutlivesRequest, Row, Scope
  <2>2. StartedBefore'
    BY DEF IInv, TypeOK, StartedBefore, Busy
  <2>3. HandlerRunsOnce'
    BY <1>5, <1>7 DEF IInv, TypeOK, HandlerRunsOnce, Scope
  <2> QED
    BY <2>1, <2>2, <2>3
<1>9. StoredIsReplayable' /\ GivenIsReplayable'
  BY <1>1, <1>2, <1>3
  DEF IInv, TypeOK, StoredIsReplayable, GivenIsReplayable, Replayable
<1> QED
  BY <1>5, <1>6, <1>8, <1>9 DEF IInv

\* The handler answers: it has been running since before.
LEMMA HandlerAnswersStep ==
    ASSUME IInv, NEW r \in Requests, NEW o \in {"settled", "unsettled"}, HandlerAnswers(r, o)
    PROVE  IInv'
<1> USE DEF HandlerAnswers, Goto
<1>1. TypeOK'
  BY DEF IInv, TypeOK, Labels, Outcomes
<1>2. ExpiredIsDisturbed'
  BY DEF IInv, ExpiredIsDisturbed
<1>3. StartedBefore'
  BY DEF IInv, TypeOK, StartedBefore, Busy
<1>4. \A q \in Requests : pc'[q] = "lookup" => pc[q] = "lookup"
  BY DEF IInv, TypeOK
<1>5. RowOutlivesRequest' /\ HandlerRunsOnce'
  BY <1>4 DEF IInv, RowOutlivesRequest, HandlerRunsOnce, Row, Scope
<1>6. StoredIsReplayable' /\ GivenIsReplayable'
  BY DEF IInv, TypeOK, StoredIsReplayable, GivenIsReplayable, Replayable
<1> QED
  BY <1>1, <1>2, <1>3, <1>5, <1>6 DEF IInv

\* complete_key: the row of the request's scope, whoever made it, gets the answer.
LEMMA CompleteKeyStep ==
    ASSUME IInv, NEW r \in Requests, CompleteKey(r), pc' = [pc EXCEPT ![r] = "done"],
           faults' \in 0..MaxFaults, UNCHANGED <<outcome, from, started>>
    PROVE  IInv'
<1> USE DEF CompleteKey, SetRow
<1>1. Scope(r) \in Scopes /\ Row(r) = keys[Scope(r)] /\ Row(r) \in KeyRow
  BY RowType DEF IInv
<1> DEFINE C == Completed(Row(r), r)
<1>2. C \in KeyRow /\ C.state = "stored" /\ C.answer = r /\ C.expired = Row(r).expired
  BY WrittenRows DEF IInv
<1>3. keys' = keys \/ keys' = [keys EXCEPT ![Scope(r)] = C]
  OBVIOUS
<1> HIDE DEF C
<1>4. TypeOK'
  BY <1>1, <1>2, <1>3, IdemNoneAssumption DEF IInv, TypeOK, Labels, KeyRow
<1>5. ExpiredIsDisturbed'
  BY <1>1, <1>2, <1>3 DEF IInv, TypeOK, ExpiredIsDisturbed
<1>6. StartedBefore'
  BY DEF IInv, TypeOK, StartedBefore, Busy
<1>7. \A q \in Requests : pc'[q] = "lookup" => pc[q] = "lookup"
  BY DEF IInv, TypeOK
<1>8. \A k \in Scopes : keys[k].state # "absent" => keys'[k].state # "absent"
  BY <1>1, <1>2, <1>3 DEF IInv, TypeOK
<1>9. RowOutlivesRequest' /\ HandlerRunsOnce'
  BY <1>7, <1>8, RowType DEF IInv, RowOutlivesRequest, HandlerRunsOnce, Row, Scope
<1>10. \A q, k : Replayable(q, k) => Replayable(q, k)'
  BY DEF IInv, TypeOK, Replayable, Scope
<1>11. Replayable(r, Scope(r))'
  BY DEF IInv, TypeOK, Replayable, Stores
<1>12. StoredIsReplayable'
  BY <1>1, <1>2, <1>3, <1>10, <1>11 DEF IInv, TypeOK, StoredIsReplayable
<1>13. GivenIsReplayable'
  BY <1>10 DEF IInv, TypeOK, GivenIsReplayable, Scope
<1> QED
  BY <1>4, <1>5, <1>6, <1>9, <1>12, <1>13 DEF IInv

\* release_key: the row is gone, and its scope disturbed.
LEMMA ReleaseKeyStep ==
    ASSUME IInv, NEW r \in Requests, ReleaseKey(r), pc' = [pc EXCEPT ![r] = "done"],
           faults' \in 0..MaxFaults, UNCHANGED <<outcome, from, started>>
    PROVE  IInv'
<1> USE DEF ReleaseKey, SetRow, Disturb
<1>1. Scope(r) \in Scopes
  BY RowType DEF IInv
<1>2. NoKey \in KeyRow /\ NoKey.state = "absent" /\ NoKey.answer = None /\ ~NoKey.expired
  BY WrittenRows DEF IInv
<1>3. TypeOK'
  BY <1>1, <1>2 DEF IInv, TypeOK, Labels, KeyRow
<1>4. ExpiredIsDisturbed'
  BY <1>1, <1>2 DEF IInv, TypeOK, ExpiredIsDisturbed
<1>5. \A q \in Requests : Scope(q) \notin disturbed' =>
        /\ Scope(q) \notin disturbed /\ pc'[q] = pc[q]
        /\ keys'[Scope(q)] = keys[Scope(q)]
  BY RowType DEF IInv, TypeOK
<1>6. RowOutlivesRequest' /\ HandlerRunsOnce' /\ StartedBefore'
  <2>1. RowOutlivesRequest'
    BY <1>5 DEF IInv, RowOutlivesRequest, Row, Scope
  <2>2. HandlerRunsOnce'
    BY <1>3, <1>5 DEF IInv, TypeOK, HandlerRunsOnce, Scope
  <2>3. StartedBefore'
    BY DEF IInv, TypeOK, StartedBefore, Busy
  <2> QED
    BY <2>1, <2>2, <2>3
<1>7. StoredIsReplayable' /\ GivenIsReplayable'
  BY <1>1, <1>2 DEF IInv, TypeOK, StoredIsReplayable, GivenIsReplayable, Replayable
<1> QED
  BY <1>3, <1>4, <1>6, <1>7 DEF IInv

\* A request that ends and leaves the row of its scope, or made it without hearing
\* of it: a failing statement, a dropped request.
LEMMA SilentEnd ==
    ASSUME IInv, NEW r \in Requests, pc[r] # "done", pc' = [pc EXCEPT ![r] = "done"],
           UNCHANGED keys \/ ClaimTakesEffect(r),
           faults' \in 0..MaxFaults, UNCHANGED <<outcome, from, started, disturbed>>
    PROVE  IInv'
<1>1. Scope(r) \in Scopes /\ Row(r) = keys[Scope(r)] /\ Row(r) \in KeyRow
  BY RowType DEF IInv
<1>2. InFlight \in KeyRow /\ InFlight.state = "inflight" /\ InFlight.answer = None
      /\ ~InFlight.expired
  BY WrittenRows DEF IInv
<1>3. keys' = keys \/ keys' = [keys EXCEPT ![Scope(r)] = InFlight]
  BY DEF ClaimTakesEffect, SetRow
<1>4. TypeOK'
  BY <1>1, <1>2, <1>3 DEF IInv, TypeOK, Labels, KeyRow
<1>5. ExpiredIsDisturbed'
  BY <1>1, <1>2, <1>3 DEF IInv, TypeOK, ExpiredIsDisturbed
<1>6. \A q \in Requests : pc'[q] = "lookup" => pc[q] = "lookup"
  BY DEF IInv, TypeOK
<1>7. \A k \in Scopes : keys[k].state # "absent" => keys'[k].state # "absent"
  BY <1>1, <1>2, <1>3 DEF IInv, TypeOK
<1>8. RowOutlivesRequest' /\ HandlerRunsOnce'
  BY <1>6, <1>7, RowType DEF IInv, RowOutlivesRequest, HandlerRunsOnce, Row, Scope
<1>9. StartedBefore'
  BY DEF IInv, TypeOK, StartedBefore, Busy
<1>10. StoredIsReplayable' /\ GivenIsReplayable'
  BY <1>1, <1>2, <1>3
  DEF IInv, TypeOK, StoredIsReplayable, GivenIsReplayable, Replayable
<1> QED
  BY <1>4, <1>5, <1>8, <1>9, <1>10 DEF IInv

\* The TTL runs out, or the cleanup removes a row whose TTL has.
LEMMA RowAges ==
    ASSUME IInv, NEW k \in Scopes, KeyExpires(k) \/ Cleanup(k)
    PROVE  IInv'
<1>1. keys[k] \in KeyRow /\ NoKey \in KeyRow
      /\ NoKey.state = "absent" /\ NoKey.answer = None /\ ~NoKey.expired
  BY DEF IInv, TypeOK, KeyRow, NoKey
<1> DEFINE E == [keys[k] EXCEPT !.expired = TRUE]
<1>2. E \in KeyRow /\ E.state = keys[k].state /\ E.answer = keys[k].answer
  BY <1>1 DEF KeyRow
<1>3. /\ \/ keys' = [keys EXCEPT ![k] = E]
         \/ keys' = [keys EXCEPT ![k] = NoKey]
      /\ disturbed' = disturbed \cup {k}
      /\ UNCHANGED <<pc, outcome, from, faults, started>>
  BY DEF IInv, ExpiredIsDisturbed, KeyExpires, Cleanup, Reapable
<1> HIDE DEF E
<1>4. TypeOK'
  BY <1>1, <1>2, <1>3 DEF IInv, TypeOK, KeyRow
<1>5. ExpiredIsDisturbed'
  BY <1>1, <1>3 DEF IInv, TypeOK, ExpiredIsDisturbed
<1>6. \A q \in Requests : Scope(q) \notin disturbed' =>
        Scope(q) \notin disturbed /\ keys'[Scope(q)] = keys[Scope(q)]
  BY <1>3, RowType DEF IInv, TypeOK
<1>7. RowOutlivesRequest' /\ StartedBefore' /\ HandlerRunsOnce'
  BY <1>3, <1>6 DEF IInv, TypeOK, RowOutlivesRequest, StartedBefore, HandlerRunsOnce, Row, Scope
<1>8. StoredIsReplayable' /\ GivenIsReplayable'
  BY <1>1, <1>2, <1>3
  DEF IInv, TypeOK, StoredIsReplayable, GivenIsReplayable, Replayable
<1> QED
  BY <1>4, <1>5, <1>7, <1>8 DEF IInv

\* Every step of the guard.
LEMMA NextKeepsIInv ==
    ASSUME IInv, [Next]_vars
    PROVE  IInv'
<1>1. ASSUME NEW r \in Requests, Settle(r) \/ SettleFails(r) \/ RequestDropped(r)
      PROVE  IInv'
  <2>1. /\ pc[r] # "done" /\ pc' = [pc EXCEPT ![r] = "done"]
        /\ faults' \in 0..MaxFaults /\ UNCHANGED <<outcome, from, started>>
    BY <1>1, IdemFaultsAssumption
    DEF Settle, SettleFails, RequestDropped, CompleteKey, ReleaseKey, Goto, Fault, IInv, TypeOK
  <2>2. CASE CompleteKey(r)
    BY <2>1, <2>2, CompleteKeyStep
  <2>3. CASE ReleaseKey(r)
    BY <2>1, <2>3, ReleaseKeyStep
  <2>4. CASE (UNCHANGED keys \/ ClaimTakesEffect(r)) /\ UNCHANGED disturbed
    BY <2>1, <2>4, SilentEnd
  <2> QED
    BY <1>1, <2>2, <2>3, <2>4 DEF Settle, SettleFails, RequestDropped
<1>2. ASSUME NEW r \in Requests, Proceed(r)
      PROVE  IInv'
  BY <1>1, <1>2, ClaimInsertStep, ClaimConflictStep, ClaimLookupStep, HandlerAnswersStep
  DEF Proceed
<1>3. CASE UNCHANGED vars
  BY <1>3 DEF vars, IInv, TypeOK, ExpiredIsDisturbed, RowOutlivesRequest, StartedBefore,
              HandlerRunsOnce, StoredIsReplayable, GivenIsReplayable, Replayable, Row, Scope
<1> QED
  BY <1>1, <1>2, <1>3, ClaimFailsStep, RowAges DEF Next

-----------------------------------------------------------------------------
\* The invariant holds throughout every behaviour of the guard.
THEOREM GuardInvariant == Spec => []IInv
  BY InitIInv, NextKeepsIInv, PTL DEF Spec

\* The rows of idempotency_keys and the requests keep their types, and a row has
\* an answer exactly when complete_key stored it.
THEOREM TypeCorrect == Spec => []TypeOK
<1>1. IInv => TypeOK
  BY DEF IInv
<1> QED
  BY <1>1, GuardInvariant, PTL

\* One request of an undisturbed scope at most is passed on to the handler, also
\* when requests are dropped and answers cannot be stored.
THEOREM RunsOnce == Spec => []HandlerRunsOnce
<1>1. IInv => HandlerRunsOnce
  BY DEF IInv
<1> QED
  BY <1>1, GuardInvariant, PTL

\* Requests of one scope are of one caller and carry one body, but for callers
\* without a token and bodies that are no text: what the scope hash separates.
LEMMA ScopeSeparates ==
    ASSUME NEW r \in Requests, NEW q \in Requests, Scope(q) = Scope(r)
    PROVE  SameCaller(r, q) /\ SameBody(r, q)
  BY IdemScopeAssumption DEF Scope, Identity, Digest, SameCaller, SameBody

\* A request that has an answer has that of a request of its scope which was
\* passed on to the handler.
LEMMA AnswersComeFromStarted ==
    ASSUME IInv, NEW q \in Requests, from[q] # None
    PROVE  from[q] \in started /\ Scope(from[q]) = Scope(q)
<1>1. CASE from[q] = q
  BY <1>1 DEF IInv, StartedBefore
<1>2. CASE from[q] # q
  <2>1. from[q] \in Requests /\ Replayable(from[q], Scope(q))
    BY <1>2 DEF IInv, TypeOK, GivenIsReplayable
  <2> QED
    BY <2>1 DEF Replayable, IInv, StartedBefore
<1> QED
  BY <1>1, <1>2

\* A replayed answer was settled; it is the only answer of its scope as long as
\* nothing happens to the row; and it goes from one caller or one body to another
\* only where the scope hash cannot tell them apart.
THEOREM ReplaysSettled == Spec => []ReplaysOnlySettled
<1>1. ASSUME IInv, NEW r \in Requests, from[r] \notin {r, None}
      PROVE  /\ outcome[from[r]] = "settled"
             /\ SameCaller(r, from[r]) /\ SameBody(r, from[r])
             /\ \A q \in Requests :
                  (Scope(q) = Scope(r) /\ Scope(r) \notin disturbed) =>
                      from[q] \in {from[r], None}
  <2>1. from[r] \in Requests /\ Replayable(from[r], Scope(r))
    BY <1>1 DEF IInv, TypeOK, GivenIsReplayable
  <2>2. SameCaller(r, from[r]) /\ SameBody(r, from[r])
    BY <2>1, ScopeSeparates DEF Replayable
  <2>3. from[r] \in started /\ Scope(from[r]) = Scope(r)
    BY <1>1, AnswersComeFromStarted
  <2>4. ASSUME NEW q \in Requests, Scope(q) = Scope(r), Scope(r) \notin disturbed
        PROVE  from[q] \in {from[r], None}
    BY <1>1, <2>3, <2>4, AnswersComeFromStarted DEF IInv, HandlerRunsOnce
  <2> QED
    BY <2>1, <2>2, <2>4 DEF Replayable
<1>2. IInv => ReplaysOnlySettled
  BY <1>1 DEF ReplaysOnlySettled
<1> QED
  BY <1>2, GuardInvariant, PTL
=============================================================================
