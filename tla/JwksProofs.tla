----------------------------- MODULE JwksProofs -----------------------------
(***************************************************************************)
(* How far the key cache may be behind the provider, for any keys, number  *)
(* of requests, TTL and timeout.  Both properties follow from one bound:   *)
(* where a cached or a fetched key set disagrees with the provider about a *)
(* key, the provider changed its mind no longer ago than that set is old,  *)
(* counting from the moment the provider answered.                         *)
(***************************************************************************)
EXTENDS Jwks, TLAPS

\* The set of keys and the provider disagree about the key.
Differs(k, keys) == (k \in keys) # (k \in published)

\* An answer on its way to the cache is as old as its fetch at most.
AnswersAreRecent ==
    \A r \in Requests, k \in RsaKeys :
        (pc[r] = "answered" /\ Differs(k, got[r])) => since[k] <= wait[r]

\* The cached keys are older than their date by one fetch at most.
CacheIsRecent ==
    \A k \in RsaKeys :
        (cached # None /\ Differs(k, cached)) => since[k] <= age + HttpTimeout

IInv == TypeOK /\ AnswersAreRecent /\ CacheIsRecent

-----------------------------------------------------------------------------
\* A replica starts with an empty cache and no request.
LEMMA InitIInv == Init => IInv
BY CacheTtlAssumption, HttpTimeoutAssumption, MaxRotationsAssumption, KeysAssumption
   DEF Init, IInv, TypeOK, AnswersAreRecent, CacheIsRecent, Tokens, Steps, Window

\* The provider changes its keys: what it changed is new as of now.
LEMMA RotateKeepsIInv ==
    ASSUME IInv, NEW S \in SUBSET Keys, Rotate(S)
    PROVE  IInv'
<1> USE DEF Rotate, cache, requests
<1>1. TypeOK'
  BY CacheTtlAssumption, HttpTimeoutAssumption, MaxRotationsAssumption DEF IInv, TypeOK, Window
<1>2. AnswersAreRecent'
  BY KeysAssumption, HttpTimeoutAssumption DEF IInv, TypeOK, AnswersAreRecent, Differs
<1>3. CacheIsRecent'
  BY KeysAssumption, HttpTimeoutAssumption, CacheTtlAssumption
     DEF IInv, TypeOK, CacheIsRecent, Differs
<1> QED
  BY <1>1, <1>2, <1>3 DEF IInv

\* A request that looks at the cache leaves it as it is.
LEMMA VerifyKeepsIInv ==
    ASSUME IInv, NEW r \in Requests, NEW t \in Tokens, VerifyToken(r, t)
    PROVE  IInv'
<1>1. /\ UNCHANGED <<published, since, rotations, cached, age, got, wait>>
      /\ token' = [token EXCEPT ![r] = t]
      /\ \E s \in {"refused", "accepted", "fetching"} : pc' = [pc EXCEPT ![r] = s]
  BY DEF VerifyToken, Verdict, idp, cache
<1>2. TypeOK'
  BY <1>1 DEF IInv, TypeOK, Steps, Verdicts
<1>3. AnswersAreRecent' /\ CacheIsRecent'
  BY <1>1 DEF IInv, TypeOK, AnswersAreRecent, CacheIsRecent, Differs
<1> QED
  BY <1>2, <1>3 DEF IInv

\* An answer agrees with the provider when it is given.
LEMMA AnswerKeepsIInv ==
    ASSUME IInv, NEW r \in Requests, FetchAnswered(r)
    PROVE  IInv'
<1> USE DEF FetchAnswered, Parsed, idp, cache
<1>1. TypeOK'
  BY KeysAssumption DEF IInv, TypeOK, Steps
<1>2. AnswersAreRecent'
  BY DEF IInv, TypeOK, AnswersAreRecent, Differs
<1>3. CacheIsRecent'
  BY DEF IInv, CacheIsRecent, Differs
<1> QED
  BY <1>1, <1>2, <1>3 DEF IInv

\* The end of a fetch, whatever its verdict, leaves no answer behind.
LEMMA EndFetchKeepsAnswers ==
    ASSUME IInv, NEW r \in Requests, NEW v \in Verdicts \cup {"idle"}, EndFetch(r, v),
           UNCHANGED idp
    PROVE  /\ AnswersAreRecent'
           /\ pc' \in [Requests -> Steps] /\ token' \in [Requests -> Tokens]
           /\ got' \in [Requests -> SUBSET RsaKeys] /\ wait' \in [Requests -> 0..HttpTimeout]
BY HttpTimeoutAssumption
   DEF IInv, TypeOK, AnswersAreRecent, Differs, EndFetch, Steps, Verdicts, idp

\* The write of a fetched key set, dated later than the provider's answer.
LEMMA StoreKeepsIInv ==
    ASSUME IInv, NEW r \in Requests, StoreKeys(r)
    PROVE  IInv'
<1>1. /\ pc[r] = "answered" /\ cached' = got[r] /\ age' = 0
      /\ UNCHANGED <<published, since, rotations>>
  BY DEF StoreKeys, idp
<1>2. /\ AnswersAreRecent'
      /\ pc' \in [Requests -> Steps] /\ token' \in [Requests -> Tokens]
      /\ got' \in [Requests -> SUBSET RsaKeys] /\ wait' \in [Requests -> 0..HttpTimeout]
  BY EndFetchKeepsAnswers DEF StoreKeys, Verdict, Verdicts
<1>3. TypeOK'
  BY <1>1, <1>2, CacheTtlAssumption DEF IInv, TypeOK
<1>4. CacheIsRecent'
  BY <1>1, KeysAssumption, HttpTimeoutAssumption, CacheTtlAssumption
     DEF IInv, TypeOK, CacheIsRecent, AnswersAreRecent, Differs
<1> QED
  BY <1>2, <1>3, <1>4 DEF IInv

\* A fetch that fails or is dropped does not touch the cache.
LEMMA FailKeepsIInv ==
    ASSUME IInv, NEW r \in Requests, FetchFails(r) \/ Dropped(r)
    PROVE  IInv'
<1>1. UNCHANGED <<published, since, rotations, cached, age>>
  BY DEF FetchFails, Dropped, idp, cache
<1>2. /\ AnswersAreRecent'
      /\ pc' \in [Requests -> Steps] /\ token' \in [Requests -> Tokens]
      /\ got' \in [Requests -> SUBSET RsaKeys] /\ wait' \in [Requests -> 0..HttpTimeout]
  BY EndFetchKeepsAnswers DEF FetchFails, Dropped, Verdicts
<1>3. TypeOK' /\ CacheIsRecent'
  BY <1>1, <1>2 DEF IInv, TypeOK, CacheIsRecent, Differs
<1> QED
  BY <1>2, <1>3 DEF IInv

\* The answer to the caller.
LEMMA ReplyKeepsIInv ==
    ASSUME IInv, NEW r \in Requests, Reply(r)
    PROVE  IInv'
<1> USE DEF Reply, idp, cache
<1>1. TypeOK'
  BY DEF IInv, TypeOK, Steps, Tokens
<1>2. AnswersAreRecent' /\ CacheIsRecent'
  BY DEF IInv, TypeOK, AnswersAreRecent, CacheIsRecent, Differs
<1> QED
  BY <1>1, <1>2 DEF IInv

\* The clock ages keys, answers and the cache alike.
LEMMA TickKeepsIInv ==
    ASSUME IInv, Tick
    PROVE  IInv'
<1> USE CacheTtlAssumption, HttpTimeoutAssumption DEF Tick, UpTo
<1>1. TypeOK'
  BY DEF IInv, TypeOK, Window
<1>2. AnswersAreRecent'
  BY KeysAssumption DEF IInv, TypeOK, AnswersAreRecent, Differs, Window
<1>3. CacheIsRecent'
  BY KeysAssumption DEF IInv, TypeOK, CacheIsRecent, Differs, Window
<1> QED
  BY <1>1, <1>2, <1>3 DEF IInv

\* Every step keeps the bound.
LEMMA NextKeepsIInv == IInv /\ [Next]_vars => IInv'
<1> SUFFICES ASSUME IInv, [Next]_vars
             PROVE  IInv'
  OBVIOUS
<1>1. CASE \E S \in SUBSET Keys : Rotate(S)
  BY <1>1, RotateKeepsIInv
<1>2. CASE \E r \in Requests, t \in Tokens : VerifyToken(r, t)
  BY <1>2, VerifyKeepsIInv
<1>3. CASE \E r \in Requests : FetchAnswered(r)
  BY <1>3, AnswerKeepsIInv
<1>4. CASE \E r \in Requests : StoreKeys(r)
  BY <1>4, StoreKeepsIInv
<1>5. CASE \E r \in Requests : FetchFails(r) \/ Dropped(r)
  BY <1>5, FailKeepsIInv
<1>6. CASE \E r \in Requests : Reply(r)
  BY <1>6, ReplyKeepsIInv
<1>7. CASE Tick
  BY <1>7, TickKeepsIInv
<1>8. CASE UNCHANGED vars
  BY <1>8 DEF vars, idp, cache, requests, IInv, TypeOK, AnswersAreRecent, CacheIsRecent, Differs
<1> QED
  BY <1>1, <1>2, <1>3, <1>4, <1>5, <1>6, <1>7, <1>8 DEF Next

\* Cache and answers are never further behind the provider than their age.
THEOREM CacheInvariant == Spec => []IInv
<1>1. Init => IInv
  BY InitIInv
<1>2. IInv /\ [Next]_vars => IInv'
  BY NextKeepsIInv
<1> QED
  BY <1>1, <1>2, PTL DEF Spec

-----------------------------------------------------------------------------
\* A verdict is reached over a key set that agrees with the provider about every
\* RSA key whose listing has not changed within the window.
LEMMA VerdictIsRecent ==
    ASSUME IInv, [Next]_vars, NEW r \in Requests,
           Decided(r, "accepted") \/ (Decided(r, "refused") /\ token'[r].kid # None)
    PROVE  \E keys \in SUBSET RsaKeys :
             /\ pc'[r] = Verdict(token'[r], keys)
             /\ \A k \in RsaKeys : Differs(k, keys) => since[k] < Window
<1>0. CacheTtl \in Nat \ {0} /\ HttpTimeout \in Nat
  BY CacheTtlAssumption, HttpTimeoutAssumption
<1>1. CASE \E q \in Requests, t \in Tokens : VerifyToken(q, t)
  <2>1. PICK q \in Requests, t \in Tokens : VerifyToken(q, t)
    BY <1>1
  <2>2. /\ q = r /\ token'[r] = t /\ t.kid # None /\ Fresh
        /\ pc'[r] = Verdict(t, cached)
    BY <2>1 DEF VerifyToken, Decided, IInv, TypeOK, Verdict
  <2>3. cached \in SUBSET RsaKeys
    BY <2>2 DEF Fresh, IInv, TypeOK
  <2>4. \A k \in RsaKeys : Differs(k, cached) => since[k] < Window
    BY <1>0, <2>2, KeysAssumption DEF Fresh, IInv, TypeOK, CacheIsRecent, Window
  <2> QED
    BY <2>2, <2>3, <2>4
<1>2. CASE \E q \in Requests : StoreKeys(q)
  <2>1. PICK q \in Requests : StoreKeys(q)
    BY <1>2
  <2>2. /\ q = r /\ token'[r] = token[r] /\ pc[r] = "answered"
        /\ pc'[r] = Verdict(token[r], got[r]) /\ got[r] \in SUBSET RsaKeys
    BY <2>1 DEF StoreKeys, EndFetch, Decided, IInv, TypeOK, Verdict
  <2>3. \A k \in RsaKeys : Differs(k, got[r]) => since[k] < Window
    BY <1>0, <2>2, KeysAssumption DEF IInv, TypeOK, AnswersAreRecent, Window
  <2> QED
    BY <2>2, <2>3
<1>3. CASE \E q \in Requests : FetchAnswered(q) \/ FetchFails(q) \/ Dropped(q) \/ Reply(q)
  BY <1>3 DEF FetchAnswered, FetchFails, Dropped, Reply, EndFetch, Decided, IInv, TypeOK
<1>4. CASE \/ \E S \in SUBSET Keys : Rotate(S)
           \/ Tick
           \/ UNCHANGED vars
  BY <1>4 DEF Rotate, Tick, vars, requests, Decided
<1> QED
  BY <1>1, <1>2, <1>3, <1>4 DEF Next

\* A withdrawn key is accepted for the TTL and one fetch, and no longer.
THEOREM RecentKeys == Spec => AcceptsOnlyRecentKeys
<1>1. IInv /\ [Next]_vars => [AcceptedKeyIsRecent]_vars
  BY VerdictIsRecent DEF AcceptedKeyIsRecent, Verdict, Differs, Decided
<1> QED
  BY <1>1, CacheInvariant, PTL DEF Spec, AcceptsOnlyRecentKeys

\* A published key is unknown for the TTL and one fetch, and no longer.
THEOREM KnownKeys == Spec => RefusesOnlyNewKeys
<1>1. IInv /\ [Next]_vars => [RefusedKeyIsNew]_vars
  BY VerdictIsRecent, KeysAssumption DEF RefusedKeyIsNew, Verdict, Differs, Decided
<1> QED
  BY <1>1, CacheInvariant, PTL DEF Spec, RefusesOnlyNewKeys
=============================================================================
