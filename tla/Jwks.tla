-------------------------------- MODULE Jwks --------------------------------
(***************************************************************************)
(* The key cache of the remote verifier, src/crypto/jwks.rs: requests      *)
(* share one cached key set, read it under a lock that is released before  *)
(* the fetch, and write what the identity provider answered with the time  *)
(* of the write.  Fetches overlap, fail, time out, and are dropped with    *)
(* their request.  The provider, which publishes and withdraws keys when   *)
(* it likes, is external.                                                  *)
(***************************************************************************)
EXTENDS Naturals

CONSTANTS
    Keys,          \* key identifiers (kid)
    RsaKeys,       \* those published with the n and e of an RSA key
    Requests,      \* requests that carry a bearer token no local secret signed
    None,          \* no kid in a token's header, no key set in the cache
    CacheTtl,      \* cache_ttl
    HttpTimeout,   \* the timeout of the shared reqwest client
    MaxRotations   \* bound: how often the provider changes its keys

ASSUME KeysAssumption == RsaKeys \subseteq Keys /\ None \notin Keys
ASSUME CacheTtlAssumption == CacheTtl \in Nat \ {0}
ASSUME HttpTimeoutAssumption == HttpTimeout \in Nat \ {0}
ASSUME MaxRotationsAssumption == MaxRotations \in Nat

VARIABLES
    published,     \* the keys the provider's document lists now
    since,         \* [Keys -> for how long that has been so, at most Window]
    rotations,     \* how often the document changed
    cached,        \* CachedKeys.keys, or None
    age,           \* fetched_at.elapsed(), counted up to the TTL
    pc,            \* [Requests -> Steps]
    token,         \* [Requests -> the token it carries]
    got,           \* [Requests -> the key_map of the answer to its fetch]
    wait           \* [Requests -> how long its fetch has been under way]

idp == <<published, since, rotations>>
cache == <<cached, age>>
requests == <<pc, token, got, wait>>
vars == <<idp, cache, requests>>

Verdicts == {"accepted", "refused", "failed"}
Steps == {"idle", "fetching", "answered"} \cup Verdicts

\* valid stands for the signature, issuer, audience and expiry that decode checks.
Tokens == [kid : Keys \cup {None}, valid : BOOLEAN]

\* The longest a fetched key set may be behind the provider.
Window == CacheTtl + HttpTimeout

TypeOK ==
    /\ published \subseteq Keys
    /\ since \in [Keys -> 0..Window]
    /\ rotations \in 0..MaxRotations
    /\ cached \in {None} \cup (SUBSET RsaKeys)
    /\ age \in 0..(CacheTtl + 1)
    /\ pc \in [Requests -> Steps]
    /\ token \in [Requests -> Tokens]
    /\ got \in [Requests -> SUBSET RsaKeys]
    /\ wait \in [Requests -> 0..HttpTimeout]

Init ==
    /\ published \in SUBSET Keys
    /\ since = [k \in Keys |-> Window]
    /\ rotations = 0
    /\ cached = None
    /\ age = 0
    /\ pc = [r \in Requests |-> "idle"]
    /\ token = [r \in Requests |-> [kid |-> None, valid |-> FALSE]]
    /\ got = [r \in Requests |-> {}]
    /\ wait = [r \in Requests |-> 0]

-----------------------------------------------------------------------------
\* External: the provider publishes another set of keys.
Rotate(S) ==
    /\ rotations < MaxRotations
    /\ rotations' = rotations + 1
    /\ published' = S
    /\ since' = [k \in Keys |-> IF (k \in S) = (k \in published) THEN since[k] ELSE 0]
    /\ UNCHANGED <<cache, requests>>

\* Mutant of Fresh: a key set is used one tick too long.
FreshAtTtl == cached # None /\ age <= CacheTtl

\* get_keys, under the read lock: there is a key set, younger than the TTL.
Fresh == cached # None /\ age < CacheTtl

\* verify_token after get_keys: no await, so the keys are those of this moment.
Verdict(t, keys) ==
    IF t.kid \in keys /\ t.valid THEN "accepted" ELSE "refused"

\* authenticate, verify_token: a header without a kid is refused before the
\* cache is looked at; without a fresh key set the request fetches one.
VerifyToken(r, t) ==
    /\ pc[r] = "idle"
    /\ token' = [token EXCEPT ![r] = t]
    /\ pc' = [pc EXCEPT ![r] = CASE t.kid = None -> "refused"
                                 [] t.kid # None /\ Fresh -> Verdict(t, cached)
                                 [] OTHER -> "fetching"]
    /\ UNCHANGED <<idp, cache, got, wait>>

\* get_keys builds the map from the keys that make an RSA key and skips others.
Parsed(S) == S \cap RsaKeys

\* The provider answers with the keys of this moment.
FetchAnswered(r) ==
    /\ pc[r] = "fetching"
    /\ pc' = [pc EXCEPT ![r] = "answered"]
    /\ got' = [got EXCEPT ![r] = Parsed(published)]
    /\ UNCHANGED <<idp, cache, token, wait>>

EndFetch(r, verdict) ==
    /\ pc' = [pc EXCEPT ![r] = verdict]
    /\ got' = [got EXCEPT ![r] = {}]
    /\ wait' = [wait EXCEPT ![r] = 0]
    /\ UNCHANGED token

\* get_keys, under the write lock: whatever is there is overwritten, dated now.
StoreKeys(r) ==
    /\ pc[r] = "answered"
    /\ cached' = got[r]
    /\ age' = 0
    /\ EndFetch(r, Verdict(token[r], got[r]))
    /\ UNCHANGED idp

\* Mutant of FetchFails: a failed fetch is cached as an empty key set.
FetchFailsCached(r) ==
    /\ pc[r] \in {"fetching", "answered"}
    /\ cached' = {}
    /\ age' = 0
    /\ EndFetch(r, "failed")
    /\ UNCHANGED idp

\* No connection, an error status, an unreadable body, or the client's timeout:
\* get_keys returns the error and leaves the cache alone.
FetchFails(r) ==
    /\ pc[r] \in {"fetching", "answered"}
    /\ EndFetch(r, "failed")
    /\ UNCHANGED <<idp, cache>>

\* The request timeout, or a caller that went away, drops the request's future.
Dropped(r) ==
    /\ pc[r] \in {"fetching", "answered"}
    /\ EndFetch(r, "idle")
    /\ UNCHANGED <<idp, cache>>

\* The caller gets the verdict.
Reply(r) ==
    /\ pc[r] \in Verdicts
    /\ pc' = [pc EXCEPT ![r] = "idle"]
    /\ token' = [token EXCEPT ![r] = [kid |-> None, valid |-> FALSE]]
    /\ UNCHANGED <<idp, cache, got, wait>>

UpTo(n, bound) == IF n < bound THEN n + 1 ELSE n

\* One unit of time.  The client ends a fetch before it is HttpTimeout old.
Tick ==
    /\ \A r \in Requests : wait[r] < HttpTimeout
    /\ since' = [k \in Keys |-> UpTo(since[k], Window)]
    /\ age' = UpTo(age, CacheTtl + 1)
    /\ wait' = [r \in Requests |->
                  IF pc[r] \in {"fetching", "answered"} THEN wait[r] + 1 ELSE wait[r]]
    /\ UNCHANGED <<published, rotations, cached, pc, token, got>>

Next ==
    \/ \E S \in SUBSET Keys : Rotate(S)
    \/ \E r \in Requests, t \in Tokens : VerifyToken(r, t)
    \/ \E r \in Requests : FetchAnswered(r)
    \/ \E r \in Requests : StoreKeys(r)
    \/ \E r \in Requests : FetchFails(r)
    \/ \E r \in Requests : Dropped(r)
    \/ \E r \in Requests : Reply(r)
    \/ Tick

Spec == Init /\ [][Next]_vars

-----------------------------------------------------------------------------
\* The request is given this verdict in this step, about the token it then has.
Decided(r, verdict) == pc[r] # verdict /\ pc'[r] = verdict

AcceptedKeyIsRecent ==
    \A r \in Requests : Decided(r, "accepted") =>
        LET k == token'[r].kid IN k \notin published => since[k] < Window

\* A token is never accepted under a key that the provider withdrew longer ago
\* than the TTL and one fetch take together, although a slow fetch may write
\* older keys over newer ones and dates them as new (get_keys, StoreKeys).
AcceptsOnlyRecentKeys == [][AcceptedKeyIsRecent]_vars

RefusedKeyIsNew ==
    \A r \in Requests : Decided(r, "refused") =>
        LET k == token'[r].kid IN
            (token'[r].valid /\ k \in published \cap RsaKeys) => since[k] < Window

\* A good token is refused as unknown only while its key is news: once the
\* provider has listed an RSA key for the TTL and one fetch, every replica that
\* reaches a verdict accepts it, although an unknown kid triggers no fetch and
\* overlapping fetches may cache a key set from before the rotation.
RefusesOnlyNewKeys == [][RefusedKeyIsNew]_vars
=============================================================================
