----------------------------- MODULE AuthProofs -----------------------------
(***************************************************************************)
(* The account under any number of overlapping requests, sessions and      *)
(* recovery tokens: rotation is exclusive, recovery tokens work once,      *)
(* revocations cover the sessions they are meant to, guesses are bounded,  *)
(* and only the transactions that update many rows can deadlock.           *)
(***************************************************************************)
EXTENDS Auth, FiniteSetTheorems, TLAPS

\* The operations that may be at a label.
OpsAt(label) ==
    CASE label = "idle" -> {None}
      [] label \in {"enter", "countFailure"} -> {"signIn"}
      [] label \in {"readUser", "rotate"} -> {"refresh"}
      [] label = "signOutRow" -> {"signOut"}
      [] label = "verifyCurrent" -> {"change"}
      [] label = "findUser" -> {"reset"}
      [] label = "lockAccount" -> {"change", "reset"}
      [] label = "lockUser" -> {"reset", "delete", "verify"}
      [] label \in {"snapshot", "locking"} ->
            {"refresh", "signOutAll", "change", "reset", "delete", "forget"}
      [] label = "commit" -> {"delete", "verify"}

\* What a request presents fits its operation.
Fits(r) ==
    /\ req[r].op \in OpsAt(pc[r])
    /\ req[r].op \in {"refresh", "signOut", "signOutAll", "change", "delete"} =>
        req[r].s \in Sids
    /\ req[r].op \in {"reset", "verify"} => req[r].t \in Tokens
    /\ req[r].op \notin {"reset", "verify"} => req[r].t = None
    /\ pc[r] = "idle" => req[r] = NoRequest

\* Requests that have not written anything hold no row, and verify_email holds
\* its token until it has locked the user.
HoldsLittle(r) ==
    \A x \in Rows : lock[x] = r =>
        /\ pc[r] \notin {"idle", "enter", "countFailure", "signOutRow", "verifyCurrent"}
        /\ (req[r].op = "verify" /\ pc[r] = "lockUser") => x = req[r].t

\* The rows of an UPDATE of many rows are of one kind, and the caller holds those
\* it has done.
UpdatesOneKind(r) ==
    /\ \A x \in req[r].got : lock[x] = r
    /\ \A x \in req[r].want \cup req[r].got :
        IF req[r].op = "forget"
        THEN /\ x \in Tokens
             /\ tokens[x].state # "unused" /\ tokens[x].purpose = "password_reset"
        ELSE x \in Sids
    /\ (pc[r] = "commit" /\ req[r].op = "delete") => req[r].want = {}

\* The presented token is locked from SELECT ... FOR UPDATE to the rotation.
HoldsLiveToken(r) ==
    pc[r] \in {"readUser", "rotate"} =>
        /\ lock[req[r].s] = r
        /\ Unrevoked(req[r].s)
        /\ sessions[req[r].s].gen = req[r].g
        /\ req[r].g < MaxGen

\* A recovery token is locked, and open, from its consumption to the commit.
HoldsRecoveryToken(r) ==
    req[r].op \in {"reset", "verify"} =>
        /\ lock[req[r].t] = r
        /\ Open(req[r].t)
        /\ req[r].op = "verify" => tokens[req[r].t].purpose = "email_verify"

\* reset_password and delete_account keep sign-ins out while they revoke.
HoldsUser(r) ==
    (req[r].op \in {"reset", "delete"} /\ pc[r] \in {"snapshot", "locking", "commit"}) =>
        lock["user"] = r

\* What existed when a request began is never unused again.
KnownExists(r) ==
    \A x \in req[r].known :
        /\ x \in Sids => sessions[x].state # "unused"
        /\ x \in Tokens => tokens[x].state # "unused"

\* The rows that the UPDATE of many rows must not miss are those it has done and
\* those it still has to do.
Covers(r) ==
    (pc[r] = "locking" \/ (pc[r] = "commit" /\ req[r].op = "delete")) =>
        \A x \in RowsToUpdate(r) :
            (x \in req[r].known \/ req[r].op \in {"reset", "delete"}) =>
                x \in req[r].want \cup req[r].got

ReqInv(r) ==
    /\ Fits(r)
    /\ HoldsLittle(r)
    /\ UpdatesOneKind(r)
    /\ HoldsLiveToken(r)
    /\ HoldsRecoveryToken(r)
    /\ HoldsUser(r)
    /\ KnownExists(r)
    /\ Covers(r)

\* Before the sign-up there is nothing to work on.
NothingBeforeSignUp ==
    user.state = "none" =>
        /\ \A s \in Sids : sessions[s].state = "unused"
        /\ \A t \in Tokens : tokens[t].state = "unused"
        /\ \A r \in Requests : pc[r] = "idle"
        /\ ~user.locked

UsesFollowState ==
    \A t \in Tokens : tokens[t].uses <= 1 /\ (tokens[t].state # "consumed" => tokens[t].uses = 0)

\* The guesses that register_failed_login has counted since the last clean slate.
Counted == guesses - dropped - Cardinality(Guessing)

\* Guesses are let in while fewer than the threshold have been counted.
GuessesCounted ==
    /\ Counted >= 0
    /\ guesses - dropped <= Threshold + Cardinality(Requests) - 1
    /\ ~user.locked => Counted < Threshold
    /\ Counted <= user.failures
    /\ user.failures + Cardinality(Guessing) <= MaxFailures + Cardinality(Requests)

IInv ==
    /\ TypeOK
    /\ \A r \in Requests : ReqInv(r)
    /\ NothingBeforeSignUp
    /\ UsesFollowState
    /\ GuessesCounted

-----------------------------------------------------------------------------
\* Types, and the initial state

UserRow == [state : {"none", "active", "deleted"}, banned : BOOLEAN, verified : BOOLEAN,
            failures : 0..MaxFailures + Cardinality(Requests), locked : BOOLEAN]
SessionRow == [state : {"unused", "present", "gone"}, gen : 0..MaxGen,
               revoked : BOOLEAN, expired : BOOLEAN]
TokenRow == [state : {"unused", "open", "consumed"}, purpose : Purposes,
             expired : BOOLEAN, uses : Nat]
RequestRow == [op : Operations \cup {None}, s : Sids \cup {None}, g : 0..MaxGen,
               t : Tokens \cup {None}, want : SUBSET Rows, got : SUBSET Rows,
               known : SUBSET Rows]

\* TypeOK with the sets of rows named.
LEMMA Types ==
    TypeOK <=> /\ user \in UserRow
               /\ password \in BOOLEAN
               /\ sessions \in [Sids -> SessionRow]
               /\ tokens \in [Tokens -> TokenRow]
               /\ lock \in [Rows -> Requests \cup {None}]
               /\ pc \in [Requests -> Labels]
               /\ req \in [Requests -> RequestRow]
               /\ guesses \in Nat /\ dropped \in Nat
  BY DEF TypeOK, UserRow, SessionRow, TokenRow, RequestRow

\* The number of requests.
LEMMA CountRequests ==
    /\ Cardinality(Requests) \in Nat
    /\ \A S \in SUBSET Requests :
        IsFiniteSet(S) /\ Cardinality(S) \in Nat /\ Cardinality(S) <= Cardinality(Requests)
  BY FS_Subset, FS_CardinalityType, AuthBoundsAssumption

\* The fields of a request that is not under way.
LEMMA NoRequestRow ==
    /\ NoRequest \in RequestRow
    /\ NoRequest.op = None /\ NoRequest.s = None /\ NoRequest.t = None
    /\ NoRequest.want = {} /\ NoRequest.got = {} /\ NoRequest.known = {}
  BY AuthBoundsAssumption DEF NoRequest, RequestRow

\* An idle request that holds nothing.
LEMMA IdleReqInv ==
    ASSUME NEW r \in Requests, pc[r] = "idle", req[r] = NoRequest,
           \A x \in Rows : lock[x] # r
    PROVE  ReqInv(r)
  BY NoRequestRow, AuthOperationsAssumption
  DEF Operations, ReqInv, Fits, OpsAt, HoldsLittle, UpdatesOneKind, HoldsLiveToken,
      HoldsRecoveryToken, HoldsUser, KnownExists, Covers

\* The invariant holds in an empty database.
LEMMA InitIInv == Init => IInv
<1> SUFFICES ASSUME Init
             PROVE  IInv
  OBVIOUS
<1>1. TypeOK
  <2>1. user \in UserRow
    BY CountRequests, AuthBoundsAssumption DEF Init, UserRow
  <2>2. sessions \in [Sids -> SessionRow]
    BY AuthBoundsAssumption DEF Init, SessionRow, NoSession
  <2>3. tokens \in [Tokens -> TokenRow]
    BY DEF Init, TokenRow, NoToken, Purposes
  <2>4. req \in [Requests -> RequestRow]
    BY NoRequestRow DEF Init
  <2>5. lock \in [Rows -> Requests \cup {None}] /\ pc \in [Requests -> Labels]
        /\ password \in BOOLEAN /\ guesses \in Nat /\ dropped \in Nat
    BY DEF Init, Labels
  <2> QED
    BY <2>1, <2>2, <2>3, <2>4, <2>5, Types
<1>2. \A r \in Requests : ReqInv(r)
  BY IdleReqInv, AuthNoneAssumption DEF Init
<1>3. NothingBeforeSignUp /\ UsesFollowState
  BY DEF Init, NothingBeforeSignUp, UsesFollowState, NoSession, NoToken
<1>4. GuessesCounted
  <2>1. Guessing = {}
    BY DEF Init, Guessing
  <2>2. Cardinality(Guessing) = 0
    BY <2>1, FS_EmptySet
  <2> QED
    BY <2>2, CountRequests, AuthBoundsAssumption DEF Init, GuessesCounted, Counted
<1> QED
  BY <1>1, <1>2, <1>3, <1>4 DEF IInv

-----------------------------------------------------------------------------
\* What a step may do to a request that does not take it

\* reset_password and delete_account while they revoke.
Revoking(q) == req[q].op \in {"reset", "delete"} /\ pc[q] \in {"snapshot", "locking", "commit"}

\* The tables, as far as request q relies on them: the session it rotates and the
\* tokens it has locked stay as they are, no row comes back, and nobody signs in
\* past its lock of the user.
SessionsKeep(q) ==
    /\ \A s \in Sids : (/\ lock[s] = q /\ pc[q] \in {"readUser", "rotate"}
                        /\ sessions[s].state # "unused") => sessions'[s] = sessions[s]
    /\ \A s \in Sids : sessions'[s].state = "unused" => sessions[s].state = "unused"
    /\ \A s \in Sids : Unrevoked(s)' =>
        Unrevoked(s) \/ (sessions[s].state = "unused" /\ ~Revoking(q))

TokensKeep(q) ==
    /\ \A t \in Tokens : (lock[t] = q /\ tokens[t].state # "unused") =>
        tokens'[t] = tokens[t]
    /\ \A t \in Tokens : tokens[t].state # "unused" =>
        /\ tokens'[t].state # "unused" /\ tokens'[t].purpose = tokens[t].purpose
        /\ Open(t)' => Open(t)

TablesKeep(q) == SessionsKeep(q) /\ TokensKeep(q)

\* The locks of the other requests stay as they are.
OthersKeepLocks(r) ==
    \A x \in Rows : lock'[x] = lock[x] \/ {lock[x], lock'[x]} \subseteq {None, r}

\* Its invariant is stable under the steps of others.
LEMMA Frame ==
    ASSUME IInv, NEW q \in Requests, pc'[q] = pc[q], req'[q] = req[q],
           \A x \in Rows : lock'[x] = q <=> lock[x] = q,
           TablesKeep(q)
    PROVE  ReqInv(q)'
<1> USE DEF IInv, ReqInv
<1>1. {"user", "account"} \subseteq Rows /\ Sids \subseteq Rows /\ Tokens \subseteq Rows
  BY DEF Rows
<1>2. Fits(q)' /\ HoldsLittle(q)'
  BY DEF Fits, HoldsLittle
<1>3. UpdatesOneKind(q)'
  <2>1. req[q].got \subseteq Rows
    BY Types DEF RequestRow
  <2> QED
    BY <2>1 DEF UpdatesOneKind, TablesKeep, SessionsKeep, TokensKeep
<1>4. HoldsLiveToken(q)'
  BY <1>1 DEF HoldsLiveToken, Fits, OpsAt, TablesKeep, SessionsKeep, TokensKeep, Unrevoked
<1>5. HoldsRecoveryToken(q)'
  BY <1>1 DEF HoldsRecoveryToken, Fits, TablesKeep, SessionsKeep, TokensKeep, Open
<1>6. HoldsUser(q)'
  BY <1>1 DEF HoldsUser
<1>7. KnownExists(q)'
  BY DEF KnownExists, TablesKeep, SessionsKeep, TokensKeep
<1>8. Covers(q)'
  <2> SUFFICES ASSUME pc[q] = "locking" \/ (pc[q] = "commit" /\ req[q].op = "delete"),
                      NEW x \in RowsToUpdate(q)',
                      x \in req[q].known \/ req[q].op \in {"reset", "delete"}
               PROVE  x \in req[q].want \cup req[q].got
    BY DEF Covers
  <2>1. CASE req[q].op = "forget"
    <3>1. x \in Tokens /\ Open(x)' /\ tokens'[x].purpose = "password_reset"
      BY <2>1 DEF RowsToUpdate
    <3>2. tokens[x].state # "unused"
      BY <2>1, <3>1 DEF KnownExists
    <3> QED
      BY <2>1, <3>1, <3>2 DEF TablesKeep, SessionsKeep, TokensKeep, RowsToUpdate, Covers
  <2>2. CASE req[q].op # "forget"
    <3>1. x \in Sids /\ Unrevoked(x)' /\ (req[q].op = "change" => x # req[q].s)
      BY <2>2 DEF RowsToUpdate
    <3>2. Unrevoked(x)
      <4>1. CASE req[q].op \in {"reset", "delete"}
        BY <4>1, <3>1 DEF Revoking, TablesKeep, SessionsKeep, TokensKeep
      <4>2. CASE x \in req[q].known
        BY <4>2, <3>1 DEF KnownExists, TablesKeep, SessionsKeep, TokensKeep
      <4> QED
        BY <4>1, <4>2
    <3>3. x \in RowsToUpdate(q)
      BY <2>2, <3>1, <3>2 DEF RowsToUpdate
    <3> QED
      BY <3>3 DEF Covers
  <2> QED
    BY <2>1, <2>2
<1> QED
  BY <1>2, <1>3, <1>4, <1>5, <1>6, <1>7, <1>8

\* A step of request r keeps the invariant if it keeps what is r's own and what is
\* everybody's.
LEMMA Combine ==
    ASSUME IInv, NEW r \in Requests, TypeOK', OthersKeepLocks(r),
           \A q \in Requests \ {r} : pc'[q] = pc[q] /\ req'[q] = req[q] /\ TablesKeep(q),
           ReqInv(r)', NothingBeforeSignUp', UsesFollowState', GuessesCounted'
    PROVE  IInv'
<1>1. \A q \in Requests \ {r} : \A x \in Rows : lock'[x] = q <=> lock[x] = q
  BY AuthNoneAssumption DEF OthersKeepLocks
<1>2. \A q \in Requests \ {r} : ReqInv(q)'
  BY <1>1, Frame
<1> QED
  BY <1>2 DEF IInv

\* The numbers that GuessesCounted compares.
LEMMA GuessTypes ==
    ASSUME IInv
    PROVE  /\ Guessing \in SUBSET Requests /\ IsFiniteSet(Guessing)
           /\ Cardinality(Guessing) \in Nat /\ Cardinality(Guessing) <= Cardinality(Requests)
           /\ Cardinality(Requests) \in Nat
           /\ user.failures \in Nat /\ guesses \in Nat /\ dropped \in Nat
<1>1. Guessing \in SUBSET Requests
  BY DEF Guessing
<1>2. user.failures \in Nat /\ guesses \in Nat /\ dropped \in Nat
  BY Types, CountRequests, AuthBoundsAssumption DEF IInv, UserRow
<1> QED
  BY <1>1, <1>2, CountRequests

\* Guesses are counted as before, or start again from a clean slate.
LEMMA GuessesKept ==
    ASSUME IInv, Guessing' = Guessing,
           \/ /\ UNCHANGED history
              /\ user'.failures = user.failures /\ user'.locked = user.locked
           \/ CleanSlate /\ user'.failures \in {0, user.failures}
    PROVE  GuessesCounted'
<1>1. Counted' = guesses' - dropped' - Cardinality(Guessing)
  BY DEF Counted
<1>2. CASE UNCHANGED history /\ user'.failures = user.failures /\ user'.locked = user.locked
  BY <1>1, <1>2 DEF IInv, GuessesCounted, Counted, history
<1>3. CASE CleanSlate /\ user'.failures \in {0, user.failures}
  <2>1. guesses' = Cardinality(Guessing) /\ dropped' = 0 /\ Counted' = 0
    BY <1>1, <1>3, GuessTypes DEF CleanSlate
  <2> QED
    BY <1>3, <2>1, GuessTypes, AuthBoundsAssumption DEF IInv, GuessesCounted
<1> QED
  BY <1>2, <1>3

\* A request is under way only once there is an account.
LEMMA BusyHasUser ==
    ASSUME IInv, NEW r \in Requests, pc[r] # "idle"
    PROVE  user.state # "none"
  BY DEF IInv, NothingBeforeSignUp

\* Tables that do not change keep what anybody relies on.
LEMMA TablesStay ==
    ASSUME UNCHANGED <<sessions, tokens>>
    PROVE  \A q \in Requests : TablesKeep(q)
  BY DEF TablesKeep, SessionsKeep, TokensKeep, Unrevoked, Open

\* A statement that writes nothing yet, of a request that goes on.
LEMMA Quiet ==
    ASSUME IInv, NEW r \in Requests, NEW l \in Labels \ {"countFailure"},
           pc[r] # "countFailure", pc' = [pc EXCEPT ![r] = l],
           UNCHANGED <<tables, history>>, user.state # "none",
           req' \in [Requests -> RequestRow], \A q \in Requests \ {r} : req'[q] = req[q],
           lock' \in [Rows -> Requests \cup {None}], OthersKeepLocks(r),
           ReqInv(r)'
    PROVE  IInv'
<1>1. UNCHANGED <<user, password, sessions, tokens, guesses, dropped>>
  BY DEF tables, history
<1>2. TypeOK' <=> /\ user' \in UserRow
                  /\ password' \in BOOLEAN
                  /\ sessions' \in [Sids -> SessionRow]
                  /\ tokens' \in [Tokens -> TokenRow]
                  /\ lock' \in [Rows -> Requests \cup {None}]
                  /\ pc' \in [Requests -> Labels]
                  /\ req' \in [Requests -> RequestRow]
                  /\ guesses' \in Nat /\ dropped' \in Nat
  BY DEF TypeOK, UserRow, SessionRow, TokenRow, RequestRow
<1>3. TypeOK'
  BY <1>1, <1>2, Types DEF IInv
<1>4. \A q \in Requests \ {r} : pc'[q] = pc[q] /\ req'[q] = req[q] /\ TablesKeep(q)
  BY <1>1, TablesStay, Types DEF IInv
<1>5. NothingBeforeSignUp' /\ UsesFollowState'
  BY <1>1 DEF IInv, NothingBeforeSignUp, UsesFollowState
<1>6. GuessesCounted'
  <2>1. Guessing' = Guessing
    BY Types DEF IInv, Guessing
  <2> QED
    BY <1>1, <2>1, GuessesKept
<1> QED
  BY <1>3, <1>4, <1>5, <1>6, Combine

\* The end of a request leaves it idle and without locks.
LEMMA Finishes ==
    ASSUME IInv, NEW r \in Requests, Finish(r)
    PROVE  /\ lock' \in [Rows -> Requests \cup {None}] /\ OthersKeepLocks(r)
           /\ pc' \in [Requests -> Labels] /\ req' \in [Requests -> RequestRow]
           /\ pc'[r] = "idle"
           /\ \A q \in Requests \ {r} : pc'[q] = pc[q] /\ req'[q] = req[q]
           /\ Guessing' = Guessing \ {r}
           /\ ReqInv(r)'
<1> USE DEF Finish
<1>1. lock \in [Rows -> Requests \cup {None}] /\ pc \in [Requests -> Labels]
      /\ req \in [Requests -> RequestRow]
  BY Types DEF IInv
<1>2. lock' \in [Rows -> Requests \cup {None}] /\ OthersKeepLocks(r)
  BY <1>1 DEF OthersKeepLocks
<1>3. pc' \in [Requests -> Labels] /\ req' \in [Requests -> RequestRow]
  BY <1>1, NoRequestRow DEF Labels
<1>4. \A q \in Requests \ {r} : pc'[q] = pc[q] /\ req'[q] = req[q]
  BY <1>1
<1>5. Guessing' = Guessing \ {r}
  BY <1>1 DEF Guessing
<1>6. ReqInv(r)'
  <2>1. pc'[r] = "idle" /\ req'[r] = NoRequest /\ \A x \in Rows : lock'[x] # r
    BY <1>1, AuthNoneAssumption
  <2> QED
    BY <2>1, NoRequestRow, AuthOperationsAssumption
    DEF Operations, ReqInv, Fits, OpsAt, HoldsLittle, UpdatesOneKind, HoldsLiveToken,
        HoldsRecoveryToken, HoldsUser, KnownExists, Covers
<1> QED
  BY <1>1, <1>2, <1>3, <1>4, <1>5, <1>6

\* A request that ends without writing anything.
LEMMA QuietEnd ==
    ASSUME IInv, NEW r \in Requests, pc[r] \notin {"idle", "countFailure"}, Finish(r),
           UNCHANGED <<tables, history>>
    PROVE  IInv'
<1>1. pc' = [pc EXCEPT ![r] = "idle"] /\ "idle" \in Labels \ {"countFailure"}
  BY DEF Finish, Labels
<1>2. user.state # "none"
  BY BusyHasUser
<1> QED
  BY <1>1, <1>2, Finishes, Quiet

-----------------------------------------------------------------------------
\* Requests arrive

\* What Begin leaves, in tables that it does not change.
LEMMA Begins ==
    ASSUME IInv, NEW r \in Requests, NEW op \in Operations, NEW l \in Labels,
           NEW s \in Sids \cup {None}, NEW g \in 0..MaxGen, NEW t \in Tokens \cup {None},
           Begin(r, op, l, s, g, t)
    PROVE  /\ pc[r] = "idle" /\ pc' = [pc EXCEPT ![r] = l] /\ pc'[r] = l
           /\ req' \in [Requests -> RequestRow]
           /\ \A q \in Requests \ {r} : req'[q] = req[q]
           /\ req'[r].op = op /\ req'[r].s = s /\ req'[r].g = g /\ req'[r].t = t
           /\ req'[r].want = {} /\ req'[r].got = {} /\ req'[r].known = Existing
           /\ \A x \in Rows : lock[x] # r
<1> DEFINE new == [NoRequest EXCEPT !.op = op, !.s = s, !.g = g, !.t = t,
                                    !.known = Existing]
<1>1. Existing \in SUBSET Rows
  BY DEF Existing, Rows
<1>2. /\ new \in RequestRow
      /\ new.op = op /\ new.s = s /\ new.g = g /\ new.t = t
      /\ new.want = {} /\ new.got = {} /\ new.known = Existing
  BY <1>1 DEF NoRequest, RequestRow
<1>3. pc[r] = "idle" /\ pc' = [pc EXCEPT ![r] = l] /\ req' = [req EXCEPT ![r] = new]
  BY DEF Begin
<1>4. req \in [Requests -> RequestRow] /\ pc \in [Requests -> Labels]
  BY Types DEF IInv
<1>5. \A x \in Rows : lock[x] # r
  BY <1>3 DEF IInv, ReqInv, HoldsLittle
<1> HIDE DEF new
<1> QED
  BY <1>2, <1>3, <1>4, <1>5

\* A request that arrives knows only rows that exist, and rows exist only once
\* there is an account.
LEMMA ArrivalKnows ==
    ASSUME IInv, NEW r \in Requests, UNCHANGED tables, req'[r].known = Existing
    PROVE  KnownExists(r)'
  BY AuthIdsAssumption DEF tables, Existing, KnownExists, Open

\* Without rows of its own a request relies on nothing but what it knows.
LEMMA FreshReqInv ==
    ASSUME IInv, NEW r \in Requests, UNCHANGED <<tables, lock>>,
           NEW op \in Operations, NEW s \in Sids \cup {None}, NEW g \in 0..MaxGen,
           NEW l \in {"enter", "countFailure", "signOutRow", "verifyCurrent", "lockUser",
                      "snapshot"},
           Begin(r, op, l, s, g, None),
           op \in OpsAt(l) \ {"reset", "verify"},
           (l = "snapshot") => op # "delete",
           op \in {"refresh", "signOut", "signOutAll", "change", "delete"} => s \in Sids
    PROVE  ReqInv(r)'
<1>1. l \in Labels
  BY DEF Labels
<1>2. /\ pc'[r] = l
      /\ req'[r].op = op /\ req'[r].s = s /\ req'[r].g = g /\ req'[r].t = None
      /\ req'[r].want = {} /\ req'[r].got = {} /\ req'[r].known = Existing
      /\ \A x \in Rows : lock[x] # r
  BY <1>1, Begins
<1>3. KnownExists(r)'
  BY <1>2, ArrivalKnows
<1>4. Fits(r)'
  BY <1>2 DEF Fits, OpsAt
<1> QED
  BY <1>2, <1>3, <1>4
  DEF ReqInv, HoldsLittle, UpdatesOneKind, HoldsLiveToken, HoldsRecoveryToken, HoldsUser,
      Covers

\* sign_in_email: a wrong password is one more guess under way, which was let in
\* because the account was not locked.
LEMMA SignInReadStep ==
    ASSUME IInv, NEW r \in Requests, NEW correct \in BOOLEAN, SignInRead(r, correct)
    PROVE  IInv'
<1>1. /\ UNCHANGED <<user, password, sessions, tokens, lock, dropped>>
      /\ user.state # "none" /\ ~user.locked /\ (~correct => user.failures < MaxFailures)
      /\ guesses' = IF correct THEN guesses ELSE guesses + 1
  BY DEF SignInRead, tables
<1> DEFINE l == IF correct THEN "enter" ELSE "countFailure"
<1>2. Begin(r, "signIn", l, None, 0, None)
  BY DEF SignInRead
<1>3. /\ "signIn" \in Operations /\ l \in Labels /\ 0 \in 0..MaxGen
      /\ l = "enter" \/ l = "countFailure"
      /\ correct => l = "enter"
      /\ ~correct => l = "countFailure"
  BY AuthBoundsAssumption DEF Operations, Labels
<1> HIDE DEF l
<1>4. /\ pc[r] = "idle" /\ pc' = [pc EXCEPT ![r] = l]
      /\ req' \in [Requests -> RequestRow]
      /\ \A q \in Requests \ {r} : req'[q] = req[q]
  BY <1>2, <1>3, Begins
<1>5. ReqInv(r)'
  BY <1>1, <1>2, <1>3, FreshReqInv DEF tables, OpsAt
<1>6. lock' \in [Rows -> Requests \cup {None}] /\ OthersKeepLocks(r)
  BY <1>1, Types DEF IInv, OthersKeepLocks
<1>7. CASE correct
  BY <1>1, <1>3, <1>4, <1>5, <1>6, <1>7, Quiet DEF tables, history
<1>8. CASE ~correct
  <2>1. pc' = [pc EXCEPT ![r] = "countFailure"] /\ pc' \in [Requests -> Labels]
    BY <1>3, <1>4, <1>8, Types DEF IInv
  <2>2. TypeOK'
    BY <1>1, <1>4, <1>6, <1>8, <2>1, Types
    DEF IInv, TypeOK, UserRow, SessionRow, TokenRow, RequestRow
  <2>3. \A q \in Requests \ {r} : pc'[q] = pc[q] /\ req'[q] = req[q] /\ TablesKeep(q)
    BY <1>1, <1>4, TablesStay, Types DEF IInv
  <2>4. NothingBeforeSignUp' /\ UsesFollowState'
    BY <1>1 DEF IInv, NothingBeforeSignUp, UsesFollowState
  <2>5. GuessesCounted'
    <3>1. Guessing' = Guessing \cup {r} /\ r \notin Guessing
      BY <1>4, <2>1, Types DEF IInv, Guessing
    <3>2. /\ Cardinality(Guessing') = Cardinality(Guessing) + 1
          /\ Cardinality(Guessing') <= Cardinality(Requests)
      BY <3>1, GuessTypes, CountRequests, FS_AddElement
    <3>3. Counted' = Counted /\ Counted \in Int
      BY <1>1, <1>8, <3>2, GuessTypes DEF Counted
    <3> QED
      BY <1>1, <1>8, <3>2, <3>3, GuessTypes, AuthBoundsAssumption
      DEF IInv, GuessesCounted, Counted
  <2> QED
    BY <1>5, <1>6, <2>2, <2>3, <2>4, <2>5, Combine
<1> QED
  BY <1>7, <1>8

\* refresh_session, either SELECT ... FOR UPDATE: the row it finds is locked.
LEMMA FindStep ==
    ASSUME IInv, NEW r \in Requests, NEW s \in Sids, NEW g \in 0..MaxGen,
           FindLive(r, s, g) \/ FindPrevious(r, s, g)
    PROVE  IInv'
<1>1. UNCHANGED <<tables, history>> /\ RowFree(s) /\ lock' = [lock EXCEPT ![s] = r]
      /\ sessions[s].state = "present"
  BY DEF FindLive, FindPrevious, SelectForUpdate, Lock
<1>2. PICK l \in {"readUser", "snapshot"} :
        /\ Begin(r, "refresh", l, s, g, None)
        /\ l = "readUser" => sessions[s].gen = g /\ Refreshable(s) /\ g < MaxGen
  BY DEF FindLive, FindPrevious
<1>3. "refresh" \in Operations /\ l \in Labels \ {"countFailure"} /\ s \in Rows
  BY DEF Operations, Labels, Rows
<1>4. /\ pc[r] = "idle" /\ pc' = [pc EXCEPT ![r] = l] /\ pc'[r] = l
      /\ req' \in [Requests -> RequestRow]
      /\ \A q \in Requests \ {r} : req'[q] = req[q]
      /\ req'[r].op = "refresh" /\ req'[r].s = s /\ req'[r].g = g /\ req'[r].t = None
      /\ req'[r].want = {} /\ req'[r].got = {} /\ req'[r].known = Existing
  BY <1>2, <1>3, Begins
<1>5. user.state # "none"
  BY <1>1 DEF IInv, NothingBeforeSignUp
<1>6. lock' \in [Rows -> Requests \cup {None}] /\ OthersKeepLocks(r) /\ lock'[s] = r
  BY <1>1, <1>3, Types DEF IInv, OthersKeepLocks, RowFree
<1>7. ReqInv(r)'
  <2>1. KnownExists(r)'
    BY <1>1, <1>4, ArrivalKnows
  <2>2. Fits(r)'
    BY <1>4 DEF Fits, OpsAt
  <2>3. HoldsLiveToken(r)'
    BY <1>1, <1>2, <1>4, <1>6 DEF HoldsLiveToken, tables, Refreshable, Unrevoked
  <2> QED
    BY <1>4, <2>1, <2>2, <2>3
    DEF ReqInv, HoldsLittle, UpdatesOneKind, HoldsRecoveryToken, HoldsUser, Covers
<1> QED
  BY <1>1, <1>3, <1>4, <1>5, <1>6, <1>7, Quiet

\* The handlers behind the auth middleware.
LEMMA StartAuthenticatedStep ==
    ASSUME IInv, NEW r \in Requests, NEW op \in DOMAIN FirstLabel, NEW s \in Sids,
           StartAuthenticated(r, op, s)
    PROVE  IInv'
<1>1. UNCHANGED <<tables, lock, history>> /\ user.state # "none"
      /\ Begin(r, op, FirstLabel[op], s, 0, None)
  BY DEF StartAuthenticated, Accepts
<1>2. op \in {"signOut", "signOutAll", "change", "delete"}
  BY DEF FirstLabel
<1>3. /\ FirstLabel[op] \in {"signOutRow", "snapshot", "verifyCurrent", "lockUser"}
      /\ op \in OpsAt(FirstLabel[op]) /\ (FirstLabel[op] = "snapshot" => op # "delete")
  BY <1>2 DEF FirstLabel, OpsAt
<1>4. op \in Operations /\ FirstLabel[op] \in Labels \ {"countFailure"} /\ 0 \in 0..MaxGen
  BY <1>2, <1>3, AuthBoundsAssumption DEF Operations, Labels
<1>5. /\ pc[r] = "idle" /\ pc' = [pc EXCEPT ![r] = FirstLabel[op]]
      /\ req' \in [Requests -> RequestRow]
      /\ \A q \in Requests \ {r} : req'[q] = req[q]
  BY <1>1, <1>4, Begins
<1>6. ReqInv(r)'
  BY <1>1, <1>2, <1>3, <1>4, FreshReqInv
<1>7. lock' \in [Rows -> Requests \cup {None}] /\ OthersKeepLocks(r)
  BY <1>1, Types DEF IInv, OthersKeepLocks
<1> QED
  BY <1>1, <1>4, <1>5, <1>6, <1>7, Quiet

\* forget_password begins with the UPDATE that supersedes older tokens.
LEMMA ForgetPasswordStep ==
    ASSUME IInv, NEW r \in Requests, ForgetPassword(r)
    PROVE  IInv'
<1>1. UNCHANGED <<tables, lock, history>> /\ user.state # "none"
      /\ Begin(r, "forget", "snapshot", None, 0, None)
  BY DEF ForgetPassword
<1>2. "forget" \in Operations /\ "snapshot" \in Labels \ {"countFailure"} /\ 0 \in 0..MaxGen
  BY AuthBoundsAssumption DEF Operations, Labels
<1>3. /\ pc[r] = "idle" /\ pc' = [pc EXCEPT ![r] = "snapshot"]
      /\ req' \in [Requests -> RequestRow]
      /\ \A q \in Requests \ {r} : req'[q] = req[q]
  BY <1>1, <1>2, Begins
<1>4. ReqInv(r)'
  BY <1>1, <1>2, FreshReqInv DEF OpsAt
<1>5. lock' \in [Rows -> Requests \cup {None}] /\ OthersKeepLocks(r)
  BY <1>1, Types DEF IInv, OthersKeepLocks
<1> QED
  BY <1>1, <1>2, <1>3, <1>4, <1>5, Quiet

\* consume_verification_token locks the token for the rest of the transaction.
LEMMA ConsumeStep ==
    ASSUME IInv, NEW r \in Requests, NEW t \in Tokens, ResetPassword(r, t) \/ VerifyEmail(r, t)
    PROVE  IInv'
<1>1. UNCHANGED <<tables, history>> /\ RowFree(t) /\ lock' = [lock EXCEPT ![t] = r] /\ Open(t)
  BY DEF ResetPassword, VerifyEmail, Consumable
<1>2. PICK op \in {"reset", "verify"}, l \in {"findUser", "lockUser"} :
        /\ Begin(r, op, l, None, 0, t)
        /\ op = "reset" => l = "findUser"
        /\ op = "verify" => l = "lockUser" /\ tokens[t].purpose = "email_verify"
  BY DEF ResetPassword, VerifyEmail, Consumable
<1>3. op \in Operations /\ l \in Labels \ {"countFailure"} /\ 0 \in 0..MaxGen /\ t \in Rows
  BY AuthBoundsAssumption DEF Operations, Labels, Rows
<1>4. /\ pc[r] = "idle" /\ pc' = [pc EXCEPT ![r] = l] /\ pc'[r] = l
      /\ req' \in [Requests -> RequestRow]
      /\ \A q \in Requests \ {r} : req'[q] = req[q]
      /\ req'[r].op = op /\ req'[r].s = None /\ req'[r].t = t
      /\ req'[r].want = {} /\ req'[r].got = {} /\ req'[r].known = Existing
      /\ \A x \in Rows : lock[x] # r
  BY <1>2, <1>3, Begins
<1>5. user.state # "none"
  BY <1>1 DEF IInv, NothingBeforeSignUp, Open
<1>6. lock' \in [Rows -> Requests \cup {None}] /\ OthersKeepLocks(r) /\ lock'[t] = r
      /\ \A x \in Rows : lock'[x] = r => x = t
  BY <1>1, <1>3, <1>4, Types DEF IInv, OthersKeepLocks, RowFree
<1>7. ReqInv(r)'
  <2>1. KnownExists(r)'
    BY <1>1, <1>4, ArrivalKnows
  <2>2. Fits(r)' /\ HoldsLittle(r)'
    BY <1>2, <1>4, <1>6 DEF Fits, OpsAt, HoldsLittle
  <2>3. HoldsRecoveryToken(r)'
    BY <1>1, <1>2, <1>4, <1>6 DEF HoldsRecoveryToken, tables, Open
  <2> QED
    BY <1>4, <2>1, <2>2, <2>3 DEF ReqInv, UpdatesOneKind, HoldsLiveToken, HoldsUser, Covers
<1> QED
  BY <1>1, <1>3, <1>4, <1>5, <1>6, <1>7, Quiet

-----------------------------------------------------------------------------
\* Statements that read and lock

\* The fields of a request, and the rows.
LEMMA RequestTypes ==
    ASSUME IInv, NEW r \in Requests
    PROVE  /\ req \in [Requests -> RequestRow] /\ req[r] \in RequestRow
           /\ pc \in [Requests -> Labels] /\ lock \in [Rows -> Requests \cup {None}]
           /\ req[r].want \subseteq Rows /\ req[r].got \subseteq Rows
           /\ ReqInv(r)
           /\ {"user", "account"} \subseteq Rows /\ Sids \subseteq Rows /\ Tokens \subseteq Rows
  BY Types DEF IInv, RequestRow, Rows

\* A request that only moves on, or ends.
LEMMA ReadStep ==
    ASSUME IInv, NEW r \in Requests, NEW correct \in BOOLEAN,
           ReadUser(r) \/ VerifyCurrent(r, correct) \/ FindUser(r)
    PROVE  IInv'
<1>1. UNCHANGED <<tables, history>> /\ pc[r] \in {"readUser", "verifyCurrent", "findUser"}
  BY DEF ReadUser, VerifyCurrent, FindUser
<1>2. CASE Finish(r)
  BY <1>1, <1>2, QuietEnd
<1>3. CASE /\ UNCHANGED <<req, lock>>
           /\ \/ pc[r] = "readUser" /\ Goto(r, "rotate")
              \/ pc[r] \in {"verifyCurrent", "findUser"} /\ Goto(r, "lockAccount")
  <2>1. PICK l \in {"rotate", "lockAccount"} :
          /\ pc' = [pc EXCEPT ![r] = l]
          /\ (l = "rotate") <=> (pc[r] = "readUser")
    BY <1>1, <1>3 DEF Goto
  <2>2. l \in Labels \ {"countFailure"} /\ pc'[r] = l
    BY <2>1, RequestTypes DEF Labels
  <2>3. user.state # "none"
    BY <1>1, BusyHasUser
  <2>4. OthersKeepLocks(r) /\ UNCHANGED <<sessions, tokens>>
    BY <1>1, <1>3 DEF OthersKeepLocks, tables
  <2>5. ReqInv(r)'
    <3>1. Fits(r)'
      BY <1>1, <1>3, <2>1, <2>2, RequestTypes DEF ReqInv, Fits, OpsAt
    <3>2. HoldsLittle(r)'
      BY <1>1, <1>3, <2>1, <2>2, RequestTypes DEF ReqInv, HoldsLittle
    <3>3. UpdatesOneKind(r)' /\ HoldsRecoveryToken(r)' /\ HoldsUser(r)' /\ KnownExists(r)'
          /\ Covers(r)'
      BY <1>3, <2>1, <2>2, <2>4, RequestTypes
      DEF ReqInv, UpdatesOneKind, HoldsRecoveryToken, HoldsUser, KnownExists, Covers, Open
    <3>4. HoldsLiveToken(r)'
      BY <1>3, <2>1, <2>2, <2>4, RequestTypes DEF ReqInv, HoldsLiveToken, Unrevoked
    <3> QED
      BY <3>1, <3>2, <3>3, <3>4 DEF ReqInv
  <2> QED
    BY <1>1, <1>3, <2>1, <2>2, <2>3, <2>4, <2>5, RequestTypes, Quiet
<1> QED
  BY <1>2, <1>3 DEF ReadUser, VerifyCurrent, FindUser

\* The credential, if there is one.
LEMMA LockAccountStep ==
    ASSUME IInv, NEW r \in Requests, LockAccount(r)
    PROVE  IInv'
<1>1. /\ UNCHANGED <<tables, req, history>>
      /\ pc[r] = "lockAccount" \/ (pc[r] = "locking" /\ req[r].want = {} /\ req[r].op = "delete")
      /\ pc' = [pc EXCEPT ![r] = AfterAccount[req[r].op]]
      /\ lock' = lock \/ (lock["account"] = None /\ lock' = [lock EXCEPT !["account"] = r])
  BY DEF LockAccount, Ready, Goto, Lock, RowFree
<1>2. \/ req[r].op = "reset" /\ pc[r] = "lockAccount" /\ AfterAccount[req[r].op] = "lockUser"
      \/ req[r].op = "change" /\ pc[r] = "lockAccount" /\ AfterAccount[req[r].op] = "snapshot"
      \/ req[r].op = "delete" /\ pc[r] = "locking" /\ AfterAccount[req[r].op] = "commit"
  BY <1>1, RequestTypes DEF ReqInv, Fits, OpsAt, AfterAccount
<1>3. PICK l \in {"lockUser", "snapshot", "commit"} :
        /\ l = AfterAccount[req[r].op] /\ pc' = [pc EXCEPT ![r] = l] /\ pc'[r] = l
  BY <1>1, <1>2, RequestTypes
<1>4. l \in Labels \ {"countFailure"}
  BY DEF Labels
<1>5. user.state # "none"
  BY <1>1, BusyHasUser
<1>6. /\ lock' \in [Rows -> Requests \cup {None}] /\ OthersKeepLocks(r)
      /\ \A x \in Rows : lock[x] = r => lock'[x] = r
      /\ UNCHANGED <<sessions, tokens>>
  BY <1>1, RequestTypes DEF OthersKeepLocks, tables
<1>7. ReqInv(r)'
  <2>1. Fits(r)' /\ HoldsLittle(r)'
    BY <1>1, <1>2, <1>3, RequestTypes DEF ReqInv, Fits, OpsAt, HoldsLittle
  <2>2. UpdatesOneKind(r)'
    BY <1>1, <1>2, <1>3, <1>6, RequestTypes DEF ReqInv, UpdatesOneKind
  <2>3. HoldsRecoveryToken(r)' /\ KnownExists(r)'
    BY <1>1, <1>6, RequestTypes DEF ReqInv, Fits, HoldsRecoveryToken, KnownExists, Open
  <2>4. HoldsUser(r)' /\ HoldsLiveToken(r)'
    BY <1>1, <1>2, <1>3, <1>6, RequestTypes DEF ReqInv, HoldsUser, HoldsLiveToken
  <2>5. Covers(r)'
    BY <1>1, <1>2, <1>3, <1>6, RequestTypes DEF ReqInv, Covers, RowsToUpdate, Unrevoked
  <2> QED
    BY <2>1, <2>2, <2>3, <2>4, <2>5 DEF ReqInv
<1> QED
  BY <1>1, <1>3, <1>4, <1>5, <1>6, <1>7, RequestTypes, Quiet

\* The row of users.
LEMMA LockUserStep ==
    ASSUME IInv, NEW r \in Requests, LockUser(r)
    PROVE  IInv'
<1>1. UNCHANGED <<tables, history>> /\ pc[r] = "lockUser"
      /\ req[r].op \in {"reset", "delete", "verify"}
  BY RequestTypes DEF LockUser, ReqInv, Fits, OpsAt
<1>2. \/ Finish(r)
      \/ /\ UNCHANGED req
         /\ pc' = [pc EXCEPT ![r] = AfterUser[req[r].op]]
         /\ lock["user"] = None /\ lock' = [lock EXCEPT !["user"] = r]
      \/ /\ UNCHANGED <<req, lock>> /\ req[r].op = "verify"
         /\ pc' = [pc EXCEPT ![r] = "commit"]
  BY <1>1 DEF LockUser, Goto, Lock, RowFree
<1>3. CASE Finish(r)
  BY <1>1, <1>3, QuietEnd
<1>4. CASE ~Finish(r)
  <2>1. /\ req[r].op \in {"reset", "delete"} => AfterUser[req[r].op] = "snapshot"
        /\ req[r].op = "verify" => AfterUser[req[r].op] = "commit"
    BY <1>1 DEF AfterUser
  <2>2. PICK l \in {"snapshot", "commit"} :
          /\ pc' = [pc EXCEPT ![r] = l] /\ pc'[r] = l
          /\ l = "snapshot" => req[r].op \in {"reset", "delete"} /\ lock' = [lock EXCEPT !["user"] = r]
          /\ l = "commit" => req[r].op = "verify"
    BY <1>1, <1>2, <1>4, <2>1, RequestTypes
  <2>3. l \in Labels \ {"countFailure"}
    BY DEF Labels
  <2>4. user.state # "none"
    BY <1>1, BusyHasUser
  <2>5. /\ lock' \in [Rows -> Requests \cup {None}] /\ OthersKeepLocks(r)
        /\ \A x \in Rows : lock[x] = r => lock'[x] = r
        /\ UNCHANGED <<sessions, tokens, req>>
    BY <1>1, <1>2, <1>4, RequestTypes DEF OthersKeepLocks, tables
  <2>6. ReqInv(r)'
    <3>1. Fits(r)' /\ HoldsLittle(r)'
      BY <1>1, <2>2, <2>5, RequestTypes DEF ReqInv, Fits, OpsAt, HoldsLittle
    <3>2. UpdatesOneKind(r)'
      BY <1>1, <2>2, <2>5, RequestTypes DEF ReqInv, UpdatesOneKind
    <3>3. HoldsRecoveryToken(r)' /\ KnownExists(r)'
      BY <2>5, RequestTypes DEF ReqInv, Fits, HoldsRecoveryToken, KnownExists, Open
    <3>4. HoldsUser(r)' /\ HoldsLiveToken(r)' /\ Covers(r)'
      BY <2>2, <2>5, RequestTypes DEF HoldsUser, HoldsLiveToken, Covers
    <3> QED
      BY <3>1, <3>2, <3>3, <3>4 DEF ReqInv
  <2> QED
    BY <1>1, <2>2, <2>3, <2>4, <2>5, <2>6, RequestTypes, Quiet
<1> QED
  BY <1>3, <1>4

\* The rows an UPDATE of many rows can find.
LEMMA UpdatableRows ==
    ASSUME IInv, NEW r \in Requests
    PROVE  /\ RowsToUpdate(r) \subseteq Rows
           /\ \A x \in RowsToUpdate(r) :
                IF req[r].op = "forget"
                THEN /\ x \in Tokens
                     /\ tokens[x].state # "unused" /\ tokens[x].purpose = "password_reset"
                ELSE x \in Sids
  BY DEF RowsToUpdate, Rows, Open

\* Its snapshot has all of them.
LEMMA BeginUpdateStep ==
    ASSUME IInv, NEW r \in Requests, BeginUpdate(r)
    PROVE  IInv'
<1> DEFINE new == [req[r] EXCEPT !.want = RowsToUpdate(r)]
<1>1. /\ UNCHANGED <<tables, lock, history>> /\ pc[r] = "snapshot"
      /\ pc' = [pc EXCEPT ![r] = "locking"] /\ req' = [req EXCEPT ![r] = new]
  BY DEF BeginUpdate, Goto
<1>2. /\ new \in RequestRow /\ new.want = RowsToUpdate(r)
      /\ new.op = req[r].op /\ new.s = req[r].s /\ new.g = req[r].g /\ new.t = req[r].t
      /\ new.got = req[r].got /\ new.known = req[r].known
  BY RequestTypes, UpdatableRows DEF RequestRow
<1> HIDE DEF new
<1>3. /\ req' \in [Requests -> RequestRow] /\ req'[r] = new /\ pc'[r] = "locking"
      /\ \A q \in Requests \ {r} : req'[q] = req[q]
  BY <1>1, <1>2, RequestTypes
<1>4. user.state # "none" /\ "locking" \in Labels \ {"countFailure"}
  BY <1>1, BusyHasUser DEF Labels
<1>5. OthersKeepLocks(r) /\ UNCHANGED <<sessions, tokens>>
  BY <1>1 DEF OthersKeepLocks, tables
<1>6. RowsToUpdate(r)' = RowsToUpdate(r)
  BY <1>2, <1>3, <1>5 DEF RowsToUpdate, Open, Unrevoked
<1>7. ReqInv(r)'
  <2>1. Fits(r)' /\ HoldsLittle(r)'
    BY <1>1, <1>2, <1>3, RequestTypes DEF ReqInv, Fits, OpsAt, HoldsLittle
  <2>2. UpdatesOneKind(r)'
    BY <1>1, <1>2, <1>3, <1>5, RequestTypes, UpdatableRows DEF ReqInv, UpdatesOneKind
  <2>3. HoldsRecoveryToken(r)' /\ KnownExists(r)' /\ HoldsUser(r)' /\ HoldsLiveToken(r)'
    BY <1>1, <1>2, <1>3, <1>5, RequestTypes
    DEF ReqInv, HoldsRecoveryToken, KnownExists, HoldsUser, HoldsLiveToken, Open
  <2>4. Covers(r)'
    BY <1>2, <1>3, <1>6 DEF Covers
  <2> QED
    BY <2>1, <2>2, <2>3, <2>4 DEF ReqInv
<1> QED
  BY <1>1, <1>3, <1>4, <1>5, <1>7, RequestTypes, Quiet

\* One row after the other is done, or found to be no longer concerned.
LEMMA LockNextStep ==
    ASSUME IInv, NEW r \in Requests, LockNext(r)
    PROVE  IInv'
<1>1. UNCHANGED <<tables, pc, history>> /\ pc[r] = "locking"
  BY DEF LockNext
<1>2. PICK x \in req[r].want :
        /\ RowFree(x) \/ lock[x] = r
        /\ \/ /\ x \in RowsToUpdate(r)
              /\ lock' = [lock EXCEPT ![x] = r]
              /\ req' = [req EXCEPT ![r] = [req[r] EXCEPT !.want = req[r].want \ {x},
                                                          !.got = req[r].got \cup {x}]]
           \/ /\ x \notin RowsToUpdate(r) /\ UNCHANGED lock
              /\ req' = [req EXCEPT ![r] = [req[r] EXCEPT !.want = req[r].want \ {x}]]
  BY RequestTypes DEF LockNext, RequestRow
<1>3. PICK new \in RequestRow :
        /\ req' = [req EXCEPT ![r] = new]
        /\ new.op = req[r].op /\ new.s = req[r].s /\ new.g = req[r].g /\ new.t = req[r].t
        /\ new.known = req[r].known /\ new.want = req[r].want \ {x}
        /\ \/ /\ x \in RowsToUpdate(r) /\ new.got = req[r].got \cup {x}
              /\ lock' = [lock EXCEPT ![x] = r]
           \/ x \notin RowsToUpdate(r) /\ new.got = req[r].got /\ lock' = lock
  <2>1. [req[r] EXCEPT !.want = req[r].want \ {x}, !.got = req[r].got \cup {x}] \in RequestRow
    BY <1>2, RequestTypes DEF RequestRow
  <2>2. [req[r] EXCEPT !.want = req[r].want \ {x}] \in RequestRow
    BY <1>2, RequestTypes DEF RequestRow
  <2>3. CASE x \in RowsToUpdate(r)
    BY <1>2, <2>1, <2>3, RequestTypes DEF RequestRow
  <2>4. CASE x \notin RowsToUpdate(r)
    BY <1>2, <2>2, <2>4, RequestTypes DEF RequestRow
  <2> QED
    BY <2>3, <2>4
<1>4. /\ req' \in [Requests -> RequestRow] /\ req'[r] = new
      /\ \A q \in Requests \ {r} : req'[q] = req[q]
  BY <1>3, RequestTypes
<1>5. user.state # "none" /\ "locking" \in Labels \ {"countFailure"}
      /\ pc' = [pc EXCEPT ![r] = "locking"] /\ pc'[r] = "locking"
  BY <1>1, BusyHasUser, RequestTypes DEF Labels
<1>6. /\ lock' \in [Rows -> Requests \cup {None}] /\ OthersKeepLocks(r)
      /\ \A y \in Rows : lock[y] = r => lock'[y] = r
      /\ x \in RowsToUpdate(r) => lock'[x] = r
      /\ UNCHANGED <<sessions, tokens>>
  BY <1>1, <1>2, <1>3, RequestTypes DEF OthersKeepLocks, tables, RowFree
<1>7. RowsToUpdate(r)' = RowsToUpdate(r)
  BY <1>3, <1>4, <1>6 DEF RowsToUpdate, Open, Unrevoked
<1>8. ReqInv(r)'
  <2>1. Fits(r)' /\ HoldsLittle(r)'
    BY <1>1, <1>3, <1>4, <1>5, RequestTypes DEF ReqInv, Fits, OpsAt, HoldsLittle
  <2>2. UpdatesOneKind(r)'
    BY <1>2, <1>3, <1>4, <1>5, <1>6, RequestTypes DEF ReqInv, UpdatesOneKind
  <2>3. HoldsRecoveryToken(r)' /\ KnownExists(r)' /\ HoldsUser(r)' /\ HoldsLiveToken(r)'
    BY <1>1, <1>3, <1>4, <1>5, <1>6, RequestTypes
    DEF ReqInv, Fits, HoldsRecoveryToken, KnownExists, HoldsUser, HoldsLiveToken, Open
  <2>4. Covers(r)'
    BY <1>1, <1>3, <1>4, <1>5, <1>7, RequestTypes DEF ReqInv, Covers
  <2> QED
    BY <2>1, <2>2, <2>3, <2>4 DEF ReqInv
<1> QED
  BY <1>1, <1>4, <1>5, <1>6, <1>8, RequestTypes, Quiet

-----------------------------------------------------------------------------
\* Transactions that commit

\* What a step that ends request r must say of the tables.
LEMMA Ends ==
    ASSUME IInv, NEW r \in Requests, pc[r] # "idle", Finish(r),
           user' \in UserRow, user'.state # "none", password' \in BOOLEAN,
           sessions' \in [Sids -> SessionRow], tokens' \in [Tokens -> TokenRow],
           \A q \in Requests \ {r} : SessionsKeep(q) /\ TokensKeep(q),
           UsesFollowState',
           \/ /\ UNCHANGED history /\ pc[r] # "countFailure"
              /\ user'.failures = user.failures /\ user'.locked = user.locked
           \/ CleanSlate /\ pc[r] # "countFailure" /\ user'.failures \in {0, user.failures}
           \/ guesses' \in Nat /\ dropped' \in Nat /\ GuessesCounted'
    PROVE  IInv'
<1>0. guesses' \in Nat /\ dropped' \in Nat
  BY GuessTypes DEF CleanSlate, history
<1>1. TypeOK'
  BY <1>0, Finishes DEF TypeOK, UserRow, SessionRow, TokenRow, RequestRow
<1>2. NothingBeforeSignUp'
  BY DEF NothingBeforeSignUp
<1>3. GuessesCounted'
  <2>1. pc[r] # "countFailure" => Guessing' = Guessing
    BY Finishes DEF Guessing
  <2> QED
    BY <2>1, GuessesKept
<1> QED
  BY <1>1, <1>2, <1>3, Finishes, Combine DEF TablesKeep

\* Tables that stay as they are.
LEMMA StaysAsItIs ==
    /\ UNCHANGED sessions => \A q \in Requests : SessionsKeep(q)
    /\ UNCHANGED tokens => \A q \in Requests : TokensKeep(q)
    /\ IInv /\ UNCHANGED tokens => UsesFollowState'
  BY DEF SessionsKeep, TokensKeep, Unrevoked, Open, IInv, UsesFollowState

\* The rows of the tables.
LEMMA TableTypes ==
    ASSUME IInv
    PROVE  /\ user \in UserRow /\ user.failures \in 0..MaxFailures + Cardinality(Requests)
           /\ password \in BOOLEAN
           /\ sessions \in [Sids -> SessionRow] /\ tokens \in [Tokens -> TokenRow]
  BY Types DEF IInv, UserRow

\* A request that is under way.
LEMMA Busy ==
    ASSUME IInv, NEW r \in Requests, pc[r] # "idle"
    PROVE  user.state \in {"active", "deleted"}
  BY BusyHasUser, TableTypes DEF UserRow

\* A clean slate.
LEMMA ClearedUser ==
    ASSUME IInv, user' = [user EXCEPT !.failures = 0, !.locked = FALSE]
    PROVE  user' \in UserRow /\ user'.state = user.state /\ user'.failures = 0
<1>1. 0 \in 0..MaxFailures + Cardinality(Requests)
  BY CountRequests, AuthBoundsAssumption
<1> QED
  BY <1>1, TableTypes DEF UserRow

\* A new session.
LEMMA NewSessionRow == NewSession \in SessionRow /\ NewSession.state = "present"
<1>1. 0 \in 0..MaxGen
  BY AuthBoundsAssumption
<1>2. NoSession \in SessionRow
  BY <1>1 DEF NoSession, SessionRow
<1> QED
  BY <1>2 DEF NewSession, SessionRow

\* A sign-in that waits for the user's row adds a session that no revocation under
\* the user's lock has to cover.
LEMMA SignInEnterStep ==
    ASSUME IInv, NEW r \in Requests, NEW s \in Sids, SignInEnter(r, s)
    PROVE  IInv'
<1>1. /\ pc[r] \notin {"idle", "countFailure"} /\ Finish(r) /\ lock["user"] = None
      /\ sessions[s].state = "unused" /\ sessions' = [sessions EXCEPT ![s] = NewSession]
      /\ user' = [user EXCEPT !.failures = 0, !.locked = FALSE]
      /\ CleanSlate /\ UNCHANGED <<password, tokens>>
  BY DEF SignInEnter, EntersAfterLock, RowFree
<1>2. NewSession \in SessionRow /\ NewSession.state = "present"
  BY NewSessionRow
<1>3. sessions' \in [Sids -> SessionRow]
  BY <1>1, <1>2, TableTypes
<1>4. \A q \in Requests : SessionsKeep(q)
  <2>1. \A q \in Requests : ~Revoking(q)
    BY <1>1, AuthNoneAssumption DEF IInv, ReqInv, HoldsUser, Revoking
  <2> QED
    BY <1>1, <1>2, <2>1, TableTypes DEF SessionsKeep, Unrevoked
<1>5. user' \in UserRow /\ user'.state # "none" /\ user'.failures = 0
  BY <1>1, ClearedUser, Busy
<1> QED
  BY <1>1, <1>3, <1>4, <1>5, StaysAsItIs, TableTypes, Ends

\* A guess that is not under way any more.
LEMMA OneGuessLess ==
    ASSUME IInv, NEW r \in Requests, pc[r] = "countFailure", Finish(r)
    PROVE  Cardinality(Guessing') = Cardinality(Guessing) - 1 /\ Cardinality(Guessing) >= 1
<1>1. r \in Guessing /\ Guessing' = Guessing \ {r}
  BY Finishes DEF Guessing
<1>2. Cardinality(Guessing \ {r}) = Cardinality(Guessing) - 1
      /\ Cardinality(Guessing \ {r}) \in Nat
  BY <1>1, GuessTypes, FS_RemoveElement, FS_CardinalityType
<1> QED
  BY <1>1, <1>2, GuessTypes

\* A failure that was let in is counted.
LEMMA CountFailureStep ==
    ASSUME IInv, NEW r \in Requests, CountFailure(r)
    PROVE  IInv'
<1>1. /\ pc[r] = "countFailure" /\ Finish(r)
      /\ user' = [user EXCEPT !.failures = user.failures + 1,
                              !.locked = LocksOut(user.failures) \/ user.locked]
      /\ UNCHANGED <<password, sessions, tokens, guesses, dropped>>
  BY DEF CountFailure, history
<1>2. Cardinality(Guessing') = Cardinality(Guessing) - 1 /\ Cardinality(Guessing) >= 1
  BY <1>1, OneGuessLess
<1>3. user.failures + 1 \in 0..MaxFailures + Cardinality(Requests)
  BY <1>2, GuessTypes, AuthBoundsAssumption DEF IInv, GuessesCounted
<1>4. /\ user' \in UserRow /\ user'.failures = user.failures + 1 /\ user'.state = user.state
      /\ user'.locked = (LocksOut(user.failures) \/ user.locked)
  BY <1>1, <1>3, TableTypes DEF UserRow, LocksOut
<1>5. GuessesCounted'
  <2>1. Counted' = Counted + 1 /\ Counted \in Int
    BY <1>1, <1>2, GuessTypes DEF Counted
  <2>2. ~user'.locked => Counted' < Threshold
    <3>1. Counted <= user.failures
      BY DEF IInv, GuessesCounted
    <3>2. ~user'.locked => ~(user.failures + 1 >= Threshold)
      BY <1>4 DEF LocksOut
    <3> QED
      BY <2>1, <3>1, <3>2, GuessTypes, AuthBoundsAssumption
  <2> QED
    BY <1>1, <1>2, <1>4, <2>1, <2>2, GuessTypes, AuthBoundsAssumption DEF IInv, GuessesCounted
<1>6. user'.state # "none"
  BY <1>1, <1>4, Busy
<1> QED
  BY <1>1, <1>4, <1>5, <1>6, GuessTypes, StaysAsItIs, TableTypes, Ends

\* The rotation of a session whose row the request has locked.
LEMMA RotateStep ==
    ASSUME IInv, NEW r \in Requests, Rotate(r)
    PROVE  IInv'
<1> DEFINE s == req[r].s
<1>1. /\ pc[r] = "rotate" /\ Finish(r) /\ UNCHANGED <<user, password, tokens, history>>
      /\ sessions' = [sessions EXCEPT ![s] = Rotated(sessions[s])]
  BY DEF Rotate
<1>2. /\ s \in Sids /\ lock[s] = r /\ sessions[s].gen < MaxGen
  BY <1>1, RequestTypes DEF ReqInv, Fits, OpsAt, HoldsLiveToken
<1> HIDE DEF s
<1>3. sessions[s] \in SessionRow
  BY <1>2, TableTypes
<1>4. sessions[s].gen + 1 \in 0..MaxGen
  BY <1>2, <1>3, AuthBoundsAssumption DEF SessionRow
<1>5. /\ Rotated(sessions[s]) \in SessionRow /\ Rotated(sessions[s]).state = sessions[s].state
      /\ Rotated(sessions[s]).revoked = sessions[s].revoked
  BY <1>3, <1>4 DEF Rotated, SessionRow
<1>6. sessions' \in [Sids -> SessionRow]
  BY <1>1, <1>5, TableTypes
<1>7. \A q \in Requests \ {r} : SessionsKeep(q)
  BY <1>1, <1>2, <1>5, TableTypes DEF SessionsKeep, Unrevoked
<1>8. user'.state # "none"
  BY <1>1, Busy
<1> QED
  BY <1>1, <1>6, <1>7, <1>8, StaysAsItIs, TableTypes, Ends

\* sign_out of a session that nobody has locked.
LEMMA SignOutRowStep ==
    ASSUME IInv, NEW r \in Requests, SignOutRow(r)
    PROVE  IInv'
<1> DEFINE s == req[r].s
           gone == [sessions[s] EXCEPT !.revoked = sessions[s].revoked \/ sessions[s].state = "present"]
<1>1. s \in Sids /\ pc[r] = "signOutRow"
  BY RequestTypes DEF SignOutRow, ReqInv, Fits, OpsAt
<1>2. /\ Finish(r) /\ UNCHANGED <<user, password, tokens, history>> /\ lock[s] = None
      /\ sessions' = [sessions EXCEPT ![s] = gone]
  BY <1>1, TableTypes DEF SignOutRow, RowFree
<1>3. sessions[s] \in SessionRow
  BY <1>1, TableTypes
<1> HIDE DEF s
<1>4. gone \in SessionRow /\ gone.state = sessions[s].state /\ (sessions[s].revoked => gone.revoked)
  BY <1>3 DEF SessionRow
<1> HIDE DEF gone
<1>5. sessions' \in [Sids -> SessionRow]
  BY <1>2, <1>4, TableTypes
<1>6. \A q \in Requests : SessionsKeep(q)
  BY <1>1, <1>2, <1>4, TableTypes, AuthNoneAssumption DEF SessionsKeep, Unrevoked
<1>7. user'.state # "none"
  BY <1>1, <1>2, Busy
<1> QED
  BY <1>1, <1>2, <1>5, <1>6, <1>7, StaysAsItIs, TableTypes, Ends

\* A revocation changes the sessions the request has locked, and only revokes.
LEMMA Revokes ==
    ASSUME IInv, NEW r \in Requests, RevokeRows(r)
    PROVE  /\ sessions' \in [Sids -> SessionRow]
           /\ \A q \in Requests \ {r} : SessionsKeep(q)
           /\ \A s \in Sids : Unrevoked(s)' => Unrevoked(s) /\ s \notin req[r].got
<1>1. \A s \in req[r].got : lock[s] = r
  BY RequestTypes DEF ReqInv, UpdatesOneKind
<1>2. \A s \in Sids :
        /\ sessions'[s] \in SessionRow
        /\ sessions'[s].state = sessions[s].state
        /\ sessions'[s].revoked = (sessions[s].revoked \/ s \in req[r].got)
        /\ s \notin req[r].got => sessions'[s] = sessions[s]
  <2> TAKE s \in Sids
  <2>1. sessions[s] \in SessionRow
    BY TableTypes
  <2>2. sessions'[s] = [sessions[s] EXCEPT !.revoked = sessions[s].revoked \/ s \in req[r].got]
    BY DEF RevokeRows
  <2>3. s \notin req[r].got => sessions'[s] = sessions[s]
    BY <2>1, <2>2 DEF SessionRow
  <2> QED
    BY <2>1, <2>2, <2>3 DEF SessionRow
<1>3. sessions' = [s \in Sids |-> sessions'[s]]
  BY DEF RevokeRows
<1>4. sessions' \in [Sids -> SessionRow]
  BY <1>2, <1>3
<1>5. \A s \in Sids : Unrevoked(s)' => Unrevoked(s) /\ s \notin req[r].got
  BY <1>2 DEF Unrevoked
<1>6. \A q \in Requests \ {r} : SessionsKeep(q)
  BY <1>1, <1>2, <1>5 DEF SessionsKeep
<1> QED
  BY <1>4, <1>5, <1>6

\* The token of a recovery takes effect while the request holds it open.
LEMMA Uses ==
    ASSUME IInv, NEW r \in Requests, req[r].op \in {"reset", "verify"},
           tokens' = UseToken(req[r].t)
    PROVE  /\ tokens' \in [Tokens -> TokenRow] /\ UsesFollowState'
           /\ \A q \in Requests \ {r} : TokensKeep(q)
<1> DEFINE t == req[r].t
           used == [tokens[t] EXCEPT !.state = "consumed", !.uses = 1]
<1>1. t \in Tokens /\ lock[t] = r /\ Open(t)
  BY RequestTypes DEF ReqInv, Fits, HoldsRecoveryToken
<1>2. tokens[t] \in TokenRow /\ tokens[t].uses = 0
  BY <1>1, TableTypes DEF IInv, UsesFollowState, Open
<1>3. tokens' = [tokens EXCEPT ![t] = used]
  BY <1>1, <1>2, TableTypes DEF UseToken, TokenRow
<1> HIDE DEF t
<1>4. used \in TokenRow /\ used.state = "consumed" /\ used.uses = 1 /\ used.purpose = tokens[t].purpose
  BY <1>2 DEF TokenRow
<1> HIDE DEF used
<1>5. tokens' \in [Tokens -> TokenRow]
  BY <1>3, <1>4, TableTypes
<1>6. \A u \in Tokens : tokens'[u] = IF u = t THEN used ELSE tokens[u]
  BY <1>3, TableTypes
<1>7. UsesFollowState'
  BY <1>4, <1>6 DEF IInv, UsesFollowState
<1>8. \A q \in Requests \ {r} : TokensKeep(q)
  BY <1>1, <1>4, <1>6 DEF TokensKeep, Open
<1> QED
  BY <1>5, <1>7, <1>8

\* sign_out_all, change_password and the replay of a rotated token.
LEMMA RevokeStep ==
    ASSUME IInv, NEW r \in Requests,
           CommitSignOutAll(r) \/ CommitReplay(r) \/ CommitChangePassword(r)
    PROVE  IInv'
<1>1. /\ pc[r] \notin {"idle", "countFailure"} /\ Finish(r) /\ RevokeRows(r)
      /\ UNCHANGED <<user, password, tokens, history>>
  BY DEF CommitSignOutAll, CommitReplay, CommitChangePassword, Ready
<1>2. user'.state # "none"
  BY <1>1, Busy
<1> QED
  BY <1>1, <1>2, Revokes, StaysAsItIs, TableTypes, Ends

\* reset_password.
LEMMA ResetStep ==
    ASSUME IInv, NEW r \in Requests, CommitResetPassword(r)
    PROVE  IInv'
<1>1. /\ pc[r] = "locking" /\ req[r].op = "reset" /\ Finish(r) /\ RevokeRows(r)
      /\ user' = [user EXCEPT !.failures = 0, !.locked = FALSE]
      /\ tokens' = UseToken(req[r].t) /\ CleanSlate /\ UNCHANGED password
  BY DEF CommitResetPassword, Ready
<1>2. user' \in UserRow /\ user'.state # "none" /\ user'.failures = 0
  BY <1>1, Busy, ClearedUser
<1> QED
  BY <1>1, <1>2, Revokes, Uses, TableTypes, Ends

\* delete_account.
LEMMA DeleteStep ==
    ASSUME IInv, NEW r \in Requests, CommitDeleteAccount(r)
    PROVE  IInv'
<1>1. /\ pc[r] \notin {"idle", "countFailure"} /\ Finish(r) /\ RevokeRows(r)
      /\ user' = [user EXCEPT !.state = "deleted"] /\ password' = FALSE
      /\ UNCHANGED <<tokens, history>>
  BY DEF CommitDeleteAccount
<1>2. /\ user' \in UserRow /\ user'.state # "none" /\ user'.failures = user.failures
      /\ user'.locked = user.locked
  BY <1>1, TableTypes DEF UserRow
<1> QED
  BY <1>1, <1>2, Revokes, StaysAsItIs, TableTypes, Ends

\* verify_email.
LEMMA VerifyStep ==
    ASSUME IInv, NEW r \in Requests, CommitVerifyEmail(r)
    PROVE  IInv'
<1>1. /\ pc[r] = "commit" /\ req[r].op = "verify" /\ Finish(r)
      /\ user' = [user EXCEPT !.verified = user.verified \/ lock["user"] = r]
      /\ tokens' = UseToken(req[r].t) /\ UNCHANGED <<password, sessions, history>>
  BY DEF CommitVerifyEmail
<1>2. /\ user' \in UserRow /\ user'.state = user.state /\ user'.failures = user.failures
      /\ user'.locked = user.locked
  BY <1>1, TableTypes DEF UserRow
<1>3. user'.state # "none"
  BY <1>1, <1>2, Busy
<1> QED
  BY <1>1, <1>2, <1>3, Uses, StaysAsItIs, TableTypes, Ends

\* A new token of a purpose.
LEMMA NewTokenRow ==
    ASSUME NEW p \in Purposes
    PROVE  /\ NewToken(p) \in TokenRow /\ NewToken(p).state = "open"
           /\ NewToken(p).uses = 0 /\ NewToken(p).purpose = p
<1>1. NoToken \in TokenRow /\ NoToken.uses = 0
  BY DEF NoToken, TokenRow, Purposes
<1> QED
  BY <1>1 DEF NewToken, TokenRow

\* forget_password supersedes the tokens it has locked and adds one.
LEMMA ForgetStep ==
    ASSUME IInv, NEW r \in Requests, NEW t \in Tokens, CommitForgetPassword(r, t)
    PROVE  IInv'
<1> DEFINE new == NewToken("password_reset")
           gone(u) == [tokens[u] EXCEPT !.state = "consumed"]
<1>1. /\ pc[r] = "locking" /\ req[r].op = "forget" /\ Finish(r) /\ tokens[t].state = "unused"
      /\ tokens' = [u \in Tokens |->
                      IF u = t THEN new ELSE IF u \in req[r].got THEN gone(u) ELSE tokens[u]]
      /\ UNCHANGED <<user, password, sessions, history>>
  BY DEF CommitForgetPassword, Ready
<1>2. new \in TokenRow /\ new.state = "open" /\ new.uses = 0
  BY NewTokenRow DEF Purposes
<1>3. \A u \in Tokens :
        /\ gone(u) \in TokenRow /\ gone(u).state = "consumed"
        /\ gone(u).uses = tokens[u].uses /\ gone(u).purpose = tokens[u].purpose
  BY TableTypes DEF TokenRow
<1>4. \A u \in req[r].got : lock[u] = r
  BY RequestTypes DEF ReqInv, UpdatesOneKind
<1> HIDE DEF new, gone
<1>5. tokens' \in [Tokens -> TokenRow]
  BY <1>1, <1>2, <1>3, TableTypes
<1>6. \A u \in Tokens :
        \/ u = t /\ tokens'[u] = new
        \/ u # t /\ u \in req[r].got /\ tokens'[u] = gone(u)
        \/ u # t /\ u \notin req[r].got /\ tokens'[u] = tokens[u]
  BY <1>1
<1>7. UsesFollowState'
  BY <1>2, <1>3, <1>6 DEF IInv, UsesFollowState
<1>8. \A q \in Requests \ {r} : TokensKeep(q)
  BY <1>1, <1>2, <1>3, <1>4, <1>6 DEF TokensKeep, Open
<1>9. user'.state # "none"
  BY <1>1, Busy
<1> QED
  BY <1>1, <1>5, <1>7, <1>8, <1>9, StaysAsItIs, TableTypes, Ends

\* A transaction that is rolled back.
LEMMA AbortStep ==
    ASSUME IInv, NEW r \in Requests, Abort(r) \/ DeadlockAbort(r)
    PROVE  IInv'
<1>1. /\ Finish(r) /\ UNCHANGED <<user, password, sessions, tokens, guesses>>
      /\ dropped' = IF pc[r] = "countFailure" THEN dropped + 1 ELSE dropped
  BY DEF Abort, DeadlockAbort, RollBack, Guessing, tables
<1>2. pc[r] # "idle"
  <2>1. Deadlocked(r) => Needs(r) # {}
    BY DEF Deadlocked, WaitsFor
  <2>2. pc[r] = "idle" => Needs(r) = {}
    BY DEF Needs
  <2> QED
    BY <2>1, <2>2 DEF Abort, DeadlockAbort
<1>3. CASE pc[r] # "countFailure"
  BY <1>1, <1>2, <1>3, QuietEnd DEF tables, history
<1>4. CASE pc[r] = "countFailure"
  <2>1. Cardinality(Guessing') = Cardinality(Guessing) - 1
    BY <1>1, <1>4, OneGuessLess
  <2>2. Counted' = Counted
    BY <1>1, <1>4, <2>1, GuessTypes DEF Counted
  <2>3. GuessesCounted'
    BY <1>1, <1>4, <2>1, <2>2, GuessTypes, AuthBoundsAssumption DEF IInv, GuessesCounted
  <2>4. user'.state # "none"
    BY <1>1, <1>2, Busy
  <2> QED
    BY <1>1, <1>2, <1>4, <2>3, <2>4, GuessTypes, StaysAsItIs, TableTypes, Ends
<1> QED
  BY <1>3, <1>4

-----------------------------------------------------------------------------
\* Steps of nobody's request

\* What a step outside the requests must say of the tables.
LEMMA Outside ==
    ASSUME IInv, UNCHANGED <<lock, pc, req>>,
           user' \in UserRow, user'.state # "none", password' \in BOOLEAN,
           sessions' \in [Sids -> SessionRow], tokens' \in [Tokens -> TokenRow],
           \A q \in Requests : SessionsKeep(q) /\ TokensKeep(q),
           UsesFollowState',
           \/ /\ UNCHANGED history
              /\ user'.failures = user.failures /\ user'.locked = user.locked
           \/ CleanSlate /\ user'.failures \in {0, user.failures}
    PROVE  IInv'
<1>0. guesses' \in Nat /\ dropped' \in Nat
  BY GuessTypes DEF CleanSlate, history
<1>1. TypeOK'
  BY <1>0, Types DEF IInv, TypeOK, UserRow, SessionRow, TokenRow, RequestRow
<1>2. NothingBeforeSignUp'
  BY DEF NothingBeforeSignUp
<1>3. GuessesCounted'
  BY GuessesKept DEF Guessing
<1>4. \A q \in Requests : ReqInv(q)'
  BY Frame DEF TablesKeep
<1> QED
  BY <1>1, <1>2, <1>3, <1>4 DEF IInv

\* A clean slate for the row of a new account.
LEMMA NewUserRow ==
    [state |-> "active", banned |-> FALSE, verified |-> FALSE, failures |-> 0,
     locked |-> FALSE] \in UserRow
<1>1. 0 \in 0..MaxFailures + Cardinality(Requests)
  BY CountRequests, AuthBoundsAssumption
<1> QED
  BY <1>1 DEF UserRow

\* sign_up_email finds no request that relies on a session, and supersedes only
\* tokens that nobody holds.
LEMMA SignUpStep ==
    ASSUME IInv, NEW s \in Sids, NEW t \in Tokens, SignUp(s, t)
    PROVE  IInv'
<1> DEFINE new == NewToken("email_verify")
           used(u) == [tokens[u] EXCEPT !.state = "consumed"]
           gone(x) == [sessions[x] EXCEPT !.state = "gone"]
<1>1. /\ user' = [state |-> "active", banned |-> FALSE, verified |-> FALSE, failures |-> 0,
                  locked |-> FALSE]
      /\ sessions[s].state = "unused" /\ tokens[t].state = "unused"
      /\ sessions' = [x \in Sids |->
                        IF x = s THEN NewSession
                        ELSE IF sessions[x].state = "present" THEN gone(x) ELSE sessions[x]]
      /\ tokens' = [u \in Tokens |->
                      IF u = t THEN new
                      ELSE IF u \in OpenVerifications THEN used(u) ELSE tokens[u]]
      /\ \A u \in OpenVerifications : lock[u] = None
      /\ \A q \in Requests : OnlyByAddress(q)
      /\ password' = TRUE /\ CleanSlate /\ UNCHANGED <<lock, pc, req>>
  BY DEF SignUp, RowFree
<1>2. user' \in UserRow /\ user'.state # "none" /\ user'.failures = 0
  BY <1>1, NewUserRow
<1>3. NewSession \in SessionRow /\ NewSession.state = "present"
  BY NewSessionRow
<1>4. new \in TokenRow /\ new.uses = 0 /\ new.state = "open"
  BY NewTokenRow DEF Purposes
<1>5. \A u \in Tokens :
        /\ used(u) \in TokenRow /\ used(u).state = "consumed"
        /\ used(u).uses = tokens[u].uses /\ used(u).purpose = tokens[u].purpose
  BY TableTypes DEF TokenRow
<1>6. \A x \in Sids : gone(x) \in SessionRow /\ gone(x).state = "gone"
  BY TableTypes DEF SessionRow
<1> HIDE DEF new, used, gone
<1>7. sessions' \in [Sids -> SessionRow] /\ tokens' \in [Tokens -> TokenRow]
  BY <1>1, <1>3, <1>4, <1>5, <1>6, TableTypes
<1>8. \A x \in Sids :
        \/ x = s /\ sessions'[x] = NewSession
        \/ x # s /\ sessions[x].state = "present" /\ sessions'[x] = gone(x)
        \/ x # s /\ sessions[x].state # "present" /\ sessions'[x] = sessions[x]
  BY <1>1
<1>9. \A u \in Tokens :
        \/ u = t /\ tokens'[u] = new
        \/ u # t /\ u \in OpenVerifications /\ tokens'[u] = used(u)
        \/ u # t /\ tokens'[u] = tokens[u]
  BY <1>1
<1>10. \A q \in Requests : ~Revoking(q) /\ pc[q] \notin {"readUser", "rotate"}
  <2> TAKE q \in Requests
  <2>1. OnlyByAddress(q) /\ Fits(q)
    BY <1>1, RequestTypes DEF ReqInv
  <2> QED
    BY <2>1 DEF OnlyByAddress, Fits, OpsAt, Revoking
<1>11. \A q \in Requests : SessionsKeep(q)
  BY <1>1, <1>3, <1>6, <1>8, <1>10 DEF SessionsKeep, Unrevoked
<1>12. \A q \in Requests : TokensKeep(q)
  BY <1>1, <1>4, <1>5, <1>9, AuthNoneAssumption DEF TokensKeep, Open, OpenVerifications
<1>13. UsesFollowState'
  BY <1>4, <1>5, <1>9 DEF IInv, UsesFollowState
<1> QED
  BY <1>1, <1>2, <1>7, <1>11, <1>12, <1>13, Outside

\* Time passes over rows that nobody holds.
LEMMA ExpireStep ==
    ASSUME IInv, Expire
    PROVE  IInv'
<1>1. UNCHANGED <<password, lock, pc, req>>
  BY DEF Expire
<1>2. CASE /\ \E s \in Sids : /\ sessions[s].state = "present" /\ lock[s] = None
                             /\ sessions' = [sessions EXCEPT ![s].expired = TRUE]
           /\ UNCHANGED <<user, tokens, history>>
  <2>1. PICK s \in Sids : /\ sessions[s].state = "present" /\ lock[s] = None
                         /\ sessions' = [sessions EXCEPT ![s].expired = TRUE]
    BY <1>2
  <2>2. PICK row \in SessionRow :
          /\ sessions' = [sessions EXCEPT ![s] = row]
          /\ row.state = sessions[s].state /\ row.revoked = sessions[s].revoked
    <3>1. sessions[s] \in SessionRow
      BY TableTypes
    <3>2. [sessions[s] EXCEPT !.expired = TRUE] \in SessionRow
      BY <3>1 DEF SessionRow
    <3> QED
      BY <2>1, <3>1, <3>2, TableTypes DEF SessionRow
  <2>3. sessions' \in [Sids -> SessionRow]
    BY <2>2, TableTypes
  <2>4. \A q \in Requests : SessionsKeep(q)
    BY <2>1, <2>2, TableTypes, AuthNoneAssumption DEF SessionsKeep, Unrevoked
  <2>5. user'.state # "none"
    BY <1>2, <2>1 DEF IInv, NothingBeforeSignUp
  <2> QED
    BY <1>1, <1>2, <2>3, <2>4, <2>5, StaysAsItIs, TableTypes, Outside
<1>3. CASE /\ \E t \in Tokens : /\ Open(t) /\ lock[t] = None
                               /\ tokens' = [tokens EXCEPT ![t].expired = TRUE]
           /\ UNCHANGED <<user, sessions, history>>
  <2>1. PICK t \in Tokens : /\ Open(t) /\ lock[t] = None
                           /\ tokens' = [tokens EXCEPT ![t].expired = TRUE]
    BY <1>3
  <2>2. PICK row \in TokenRow :
          /\ tokens' = [tokens EXCEPT ![t] = row]
          /\ row.state = tokens[t].state /\ row.purpose = tokens[t].purpose
          /\ row.uses = tokens[t].uses
    <3>1. tokens[t] \in TokenRow
      BY TableTypes
    <3>2. [tokens[t] EXCEPT !.expired = TRUE] \in TokenRow
      BY <3>1 DEF TokenRow
    <3> QED
      BY <2>1, <3>1, <3>2, TableTypes DEF TokenRow
  <2>3. tokens' \in [Tokens -> TokenRow]
    BY <2>2, TableTypes
  <2>4. \A q \in Requests : TokensKeep(q)
    BY <2>1, <2>2, TableTypes, AuthNoneAssumption DEF TokensKeep, Open
  <2>5. UsesFollowState'
    BY <2>2, TableTypes DEF IInv, UsesFollowState
  <2>6. user'.state # "none"
    BY <1>3, <2>1 DEF IInv, NothingBeforeSignUp, Open
  <2> QED
    BY <1>1, <1>3, <2>3, <2>4, <2>5, <2>6, StaysAsItIs, TableTypes, Outside
<1>4. CASE /\ user.locked /\ user' = [user EXCEPT !.locked = FALSE] /\ CleanSlate
           /\ UNCHANGED <<sessions, tokens>>
  <2>1. user' \in UserRow /\ user'.state = user.state /\ user'.failures = user.failures
    BY <1>4, TableTypes DEF UserRow
  <2>2. user.state # "none"
    BY <1>4 DEF IInv, NothingBeforeSignUp
  <2> QED
    BY <1>1, <1>4, <2>1, <2>2, StaysAsItIs, TableTypes, Outside
<1> QED
  BY <1>2, <1>3, <1>4 DEF Expire, RowFree

\* The hourly cleanup, and an operator.
LEMMA ReapStep ==
    ASSUME IInv, ReapSessions
    PROVE  IInv'
<1>1. PICK s \in Sids : /\ sessions[s].state = "present" /\ lock[s] = None
                       /\ sessions' = [sessions EXCEPT ![s].state = "gone"]
  BY DEF ReapSessions, RowFree
<1>2. UNCHANGED <<user, password, tokens, lock, pc, req, history>>
  BY DEF ReapSessions
<1>3. PICK row \in SessionRow :
        sessions' = [sessions EXCEPT ![s] = row] /\ row.state = "gone"
  <2>1. sessions[s] \in SessionRow
    BY TableTypes
  <2>2. [sessions[s] EXCEPT !.state = "gone"] \in SessionRow
    BY <2>1 DEF SessionRow
  <2> QED
    BY <1>1, <2>1, <2>2, TableTypes DEF SessionRow
<1>4. sessions' \in [Sids -> SessionRow]
  BY <1>3, TableTypes
<1>5. \A q \in Requests : SessionsKeep(q)
  BY <1>1, <1>3, TableTypes, AuthNoneAssumption DEF SessionsKeep, Unrevoked
<1>6. user'.state # "none"
  BY <1>1, <1>2 DEF IInv, NothingBeforeSignUp
<1> QED
  BY <1>2, <1>4, <1>5, <1>6, StaysAsItIs, TableTypes, Outside

\* A suspension, or its end.
LEMMA SetBannedStep ==
    ASSUME IInv, NEW b \in BOOLEAN, SetBanned(b)
    PROVE  IInv'
<1>1. /\ user.state = "active" /\ user' = [user EXCEPT !.banned = b]
      /\ UNCHANGED <<password, sessions, tokens, lock, pc, req, history>>
  BY DEF SetBanned
<1>2. /\ user' \in UserRow /\ user'.state # "none" /\ user'.failures = user.failures
      /\ user'.locked = user.locked
  BY <1>1, TableTypes DEF UserRow
<1> QED
  BY <1>1, <1>2, StaysAsItIs, TableTypes, Outside

-----------------------------------------------------------------------------
\* The theorems

\* Every step keeps the invariant.
LEMMA NextKeepsIInv == IInv /\ [Next]_vars => IInv'
<1> SUFFICES ASSUME IInv, [Next]_vars
             PROVE  IInv'
  OBVIOUS
<1>1. ASSUME NEW r \in Requests, Arrive(r)
      PROVE  IInv'
  BY <1>1, SignInReadStep, FindStep, StartAuthenticatedStep, ForgetPasswordStep, ConsumeStep
  DEF Arrive
<1>2. ASSUME NEW r \in Requests, Proceed(r)
      PROVE  IInv'
  <2>1. CASE ReadUser(r) \/ FindUser(r) \/ \E correct \in BOOLEAN : VerifyCurrent(r, correct)
    BY <2>1, ReadStep
  <2>2. CASE LockAccount(r) \/ LockUser(r) \/ BeginUpdate(r) \/ LockNext(r)
    BY <2>2, LockAccountStep, LockUserStep, BeginUpdateStep, LockNextStep
  <2>3. CASE \/ \E s \in Sids : SignInEnter(r, s)
             \/ CountFailure(r) \/ Rotate(r) \/ SignOutRow(r)
    BY <2>3, SignInEnterStep, CountFailureStep, RotateStep, SignOutRowStep
  <2>4. CASE CommitSignOutAll(r) \/ CommitReplay(r) \/ CommitChangePassword(r)
    BY <2>4, RevokeStep
  <2>5. CASE \/ CommitResetPassword(r) \/ CommitDeleteAccount(r) \/ CommitVerifyEmail(r)
             \/ \E t \in Tokens : CommitForgetPassword(r, t)
    BY <2>5, ResetStep, DeleteStep, VerifyStep, ForgetStep
  <2> QED
    BY <1>2, <2>1, <2>2, <2>3, <2>4, <2>5 DEF Proceed
<1>3. ASSUME NEW r \in Requests, Abort(r) \/ DeadlockAbort(r)
      PROVE  IInv'
  BY <1>3, AbortStep
<1>4. CASE Environment
  BY <1>4, SignUpStep, ExpireStep, ReapStep, SetBannedStep DEF Environment
<1>5. CASE UNCHANGED vars
  <2>1. UNCHANGED <<user, password, sessions, tokens, lock, pc, req, guesses, dropped>>
    BY <1>5 DEF vars, tables, history
  <2>2. TypeOK' /\ NothingBeforeSignUp' /\ UsesFollowState'
    BY <2>1 DEF IInv, TypeOK, NothingBeforeSignUp, UsesFollowState
  <2>3. GuessesCounted'
    BY <2>1, GuessesKept DEF Guessing, history
  <2>4. \A q \in Requests : ReqInv(q)'
    BY <2>1, StaysAsItIs, Frame DEF TablesKeep
  <2> QED
    BY <2>2, <2>3, <2>4 DEF IInv
<1> QED
  BY <1>1, <1>2, <1>3, <1>4, <1>5 DEF Next

\* The inductive invariant of the account: whatever the requests, and however their
\* statements, commits and rollbacks interleave.
THEOREM AccountInvariant == Spec => []IInv
  BY InitIInv, NextKeepsIInv, PTL DEF Spec

\* Every variable keeps its type; the counter of failed logins in particular stays
\* below the bound on recorded failures plus one per request.
THEOREM TypeCorrect == Spec => []TypeOK
<1>1. IInv => TypeOK
  BY DEF IInv
<1> QED
  BY <1>1, AccountInvariant, PTL

\* refresh_session redeems only the live token of an unrevoked session, for any
\* number of requests that present it.
THEOREM RotatesLive == Spec => []RotatesOnlyLiveToken
<1>1. IInv => RotatesOnlyLiveToken
  BY DEF IInv, ReqInv, HoldsLiveToken, RotatesOnlyLiveToken
<1> QED
  BY <1>1, AccountInvariant, PTL

\* consume_verification_token: a recovery token takes effect at most once.
THEOREM UsedOnce == Spec => []RecoveryTokenUsedOnce
<1>1. IInv => RecoveryTokenUsedOnce
  <2> SUFFICES ASSUME IInv, NEW t \in Tokens
               PROVE  /\ tokens[t].uses <= 1
                      /\ \A r \in Requests :
                            (req[r].t = t /\ pc[r] # "idle") => (Open(t) /\ lock[t] = r)
    BY DEF RecoveryTokenUsedOnce
  <2>1. tokens[t].uses <= 1
    BY DEF IInv, UsesFollowState
  <2>2. ASSUME NEW r \in Requests, req[r].t = t
        PROVE  Open(t) /\ lock[t] = r
    BY <2>2, AuthNoneAssumption, RequestTypes DEF ReqInv, Fits, HoldsRecoveryToken
  <2> QED
    BY <2>1, <2>2
<1> QED
  BY <1>1, AccountInvariant, PTL

\* register_failed_login: the lockout bounds the guesses between two clean slates,
\* for every threshold and number of overlapping sign-ins.
THEOREM GuessesAreBounded == Spec => []GuessesBounded
<1>1. IInv => GuessesBounded
  <2> SUFFICES ASSUME IInv
               PROVE  GuessesBounded
    OBVIOUS
  <2> QED
    BY GuessTypes, AuthBoundsAssumption DEF IInv, GuessesCounted, GuessesBounded
<1> QED
  BY <1>1, AccountInvariant, PTL

\* What a bulk update has done is all it had to do, once nothing is left to lock.
LEMMA DoneCovers ==
    ASSUME IInv, NEW r \in Requests,
           Ready(r) \/ (pc[r] = "commit" /\ req[r].op = "delete")
    PROVE  \A x \in RowsToUpdate(r) :
             (x \in req[r].known \/ req[r].op \in {"reset", "delete"}) => x \in req[r].got
  BY RequestTypes DEF ReqInv, Ready, Covers, UpdatesOneKind

\* sign_out_all, change_password and the revocation of a replayed token's family
\* leave none of the sessions they found alive.
THEOREM RevocationsCover == Spec => RevokeAllCoversKnown
<1>1. ASSUME IInv, NEW r \in Requests,
             CommitSignOutAll(r) \/ CommitReplay(r) \/ CommitChangePassword(r),
             NEW s \in Sids \cap req[r].known, Unrevoked(s)'
      PROVE  req[r].op = "change" /\ s = req[r].s
  <2>1. Ready(r) /\ RevokeRows(r) /\ req[r].op # "forget"
    BY <1>1 DEF CommitSignOutAll, CommitReplay, CommitChangePassword
  <2>2. Unrevoked(s) /\ s \notin req[r].got
    BY <1>1, <2>1, Revokes
  <2>3. s \notin RowsToUpdate(r)
    BY <1>1, <2>1, <2>2, DoneCovers
  <2> QED
    BY <2>1, <2>2, <2>3 DEF RowsToUpdate
<1>2. IInv /\ [Next]_vars =>
        [\A r \in Requests :
            (CommitSignOutAll(r) \/ CommitReplay(r) \/ CommitChangePassword(r)) =>
                \A s \in Sids \cap req[r].known :
                    Unrevoked(s)' => (req[r].op = "change" /\ s = req[r].s)]_vars
  BY <1>1
<1> QED
  BY <1>2, AccountInvariant, PTL DEF Spec, RevokeAllCoversKnown

\* reset_password and delete_account leave no session alive.
THEOREM NoSessionLeft == Spec => ResetAndDeleteLeaveNoSession
<1>1. ASSUME IInv, NEW r \in Requests, CommitResetPassword(r) \/ CommitDeleteAccount(r),
             NEW s \in Sids, Unrevoked(s)'
      PROVE  FALSE
  <2>1. /\ Ready(r) \/ (pc[r] = "commit" /\ req[r].op = "delete")
        /\ RevokeRows(r) /\ req[r].op \in {"reset", "delete"}
    BY <1>1 DEF CommitResetPassword, CommitDeleteAccount
  <2>2. Unrevoked(s) /\ s \notin req[r].got
    BY <1>1, <2>1, Revokes
  <2>3. s \in RowsToUpdate(r)
    BY <2>1, <2>2 DEF RowsToUpdate
  <2> QED
    BY <1>1, <2>1, <2>2, <2>3, DoneCovers
<1>2. IInv /\ [Next]_vars =>
        [\A r \in Requests : (CommitResetPassword(r) \/ CommitDeleteAccount(r)) =>
            \A s \in Sids : ~Unrevoked(s)']_vars
  BY <1>1
<1> QED
  BY <1>2, AccountInvariant, PTL DEF Spec, ResetAndDeleteLeaveNoSession

\* forget_password supersedes every reset token that was open when it was asked for.
THEOREM Supersedes == Spec => ForgetSupersedesKnown
<1>1. ASSUME IInv, NEW r \in Requests, NEW t \in Tokens, CommitForgetPassword(r, t),
             NEW u \in Tokens \cap req[r].known, tokens[u].purpose = "password_reset", Open(u)'
      PROVE  FALSE
  <2>1. /\ Ready(r) /\ req[r].op = "forget" /\ tokens[t].state = "unused"
        /\ u # t => tokens'[u] = IF u \in req[r].got THEN [tokens[u] EXCEPT !.state = "consumed"]
                                 ELSE tokens[u]
    BY <1>1 DEF CommitForgetPassword
  <2>2. u # t
    BY <1>1, <2>1, RequestTypes DEF ReqInv, KnownExists
  <2>3. tokens[u] \in TokenRow
    BY TableTypes, <1>1
  <2>4. u \notin req[r].got /\ Open(u)
    BY <1>1, <2>1, <2>2, <2>3 DEF Open, TokenRow
  <2>5. u \in RowsToUpdate(r)
    BY <1>1, <2>1, <2>4 DEF RowsToUpdate
  <2> QED
    BY <1>1, <2>1, <2>4, <2>5, DoneCovers
<1>2. IInv /\ [Next]_vars =>
        [\A r \in Requests, t \in Tokens : CommitForgetPassword(r, t) =>
            \A u \in Tokens \cap req[r].known :
                tokens[u].purpose = "password_reset" => ~Open(u)']_vars
  BY <1>1
<1> QED
  BY <1>2, AccountInvariant, PTL DEF Spec, ForgetSupersedesKnown

\* Only the transactions that update many rows, or the credential and the user one
\* after the other, can wait in a circle.
THEOREM DeadlocksAreBulk == Spec => []OnlyBulkUpdatesDeadlock
<1>1. ASSUME IInv, NEW r \in Requests, Deadlocked(r)
      PROVE  /\ pc[r] \in {"locking", "lockAccount", "lockUser"}
             /\ req[r].op \in {"refresh", "signOutAll", "change", "reset", "delete", "forget"}
  <2> USE <1>1
  <2>1. PICK p \in Requests : WaitsFor(p, r)
    BY DEF Deadlocked
  <2>2. PICK x \in Needs(p) : lock[x] = r
    BY <2>1 DEF WaitsFor
  <2>3. /\ Needs(r) # {}
        /\ pc[r] \in {"locking", "lockAccount", "lockUser", "enter", "countFailure", "signOutRow"}
    BY DEF Deadlocked, WaitsFor, Needs
  <2>4. \/ x \in {"user", "account"}
        \/ x \in req[p].want /\ x \in Rows
        \/ x \in Sids
    BY RequestTypes DEF Needs, ReqInv, Fits, OpsAt
  <2>5. x \in Rows
    BY <2>4, RequestTypes DEF Rows
  <2>6. pc[r] \in {"locking", "lockAccount", "lockUser"}
    BY <2>2, <2>3, <2>5, RequestTypes DEF ReqInv, HoldsLittle
  <2>7. req[r].op # "verify"
    <3> SUFFICES ASSUME req[r].op = "verify"
                 PROVE  FALSE
      OBVIOUS
    <3>1. pc[r] = "lockUser"
      BY <2>6, RequestTypes DEF ReqInv, Fits, OpsAt
    <3>2. x = req[r].t /\ x \in Tokens /\ tokens[x].purpose = "email_verify"
      BY <2>2, <2>5, <3>1, RequestTypes DEF ReqInv, HoldsLittle, Fits, HoldsRecoveryToken
    <3>3. x \in req[p].want
      BY <2>4, <3>2, AuthIdsAssumption
    <3> QED
      BY <3>2, <3>3, RequestTypes, AuthIdsAssumption DEF ReqInv, UpdatesOneKind
  <2> QED
    BY <2>6, <2>7, RequestTypes DEF ReqInv, Fits, OpsAt
<1>2. IInv => OnlyBulkUpdatesDeadlock
  BY <1>1 DEF OnlyBulkUpdatesDeadlock
<1> QED
  BY <1>2, AccountInvariant, PTL
=============================================================================
