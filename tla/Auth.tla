-------------------------------- MODULE Auth --------------------------------
(***************************************************************************)
(* Sessions, refresh tokens, credentials and recovery tokens of one        *)
(* address: src/services/auth.rs over the tables users, accounts, sessions *)
(* and verifications.  Statements name one user, or one address, so those  *)
(* of different addresses do not interfere and one is enough.  The address *)
(* of a deleted account may be registered again; recovery tokens go by the *)
(* address and outlive the account, sessions do not.                       *)
(*                                                                         *)
(* Requests run concurrently under PostgreSQL's READ COMMITTED.  A         *)
(* statement that writes takes row locks: it waits for a locked row and    *)
(* then tests its WHERE clause again on the committed row.  An UPDATE of   *)
(* many rows works on the rows its snapshot shows (BeginUpdate) and locks  *)
(* them one by one (LockNext).  The writes of a transaction show at its    *)
(* commit, where the row locks go.  A transaction that touches one row     *)
(* that others contend for is a single step.                               *)
(*                                                                         *)
(* Refresh token number g of session s is the pair s, g: gen[s] is the     *)
(* number whose hash is refresh_token_hash, gen[s] - 1 the one in          *)
(* previous_token_hash.                                                    *)
(***************************************************************************)
EXTENDS Integers, FiniteSets

CONSTANTS
    Requests,      \* requests that may be under way at the same time
    Sids,          \* the session ids Uuid::now_v7 may hand out
    Tokens,        \* the recovery tokens random_token may hand out
    None,          \* SQL NULL, no lock holder
    Ops,           \* bound: the operations that are called
    Threshold,     \* lockout_threshold
    MaxGen,        \* bound: rotations of one session
    MaxFailures,   \* bound: failed_login_attempts
    MaxDropped     \* bound: requests dropped between a wrong password and its count

ASSUME AuthNoneAssumption == None \notin Requests \cup Sids \cup Tokens
ASSUME AuthBoundsAssumption ==
    /\ Threshold \in Nat \ {0}
    /\ MaxGen \in Nat /\ MaxFailures \in Nat /\ MaxDropped \in Nat
    /\ IsFiniteSet(Requests)
ASSUME AuthIdsAssumption ==
    /\ Sids \cap Tokens = {}
    /\ {"user", "account"} \cap (Sids \cup Tokens) = {}

VARIABLES
    user,       \* the row of users that has, or had last, the address
    password,   \* accounts has a row with a password; a caller's is right or wrong
    sessions,   \* [Sids -> row of sessions]
    tokens,     \* [Tokens -> row of verifications]
    lock,       \* [Rows -> the request whose transaction holds the row]
    pc,         \* [Requests -> the statement a request runs next]
    req,        \* [Requests -> what a request has read so far]
    guesses,    \* history: wrong passwords tested since the last clean slate
    dropped     \* history: those of them that never reached register_failed_login

tables == <<user, password, sessions, tokens>>
history == <<guesses, dropped>>
vars == <<tables, lock, pc, req, history>>

Rows == Sids \cup Tokens \cup {"user", "account"}

Operations == {"signIn", "refresh", "signOut", "signOutAll", "change", "delete",
               "forget", "reset", "verify"}

ASSUME AuthOperationsAssumption == None \notin Operations

Purposes == {"email_verify", "password_reset"}

Labels == {"idle", "enter", "countFailure", "readUser", "rotate", "signOutRow",
           "verifyCurrent", "findUser", "lockAccount", "lockUser", "snapshot",
           "locking", "commit"}

NoSession == [state |-> "unused", gen |-> 0, revoked |-> FALSE, expired |-> FALSE]
NoToken == [state |-> "unused", purpose |-> "email_verify", expired |-> FALSE, uses |-> 0]
NoRequest == [op |-> None, s |-> None, g |-> 0, t |-> None, want |-> {},
              got |-> {}, known |-> {}]

TypeOK ==
    /\ user \in [state : {"none", "active", "deleted"}, banned : BOOLEAN,
                 verified : BOOLEAN, failures : 0..MaxFailures + Cardinality(Requests),
                 locked : BOOLEAN]
    /\ password \in BOOLEAN
    /\ sessions \in [Sids -> [state : {"unused", "present", "gone"},
                              gen : 0..MaxGen, revoked : BOOLEAN, expired : BOOLEAN]]
    /\ tokens \in [Tokens -> [state : {"unused", "open", "consumed"}, purpose : Purposes,
                              expired : BOOLEAN, uses : Nat]]
    /\ lock \in [Rows -> Requests \cup {None}]
    /\ pc \in [Requests -> Labels]
    /\ req \in [Requests -> [op : Operations \cup {None}, s : Sids \cup {None}, g : 0..MaxGen,
                             t : Tokens \cup {None}, want : SUBSET Rows,
                             got : SUBSET Rows, known : SUBSET Rows]]
    /\ guesses \in Nat
    /\ dropped \in Nat

Init ==
    /\ user = [state |-> "none", banned |-> FALSE, verified |-> FALSE, failures |-> 0,
               locked |-> FALSE]
    /\ password = FALSE
    /\ sessions = [s \in Sids |-> NoSession]
    /\ tokens = [t \in Tokens |-> NoToken]
    /\ lock = [x \in Rows |-> None]
    /\ pc = [r \in Requests |-> "idle"]
    /\ req = [r \in Requests |-> NoRequest]
    /\ guesses = 0
    /\ dropped = 0

-----------------------------------------------------------------------------
RowFree(x) == lock[x] = None

\* The rows with revoked_at IS NULL, the tokens with consumed_at IS NULL.
Unrevoked(s) == sessions[s].state = "present" /\ ~sessions[s].revoked
Open(t) == tokens[t].state = "open"

\* resolve_session: what the middleware asks of an access token's session.
Accepts(s) ==
    /\ Unrevoked(s)
    /\ ~sessions[s].expired
    /\ user.state = "active"
    /\ ~user.banned

\* A new row of sessions (create_session).
NewSession == [NoSession EXCEPT !.state = "present"]

NewToken(p) == [NoToken EXCEPT !.state = "open", !.purpose = p]

Existing == {s \in Sids : sessions[s].state = "present"} \cup {t \in Tokens : Open(t)}

\* Request r of operation op begins: session s and token number g, or recovery
\* token t, are what its caller presents.
Begin(r, op, label, s, g, t) ==
    /\ op \in Ops
    /\ pc[r] = "idle"
    /\ pc' = [pc EXCEPT ![r] = label]
    /\ req' = [req EXCEPT ![r] = [NoRequest EXCEPT !.op = op, !.s = s, !.g = g, !.t = t,
                                                   !.known = Existing]]

Goto(r, label) == pc' = [pc EXCEPT ![r] = label]

Lock(r, x) == RowFree(x) /\ lock' = [lock EXCEPT ![x] = r]

\* The end of a request: commit or rollback release its row locks.
Finish(r) ==
    /\ pc' = [pc EXCEPT ![r] = "idle"]
    /\ req' = [req EXCEPT ![r] = NoRequest]
    /\ lock' = [x \in Rows |-> IF lock[x] = r THEN None ELSE lock[x]]

-----------------------------------------------------------------------------
\* The requests past the check of locked_until with a wrong password.
Guessing == {r \in Requests : pc[r] = "countFailure"}

\* Only the guesses still to be counted are left.
CleanSlate == guesses' = Cardinality(Guessing) /\ dropped' = 0

\* Bound: requests that create a session or a reset token find a fresh id.
FreshSession == Cardinality({s \in Sids : sessions[s].state = "unused"})
                    > Cardinality({q \in Requests : pc[q] = "enter"})
FreshToken == Cardinality({t \in Tokens : tokens[t].state = "unused"})
                    > Cardinality({q \in Requests : req[q].op = "forget"})

\* A request that knows its account by the address alone, if at all.
OnlyByAddress(r) ==
    pc[r] = "idle" \/ req[r].op \in {"forget", "verify"} \/ pc[r] = "findUser"

OpenVerifications == {u \in Tokens : Open(u) /\ tokens[u].purpose = "email_verify"}

\* sign_up_email: user, credential, verification token, which supersedes those
\* of the address, and first session in one transaction; the unique index on
\* live emails refuses an address in use.  Requests that have found a former
\* account touch none of the new one's rows: the model lets them end first, and
\* forgets the former account's sessions.
SignUp(s, t) ==
    /\ user.state # "active"
    /\ \A r \in Requests : OnlyByAddress(r)
    /\ \A u \in OpenVerifications : RowFree(u)
    /\ sessions[s].state = "unused"
    /\ tokens[t].state = "unused" /\ FreshToken
    /\ user' = [state |-> "active", banned |-> FALSE, verified |-> FALSE, failures |-> 0,
                locked |-> FALSE]
    /\ password' = TRUE
    /\ sessions' = [x \in Sids |->
                      IF x = s THEN NewSession
                      ELSE IF sessions[x].state = "present" THEN [sessions[x] EXCEPT !.state = "gone"]
                      ELSE sessions[x]]
    /\ tokens' = [u \in Tokens |->
                    IF u = t THEN NewToken("email_verify")
                    ELSE IF u \in OpenVerifications THEN [tokens[u] EXCEPT !.state = "consumed"]
                    ELSE tokens[u]]
    /\ CleanSlate
    /\ UNCHANGED <<lock, pc, req>>

\* sign_in_email, up to the password check: banned, locked and social-only
\* accounts are refused, a wrong password goes on to register_failed_login.
SignInRead(r, correct) ==
    /\ user.state = "active" /\ ~user.banned /\ ~user.locked
    /\ password
    /\ IF correct THEN FreshSession ELSE user.failures < MaxFailures
    /\ Begin(r, "signIn", IF correct THEN "enter" ELSE "countFailure", None, 0, None)
    /\ guesses' = IF correct THEN guesses ELSE guesses + 1
    /\ UNCHANGED <<tables, lock, dropped>>

\* Mutant of EntersAfterLock: the sign-in writes nothing to the row of users.
EntersAtOnce == TRUE

\* The UPDATE of users that clears the counter waits for the row's lock.
EntersAfterLock == RowFree("user")

\* sign_in_email, the transaction: clear the counter, insert the session.
SignInEnter(r, s) ==
    /\ pc[r] = "enter"
    /\ EntersAfterLock
    /\ sessions[s].state = "unused"
    /\ user' = [user EXCEPT !.failures = 0, !.locked = FALSE]
    /\ sessions' = [sessions EXCEPT ![s] = NewSession]
    /\ CleanSlate
    /\ Finish(r)
    /\ UNCHANGED <<password, tokens>>

\* Mutant of LocksOut: compares the counter before this failure.
LocksOutLate(failures) == failures >= Threshold

LocksOut(failures) == failures + 1 >= Threshold

\* register_failed_login
CountFailure(r) ==
    /\ pc[r] = "countFailure"
    /\ RowFree("user")
    /\ user' = [user EXCEPT !.failures = @ + 1,
                            !.locked = LocksOut(user.failures) \/ user.locked]
    /\ Finish(r)
    /\ UNCHANGED <<password, sessions, tokens, history>>

-----------------------------------------------------------------------------
\* refresh_session refuses a revoked and an expired session.
Refreshable(s) == ~sessions[s].revoked /\ ~sessions[s].expired

\* Mutant of SelectForUpdate: without FOR UPDATE the SELECT takes no lock, and
\* waits for none.
SelectOnly(r, s) == UNCHANGED lock

SelectForUpdate(r, s) == Lock(r, s)

\* refresh_session, SELECT ... WHERE refresh_token_hash = ... FOR UPDATE.
FindLive(r, s, g) ==
    /\ sessions[s].state = "present" /\ sessions[s].gen = g
    /\ Refreshable(s)
    /\ g < MaxGen
    /\ Begin(r, "refresh", "readUser", s, g, None)
    /\ SelectForUpdate(r, s)
    /\ UNCHANGED <<tables, history>>

\* The same for previous_token_hash: a replay, whatever the session's state.
FindPrevious(r, s, g) ==
    /\ sessions[s].state = "present" /\ sessions[s].gen = g + 1
    /\ Begin(r, "refresh", "snapshot", s, g, None)
    /\ Lock(r, s)
    /\ UNCHANGED <<tables, history>>

\* refresh_session, the SELECT of the user.
ReadUser(r) ==
    /\ pc[r] = "readUser"
    /\ IF user.state = "active" /\ ~user.banned
       THEN Goto(r, "rotate") /\ UNCHANGED <<req, lock>>
       ELSE Finish(r)
    /\ UNCHANGED <<tables, history>>

\* Mutant of Rotated: the hash of the new token is not stored.
RotatedToNull(row) == [row EXCEPT !.gen = None, !.expired = FALSE]

Rotated(row) == [row EXCEPT !.gen = @ + 1, !.expired = FALSE]

\* refresh_session, the UPDATE of the session and the commit.
Rotate(r) ==
    /\ pc[r] = "rotate"
    /\ sessions' = [sessions EXCEPT ![req[r].s] = Rotated(@)]
    /\ Finish(r)
    /\ UNCHANGED <<user, password, tokens, history>>

-----------------------------------------------------------------------------
\* Mutant of FirstLabel: sign_out revokes the sessions of the user.
FirstLabelSignOutOfAll == [signOut |-> "snapshot", signOutAll |-> "snapshot",
                           change |-> "verifyCurrent", delete |-> "lockUser"]

\* The first statement of the handlers behind the auth middleware.
FirstLabel == [signOut |-> "signOutRow", signOutAll |-> "snapshot",
               change |-> "verifyCurrent", delete |-> "lockUser"]

\* The auth middleware lets a request of session s through; its handler runs
\* afterwards, whatever becomes of the session in between.
StartAuthenticated(r, op, s) ==
    /\ Accepts(s)
    /\ Begin(r, op, FirstLabel[op], s, 0, None)
    /\ UNCHANGED <<tables, lock, history>>

\* sign_out
SignOutRow(r) ==
    /\ pc[r] = "signOutRow"
    /\ RowFree(req[r].s)
    /\ sessions' = [sessions EXCEPT ![req[r].s].revoked =
                        @ \/ sessions[req[r].s].state = "present"]
    /\ Finish(r)
    /\ UNCHANGED <<user, password, tokens, history>>

\* change_password, the SELECT of the credential and the check of the current
\* password.
VerifyCurrent(r, correct) ==
    /\ pc[r] = "verifyCurrent"
    /\ IF correct /\ password
       THEN Goto(r, "lockAccount") /\ UNCHANGED <<req, lock>>
       ELSE Finish(r)
    /\ UNCHANGED <<tables, history>>

\* forget_password, once the address is known to be registered.
ForgetPassword(r) ==
    /\ user.state = "active"
    /\ FreshToken
    /\ Begin(r, "forget", "snapshot", None, 0, None)
    /\ UNCHANGED <<tables, lock, history>>

\* Mutant of Consumable: the UPDATE does not see who else consumes the token.
ConsumableUnlocked(t, p) == Open(t) /\ ~tokens[t].expired /\ tokens[t].purpose = p

Consumable(t, p) ==
    /\ Open(t)
    /\ ~tokens[t].expired
    /\ tokens[t].purpose = p
    /\ RowFree(t)

\* consume_verification_token in reset_password.
ResetPassword(r, t) ==
    /\ Consumable(t, "password_reset")
    /\ Begin(r, "reset", "findUser", None, 0, t)
    /\ lock' = [lock EXCEPT ![t] = r]
    /\ UNCHANGED <<tables, history>>

\* consume_verification_token in verify_email.
VerifyEmail(r, t) ==
    /\ Consumable(t, "email_verify")
    /\ Begin(r, "verify", "lockUser", None, 0, t)
    /\ lock' = [lock EXCEPT ![t] = r]
    /\ UNCHANGED <<tables, history>>

\* reset_password, the SELECT of the user: an address given up since then is
\* an error, and the rollback leaves the token open.
FindUser(r) ==
    /\ pc[r] = "findUser"
    /\ IF user.state = "active"
       THEN Goto(r, "lockAccount") /\ UNCHANGED <<req, lock>>
       ELSE Finish(r)
    /\ UNCHANGED <<tables, history>>

\* The statement after the one that locks the credential, and the user.
AfterAccount == [reset |-> "lockUser", change |-> "snapshot", delete |-> "commit"]

AfterUser == [reset |-> "snapshot", delete |-> "snapshot", verify |-> "commit"]

\* delete_account turns to the row of accounts after the sessions.
Ready(r) == pc[r] = "locking" /\ req[r].want = {}

\* The UPDATE or DELETE of the credential row, if there is one.
LockAccount(r) ==
    /\ pc[r] = "lockAccount" \/ (Ready(r) /\ req[r].op = "delete")
    /\ IF password THEN Lock(r, "account") ELSE UNCHANGED lock
    /\ Goto(r, AfterAccount[req[r].op])
    /\ UNCHANGED <<tables, req, history>>

\* The UPDATE of the row of users: delete_account insists that it is live, and
\* verify_email finds no row by an address that was given up.
LockUser(r) ==
    /\ pc[r] = "lockUser"
    /\ RowFree("user")
    /\ CASE user.state = "active" \/ req[r].op = "reset" ->
              /\ Lock(r, "user")
              /\ Goto(r, AfterUser[req[r].op])
              /\ UNCHANGED req
         [] user.state # "active" /\ req[r].op = "verify" ->
              /\ Goto(r, "commit")
              /\ UNCHANGED <<req, lock>>
         [] user.state # "active" /\ req[r].op = "delete" -> Finish(r)
    /\ UNCHANGED <<tables, history>>

\* Mutant of RowsToUpdate: rows another transaction holds are skipped.
RowsToUpdateUnlocked(r) ==
    IF req[r].op = "forget"
    THEN {t \in Tokens : Open(t) /\ tokens[t].purpose = "password_reset" /\ RowFree(t)}
    ELSE {s \in Sids : Unrevoked(s) /\ lock[s] \in {None, r}}
             \ (IF req[r].op = "change" THEN {req[r].s} ELSE {})

\* The rows the WHERE clause of an UPDATE of many rows finds in its snapshot.
RowsToUpdate(r) ==
    IF req[r].op = "forget"
    THEN {t \in Tokens : Open(t) /\ tokens[t].purpose = "password_reset"}
    ELSE {s \in Sids : Unrevoked(s)} \ (IF req[r].op = "change" THEN {req[r].s} ELSE {})

BeginUpdate(r) ==
    /\ pc[r] = "snapshot"
    /\ req' = [req EXCEPT ![r].want = RowsToUpdate(r)]
    /\ Goto(r, "locking")
    /\ UNCHANGED <<tables, lock, history>>

\* The next row of the UPDATE: locked, and its WHERE clause tested again.
LockNext(r) ==
    /\ pc[r] = "locking"
    /\ \E x \in req[r].want :
        /\ RowFree(x) \/ lock[x] = r
        /\ IF x \in RowsToUpdate(r)
           THEN /\ lock' = [lock EXCEPT ![x] = r]
                /\ req' = [req EXCEPT ![r].want = @ \ {x}, ![r].got = @ \cup {x}]
           ELSE /\ req' = [req EXCEPT ![r].want = @ \ {x}]
                /\ UNCHANGED lock
    /\ UNCHANGED <<tables, pc, history>>

-----------------------------------------------------------------------------
RevokeRows(r) ==
    sessions' = [s \in Sids |-> [sessions[s] EXCEPT !.revoked = @ \/ s \in req[r].got]]

UseToken(t) == [tokens EXCEPT ![t].state = "consumed", ![t].uses = @ + 1]

\* sign_out_all
CommitSignOutAll(r) ==
    /\ Ready(r) /\ req[r].op = "signOutAll"
    /\ RevokeRows(r)
    /\ Finish(r)
    /\ UNCHANGED <<user, password, tokens, history>>

\* refresh_session, the revocation of the family.
CommitReplay(r) ==
    /\ Ready(r) /\ req[r].op = "refresh"
    /\ RevokeRows(r)
    /\ Finish(r)
    /\ UNCHANGED <<user, password, tokens, history>>

\* change_password: a new hash in the same row, the other sessions revoked.
CommitChangePassword(r) ==
    /\ Ready(r) /\ req[r].op = "change"
    /\ RevokeRows(r)
    /\ Finish(r)
    /\ UNCHANGED <<user, password, tokens, history>>

\* reset_password: the token used, a new hash, a clean slate, no session.
CommitResetPassword(r) ==
    /\ Ready(r) /\ req[r].op = "reset"
    /\ tokens' = UseToken(req[r].t)
    /\ user' = [user EXCEPT !.failures = 0, !.locked = FALSE]
    /\ CleanSlate
    /\ RevokeRows(r)
    /\ Finish(r)
    /\ UNCHANGED password

\* delete_account: the user tombstoned, the credential row deleted.
CommitDeleteAccount(r) ==
    /\ pc[r] = "commit" /\ req[r].op = "delete"
    /\ user' = [user EXCEPT !.state = "deleted"]
    /\ password' = FALSE
    /\ RevokeRows(r)
    /\ Finish(r)
    /\ UNCHANGED <<tokens, history>>

\* issue_verification_token in forget_password: supersede, then insert.
CommitForgetPassword(r, t) ==
    /\ Ready(r) /\ req[r].op = "forget"
    /\ tokens[t].state = "unused"
    /\ tokens' = [u \in Tokens |->
                    IF u = t THEN NewToken("password_reset")
                    ELSE IF u \in req[r].got THEN [tokens[u] EXCEPT !.state = "consumed"]
                    ELSE tokens[u]]
    /\ Finish(r)
    /\ UNCHANGED <<user, password, sessions, history>>

CommitVerifyEmail(r) ==
    /\ pc[r] = "commit" /\ req[r].op = "verify"
    /\ tokens' = UseToken(req[r].t)
    /\ user' = [user EXCEPT !.verified = @ \/ lock["user"] = r]
    /\ Finish(r)
    /\ UNCHANGED <<password, sessions, history>>

-----------------------------------------------------------------------------
\* The rows the next statement of r waits for.
Needs(r) ==
    CASE pc[r] = "locking" -> IF req[r].want # {} THEN req[r].want
                              ELSE IF req[r].op = "delete" /\ password THEN {"account"}
                              ELSE {}
      [] pc[r] = "lockAccount" -> IF password THEN {"account"} ELSE {}
      [] pc[r] \in {"lockUser", "enter", "countFailure"} -> {"user"}
      [] pc[r] = "signOutRow" -> {req[r].s}
      [] OTHER -> {}

\* A statement locks its rows in an order nobody fixes, so that it may be waiting
\* for any of them.
WaitsFor(q, p) == p # q /\ \E x \in Needs(q) : lock[x] = p

\* r is on a circle of waiting transactions: each waits for another one of them
\* and holds up another one.
Deadlocked(r) ==
    \E D \in SUBSET Requests :
        /\ r \in D
        /\ \A q \in D : (\E p \in D : WaitsFor(q, p)) /\ (\E p \in D : WaitsFor(p, q))

\* A request ends with its transaction rolled back, before it has counted a wrong
\* password.
RollBack(r) ==
    /\ Finish(r)
    /\ dropped' = IF r \in Guessing THEN dropped + 1 ELSE dropped
    /\ UNCHANGED <<tables, guesses>>

\* PostgreSQL ends a deadlock by aborting a transaction in it.
DeadlockAbort(r) == Deadlocked(r) /\ RollBack(r)

\* A statement fails, the timeout layer drops the request, or the replica
\* stops: the transaction is rolled back.
Abort(r) ==
    /\ pc[r] # "idle"
    /\ r \in Guessing => dropped < MaxDropped
    /\ RollBack(r)

\* Time passes: expires_at of a session or token, locked_until.
Expire ==
    /\ \/ \E s \in Sids : /\ "expireSession" \in Ops
                          /\ sessions[s].state = "present" /\ RowFree(s)
                          /\ sessions' = [sessions EXCEPT ![s].expired = TRUE]
                          /\ UNCHANGED <<user, tokens, history>>
       \/ \E t \in Tokens : /\ Open(t) /\ RowFree(t)
                            /\ tokens' = [tokens EXCEPT ![t].expired = TRUE]
                            /\ UNCHANGED <<user, sessions, history>>
       \/ /\ user.locked /\ RowFree("user")
          /\ user' = [user EXCEPT !.locked = FALSE]
          /\ CleanSlate
          /\ UNCHANGED <<sessions, tokens>>
    /\ UNCHANGED <<password, lock, pc, req>>

\* The hourly cleanup of sessions long expired.
ReapSessions ==
    /\ \E s \in Sids : /\ sessions[s].state = "present" /\ sessions[s].expired
                       /\ RowFree(s)
                       /\ sessions' = [sessions EXCEPT ![s].state = "gone"]
    /\ UNCHANGED <<user, password, tokens, lock, pc, req, history>>

\* An operator suspends the account or lifts the suspension.
SetBanned(b) ==
    /\ "ban" \in Ops
    /\ user.state = "active" /\ user.banned # b /\ RowFree("user")
    /\ user' = [user EXCEPT !.banned = b]
    /\ UNCHANGED <<password, sessions, tokens, lock, pc, req, history>>

-----------------------------------------------------------------------------
Arrive(r) ==
    \/ \E correct \in BOOLEAN : SignInRead(r, correct)
    \/ \E s \in Sids, g \in 0..MaxGen : FindLive(r, s, g)
    \/ \E s \in Sids, g \in 0..MaxGen : FindPrevious(r, s, g)
    \/ \E op \in DOMAIN FirstLabel, s \in Sids : StartAuthenticated(r, op, s)
    \/ ForgetPassword(r)
    \/ \E t \in Tokens : ResetPassword(r, t)
    \/ \E t \in Tokens : VerifyEmail(r, t)

Proceed(r) ==
    \/ \E s \in Sids : SignInEnter(r, s)
    \/ CountFailure(r)
    \/ ReadUser(r)
    \/ Rotate(r)
    \/ SignOutRow(r)
    \/ \E correct \in BOOLEAN : VerifyCurrent(r, correct)
    \/ FindUser(r)
    \/ LockAccount(r)
    \/ LockUser(r)
    \/ BeginUpdate(r)
    \/ LockNext(r)
    \/ CommitSignOutAll(r)
    \/ CommitReplay(r)
    \/ CommitChangePassword(r)
    \/ CommitResetPassword(r)
    \/ CommitDeleteAccount(r)
    \/ \E t \in Tokens : CommitForgetPassword(r, t)
    \/ CommitVerifyEmail(r)

Environment ==
    \/ \E s \in Sids, t \in Tokens : SignUp(s, t)
    \/ Expire
    \/ ReapSessions
    \/ \E b \in BOOLEAN : SetBanned(b)

Next ==
    \/ \E r \in Requests : Arrive(r)
    \/ \E r \in Requests : Proceed(r)
    \/ \E r \in Requests : DeadlockAbort(r)
    \/ \E r \in Requests : Abort(r)
    \/ Environment

Spec == Init /\ [][Next]_vars

-----------------------------------------------------------------------------
\* From its SELECT to its UPDATE a request that rotates a token can rely on what
\* it read: the session is not revoked and its live token is the one presented,
\* so no token is redeemed twice and no revoked session renewed
\* (refresh_session).
RotatesOnlyLiveToken ==
    \A r \in Requests : pc[r] \in {"readUser", "rotate"} =>
        /\ Unrevoked(req[r].s)
        /\ sessions[req[r].s].gen = req[r].g

\* sign_out_all, change_password (but for the caller's own session) and the
\* revocation of a replayed token's family leave no session alive that existed
\* when they began, although refreshes of those sessions and other revocations
\* run at the same time.
RevokeAllCoversKnown ==
    [][\A r \in Requests :
        (CommitSignOutAll(r) \/ CommitReplay(r) \/ CommitChangePassword(r)) =>
            \A s \in Sids \cap req[r].known :
                Unrevoked(s)' => (req[r].op = "change" /\ s = req[r].s)]_vars

\* reset_password and delete_account leave no session alive at all: sign-ins
\* that commit before them are revoked, later ones wait for the user's row.
ResetAndDeleteLeaveNoSession ==
    [][\A r \in Requests : (CommitResetPassword(r) \/ CommitDeleteAccount(r)) =>
        \A s \in Sids : ~Unrevoked(s)']_vars

\* A recovery token takes effect at most once, however many requests present
\* it at the same time, and never after it was superseded.
RecoveryTokenUsedOnce ==
    \A t \in Tokens :
        /\ tokens[t].uses <= 1
        /\ \A r \in Requests :
            (req[r].t = t /\ pc[r] # "idle") => (Open(t) /\ lock[t] = r)

\* A new reset token supersedes every one that was open when it was asked for.
ForgetSupersedesKnown ==
    [][\A r \in Requests, t \in Tokens : CommitForgetPassword(r, t) =>
        \A u \in Tokens \cap req[r].known :
            tokens[u].purpose = "password_reset" => ~Open(u)']_vars

\* Lockout: between two clean slates no more wrong passwords are tested than the
\* threshold, plus those of the requests already past the check of locked_until
\* when the last one struck, plus those whose request ended between the test
\* and register_failed_login: these the code does not count.
GuessesBounded == guesses <= Threshold + Cardinality(Requests) - 1 + dropped

\* Transactions that wait for each other are ended by PostgreSQL with an error to
\* the caller.  reset_password takes the credential before the sessions and
\* delete_account after them, and two revocations lock the same sessions in
\* different orders, so these may be chosen.  Sign-ins, rotations and sign-outs
\* hold no row while they wait for one, and a verification only its token, which
\* nobody who holds the user asks for: they never are.
OnlyBulkUpdatesDeadlock ==
    \A r \in Requests : Deadlocked(r) =>
        /\ pc[r] \in {"locking", "lockAccount", "lockUser"}
        /\ req[r].op \in {"refresh", "signOutAll", "change", "reset", "delete", "forget"}
=============================================================================
