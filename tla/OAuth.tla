-------------------------------- MODULE OAuth --------------------------------
(***************************************************************************)
(* Sign-in with Google and GitHub: services/oauth.rs.                      *)
(*                                                                         *)
(* A flow begins with a random state, stored in oauth_auth_requests.  The  *)
(* callback consumes the state with a single UPDATE, asks the provider who *)
(* the user is, and signs the user in with one transaction that finds the  *)
(* account of the verified email address or creates it, links the          *)
(* provider's identity to it and opens a session.  Callbacks overlap with  *)
(* each other, with sign-ups and with the deletion of accounts.            *)
(*                                                                         *)
(* The transaction runs at READ COMMITTED: its writes are applied at the   *)
(* commit, and until then hold back the statements of others that touch    *)
(* the same row or the same key of a unique index.                         *)
(***************************************************************************)
EXTENDS Naturals, Sequences

CONSTANTS
    Providers,
    Subjects,   \* account ids at a provider
    Emails,
    Accounts,   \* ids for the rows of users
    Flows,      \* values of the state parameter
    Requests,   \* callbacks under way
    None

ASSUME OAuthAssumption ==
    None \notin Providers \cup Emails \cup Accounts \cup Flows \cup Requests

Identities == Providers \X Subjects

VARIABLES
    flow,       \* row of oauth_auth_requests: [state, provider]
    account,    \* row of users: [state, email, banned]
    link,       \* accounts.user_id of an identity
    sessions,   \* per flow: the sessions its callbacks opened
    pc, of,     \* per callback: progress, and its flow
    who, email, \* per callback: the identity and address the provider returned
    user,       \* per callback: the account it signs in
    creates     \* per callback: it inserts the account

callbackVars == <<pc, of, who, email, user, creates>>
vars == <<flow, account, link, sessions, callbackVars>>

TypeOK ==
    /\ flow \in [Flows -> [state : {"unused", "open", "used", "expired"},
                           provider : Providers \cup {None}]]
    /\ account \in [Accounts -> [state : {"unused", "deleted"}, email : {None}, banned : BOOLEAN]
                           \cup [state : {"live"}, email : Emails, banned : BOOLEAN]]
    /\ link \in [Identities -> Accounts \cup {None}]
    /\ sessions \in [Flows -> Seq([user : Accounts, email : Emails, provider : Providers])]
    /\ pc \in [Requests -> {"idle", "exchange", "find", "touch", "insert", "link", "commit"}]
    /\ of \in [Requests -> Flows \cup {None}]
    /\ who \in [Requests -> Identities \cup {None}]
    /\ email \in [Requests -> Emails \cup {None}]
    /\ user \in [Requests -> Accounts \cup {None}]
    /\ creates \in [Requests -> BOOLEAN]

Init ==
    /\ flow = [f \in Flows |-> [state |-> "unused", provider |-> None]]
    /\ account = [u \in Accounts |-> [state |-> "unused", email |-> None, banned |-> FALSE]]
    /\ link = [i \in Identities |-> None]
    /\ sessions = [f \in Flows |-> <<>>]
    /\ pc = [r \in Requests |-> "idle"]
    /\ of = [r \in Requests |-> None]
    /\ who = [r \in Requests |-> None]
    /\ email = [r \in Requests |-> None]
    /\ user = [r \in Requests |-> None]
    /\ creates = [r \in Requests |-> FALSE]

\* The callback has its answer; a transaction that did not commit is rolled back.
End(r) ==
    /\ pc' = [pc EXCEPT ![r] = "idle"]
    /\ of' = [of EXCEPT ![r] = None]
    /\ who' = [who EXCEPT ![r] = None]
    /\ email' = [email EXCEPT ![r] = None]
    /\ user' = [user EXCEPT ![r] = None]
    /\ creates' = [creates EXCEPT ![r] = FALSE]

-----------------------------------------------------------------------------
\* The flow

\* get_google_auth_url, get_github_auth_url and store_auth_request.
StartFlow(f, p) ==
    /\ flow[f].state = "unused"
    /\ flow' = [flow EXCEPT ![f] = [state |-> "open", provider |-> p]]
    /\ UNCHANGED <<account, link, sessions, callbackVars>>

\* expires_at passes; the hourly cleanup only removes such rows.
FlowExpires(f) ==
    /\ flow[f].state = "open"
    /\ flow' = [flow EXCEPT ![f].state = "expired"]
    /\ UNCHANGED <<account, link, sessions, callbackVars>>

\* Mutant of Consumable: consumed_at is not looked at.
ConsumableAgain(f, p) == flow[f].state \in {"open", "used"} /\ flow[f].provider = p

\* The WHERE clause of consume_auth_request.
Consumable(f, p) == flow[f].state = "open" /\ flow[f].provider = p

\* The callback of provider p takes the state, before anything else is known.
Consume(r, f, p) ==
    /\ pc[r] = "idle"
    /\ Consumable(f, p)
    /\ flow' = [flow EXCEPT ![f].state = "used"]
    /\ pc' = [pc EXCEPT ![r] = "exchange"]
    /\ of' = [of EXCEPT ![r] = f]
    /\ UNCHANGED <<account, link, sessions, who, email, user, creates>>

\* The provider exchanges the code and names an identity with a verified
\* address: that of the Google account, or the primary one at GitHub.
Exchange(r, i, e) ==
    /\ pc[r] = "exchange"
    /\ i[1] = flow[of[r]].provider
    /\ who' = [who EXCEPT ![r] = i]
    /\ email' = [email EXCEPT ![r] = e]
    /\ pc' = [pc EXCEPT ![r] = "find"]
    /\ UNCHANGED <<flow, account, link, sessions, of, user, creates>>

\* The exchange fails or the address is not verified.  The state is spent.
ExchangeFails(r) ==
    /\ pc[r] = "exchange"
    /\ End(r)
    /\ UNCHANGED <<flow, account, link, sessions>>

-----------------------------------------------------------------------------
\* upsert_oauth_user

\* Mutant of IsAccountOf: the link decides, not the address.
IsLinkedTo(u, r) == account[u].state = "live" /\ link[who[r]] = u

\* The SELECT by email among live accounts.
IsAccountOf(u, r) == account[u].state = "live" /\ account[u].email = email[r]

FindAccount(r) ==
    /\ pc[r] = "find"
    /\ UNCHANGED <<flow, account, link, sessions>>
    /\ \/ \E u \in Accounts :
            /\ IsAccountOf(u, r)
            /\ IF account[u].banned THEN End(r)
               ELSE /\ user' = [user EXCEPT ![r] = u]
                    /\ pc' = [pc EXCEPT ![r] = "touch"]
                    /\ UNCHANGED <<of, who, email, creates>>
       \/ /\ \A u \in Accounts : ~IsAccountOf(u, r)
          /\ pc' = [pc EXCEPT ![r] = "insert"]
          /\ UNCHANGED <<of, who, email, user, creates>>

\* What uncommitted callbacks hold: the rows of users they updated, the
\* addresses they inserted, and the rows of accounts they wrote.
Writing == {r \in Requests : pc[r] \in {"link", "commit"}}
RowLocked(u) == \E r \in Writing : ~creates[r] /\ user[r] = u
EmailReserved(e) == \E r \in Writing : creates[r] /\ email[r] = e
LinkLocked(i) == \E r \in Requests : pc[r] = "commit" /\ who[r] = i

\* The UPDATE by id, which asks neither for the address nor for deleted_at again.
TouchAccount(r) ==
    /\ pc[r] = "touch"
    /\ ~RowLocked(user[r])
    /\ pc' = [pc EXCEPT ![r] = "link"]
    /\ UNCHANGED <<flow, account, link, sessions, of, who, email, user, creates>>

EmailTaken(e) == \E u \in Accounts : account[u].state = "live" /\ account[u].email = e

\* The INSERT, which waits for an uncommitted one of the same address.
InsertAccount(r, u) ==
    /\ pc[r] = "insert"
    /\ ~EmailReserved(email[r]) /\ ~EmailTaken(email[r])
    /\ account[u].state = "unused" /\ \A s \in Writing : user[s] # u
    /\ user' = [user EXCEPT ![r] = u]
    /\ creates' = [creates EXCEPT ![r] = TRUE]
    /\ pc' = [pc EXCEPT ![r] = "link"]
    /\ UNCHANGED <<flow, account, link, sessions, of, who, email>>

\* It violates the unique index on live addresses.
InsertConflicts(r) ==
    /\ pc[r] = "insert"
    /\ EmailTaken(email[r])
    /\ End(r)
    /\ UNCHANGED <<flow, account, link, sessions>>

\* INSERT INTO accounts ... ON CONFLICT, which waits for whoever holds the row.
LinkIdentity(r) ==
    /\ pc[r] = "link"
    /\ ~LinkLocked(who[r])
    /\ pc' = [pc EXCEPT ![r] = "commit"]
    /\ UNCHANGED <<flow, account, link, sessions, of, who, email, user, creates>>

\* The row of a new account.
Inserted(e) == [state |-> "live", email |-> e, banned |-> FALSE]

\* The session, and the commit.  An existing link keeps its account.
Commit(r) ==
    /\ pc[r] = "commit"
    /\ account' = IF creates[r]
                  THEN [account EXCEPT ![user[r]] = Inserted(email[r])]
                  ELSE account
    /\ link' = [link EXCEPT ![who[r]] = IF @ = None THEN user[r] ELSE @]
    /\ sessions' = [sessions EXCEPT ![of[r]] =
                     Append(@, [user |-> user[r], email |-> email[r], provider |-> who[r][1]])]
    /\ End(r)
    /\ UNCHANGED flow

\* A failed statement, or the timeout of the request, at any point.
CallbackDies(r) ==
    /\ pc[r] # "idle"
    /\ End(r)
    /\ UNCHANGED <<flow, account, link, sessions>>

-----------------------------------------------------------------------------
\* The rest of the system

\* sign_up_email
SignUp(u, e) ==
    /\ account[u].state = "unused" /\ \A r \in Writing : user[r] # u
    /\ ~EmailReserved(e) /\ ~EmailTaken(e)
    /\ account' = [account EXCEPT ![u] = Inserted(e)]
    /\ UNCHANGED <<flow, link, sessions, callbackVars>>

\* delete_account: the row and its address, then its links.  (Its sessions are
\* revoked, and a session of a deleted account is worth nothing.)
DeleteAccount(u) ==
    /\ account[u].state = "live"
    /\ ~RowLocked(u)
    /\ \A i \in Identities : link[i] = u => ~LinkLocked(i)
    /\ account' = [account EXCEPT ![u].state = "deleted", ![u].email = None]
    /\ link' = [i \in Identities |-> IF link[i] = u THEN None ELSE link[i]]
    /\ UNCHANGED <<flow, sessions, callbackVars>>

\* An operator sets users.banned.
Ban(u) ==
    /\ account[u].state = "live" /\ ~account[u].banned
    /\ ~RowLocked(u)
    /\ account' = [account EXCEPT ![u].banned = TRUE]
    /\ UNCHANGED <<flow, link, sessions, callbackVars>>

-----------------------------------------------------------------------------
Next ==
    \/ \E f \in Flows, p \in Providers : StartFlow(f, p)
    \/ \E f \in Flows : FlowExpires(f)
    \/ \E r \in Requests, f \in Flows, p \in Providers : Consume(r, f, p)
    \/ \E r \in Requests, i \in Identities, e \in Emails : Exchange(r, i, e)
    \/ \E r \in Requests : ExchangeFails(r)
    \/ \E r \in Requests : FindAccount(r)
    \/ \E r \in Requests : TouchAccount(r)
    \/ \E r \in Requests, u \in Accounts : InsertAccount(r, u)
    \/ \E r \in Requests : InsertConflicts(r)
    \/ \E r \in Requests : LinkIdentity(r)
    \/ \E r \in Requests : Commit(r)
    \/ \E r \in Requests : CallbackDies(r)
    \/ \E u \in Accounts, e \in Emails : SignUp(u, e)
    \/ \E u \in Accounts : DeleteAccount(u)
    \/ \E u \in Accounts : Ban(u)

Spec == Init /\ [][Next]_vars

-----------------------------------------------------------------------------
\* A state value signs in at most once, by a callback of the provider it was
\* issued for, however many callbacks present it and whatever becomes of them.
FlowSignsInOnce ==
    \A f \in Flows :
        /\ Len(sessions[f]) <= 1
        /\ \A n \in DOMAIN sessions[f] : sessions[f][n].provider = flow[f].provider

Usable(s) == account[s.user].state = "live"
Opened == UNION {{sessions[f][n] : n \in DOMAIN sessions[f]} : f \in Flows}

\* Whoever proves an address to a provider is signed in to the one live account
\* with that address, whichever provider and identity it was and however
\* callbacks, sign-ups and deletions overlap: a session opened by a callback is
\* of the account that has the verified address, or of one deleted meanwhile.
SessionIsOfVerifiedEmail ==
    /\ \A s \in Opened : Usable(s) => account[s.user].email = s.email
    /\ \A s, t \in Opened : (Usable(s) /\ Usable(t) /\ s.email = t.email) => s.user = t.user
=============================================================================
