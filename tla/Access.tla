------------------------------- MODULE Access -------------------------------
(***************************************************************************)
(* Who may do what: authenticate (middleware/auth.rs) with sessions and    *)
(* API keys, the organizations of services/org.rs, the keys of             *)
(* services/api_key.rs and the file permissions of services/storage.rs.    *)
(*                                                                         *)
(* A request presents a credential, is authenticated by one query (a       *)
(* session), by two (a key) or by none (a token of a remote identity       *)
(* provider, whose claims are taken as they are), and then runs its        *)
(* handler.  Authority over organizations and files only ever grows (no    *)
(* operation removes a member or changes an owner), so the statements of a *)
(* handler are one step; what can be withdrawn meanwhile is the credential *)
(* and the account.                                                        *)
(***************************************************************************)
EXTENDS Integers, FiniteSets

CONSTANTS
    Users,
    Apps,
    Orgs,
    Files,
    Keys,
    Requests,
    None,           \* nobody, nothing; also an id that no account has
    Sso,            \* whether a remote identity provider is configured
    ScopeRequests   \* the scope lists clients ask for

\* The scopes that handlers with an effect in this module require, and admin.
Scopes == {"files:write", "apps:write", "orgs:write", "admin"}

ASSUME AccessAssumption ==
    /\ None \notin Users \cup Apps \cup Orgs \cup Files \cup Keys \cup Requests
    /\ Users \cap Keys = {}
    /\ Sso \in BOOLEAN
    /\ ScopeRequests \subseteq SUBSET (Scopes \cup {"*"})

VARIABLES
    status,     \* of an account: active, banned or deleted
    admins,     \* accounts with the role admin
    session,    \* of an account: none, live or dead (revoked or expired)
    key,        \* row of api_keys: [state, user, scopes]
    appOwner,   \* apps.owner_id
    orgApp,     \* organizations.app_id
    role,       \* org_members: 1 member, 2 admin, 3 owner, 0 no row
    file,       \* row of files: [owner, org, public], or None
    pc, cred,   \* per request: progress, and the session or key it presented
    caller,     \* per request: AuthUser, once authenticated
    barred      \* per request: what has been invalid ever since it began

dbVars == <<status, admins, session, key, appOwner, orgApp, role, file>>
requestVars == <<pc, cred, caller, barred>>
vars == <<dbVars, requestVars>>

Role == 0..3
Progress == {"idle", "session", "key", "user", "handler", "anonymous"}
Nobody == [user |-> None, admin |-> FALSE, scopes |-> {}]

TypeOK ==
    /\ status \in [Users -> {"active", "banned", "deleted"}]
    /\ admins \subseteq Users
    /\ session \in [Users -> {"none", "live", "dead"}]
    /\ key \in [Keys -> [state : {"unused", "live", "dead"},
                         user : Users \cup {None}, scopes : SUBSET Scopes]]
    /\ appOwner \in [Apps -> Users \cup {None}]
    /\ orgApp \in [Orgs -> Apps \cup {None}]
    /\ role \in [Orgs -> [Users -> Role]]
    /\ file \in [Files -> {None} \cup
                  [owner : Users, org : Orgs \cup {None}, public : BOOLEAN]]
    /\ pc \in [Requests -> Progress]
    /\ cred \in [Requests -> Users \cup Keys \cup {None}]
    /\ caller \in [Requests -> [user : Users \cup {None}, admin : BOOLEAN,
                                scopes : SUBSET Scopes]]
    /\ barred \in [Requests -> SUBSET {"credential", "account"}]

Init ==
    /\ status = [u \in Users |-> "active"]
    /\ admins = {}
    /\ session = [u \in Users |-> "none"]
    /\ key = [k \in Keys |-> [state |-> "unused", user |-> None, scopes |-> {}]]
    /\ appOwner = [x \in Apps |-> None]
    /\ orgApp = [o \in Orgs |-> None]
    /\ role = [o \in Orgs |-> [u \in Users |-> 0]]
    /\ file = [f \in Files |-> None]
    /\ pc = [r \in Requests |-> "idle"]
    /\ cred = [r \in Requests |-> None]
    /\ caller = [r \in Requests |-> Nobody]
    /\ barred = [r \in Requests |-> {}]

-----------------------------------------------------------------------------
\* Permissions

\* require_org_role and require_membership; an unknown account has no row.
HasRole(o, u, minimum) == u \in Users /\ role[o][u] >= minimum

\* Mutant of MayRead: the rule from before files belonged to organizations.
MayReadWithoutOrg(u, isAdmin, f) ==
    \/ file[f].public
    \/ file[f].owner = u
    \/ isAdmin

\* authorize_read of a caller.
MayRead(u, isAdmin, f) ==
    \/ file[f].public
    \/ file[f].owner = u
    \/ isAdmin
    \/ file[f].org # None /\ HasRole(file[f].org, u, 1)

\* authorize_write.
MayWrite(u, isAdmin, f) ==
    \/ file[f].owner = u
    \/ isAdmin
    \/ file[f].org # None /\ HasRole(file[f].org, u, 2)

\* list_org_files, for members.
Listed(o, u) == {f \in Files : HasRole(o, u, 1) /\ file[f] # None /\ file[f].org = o}

\* The AppContext extractor.
InApp(u, isAdmin, x) ==
    \/ appOwner[x] = u
    \/ isAdmin
    \/ \E o \in Orgs : orgApp[o] = x /\ HasRole(o, u, 1)

\* Scopes: parse_request and from_stored.  The wildcard leaves out admin.
Wildcard == Scopes \ {"admin"}

ParseRequest(list) == IF list = {} \/ "*" \in list THEN Wildcard ELSE list

-----------------------------------------------------------------------------
\* authenticate

AccountOf(c) == IF c \in Users THEN c ELSE key[c].user

\* The account a request is for: that of its credential, or the one it claims.
AccountFor(r) == IF cred[r] = None THEN caller[r].user ELSE AccountOf(cred[r])

Valid(c) == IF c \in Users THEN session[c] = "live" ELSE key[c].state = "live"

\* A request arrives with a session token, or with a key that was handed out.
Begin(r, c) ==
    /\ pc[r] = "idle"
    /\ IF c \in Users THEN session[c] # "none" ELSE key[c].state # "unused"
    /\ pc' = [pc EXCEPT ![r] = IF c \in Users THEN "session" ELSE "key"]
    /\ cred' = [cred EXCEPT ![r] = c]
    /\ barred' = [barred EXCEPT ![r] =
                   {b \in {"credential"} : ~Valid(c)} \cup
                   {b \in {"account"} : status[AccountOf(c)] # "active"}]
    /\ UNCHANGED <<dbVars, caller>>

Admit(r, u, s) ==
    /\ pc' = [pc EXCEPT ![r] = "handler"]
    /\ caller' = [caller EXCEPT ![r] =
                   [user |-> u, admin |-> u \in admins, scopes |-> s]]
    /\ UNCHANGED <<dbVars, cred, barred>>

End(r) ==
    /\ pc' = [pc EXCEPT ![r] = "idle"]
    /\ cred' = [cred EXCEPT ![r] = None]
    /\ caller' = [caller EXCEPT ![r] = Nobody]
    /\ barred' = [barred EXCEPT ![r] = {}]

\* Mutant of Permitted: a suspended account is let in.
NotDeleted(u) == status[u] # "deleted"

\* The account exists, is not deleted and not banned.
Permitted(u) == status[u] = "active"

\* resolve_session: session and account in one query.  Full authority.
ResolveSession(r) ==
    /\ pc[r] = "session"
    /\ Valid(cred[r]) /\ Permitted(cred[r])
    /\ Admit(r, cred[r], Scopes)

\* resolve_key: the row of the key, which must not have expired...
ResolveKey(r) ==
    /\ pc[r] = "key"
    /\ Valid(cred[r])
    /\ pc' = [pc EXCEPT ![r] = "user"]
    /\ caller' = [caller EXCEPT ![r] =
                   [Nobody EXCEPT !.user = key[cred[r]].user, !.scopes = key[cred[r]].scopes]]
    /\ UNCHANGED <<dbVars, cred, barred>>

\* ... then its account.  (last_used_at is written in the background and read
\* by nothing but its own throttle.)
ResolveKeyUser(r) ==
    /\ pc[r] = "user"
    /\ Permitted(caller[r].user)
    /\ Admit(r, caller[r].user, caller[r].scopes)

\* verify_token accepts the token of the remote provider.  Whose it is and which
\* role it gives are the provider's claims: no table is read.  A subject that is
\* no account, or no UUID at all, passes as well.  Full authority.
AdmitRemote(r, u, isAdmin) ==
    /\ Sso
    /\ pc[r] = "idle"
    /\ pc' = [pc EXCEPT ![r] = "handler"]
    /\ caller' = [caller EXCEPT ![r] = [user |-> u, admin |-> isAdmin, scopes |-> Scopes]]
    /\ barred' = [barred EXCEPT ![r] =
                   {b \in {"account"} : u \in Users /\ status[u] # "active"}]
    /\ UNCHANGED <<dbVars, cred>>

\* authenticate returns an error.
Refused(r) ==
    \/ pc[r] = "session" /\ ~(Valid(cred[r]) /\ Permitted(cred[r]))
    \/ pc[r] = "key" /\ ~Valid(cred[r])
    \/ pc[r] = "user" /\ ~Permitted(caller[r].user)

\* AuthUser, AdminUser and SessionUser: the request is answered with it.
Refuse(r) ==
    /\ Refused(r)
    /\ End(r)
    /\ UNCHANGED dbVars

\* OptionalAuthUser (get_file): the request goes on without a caller, just as one
\* that presents nothing.
GoAnonymous(r) ==
    /\ Refused(r) \/ pc[r] = "idle"
    /\ pc' = [pc EXCEPT ![r] = "anonymous"]
    /\ cred' = [cred EXCEPT ![r] = None]
    /\ caller' = [caller EXCEPT ![r] = Nobody]
    /\ barred' = [barred EXCEPT ![r] = {}]
    /\ UNCHANGED dbVars

-----------------------------------------------------------------------------
\* Handlers.  A caller without the scope, or without the permission, is answered
\* with an error: Answer.

RequireScope(r, s) == pc[r] = "handler" /\ s \in caller[r].scopes

\* owner_id and user_id are foreign keys: an unknown account cannot be written.
IsAccount(r) == caller[r].user \in Users

\* The SessionUser extractor: neither keys nor remote tokens.
SessionUser(r) == pc[r] = "handler" /\ cred[r] \in Users

CreateApp(r, x) ==
    /\ RequireScope(r, "apps:write") /\ IsAccount(r)
    /\ appOwner[x] = None
    /\ appOwner' = [appOwner EXCEPT ![x] = caller[r].user]
    /\ End(r)
    /\ UNCHANGED <<status, admins, session, key, orgApp, role, file>>

\* Only the owner of the application may.  The organization and its first owner
\* are inserted in one transaction.
CreateOrg(r, x, o) ==
    /\ RequireScope(r, "orgs:write") /\ IsAccount(r)
    /\ appOwner[x] = caller[r].user
    /\ orgApp[o] = None
    /\ orgApp' = [orgApp EXCEPT ![o] = x]
    /\ role' = [role EXCEPT ![o][caller[r].user] = 3]
    /\ End(r)
    /\ UNCHANGED <<status, admins, session, key, appOwner, file>>

\* Members are added by admins and owners, owners by owners only; an account
\* that is already a member violates the unique constraint.
AddMember(r, o, u, g) ==
    /\ RequireScope(r, "orgs:write")
    /\ HasRole(o, caller[r].user, 2)
    /\ g = 3 => HasRole(o, caller[r].user, 3)
    /\ role[o][u] = 0
    /\ role' = [role EXCEPT ![o][u] = g]
    /\ End(r)
    /\ UNCHANGED <<status, admins, session, key, appOwner, orgApp, file>>

CreateKey(r, k, list) ==
    /\ SessionUser(r)
    /\ key[k].state = "unused"
    /\ key' = [key EXCEPT ![k] = [state |-> "live", user |-> caller[r].user,
                                  scopes |-> ParseRequest(list)]]
    /\ End(r)
    /\ UNCHANGED <<status, admins, session, appOwner, orgApp, role, file>>

\* A deleted key keeps its user and scopes here only to tell what it was.
DeleteKey(r, k) ==
    /\ SessionUser(r)
    /\ key[k].state # "unused" /\ key[k].user = caller[r].user
    /\ key' = [key EXCEPT ![k].state = "dead"]
    /\ End(r)
    /\ UNCHANGED <<status, admins, session, appOwner, orgApp, role, file>>

\* save_upload_field and generate_presigned_upload, as far as permissions go.
Upload(r, f, o, public) ==
    /\ RequireScope(r, "files:write") /\ IsAccount(r)
    /\ o # None => HasRole(o, caller[r].user, 1)
    /\ file[f] = None
    /\ file' = [file EXCEPT ![f] = [owner |-> caller[r].user, org |-> o, public |-> public]]
    /\ End(r)
    /\ UNCHANGED <<status, admins, session, key, appOwner, orgApp, role>>

DeleteFile(r, f) ==
    /\ RequireScope(r, "files:write")
    /\ file[f] # None
    /\ MayWrite(caller[r].user, caller[r].admin, f)
    /\ file' = [file EXCEPT ![f] = None]
    /\ End(r)
    /\ UNCHANGED <<status, admins, session, key, appOwner, orgApp, role>>

\* delete_me: the account, and its sessions; its keys and memberships stay.
DeleteMe(u) ==
    /\ status[u] # "deleted"
    /\ status' = [status EXCEPT ![u] = "deleted"]
    /\ session' = [session EXCEPT ![u] = "dead"]
    /\ UNCHANGED <<admins, key, appOwner, orgApp, role, file>>

DeleteAccount(r) ==
    /\ SessionUser(r)
    /\ DeleteMe(caller[r].user)
    /\ End(r)

\* Errors, and the handlers that only read.
Answer(r) ==
    /\ pc[r] \in {"handler", "anonymous"}
    /\ End(r)
    /\ UNCHANGED dbVars

-----------------------------------------------------------------------------
\* The rest of the system, requests other than those of Requests included

SignIn(u) ==
    /\ Permitted(u) /\ session[u] = "none"
    /\ session' = [session EXCEPT ![u] = "live"]
    /\ UNCHANGED <<status, admins, key, appOwner, orgApp, role, file, requestVars>>

\* Sign-out, revocation by another request, or expiry.
EndSession(u) ==
    /\ session[u] = "live"
    /\ session' = [session EXCEPT ![u] = "dead"]
    /\ UNCHANGED <<status, admins, key, appOwner, orgApp, role, file, requestVars>>

\* A request of another session of the account deletes it.
AccountDeleted(u) ==
    /\ session[u] # "none"
    /\ DeleteMe(u)
    /\ UNCHANGED requestVars

\* A key expires, or another request deletes it.
KeyEnds(k) ==
    /\ key[k].state = "live"
    /\ key' = [key EXCEPT ![k].state = "dead"]
    /\ UNCHANGED <<status, admins, session, appOwner, orgApp, role, file, requestVars>>

\* An operator suspends an account or lifts the suspension.
SetBanned(u, banned) ==
    /\ status[u] = IF banned THEN "active" ELSE "banned"
    /\ status' = [status EXCEPT ![u] = IF banned THEN "banned" ELSE "active"]
    /\ barred' = [r \in Requests |->
                   IF ~banned /\ AccountFor(r) = u
                   THEN barred[r] \ {"account"} ELSE barred[r]]
    /\ UNCHANGED <<admins, session, key, appOwner, orgApp, role, file, pc, cred, caller>>

SetAdmin(u) ==
    /\ admins' = IF u \in admins THEN admins \ {u} ELSE admins \cup {u}
    /\ UNCHANGED <<status, session, key, appOwner, orgApp, role, file, requestVars>>

-----------------------------------------------------------------------------
Handle(r) ==
    \/ \E x \in Apps : CreateApp(r, x)
    \/ \E x \in Apps, o \in Orgs : CreateOrg(r, x, o)
    \/ \E o \in Orgs, u \in Users, g \in 1..3 : AddMember(r, o, u, g)
    \/ \E k \in Keys, list \in ScopeRequests : CreateKey(r, k, list)
    \/ \E k \in Keys : DeleteKey(r, k)
    \/ \E f \in Files, o \in Orgs \cup {None}, public \in BOOLEAN : Upload(r, f, o, public)
    \/ \E f \in Files : DeleteFile(r, f)
    \/ DeleteAccount(r)
    \/ Answer(r)

Next ==
    \/ \E r \in Requests, c \in Users \cup Keys : Begin(r, c)
    \/ \E r \in Requests : ResolveSession(r)
    \/ \E r \in Requests : ResolveKey(r)
    \/ \E r \in Requests : ResolveKeyUser(r)
    \/ \E r \in Requests, u \in Users \cup {None}, isAdmin \in BOOLEAN :
            AdmitRemote(r, u, isAdmin)
    \/ \E r \in Requests : Refuse(r)
    \/ \E r \in Requests : GoAnonymous(r)
    \/ \E r \in Requests : Handle(r)
    \/ \E u \in Users : SignIn(u)
    \/ \E u \in Users : EndSession(u)
    \/ \E u \in Users : AccountDeleted(u)
    \/ \E k \in Keys : KeyEnds(k)
    \/ \E u \in Users, banned \in BOOLEAN : SetBanned(u, banned)
    \/ \E u \in Users : SetAdmin(u)

Spec == Init /\ [][Next]_vars

-----------------------------------------------------------------------------
\* A request whose session or key brings it to its handler did not begin with a
\* revoked session or a dead key, and its account was active at some moment since
\* it began: a ban, a deletion or a revocation stops every later request at once,
\* although a key and its account are read by two queries (resolve_session,
\* resolve_key).  Tokens of a remote provider name no session and are admitted
\* whatever has become of the account (authenticate).
BarredCannotBegin ==
    \A r \in Requests : (pc[r] = "handler" /\ cred[r] # None) => barred[r] = {}

\* Permissions that different functions compute agree with each other.  Who may
\* delete a file may read it; what list_org_files shows can be opened; who is in
\* an organization is in its application; the owner of an application is an
\* owner of its organizations; and a file of an organization came from a member.
PermissionsAgree ==
    /\ \A f \in Files, u \in Users, isAdmin \in BOOLEAN :
        (file[f] # None /\ MayWrite(u, isAdmin, f)) => MayRead(u, isAdmin, f)
    /\ \A o \in Orgs, u \in Users : \A f \in Listed(o, u) : MayRead(u, FALSE, f)
    /\ \A o \in Orgs, u \in Users :
        HasRole(o, u, 1) => orgApp[o] # None /\ InApp(u, FALSE, orgApp[o])
    /\ \A o \in Orgs : orgApp[o] # None => HasRole(o, appOwner[orgApp[o]], 3)
    /\ \A f \in Files :
        (file[f] # None /\ file[f].org # None) => HasRole(file[f].org, file[f].owner, 1)
=============================================================================
