---------------------------- MODULE AccessProofs ----------------------------
(***************************************************************************)
(* Authentication and permissions for any number of accounts, keys,        *)
(* organizations, files and overlapping requests, with or without a remote *)
(* identity provider.  That a barred session or key reaches no handler     *)
(* needs that what was invalid when a request began is still so when the   *)
(* query reads it (BarredStays), which rests on credentials only ever      *)
(* dying (Decays); that permissions agree needs that an organization has   *)
(* no members before it exists and its application's owner from then on    *)
(* (MembersOfExisting, OwnersOwn).                                         *)
(***************************************************************************)
EXTENDS Access, TLAPS

\* A request that is being authenticated presents a session token or a key that
\* was handed out, and one that they admitted has an account.
Fits(r) ==
    /\ pc[r] \in {"session", "key", "user"} => cred[r] # None
    /\ pc[r] = "session" => cred[r] \in Users
    /\ pc[r] \in {"key", "user"} => cred[r] \in Keys
    /\ cred[r] \in Users => session[cred[r]] # "none"
    /\ cred[r] \in Keys => key[cred[r]].state # "unused"
    /\ pc[r] = "user" => caller[r].user = key[cred[r]].user
    /\ (pc[r] = "handler" /\ cred[r] # None) => caller[r].user \in Users
    /\ pc[r] \in {"idle", "anonymous"} => cred[r] = None

\* What has been invalid since the request began is invalid now.
BarredStays(r) ==
    cred[r] # None =>
        /\ "credential" \in barred[r] => ~Valid(cred[r])
        /\ "account" \in barred[r] => status[AccountOf(cred[r])] # "active"

\* The query that read the key found it alive, and the one that let the request
\* in found the account active.
Admitted(r) ==
    /\ pc[r] = "user" => "credential" \notin barred[r]
    /\ (pc[r] = "handler" /\ cred[r] # None) => barred[r] = {}

RequestInv == \A r \in Requests : Fits(r) /\ BarredStays(r) /\ Admitted(r)

\* A key that was handed out belongs to an account.
KeysHaveUsers == \A k \in Keys : key[k].state # "unused" => key[k].user \in Users

\* An organization that does not exist has no members.
MembersOfExisting == \A o \in Orgs, u \in Users : orgApp[o] = None => role[o][u] = 0

\* The application of an organization has an owner, who owns the organization.
OwnersOwn ==
    \A o \in Orgs : orgApp[o] # None =>
        /\ appOwner[orgApp[o]] \in Users
        /\ role[o][appOwner[orgApp[o]]] = 3

\* A file of an organization was uploaded by one of its members.
FilesFromMembers ==
    \A f \in Files : (file[f] # None /\ file[f].org # None) => role[file[f].org][file[f].owner] >= 1

IInv ==
    /\ TypeOK
    /\ RequestInv
    /\ KeysHaveUsers
    /\ MembersOfExisting
    /\ OwnersOwn
    /\ FilesFromMembers

-----------------------------------------------------------------------------
\* The rows of the tables, and the type invariant in terms of them.
KeyRows == [state : {"unused", "live", "dead"}, user : Users \cup {None}, scopes : SUBSET Scopes]
FileRows == [owner : Users, org : Orgs \cup {None}, public : BOOLEAN]
Callers == [user : Users \cup {None}, admin : BOOLEAN, scopes : SUBSET Scopes]

CredentialsOK ==
    /\ status \in [Users -> {"active", "banned", "deleted"}]
    /\ admins \subseteq Users
    /\ session \in [Users -> {"none", "live", "dead"}]
    /\ key \in [Keys -> KeyRows]

TenancyOK ==
    /\ appOwner \in [Apps -> Users \cup {None}]
    /\ orgApp \in [Orgs -> Apps \cup {None}]
    /\ role \in [Orgs -> [Users -> Role]]
    /\ file \in [Files -> {None} \cup FileRows]

RequestsOK ==
    /\ pc \in [Requests -> Progress]
    /\ cred \in [Requests -> Users \cup Keys \cup {None}]
    /\ caller \in [Requests -> Callers]
    /\ barred \in [Requests -> SUBSET {"credential", "account"}]

\* The type invariant in its three parts.
LEMMA TypeOKSplits == TypeOK <=> CredentialsOK /\ TenancyOK /\ RequestsOK
BY DEF TypeOK, CredentialsOK, TenancyOK, RequestsOK, KeyRows, FileRows, Callers

\* The same in the next state.
LEMMA TypeOKJoins ==
    ASSUME CredentialsOK', TenancyOK', RequestsOK'
    PROVE  TypeOK'
BY DEF TypeOK, CredentialsOK, TenancyOK, RequestsOK, KeyRows, FileRows, Callers

\* The part about who may do what.
TenancyInv ==
    /\ TenancyOK
    /\ MembersOfExisting
    /\ OwnersOwn
    /\ FilesFromMembers

\* A step that writes no organization, application or file keeps that part.
LEMMA TenancyUntouched ==
    ASSUME IInv, UNCHANGED <<appOwner, orgApp, role, file>>
    PROVE  TenancyInv'
<1>1. TenancyOK
  BY TypeOKSplits DEF IInv
<1> QED
  BY <1>1 DEF IInv, TenancyInv, TenancyOK, MembersOfExisting, OwnersOwn, FilesFromMembers

\* Sessions and keys only die, and a key keeps its account.
Decays ==
    /\ \A u \in Users : session[u] # "none" =>
        /\ session'[u] # "none"
        /\ session[u] # "live" => session'[u] # "live"
    /\ \A k \in Keys : key[k].state # "unused" =>
        /\ key'[k].state # "unused"
        /\ key'[k].user = key[k].user
        /\ key[k].state # "live" => key'[k].state # "live"

\* No account becomes active again.
NobodyReturns == \A u \in Users : status[u] # "active" => status'[u] # "active"

\* The account of a credential that was handed out.
LEMMA AccountExists ==
    ASSUME IInv, NEW r \in Requests, cred[r] # None
    PROVE  /\ cred[r] \in Users \cup Keys
           /\ cred[r] \in Keys => cred[r] \notin Users
           /\ AccountOf(cred[r]) \in Users
<1>1. cred[r] \in Users \cup Keys
  BY TypeOKSplits DEF IInv, RequestsOK
<1>2. cred[r] \in Keys => cred[r] \notin Users
  BY AccessAssumption
<1>3. CASE cred[r] \in Users
  BY <1>1, <1>2, <1>3 DEF AccountOf
<1>4. CASE cred[r] \in Keys
  BY <1>1, <1>2, <1>4 DEF AccountOf, IInv, RequestInv, Fits, KeysHaveUsers
<1> QED
  BY <1>1, <1>2, <1>3, <1>4

\* A request that does not take part in a step keeps what is known of it.
LEMMA BystanderKeeps ==
    ASSUME IInv, NEW r \in Requests, Decays, NobodyReturns,
           pc'[r] = pc[r], cred'[r] = cred[r], caller'[r] = caller[r], barred'[r] = barred[r]
    PROVE  (Fits(r) /\ BarredStays(r) /\ Admitted(r))'
<1>1. Fits(r) /\ BarredStays(r) /\ Admitted(r)
  BY DEF IInv, RequestInv
<1>2. cred[r] # None =>
        /\ cred[r] \in Users \cup Keys
        /\ cred[r] \in Keys => cred[r] \notin Users
        /\ AccountOf(cred[r]) \in Users
  BY AccountExists
<1>3. CASE cred[r] = None
  <2>1. cred[r] \notin Users /\ cred[r] \notin Keys
        /\ pc[r] \notin {"session", "key", "user"}
    BY <1>1, <1>3, AccessAssumption DEF Fits
  <2> QED
    BY <1>3, <2>1 DEF Fits, BarredStays, Admitted
<1>4. CASE cred[r] # None /\ cred[r] \in Users
  <2>1. cred[r] \notin Keys
    BY <1>2, <1>4
  <2>2. session[cred[r]] # "none" /\ session'[cred[r]] # "none"
    BY <1>1, <1>4 DEF Fits, Decays
  <2>3. Fits(r)' /\ Admitted(r)'
    BY <1>1, <1>4, <2>1, <2>2 DEF Fits, Admitted
  <2>4. ~Valid(cred[r]) => session'[cred[r]] # "live"
    BY <1>4, <2>2 DEF Valid, Decays
  <2>5. status[AccountOf(cred[r])] # "active" => status'[cred[r]] # "active"
    BY <1>4 DEF AccountOf, NobodyReturns
  <2>6. BarredStays(r)'
    BY <1>1, <1>4, <2>4, <2>5 DEF BarredStays, Valid, AccountOf
  <2> QED
    BY <2>3, <2>6
<1>5. CASE cred[r] # None /\ cred[r] \notin Users
  <2>1. cred[r] \in Keys
    BY <1>2, <1>5
  <2>2. /\ key[cred[r]].state # "unused" /\ key'[cred[r]].state # "unused"
        /\ key'[cred[r]].user = key[cred[r]].user
    BY <1>1, <2>1 DEF Fits, Decays
  <2>3. Fits(r)' /\ Admitted(r)'
    BY <1>1, <1>5, <2>1, <2>2 DEF Fits, Admitted
  <2>4. ~Valid(cred[r]) => key'[cred[r]].state # "live"
    BY <1>5, <2>1, <2>2 DEF Valid, Decays
  <2>5. status[AccountOf(cred[r])] # "active" => status'[key[cred[r]].user] # "active"
    BY <1>2, <1>5 DEF AccountOf, NobodyReturns
  <2>6. BarredStays(r)'
    BY <1>1, <1>5, <2>2, <2>4, <2>5 DEF BarredStays, Valid, AccountOf
  <2> QED
    BY <2>3, <2>6
<1> QED
  BY <1>3, <1>4, <1>5

\* Nothing decays when the tables stay as they are.
LEMMA NothingChanges ==
    ASSUME UNCHANGED <<status, session, key>>
    PROVE  Decays /\ NobodyReturns
BY DEF Decays, NobodyReturns

\* What End leaves of a request, and that the others keep their state.
LEMMA EndFacts ==
    ASSUME IInv, NEW r \in Requests, End(r)
    PROVE  /\ RequestsOK'
           /\ pc'[r] = "idle" /\ cred'[r] = None /\ barred'[r] = {}
           /\ \A s \in Requests : s # r =>
                /\ pc'[s] = pc[s] /\ cred'[s] = cred[s]
                /\ caller'[s] = caller[s] /\ barred'[s] = barred[s]
<1>1. RequestsOK
  BY TypeOKSplits DEF IInv
<1>2. Nobody \in Callers
  BY DEF Nobody, Callers
<1> QED
  BY <1>1, <1>2 DEF End, RequestsOK, Progress

\* A request that ends leaves nothing to be checked, and disturbs no other as
\* long as credentials only die.
LEMMA EndKeepsRequests ==
    ASSUME IInv, NEW r \in Requests, End(r), Decays, NobodyReturns
    PROVE  RequestsOK' /\ RequestInv'
<1>1. /\ RequestsOK'
      /\ pc'[r] = "idle" /\ cred'[r] = None /\ barred'[r] = {}
      /\ \A s \in Requests : s # r =>
            /\ pc'[s] = pc[s] /\ cred'[s] = cred[s]
            /\ caller'[s] = caller[s] /\ barred'[s] = barred[s]
  BY EndFacts
<1>2. (Fits(r) /\ BarredStays(r) /\ Admitted(r))'
  BY <1>1, AccessAssumption DEF Fits, BarredStays, Admitted
<1>3. \A s \in Requests : s # r => (Fits(s) /\ BarredStays(s) /\ Admitted(s))'
  BY <1>1, BystanderKeeps
<1> QED
  BY <1>1, <1>2, <1>3 DEF RequestInv

\* The parts of the invariant together.
LEMMA PartsSuffice ==
    ASSUME CredentialsOK', RequestsOK', RequestInv', KeysHaveUsers', TenancyInv'
    PROVE  IInv'
BY TypeOKJoins DEF IInv, TenancyInv

-----------------------------------------------------------------------------
\* A step of the middleware reads the tables and writes none.
LEMMA ReadingKeeps ==
    ASSUME IInv, UNCHANGED dbVars
    PROVE  CredentialsOK' /\ KeysHaveUsers' /\ TenancyInv' /\ Decays /\ NobodyReturns
<1>1. UNCHANGED <<status, admins, session, key, appOwner, orgApp, role, file>>
  BY DEF dbVars
<1>2. CredentialsOK
  BY TypeOKSplits DEF IInv
<1>3. CredentialsOK' /\ KeysHaveUsers'
  BY <1>1, <1>2 DEF IInv, CredentialsOK, KeysHaveUsers
<1> QED
  BY <1>1, <1>3, TenancyUntouched, NothingChanges

\* What is invalid when the request begins is what it is barred for.
LEMMA BeginKeepsIInv ==
    ASSUME IInv, NEW r \in Requests, NEW c \in Users \cup Keys, Begin(r, c)
    PROVE  IInv'
<1>1. /\ pc[r] = "idle"
      /\ IF c \in Users THEN session[c] # "none" ELSE key[c].state # "unused"
      /\ pc' = [pc EXCEPT ![r] = IF c \in Users THEN "session" ELSE "key"]
      /\ cred' = [cred EXCEPT ![r] = c]
      /\ UNCHANGED <<dbVars, caller>>
  BY DEF Begin
<1> DEFINE B == {b \in {"credential"} : ~Valid(c)} \cup
                {b \in {"account"} : status[AccountOf(c)] # "active"}
<1>2. barred' = [barred EXCEPT ![r] = B]
  BY DEF Begin
<1>3. /\ B \in SUBSET {"credential", "account"}
      /\ "credential" \in B => ~Valid(c)
      /\ "account" \in B => status[AccountOf(c)] # "active"
  OBVIOUS
<1>4. RequestsOK
  BY TypeOKSplits DEF IInv
<1> HIDE DEF B
<1>5. RequestsOK'
  <2>1. pc' \in [Requests -> Progress]
    BY <1>1, <1>4 DEF RequestsOK, Progress
  <2>2. cred' \in [Requests -> Users \cup Keys \cup {None}]
    BY <1>1, <1>4 DEF RequestsOK
  <2>3. barred' \in [Requests -> SUBSET {"credential", "account"}]
    BY <1>2, <1>3, <1>4 DEF RequestsOK
  <2> QED
    BY <1>1, <1>4, <2>1, <2>2, <2>3 DEF RequestsOK
<1>6. /\ pc'[r] = IF c \in Users THEN "session" ELSE "key"
      /\ cred'[r] = c /\ barred'[r] = B
      /\ \A s \in Requests : s # r =>
            /\ pc'[s] = pc[s] /\ cred'[s] = cred[s]
            /\ caller'[s] = caller[s] /\ barred'[s] = barred[s]
  BY <1>1, <1>2, <1>4 DEF RequestsOK
<1>7. CredentialsOK' /\ KeysHaveUsers' /\ TenancyInv' /\ Decays /\ NobodyReturns
  BY <1>1, ReadingKeeps
<1>8. UNCHANGED <<status, session, key>>
  BY <1>1 DEF dbVars
<1>9. Fits(r)' /\ Admitted(r)'
  BY <1>1, <1>6, <1>8, AccessAssumption DEF Fits, Admitted
<1>10. BarredStays(r)'
  BY <1>3, <1>6, <1>8 DEF BarredStays, Valid, AccountOf
<1>11. \A s \in Requests : s # r => (Fits(s) /\ BarredStays(s) /\ Admitted(s))'
  BY <1>6, <1>7, BystanderKeeps
<1>12. RequestInv'
  BY <1>9, <1>10, <1>11 DEF RequestInv
<1> QED
  BY <1>5, <1>7, <1>12, PartsSuffice

\* resolve_session and resolve_key read what the request was barred for.
LEMMA ResolveKeepsIInv ==
    ASSUME IInv, NEW r \in Requests, ResolveSession(r) \/ ResolveKey(r) \/ ResolveKeyUser(r)
    PROVE  IInv'
<1>1. UNCHANGED <<dbVars, cred, barred>>
  BY DEF ResolveSession, ResolveKey, ResolveKeyUser, Admit
<1>2. UNCHANGED <<status, admins, session, key>>
  BY <1>1 DEF dbVars
<1>3. RequestsOK /\ CredentialsOK
  BY TypeOKSplits DEF IInv
<1>4. Fits(r) /\ BarredStays(r) /\ Admitted(r)
  BY DEF IInv, RequestInv
<1>5. barred[r] \in SUBSET {"credential", "account"}
  BY <1>3 DEF RequestsOK
<1>6. pc[r] \in {"session", "key", "user"} /\ cred[r] # None
  BY <1>4 DEF ResolveSession, ResolveKey, ResolveKeyUser, Fits
<1>7. /\ cred[r] \in Users \cup Keys
      /\ cred[r] \in Keys => cred[r] \notin Users
      /\ AccountOf(cred[r]) \in Users
  BY <1>6, AccountExists
<1>8. \E q \in {"user", "handler"}, x \in Callers :
        /\ pc' = [pc EXCEPT ![r] = q]
        /\ caller' = [caller EXCEPT ![r] = x]
        /\ x.user \in Users
        /\ q = "user" => /\ cred[r] \in Keys
                         /\ x.user = key[cred[r]].user
                         /\ "credential" \notin barred[r]
        /\ q = "handler" => barred[r] = {}
  <2>1. CASE ResolveSession(r)
    <3> DEFINE x == [user |-> cred[r], admin |-> cred[r] \in admins, scopes |-> Scopes]
    <3>1. cred[r] \in Users /\ Valid(cred[r]) /\ status[cred[r]] = "active"
      BY <1>4, <2>1 DEF ResolveSession, Fits, Permitted
    <3>2. barred[r] = {}
      BY <1>4, <1>5, <1>6, <3>1 DEF BarredStays, AccountOf
    <3>3. x \in Callers /\ x.user = cred[r]
      BY <3>1 DEF Callers
    <3>4. pc' = [pc EXCEPT ![r] = "handler"] /\ caller' = [caller EXCEPT ![r] = x]
      BY <2>1 DEF ResolveSession, Admit
    <3> QED
      BY <3>1, <3>2, <3>3, <3>4
  <2>2. CASE ResolveKey(r)
    <3> DEFINE x == [Nobody EXCEPT !.user = key[cred[r]].user, !.scopes = key[cred[r]].scopes]
    <3>1. cred[r] \in Keys /\ cred[r] \notin Users /\ Valid(cred[r])
      BY <1>4, <1>7, <2>2 DEF ResolveKey, Fits
    <3>2. key[cred[r]] \in KeyRows /\ key[cred[r]].user \in Users
      BY <1>3, <1>4, <3>1 DEF CredentialsOK, Fits, IInv, KeysHaveUsers
    <3>3. x \in Callers /\ x.user = key[cred[r]].user
      BY <3>2 DEF Callers, Nobody, KeyRows
    <3>4. "credential" \notin barred[r]
      BY <1>4, <1>6, <3>1 DEF BarredStays
    <3>5. pc' = [pc EXCEPT ![r] = "user"] /\ caller' = [caller EXCEPT ![r] = x]
      BY <2>2 DEF ResolveKey
    <3> QED
      BY <3>1, <3>2, <3>3, <3>4, <3>5
  <2>3. CASE ResolveKeyUser(r)
    <3> DEFINE u == caller[r].user
               x == [user |-> u, admin |-> u \in admins, scopes |-> caller[r].scopes]
    <3>1. /\ cred[r] \in Keys /\ cred[r] \notin Users
          /\ u = key[cred[r]].user /\ status[u] = "active"
      BY <1>4, <1>7, <2>3 DEF ResolveKeyUser, Fits, Permitted
    <3>2. u \in Users
      BY <1>7, <3>1 DEF AccountOf
    <3>3. caller[r] \in Callers
      BY <1>3 DEF RequestsOK
    <3>4. x \in Callers /\ x.user = u
      BY <3>2, <3>3 DEF Callers
    <3>5. barred[r] = {}
      BY <1>4, <1>5, <1>6, <2>3, <3>1 DEF BarredStays, Admitted, AccountOf, ResolveKeyUser
    <3>6. pc' = [pc EXCEPT ![r] = "handler"] /\ caller' = [caller EXCEPT ![r] = x]
      BY <2>3 DEF ResolveKeyUser, Admit
    <3> QED
      BY <3>2, <3>4, <3>5, <3>6
  <2> QED
    BY <2>1, <2>2, <2>3
<1>9. PICK q \in {"user", "handler"}, x \in Callers :
        /\ pc' = [pc EXCEPT ![r] = q]
        /\ caller' = [caller EXCEPT ![r] = x]
        /\ x.user \in Users
        /\ q = "user" => /\ cred[r] \in Keys
                         /\ x.user = key[cred[r]].user
                         /\ "credential" \notin barred[r]
        /\ q = "handler" => barred[r] = {}
  BY <1>8
<1>10. /\ pc'[r] = q /\ caller'[r] = x /\ cred'[r] = cred[r] /\ barred'[r] = barred[r]
       /\ \A s \in Requests : s # r =>
            /\ pc'[s] = pc[s] /\ cred'[s] = cred[s]
            /\ caller'[s] = caller[s] /\ barred'[s] = barred[s]
  BY <1>1, <1>3, <1>9 DEF RequestsOK
<1>11. RequestsOK'
  <2>1. pc' \in [Requests -> Progress]
    BY <1>3, <1>9 DEF RequestsOK, Progress
  <2>2. caller' \in [Requests -> Callers]
    BY <1>3, <1>9 DEF RequestsOK
  <2> QED
    BY <1>1, <1>3, <2>1, <2>2 DEF RequestsOK
<1>12. CredentialsOK' /\ KeysHaveUsers' /\ TenancyInv' /\ Decays /\ NobodyReturns
  BY <1>1, ReadingKeeps
<1>13. Fits(r)'
  BY <1>2, <1>4, <1>6, <1>9, <1>10 DEF Fits
<1>14. BarredStays(r)'
  BY <1>2, <1>4, <1>10 DEF BarredStays, Valid, AccountOf
<1>15. Admitted(r)'
  BY <1>9, <1>10 DEF Admitted
<1>16. \A s \in Requests : s # r => (Fits(s) /\ BarredStays(s) /\ Admitted(s))'
  BY <1>10, <1>12, BystanderKeeps
<1>17. RequestInv'
  BY <1>13, <1>14, <1>15, <1>16 DEF RequestInv
<1> QED
  BY <1>11, <1>12, <1>17, PartsSuffice

\* A refusal and an answer end the request.
LEMMA AnswerKeepsIInv ==
    ASSUME IInv, NEW r \in Requests, Refuse(r) \/ Answer(r)
    PROVE  IInv'
<1>1. End(r) /\ UNCHANGED dbVars
  BY DEF Refuse, Answer
<1>2. CredentialsOK' /\ KeysHaveUsers' /\ TenancyInv' /\ Decays /\ NobodyReturns
  BY <1>1, ReadingKeeps
<1>3. RequestsOK' /\ RequestInv'
  BY <1>1, <1>2, EndKeepsRequests
<1> QED
  BY <1>2, <1>3, PartsSuffice

\* A request without a session or key goes on: with the claims of a remote token,
\* or without a caller.
LEMMA WithoutCredential ==
    ASSUME IInv, NEW r \in Requests, NEW x \in Callers, NEW q \in {"handler", "anonymous"},
           NEW B \in SUBSET {"credential", "account"},
           pc' = [pc EXCEPT ![r] = q], cred' = [cred EXCEPT ![r] = None],
           caller' = [caller EXCEPT ![r] = x], barred' = [barred EXCEPT ![r] = B],
           UNCHANGED dbVars
    PROVE  IInv'
<1>1. RequestsOK
  BY TypeOKSplits DEF IInv
<1>2. RequestsOK'
  BY <1>1 DEF RequestsOK, Progress
<1>3. /\ pc'[r] = q /\ cred'[r] = None
      /\ \A s \in Requests : s # r =>
            /\ pc'[s] = pc[s] /\ cred'[s] = cred[s]
            /\ caller'[s] = caller[s] /\ barred'[s] = barred[s]
  BY <1>1 DEF RequestsOK
<1>4. CredentialsOK' /\ KeysHaveUsers' /\ TenancyInv' /\ Decays /\ NobodyReturns
  BY ReadingKeeps
<1>5. (Fits(r) /\ BarredStays(r) /\ Admitted(r))'
  BY <1>3, AccessAssumption DEF Fits, BarredStays, Admitted
<1>6. \A s \in Requests : s # r => (Fits(s) /\ BarredStays(s) /\ Admitted(s))'
  BY <1>3, <1>4, BystanderKeeps
<1>7. RequestInv'
  BY <1>5, <1>6 DEF RequestInv
<1> QED
  BY <1>2, <1>4, <1>7, PartsSuffice

\* The two ways a request has no session and no key.
LEMMA WithoutCredentialKeepsIInv ==
    ASSUME IInv, NEW r \in Requests,
           \/ \E u \in Users \cup {None}, isAdmin \in BOOLEAN : AdmitRemote(r, u, isAdmin)
           \/ GoAnonymous(r)
    PROVE  IInv'
<1>1. ASSUME NEW u \in Users \cup {None}, NEW isAdmin \in BOOLEAN, AdmitRemote(r, u, isAdmin)
      PROVE  IInv'
  <2> DEFINE x == [user |-> u, admin |-> isAdmin, scopes |-> Scopes]
             B == {b \in {"account"} : u \in Users /\ status[u] # "active"}
  <2>1. x \in Callers /\ B \in SUBSET {"credential", "account"}
    BY DEF Callers
  <2>2. /\ pc' = [pc EXCEPT ![r] = "handler"] /\ caller' = [caller EXCEPT ![r] = x]
        /\ barred' = [barred EXCEPT ![r] = B] /\ UNCHANGED <<dbVars, cred>> /\ pc[r] = "idle"
    BY <1>1 DEF AdmitRemote
  <2>3. cred' = [cred EXCEPT ![r] = None]
    BY <2>2, TypeOKSplits DEF IInv, RequestInv, Fits, RequestsOK
  <2> HIDE DEF x, B
  <2> QED
    BY <2>1, <2>2, <2>3, WithoutCredential
<1>2. CASE GoAnonymous(r)
  <2>1. Nobody \in Callers
    BY DEF Nobody, Callers
  <2> QED
    BY <1>2, <2>1, WithoutCredential DEF GoAnonymous
<1> QED
  BY <1>1, <1>2

-----------------------------------------------------------------------------
\* A handler that needs a session runs for an account.
LEMMA SessionIsUser ==
    ASSUME IInv, NEW r \in Requests, SessionUser(r)
    PROVE  caller[r].user \in Users
BY AccessAssumption DEF SessionUser, IInv, RequestInv, Fits

\* A handler that writes no credential ends its request, whatever else it does.
LEMMA HandlerKeepsIInv ==
    ASSUME IInv, NEW r \in Requests, End(r), UNCHANGED <<status, admins, session, key>>, TenancyInv'
    PROVE  IInv'
<1>1. CredentialsOK
  BY TypeOKSplits DEF IInv
<1>2. CredentialsOK' /\ KeysHaveUsers'
  BY <1>1 DEF IInv, CredentialsOK, KeysHaveUsers
<1>3. RequestsOK' /\ RequestInv'
  BY EndKeepsRequests, NothingChanges
<1> QED
  BY <1>2, <1>3, PartsSuffice

\* An application gets its owner before it has an organization.
LEMMA CreateAppKeepsIInv ==
    ASSUME IInv, NEW r \in Requests, NEW x \in Apps, CreateApp(r, x)
    PROVE  IInv'
<1> DEFINE u == caller[r].user
<1>1. /\ appOwner[x] = None /\ appOwner' = [appOwner EXCEPT ![x] = u]
      /\ UNCHANGED <<status, admins, session, key, orgApp, role, file>> /\ End(r)
  BY DEF CreateApp
<1>2. u \in Users
  BY DEF CreateApp, IsAccount
<1>3. TenancyOK
  BY TypeOKSplits DEF IInv
<1>4. TenancyOK'
  BY <1>1, <1>2, <1>3 DEF TenancyOK
<1>5. MembersOfExisting' /\ FilesFromMembers'
  BY <1>1 DEF IInv, MembersOfExisting, FilesFromMembers
<1>6. OwnersOwn'
  <2>1. \A o \in Orgs : orgApp[o] # None => orgApp[o] # x /\ orgApp[o] \in Apps
    BY <1>1, <1>3, AccessAssumption DEF IInv, OwnersOwn, TenancyOK
  <2>2. \A o \in Orgs : orgApp[o] # None => appOwner'[orgApp[o]] = appOwner[orgApp[o]]
    BY <1>1, <1>3, <2>1 DEF TenancyOK
  <2> QED
    BY <1>1, <2>2 DEF IInv, OwnersOwn
<1>7. TenancyInv'
  BY <1>4, <1>5, <1>6 DEF TenancyInv
<1> QED
  BY <1>1, <1>7, HandlerKeepsIInv

\* The owner of the application becomes the first owner of the organization, in
\* the same transaction.
LEMMA CreateOrgKeepsIInv ==
    ASSUME IInv, NEW r \in Requests, NEW x \in Apps, NEW o \in Orgs, CreateOrg(r, x, o)
    PROVE  IInv'
<1> DEFINE u == caller[r].user
<1>1. /\ appOwner[x] = u /\ orgApp[o] = None
      /\ orgApp' = [orgApp EXCEPT ![o] = x]
      /\ role' = [role EXCEPT ![o][u] = 3]
      /\ UNCHANGED <<status, admins, session, key, appOwner, file>> /\ End(r)
  BY DEF CreateOrg
<1>2. u \in Users
  BY DEF CreateOrg, IsAccount
<1>3. TenancyOK
  BY TypeOKSplits DEF IInv
<1>4. 3 \in Role /\ role \in [Orgs -> [Users -> Role]] /\ role[o] \in [Users -> Role]
  BY <1>3 DEF Role, TenancyOK
<1>5. /\ role' \in [Orgs -> [Users -> Role]] /\ role'[o][u] = 3
      /\ \A p \in Orgs, v \in Users : (p # o \/ v # u) => role'[p][v] = role[p][v]
  BY <1>1, <1>2, <1>4
<1>6. x # None /\ orgApp'[o] = x /\ \A p \in Orgs : p # o => orgApp'[p] = orgApp[p]
  BY <1>1, <1>3, AccessAssumption DEF TenancyOK
<1>7. TenancyOK'
  BY <1>1, <1>3, <1>5 DEF TenancyOK
<1>8. MembersOfExisting'
  BY <1>5, <1>6 DEF IInv, MembersOfExisting
<1>9. OwnersOwn'
  BY <1>1, <1>2, <1>5, <1>6 DEF IInv, OwnersOwn
<1>10. FilesFromMembers'
  <2> SUFFICES ASSUME NEW f \in Files, file[f] # None, file[f].org # None
               PROVE  role'[file[f].org][file[f].owner] >= 1
    BY <1>1 DEF FilesFromMembers
  <2>1. file[f].org \in Orgs /\ file[f].owner \in Users
    BY <1>3 DEF TenancyOK, FileRows
  <2>2. role[file[f].org][file[f].owner] >= 1
    BY DEF IInv, FilesFromMembers
  <2> QED
    BY <1>5, <2>1, <2>2
<1>11. TenancyInv'
  BY <1>7, <1>8, <1>9, <1>10 DEF TenancyInv
<1> QED
  BY <1>1, <1>11, HandlerKeepsIInv

\* A member is added to an organization that exists, and no role is lowered.
LEMMA AddMemberKeepsIInv ==
    ASSUME IInv, NEW r \in Requests, NEW o \in Orgs, NEW u \in Users, NEW g \in 1..3,
           AddMember(r, o, u, g)
    PROVE  IInv'
<1>1. /\ HasRole(o, caller[r].user, 2) /\ role[o][u] = 0
      /\ role' = [role EXCEPT ![o][u] = g]
      /\ UNCHANGED <<status, admins, session, key, appOwner, orgApp, file>> /\ End(r)
  BY DEF AddMember
<1>2. caller[r].user \in Users
  BY <1>1 DEF HasRole
<1>3. TenancyOK
  BY TypeOKSplits DEF IInv
<1>4. g \in Role /\ role \in [Orgs -> [Users -> Role]] /\ role[o] \in [Users -> Role]
  BY <1>3 DEF Role, TenancyOK
<1>5. /\ role' \in [Orgs -> [Users -> Role]] /\ role'[o][u] = g
      /\ \A p \in Orgs, v \in Users : (p # o \/ v # u) => role'[p][v] = role[p][v]
  BY <1>1, <1>4
<1>6. orgApp[o] # None
  BY <1>1, <1>2 DEF HasRole, IInv, MembersOfExisting
<1>7. TenancyOK'
  BY <1>1, <1>3, <1>5 DEF TenancyOK
<1>8. MembersOfExisting'
  BY <1>1, <1>5, <1>6 DEF IInv, MembersOfExisting
<1>9. OwnersOwn'
  <2> SUFFICES ASSUME NEW p \in Orgs, orgApp[p] # None
               PROVE  appOwner[orgApp[p]] \in Users /\ role'[p][appOwner[orgApp[p]]] = 3
    BY <1>1 DEF OwnersOwn
  <2>1. appOwner[orgApp[p]] \in Users /\ role[p][appOwner[orgApp[p]]] = 3
    BY DEF IInv, OwnersOwn
  <2> QED
    BY <1>1, <1>5, <2>1
<1>10. FilesFromMembers'
  <2> SUFFICES ASSUME NEW f \in Files, file[f] # None, file[f].org # None
               PROVE  role'[file[f].org][file[f].owner] >= 1
    BY <1>1 DEF FilesFromMembers
  <2>1. file[f].org \in Orgs /\ file[f].owner \in Users
    BY <1>3 DEF TenancyOK, FileRows
  <2>2. role[file[f].org][file[f].owner] >= 1
    BY DEF IInv, FilesFromMembers
  <2> QED
    BY <1>1, <1>5, <2>1, <2>2
<1>11. TenancyInv'
  BY <1>7, <1>8, <1>9, <1>10 DEF TenancyInv
<1> QED
  BY <1>1, <1>11, HandlerKeepsIInv

\* A file of an organization is uploaded by a member.
LEMMA UploadKeepsIInv ==
    ASSUME IInv, NEW r \in Requests, NEW f \in Files, NEW o \in Orgs \cup {None},
           NEW public \in BOOLEAN, Upload(r, f, o, public)
    PROVE  IInv'
<1> DEFINE u == caller[r].user
           row == [owner |-> u, org |-> o, public |-> public]
<1>1. /\ o # None => role[o][u] >= 1
      /\ file' = [file EXCEPT ![f] = row]
      /\ UNCHANGED <<status, admins, session, key, appOwner, orgApp, role>> /\ End(r)
  BY DEF Upload, HasRole
<1>2. u \in Users
  BY DEF Upload, IsAccount
<1>3. row \in FileRows /\ row.owner = u /\ row.org = o
  BY <1>2 DEF FileRows
<1> HIDE DEF row
<1>4. TenancyOK
  BY TypeOKSplits DEF IInv
<1>5. TenancyOK' /\ \A h \in Files : file'[h] = IF h = f THEN row ELSE file[h]
  BY <1>1, <1>3, <1>4 DEF TenancyOK
<1>6. MembersOfExisting' /\ OwnersOwn'
  BY <1>1 DEF IInv, MembersOfExisting, OwnersOwn
<1>7. FilesFromMembers'
  BY <1>1, <1>3, <1>5 DEF IInv, FilesFromMembers
<1>8. TenancyInv'
  BY <1>5, <1>6, <1>7 DEF TenancyInv
<1> QED
  BY <1>1, <1>8, HandlerKeepsIInv

\* A deleted file is nobody's.
LEMMA DeleteFileKeepsIInv ==
    ASSUME IInv, NEW r \in Requests, NEW f \in Files, DeleteFile(r, f)
    PROVE  IInv'
<1>1. /\ file' = [file EXCEPT ![f] = None]
      /\ UNCHANGED <<status, admins, session, key, appOwner, orgApp, role>> /\ End(r)
  BY DEF DeleteFile
<1>2. TenancyOK
  BY TypeOKSplits DEF IInv
<1>3. TenancyOK' /\ \A h \in Files : file'[h] = IF h = f THEN None ELSE file[h]
  BY <1>1, <1>2 DEF TenancyOK
<1>4. MembersOfExisting' /\ OwnersOwn' /\ FilesFromMembers'
  BY <1>1, <1>3 DEF IInv, MembersOfExisting, OwnersOwn, FilesFromMembers
<1>5. TenancyInv'
  BY <1>3, <1>4 DEF TenancyInv
<1> QED
  BY <1>1, <1>5, HandlerKeepsIInv

-----------------------------------------------------------------------------
\* The row of one key changes: an unused one is handed out to an account, or one
\* that was handed out dies.
LEMMA KeyStepFacts ==
    ASSUME IInv, NEW k \in Keys, NEW row \in KeyRows, key' = [key EXCEPT ![k] = row],
           \/ key[k].state = "unused" /\ row.user \in Users
           \/ row.state = "dead" /\ row.user = key[k].user /\ key[k].state # "unused",
           UNCHANGED <<status, admins, session>>
    PROVE  CredentialsOK' /\ KeysHaveUsers' /\ Decays /\ NobodyReturns
<1>1. CredentialsOK
  BY TypeOKSplits DEF IInv
<1>2. \A j \in Keys : key'[j] = IF j = k THEN row ELSE key[j]
  BY <1>1 DEF CredentialsOK
<1>3. CredentialsOK'
  BY <1>1 DEF CredentialsOK
<1>4. KeysHaveUsers'
  BY <1>2 DEF IInv, KeysHaveUsers
<1>5. Decays /\ NobodyReturns
  BY <1>2 DEF Decays, NobodyReturns
<1> QED
  BY <1>3, <1>4, <1>5

\* delete_me.
LEMMA DeleteMeFacts ==
    ASSUME IInv, NEW u \in Users, DeleteMe(u)
    PROVE  CredentialsOK' /\ KeysHaveUsers' /\ Decays /\ NobodyReturns
<1>1. CredentialsOK
  BY TypeOKSplits DEF IInv
<1>2. /\ status' = [status EXCEPT ![u] = "deleted"]
      /\ session' = [session EXCEPT ![u] = "dead"]
      /\ UNCHANGED <<admins, key>>
  BY DEF DeleteMe
<1>3. CredentialsOK'
  BY <1>1, <1>2 DEF CredentialsOK
<1>4. KeysHaveUsers' /\ Decays /\ NobodyReturns
  BY <1>1, <1>2 DEF CredentialsOK, IInv, KeysHaveUsers, Decays, NobodyReturns
<1> QED
  BY <1>3, <1>4

\* create_key, delete_key and the account's own deletion.
LEMMA CredentialHandlersKeepIInv ==
    ASSUME IInv, NEW r \in Requests,
           \/ \E k \in Keys, list \in ScopeRequests : CreateKey(r, k, list)
           \/ \E k \in Keys : DeleteKey(r, k)
           \/ DeleteAccount(r)
    PROVE  IInv'
<1> DEFINE u == caller[r].user
<1>1. SessionUser(r) /\ End(r) /\ UNCHANGED <<admins, appOwner, orgApp, role, file>>
  BY DEF CreateKey, DeleteKey, DeleteAccount, DeleteMe
<1>2. u \in Users
  BY <1>1, SessionIsUser
<1>3. TenancyInv'
  BY <1>1, TenancyUntouched
<1>4. CredentialsOK
  BY TypeOKSplits DEF IInv
<1>5. CredentialsOK' /\ KeysHaveUsers' /\ Decays /\ NobodyReturns
  <2>1. CASE \E k \in Keys, list \in ScopeRequests : CreateKey(r, k, list)
    <3>1. PICK k \in Keys, list \in ScopeRequests : CreateKey(r, k, list)
      BY <2>1
    <3> DEFINE row == [state |-> "live", user |-> u, scopes |-> ParseRequest(list)]
    <3>2. ParseRequest(list) \in SUBSET Scopes
      BY AccessAssumption DEF ParseRequest, Wildcard, Scopes
    <3>3. row \in KeyRows /\ row.user = u
      BY <1>2, <3>2 DEF KeyRows
    <3>4. /\ key[k].state = "unused" /\ key' = [key EXCEPT ![k] = row]
          /\ UNCHANGED <<status, admins, session>>
      BY <3>1 DEF CreateKey
    <3> QED
      BY <1>2, <3>3, <3>4, KeyStepFacts
  <2>2. CASE \E k \in Keys : DeleteKey(r, k)
    <3>1. PICK k \in Keys : DeleteKey(r, k)
      BY <2>2
    <3> DEFINE row == [key[k] EXCEPT !.state = "dead"]
    <3>2. key[k] \in KeyRows
      BY <1>4 DEF CredentialsOK
    <3>3. row \in KeyRows /\ row.state = "dead" /\ row.user = key[k].user
      BY <3>2 DEF KeyRows
    <3>4. /\ key[k].state # "unused" /\ key' = [key EXCEPT ![k] = row]
          /\ UNCHANGED <<status, admins, session>>
      BY <3>1 DEF DeleteKey
    <3> QED
      BY <3>3, <3>4, KeyStepFacts
  <2>3. CASE DeleteAccount(r)
    BY <1>2, <2>3, DeleteMeFacts DEF DeleteAccount
  <2> QED
    BY <2>1, <2>2, <2>3
<1>6. RequestsOK' /\ RequestInv'
  BY <1>1, <1>5, EndKeepsRequests
<1> QED
  BY <1>3, <1>5, <1>6, PartsSuffice

\* Sign-ins, sign-outs, deletions, expiry and a change of role while requests run.
LEMMA EnvironmentKeepsIInv ==
    ASSUME IInv,
           \/ \E u \in Users : SignIn(u) \/ EndSession(u) \/ SetAdmin(u) \/ AccountDeleted(u)
           \/ \E k \in Keys : KeyEnds(k)
    PROVE  IInv'
<1>1. UNCHANGED <<pc, cred, caller, barred>> /\ UNCHANGED <<appOwner, orgApp, role, file>>
  BY DEF SignIn, EndSession, SetAdmin, AccountDeleted, DeleteMe, KeyEnds, requestVars
<1>2. CredentialsOK /\ RequestsOK
  BY TypeOKSplits DEF IInv
<1>3. CredentialsOK' /\ KeysHaveUsers' /\ Decays /\ NobodyReturns
  <2>1. CASE \E u \in Users : SignIn(u) \/ EndSession(u)
    <3>1. PICK u \in Users, s \in {"live", "dead"} :
            /\ session' = [session EXCEPT ![u] = s]
            /\ session[u] # "none" => s = "dead"
            /\ UNCHANGED <<status, admins, key>>
      BY <2>1 DEF SignIn, EndSession
    <3>2. CredentialsOK'
      BY <1>2, <3>1 DEF CredentialsOK
    <3>3. KeysHaveUsers' /\ Decays /\ NobodyReturns
      BY <1>2, <3>1 DEF CredentialsOK, IInv, KeysHaveUsers, Decays, NobodyReturns
    <3> QED
      BY <3>2, <3>3
  <2>2. CASE \E u \in Users : SetAdmin(u)
    <3>1. UNCHANGED <<status, session, key>> /\ admins' \subseteq Users
      BY <1>2, <2>2 DEF SetAdmin, CredentialsOK
    <3> QED
      BY <1>2, <3>1, NothingChanges DEF CredentialsOK, IInv, KeysHaveUsers
  <2>3. CASE \E k \in Keys : KeyEnds(k)
    <3>1. PICK k \in Keys : KeyEnds(k)
      BY <2>3
    <3> DEFINE row == [key[k] EXCEPT !.state = "dead"]
    <3>2. key[k] \in KeyRows
      BY <1>2 DEF CredentialsOK
    <3>3. row \in KeyRows /\ row.state = "dead" /\ row.user = key[k].user
      BY <3>2 DEF KeyRows
    <3>4. /\ key[k].state # "unused" /\ key' = [key EXCEPT ![k] = row]
          /\ UNCHANGED <<status, admins, session>>
      BY <3>1 DEF KeyEnds
    <3> QED
      BY <3>3, <3>4, KeyStepFacts
  <2>4. CASE \E u \in Users : AccountDeleted(u)
    BY <2>4, DeleteMeFacts DEF AccountDeleted
  <2> QED
    BY <2>1, <2>2, <2>3, <2>4
<1>4. RequestsOK' /\ RequestInv'
  BY <1>1, <1>2, <1>3, BystanderKeeps DEF RequestsOK, RequestInv
<1>5. TenancyInv'
  BY <1>1, TenancyUntouched
<1> QED
  BY <1>3, <1>4, <1>5, PartsSuffice

\* A ban bars nobody who was let in, and lifting it frees the requests that wait
\* for the account to be read.
LEMMA SetBannedKeepsIInv ==
    ASSUME IInv, NEW u \in Users, NEW banned \in BOOLEAN, SetBanned(u, banned)
    PROVE  IInv'
<1>1. /\ status[u] = IF banned THEN "active" ELSE "banned"
      /\ status' = [status EXCEPT ![u] = IF banned THEN "banned" ELSE "active"]
      /\ barred' = [r \in Requests |->
                     IF ~banned /\ AccountFor(r) = u
                     THEN barred[r] \ {"account"} ELSE barred[r]]
      /\ UNCHANGED <<admins, session, key, appOwner, orgApp, role, file, pc, cred, caller>>
  BY DEF SetBanned
<1>2. CredentialsOK /\ RequestsOK
  BY TypeOKSplits DEF IInv
<1>3. CredentialsOK' /\ KeysHaveUsers'
  BY <1>1, <1>2 DEF CredentialsOK, IInv, KeysHaveUsers
<1>4. RequestsOK'
  BY <1>1, <1>2 DEF RequestsOK
<1>5. \A v \in Users : status'[v] = IF v = u THEN IF banned THEN "banned" ELSE "active" ELSE status[v]
  BY <1>1, <1>2 DEF CredentialsOK
<1>6. ASSUME NEW r \in Requests
      PROVE  (Fits(r) /\ BarredStays(r) /\ Admitted(r))'
  <2>1. Fits(r) /\ BarredStays(r) /\ Admitted(r)
    BY DEF IInv, RequestInv
  <2>2. Fits(r)'
    BY <1>1, <2>1 DEF Fits
  <2>3. barred'[r] \subseteq barred[r]
    BY <1>1
  <2>4. Admitted(r)'
    BY <1>1, <2>1, <2>3 DEF Admitted
  <2>5. BarredStays(r)'
    <3> SUFFICES ASSUME cred[r] # None
                 PROVE  /\ "credential" \in barred'[r] => ~Valid(cred[r])
                        /\ "account" \in barred'[r] => status'[AccountOf(cred[r])] # "active"
      BY <1>1 DEF BarredStays, Valid, AccountOf
    <3>1. AccountOf(cred[r]) \in Users
      BY AccountExists
    <3>2. "account" \in barred'[r] =>
             "account" \in barred[r] /\ ~(~banned /\ AccountOf(cred[r]) = u)
      BY <1>1 DEF AccountFor
    <3> QED
      BY <1>5, <2>1, <2>3, <3>1, <3>2 DEF BarredStays
  <2> QED
    BY <2>2, <2>4, <2>5
<1>7. RequestInv'
  BY <1>6 DEF RequestInv
<1>8. TenancyInv'
  BY <1>1, TenancyUntouched
<1> QED
  BY <1>3, <1>4, <1>7, <1>8, PartsSuffice

-----------------------------------------------------------------------------
\* Every step keeps the invariant.
LEMMA NextKeepsIInv == IInv /\ [Next]_vars => IInv'
<1> SUFFICES ASSUME IInv, [Next]_vars
             PROVE  IInv'
  OBVIOUS
<1>1. CASE \E r \in Requests, c \in Users \cup Keys : Begin(r, c)
  BY <1>1, BeginKeepsIInv
<1>2. CASE \E r \in Requests : ResolveSession(r) \/ ResolveKey(r) \/ ResolveKeyUser(r)
  BY <1>2, ResolveKeepsIInv
<1>3. CASE \E r \in Requests : Refuse(r)
  BY <1>3, AnswerKeepsIInv
<1>8. CASE \E r \in Requests :
             \/ \E u \in Users \cup {None}, isAdmin \in BOOLEAN : AdmitRemote(r, u, isAdmin)
             \/ GoAnonymous(r)
  BY <1>8, WithoutCredentialKeepsIInv
<1>4. CASE \E r \in Requests : Handle(r)
  BY <1>4, CreateAppKeepsIInv, CreateOrgKeepsIInv, AddMemberKeepsIInv, UploadKeepsIInv,
     DeleteFileKeepsIInv, CredentialHandlersKeepIInv, AnswerKeepsIInv DEF Handle
<1>5. CASE \/ \E u \in Users : SignIn(u) \/ EndSession(u) \/ SetAdmin(u) \/ AccountDeleted(u)
           \/ \E k \in Keys : KeyEnds(k)
  BY <1>5, EnvironmentKeepsIInv
<1>6. CASE \E u \in Users, banned \in BOOLEAN : SetBanned(u, banned)
  BY <1>6, SetBannedKeepsIInv
<1>7. CASE UNCHANGED vars
  <2>1. UNCHANGED dbVars /\ UNCHANGED <<pc, cred, caller, barred>>
    BY <1>7 DEF vars, requestVars
  <2>2. CredentialsOK' /\ KeysHaveUsers' /\ TenancyInv' /\ Decays /\ NobodyReturns
    BY <2>1, ReadingKeeps
  <2>3. RequestsOK'
    BY <2>1, TypeOKSplits DEF IInv, RequestsOK
  <2>4. RequestInv'
    BY <2>1, <2>2, BystanderKeeps DEF RequestInv
  <2> QED
    BY <2>2, <2>3, <2>4, PartsSuffice
<1> QED
  BY <1>1, <1>2, <1>3, <1>4, <1>5, <1>6, <1>7, <1>8 DEF Next

\* At the start nothing exists but active accounts.
LEMMA InitIInv == Init => IInv
<1> SUFFICES ASSUME Init
             PROVE  IInv
  OBVIOUS
<1>1. CredentialsOK
  <2>1. [state |-> "unused", user |-> None, scopes |-> {}] \in KeyRows
    BY DEF KeyRows
  <2> QED
    BY <2>1 DEF Init, CredentialsOK
<1>2. TenancyOK
  BY DEF Init, TenancyOK, Role
<1>3. RequestsOK
  <2>1. Nobody \in Callers
    BY DEF Nobody, Callers
  <2> QED
    BY <2>1 DEF Init, RequestsOK, Progress
<1>4. TypeOK
  BY <1>1, <1>2, <1>3, TypeOKSplits
<1>5. RequestInv
  BY AccessAssumption DEF Init, RequestInv, Fits, BarredStays, Admitted
<1>6. KeysHaveUsers /\ MembersOfExisting /\ OwnersOwn /\ FilesFromMembers
  BY DEF Init, KeysHaveUsers, MembersOfExisting, OwnersOwn, FilesFromMembers
<1> QED
  BY <1>4, <1>5, <1>6 DEF IInv

\* The inductive invariant of authentication and tenancy.
THEOREM AccessInvariant == Spec => []IInv
<1>1. Init => IInv
  BY InitIInv
<1>2. IInv /\ [Next]_vars => IInv'
  BY NextKeepsIInv
<1> QED
  BY <1>1, <1>2, PTL DEF Spec

\* No session or key brings a request to its handler that was dead when the request
\* began, or whose account has not been active since.
THEOREM BarredStayOut == Spec => []BarredCannotBegin
<1>1. IInv => BarredCannotBegin
  BY DEF IInv, RequestInv, Admitted, BarredCannotBegin
<1> QED
  BY <1>1, AccessInvariant, PTL

\* The permissions that different functions compute agree with each other.
THEOREM PermissionsHold == Spec => []PermissionsAgree
<1>1. IInv => PermissionsAgree
  <2> SUFFICES ASSUME IInv
               PROVE  PermissionsAgree
    OBVIOUS
  <2>1. TenancyOK
    BY TypeOKSplits DEF IInv
  <2>2. \A o \in Orgs, u \in Users : role[o][u] \in 0..3
    BY <2>1 DEF TenancyOK, Role
  <2>3. \A f \in Files : file[f] # None =>
          file[f].owner \in Users /\ (file[f].org # None => file[f].org \in Orgs)
    BY <2>1 DEF TenancyOK, FileRows
  <2>4. \A f \in Files, u \in Users, isAdmin \in BOOLEAN :
          (file[f] # None /\ MayWrite(u, isAdmin, f)) => MayRead(u, isAdmin, f)
    BY <2>2, <2>3 DEF MayWrite, MayRead, HasRole
  <2>5. \A o \in Orgs, u \in Users : \A f \in Listed(o, u) : MayRead(u, FALSE, f)
    BY AccessAssumption DEF Listed, MayRead
  <2>6. \A o \in Orgs, u \in Users :
          HasRole(o, u, 1) => orgApp[o] # None /\ InApp(u, FALSE, orgApp[o])
    BY DEF HasRole, InApp, IInv, MembersOfExisting
  <2>7. \A o \in Orgs : orgApp[o] # None => HasRole(o, appOwner[orgApp[o]], 3)
    BY DEF HasRole, IInv, OwnersOwn
  <2>8. \A f \in Files :
          (file[f] # None /\ file[f].org # None) => HasRole(file[f].org, file[f].owner, 1)
    BY <2>3 DEF HasRole, IInv, FilesFromMembers
  <2> QED
    BY <2>4, <2>5, <2>6, <2>7, <2>8 DEF PermissionsAgree
<1> QED
  BY <1>1, AccessInvariant, PTL
=============================================================================
