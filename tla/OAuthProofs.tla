---------------------------- MODULE OAuthProofs ----------------------------
(***************************************************************************)
(* The sign-in callbacks for any number of providers, addresses, accounts  *)
(* and overlapping callbacks.  That a flow signs in once needs to know who *)
(* consumed it and has not ended (FlowIsTheirs, FlowTakenOnce); that       *)
(* a session belongs to the account of its address needs what uncommitted  *)
(* callbacks have found or reserved (SignsInOwner, CreatesNewOwner), since *)
(* neither the UPDATE by id nor the commit looks at the address again.     *)
(***************************************************************************)
EXTENDS OAuth, TLAPS

Live(u) == account[u].state = "live"

\* A callback that is under way has consumed its flow, which has no session yet.
FlowIsTheirs ==
    \A r \in Requests :
        /\ pc[r] = "idle" <=> of[r] = None
        /\ of[r] # None => flow[of[r]].state = "used" /\ sessions[of[r]] = <<>>

\* No two callbacks have consumed the same flow.
FlowTakenOnce ==
    \A r, s \in Requests : (of[r] # None /\ of[r] = of[s]) => r = s

\* After the exchange a callback knows an identity at the flow's provider and a
\* verified address, from its SELECT or INSERT on also the account.
KnowsWho ==
    \A r \in Requests :
        /\ pc[r] \in {"find", "touch", "insert", "link", "commit"} =>
            /\ who[r] \in Identities /\ email[r] # None
            /\ who[r][1] = flow[of[r]].provider
        /\ pc[r] \in {"touch", "link", "commit"} <=> user[r] # None
        /\ creates[r] => pc[r] \in {"link", "commit"}

\* The account a callback found has the verified address as long as it is live,
\* although the callback does not look again.
SignsInOwner ==
    \A r \in Requests : (user[r] # None /\ ~creates[r]) =>
        /\ account[user[r]].state # "unused"
        /\ Live(user[r]) => account[user[r]].email = email[r]

\* The account a callback is creating has an id and an address nobody else has.
CreatesNewOwner ==
    /\ \A r \in Requests : creates[r] =>
        /\ account[user[r]].state = "unused"
        /\ ~EmailTaken(email[r])
    /\ \A r, s \in Requests :
        (creates[r] /\ creates[s] /\ (user[r] = user[s] \/ email[r] = email[s])) => r = s

\* The unique index on the addresses of live accounts.
EmailsUnique ==
    \A u, v \in Accounts : (Live(u) /\ Live(v) /\ account[u].email = account[v].email) => u = v

\* A flow has a session only when it is used, at most one, of its provider, and
\* that session's account, while it is live, has the session's address.
SessionsGrounded ==
    \A f \in Flows :
        /\ flow[f].state # "used" => sessions[f] = <<>>
        /\ Len(sessions[f]) <= 1
        /\ \A n \in DOMAIN sessions[f] :
            LET s == sessions[f][n] IN
            /\ s.provider = flow[f].provider
            /\ s.user \in Accounts
            /\ account[s.user].state # "unused"
            /\ Live(s.user) => account[s.user].email = s.email

IInv ==
    /\ TypeOK
    /\ FlowIsTheirs
    /\ FlowTakenOnce
    /\ KnowsWho
    /\ SignsInOwner
    /\ CreatesNewOwner
    /\ EmailsUnique
    /\ SessionsGrounded

-----------------------------------------------------------------------------
\* The rows of the tables, and the type invariant in terms of them.
FlowRows == [state : {"unused", "open", "used", "expired"}, provider : Providers \cup {None}]
AccountRows == [state : {"unused", "deleted"}, email : {None}, banned : BOOLEAN]
               \cup [state : {"live"}, email : Emails, banned : BOOLEAN]
SessionRows == [user : Accounts, email : Emails, provider : Providers]

TablesOK ==
    /\ flow \in [Flows -> FlowRows]
    /\ account \in [Accounts -> AccountRows]
    /\ link \in [Identities -> Accounts \cup {None}]
    /\ sessions \in [Flows -> Seq(SessionRows)]

CallbacksOK ==
    /\ pc \in [Requests -> {"idle", "exchange", "find", "touch", "insert", "link", "commit"}]
    /\ of \in [Requests -> Flows \cup {None}]
    /\ who \in [Requests -> Identities \cup {None}]
    /\ email \in [Requests -> Emails \cup {None}]
    /\ user \in [Requests -> Accounts \cup {None}]
    /\ creates \in [Requests -> BOOLEAN]

\* The type invariant says that the tables and the callbacks have their types.
LEMMA TypeOKSplits == TypeOK <=> TablesOK /\ CallbacksOK
BY DEF TypeOK, TablesOK, CallbacksOK, FlowRows, AccountRows, SessionRows

\* The same in the next state.
LEMMA TypeOKJoins ==
    ASSUME TablesOK', CallbacksOK'
    PROVE  TypeOK'
BY DEF TypeOK, TablesOK, CallbacksOK, FlowRows, AccountRows, SessionRows

\* Accounts, flows, addresses and identities of a callback exist once it has them.
LEMMA CallbackValues ==
    ASSUME IInv, NEW r \in Requests
    PROVE  /\ of[r] # None => of[r] \in Flows
           /\ user[r] # None => user[r] \in Accounts
           /\ email[r] # None => email[r] \in Emails
BY TypeOKSplits DEF IInv, CallbacksOK

\* The row of a flow that is not consumed may change: nobody has it.
LEMMA FlowStepKeepsIInv ==
    ASSUME IInv, NEW f \in Flows, NEW row \in FlowRows,
           flow[f].state # "used", row.state # "used",
           flow' = [flow EXCEPT ![f] = row],
           UNCHANGED <<account, link, sessions, callbackVars>>
    PROVE  IInv'
<1>1. UNCHANGED <<pc, of, who, email, user, creates>>
  BY DEF callbackVars
<1>2. TablesOK /\ CallbacksOK
  BY TypeOKSplits DEF IInv
<1>3. TypeOK'
  <2>1. TablesOK' /\ CallbacksOK'
    BY <1>1, <1>2 DEF TablesOK, CallbacksOK
  <2> QED
    BY <2>1, TypeOKJoins
<1>4. \A r \in Requests : of[r] # None => of[r] # f /\ of[r] \in Flows
  BY CallbackValues DEF IInv, FlowIsTheirs
<1>5. \A g \in Flows : flow'[g] = IF g = f THEN row ELSE flow[g]
  BY <1>2 DEF TablesOK
<1>6. sessions[f] = <<>>
  BY DEF IInv, SessionsGrounded
<1>7. FlowIsTheirs' /\ FlowTakenOnce'
  BY <1>1, <1>4, <1>5 DEF IInv, FlowIsTheirs, FlowTakenOnce
<1>8. KnowsWho'
  <2> SUFFICES ASSUME NEW r \in Requests
               PROVE  /\ pc[r] \in {"find", "touch", "insert", "link", "commit"} =>
                           /\ who[r] \in Identities /\ email[r] # None
                           /\ who[r][1] = flow'[of[r]].provider
                      /\ pc[r] \in {"touch", "link", "commit"} <=> user[r] # None
                      /\ creates[r] => pc[r] \in {"link", "commit"}
    BY <1>1 DEF KnowsWho
  <2>1. pc[r] # "idle" => flow'[of[r]] = flow[of[r]]
    BY <1>4, <1>5 DEF IInv, FlowIsTheirs
  <2> QED
    BY <2>1 DEF IInv, KnowsWho
<1>9. SignsInOwner' /\ CreatesNewOwner' /\ EmailsUnique'
  BY <1>1 DEF IInv, SignsInOwner, CreatesNewOwner, EmailsUnique, EmailTaken, Live
<1>10. SessionsGrounded'
  <2> SUFFICES ASSUME NEW g \in Flows
               PROVE  /\ flow'[g].state # "used" => sessions[g] = <<>>
                      /\ Len(sessions[g]) <= 1
                      /\ \A n \in DOMAIN sessions[g] :
                            LET s == sessions[g][n] IN
                            /\ s.provider = flow'[g].provider
                            /\ s.user \in Accounts
                            /\ account[s.user].state # "unused"
                            /\ Live(s.user) => account[s.user].email = s.email
    BY DEF SessionsGrounded, Live
  <2>1. CASE g = f
    BY <1>5, <1>6, <2>1
  <2>2. CASE g # f
    BY <1>5, <2>2 DEF IInv, SessionsGrounded
  <2> QED
    BY <2>1, <2>2
<1> QED
  BY <1>3, <1>7, <1>8, <1>9, <1>10 DEF IInv

\* consume_auth_request: the flow was open, so no other callback has it.
LEMMA ConsumeKeepsIInv ==
    ASSUME IInv, NEW r \in Requests, NEW f \in Flows, NEW p \in Providers, Consume(r, f, p)
    PROVE  IInv'
<1>1. /\ pc[r] = "idle" /\ flow[f].state = "open"
      /\ flow' = [flow EXCEPT ![f].state = "used"]
      /\ pc' = [pc EXCEPT ![r] = "exchange"]
      /\ of' = [of EXCEPT ![r] = f]
      /\ UNCHANGED <<account, link, sessions, who, email, user, creates>>
  BY DEF Consume, Consumable
<1>2. TablesOK /\ CallbacksOK
  BY TypeOKSplits DEF IInv
<1>3. /\ flow[f] \in FlowRows /\ flow' \in [Flows -> FlowRows]
      /\ flow'[f].state = "used" /\ flow'[f].provider = flow[f].provider
      /\ \A g \in Flows : g # f => flow'[g] = flow[g]
  BY <1>1, <1>2 DEF TablesOK, FlowRows
<1>4. TypeOK'
  <2>1. pc' \in [Requests -> {"idle", "exchange", "find", "touch", "insert", "link", "commit"}]
        /\ of' \in [Requests -> Flows \cup {None}]
    BY <1>1, <1>2 DEF CallbacksOK
  <2>2. TablesOK' /\ CallbacksOK'
    BY <1>1, <1>2, <1>3, <2>1 DEF TablesOK, CallbacksOK
  <2> QED
    BY <2>2, TypeOKJoins
<1>5. \A s \in Requests : of[s] # None => of[s] # f /\ of[s] \in Flows
  BY <1>1, CallbackValues DEF IInv, FlowIsTheirs
<1>6. /\ pc'[r] = "exchange" /\ of'[r] = f /\ of[r] = None
      /\ \A s \in Requests : s # r => pc'[s] = pc[s] /\ of'[s] = of[s]
  BY <1>1, <1>2 DEF CallbacksOK, IInv, FlowIsTheirs
<1>7. sessions[f] = <<>>
  BY <1>1 DEF IInv, SessionsGrounded
<1>8. f # None
  BY OAuthAssumption
<1>9. FlowIsTheirs' /\ FlowTakenOnce'
  BY <1>1, <1>3, <1>5, <1>6, <1>7, <1>8 DEF IInv, FlowIsTheirs, FlowTakenOnce
<1>10. KnowsWho'
  <2> SUFFICES ASSUME NEW s \in Requests
               PROVE  /\ pc'[s] \in {"find", "touch", "insert", "link", "commit"} =>
                           /\ who[s] \in Identities /\ email[s] # None
                           /\ who[s][1] = flow'[of'[s]].provider
                      /\ pc'[s] \in {"touch", "link", "commit"} <=> user[s] # None
                      /\ creates[s] => pc'[s] \in {"link", "commit"}
    BY <1>1 DEF KnowsWho
  <2>1. CASE s = r
    BY <1>1, <1>6, <2>1 DEF IInv, KnowsWho
  <2>2. CASE s # r
    <3>1. pc[s] # "idle" => flow'[of[s]] = flow[of[s]]
      BY <1>3, <1>5 DEF IInv, FlowIsTheirs
    <3> QED
      BY <1>6, <2>2, <3>1 DEF IInv, KnowsWho
  <2> QED
    BY <2>1, <2>2
<1>11. SignsInOwner' /\ CreatesNewOwner' /\ EmailsUnique'
  BY <1>1 DEF IInv, SignsInOwner, CreatesNewOwner, EmailsUnique, EmailTaken, Live
<1>12. SessionsGrounded'
  <2> SUFFICES ASSUME NEW g \in Flows
               PROVE  /\ flow'[g].state # "used" => sessions[g] = <<>>
                      /\ Len(sessions[g]) <= 1
                      /\ \A n \in DOMAIN sessions[g] :
                            LET s == sessions[g][n] IN
                            /\ s.provider = flow'[g].provider
                            /\ s.user \in Accounts
                            /\ account[s.user].state # "unused"
                            /\ Live(s.user) => account[s.user].email = s.email
    BY <1>1 DEF SessionsGrounded, Live
  <2>1. CASE g = f
    BY <1>3, <1>7, <2>1
  <2>2. CASE g # f
    BY <1>3, <2>2 DEF IInv, SessionsGrounded
  <2> QED
    BY <2>1, <2>2
<1> QED
  BY <1>4, <1>9, <1>10, <1>11, <1>12 DEF IInv

\* A step of a callback that writes no table.
LEMMA ReadingKeepsTables ==
    ASSUME IInv, UNCHANGED <<flow, account, link, sessions>>
    PROVE  TablesOK' /\ EmailsUnique' /\ SessionsGrounded'
<1>1. TablesOK
  BY TypeOKSplits DEF IInv
<1> QED
  BY <1>1 DEF IInv, TablesOK, EmailsUnique, SessionsGrounded, Live

\* What End leaves of the callback, and that the others keep their state.
LEMMA EndFacts ==
    ASSUME IInv, NEW r \in Requests, End(r)
    PROVE  /\ CallbacksOK'
           /\ pc'[r] = "idle" /\ of'[r] = None /\ user'[r] = None /\ creates'[r] = FALSE
           /\ \A s \in Requests : s # r =>
                /\ pc'[s] = pc[s] /\ of'[s] = of[s] /\ who'[s] = who[s]
                /\ email'[s] = email[s] /\ user'[s] = user[s] /\ creates'[s] = creates[s]
<1>1. CallbacksOK
  BY TypeOKSplits DEF IInv
<1> QED
  BY <1>1 DEF End, CallbacksOK

\* A callback that ends without a commit takes back nothing but its own state.
LEMMA EndKeepsIInv ==
    ASSUME IInv, NEW r \in Requests, End(r), UNCHANGED <<flow, account, link, sessions>>
    PROVE  IInv'
<1>1. /\ pc'[r] = "idle" /\ of'[r] = None /\ user'[r] = None /\ creates'[r] = FALSE
      /\ \A s \in Requests : s # r =>
            /\ pc'[s] = pc[s] /\ of'[s] = of[s] /\ who'[s] = who[s]
            /\ email'[s] = email[s] /\ user'[s] = user[s] /\ creates'[s] = creates[s]
  BY EndFacts
<1>2. TypeOK' /\ EmailsUnique' /\ SessionsGrounded'
  BY EndFacts, ReadingKeepsTables, TypeOKJoins
<1>3. FlowIsTheirs' /\ FlowTakenOnce'
  BY <1>1 DEF IInv, FlowIsTheirs, FlowTakenOnce
<1>4. KnowsWho'
  BY <1>1 DEF IInv, KnowsWho
<1>5. SignsInOwner' /\ CreatesNewOwner'
  BY <1>1 DEF IInv, SignsInOwner, CreatesNewOwner, EmailTaken, Live
<1> QED
  BY <1>2, <1>3, <1>4, <1>5 DEF IInv

\* The provider names an identity of the flow's provider.
LEMMA ExchangeKeepsIInv ==
    ASSUME IInv, NEW r \in Requests, NEW i \in Identities, NEW e \in Emails, Exchange(r, i, e)
    PROVE  IInv'
<1>1. /\ pc[r] = "exchange" /\ i[1] = flow[of[r]].provider
      /\ who' = [who EXCEPT ![r] = i]
      /\ email' = [email EXCEPT ![r] = e]
      /\ pc' = [pc EXCEPT ![r] = "find"]
      /\ UNCHANGED <<flow, account, link, sessions, of, user, creates>>
  BY DEF Exchange
<1>2. CallbacksOK
  BY TypeOKSplits DEF IInv
<1>3. CallbacksOK'
  BY <1>1, <1>2 DEF CallbacksOK
<1>4. TypeOK' /\ EmailsUnique' /\ SessionsGrounded'
  BY <1>1, <1>3, ReadingKeepsTables, TypeOKJoins
<1>5. /\ pc'[r] = "find" /\ who'[r] = i /\ email'[r] = e /\ e # None
      /\ user[r] = None /\ ~creates[r]
      /\ \A s \in Requests : s # r => pc'[s] = pc[s] /\ who'[s] = who[s] /\ email'[s] = email[s]
  BY <1>1, <1>2, OAuthAssumption DEF CallbacksOK, IInv, KnowsWho
<1>6. FlowIsTheirs' /\ FlowTakenOnce'
  BY <1>1, <1>5 DEF IInv, FlowIsTheirs, FlowTakenOnce
<1>7. KnowsWho'
  BY <1>1, <1>5 DEF IInv, KnowsWho
<1>8. SignsInOwner' /\ CreatesNewOwner'
  BY <1>1, <1>5 DEF IInv, SignsInOwner, CreatesNewOwner, EmailTaken, Live
<1> QED
  BY <1>4, <1>6, <1>7, <1>8 DEF IInv

\* The SELECT by address finds an account with that address, or none.
LEMMA FindKeepsIInv ==
    ASSUME IInv, NEW r \in Requests, FindAccount(r)
    PROVE  IInv'
<1>1. pc[r] = "find" /\ UNCHANGED <<flow, account, link, sessions>>
  BY DEF FindAccount
<1>2. CallbacksOK
  BY TypeOKSplits DEF IInv
<1>3. CASE End(r)
  BY <1>1, <1>3, EndKeepsIInv
<1>4. CASE \E u \in Accounts :
             /\ IsAccountOf(u, r)
             /\ user' = [user EXCEPT ![r] = u]
             /\ pc' = [pc EXCEPT ![r] = "touch"]
             /\ UNCHANGED <<of, who, email, creates>>
  <2>1. PICK u \in Accounts :
             /\ Live(u) /\ account[u].email = email[r]
             /\ user' = [user EXCEPT ![r] = u]
             /\ pc' = [pc EXCEPT ![r] = "touch"]
             /\ UNCHANGED <<of, who, email, creates>>
    BY <1>4 DEF IsAccountOf, Live
  <2>2. CallbacksOK'
    BY <1>2, <2>1 DEF CallbacksOK
  <2>3. TypeOK' /\ EmailsUnique' /\ SessionsGrounded'
    BY <1>1, <2>2, ReadingKeepsTables, TypeOKJoins
  <2>4. /\ pc'[r] = "touch" /\ user'[r] = u /\ u # None /\ ~creates[r]
        /\ \A s \in Requests : s # r => pc'[s] = pc[s] /\ user'[s] = user[s]
    BY <1>1, <1>2, <2>1, OAuthAssumption DEF CallbacksOK, IInv, KnowsWho
  <2>5. FlowIsTheirs' /\ FlowTakenOnce'
    BY <1>1, <2>1, <2>4 DEF IInv, FlowIsTheirs, FlowTakenOnce
  <2>6. KnowsWho'
    BY <1>1, <2>1, <2>4 DEF IInv, KnowsWho
  <2>7. SignsInOwner'
    BY <1>1, <2>1, <2>4 DEF IInv, SignsInOwner, Live
  <2>8. CreatesNewOwner'
    BY <1>1, <2>1, <2>4 DEF IInv, CreatesNewOwner, EmailTaken
  <2> QED
    BY <2>3, <2>5, <2>6, <2>7, <2>8 DEF IInv
<1>5. CASE /\ pc' = [pc EXCEPT ![r] = "insert"]
           /\ UNCHANGED <<of, who, email, user, creates>>
  <2>1. CallbacksOK'
    BY <1>2, <1>5 DEF CallbacksOK
  <2>2. TypeOK' /\ EmailsUnique' /\ SessionsGrounded'
    BY <1>1, <2>1, ReadingKeepsTables, TypeOKJoins
  <2>3. pc'[r] = "insert" /\ \A s \in Requests : s # r => pc'[s] = pc[s]
    BY <1>2, <1>5 DEF CallbacksOK
  <2>4. FlowIsTheirs' /\ FlowTakenOnce'
    BY <1>1, <1>5, <2>3 DEF IInv, FlowIsTheirs, FlowTakenOnce
  <2>5. KnowsWho'
    BY <1>1, <1>5, <2>3 DEF IInv, KnowsWho
  <2>6. SignsInOwner' /\ CreatesNewOwner'
    BY <1>1, <1>5 DEF IInv, SignsInOwner, CreatesNewOwner, EmailTaken, Live
  <2> QED
    BY <2>2, <2>4, <2>5, <2>6 DEF IInv
<1> QED
  BY <1>3, <1>4, <1>5 DEF FindAccount

\* The UPDATE of the account and the write of the link only move the callback on.
LEMMA AdvanceKeepsIInv ==
    ASSUME IInv, NEW r \in Requests, TouchAccount(r) \/ LinkIdentity(r)
    PROVE  IInv'
<1>1. /\ pc[r] \in {"touch", "link"}
      /\ \E q \in {"link", "commit"} : pc' = [pc EXCEPT ![r] = q]
      /\ UNCHANGED <<flow, account, link, sessions, of, who, email, user, creates>>
  BY DEF TouchAccount, LinkIdentity
<1>2. CallbacksOK
  BY TypeOKSplits DEF IInv
<1>3. CallbacksOK'
  BY <1>1, <1>2 DEF CallbacksOK
<1>4. TypeOK' /\ EmailsUnique' /\ SessionsGrounded'
  BY <1>1, <1>3, ReadingKeepsTables, TypeOKJoins
<1>5. pc'[r] \in {"link", "commit"} /\ \A s \in Requests : s # r => pc'[s] = pc[s]
  BY <1>1, <1>2 DEF CallbacksOK
<1>6. FlowIsTheirs' /\ FlowTakenOnce'
  BY <1>1, <1>5 DEF IInv, FlowIsTheirs, FlowTakenOnce
<1>7. KnowsWho'
  BY <1>1, <1>5 DEF IInv, KnowsWho
<1>8. SignsInOwner' /\ CreatesNewOwner'
  BY <1>1 DEF IInv, SignsInOwner, CreatesNewOwner, EmailTaken, Live
<1> QED
  BY <1>4, <1>6, <1>7, <1>8 DEF IInv

\* The INSERT takes an id and an address that neither a live account nor an
\* uncommitted callback has.
LEMMA InsertKeepsIInv ==
    ASSUME IInv, NEW r \in Requests, NEW u \in Accounts, InsertAccount(r, u)
    PROVE  IInv'
<1>1. /\ pc[r] = "insert" /\ ~EmailTaken(email[r])
      /\ account[u].state = "unused"
      /\ user' = [user EXCEPT ![r] = u]
      /\ creates' = [creates EXCEPT ![r] = TRUE]
      /\ pc' = [pc EXCEPT ![r] = "link"]
      /\ UNCHANGED <<flow, account, link, sessions, of, who, email>>
  BY DEF InsertAccount
<1>2. CallbacksOK
  BY TypeOKSplits DEF IInv
<1>3. CallbacksOK'
  BY <1>1, <1>2 DEF CallbacksOK
<1>4. TypeOK' /\ EmailsUnique' /\ SessionsGrounded'
  BY <1>1, <1>3, ReadingKeepsTables, TypeOKJoins
<1>5. /\ pc'[r] = "link" /\ user'[r] = u /\ u # None /\ creates'[r]
      /\ \A s \in Requests : s # r =>
            pc'[s] = pc[s] /\ user'[s] = user[s] /\ creates'[s] = creates[s]
  BY <1>1, <1>2, OAuthAssumption DEF CallbacksOK
<1>6. \A s \in Requests : creates[s] => s \in Writing /\ user[s] # u /\ email[s] # email[r]
  <2> SUFFICES ASSUME NEW s \in Requests, creates[s]
               PROVE  s \in Writing /\ user[s] # u /\ email[s] # email[r]
    OBVIOUS
  <2>1. s \in Writing
    BY DEF IInv, KnowsWho, Writing
  <2> QED
    BY <2>1 DEF InsertAccount, EmailReserved
<1>7. FlowIsTheirs' /\ FlowTakenOnce'
  BY <1>1, <1>5 DEF IInv, FlowIsTheirs, FlowTakenOnce
<1>8. KnowsWho'
  BY <1>1, <1>5 DEF IInv, KnowsWho
<1>9. SignsInOwner'
  BY <1>1, <1>5 DEF IInv, SignsInOwner, Live
<1>10. CreatesNewOwner'
  <2>1. \A s \in Requests : creates'[s] =>
           account[user'[s]].state = "unused" /\ ~EmailTaken(email[s])
    BY <1>1, <1>5 DEF IInv, CreatesNewOwner
  <2>2. \A s, t \in Requests :
           (creates'[s] /\ creates'[t] /\ (user'[s] = user'[t] \/ email[s] = email[t])) => s = t
    BY <1>5, <1>6 DEF IInv, CreatesNewOwner
  <2> QED
    BY <1>1, <2>1, <2>2 DEF CreatesNewOwner, EmailTaken
<1> QED
  BY <1>4, <1>7, <1>8, <1>9, <1>10 DEF IInv

\* The commit: a new account gets the id and the address reserved for it, and the
\* flow its one session, of an account that has the verified address.
LEMMA CommitKeepsIInv ==
    ASSUME IInv, NEW r \in Requests, Commit(r)
    PROVE  IInv'
<1> DEFINE u == user[r]
           f == of[r]
           e == email[r]
           row == [user |-> u, email |-> e, provider |-> who[r][1]]
<1>1. /\ pc[r] = "commit" /\ UNCHANGED flow
      /\ account' = IF creates[r] THEN [account EXCEPT ![u] = Inserted(e)] ELSE account
      /\ link' = [link EXCEPT ![who[r]] = IF @ = None THEN u ELSE @]
      /\ sessions' = [sessions EXCEPT ![f] = Append(@, row)]
  BY DEF Commit
<1>2. TablesOK /\ CallbacksOK
  BY TypeOKSplits DEF IInv
<1>3. /\ CallbacksOK'
      /\ pc'[r] = "idle" /\ of'[r] = None /\ user'[r] = None /\ creates'[r] = FALSE
      /\ \A s \in Requests : s # r =>
            /\ pc'[s] = pc[s] /\ of'[s] = of[s] /\ who'[s] = who[s]
            /\ email'[s] = email[s] /\ user'[s] = user[s] /\ creates'[s] = creates[s]
  BY EndFacts DEF Commit
<1>4. /\ u # None /\ f # None /\ e # None
      /\ who[r] \in Identities /\ who[r][1] = flow[f].provider
  BY <1>1 DEF IInv, KnowsWho, FlowIsTheirs
<1>5. u \in Accounts /\ f \in Flows /\ e \in Emails /\ who[r][1] \in Providers
  BY <1>4, CallbackValues DEF Identities
<1>6. sessions[f] = <<>> /\ flow[f].state = "used"
  BY <1>4 DEF IInv, FlowIsTheirs
<1>7. /\ Inserted(e) \in AccountRows
      /\ Inserted(e).state = "live" /\ Inserted(e).email = e
  BY <1>5 DEF Inserted, AccountRows
<1>8. /\ \A v \in Accounts : v # u => account'[v] = account[v]
      /\ creates[r] => account'[u] = Inserted(e) /\ account[u].state = "unused" /\ ~EmailTaken(e)
      /\ ~creates[r] => account' = account
      /\ account' \in [Accounts -> AccountRows]
  <2>1. CASE creates[r]
    BY <1>1, <1>2, <1>5, <1>7, <2>1 DEF TablesOK, IInv, CreatesNewOwner
  <2>2. CASE ~creates[r]
    BY <1>1, <1>2, <2>2 DEF TablesOK
  <2> QED
    BY <2>1, <2>2
<1>9. /\ account'[u].state # "unused"
      /\ account'[u].state = "live" => account'[u].email = e
  <2>1. CASE creates[r]
    BY <1>7, <1>8, <2>1
  <2>2. CASE ~creates[r]
    BY <1>4, <1>8, <2>2 DEF IInv, SignsInOwner, Live
  <2> QED
    BY <2>1, <2>2
<1>10. /\ row \in SessionRows
       /\ row.user = u /\ row.email = e /\ row.provider = who[r][1]
  BY <1>5 DEF SessionRows
<1>11. /\ sessions' \in [Flows -> Seq(SessionRows)]
       /\ sessions'[f] = <<row>>
       /\ \A g \in Flows : g # f => sessions'[g] = sessions[g]
  <2> HIDE DEF row
  <2>1. Append(sessions[f], row) = <<row>> /\ <<row>> \in Seq(SessionRows)
    BY <1>6, <1>10
  <2> QED
    BY <1>1, <1>2, <1>5, <2>1 DEF TablesOK
<1>12. TypeOK'
  <2>1. link' \in [Identities -> Accounts \cup {None}]
    BY <1>1, <1>2, <1>4, <1>5 DEF TablesOK
  <2>2. TablesOK'
    BY <1>1, <1>2, <1>8, <1>11, <2>1 DEF TablesOK
  <2> QED
    BY <1>3, <2>2, TypeOKJoins
<1>13. FlowIsTheirs'
  <2>1. \A s \in Requests : (s # r /\ of[s] # None) => of[s] # f /\ of[s] \in Flows
    BY <1>4, CallbackValues DEF IInv, FlowTakenOnce
  <2> QED
    BY <1>1, <1>3, <1>11, <2>1 DEF IInv, FlowIsTheirs
<1>14. FlowTakenOnce' /\ KnowsWho'
  BY <1>1, <1>3 DEF IInv, FlowTakenOnce, KnowsWho
<1>15. SignsInOwner'
  <2> SUFFICES ASSUME NEW s \in Requests, user'[s] # None, ~creates'[s]
               PROVE  /\ account'[user'[s]].state # "unused"
                      /\ account'[user'[s]].state = "live" => account'[user'[s]].email = email'[s]
    BY DEF SignsInOwner, Live
  <2>1. s # r /\ user'[s] = user[s] /\ email'[s] = email[s] /\ ~creates[s]
    BY <1>3
  <2>2. /\ account[user[s]].state # "unused"
        /\ account[user[s]].state = "live" => account[user[s]].email = email[s]
        /\ user[s] \in Accounts
    BY <2>1, CallbackValues DEF IInv, SignsInOwner, Live
  <2>3. account'[user[s]] = account[user[s]]
    BY <1>8, <2>2
  <2> QED
    BY <2>1, <2>2, <2>3
<1>16. CreatesNewOwner'
  <2>1. ASSUME NEW s \in Requests, creates'[s]
        PROVE  /\ account'[user'[s]].state = "unused"
               /\ \A v \in Accounts : ~(account'[v].state = "live" /\ account'[v].email = email'[s])
    <3>1. s # r /\ user'[s] = user[s] /\ email'[s] = email[s] /\ creates[s]
      BY <1>3, <2>1
    <3>2. user[s] # None
      BY <3>1 DEF IInv, KnowsWho
    <3>3. account[user[s]].state = "unused" /\ ~EmailTaken(email[s]) /\ user[s] \in Accounts
      BY <3>1, <3>2, CallbackValues DEF IInv, CreatesNewOwner
    <3>4. CASE creates[r]
      <4>1. user[s] # u /\ email[s] # e
        BY <3>1, <3>4 DEF IInv, CreatesNewOwner
      <4>2. \A v \in Accounts : ~(account'[v].state = "live" /\ account'[v].email = email[s])
        BY <1>7, <1>8, <3>3, <3>4, <4>1 DEF EmailTaken
      <4> QED
        BY <1>8, <3>1, <3>3, <4>1, <4>2
    <3>5. CASE ~creates[r]
      BY <1>8, <3>1, <3>3, <3>5 DEF EmailTaken
    <3> QED
      BY <3>4, <3>5
  <2>2. \A s, t \in Requests :
          (creates'[s] /\ creates'[t] /\ (user'[s] = user'[t] \/ email'[s] = email'[t])) => s = t
    BY <1>3 DEF IInv, CreatesNewOwner
  <2> QED
    BY <2>1, <2>2 DEF CreatesNewOwner, EmailTaken
<1>17. EmailsUnique'
  <2>1. CASE creates[r]
    <3>1. \A v \in Accounts : (v # u /\ account'[v].state = "live") => account'[v].email # e
      BY <1>8, <2>1 DEF EmailTaken
    <3> QED
      BY <1>7, <1>8, <2>1, <3>1 DEF IInv, EmailsUnique, Live
  <2>2. CASE ~creates[r]
    BY <1>8, <2>2 DEF IInv, EmailsUnique, Live
  <2> QED
    BY <2>1, <2>2
<1>18. SessionsGrounded'
  <2> SUFFICES ASSUME NEW g \in Flows
               PROVE  /\ flow[g].state # "used" => sessions'[g] = <<>>
                      /\ Len(sessions'[g]) <= 1
                      /\ \A n \in DOMAIN sessions'[g] :
                            LET s == sessions'[g][n] IN
                            /\ s.provider = flow[g].provider
                            /\ s.user \in Accounts
                            /\ account'[s.user].state # "unused"
                            /\ account'[s.user].state = "live" => account'[s.user].email = s.email
    BY <1>1 DEF SessionsGrounded, Live
  <2>1. CASE g = f
    <3> HIDE DEF row
    <3>1. /\ Len(sessions'[f]) = 1
          /\ \A n \in DOMAIN sessions'[f] : sessions'[f][n] = row
      BY <1>11
    <3> QED
      BY <1>4, <1>5, <1>6, <1>9, <1>10, <2>1, <3>1
  <2>2. CASE g # f
    <3>1. \A v \in Accounts : account[v].state # "unused" => account'[v] = account[v]
      BY <1>8
    <3> QED
      BY <1>11, <2>2, <3>1 DEF IInv, SessionsGrounded, Live
  <2> QED
    BY <2>1, <2>2
<1> QED
  BY <1>12, <1>13, <1>14, <1>15, <1>16, <1>17, <1>18 DEF IInv

\* sign_up_email takes an id and an address that are free and not reserved;
\* delete_account and a ban change a live account to one that is not live or has
\* the same address.
LEMMA AccountStepKeepsIInv ==
    ASSUME IInv, NEW u \in Accounts, NEW row \in AccountRows,
           account' = [account EXCEPT ![u] = row],
           row.state # "unused",
           \/ /\ account[u].state = "unused"
              /\ \A r \in Writing : user[r] # u
              /\ row.state = "live" /\ row.email # None
              /\ ~EmailReserved(row.email) /\ ~EmailTaken(row.email)
           \/ /\ account[u].state = "live"
              /\ row.state = "live" => row.email = account[u].email,
           link' \in [Identities -> Accounts \cup {None}],
           UNCHANGED <<flow, sessions, callbackVars>>
    PROVE  IInv'
<1>1. UNCHANGED <<pc, of, who, email, user, creates>>
  BY DEF callbackVars
<1>2. TablesOK /\ CallbacksOK
  BY TypeOKSplits DEF IInv
<1>3. \A v \in Accounts : account'[v] = IF v = u THEN row ELSE account[v]
  BY <1>2 DEF TablesOK
<1>4. TypeOK'
  <2>1. TablesOK' /\ CallbacksOK'
    BY <1>1, <1>2 DEF TablesOK, CallbacksOK
  <2> QED
    BY <2>1, TypeOKJoins
<1>5. FlowIsTheirs' /\ FlowTakenOnce' /\ KnowsWho'
  BY <1>1 DEF IInv, FlowIsTheirs, FlowTakenOnce, KnowsWho
<1>6. \A r \in Requests : creates[r] => r \in Writing /\ user[r] \in Accounts
  <2> SUFFICES ASSUME NEW r \in Requests, creates[r]
               PROVE  r \in Writing /\ user[r] \in Accounts
    OBVIOUS
  <2>1. pc[r] \in {"link", "commit"} /\ user[r] # None
    BY DEF IInv, KnowsWho
  <2> QED
    BY <2>1, CallbackValues DEF Writing
<1>7. SignsInOwner'
  <2> SUFFICES ASSUME NEW r \in Requests, user[r] # None, ~creates[r]
               PROVE  /\ account'[user[r]].state # "unused"
                      /\ account'[user[r]].state = "live" => account'[user[r]].email = email[r]
    BY <1>1 DEF SignsInOwner, Live
  <2>1. /\ account[user[r]].state # "unused"
        /\ account[user[r]].state = "live" => account[user[r]].email = email[r]
    BY DEF IInv, SignsInOwner, Live
  <2>2. user[r] \in Accounts
    BY CallbackValues
  <2> QED
    BY <1>3, <2>1, <2>2
<1>8. CreatesNewOwner'
  <2>1. ASSUME NEW r \in Requests, creates[r]
        PROVE  /\ account'[user[r]].state = "unused"
               /\ \A v \in Accounts : ~(account'[v].state = "live" /\ account'[v].email = email[r])
    <3>1. account[user[r]].state = "unused" /\ ~EmailTaken(email[r])
      BY <2>1 DEF IInv, CreatesNewOwner
    <3>2. r \in Writing /\ user[r] \in Accounts
      BY <1>6, <2>1
    <3>3. user[r] # u
      BY <3>1, <3>2
    <3>4. row.state = "live" => row.email # email[r]
      BY <2>1, <3>1, <3>2 DEF EmailReserved, EmailTaken
    <3> QED
      BY <1>3, <3>1, <3>2, <3>3, <3>4 DEF EmailTaken
  <2>2. \A r, s \in Requests :
          (creates[r] /\ creates[s] /\ (user[r] = user[s] \/ email[r] = email[s])) => r = s
    BY DEF IInv, CreatesNewOwner
  <2> QED
    BY <1>1, <2>1, <2>2 DEF CreatesNewOwner, EmailTaken
<1>9. EmailsUnique'
  <2>1. \A v \in Accounts :
          (v # u /\ account[v].state = "live" /\ row.state = "live") => account[v].email # row.email
    BY DEF IInv, EmailsUnique, Live, EmailTaken
  <2> QED
    BY <1>3, <2>1 DEF IInv, EmailsUnique, Live
<1>10. SessionsGrounded'
  <2>1. \A v \in Accounts : account[v].state # "unused" =>
          /\ account'[v].state # "unused"
          /\ account'[v].state = "live" =>
               account[v].state = "live" /\ account'[v].email = account[v].email
    BY <1>3
  <2> QED
    BY <2>1 DEF IInv, SessionsGrounded, Live
<1> QED
  BY <1>4, <1>5, <1>7, <1>8, <1>9, <1>10 DEF IInv

\* Sign-ups, deletions and bans are such changes of one account.
LEMMA OthersKeepIInv ==
    ASSUME IInv, NEW u \in Accounts,
           (\E e \in Emails : SignUp(u, e)) \/ DeleteAccount(u) \/ Ban(u)
    PROVE  IInv'
<1>1. TablesOK
  BY TypeOKSplits DEF IInv
<1>2. account[u] \in AccountRows /\ link \in [Identities -> Accounts \cup {None}]
  BY <1>1 DEF TablesOK
<1>3. CASE \E e \in Emails : SignUp(u, e)
  <2>1. PICK e \in Emails : SignUp(u, e)
    BY <1>3
  <2>2. /\ Inserted(e) \in AccountRows /\ Inserted(e).state = "live"
        /\ Inserted(e).email = e /\ e # None
    BY OAuthAssumption DEF Inserted, AccountRows
  <2> QED
    BY <1>2, <2>1, <2>2, AccountStepKeepsIInv DEF SignUp
<1>4. CASE DeleteAccount(u)
  <2> DEFINE row == [account[u] EXCEPT !.state = "deleted", !.email = None]
  <2>1. row \in AccountRows /\ row.state = "deleted"
    BY <1>2 DEF AccountRows
  <2>2. /\ account[u].state = "live" /\ account' = [account EXCEPT ![u] = row]
        /\ UNCHANGED <<flow, sessions, callbackVars>>
    BY <1>4 DEF DeleteAccount
  <2>3. link' \in [Identities -> Accounts \cup {None}]
    BY <1>2, <1>4 DEF DeleteAccount
  <2> QED
    BY <2>1, <2>2, <2>3, AccountStepKeepsIInv
<1>5. CASE Ban(u)
  <2> DEFINE row == [account[u] EXCEPT !.banned = TRUE]
  <2>1. account[u].state = "live"
    BY <1>5 DEF Ban
  <2>2. row \in AccountRows /\ row.state = "live" /\ row.email = account[u].email
    BY <1>2, <2>1 DEF AccountRows
  <2>3. /\ account' = [account EXCEPT ![u] = row]
        /\ UNCHANGED <<flow, sessions, link, callbackVars>>
    BY <1>5 DEF Ban
  <2> QED
    BY <1>2, <2>1, <2>2, <2>3, AccountStepKeepsIInv
<1> QED
  BY <1>3, <1>4, <1>5

-----------------------------------------------------------------------------
\* Every step keeps the invariant.
LEMMA NextKeepsIInv == IInv /\ [Next]_vars => IInv'
<1> SUFFICES ASSUME IInv, [Next]_vars
             PROVE  IInv'
  OBVIOUS
<1>1. CASE \E f \in Flows, p \in Providers : StartFlow(f, p)
  <2>1. PICK f \in Flows, p \in Providers : StartFlow(f, p)
    BY <1>1
  <2> DEFINE row == [state |-> "open", provider |-> p]
  <2>2. row \in FlowRows /\ row.state = "open"
    BY DEF FlowRows
  <2>3. /\ flow[f].state = "unused" /\ flow' = [flow EXCEPT ![f] = row]
        /\ UNCHANGED <<account, link, sessions, callbackVars>>
    BY <2>1 DEF StartFlow
  <2> QED
    BY <2>2, <2>3, FlowStepKeepsIInv
<1>2. CASE \E f \in Flows : FlowExpires(f)
  <2>1. PICK f \in Flows : FlowExpires(f)
    BY <1>2
  <2> DEFINE row == [flow[f] EXCEPT !.state = "expired"]
  <2>2. flow[f] \in FlowRows
    BY TypeOKSplits DEF IInv, TablesOK
  <2>3. row \in FlowRows /\ row.state = "expired"
    BY <2>2 DEF FlowRows
  <2>4. /\ flow[f].state = "open" /\ flow' = [flow EXCEPT ![f] = row]
        /\ UNCHANGED <<account, link, sessions, callbackVars>>
    BY <2>1 DEF FlowExpires
  <2> QED
    BY <2>3, <2>4, FlowStepKeepsIInv
<1>3. CASE \E r \in Requests, f \in Flows, p \in Providers : Consume(r, f, p)
  BY <1>3, ConsumeKeepsIInv
<1>4. CASE \E r \in Requests, i \in Identities, e \in Emails : Exchange(r, i, e)
  BY <1>4, ExchangeKeepsIInv
<1>5. CASE \E r \in Requests : ExchangeFails(r) \/ InsertConflicts(r) \/ CallbackDies(r)
  BY <1>5, EndKeepsIInv DEF ExchangeFails, InsertConflicts, CallbackDies
<1>6. CASE \E r \in Requests : FindAccount(r)
  BY <1>6, FindKeepsIInv
<1>7. CASE \E r \in Requests : TouchAccount(r) \/ LinkIdentity(r)
  BY <1>7, AdvanceKeepsIInv
<1>8. CASE \E r \in Requests, u \in Accounts : InsertAccount(r, u)
  BY <1>8, InsertKeepsIInv
<1>9. CASE \E r \in Requests : Commit(r)
  BY <1>9, CommitKeepsIInv
<1>10. CASE \E u \in Accounts : (\E e \in Emails : SignUp(u, e)) \/ DeleteAccount(u) \/ Ban(u)
  BY <1>10, OthersKeepIInv
<1>11. CASE UNCHANGED vars
  <2>1. UNCHANGED <<flow, account, link, sessions, pc, of, who, email, user, creates>>
    BY <1>11 DEF vars, callbackVars
  <2>2. TypeOK' /\ EmailsUnique' /\ SessionsGrounded'
    BY <2>1, TypeOKSplits, TypeOKJoins
       DEF IInv, TablesOK, CallbacksOK, EmailsUnique, SessionsGrounded, Live
  <2>3. FlowIsTheirs' /\ FlowTakenOnce' /\ KnowsWho'
    BY <2>1 DEF IInv, FlowIsTheirs, FlowTakenOnce, KnowsWho
  <2>4. SignsInOwner' /\ CreatesNewOwner'
    BY <2>1 DEF IInv, SignsInOwner, CreatesNewOwner, EmailTaken, Live
  <2> QED
    BY <2>2, <2>3, <2>4 DEF IInv
<1> QED
  BY <1>1, <1>2, <1>3, <1>4, <1>5, <1>6, <1>7, <1>8, <1>9, <1>10, <1>11 DEF Next

\* At the start there is no flow, no account and no callback.
LEMMA InitIInv == Init => IInv
<1> SUFFICES ASSUME Init
             PROVE  IInv
  OBVIOUS
<1>1. TablesOK
  <2>1. /\ [state |-> "unused", provider |-> None] \in FlowRows
        /\ [state |-> "unused", email |-> None, banned |-> FALSE] \in AccountRows
        /\ <<>> \in Seq(SessionRows)
    BY DEF FlowRows, AccountRows
  <2> QED
    BY <2>1 DEF Init, TablesOK
<1>2. CallbacksOK
  BY DEF Init, CallbacksOK
<1>3. TypeOK
  BY <1>1, <1>2, TypeOKSplits
<1>4. FlowIsTheirs /\ FlowTakenOnce /\ KnowsWho /\ SignsInOwner
  BY DEF Init, FlowIsTheirs, FlowTakenOnce, KnowsWho, SignsInOwner
<1>5. CreatesNewOwner
  BY DEF Init, CreatesNewOwner
<1>6. EmailsUnique /\ SessionsGrounded
  BY DEF Init, EmailsUnique, SessionsGrounded, Live
<1> QED
  BY <1>3, <1>4, <1>5, <1>6 DEF IInv

\* The inductive invariant of the sign-in callbacks.
THEOREM CallbackInvariant == Spec => []IInv
<1>1. Init => IInv
  BY InitIInv
<1>2. IInv /\ [Next]_vars => IInv'
  BY NextKeepsIInv
<1> QED
  BY <1>1, <1>2, PTL DEF Spec

\* A state value signs in at most once, with the provider it was issued for.
THEOREM SignsInOnce == Spec => []FlowSignsInOnce
<1>1. IInv => FlowSignsInOnce
  BY DEF IInv, SessionsGrounded, FlowSignsInOnce
<1> QED
  BY <1>1, CallbackInvariant, PTL

\* A callback's session is of the one live account with the verified address, or
\* of an account deleted meanwhile.
THEOREM SignsInVerified == Spec => []SessionIsOfVerifiedEmail
<1>1. IInv => SessionIsOfVerifiedEmail
  <2> SUFFICES ASSUME IInv
               PROVE  SessionIsOfVerifiedEmail
    OBVIOUS
  <2>1. \A s \in Opened : s.user \in Accounts /\ (Usable(s) => account[s.user].email = s.email)
    BY DEF Opened, Usable, IInv, SessionsGrounded, Live
  <2>2. \A s, t \in Opened : (Usable(s) /\ Usable(t) /\ s.email = t.email) => s.user = t.user
    BY <2>1 DEF Usable, IInv, EmailsUnique, Live
  <2> QED
    BY <2>1, <2>2 DEF SessionIsOfVerifiedEmail
<1> QED
  BY <1>1, CallbackInvariant, PTL
=============================================================================
