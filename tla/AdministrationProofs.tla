------------------------ MODULE AdministrationProofs ------------------------
(***************************************************************************)
(* Proofs about what administrators change and watch through the API: user *)
(* accounts (UserAccounts), iSCSI LUNs (IscsiLuns), the commands left for  *)
(* a node (NodeCommands), the health alerts of nodes (NodeHealth) and      *)
(* device groups and sites (GroupTree), for any users, sessions, requests, *)
(* LUNs, commands, nodes, alerts, groups and names.                        *)
(***************************************************************************)
EXTENDS UserAccounts, IscsiLuns, NodeCommands, NodeHealth, GroupTree,
        FiniteSetTheorems, SequenceTheorems, WellFoundedInduction, TLAPS

-----------------------------------------------------------------------------
(***************************************************************************)
(* UserAccounts: requests on accounts that do not overlap leave an         *)
(* administrator and no session without its user, and a changed password   *)
(* or a deletion ends every session of the user.                           *)
(*                                                                         *)
(* What a request checked is used when it commits; in between, users may   *)
(* be created and sessions given up, and the invariant says that neither   *)
(* makes the check stale.                                                  *)
(***************************************************************************)

IsAdmin(u, us) == us[u].exists /\ us[u].admin

\* What a request in progress checked still holds of the users us and the
\* sessions ss.
RequestSound(a, us, ss) ==
    /\ a.pc \in {"role", "delete"} /\ IsAdmin(a.user, us) /\ (a.pc = "role" => ~a.to) =>
          \E v \in Users : v # a.user /\ IsAdmin(v, us)
    /\ a.pc \in {"login", "refresh", "role", "active", "delete", "password"} =>
          us[a.user].exists
    /\ a.pc \in {"delete", "password"} =>
          \A k \in Sessions : ss[k].exists /\ ss[k].user = a.user => k \in a.rows

HasAdmin(us) == \E v \in Users : IsAdmin(v, us)
SessionsOwned(us, ss) == \A k \in Sessions : ss[k].exists => us[ss[k].user].exists

\* As long as nothing overlapped, one request at most is in progress.
Alone == \A r, s \in AccountSlots : account[r].pc # "idle" /\ account[s].pc # "idle" => r = s

RefreshHasRow ==
    \A r \in AccountSlots : account[r].pc = "refresh" => account[r].rows # {}

AccountsInv ==
    /\ AccountTypeOK /\ RefreshHasRow
    /\ ~overlapped =>
          /\ Alone
          /\ \A r \in AccountSlots : RequestSound(account[r], user, session)
          /\ HasAdmin(user)
          /\ SessionsOwned(user, session)

-----------------------------------------------------------------------------
(* Values                                                                   *)

\* The values of empty rows and of a slot without a request have their types.
LEMMA Defaults ==
  /\ NoSession \in SessionRow /\ ~NoSession.exists
  /\ NoAccount \in Account /\ NoAccount.pc = "idle" /\ NoAccount.rows = {}
  /\ NoUser \in UserRow /\ ~NoUser.exists
  <1>1. (CHOOSE u \in Users : TRUE) \in Users /\ (CHOOSE b \in Browsers : TRUE) \in Browsers
    BY UserAccountsAssumption
  <1>2. 0 \in Values
    BY UserAccountsAssumption DEF Values
  <1>3. NoSession \in SessionRow /\ ~NoSession.exists /\ NoSession.user \in Users
    BY <1>1, <1>2 DEF NoSession, SessionRow
  <1>4. NoAccount \in Account /\ NoAccount.pc = "idle" /\ NoAccount.rows = {}
    BY <1>1, <1>2, <1>3 DEF NoAccount, Account
  <1>5. NoUser \in UserRow /\ ~NoUser.exists
    BY DEF NoUser, UserRow
  <1> QED BY <1>3, <1>4, <1>5

\* Counting more than one administrator means there is one besides u.
LEMMA AnotherAdmin ==
  ASSUME NEW u \in Users, Cardinality(Admins) > 1
  PROVE  \E v \in Users : v # u /\ IsAdmin(v, user)
  <1> SUFFICES ASSUME \A v \in Users : IsAdmin(v, user) => v = u PROVE FALSE
    OBVIOUS
  <1>1. Admins = {} \/ Admins = {u}
    BY DEF Admins, IsAdmin
  <1>2. Cardinality({}) = 0 /\ Cardinality({u}) = 1
    BY FS_EmptySet, FS_Singleton
  <1>3. Cardinality(Admins) \in {0, 1}
    BY <1>1, <1>2
  <1> QED BY <1>3

-----------------------------------------------------------------------------
(* Beginning and ending of requests                                         *)

\* A request begins with what it checked being so.
LEMMA BeginKeeps ==
  ASSUME AccountsInv, NEW r \in AccountSlots, NEW a \in Account, a.pc # "idle",
         a.pc = "refresh" => a.rows # {},
         ~overlapped => RequestSound(a, user, session),
         AccountBegins(r, a)
  PROVE  AccountsInv'
  <1>1. /\ account[r].pc = "idle" /\ account' = [account EXCEPT ![r] = a]
        /\ user' = user /\ session' = session /\ cookie' = cookie /\ made' = made
        /\ overlapped' = (overlapped \/ \E s \in AccountSlots : account[s].pc # "idle")
    BY DEF AccountBegins
  <1>2. account \in [AccountSlots -> Account] /\ overlapped \in BOOLEAN
    BY DEF AccountsInv, AccountTypeOK
  <1>3. account'[r] = a /\ \A s \in AccountSlots : s # r => account'[s] = account[s]
    BY <1>1, <1>2
  <1>4. account' \in [AccountSlots -> Account]
    BY <1>1, <1>2
  <1>5. AccountTypeOK'
    BY <1>1, <1>2, <1>4 DEF AccountsInv, AccountTypeOK
  <1>6. RefreshHasRow'
    BY <1>3 DEF AccountsInv, RefreshHasRow
  <1>7. ASSUME ~overlapped'
        PROVE  /\ Alone' /\ HasAdmin(user)' /\ SessionsOwned(user, session)'
               /\ \A s \in AccountSlots : RequestSound(account[s], user, session)'
    <2>1. ~overlapped /\ \A s \in AccountSlots : account[s].pc = "idle"
      BY <1>1, <1>7
    <2>2. Alone'
      BY <1>3, <2>1 DEF Alone
    <2>3. \A s \in AccountSlots : RequestSound(account'[s], user, session)
      BY <1>3, <2>1 DEF AccountsInv
    <2> QED BY <1>1, <2>1, <2>2, <2>3 DEF AccountsInv
  <1> QED BY <1>5, <1>6, <1>7 DEF AccountsInv

\* A request commits: it was the only one, and nothing is pending any more.
LEMMA EndKeeps ==
  ASSUME AccountsInv, NEW r \in AccountSlots, account[r].pc # "idle",
         NEW a \in Account, a.pc \in {"idle", "answer"},
         account' = [account EXCEPT ![r] = a],
         user' \in [Users -> UserRow], session' \in [Sessions -> SessionRow],
         cookie' \in [Browsers -> Values], made' \in Values, overlapped' = overlapped,
         ~overlapped => HasAdmin(user') /\ SessionsOwned(user', session')
  PROVE  AccountsInv'
  <1>2. account \in [AccountSlots -> Account] /\ overlapped \in BOOLEAN
    BY DEF AccountsInv, AccountTypeOK
  <1>3. account'[r] = a /\ \A s \in AccountSlots : s # r => account'[s] = account[s]
    BY <1>2
  <1>4. account' \in [AccountSlots -> Account]
    BY <1>2
  <1>5. AccountTypeOK'
    BY <1>2, <1>4 DEF AccountTypeOK
  <1>6. RefreshHasRow'
    BY <1>3 DEF AccountsInv, RefreshHasRow
  <1>7. ASSUME ~overlapped
        PROVE  Alone' /\ \A s \in AccountSlots : RequestSound(account[s], user, session)'
    <2>1. \A s \in AccountSlots : s # r => account[s].pc = "idle"
      BY <1>7 DEF AccountsInv, Alone
    <2>2. \A s \in AccountSlots : account'[s].pc \in {"idle", "answer"}
      BY <1>3, <2>1
    <2>3. Alone'
      BY <1>3, <2>1 DEF Alone
    <2>4. \A s \in AccountSlots : RequestSound(account'[s], user', session')
      BY <2>2 DEF RequestSound
    <2> QED BY <2>3, <2>4
  <1> QED BY <1>5, <1>6, <1>7 DEF AccountsInv

-----------------------------------------------------------------------------
(* The requests                                                             *)

\* What a request reads makes its check.
LEMMA ReadsKeep ==
  ASSUME AccountsInv, NEW r \in AccountSlots, NEW u \in Users, NEW to \in BOOLEAN, NEW b \in Browsers,
         \/ SetRoleReads(r, u, to) \/ SetActiveReads(r, u, to) \/ DeleteUserReads(r, u)
         \/ ChangePasswordReads(r, u) \/ LoginReads(r, u, b) \/ RefreshReads(r, b)
  PROVE  AccountsInv'
  <1>1. CASE SetRoleReads(r, u, to)
    <2> DEFINE a == [NoAccount EXCEPT !.pc = "role", !.user = u, !.to = to]
    <2>1. a \in Account /\ a.pc = "role" /\ a.user = u /\ a.to = to
      BY Defaults DEF Account
    <2>2. AccountBegins(r, a) /\ Demotable(u, to)
      BY <1>1 DEF SetRoleReads
    <2> HIDE DEF a
    <2>3. user[u].exists /\ (IsAdmin(u, user) /\ ~to => \E v \in Users : v # u /\ IsAdmin(v, user))
      BY <2>2, AnotherAdmin DEF Demotable, IsAdmin
    <2>4. RequestSound(a, user, session)
      BY <2>1, <2>3 DEF RequestSound
    <2> QED BY <2>1, <2>2, <2>4, BeginKeeps
  <1>2. CASE SetActiveReads(r, u, to)
    <2> DEFINE a == [NoAccount EXCEPT !.pc = "active", !.user = u, !.to = to]
    <2>1. a \in Account /\ a.pc = "active" /\ a.user = u
      BY Defaults DEF Account
    <2>2. AccountBegins(r, a) /\ user[u].exists
      BY <1>2 DEF SetActiveReads
    <2> HIDE DEF a
    <2>4. RequestSound(a, user, session)
      BY <2>1, <2>2 DEF RequestSound
    <2> QED BY <2>1, <2>2, <2>4, BeginKeeps
  <1>3. CASE DeleteUserReads(r, u)
    <2> DEFINE a == [NoAccount EXCEPT !.pc = "delete", !.user = u, !.rows = Of(u)]
    <2>0. Of(u) \in SUBSET Sessions
      BY DEF Of
    <2>1. a \in Account /\ a.pc = "delete" /\ a.user = u /\ a.rows = Of(u)
      BY <2>0, Defaults DEF Account
    <2>2. AccountBegins(r, a) /\ user[u].exists
      BY <1>3 DEF DeleteUserReads
    <2> HIDE DEF a
    <2>3. IsAdmin(u, user) => \E v \in Users : v # u /\ IsAdmin(v, user)
      BY <1>3, AnotherAdmin DEF DeleteUserReads, IsAdmin
    <2>4. RequestSound(a, user, session)
      BY <2>1, <2>2, <2>3 DEF RequestSound, Of
    <2> QED BY <2>1, <2>2, <2>4, BeginKeeps
  <1>4. CASE ChangePasswordReads(r, u)
    <2> DEFINE a == [NoAccount EXCEPT !.pc = "password", !.user = u, !.rows = Of(u)]
    <2>0. Of(u) \in SUBSET Sessions
      BY DEF Of
    <2>1. a \in Account /\ a.pc = "password" /\ a.user = u /\ a.rows = Of(u)
      BY <2>0, Defaults DEF Account
    <2>2. AccountBegins(r, a) /\ user[u].exists
      BY <1>4 DEF ChangePasswordReads
    <2> HIDE DEF a
    <2>4. RequestSound(a, user, session)
      BY <2>1, <2>2 DEF RequestSound, Of
    <2> QED BY <2>1, <2>2, <2>4, BeginKeeps
  <1>5. CASE LoginReads(r, u, b)
    <2> DEFINE a == [NoAccount EXCEPT !.pc = "login", !.user = u, !.browser = b]
    <2>1. a \in Account /\ a.pc = "login" /\ a.user = u
      BY Defaults DEF Account
    <2>2. AccountBegins(r, a) /\ user[u].exists
      BY <1>5 DEF LoginReads
    <2> HIDE DEF a
    <2>4. RequestSound(a, user, session)
      BY <2>1, <2>2 DEF RequestSound
    <2> QED BY <2>1, <2>2, <2>4, BeginKeeps
  <1>6. CASE RefreshReads(r, b)
    <2>0. PICK k \in With(cookie[b]) :
             /\ user[session[k].user].exists
             /\ AccountBegins(r, [NoAccount EXCEPT !.pc = "refresh", !.user = session[k].user,
                                                   !.browser = b, !.rows = {k}])
      BY <1>6 DEF RefreshReads
    <2> DEFINE v == session[k].user
               a == [NoAccount EXCEPT !.pc = "refresh", !.user = v, !.browser = b, !.rows = {k}]
    <2>1. {k} \in SUBSET Sessions /\ v \in Users
      BY DEF With, AccountsInv, AccountTypeOK, SessionRow
    <2>2. AccountBegins(r, a) /\ user[v].exists
      BY <2>0
    <2> HIDE DEF v
    <2>3. a \in Account /\ a.pc = "refresh" /\ a.user = v /\ a.rows = {k}
      BY <2>1, Defaults DEF Account
    <2> HIDE DEF a
    <2>4. RequestSound(a, user, session)
      BY <2>2, <2>3 DEF RequestSound
    <2> QED BY <2>2, <2>3, <2>4, BeginKeeps
  <1> QED BY <1>1, <1>2, <1>3, <1>4, <1>5, <1>6

\* A user that is not there is created: nobody is in progress on it.
LEMMA CreateKeeps ==
  ASSUME AccountsInv, NEW u \in Users, NEW admin \in BOOLEAN, CreateUser(u, admin)
  PROVE  AccountsInv'
  <1> DEFINE row == [exists |-> TRUE, admin |-> admin, active |-> TRUE]
  <1>1. row \in UserRow /\ row.exists
    BY DEF UserRow
  <1>2. /\ user' = [user EXCEPT ![u] = row]
        /\ session' = session /\ cookie' = cookie /\ made' = made
        /\ account' = account /\ overlapped' = overlapped
        /\ ~user[u].exists
        /\ \A r \in AccountSlots : account[r].pc # "idle" => account[r].user # u
    BY DEF CreateUser
  <1> HIDE DEF row
  <1>3. user \in [Users -> UserRow] /\ account \in [AccountSlots -> Account]
    BY DEF AccountsInv, AccountTypeOK
  <1>4. /\ user' \in [Users -> UserRow] /\ user'[u].exists
        /\ \A v \in Users : v # u => user'[v] = user[v]
    BY <1>1, <1>2, <1>3
  <1>5. AccountTypeOK' /\ RefreshHasRow'
    BY <1>2, <1>4 DEF AccountsInv, AccountTypeOK, RefreshHasRow
  <1>6. \A v \in Users : IsAdmin(v, user) => IsAdmin(v, user')
    BY <1>2, <1>4 DEF IsAdmin
  <1>7. ASSUME ~overlapped
        PROVE  /\ Alone' /\ HasAdmin(user') /\ SessionsOwned(user', session)
               /\ \A r \in AccountSlots : RequestSound(account[r], user', session)
    <2>1. Alone'
      BY <1>2, <1>7 DEF AccountsInv, Alone
    <2>2. HasAdmin(user')
      BY <1>6, <1>7 DEF AccountsInv, HasAdmin
    <2>3. SessionsOwned(user', session)
      BY <1>4, <1>7 DEF AccountsInv, AccountTypeOK, SessionRow, SessionsOwned
    <2>4. ASSUME NEW r \in AccountSlots PROVE RequestSound(account[r], user', session)
      <3>1. RequestSound(account[r], user, session) /\ account[r] \in Account
        BY <1>3, <1>7 DEF AccountsInv
      <3>2. CASE account[r].pc = "idle"
        BY <3>2 DEF RequestSound
      <3>3. CASE account[r].pc # "idle"
        <4>1. account[r].user # u /\ account[r].user \in Users
          BY <1>2, <3>1, <3>3 DEF Account
        <4>2. user'[account[r].user] = user[account[r].user]
          BY <1>4, <4>1
        <4> QED BY <1>6, <3>1, <4>2 DEF RequestSound, IsAdmin
      <3> QED BY <3>2, <3>3
    <2> QED BY <2>1, <2>2, <2>3, <2>4
  <1> QED BY <1>2, <1>5, <1>7 DEF AccountsInv

\* Sessions are given up.
LEMMA LogoutKeeps ==
  ASSUME AccountsInv, NEW b \in Browsers, Logout(b)
  PROVE  AccountsInv'
  <1>1. /\ session' = [k \in Sessions |-> IF k \in With(cookie[b]) THEN NoSession ELSE session[k]]
        /\ cookie' = [cookie EXCEPT ![b] = 0]
        /\ user' = user /\ made' = made /\ account' = account /\ overlapped' = overlapped
    BY DEF Logout
  <1>2. 0 \in Values
    BY UserAccountsAssumption DEF Values
  <1>3. session' \in [Sessions -> SessionRow]
    BY <1>1, Defaults DEF AccountsInv, AccountTypeOK
  <1>4. \A k \in Sessions : session'[k].exists => session'[k] = session[k]
    BY <1>1, Defaults
  <1>5. AccountTypeOK' /\ RefreshHasRow'
    BY <1>1, <1>2, <1>3 DEF AccountsInv, AccountTypeOK, RefreshHasRow
  <1>6. ASSUME ~overlapped
        PROVE  /\ Alone' /\ SessionsOwned(user, session')
               /\ \A r \in AccountSlots : RequestSound(account[r], user, session')
    <2>1. Alone'
      BY <1>1, <1>6 DEF AccountsInv, Alone
    <2>2. SessionsOwned(user, session')
      BY <1>4, <1>6 DEF AccountsInv, SessionsOwned
    <2>3. \A r \in AccountSlots : RequestSound(account[r], user, session')
      BY <1>4, <1>6 DEF AccountsInv, RequestSound
    <2> QED BY <2>1, <2>2, <2>3
  <1> QED BY <1>1, <1>5, <1>6 DEF AccountsInv

\* A role is set: an administrator is demoted only if there is another, who is
\* still there.
LEMMA RoleKeeps ==
  ASSUME AccountsInv, NEW r \in AccountSlots, SetRoleCommits(r)
  PROVE  AccountsInv'
  <1> DEFINE u == account[r].user
             to == account[r].to
  <1>0. /\ user \in [Users -> UserRow] /\ session \in [Sessions -> SessionRow]
        /\ cookie \in [Browsers -> Values] /\ made \in Values
        /\ account[r] \in Account
    BY DEF AccountsInv, AccountTypeOK
  <1>1. /\ account[r].pc = "role" /\ u \in Users /\ to \in BOOLEAN
        /\ user' = IF user[u].exists THEN [user EXCEPT ![u].admin = to] ELSE user
        /\ account' = [account EXCEPT ![r] = NoAccount]
        /\ session' = session /\ cookie' = cookie /\ made' = made /\ overlapped' = overlapped
    BY <1>0 DEF SetRoleCommits, AccountEnds, Account
  <1>r. ~overlapped => RequestSound(account[r], user, session)
    BY DEF AccountsInv
  <1>2. ~overlapped => (IsAdmin(u, user) /\ ~to => \E v \in Users : v # u /\ IsAdmin(v, user))
    BY <1>1, <1>r DEF RequestSound
  <1> HIDE DEF u, to
  <1>3. /\ user' \in [Users -> UserRow]
        /\ \A v \in Users : user'[v].exists = user[v].exists
        /\ \A v \in Users : v # u => user'[v] = user[v]
        /\ user[u].exists => user'[u].admin = to
    BY <1>0, <1>1 DEF UserRow
  <1>a. \A v \in Users : v # u /\ IsAdmin(v, user) => IsAdmin(v, user')
    BY <1>3 DEF IsAdmin
  <1>b. IsAdmin(u, user) /\ to => IsAdmin(u, user')
    BY <1>1, <1>3 DEF IsAdmin
  <1>4. ASSUME ~overlapped PROVE HasAdmin(user') /\ SessionsOwned(user', session')
    <2>1. SessionsOwned(user', session')
      BY <1>0, <1>1, <1>3, <1>4 DEF AccountsInv, SessionsOwned, SessionRow
    <2>2. PICK v \in Users : IsAdmin(v, user)
      BY <1>4 DEF AccountsInv, HasAdmin
    <2>3. CASE v # u
      BY <1>a, <2>1, <2>2, <2>3 DEF HasAdmin
    <2>4. CASE v = u /\ to
      BY <1>b, <2>1, <2>2, <2>4 DEF HasAdmin
    <2>5. CASE v = u /\ ~to
      <3>1. PICK w \in Users : w # u /\ IsAdmin(w, user)
        BY <1>2, <1>4, <2>2, <2>5
      <3> QED BY <1>a, <2>1, <3>1 DEF HasAdmin
    <2> QED BY <1>1, <2>1, <2>3, <2>4, <2>5
  <1>5. NoAccount \in Account /\ NoAccount.pc \in {"idle", "answer"}
    BY Defaults
  <1> QED BY <1>0, <1>1, <1>3, <1>4, <1>5, EndKeeps

\* A user is enabled or disabled: an administrator stays one.
LEMMA ActiveKeeps ==
  ASSUME AccountsInv, NEW r \in AccountSlots, SetActiveCommits(r)
  PROVE  AccountsInv'
  <1> DEFINE u == account[r].user
             to == account[r].to
  <1>0. /\ user \in [Users -> UserRow] /\ session \in [Sessions -> SessionRow]
        /\ cookie \in [Browsers -> Values] /\ made \in Values
        /\ account[r] \in Account
    BY DEF AccountsInv, AccountTypeOK
  <1>1. /\ account[r].pc = "active" /\ u \in Users /\ to \in BOOLEAN
        /\ user' = IF user[u].exists THEN [user EXCEPT ![u].active = to] ELSE user
        /\ account' = [account EXCEPT ![r] = NoAccount]
        /\ session' = session /\ cookie' = cookie /\ made' = made /\ overlapped' = overlapped
    BY <1>0 DEF SetActiveCommits, AccountEnds, Account
  <1> HIDE DEF u, to
  <1>2. /\ user' \in [Users -> UserRow]
        /\ \A v \in Users : user'[v].exists = user[v].exists /\ user'[v].admin = user[v].admin
    BY <1>0, <1>1 DEF UserRow
  <1>3. ~overlapped => HasAdmin(user')
    BY <1>2 DEF AccountsInv, HasAdmin, IsAdmin
  <1>4. ~overlapped => SessionsOwned(user', session')
    BY <1>0, <1>1, <1>2 DEF AccountsInv, SessionsOwned, SessionRow
  <1>5. NoAccount \in Account /\ NoAccount.pc \in {"idle", "answer"}
    BY Defaults
  <1> QED BY <1>0, <1>1, <1>2, <1>3, <1>4, <1>5, EndKeeps

\* A user is deleted with every session there is, and not the last administrator.
LEMMA DeleteKeeps ==
  ASSUME AccountsInv, NEW r \in AccountSlots, DeleteUserCommits(r)
  PROVE  AccountsInv'
  <1> DEFINE u == account[r].user
  <1>0. /\ user \in [Users -> UserRow] /\ session \in [Sessions -> SessionRow]
        /\ cookie \in [Browsers -> Values] /\ made \in Values
        /\ account[r] \in Account
    BY DEF AccountsInv, AccountTypeOK
  <1>1. /\ account[r].pc = "delete" /\ u \in Users
        /\ user' = [user EXCEPT ![u] = NoUser]
        /\ session' = [k \in Sessions |-> IF k \in account[r].rows THEN NoSession ELSE session[k]]
        /\ account' = [account EXCEPT ![r] = NoAccount]
        /\ cookie' = cookie /\ made' = made /\ overlapped' = overlapped
    BY <1>0 DEF DeleteUserCommits, EndSessions, AccountEnds, Account
  <1>r. ~overlapped => RequestSound(account[r], user, session)
    BY DEF AccountsInv
  <1>2. ~overlapped =>
          /\ IsAdmin(u, user) => \E v \in Users : v # u /\ IsAdmin(v, user)
          /\ \A k \in Sessions : session[k].exists /\ session[k].user = u => k \in account[r].rows
    BY <1>1, <1>r DEF RequestSound
  <1> HIDE DEF u
  <1>3. /\ user' \in [Users -> UserRow] /\ session' \in [Sessions -> SessionRow]
        /\ \A v \in Users : v # u => user'[v] = user[v]
        /\ \A k \in Sessions : session'[k].exists => session'[k] = session[k] /\ k \notin account[r].rows
    BY <1>0, <1>1, Defaults
  <1>4. ~overlapped => HasAdmin(user')
    <2> SUFFICES ASSUME ~overlapped PROVE HasAdmin(user')
      OBVIOUS
    <2>1. PICK v \in Users : v # u /\ IsAdmin(v, user)
      BY <1>2 DEF AccountsInv, HasAdmin
    <2> QED BY <1>3, <2>1 DEF HasAdmin, IsAdmin
  <1>5. ~overlapped => SessionsOwned(user', session')
    BY <1>0, <1>2, <1>3 DEF AccountsInv, SessionsOwned, SessionRow
  <1>6. NoAccount \in Account /\ NoAccount.pc \in {"idle", "answer"}
    BY Defaults
  <1> QED BY <1>0, <1>1, <1>3, <1>4, <1>5, <1>6, EndKeeps

\* A changed password ends sessions.
LEMMA PasswordKeeps ==
  ASSUME AccountsInv, NEW r \in AccountSlots, ChangePasswordCommits(r)
  PROVE  AccountsInv'
  <1>0. /\ user \in [Users -> UserRow] /\ session \in [Sessions -> SessionRow]
        /\ cookie \in [Browsers -> Values] /\ made \in Values
    BY DEF AccountsInv, AccountTypeOK
  <1>1. /\ account[r].pc = "password"
        /\ \/ session' = [k \in Sessions |-> IF k \in account[r].rows THEN NoSession ELSE session[k]]
           \/ session' = session
        /\ account' = [account EXCEPT ![r] = NoAccount]
        /\ user' = user /\ cookie' = cookie /\ made' = made /\ overlapped' = overlapped
    BY DEF ChangePasswordCommits, EndSessions, AccountEnds
  <1>2. /\ session' \in [Sessions -> SessionRow]
        /\ \A k \in Sessions : session'[k].exists => session'[k] = session[k]
    BY <1>0, <1>1, Defaults
  <1>3. ~overlapped => HasAdmin(user') /\ SessionsOwned(user', session')
    BY <1>1, <1>2 DEF AccountsInv, SessionsOwned
  <1>4. NoAccount \in Account /\ NoAccount.pc \in {"idle", "answer"}
    BY Defaults
  <1> QED BY <1>0, <1>1, <1>2, <1>3, <1>4, EndKeeps

\* A session gets a new token, or the answer only says no.
LEMMA TokenKeeps ==
  ASSUME AccountsInv, NEW r \in AccountSlots, LoginCommits(r) \/ RefreshCommits(r)
  PROVE  AccountsInv'
  <1>0. /\ user \in [Users -> UserRow] /\ session \in [Sessions -> SessionRow]
        /\ cookie \in [Browsers -> Values] /\ made \in Values
        /\ account[r] \in Account /\ account[r].user \in Users
        /\ account[r].rows \in SUBSET Sessions /\ account[r].browser \in Browsers
    BY DEF AccountsInv, AccountTypeOK, Account
  <1>1. /\ account[r].pc \in {"login", "refresh"}
        /\ user' = user /\ cookie' = cookie /\ overlapped' = overlapped
    BY DEF LoginCommits, RefreshCommits
  <1>2. ~overlapped => user[account[r].user].exists
    BY <1>1 DEF AccountsInv, RequestSound
  <1>3. ASSUME AnswersWithToken(r), session' \in [Sessions -> SessionRow],
               ~overlapped => SessionsOwned(user, session')
        PROVE  AccountsInv'
    <2> DEFINE a == [NoAccount EXCEPT !.pc = "answer", !.value = made + 1,
                                      !.browser = account[r].browser]
    <2>1. made + 1 \in Values /\ made' = made + 1 /\ account' = [account EXCEPT ![r] = a]
      BY <1>0, <1>3, UserAccountsAssumption DEF AnswersWithToken, Values
    <2>2. a \in Account /\ a.pc = "answer"
      BY <1>0, <2>1, Defaults DEF Account
    <2> HIDE DEF a
    <2>3. ~overlapped => HasAdmin(user') /\ SessionsOwned(user', session')
      BY <1>1, <1>3 DEF AccountsInv
    <2> QED BY <1>0, <1>1, <1>3, <2>1, <2>2, <2>3, EndKeeps
  <1>4. CASE LoginCommits(r)
    <2>1. AnswersWithToken(r)
      BY <1>4 DEF LoginCommits
    <2>2. made + 1 \in Values
      BY <1>0, <2>1, UserAccountsAssumption DEF AnswersWithToken, Values
    <2>3. PICK k \in Sessions :
             session' = [session EXCEPT ![k] = [exists |-> TRUE, user |-> account[r].user, value |-> made + 1]]
      BY <1>4 DEF LoginCommits
    <2>4. [exists |-> TRUE, user |-> account[r].user, value |-> made + 1] \in SessionRow
      BY <1>0, <2>2 DEF SessionRow
    <2>5. session' \in [Sessions -> SessionRow]
      BY <1>0, <2>3, <2>4
    <2>6. ~overlapped => SessionsOwned(user, session')
      BY <1>0, <1>2, <2>3 DEF AccountsInv, SessionsOwned
    <2> QED BY <1>3, <2>1, <2>5, <2>6
  <1>5. CASE RefreshCommits(r)
    <2> DEFINE k == CHOOSE k \in Sessions : k \in account[r].rows
    <2>1. k \in Sessions
      <3>1. account[r].rows # {}
        BY <1>5 DEF RefreshCommits, AccountsInv, RefreshHasRow
      <3>2. \E m \in Sessions : m \in account[r].rows
        BY <1>0, <3>1
      <3> QED BY <3>2
    <2>2. \/ session' = [session EXCEPT ![k].value = made + 1] /\ AnswersWithToken(r)
          \/ session' = session /\ made' = made /\ AccountEnds(r)
      BY <1>5 DEF RefreshCommits
    <2> HIDE DEF k
    <2>3. CASE session' = [session EXCEPT ![k].value = made + 1] /\ AnswersWithToken(r)
      <3>1. made + 1 \in Values
        BY <1>0, <2>3, UserAccountsAssumption DEF AnswersWithToken, Values
      <3>2. /\ session' \in [Sessions -> SessionRow]
            /\ \A m \in Sessions : session'[m].exists = session[m].exists /\ session'[m].user = session[m].user
        BY <1>0, <2>1, <2>3, <3>1 DEF SessionRow
      <3>3. ~overlapped => SessionsOwned(user, session')
        BY <3>2 DEF AccountsInv, SessionsOwned
      <3> QED BY <1>3, <2>3, <3>2, <3>3
    <2>4. CASE session' = session /\ made' = made /\ AccountEnds(r)
      <3>1. NoAccount \in Account /\ NoAccount.pc \in {"idle", "answer"}
        BY Defaults
      <3>2. account' = [account EXCEPT ![r] = NoAccount]
        BY <2>4 DEF AccountEnds
      <3>3. ~overlapped => HasAdmin(user') /\ SessionsOwned(user', session')
        BY <1>1, <2>4 DEF AccountsInv
      <3> QED BY <1>0, <1>1, <2>4, <3>1, <3>2, <3>3, EndKeeps
    <2> QED BY <2>2, <2>3, <2>4
  <1> QED BY <1>4, <1>5

\* The browser takes its cookie.
LEMMA CookieKeeps ==
  ASSUME AccountsInv, NEW r \in AccountSlots, TakeCookie(r)
  PROVE  AccountsInv'
  <1>0. /\ user \in [Users -> UserRow] /\ session \in [Sessions -> SessionRow]
        /\ cookie \in [Browsers -> Values] /\ made \in Values
        /\ account[r].value \in Values /\ account[r].browser \in Browsers
    BY DEF AccountsInv, AccountTypeOK, Account
  <1>1. /\ account[r].pc = "answer"
        /\ cookie' = [cookie EXCEPT ![account[r].browser] = account[r].value]
        /\ account' = [account EXCEPT ![r] = NoAccount]
        /\ user' = user /\ session' = session /\ made' = made /\ overlapped' = overlapped
    BY DEF TakeCookie, AccountEnds
  <1>2. cookie' \in [Browsers -> Values]
    BY <1>0, <1>1
  <1>3. ~overlapped => HasAdmin(user') /\ SessionsOwned(user', session')
    BY <1>1 DEF AccountsInv
  <1>4. NoAccount \in Account /\ NoAccount.pc \in {"idle", "answer"}
    BY Defaults
  <1> QED BY <1>0, <1>1, <1>2, <1>3, <1>4, EndKeeps

-----------------------------------------------------------------------------
\* The invariant holds of a new installation.
LEMMA AccountsInitInv == AccountsInit => AccountsInv
  <1> SUFFICES ASSUME AccountsInit PROVE AccountsInv
    OBVIOUS
  <1>1. PICK u \in Users :
           user = [v \in Users |-> IF v = u THEN [exists |-> TRUE, admin |-> TRUE, active |-> TRUE]
                                   ELSE NoUser]
    BY DEF AccountsInit
  <1>2. user \in [Users -> UserRow] /\ IsAdmin(u, user)
    BY <1>1, Defaults DEF UserRow, IsAdmin
  <1>3. 0 \in Values
    BY UserAccountsAssumption DEF Values
  <1>4. /\ session = [k \in Sessions |-> NoSession] /\ cookie = [b \in Browsers |-> 0] /\ made = 0
        /\ account = [r \in AccountSlots |-> NoAccount] /\ overlapped = FALSE
    BY DEF AccountsInit
  <1>5. AccountTypeOK
    BY <1>2, <1>3, <1>4, Defaults DEF AccountTypeOK
  <1>6. \A r \in AccountSlots : account[r].pc = "idle"
    BY <1>4, Defaults
  <1>7. RefreshHasRow /\ Alone /\ \A r \in AccountSlots : RequestSound(account[r], user, session)
    BY <1>6 DEF RefreshHasRow, Alone, RequestSound
  <1>8. HasAdmin(user) /\ SessionsOwned(user, session)
    BY <1>2, <1>4, Defaults DEF HasAdmin, SessionsOwned
  <1> QED BY <1>5, <1>7, <1>8 DEF AccountsInv

\* Every step keeps the invariant.
LEMMA AccountsNextInv == AccountsInv /\ [AccountsNext]_accountVars => AccountsInv'
  <1> SUFFICES ASSUME AccountsInv, [AccountsNext]_accountVars
               PROVE  AccountsInv'
    OBVIOUS
  <1>1. CASE \E u \in Users, to \in BOOLEAN : CreateUser(u, to)
    BY <1>1, CreateKeeps
  <1>2. CASE \E b \in Browsers : Logout(b)
    BY <1>2, LogoutKeeps
  <1>3. ASSUME NEW r \in AccountSlots, AccountStep(r) PROVE AccountsInv'
    BY <1>3, RoleKeeps, ActiveKeeps, DeleteKeeps, PasswordKeeps, TokenKeeps, CookieKeeps DEF AccountStep
  <1>4. ASSUME NEW r \in AccountSlots,
               \/ \E u \in Users, to \in BOOLEAN : SetRoleReads(r, u, to) \/ SetActiveReads(r, u, to)
               \/ \E u \in Users : DeleteUserReads(r, u) \/ ChangePasswordReads(r, u)
               \/ \E u \in Users, b \in Browsers : LoginReads(r, u, b)
               \/ \E b \in Browsers : RefreshReads(r, b)
        PROVE  AccountsInv'
    <2>1. \E u \in Users : TRUE
      BY UserAccountsAssumption
    <2>2. \E b \in Browsers : TRUE
      BY UserAccountsAssumption
    <2>3. FALSE \in BOOLEAN
      OBVIOUS
    <2> QED BY <1>4, <2>1, <2>2, <2>3, ReadsKeep
  <1>5. CASE UNCHANGED accountVars
    <2>1. /\ user' = user /\ session' = session /\ cookie' = cookie /\ made' = made
          /\ account' = account /\ overlapped' = overlapped
      BY <1>5 DEF accountVars
    <2> QED BY <2>1 DEF AccountsInv, AccountTypeOK, RefreshHasRow, Alone
  <1> QED BY <1>1, <1>2, <1>3, <1>4, <1>5 DEF AccountsNext

\* As long as requests do not overlap there is an administrator and every
\* session has its user.
THEOREM AccountsSound == AccountsSpec => []AccountsAreSound
  <1>1. AccountsInv => AccountsAreSound
    <2> SUFFICES ASSUME AccountsInv PROVE AccountsAreSound
      OBVIOUS
    <2>1. AdminRemains
      BY DEF AccountsInv, HasAdmin, IsAdmin, AdminRemains, Admins
    <2>2. SessionHasUser
      BY DEF AccountsInv, SessionsOwned, SessionHasUser
    <2> QED BY <2>1, <2>2 DEF AccountsInv, AccountsAreSound
  <1> QED BY AccountsInitInv, AccountsNextInv, <1>1, PTL DEF AccountsSpec

\* The commit of a changed password or of a deletion ends every session of the
\* user, those made since the request began included.
THEOREM SessionsAllEnd == AccountsSpec => AllSessionsEnd
  <1> DEFINE Ended == \A r \in AccountSlots :
          ~overlapped /\ account[r].pc \in {"password", "delete"} /\ account'[r].pc = "idle" =>
             \A k \in Sessions : session'[k].exists => session'[k].user # account[r].user
  <1>1. AccountsInv /\ [AccountsNext]_accountVars => [Ended]_accountVars
    <2> SUFFICES ASSUME AccountsInv, AccountsNext, NEW r \in AccountSlots, ~overlapped,
                        account[r].pc \in {"password", "delete"}, account'[r].pc = "idle",
                        NEW k \in Sessions, session'[k].exists
                 PROVE  session'[k].user # account[r].user
      BY DEF Ended
    <2>0. account \in [AccountSlots -> Account]
      BY DEF AccountsInv, AccountTypeOK
    <2>1. /\ user[account[r].user].exists
          /\ session[k].exists /\ session[k].user = account[r].user => k \in account[r].rows
      BY DEF AccountsInv, RequestSound
    <2>2. DeleteUserCommits(r) \/ ChangePasswordCommits(r)
      <3>1. account'[r] # account[r]
        OBVIOUS
      <3>2. ASSUME NEW s \in AccountSlots, NEW a, AccountBegins(s, a) PROVE FALSE
        BY <2>0, <3>1, <3>2 DEF AccountBegins
      <3>3. PICK s \in AccountSlots : AccountStep(s)
        BY <3>1, <3>2 DEF AccountsNext, CreateUser, Logout, SetRoleReads, SetActiveReads,
              DeleteUserReads, ChangePasswordReads, LoginReads, RefreshReads
      <3>4. s = r
        BY <3>3 DEF AccountsInv, Alone, AccountStep, SetRoleCommits, SetActiveCommits,
              DeleteUserCommits, ChangePasswordCommits, LoginCommits, RefreshCommits, TakeCookie
      <3> QED BY <3>3, <3>4 DEF AccountStep, SetRoleCommits, SetActiveCommits, LoginCommits,
              RefreshCommits, TakeCookie
    <2>3. session'[k] = IF k \in account[r].rows THEN NoSession ELSE session[k]
      BY <2>1, <2>2 DEF DeleteUserCommits, ChangePasswordCommits, EndSessions
    <2> QED BY <2>1, <2>3, Defaults
  <1> QED BY AccountsInitInv, AccountsNextInv, <1>1, PTL DEF AccountsSpec, AllSessionsEnd, Ended

-----------------------------------------------------------------------------
(***************************************************************************)
(* IscsiLuns: the rows of the LUNs agree with the target.                  *)
(*                                                                         *)
(* While requests come one after the other, what a request or a background *)
(* task found of its LUN stays so until it commits (HoldsRow), each task   *)
(* has a LUN, a name and a number of its own, and so a command that takes  *)
(* something off the target takes nothing a usable LUN stands on.          *)
(***************************************************************************)

-----------------------------------------------------------------------------
(* The inductive invariant                                                  *)

CreatePcs == {"target", "store", "export", "cleanup", "created"}
DeletePcs == {"load", "unexport", "unstore", "deleted"}
AssignPcs == {"acl", "chap", "assign"}
UnassignPcs == {"unacl", "unassign"}
Usable == {"ready", "active"}

RowOf(r) == lun[slot[r].lun]

\* A LUN is assigned to a node.
AssignsNode == \A r \in Slots : slot[r].pc \in AssignPcs => slot[r].node \in LunNodes

\* The unique constraint.
NamesUnique == \A l, m \in LunIds :
    lun[l].exists /\ lun[m].exists /\ lun[l].name = lun[m].name => l = m

\* Somebody is at work on a LUN that is "creating" or "deleting".
Worked ==
    "restart" \notin past =>
        \A l \in LunIds : lun[l].exists =>
            /\ lun[l].status = "creating" =>
                 \E r \in Slots : slot[r].lun = l /\ slot[r].pc \in CreatePcs
            /\ lun[l].status = "deleting" =>
                 \E r \in Slots : slot[r].lun = l /\ slot[r].pc \in DeletePcs

\* What a request or a task found of its LUN stays so until it commits, ...
HoldsRow(r) ==
    /\ slot[r].pc \in CreatePcs => RowOf(r).exists /\ RowOf(r).status = "creating"
    /\ slot[r].pc \in DeletePcs => RowOf(r).exists /\ RowOf(r).status = "deleting"
    /\ slot[r].pc = "delete" =>
         /\ RowOf(r).exists /\ RowOf(r).node = NoLunNode
         /\ RowOf(r).status \notin {"creating", "deleting"}
    /\ slot[r].pc \in AssignPcs =>
         RowOf(r).exists /\ RowOf(r).node = NoLunNode /\ RowOf(r).status \in Usable
    /\ slot[r].pc \in UnassignPcs =>
         RowOf(r).exists /\ RowOf(r).node = slot[r].node /\ slot[r].node # NoLunNode
    /\ slot[r].pc = "create" =>
         \A l \in LunIds : lun[l].exists => lun[l].number < slot[r].number

\* ... as long as requests come one after the other: then tasks have LUNs of
\* their own, and a new LUN gets a new number.
Serial ==
    "overlap" \notin past =>
        /\ \A r, s \in Slots : slot[r].pc \in RequestPcs /\ slot[s].pc \in RequestPcs => r = s
        /\ \A r, s \in Slots :
              slot[r].pc \in TaskPcs /\ slot[s].pc \in TaskPcs /\ slot[r].lun = slot[s].lun => r = s
        /\ \A r \in Slots : HoldsRow(r)
        /\ \A l \in LunIds : lun[l].exists /\ lun[l].node # NoLunNode => lun[l].status \in Usable
        /\ \A l, m \in LunIds :
              lun[l].exists /\ lun[m].exists /\ lun[l].number = lun[m].number => l = m

\* A task goes by the name and the number of its row.
TasksNamed ==
    past \subseteq {"restart"} =>
        \A r \in Slots :
            slot[r].pc \in CreatePcs \union {"unexport", "unstore", "deleted"} =>
                slot[r].name = RowOf(r).name /\ slot[r].number = RowOf(r).number

\* A LUN that is about to be ready is exported.
CreatedIsExported ==
    past \subseteq {"restart"} =>
        \A r \in Slots : slot[r].pc = "created" =>
            exports[slot[r].number] = slot[r].name /\ slot[r].name \in stores

\* A node that is about to get a LUN has its ACL, and no LUN.
AclIsForOne ==
    past \subseteq {"rename"} =>
        \A r \in Slots : slot[r].pc \in {"chap", "assign"} =>
            /\ slot[r].node \in acls
            /\ \A l \in LunIds : lun[l].exists => lun[l].node # slot[r].node

Rows == LunTypeOK /\ AssignsNode /\ NamesUnique /\ Worked /\ Serial /\ TasksNamed

\* What is known of the exports and stores, and of the ACLs.
Exported == CreatedIsExported /\ ReadyIsExported
Assigned == AclIsForOne /\ AssignedHasAcl

LunInv == Rows /\ Exported /\ Assigned
Pcs == {"idle"} \union RequestPcs \union TaskPcs

-----------------------------------------------------------------------------
(* Types                                                                    *)

\* Values that stand for nothing have their types.
LEMMA NoValues ==
    /\ NoLun \in LunRow /\ NoSlot \in Slot
    /\ ~NoLun.exists /\ NoLun.node = NoLunNode
    /\ NoSlot.pc = "idle"
<1>1. NoLun.name \in LunNames /\ 0 \in LunNumbers
  BY IscsiLunsAssumption DEF NoLun, LunNumbers
<1>2. NoLun \in LunRow
  BY <1>1 DEF NoLun, LunRow, LunStatuses
<1>3. NoSlot \in Slot
  BY <1>1, IscsiLunsAssumption DEF NoSlot, Slot, LunStatuses
<1> QED
  BY <1>2, <1>3 DEF NoLun, NoSlot

\* The number of a new LUN is larger than those in use, of which there is at
\* most one.
LEMMA NextNumberIsNew ==
    ASSUME LunTypeOK, Cardinality(Luns) <= 1, NextLunNumber <= MaxLunNumber
    PROVE  /\ NextLunNumber \in LunNumbers
           /\ \A l \in LunIds : lun[l].exists => lun[l].number < NextLunNumber
<1>1. IsFiniteSet(Luns)
  BY IscsiLunsAssumption, FS_Subset DEF Luns
<1>2. \A l \in LunIds : lun[l].number \in Nat
  BY IscsiLunsAssumption DEF LunTypeOK, LunRow, LunNumbers
<1>3. CASE Luns = {}
  BY <1>3, IscsiLunsAssumption DEF Luns, NextLunNumber, LunNumbers
<1>4. CASE Luns # {}
  <2>1. Cardinality(Luns) \in Nat /\ Cardinality(Luns) # 0
    BY <1>1, <1>4, FS_CardinalityType, FS_EmptySet
  <2> HIDE DEF Luns
  <2>4. Cardinality(Luns) = 1
    BY <2>1
  <2>2. PICK m : Luns = {m}
    BY <1>1, <2>4, FS_Singleton, Zenon
  <2>3. m \in LunIds /\ NextLunNumber = lun[m].number + 1
    BY <2>2 DEF NextLunNumber, Luns
  <2> QED
    BY <1>2, <2>2, <2>3, IscsiLunsAssumption DEF LunNumbers, Luns
<1> QED
  BY <1>3, <1>4

\* A slot that only moves on keeps what it holds.
LEMMA GoesOn ==
    ASSUME LunTypeOK, NEW r \in Slots, NEW pc \in Pcs, SlotGoes(r, pc)
    PROVE  /\ slot' \in [Slots -> Slot]
           /\ \A s \in Slots : s # r => slot'[s] = slot[s]
           /\ slot'[r].pc = pc
           /\ \A s \in Slots : /\ slot'[s].lun = slot[s].lun
                               /\ slot'[s].name = slot[s].name /\ slot'[s].number = slot[s].number
                               /\ slot'[s].node = slot[s].node
<1>1. slot \in [Slots -> Slot]
  BY DEF LunTypeOK
<1>2. slot' = [slot EXCEPT ![r] = [slot[r] EXCEPT !.pc = pc]]
  BY DEF SlotGoes
<1>3. [slot[r] EXCEPT !.pc = pc] \in Slot
  BY <1>1 DEF Slot, Pcs
<1> QED
  BY <1>1, <1>2, <1>3 DEF Slot

\* A slot that is given up holds nothing.
LEMMA GivesUp ==
    ASSUME LunTypeOK, NEW r \in Slots, SlotEnds(r)
    PROVE  /\ slot' \in [Slots -> Slot]
           /\ \A s \in Slots : s # r => slot'[s] = slot[s]
           /\ slot'[r].pc = "idle"
<1>1. slot \in [Slots -> Slot]
  BY DEF LunTypeOK
<1> QED
  BY <1>1, NoValues DEF SlotEnds

\* A write reaches the row of the slot, if it is there.
LEMMA WritesOne ==
    ASSUME LunTypeOK, NEW r \in Slots, NEW row \in LunRow, Writes(r, row)
    PROVE  /\ lun' \in [LunIds -> LunRow] /\ slot[r].lun \in LunIds
           /\ \A l \in LunIds : l # slot[r].lun => lun'[l] = lun[l]
           /\ ~RowOf(r).exists => lun' = lun
           /\ RowOf(r).exists => lun'[slot[r].lun] = row
<1>1. lun \in [LunIds -> LunRow] /\ slot[r].lun \in LunIds
  BY DEF LunTypeOK, Slot
<1> QED
  BY <1>1 DEF Writes, RowOf

-----------------------------------------------------------------------------
(* Rows and slots                                                           *)

\* Where a slot goes without another look at its row.
SameWork(p, q) ==
    \/ p \in CreatePcs /\ q \in CreatePcs
    \/ p \in {"unexport", "unstore"} /\ q \in {"unstore", "deleted"}
    \/ p \in AssignPcs /\ q \in AssignPcs
    \/ p \in UnassignPcs /\ q \in UnassignPcs

\* A slot that goes on with its work leaves the rows and what it knows of them.
LEMMA MoveKeeps ==
    ASSUME Rows, LunTypeOK', AssignsNode', NEW r \in Slots, NEW pc \in Pcs, SlotGoes(r, pc),
           SameWork(slot[r].pc, pc), UNCHANGED <<lun, past>>
    PROVE  Rows'
<1> USE DEF SameWork, CreatePcs, DeletePcs, AssignPcs, UnassignPcs, RequestPcs, TaskPcs
<1>1. /\ \A s \in Slots : s # r => slot'[s].pc = slot[s].pc
      /\ slot'[r].pc = pc
      /\ \A s \in Slots : /\ slot'[s].lun = slot[s].lun
                          /\ slot'[s].name = slot[s].name /\ slot'[s].number = slot[s].number
                          /\ slot'[s].node = slot[s].node
  BY GoesOn DEF Rows
<1>2. NamesUnique'
  BY DEF Rows, NamesUnique
<1>3. Worked'
  BY <1>1 DEF Rows, Worked
<1>4. Serial'
  <2> SUFFICES ASSUME "overlap" \notin past
               PROVE  Serial'
    BY DEF Serial
  <2>1. \A s \in Slots : HoldsRow(s)'
    BY <1>1 DEF Rows, Serial, HoldsRow, RowOf
  <2>2. \A s, t \in Slots : slot'[s].pc \in RequestPcs /\ slot'[t].pc \in RequestPcs => s = t
    BY <1>1 DEF Rows, Serial
  <2>3. \A s, t \in Slots :
           slot'[s].pc \in TaskPcs /\ slot'[t].pc \in TaskPcs /\ slot'[s].lun = slot'[t].lun => s = t
    BY <1>1 DEF Rows, Serial
  <2> QED
    BY <2>1, <2>2, <2>3 DEF Rows, Serial
<1>5. TasksNamed'
  BY <1>1 DEF Rows, TasksNamed, RowOf
<1> QED
  BY <1>2, <1>3, <1>4, <1>5 DEF Rows

\* A request that fails, or a task that finds no row, leaves nothing behind.
LEMMA LunEndKeeps ==
    ASSUME Rows, LunTypeOK', AssignsNode', NEW r \in Slots, SlotEnds(r),
           slot[r].pc \in TaskPcs => ~RowOf(r).exists, UNCHANGED <<lun, past>>
    PROVE  Rows'
<1> USE DEF CreatePcs, DeletePcs, AssignPcs, UnassignPcs, RequestPcs, TaskPcs
<1>1. /\ \A s \in Slots : s # r => slot'[s] = slot[s]
      /\ slot'[r].pc = "idle"
  BY GivesUp DEF Rows
<1>2. NamesUnique'
  BY DEF Rows, NamesUnique
<1>3. Worked'
  BY <1>1 DEF Rows, Worked, RowOf
<1>4. Serial'
  <2> SUFFICES ASSUME "overlap" \notin past
               PROVE  Serial'
    BY DEF Serial
  <2>1. \A s \in Slots : HoldsRow(s)'
    BY <1>1 DEF Rows, Serial, HoldsRow, RowOf
  <2> QED
    BY <1>1, <2>1 DEF Rows, Serial
<1>5. TasksNamed'
  BY <1>1 DEF Rows, TasksNamed, RowOf
<1> QED
  BY <1>2, <1>3, <1>4, <1>5 DEF Rows

\* A request that begins takes down what it found.
LEMMA LunBeginKeeps ==
    ASSUME Rows, LunTypeOK', AssignsNode', NEW r \in Slots, NEW x \in Slot, Begins(r, x),
           x.pc \in RequestPcs, UNCHANGED lun,
           "overlap" \notin past => HoldsRow(r)'
    PROVE  Rows'
<1> USE DEF CreatePcs, DeletePcs, AssignPcs, UnassignPcs, RequestPcs, TaskPcs
<1>1. /\ \A s \in Slots : s # r => slot'[s] = slot[s]
      /\ slot'[r] = x /\ slot[r].pc = "idle"
  BY DEF Begins, Rows, LunTypeOK
<1>2. /\ past \subseteq past'
      /\ past' \subseteq {"restart"} => past \subseteq {"restart"}
      /\ "overlap" \notin past' => "overlap" \notin past
                                    /\ \A s \in Slots : slot[s].pc \notin RequestPcs
  BY DEF Begins
<1>3. NamesUnique'
  BY DEF Rows, NamesUnique
<1>4. Worked'
  <2>1. \A s \in Slots : slot[s].pc \in TaskPcs => slot'[s] = slot[s]
    BY <1>1
  <2> SUFFICES ASSUME "restart" \notin past'
               PROVE  Worked'
    BY DEF Worked
  <2>2. "restart" \notin past /\ Worked /\ lun' = lun
    BY <1>2 DEF Rows
  <2> QED
    BY <2>1, <2>2 DEF Worked
<1>5. Serial'
  <2> SUFFICES ASSUME "overlap" \notin past'
               PROVE  Serial'
    BY DEF Serial
  <2>1. \A s \in Slots : HoldsRow(s)'
    BY <1>1, <1>2 DEF Rows, Serial, HoldsRow, RowOf
  <2> QED
    BY <1>1, <1>2, <2>1 DEF Rows, Serial
<1>6. TasksNamed'
  BY <1>1, <1>2 DEF Rows, TasksNamed, RowOf
<1> QED
  BY <1>3, <1>4, <1>5, <1>6 DEF Rows

\* The end of a creation, with the LUN ready or in error, and of a deletion
\* that failed.
LEMMA CreateEndKeeps ==
    ASSUME Rows, LunTypeOK', AssignsNode', NEW r \in Slots, SlotEnds(r),
           NEW status \in {"ready", "error"},
           slot[r].pc \in CreatePcs \/ (slot[r].pc \in DeletePcs /\ status = "error"),
           Writes(r, [RowOf(r) EXCEPT !.status = status]), UNCHANGED past
    PROVE  Rows'
<1> USE DEF CreatePcs, DeletePcs, AssignPcs, UnassignPcs, RequestPcs, TaskPcs, Usable
<1>1. /\ \A s \in Slots : s # r => slot'[s] = slot[s]
      /\ slot'[r].pc = "idle"
  BY GivesUp DEF Rows
<1>2. slot[r].lun \in LunIds /\ RowOf(r) \in LunRow
  BY DEF Rows, LunTypeOK, Slot, RowOf
<1>3. [RowOf(r) EXCEPT !.status = status] \in LunRow
  BY <1>2 DEF LunRow, LunStatuses
<1>4. /\ \A l \in LunIds : l # slot[r].lun => lun'[l] = lun[l]
      /\ \A l \in LunIds : /\ lun'[l].exists = lun[l].exists /\ lun'[l].name = lun[l].name
                           /\ lun'[l].number = lun[l].number /\ lun'[l].node = lun[l].node
      /\ RowOf(r).exists => lun'[slot[r].lun].status = status
  BY <1>2, <1>3, WritesOne DEF Rows, LunRow, RowOf
<1>5. NamesUnique'
  BY <1>4 DEF Rows, NamesUnique
<1>6. Worked'
  BY <1>1, <1>2, <1>4 DEF Rows, Worked, RowOf
<1>7. Serial'
  <2> SUFFICES ASSUME "overlap" \notin past
               PROVE  Serial'
    BY DEF Serial
  <2>1. /\ RowOf(r).exists /\ RowOf(r).status \in {"creating", "deleting"}
        /\ RowOf(r).node = NoLunNode
    BY <1>2 DEF Rows, Serial, HoldsRow, RowOf
  <2>2. \A s \in Slots : s # r /\ slot[s].pc \in TaskPcs => slot[s].lun # slot[r].lun
    BY DEF Rows, Serial
  <2>3. \A s \in Slots : HoldsRow(s)'
    <3> SUFFICES ASSUME NEW s \in Slots, s # r
                 PROVE  HoldsRow(s)'
      BY <1>1 DEF HoldsRow
    <3>1. HoldsRow(s) /\ slot[s].lun \in LunIds
      BY DEF Rows, Serial, LunTypeOK, Slot
    <3>2. slot[s].pc \in TaskPcs \union {"delete"} \union AssignPcs \union UnassignPcs
            => lun'[slot[s].lun] = lun[slot[s].lun]
      BY <1>4, <2>1, <2>2, <3>1 DEF HoldsRow, RowOf
    <3> QED
      BY <1>1, <1>4, <3>1, <3>2 DEF HoldsRow, RowOf
  <2> QED
    BY <1>1, <1>2, <1>4, <2>1, <2>3 DEF Rows, Serial, RowOf
<1>8. TasksNamed'
  BY <1>1, <1>4 DEF Rows, TasksNamed, RowOf, LunTypeOK, Slot
<1> QED
  BY <1>5, <1>6, <1>7, <1>8 DEF Rows

\* The commit of a new row, under an id nobody holds.
LEMMA CreateCommitKeeps ==
    ASSUME Rows, LunTypeOK', AssignsNode', NEW r \in Slots, CreateLunCommits(r)
    PROVE  Rows'
<1> USE DEF CreatePcs, DeletePcs, AssignPcs, UnassignPcs, RequestPcs, TaskPcs
<1>1. CASE ~NameFree(slot[r].name)
  BY <1>1, LunEndKeeps DEF CreateLunCommits
<1>2. CASE NameFree(slot[r].name)
  <2>1. PICK l \in LunIds :
          /\ Unused(l)
          /\ lun' = [lun EXCEPT ![l] = [exists |-> TRUE, name |-> slot[r].name,
                                        number |-> slot[r].number, status |-> "creating",
                                        node |-> NoLunNode]]
          /\ slot' = [slot EXCEPT ![r].pc = "target", ![r].lun = l]
    BY <1>2 DEF CreateLunCommits
  <2>2. lun \in [LunIds -> LunRow] /\ slot \in [Slots -> Slot]
    BY DEF Rows, LunTypeOK
  <2>3. /\ \A m \in LunIds : m # l => lun'[m] = lun[m]
        /\ lun'[l].exists /\ lun'[l].name = slot[r].name /\ lun'[l].number = slot[r].number
        /\ lun'[l].status = "creating" /\ lun'[l].node = NoLunNode
    BY <2>1, <2>2
  <2>4. /\ \A s \in Slots : s # r => slot'[s] = slot[s]
        /\ slot'[r].pc = "target" /\ slot'[r].lun = l
        /\ slot'[r].name = slot[r].name /\ slot'[r].number = slot[r].number
    BY <2>1, <2>2 DEF Slot
  <2>5. past' = past /\ slot[r].pc = "create"
    BY DEF CreateLunCommits
  <2>6. /\ ~lun[l].exists
        /\ \A s \in Slots : slot[s].pc \notin {"idle", "create"} => slot[s].lun # l
    BY <2>1 DEF Unused
  <2>7. NamesUnique'
    BY <1>2, <2>3, <2>6 DEF Rows, NamesUnique, NameFree, Luns
  <2>8. Worked'
    <3>1. \A s \in Slots : slot[s].pc \in TaskPcs => slot'[s] = slot[s]
      BY <2>4, <2>5
    <3> QED
      BY <2>3, <2>4, <2>5, <3>1 DEF Rows, Worked
  <2>9. Serial'
    <3> SUFFICES ASSUME "overlap" \notin past
                 PROVE  Serial'
      BY <2>5 DEF Serial
    <3>1. \A s \in Slots : slot[s].pc \in RequestPcs => s = r
      BY <2>5 DEF Rows, Serial
    <3>2. \A s \in Slots : HoldsRow(s)'
      <4> SUFFICES ASSUME NEW s \in Slots
                   PROVE  HoldsRow(s)'
        OBVIOUS
      <4>1. CASE s = r
        BY <2>3, <2>4, <4>1 DEF HoldsRow, RowOf
      <4>2. CASE s # r
        <5>1. slot'[s] = slot[s] /\ slot[s].pc \notin RequestPcs /\ HoldsRow(s)
          BY <2>4, <3>1, <4>2 DEF Rows, Serial
        <5>2. slot[s].pc \in TaskPcs => lun'[slot[s].lun] = lun[slot[s].lun]
          BY <2>2, <2>3, <2>6 DEF Slot
        <5> QED
          BY <5>1, <5>2 DEF HoldsRow, RowOf
      <4> QED
        BY <4>1, <4>2
    <3>3. \A m \in LunIds : lun[m].exists => lun[m].number < slot[r].number
      BY <2>5 DEF Rows, Serial, HoldsRow
    <3>4. \A m \in LunIds : lun[m].number \in Nat
      BY <2>2 DEF LunRow, LunNumbers
    <3>5. \A m, k \in LunIds :
            lun'[m].exists /\ lun'[k].exists /\ lun'[m].number = lun'[k].number => m = k
      <4>1. \A m \in LunIds : m # l /\ lun'[m].exists => lun'[m].number # lun'[l].number
        BY <2>3, <3>3, <3>4
      <4> QED
        BY <2>3, <4>1 DEF Rows, Serial
    <3>6. \A m \in LunIds : lun'[m].exists /\ lun'[m].node # NoLunNode => lun'[m].status \in Usable
      BY <2>3 DEF Rows, Serial
    <3>7. \A s, t \in Slots : slot'[s].pc \in RequestPcs /\ slot'[t].pc \in RequestPcs => s = t
      BY <2>4, <3>1
    <3>8. \A s, t \in Slots :
            slot'[s].pc \in TaskPcs /\ slot'[t].pc \in TaskPcs /\ slot'[s].lun = slot'[t].lun => s = t
      BY <2>4, <2>6 DEF Rows, Serial
    <3> QED
      BY <3>2, <3>5, <3>6, <3>7, <3>8 DEF Serial
  <2>10. TasksNamed'
    <3>1. \A s \in Slots : s # r /\ slot[s].pc \in TaskPcs => lun'[slot[s].lun] = lun[slot[s].lun]
      BY <2>2, <2>3, <2>6 DEF Slot
    <3> QED
      BY <2>3, <2>4, <2>5, <3>1 DEF Rows, TasksNamed, RowOf
  <2> QED
    BY <2>7, <2>8, <2>9, <2>10 DEF Rows
<1> QED
  BY <1>1, <1>2

\* A rename changes the name of a row, to one that is free.
LEMMA RenameKeeps ==
    ASSUME Rows, LunTypeOK', AssignsNode', NEW r \in Slots, RenameCommits(r)
    PROVE  Rows'
<1> USE DEF CreatePcs, DeletePcs, AssignPcs, UnassignPcs, RequestPcs, TaskPcs
<1>1. /\ \A s \in Slots : s # r => slot'[s] = slot[s]
      /\ slot'[r].pc = "idle" /\ slot[r].pc = "rename"
  BY GivesUp DEF Rows, RenameCommits
<1>2. slot[r].lun \in LunIds /\ RowOf(r) \in LunRow /\ slot[r].name \in LunNames
  BY DEF Rows, LunTypeOK, Slot, RowOf
<1>3. [RowOf(r) EXCEPT !.name = slot[r].name] \in LunRow
  BY <1>2 DEF LunRow
<1>4. /\ \A l \in LunIds : /\ lun'[l].exists = lun[l].exists /\ lun'[l].status = lun[l].status
                           /\ lun'[l].number = lun[l].number /\ lun'[l].node = lun[l].node
      /\ \A l \in LunIds : lun'[l].name # lun[l].name =>
            l = slot[r].lun /\ lun'[l].name = slot[r].name /\ NameFree(slot[r].name)
  <2>1. CASE NameFree(slot[r].name)
    <3>1. Writes(r, [RowOf(r) EXCEPT !.name = slot[r].name])
      BY <2>1 DEF RenameCommits, RowOf
    <3> QED
      BY <1>2, <1>3, <2>1, <3>1, WritesOne DEF Rows, LunRow, RowOf
  <2>2. CASE ~NameFree(slot[r].name)
    BY <2>2 DEF RenameCommits
  <2> QED
    BY <2>1, <2>2
<1>5. NamesUnique'
  BY <1>4 DEF Rows, NamesUnique, NameFree, Luns
<1>6. past' = past \union {"rename"}
  BY DEF RenameCommits
<1>7. Worked'
  <2>1. \A s \in Slots : slot[s].pc \in TaskPcs => slot'[s] = slot[s]
    BY <1>1
  <2> QED
    BY <1>4, <1>6, <2>1 DEF Rows, Worked
<1>8. Serial'
  <2> SUFFICES ASSUME "overlap" \notin past
               PROVE  Serial'
    BY <1>6 DEF Serial
  <2>1. \A s \in Slots : HoldsRow(s)'
    BY <1>1, <1>4 DEF Rows, Serial, HoldsRow, RowOf, LunTypeOK, Slot
  <2> QED
    BY <1>1, <1>4, <2>1 DEF Rows, Serial
<1>9. TasksNamed'
  BY <1>6 DEF TasksNamed
<1> QED
  BY <1>5, <1>7, <1>8, <1>9 DEF Rows

\* The commit of a deletion: the row is "deleting", and a task is at work on it.
LEMMA DeleteCommitKeeps ==
    ASSUME Rows, LunTypeOK', AssignsNode', NEW r \in Slots, DeleteLunCommits(r)
    PROVE  Rows'
<1> USE DEF CreatePcs, DeletePcs, AssignPcs, UnassignPcs, RequestPcs, TaskPcs, Usable
<1>1. slot[r].pc = "delete" /\ past' = past
  BY DEF DeleteLunCommits
<1>2. slot[r].lun \in LunIds /\ RowOf(r) \in LunRow
  BY DEF Rows, LunTypeOK, Slot, RowOf
<1>3. [RowOf(r) EXCEPT !.status = "deleting"] \in LunRow
  BY <1>2 DEF LunRow, LunStatuses
<1>4. Writes(r, [RowOf(r) EXCEPT !.status = "deleting"])
  BY DEF DeleteLunCommits, RowOf
<1>5. CASE ~RowOf(r).exists
  <2>1. SlotEnds(r) /\ lun' = lun
    BY <1>3, <1>4, <1>5, WritesOne DEF DeleteLunCommits, RowOf, Rows
  <2> QED
    BY <1>1, <2>1, LunEndKeeps
<1>6. CASE RowOf(r).exists
  <2>1. SlotGoes(r, "load") /\ "load" \in Pcs
    BY <1>6 DEF DeleteLunCommits, RowOf, Pcs
  <2>2. /\ \A s \in Slots : s # r => slot'[s] = slot[s]
        /\ slot'[r].pc = "load" /\ slot'[r].lun = slot[r].lun
    BY <2>1, GoesOn DEF Rows
  <2>3. /\ \A l \in LunIds : l # slot[r].lun => lun'[l] = lun[l]
        /\ \A l \in LunIds : /\ lun'[l].exists = lun[l].exists /\ lun'[l].name = lun[l].name
                             /\ lun'[l].number = lun[l].number /\ lun'[l].node = lun[l].node
        /\ lun'[slot[r].lun].status = "deleting"
    BY <1>2, <1>3, <1>4, <1>6, WritesOne DEF Rows, LunRow, RowOf
  <2>4. NamesUnique'
    BY <2>3 DEF Rows, NamesUnique
  <2>5. Worked'
    <3>1. \A s \in Slots : slot[s].pc \in TaskPcs => slot'[s] = slot[s]
      BY <1>1, <2>2
    <3> QED
      BY <1>1, <2>2, <2>3, <3>1 DEF Rows, Worked
  <2>6. Serial'
    <3> SUFFICES ASSUME "overlap" \notin past
                 PROVE  Serial'
      BY <1>1 DEF Serial
    <3>1. RowOf(r).status \notin {"creating", "deleting"} /\ RowOf(r).node = NoLunNode
      BY <1>1 DEF Rows, Serial, HoldsRow
    <3>2. \A s \in Slots : slot[s].pc \in RequestPcs => s = r
      BY <1>1 DEF Rows, Serial
    <3>3. \A s \in Slots : slot[s].pc \in TaskPcs => slot[s].lun # slot[r].lun
      BY <3>1 DEF Rows, Serial, HoldsRow, RowOf
    <3>4. \A s \in Slots : HoldsRow(s)'
      <4> SUFFICES ASSUME NEW s \in Slots
                   PROVE  HoldsRow(s)'
        OBVIOUS
      <4>1. CASE s = r
        BY <1>6, <2>2, <2>3, <4>1, <1>2 DEF HoldsRow, RowOf
      <4>2. CASE s # r
        <5>1. slot'[s] = slot[s] /\ slot[s].pc \notin RequestPcs /\ HoldsRow(s)
          BY <2>2, <3>2, <4>2 DEF Rows, Serial
        <5>2. slot[s].pc \in TaskPcs => lun'[slot[s].lun] = lun[slot[s].lun]
          BY <2>3, <3>3 DEF Rows, LunTypeOK, Slot
        <5> QED
          BY <5>1, <5>2 DEF HoldsRow, RowOf
      <4> QED
        BY <4>1, <4>2
    <3>5. \A l \in LunIds : lun'[l].exists /\ lun'[l].node # NoLunNode => lun'[l].status \in Usable
      BY <2>3, <3>1 DEF Rows, Serial, RowOf
    <3>6. \A s, t \in Slots :
            slot'[s].pc \in TaskPcs /\ slot'[t].pc \in TaskPcs /\ slot'[s].lun = slot'[t].lun => s = t
      BY <2>2, <3>3 DEF Rows, Serial
    <3>7. \A s, t \in Slots : slot'[s].pc \in RequestPcs /\ slot'[t].pc \in RequestPcs => s = t
      BY <2>2, <3>2
    <3> QED
      BY <2>3, <3>4, <3>5, <3>6, <3>7 DEF Rows, Serial
  <2>7. TasksNamed'
    BY <1>1, <2>2, <2>3 DEF Rows, TasksNamed, RowOf, LunTypeOK, Slot
  <2> QED
    BY <2>4, <2>5, <2>6, <2>7 DEF Rows
<1> QED
  BY <1>5, <1>6

\* The task of a deletion takes the name and the number from the row.
LEMMA LoadKeeps ==
    ASSUME Rows, LunTypeOK', AssignsNode', NEW r \in Slots, DeleteTaskLoads(r)
    PROVE  Rows'
<1> USE DEF CreatePcs, DeletePcs, AssignPcs, UnassignPcs, RequestPcs, TaskPcs
<1>1. slot[r].pc = "load" /\ past' = past /\ lun' = lun
  BY DEF DeleteTaskLoads
<1>2. CASE ~RowOf(r).exists
  BY <1>1, <1>2, LunEndKeeps DEF DeleteTaskLoads, RowOf
<1>3. CASE RowOf(r).exists
  <2>1. PICK pc \in {"unexport", "deleted"} :
          slot' = [slot EXCEPT ![r].pc = pc, ![r].name = RowOf(r).name, ![r].number = RowOf(r).number]
    BY <1>3 DEF DeleteTaskLoads, RowOf
  <2>2. /\ \A s \in Slots : s # r => slot'[s] = slot[s]
        /\ slot'[r].pc \in {"unexport", "deleted"} /\ slot'[r].lun = slot[r].lun
        /\ slot'[r].name = RowOf(r).name /\ slot'[r].number = RowOf(r).number
    BY <2>1 DEF Rows, LunTypeOK, Slot
  <2>3. NamesUnique'
    BY <1>1 DEF Rows, NamesUnique
  <2>4. Worked'
    BY <1>1, <2>2 DEF Rows, Worked
  <2>5. Serial'
    <3> SUFFICES ASSUME "overlap" \notin past
                 PROVE  Serial'
      BY <1>1 DEF Serial
    <3>1. \A s \in Slots : HoldsRow(s)'
      BY <1>1, <2>2 DEF Rows, Serial, HoldsRow, RowOf
    <3> QED
      BY <1>1, <2>2, <3>1 DEF Rows, Serial
  <2>6. TasksNamed'
    BY <1>1, <2>2 DEF Rows, TasksNamed, RowOf
  <2> QED
    BY <2>3, <2>4, <2>5, <2>6 DEF Rows
<1> QED
  BY <1>2, <1>3

\* The last step of a deletion takes the row away.
LEMMA DeleteRowKeeps ==
    ASSUME Rows, LunTypeOK', AssignsNode', NEW r \in Slots, DeleteRow(r)
    PROVE  Rows'
<1> USE DEF CreatePcs, DeletePcs, AssignPcs, UnassignPcs, RequestPcs, TaskPcs, Usable
<1>1. /\ \A s \in Slots : s # r => slot'[s] = slot[s]
      /\ slot'[r].pc = "idle" /\ slot[r].pc = "deleted" /\ past' = past
  BY GivesUp DEF Rows, DeleteRow
<1>2. slot[r].lun \in LunIds
  BY DEF Rows, LunTypeOK, Slot
<1>3. /\ \A l \in LunIds : l # slot[r].lun => lun'[l] = lun[l]
      /\ ~lun'[slot[r].lun].exists
  BY <1>2, NoValues DEF DeleteRow, Rows, LunTypeOK
<1>4. \A l \in LunIds : lun'[l].exists => l # slot[r].lun /\ lun'[l] = lun[l]
  BY <1>3
<1>5. NamesUnique'
  BY <1>4 DEF Rows, NamesUnique
<1>6. Worked'
  BY <1>1, <1>4 DEF Rows, Worked
<1>7. Serial'
  <2> SUFFICES ASSUME "overlap" \notin past
               PROVE  Serial'
    BY <1>1 DEF Serial
  <2>1. RowOf(r).exists /\ RowOf(r).status = "deleting" /\ RowOf(r).node = NoLunNode
    BY <1>1, <1>2 DEF Rows, Serial, HoldsRow, RowOf
  <2>2. \A s \in Slots : s # r /\ slot[s].pc \in TaskPcs => slot[s].lun # slot[r].lun
    BY <1>1 DEF Rows, Serial
  <2>3. \A s \in Slots : HoldsRow(s)'
    <3> SUFFICES ASSUME NEW s \in Slots, s # r
                 PROVE  HoldsRow(s)'
      BY <1>1 DEF HoldsRow
    <3>1. HoldsRow(s) /\ slot[s].lun \in LunIds
      BY DEF Rows, Serial, LunTypeOK, Slot
    <3>2. slot[s].pc \in TaskPcs \union {"delete"} \union AssignPcs \union UnassignPcs
            => lun'[slot[s].lun] = lun[slot[s].lun]
      BY <1>3, <2>1, <2>2, <3>1 DEF HoldsRow, RowOf
    <3> QED
      BY <1>1, <1>4, <3>1, <3>2 DEF HoldsRow, RowOf
  <2> QED
    BY <1>1, <1>4, <2>3 DEF Rows, Serial
<1>8. TasksNamed'
  <2> SUFFICES ASSUME past \subseteq {"restart"}
               PROVE  TasksNamed'
    BY <1>1 DEF TasksNamed
  <2>1. \A s \in Slots : s # r /\ slot[s].pc \in TaskPcs => slot[s].lun # slot[r].lun
    BY <1>1 DEF Rows, Serial
  <2> QED
    BY <1>1, <1>3, <2>1 DEF Rows, TasksNamed, RowOf, LunTypeOK, Slot
<1> QED
  BY <1>5, <1>6, <1>7, <1>8 DEF Rows

\* What an assignment or its end writes into the row.
LEMMA NodeWritten ==
    ASSUME Rows, NEW r \in Slots, AssignCommits(r) \/ UnassignCommits(r)
    PROVE  /\ slot[r].pc \in {"assign", "unassign"} /\ past' = past /\ SlotEnds(r)
           /\ \A l \in LunIds : l # slot[r].lun => lun'[l] = lun[l]
           /\ \A l \in LunIds : /\ lun'[l].exists = lun[l].exists /\ lun'[l].name = lun[l].name
                                /\ lun'[l].number = lun[l].number
                                /\ lun'[l].status \in {lun[l].status} \union Usable
           /\ RowOf(r).exists =>
                lun'[slot[r].lun].node = IF slot[r].pc = "assign" THEN slot[r].node ELSE NoLunNode
<1>1. slot[r].lun \in LunIds /\ RowOf(r) \in LunRow /\ slot[r].node \in LunNodes \union {NoLunNode}
  BY DEF Rows, LunTypeOK, Slot, RowOf
<1>2. PICK n \in LunNodes \union {NoLunNode}, status \in {RowOf(r).status} \union Usable :
        /\ Writes(r, [RowOf(r) EXCEPT !.node = n, !.status = status])
        /\ n = IF slot[r].pc = "assign" THEN slot[r].node ELSE NoLunNode
  <2>1. CASE AssignCommits(r)
    BY <1>1, <2>1, ZenonT(40) DEF AssignCommits, RowOf, Usable
  <2>2. CASE UnassignCommits(r)
    BY <1>1, <2>2, ZenonT(40) DEF UnassignCommits, RowOf, Usable
  <2> QED
    BY <2>1, <2>2
<1>3. [RowOf(r) EXCEPT !.node = n, !.status = status] \in LunRow
  BY <1>1 DEF LunRow, LunStatuses, Usable
<1>4. /\ \A l \in LunIds : l # slot[r].lun => lun'[l] = lun[l]
      /\ ~RowOf(r).exists => lun' = lun
      /\ RowOf(r).exists => lun'[slot[r].lun] = [RowOf(r) EXCEPT !.node = n, !.status = status]
  BY <1>2, <1>3, WritesOne DEF Rows
<1>5. slot[r].pc \in {"assign", "unassign"} /\ past' = past /\ SlotEnds(r)
  BY DEF AssignCommits, UnassignCommits
<1>6. CASE ~RowOf(r).exists
  BY <1>4, <1>5, <1>6
<1>7. CASE RowOf(r).exists
  <2>1. PICK row : row = [RowOf(r) EXCEPT !.node = n, !.status = status]
    OBVIOUS
  <2>2. /\ row.exists = RowOf(r).exists /\ row.name = RowOf(r).name /\ row.number = RowOf(r).number
        /\ row.node = n /\ row.status = status
    BY <1>1, <2>1 DEF LunRow
  <2>3. lun'[slot[r].lun] = row
    BY <1>4, <1>7, <2>1
  <2>4. \A l \in LunIds : /\ lun'[l].exists = lun[l].exists /\ lun'[l].name = lun[l].name
                          /\ lun'[l].number = lun[l].number
                          /\ lun'[l].status \in {lun[l].status} \union Usable
    <3> SUFFICES ASSUME NEW l \in LunIds
                 PROVE  /\ lun'[l].exists = lun[l].exists /\ lun'[l].name = lun[l].name
                        /\ lun'[l].number = lun[l].number
                        /\ lun'[l].status \in {lun[l].status} \union Usable
      OBVIOUS
    <3>1. CASE l = slot[r].lun
      BY <1>2, <2>2, <2>3, <3>1 DEF RowOf
    <3>2. CASE l # slot[r].lun
      BY <1>4, <3>2
    <3> QED
      BY <3>1, <3>2
  <2> QED
    BY <1>2, <1>4, <1>5, <2>2, <2>3, <2>4
<1> QED
  BY <1>6, <1>7

\* The row written has its type.
LEMMA NodeWrittenType ==
    ASSUME Rows, NEW r \in Slots, AssignCommits(r) \/ UnassignCommits(r)
    PROVE  lun' \in [LunIds -> LunRow]
<1>1. RowOf(r) \in LunRow /\ slot[r].node \in LunNodes \union {NoLunNode}
  BY DEF Rows, LunTypeOK, Slot, RowOf
<1>2. PICK n \in LunNodes \union {NoLunNode}, status \in {RowOf(r).status} \union Usable :
        Writes(r, [RowOf(r) EXCEPT !.node = n, !.status = status])
  BY <1>1 DEF AssignCommits, UnassignCommits, RowOf, Usable
<1>3. [RowOf(r) EXCEPT !.node = n, !.status = status] \in LunRow
  BY <1>1 DEF LunRow, LunStatuses, Usable
<1> QED
  BY <1>2, <1>3, WritesOne DEF Rows

\* The LUN stays in use, with its node or without.
LEMMA NodeWrittenKeeps ==
    ASSUME Rows, LunTypeOK', AssignsNode', NEW r \in Slots, AssignCommits(r) \/ UnassignCommits(r)
    PROVE  Rows'
<1> USE DEF CreatePcs, DeletePcs, AssignPcs, UnassignPcs, RequestPcs, TaskPcs
<1>1. /\ slot[r].pc \in {"assign", "unassign"} /\ past' = past
      /\ \A l \in LunIds : l # slot[r].lun => lun'[l] = lun[l]
      /\ \A l \in LunIds : /\ lun'[l].exists = lun[l].exists /\ lun'[l].name = lun[l].name
                           /\ lun'[l].number = lun[l].number
                           /\ lun'[l].status \in {lun[l].status} \union Usable
  BY NodeWritten
<1>2. /\ \A s \in Slots : s # r => slot'[s] = slot[s]
      /\ slot'[r].pc = "idle"
  BY NodeWritten, GivesUp DEF Rows
<1>3. NamesUnique'
  BY <1>1 DEF Rows, NamesUnique
<1>4. Worked'
  <2>1. \A s \in Slots : slot[s].pc \in TaskPcs => slot'[s] = slot[s]
    BY <1>1, <1>2
  <2>2. \A l \in LunIds : lun'[l].status \in {"creating", "deleting"} => lun'[l].status = lun[l].status
    BY <1>1 DEF Usable
  <2> QED
    BY <1>1, <2>1, <2>2 DEF Rows, Worked
<1>5. Serial'
  <2> SUFFICES ASSUME "overlap" \notin past
               PROVE  Serial'
    BY <1>1 DEF Serial
  <2>1. slot[r].lun \in LunIds /\ RowOf(r).status \in Usable
    BY <1>1 DEF Rows, Serial, HoldsRow, RowOf, LunTypeOK, Slot
  <2>2. \A s \in Slots : slot[s].pc \in RequestPcs => s = r
    BY <1>1 DEF Rows, Serial
  <2>3. \A s \in Slots : slot[s].pc \in TaskPcs => slot[s].lun # slot[r].lun
    BY <2>1 DEF Rows, Serial, HoldsRow, RowOf, Usable
  <2>4. \A s \in Slots : HoldsRow(s)'
    <3> SUFFICES ASSUME NEW s \in Slots, s # r
                 PROVE  HoldsRow(s)'
      BY <1>2 DEF HoldsRow
    <3>1. slot'[s] = slot[s] /\ slot[s].pc \notin RequestPcs /\ HoldsRow(s)
      BY <1>2, <2>2 DEF Rows, Serial
    <3>2. slot[s].pc \in TaskPcs => lun'[slot[s].lun] = lun[slot[s].lun]
      BY <1>1, <2>3 DEF Rows, LunTypeOK, Slot
    <3> QED
      BY <3>1, <3>2 DEF HoldsRow, RowOf
  <2>5. \A l \in LunIds : lun'[l].exists /\ lun'[l].node # NoLunNode => lun'[l].status \in Usable
    BY <1>1, <2>1 DEF Rows, Serial, RowOf
  <2> QED
    BY <1>1, <1>2, <2>4, <2>5 DEF Rows, Serial
<1>6. TasksNamed'
  <2>1. \A s \in Slots : slot[s].lun \in LunIds
    BY DEF Rows, LunTypeOK, Slot
  <2>2. \A s \in Slots : slot[s].pc \in TaskPcs =>
          slot'[s] = slot[s] /\ RowOf(s)'.name = RowOf(s).name /\ RowOf(s)'.number = RowOf(s).number
    BY <1>1, <1>2, <2>1 DEF RowOf
  <2>3. \A s \in Slots : slot'[s].pc \in TaskPcs => slot[s].pc \in TaskPcs
    BY <1>2
  <2> QED
    BY <1>1, <2>2, <2>3 DEF Rows, TasksNamed
<1> QED
  BY <1>3, <1>4, <1>5, <1>6 DEF Rows

\* After a restart nothing is at work on any LUN.
LEMMA RestartKeepsRows ==
    ASSUME Rows, LunTypeOK', AssignsNode', RestartLuns
    PROVE  Rows'
<1>1. /\ \A s \in Slots : slot'[s].pc = "idle"
      /\ lun' = lun /\ past' = past \union {"restart"}
  BY NoValues DEF RestartLuns
<1>2. NamesUnique' /\ Worked'
  BY <1>1 DEF Rows, NamesUnique, Worked
<1>3. Serial' /\ TasksNamed'
  BY <1>1 DEF Rows, Serial, TasksNamed, HoldsRow, RequestPcs, TaskPcs, CreatePcs, DeletePcs,
              AssignPcs, UnassignPcs
<1> QED
  BY <1>2, <1>3 DEF Rows

-----------------------------------------------------------------------------
(* The target                                                               *)

\* A step that changes nothing of the target, and makes no LUN usable.
LEMMA TargetLeft ==
    ASSUME Exported, UNCHANGED <<stores, exports>>, past' \subseteq {"restart"} => past \subseteq {"restart"},
           \A s \in Slots : slot'[s].pc = "created" => slot'[s] = slot[s],
           past \subseteq {"restart"} =>
             \A l \in LunIds : lun'[l].exists /\ lun'[l].status \in Usable =>
                 /\ lun[l].exists /\ lun[l].status \in Usable
                 /\ lun'[l].name = lun[l].name /\ lun'[l].number = lun[l].number
    PROVE  Exported'
<1> SUFFICES ASSUME past' \subseteq {"restart"}
             PROVE  Exported'
  BY DEF Exported, CreatedIsExported, ReadyIsExported
<1>1. CreatedIsExported'
  BY DEF Exported, CreatedIsExported
<1>2. ReadyIsExported'
  BY DEF Exported, ReadyIsExported, Luns, Usable
<1> QED
  BY <1>1, <1>2 DEF Exported

\* What a task takes away of the target is not what a usable LUN, or one about
\* to be, stands on.
LEMMA OthersApart ==
    ASSUME Rows, past \subseteq {"restart"}, NEW r \in Slots,
           slot[r].pc \in CreatePcs \union {"unexport", "unstore", "deleted"}
    PROVE  /\ \A l \in LunIds : lun[l].exists /\ lun[l].status \in Usable =>
                 lun[l].name # slot[r].name /\ lun[l].number # slot[r].number
           /\ \A s \in Slots : s # r /\ slot[s].pc \in CreatePcs =>
                 slot[s].name # slot[r].name /\ slot[s].number # slot[r].number
<1> USE DEF CreatePcs, DeletePcs, TaskPcs, Usable
<1>1. \A s \in Slots : slot[s].lun \in LunIds
  BY DEF Rows, LunTypeOK, Slot
<1>2. \A s \in Slots : HoldsRow(s)
  BY DEF Rows, Serial
<1>3. \A s \in Slots : slot[s].pc \in CreatePcs \union {"unexport", "unstore", "deleted"} =>
        /\ slot[s].name = RowOf(s).name /\ slot[s].number = RowOf(s).number
        /\ RowOf(s).exists /\ RowOf(s).status \in {"creating", "deleting"}
  BY <1>2 DEF Rows, TasksNamed, HoldsRow
<1>4. \A l, m \in LunIds : lun[l].exists /\ lun[m].exists /\ l # m =>
        lun[l].name # lun[m].name /\ lun[l].number # lun[m].number
  BY DEF Rows, NamesUnique, Serial
<1>5. \A s \in Slots : s # r /\ slot[s].pc \in CreatePcs => slot[s].lun # slot[r].lun
  BY DEF Rows, Serial
<1> QED
  BY <1>1, <1>3, <1>4, <1>5 DEF RowOf

\* A command that takes away a store, or fails.
LEMMA DeletesStoreKeeps ==
    ASSUME Rows, Exported, NEW r \in Slots, DeletesStore(slot[r].name),
           slot[r].pc \in {"cleanup", "unstore"},
           \A s \in Slots : s # r => slot'[s] = slot[s], slot'[r].pc # "created",
           UNCHANGED past,
           \A l \in LunIds : lun'[l].exists /\ lun'[l].status \in Usable => lun'[l] = lun[l]
    PROVE  Exported'
<1> SUFFICES ASSUME past \subseteq {"restart"}
             PROVE  Exported'
  BY DEF Exported, CreatedIsExported, ReadyIsExported
<1>1. slot[r].pc \in CreatePcs \union {"unexport", "unstore", "deleted"}
  BY DEF CreatePcs
<1>2. /\ \A l \in LunIds : lun[l].exists /\ lun[l].status \in Usable => lun[l].name # slot[r].name
      /\ \A s \in Slots : s # r /\ slot[s].pc = "created" => slot[s].name # slot[r].name
  BY <1>1, OthersApart DEF CreatePcs
<1>3. /\ \A l \in LunIds : lun[l].exists /\ lun[l].status \in Usable =>
            exports[lun[l].number] = lun[l].name /\ lun[l].name \in stores
      /\ \A s \in Slots : slot[s].pc = "created" =>
            exports[slot[s].number] = slot[s].name /\ slot[s].name \in stores
  BY DEF Exported, ReadyIsExported, CreatedIsExported, Luns, Usable
<1>4. /\ \A l \in LunIds : lun[l].number \in LunNumbers
      /\ \A s \in Slots : slot[s].number \in LunNumbers
  BY DEF Rows, LunTypeOK, LunRow, Slot
<1>5. /\ \A k \in LunNumbers : exports[k] # slot[r].name => exports'[k] = exports[k]
      /\ \A name \in stores : name # slot[r].name => name \in stores'
  BY DEF DeletesStore
<1>6. ReadyIsExported'
  BY <1>2, <1>3, <1>4, <1>5 DEF ReadyIsExported, Luns, Usable
<1>7. CreatedIsExported'
  BY <1>2, <1>3, <1>4, <1>5 DEF CreatedIsExported
<1> QED
  BY <1>6, <1>7 DEF Exported

\* The target gets a LUN under a free number.
LEMMA ExportKeeps ==
    ASSUME Rows, Exported, NEW r \in Slots, ExportLun(r)
    PROVE  Exported'
<1>1. PICK pc \in {"created", "cleanup"} :
        /\ SlotGoes(r, pc) /\ pc \in Pcs
        /\ \/ exports' = exports /\ pc # "created"
           \/ /\ exports' = [exports EXCEPT ![slot[r].number] = slot[r].name]
              /\ exports[slot[r].number] = NoLunName /\ slot[r].name \in stores
  BY DEF ExportLun, Pcs, TaskPcs
<1>2. slot[r].pc = "export" /\ lun' = lun /\ stores' = stores /\ past' = past
  BY DEF ExportLun
<1>3. /\ \A s \in Slots : s # r => slot'[s] = slot[s]
      /\ slot'[r].pc = pc /\ slot'[r].name = slot[r].name /\ slot'[r].number = slot[r].number
  BY <1>1, GoesOn DEF Rows
<1>4. exports \in [LunNumbers -> LunNames \union {NoLunName}] /\ slot[r].number \in LunNumbers
  BY DEF Rows, LunTypeOK, Slot
<1>5. \A k \in LunNumbers : exports[k] # NoLunName => exports'[k] = exports[k]
  BY <1>1, <1>4
<1> SUFFICES ASSUME past \subseteq {"restart"}
             PROVE  Exported'
  BY <1>2 DEF Exported, CreatedIsExported, ReadyIsExported
<1>6. ReadyIsExported'
  <2>1. \A l \in LunIds : lun[l].number \in LunNumbers /\ lun[l].name # NoLunName
    BY IscsiLunsAssumption DEF Rows, LunTypeOK, LunRow
  <2> QED
    BY <1>2, <1>5, <2>1 DEF Exported, ReadyIsExported, Luns
<1>7. CreatedIsExported'
  <2>1. \A s \in Slots : slot[s].number \in LunNumbers /\ slot[s].name # NoLunName
    BY IscsiLunsAssumption DEF Rows, LunTypeOK, Slot
  <2>2. slot'[r].pc = "created" =>
          exports'[slot[r].number] = slot[r].name /\ slot[r].name \in stores
    BY <1>1, <1>3, <1>4
  <2> QED
    BY <1>2, <1>3, <1>5, <2>1, <2>2 DEF Exported, CreatedIsExported
<1> QED
  BY <1>6, <1>7 DEF Exported

\* The target loses the LUN under the number of a row that is going.
LEMMA UnexportKeeps ==
    ASSUME Rows, Exported, NEW r \in Slots, UnexportLun(r)
    PROVE  Exported'
<1>1. /\ slot[r].pc = "unexport" /\ lun' = lun /\ stores' = stores /\ past' = past
      /\ SlotGoes(r, "unstore") /\ "unstore" \in Pcs
      /\ exports' \in {exports, [exports EXCEPT ![slot[r].number] = NoLunName]}
  BY DEF UnexportLun, Pcs, TaskPcs
<1>2. /\ \A s \in Slots : s # r => slot'[s] = slot[s]
      /\ slot'[r].pc = "unstore"
  BY <1>1, GoesOn DEF Rows
<1>3. \A k \in LunNumbers : k # slot[r].number => exports'[k] = exports[k]
  BY <1>1 DEF Rows, LunTypeOK
<1> SUFFICES ASSUME past \subseteq {"restart"}
             PROVE  Exported'
  BY <1>1 DEF Exported, CreatedIsExported, ReadyIsExported
<1>4. slot[r].pc \in CreatePcs \union {"unexport", "unstore", "deleted"}
  BY <1>1
<1>5. /\ \A l \in LunIds : lun[l].exists /\ lun[l].status \in Usable => lun[l].number # slot[r].number
      /\ \A s \in Slots : s # r /\ slot[s].pc = "created" => slot[s].number # slot[r].number
  BY <1>4, OthersApart DEF CreatePcs
<1>6. /\ \A l \in LunIds : lun[l].number \in LunNumbers
      /\ \A s \in Slots : slot[s].number \in LunNumbers
  BY DEF Rows, LunTypeOK, LunRow, Slot
<1>7. ReadyIsExported'
  BY <1>1, <1>3, <1>5, <1>6 DEF Exported, ReadyIsExported, Luns, Usable
<1>8. CreatedIsExported'
  BY <1>1, <1>2, <1>3, <1>5, <1>6 DEF Exported, CreatedIsExported
<1> QED
  BY <1>7, <1>8 DEF Exported

\* A LUN becomes ready after its export.
LEMMA ReadyKeeps ==
    ASSUME Rows, Exported, NEW r \in Slots, CreateTaskReady(r)
    PROVE  Exported'
<1>1. /\ slot[r].pc = "created" /\ stores' = stores /\ exports' = exports /\ past' = past
      /\ SlotEnds(r) /\ Writes(r, [RowOf(r) EXCEPT !.status = "ready"])
  BY DEF CreateTaskReady, RowOf
<1>2. /\ \A s \in Slots : s # r => slot'[s] = slot[s]
      /\ slot'[r].pc = "idle"
  BY <1>1, GivesUp DEF Rows
<1>3. slot[r].lun \in LunIds /\ RowOf(r) \in LunRow
  BY DEF Rows, LunTypeOK, Slot, RowOf
<1>4. [RowOf(r) EXCEPT !.status = "ready"] \in LunRow
  BY <1>3 DEF LunRow, LunStatuses
<1>5. /\ \A l \in LunIds : l # slot[r].lun => lun'[l] = lun[l]
      /\ \A l \in LunIds : /\ lun'[l].exists = lun[l].exists /\ lun'[l].name = lun[l].name
                           /\ lun'[l].number = lun[l].number
  BY <1>1, <1>3, <1>4, WritesOne DEF Rows, LunRow, RowOf
<1> SUFFICES ASSUME past \subseteq {"restart"}
             PROVE  Exported'
  BY <1>1 DEF Exported, CreatedIsExported, ReadyIsExported
<1>6. /\ slot[r].name = lun[slot[r].lun].name /\ slot[r].number = lun[slot[r].lun].number
      /\ exports[slot[r].number] = slot[r].name /\ slot[r].name \in stores
  BY <1>1 DEF Rows, TasksNamed, RowOf, CreatePcs, Exported, CreatedIsExported
<1>7. ReadyIsExported'
  BY <1>1, <1>5, <1>6 DEF Exported, ReadyIsExported, Luns
<1>8. CreatedIsExported'
  BY <1>1, <1>2 DEF Exported, CreatedIsExported
<1> QED
  BY <1>7, <1>8 DEF Exported

-----------------------------------------------------------------------------
(* ACLs                                                                     *)

\* A step that has nothing to do with assignments.
LEMMA AclsLeft ==
    ASSUME Assigned, UNCHANGED acls, past' \subseteq {"rename"} => past \subseteq {"rename"},
           \A s \in Slots : slot'[s].pc \in {"chap", "assign"} =>
               slot[s].pc \in {"chap", "assign"} /\ slot'[s].node = slot[s].node,
           \A s \in Slots : slot[s].pc = "unassign" => slot'[s] = slot[s],
           \A l \in LunIds : lun'[l].exists /\ lun'[l].node # NoLunNode =>
               lun[l].exists /\ lun'[l].node = lun[l].node,
           \A s \in Slots : slot[s].pc \in {"chap", "assign"} => slot[s].node # NoLunNode
    PROVE  Assigned'
<1> SUFFICES ASSUME past' \subseteq {"rename"}
             PROVE  Assigned'
  BY DEF Assigned, AclIsForOne, AssignedHasAcl
<1>1. AclIsForOne'
  BY DEF Assigned, AclIsForOne
<1>2. AssignedHasAcl'
  BY DEF Assigned, AssignedHasAcl, Luns
<1> QED
  BY <1>1, <1>2 DEF Assigned

\* Flat form of AssignedHasAcl, where requests are serial.
LEMMA AclFacts ==
    ASSUME Rows, Assigned, past \subseteq {"rename"}, NEW r \in Slots, slot[r].pc \in RequestPcs
    PROVE  /\ \A s \in Slots : slot[s].pc \in RequestPcs => s = r
           /\ HoldsRow(r) /\ slot[r].lun \in LunIds
           /\ slot[r].pc \in AssignPcs => slot[r].node \in LunNodes /\ slot[r].node # NoLunNode
           /\ slot[r].pc \in {"chap", "assign"} =>
                 /\ slot[r].node \in acls
                 /\ \A l \in LunIds : lun[l].exists => lun[l].node # slot[r].node
           /\ \A l \in LunIds : lun[l].exists /\ lun[l].node # NoLunNode =>
                 /\ lun[l].node \in acls \/ (slot[r].pc = "unassign" /\ slot[r].lun = l)
                 /\ \A m \in LunIds : lun[m].exists /\ lun[m].node = lun[l].node => m = l
<1>1. \A s \in Slots : slot[s].pc \in RequestPcs => s = r
  BY DEF Rows, Serial
<1>2. HoldsRow(r) /\ slot[r].lun \in LunIds
  BY DEF Rows, Serial, LunTypeOK, Slot
<1>3. slot[r].pc \in AssignPcs => slot[r].node \in LunNodes /\ slot[r].node # NoLunNode
  BY IscsiLunsAssumption DEF Rows, AssignsNode
<1>4. \A l \in LunIds : lun[l].exists /\ lun[l].node # NoLunNode =>
        /\ lun[l].node \in acls \/ (slot[r].pc = "unassign" /\ slot[r].lun = l)
        /\ \A m \in LunIds : lun[m].exists /\ lun[m].node = lun[l].node => m = l
  BY <1>1 DEF Assigned, AssignedHasAcl, Luns, RequestPcs
<1> QED
  BY <1>1, <1>2, <1>3, <1>4 DEF Assigned, AclIsForOne

\* The ACL is there for the one LUN that is being assigned.
LEMMA CreateAclKeeps ==
    ASSUME Rows, Assigned, NEW r \in Slots, CreateAcl(r)
    PROVE  Assigned'
<1> USE DEF RequestPcs, AssignPcs
<1>1. slot[r].pc = "acl" /\ lun' = lun /\ past' = past
  BY DEF CreateAcl
<1> SUFFICES ASSUME past \subseteq {"rename"}
             PROVE  Assigned'
  BY <1>1 DEF Assigned, AclIsForOne, AssignedHasAcl
<1>2. /\ \A s \in Slots : slot[s].pc \in RequestPcs => s = r
      /\ slot[r].node # NoLunNode
      /\ \A l \in LunIds : lun[l].exists /\ lun[l].node # NoLunNode =>
            /\ lun[l].node \in acls
            /\ \A m \in LunIds : lun[m].exists /\ lun[m].node = lun[l].node => m = l
  BY <1>1, AclFacts
<1>3. acls \subseteq acls' /\ \A s \in Slots : s # r => slot'[s] = slot[s]
  BY GivesUp, GoesOn DEF CreateAcl, Rows, Pcs
<1>4. \/ /\ slot'[r].pc = "chap" /\ slot'[r].node = slot[r].node
         /\ slot[r].node \notin acls /\ slot[r].node \in acls'
      \/ slot'[r].pc = "idle"
  <2>1. CASE slot[r].node \notin acls /\ acls' = acls \union {slot[r].node} /\ SlotGoes(r, "chap")
    BY <2>1, GoesOn DEF Rows, Pcs
  <2>2. CASE SlotEnds(r)
    BY <2>2, GivesUp DEF Rows
  <2> QED
    BY <2>1, <2>2 DEF CreateAcl
<1>5. AclIsForOne'
  BY <1>1, <1>2, <1>3, <1>4 DEF AclIsForOne
<1>6. AssignedHasAcl'
  BY <1>1, <1>2, <1>3 DEF AssignedHasAcl, Luns
<1> QED
  BY <1>5, <1>6 DEF Assigned

\* When the secret cannot be set the ACL goes; no LUN is assigned to its node.
LEMMA SetChapKeeps ==
    ASSUME Rows, Assigned, NEW r \in Slots, SetChap(r)
    PROVE  Assigned'
<1> USE DEF RequestPcs, AssignPcs
<1>1. slot[r].pc = "chap" /\ lun' = lun /\ past' = past
  BY DEF SetChap
<1> SUFFICES ASSUME past \subseteq {"rename"}
             PROVE  Assigned'
  BY <1>1 DEF Assigned, AclIsForOne, AssignedHasAcl
<1>2. /\ \A s \in Slots : slot[s].pc \in RequestPcs => s = r
      /\ slot[r].node \in acls
      /\ \A l \in LunIds : lun[l].exists => lun[l].node # slot[r].node
      /\ \A l \in LunIds : lun[l].exists /\ lun[l].node # NoLunNode =>
            /\ lun[l].node \in acls
            /\ \A m \in LunIds : lun[m].exists /\ lun[m].node = lun[l].node => m = l
  BY <1>1, AclFacts
<1>3. acls \ {slot[r].node} \subseteq acls' /\ \A s \in Slots : s # r => slot'[s] = slot[s]
  BY GivesUp, GoesOn DEF SetChap, Rows, Pcs
<1>4. \/ slot'[r].pc = "assign" /\ slot'[r].node = slot[r].node /\ acls' = acls
      \/ slot'[r].pc = "idle"
  <2>1. CASE SlotGoes(r, "assign") /\ UNCHANGED acls
    BY <2>1, GoesOn DEF Rows, Pcs
  <2>2. CASE SlotEnds(r)
    BY <2>2, GivesUp DEF Rows
  <2> QED
    BY <2>1, <2>2 DEF SetChap
<1>5. AclIsForOne'
  BY <1>1, <1>2, <1>3, <1>4 DEF AclIsForOne
<1>6. AssignedHasAcl'
  BY <1>1, <1>2, <1>3 DEF AssignedHasAcl, Luns
<1> QED
  BY <1>5, <1>6 DEF Assigned

\* The ACL of the LUN that is being given up goes, and no other.
LEMMA DeleteAclKeeps ==
    ASSUME Rows, Assigned, NEW r \in Slots, DeleteAcl(r)
    PROVE  Assigned'
<1> USE DEF RequestPcs, UnassignPcs
<1>1. slot[r].pc = "unacl" /\ lun' = lun /\ past' = past
  BY DEF DeleteAcl
<1> SUFFICES ASSUME past \subseteq {"rename"}
             PROVE  Assigned'
  BY <1>1 DEF Assigned, AclIsForOne, AssignedHasAcl
<1>2. /\ \A s \in Slots : slot[s].pc \in RequestPcs => s = r
      /\ slot[r].lun \in LunIds /\ RowOf(r).exists /\ RowOf(r).node = slot[r].node
      /\ slot[r].node # NoLunNode
      /\ \A l \in LunIds : lun[l].exists /\ lun[l].node # NoLunNode =>
            /\ lun[l].node \in acls
            /\ \A m \in LunIds : lun[m].exists /\ lun[m].node = lun[l].node => m = l
  BY <1>1, AclFacts DEF HoldsRow
<1>3. /\ acls \ {slot[r].node} \subseteq acls' /\ SlotGoes(r, "unassign") /\ "unassign" \in Pcs
      /\ \A s \in Slots : s # r => slot'[s] = slot[s]
      /\ slot'[r].pc = "unassign" /\ slot'[r].lun = slot[r].lun
  <2>1. acls \ {slot[r].node} \subseteq acls' /\ SlotGoes(r, "unassign") /\ "unassign" \in Pcs
    BY DEF DeleteAcl, Pcs
  <2> QED
    BY <2>1, GoesOn DEF Rows
<1>4. AclIsForOne'
  BY <1>1, <1>2, <1>3 DEF AclIsForOne
<1>5. AssignedHasAcl'
  <2>1. \A l \in LunIds : lun[l].exists /\ lun[l].node = slot[r].node => l = slot[r].lun
    BY <1>2 DEF RowOf
  <2> QED
    BY <1>1, <1>2, <1>3, <2>1 DEF AssignedHasAcl, Luns
<1> QED
  BY <1>4, <1>5 DEF Assigned

\* The row gets its node, which has the ACL, or loses it.
LEMMA NodeWrittenAssigned ==
    ASSUME Rows, Assigned, NEW r \in Slots, AssignCommits(r) \/ UnassignCommits(r)
    PROVE  Assigned'
<1> USE DEF RequestPcs, UnassignPcs, AssignPcs
<1>1. /\ slot[r].pc \in {"assign", "unassign"} /\ past' = past /\ acls' = acls
      /\ \A l \in LunIds : l # slot[r].lun => lun'[l] = lun[l]
      /\ RowOf(r).exists =>
            lun'[slot[r].lun].node = IF slot[r].pc = "assign" THEN slot[r].node ELSE NoLunNode
      /\ \A l \in LunIds : lun'[l].exists = lun[l].exists
  BY NodeWritten DEF AssignCommits, UnassignCommits
<1>2. /\ \A s \in Slots : s # r => slot'[s] = slot[s]
      /\ slot'[r].pc = "idle"
  BY NodeWritten, GivesUp DEF Rows
<1> SUFFICES ASSUME past \subseteq {"rename"}
             PROVE  Assigned'
  BY <1>1 DEF Assigned, AclIsForOne, AssignedHasAcl
<1>3. /\ \A s \in Slots : slot[s].pc \in RequestPcs => s = r
      /\ slot[r].lun \in LunIds /\ RowOf(r).exists
      /\ slot[r].pc = "assign" =>
            /\ slot[r].node # NoLunNode /\ slot[r].node \in acls
            /\ \A l \in LunIds : lun[l].exists => lun[l].node # slot[r].node
      /\ \A l \in LunIds : lun[l].exists /\ lun[l].node # NoLunNode =>
            /\ lun[l].node \in acls \/ (slot[r].pc = "unassign" /\ slot[r].lun = l)
            /\ \A m \in LunIds : lun[m].exists /\ lun[m].node = lun[l].node => m = l
  BY <1>1, AclFacts DEF HoldsRow
<1>4. AclIsForOne'
  BY <1>1, <1>2, <1>3 DEF AclIsForOne
<1>5. AssignedHasAcl'
  <2>1. \A l \in LunIds : lun'[l].exists /\ lun'[l].node # NoLunNode =>
          /\ lun'[l].node \in acls
          /\ \A m \in LunIds : lun'[m].exists /\ lun'[m].node = lun'[l].node => m = l
    <3>1. CASE slot[r].pc = "assign"
      BY <1>1, <1>3, <3>1
    <3>2. CASE slot[r].pc = "unassign"
      BY <1>1, <1>3, <3>2
    <3> QED
      BY <1>1, <3>1, <3>2
  <2> QED
    BY <1>1, <2>1 DEF AssignedHasAcl, Luns
<1> QED
  BY <1>4, <1>5 DEF Assigned

-----------------------------------------------------------------------------
(* The steps                                                                *)

\* The types, from those of what a step of r may change.
LEMMA TypesByParts ==
    ASSUME Rows, NEW r \in Slots, lun' \in [LunIds -> LunRow], slot' \in [Slots -> Slot],
           stores' \subseteq LunNames, acls' \subseteq LunNodes, backend' = backend,
           exports' \in [LunNumbers -> LunNames \union {NoLunName}],
           past' \subseteq {"overlap", "restart", "rename"},
           \A s \in Slots : s # r => slot'[s] = slot[s],
           slot'[r].pc \in AssignPcs => slot'[r].node \in LunNodes
    PROVE  LunTypeOK' /\ AssignsNode'
<1>1. LunTypeOK'
  BY DEF Rows, LunTypeOK
<1>2. AssignsNode'
  BY DEF Rows, AssignsNode
<1> QED
  BY <1>1, <1>2

\* The types of the parts that most steps leave alone.
LEMMA PartTypes ==
    ASSUME Rows, NEW r \in Slots
    PROVE  /\ lun \in [LunIds -> LunRow] /\ slot \in [Slots -> Slot]
           /\ stores \subseteq LunNames /\ acls \subseteq LunNodes
           /\ exports \in [LunNumbers -> LunNames \union {NoLunName}]
           /\ past \subseteq {"overlap", "restart", "rename"}
           /\ slot[r].lun \in LunIds /\ slot[r].name \in LunNames
           /\ slot[r].number \in LunNumbers /\ slot[r].node \in LunNodes \union {NoLunNode}
           /\ slot[r].pc \in AssignPcs => slot[r].node \in LunNodes
           /\ RowOf(r) \in LunRow
           /\ \A s \in Slots : slot[s].pc \in {"chap", "assign"} => slot[s].node # NoLunNode
<1>1. lun \in [LunIds -> LunRow] /\ slot \in [Slots -> Slot] /\ AssignsNode
  BY DEF Rows, LunTypeOK
<1>2. \A s \in Slots : slot[s].pc \in {"chap", "assign"} => slot[s].node # NoLunNode
  BY <1>1, IscsiLunsAssumption DEF AssignsNode, AssignPcs
<1>3. /\ slot[r].lun \in LunIds /\ slot[r].name \in LunNames
      /\ slot[r].number \in LunNumbers /\ slot[r].node \in LunNodes \union {NoLunNode}
  BY <1>1 DEF Slot
<1>4. RowOf(r) \in LunRow /\ (slot[r].pc \in AssignPcs => slot[r].node \in LunNodes)
  BY <1>1, <1>3 DEF RowOf, AssignsNode
<1> QED
  BY <1>1, <1>2, <1>3, <1>4 DEF Rows, LunTypeOK

\* A slot goes on with its work: the rows are left alone, and with the target
\* what is known of it.
LEMMA MoveSteps ==
    ASSUME LunInv, NEW r \in Slots, NEW pc \in Pcs, SlotGoes(r, pc), SameWork(slot[r].pc, pc),
           UNCHANGED <<lun, backend, past>>, stores' \subseteq LunNames, acls' \subseteq LunNodes,
           exports' \in [LunNumbers -> LunNames \union {NoLunName}]
    PROVE  /\ Rows'
           /\ pc # "created" /\ UNCHANGED <<stores, exports>> => Exported'
           /\ slot[r].pc \in TaskPcs /\ UNCHANGED acls => Assigned'
<1>1. /\ slot' \in [Slots -> Slot]
      /\ \A s \in Slots : s # r => slot'[s] = slot[s]
      /\ slot'[r].pc = pc /\ slot'[r].node = slot[r].node
  BY GoesOn DEF LunInv, Rows
<1>2. slot'[r].pc \in AssignPcs => slot'[r].node \in LunNodes
  BY <1>1, PartTypes DEF LunInv, SameWork, CreatePcs, AssignPcs, UnassignPcs
<1>3. LunTypeOK' /\ AssignsNode'
  BY <1>1, <1>2, PartTypes, TypesByParts DEF LunInv
<1>4. Rows'
  BY <1>3, MoveKeeps DEF LunInv
<1>5. ASSUME pc # "created", UNCHANGED <<stores, exports>>
      PROVE  Exported'
  BY <1>1, <1>5, TargetLeft DEF LunInv
<1>6. ASSUME slot[r].pc \in TaskPcs, UNCHANGED acls
      PROVE  Assigned'
  <2>1. pc \notin {"chap", "assign"} /\ slot[r].pc # "unassign"
    BY <1>6 DEF SameWork, TaskPcs, CreatePcs, AssignPcs, UnassignPcs
  <2>2. \A s \in Slots : slot[s].pc \in {"chap", "assign"} => slot[s].node # NoLunNode
    BY PartTypes DEF LunInv
  <2> QED
    BY <1>1, <1>6, <2>1, <2>2, AclsLeft DEF LunInv
<1> QED
  BY <1>4, <1>5, <1>6

\* The end of a creation, and of a deletion that failed.
LEMMA CreateEndSteps ==
    ASSUME LunInv, NEW r \in Slots, SlotEnds(r),
           NEW status \in {"ready", "error"},
           slot[r].pc \in CreatePcs \/ (slot[r].pc \in DeletePcs /\ status = "error"),
           Writes(r, [RowOf(r) EXCEPT !.status = status]),
           UNCHANGED <<backend, past, acls>>, stores' \subseteq LunNames,
           exports' \in [LunNumbers -> LunNames \union {NoLunName}]
    PROVE  /\ Rows' /\ Assigned'
           /\ status = "error" =>
                \A l \in LunIds : lun'[l].exists /\ lun'[l].status \in Usable => lun'[l] = lun[l]
           /\ \A s \in Slots : s # r => slot'[s] = slot[s]
           /\ slot'[r].pc = "idle"
<1>1. /\ slot' \in [Slots -> Slot]
      /\ \A s \in Slots : s # r => slot'[s] = slot[s]
      /\ slot'[r].pc = "idle"
  BY GivesUp DEF LunInv, Rows
<1>2. [RowOf(r) EXCEPT !.status = status] \in LunRow
  BY PartTypes DEF LunInv, LunRow, LunStatuses
<1>3. /\ lun' \in [LunIds -> LunRow]
      /\ \A l \in LunIds : l # slot[r].lun => lun'[l] = lun[l]
      /\ ~RowOf(r).exists => lun' = lun
      /\ RowOf(r).exists => lun'[slot[r].lun] = [RowOf(r) EXCEPT !.status = status]
  BY <1>2, WritesOne DEF LunInv, Rows
<1>4. slot'[r].pc \notin AssignPcs
  BY <1>1 DEF AssignPcs
<1>5. LunTypeOK' /\ AssignsNode'
  BY <1>1, <1>3, <1>4, PartTypes, TypesByParts DEF LunInv
<1>6. Rows'
  BY <1>5, CreateEndKeeps DEF LunInv
<1>7. \A l \in LunIds : lun'[l].exists = lun[l].exists /\ lun'[l].node = lun[l].node
  BY <1>3, PartTypes DEF LunInv, RowOf, LunRow
<1>8. Assigned'
  <2>1. \A s \in Slots : slot[s].pc \in {"chap", "assign"} => slot[s].node # NoLunNode
    BY PartTypes DEF LunInv
  <2>2. slot[r].pc # "unassign"
    BY DEF CreatePcs, DeletePcs
  <2> QED
    BY <1>1, <1>7, <2>1, <2>2, AclsLeft DEF LunInv
<1>9. ASSUME status = "error", NEW l \in LunIds, lun'[l].exists, lun'[l].status \in Usable
      PROVE  lun'[l] = lun[l]
  <2>1. [RowOf(r) EXCEPT !.status = status].status = status
    BY PartTypes DEF LunInv, LunRow
  <2> QED
    BY <1>3, <1>9, <2>1 DEF Usable
<1> QED
  BY <1>1, <1>6, <1>8, <1>9

\* A request that begins changes nothing but its slot.
LEMMA BeginSteps ==
    ASSUME LunInv, NEW r \in Slots, NEW x \in Slot, Begins(r, x),
           x.pc \in {"create", "rename", "delete", "acl", "unacl"},
           x.pc = "acl" => x.node \in LunNodes,
           UNCHANGED <<lun, stores, exports, acls, backend>>,
           "overlap" \notin past => HoldsRow(r)'
    PROVE  LunInv'
<1>1. /\ slot' \in [Slots -> Slot]
      /\ \A s \in Slots : s # r => slot'[s] = slot[s]
      /\ slot'[r] = x /\ slot[r].pc = "idle"
  BY PartTypes DEF LunInv, Begins
<1>2. /\ past \subseteq past'
      /\ past' \subseteq {"overlap", "restart", "rename"}
  BY PartTypes DEF LunInv, Begins
<1>3. slot'[r].pc \in AssignPcs => slot'[r].node \in LunNodes
  BY <1>1 DEF AssignPcs
<1>4. LunTypeOK' /\ AssignsNode'
  BY <1>1, <1>2, <1>3, PartTypes, TypesByParts DEF LunInv
<1>5. Rows'
  BY <1>4, LunBeginKeeps DEF LunInv, RequestPcs
<1>6. Exported'
  BY <1>1, <1>2, TargetLeft DEF LunInv
<1>7. Assigned'
  <2>1. \A s \in Slots : slot[s].pc \in {"chap", "assign"} => slot[s].node # NoLunNode
    BY PartTypes DEF LunInv
  <2> QED
    BY <1>1, <1>2, <2>1, AclsLeft DEF LunInv
<1> QED
  BY <1>5, <1>6, <1>7 DEF LunInv

\* The requests that begin, each with what it found.
LEMMA LunReadsKeep ==
    ASSUME LunInv, NEW r \in Slots,
           \/ \E name \in LunNames : CreateLunReads(r, name)
           \/ \E l \in LunIds :
                 \/ DeleteLunReads(r, l) \/ UnassignReads(r, l)
                 \/ \E name \in LunNames : RenameReads(r, l, name)
                 \/ \E n \in LunNodes : AssignReads(r, l, n)
    PROVE  LunInv'
<1>0. /\ NoSlot \in Slot /\ lun \in [LunIds -> LunRow] /\ slot \in [Slots -> Slot]
  BY NoValues, PartTypes DEF LunInv
<1>1. ASSUME NEW name \in LunNames, CreateLunReads(r, name)
      PROVE  LunInv'
  <2>1. PICK x : x = [NoSlot EXCEPT !.pc = "create", !.name = name, !.number = NextLunNumber]
    OBVIOUS
  <2>2. /\ NextLunNumber \in LunNumbers
        /\ \A l \in LunIds : lun[l].exists => lun[l].number < NextLunNumber
    BY <1>1, NextNumberIsNew DEF CreateLunReads, LunInv, Rows
  <2>3. x \in Slot /\ x.pc = "create" /\ x.number = NextLunNumber
    BY <1>0, <2>1, <2>2 DEF Slot, RequestPcs
  <2>4. Begins(r, x) /\ UNCHANGED <<lun, stores, exports, acls, backend>>
    BY <1>1, <2>1 DEF CreateLunReads
  <2>5. slot'[r] = x
    BY <1>0, <2>4 DEF Begins
  <2>6. HoldsRow(r)'
    BY <2>2, <2>3, <2>4, <2>5 DEF HoldsRow, CreatePcs, DeletePcs, AssignPcs, UnassignPcs
  <2> QED
    BY <2>3, <2>4, <2>6, BeginSteps
<1>2. ASSUME NEW l \in LunIds, DeleteLunReads(r, l)
      PROVE  LunInv'
  <2>1. PICK x : x = [NoSlot EXCEPT !.pc = "delete", !.lun = l]
    OBVIOUS
  <2>2. x \in Slot /\ x.pc = "delete" /\ x.lun = l
    BY <1>0, <2>1 DEF Slot, RequestPcs
  <2>3. Begins(r, x) /\ UNCHANGED <<lun, stores, exports, acls, backend>>
    BY <1>2, <2>1 DEF DeleteLunReads
  <2>4. slot'[r] = x
    BY <1>0, <2>3 DEF Begins
  <2>5. HoldsRow(r)'
    BY <1>2, <2>2, <2>3, <2>4
       DEF HoldsRow, RowOf, DeleteLunReads, Luns, CreatePcs, DeletePcs, AssignPcs, UnassignPcs
  <2> QED
    BY <2>2, <2>3, <2>5, BeginSteps
<1>3. ASSUME NEW l \in LunIds, UnassignReads(r, l)
      PROVE  LunInv'
  <2>1. PICK x : x = [NoSlot EXCEPT !.pc = "unacl", !.lun = l, !.status = lun[l].status,
                                    !.node = lun[l].node]
    OBVIOUS
  <2>2. x \in Slot /\ x.pc = "unacl" /\ x.lun = l /\ x.node = lun[l].node
    <3>1. lun[l].status \in LunStatuses /\ lun[l].node \in LunNodes \union {NoLunNode}
      BY <1>0 DEF LunRow
    <3> QED
      BY <1>0, <2>1, <3>1 DEF Slot, RequestPcs
  <2>3. Begins(r, x) /\ UNCHANGED <<lun, stores, exports, acls, backend>>
    BY <1>3, <2>1 DEF UnassignReads
  <2>4. slot'[r] = x
    BY <1>0, <2>3 DEF Begins
  <2>5. HoldsRow(r)'
    BY <1>3, <2>2, <2>3, <2>4
       DEF HoldsRow, RowOf, UnassignReads, Luns, CreatePcs, DeletePcs, AssignPcs, UnassignPcs
  <2> QED
    BY <2>2, <2>3, <2>5, BeginSteps
<1>4. ASSUME NEW l \in LunIds, NEW name \in LunNames, RenameReads(r, l, name)
      PROVE  LunInv'
  <2>1. PICK x : x = [NoSlot EXCEPT !.pc = "rename", !.lun = l, !.name = name]
    OBVIOUS
  <2>2. x \in Slot /\ x.pc = "rename"
    BY <1>0, <2>1 DEF Slot, RequestPcs
  <2>3. Begins(r, x) /\ UNCHANGED <<lun, stores, exports, acls, backend>>
    BY <1>4, <2>1 DEF RenameReads
  <2>4. slot'[r] = x
    BY <1>0, <2>3 DEF Begins
  <2>5. HoldsRow(r)'
    BY <2>2, <2>4 DEF HoldsRow, CreatePcs, DeletePcs, AssignPcs, UnassignPcs
  <2> QED
    BY <2>2, <2>3, <2>5, BeginSteps
<1>5. ASSUME NEW l \in LunIds, NEW n \in LunNodes, AssignReads(r, l, n)
      PROVE  LunInv'
  <2>1. PICK x : x = [NoSlot EXCEPT !.pc = "acl", !.lun = l, !.status = lun[l].status, !.node = n]
    OBVIOUS
  <2>2. x \in Slot /\ x.pc = "acl" /\ x.lun = l /\ x.node = n
    <3>1. lun[l].status \in LunStatuses
      BY <1>0 DEF LunRow
    <3> QED
      BY <1>0, <2>1, <3>1 DEF Slot, RequestPcs
  <2>3. Begins(r, x) /\ UNCHANGED <<lun, stores, exports, acls, backend>>
    BY <1>5, <2>1 DEF AssignReads
  <2>4. slot'[r] = x
    BY <1>0, <2>3 DEF Begins
  <2>5. HoldsRow(r)'
    BY <1>5, <2>2, <2>3, <2>4
       DEF HoldsRow, RowOf, AssignReads, Luns, Usable, CreatePcs, DeletePcs, AssignPcs, UnassignPcs
  <2> QED
    BY <2>2, <2>3, <2>5, BeginSteps
<1> QED
  BY <1>1, <1>2, <1>3, <1>4, <1>5

\* The background task of a creation.
LEMMA CreateTaskKeeps ==
    ASSUME LunInv, NEW r \in Slots,
           \/ EnsureTarget(r) \/ CreateBackingstore(r) \/ ExportLun(r)
           \/ CleanupStore(r) \/ CreateTaskReady(r)
    PROVE  LunInv'
<1> USE DEF CreatePcs, TaskPcs
<1>0. Rows /\ Exported /\ Assigned
  BY DEF LunInv
<1>1. CreateFails(r) => SlotEnds(r) /\ Writes(r, [RowOf(r) EXCEPT !.status = "error"])
  BY DEF CreateFails, RowOf
<1>2. /\ stores \subseteq LunNames /\ acls \subseteq LunNodes /\ slot[r].name \in LunNames
      /\ slot[r].number \in LunNumbers
      /\ exports \in [LunNumbers -> LunNames \union {NoLunName}]
  BY <1>0, PartTypes
<1>3. ASSUME CreateFails(r), slot[r].pc \in {"target", "store"}, UNCHANGED <<exports, acls, backend, past>>,
             stores \subseteq stores', stores' \subseteq LunNames
      PROVE  LunInv'
  <2>1. /\ Rows' /\ Assigned'
        /\ \A l \in LunIds : lun'[l].exists /\ lun'[l].status \in Usable => lun'[l] = lun[l]
        /\ \A s \in Slots : s # r => slot'[s] = slot[s]
        /\ slot'[r].pc = "idle"
    BY <1>1, <1>2, <1>3, CreateEndSteps
  <2>2. Exported'
    BY <1>0, <1>3, <2>1 DEF Exported, CreatedIsExported, ReadyIsExported, Luns, Usable
  <2> QED
    BY <2>1, <2>2 DEF LunInv
<1>4. CASE EnsureTarget(r)
  <2>1. CASE SlotGoes(r, "store") /\ UNCHANGED lun
    <3>1. /\ "store" \in Pcs /\ SameWork(slot[r].pc, "store") /\ slot[r].pc \in TaskPcs
          /\ UNCHANGED <<stores, exports, acls, backend, past>>
      BY <1>4 DEF EnsureTarget, Pcs, SameWork
    <3> QED
      BY <1>2, <2>1, <3>1, MoveSteps DEF LunInv
  <2>2. CASE CreateFails(r)
    BY <1>2, <1>3, <1>4, <2>2 DEF EnsureTarget
  <2> QED
    BY <1>4, <2>1, <2>2 DEF EnsureTarget
<1>5. CASE CreateBackingstore(r)
  <2>0. UNCHANGED <<exports, acls, backend, past>> /\ slot[r].pc = "store"
    BY <1>5 DEF CreateBackingstore
  <2>1. CASE stores' = stores \union {slot[r].name} /\ SlotGoes(r, "export") /\ UNCHANGED lun
    <3>1. "export" \in Pcs /\ SameWork(slot[r].pc, "export") /\ slot[r].pc \in TaskPcs
      BY <2>0 DEF Pcs, SameWork
    <3>2. stores' \subseteq LunNames
      BY <1>2, <2>1
    <3>3. Rows' /\ Assigned'
      BY <1>2, <2>0, <2>1, <3>1, <3>2, MoveSteps
    <3>4. \A s \in Slots : slot'[s].pc = "created" => slot'[s] = slot[s]
      BY <1>0, <2>1, <3>1, GoesOn DEF Rows
    <3>5. Exported'
      BY <1>0, <2>0, <2>1, <3>4 DEF Exported, CreatedIsExported, ReadyIsExported, Luns
    <3> QED
      BY <3>3, <3>5 DEF LunInv
  <2>2. CASE stores' \in {stores, stores \union {slot[r].name}} /\ CreateFails(r)
    <3>1. stores \subseteq stores' /\ stores' \subseteq LunNames
      BY <1>2, <2>2
    <3> QED
      BY <1>3, <2>0, <2>2, <3>1
  <2> QED
    BY <1>5, <2>1, <2>2 DEF CreateBackingstore
<1>6. CASE ExportLun(r)
  <2>1. PICK pc \in {"created", "cleanup"} : SlotGoes(r, pc)
    BY <1>6 DEF ExportLun
  <2>2. /\ pc \in Pcs /\ SameWork(slot[r].pc, pc) /\ slot[r].pc \in TaskPcs
        /\ UNCHANGED <<lun, stores, acls, backend, past>>
    BY <1>6 DEF ExportLun, Pcs, SameWork
  <2>3. exports' \in {exports, [exports EXCEPT ![slot[r].number] = slot[r].name]}
    BY <1>6 DEF ExportLun
  <2>4. exports' \in [LunNumbers -> LunNames \union {NoLunName}]
    BY <1>2, <2>3
  <2>5. Rows' /\ Assigned'
    BY <1>2, <2>1, <2>2, <2>4, MoveSteps
  <2> QED
    BY <1>0, <1>6, <2>5, ExportKeeps DEF LunInv
<1>7. CASE CleanupStore(r)
  <2>1. /\ slot[r].pc = "cleanup" /\ DeletesStore(slot[r].name) /\ CreateFails(r)
        /\ UNCHANGED <<acls, backend, past>>
    BY <1>7 DEF CleanupStore
  <2>2. stores' \subseteq LunNames /\ exports' \in [LunNumbers -> LunNames \union {NoLunName}]
    BY <1>2, <2>1 DEF DeletesStore
  <2>3. /\ Rows' /\ Assigned'
        /\ \A l \in LunIds : lun'[l].exists /\ lun'[l].status \in Usable => lun'[l] = lun[l]
        /\ \A s \in Slots : s # r => slot'[s] = slot[s]
        /\ slot'[r].pc = "idle"
    BY <1>1, <2>1, <2>2, CreateEndSteps
  <2>4. Exported'
    BY <1>0, <2>1, <2>3, DeletesStoreKeeps
  <2> QED
    BY <2>3, <2>4 DEF LunInv
<1>8. CASE CreateTaskReady(r)
  <2>1. /\ slot[r].pc = "created" /\ SlotEnds(r) /\ Writes(r, [RowOf(r) EXCEPT !.status = "ready"])
        /\ UNCHANGED <<stores, exports, acls, backend, past>>
    BY <1>8 DEF CreateTaskReady, RowOf
  <2>2. Rows' /\ Assigned'
    BY <1>2, <2>1, CreateEndSteps
  <2> QED
    BY <1>0, <1>8, <2>2, ReadyKeeps DEF LunInv
<1> QED
  BY <1>4, <1>5, <1>6, <1>7, <1>8

\* A task of either kind that fails leaves its LUN in error.
LEMMA TaskFailsKeeps ==
    ASSUME LunInv, NEW r \in Slots, TaskFails(r)
    PROVE  LunInv'
<1>1. /\ SlotEnds(r) /\ Writes(r, [RowOf(r) EXCEPT !.status = "error"])
      /\ UNCHANGED <<stores, exports, acls, backend, past>>
      /\ slot[r].pc \in CreatePcs \/ slot[r].pc \in DeletePcs
  BY DEF TaskFails, RowOf, TaskPcs, CreatePcs, DeletePcs
<1>2. stores \subseteq LunNames /\ exports \in [LunNumbers -> LunNames \union {NoLunName}]
  BY PartTypes DEF LunInv
<1>3. /\ Rows' /\ Assigned'
      /\ \A l \in LunIds : lun'[l].exists /\ lun'[l].status \in Usable => lun'[l] = lun[l]
      /\ \A s \in Slots : s # r => slot'[s] = slot[s]
      /\ slot'[r].pc = "idle"
  BY <1>1, <1>2, CreateEndSteps
<1>4. Exported'
  BY <1>1, <1>3 DEF LunInv, Exported, CreatedIsExported, ReadyIsExported, Luns, Usable
<1> QED
  BY <1>3, <1>4 DEF LunInv

\* The commits of a creation and of a rename.
LEMMA NameCommitsKeep ==
    ASSUME LunInv, NEW r \in Slots, CreateLunCommits(r) \/ RenameCommits(r)
    PROVE  LunInv'
<1>0. Rows /\ Exported /\ Assigned
  BY DEF LunInv
<1>1. /\ lun \in [LunIds -> LunRow] /\ slot \in [Slots -> Slot]
      /\ slot[r].lun \in LunIds /\ slot[r].name \in LunNames /\ slot[r].number \in LunNumbers
      /\ RowOf(r) \in LunRow /\ past \subseteq {"overlap", "restart", "rename"}
      /\ \A s \in Slots : slot[s].pc \in {"chap", "assign"} => slot[s].node # NoLunNode
  BY <1>0, PartTypes
<1>2. UNCHANGED <<stores, exports, acls, backend>>
  BY DEF CreateLunCommits, RenameCommits
<1>3. CASE CreateLunCommits(r)
  <2>1. /\ lun' \in [LunIds -> LunRow] /\ slot' \in [Slots -> Slot]
        /\ \A s \in Slots : s # r => slot'[s] = slot[s]
        /\ slot'[r].pc \in {"idle", "target"} /\ slot[r].pc = "create" /\ past' = past
        /\ \A l \in LunIds : lun'[l] = lun[l] \/ (lun'[l].status = "creating" /\ lun'[l].node = NoLunNode)
    <3>1. CASE SlotEnds(r) /\ UNCHANGED lun
      <4>1. /\ slot' \in [Slots -> Slot] /\ slot'[r].pc = "idle"
            /\ \A s \in Slots : s # r => slot'[s] = slot[s]
        BY <1>0, <3>1, GivesUp DEF Rows
      <4>2. slot[r].pc = "create" /\ past' = past
        BY <1>3 DEF CreateLunCommits
      <4> QED
        BY <1>1, <3>1, <4>1, <4>2
    <3>2. CASE NameFree(slot[r].name)
      <4>0. PICK l \in LunIds :
              /\ lun' = [lun EXCEPT ![l] = [exists |-> TRUE, name |-> slot[r].name,
                                            number |-> slot[r].number, status |-> "creating",
                                            node |-> NoLunNode]]
              /\ slot' = [slot EXCEPT ![r].pc = "target", ![r].lun = l]
        BY <1>3, <3>2 DEF CreateLunCommits
      <4>5. PICK row : row = [exists |-> TRUE, name |-> slot[r].name, number |-> slot[r].number,
                              status |-> "creating", node |-> NoLunNode]
        OBVIOUS
      <4>6. PICK x : x = [slot[r] EXCEPT !.pc = "target", !.lun = l]
        OBVIOUS
      <4>1. /\ lun' = [lun EXCEPT ![l] = row] /\ slot' = [slot EXCEPT ![r] = x]
            /\ row = [exists |-> TRUE, name |-> slot[r].name, number |-> slot[r].number,
                      status |-> "creating", node |-> NoLunNode]
            /\ x = [slot[r] EXCEPT !.pc = "target", !.lun = l]
        BY <1>1, <4>0, <4>5, <4>6
      <4>2. row \in LunRow /\ row.status = "creating" /\ row.node = NoLunNode
        BY <1>1, <4>1 DEF LunRow, LunStatuses
      <4>3. x \in Slot /\ x.pc = "target"
        BY <1>1, <4>1 DEF Slot, TaskPcs
      <4>4. slot[r].pc = "create" /\ past' = past
        BY <1>3 DEF CreateLunCommits
      <4> QED
        BY <1>1, <4>1, <4>2, <4>3, <4>4
    <3> QED
      BY <1>3, <3>1, <3>2 DEF CreateLunCommits
  <2>2. slot'[r].pc \notin AssignPcs
    BY <2>1 DEF AssignPcs
  <2>3. LunTypeOK' /\ AssignsNode'
    BY <1>0, <1>2, <2>1, <2>2, PartTypes, TypesByParts
  <2>4. Rows'
    BY <1>0, <1>3, <2>3, CreateCommitKeeps
  <2>5. Exported'
    BY <1>0, <1>2, <2>1, TargetLeft DEF Usable
  <2>6. Assigned'
    BY <1>0, <1>1, <1>2, <2>1, AclsLeft
  <2> QED
    BY <2>4, <2>5, <2>6 DEF LunInv
<1>4. CASE RenameCommits(r)
  <2>1. /\ slot' \in [Slots -> Slot] /\ past' = past \union {"rename"}
        /\ \A s \in Slots : s # r => slot'[s] = slot[s]
        /\ slot'[r].pc = "idle" /\ slot[r].pc = "rename"
    BY <1>0, <1>4, GivesUp DEF RenameCommits, Rows
  <2>2. [RowOf(r) EXCEPT !.name = slot[r].name] \in LunRow
    BY <1>1 DEF LunRow
  <2>3. Writes(r, [RowOf(r) EXCEPT !.name = slot[r].name]) \/ lun' = lun
    BY <1>4 DEF RenameCommits, RowOf
  <2>4. /\ lun' \in [LunIds -> LunRow]
        /\ \A l \in LunIds : lun'[l].exists = lun[l].exists /\ lun'[l].node = lun[l].node
    <3>1. CASE lun' = lun
      BY <1>1, <3>1
    <3>2. CASE Writes(r, [RowOf(r) EXCEPT !.name = slot[r].name])
      BY <1>0, <1>1, <2>2, <3>2, WritesOne DEF Rows, RowOf, LunRow
    <3> QED
      BY <2>3, <3>1, <3>2
  <2>5. slot'[r].pc \notin AssignPcs /\ past' \subseteq {"overlap", "restart", "rename"}
    BY <1>1, <2>1 DEF AssignPcs
  <2>6. LunTypeOK' /\ AssignsNode'
    BY <1>0, <1>2, <2>1, <2>4, <2>5, PartTypes, TypesByParts
  <2>7. Rows'
    BY <1>0, <1>4, <2>6, RenameKeeps
  <2>8. Exported'
    BY <2>1 DEF Exported, CreatedIsExported, ReadyIsExported
  <2>9. Assigned'
    BY <1>0, <1>1, <1>2, <2>1, <2>4, AclsLeft
  <2> QED
    BY <2>7, <2>8, <2>9 DEF LunInv
<1> QED
  BY <1>3, <1>4

\* A deletion: its commit and its background task.
LEMMA DeletionKeeps ==
    ASSUME LunInv, NEW r \in Slots,
           \/ DeleteLunCommits(r) \/ DeleteTaskLoads(r) \/ UnexportLun(r)
           \/ DeleteBackingstore(r) \/ DeleteRow(r)
    PROVE  LunInv'
<1>0. Rows /\ Exported /\ Assigned
  BY DEF LunInv
<1>1. /\ lun \in [LunIds -> LunRow] /\ slot \in [Slots -> Slot]
      /\ slot[r].lun \in LunIds /\ slot[r].name \in LunNames /\ slot[r].number \in LunNumbers
      /\ RowOf(r) \in LunRow
      /\ stores \subseteq LunNames /\ acls \subseteq LunNodes
      /\ exports \in [LunNumbers -> LunNames \union {NoLunName}]
      /\ \A s \in Slots : slot[s].pc \in {"chap", "assign"} => slot[s].node # NoLunNode
  BY <1>0, PartTypes
<1>2. ASSUME UNCHANGED <<stores, exports, acls, backend, past>>,
             lun' \in [LunIds -> LunRow], slot' \in [Slots -> Slot],
             \A s \in Slots : s # r => slot'[s] = slot[s],
             slot'[r].pc \in DeletePcs \union {"idle"}, slot[r].pc \in DeletePcs \union {"delete"},
             \A l \in LunIds : \/ lun'[l] = lun[l] \/ ~lun'[l].exists
                               \/ /\ lun'[l].status = "deleting" /\ lun'[l].exists = lun[l].exists
                                  /\ lun'[l].node = lun[l].node
      PROVE  LunTypeOK' /\ AssignsNode' /\ Exported' /\ Assigned'
  <2>1. slot'[r].pc \notin AssignPcs
    BY <1>2 DEF AssignPcs, DeletePcs
  <2>2. LunTypeOK' /\ AssignsNode'
    BY <1>0, <1>2, <2>1, PartTypes, TypesByParts
  <2>3. Exported'
    BY <1>0, <1>2, TargetLeft DEF Usable, DeletePcs
  <2>4. Assigned'
    BY <1>0, <1>1, <1>2, AclsLeft DEF DeletePcs
  <2> QED
    BY <2>2, <2>3, <2>4
<1>3. CASE DeleteLunCommits(r)
  <2>1. [RowOf(r) EXCEPT !.status = "deleting"] \in LunRow
    BY <1>1 DEF LunRow, LunStatuses
  <2>2. Writes(r, [RowOf(r) EXCEPT !.status = "deleting"])
    BY <1>3 DEF DeleteLunCommits, RowOf
  <2>3. /\ lun' \in [LunIds -> LunRow]
        /\ \A l \in LunIds : \/ lun'[l] = lun[l]
                             \/ /\ lun'[l].status = "deleting" /\ lun'[l].exists = lun[l].exists
                                /\ lun'[l].node = lun[l].node
    BY <1>0, <1>1, <2>1, <2>2, WritesOne DEF Rows, RowOf, LunRow
  <2>4. /\ slot' \in [Slots -> Slot]
        /\ \A s \in Slots : s # r => slot'[s] = slot[s]
        /\ slot'[r].pc \in {"load", "idle"}
    <3>1. CASE SlotEnds(r)
      BY <1>0, <3>1, GivesUp DEF Rows
    <3>2. CASE SlotGoes(r, "load")
      BY <1>0, <3>2, GoesOn DEF Rows, Pcs, TaskPcs
    <3> QED
      BY <1>3, <3>1, <3>2 DEF DeleteLunCommits
  <2>5. LunTypeOK' /\ AssignsNode' /\ Exported' /\ Assigned'
    BY <1>2, <1>3, <2>3, <2>4 DEF DeleteLunCommits, DeletePcs
  <2> QED
    BY <1>0, <1>3, <2>5, DeleteCommitKeeps DEF LunInv
<1>4. CASE DeleteTaskLoads(r)
  <2>1. /\ slot' \in [Slots -> Slot]
        /\ \A s \in Slots : s # r => slot'[s] = slot[s]
        /\ slot'[r].pc \in {"unexport", "deleted", "idle"}
    <3>1. CASE SlotEnds(r)
      BY <1>0, <3>1, GivesUp DEF Rows
    <3>2. CASE ~SlotEnds(r)
      <4>0. PICK pc \in {"unexport", "deleted"} :
              slot' = [slot EXCEPT ![r].pc = pc, ![r].name = RowOf(r).name, ![r].number = RowOf(r).number]
        BY <1>4, <3>2 DEF DeleteTaskLoads, RowOf
      <4>4. PICK x : x = [slot[r] EXCEPT !.pc = pc, !.name = RowOf(r).name, !.number = RowOf(r).number]
        OBVIOUS
      <4>1. /\ x = [slot[r] EXCEPT !.pc = pc, !.name = RowOf(r).name, !.number = RowOf(r).number]
            /\ slot' = [slot EXCEPT ![r] = x]
        BY <1>1, <4>0, <4>4
      <4>2. RowOf(r).name \in LunNames /\ RowOf(r).number \in LunNumbers
        BY <1>1 DEF LunRow
      <4>3. x \in Slot /\ x.pc = pc
        BY <1>1, <4>1, <4>2 DEF Slot, TaskPcs
      <4> QED
        BY <1>1, <4>1, <4>3
    <3> QED
      BY <3>1, <3>2
  <2>2. LunTypeOK' /\ AssignsNode' /\ Exported' /\ Assigned'
    BY <1>1, <1>2, <1>4, <2>1 DEF DeleteTaskLoads, DeletePcs
  <2> QED
    BY <1>0, <1>4, <2>2, LoadKeeps DEF LunInv
<1>5. CASE UnexportLun(r)
  <2>1. /\ SlotGoes(r, "unstore") /\ "unstore" \in Pcs /\ SameWork(slot[r].pc, "unstore")
        /\ slot[r].pc \in TaskPcs /\ UNCHANGED <<lun, stores, acls, backend, past>>
        /\ exports' \in {exports, [exports EXCEPT ![slot[r].number] = NoLunName]}
    BY <1>5 DEF UnexportLun, Pcs, SameWork, TaskPcs
  <2>2. exports' \in [LunNumbers -> LunNames \union {NoLunName}]
    BY <1>1, <2>1
  <2>3. Rows' /\ Assigned'
    BY <1>1, <2>1, <2>2, MoveSteps
  <2> QED
    BY <1>0, <1>5, <2>3, UnexportKeeps DEF LunInv
<1>6. CASE DeleteBackingstore(r)
  <2>1. /\ SlotGoes(r, "deleted") /\ "deleted" \in Pcs /\ SameWork(slot[r].pc, "deleted")
        /\ slot[r].pc \in TaskPcs /\ slot[r].pc = "unstore"
        /\ UNCHANGED <<lun, acls, backend, past>> /\ DeletesStore(slot[r].name)
    BY <1>6 DEF DeleteBackingstore, Pcs, SameWork, TaskPcs
  <2>2. stores' \subseteq LunNames /\ exports' \in [LunNumbers -> LunNames \union {NoLunName}]
    BY <1>1, <2>1 DEF DeletesStore
  <2>3. Rows' /\ Assigned'
    BY <1>1, <2>1, <2>2, MoveSteps
  <2>4. /\ \A s \in Slots : s # r => slot'[s] = slot[s]
        /\ slot'[r].pc = "deleted"
    BY <1>0, <2>1, GoesOn DEF Rows
  <2>5. Exported'
    BY <1>0, <2>1, <2>4, DeletesStoreKeeps
  <2> QED
    BY <2>3, <2>5 DEF LunInv
<1>7. CASE DeleteRow(r)
  <2>1. /\ slot' \in [Slots -> Slot]
        /\ \A s \in Slots : s # r => slot'[s] = slot[s]
        /\ slot'[r].pc = "idle"
    BY <1>0, <1>7, GivesUp DEF DeleteRow, Rows
  <2>2. lun' \in [LunIds -> LunRow] /\ \A l \in LunIds : lun'[l] = lun[l] \/ ~lun'[l].exists
    BY <1>1, <1>7, NoValues DEF DeleteRow
  <2>3. LunTypeOK' /\ AssignsNode' /\ Exported' /\ Assigned'
    BY <1>2, <1>7, <2>1, <2>2 DEF DeleteRow, DeletePcs
  <2> QED
    BY <1>0, <1>7, <2>3, DeleteRowKeeps DEF LunInv
<1> QED
  BY <1>3, <1>4, <1>5, <1>6, <1>7

\* An assignment and its end.
LEMMA AssignmentKeeps ==
    ASSUME LunInv, NEW r \in Slots,
           \/ CreateAcl(r) \/ SetChap(r) \/ AssignCommits(r) \/ DeleteAcl(r) \/ UnassignCommits(r)
    PROVE  LunInv'
<1> USE DEF AssignPcs, UnassignPcs
<1>0. Rows /\ Exported /\ Assigned
  BY DEF LunInv
<1>1. /\ lun \in [LunIds -> LunRow] /\ slot \in [Slots -> Slot]
      /\ slot[r].pc \in AssignPcs => slot[r].node \in LunNodes
      /\ stores \subseteq LunNames /\ acls \subseteq LunNodes
      /\ exports \in [LunNumbers -> LunNames \union {NoLunName}]
  BY <1>0, PartTypes
<1>2. UNCHANGED <<stores, exports, backend, past>>
  BY DEF CreateAcl, SetChap, AssignCommits, DeleteAcl, UnassignCommits
<1>3. ASSUME SlotEnds(r), slot[r].pc \in RequestPcs, UNCHANGED lun, acls' \subseteq LunNodes
      PROVE  Rows' /\ Exported'
  <2>1. /\ slot' \in [Slots -> Slot]
        /\ \A s \in Slots : s # r => slot'[s] = slot[s]
        /\ slot'[r].pc = "idle"
    BY <1>0, <1>3, GivesUp DEF Rows
  <2>2. lun' \in [LunIds -> LunRow] /\ slot'[r].pc \notin AssignPcs
    BY <1>1, <1>3, <2>1
  <2>3. LunTypeOK' /\ AssignsNode'
    BY <1>0, <1>2, <1>3, <2>1, <2>2, PartTypes, TypesByParts
  <2>4. slot[r].pc \notin TaskPcs
    BY <1>3 DEF RequestPcs, TaskPcs
  <2>5. Rows'
    BY <1>0, <1>2, <1>3, <2>3, <2>4, LunEndKeeps
  <2>6. Exported'
    BY <1>0, <1>2, <1>3, <2>1, TargetLeft
  <2> QED
    BY <2>5, <2>6
<1>4. ASSUME NEW pc \in {"chap", "assign", "unassign"}, SlotGoes(r, pc), SameWork(slot[r].pc, pc),
             UNCHANGED lun, acls' \subseteq LunNodes
      PROVE  Rows' /\ Exported'
  <2>1. pc \in Pcs /\ pc # "created"
    BY DEF Pcs, RequestPcs
  <2> QED
    BY <1>1, <1>2, <1>4, <2>1, MoveSteps
<1>5. CASE CreateAcl(r)
  <2>1. slot[r].pc = "acl" /\ lun' = lun /\ acls' \in {acls, acls \union {slot[r].node}}
    BY <1>5 DEF CreateAcl
  <2>2. acls' \subseteq LunNodes /\ SameWork(slot[r].pc, "chap") /\ slot[r].pc \in RequestPcs
    BY <1>1, <2>1 DEF SameWork, RequestPcs
  <2>3. SlotGoes(r, "chap") \/ SlotEnds(r)
    BY <1>5 DEF CreateAcl
  <2>4. Rows' /\ Exported'
    BY <1>3, <1>4, <2>1, <2>2, <2>3
  <2> QED
    BY <1>0, <1>5, <2>4, CreateAclKeeps DEF LunInv
<1>6. CASE SetChap(r)
  <2>1. slot[r].pc = "chap" /\ lun' = lun /\ acls' \in {acls, acls \ {slot[r].node}}
    BY <1>6 DEF SetChap
  <2>2. acls' \subseteq LunNodes /\ SameWork(slot[r].pc, "assign") /\ slot[r].pc \in RequestPcs
    BY <1>1, <2>1 DEF SameWork, RequestPcs
  <2>3. SlotGoes(r, "assign") \/ SlotEnds(r)
    BY <1>6 DEF SetChap
  <2>4. Rows' /\ Exported'
    BY <1>3, <1>4, <2>1, <2>2, <2>3
  <2> QED
    BY <1>0, <1>6, <2>4, SetChapKeeps DEF LunInv
<1>7. CASE DeleteAcl(r)
  <2>1. /\ slot[r].pc = "unacl" /\ lun' = lun /\ acls' \in {acls, acls \ {slot[r].node}}
        /\ SlotGoes(r, "unassign")
    BY <1>7 DEF DeleteAcl
  <2>2. acls' \subseteq LunNodes /\ SameWork(slot[r].pc, "unassign")
    BY <1>1, <2>1 DEF SameWork
  <2>3. Rows' /\ Exported'
    BY <1>4, <2>1, <2>2
  <2> QED
    BY <1>0, <1>7, <2>3, DeleteAclKeeps DEF LunInv
<1>8. CASE AssignCommits(r) \/ UnassignCommits(r)
  <2>1. /\ slot[r].pc \in {"assign", "unassign"} /\ SlotEnds(r) /\ acls' = acls
        /\ \A l \in LunIds : l # slot[r].lun => lun'[l] = lun[l]
        /\ \A l \in LunIds : /\ lun'[l].exists = lun[l].exists /\ lun'[l].name = lun[l].name
                             /\ lun'[l].number = lun[l].number
    BY <1>0, <1>8, NodeWritten DEF AssignCommits, UnassignCommits
  <2>2. /\ slot' \in [Slots -> Slot]
        /\ \A s \in Slots : s # r => slot'[s] = slot[s]
        /\ slot'[r].pc = "idle"
    BY <1>0, <2>1, GivesUp DEF Rows
  <2>3. lun' \in [LunIds -> LunRow]
    BY <1>0, <1>8, NodeWrittenType
  <2>4. slot'[r].pc \notin AssignPcs
    BY <2>2
  <2>5. LunTypeOK' /\ AssignsNode'
    BY <1>0, <1>2, <2>1, <2>2, <2>3, <2>4, PartTypes, TypesByParts
  <2>6. Rows'
    BY <1>0, <1>8, <2>5, NodeWrittenKeeps
  <2>7. past \subseteq {"restart"} =>
          \A l \in LunIds : lun'[l].exists /\ lun'[l].status \in Usable =>
              lun[l].exists /\ lun[l].status \in Usable
    <3> SUFFICES ASSUME past \subseteq {"restart"}
                 PROVE  RowOf(r).exists /\ RowOf(r).status \in Usable
      BY <2>1 DEF RowOf
    <3> QED
      BY <1>0, <2>1, PartTypes DEF Rows, Serial, HoldsRow, RowOf
  <2>8. Exported'
    BY <1>0, <1>2, <2>1, <2>2, <2>7, TargetLeft
  <2> QED
    BY <1>0, <1>8, <2>6, <2>8, NodeWrittenAssigned DEF LunInv
<1> QED
  BY <1>5, <1>6, <1>7, <1>8

-----------------------------------------------------------------------------
(* The theorem                                                              *)

\* Nothing is there at first.
LEMMA LunsInitInv == LunsInit => LunInv
<1> SUFFICES ASSUME LunsInit
             PROVE  LunInv
  OBVIOUS
<1> USE DEF CreatePcs, DeletePcs, AssignPcs, UnassignPcs, RequestPcs, TaskPcs
<1>1. /\ \A l \in LunIds : ~lun[l].exists
      /\ \A r \in Slots : slot[r].pc = "idle"
  BY NoValues DEF LunsInit
<1>2. LunTypeOK
  BY NoValues DEF LunsInit, LunTypeOK
<1>3. AssignsNode /\ NamesUnique /\ Worked /\ TasksNamed
  BY <1>1 DEF AssignsNode, NamesUnique, Worked, TasksNamed
<1>4. Serial
  BY <1>1 DEF Serial, HoldsRow
<1>5. Exported /\ Assigned
  BY <1>1 DEF Exported, CreatedIsExported, ReadyIsExported, Assigned, AclIsForOne, AssignedHasAcl, Luns
<1> QED
  BY <1>2, <1>3, <1>4, <1>5 DEF LunInv, Rows

\* No step breaks the invariant.
LEMMA LunsStepInv == LunInv /\ [LunsNext]_lunVars => LunInv'
<1> SUFFICES ASSUME LunInv, [LunsNext]_lunVars
             PROVE  LunInv'
  OBVIOUS
<1>1. ASSUME NEW r \in Slots, SlotStep(r)
      PROVE  LunInv'
  BY <1>1, CreateTaskKeeps, TaskFailsKeeps, NameCommitsKeep, DeletionKeeps, AssignmentKeeps
  DEF SlotStep
<1>2. CASE DeleteBackend
  <2>1. UNCHANGED <<lun, stores, exports, acls, slot, past>> /\ backend' \in BOOLEAN
    BY <1>2 DEF DeleteBackend
  <2>2. LunTypeOK'
    BY <2>1 DEF LunInv, Rows, LunTypeOK
  <2>3. Rows'
    BY <2>1, <2>2 DEF LunInv, Rows, AssignsNode, NamesUnique, Worked, Serial, TasksNamed, HoldsRow, RowOf
  <2>4. Exported' /\ Assigned'
    BY <2>1 DEF LunInv, Exported, CreatedIsExported, ReadyIsExported, Assigned, AclIsForOne,
                AssignedHasAcl, Luns
  <2> QED
    BY <2>3, <2>4 DEF LunInv
<1>3. CASE RestartLuns
  <2>1. /\ UNCHANGED <<lun, stores, exports, acls, backend>> /\ past' = past \union {"restart"}
        /\ slot' = [r \in Slots |-> NoSlot] /\ \A r \in Slots : slot'[r].pc = "idle"
    BY <1>3, NoValues DEF RestartLuns
  <2>2. LunTypeOK' /\ AssignsNode'
    BY <2>1, NoValues DEF LunInv, Rows, LunTypeOK, AssignsNode, AssignPcs
  <2>3. Rows'
    BY <1>3, <2>2, RestartKeepsRows DEF LunInv
  <2>4. Exported' /\ Assigned'
    <3>1. Exported'
      BY <2>1, TargetLeft DEF LunInv
    <3>2. Assigned'
      BY <2>1 DEF Assigned, AclIsForOne, AssignedHasAcl
    <3> QED
      BY <3>1, <3>2
  <2> QED
    BY <2>3, <2>4 DEF LunInv
<1>4. CASE UNCHANGED lunVars
  <2>1. UNCHANGED <<lun, stores, exports, acls, backend, slot, past>>
    BY <1>4 DEF lunVars
  <2>2. Rows'
    BY <2>1 DEF LunInv, Rows, LunTypeOK, AssignsNode, NamesUnique, Worked, Serial, TasksNamed, HoldsRow, RowOf
  <2>3. Exported' /\ Assigned'
    BY <2>1 DEF LunInv, Exported, CreatedIsExported, ReadyIsExported, Assigned, AclIsForOne,
                AssignedHasAcl, Luns
  <2> QED
    BY <2>2, <2>3 DEF LunInv
<1> QED
  BY <1>1, <1>2, <1>3, <1>4, LunReadsKeep DEF LunsNext

\* The invariant says that the rows agree with the target.
LEMMA LunInvSuffices == LunInv => LunsAreTrue
<1> SUFFICES ASSUME LunInv
             PROVE  LunsAreTrue
  OBVIOUS
<1>1. StuckOnlyByRestart
  BY DEF LunInv, Rows, Worked, StuckOnlyByRestart, Luns, CreatePcs, DeletePcs, TaskPcs
<1> QED
  BY <1>1 DEF LunInv, Rows, Exported, Assigned, LunsAreTrue

\* However requests and background tasks interleave and whichever targetcli
\* commands fail, the rows of the LUNs agree with the target as far as
\* overlapping requests, renames and restarts let them (luns.py).
THEOREM LunsTrue == LunsSpec => []LunsAreTrue
<1>1. LunsSpec => []LunInv
  BY LunsInitInv, LunsStepInv, PTL DEF LunsSpec
<1> QED
  BY <1>1, LunInvSuffices, PTL

-----------------------------------------------------------------------------
(***************************************************************************)
(* NodeCommands: no command left for a node is carried out twice.          *)
(***************************************************************************)

\* The variables have their types, and every command on its way was sent.
CommandsSent ==
    /\ sent \subseteq Commands
    /\ runs \in [Commands -> Nat]
    /\ pending_command \in sent \union {NoCommand}
    /\ ipxe \in sent \union {NoCommand}
    /\ fetched \in sent \union {NoCommand}

\* A command in the answer to iPXE is in no other place: it was cleared when
\* the answer was made, iPXE has no second request open, and commands differ.
FetchedIsCleared ==
    fetched # NoCommand => ipxe = NoCommand /\ pending_command # fetched

CommandInv == CommandsSent /\ FetchedIsCleared /\ CommandsRunOnce

\* The invariant holds of a node without commands.
LEMMA CommandInitInv == CommandInit => CommandInv
  BY DEF CommandInit, CommandInv, CommandsSent, FetchedIsCleared, CommandsRunOnce

\* An admin sends a command: it is none that was sent before, so none that ran
\* or is on its way.
LEMMA SendKeeps ==
  ASSUME CommandInv, NEW c \in Commands, SendNodeCommand(c)
  PROVE  CommandInv'
  <1>1. CommandsSent'
    BY DEF CommandInv, CommandsSent, SendNodeCommand
  <1>2. FetchedIsCleared'
    BY CommandAssumption DEF CommandInv, CommandsSent, FetchedIsCleared, SendNodeCommand
  <1>3. CommandsRunOnce'
    BY DEF CommandInv, CommandsSent, CommandsRunOnce, SendNodeCommand
  <1> QED BY <1>1, <1>2, <1>3 DEF CommandInv

\* iPXE's request reads the column and later clears it; both need that a command
\* that ran is not in the column, which CommandsRunOnce says.
LEMMA BootStatusKeeps ==
  ASSUME CommandInv, BootStatusReads \/ BootStatusCommits
  PROVE  CommandInv'
  <1>1. CASE BootStatusReads
    BY <1>1 DEF CommandInv, CommandsSent, FetchedIsCleared, CommandsRunOnce, BootStatusReads
  <1>2. CASE BootStatusCommits
    <2>1. CommandsSent'
      BY <1>2 DEF CommandInv, CommandsSent, BootStatusCommits
    <2>2. FetchedIsCleared'
      BY <1>2 DEF CommandInv, CommandsSent, FetchedIsCleared, BootStatusCommits
    <2>3. CommandsRunOnce'
      BY <1>2, CommandAssumption DEF CommandInv, CommandsSent, CommandsRunOnce, BootStatusCommits
    <2> QED BY <2>1, <2>2, <2>3 DEF CommandInv
  <1> QED BY <1>1, <1>2

\* iPXE carries the command out: it had not run, and is nowhere else.
LEMMA ActKeeps ==
  ASSUME CommandInv, IpxeActs
  PROVE  CommandInv'
  <1>1. fetched \in Commands /\ fetched \in sent
    BY DEF CommandInv, CommandsSent, IpxeActs
  <1>2. CommandsSent'
    BY <1>1 DEF CommandInv, CommandsSent, IpxeActs
  <1>3. FetchedIsCleared'
    BY DEF FetchedIsCleared, IpxeActs
  <1>4. CommandsRunOnce'
    <2> SUFFICES ASSUME NEW c \in Commands, runs'[c] > 0
                 PROVE  runs'[c] = 1 /\ c \in sent' /\ c \notin {pending_command', ipxe', fetched'}
      BY DEF CommandsRunOnce
    <2>0. NoCommand # c
      BY CommandAssumption
    <2>1. CASE c = fetched
      <3>1. runs[c] = 0
        BY <2>1 DEF CommandInv, CommandsSent, CommandsRunOnce
      <3>2. runs'[c] = 1
        BY <2>1, <3>1 DEF CommandInv, CommandsSent, IpxeActs
      <3>3. c \notin {pending_command', ipxe', fetched'}
        BY <2>0, <2>1 DEF CommandInv, FetchedIsCleared, IpxeActs
      <3> QED BY <1>1, <2>1, <3>2, <3>3 DEF IpxeActs
    <2>2. CASE c # fetched
      <3>1. runs'[c] = runs[c]
        BY <2>2 DEF CommandInv, CommandsSent, IpxeActs
      <3> QED BY <2>0, <3>1 DEF CommandInv, CommandsRunOnce, IpxeActs
    <2> QED BY <2>1, <2>2
  <1> QED BY <1>2, <1>3, <1>4 DEF CommandInv

\* pureboot-pending.sh only empties the column.
LEMMA GetKeeps ==
  ASSUME CommandInv, GetNodeCommand
  PROVE  CommandInv'
  BY CommandAssumption
     DEF CommandInv, CommandsSent, FetchedIsCleared, CommandsRunOnce, GetNodeCommand

\* However the admin's requests, both pollers and lost answers interleave, no
\* command is carried out twice.
THEOREM CommandsOnce == CommandSpec => []CommandsRunOnce
  <1>1. CommandInv /\ [CommandNext]_commandVars => CommandInv'
    <2> SUFFICES ASSUME CommandInv, [CommandNext]_commandVars
                 PROVE  CommandInv'
      OBVIOUS
    <2>1. CASE \E c \in Commands : SendNodeCommand(c)
      BY <2>1, SendKeeps
    <2>2. CASE BootStatusReads \/ BootStatusCommits
      BY <2>2, BootStatusKeeps
    <2>3. CASE IpxeActs
      BY <2>3, ActKeeps
    <2>4. CASE GetNodeCommand
      BY <2>4, GetKeeps
    <2>5. CASE UNCHANGED commandVars
      BY <2>5 DEF CommandInv, CommandsSent, FetchedIsCleared, CommandsRunOnce, commandVars
    <2> QED BY <2>1, <2>2, <2>3, <2>4, <2>5 DEF CommandNext
  <1>2. CommandInv => CommandsRunOnce
    BY DEF CommandInv
  <1> QED BY CommandInitInv, <1>1, <1>2, PTL DEF CommandSpec

-----------------------------------------------------------------------------
(***************************************************************************)
(* NodeHealth: a node has at most one active alert of a type.              *)
(*                                                                         *)
(* A report and the health check each close or open alerts in one step; an *)
(* acknowledgement holds an alert between loading and committing it, and   *)
(* the invariant says that the alert it holds as active still is.          *)
(***************************************************************************)

Statuses == {"unknown", "healthy", "stale", "offline"}

\* The alerts of a node and a type, at most one of them active.
OneAlert == [active : {0, 1}, acked : BOOLEAN]

\* The variables have their types, a report's record among them.
HealthTypes ==
    /\ health \in [HealthNodes -> HealthRow]
    /\ check = NoCheck \/ check \in [pc : {"loaded"}, read : [HealthNodes -> HealthRow]]
    /\ report \in [HealthNodes -> [pc : {"idle", "loaded"}, status : Statuses]]

\* An alert an acknowledgement holds as active still is, so that closing it
\* leaves none.
AckIsCurrent ==
    /\ ack \in Ack
    /\ ack.live => alerts[ack.node][ack.type].active = 1

HealthInv ==
    /\ HealthTypes
    /\ alerts \in [HealthNodes -> [AlertTypes -> OneAlert]]
    /\ AckIsCurrent

\* The invariant says what the property says, and more.
LEMMA HealthInvSuffices == HealthInv => OneActiveAlert
  <1> SUFFICES ASSUME HealthInv
               PROVE  OneActiveAlert
    OBVIOUS
  <1>1. alerts \in [HealthNodes -> [AlertTypes -> [active : Nat, acked : BOOLEAN]]]
    BY DEF HealthInv, OneAlert
  <1>2. \A n \in HealthNodes : report[n].pc \in {"idle", "loaded"}
    BY DEF HealthInv, HealthTypes
  <1>3. \A n \in HealthNodes, t \in AlertTypes : alerts[n][t].active <= 1
    BY DEF HealthInv, OneAlert
  <1> QED BY <1>1, <1>2, <1>3
          DEF OneActiveAlert, NodeHealthTypeOK, HealthInv, HealthTypes, AckIsCurrent

\* _determine_health_status gives one of four verdicts.
LEMMA VerdictType ==
  ASSUME NEW row
  PROVE  DetermineHealthStatus(row) \in Statuses
  BY DEF DetermineHealthStatus, Statuses

\* A node that is seen, with whatever its events took off, has a row.
LEMMA SeenType ==
  ASSUME NEW row \in HealthRow, NEW p \in Penalties
  PROVE  /\ [row EXCEPT !.seen = TRUE, !.age = 0, !.penalty = p] \in HealthRow
         /\ [row EXCEPT !.seen = TRUE, !.age = 0] \in HealthRow
         /\ [row EXCEPT !.retired = TRUE] \in HealthRow
  <1>1. 0 \in 0 .. SilentAge
    BY NodeHealthAssumption DEF SilentAge
  <1> QED BY <1>1 DEF HealthRow

\* A node grows older by a tick, up to the age that counts as silent.
LEMMA AgeType ==
  ASSUME NEW row \in HealthRow
  PROVE  [row EXCEPT !.age = IF row.seen THEN Least(@ + 1, SilentAge) ELSE @] \in HealthRow
  <1>1. \A a \in 0 .. SilentAge : Least(a + 1, SilentAge) \in 0 .. SilentAge
    BY NodeHealthAssumption DEF Least, SilentAge
  <1>2. row.age \in 0 .. SilentAge
    BY DEF HealthRow
  <1> DEFINE a == IF row.seen THEN Least(row.age + 1, SilentAge) ELSE row.age
  <1>3. a \in 0 .. SilentAge
    BY <1>1, <1>2
  <1> HIDE DEF a
  <1>4. [row EXCEPT !.age = a] \in HealthRow
    BY <1>3 DEF HealthRow
  <1> QED BY <1>4 DEF a

\* update_node_health writes no other column than the status.
LEMMA UpdatesType ==
  ASSUME NEW now \in HealthRow, NEW judged, NEW loaded
  PROVE  Updates(now, judged, loaded) \in HealthRow
  BY VerdictType DEF Updates, HealthRow, Statuses

\* What raises and resolves an alert leaves at most one active.
LEMMA AlertChangeType ==
  ASSUME NEW a \in OneAlert
  PROVE  CreateAlertIfNew(a) \in OneAlert /\ ResolveAlert(a) \in OneAlert
  BY DEF CreateAlertIfNew, ResolveAlert, OneAlert

\* So does a whole check of a node.
LEMMA CheckedType ==
  ASSUME NEW row, NEW a \in [AlertTypes -> OneAlert]
  PROVE  Checked(row, a) \in [AlertTypes -> OneAlert]
  BY AlertChangeType DEF Checked

\* An acknowledgement that looks at the alerts after others changed them holds
\* as active only one that is.
LEMMA AckSeesCurrent ==
  ASSUME ack \in Ack, NEW new \in [HealthNodes -> [AlertTypes -> OneAlert]],
         alerts' = new, AckSees(new)
  PROVE  AckIsCurrent'
  <1>1. ack' \in Ack /\ ack'.node = ack.node /\ ack'.type = ack.type
    BY DEF AckSees, Ack
  <1>2. ack'.live => new[ack.node][ack.type].active > 0
    BY DEF AckSees, Ack
  <1>3. new[ack.node][ack.type].active \in {0, 1}
    BY DEF Ack, OneAlert
  <1> QED BY <1>1, <1>2, <1>3 DEF AckIsCurrent

\* A site without alerts satisfies the invariant.
LEMMA HealthInitInv == NodeHealthInit => HealthInv
  <1> SUFFICES ASSUME NodeHealthInit
               PROVE  HealthInv
    OBVIOUS
  <1>1. health \in [HealthNodes -> HealthRow]
    <2>1. \A p \in Penalties : [seen |-> FALSE, age |-> 0, status |-> "unknown",
                                penalty |-> p, retired |-> FALSE] \in HealthRow
      BY NodeHealthAssumption DEF HealthRow, SilentAge
    <2> QED BY <2>1 DEF NodeHealthInit
  <1>2. HealthTypes
    BY <1>1 DEF NodeHealthInit, HealthTypes, NoReport, Statuses
  <1>3. AckIsCurrent
    BY NodeHealthAssumption DEF NodeHealthInit, AckIsCurrent, Ack, NoAck, AlertTypes
  <1>4. alerts \in [HealthNodes -> [AlertTypes -> OneAlert]]
    BY DEF NodeHealthInit, OneAlert
  <1> QED BY <1>2, <1>3, <1>4 DEF HealthInv

\* The check writes what it concludes from rows it read earlier.
LEMMA CheckKeeps ==
  ASSUME HealthInv, CheckReads \/ CheckCommits
  PROVE  HealthInv'
  <1>1. CASE CheckReads
    BY <1>1 DEF CheckReads, HealthInv, HealthTypes, AckIsCurrent
  <1>2. CASE CheckCommits
    <2> DEFINE nodes == {n \in HealthNodes : ~check.read[n].retired}
               fails == \E n \in nodes, t \in AlertTypes : alerts[n][t].active > 1
               new == [n \in HealthNodes |->
                         IF n \in nodes /\ ~fails THEN Checked(check.read[n], alerts[n])
                         ELSE alerts[n]]
    <2>1. new \in [HealthNodes -> [AlertTypes -> OneAlert]]
      BY CheckedType DEF HealthInv
    <2>2. alerts' = new /\ AckSees(new) /\ check' = NoCheck /\ report' = report
      BY <1>2 DEF CheckCommits
    <2>3. health' \in [HealthNodes -> HealthRow]
      BY <1>2, UpdatesType DEF CheckCommits, HealthInv, HealthTypes
    <2> HIDE DEF new
    <2>4. AckIsCurrent'
      BY <2>1, <2>2, AckSeesCurrent DEF HealthInv, AckIsCurrent
    <2> QED BY <2>1, <2>2, <2>3, <2>4 DEF HealthInv, HealthTypes
  <1> QED BY <1>1, <1>2

\* A report resolves the alerts of the node's silence.
LEMMA ReportKeeps ==
  ASSUME HealthInv, NEW n \in HealthNodes, ReportReads(n) \/ ReportCommits(n)
  PROVE  HealthInv'
  <1>1. CASE ReportReads(n)
    BY <1>1 DEF ReportReads, HealthInv, HealthTypes, AckIsCurrent, HealthRow, Statuses
  <1>2. CASE ReportCommits(n)
    <2> DEFINE new == [alerts EXCEPT ![n]["node_stale"] = ResolveAlert(@),
                                     ![n]["node_offline"] = ResolveAlert(@)]
    <2>1. new \in [HealthNodes -> [AlertTypes -> OneAlert]]
      BY AlertChangeType DEF HealthInv, AlertTypes
    <2>2. alerts' = new /\ AckSees(new) /\ check' = check
          /\ report' = [report EXCEPT ![n] = NoReport]
      BY <1>2 DEF ReportCommits
    <2>3. health' \in [HealthNodes -> HealthRow]
      <3>1. PICK p \in Penalties :
              LET row == [health[n] EXCEPT !.seen = TRUE, !.age = 0, !.penalty = p]
              IN  health' = [health EXCEPT ![n] = Updates(row, row, report[n].status)]
        BY <1>2 DEF ReportCommits
      <3> DEFINE row == [health[n] EXCEPT !.seen = TRUE, !.age = 0, !.penalty = p]
      <3>2. row \in HealthRow
        BY SeenType DEF HealthInv, HealthTypes
      <3>3. health' = [health EXCEPT ![n] = Updates(row, row, report[n].status)]
        BY <3>1
      <3> HIDE DEF row
      <3> QED BY <3>2, <3>3, UpdatesType DEF HealthInv, HealthTypes
    <2> HIDE DEF new
    <2>4. AckIsCurrent'
      BY <2>1, <2>2, AckSeesCurrent DEF HealthInv, AckIsCurrent
    <2>5. HealthTypes'
      BY <2>2, <2>3 DEF HealthInv, HealthTypes, NoReport, Statuses
    <2> QED BY <2>1, <2>2, <2>4, <2>5 DEF HealthInv
  <1> QED BY <1>1, <1>2

\* An acknowledgement takes back only an alert that is still active.
LEMMA AcknowledgeKeeps ==
  ASSUME HealthInv, (\E n \in HealthNodes, t \in AlertTypes : AcknowledgeReads(n, t))
                    \/ AcknowledgeCommits
  PROVE  HealthInv'
  <1>1. ASSUME NEW n \in HealthNodes, NEW t \in AlertTypes, AcknowledgeReads(n, t)
        PROVE  HealthInv'
    <2>1. alerts[n][t].active \in {0, 1}
      BY DEF HealthInv, OneAlert
    <2>2. AckIsCurrent'
      BY <1>1, <2>1 DEF AcknowledgeReads, AckIsCurrent, Ack
    <2> QED BY <1>1, <2>2 DEF AcknowledgeReads, HealthInv, HealthTypes
  <1>2. CASE AcknowledgeCommits
    <2> DEFINE n == ack.node
               t == ack.type
               marked == [alerts EXCEPT ![n][t].acked = TRUE]
               left == IF ack.live THEN marked[n][t].active - 1 ELSE marked[n][t].active
               a == [marked[n][t] EXCEPT !.active = left]
    <2>1. n \in HealthNodes /\ t \in AlertTypes /\ alerts[n][t] \in OneAlert
      BY DEF HealthInv, AckIsCurrent, Ack
    <2>2. marked = [alerts EXCEPT ![n] = [alerts[n] EXCEPT ![t] =
                      [alerts[n][t] EXCEPT !.acked = TRUE]]]
      OBVIOUS
    <2>3. [alerts[n][t] EXCEPT !.acked = TRUE] \in OneAlert
      BY <2>1 DEF OneAlert
    <2>4. marked \in [HealthNodes -> [AlertTypes -> OneAlert]]
      BY <2>1, <2>2, <2>3 DEF HealthInv
    <2>5. marked[n][t].active = alerts[n][t].active
      BY <2>1, <2>2 DEF HealthInv, OneAlert
    <2>6. left \in {0, 1}
      BY <2>1, <2>5 DEF HealthInv, AckIsCurrent, OneAlert
    <2>7. alerts' = [marked EXCEPT ![n] = [marked[n] EXCEPT ![t] = a]]
      BY <1>2 DEF AcknowledgeCommits
    <2> HIDE DEF marked, left
    <2>8. a \in OneAlert
      BY <2>1, <2>4, <2>6 DEF OneAlert
    <2> HIDE DEF a, n, t
    <2>9. alerts' \in [HealthNodes -> [AlertTypes -> OneAlert]]
      BY <2>1, <2>4, <2>7, <2>8
    <2>10. AckIsCurrent'
      BY <1>2, NodeHealthAssumption DEF AcknowledgeCommits, AckIsCurrent, Ack, NoAck, AlertTypes
    <2> QED BY <1>2, <2>9, <2>10 DEF AcknowledgeCommits, HealthInv, HealthTypes
  <1> QED BY <1>1, <1>2

\* A boot, a retirement and the passing of time touch the node row only.
LEMMA RowOnlyKeeps ==
  ASSUME HealthInv, health' \in [HealthNodes -> HealthRow],
         UNCHANGED <<alerts, check, report, ack>>
  PROVE  HealthInv'
  BY DEF HealthInv, HealthTypes, AckIsCurrent

\* However the hourly check, the nodes' reports and an administrator's
\* acknowledgement interleave, no node has two active alerts of a type.
THEOREM AlertsUnique == NodeHealthSpec => []OneActiveAlert
  <1>1. HealthInv /\ [NodeHealthNext]_healthVars => HealthInv'
    <2> SUFFICES ASSUME HealthInv, [NodeHealthNext]_healthVars
                 PROVE  HealthInv'
      OBVIOUS
    <2>1. CASE CheckReads \/ CheckCommits
      BY <2>1, CheckKeeps
    <2>2. ASSUME NEW n \in HealthNodes, ReportReads(n) \/ ReportCommits(n)
          PROVE  HealthInv'
      BY <2>2, ReportKeeps
    <2>3. CASE AcknowledgeCommits \/ \E n \in HealthNodes, t \in AlertTypes : AcknowledgeReads(n, t)
      BY <2>3, AcknowledgeKeeps
    <2>4. ASSUME NEW n \in HealthNodes, BootSeen(n) \/ RetireHealth(n)
          PROVE  HealthInv'
      <3>1. health' \in [HealthNodes -> HealthRow]
        <4>1. health[n] \in HealthRow /\ \E p \in Penalties : TRUE
          BY DEF HealthInv, HealthTypes, HealthRow
        <4>2. CASE BootSeen(n)
          <5>1. health' = [health EXCEPT ![n] = [health[n] EXCEPT !.seen = TRUE, !.age = 0]]
            BY <4>1, <4>2 DEF BootSeen, HealthInv, HealthTypes
          <5> QED BY <4>1, <5>1, SeenType DEF HealthInv, HealthTypes
        <4>3. CASE RetireHealth(n)
          BY <4>1, <4>3, SeenType DEF RetireHealth, HealthInv, HealthTypes
        <4> QED BY <2>4, <4>2, <4>3
      <3> QED BY <2>4, <3>1, RowOnlyKeeps DEF BootSeen, RetireHealth
    <2>5. CASE HealthTick
      <3>1. health' \in [HealthNodes -> HealthRow]
        BY <2>5, AgeType DEF HealthTick, HealthInv, HealthTypes
      <3> QED BY <2>5, <3>1, RowOnlyKeeps DEF HealthTick
    <2>6. CASE UNCHANGED healthVars
      BY <2>6, RowOnlyKeeps DEF healthVars, HealthInv, HealthTypes
    <2> QED BY <2>1, <2>2, <2>3, <2>4, <2>5, <2>6 DEF NodeHealthNext
  <1> QED BY HealthInitInv, HealthInvSuffices, <1>1, PTL DEF NodeHealthSpec

-----------------------------------------------------------------------------
(***************************************************************************)
(* GroupTree: as long as only rows below a group were rewritten with it,   *)
(* every path is the parent's with a slash and a name more; so a parent's  *)
(* path is shorter, and a walk up the parents ends.                        *)
(*                                                                         *)
(* The heart of it: the path of a row below begins with the path that is   *)
(* looked for, so the first place where str.replace finds it is the        *)
(* beginning, and replacing there commutes with adding to the end.         *)
(***************************************************************************)

\* A set of numbers that is not empty has a smallest.
LEMMA SmallestOfNumbers ==
    ASSUME NEW S, S \subseteq Nat, S # {}
    PROVE  \E m \in S : \A n \in S : m <= n
<1>1. PICK m \in S : \A n \in S : ~(<<n, m>> \in OpToRel(<, Nat))
  BY WFMin, NatLessThanWellFounded, Zenon
<1>2. \A n \in S : ~(n < m)
  BY <1>1 DEF OpToRel
<1>3. \A n \in S : m <= n
  BY <1>2
<1> QED
  BY <1>3

\* A path that contains another contains it at a first place.
LEMMA FirstOccurrence ==
    ASSUME NEW path \in Seq(Chars), NEW old, \E i \in DOMAIN path : Occurs(path, old, i)
    PROVE  \E i \in DOMAIN path :
              Occurs(path, old, i) /\ \A k \in 1 .. (i - 1) : ~Occurs(path, old, k)
<1> DEFINE S == {i \in DOMAIN path : Occurs(path, old, i)}
<1>1. S \subseteq Nat /\ S # {}
  OBVIOUS
<1>2. PICK m \in S : \A n \in S : m <= n
  <2> HIDE DEF S
  <2> QED BY <1>1, SmallestOfNumbers
<1>3. \A k \in 1 .. (m - 1) : k \in DOMAIN path /\ ~(m <= k)
  OBVIOUS
<1>4. \A k \in 1 .. (m - 1) : ~Occurs(path, old, k)
  BY <1>2, <1>3
<1> QED
  BY <1>2, <1>4

\* Replace works at the first place ...
LEMMA ReplaceAt ==
    ASSUME NEW path \in Seq(Chars), NEW old, NEW new, NEW i \in DOMAIN path,
           Occurs(path, old, i), \A k \in 1 .. (i - 1) : ~Occurs(path, old, k)
    PROVE  Replace(path, old, new) =
              SubSeq(path, 1, i - 1) \o new \o SubSeq(path, i + Len(old), Len(path))
<1> DEFINE First(j) == Occurs(path, old, j) /\ \A k \in 1 .. (j - 1) : ~Occurs(path, old, k)
           c == CHOOSE j \in DOMAIN path : First(j)
<1>1. c \in DOMAIN path /\ First(c)
  OBVIOUS
<1>2. Replace(path, old, new) =
              SubSeq(path, 1, c - 1) \o new \o SubSeq(path, c + Len(old), Len(path))
  BY DEF Replace
<1>3. c = i
  <2> HIDE DEF c
  <2>1. c \in Nat /\ i \in Nat /\ c >= 1 /\ i >= 1
    BY <1>1
  <2>2. ~(c < i) /\ ~(i < c)
    BY <1>1, <2>1
  <2> QED BY <2>1, <2>2
<1> HIDE DEF c
<1> QED
  BY <1>2, <1>3

\* ... and leaves a path alone in which there is none.
LEMMA ReplaceNone ==
    ASSUME NEW path, NEW old, NEW new, ~\E i \in DOMAIN path : Occurs(path, old, i)
    PROVE  Replace(path, old, new) = path
  BY DEF Replace

\* What Replace makes is a path.
LEMMA ReplaceType ==
    ASSUME NEW path \in Seq(Chars), NEW old \in Seq(Chars), NEW new \in Seq(Chars)
    PROVE  Replace(path, old, new) \in Seq(Chars)
<1>1. CASE \E i \in DOMAIN path : Occurs(path, old, i)
  <2>1. PICK i \in DOMAIN path :
          Occurs(path, old, i) /\ \A k \in 1 .. (i - 1) : ~Occurs(path, old, k)
    BY <1>1, FirstOccurrence
  <2>2. SubSeq(path, 1, i - 1) \in Seq(Chars)
    BY SubSeqProperties
  <2>3. SubSeq(path, i + Len(old), Len(path)) \in Seq(Chars)
    <3>1. i \in Nat /\ i >= 1 /\ Len(old) \in Nat /\ Len(path) \in Nat
      OBVIOUS
    <3>2. \A j \in (i + Len(old)) .. Len(path) : path[j] \in Chars
      BY <3>1
    <3> QED BY <3>1, <3>2, SubSeqProperties
  <2>4. SubSeq(path, 1, i - 1) \o new \in Seq(Chars)
    BY <2>2, ConcatProperties
  <2> DEFINE x == SubSeq(path, 1, i - 1) \o new
             y == SubSeq(path, i + Len(old), Len(path))
  <2>5. x \o y \in Seq(Chars)
    <3>1. x \in Seq(Chars) /\ y \in Seq(Chars)
      BY <2>3, <2>4
    <3> HIDE DEF x, y
    <3> QED BY <3>1, ConcatProperties
  <2> QED BY <2>1, <2>5, ReplaceAt
<1>2. CASE ~\E i \in DOMAIN path : Occurs(path, old, i)
  BY <1>2, ReplaceNone
<1> QED BY <1>1, <1>2

\* In a path that begins with another, the beginning is replaced.
LEMMA ReplaceBeginning ==
    ASSUME NEW path \in Seq(Chars), NEW old \in Seq(Chars), NEW new \in Seq(Chars),
           StartsWith(path, old)
    PROVE  Replace(path, old, new) = new \o SubSeq(path, Len(old) + 1, Len(path))
<1>1. /\ Len(path) \in Nat /\ Len(old) \in Nat /\ Len(path) > Len(old)
      /\ DOMAIN path = 1 .. Len(path) /\ DOMAIN old = 1 .. Len(old)
      /\ \A i \in 1 .. Len(old) : path[i] = old[i]
  BY DEF StartsWith
<1>2. Occurs(path, old, 1)
  BY <1>1 DEF Occurs
<1>3. 1 \in DOMAIN path /\ \A k \in 1 .. (1 - 1) : ~Occurs(path, old, k)
  BY <1>1
<1>4. Replace(path, old, new) = SubSeq(path, 1, 1 - 1) \o new \o SubSeq(path, 1 + Len(old), Len(path))
  BY <1>2, <1>3, ReplaceAt
<1>5. SubSeq(path, 1, 1 - 1) = <<>> /\ 1 + Len(old) = Len(old) + 1
  BY <1>1, SubSeqEmpty
<1>6. <<>> \o new = new
  BY ConcatEmptySeq
<1> QED
  BY <1>4, <1>5, <1>6

\* Two paths joined, place by place.
LEMMA ConcatPlaces ==
    ASSUME NEW h \in Seq(Chars), NEW t \in Seq(Chars), NEW n, NEW m, Len(h) = n, Len(t) = m
    PROVE  /\ h \o t \in Seq(Chars) /\ Len(h \o t) = n + m
           /\ \A i \in 1 .. (n + m) : (h \o t)[i] = IF i <= n THEN h[i] ELSE t[i - n]
  BY ConcatProperties

\* What follows the beginning of a path keeps what is added to the path, and so
\* does the path with another beginning.
LEMMA RestOfConcat ==
    ASSUME NEW path \in Seq(Chars), NEW x \in Seq(Chars), NEW new \in Seq(Chars),
           NEW k \in 0 .. Len(path)
    PROVE  new \o SubSeq(path \o x, k + 1, Len(path \o x)) = (new \o SubSeq(path, k + 1, Len(path))) \o x
<1> DEFINE long == path \o x
           t == SubSeq(path, k + 1, Len(path))
           tl == SubSeq(long, k + 1, Len(long))
           m == Len(path) - k
           n == Len(new)
           d == Len(x)
           e == Len(path)
<1>1. m \in Nat /\ n \in Nat /\ d \in Nat /\ e \in Nat /\ k \in Nat /\ e = k + m
  OBVIOUS
<1>2. /\ long \in Seq(Chars) /\ Len(long) = e + d
      /\ \A i \in 1 .. (e + d) : long[i] = IF i <= e THEN path[i] ELSE x[i - e]
  BY ConcatProperties
<1>3. /\ t \in Seq(Chars) /\ Len(t) = m /\ \A j \in 1 .. m : t[j] = path[k + j]
  <2>1. \A j \in (k + 1) .. Len(path) : path[j] \in Chars
    BY <1>1
  <2>2. k + 1 \in Int /\ Len(path) \in Int
    BY <1>1
  <2>3. /\ t \in Seq(Chars)
        /\ Len(t) = IF k + 1 <= Len(path) THEN Len(path) - (k + 1) + 1 ELSE 0
        /\ \A j \in 1 .. (Len(path) - (k + 1) + 1) : t[j] = path[(k + 1) + j - 1]
    BY <2>1, <2>2, SubSeqProperties
  <2>4. Len(t) = m
    <3>1. Len(t) = IF k + 1 <= e THEN (e - (k + 1)) + 1 ELSE 0
      BY <2>3
    <3> HIDE DEF t, m, e
    <3> QED BY <1>1, <3>1
  <2> HIDE DEF t
  <2>5. ASSUME NEW j \in 1 .. m PROVE t[j] = path[k + j]
    <3>1. j \in 1 .. (Len(path) - (k + 1) + 1) /\ (k + 1) + j - 1 = k + j
      BY <1>1
    <3> QED BY <2>3, <3>1
  <2> QED BY <2>3, <2>4, <2>5
<1> HIDE DEF long
<1>4. /\ tl \in Seq(Chars) /\ Len(tl) = m + d /\ \A j \in 1 .. (m + d) : tl[j] = long[k + j]
  <2> DEFINE z == Len(long)
  <2>0. z = e + d /\ z \in Nat
    BY <1>1, <1>2
  <2>1. \A j \in (k + 1) .. z : long[j] \in Chars
    BY <1>1, <1>2
  <2>2. k + 1 \in Int /\ z \in Int
    BY <1>1, <1>2
  <2>3. /\ tl \in Seq(Chars)
        /\ Len(tl) = IF k + 1 <= z THEN z - (k + 1) + 1 ELSE 0
        /\ \A j \in 1 .. (z - (k + 1) + 1) : tl[j] = long[(k + 1) + j - 1]
    BY <2>1, <2>2, SubSeqProperties
  <2> HIDE DEF tl, z
  <2>4. Len(tl) = m + d
    BY <1>1, <2>0, <2>3
  <2>5. ASSUME NEW j \in 1 .. (m + d) PROVE tl[j] = long[k + j]
    <3>1. j \in 1 .. (z - (k + 1) + 1) /\ (k + 1) + j - 1 = k + j
      BY <1>1, <2>0
    <3> QED BY <2>3, <3>1
  <2> QED BY <2>3, <2>4, <2>5
<1> HIDE DEF t, tl
<1> DEFINE nt == new \o t
           l == new \o tl
           r == nt \o x
<1>5. /\ nt \in Seq(Chars) /\ Len(nt) = n + m
      /\ \A i \in 1 .. (n + m) : nt[i] = IF i <= n THEN new[i] ELSE t[i - n]
  <2>1. Len(new) = n
    OBVIOUS
  <2> HIDE DEF n, m
  <2> QED BY <1>3, <2>1, ConcatPlaces
<1>6. /\ l \in Seq(Chars) /\ Len(l) = n + (m + d)
      /\ \A i \in 1 .. (n + (m + d)) : l[i] = IF i <= n THEN new[i] ELSE tl[i - n]
  <2>1. Len(new) = n
    OBVIOUS
  <2> DEFINE md == m + d
  <2>2. tl \in Seq(Chars) /\ Len(tl) = md
    BY <1>4
  <2> HIDE DEF n, md
  <2>3. /\ new \o tl \in Seq(Chars) /\ Len(new \o tl) = n + md
        /\ \A i \in 1 .. (n + md) : (new \o tl)[i] = IF i <= n THEN new[i] ELSE tl[i - n]
    BY <2>1, <2>2, ConcatPlaces
  <2> QED BY <2>3 DEF md
<1> HIDE DEF nt
<1>7. /\ r \in Seq(Chars) /\ Len(r) = (n + m) + d
      /\ \A i \in 1 .. ((n + m) + d) : r[i] = IF i <= n + m THEN nt[i] ELSE x[i - (n + m)]
  <2>1. Len(x) = d
    OBVIOUS
  <2> DEFINE nm == n + m
  <2>2. nt \in Seq(Chars) /\ Len(nt) = nm
    BY <1>5
  <2> HIDE DEF d, nm
  <2>3. /\ nt \o x \in Seq(Chars) /\ Len(nt \o x) = nm + d
        /\ \A i \in 1 .. (nm + d) : (nt \o x)[i] = IF i <= nm THEN nt[i] ELSE x[i - nm]
    BY <2>1, <2>2, ConcatPlaces
  <2> QED BY <2>3 DEF nm
<1> HIDE DEF l, r, m, n, d, e
<1>8. ASSUME NEW i \in 1 .. (n + (m + d)) PROVE l[i] = r[i]
  <2>1. i \in 1 .. ((n + m) + d)
    BY <1>1
  <2>2. CASE i <= n
    <3>1. i \in 1 .. (n + m) /\ i <= n + m
      BY <1>1, <2>2
    <3> QED BY <1>5, <1>6, <1>7, <2>1, <2>2, <3>1
  <2>3. CASE ~(i <= n) /\ i <= n + m
    <3>1. /\ i \in 1 .. (n + m) /\ (i - n) \in 1 .. m /\ (i - n) \in 1 .. (m + d)
          /\ k + (i - n) <= e /\ k + (i - n) \in 1 .. (e + d)
      BY <1>1, <2>3
    <3>2. r[i] = path[k + (i - n)]
      BY <1>3, <1>5, <1>7, <2>1, <2>3, <3>1
    <3>3. l[i] = long[k + (i - n)]
      BY <1>4, <1>6, <2>3, <3>1
    <3> QED BY <1>2, <3>1, <3>2, <3>3
  <2>4. CASE ~(i <= n + m)
    <3>1. /\ ~(i <= n) /\ (i - n) \in 1 .. (m + d) /\ ~(k + (i - n) <= e)
          /\ k + (i - n) \in 1 .. (e + d) /\ (k + (i - n)) - e = i - (n + m)
      BY <1>1, <2>4
    <3>2. l[i] = long[k + (i - n)]
      BY <1>4, <1>6, <3>1
    <3>3. long[k + (i - n)] = x[(k + (i - n)) - e]
      <4> DEFINE j == k + (i - n)
      <4>1. j \in 1 .. (e + d) /\ ~(j <= e)
        BY <3>1
      <4> HIDE DEF j
      <4>2. long[j] = x[j - e]
        BY <1>2, <4>1
      <4> QED BY <4>2 DEF j
    <3> QED BY <1>7, <2>1, <2>4, <3>1, <3>2, <3>3
  <2> QED BY <2>2, <2>3, <2>4
<1>9. l = r
  <2>1. n + (m + d) = (n + m) + d
    BY <1>1
  <2> QED BY <1>6, <1>7, <1>8, <2>1, SeqEqual
<1> QED
  BY <1>9 DEF l, r, nt, t, tl, long

\* What is below a path is below it with more at the end, and a child is below.
LEMMA StartsConcat ==
    ASSUME NEW path \in Seq(Chars), NEW x \in Seq(Chars), NEW old \in Seq(Chars)
    PROVE  /\ StartsWith(path, old) => StartsWith(path \o x, old)
           /\ path = old /\ x # <<>> /\ x[1] = Slash => StartsWith(path \o x, old)
<1>1. /\ Len(path \o x) = Len(path) + Len(x)
      /\ \A i \in 1 .. (Len(path) + Len(x)) :
            (path \o x)[i] = IF i <= Len(path) THEN path[i] ELSE x[i - Len(path)]
  BY ConcatProperties
<1>2. Len(path) \in Nat /\ Len(x) \in Nat /\ Len(old) \in Nat /\ DOMAIN old = 1 .. Len(old)
  OBVIOUS
<1> DEFINE long == path \o x
<1> HIDE DEF long
<1>3. ASSUME StartsWith(path, old) PROVE StartsWith(long, old)
  <2>1. Len(long) > Len(old) /\ Len(old) + 1 <= Len(path)
    BY <1>1, <1>2, <1>3 DEF StartsWith, long
  <2>2. \A i \in 1 .. Len(path) : long[i] = path[i]
    BY <1>1, <1>2 DEF long
  <2> QED BY <1>2, <1>3, <2>1, <2>2 DEF StartsWith
<1>4. ASSUME path = old, x # <<>>, x[1] = Slash PROVE StartsWith(long, old)
  <2>1. Len(x) >= 1
    BY <1>2, <1>4, EmptySeq
  <2>2. Len(long) > Len(old)
    BY <1>1, <1>2, <1>4, <2>1 DEF long
  <2>3. \A i \in 1 .. Len(old) : long[i] = old[i]
    BY <1>1, <1>2, <1>4 DEF long
  <2>4. long[Len(old) + 1] = Slash
    <3>1. /\ Len(old) + 1 \in 1 .. (Len(path) + Len(x)) /\ ~(Len(old) + 1 <= Len(path))
          /\ Len(old) + 1 - Len(path) = 1
      BY <1>2, <1>4, <2>1
    <3> QED BY <1>1, <1>4, <3>1 DEF long
  <2> QED BY <1>2, <2>2, <2>3, <2>4 DEF StartsWith
<1> QED
  BY <1>3, <1>4 DEF long

\* What lies below is found.
LEMMA StartsIsLike ==
    ASSUME NEW path, NEW old, StartsWith(path, old)
    PROVE  LikeStartsWith(path, old)
  BY DEF StartsWith, LikeStartsWith

-----------------------------------------------------------------------------
(* The inductive invariant                                                  *)

TreeInv == GroupTreeTypeOK /\ ReferencesExist /\ (~mistaken => PathsFollow /\ DepthsFollow)

\* What is known of the rows one by one.
LEMMA TreeRows ==
    ASSUME TreeInv
    PROVE  /\ group \in [Groups -> Row] /\ groupOf \in [GroupNodes -> AnyGroup] /\ mistaken \in BOOLEAN
           /\ \A g \in Groups : /\ group[g] \in Row /\ group[g].path \in Seq(Chars)
                                /\ group[g].name \in Names /\ group[g].name \in Seq(Chars)
                                /\ group[g].depth \in Int /\ group[g].parent \in AnyGroup
           /\ \A g \in Existing : g \in Groups /\ g # NoGroup
           /\ \A g \in Existing : group[g].parent # NoGroup => group[g].parent \in Existing
  BY GroupTreeAssumption DEF TreeInv, GroupTreeTypeOK, Row, Existing, ReferencesExist

\* What a child's path adds to the parent's.
LEMMA Added ==
    ASSUME NEW name \in Names
    PROVE  /\ <<Slash>> \o name \in Seq(Chars) /\ <<Slash>> \o name # <<>>
           /\ (<<Slash>> \o name)[1] = Slash /\ Len(<<Slash>> \o name) = Len(name) + 1
           /\ \A i \in 1 .. Len(name) : (<<Slash>> \o name)[i + 1] = name[i]
<1>1. <<Slash>> \in Seq(Chars) /\ Len(<<Slash>>) = 1 /\ <<Slash>>[1] = Slash /\ name \in Seq(Chars)
  BY GroupTreeAssumption
<1> DEFINE s == <<Slash>>
           n == Len(name)
<1>2. n \in Nat
  BY <1>1
<1> HIDE DEF s, n
<1>3. /\ s \o name \in Seq(Chars) /\ Len(s \o name) = 1 + n
      /\ \A i \in 1 .. (1 + n) : (s \o name)[i] = IF i <= 1 THEN s[i] ELSE name[i - 1]
  BY <1>1, ConcatPlaces DEF s, n
<1> DEFINE x == s \o name
<1> HIDE DEF x
<1>4. x[1] = Slash
  <2>1. 1 \in 1 .. (1 + n)
    BY <1>2
  <2> QED BY <1>1, <1>3, <2>1 DEF s, x
<1>5. ASSUME NEW i \in 1 .. n PROVE x[i + 1] = name[i]
  <2>1. i + 1 \in 1 .. (1 + n) /\ ~(i + 1 <= 1) /\ (i + 1) - 1 = i
    BY <1>2
  <2> QED BY <1>3, <2>1 DEF x
<1>6. Len(x) = n + 1 /\ x # <<>>
  <2>1. Len(x) = n + 1 /\ x \in Seq(Chars)
    BY <1>2, <1>3 DEF x
  <2> QED BY <1>2, <2>1, EmptySeq
<1> QED
  BY <1>3, <1>4, <1>5, <1>6 DEF x, s, n

\* The path of a row with a parent, as long as there was no mistake.
LEMMA ChildPath ==
    ASSUME TreeInv, ~mistaken, NEW c \in Existing, group[c].parent # NoGroup
    PROVE  /\ group[c].parent \in Existing
           /\ group[c].path = group[group[c].parent].path \o (<<Slash>> \o group[c].name)
           /\ group[c].depth = group[group[c].parent].depth + 1
           /\ Len(group[c].path) > Len(group[group[c].parent].path)
<1>1. /\ group[c].parent \in Existing
      /\ group[c].path = group[group[c].parent].path \o (<<Slash>> \o group[c].name)
      /\ group[c].depth = group[group[c].parent].depth + 1
  BY TreeRows DEF TreeInv, PathsFollow, DepthsFollow, PathUnder, DepthUnder
<1> DEFINE q == group[group[c].parent].path
           x == <<Slash>> \o group[c].name
<1>2. q \in Seq(Chars) /\ group[c].name \in Names /\ Len(group[c].name) \in Nat
  BY <1>1, TreeRows
<1>3. x \in Seq(Chars) /\ Len(x) >= 1
  BY <1>2, Added
<1> HIDE DEF q, x
<1>4. Len(q \o x) = Len(q) + Len(x)
  BY <1>2, <1>3, ConcatProperties
<1>5. Len(q \o x) > Len(q)
  BY <1>2, <1>3, <1>4
<1> QED
  BY <1>1, <1>5 DEF q, x

\* What was found and is no stray is below, and is found with its children.
LEMMA FoundIsBelow ==
    ASSUME TreeInv, ~mistaken, NEW g \in Existing, Strays(g) = {}, NEW c \in Existing
    PROVE  /\ g \notin Found(g)
           /\ c \in Found(g) => StartsWith(group[c].path, group[g].path)
           /\ group[c].parent # NoGroup =>
                (c \in Found(g) <=> group[c].parent \in Found(g) \union {g})
<1>1. g \notin Found(g)
  <2>1. Len(group[g].path) \in Nat
    BY TreeRows
  <2> QED BY <2>1 DEF Found, LikeStartsWith
<1>2. c \in Found(g) => /\ StartsWith(group[c].path, group[g].path)
                        /\ group[c].parent \in Found(g) \union {g, NoGroup}
  BY DEF Strays
<1>3. ASSUME group[c].parent # NoGroup, group[c].parent \in Found(g) \union {g} PROVE c \in Found(g)
  <2> DEFINE q == group[c].parent
             x == <<Slash>> \o group[c].name
             old == group[g].path
  <2>1. q \in Existing /\ group[c].path = group[q].path \o x
    BY <1>3, ChildPath
  <2>2. group[q].path \in Seq(Chars) /\ old \in Seq(Chars)
    BY <2>1, TreeRows
  <2>3. x \in Seq(Chars) /\ x # <<>> /\ x[1] = Slash
    BY Added, TreeRows
  <2>4. q # g => StartsWith(group[q].path, old)
    BY <1>3 DEF Strays
  <2> HIDE DEF x, q, old
  <2>5. StartsWith(group[q].path \o x, old)
    <3>1. CASE q = g
      BY <2>2, <2>3, <3>1, StartsConcat DEF old
    <3>2. CASE q # g
      BY <2>2, <2>3, <2>4, <3>2, StartsConcat
    <3> QED BY <3>1, <3>2
  <2>6. LikeStartsWith(group[c].path, old)
    BY <2>1, <2>5, StartsIsLike
  <2> QED BY <2>6 DEF Found, old
<1> QED
  BY <1>1, <1>2, <1>3

\* The rows after those found were rewritten.
LEMMA RewrittenRows ==
    ASSUME TreeInv, NEW g \in Groups, NEW new \in Seq(Chars), NEW diff \in Int
    PROVE  /\ Rewritten(g, new, diff) \in [Groups -> Row]
           /\ \A c \in Groups :
                LET r == Rewritten(g, new, diff)[c] IN
                /\ r.exists = group[c].exists /\ r.name = group[c].name /\ r.parent = group[c].parent
                /\ c \in Found(g) => /\ r.path = Replace(group[c].path, group[g].path, new)
                                     /\ r.depth = group[c].depth + diff
                /\ c \notin Found(g) => r = group[c]
<1> DEFINE rows == Rewritten(g, new, diff)
           y(c) == [group[c] EXCEPT !.path = Replace(@, group[g].path, new), !.depth = @ + diff]
<1>1. /\ rows = [c \in Groups |-> IF c \in Found(g) THEN y(c) ELSE group[c]]
  BY DEF Rewritten
<1>2. ASSUME NEW c \in Groups
      PROVE  /\ y(c) \in Row /\ y(c).exists = group[c].exists /\ y(c).name = group[c].name
             /\ y(c).parent = group[c].parent
             /\ y(c).path = Replace(group[c].path, group[g].path, new)
             /\ y(c).depth = group[c].depth + diff
  <2>1. group[c] \in Row /\ group[c].path \in Seq(Chars) /\ group[g].path \in Seq(Chars)
        /\ group[c].depth \in Int /\ group[c].depth + diff \in Int
    BY TreeRows
  <2> DEFINE z == Replace(group[c].path, group[g].path, new)
             d == group[c].depth + diff
  <2>2. z \in Seq(Chars) /\ d \in Int
    BY <2>1, ReplaceType
  <2>3. y(c) = [group[c] EXCEPT !.path = z, !.depth = d]
    OBVIOUS
  <2> HIDE DEF z, d, y
  <2>4. /\ y(c) \in Row /\ y(c).exists = group[c].exists /\ y(c).name = group[c].name
        /\ y(c).parent = group[c].parent /\ y(c).path = z /\ y(c).depth = d
    BY <2>1, <2>2, <2>3 DEF Row
  <2> QED BY <2>4 DEF z, d
<1> HIDE DEF y
<1>3. \A c \in Groups : rows[c] = IF c \in Found(g) THEN y(c) ELSE group[c]
  BY <1>1
<1>4. rows \in [Groups -> Row]
  BY <1>1, <1>2, TreeRows
<1> QED
  BY <1>2, <1>3, <1>4

\* Paths and depths after a step.
LEMMA FollowNext ==
    ASSUME \A c \in Existing' : group'[c].parent # NoGroup =>
              /\ group'[c].path = group'[group'[c].parent].path \o (<<Slash>> \o group'[c].name)
              /\ group'[c].depth = group'[group'[c].parent].depth + 1
    PROVE  PathsFollow' /\ DepthsFollow'
<1>1. ASSUME NEW c \in Existing', group'[c].parent # NoGroup
      PROVE  /\ group'[c].path = PathUnder(group[c].parent, group[c].name)'
             /\ group'[c].depth = DepthUnder(group[c].parent)'
  <2>1. PathUnder(group[c].parent, group[c].name)' =
           group'[group'[c].parent].path \o (<<Slash>> \o group'[c].name)
    BY <1>1 DEF PathUnder
  <2>2. DepthUnder(group[c].parent)' = group'[group'[c].parent].depth + 1
    BY <1>1 DEF DepthUnder
  <2> QED BY <1>1, <2>1, <2>2
<1> QED
  BY <1>1 DEF PathsFollow, DepthsFollow

\* A move or a new name that rewrites the rows found keeps the invariant.
LEMMA RewriteKeeps ==
    ASSUME TreeInv, NEW g \in Existing, NEW r \in Row, r.exists, NEW diff \in Int,
           group' = [Rewritten(g, r.path, diff) EXCEPT ![g] = r], groupOf' = groupOf,
           mistaken' = (mistaken \/ Strays(g) # {}),
           r.parent # NoGroup => r.parent \in Existing,
           ~mistaken => r.depth = group[g].depth + diff,
           ~mistaken /\ Strays(g) = {} /\ r.parent # NoGroup =>
               /\ r.parent \notin Found(g) \union {g}
               /\ r.path = group[r.parent].path \o (<<Slash>> \o r.name)
               /\ r.depth = group[r.parent].depth + 1
    PROVE  TreeInv'
<1> DEFINE rows == Rewritten(g, r.path, diff)
<1>0. g \in Groups /\ r.path \in Seq(Chars)
  BY TreeRows DEF Row
<1>1. rows \in [Groups -> Row]
  BY <1>0, RewrittenRows
<1>2. ASSUME NEW c \in Groups, c # g
      PROVE  /\ group'[c].exists = group[c].exists /\ group'[c].name = group[c].name
             /\ group'[c].parent = group[c].parent
             /\ c \in Found(g) => /\ group'[c].path = Replace(group[c].path, group[g].path, r.path)
                                  /\ group'[c].depth = group[c].depth + diff
             /\ c \notin Found(g) => group'[c] = group[c]
  <2>1. group'[c] = rows[c]
    BY <1>1, <1>2
  <2> HIDE DEF rows
  <2> QED BY <1>0, <2>1, RewrittenRows DEF rows
<1>3. group' \in [Groups -> Row] /\ group'[g] = r
  BY <1>0, <1>1
<1> HIDE DEF rows
<1>4. Existing' = Existing
  <2>1. group[g].exists
    BY DEF Existing
  <2> QED BY <1>2, <1>3, <2>1 DEF Existing
<1>5. GroupTreeTypeOK'
  BY <1>3, TreeRows DEF GroupTreeTypeOK
<1>6. ReferencesExist'
  <2>1. \A c \in Existing : group'[c].parent # NoGroup => group'[c].parent \in Existing
    BY <1>2, <1>3, TreeRows
  <2> QED BY <1>4, <2>1 DEF TreeInv, ReferencesExist
<1>7. ASSUME ~mistaken' PROVE PathsFollow' /\ DepthsFollow'
  <2>1. ~mistaken /\ Strays(g) = {}
    BY <1>7
  <2>2. ASSUME NEW c \in Existing, group'[c].parent # NoGroup
        PROVE  /\ group'[c].path = group'[group'[c].parent].path \o (<<Slash>> \o group'[c].name)
               /\ group'[c].depth = group'[group'[c].parent].depth + 1
    <3>1. CASE c = g
      <4>1. r.parent # g /\ r.parent \in Existing /\ r.parent \notin Found(g) /\ r.parent \in Groups
        BY <1>3, <2>1, <2>2, <3>1, TreeRows
      <4>2. group'[r.parent] = group[r.parent]
        BY <1>2, <4>1
      <4> QED BY <1>3, <2>1, <2>2, <3>1, <4>2
    <3>2. CASE c # g
      <4> DEFINE q == group[c].parent
                 x == <<Slash>> \o group[c].name
                 old == group[g].path
      <4>1. /\ group'[c].name = group[c].name /\ group'[c].parent = q /\ q # NoGroup /\ c \in Groups
        BY <1>2, <2>2, <3>2, TreeRows
      <4>2. /\ q \in Existing /\ q \in Groups /\ group[c].path = group[q].path \o x
            /\ group[c].depth = group[q].depth + 1
        BY <2>1, <4>1, ChildPath, TreeRows
      <4>3. /\ g \notin Found(g)
            /\ c \in Found(g) => StartsWith(group[c].path, old)
            /\ c \in Found(g) <=> q \in Found(g) \union {g}
        BY <2>1, <4>1, FoundIsBelow
      <4>4. q \in Found(g) => StartsWith(group[q].path, old)
        BY <2>1, <4>2, FoundIsBelow
      <4>5. /\ x \in Seq(Chars) /\ old \in Seq(Chars) /\ group[q].path \in Seq(Chars)
            /\ group[c].path \in Seq(Chars) /\ group[c].depth \in Int /\ group[q].depth \in Int
            /\ group[g].depth \in Int
        BY <4>1, <4>2, Added, TreeRows
      <4> HIDE DEF q, x, old
      <4>6. CASE c \notin Found(g)
        <5>1. group'[c] = group[c] /\ group'[q] = group[q]
          BY <1>2, <3>2, <4>1, <4>2, <4>3, <4>6
        <5> QED BY <4>1, <4>2, <5>1 DEF x
      <4>7. CASE c \in Found(g)
        <5>1. /\ group'[c].path = Replace(group[c].path, old, r.path)
              /\ group'[c].depth = group[c].depth + diff
          BY <1>2, <3>2, <4>1, <4>7 DEF old
        <5>2. Replace(group[c].path, old, r.path) =
                 r.path \o SubSeq(group[c].path, Len(old) + 1, Len(group[c].path))
          BY <1>0, <4>3, <4>5, <4>7, ReplaceBeginning
        <5>3. CASE q = g
          <6>1. group[q].path = old
            BY <5>3 DEF old
          <6>2. Len(old) \in 0 .. Len(old) /\ SubSeq(old, Len(old) + 1, Len(old)) = <<>>
            BY <4>5, SubSeqEmpty
          <6>3. r.path \o SubSeq(old \o x, Len(old) + 1, Len(old \o x)) =
                  (r.path \o SubSeq(old, Len(old) + 1, Len(old))) \o x
            <7> DEFINE k == Len(old)
                       rp == r.path
            <7>1. k \in 0 .. Len(old) /\ old \in Seq(Chars) /\ rp \in Seq(Chars) /\ x \in Seq(Chars)
              BY <1>0, <4>5, <6>2
            <7> HIDE DEF k, rp
            <7>2. rp \o SubSeq(old \o x, k + 1, Len(old \o x)) = (rp \o SubSeq(old, k + 1, Len(old))) \o x
              BY ONLY <7>1, RestOfConcat, Zenon
            <7> QED BY <7>2 DEF k, rp
          <6>4. r.path \o <<>> = r.path
            BY <1>0, ConcatEmptySeq
          <6>5. group'[c].path = r.path \o x
            BY <4>2, <5>1, <5>2, <6>1, <6>2, <6>3, <6>4
          <6>6. group'[q] = r /\ r.depth = group[q].depth + diff
            BY <1>3, <2>1, <5>3
          <6>7. group'[c].depth = r.depth + 1
            BY <4>2, <4>5, <5>1, <6>6
          <6> QED BY <4>1, <6>5, <6>6, <6>7 DEF x
        <5>4. CASE q # g
          <6>1. q \in Found(g) /\ StartsWith(group[q].path, old)
            BY <4>3, <4>4, <4>7, <5>4
          <6>2. /\ group'[q].path = Replace(group[q].path, old, r.path)
                /\ group'[q].depth = group[q].depth + diff
            BY <1>2, <4>2, <5>4, <6>1 DEF old
          <6>3. Replace(group[q].path, old, r.path) =
                   r.path \o SubSeq(group[q].path, Len(old) + 1, Len(group[q].path))
            BY <1>0, <4>5, <6>1, ReplaceBeginning
          <6>4. Len(old) \in 0 .. Len(group[q].path)
            BY <4>5, <6>1 DEF StartsWith
          <6> DEFINE qp == group[q].path
                     rp == r.path
          <6>5. rp \o SubSeq(qp \o x, Len(old) + 1, Len(qp \o x)) =
                  (rp \o SubSeq(qp, Len(old) + 1, Len(qp))) \o x
            <7> DEFINE k == Len(old)
            <7>1. x \in Seq(Chars) /\ qp \in Seq(Chars) /\ rp \in Seq(Chars) /\ k \in 0 .. Len(qp)
              BY <1>0, <4>5, <6>4
            <7> HIDE DEF qp, rp, k
            <7>2. rp \o SubSeq(qp \o x, k + 1, Len(qp \o x)) = (rp \o SubSeq(qp, k + 1, Len(qp))) \o x
              BY ONLY <7>1, RestOfConcat, Zenon
            <7> QED BY <7>2 DEF k
          <6>6. group'[c].path = group'[q].path \o x
            BY <4>2, <5>1, <5>2, <6>2, <6>3, <6>5
          <6>7. group'[c].depth = group'[q].depth + 1
            BY <4>2, <4>5, <5>1, <6>2
          <6> QED BY <4>1, <6>6, <6>7 DEF x
        <5> QED BY <5>3, <5>4
      <4> QED BY <4>6, <4>7
    <3> QED BY <3>1, <3>2
  <2> QED BY <1>4, <2>2, FollowNext
<1> QED
  BY <1>5, <1>6, <1>7 DEF TreeInv

-----------------------------------------------------------------------------
\* The row of a group that is not there.
LEMMA NoRowIsRow == NoRow \in Row /\ NoRow.exists = FALSE
<1>1. (CHOOSE n \in Names : TRUE) \in Names
  BY GroupTreeAssumption
<1> DEFINE n == CHOOSE n \in Names : TRUE
<1> HIDE DEF n
<1>2. NoRow = [exists |-> FALSE, is_site |-> FALSE, name |-> n, parent |-> NoGroup,
               path |-> <<>>, depth |-> 0]
  BY DEF NoRow, n
<1>3. <<>> \in Seq(Chars) /\ n \in Names
  BY <1>1, EmptySeq DEF n
<1> QED
  BY <1>2, <1>3 DEF Row, AnyGroup

\* The invariant holds of an empty tree.
LEMMA TreeInitial == GroupTreeInit => TreeInv
<1> SUFFICES ASSUME GroupTreeInit PROVE TreeInv
  OBVIOUS
<1>1. \A g \in Groups : group[g] = NoRow
  BY DEF GroupTreeInit
<1>2. Existing = {}
  BY <1>1, NoRowIsRow DEF Existing
<1>3. GroupTreeTypeOK
  BY NoRowIsRow DEF GroupTreeTypeOK, GroupTreeInit, AnyGroup
<1>4. ReferencesExist /\ PathsFollow /\ DepthsFollow
  <2>1. \A n \in GroupNodes : groupOf[n] = NoGroup
    BY DEF GroupTreeInit
  <2> QED BY <1>2, <2>1 DEF ReferencesExist, PathsFollow, DepthsFollow
<1> QED
  BY <1>3, <1>4 DEF TreeInv

\* The path and the depth under a parent.
LEMMA UnderType ==
    ASSUME TreeInv, NEW name \in Names, NEW p \in AnyGroup, p # NoGroup => p \in Existing
    PROVE  /\ PathUnder(p, name) \in Seq(Chars) /\ DepthUnder(p) \in Int
           /\ p # NoGroup => /\ PathUnder(p, name) = group[p].path \o (<<Slash>> \o name)
                             /\ DepthUnder(p) = group[p].depth + 1
<1> DEFINE x == <<Slash>> \o name
           h == IF p = NoGroup THEN <<>> ELSE group[p].path
<1>1. x \in Seq(Chars)
  BY Added
<1>2. h \in Seq(Chars)
  BY TreeRows, EmptySeq
<1>3. PathUnder(p, name) = h \o x /\ (p # NoGroup => h = group[p].path)
  BY DEF PathUnder
<1> HIDE DEF x, h
<1>4. h \o x \in Seq(Chars)
  BY <1>1, <1>2, ConcatProperties
<1>5. DepthUnder(p) \in Int /\ (p # NoGroup => DepthUnder(p) = group[p].depth + 1)
  BY TreeRows DEF DepthUnder
<1> QED
  BY <1>3, <1>4, <1>5 DEF x

\* A move, with or without a new name.
LEMMA TreeUpdates ==
    ASSUME TreeInv, NEW g \in Groups, NEW name \in Names, NEW p \in AnyGroup,
           UpdateGroup(g, name, p)
    PROVE  TreeInv'
<1> DEFINE new == PathUnder(p, name)
           d == DepthUnder(p)
           diff == d - group[g].depth
           r == [group[g] EXCEPT !.name = name, !.parent = p, !.path = new, !.depth = d]
<1>1. /\ g \in Existing /\ p # g
      /\ p # NoGroup => p \in Existing /\ ~StartsWith(group[p].path, group[g].path)
  BY DEF UpdateGroup, Movable, Existing, AnyGroup
<1>2. /\ group' = [Rewritten(g, new, diff) EXCEPT ![g] = r] /\ groupOf' = groupOf
      /\ mistaken' = (mistaken \/ Strays(g) # {})
  BY DEF UpdateGroup
<1>3. /\ new \in Seq(Chars) /\ d \in Int
      /\ p # NoGroup => new = group[p].path \o (<<Slash>> \o name) /\ d = group[p].depth + 1
  BY <1>1, UnderType
<1>4. group[g] \in Row /\ group[g].exists /\ group[g].depth \in Int
  BY <1>1, TreeRows DEF Existing
<1> HIDE DEF new, d
<1>5. diff \in Int /\ d = group[g].depth + diff
  BY <1>3, <1>4
<1>6. /\ r \in Row /\ r.exists /\ r.name = name /\ r.parent = p /\ r.path = new /\ r.depth = d
  BY <1>3, <1>4 DEF Row
<1> HIDE DEF r, diff
<1>7. Strays(g) = {} /\ p # NoGroup => p \notin Found(g)
  BY <1>1 DEF Strays
<1> QED
  BY <1>1, <1>2, <1>3, <1>5, <1>6, <1>7, RewriteKeeps

\* A new name, and the parent as it was.
LEMMA TreeRenames ==
    ASSUME TreeInv, NEW g \in Groups, NEW name \in Names, Renames(g, name)
    PROVE  TreeInv'
<1> DEFINE p == group[g].parent
           new == PathUnder(p, name)
           r == [group[g] EXCEPT !.name = name, !.path = new]
<1>1. g \in Existing /\ p \in AnyGroup /\ (p # NoGroup => p \in Existing)
  BY TreeRows DEF Renames, Existing
<1>2. /\ group' = [Rewritten(g, new, 0) EXCEPT ![g] = r] /\ groupOf' = groupOf
      /\ mistaken' = (mistaken \/ Strays(g) # {})
  BY DEF Renames
<1>3. /\ new \in Seq(Chars)
      /\ p # NoGroup => new = group[p].path \o (<<Slash>> \o name)
  BY <1>1, UnderType
<1>4. group[g] \in Row /\ group[g].exists /\ group[g].depth \in Int
  BY <1>1, TreeRows DEF Existing
<1> HIDE DEF new
<1>5. /\ r \in Row /\ r.exists /\ r.name = name /\ r.parent = p /\ r.path = new
      /\ r.depth = group[g].depth
  BY <1>3, <1>4 DEF Row
<1>6. r.depth = group[g].depth + 0
  BY <1>4, <1>5
<1> HIDE DEF r
<1>7. ASSUME ~mistaken, Strays(g) = {}, p # NoGroup
      PROVE  /\ p \notin Found(g) \union {g} /\ r.depth = group[p].depth + 1
  <2>1. group[g].depth = group[p].depth + 1 /\ Len(group[g].path) > Len(group[p].path)
    BY <1>1, <1>7, ChildPath
  <2>2. Len(group[g].path) \in Nat /\ Len(group[p].path) \in Nat
    BY <1>1, <1>7, TreeRows
  <2>3. p # g
    BY <2>1, <2>2
  <2>4. p \notin Found(g)
    BY <2>1, <2>2 DEF Found, LikeStartsWith
  <2> QED BY <1>5, <2>1, <2>3, <2>4
<1> HIDE DEF p
<1>8. 0 \in Int
  OBVIOUS
<1> QED
  BY <1>1, <1>2, <1>3, <1>5, <1>6, <1>7, <1>8, RewriteKeeps

\* A new row.
LEMMA TreeCreates ==
    ASSUME TreeInv, NEW g \in Groups, NEW name \in Names, NEW p \in AnyGroup, NEW site \in BOOLEAN,
           Creates(g, name, p, site)
    PROVE  TreeInv'
<1> DEFINE new == PathUnder(p, name)
           d == DepthUnder(p)
           r == [exists |-> TRUE, is_site |-> site, name |-> name, parent |-> p,
                 path |-> new, depth |-> d]
<1>1. /\ g \notin Existing /\ (p # NoGroup => p \in Existing)
      /\ group' = [group EXCEPT ![g] = r] /\ groupOf' = groupOf /\ mistaken' = mistaken
  BY DEF Creates, Existing, AnyGroup
<1>2. /\ new \in Seq(Chars) /\ d \in Int
      /\ p # NoGroup => new = group[p].path \o (<<Slash>> \o name) /\ d = group[p].depth + 1
  BY <1>1, UnderType
<1> HIDE DEF new, d
<1>3. r \in Row /\ r.exists /\ r.name = name /\ r.parent = p /\ r.path = new /\ r.depth = d
  BY <1>2 DEF Row
<1> HIDE DEF r
<1>4. /\ group' \in [Groups -> Row] /\ group'[g] = r
      /\ \A c \in Groups : c # g => group'[c] = group[c]
  BY <1>1, <1>3, TreeRows
<1>5. Existing' = Existing \union {g}
  BY <1>3, <1>4 DEF Existing
<1>6. \A c \in Existing : c \in Groups /\ c # g /\ group'[c] = group[c]
  BY <1>1, <1>4 DEF Existing
<1>7. GroupTreeTypeOK'
  BY <1>1, <1>4, TreeRows DEF GroupTreeTypeOK
<1>8. ReferencesExist'
  <2>1. \A c \in Existing' : group'[c].parent # NoGroup => group'[c].parent \in Existing'
    BY <1>1, <1>3, <1>4, <1>5, <1>6, TreeRows
  <2> QED BY <1>1, <1>5, <2>1 DEF TreeInv, ReferencesExist
<1>9. ASSUME ~mistaken PROVE PathsFollow' /\ DepthsFollow'
  <2>1. ASSUME NEW c \in Existing', group'[c].parent # NoGroup
        PROVE  /\ group'[c].path = group'[group'[c].parent].path \o (<<Slash>> \o group'[c].name)
               /\ group'[c].depth = group'[group'[c].parent].depth + 1
    <3>1. CASE c = g
      BY <1>1, <1>2, <1>3, <1>4, <1>6, <2>1, <3>1
    <3>2. CASE c # g
      <4>1. c \in Existing /\ group'[c] = group[c]
        BY <1>5, <1>6, <3>2
      <4> QED BY <1>6, <1>9, <2>1, <4>1, ChildPath
    <3> QED BY <3>1, <3>2
  <2> QED BY <2>1, FollowNext
<1> QED
  BY <1>1, <1>7, <1>8, <1>9 DEF TreeInv

\* The children of a group that is deleted lose their parent.
LEMMA TreeDeletes ==
    ASSUME TreeInv, NEW g \in Groups, Deletes(g)
    PROVE  TreeInv'
<1> DEFINE x(c) == [group[c] EXCEPT !.parent = NoGroup]
<1>1. /\ \A c \in Groups : group'[c] = IF c = g THEN NoRow ELSE IF c \in Children(g) THEN x(c) ELSE group[c]
      /\ group' = [c \in Groups |-> group'[c]]
      /\ groupOf' = [n \in GroupNodes |-> IF groupOf[n] = g THEN NoGroup ELSE groupOf[n]]
      /\ mistaken' = mistaken
  BY DEF Deletes
<1>2. ASSUME NEW c \in Groups
      PROVE  /\ x(c) \in Row /\ x(c).exists = group[c].exists /\ x(c).name = group[c].name
             /\ x(c).parent = NoGroup /\ x(c).path = group[c].path /\ x(c).depth = group[c].depth
  <2>1. group[c] \in Row
    BY TreeRows
  <2> QED BY <2>1 DEF Row, AnyGroup
<1> HIDE DEF x
<1>3. group' \in [Groups -> Row]
  <2>1. \A c \in Groups : group'[c] \in Row
    BY <1>1, <1>2, NoRowIsRow, TreeRows
  <2> QED BY <1>1, <2>1
<1>4. Existing' = Existing \ {g}
  BY <1>1, <1>2, NoRowIsRow DEF Existing
<1>5. ASSUME NEW c \in Existing'
      PROVE  /\ c \in Existing /\ c # g /\ group'[c].name = group[c].name
             /\ group'[c].path = group[c].path /\ group'[c].depth = group[c].depth
             /\ group'[c].parent # NoGroup => group'[c].parent = group[c].parent /\ group[c].parent # g
  <2>1. c \in Existing /\ c # g /\ c \in Groups
    BY <1>4 DEF Existing
  <2>2. group'[c] = IF c \in Children(g) THEN x(c) ELSE group[c]
    BY <1>1, <2>1
  <2>3. c \notin Children(g) => group[c].parent # g
    BY <2>1 DEF Children
  <2> QED BY <1>2, <2>1, <2>2, <2>3
<1>6. groupOf' \in [GroupNodes -> AnyGroup]
  <2>1. groupOf \in [GroupNodes -> AnyGroup]
    BY TreeRows
  <2> QED BY <1>1, <2>1 DEF AnyGroup
<1>7. ReferencesExist'
  <2>1. \A c \in Existing' : group'[c].parent # NoGroup => group'[c].parent \in Existing'
    BY <1>4, <1>5, TreeRows
  <2>2. \A n \in GroupNodes : groupOf'[n] # NoGroup => groupOf'[n] \in Existing'
    BY <1>1, <1>4 DEF TreeInv, ReferencesExist
  <2> QED BY <2>1, <2>2 DEF ReferencesExist
<1>8. ASSUME ~mistaken PROVE PathsFollow' /\ DepthsFollow'
  <2>1. ASSUME NEW c \in Existing', group'[c].parent # NoGroup
        PROVE  /\ group'[c].path = group'[group'[c].parent].path \o (<<Slash>> \o group'[c].name)
               /\ group'[c].depth = group'[group'[c].parent].depth + 1
    <3>1. /\ c \in Existing /\ group'[c].parent = group[c].parent /\ group[c].parent # NoGroup
          /\ group[c].parent \in Existing'
      BY <1>4, <1>5, <2>1, TreeRows
    <3>2. /\ group[c].path = group[group[c].parent].path \o (<<Slash>> \o group[c].name)
          /\ group[c].depth = group[group[c].parent].depth + 1
      BY <1>8, <3>1, ChildPath
    <3>3. /\ group'[c].path = group[c].path /\ group'[c].name = group[c].name
          /\ group'[c].depth = group[c].depth
      BY <1>5
    <3>4. /\ group'[group[c].parent].path = group[group[c].parent].path
          /\ group'[group[c].parent].depth = group[group[c].parent].depth
      BY <1>5, <3>1
    <3> QED BY <3>1, <3>2, <3>3, <3>4
  <2> QED BY <2>1, FollowNext
<1> QED
  BY <1>1, <1>3, <1>6, <1>7, <1>8, TreeRows DEF TreeInv, GroupTreeTypeOK

\* The group of a node, or a step of something else.
LEMMA TreeAssigns ==
    ASSUME TreeInv, group' = group, mistaken' = mistaken,
           \/ groupOf' = groupOf
           \/ \E n \in GroupNodes, g \in AnyGroup :
                 groupOf' = [groupOf EXCEPT ![n] = g] /\ (g # NoGroup => g \in Existing)
    PROVE  TreeInv'
<1>1. Existing' = Existing
  BY DEF Existing
<1>2. groupOf' \in [GroupNodes -> AnyGroup]
  BY TreeRows
<1>3. ReferencesExist'
  BY <1>1, TreeRows DEF TreeInv, ReferencesExist
<1> QED
  BY <1>1, <1>2, <1>3, TreeRows
  DEF TreeInv, GroupTreeTypeOK, PathsFollow, PathUnder, DepthsFollow, DepthUnder

\* Every step keeps the invariant.
LEMMA TreeStep == TreeInv /\ [GroupTreeNext]_groupVars => TreeInv'
<1> SUFFICES ASSUME TreeInv, [GroupTreeNext]_groupVars PROVE TreeInv'
  OBVIOUS
<1>1. ASSUME NEW g \in Groups, NEW name \in Names, NEW p \in AnyGroup,
             CreateGroup(g, name, p) \/ CreateSite(g, name, p)
      PROVE  TreeInv'
  BY <1>1, TreeCreates DEF CreateGroup, CreateSite
<1>2. ASSUME NEW g \in Groups, NEW name \in Names, NEW p \in AnyGroup,
             UpdateGroup(g, name, p) \/ UpdateSite(g, name, p)
      PROVE  TreeInv'
  BY <1>2, TreeUpdates DEF UpdateSite
<1>3. ASSUME NEW g \in Groups, NEW name \in Names, Renames(g, name) PROVE TreeInv'
  BY <1>3, TreeRenames
<1>4. ASSUME NEW g \in Groups, DeleteGroup(g) \/ DeleteSite(g) PROVE TreeInv'
  BY <1>4, TreeDeletes DEF DeleteGroup, DeleteSite
<1>5. ASSUME NEW n \in GroupNodes, NEW g \in AnyGroup, AssignGroup(n, g) PROVE TreeInv'
  <2>1. g # NoGroup => g \in Existing
    BY <1>5 DEF AssignGroup, Existing, AnyGroup
  <2> QED BY <1>5, <2>1, TreeAssigns DEF AssignGroup
<1>6. CASE UNCHANGED groupVars
  BY <1>6, TreeAssigns DEF groupVars
<1> QED
  BY <1>1, <1>2, <1>3, <1>4, <1>5, <1>6 DEF GroupTreeNext

\* A parent's path is shorter, so a walk up meets no row twice, and there are
\* not as many rows as it would take.
LEMMA TreeWalks ==
    ASSUME TreeInv, ~mistaken
    PROVE  NoCircularReference
<1> DEFINE N == Cardinality(Groups)
<1>1. N \in Nat
  BY GroupTreeAssumption, FS_CardinalityType
<1> SUFFICES ASSUME NEW walk \in [0 .. N -> Existing],
                    \A i \in 1 .. N : group[walk[i - 1]].parent = walk[i]
             PROVE  FALSE
  BY DEF NoCircularReference, WalksUp
<1> HIDE DEF N
<1> DEFINE L(i) == Len(group[walk[i]].path)
<1>2. \A i \in 0 .. N : walk[i] \in Existing /\ walk[i] \in Groups /\ L(i) \in Nat
  <2>1. \A i \in 0 .. N : walk[i] \in Existing /\ walk[i] \in Groups
    BY DEF Existing
  <2> QED BY <2>1, TreeRows
<1>3. ASSUME NEW i \in 1 .. N PROVE L(i) < L(i - 1)
  <2>1. (i - 1) \in 0 .. N /\ i \in 0 .. N
    BY <1>1
  <2> DEFINE c == walk[i - 1]
             q == walk[i]
  <2>2. c \in Existing /\ q \in Groups /\ group[c].parent = q /\ q # NoGroup
    BY <1>2, <2>1, GroupTreeAssumption
  <2> HIDE DEF c, q
  <2>3. Len(group[c].path) > Len(group[q].path)
    BY <2>2, ChildPath
  <2>4. Len(group[c].path) \in Nat /\ Len(group[q].path) \in Nat
    BY <2>2, TreeRows
  <2> QED BY <2>3, <2>4 DEF c, q
<1> HIDE DEF L
<1>4. \A j \in 0 .. N : \A i \in 0 .. N : i < j => L(j) < L(i)
  <2> DEFINE S == {j \in 0 .. N : \E i \in 0 .. N : i < j /\ ~(L(j) < L(i))}
  <2>1. S \subseteq Nat
    BY <1>1
  <2>2. ASSUME S # {} PROVE FALSE
    <3>1. PICK m \in S : \A n \in S : m <= n
      <4> HIDE DEF S
      <4> QED BY <2>1, <2>2, SmallestOfNumbers
    <3>2. PICK i \in 0 .. N : i < m /\ ~(L(m) < L(i))
      OBVIOUS
    <3>3. m \in 1 .. N /\ (m - 1) \in 0 .. N /\ ~(m <= m - 1) /\ m \in 0 .. N
      BY <1>1, <3>2
    <3>4. L(m) < L(m - 1) /\ L(m) \in Nat /\ L(m - 1) \in Nat /\ L(i) \in Nat
      BY <1>2, <1>3, <3>3
    <3>5. (m - 1) \notin S
      BY <3>1, <3>3
    <3>6. i < m - 1 => L(m - 1) < L(i)
      BY <3>3, <3>5
    <3>7. i = m - 1 \/ i < m - 1
      BY <3>2, <3>3
    <3> QED BY <3>2, <3>4, <3>6, <3>7
  <2> QED BY <2>2
<1>5. ASSUME NEW i \in 0 .. N, NEW j \in 0 .. N, walk[i] = walk[j] PROVE i = j
  <2>1. L(i) = L(j) /\ L(i) \in Nat
    BY <1>2, <1>5 DEF L
  <2> QED BY <1>1, <1>4, <2>1
<1>6. Cardinality(Groups) < Cardinality(0 .. N) /\ IsFiniteSet(0 .. N)
  BY <1>1, FS_Interval DEF N
<1>7. walk \in [0 .. N -> Groups]
  BY DEF Existing
<1>8. \E i, j \in 0 .. N : i # j /\ walk[i] = walk[j]
  <2>1. IsFiniteSet(Groups)
    BY GroupTreeAssumption
  <2> DEFINE places == 0 .. N
  <2>2. /\ IsFiniteSet(places) /\ Cardinality(Groups) < Cardinality(places)
        /\ walk \in [places -> Groups]
    BY <1>6, <1>7
  <2> HIDE DEF places
  <2>3. \E i, j \in places : i # j /\ walk[i] = walk[j]
    BY ONLY <2>1, <2>2, FS_PigeonHole, Zenon
  <2> QED BY <2>3 DEF places
<1> QED
  BY <1>5, <1>8

\* The rows of groups and sites make a tree and repeat their parents' paths and
\* depths rightly, whatever the routes of groups.py and sites.py did and whatever
\* the names: unless a move or a new name has rewritten a row that was not below.
THEOREM TreeSound == GroupTreeSpec => []TreeIsSound
<1>1. GroupTreeInit => TreeInv
  BY TreeInitial
<1>2. TreeInv /\ [GroupTreeNext]_groupVars => TreeInv'
  BY TreeStep
<1>3. TreeInv => TreeIsSound
  BY TreeWalks DEF TreeInv, TreeIsSound, FollowUnlessMistaken
<1> QED
  BY <1>1, <1>2, <1>3, PTL DEF GroupTreeSpec

-----------------------------------------------------------------------------
(***************************************************************************)
(* Names without a slash, and a database that tells characters apart: the  *)
(* rows found are those below.  A name follows the last slash of its row's *)
(* path, so a path belongs to one row.                                     *)
(***************************************************************************)

PlainNames ==
    /\ \A pair \in Alike : pair[1] = pair[2]
    /\ \A name \in Names : \A i \in 1 .. Len(name) : name[i] # Slash

EndsInName(path, name) ==
    /\ Len(path) > Len(name) /\ path[Len(path) - Len(name)] = Slash
    /\ \A i \in 1 .. Len(name) : path[(Len(path) - Len(name)) + i] = name[i]

NamedInv ==
    /\ \A g, h \in Existing : group[g].name = group[h].name => g = h
    /\ \A g \in Existing : EndsInName(group[g].path, group[g].name)

\* A path made of a parent's and a name ends in it.
LEMMA MadeEndsInName ==
    ASSUME NEW h \in Seq(Chars), NEW name \in Names
    PROVE  EndsInName(h \o (<<Slash>> \o name), name)
<1> DEFINE x == <<Slash>> \o name
           n == Len(name)
           e == Len(h)
<1>1. /\ x \in Seq(Chars) /\ Len(x) = n + 1 /\ x[1] = Slash
      /\ \A i \in 1 .. n : x[i + 1] = name[i]
  BY Added
<1>2. n \in Nat /\ e \in Nat
  BY GroupTreeAssumption
<1> HIDE DEF x, n, e
<1> DEFINE n1 == n + 1
<1>3. n1 = n + 1 /\ Len(x) = n1 /\ Len(h) = e
  BY <1>1 DEF e
<1> HIDE DEF n1
<1> DEFINE path == h \o x
<1>4. /\ Len(path) = e + n1
      /\ \A i \in 1 .. (e + n1) : path[i] = IF i <= e THEN h[i] ELSE x[i - e]
  BY <1>1, <1>3, ConcatPlaces
<1> HIDE DEF path
<1>5. Len(path) - n = e + 1 /\ Len(path) > n
  BY <1>2, <1>3, <1>4
<1>6. path[e + 1] = Slash
  <2>1. e + 1 \in 1 .. (e + n1) /\ ~(e + 1 <= e) /\ (e + 1) - e = 1
    BY <1>2, <1>3
  <2> QED BY <1>1, <1>4, <2>1
<1>7. ASSUME NEW i \in 1 .. n PROVE path[(e + 1) + i] = name[i]
  <2> DEFINE j == (e + 1) + i
  <2>1. j \in 1 .. (e + n1) /\ ~(j <= e) /\ j - e = i + 1
    BY <1>2, <1>3
  <2> HIDE DEF j
  <2>2. path[j] = x[j - e]
    BY <1>4, <2>1
  <2>3. path[j] = name[i]
    BY <1>1, <2>1, <2>2
  <2> QED BY <2>3 DEF j
<1>8. EndsInName(path, name)
  BY <1>5, <1>6, <1>7 DEF EndsInName, n
<1> QED
  BY <1>8 DEF path, x

\* The path of a row below ends in its name with another beginning, too.
LEMMA ReplacedEndsInName ==
    ASSUME NEW path \in Seq(Chars), NEW old \in Seq(Chars), NEW new \in Seq(Chars),
           NEW name \in Names, \A i \in 1 .. Len(name) : name[i] # Slash,
           StartsWith(path, old), EndsInName(path, name)
    PROVE  EndsInName(Replace(path, old, new), name)
<1> DEFINE k == Len(old)
           e == Len(path)
           n == Len(name)
           w == Len(new)
           t == SubSeq(path, k + 1, e)
<1>1. /\ k \in Nat /\ e \in Nat /\ n \in Nat /\ w \in Nat /\ e > k /\ e > n
      /\ path[k + 1] = Slash /\ path[e - n] = Slash
      /\ \A i \in 1 .. n : path[(e - n) + i] = name[i]
  BY GroupTreeAssumption DEF StartsWith, EndsInName
<1>2. \A j \in (k + 1) .. e : path[j] \in Chars
  BY <1>1
<1>3. /\ t \in Seq(Chars) /\ Len(t) = IF k + 1 <= e THEN (e - (k + 1)) + 1 ELSE 0
      /\ \A j \in 1 .. ((e - (k + 1)) + 1) : t[j] = path[((k + 1) + j) - 1]
  <2>1. k + 1 \in Int /\ e \in Int
    BY <1>1
  <2> QED BY <1>2, <2>1, SubSeqProperties
<1> HIDE DEF t, k, e, n, w
<1> DEFINE m == e - k
<1>4. m \in Nat /\ Len(t) = m /\ e = k + m
  BY <1>1, <1>3
<1> HIDE DEF m
<1>5. ASSUME NEW j \in 1 .. m PROVE t[j] = path[k + j]
  <2>1. j \in 1 .. ((e - (k + 1)) + 1)
    BY <1>1, <1>4
  <2>2. ((k + 1) + j) - 1 = k + j
    BY <1>1
  <2> QED BY <1>3, <2>1, <2>2
<1>6. k + 1 <= e - n
  <2>1. CASE ~(k + 1 <= e - n)
    <3> DEFINE i == (k + 1) - (e - n)
    <3>1. i \in 1 .. n /\ (e - n) + i = k + 1
      BY <1>1, <2>1
    <3> HIDE DEF i
    <3>2. path[(e - n) + i] = name[i] /\ name[i] # Slash
      BY <1>1, <3>1 DEF n
    <3> QED BY <1>1, <3>1, <3>2
  <2> QED BY <2>1
<1> DEFINE longer == new \o t
<1>7. /\ Len(longer) = w + m
      /\ \A i \in 1 .. (w + m) : longer[i] = IF i <= w THEN new[i] ELSE t[i - w]
  <2>1. Len(new) = w /\ t \in Seq(Chars) /\ Len(t) = m
    BY <1>3, <1>4 DEF w
  <2> QED BY <2>1, ConcatPlaces
<1> HIDE DEF longer
<1>8. ASSUME NEW i \in (k + 1) .. e PROVE longer[(w + i) - k] = path[i]
  <2> DEFINE j == (w + i) - k
  <2>1. j \in 1 .. (w + m) /\ ~(j <= w) /\ j - w \in 1 .. m /\ k + (j - w) = i
    BY <1>1, <1>4
  <2> HIDE DEF j
  <2>2. longer[j] = t[j - w]
    BY <1>7, <2>1
  <2>3. t[j - w] = path[k + (j - w)]
    BY <1>5, <2>1
  <2>4. longer[j] = path[i]
    BY <2>1, <2>2, <2>3
  <2> QED BY <2>4 DEF j
<1>9. Len(longer) > n /\ (Len(longer) - n) = (w + (e - n)) - k
  BY <1>1, <1>4, <1>6, <1>7
<1>10. longer[Len(longer) - n] = Slash
  <2> DEFINE i == e - n
  <2>1. i \in (k + 1) .. e /\ path[i] = Slash /\ (Len(longer) - n) = (w + i) - k
    BY <1>1, <1>6, <1>9
  <2> HIDE DEF i
  <2> QED BY <1>8, <2>1
<1>11. ASSUME NEW i \in 1 .. n PROVE longer[(Len(longer) - n) + i] = name[i]
  <2> DEFINE j == (e - n) + i
  <2>1. path[j] = name[i]
    BY <1>1
  <2>2. j \in (k + 1) .. e /\ (Len(longer) - n) + i = (w + j) - k
    <3> DEFINE z == Len(longer) - n
    <3>1. k \in Nat /\ e \in Nat /\ n \in Nat /\ w \in Nat /\ z = (w + (e - n)) - k
      BY <1>1, <1>9
    <3> HIDE DEF z
    <3>2. j \in (k + 1) .. e
      BY <1>6, <3>1
    <3>3. z + i = (w + j) - k
      BY <3>1
    <3> QED BY <3>2, <3>3 DEF z
  <2> HIDE DEF j
  <2>3. longer[(w + j) - k] = path[j]
    BY <1>8, <2>2
  <2> QED BY <2>1, <2>2, <2>3
<1>12. EndsInName(longer, name)
  BY <1>9, <1>10, <1>11 DEF EndsInName, n
<1>13. Replace(path, old, new) = longer
  BY ReplaceBeginning DEF longer, t, k, e
<1> QED
  BY <1>12, <1>13

\* A path ends in one name without a slash.
LEMMA NameOfPath ==
    ASSUME NEW path \in Seq(Chars), NEW a \in Names, NEW b \in Names,
           \A i \in 1 .. Len(a) : a[i] # Slash, \A i \in 1 .. Len(b) : b[i] # Slash,
           EndsInName(path, a), EndsInName(path, b)
    PROVE  a = b
<1>1. /\ a \in Seq(Chars) /\ b \in Seq(Chars) /\ Len(a) \in Nat /\ Len(b) \in Nat /\ Len(path) \in Nat
  BY GroupTreeAssumption
<1>2. ASSUME NEW x \in Names, NEW y \in Names, Len(x) \in Nat, Len(y) \in Nat, Len(x) < Len(y),
             \A i \in 1 .. Len(y) : y[i] # Slash, EndsInName(path, x), EndsInName(path, y)
      PROVE  FALSE
  <2> DEFINE i == Len(y) - Len(x)
             e == Len(path)
             v == Len(y)
             u == Len(x)
  <2>1. /\ i \in 1 .. v /\ (e - v) + i = e - u
    BY <1>1, <1>2
  <2>2. path[e - u] = Slash /\ path[(e - v) + i] = y[i]
    BY <1>2, <2>1 DEF EndsInName
  <2> HIDE DEF i, e, v, u
  <2>3. y[i] # Slash
    BY <1>2, <2>1 DEF v
  <2> QED BY <2>1, <2>2, <2>3
<1>3. Len(a) = Len(b)
  BY <1>1, <1>2
<1>4. \A i \in 1 .. Len(a) : a[i] = b[i]
  BY <1>1, <1>3 DEF EndsInName
<1> QED
  BY <1>1, <1>3, <1>4, SeqEqual

\* Nothing is found but what is below.
LEMMA PlainHasNoStrays ==
    ASSUME PlainNames, TreeInv, ~mistaken, NamedInv, NEW g \in Existing
    PROVE  Strays(g) = {}
<1> SUFFICES ASSUME NEW c \in Strays(g) PROVE FALSE
  OBVIOUS
<1> DEFINE old == group[g].path
           q == group[c].parent
           x == <<Slash>> \o group[c].name
           k == Len(old)
           n == Len(group[c].name)
<1>1. c \in Existing /\ c \in Found(g) /\ LikeStartsWith(group[c].path, old)
  BY DEF Strays, Found
<1>2. StartsWith(group[c].path, old)
  <2>1. \A i \in DOMAIN old : <<old[i], group[c].path[i]>> \in Alike => old[i] = group[c].path[i]
    BY DEF PlainNames
  <2> QED BY <1>1, <2>1 DEF LikeStartsWith, StartsWith
<1>3. q # NoGroup /\ q # g /\ q \notin Found(g)
  BY <1>2 DEF Strays
<1>4. q \in Existing /\ group[c].path = group[q].path \o x
  BY <1>1, <1>3, ChildPath
<1> DEFINE qp == group[q].path
           e == Len(qp)
<1>5. /\ old \in Seq(Chars) /\ qp \in Seq(Chars) /\ k \in Nat /\ e \in Nat /\ n \in Nat
      /\ group[c].name \in Names
  BY <1>1, <1>4, TreeRows
<1>6. /\ x \in Seq(Chars) /\ Len(x) = n + 1 /\ \A i \in 1 .. n : x[i + 1] # Slash
  BY <1>5, Added DEF PlainNames
<1> DEFINE n1 == n + 1
           path == qp \o x
<1>7. n1 = n + 1 /\ Len(x) = n1 /\ Len(qp) = e /\ DOMAIN old = 1 .. k
  BY <1>5, <1>6
<1>8. StartsWith(path, old)
  BY <1>2, <1>4
<1>9. Len(path) > k /\ (\A i \in 1 .. k : path[i] = old[i]) /\ path[k + 1] = Slash
  BY <1>7, <1>8 DEF StartsWith
<1> HIDE DEF n1, x, n, k, qp, e
<1>10. /\ Len(path) = e + n1
       /\ \A i \in 1 .. (e + n1) : path[i] = IF i <= e THEN qp[i] ELSE x[i - e]
  BY <1>5, <1>6, <1>7, ConcatPlaces
<1> HIDE DEF path
<1>11. CASE k < e
  <2>1. \A i \in 1 .. (k + 1) : path[i] = qp[i]
    BY <1>5, <1>7, <1>10, <1>11
  <2>2. StartsWith(qp, old)
    <3>1. \A i \in 1 .. k : qp[i] = old[i]
      <4>1. \A i \in 1 .. k : i \in 1 .. (k + 1)
        BY <1>5
      <4> QED BY <1>9, <2>1, <4>1
    <3>2. k + 1 \in 1 .. (k + 1)
      BY <1>5
    <3>3. qp[k + 1] = Slash
      BY <1>9, <2>1, <3>2
    <3>4. Len(qp) > k /\ k = Len(old)
      BY <1>5, <1>7, <1>11 DEF k
    <3> QED BY <1>7, <3>1, <3>3, <3>4 DEF StartsWith
  <2>3. LikeStartsWith(group[q].path, group[g].path)
    BY <2>2, StartsIsLike DEF qp
  <2> QED BY <1>3, <1>4, <2>3 DEF Found
<1>12. CASE k = e
  <2>1. \A i \in 1 .. k : qp[i] = old[i]
    BY <1>5, <1>7, <1>9, <1>10, <1>12
  <2>2. qp = old
    BY <1>5, <1>7, <1>12, <2>1, SeqEqual DEF k
  <2>3. EndsInName(old, group[q].name) /\ EndsInName(old, group[g].name)
    BY <1>4, <2>2 DEF NamedInv, qp
  <2>4. group[q].name \in Names /\ group[g].name \in Names
    BY <1>4, TreeRows
  <2>5. group[q].name = group[g].name
    BY <1>5, <2>3, <2>4, NameOfPath DEF PlainNames
  <2> QED BY <1>3, <1>4, <2>5 DEF NamedInv
<1>13. CASE k > e
  <2> DEFINE i == (k + 1) - (e + 1)
  <2>1. i \in 1 .. n /\ k + 1 \in 1 .. (e + n1) /\ ~(k + 1 <= e) /\ (k + 1) - e = i + 1
    BY <1>5, <1>7, <1>9, <1>10, <1>13
  <2> HIDE DEF i
  <2>2. path[k + 1] = x[i + 1]
    BY <1>10, <2>1
  <2> QED BY <1>6, <1>9, <2>1, <2>2
<1> QED
  BY <1>5, <1>11, <1>12, <1>13

\* A move or a new name keeps names unique and at the ends of paths.
LEMMA NamedRewrite ==
    ASSUME PlainNames, TreeInv, ~mistaken, NamedInv, NEW g \in Existing, NEW r \in Row, r.exists,
           NEW diff \in Int, group' = [Rewritten(g, r.path, diff) EXCEPT ![g] = r],
           r.name # group[g].name => Free(r.name), EndsInName(r.path, r.name)
    PROVE  NamedInv'
<1>1. g \in Groups /\ r.path \in Seq(Chars)
  BY TreeRows DEF Row
<1>2. ASSUME NEW c \in Groups, c # g
      PROVE  /\ group'[c].exists = group[c].exists /\ group'[c].name = group[c].name
             /\ c \in Found(g) => group'[c].path = Replace(group[c].path, group[g].path, r.path)
             /\ c \notin Found(g) => group'[c] = group[c]
  <2> DEFINE rows == Rewritten(g, r.path, diff)
  <2>1. rows \in [Groups -> Row]
    BY <1>1, RewrittenRows
  <2>2. group'[c] = rows[c]
    BY <1>2, <2>1
  <2> HIDE DEF rows
  <2> QED BY <1>1, <2>2, RewrittenRows DEF rows
<1>3. group'[g] = r
  BY <1>1, RewrittenRows
<1>4. Existing' = Existing
  <2>1. group[g].exists
    BY DEF Existing
  <2> QED BY <1>2, <1>3, <2>1 DEF Existing
<1>5. \A c \in Existing : c \in Groups /\ (c # g => group'[c].name = group[c].name)
  BY <1>2, TreeRows
<1>6. ASSUME NEW c \in Existing, NEW h \in Existing, group'[c].name = group'[h].name PROVE c = h
  <2>1. \A d \in Existing : d # g => group[d].name # r.name
    BY DEF NamedInv, Free
  <2> QED BY <1>3, <1>5, <1>6, <2>1 DEF NamedInv
<1>7. ASSUME NEW c \in Existing PROVE EndsInName(group'[c].path, group'[c].name)
  <2>1. CASE c = g
    BY <1>3, <2>1
  <2>2. CASE c # g /\ c \notin Found(g)
    BY <1>2, <1>5, <2>2 DEF NamedInv
  <2>3. CASE c # g /\ c \in Found(g)
    <3>1. Strays(g) = {}
      BY PlainHasNoStrays
    <3>2. StartsWith(group[c].path, group[g].path)
      BY <2>3, <3>1, FoundIsBelow
    <3>3. EndsInName(group[c].path, group[c].name)
      BY DEF NamedInv
    <3>4. /\ group[c].path \in Seq(Chars) /\ group[g].path \in Seq(Chars) /\ group[c].name \in Names
          /\ \A i \in 1 .. Len(group[c].name) : group[c].name[i] # Slash
      BY TreeRows DEF PlainNames
    <3>5. EndsInName(Replace(group[c].path, group[g].path, r.path), group[c].name)
      BY <1>1, <3>2, <3>3, <3>4, ReplacedEndsInName
    <3> QED BY <1>2, <1>5, <2>3, <3>5
  <2> QED BY <2>1, <2>2, <2>3
<1> QED
  BY <1>4, <1>6, <1>7 DEF NamedInv

\* So does every step, and none makes a mistake.
LEMMA NamedStep ==
    ASSUME PlainNames, TreeInv, ~mistaken, NamedInv, [GroupTreeNext]_groupVars
    PROVE  NamedInv' /\ ~mistaken'
<1>1. ASSUME NEW name \in Names, NEW p \in AnyGroup, p # NoGroup => p \in Existing
      PROVE  EndsInName(PathUnder(p, name), name) /\ PathUnder(p, name) \in Seq(Chars)
  <2> DEFINE h == IF p = NoGroup THEN <<>> ELSE group[p].path
  <2>1. h \in Seq(Chars)
    BY <1>1, TreeRows, EmptySeq
  <2>2. PathUnder(p, name) = h \o (<<Slash>> \o name)
    BY DEF PathUnder
  <2> HIDE DEF h
  <2> QED BY <1>1, <2>1, <2>2, MadeEndsInName, UnderType
<1>2. ASSUME NEW g \in Groups, NEW name \in Names, NEW p \in AnyGroup, NEW site \in BOOLEAN,
             Creates(g, name, p, site)
      PROVE  NamedInv' /\ ~mistaken'
  <2> DEFINE r == [exists |-> TRUE, is_site |-> site, name |-> name, parent |-> p,
                   path |-> PathUnder(p, name), depth |-> DepthUnder(p)]
  <2>1. /\ g \notin Existing /\ (p # NoGroup => p \in Existing) /\ \A c \in Existing : group[c].name # name
        /\ group' = [group EXCEPT ![g] = r] /\ mistaken' = mistaken
    BY <1>2 DEF Creates, Existing, AnyGroup, Free
  <2>2. r.exists /\ r.name = name /\ EndsInName(r.path, name)
    BY <1>1, <2>1
  <2> HIDE DEF r
  <2>3. group'[g] = r /\ \A c \in Groups : c # g => group'[c] = group[c]
    BY <2>1, TreeRows
  <2>4. Existing' = Existing \union {g} /\ \A c \in Existing : c # g /\ group'[c] = group[c]
    BY <2>1, <2>2, <2>3 DEF Existing
  <2> QED BY <2>1, <2>2, <2>3, <2>4 DEF NamedInv
<1>3. ASSUME NEW g \in Groups, NEW name \in Names, NEW p \in AnyGroup, UpdateGroup(g, name, p)
      PROVE  NamedInv' /\ ~mistaken'
  <2> DEFINE new == PathUnder(p, name)
             d == DepthUnder(p)
             diff == d - group[g].depth
             r == [group[g] EXCEPT !.name = name, !.parent = p, !.path = new, !.depth = d]
  <2>1. g \in Existing /\ (p # NoGroup => p \in Existing) /\ (name # group[g].name => Free(name))
    BY <1>3 DEF UpdateGroup, Movable, Existing, AnyGroup
  <2>2. /\ group' = [Rewritten(g, new, diff) EXCEPT ![g] = r]
        /\ mistaken' = (mistaken \/ Strays(g) # {})
    BY <1>3 DEF UpdateGroup
  <2>3. new \in Seq(Chars) /\ d \in Int
    BY <1>1, <2>1, UnderType
  <2>e. EndsInName(new, name)
    BY <1>1, <2>1
  <2>4. group[g] \in Row /\ group[g].exists /\ group[g].depth \in Int
    BY <2>1, TreeRows DEF Existing
  <2> HIDE DEF new, d
  <2>5. r \in Row /\ r.exists /\ r.name = name /\ r.path = new /\ diff \in Int
    <3>1. r \in Row /\ r.exists /\ r.name = name /\ r.path = new
      BY ONLY p \in AnyGroup, name \in Names, <2>3, <2>4 DEF Row
    <3>2. diff \in Int
      BY <2>3, <2>4
    <3> QED BY <3>1, <3>2
  <2> HIDE DEF r, diff
  <2>6. NamedInv'
    BY <2>1, <2>2, <2>e, <2>5, NamedRewrite
  <2> QED BY <2>1, <2>2, <2>6, PlainHasNoStrays
<1>4. ASSUME NEW g \in Groups, NEW name \in Names, Renames(g, name) PROVE NamedInv' /\ ~mistaken'
  <2> DEFINE p == group[g].parent
             new == PathUnder(p, name)
             r == [group[g] EXCEPT !.name = name, !.path = new]
  <2>1. /\ g \in Existing /\ p \in AnyGroup /\ (p # NoGroup => p \in Existing)
        /\ (name # group[g].name => Free(name))
    BY <1>4, TreeRows DEF Renames, Existing
  <2>2. /\ group' = [Rewritten(g, new, 0) EXCEPT ![g] = r]
        /\ mistaken' = (mistaken \/ Strays(g) # {})
    BY <1>4 DEF Renames
  <2>3. new \in Seq(Chars)
    BY <1>1, <2>1
  <2>e. EndsInName(new, name)
    BY <1>1, <2>1
  <2>4. group[g] \in Row /\ group[g].exists
    BY <2>1, TreeRows DEF Existing
  <2> HIDE DEF new
  <2>5. r \in Row /\ r.exists /\ r.name = name /\ r.path = new /\ 0 \in Int
    <3>1. r \in Row /\ r.exists /\ r.name = name /\ r.path = new
      BY ONLY name \in Names, <2>3, <2>4 DEF Row
    <3>2. 0 \in Int
      OBVIOUS
    <3> QED BY <3>1, <3>2
  <2> HIDE DEF r, p
  <2>6. NamedInv'
    BY <2>1, <2>2, <2>e, <2>5, NamedRewrite
  <2> QED BY <2>1, <2>2, <2>6, PlainHasNoStrays
<1>5. ASSUME NEW g \in Groups, Deletes(g) PROVE NamedInv' /\ ~mistaken'
  <2>1. /\ mistaken' = mistaken
        /\ \A c \in Groups : group'[c] = IF c = g THEN NoRow
                                         ELSE IF c \in Children(g) THEN [group[c] EXCEPT !.parent = NoGroup]
                                         ELSE group[c]
    BY <1>5 DEF Deletes
  <2>2. ASSUME NEW c \in Existing'
        PROVE  c \in Existing /\ group'[c].name = group[c].name /\ group'[c].path = group[c].path
    <3>1. c \in Groups /\ group'[c].exists
      BY DEF Existing
    <3>2. c # g
      BY <2>1, <3>1, NoRowIsRow
    <3>3. group[c] \in Row
      BY <3>1, TreeRows
    <3> QED BY <2>1, <3>1, <3>2, <3>3 DEF Existing, Row
  <2> QED BY <2>1, <2>2 DEF NamedInv
<1>6. ASSUME UNCHANGED <<group, mistaken>> PROVE NamedInv' /\ ~mistaken'
  BY <1>6 DEF NamedInv, Existing
<1> QED
  BY <1>2, <1>3, <1>4, <1>5, <1>6
  DEF GroupTreeNext, groupVars, CreateGroup, CreateSite, UpdateSite, DeleteGroup, DeleteSite, AssignGroup

\* If names had no slash and the database told characters apart (the pattern of
\* LIKE escaped, its comparison exact), update_group and update_site would keep
\* every path and depth right and prevent every circular reference.
THEOREM PlainNamesKeepTheTree ==
    ASSUME PlainNames
    PROVE  GroupTreeSpec => [](NoCircularReference /\ PathsFollow /\ DepthsFollow)
<1>1. GroupTreeInit => TreeInv /\ ~mistaken /\ NamedInv
  <2>1. ASSUME GroupTreeInit PROVE Existing = {} /\ ~mistaken
    BY <2>1, NoRowIsRow DEF GroupTreeInit, Existing
  <2> QED BY <2>1, TreeInitial DEF NamedInv
<1>2. TreeInv /\ ~mistaken /\ NamedInv /\ [GroupTreeNext]_groupVars
        => (TreeInv /\ ~mistaken /\ NamedInv)'
  BY TreeStep, NamedStep
<1>3. TreeInv /\ ~mistaken => NoCircularReference /\ PathsFollow /\ DepthsFollow
  BY TreeWalks DEF TreeInv
<1> QED
  BY <1>1, <1>2, <1>3, PTL DEF GroupTreeSpec
=============================================================================
