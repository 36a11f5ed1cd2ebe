---------------------------- MODULE UserAccounts ----------------------------
(***************************************************************************)
(* Users, their roles and their sessions (src/src/api/routes/users.py and  *)
(* login, logout and refresh_tokens of src/src/api/routes/auth.py).        *)
(*                                                                         *)
(* A session is a row of refresh_tokens, found by the hash of the value in *)
(* the browser's cookie; every refresh gives it a new value.  Requests     *)
(* load, check and commit, and others commit in between; a request that is *)
(* refused is rolled back whole, the deletion of an unusable session       *)
(* included.  Passwords, e-mail addresses and permissions are left out.    *)
(***************************************************************************)
EXTENDS Naturals, FiniteSets

CONSTANTS
    Users, Browsers,
    Sessions,           \* rows of refresh_tokens
    AccountSlots,       \* requests
    MaxValue            \* bound: refresh tokens made

ASSUME UserAccountsAssumption ==
    /\ IsFiniteSet(Users) /\ Users # {} /\ Sessions # {} /\ Browsers # {}
    /\ MaxValue \in Nat

Values == 0 .. MaxValue     \* 0: no cookie

VARIABLES
    user,       \* the rows of users
    session,    \* the rows of refresh_tokens
    cookie,     \* the refresh token each browser has
    made,       \* refresh tokens made so far
    account,    \* the requests
    overlapped  \* history: two requests have been in progress at once

accountVars == <<user, session, cookie, made, account, overlapped>>

UserRow == [ exists : BOOLEAN, admin : BOOLEAN, active : BOOLEAN ]
NoUser == [ exists |-> FALSE, admin |-> FALSE, active |-> FALSE ]

SessionRow == [ exists : BOOLEAN, user : Users, value : Values ]
NoSession == [ exists |-> FALSE, user |-> CHOOSE u \in Users : TRUE, value |-> 0 ]

Account ==
    [ pc      : {"idle", "login", "refresh", "answer", "role", "active", "password", "delete"},
      user    : Users,
      to      : BOOLEAN,            \* the new role or status
      browser : Browsers,
      rows    : SUBSET Sessions,    \* the sessions it loaded
      value   : Values ]            \* the token it answers with

NoAccount ==
    [ pc |-> "idle", user |-> NoSession.user, to |-> FALSE,
      browser |-> CHOOSE b \in Browsers : TRUE, rows |-> {}, value |-> 0 ]

\* One administrator, as an installation begins.
AccountsInit ==
    /\ \E u \in Users : user = [v \in Users |-> IF v = u THEN [exists |-> TRUE, admin |-> TRUE, active |-> TRUE]
                                                ELSE NoUser]
    /\ session = [k \in Sessions |-> NoSession]
    /\ cookie = [b \in Browsers |-> 0] /\ made = 0
    /\ account = [r \in AccountSlots |-> NoAccount]
    /\ overlapped = FALSE

Admins == {u \in Users : user[u].exists /\ user[u].admin}
ActiveAdmins == {u \in Admins : user[u].active}
Of(u) == {k \in Sessions : session[k].exists /\ session[k].user = u}
With(value) == {k \in Sessions : session[k].exists /\ session[k].value = value}

AccountBegins(r, holds) ==
    /\ account[r].pc = "idle"
    /\ account' = [account EXCEPT ![r] = holds]
    /\ overlapped' = (overlapped \/ \E s \in AccountSlots : account[s].pc # "idle")
    /\ UNCHANGED <<user, session, cookie, made>>

AccountEnds(r) == account' = [account EXCEPT ![r] = NoAccount]

-----------------------------------------------------------------------------
(* Users.  The requests are an active administrator's.                      *)

CreateUser(u, admin) ==
    /\ ActiveAdmins # {} /\ ~user[u].exists
    /\ \A r \in AccountSlots : account[r].pc # "idle" => account[r].user # u
    /\ \A k \in Sessions : session[k].exists => session[k].user # u     \* ids are new
    /\ user' = [user EXCEPT ![u] = [exists |-> TRUE, admin |-> admin, active |-> TRUE]]
    /\ UNCHANGED <<session, cookie, made, account, overlapped>>

\* Mutation: the check is on the user, not on the others.
DemotableAny(u, admin) == user[u].exists

\* update_user counts the administrators, active or not, ...
Demotable(u, admin) ==
    user[u].exists /\ (user[u].admin /\ ~admin => Cardinality(Admins) > 1)

SetRoleReads(r, u, admin) ==
    /\ ActiveAdmins # {} /\ Demotable(u, admin)
    /\ AccountBegins(r, [NoAccount EXCEPT !.pc = "role", !.user = u, !.to = admin])

SetRoleCommits(r) ==
    LET u == account[r].user IN
    /\ account[r].pc = "role"
    /\ user' = IF user[u].exists THEN [user EXCEPT ![u].admin = account[r].to] ELSE user
    /\ AccountEnds(r)
    /\ UNCHANGED <<session, cookie, made, overlapped>>

\* ... or the active ones before it disables one.
SetActiveReads(r, u, active) ==
    /\ ActiveAdmins # {} /\ user[u].exists
    /\ user[u].admin /\ ~active => Cardinality(ActiveAdmins) > 1
    /\ AccountBegins(r, [NoAccount EXCEPT !.pc = "active", !.user = u, !.to = active])

SetActiveCommits(r) ==
    LET u == account[r].user IN
    /\ account[r].pc = "active"
    /\ user' = IF user[u].exists THEN [user EXCEPT ![u].active = account[r].to] ELSE user
    /\ AccountEnds(r)
    /\ UNCHANGED <<session, cookie, made, overlapped>>

\* Not one's own account, and not the last administrator's.
DeleteUserReads(r, u) ==
    /\ user[u].exists /\ ActiveAdmins \ {u} # {}
    /\ user[u].admin => Cardinality(Admins) > 1
    /\ AccountBegins(r, [NoAccount EXCEPT !.pc = "delete", !.user = u, !.rows = Of(u)])

\* Mutation: only one of them is.
EndSessionsOne(r) ==
    session' = [k \in Sessions |->
                  IF account[r].rows # {} /\ k = CHOOSE m \in Sessions : m \in account[r].rows
                  THEN NoSession ELSE session[k]]

\* The sessions that were loaded are deleted.
EndSessions(r) ==
    session' = [k \in Sessions |-> IF k \in account[r].rows THEN NoSession ELSE session[k]]

DeleteUserCommits(r) ==
    /\ account[r].pc = "delete"
    /\ user' = [user EXCEPT ![account[r].user] = NoUser]
    /\ EndSessions(r)
    /\ AccountEnds(r)
    /\ UNCHANGED <<cookie, made, overlapped>>

ChangePasswordReads(r, u) ==
    /\ user[u].exists /\ (user[u].active \/ ActiveAdmins # {})
    /\ AccountBegins(r, [NoAccount EXCEPT !.pc = "password", !.user = u, !.rows = Of(u)])

\* A user who was deleted meanwhile makes the update fail.
ChangePasswordCommits(r) ==
    /\ account[r].pc = "password"
    /\ IF user[account[r].user].exists THEN EndSessions(r) ELSE UNCHANGED session
    /\ AccountEnds(r)
    /\ UNCHANGED <<user, cookie, made, overlapped>>

-----------------------------------------------------------------------------
(* Sessions.                                                                *)

LoginReads(r, u, b) ==
    /\ user[u].exists /\ user[u].active
    /\ AccountBegins(r, [NoAccount EXCEPT !.pc = "login", !.user = u, !.browser = b])

\* A new token, and the answer that carries it.
AnswersWithToken(r) ==
    /\ made < MaxValue
    /\ made' = made + 1
    /\ account' = [account EXCEPT ![r] = [NoAccount EXCEPT !.pc = "answer", !.value = made + 1,
                                                          !.browser = account[r].browser]]

\* The row of a session nobody else has in hand.
LoginCommits(r) ==
    /\ account[r].pc = "login"
    /\ \E k \in Sessions :
          /\ ~session[k].exists /\ \A s \in AccountSlots : k \notin account[s].rows
          /\ session' = [session EXCEPT ![k] = [exists |-> TRUE, user |-> account[r].user, value |-> made + 1]]
    /\ AnswersWithToken(r)
    /\ UNCHANGED <<user, cookie, overlapped>>

RefreshReads(r, b) ==
    \E k \in With(cookie[b]) :
        /\ user[session[k].user].exists /\ user[session[k].user].active
        /\ AccountBegins(r, [NoAccount EXCEPT !.pc = "refresh", !.user = session[k].user, !.browser = b,
                                              !.rows = {k}])

\* The row gets a new value; a row that is gone makes the update fail.
RefreshCommits(r) ==
    LET k == CHOOSE k \in Sessions : k \in account[r].rows IN
    /\ account[r].pc = "refresh"
    /\ IF session[k].exists
       THEN session' = [session EXCEPT ![k].value = made + 1] /\ AnswersWithToken(r)
       ELSE AccountEnds(r) /\ UNCHANGED <<session, made>>
    /\ UNCHANGED <<user, cookie, overlapped>>

\* The browser takes the answers as they come.
TakeCookie(r) ==
    /\ account[r].pc = "answer"
    /\ cookie' = [cookie EXCEPT ![account[r].browser] = account[r].value]
    /\ AccountEnds(r)
    /\ UNCHANGED <<user, session, made, overlapped>>

Logout(b) ==
    /\ cookie[b] # 0
    /\ session' = [k \in Sessions |-> IF k \in With(cookie[b]) THEN NoSession ELSE session[k]]
    /\ cookie' = [cookie EXCEPT ![b] = 0]
    /\ UNCHANGED <<user, made, account, overlapped>>

AccountStep(r) ==
    \/ SetRoleCommits(r) \/ SetActiveCommits(r) \/ DeleteUserCommits(r) \/ ChangePasswordCommits(r)
    \/ LoginCommits(r) \/ RefreshCommits(r) \/ TakeCookie(r)

AccountsNext ==
    \/ \E u \in Users, to \in BOOLEAN : CreateUser(u, to)
    \/ \E b \in Browsers : Logout(b)
    \/ \E r \in AccountSlots :
          \/ AccountStep(r)
          \/ \E u \in Users, to \in BOOLEAN : SetRoleReads(r, u, to) \/ SetActiveReads(r, u, to)
          \/ \E u \in Users : DeleteUserReads(r, u) \/ ChangePasswordReads(r, u)
          \/ \E u \in Users, b \in Browsers : LoginReads(r, u, b)
          \/ \E b \in Browsers : RefreshReads(r, b)

AccountsSpec == AccountsInit /\ [][AccountsNext]_accountVars

-----------------------------------------------------------------------------
(* Properties                                                               *)

\* Every variable has its type.
AccountTypeOK ==
    /\ user \in [Users -> UserRow] /\ session \in [Sessions -> SessionRow]
    /\ cookie \in [Browsers -> Values] /\ made \in Values
    /\ account \in [AccountSlots -> Account] /\ overlapped \in BOOLEAN

\* The account of an administrator, active or disabled, is always there,
\* whatever is demoted, disabled or deleted in whatever order, as long as
\* requests do not overlap.
AdminRemains == ~overlapped => Admins # {}

\* Nobody has a session who is not there any more.
SessionHasUser == ~overlapped => \A k \in Sessions : session[k].exists => user[session[k].user].exists

\* Accounts and sessions fit together: one request at a time, an
\* administrator's account stays, active or not, and no session outlives its
\* user.
AccountsAreSound == AccountTypeOK /\ AdminRemains /\ SessionHasUser

\* A changed password or a deleted user leaves no session of that user behind:
\* none that was refreshed, given up or made by a second login before it.
AllSessionsEnd ==
    [][\A r \in AccountSlots :
          ~overlapped /\ account[r].pc \in {"password", "delete"} /\ account'[r].pc = "idle" =>
             \A k \in Sessions : session'[k].exists => session'[k].user # account[r].user]_accountVars
=============================================================================
