---------------------------- MODULE SignInProofs ----------------------------
(***************************************************************************)
(* SignIn's properties, for any users, providers, accounts and limits.      *)
(*                                                                          *)
(* A request that has passed its check carries what the check found: the    *)
(* invariants say that nothing which happens between check and commit can   *)
(* take it away.  IInv needs no assumption.  JInv, which it is part of,     *)
(* holds when neither route that escapes the lock overlaps another change.  *)
(***************************************************************************)
EXTENDS SignIn, TLAPS

\* What a request that has passed its check will do to a user.
OnUser(r) == r.op \in {"role", "toggle", "unlink", "delete"}
TakesAdmin(r) == r.op \in {"toggle", "delete"} \/ (r.op = "role" /\ r.role = "viewer")
TakesLink(r) == TakesAdmin(r) \/ r.op = "unlink"

\* Users that are gone leave no link behind (the cascades of models/core.py).
AbsentOwnNothing == \A u \in User : ~Exists(u) => ~user[u].active /\ link[u] = NoOne

\* The lock admits one request.
OneChecked == \A r1, r2 \in checked : r1 = r2

\* What count_active_admins found before the commit is still so.
PendingKeepsAdmin ==
  \A r \in checked :
    /\ OnUser(r) => Exists(r.user)
    /\ TakesAdmin(r) /\ r.user \in ActiveAdmins => ActiveAdmins \ {r.user} # {}

AdminStays == onboarding = "complete" => ActiveAdmins # {}

IInv ==
  /\ TypeOK
  /\ AbsentOwnNothing
  /\ OneChecked
  /\ PendingKeepsAdmin
  /\ AdminStays
  /\ OidcSessionsLinked

-----------------------------------------------------------------------------
\* The records of requests, one kind at a time.
LEMMA GuardedShape ==
  ASSUME NEW r \in Guarded
  PROVE  /\ OnUser(r) => r.user \in User
         /\ r.op = "role" => r.role \in {"viewer", "admin"}
         /\ r.op = "save" => r.provider \in Provider /\ r.changed \in BOOLEAN
  BY DEF Guarded, OnUser

LEMMA AwaitingShape ==
  ASSUME NEW r \in Awaiting
  PROVE  /\ r.op \in {"save", "enable"} => r.provider \in Provider
         /\ r.op = "save" => r.secret \in BOOLEAN
         /\ r.op = "login" => r.user \in User
         /\ r.op = "callback" => r.identity \in Identity /\ r.jit \in BOOLEAN
  BY DEF Awaiting

LEMMA IdentityShape ==
  /\ NoOne \notin User /\ NoOne \notin Provider /\ NoOne \notin Identity
  /\ \A i \in Identity : i.issuer \in Provider
  BY SignInAssumption DEF SignInAssumption, Identity

\* What a configuration looks like after _enforce_login_methods.
LEMMA EnforcedShape ==
  ASSUME NEW c \in Config
  PROVE  /\ Enforced(c) \in Config
         /\ Enforced(c).provider = c.provider /\ Enforced(c).issuer = c.issuer
         /\ Enforced(c).secret = c.secret /\ Enforced(c).enabled = c.enabled
         /\ c.password => Enforced(c).password
         /\ LoginAvailable(Enforced(c)) = LoginAvailable(c)
         /\ LoginAvailable(c) => Enforced(c) = c
         /\ ~LoginAvailable(c) => Enforced(c).password
  BY DEF Enforced, Config, LoginAvailable, Complete

\* A request that changes users or settings stays within its bound.
LEMMA Counted == ASSUME TypeOK, Bounded PROVE changes' \in 0..MaxChanges
  BY SignInAssumption DEF SignInAssumption, TypeOK, Bounded

-----------------------------------------------------------------------------
\* Users, links and sessions

\* Most requests touch no user and no link.
LEMMA Frame ==
  ASSUME IInv, TypeOK', user' = user, link' = link, sessions' \subseteq sessions \cup SessionsBy("password"),
         checked' \subseteq checked, onboarding' = onboarding
  PROVE  IInv'
<1>1. AbsentOwnNothing' /\ AdminStays' /\ OneChecked' /\ PendingKeepsAdmin'
  BY DEF IInv, AbsentOwnNothing, AdminStays, OneChecked, PendingKeepsAdmin, Exists, ActiveAdmins
<1>2. OidcSessionsLinked'
  BY DEF IInv, OidcSessionsLinked, SessionsBy
<1> QED BY <1>1, <1>2 DEF IInv

\* A check adds a request that keeps an administrator.
LEMMA CheckedIInv ==
  ASSUME IInv, NEW r \in Guarded, Check(r),
         inflight' \subseteq inflight, changes' \in 0..MaxChanges,
         OnUser(r) => Exists(r.user),
         TakesAdmin(r) /\ r.user \in ActiveAdmins => ActiveAdmins \ {r.user} # {}
  PROVE  IInv'
<1>1. /\ checked' = {r} /\ user' = user /\ link' = link /\ sessions' = sessions
      /\ config' = config /\ onboarding' = onboarding /\ breakGlass' = breakGlass
  BY DEF Check, LockFree, accounts
<1>2. TypeOK'
  BY <1>1 DEF IInv, TypeOK
<1>3. AbsentOwnNothing' /\ AdminStays' /\ OneChecked' /\ PendingKeepsAdmin'
  BY <1>1 DEF IInv, AbsentOwnNothing, AdminStays, OneChecked, PendingKeepsAdmin, Exists, ActiveAdmins
<1>4. OidcSessionsLinked'
  BY <1>1 DEF IInv, OidcSessionsLinked
<1> QED BY <1>2, <1>3, <1>4 DEF IInv

\* A new user, whatever the role, takes no administrator away.
LEMMA NewUserKeepsAdmins ==
  ASSUME IInv, NEW u \in User, ~Exists(u), NEW row \in UserRow,
         user' = [user EXCEPT ![u] = row], row.role # "none",
         checked' = checked, onboarding' = onboarding \/ ActiveAdmins' # {}
  PROVE  AdminStays' /\ PendingKeepsAdmin' /\ \A v \in User : Exists(v) => Exists(v)'
<1>1. user \in [User -> UserRow] /\ checked \subseteq Guarded
  BY DEF IInv, TypeOK
<1>2. \A v \in User : v # u => user'[v] = user[v]
  BY <1>1
<1>3. \A v \in User : Exists(v) => Exists(v)' /\ (v \in ActiveAdmins' <=> v \in ActiveAdmins)
  BY <1>2, <1>1 DEF Exists, ActiveAdmins
<1>4. ActiveAdmins \subseteq ActiveAdmins'
  BY <1>3 DEF Exists, ActiveAdmins
<1>5. PendingKeepsAdmin'
  <2> SUFFICES ASSUME NEW r \in checked
      PROVE  /\ OnUser(r) => Exists(r.user)'
             /\ TakesAdmin(r) /\ r.user \in ActiveAdmins' => ActiveAdmins' \ {r.user} # {}
    BY DEF PendingKeepsAdmin
  <2>1. (OnUser(r) => r.user \in User /\ Exists(r.user)) /\ (TakesAdmin(r) => OnUser(r))
    BY <1>1, GuardedShape DEF IInv, PendingKeepsAdmin, OnUser, TakesAdmin
  <2> QED BY <1>3, <1>4, <2>1 DEF IInv, PendingKeepsAdmin
<1> QED BY <1>3, <1>4, <1>5 DEF IInv, AdminStays

LEMMA CreateUserStep ==
  ASSUME IInv, NEW actor, NEW u \in User, NEW role \in {"viewer", "admin"}, CreateUser(actor, u, role)
  PROVE  IInv'
<1> DEFINE row == [role |-> role, active |-> TRUE, password |-> TRUE]
<1>1. row \in UserRow /\ row.role # "none" /\ user' = [user EXCEPT ![u] = row]
  BY DEF UserRow, CreateUser
<1>2. TypeOK'
  BY <1>1, Counted DEF IInv, TypeOK, CreateUser
<1>3. AdminStays' /\ PendingKeepsAdmin'
  BY <1>1, NewUserKeepsAdmins DEF CreateUser
<1>4. AbsentOwnNothing'
  BY <1>1 DEF IInv, TypeOK, AbsentOwnNothing, Exists, CreateUser
<1>5. OneChecked' /\ OidcSessionsLinked'
  BY DEF IInv, OneChecked, OidcSessionsLinked, CreateUser
<1> QED BY <1>2, <1>3, <1>4, <1>5 DEF IInv

LEMMA ResetPasswordStep ==
  ASSUME IInv, NEW actor, NEW u \in User, ResetPassword(actor, u)
  PROVE  IInv'
<1>1. user' = [user EXCEPT ![u].password = TRUE] /\ user \in [User -> UserRow]
  BY DEF ResetPassword, IInv, TypeOK
<1>2. /\ user' \in [User -> UserRow]
      /\ \A v \in User : user'[v].role = user[v].role /\ user'[v].active = user[v].active
  BY <1>1 DEF UserRow
<1>3. ActiveAdmins' = ActiveAdmins /\ \A v \in User : Exists(v)' <=> Exists(v)
  BY <1>2 DEF ActiveAdmins, Exists
<1>4. TypeOK'
  BY <1>2, Counted DEF IInv, TypeOK, ResetPassword
<1>5. PendingKeepsAdmin'
  BY <1>3, GuardedShape DEF IInv, TypeOK, PendingKeepsAdmin, ResetPassword
<1>6. AbsentOwnNothing' /\ AdminStays' /\ OneChecked' /\ OidcSessionsLinked'
  BY <1>2, <1>3 DEF IInv, AbsentOwnNothing, AdminStays, OneChecked, OidcSessionsLinked, ResetPassword
<1> QED BY <1>4, <1>5, <1>6 DEF IInv

LEMMA ChangePasswordStep == ASSUME IInv, NEW u \in User, ChangePassword(u) PROVE IInv'
<1>1. TypeOK'
  <2>1. {<<u, "password">>} \subseteq User \X Method
    BY DEF Method
  <2>2. sessions' \subseteq User \X Method
    BY <2>1 DEF IInv, TypeOK, ChangePassword
  <2> QED BY <2>2 DEF IInv, TypeOK, ChangePassword
<1>2. sessions' \subseteq sessions \cup SessionsBy("password")
  BY DEF ChangePassword, SessionsBy
<1> QED BY <1>1, <1>2, Frame DEF ChangePassword

\* The checks of the routes imply what a pending request carries.
LEMMA UserCheckSteps ==
  ASSUME IInv, NEW actor, NEW u \in User,
         \/ \E role \in {"viewer", "admin"} : CheckRole(actor, u, role)
         \/ CheckToggle(actor, u) \/ CheckRevoke(actor, u) \/ CheckUnlink(u) \/ CheckDelete(actor, u)
  PROVE  IInv'
<1>1. /\ \A role \in {"viewer", "admin"} : [op |-> "role", user |-> u, role |-> role] \in Guarded
      /\ \A op \in {"toggle", "unlink", "delete"} : [op |-> op, user |-> u] \in Guarded
  BY DEF Guarded
<1>2. inflight' \subseteq inflight /\ changes' \in 0..MaxChanges
  BY Counted DEF IInv, CheckRole, CheckToggle, CheckRevoke, CheckUnlink, CheckDelete
<1>3. /\ u \in ActiveAdmins => user[u].role = "admin" /\ user[u].active /\ Exists(u)
      /\ link[u] # NoOne => Exists(u)
      /\ user[u] \in UserRow
  BY DEF ActiveAdmins, Exists, IInv, AbsentOwnNothing, TypeOK
<1>4. ASSUME NEW role \in {"viewer", "admin"}, CheckRole(actor, u, role) PROVE IInv'
  <2> DEFINE r == [op |-> "role", user |-> u, role |-> role]
  <2>1. [user[u] EXCEPT !.role = role].role = role
    BY <1>3 DEF UserRow
  <2>2. TakesAdmin(r) /\ u \in ActiveAdmins => ActiveAdmins \ {u} # {}
    BY <1>4, <2>1 DEF CheckRole, StaysReachable, TakesAdmin
  <2>3. Check(r) /\ Exists(u) /\ r \in Guarded
    BY <1>4, <1>1 DEF CheckRole
  <2> QED BY <1>2, <2>2, <2>3, CheckedIInv
<1>5. CASE CheckToggle(actor, u)
  <2> DEFINE r == [op |-> "toggle", user |-> u]
  <2>1. [user[u] EXCEPT !.active = ~@].active = ~user[u].active
    BY <1>3 DEF UserRow
  <2>2. u \in ActiveAdmins => ActiveAdmins \ {u} # {}
    BY <1>3, <1>5, <2>1 DEF CheckToggle, StaysReachable
  <2>3. Check(r) /\ Exists(u) /\ r \in Guarded
    BY <1>5, <1>1 DEF CheckToggle
  <2> QED BY <1>2, <2>2, <2>3, CheckedIInv
<1>6. CASE CheckRevoke(actor, u) \/ CheckUnlink(u)
  <2> DEFINE r == [op |-> "unlink", user |-> u]
  <2>1. Check(r) /\ Exists(u) /\ r \in Guarded /\ ~TakesAdmin(r)
    BY <1>1, <1>3, <1>6 DEF CheckRevoke, CheckUnlink, TakesAdmin
  <2> QED BY <1>2, <2>1, CheckedIInv
<1>7. CASE CheckDelete(actor, u)
  <2> DEFINE r == [op |-> "delete", user |-> u]
  <2>1. u \in ActiveAdmins => ActiveAdmins \ {u} # {}
    BY <1>7 DEF CheckDelete, StaysReachable, Absent
  <2>2. Check(r) /\ Exists(u) /\ r \in Guarded
    BY <1>7, <1>1 DEF CheckDelete
  <2> QED BY <1>2, <2>1, <2>2, CheckedIInv
<1> QED BY <1>4, <1>5, <1>6, <1>7

LEMMA SettingsCheckSteps ==
  ASSUME IInv, \/ \E actor : CheckDeleteSecret(actor)
               \/ \E u : CheckDisablePassword(u)
  PROVE  IInv'
<1>1. \A op \in {"disable_password", "delete_secret"} :
        /\ [op |-> op] \in Guarded
        /\ ~OnUser([op |-> op]) /\ ~TakesAdmin([op |-> op])
  BY DEF Guarded, OnUser, TakesAdmin
<1>2. inflight' \subseteq inflight /\ changes' \in 0..MaxChanges
  BY Counted DEF IInv, CheckDeleteSecret, CheckDisablePassword
<1>3. Check([op |-> "delete_secret"]) \/ Check([op |-> "disable_password"])
  BY DEF CheckDeleteSecret, CheckDisablePassword
<1> QED BY <1>1, <1>2, <1>3, CheckedIInv

LEMMA CheckSaveStep ==
  ASSUME IInv, NEW request \in inflight, NEW changed \in BOOLEAN, CheckSave(request, changed)
  PROVE  IInv'
<1> DEFINE r == [op |-> "save", provider |-> request.provider, changed |-> changed]
<1>1. request \in Awaiting /\ request.op = "save"
  BY DEF IInv, TypeOK, CheckSave
<1>2. r \in Guarded /\ ~OnUser(r) /\ ~TakesAdmin(r)
  BY <1>1, AwaitingShape DEF Guarded, OnUser, TakesAdmin
<1>3. inflight' \subseteq inflight /\ changes' \in 0..MaxChanges /\ Check(r)
  BY DEF IInv, TypeOK, CheckSave
<1> QED BY <1>2, <1>3, CheckedIInv

\* What a commit finds: the only request checked, and users as checked.
LEMMA Pending ==
  ASSUME IInv, NEW r \in checked, Commit(r)
  PROVE  /\ r \in Guarded /\ checked' = {}
         /\ OnUser(r) => r.user \in User /\ Exists(r.user) /\ user[r.user] \in UserRow
         /\ onboarding' = onboarding /\ breakGlass' = breakGlass
         /\ inflight' = inflight /\ changes' = changes
<1>1. r \in Guarded /\ checked' = {}
  BY DEF IInv, TypeOK, OneChecked, Commit
<1>2. OnUser(r) => r.user \in User /\ Exists(r.user)
  BY <1>1, GuardedShape DEF IInv, PendingKeepsAdmin
<1> QED BY <1>1, <1>2 DEF IInv, TypeOK, Commit

LEMMA CommitRoleStep ==
  ASSUME IInv, NEW r \in checked, CommitRole(r)
  PROVE  IInv'
<1> DEFINE u == r.user
<1>1. /\ r \in Guarded /\ r.op = "role" /\ OnUser(r) /\ checked' = {}
      /\ r.role \in {"viewer", "admin"} /\ u \in User /\ Exists(u) /\ user[u] \in UserRow
      /\ onboarding' = onboarding /\ breakGlass' = breakGlass
      /\ inflight' = inflight /\ changes' = changes
  BY Pending, GuardedShape DEF CommitRole, OnUser
<1>2. /\ user' \in [User -> UserRow]
      /\ user'[u].role = r.role /\ user'[u].active = user[u].active
      /\ \A v \in User : v # u => user'[v] = user[v]
  BY <1>1 DEF CommitRole, IInv, TypeOK, UserRow
<1>3. TypeOK'
  BY <1>1, <1>2 DEF IInv, TypeOK, CommitRole
<1>4. AbsentOwnNothing'
  BY <1>1, <1>2 DEF IInv, AbsentOwnNothing, Exists, CommitRole
<1>5. AdminStays'
  <2>1. ActiveAdmins \ {u} \subseteq ActiveAdmins'
    BY <1>2 DEF ActiveAdmins
  <2>2. CASE r.role = "admin"
    BY <1>1, <1>2, <2>2, <2>1 DEF ActiveAdmins, AdminStays, IInv
  <2>3. CASE r.role = "viewer"
    BY <1>1, <2>3, <2>1 DEF TakesAdmin, PendingKeepsAdmin, AdminStays, IInv
  <2> QED BY <1>1, <2>2, <2>3
<1>6. OneChecked' /\ PendingKeepsAdmin' /\ OidcSessionsLinked'
  BY <1>1 DEF OneChecked, PendingKeepsAdmin, IInv, OidcSessionsLinked, CommitRole
<1> QED BY <1>3, <1>4, <1>5, <1>6 DEF IInv

LEMMA CommitToggleStep ==
  ASSUME IInv, NEW r \in checked, CommitToggle(r)
  PROVE  IInv'
<1> DEFINE u == r.user
<1>1. /\ r \in Guarded /\ r.op = "toggle" /\ OnUser(r) /\ checked' = {}
      /\ u \in User /\ Exists(u) /\ user[u] \in UserRow
      /\ onboarding' = onboarding /\ breakGlass' = breakGlass
      /\ inflight' = inflight /\ changes' = changes
  BY Pending DEF CommitToggle, OnUser
<1>2. /\ user' \in [User -> UserRow]
      /\ user'[u].role = user[u].role
      /\ \A v \in User : v # u => user'[v] = user[v]
  BY <1>1 DEF CommitToggle, IInv, TypeOK, UserRow
<1>3. sessions' \subseteq sessions /\ link' = link
  BY DEF CommitToggle
<1>4. TypeOK'
  BY <1>1, <1>2, <1>3 DEF IInv, TypeOK, CommitToggle
<1>5. AbsentOwnNothing'
  BY <1>1, <1>2, <1>3 DEF IInv, AbsentOwnNothing, Exists
<1>6. AdminStays'
  <2>1. ActiveAdmins \ {u} \subseteq ActiveAdmins'
    BY <1>2 DEF ActiveAdmins
  <2> QED BY <1>1, <2>1 DEF TakesAdmin, PendingKeepsAdmin, AdminStays, IInv
<1>7. OneChecked' /\ PendingKeepsAdmin' /\ OidcSessionsLinked'
  BY <1>1, <1>3 DEF OneChecked, PendingKeepsAdmin, IInv, OidcSessionsLinked
<1> QED BY <1>4, <1>5, <1>6, <1>7 DEF IInv

LEMMA CommitUnlinkStep ==
  ASSUME IInv, NEW r \in checked, CommitUnlink(r)
  PROVE  IInv'
<1> DEFINE u == r.user
<1>1. /\ r.op = "unlink" /\ checked' = {} /\ u \in User
      /\ onboarding' = onboarding /\ breakGlass' = breakGlass
      /\ inflight' = inflight /\ changes' = changes
  BY Pending DEF CommitUnlink, OnUser
<1>2. /\ link' = [link EXCEPT ![u] = NoOne] /\ user' = user /\ config' = config
      /\ sessions' = sessions \ SessionsOf(u)
  BY DEF CommitUnlink, UnlinkedSessions
<1>3. TypeOK'
  BY <1>1, <1>2 DEF IInv, TypeOK
<1>4. AbsentOwnNothing' /\ AdminStays'
  BY <1>1, <1>2 DEF IInv, TypeOK, AbsentOwnNothing, AdminStays, Exists, ActiveAdmins
<1>5. OidcSessionsLinked'
  BY <1>1, <1>2 DEF IInv, TypeOK, OidcSessionsLinked, SessionsOf, Method
<1>6. OneChecked' /\ PendingKeepsAdmin'
  BY <1>1 DEF OneChecked, PendingKeepsAdmin
<1> QED BY <1>3, <1>4, <1>5, <1>6 DEF IInv

LEMMA CommitDeleteStep ==
  ASSUME IInv, NEW r \in checked, CommitDelete(r)
  PROVE  IInv'
<1> DEFINE u == r.user
<1>1. /\ r.op = "delete" /\ checked' = {} /\ u \in User
      /\ onboarding' = onboarding /\ breakGlass' = breakGlass
      /\ inflight' = inflight /\ changes' = changes
  BY Pending DEF CommitDelete, OnUser
<1>2. /\ link' = [link EXCEPT ![u] = NoOne] /\ user' = [user EXCEPT ![u] = Absent]
      /\ sessions' = sessions \ SessionsOf(u) /\ config' = config
  BY DEF CommitDelete
<1>3. Absent \in UserRow
  BY DEF Absent, UserRow
<1>4. TypeOK'
  BY <1>1, <1>2, <1>3 DEF IInv, TypeOK
<1>5. AbsentOwnNothing'
  BY <1>1, <1>2 DEF IInv, TypeOK, AbsentOwnNothing, Exists, Absent
<1>6. AdminStays'
  <2>1. ActiveAdmins \ {u} \subseteq ActiveAdmins'
    BY <1>1, <1>2 DEF ActiveAdmins, IInv, TypeOK
  <2> QED BY <1>1, <2>1 DEF TakesAdmin, PendingKeepsAdmin, AdminStays, IInv
<1>7. OidcSessionsLinked'
  BY <1>1, <1>2 DEF IInv, TypeOK, OidcSessionsLinked, SessionsOf, Method
<1>8. OneChecked' /\ PendingKeepsAdmin'
  BY <1>1 DEF OneChecked, PendingKeepsAdmin
<1> QED BY <1>4, <1>5, <1>6, <1>7, <1>8 DEF IInv

-----------------------------------------------------------------------------
\* Requests that await

LEMMA AwaitStep ==
  ASSUME IInv, \/ \E actor : \E p \in Provider, secret \in BOOLEAN : BeginSave(actor, p, secret)
               \/ \E actor : BeginEnable(actor)
               \/ \E u \in User : BeginLogin(u)
               \/ \E u \in User \cup {NoOne}, identity \in Identity : BeginCallback(u, identity)
  PROVE  IInv'
<1>1. \E r \in Awaiting : Await(r)
  <2>1. ASSUME NEW actor, NEW p \in Provider, NEW secret \in BOOLEAN, BeginSave(actor, p, secret)
        PROVE  \E r \in Awaiting : Await(r)
    <3>1. [op |-> "save", provider |-> p, secret |-> secret] \in Awaiting
      BY DEF Awaiting
    <3> QED BY <2>1, <3>1 DEF BeginSave
  <2>2. ASSUME NEW actor, BeginEnable(actor) PROVE \E r \in Awaiting : Await(r)
    <3>1. config.provider \in Provider
      BY <2>2 DEF BeginEnable, Complete, IInv, TypeOK, Config
    <3>2. [op |-> "enable", provider |-> config.provider] \in Awaiting
      BY <3>1 DEF Awaiting
    <3> QED BY <2>2, <3>2 DEF BeginEnable
  <2>3. ASSUME NEW u \in User, BeginLogin(u) PROVE \E r \in Awaiting : Await(r)
    <3>1. [op |-> "login", user |-> u] \in Awaiting
      BY DEF Awaiting
    <3> QED BY <2>3, <3>1 DEF BeginLogin
  <2>4. ASSUME NEW u \in User \cup {NoOne}, NEW identity \in Identity, BeginCallback(u, identity)
        PROVE  \E r \in Awaiting : Await(r)
    <3>1. config.jit \in BOOLEAN
      BY DEF IInv, TypeOK, Config
    <3>2. [op |-> "callback", user |-> u, identity |-> identity, jit |-> config.jit] \in Awaiting
      BY <3>1 DEF Awaiting
    <3> QED BY <2>4, <3>2 DEF BeginCallback
  <2> QED BY <2>1, <2>2, <2>3, <2>4
<1>2. changes' \in 0..MaxChanges
  BY Counted DEF IInv, TypeOK, BeginSave, BeginEnable, BeginLogin, BeginCallback
<1>3. TypeOK'
  BY <1>1, <1>2 DEF IInv, TypeOK, Await, accounts
<1> QED BY <1>1, <1>3, Frame DEF Await, accounts

LEMMA FailStep == ASSUME IInv, NEW r \in inflight, Fail(r) PROVE IInv'
<1>1. TypeOK'
  BY DEF IInv, TypeOK, Fail, accounts
<1> QED BY <1>1, Frame DEF Fail, accounts

LEMMA FinishLoginStep == ASSUME IInv, NEW r \in inflight, FinishLogin(r) PROVE IInv'
<1>1. r.user \in User
  BY AwaitingShape DEF IInv, TypeOK, FinishLogin
<1>2. sessions' \subseteq sessions \cup SessionsBy("password") /\ sessions' \subseteq User \X Method
  BY <1>1 DEF IInv, TypeOK, FinishLogin, SessionsBy, Method
<1>3. TypeOK'
  BY <1>2 DEF IInv, TypeOK, FinishLogin
<1> QED BY <1>2, <1>3, Frame DEF FinishLogin

\* A sign-in with an account nobody owns makes a viewer and its link.
LEMMA CompleteLoginStep ==
  ASSUME IInv, NEW r \in inflight, NEW u \in User, CompleteLogin(r, u)
  PROVE  IInv'
<1>1. r \in Awaiting /\ r.identity \in Identity /\ r.identity # NoOne
  BY AwaitingShape, IdentityShape DEF IInv, TypeOK, CompleteLogin, Provisioned
<1>2. sessions' = sessions \cup {<<u, "oidc">>} /\ sessions' \subseteq User \X Method
  BY DEF CompleteLogin, Provisioned, IInv, TypeOK, Method
<1>3. CASE Owners(r.identity) # {}
  <2>1. u \in Owners(r.identity) /\ user' = user /\ link' = link
    BY <1>3 DEF CompleteLogin, Provisioned
  <2>2. link[u] # NoOne
    BY <1>1, <2>1 DEF Owners
  <2>3. TypeOK'
    BY <1>2, <2>1 DEF IInv, TypeOK, CompleteLogin, Provisioned
  <2>4. AbsentOwnNothing' /\ AdminStays' /\ OneChecked' /\ PendingKeepsAdmin'
    BY <2>1 DEF IInv, AbsentOwnNothing, AdminStays, OneChecked, PendingKeepsAdmin, Exists,
                ActiveAdmins, CompleteLogin, Provisioned
  <2>5. OidcSessionsLinked'
    BY <1>2, <2>1, <2>2 DEF IInv, OidcSessionsLinked
  <2> QED BY <2>3, <2>4, <2>5 DEF IInv
<1>4. CASE Owners(r.identity) = {}
  <2> DEFINE row == [role |-> "viewer", active |-> TRUE, password |-> FALSE]
  <2>1. /\ ~Exists(u) /\ user' = [user EXCEPT ![u] = row]
        /\ link' = [link EXCEPT ![u] = r.identity]
        /\ checked' = checked /\ onboarding' = onboarding
    BY <1>4 DEF CompleteLogin, Provisioned
  <2>2. row \in UserRow /\ row.role # "none"
    BY DEF UserRow
  <2>3. TypeOK'
    BY <1>1, <1>2, <2>1, <2>2 DEF IInv, TypeOK, CompleteLogin, Provisioned
  <2>4. AdminStays' /\ PendingKeepsAdmin'
    BY <2>1, <2>2, NewUserKeepsAdmins
  <2>5. AbsentOwnNothing'
    BY <2>1 DEF IInv, TypeOK, AbsentOwnNothing, Exists
  <2>6. OneChecked'
    BY <2>1 DEF IInv, OneChecked
  <2>7. OidcSessionsLinked'
    BY <1>1, <1>2, <2>1 DEF IInv, TypeOK, OidcSessionsLinked
  <2> QED BY <2>3, <2>4, <2>5, <2>6, <2>7 DEF IInv
<1> QED BY <1>3, <1>4

LEMMA CompleteLinkStep ==
  ASSUME IInv, NEW r \in inflight, NEW u \in User, CompleteLink(r, u)
  PROVE  IInv'
<1>1. /\ r.identity \in Identity /\ r.identity # NoOne /\ user[u].active
      /\ link' = [link EXCEPT ![u] = r.identity] /\ user' = user /\ sessions' = sessions
      /\ checked' = checked /\ onboarding' = onboarding
  BY AwaitingShape, IdentityShape DEF IInv, TypeOK, CompleteLink, Linked
<1>2. TypeOK'
  BY <1>1 DEF IInv, TypeOK, CompleteLink, Linked
<1>3. AbsentOwnNothing' /\ OidcSessionsLinked'
  BY <1>1 DEF IInv, TypeOK, AbsentOwnNothing, Exists, OidcSessionsLinked
<1>4. AdminStays' /\ OneChecked' /\ PendingKeepsAdmin'
  BY <1>1 DEF IInv, AdminStays, OneChecked, PendingKeepsAdmin, Exists, ActiveAdmins
<1> QED BY <1>2, <1>3, <1>4 DEF IInv

-----------------------------------------------------------------------------
\* The provider and the methods

\* What the steps on the settings have in common.
SettingsStep ==
  /\ user' = user /\ link' = link /\ sessions' \subseteq sessions
  /\ checked' \subseteq checked /\ inflight' \subseteq inflight
  /\ onboarding' = onboarding /\ breakGlass' = breakGlass /\ changes' \in 0..MaxChanges

LEMMA SettingsIInv == ASSUME IInv, SettingsStep, config' \in Config PROVE IInv'
<1>1. TypeOK'
  BY DEF IInv, TypeOK, SettingsStep
<1> QED BY <1>1, Frame DEF SettingsStep

\* Every one stores what _enforce_login_methods makes of some configuration, or
\* switches password sign-in.
Settings ==
  \/ \E r \in checked : CommitSave(r) \/ CommitDeleteSecret(r) \/ CommitDisablePassword(r)
  \/ \E r \in inflight : FinishEnable(r)
  \/ \E actor : DisableOidc(actor) \/ EnablePassword(actor)
  \/ \E actor : \E jit \in BOOLEAN : SaveJit(actor, jit)

LEMMA SettingsSteps ==
  ASSUME IInv, Settings
  PROVE  SettingsStep /\ config' \in Config
<1>1. config \in Config /\ \A S : Recovered(S) \subseteq S
  BY DEF IInv, TypeOK, Recovered
<1>2. ASSUME NEW request \in checked, CommitSave(request)
      PROVE  SettingsStep /\ config' \in Config
  <2>1. request.provider \in Provider
    BY <1>2, GuardedShape DEF IInv, TypeOK, CommitSave
  <2>2. [config EXCEPT !.provider = request.provider, !.secret = TRUE, !.issuer = request.provider] \in Config
    BY <1>1, <2>1 DEF Config
  <2> QED BY <1>1, <1>2, <2>2, EnforcedShape DEF CommitSave, Commit, SettingsStep, IInv, TypeOK
<1>3. ASSUME NEW request \in checked, CommitDeleteSecret(request)
      PROVE  SettingsStep /\ config' \in Config
  <2>1. [config EXCEPT !.secret = FALSE, !.enabled = FALSE] \in Config
    BY <1>1 DEF Config
  <2> QED BY <1>1, <1>3, <2>1, EnforcedShape DEF CommitDeleteSecret, Commit, SettingsStep, IInv, TypeOK
<1>4. ASSUME NEW request \in checked, CommitDisablePassword(request)
      PROVE  SettingsStep /\ config' \in Config
  <2>1. [config EXCEPT !.password = FALSE] \in Config
    BY <1>1 DEF Config
  <2> QED BY <1>4, <2>1 DEF CommitDisablePassword, Commit, SettingsStep, IInv, TypeOK
<1>5. ASSUME NEW request \in inflight, FinishEnable(request)
      PROVE  SettingsStep /\ config' \in Config
  <2>1. request.provider \in Provider
    BY <1>5, AwaitingShape DEF IInv, TypeOK, FinishEnable
  <2>2. [config EXCEPT !.issuer = request.provider, !.enabled = TRUE] \in Config
    BY <1>1, <2>1 DEF Config
  <2> QED BY <1>5, <2>2, EnforcedShape DEF FinishEnable, accounts, SettingsStep, IInv, TypeOK
<1>6. ASSUME NEW actor, DisableOidc(actor)
      PROVE  SettingsStep /\ config' \in Config
  <2>1. [config EXCEPT !.enabled = FALSE] \in Config
    BY <1>1 DEF Config
  <2> QED BY <1>1, <1>6, <2>1, Counted, EnforcedShape DEF DisableOidc, SettingsStep, IInv
<1>7. ASSUME NEW actor, NEW jit \in BOOLEAN, SaveJit(actor, jit)
      PROVE  SettingsStep /\ config' \in Config
  <2>1. [config EXCEPT !.jit = jit] \in Config
    BY <1>1 DEF Config
  <2> QED BY <1>7, <2>1, Counted, EnforcedShape DEF SaveJit, accounts, SettingsStep, IInv
<1>8. ASSUME NEW actor, EnablePassword(actor)
      PROVE  SettingsStep /\ config' \in Config
  <2>1. [config EXCEPT !.password = TRUE] \in Config
    BY <1>1 DEF Config
  <2> QED BY <1>1, <1>8, <2>1, Counted DEF EnablePassword, SettingsStep, IInv
<1> QED BY <1>2, <1>3, <1>4, <1>5, <1>6, <1>7, <1>8 DEF Settings

LEMMA OnboardStep == ASSUME IInv, NEW u \in User, Onboard(u) PROVE IInv'
<1> DEFINE row == [role |-> "admin", active |-> TRUE, password |-> TRUE]
<1>1. /\ link' = link /\ sessions' = sessions /\ checked' = checked
      /\ onboarding' = "complete" /\ user \in [User -> UserRow]
  BY DEF Onboard, IInv, TypeOK
<1>2. CASE ActiveAdmins = {}
  <2>1. ~Exists(u) /\ user' = [user EXCEPT ![u] = row]
    BY <1>2 DEF Onboard
  <2>2. row \in UserRow /\ row.role # "none"
    BY DEF UserRow
  <2>3. u \in ActiveAdmins'
    BY <1>1, <2>1 DEF ActiveAdmins
  <2>4. TypeOK'
    BY <2>1, <2>2 DEF IInv, TypeOK, Onboard
  <2>5. AdminStays' /\ PendingKeepsAdmin'
    BY <1>1, <2>1, <2>2, <2>3, NewUserKeepsAdmins
  <2>6. AbsentOwnNothing'
    BY <1>1, <2>1 DEF IInv, AbsentOwnNothing, Exists
  <2>7. OneChecked' /\ OidcSessionsLinked'
    BY <1>1 DEF IInv, OneChecked, OidcSessionsLinked
  <2> QED BY <2>4, <2>5, <2>6, <2>7 DEF IInv
<1>3. CASE ActiveAdmins # {}
  <2>1. user' = user
    BY <1>3 DEF Onboard
  <2>2. TypeOK'
    BY <2>1 DEF IInv, TypeOK, Onboard
  <2>3. AbsentOwnNothing' /\ AdminStays' /\ OneChecked' /\ PendingKeepsAdmin' /\ OidcSessionsLinked'
    BY <1>1, <1>3, <2>1 DEF IInv, AbsentOwnNothing, AdminStays, OneChecked, PendingKeepsAdmin,
                            Exists, ActiveAdmins, OidcSessionsLinked
  <2> QED BY <2>2, <2>3 DEF IInv
<1> QED BY <1>2, <1>3

LEMMA EnvironmentStep ==
  ASSUME IInv, \/ \E s \in sessions : EndSession(s)
               \/ \E override \in BOOLEAN : Restart(override)
               \/ RepairHostname
  PROVE  IInv'
<1>1. TypeOK'
  BY Counted DEF IInv, TypeOK, EndSession, RepairHostname, Restart, accounts
<1> QED BY <1>1, Frame DEF EndSession, RepairHostname, Restart, accounts

LEMMA StutterStep == ASSUME IInv, UNCHANGED vars PROVE IInv'
<1>1. TypeOK'
  BY DEF IInv, TypeOK, vars
<1> QED BY <1>1, Frame DEF vars

-----------------------------------------------------------------------------
LEMMA IInvInit == Init => IInv
<1> SUFFICES ASSUME Init PROVE IInv
  OBVIOUS
<1>1. TypeOK
  <2>1. Absent \in UserRow
    BY DEF UserRow, Absent
  <2>2. config \in Config
    BY DEF Init, Config
  <2>3. 0 \in 0..MaxChanges
    BY SignInAssumption DEF SignInAssumption
  <2> QED BY <2>1, <2>2, <2>3 DEF Init, TypeOK
<1>2. AbsentOwnNothing
  BY DEF Init, AbsentOwnNothing, Absent
<1>3. OneChecked /\ PendingKeepsAdmin /\ AdminStays /\ OidcSessionsLinked
  BY DEF Init, OneChecked, PendingKeepsAdmin, AdminStays, OidcSessionsLinked
<1> QED BY <1>1, <1>2, <1>3 DEF IInv

LEMMA IInvNext == IInv /\ [Next]_vars => IInv'
<1> SUFFICES ASSUME IInv, [Next]_vars PROVE IInv'
  OBVIOUS
<1>1. ASSUME NEW actor, NEW u \in User, UserRequest(actor, u) PROVE IInv'
  BY <1>1, CreateUserStep, ResetPasswordStep, UserCheckSteps DEF UserRequest
<1>2. CASE Settings
  BY <1>2, SettingsSteps, SettingsIInv
<1>3. ASSUME NEW actor, SettingsRequest(actor) PROVE IInv'
  <2>1. CASE \/ \E p \in Provider, secret \in BOOLEAN : BeginSave(actor, p, secret)
             \/ BeginEnable(actor)
    BY <2>1, AwaitStep
  <2>2. CASE CheckDeleteSecret(actor)
    BY <2>2, SettingsCheckSteps
  <2>3. CASE DisableOidc(actor) \/ EnablePassword(actor) \/ \E jit \in BOOLEAN : SaveJit(actor, jit)
    BY <1>2, <2>3 DEF Settings
  <2> QED BY <1>3, <2>1, <2>2, <2>3 DEF SettingsRequest
<1>4. ASSUME NEW u \in User, OwnRequest(u) PROVE IInv'
  BY <1>4, AwaitStep, ChangePasswordStep, UserCheckSteps, SettingsCheckSteps, OnboardStep
     DEF OwnRequest
<1>5. ASSUME NEW r \in checked, Committing(r) PROVE IInv'
  BY <1>2, <1>5, CommitRoleStep, CommitToggleStep, CommitUnlinkStep, CommitDeleteStep
     DEF Committing, Settings
<1>6. ASSUME NEW r \in inflight, Resume(r) PROVE IInv'
  BY <1>2, <1>6, FailStep, FinishLoginStep, CheckSaveStep, CompleteLoginStep, CompleteLinkStep
     DEF Resume, Settings
<1> QED BY <1>1, <1>3, <1>4, <1>5, <1>6, AwaitStep, EnvironmentStep, StutterStep DEF Next

-----------------------------------------------------------------------------
\* The states every step keeps to, whatever overlaps.
THEOREM UsersConsistent == Spec => []IInv
  BY IInvInit, IInvNext, PTL DEF Spec

\* Once set up, an installation keeps an active administrator: no two requests
\* take away the last two (admin_reachability_mutation, oidc.py:199-219).
THEOREM AdministratorStays == Spec => []LastAdminStays
<1>1. IInv => LastAdminStays
  BY DEF IInv, AdminStays, LastAdminStays
<1> QED BY <1>1, UsersConsistent, PTL

\* A provider session does not outlive the link it rests on (users.py:174-177).
THEOREM ProviderSessionsAreLinked == Spec => []OidcSessionsLinked
<1>1. IInv => OidcSessionsLinked
  BY DEF IInv
<1> QED BY <1>1, UsersConsistent, PTL

-----------------------------------------------------------------------------
\* Ways in: with neither overlap.

\* What admin_reachability_error found of linked administrators is still so.
PendingKeepsReachable ==
  \A r \in checked :
    TakesLink(r) /\ ~config.password /\ r.user \in LinkedAdmins(config.issuer)
      => LinkedAdmins(config.issuer) \ {r.user} # {}

\* What the routes found of the sign-in methods is still so.
PendingKeepsMethod ==
  \A r \in checked :
    /\ r.op = "disable_password" => LoginAvailable(config) /\ LinkedAdmins(config.issuer) # {}
    /\ r.op \in {"save", "delete_secret"} => config.password \/ breakGlass

\* Only emergency access leads here: then whoever is signed in has no way to
\* become an administrator whom a request in flight could lock out again.
Stranded == ~config.password /\ LinkedAdmins(config.issuer) = {}

StrandedStayOut ==
  Stranded =>
    /\ \A s \in sessions : LinkedTo(s[1], config.issuer)
    /\ \A r \in inflight :
         r.op # "login" /\ (r.op = "callback" => r.identity.issuer = config.issuer)

\* The process starts emergency access without the requests of before.
NoSignInInEmergency == breakGlass => \A r \in inflight : r.op \notin {"login", "callback"}

\* Without the overlap of enable_oidc the stored issuer is the provider's.
OneIssuer == config.issuer = config.provider

JInv ==
  /\ IInv
  /\ OneMethodPersisted
  /\ OneIssuer
  /\ PendingKeepsReachable
  /\ PendingKeepsMethod
  /\ StrandedStayOut
  /\ NoSignInInEmergency

\* What every step keeps: the invariant, a way in, and a locked provider.
Kept ==
  /\ JInv'
  /\ Stranded' => Stranded \/ breakGlass'
  /\ ~breakGlass /\ ~config.password =>
       config'.issuer = config.issuer /\ config'.provider = config.provider

LEMMA PasswordStored == OneMethodPersisted /\ config \in Config => (PasswordEffective <=> config.password)
  BY DEF OneMethodPersisted, PasswordEffective, Config

LEMMA JInvFacts ==
  ASSUME JInv
  PROVE  /\ IInv /\ TypeOK /\ config \in Config
         /\ PasswordEffective <=> config.password
         /\ Reachable <=> ~Stranded
         /\ ~PasswordEffective => ~config.password
  BY PasswordStored DEF JInv, IInv, TypeOK, Reachable, Stranded

\* Steps that leave the settings and the linked administrators as they are.
LEMMA KeepsWaysIn ==
  ASSUME JInv, IInv', config' = config, checked' \subseteq checked,
         breakGlass' = breakGlass \/ (checked' = {} /\ inflight' = {}),
         LinkedAdmins(config.issuer)' = LinkedAdmins(config.issuer),
         \A u \in User : LinkedTo(u, config.issuer) => LinkedTo(u, config.issuer)',
         Stranded => \A s \in sessions' \ sessions : LinkedTo(s[1], config.issuer)',
         \A r \in inflight' \ inflight :
           r.op \in {"login", "callback"} =>
             /\ ~breakGlass
             /\ Stranded => r.op = "callback" /\ r.identity.issuer = config.issuer
  PROVE  Kept
<1>1. Stranded' <=> Stranded
  BY DEF Stranded
<1>2. OneMethodPersisted' /\ OneIssuer'
  BY DEF JInv, OneMethodPersisted, OneIssuer, LoginAvailable, Complete
<1>3. PendingKeepsReachable' /\ PendingKeepsMethod'
  BY DEF JInv, PendingKeepsReachable, PendingKeepsMethod, LoginAvailable, Complete
<1>4. \A s \in sessions : s[1] \in User
  BY DEF JInv, IInv, TypeOK
<1>5. StrandedStayOut'
  <2> SUFFICES ASSUME Stranded
      PROVE  /\ \A s \in sessions' : LinkedTo(s[1], config.issuer)'
             /\ \A r \in inflight' :
                  r.op # "login" /\ (r.op = "callback" => r.identity.issuer = config.issuer)
    BY <1>1 DEF StrandedStayOut
  <2>1. \A s \in sessions' : LinkedTo(s[1], config.issuer)'
    BY <1>4 DEF JInv, StrandedStayOut
  <2>2. \A r \in inflight' :
          r.op # "login" /\ (r.op = "callback" => r.identity.issuer = config.issuer)
    BY DEF JInv, StrandedStayOut
  <2> QED BY <2>1, <2>2
<1>6. NoSignInInEmergency'
  BY DEF JInv, NoSignInInEmergency
<1> QED BY <1>1, <1>2, <1>3, <1>5, <1>6 DEF Kept, JInv

\* Requests that end, sessions that end, restarts.
LEMMA QuietSteps ==
  ASSUME JInv, IInv',
         \/ \E r \in inflight : Fail(r) \/ FinishLogin(r)
         \/ \E u \in User : ChangePassword(u)
         \/ \E s \in sessions : EndSession(s)
         \/ \E override \in BOOLEAN : Restart(override)
         \/ RepairHostname
         \/ UNCHANGED vars
  PROVE  Kept
<1>1. /\ user' = user /\ link' = link /\ config' = config /\ checked' \subseteq checked
      /\ breakGlass' = breakGlass \/ (checked' = {} /\ inflight' = {})
      /\ inflight' \subseteq inflight
  BY DEF Fail, FinishLogin, ChangePassword, EndSession, Restart, RepairHostname, accounts, vars
<1>2. Stranded => sessions' \subseteq sessions
  <2>1. \A r \in inflight : FinishLogin(r) => ~Stranded
    BY DEF JInv, StrandedStayOut, FinishLogin
  <2>2. \A u \in User : ChangePassword(u) => ~Stranded
    BY JInvFacts DEF ChangePassword, Stranded
  <2> QED BY <2>1, <2>2 DEF Fail, EndSession, Restart, RepairHostname, accounts, vars
<1> QED BY <1>1, <1>2, KeepsWaysIn DEF LinkedAdmins, ActiveAdmins, LinkedTo

\* Who begins to sign in does so with the issuer of now, and not in an emergency.
LEMMA AwaitKeeps ==
  ASSUME JInv, IInv',
         \/ \E actor : \E p \in Provider, secret \in BOOLEAN : BeginSave(actor, p, secret)
         \/ \E actor : BeginEnable(actor)
         \/ \E u \in User : BeginLogin(u)
         \/ \E u \in User \cup {NoOne}, identity \in Identity : BeginCallback(u, identity)
  PROVE  Kept
<1>1. /\ user' = user /\ link' = link /\ config' = config /\ checked' = checked
      /\ breakGlass' = breakGlass /\ sessions' = sessions
  BY DEF BeginSave, BeginEnable, BeginLogin, BeginCallback, Await, accounts
<1>2. \A r \in inflight' \ inflight :
        r.op \in {"login", "callback"} =>
          /\ ~breakGlass
          /\ Stranded => r.op = "callback" /\ r.identity.issuer = config.issuer
  BY JInvFacts DEF BeginSave, BeginEnable, BeginLogin, BeginCallback, Await, SignInOffered,
                   AuthEnabled, Stranded
<1> QED BY <1>1, <1>2, KeepsWaysIn DEF LinkedAdmins, ActiveAdmins, LinkedTo

\* A new user has no link; a user's other columns do not matter here.
LEMMA UsersKeep ==
  ASSUME JInv, IInv', NEW u \in User,
         \/ \E actor, role : CreateUser(actor, u, role)
         \/ \E actor : ResetPassword(actor, u)
         \/ Onboard(u)
  PROVE  Kept
<1>1. /\ link' = link /\ config' = config /\ checked' = checked /\ inflight' = inflight
      /\ breakGlass' = breakGlass /\ sessions' \subseteq sessions
  BY DEF CreateUser, ResetPassword, Onboard
<1>2. user \in [User -> UserRow] /\ (~Exists(u) => link[u] = NoOne)
  BY DEF JInv, IInv, TypeOK, AbsentOwnNothing
<1>3. \A v \in User : v # u => user'[v] = user[v]
  BY <1>2 DEF CreateUser, ResetPassword, Onboard
<1>4. ~Exists(u) \/ (user'[u].role = user[u].role /\ user'[u].active = user[u].active)
  <2>1. [user[u] EXCEPT !.password = TRUE].role = user[u].role
        /\ [user[u] EXCEPT !.password = TRUE].active = user[u].active
    BY <1>2 DEF UserRow
  <2> QED BY <1>2, <2>1 DEF CreateUser, ResetPassword, Onboard
<1>5. LinkedAdmins(config.issuer)' = LinkedAdmins(config.issuer)
  BY <1>1, <1>2, <1>3, <1>4 DEF LinkedAdmins, ActiveAdmins, LinkedTo
<1> QED BY <1>1, <1>5, KeepsWaysIn DEF LinkedTo

\* A sign-in by provider links nobody but a new viewer.
LEMMA CompleteLoginKeeps ==
  ASSUME JInv, IInv', NEW r \in inflight, NEW u \in User, CompleteLogin(r, u)
  PROVE  Kept
<1>1. /\ config' = config /\ checked' = checked /\ inflight' \subseteq inflight
      /\ breakGlass' = breakGlass /\ sessions' = sessions \cup {<<u, "oidc">>}
      /\ r.op = "callback" /\ r \in Awaiting /\ r.identity \in Identity /\ r.identity # NoOne
  BY AwaitingShape, IdentityShape DEF CompleteLogin, Provisioned, JInv, IInv, TypeOK
<1>2. user \in [User -> UserRow] /\ link \in [User -> Identity \cup {NoOne}]
      /\ (~Exists(u) => link[u] = NoOne)
  BY DEF JInv, IInv, TypeOK, AbsentOwnNothing
<1>3. link'[u] = r.identity /\ \A v \in User : v # u => link'[v] = link[v] /\ user'[v] = user[v]
  BY <1>2 DEF CompleteLogin, Provisioned, Owners
<1>4. \/ user' = user /\ link' = link
      \/ ~Exists(u) /\ link[u] = NoOne /\ user'[u].role = "viewer"
  BY <1>2 DEF CompleteLogin, Provisioned
<1>5. LinkedAdmins(config.issuer)' = LinkedAdmins(config.issuer)
  <2>1. CASE user' = user /\ link' = link
    BY <1>1, <2>1 DEF LinkedAdmins, ActiveAdmins, LinkedTo
  <2>2. CASE link[u] = NoOne /\ user'[u].role = "viewer"
    BY <1>1, <1>3, <2>2 DEF LinkedAdmins, ActiveAdmins, LinkedTo
  <2> QED BY <1>4, <2>1, <2>2
<1>6. \A v \in User : LinkedTo(v, config.issuer) => LinkedTo(v, config.issuer)'
  BY <1>1, <1>3, <1>4 DEF LinkedTo
<1>7. Stranded => LinkedTo(u, config.issuer)'
  BY <1>1, <1>3 DEF JInv, StrandedStayOut, LinkedTo
<1>8. \A s \in sessions' \ sessions : s = <<u, "oidc">>
  BY <1>1
<1> QED BY <1>1, <1>5, <1>6, <1>7, <1>8, KeepsWaysIn

\* The one step between check and commit that links an administrator.
LEMMA CompleteLinkKeeps ==
  ASSUME JInv, IInv', NEW r \in inflight, NEW u \in User, CompleteLink(r, u)
  PROVE  Kept
<1> DEFINE i == config.issuer
<1>1. /\ config' = config /\ checked' = checked /\ inflight' \subseteq inflight
      /\ breakGlass' = breakGlass /\ sessions' = sessions /\ user' = user
      /\ link[u] = NoOne /\ SessionsOf(u) \cap sessions # {}
      /\ link' = [link EXCEPT ![u] = r.identity] /\ link \in [User -> Identity \cup {NoOne}]
  BY DEF CompleteLink, Linked, JInv, IInv, TypeOK
<1>2. ~Stranded
  <2>1. PICK s \in sessions : s \in SessionsOf(u)
    BY <1>1
  <2>2. s[1] = u
    BY <2>1 DEF SessionsOf
  <2> QED BY <1>1, <2>1, <2>2 DEF JInv, StrandedStayOut, LinkedTo
<1>3. u \notin LinkedAdmins(i) /\ LinkedAdmins(i) \subseteq LinkedAdmins(i)'
  BY <1>1 DEF LinkedAdmins, ActiveAdmins, LinkedTo
<1>4. LinkedAdmins(i)' \subseteq LinkedAdmins(i) \cup {u}
  BY <1>1 DEF LinkedAdmins, ActiveAdmins, LinkedTo
<1>5. ~Stranded'
  BY <1>1, <1>2, <1>3 DEF Stranded
<1>6. PendingKeepsReachable'
  <2> SUFFICES ASSUME NEW q \in checked, TakesLink(q), ~config.password,
                      q.user \in LinkedAdmins(i)'
      PROVE  LinkedAdmins(i)' \ {q.user} # {}
    BY <1>1 DEF PendingKeepsReachable
  <2>1. CASE q.user = u
    BY <1>2, <1>3, <2>1 DEF Stranded
  <2>2. CASE q.user # u
    BY <1>3, <1>4, <2>2 DEF JInv, PendingKeepsReachable
  <2> QED BY <2>1, <2>2
<1>7. PendingKeepsMethod'
  BY <1>1, <1>3 DEF JInv, PendingKeepsMethod, LoginAvailable, Complete
<1>8. OneMethodPersisted' /\ OneIssuer' /\ NoSignInInEmergency'
  BY <1>1 DEF JInv, OneMethodPersisted, OneIssuer, LoginAvailable, Complete, NoSignInInEmergency
<1> QED BY <1>1, <1>5, <1>6, <1>7, <1>8 DEF Kept, JInv, StrandedStayOut

\* A check adds one request, with what it found.
LEMMA CheckedKeeps ==
  ASSUME JInv, IInv', NEW q \in Guarded, Check(q), inflight' \subseteq inflight,
         TakesLink(q) /\ ~config.password /\ q.user \in LinkedAdmins(config.issuer)
           => LinkedAdmins(config.issuer) \ {q.user} # {},
         q.op = "disable_password" => LoginAvailable(config) /\ LinkedAdmins(config.issuer) # {},
         q.op \in {"save", "delete_secret"} => config.password \/ breakGlass
  PROVE  Kept
<1>1. /\ checked' = {q} /\ config' = config /\ user' = user /\ link' = link
      /\ sessions' = sessions /\ breakGlass' = breakGlass
  BY DEF Check, LockFree, accounts
<1>2. LinkedAdmins(config.issuer)' = LinkedAdmins(config.issuer) /\ Stranded' = Stranded
  BY <1>1 DEF LinkedAdmins, ActiveAdmins, LinkedTo, Stranded
<1>3. PendingKeepsReachable' /\ PendingKeepsMethod'
  BY <1>1, <1>2 DEF PendingKeepsReachable, PendingKeepsMethod, LoginAvailable, Complete
<1>4. StrandedStayOut' /\ NoSignInInEmergency'
  BY <1>1, <1>2 DEF JInv, StrandedStayOut, NoSignInInEmergency, LinkedTo
<1>5. OneMethodPersisted' /\ OneIssuer'
  BY <1>1 DEF JInv, OneMethodPersisted, OneIssuer, LoginAvailable, Complete
<1> QED BY <1>1, <1>2, <1>3, <1>4, <1>5 DEF Kept, JInv

LEMMA UserChecksKeep ==
  ASSUME JInv, IInv', NEW actor, NEW u \in User,
         \/ \E role \in {"viewer", "admin"} : CheckRole(actor, u, role)
         \/ CheckToggle(actor, u) \/ CheckRevoke(actor, u) \/ CheckUnlink(u) \/ CheckDelete(actor, u)
  PROVE  Kept
<1> DEFINE i == config.issuer
<1>1. /\ \A role \in {"viewer", "admin"} : [op |-> "role", user |-> u, role |-> role] \in Guarded
      /\ \A op \in {"toggle", "unlink", "delete"} : [op |-> op, user |-> u] \in Guarded
  BY DEF Guarded
<1>2. inflight' \subseteq inflight
  BY DEF CheckRole, CheckToggle, CheckRevoke, CheckUnlink, CheckDelete
<1>3. /\ u \in LinkedAdmins(i) => user[u].active
      /\ user[u] \in UserRow
  BY DEF LinkedAdmins, ActiveAdmins, JInv, IInv, TypeOK
<1>4. ASSUME NEW role \in {"viewer", "admin"}, CheckRole(actor, u, role) PROVE Kept
  <2> DEFINE q == [op |-> "role", user |-> u, role |-> role]
  <2>1. [user[u] EXCEPT !.role = role].role = role
    BY <1>3 DEF UserRow
  <2>2. TakesLink(q) /\ ~config.password /\ u \in LinkedAdmins(i) => LinkedAdmins(i) \ {u} # {}
    BY <1>4, <2>1, JInvFacts DEF CheckRole, StaysReachable, TakesLink, TakesAdmin
  <2>3. Check(q) /\ q \in Guarded
    BY <1>4, <1>1 DEF CheckRole
  <2> QED BY <1>2, <2>2, <2>3, CheckedKeeps
<1>5. CASE CheckToggle(actor, u)
  <2> DEFINE q == [op |-> "toggle", user |-> u]
  <2>1. [user[u] EXCEPT !.active = ~@].active = ~user[u].active
    BY <1>3 DEF UserRow
  <2>2. ~config.password /\ u \in LinkedAdmins(i) => LinkedAdmins(i) \ {u} # {}
    BY <1>3, <1>5, <2>1, JInvFacts DEF CheckToggle, StaysReachable
  <2>3. Check(q) /\ q \in Guarded
    BY <1>5, <1>1 DEF CheckToggle
  <2> QED BY <1>2, <2>2, <2>3, CheckedKeeps
<1>6. CASE CheckRevoke(actor, u) \/ CheckUnlink(u)
  <2> DEFINE q == [op |-> "unlink", user |-> u]
  <2>1. ~config.password /\ u \in LinkedAdmins(i) => LinkedAdmins(i) \ {u} # {}
    BY <1>6, JInvFacts DEF CheckRevoke, CheckUnlink, StaysReachable
  <2>2. Check(q) /\ q \in Guarded
    BY <1>6, <1>1 DEF CheckRevoke, CheckUnlink
  <2> QED BY <1>2, <2>1, <2>2, CheckedKeeps
<1>7. CASE CheckDelete(actor, u)
  <2> DEFINE q == [op |-> "delete", user |-> u]
  <2>1. ~config.password /\ u \in LinkedAdmins(i) => LinkedAdmins(i) \ {u} # {}
    BY <1>7, JInvFacts DEF CheckDelete, StaysReachable, Absent
  <2>2. Check(q) /\ q \in Guarded
    BY <1>7, <1>1 DEF CheckDelete
  <2> QED BY <1>2, <2>1, <2>2, CheckedKeeps
<1> QED BY <1>4, <1>5, <1>6, <1>7

LEMMA SettingsChecksKeep ==
  ASSUME JInv, IInv',
         \/ \E actor : CheckDeleteSecret(actor)
         \/ \E u : CheckDisablePassword(u)
         \/ \E r \in inflight, changed \in BOOLEAN : CheckSave(r, changed)
  PROVE  Kept
<1>1. \A op \in {"disable_password", "delete_secret"} :
        [op |-> op] \in Guarded /\ ~TakesLink([op |-> op])
  BY DEF Guarded, TakesLink, TakesAdmin
<1>2. ASSUME NEW actor, CheckDeleteSecret(actor) PROVE Kept
  <2>1. inflight' = inflight /\ Check([op |-> "delete_secret"]) /\ (config.password \/ breakGlass)
    BY <1>2, JInvFacts DEF CheckDeleteSecret, SaveAllowed
  <2> QED BY <1>1, <2>1, CheckedKeeps
<1>3. ASSUME NEW u, CheckDisablePassword(u) PROVE Kept
  <2>1. /\ inflight' = inflight /\ Check([op |-> "disable_password"])
        /\ LoginAvailable(config) /\ LinkedAdmins(config.issuer) # {}
    BY <1>3 DEF CheckDisablePassword
  <2> QED BY <1>1, <2>1, CheckedKeeps
<1>4. ASSUME NEW r \in inflight, NEW changed \in BOOLEAN, CheckSave(r, changed) PROVE Kept
  <2> DEFINE q == [op |-> "save", provider |-> r.provider, changed |-> changed]
  <2>1. r.provider \in Provider
    BY <1>4, AwaitingShape DEF CheckSave, JInv, IInv, TypeOK
  <2>2. q \in Guarded /\ ~TakesLink(q)
    BY <2>1 DEF Guarded, TakesLink, TakesAdmin
  <2>3. inflight' \subseteq inflight /\ Check(q) /\ (config.password \/ breakGlass)
    BY <1>4, JInvFacts DEF CheckSave, SaveStillAllowed, SaveAllowed
  <2> QED BY <2>2, <2>3, CheckedKeeps
<1> QED BY <1>2, <1>3, <1>4

\* A commit may take its user's link; then the sessions go as well.
LEMMA CommittedKeeps ==
  ASSUME JInv, IInv', checked' = {}, config' = config, inflight' = inflight,
         breakGlass' = breakGlass, Stranded' => Stranded,
         \A s \in sessions' : s \in sessions /\ link'[s[1]] = link[s[1]]
  PROVE  Kept
<1>1. PendingKeepsReachable' /\ PendingKeepsMethod'
  BY DEF PendingKeepsReachable, PendingKeepsMethod
<1>2. StrandedStayOut' /\ NoSignInInEmergency'
  BY DEF JInv, StrandedStayOut, NoSignInInEmergency, LinkedTo
<1>3. OneMethodPersisted' /\ OneIssuer'
  BY DEF JInv, OneMethodPersisted, OneIssuer, LoginAvailable, Complete
<1> QED BY <1>1, <1>2, <1>3 DEF Kept, JInv

LEMMA UserCommitsKeep ==
  ASSUME JInv, IInv', NEW r \in checked,
         CommitRole(r) \/ CommitToggle(r) \/ CommitUnlink(r) \/ CommitDelete(r)
  PROVE  Kept
<1> DEFINE u == r.user
           i == config.issuer
<1>1. Commit(r) /\ OnUser(r) /\ IInv
  BY DEF CommitRole, CommitToggle, CommitUnlink, CommitDelete, OnUser, JInv
<1>2. /\ r \in Guarded /\ checked' = {} /\ inflight' = inflight /\ breakGlass' = breakGlass
      /\ u \in User /\ user[u] \in UserRow
  BY <1>1, Pending
<1>3. /\ user \in [User -> UserRow] /\ link \in [User -> Identity \cup {NoOne}]
      /\ sessions \subseteq User \X Method
  BY DEF JInv, IInv, TypeOK
<1>4. config' = config
  BY DEF CommitRole, CommitToggle, CommitUnlink, CommitDelete
<1>5. \A v \in User : v # u => user'[v] = user[v] /\ link'[v] = link[v]
  BY <1>2, <1>3 DEF CommitRole, CommitToggle, CommitUnlink, CommitDelete
<1>6. LinkedAdmins(i) \ {u} \subseteq LinkedAdmins(i)'
  BY <1>4, <1>5 DEF LinkedAdmins, ActiveAdmins, LinkedTo
<1>7. Stranded' => Stranded
  <2>1. CASE TakesLink(r)
    BY <1>4, <1>6, <2>1 DEF Stranded, JInv, PendingKeepsReachable
  <2>2. CASE ~TakesLink(r)
    <3>1. r.op = "role" /\ r.role = "admin" /\ CommitRole(r)
      BY <1>1, <1>2, <2>2, GuardedShape DEF TakesLink, TakesAdmin, OnUser, CommitRole, CommitToggle,
                                            CommitUnlink, CommitDelete
    <3>2. user'[u].role = "admin" /\ user'[u].active = user[u].active /\ link' = link
      BY <1>2, <1>3, <3>1 DEF CommitRole, UserRow
    <3>3. LinkedAdmins(i) \subseteq LinkedAdmins(i)'
      BY <1>4, <1>5, <3>2 DEF LinkedAdmins, ActiveAdmins, LinkedTo
    <3> QED BY <1>4, <3>3 DEF Stranded
  <2> QED BY <2>1, <2>2
<1>8. \A s \in sessions' : s \in sessions /\ link'[s[1]] = link[s[1]]
  <2>1. CASE link' = link /\ sessions' \subseteq sessions
    BY <2>1
  <2>2. CASE sessions' = sessions \ SessionsOf(u)
    BY <1>3, <1>5, <2>2 DEF SessionsOf
  <2> QED BY <2>1, <2>2 DEF CommitRole, CommitToggle, CommitUnlink, CommitDelete, UnlinkedSessions
<1> QED BY <1>2, <1>4, <1>7, <1>8, CommittedKeeps

\* A step on the settings that leaves password sign-in on, or nobody more stranded.
LEMMA SettingsKept ==
  ASSUME JInv, IInv', SettingsStep, OneMethodPersisted', OneIssuer',
         config'.password \/ (config'.issuer = config.issuer /\ (config.password => config'.password)),
         ~breakGlass /\ ~config.password => config'.issuer = config.issuer,
         PendingKeepsMethod'
  PROVE  Kept
<1>1. config'.issuer = config.issuer =>
        LinkedAdmins(config.issuer)' = LinkedAdmins(config.issuer)
  BY DEF SettingsStep, LinkedAdmins, ActiveAdmins, LinkedTo
<1>2. ~config'.password =>
        ~config.password /\ config'.issuer = config.issuer /\ (Stranded' <=> Stranded)
  <2>1. config'.password => ~Stranded'
    BY DEF Stranded
  <2>2. config' \in Config /\ config \in Config
    BY JInvFacts DEF IInv, TypeOK
  <2> QED BY <1>1, <2>1, <2>2 DEF Stranded, Config
<1>3. PendingKeepsReachable'
  BY <1>1, <1>2 DEF SettingsStep, JInv, PendingKeepsReachable
<1>4. Stranded' => Stranded /\ config'.issuer = config.issuer
  BY <1>2 DEF Stranded
<1>5. StrandedStayOut'
  BY <1>4 DEF SettingsStep, JInv, StrandedStayOut, LinkedTo
<1>6. NoSignInInEmergency'
  BY DEF SettingsStep, JInv, NoSignInInEmergency
<1>7. ~breakGlass /\ ~config.password =>
        config'.issuer = config.issuer /\ config'.provider = config.provider
  BY DEF JInv, OneIssuer
<1> QED BY <1>3, <1>4, <1>5, <1>6, <1>7 DEF Kept, JInv

LEMMA CommitSaveKeeps ==
  ASSUME JInv, IInv', NEW r \in checked, CommitSave(r)
  PROVE  Kept
<1> DEFINE c == [config EXCEPT !.provider = r.provider, !.secret = TRUE, !.issuer = r.provider]
<1>1. IInv /\ SettingsStep /\ Commit(r) /\ r.op = "save" /\ config' = Enforced(c)
  BY SettingsSteps DEF JInv, CommitSave, Settings
<1>2. r \in Guarded /\ r.provider \in Provider /\ checked' = {} /\ config \in Config
  BY <1>1, Pending, GuardedShape, JInvFacts
<1>3. c \in Config /\ c.provider = r.provider /\ c.issuer = r.provider /\ c.password = config.password
  BY <1>2 DEF Config
<1>4. OneMethodPersisted' /\ OneIssuer'
  BY <1>1, <1>3, EnforcedShape DEF OneMethodPersisted, OneIssuer
<1>5. PendingKeepsMethod' /\ PendingKeepsReachable'
  BY <1>2 DEF PendingKeepsMethod, PendingKeepsReachable
<1>6. CASE ~breakGlass
  <2>1. config.password /\ config'.password
    BY <1>1, <1>3, <1>6, EnforcedShape DEF JInv, PendingKeepsMethod
  <2> QED BY <1>1, <1>4, <1>5, <2>1, SettingsKept
<1>7. CASE breakGlass
  <2>1. sessions' = {} /\ breakGlass' /\ inflight' = inflight
    BY <1>1, <1>7 DEF CommitSave, Recovered, Commit
  <2>2. StrandedStayOut' /\ NoSignInInEmergency'
    BY <1>7, <2>1 DEF StrandedStayOut, JInv, NoSignInInEmergency
  <2> QED BY <1>4, <1>5, <1>7, <2>1, <2>2 DEF Kept, JInv
<1> QED BY <1>6, <1>7

LEMMA FinishEnableKeeps ==
  ASSUME JInv, IInv', Overlaps = {}, NEW r \in inflight, FinishEnable(r)
  PROVE  Kept
<1> DEFINE c == [config EXCEPT !.issuer = r.provider, !.enabled = TRUE]
<1>1. SettingsStep /\ config \in Config /\ r.provider \in Provider /\ checked' = checked
  BY AwaitingShape, SettingsSteps, JInvFacts DEF JInv, IInv, TypeOK, FinishEnable, Settings
<1>2. r.provider = config.provider /\ r.provider = config.issuer /\ config' = Enforced(c)
  BY DEF FinishEnable, JInv, OneIssuer
<1>3. /\ c \in Config /\ c.issuer = config.issuer /\ c.provider = config.provider
      /\ c.password = config.password /\ c.secret = config.secret /\ c.enabled
  BY <1>1, <1>2 DEF Config
<1>4. OneMethodPersisted' /\ OneIssuer' /\ config'.issuer = config.issuer
      /\ (config.password => config'.password)
  BY <1>2, <1>3, EnforcedShape DEF OneMethodPersisted, OneIssuer
<1>5. LoginAvailable(config) => LoginAvailable(config')
  BY <1>2, <1>3, EnforcedShape DEF LoginAvailable, Complete
<1>6. LinkedAdmins(config.issuer)' = LinkedAdmins(config.issuer)
  BY <1>1, <1>4 DEF SettingsStep, LinkedAdmins, ActiveAdmins, LinkedTo
<1>7. PendingKeepsMethod'
  BY <1>1, <1>4, <1>5, <1>6 DEF SettingsStep, JInv, PendingKeepsMethod, LoginAvailable, Complete
<1> QED BY <1>1, <1>4, <1>7, SettingsKept

LEMMA SettingsKeep ==
  ASSUME JInv, IInv', Overlaps = {}, Settings
  PROVE  Kept
<1>1. SettingsStep /\ IInv /\ config \in Config
  BY SettingsSteps, JInvFacts
<1>2. ASSUME NEW r \in checked, CommitDeleteSecret(r) PROVE Kept
  <2> DEFINE c == [config EXCEPT !.secret = FALSE, !.enabled = FALSE]
  <2>1. checked' = {} /\ config' = Enforced(c)
    BY <1>1, <1>2, Pending DEF CommitDeleteSecret
  <2>2. c \in Config /\ ~LoginAvailable(c) /\ c.issuer = config.issuer /\ c.provider = config.provider
    BY <1>1 DEF Config, LoginAvailable
  <2>3. OneMethodPersisted' /\ OneIssuer' /\ config'.password /\ config'.issuer = config.issuer
    BY <2>1, <2>2, EnforcedShape DEF JInv, OneMethodPersisted, OneIssuer
  <2>4. PendingKeepsMethod'
    BY <2>1 DEF PendingKeepsMethod
  <2> QED BY <1>1, <2>3, <2>4, SettingsKept
<1>3. ASSUME NEW r \in checked, CommitDisablePassword(r) PROVE Kept
  <2>1. checked' = {} /\ config' = [config EXCEPT !.password = FALSE] /\ r.op = "disable_password"
        /\ breakGlass' = breakGlass /\ inflight' = inflight
    BY <1>1, <1>3, Pending DEF CommitDisablePassword
  <2>2. LoginAvailable(config) /\ LinkedAdmins(config.issuer) # {}
    BY <2>1 DEF JInv, PendingKeepsMethod
  <2>3. /\ config'.issuer = config.issuer /\ config'.provider = config.provider
        /\ config'.secret = config.secret /\ config'.enabled = config.enabled
    BY <1>1, <2>1 DEF Config
  <2>4. OneMethodPersisted' /\ OneIssuer'
    BY <2>2, <2>3 DEF JInv, OneMethodPersisted, OneIssuer, LoginAvailable, Complete
  <2>5. ~Stranded'
    BY <1>1, <2>2, <2>3 DEF SettingsStep, Stranded, LinkedAdmins, ActiveAdmins, LinkedTo
  <2>6. PendingKeepsMethod' /\ PendingKeepsReachable' /\ StrandedStayOut'
    BY <2>1, <2>5 DEF PendingKeepsMethod, PendingKeepsReachable, StrandedStayOut
  <2>7. NoSignInInEmergency'
    BY <2>1 DEF JInv, NoSignInInEmergency
  <2> QED BY <2>3, <2>4, <2>5, <2>6, <2>7 DEF Kept, JInv
<1>4. ASSUME NEW actor, DisableOidc(actor) PROVE Kept
  <2> DEFINE c == [config EXCEPT !.enabled = FALSE]
  <2>1. checked' = {} /\ config' = Enforced(c)
    BY <1>4 DEF DisableOidc, LockFree
  <2>2. c \in Config /\ ~LoginAvailable(c) /\ c.issuer = config.issuer /\ c.provider = config.provider
    BY <1>1 DEF Config, LoginAvailable
  <2>3. OneMethodPersisted' /\ OneIssuer' /\ config'.password /\ config'.issuer = config.issuer
    BY <2>1, <2>2, EnforcedShape DEF JInv, OneMethodPersisted, OneIssuer
  <2>4. PendingKeepsMethod'
    BY <2>1 DEF PendingKeepsMethod
  <2> QED BY <1>1, <2>3, <2>4, SettingsKept
<1>5. ASSUME NEW actor, NEW jit \in BOOLEAN, SaveJit(actor, jit) \/ EnablePassword(actor) PROVE Kept
  <2> DEFINE c == [config EXCEPT !.jit = jit]
  <2>1. checked' = checked /\ breakGlass' = breakGlass
    BY <1>5 DEF SaveJit, EnablePassword
  <2>2. /\ c \in Config /\ c.issuer = config.issuer /\ c.provider = config.provider
        /\ c.secret = config.secret /\ c.enabled = config.enabled /\ c.password = config.password
    BY <1>1 DEF Config
  <2>3. /\ config'.issuer = config.issuer /\ config'.provider = config.provider
        /\ config'.secret = config.secret /\ config'.enabled = config.enabled
        /\ config.password => config'.password
    BY <1>1, <1>5, <2>2, EnforcedShape DEF SaveJit, EnablePassword, Config
  <2>4. LoginAvailable(config') = LoginAvailable(config)
    BY <2>3 DEF LoginAvailable, Complete
  <2>5. OneMethodPersisted' /\ OneIssuer'
    BY <2>3, <2>4 DEF JInv, OneMethodPersisted, OneIssuer
  <2>6. LinkedAdmins(config.issuer)' = LinkedAdmins(config.issuer)
    BY <1>1, <2>3 DEF SettingsStep, LinkedAdmins, ActiveAdmins, LinkedTo
  <2>7. PendingKeepsMethod'
    BY <2>1, <2>3, <2>4, <2>6 DEF JInv, PendingKeepsMethod, LoginAvailable, Complete
  <2> QED BY <1>1, <2>3, <2>5, <2>7, SettingsKept
<1> QED BY <1>2, <1>3, <1>4, <1>5, CommitSaveKeeps, FinishEnableKeeps DEF Settings

-----------------------------------------------------------------------------
LEMMA JInvInit == Init => JInv
<1> SUFFICES ASSUME Init PROVE JInv
  OBVIOUS
<1>1. IInv
  BY IInvInit
<1>2. OneMethodPersisted /\ OneIssuer /\ ~Stranded
  BY DEF Init, OneMethodPersisted, OneIssuer, Stranded
<1>3. PendingKeepsReachable /\ PendingKeepsMethod /\ StrandedStayOut /\ NoSignInInEmergency
  BY <1>2 DEF Init, PendingKeepsReachable, PendingKeepsMethod, StrandedStayOut, NoSignInInEmergency
<1> QED BY <1>1, <1>2, <1>3 DEF JInv

LEMMA JInvNext == ASSUME Overlaps = {} PROVE JInv /\ [Next]_vars => Kept
<1> SUFFICES ASSUME JInv, [Next]_vars PROVE Kept
  OBVIOUS
<1>1. IInv'
  BY IInvNext DEF JInv
<1>2. ASSUME NEW actor, NEW u \in User, UserRequest(actor, u) PROVE Kept
  BY <1>1, <1>2, UsersKeep, UserChecksKeep DEF UserRequest
<1>3. CASE Settings
  BY <1>1, <1>3, SettingsKeep
<1>4. ASSUME NEW actor, SettingsRequest(actor) PROVE Kept
  <2>1. CASE \/ \E p \in Provider, secret \in BOOLEAN : BeginSave(actor, p, secret)
             \/ BeginEnable(actor)
    BY <1>1, <2>1, AwaitKeeps
  <2>2. CASE CheckDeleteSecret(actor)
    BY <1>1, <2>2, SettingsChecksKeep
  <2>3. CASE DisableOidc(actor) \/ EnablePassword(actor) \/ \E jit \in BOOLEAN : SaveJit(actor, jit)
    BY <1>3, <2>3 DEF Settings
  <2> QED BY <1>4, <2>1, <2>2, <2>3 DEF SettingsRequest
<1>5. ASSUME NEW u \in User, OwnRequest(u) PROVE Kept
  BY <1>1, <1>5, AwaitKeeps, QuietSteps, UserChecksKeep, SettingsChecksKeep, UsersKeep DEF OwnRequest
<1>6. ASSUME NEW r \in checked, Committing(r) PROVE Kept
  BY <1>1, <1>3, <1>6, UserCommitsKeep DEF Committing, Settings
<1>7. ASSUME NEW r \in inflight, Resume(r) PROVE Kept
  BY <1>1, <1>3, <1>7, QuietSteps, SettingsChecksKeep, CompleteLoginKeeps, CompleteLinkKeeps
     DEF Resume, Settings
<1> QED BY <1>1, <1>2, <1>4, <1>5, <1>6, <1>7, AwaitKeeps, QuietSteps DEF Next

LEMMA WaysInConsistent == ASSUME Overlaps = {} PROVE Spec => []JInv
<1>1. JInv /\ [Next]_vars => JInv'
  BY JInvNext DEF Kept
<1> QED BY <1>1, JInvInit, PTL DEF Spec

\* A way in stays stored (_enforce_login_methods, oidc_settings.py:77-85), unless
\* switching the provider off overlaps the check of another request.
THEOREM AWayInIsStored == ASSUME Overlaps = {} PROVE Spec => []OneMethodPersisted
<1>1. JInv => OneMethodPersisted
  BY DEF JInv
<1> QED BY <1>1, WaysInConsistent, PTL

\* Outside emergency access no step, and no overlap of a check with sign-ins, links
\* or new users, leaves only administrators whom nothing authenticates
\* (admin_reachability_error, oidc.py:222-229).
THEOREM WayInStays == ASSUME Overlaps = {} PROVE Spec => ReachableKept
<1>1. JInv /\ [Next]_vars => (~breakGlass' /\ Reachable => Reachable')
  <2> SUFFICES ASSUME JInv, [Next]_vars, ~breakGlass', Reachable PROVE Reachable'
    OBVIOUS
  <2>1. JInv' /\ ~Stranded'
    BY JInvNext, JInvFacts DEF Kept
  <2>2. OneMethodPersisted' /\ config' \in Config
    BY <2>1 DEF JInv, IInv, TypeOK
  <2>3. PasswordEffective' <=> config'.password
    BY <2>2 DEF OneMethodPersisted, PasswordEffective, Config
  <2> QED BY <2>1, <2>3 DEF Stranded, Reachable
<1> QED BY <1>1, WaysInConsistent, PTL DEF Spec, ReachableKept

\* Outside emergency access the provider stays as it is while everything depends on
\* it (_persist_oidc_configuration checks again after its await).
THEOREM ProviderStays == ASSUME Overlaps = {} PROVE Spec => ProviderLocked
<1>1. JInv /\ [Next]_vars =>
        (~breakGlass /\ ~PasswordEffective =>
           config'.issuer = config.issuer /\ config'.provider = config.provider)
  BY JInvNext, JInvFacts DEF Kept
<1> QED BY <1>1, WaysInConsistent, PTL DEF Spec, ProviderLocked

=============================================================================
