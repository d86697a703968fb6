------------------------------- MODULE SignIn --------------------------------
(***************************************************************************)
(* Who can sign in: users, sessions, links to a provider account, and the   *)
(* settings of the two sign-in methods (services/auth.py, services/oidc.py, *)
(* services/onboarding.py and the routes over them).                        *)
(*                                                                          *)
(* A request that could take away the last administrator with a way in      *)
(* checks and commits under one lock; between the two it is in `checked`.   *)
(* Requests that switch the provider on or off do not take that lock.  A    *)
(* request that awaits the provider, or the check of a password, is in      *)
(* `inflight` with what it read before.                                     *)
(*                                                                          *)
(* A provider stands for a discovery URL and client id; the issuer it       *)
(* reports is the provider itself.  Viewers stand for operators as well.    *)
(***************************************************************************)
EXTENDS FiniteSets, Integers

CONSTANTS
  User,         \* ids of local users
  Provider,     \* OIDC providers that can be configured
  Subject,      \* accounts at a provider
  NoOne,        \* no user, no provider, no identity
  Overlaps,     \* which of "disable" and "enable" may overlap other changes
  MaxChanges,   \* requests that change users or settings, and restarts
  MaxInflight   \* requests that await something at a time

ASSUME SignInAssumption ==
  /\ NoOne \notin User \cup Provider \cup [issuer : Provider, subject : Subject]
  /\ Overlaps \subseteq {"disable", "enable"}
  /\ MaxChanges \in Nat /\ MaxInflight \in Nat

VARIABLES
  user,        \* users
  link,        \* external_identities, per user
  sessions,    \* user_sessions, as pairs of user and auth_method
  config,      \* the settings auth.oidc.* and auth.password_login_enabled
  onboarding,  \* auth.onboarding_state; "legacy" is the only open one
  breakGlass,  \* OSD_AUTH_DISABLED
  checked,     \* the request in admin_reachability_mutation, past its check
  inflight,    \* requests that await something
  changes      \* counted by MaxChanges (of the specification only)

accounts == <<user, link, sessions>>
vars == <<user, link, sessions, config, onboarding, breakGlass, checked, inflight, changes>>

Identity == [issuer : Provider, subject : Subject]
Method == {"password", "oidc"}
UserRow == [role : {"none", "viewer", "admin"}, active : BOOLEAN, password : BOOLEAN]
Config == [provider : Provider \cup {NoOne}, secret : BOOLEAN, issuer : Provider \cup {NoOne},
           enabled : BOOLEAN, jit : BOOLEAN, password : BOOLEAN]

Absent == [role |-> "none", active |-> FALSE, password |-> FALSE]

Guarded ==
  [op : {"disable_password", "delete_secret"}]
  \cup [op : {"toggle", "unlink", "delete"}, user : User]
  \cup [op : {"role"}, user : User, role : {"viewer", "admin"}]
  \cup [op : {"save"}, provider : Provider, changed : BOOLEAN]

Awaiting ==
  [op : {"save"}, provider : Provider, secret : BOOLEAN]
  \cup [op : {"enable"}, provider : Provider]
  \cup [op : {"login"}, user : User]
  \cup [op : {"callback"}, user : User \cup {NoOne}, identity : Identity, jit : BOOLEAN]

TypeOK ==
  /\ user \in [User -> UserRow]
  /\ link \in [User -> Identity \cup {NoOne}]
  /\ sessions \subseteq User \X Method
  /\ config \in Config
  /\ onboarding \in {"pending", "legacy", "complete"}
  /\ breakGlass \in BOOLEAN
  /\ checked \subseteq Guarded
  /\ inflight \subseteq Awaiting
  /\ changes \in 0..MaxChanges

\* _seed_auth_defaults: a new installation, or an upgraded open one without users.
Init ==
  /\ user = [u \in User |-> Absent]
  /\ link = [u \in User |-> NoOne]
  /\ sessions = {}
  /\ config = [provider |-> NoOne, secret |-> FALSE, issuer |-> NoOne,
               enabled |-> FALSE, jit |-> FALSE, password |-> TRUE]
  /\ onboarding \in {"pending", "legacy"}
  /\ breakGlass = FALSE
  /\ checked = {}
  /\ inflight = {}
  /\ changes = 0

-----------------------------------------------------------------------------
Exists(u) == user[u].role # "none"
ActiveAdmins == {u \in User : user[u].role = "admin" /\ user[u].active}
LinkedTo(u, issuer) == link[u] # NoOne /\ link[u].issuer = issuer
LinkedAdmins(issuer) == {u \in ActiveAdmins : LinkedTo(u, issuer)}
Owners(identity) == {u \in User : link[u] = identity}
SessionsOf(u) == {u} \X Method
SessionsBy(m) == User \X {m}

Complete(c) == c.provider # NoOne /\ c.secret
LoginAvailable(c) == c.enabled /\ Complete(c) /\ c.issuer # NoOne

\* effective_password_login_enabled: a stored "off" counts only with a provider.
PasswordEffective == LoginAvailable(config) => config.password

\* Mutant: the routes leave the stored switch as it is.
NotEnforced(c) == c

\* _enforce_login_methods.
Enforced(c) == IF LoginAvailable(c) THEN c ELSE [c EXCEPT !.password = TRUE]

\* _revoke_all_sessions_during_recovery.
Recovered(S) == IF breakGlass THEN {} ELSE S

AuthEnabled == onboarding # "legacy" /\ ~breakGlass

\* auth_gating_middleware: while authentication is on, an administrator with a
\* session; else anyone, except that a new installation only offers its set-up.
MayAdminister(actor) ==
  IF AuthEnabled
  THEN /\ onboarding = "complete" /\ actor \in ActiveAdmins
       /\ SessionsOf(actor) \cap sessions # {}
  ELSE actor = NoOne

\* _boundary_error: without a host name there is no boundary to check against.
MayConfigure(actor) == MayAdminister(actor) /\ (onboarding = "complete" \/ breakGlass)

\* Sign-in routes answer only when the set-up is complete.
SignInOffered == AuthEnabled /\ onboarding = "complete"

SignedIn(u) == SignInOffered /\ user[u].active /\ SessionsOf(u) \cap sessions # {}

Bounded == changes < MaxChanges /\ changes' = changes + 1

\* Mutant: checks and commits are not serialized.
LockIgnored == TRUE

LockFree == checked = {}

\* Mutant: only administrators are counted, not the ones the provider knows.
StaysReachableByRole(u, new, keepsLink) ==
  u \in ActiveAdmins /\ ~(new.role = "admin" /\ new.active) => ActiveAdmins \ {u} # {}

\* admin_reachability_error is None.
StaysReachable(u, new, keepsLink) ==
  LET stays == new.role = "admin" /\ new.active
  IN  /\ u \in ActiveAdmins /\ ~stays => ActiveAdmins \ {u} # {}
      /\ \/ PasswordEffective
         \/ u \notin LinkedAdmins(config.issuer)
         \/ stays /\ keepsLink
         \/ LinkedAdmins(config.issuer) \ {u} # {}

\* The lock is taken and the check passes; the request commits in a step of its
\* own, and releases the lock.
Check(request) ==
  /\ LockFree
  /\ checked' = checked \cup {request}
  /\ UNCHANGED <<accounts, config, onboarding, breakGlass>>

Commit(request) ==
  /\ request \in checked
  /\ checked' = checked \ {request}
  /\ UNCHANGED <<onboarding, breakGlass, inflight, changes>>

-----------------------------------------------------------------------------
\* Users: api/users.py.

CreateUser(actor, u, role) ==
  /\ Bounded
  /\ MayAdminister(actor)
  /\ ~Exists(u)
  /\ user' = [user EXCEPT ![u] = [role |-> role, active |-> TRUE, password |-> TRUE]]
  /\ UNCHANGED <<link, sessions, config, onboarding, breakGlass, checked, inflight>>

\* reset_user_password.
ResetPassword(actor, u) ==
  /\ Bounded
  /\ MayAdminister(actor)
  /\ Exists(u)
  /\ user' = [user EXCEPT ![u].password = TRUE]
  /\ sessions' = sessions \ SessionsOf(u)
  /\ UNCHANGED <<link, config, onboarding, breakGlass, checked, inflight>>

\* change_password of one's own account.
ChangePassword(u) ==
  /\ SignedIn(u) /\ PasswordEffective /\ user[u].password
  /\ sessions' = (sessions \ SessionsOf(u)) \cup {<<u, "password">>}
  /\ UNCHANGED <<user, link, config, onboarding, breakGlass, checked, inflight, changes>>

CheckRole(actor, u, role) ==
  /\ Bounded
  /\ MayAdminister(actor)
  /\ Exists(u)
  /\ StaysReachable(u, [user[u] EXCEPT !.role = role], TRUE)
  /\ Check([op |-> "role", user |-> u, role |-> role])
  /\ UNCHANGED inflight

CommitRole(request) ==
  /\ request.op = "role"
  /\ Commit(request)
  /\ user' = [user EXCEPT ![request.user].role = request.role]
  /\ UNCHANGED <<link, sessions, config>>

CheckToggle(actor, u) ==
  /\ Bounded
  /\ MayAdminister(actor)
  /\ Exists(u)
  /\ StaysReachable(u, [user[u] EXCEPT !.active = ~@], TRUE)
  /\ Check([op |-> "toggle", user |-> u])
  /\ UNCHANGED inflight

CommitToggle(request) ==
  LET u == request.user
  IN  /\ request.op = "toggle"
      /\ Commit(request)
      /\ user' = [user EXCEPT ![u].active = ~@]
      /\ sessions' = IF user[u].active THEN sessions \ SessionsOf(u) ELSE sessions
      /\ UNCHANGED <<link, config>>

\* revoke_user_external_identity.
CheckRevoke(actor, u) ==
  /\ Bounded
  /\ MayAdminister(actor)
  /\ actor # u /\ link[u] # NoOne
  /\ StaysReachable(u, user[u], FALSE)
  /\ Check([op |-> "unlink", user |-> u])
  /\ UNCHANGED inflight

\* oidc_unlink of one's own account, which needs a password to fall back on.
CheckUnlink(u) ==
  /\ Bounded
  /\ SignedIn(u) /\ PasswordEffective /\ user[u].password
  /\ link[u] # NoOne
  /\ StaysReachable(u, user[u], FALSE)
  /\ Check([op |-> "unlink", user |-> u])
  /\ UNCHANGED inflight

\* Mutant: a link is removed, but the sessions it created go on.
UnlinkedSessionsKept(u) == sessions

UnlinkedSessions(u) == sessions \ SessionsOf(u)

CommitUnlink(request) ==
  /\ request.op = "unlink"
  /\ Commit(request)
  /\ link' = [link EXCEPT ![request.user] = NoOne]
  /\ sessions' = UnlinkedSessions(request.user)
  /\ UNCHANGED <<user, config>>

CheckDelete(actor, u) ==
  /\ Bounded
  /\ MayAdminister(actor)
  /\ actor # u /\ Exists(u)
  /\ StaysReachable(u, Absent, FALSE)
  /\ Check([op |-> "delete", user |-> u])
  /\ UNCHANGED inflight

CommitDelete(request) ==
  LET u == request.user
  IN  /\ request.op = "delete"
      /\ Commit(request)
      /\ user' = [user EXCEPT ![u] = Absent]
      /\ link' = [link EXCEPT ![u] = NoOne]
      /\ sessions' = sessions \ SessionsOf(u)
      /\ UNCHANGED config

-----------------------------------------------------------------------------
\* Requests that await: what they read before is kept with them.

Await(request) ==
  /\ Cardinality(inflight) < MaxInflight
  /\ inflight' = inflight \cup {request}
  /\ UNCHANGED <<accounts, config, onboarding, breakGlass, checked>>

\* The provider does not answer, answers wrongly, or the request is refused.
Fail(request) ==
  /\ inflight' = inflight \ {request}
  /\ UNCHANGED <<accounts, config, onboarding, breakGlass, checked, changes>>

\* login: the password is right, and is checked while others go on.
BeginLogin(u) ==
  /\ SignInOffered /\ PasswordEffective
  /\ user[u].active /\ user[u].password
  /\ Await([op |-> "login", user |-> u])
  /\ UNCHANGED changes

FinishLogin(request) ==
  /\ request.op = "login"
  /\ Exists(request.user)
  /\ inflight' = inflight \ {request}
  /\ sessions' = sessions \cup {<<request.user, "password">>}
  /\ UNCHANGED <<user, link, config, onboarding, breakGlass, checked, changes>>

\* oidc_callback up to the exchange of the code, for a sign-in or for the link of u.
BeginCallback(u, identity) ==
  /\ SignInOffered
  /\ LoginAvailable(config)
  /\ identity.issuer = config.issuer /\ config.issuer = config.provider
  /\ Await([op |-> "callback", user |-> u, identity |-> identity, jit |-> config.jit])
  /\ UNCHANGED changes

\* provision_external_user: a viewer without a password, and the link, or nothing.
Provisioned(u, identity) ==
  /\ ~Exists(u)
  /\ user' = [user EXCEPT ![u] = [role |-> "viewer", active |-> TRUE, password |-> FALSE]]
  /\ link' = [link EXCEPT ![u] = identity]

\* _complete_login; an identity nobody owns is provisioned.
CompleteLogin(request, u) ==
  /\ request.op = "callback" /\ request.user = NoOne
  /\ IF Owners(request.identity) # {}
     THEN u \in Owners(request.identity) /\ user[u].active /\ UNCHANGED <<user, link>>
     ELSE request.jit /\ Provisioned(u, request.identity)
  /\ sessions' = sessions \cup {<<u, "oidc">>}
  /\ inflight' = inflight \ {request}
  /\ UNCHANGED <<config, onboarding, breakGlass, checked, changes>>

\* link_external_identity: the database keeps the links unique on both sides.
Linked(u, identity) ==
  /\ link[u] = NoOne /\ Owners(identity) = {}
  /\ link' = [link EXCEPT ![u] = identity]

\* _complete_link: the session is looked up again.
CompleteLink(request, u) ==
  /\ request.op = "callback" /\ request.user = u
  /\ user[u].active /\ SessionsOf(u) \cap sessions # {}
  /\ Linked(u, request.identity)
  /\ inflight' = inflight \ {request}
  /\ UNCHANGED <<user, sessions, config, onboarding, breakGlass, checked, changes>>

\* logout, or the expiry of a session.
EndSession(s) ==
  /\ sessions' = sessions \ {s}
  /\ UNCHANGED <<user, link, config, onboarding, breakGlass, checked, inflight, changes>>

-----------------------------------------------------------------------------
\* The provider and the methods: api/oidc_settings.py.

SaveAllowed == PasswordEffective \/ breakGlass

\* save_oidc_configuration up to check_provider.
BeginSave(actor, p, secret) ==
  /\ Bounded
  /\ MayConfigure(actor)
  /\ SaveAllowed
  /\ secret \/ config.secret
  /\ Await([op |-> "save", provider |-> p, secret |-> secret])

\* Mutant: what was checked before the await is not checked again.
SaveUnchecked == TRUE

\* _persist_oidc_configuration checks again what could change meanwhile.
SaveStillAllowed == SaveAllowed

CheckSave(request, changed) ==
  /\ request.op = "save"
  /\ SaveStillAllowed
  /\ request.secret \/ config.secret
  /\ ~changed => config.secret /\ request.provider = config.provider /\ request.provider = config.issuer
  /\ Check([op |-> "save", provider |-> request.provider, changed |-> changed])
  /\ inflight' = inflight \ {request}
  /\ UNCHANGED changes

CommitSave(request) ==
  /\ request.op = "save"
  /\ Commit(request)
  /\ config' = Enforced([config EXCEPT !.provider = request.provider, !.secret = TRUE,
                                       !.issuer = request.provider])
  /\ sessions' = Recovered(IF request.changed THEN sessions \ SessionsBy("oidc") ELSE sessions)
  /\ UNCHANGED <<user, link>>

\* enable_oidc up to check_provider: it answers with the issuer already stored.
BeginEnable(actor) ==
  /\ Bounded
  /\ MayConfigure(actor)
  /\ Complete(config) /\ config.provider = config.issuer
  /\ Await([op |-> "enable", provider |-> config.provider])

\* What it checked is stored whatever has been saved meanwhile.
FinishEnable(request) ==
  /\ request.op = "enable"
  /\ "enable" \in Overlaps \/ request.provider = config.provider
  /\ inflight' = inflight \ {request}
  /\ config' = Enforced([config EXCEPT !.issuer = request.provider, !.enabled = TRUE])
  /\ UNCHANGED <<accounts, onboarding, breakGlass, checked, changes>>

DisableOidc(actor) ==
  /\ Bounded
  /\ MayConfigure(actor)
  /\ "disable" \in Overlaps \/ LockFree
  /\ config' = Enforced([config EXCEPT !.enabled = FALSE])
  /\ sessions' = Recovered(sessions \ SessionsBy("oidc"))
  /\ UNCHANGED <<user, link, onboarding, breakGlass, checked, inflight>>

CheckDeleteSecret(actor) ==
  /\ Bounded
  /\ MayConfigure(actor)
  /\ SaveAllowed
  /\ Check([op |-> "delete_secret"])
  /\ UNCHANGED inflight

CommitDeleteSecret(request) ==
  /\ request.op = "delete_secret"
  /\ Commit(request)
  /\ config' = Enforced([config EXCEPT !.secret = FALSE, !.enabled = FALSE])
  /\ sessions' = Recovered(sessions \ SessionsBy("oidc"))
  /\ UNCHANGED <<user, link>>

SaveJit(actor, jit) ==
  /\ Bounded
  /\ MayConfigure(actor)
  /\ config' = Enforced([config EXCEPT !.jit = jit])
  /\ UNCHANGED <<accounts, onboarding, breakGlass, checked, inflight>>

\* disable_password_login, by an administrator who signed in with the provider.
CheckDisablePassword(u) ==
  /\ Bounded
  /\ MayConfigure(u) /\ AuthEnabled
  /\ LoginAvailable(config)
  /\ <<u, "oidc">> \in sessions
  /\ u \in LinkedAdmins(config.issuer)
  /\ Check([op |-> "disable_password"])
  /\ UNCHANGED inflight

CommitDisablePassword(request) ==
  /\ request.op = "disable_password"
  /\ Commit(request)
  /\ config' = [config EXCEPT !.password = FALSE]
  /\ sessions' = sessions \ SessionsBy("password")
  /\ UNCHANGED <<user, link>>

EnablePassword(actor) ==
  /\ Bounded
  /\ MayConfigure(actor)
  /\ config' = [config EXCEPT !.password = TRUE]
  /\ sessions' = Recovered(sessions)
  /\ UNCHANGED <<user, link, onboarding, breakGlass, checked, inflight>>

\* repair_authentication_hostname: a new boundary ends every session.
RepairHostname ==
  /\ breakGlass
  /\ sessions' = {}
  /\ UNCHANGED <<user, link, config, onboarding, breakGlass, checked, inflight, changes>>

\* complete_onboarding claims the open state and creates the first administrator
\* if none is left; a new installation with users is refused.
Onboard(u) ==
  /\ ~breakGlass
  /\ \/ onboarding = "pending" /\ \A v \in User : ~Exists(v)
     \/ onboarding = "legacy"
  /\ IF ActiveAdmins = {}
     THEN /\ ~Exists(u)
          /\ user' = [user EXCEPT ![u] = [role |-> "admin", active |-> TRUE, password |-> TRUE]]
     ELSE UNCHANGED user
  /\ onboarding' = "complete"
  /\ UNCHANGED <<link, sessions, config, breakGlass, checked, inflight, changes>>

\* The process stops with every request in it, and starts with or without
\* OSD_AUTH_DISABLED.
Restart(override) ==
  /\ Bounded
  /\ breakGlass' = override
  /\ checked' = {} /\ inflight' = {}
  /\ UNCHANGED <<accounts, config, onboarding>>

-----------------------------------------------------------------------------
UserRequest(actor, u) ==
  \/ \E role \in {"viewer", "admin"} : CreateUser(actor, u, role) \/ CheckRole(actor, u, role)
  \/ ResetPassword(actor, u) \/ CheckToggle(actor, u)
  \/ CheckRevoke(actor, u) \/ CheckDelete(actor, u)

SettingsRequest(actor) ==
  \/ \E p \in Provider, secret \in BOOLEAN : BeginSave(actor, p, secret)
  \/ \E jit \in BOOLEAN : SaveJit(actor, jit)
  \/ BeginEnable(actor) \/ DisableOidc(actor) \/ CheckDeleteSecret(actor) \/ EnablePassword(actor)

OwnRequest(u) ==
  \/ BeginLogin(u) \/ ChangePassword(u) \/ CheckUnlink(u) \/ CheckDisablePassword(u) \/ Onboard(u)

Committing(request) ==
  \/ CommitRole(request) \/ CommitToggle(request) \/ CommitUnlink(request) \/ CommitDelete(request)
  \/ CommitSave(request) \/ CommitDeleteSecret(request) \/ CommitDisablePassword(request)

Resume(request) ==
  \/ Fail(request) \/ FinishLogin(request) \/ FinishEnable(request)
  \/ \E changed \in BOOLEAN : CheckSave(request, changed)
  \/ \E u \in User : CompleteLogin(request, u) \/ CompleteLink(request, u)

Next ==
  \/ \E actor \in User \cup {NoOne} :
       SettingsRequest(actor) \/ \E u \in User : UserRequest(actor, u)
  \/ \E u \in User : OwnRequest(u)
  \/ \E u \in User \cup {NoOne}, identity \in Identity : BeginCallback(u, identity)
  \/ \E request \in checked : Committing(request)
  \/ \E request \in inflight : Resume(request)
  \/ \E s \in sessions : EndSession(s)
  \/ RepairHostname
  \/ \E override \in BOOLEAN : Restart(override)

Spec == Init /\ [][Next]_vars

-----------------------------------------------------------------------------
\* Types; and an installation that is set up keeps an active administrator,
\* whatever administrators do to each other at the same time (oidc.py:199-219).
LastAdminStays == TypeOK /\ (onboarding = "complete" => ActiveAdmins # {})

\* "Keep at least one sign-in method persisted" (oidc_settings.py:77-85): password
\* sign-in is stored as off only while a provider can carry a sign-in.
OneMethodPersisted == LoginAvailable(config) \/ config.password

\* A provider session belongs to a linked user; with the link it ends, whatever
\* sign-in of the same account is in flight (users.py:174-177, oidc_auth.py:199-222).
OidcSessionsLinked == \A u \in User : <<u, "oidc">> \in sessions => link[u] # NoOne

\* An active administrator can be authenticated by a method that is on.
Reachable == PasswordEffective \/ LinkedAdmins(config.issuer) # {}

\* Outside emergency access no step takes away the last administrator who can sign
\* in when password sign-in is off (adr-028:295-297, oidc.py:222-229).
ReachableKept == [][~breakGlass' /\ Reachable => Reachable']_vars

\* While password sign-in is off the provider and its issuer do not change, outside
\* emergency access (adr-028:295-297, website authentication.md:177).
ProviderLocked ==
  [][~breakGlass /\ ~PasswordEffective =>
       config'.issuer = config.issuer /\ config'.provider = config.provider]_vars

\* "so the instance can never end up with no way in" (website authentication.md:180):
\* some active administrator has a password that is accepted or an account at the
\* provider that is.
AdminCanSignIn ==
  onboarding = "complete" =>
    \/ PasswordEffective /\ \E u \in ActiveAdmins : user[u].password
    \/ LoginAvailable(config) /\ LinkedAdmins(config.issuer) # {}

=============================================================================
