------------------------------ MODULE OidcFlow ------------------------------
(***************************************************************************)
(* One browser that signs in through the provider, or links an account to  *)
(* it: the redirect to the provider, the signed cookie that remembers what *)
(* it was for, the callback, and the metadata of the provider with its     *)
(* cache (api/oidc_auth.py, web/oidc_state.py, services/oidc.py).          *)
(*                                                                         *)
(* Several tabs share the cookies.  A request carries the cookies as they  *)
(* were when it was sent, and its answer sets what it made of them, so an  *)
(* answer may overtake another.  Requests await the provider; what they    *)
(* read of the configuration before is what they go on with.               *)
(*                                                                         *)
(* A URL stands for a discovery URL with its client, and an issuer for the *)
(* endpoints of its document.                                              *)
(***************************************************************************)
EXTENDS Integers, FiniteSets, Sequences

CONSTANTS
    User, Subject, Url, Issuer, None,
    HostOf(_),     \* the host of a URL, and of an issuer
    Blocked,       \* the URLs the policy for remote URLs refuses
    Answers,       \* what a URL may answer
    MaxFlows,      \* bound: flows that are started
    MaxRequests,   \* bound: requests that are under way together
    MaxChanges     \* bound: everything else that changes the picture

ASSUME FlowAssumption ==
    /\ None \notin User \union Issuer \union Url
    /\ Blocked \subseteq Url
    /\ Answers \subseteq [redirect : Url] \union [issuer : Issuer] \union {[fails |-> TRUE]}
    /\ {MaxFlows, MaxRequests, MaxChanges} \subseteq Nat

VARIABLES
    web,        \* what a URL answers
    config,     \* the stored configuration of the provider
    cache,      \* _metadata_cache
    process,    \* the number of the process, which signs the flow cookie
    flowCookie, \* the cookies of the browser
    session,
    live,       \* user_sessions
    link,       \* external_identities, per user
    asked,      \* for the state of a flow, what it was started for
    pages,      \* tabs at the provider
    requests,   \* requests of the browser that are under way
    changes

OFvars == <<web, config, cache, process, flowCookie, session, live, link, asked, pages,
            requests, changes>>

Modes == {"login", "link"}
States == 1..MaxFlows
Identity == [issuer : Issuer, subject : Subject]
Config == [url : Url, issuer : Issuer, enabled : BOOLEAN]

(* A token of user_sessions. *)
Tokens == [user : User, number : 0..MaxChanges, method : {"password", "oidc"}]

NoFlow == [state |-> 0, mode |-> "login", user |-> None]
EmptyCookie == [process |-> 0, flow |-> NoFlow, states |-> {}]

Asked == [mode : Modes, user : User \union {None}]
Flow == [state : 0..MaxFlows, mode : Modes, user : User \union {None}]
Cookie == [process : 0..MaxChanges, flow : Flow, states : SUBSET States]
Metadata == [of : [url : Url, issuer : Issuer], issuer : Issuer]

(* What a request that waits for the provider knows of it. *)
Waiting == [config : Config, cold : BOOLEAN, metadata : Issuer \union {None}]

Request ==
    [op : {"begin"}, mode : Modes, user : User \union {None}, cookie : Cookie, asking : Waiting]
    \union [op : {"callback"}, state : States, flow : Flow, identity : Identity, issuer : Issuer,
            session : Tokens \union {None}, known : BOOLEAN, asking : Waiting]
    \union [op : {"refuse"}] \union [op : {"visit"}, cookie : Cookie]

TypeOK ==
    /\ web \in [Url -> Answers] /\ config \in Config
    /\ cache \in Metadata \union {None}
    /\ process \in 0..changes /\ changes \in 0..MaxChanges
    /\ flowCookie \in Cookie
    /\ session \in Tokens \union {None} /\ live \subseteq Tokens
    /\ link \in [User -> Identity \union {None}]
    /\ asked \in Seq(Asked) /\ Len(asked) <= MaxFlows
    /\ pages \subseteq [state : States, issuer : Issuer]
    /\ requests \subseteq Request /\ IsFiniteSet(requests)
    /\ Cardinality(requests) <= MaxRequests

Change == changes < MaxChanges /\ changes' = changes + 1

-----------------------------------------------------------------------------
(* The discovery document.  A URL redirects, or it serves a valid document *)
(* of an issuer, or anything else, which is refused.                       *)
Redirects(u) == "redirect" \in DOMAIN web[u]

Hop(u) == IF Redirects(u) THEN web[u].redirect ELSE u

(* fetch_discovery_document: where at most three redirects lead. *)
LastHop(url) == Hop(Hop(Hop(url)))

Hops(url) == {url, Hop(url), Hop(Hop(url)), LastHop(url)}

(* check_provider: the issuer, if no URL on the way is blocked, the last   *)
(* one serves a document, and the issuer in it is on the host it came      *)
(* from.                                                                   *)
Discovered(url) ==
    LET answer == web[LastHop(url)]
    IN  IF /\ Hops(url) \intersect Blocked = {}
           /\ "issuer" \in DOMAIN answer /\ HostOf(answer.issuer) = HostOf(LastHop(url))
        THEN answer.issuer
        ELSE None

(* config_fingerprint, without the switches. *)
Fingerprint(c) == [url |-> c.url, issuer |-> c.issuer]

(* cached_provider_metadata *)
Cached(c) == IF cache # None /\ cache.of = Fingerprint(c) THEN cache.issuer ELSE None

(* load_provider_metadata: a request reads the cache, or waits for what    *)
(* the provider answers and stores it when it goes on.                     *)
Asking(c) == [config |-> c, cold |-> Cached(c) = None, metadata |-> Cached(c)]

Stored(r) ==
    IF r.asking.cold THEN [of |-> Fingerprint(r.asking.config), issuer |-> r.asking.metadata]
    ELSE cache

-----------------------------------------------------------------------------
Init ==
    /\ web \in [Url -> Answers]
    /\ config \in {c \in Config : c.enabled /\ Discovered(c.url) = c.issuer}
    /\ cache = None /\ process = 0
    /\ flowCookie = EmptyCookie /\ session = None /\ live = {}
    /\ link = [u \in User |-> None]
    /\ asked = <<>> /\ pages = {} /\ requests = {} /\ changes = 0

(* The session middleware takes a cookie of another process as none. *)
Received == IF flowCookie.process = process THEN flowCookie ELSE EmptyCookie

SignedIn(token) == token # None /\ token \in live

Room == Cardinality(requests) < MaxRequests

-----------------------------------------------------------------------------
(* oidc_login, oidc_link: _authorization_redirect up to the provider. *)
Begin(mode) ==
    /\ Room /\ config.enabled
    /\ mode = "link" => SignedIn(session)
    /\ requests' = requests \union
         {[op |-> "begin", mode |-> mode, user |-> IF mode = "link" THEN session.user ELSE None,
           cookie |-> Received, asking |-> Asking(config)]}
    /\ UNCHANGED <<web, config, cache, process, flowCookie, session, live, link, asked, pages,
                   changes>>

(* The provider answers with a document of the issuer that is expected. *)
Fetch(r) ==
    LET issuer == Discovered(r.asking.config.url)
    IN  /\ r.asking.metadata = None /\ issuer = r.asking.config.issuer
        /\ requests' = (requests \ {r}) \union {[r EXCEPT !.asking.metadata = issuer]}
        /\ UNCHANGED <<web, config, cache, process, flowCookie, session, live, link, asked, pages,
                       changes>>

(* The answer sets the cookie with the flow and sends the tab to the       *)
(* provider.                                                               *)
Redirect(r) ==
    LET state == Len(asked) + 1
    IN  /\ r.op = "begin" /\ r.asking.metadata # None /\ state \in States
        /\ cache' = Stored(r)
        /\ asked' = Append(asked, [mode |-> r.mode, user |-> r.user])
        /\ flowCookie' = [process |-> process,
                          flow |-> [state |-> state, mode |-> r.mode, user |-> r.user],
                          states |-> r.cookie.states \union {state}]
        /\ pages' = pages \union {[state |-> state, issuer |-> r.asking.metadata]}
        /\ requests' = requests \ {r}
        /\ UNCHANGED <<web, config, process, session, live, link, changes>>

BeginFails(r) ==
    /\ r.op = "begin" /\ r.asking.metadata = None
    /\ requests' = requests \ {r}
    /\ UNCHANGED <<web, config, cache, process, flowCookie, session, live, link, asked, pages,
                   changes>>

-----------------------------------------------------------------------------
(* The callback.  read_flow: the flow of the cookie, if it is the one of   *)
(* this state.                                                             *)
MatchesAny(cookie, state) == cookie.flow.state # 0
Matches(cookie, state) == cookie.flow.state = state

(* oidc_callback up to the provider.  A state that is not the one of the   *)
(* cookie, or a provider that is switched off, clears the cookie.          *)
Return(page, identity) ==
    LET cookie == Received
        goesOn == Matches(cookie, page.state) /\ config.enabled
    IN  /\ Room
        /\ requests' = requests \union
             {IF goesOn
              THEN [op |-> "callback", state |-> page.state, flow |-> cookie.flow,
                    identity |-> identity, issuer |-> page.issuer, session |-> session,
                    known |-> page.state \in cookie.states, asking |-> Asking(config)]
              ELSE [op |-> "refuse"]}
        /\ UNCHANGED <<web, config, cache, process, flowCookie, session, live, link, asked, pages,
                       changes>>

(* Everything of the flow leaves the browser with the answer. *)
Answered(r) == requests' = requests \ {r} /\ flowCookie' = EmptyCookie

Refuse(r) ==
    /\ r.op = "refuse" /\ Answered(r)
    /\ UNCHANGED <<web, config, cache, process, session, live, link, asked, pages, changes>>

(* authorize_access_token and _verified_identity: the library knows the    *)
(* state, the code is exchanged at the provider it is from, and the claims *)
(* name the issuer that is configured.                                     *)
Verified(r) ==
    /\ r.asking.metadata # None /\ r.known
    /\ r.asking.metadata = r.issuer
    /\ r.identity.issuer = r.asking.config.issuer

(* The provider may refuse for reasons of its own, or answer nothing. *)
CallbackFails(r) ==
    /\ r.op = "callback" /\ Answered(r)
    /\ cache' = IF r.asking.metadata = None THEN cache ELSE Stored(r)
    /\ UNCHANGED <<web, config, process, session, live, link, asked, pages, changes>>

Owners(identity) == {u \in User : link[u] = identity}

SignIn(u, method) ==
    LET token == [user |-> u, number |-> changes, method |-> method]
    IN  session' = token /\ live' = live \union {token}

(* _complete_login; a user is made for an unknown identity outside of this *)
(* module, if at all.                                                      *)
CompleteLogin(r) ==
    /\ r.op = "callback" /\ r.flow.mode = "login" /\ Verified(r)
    /\ \E u \in Owners(r.identity) : SignIn(u, "oidc")
    /\ Change /\ Answered(r) /\ cache' = Stored(r)
    /\ UNCHANGED <<web, config, process, link, asked, pages>>

(* _complete_link, link_external_identity: the browser is still signed in  *)
(* as the user who started the flow; neither side has a link.              *)
CompleteLink(r) ==
    /\ r.op = "callback" /\ r.flow.mode = "link" /\ Verified(r)
    /\ SignedIn(r.session) /\ r.session.user = r.flow.user
    /\ link[r.session.user] = None /\ Owners(r.identity) = {}
    /\ link' = [link EXCEPT ![r.session.user] = r.identity]
    /\ Answered(r) /\ cache' = Stored(r)
    /\ UNCHANGED <<web, config, process, session, live, asked, pages, changes>>

-----------------------------------------------------------------------------
(* Any other page of the browser: its answer may set the flow cookie again *)
(* as it was sent.                                                         *)
Visit ==
    /\ Room /\ Received # EmptyCookie
    /\ requests' = requests \union {[op |-> "visit", cookie |-> flowCookie]}
    /\ UNCHANGED <<web, config, cache, process, flowCookie, session, live, link, asked, pages,
                   changes>>

Visited(r) ==
    /\ r.op = "visit"
    /\ flowCookie' \in {flowCookie, r.cookie}
    /\ requests' = requests \ {r}
    /\ UNCHANGED <<web, config, cache, process, session, live, link, asked, pages, changes>>

PasswordLogin(u) ==
    /\ session = None /\ Change /\ SignIn(u, "password")
    /\ UNCHANGED <<web, config, cache, process, flowCookie, link, asked, pages, requests>>

Logout ==
    /\ session # None /\ Change
    /\ session' = None /\ live' = live \ {session}
    /\ UNCHANGED <<web, config, cache, process, flowCookie, link, asked, pages, requests>>

Unlink(u) ==
    /\ link[u] # None /\ Change
    /\ link' = [link EXCEPT ![u] = None] /\ live' = {t \in live : t.user # u}
    /\ UNCHANGED <<web, config, cache, process, flowCookie, session, asked, pages, requests>>

(* Requests under way end with the process, and the cookie is of the old   *)
(* one.                                                                    *)
Restart ==
    /\ Change /\ process' = process + 1
    /\ cache' = None /\ requests' = {}
    /\ UNCHANGED <<web, config, flowCookie, session, live, link, asked, pages>>

(* The cookie has an age limit, and so has the cached metadata. *)
Expire ==
    /\ \/ flowCookie # EmptyCookie /\ flowCookie' = EmptyCookie /\ UNCHANGED cache
       \/ cache # None /\ cache' = None /\ UNCHANGED flowCookie
    /\ UNCHANGED <<web, config, process, session, live, link, asked, pages, requests, changes>>

WebChanges ==
    /\ Change /\ \E u \in Url, a \in Answers : web' = [web EXCEPT ![u] = a]
    /\ UNCHANGED <<config, cache, process, flowCookie, session, live, link, asked, pages, requests>>

(* An administrator saves another provider, or switches it on or off. *)
NotOidc == {t \in live : t.method # "oidc"}

SaveProvider(url) ==
    /\ Discovered(url) # None /\ Change
    /\ config' = [config EXCEPT !.url = url, !.issuer = Discovered(url)]
    /\ live' = IF config' # config THEN NotOidc ELSE live
    /\ cache' = None
    /\ UNCHANGED <<web, process, flowCookie, session, link, asked, pages, requests>>

Enable ==
    /\ ~config.enabled /\ Discovered(config.url) = config.issuer
    /\ config' = [config EXCEPT !.enabled = TRUE] /\ cache' = None
    /\ UNCHANGED <<web, process, flowCookie, session, live, link, asked, pages, requests, changes>>

Disable ==
    /\ config.enabled /\ Change
    /\ config' = [config EXCEPT !.enabled = FALSE] /\ cache' = None
    /\ live' = NotOidc
    /\ UNCHANGED <<web, process, flowCookie, session, link, asked, pages, requests>>

Next ==
    \/ \E mode \in Modes : Begin(mode)
    \/ \E page \in pages, s \in Subject : Return(page, [issuer |-> page.issuer, subject |-> s])
    \/ \E r \in requests :
          \/ r.op \in {"begin", "callback"} /\ Fetch(r)
          \/ Redirect(r) \/ BeginFails(r) \/ Refuse(r) \/ CallbackFails(r)
          \/ CompleteLogin(r) \/ CompleteLink(r) \/ Visited(r)
    \/ Visit \/ Logout \/ Restart \/ Expire \/ WebChanges \/ Enable \/ Disable
    \/ \E u \in User : PasswordLogin(u) \/ Unlink(u)
    \/ \E url \in Url : SaveProvider(url)

Spec == Init /\ [][Next]_OFvars

-----------------------------------------------------------------------------
(* A flow ends as what it began as, whatever other tabs, sign-outs, late   *)
(* answers and restarts did meanwhile: an account is linked only to the    *)
(* user who asked for it, by the callback of that very flow, and the       *)
(* provider signs someone in only where a sign-in was asked for.           *)
Ended(mode, user) ==
    \E r \in requests \ requests' :
       r.op = "callback" /\ asked[r.state] = [mode |-> mode, user |-> user]

FlowsEndAsTheyBegan ==
    [][/\ \A u \in User : link'[u] \notin {link[u], None} => Ended("link", u)
       /\ live' \ live # {} =>
            (\E t \in live' \ live : t.method = "password") \/ Ended("login", None)]_OFvars

=============================================================================
