--------------------------- MODULE OidcFlowProofs ---------------------------
(***************************************************************************)
(* That a sign-in through the provider ends as what it was started as, for *)
(* every number of tabs, requests and restarts.  The callback reads the    *)
(* cookie that the browser sent, which another tab or a late answer may    *)
(* have set again; the invariant says that whatever cookie, page or        *)
(* request is around, what it claims of a flow is what the flow was        *)
(* started for.                                                            *)
(***************************************************************************)
EXTENDS OidcFlow, FiniteSetTheorems, SequenceTheorems, TLAPS

(***************************************************************************)
(* The inductive invariant                                                 *)
(***************************************************************************)
(* What a cookie or a request says of a flow is what was asked for. *)
Faithful(flow) ==
    /\ flow.state \in DOMAIN asked
    /\ asked[flow.state] = [mode |-> flow.mode, user |-> flow.user]

CookieInv(cookie) == cookie.flow.state = 0 \/ Faithful(cookie.flow)

RequestInv(r) ==
    /\ r.op = "begin" /\ r.mode = "login" => r.user = None
    /\ r.op = "visit" => CookieInv(r.cookie)
    /\ r.op = "callback" => r.flow.state = r.state /\ Faithful(r.flow)

FlowsInv ==
    /\ CookieInv(flowCookie)
    /\ \A r \in requests : RequestInv(r)
    /\ \A page \in pages : page.state \in DOMAIN asked
    /\ \A i \in DOMAIN asked : asked[i].mode = "login" => asked[i].user = None

IInv == TypeOK /\ FlowsInv

(***************************************************************************)
(* The model's operators                                                   *)
(***************************************************************************)
LEMMA HopTyped ==
  ASSUME TypeOK, NEW u \in Url
  PROVE  Hop(u) \in Url
<1>1. web[u] \in [redirect : Url] \union [issuer : Issuer] \union {[fails |-> TRUE]}
  BY FlowAssumption DEF TypeOK
<1>. QED  BY <1>1 DEF Hop, Redirects

\* What a URL is found to serve is an issuer, or nothing that is accepted.
LEMMA DiscoveredTyped ==
  ASSUME TypeOK, NEW u \in Url
  PROVE  Discovered(u) \in Issuer \union {None}
<1>1. LastHop(u) \in Url
  BY HopTyped DEF LastHop
<1>2. web[LastHop(u)] \in [redirect : Url] \union [issuer : Issuer] \union {[fails |-> TRUE]}
  BY <1>1, FlowAssumption DEF TypeOK
<1>. QED  BY <1>2 DEF Discovered

LEMMA AskingTyped ==
  ASSUME TypeOK
  PROVE  Asking(config) \in Waiting
<1>1. Cached(config) \in Issuer \union {None}
  BY DEF TypeOK, Cached, Metadata
<1>. QED  BY <1>1 DEF Asking, Waiting, TypeOK

\* What a request that has an answer leaves in the cache.
LEMMA StoredTyped ==
  ASSUME TypeOK, NEW r \in requests, r.op \in {"begin", "callback"}, r.asking.metadata # None
  PROVE  Stored(r) \in Metadata \union {None}
<1>1. r.asking \in Waiting
  BY DEF TypeOK, Request
<1>2. r.asking.metadata \in Issuer
  BY <1>1 DEF Waiting
<1>3. Fingerprint(r.asking.config) \in [url : Url, issuer : Issuer]
  BY <1>1 DEF Waiting, Config, Fingerprint
<1>. QED  BY <1>2, <1>3 DEF Stored, Metadata, TypeOK

LEMMA ReceivedTyped ==
  ASSUME TypeOK
  PROVE  Received \in Cookie
BY FlowAssumption DEF TypeOK, Received, EmptyCookie, NoFlow, Cookie, Flow, Modes

LEMMA EmptyTyped == EmptyCookie \in Cookie
BY FlowAssumption DEF EmptyCookie, NoFlow, Cookie, Flow, Modes

\* A request that comes, one that goes, and one that goes on.
LEMMA RequestComes ==
  ASSUME TypeOK, Room, NEW r \in Request, requests' = requests \union {r}
  PROVE  /\ requests' \subseteq Request /\ IsFiniteSet(requests')
         /\ Cardinality(requests') <= MaxRequests
<1>1. /\ requests \subseteq Request /\ IsFiniteSet(requests) /\ MaxRequests \in Nat
      /\ Cardinality(requests) \in Nat /\ Cardinality(requests) < MaxRequests
  BY FS_CardinalityType, FlowAssumption DEF TypeOK, Room
<1>2. /\ IsFiniteSet(requests')
      /\ Cardinality(requests') \in {Cardinality(requests), Cardinality(requests) + 1}
  BY <1>1, FS_AddElement
<1>. QED  BY <1>1, <1>2

LEMMA RequestGoes ==
  ASSUME TypeOK, NEW r \in requests, requests' = requests \ {r}
  PROVE  /\ requests' \subseteq Request /\ IsFiniteSet(requests')
         /\ Cardinality(requests') = Cardinality(requests) - 1
         /\ Cardinality(requests') \in Nat /\ Cardinality(requests') <= MaxRequests
<1>1. /\ requests \subseteq Request /\ IsFiniteSet(requests) /\ MaxRequests \in Nat
      /\ Cardinality(requests) \in Nat /\ Cardinality(requests) <= MaxRequests
  BY FS_CardinalityType, FlowAssumption DEF TypeOK
<1>2. /\ IsFiniteSet(requests') /\ Cardinality(requests') = Cardinality(requests) - 1
  BY <1>1, FS_RemoveElement
<1>3. Cardinality(requests') \in Nat
  BY <1>2, FS_CardinalityType
<1>. QED  BY <1>1, <1>2, <1>3

LEMMA RequestGoesOn ==
  ASSUME TypeOK, NEW r \in requests, NEW s \in Request, requests' = (requests \ {r}) \union {s}
  PROVE  /\ requests' \subseteq Request /\ IsFiniteSet(requests')
         /\ Cardinality(requests') <= MaxRequests
<1>. DEFINE rest == requests \ {r}
<1>1. /\ requests \subseteq Request /\ IsFiniteSet(requests) /\ MaxRequests \in Nat
      /\ Cardinality(requests) \in Nat /\ Cardinality(requests) <= MaxRequests
  BY FS_CardinalityType, FlowAssumption DEF TypeOK
<1>2. /\ IsFiniteSet(rest) /\ Cardinality(rest) = Cardinality(requests) - 1
  BY <1>1, FS_RemoveElement
<1>3. requests' = rest \union {s} /\ requests' \subseteq Request
  BY <1>1
<1>. HIDE DEF rest
<1>4. /\ IsFiniteSet(rest \union {s})
      /\ Cardinality(rest \union {s}) \in {Cardinality(rest), Cardinality(rest) + 1}
  BY <1>2, FS_AddElement
<1>5. Cardinality(rest \union {s}) <= MaxRequests
  BY <1>1, <1>2, <1>4
<1>. QED  BY <1>3, <1>4, <1>5

(***************************************************************************)
(* Type correctness                                                        *)
(***************************************************************************)
LEMMA InitTyped == Init => TypeOK
<1>1. Init => /\ web \in [Url -> Answers] /\ config \in Config /\ cache \in {None}
              /\ process \in 0..changes /\ changes \in 0..MaxChanges
              /\ session \in {None} /\ live = {}
              /\ link \in [User -> Identity \union {None}] /\ pages = {}
  BY FlowAssumption DEF Init
<1>2. Init => asked \in Seq(Asked) /\ Len(asked) <= MaxFlows
  BY FlowAssumption DEF Init
<1>3. Init => /\ requests \subseteq Request /\ IsFiniteSet(requests)
              /\ Cardinality(requests) <= MaxRequests
  BY FS_EmptySet, FlowAssumption DEF Init
<1>. QED  BY <1>1, <1>2, <1>3, EmptyTyped DEF Init, TypeOK

\* What a page asks for, and what the answer of the provider is met with.
LEMMA BeginTyped ==
  ASSUME TypeOK, NEW mode \in Modes, Begin(mode)
  PROVE  TypeOK'
<1>1. mode = "link" => session.user \in User
  BY DEF Begin, SignedIn, TypeOK, Tokens
<1>. DEFINE r == [op |-> "begin", mode |-> mode,
                  user |-> IF mode = "link" THEN session.user ELSE None,
                  cookie |-> Received, asking |-> Asking(config)]
<1>2. r \in Request
  BY <1>1, ReceivedTyped, AskingTyped DEF Request
<1>3. requests' = requests \union {r} /\ Room
  BY DEF Begin
<1>. HIDE DEF r
<1>4. /\ requests' \subseteq Request /\ IsFiniteSet(requests')
      /\ Cardinality(requests') <= MaxRequests
  BY <1>2, <1>3, RequestComes
<1>. QED  BY <1>4 DEF Begin, TypeOK

LEMMA ReturnTyped ==
  ASSUME TypeOK, NEW page \in pages, NEW s \in Subject,
         Return(page, [issuer |-> page.issuer, subject |-> s])
  PROVE  TypeOK'
<1>. DEFINE i == [issuer |-> page.issuer, subject |-> s]
            cookie == Received
            goesOn == Matches(cookie, page.state) /\ config.enabled
            r == [op |-> "callback", state |-> page.state, flow |-> cookie.flow,
                  identity |-> i, issuer |-> page.issuer, session |-> session,
                  known |-> page.state \in cookie.states, asking |-> Asking(config)]
            answer == IF goesOn THEN r ELSE [op |-> "refuse"]
<1>1. page.state \in States /\ page.issuer \in Issuer
  BY DEF TypeOK
<1>2. i \in Identity /\ cookie.flow \in Flow /\ session \in Tokens \union {None}
  BY <1>1, ReceivedTyped DEF Identity, Cookie, TypeOK
<1>3. r \in Request
  BY <1>1, <1>2, AskingTyped DEF Request
<1>4. answer \in Request
  BY <1>3 DEF Request
<1>5. requests' = requests \union {answer} /\ Room
  BY DEF Return
<1>. HIDE DEF answer
<1>6. /\ requests' \subseteq Request /\ IsFiniteSet(requests')
      /\ Cardinality(requests') <= MaxRequests
  BY <1>4, <1>5, RequestComes
<1>. QED  BY <1>6 DEF Return, TypeOK

LEMMA FetchTyped ==
  ASSUME TypeOK, NEW r \in requests, r.op \in {"begin", "callback"}, Fetch(r)
  PROVE  TypeOK'
<1>. DEFINE issuer == Discovered(r.asking.config.url)
            s == [r EXCEPT !.asking.metadata = issuer]
<1>1. r \in Request /\ r.asking \in Waiting
  BY DEF TypeOK, Request
<1>2. issuer = r.asking.config.issuer /\ r.asking.config \in Config
  BY <1>1 DEF Fetch, Waiting
<1>. HIDE DEF issuer
<1>3. issuer \in Issuer
  BY <1>2 DEF Config
<1>4. [r.asking EXCEPT !.metadata = issuer] \in Waiting
  BY <1>1, <1>3 DEF Waiting
<1>5. s \in Request
  BY <1>1, <1>4 DEF Request
<1>6. requests' = (requests \ {r}) \union {s}
  BY DEF Fetch, issuer
<1>. HIDE DEF s
<1>7. /\ requests' \subseteq Request /\ IsFiniteSet(requests')
      /\ Cardinality(requests') <= MaxRequests
  BY <1>5, <1>6, RequestGoesOn
<1>. QED  BY <1>7 DEF Fetch, TypeOK

LEMMA RedirectTyped ==
  ASSUME TypeOK, NEW r \in requests, Redirect(r)
  PROVE  TypeOK'
<1>. DEFINE state == Len(asked) + 1
<1>1. /\ r.mode \in Modes /\ r.user \in User \union {None} /\ r.cookie \in Cookie
      /\ r.asking.metadata \in Issuer
  BY DEF Redirect, TypeOK, Request, Waiting
<1>2. state \in States /\ process \in 0..MaxChanges
  BY FlowAssumption DEF Redirect, TypeOK
<1>3. flowCookie' \in Cookie
  BY <1>1, <1>2, FlowAssumption DEF Redirect, Cookie, Flow, States
<1>4. pages' \subseteq [state : States, issuer : Issuer]
  BY <1>1, <1>2 DEF Redirect, TypeOK
<1>5. asked' \in Seq(Asked) /\ Len(asked') <= MaxFlows
  BY <1>1, <1>2, FlowAssumption DEF Redirect, TypeOK, Asked, States
<1>6. cache' \in Metadata \union {None}
  BY StoredTyped DEF Redirect
<1>7. /\ requests' \subseteq Request /\ IsFiniteSet(requests')
      /\ Cardinality(requests') <= MaxRequests
  BY RequestGoes DEF Redirect
<1>. QED  BY <1>3, <1>4, <1>5, <1>6, <1>7 DEF Redirect, TypeOK

LEMMA AnswerTyped ==
  ASSUME TypeOK, NEW r \in requests,
         BeginFails(r) \/ Refuse(r) \/ CallbackFails(r) \/ CompleteLogin(r)
           \/ CompleteLink(r) \/ Visited(r)
  PROVE  TypeOK'
<1>1. requests' = requests \ {r}
  BY DEF BeginFails, Refuse, CallbackFails, CompleteLogin, CompleteLink, Visited, Answered
<1>2. /\ requests' \subseteq Request /\ IsFiniteSet(requests')
      /\ Cardinality(requests') <= MaxRequests
  BY <1>1, RequestGoes
<1>3. CASE BeginFails(r)
  BY <1>2, <1>3 DEF BeginFails, TypeOK
<1>4. CASE Refuse(r)
  BY <1>2, <1>4, EmptyTyped DEF Refuse, Answered, TypeOK
<1>5. CASE CallbackFails(r)
  <2>1. cache' \in Metadata \union {None}
    BY <1>5, StoredTyped DEF CallbackFails, TypeOK
  <2>. QED  BY <1>2, <1>5, <2>1, EmptyTyped DEF CallbackFails, Answered, TypeOK
<1>6. CASE CompleteLogin(r)
  <2>1. PICK u \in User : SignIn(u, "oidc")
    BY <1>6 DEF CompleteLogin, Owners
  <2>2. changes' \in 0..MaxChanges /\ process \in 0..changes' /\ changes \in 0..MaxChanges
    BY <1>6, FlowAssumption DEF CompleteLogin, Change, TypeOK
  <2>3. session' \in Tokens /\ live' \subseteq Tokens
    BY <2>1, <2>2 DEF SignIn, Tokens, TypeOK
  <2>4. cache' \in Metadata \union {None}
    BY <1>6, StoredTyped DEF CompleteLogin, Verified
  <2>. QED  BY <1>2, <1>6, <2>2, <2>3, <2>4, EmptyTyped DEF CompleteLogin, Answered, TypeOK
<1>7. CASE CompleteLink(r)
  <2>1. r.identity \in Identity
    BY <1>7 DEF CompleteLink, TypeOK, Request
  <2>2. link' \in [User -> Identity \union {None}]
    BY <1>7, <2>1 DEF CompleteLink, TypeOK
  <2>3. cache' \in Metadata \union {None}
    BY <1>7, StoredTyped DEF CompleteLink, Verified
  <2>. QED  BY <1>2, <1>7, <2>2, <2>3, EmptyTyped DEF CompleteLink, Answered, TypeOK
<1>8. CASE Visited(r)
  <2>1. r.cookie \in Cookie
    BY <1>8 DEF Visited, TypeOK, Request
  <2>. QED  BY <1>2, <1>8, <2>1 DEF Visited, TypeOK
<1>. QED  BY <1>3, <1>4, <1>5, <1>6, <1>7, <1>8

LEMMA VisitTyped ==
  ASSUME TypeOK, Visit
  PROVE  TypeOK'
<1>. DEFINE r == [op |-> "visit", cookie |-> flowCookie]
<1>1. r \in Request
  BY DEF Request, TypeOK
<1>2. requests' = requests \union {r} /\ Room
  BY DEF Visit
<1>. HIDE DEF r
<1>3. /\ requests' \subseteq Request /\ IsFiniteSet(requests')
      /\ Cardinality(requests') <= MaxRequests
  BY <1>1, <1>2, RequestComes
<1>. QED  BY <1>3 DEF Visit, TypeOK

\* A change leaves room for its number.
LEMMA ChangeTyped ==
  ASSUME TypeOK, Change
  PROVE  /\ changes' \in 0..MaxChanges /\ changes \in 0..MaxChanges
         /\ process \in 0..changes' /\ process + 1 \in 0..changes'
BY FlowAssumption DEF Change, TypeOK

\* What happens to the browser's session, the users and the process.
LEMMA EnvironmentTyped ==
  ASSUME TypeOK,
         Logout \/ Restart \/ Expire \/ WebChanges \/ (\E u \in User : PasswordLogin(u) \/ Unlink(u))
  PROVE  TypeOK'
<1>1. CASE Logout
  BY <1>1, ChangeTyped DEF Logout, TypeOK
<1>2. CASE Restart
  <2>1. requests' \subseteq Request /\ IsFiniteSet(requests') /\ Cardinality(requests') <= MaxRequests
    BY <1>2, FS_EmptySet, FlowAssumption DEF Restart
  <2>. QED  BY <1>2, <2>1, ChangeTyped DEF Restart, TypeOK
<1>3. CASE Expire
  BY <1>3, EmptyTyped DEF Expire, TypeOK
<1>4. CASE WebChanges
  BY <1>4, ChangeTyped DEF WebChanges, TypeOK
<1>5. ASSUME NEW u \in User, PasswordLogin(u)  PROVE TypeOK'
  <2>1. session' \in Tokens /\ live' \subseteq Tokens
    BY <1>5, ChangeTyped DEF PasswordLogin, SignIn, Tokens, TypeOK
  <2>. QED  BY <1>5, <2>1, ChangeTyped DEF PasswordLogin, TypeOK
<1>6. ASSUME NEW u \in User, Unlink(u)  PROVE TypeOK'
  <2>1. link' \in [User -> Identity \union {None}] /\ live' \subseteq Tokens
    BY <1>6 DEF Unlink, TypeOK
  <2>. QED  BY <1>6, <2>1, ChangeTyped DEF Unlink, TypeOK
<1>. QED  BY <1>1, <1>2, <1>3, <1>4, <1>5, <1>6

\* What an administrator does to the provider.
LEMMA ProviderTyped ==
  ASSUME TypeOK, Enable \/ Disable \/ (\E url \in Url : SaveProvider(url))
  PROVE  TypeOK'
<1>1. NotOidc \subseteq Tokens
  BY DEF NotOidc, TypeOK
<1>2. CASE Enable
  BY <1>2 DEF Enable, TypeOK, Config
<1>3. CASE Disable
  BY <1>1, <1>3, ChangeTyped DEF Disable, TypeOK, Config
<1>4. ASSUME NEW url \in Url, SaveProvider(url)  PROVE TypeOK'
  <2>1. Discovered(url) \in Issuer
    BY <1>4, DiscoveredTyped DEF SaveProvider
  <2>2. config' \in Config
    BY <1>4, <2>1 DEF SaveProvider, TypeOK, Config
  <2>3. live' \subseteq Tokens
    BY <1>1, <1>4 DEF SaveProvider, TypeOK
  <2>. QED  BY <1>4, <2>2, <2>3, ChangeTyped DEF SaveProvider, TypeOK
<1>. QED  BY <1>2, <1>3, <1>4

LEMMA NextTyped ==
  ASSUME TypeOK, [Next]_OFvars
  PROVE  TypeOK'
<1>1. CASE Next
  BY <1>1, BeginTyped, ReturnTyped, FetchTyped, RedirectTyped, AnswerTyped, VisitTyped,
     EnvironmentTyped, ProviderTyped
     DEF Next
<1>2. CASE UNCHANGED OFvars
  BY <1>2 DEF OFvars, TypeOK
<1>. QED  BY <1>1, <1>2

(***************************************************************************)
(* What is remembered of a flow is what it was started for                 *)
(***************************************************************************)
LEMMA EmptyFaithful == CookieInv(EmptyCookie)
BY DEF CookieInv, EmptyCookie, NoFlow

LEMMA InitFlows == Init => FlowsInv
BY EmptyFaithful DEF Init, FlowsInv

\* Nothing is added to what is remembered but what is faithful.
LEMMA FlowsKept ==
  ASSUME FlowsInv, asked' = asked, pages' = pages,
         CookieInv(flowCookie'),
         \A r \in requests' : r \in requests \/ RequestInv(r)
  PROVE  FlowsInv'
<1>1. CookieInv(flowCookie)'
  BY DEF CookieInv, Faithful
<1>2. \A r \in requests' : RequestInv(r)'
  BY DEF FlowsInv, RequestInv, CookieInv, Faithful
<1>. QED  BY <1>1, <1>2 DEF FlowsInv

\* A flow that is started is remembered as what it is for, and no other flow is
\* taken for it.
LEMMA RedirectFaithful ==
  ASSUME TypeOK, FlowsInv, NEW r \in requests, Redirect(r)
  PROVE  FlowsInv'
<1>. DEFINE entry == [mode |-> r.mode, user |-> r.user]
            state == Len(asked) + 1
<1>1. entry \in Asked /\ (r.mode = "login" => r.user = None)
  BY DEF Redirect, TypeOK, FlowsInv, RequestInv, Request, Asked
<1>2. asked \in Seq(Asked) /\ asked' = Append(asked, entry)
  BY DEF Redirect, TypeOK
<1>. HIDE DEF entry
<1>3. /\ DOMAIN asked' = 1..state /\ DOMAIN asked = 1..(state - 1) /\ Len(asked) \in Nat
      /\ asked'[state] = entry /\ \A i \in DOMAIN asked : asked'[i] = asked[i]
  BY <1>1, <1>2
<1>4. ASSUME NEW f, Faithful(f)  PROVE Faithful(f)'
  BY <1>3, <1>4 DEF Faithful
<1>5. CookieInv(flowCookie)'
  <2>1. flowCookie'.flow = [state |-> state, mode |-> r.mode, user |-> r.user]
    BY DEF Redirect
  <2>. QED  BY <1>3, <2>1 DEF CookieInv, Faithful, entry
<1>6. \A q \in requests' : RequestInv(q)'
  BY <1>4 DEF Redirect, FlowsInv, RequestInv, CookieInv
<1>7. \A page \in pages' : page.state \in DOMAIN asked'
  BY <1>3 DEF Redirect, FlowsInv
<1>8. \A i \in DOMAIN asked' : asked'[i].mode = "login" => asked'[i].user = None
  BY <1>1, <1>3 DEF FlowsInv, entry
<1>. QED  BY <1>5, <1>6, <1>7, <1>8 DEF FlowsInv

\* A callback goes on only with the flow that its state is of.
LEMMA ReturnFaithful ==
  ASSUME TypeOK, FlowsInv, NEW page \in pages, NEW i, Return(page, i)
  PROVE  FlowsInv'
<1>1. page.state # 0
  BY DEF TypeOK, States
<1>2. CookieInv(Received)
  BY EmptyFaithful DEF Received, FlowsInv
<1>3. Received.flow.state = page.state => Faithful(Received.flow)
  BY <1>1, <1>2 DEF CookieInv
<1>4. \A r \in requests' : r \in requests \/ RequestInv(r)
  BY <1>3 DEF Return, RequestInv, Matches
<1>. QED  BY <1>4, FlowsKept DEF Return, FlowsInv

LEMMA FetchFaithful ==
  ASSUME TypeOK, FlowsInv, NEW r \in requests, r.op \in {"begin", "callback"}, Fetch(r)
  PROVE  FlowsInv'
<1>. DEFINE s == [r EXCEPT !.asking.metadata = Discovered(r.asking.config.url)]
<1>1. RequestInv(r) /\ r \in Request
  BY DEF FlowsInv, TypeOK
<1>2. CASE r.op = "begin"
  <2>1. s.op = "begin" /\ s.mode = r.mode /\ s.user = r.user
    BY <1>1, <1>2 DEF Request
  <2>. QED  BY <1>1, <1>2, <2>1, FlowsKept DEF Fetch, FlowsInv, RequestInv
<1>3. CASE r.op = "callback"
  <2>1. s.op = "callback" /\ s.state = r.state /\ s.flow = r.flow
    BY <1>1, <1>3 DEF Request
  <2>. QED  BY <1>1, <1>3, <2>1, FlowsKept DEF Fetch, FlowsInv, RequestInv
<1>. QED  BY <1>2, <1>3

\* An answer takes the flow away, or sets a cookie again that was sent.
LEMMA AnswerFaithful ==
  ASSUME TypeOK, FlowsInv, NEW r \in requests,
         BeginFails(r) \/ Refuse(r) \/ CallbackFails(r) \/ CompleteLogin(r)
           \/ CompleteLink(r) \/ Visited(r)
  PROVE  FlowsInv'
<1>1. requests' = requests \ {r} /\ asked' = asked /\ pages' = pages
  BY DEF BeginFails, Refuse, CallbackFails, CompleteLogin, CompleteLink, Visited, Answered
<1>2. CookieInv(flowCookie')
  BY EmptyFaithful DEF BeginFails, Refuse, CallbackFails, CompleteLogin, CompleteLink, Visited,
     Answered, FlowsInv, RequestInv
<1>. QED  BY <1>1, <1>2, FlowsKept

LEMMA NextFaithful ==
  ASSUME TypeOK, FlowsInv, [Next]_OFvars
  PROVE  FlowsInv'
<1>1. ASSUME NEW mode \in Modes, Begin(mode)  PROVE FlowsInv'
  <2>1. \A r \in requests' : r \in requests \/ RequestInv(r)
    BY <1>1 DEF Begin, RequestInv
  <2>. QED  BY <1>1, <2>1, FlowsKept DEF Begin, FlowsInv
<1>2. CASE Visit
  <2>1. \A r \in requests' : r \in requests \/ RequestInv(r)
    BY <1>2 DEF Visit, FlowsInv, RequestInv
  <2>. QED  BY <1>2, <2>1, FlowsKept DEF Visit, FlowsInv
<1>3. CASE Logout \/ WebChanges \/ Enable \/ Disable \/ Restart \/ Expire
  <2>1. /\ asked' = asked /\ pages' = pages /\ requests' \subseteq requests
        /\ flowCookie' \in {flowCookie, EmptyCookie}
    BY <1>3 DEF Logout, WebChanges, Enable, Disable, Restart, Expire
  <2>. QED  BY <2>1, FlowsKept, EmptyFaithful DEF FlowsInv
<1>4. CASE (\E u \in User : PasswordLogin(u) \/ Unlink(u)) \/ (\E url \in Url : SaveProvider(url))
  <2>1. UNCHANGED <<asked, pages, requests, flowCookie>>
    BY <1>4 DEF PasswordLogin, Unlink, SaveProvider
  <2>. QED  BY <2>1, FlowsKept DEF FlowsInv
<1>5. CASE UNCHANGED OFvars
  BY <1>5, FlowsKept DEF OFvars, FlowsInv
<1>. QED
  BY <1>1, <1>2, <1>3, <1>4, <1>5, RedirectFaithful, ReturnFaithful, FetchFaithful,
     AnswerFaithful
     DEF Next

\* The tables of the provider's sign-in have their types, and whatever cookie, page
\* or request is around claims of a flow what it was started for.
THEOREM Invariance == Spec => []IInv
<1>1. Init => IInv
  BY InitTyped, InitFlows DEF IInv
<1>2. IInv /\ [Next]_OFvars => IInv'
  BY NextTyped, NextFaithful DEF IInv
<1>. QED  BY <1>1, <1>2, PTL DEF Spec

(***************************************************************************)
(* A flow ends as what it began as                                         *)
(***************************************************************************)
EndsFaithfully ==
    /\ \A u \in User : link'[u] \notin {link[u], None} => Ended("link", u)
    /\ live' \ live # {} =>
         (\E t \in live' \ live : t.method = "password") \/ Ended("login", None)

\* The sign-in by the provider is that of a flow that was started to sign in.
LEMMA LoginEnds ==
  ASSUME IInv, NEW r \in requests, CompleteLogin(r)
  PROVE  EndsFaithfully
<1>1. r \in requests \ requests' /\ r.op = "callback" /\ link' = link
  BY DEF CompleteLogin, Answered
<1>2. r.flow.state = r.state /\ Faithful(r.flow) /\ r.flow.mode = "login"
  BY <1>1 DEF CompleteLogin, IInv, FlowsInv, RequestInv
<1>3. r.flow.user = None
  BY <1>2 DEF IInv, FlowsInv, Faithful
<1>4. Ended("login", None)
  BY <1>1, <1>2, <1>3 DEF Ended, Faithful
<1>. QED  BY <1>1, <1>4 DEF EndsFaithfully

\* The link is made for the user who is in the flow, and who asked for it.
LEMMA LinkEnds ==
  ASSUME IInv, NEW r \in requests, CompleteLink(r)
  PROVE  EndsFaithfully
<1>1. r \in requests \ requests' /\ r.op = "callback" /\ live' = live
  BY DEF CompleteLink, Answered
<1>2. /\ r.flow.state = r.state /\ Faithful(r.flow) /\ r.flow.mode = "link"
      /\ r.session.user = r.flow.user
  BY <1>1 DEF CompleteLink, IInv, FlowsInv, RequestInv
<1>3. Ended("link", r.session.user)
  BY <1>1, <1>2 DEF Ended, Faithful
<1>4. \A u \in User : link'[u] # link[u] => u = r.session.user
  BY DEF CompleteLink, IInv, TypeOK
<1>. QED  BY <1>1, <1>3, <1>4 DEF EndsFaithfully

LEMMA StepEnds ==
  ASSUME IInv, [Next]_OFvars
  PROVE  EndsFaithfully
<1>1. ASSUME NEW u \in User, PasswordLogin(u)  PROVE EndsFaithfully
  BY <1>1 DEF PasswordLogin, SignIn, EndsFaithfully
<1>2. ASSUME NEW u \in User, Unlink(u)  PROVE EndsFaithfully
  BY <1>2 DEF Unlink, EndsFaithfully, IInv, TypeOK
<1>3. CASE link' = link /\ live' \subseteq live
  BY <1>3 DEF EndsFaithfully
<1>4. CASE UNCHANGED OFvars
  BY <1>3, <1>4 DEF OFvars
<1>5. ASSUME NEW r \in requests,
             \/ Fetch(r) \/ Redirect(r) \/ BeginFails(r) \/ Refuse(r) \/ CallbackFails(r) \/ Visited(r)
      PROVE  link' = link /\ live' = live
  BY <1>5 DEF Fetch, Redirect, BeginFails, Refuse, CallbackFails, Visited
<1>6. ASSUME \/ \E mode \in Modes : Begin(mode)
             \/ \E page \in pages, s \in Subject : Return(page, [issuer |-> page.issuer, subject |-> s])
             \/ Visit \/ Logout \/ Restart \/ Expire \/ WebChanges \/ Enable \/ Disable
             \/ \E url \in Url : SaveProvider(url)
      PROVE  link' = link /\ live' \subseteq live
  BY <1>6 DEF Begin, Return, Visit, Logout, Restart, Expire, WebChanges, Enable, Disable, SaveProvider,
     NotOidc
<1>. QED
  BY <1>1, <1>2, <1>3, <1>4, <1>5, <1>6, LoginEnds, LinkEnds DEF Next

\* FlowsEndAsTheyBegan: an account is linked only for the user who asked for it, by
\* the callback of that flow, and the provider signs someone in only where a sign-in
\* was asked for, with any number of tabs, late answers and restarts.
THEOREM FlowsHold == Spec => FlowsEndAsTheyBegan
<1>1. IInv /\ [Next]_OFvars => [EndsFaithfully]_OFvars
  BY StepEnds
<1>. QED  BY <1>1, Invariance, PTL DEF Spec, FlowsEndAsTheyBegan, EndsFaithfully
=============================================================================
