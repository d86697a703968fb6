----------------------- MODULE AdministrationProofs -------------------------
(***************************************************************************)
(* What the parts an administrator deals with keep, for every value of their*)
(* constants: the review of providers, the web boundary, the settings of   *)
(* plugins, the assets and the health of plugins.                          *)
(***************************************************************************)
EXTENDS ProviderReview, WebBoundary, PluginSettings, Assets, PluginHealth, FiniteSetTheorems, WellFoundedInduction, TLAPS

\* Every set of numbers has a smallest one.
LEMMA Smallest == ASSUME NEW S, S \subseteq Nat, S # {} PROVE \E x \in S : \A y \in S : x <= y
<1>1. PICK x \in S : \A y \in S : ~(<<y, x>> \in OpToRel(<, Nat))
  BY NatLessThanWellFounded, WFMin
<1>2. \A y \in S : x <= y
  <2> SUFFICES ASSUME NEW y \in S, ~(x <= y) PROVE FALSE
    OBVIOUS
  <2>1. x \in Nat /\ y \in Nat
    OBVIOUS
  <2>2. y < x
    BY <2>1
  <2>3. <<y, x>> \in OpToRel(<, Nat)
    BY <2>1, <2>2 DEF OpToRel
  <2> QED BY <1>1, <2>3
<1> QED BY <1>2

-----------------------------------------------------------------------------
(***************************************************************************)
(* The review of providers.  What is counted for a candidate is what the   *)
(* last events said, and so a confirmed change has its witnesses.          *)
(***************************************************************************)

ReviewInv == ReviewTypeOK /\ CandidateWitnessed

\* The streak after an event that names n for address i.
LEMMA Streaks ==
  ASSUME ReviewAssumption, ReviewInv, NEW n \in Name, NEW i \in IP, Observe(n, i)
  PROVE  /\ streak' \in [name : Name \cup {Nothing}, ips : SUBSET IP, count : 0..Needed]
         /\ streak'.name = n /\ i \in streak'.ips
         /\ streak.name = n => /\ streak.ips \subseteq streak'.ips
                               /\ streak'.count = IF streak.count < Needed THEN streak.count + 1
                                                  ELSE streak.count
         /\ streak.name # n => streak'.count = 1
<1>1. CASE streak.name = n
  <2> DEFINE count == IF streak.count < Needed THEN streak.count + 1 ELSE streak.count
  <2>1. streak \in [name : Name \cup {Nothing}, ips : SUBSET IP, count : 0..Needed]
    BY DEF ReviewInv, ReviewTypeOK
  <2>2. count \in 0..Needed
    BY <2>1 DEF ReviewAssumption
  <2>3. streak' = [streak EXCEPT !.ips = streak.ips \cup {i}, !.count = count]
    BY <1>1 DEF Observe
  <2> HIDE DEF count
  <2>4. streak' = [name |-> streak.name, ips |-> streak.ips \cup {i}, count |-> count]
    BY <2>1, <2>3
  <2> QED BY <1>1, <2>1, <2>2, <2>4 DEF count
<1>2. CASE streak.name # n
  BY <1>2 DEF ReviewAssumption, ReviewInv, ReviewTypeOK, Observe
<1> QED BY <1>1, <1>2

\* The candidate an event leaves is witnessed by the streak it leaves.
LEMMA CountedWitnessed ==
  ASSUME ReviewAssumption, ReviewInv, NEW n \in Name, NEW i \in IP, Observe(n, i)
  PROVE  /\ Counted(n, i) \in Candidate
         /\ Counted(n, i).name = streak'.name
         /\ Counted(n, i).count <= streak'.count
         /\ Counted(n, i).first \in streak'.ips
         /\ Counted(n, i).apart => \E j, k \in streak'.ips : j # k
<1> DEFINE c == Counted(n, i)
<1>1. CASE policy.candidate # Nothing /\ policy.candidate.name = n
  <2> DEFINE d == policy.candidate
  <2>1. d \in Candidate
    BY <1>1 DEF ReviewInv, ReviewTypeOK, Policy
  <2>2. /\ d.name = streak.name /\ d.count <= streak.count /\ d.first \in streak.ips
        /\ d.apart => \E j, k \in streak.ips : j # k
    BY <1>1 DEF ReviewInv, CandidateWitnessed, Seen
  <2>3. c = Again(d, i)
    BY <1>1 DEF Counted
  <2>4. /\ c \in Candidate /\ c.name = n /\ c.first = d.first
        /\ c.count = IF d.count < Needed THEN d.count + 1 ELSE d.count
        /\ c.apart = (d.apart \/ d.first # i)
    <3> DEFINE count == IF d.count < Needed THEN d.count + 1 ELSE d.count
               apart == d.apart \/ d.first # i
    <3>1. count \in 1..Needed /\ apart \in BOOLEAN
      BY <2>1 DEF Candidate, ReviewAssumption
    <3>2. c = [d EXCEPT !.count = count, !.apart = apart]
      BY <2>3 DEF Again
    <3> HIDE DEF count, apart
    <3>3. c = [name |-> d.name, first |-> d.first, count |-> count, apart |-> apart]
      BY <2>1, <3>2 DEF Candidate
    <3> QED BY <1>1, <2>1, <3>1, <3>3 DEF Candidate, count, apart
  <2>5. streak.count \in 0..Needed /\ d.count \in 1..Needed
    BY <2>1 DEF ReviewInv, ReviewTypeOK, Candidate
  <2>6. streak.ips \subseteq streak'.ips /\ i \in streak'.ips /\ streak'.name = n
    BY <1>1, <2>2, Streaks
  <2>7. c.count <= streak'.count
    BY <1>1, <2>2, <2>4, <2>5, Streaks DEF ReviewAssumption
  <2>8. ASSUME c.apart PROVE \E j, k \in streak'.ips : j # k
    BY <2>2, <2>4, <2>6, <2>8
  <2> QED BY <2>2, <2>4, <2>6, <2>7, <2>8
<1>2. CASE ~(policy.candidate # Nothing /\ policy.candidate.name = n)
  <2>1. c = Another(n, i)
    BY <1>2 DEF Counted
  <2>2. c \in Candidate /\ c.name = n /\ c.count = 1 /\ c.first = i /\ ~c.apart
    BY <2>1 DEF Another, Candidate, ReviewAssumption
  <2>3. 1 <= streak'.count
    BY Streaks DEF ReviewInv, ReviewTypeOK, ReviewAssumption
  <2> QED BY <2>2, <2>3, Streaks
<1> QED BY <1>1, <1>2

LEMMA ReviewInitInv == ASSUME ReviewAssumption, ReviewInit PROVE ReviewInv
<1>1. PICK n \in Name \cup {Nothing} : policy = Enabled(1, n)
  BY DEF ReviewInit
<1>2. policy \in Policy /\ policy.candidate = Nothing /\ ~policy.review
  BY <1>1 DEF Enabled, Policy, ReviewAssumption
<1> QED BY <1>2 DEF ReviewAssumption, ReviewInit, ReviewInv, ReviewTypeOK, CandidateWitnessed

\* An event keeps the invariant, and a change it confirms is witnessed.
LEMMA ReviewObserveInv ==
  ASSUME ReviewAssumption, ReviewInv, NEW n \in Name, NEW i \in IP, Observe(n, i)
  PROVE  ReviewInv' /\ (clock' # clock => Witnessed')
<1> DEFINE c == Counted(n, i)
<1>1. policy \in Policy /\ clock \in 0..MaxChange /\ clock < MaxChange /\ UNCHANGED <<page, ack>>
  BY DEF ReviewInv, ReviewTypeOK, Observe
<1>2. streak' \in [name : Name \cup {Nothing}, ips : SUBSET IP, count : 0..Needed]
  BY Streaks
<1>3. PICK d : d = c
  OBVIOUS
<1>9. /\ d \in Candidate
      /\ d.name = streak'.name /\ d.count <= streak'.count /\ d.first \in streak'.ips
      /\ d.apart => \E j, k \in streak'.ips : j # k
  BY <1>3, CountedWitnessed
<1> HIDE DEF c
<1>4. CASE policy.name = Nothing /\ policy' = [policy EXCEPT !.name = n] /\ UNCHANGED clock
  <2>1. policy.candidate = Nothing
    BY <1>4 DEF ReviewInv, CandidateWitnessed
  <2>2. policy' \in Policy /\ policy'.candidate = Nothing
    BY <1>1, <1>4, <2>1 DEF Policy
  <2> QED BY <1>1, <1>2, <1>4, <2>2 DEF ReviewInv, ReviewTypeOK, CandidateWitnessed
<1>5. CASE policy' = [policy EXCEPT !.candidate = Nothing] /\ UNCHANGED clock
  <2>1. policy' \in Policy /\ policy'.candidate = Nothing
    BY <1>1, <1>5 DEF Policy
  <2> QED BY <1>1, <1>2, <1>5, <2>1 DEF ReviewInv, ReviewTypeOK, CandidateWitnessed
<1>6. CASE policy.review /\ UNCHANGED <<policy, clock>>
  <2>1. policy'.candidate = Nothing
    BY <1>6 DEF ReviewInv, CandidateWitnessed
  <2> QED BY <1>1, <1>2, <1>6, <2>1 DEF ReviewInv, ReviewTypeOK, CandidateWitnessed
<1>7. CASE /\ policy.name # Nothing /\ ~policy.review
           /\ policy' = [policy EXCEPT !.candidate = c] /\ UNCHANGED clock
  <2>1. /\ policy' \in Policy /\ policy'.candidate = d
        /\ policy'.name # Nothing /\ ~policy'.review
    BY <1>1, <1>9, <1>3, <1>7 DEF Policy
  <2>2. Seen(policy.candidate)'
    BY <1>9, <2>1 DEF Seen
  <2>3. CandidateWitnessed'
    BY <2>1, <2>2 DEF CandidateWitnessed
  <2> QED BY <1>1, <1>2, <1>7, <2>1, <2>3 DEF ReviewInv, ReviewTypeOK
<1>8. CASE /\ Confirmed(c)
           /\ clock' = clock + 1
           /\ policy' = [policy EXCEPT !.name = n, !.stamp = clock + 1, !.review = TRUE,
                                       !.candidate = Nothing]
  <2>1. clock' \in 0..MaxChange
    BY <1>1, <1>8 DEF ReviewAssumption
  <2>2. /\ policy' \in Policy /\ policy'.candidate = Nothing /\ policy'.name = n
        /\ policy'.name # Nothing
    BY <1>1, <1>8, <2>1 DEF Policy, ReviewAssumption
  <2>3. streak'.name = n /\ streak'.count \in 0..Needed
    BY <1>2, Streaks
  <2>4. d.count = Needed /\ d.apart /\ Needed \in Nat
    BY <1>3, <1>8 DEF Confirmed, ReviewAssumption
  <2>5. streak'.count = Needed
    BY <1>9, <2>3, <2>4
  <2>6. \E j, k \in streak'.ips : j # k
    BY <1>9, <2>4
  <2>7. Witnessed'
    BY <2>2, <2>3, <2>5, <2>6 DEF Witnessed
  <2> QED BY <1>1, <1>2, <1>8, <2>1, <2>2, <2>7 DEF ReviewInv, ReviewTypeOK, CandidateWitnessed
<1> QED BY <1>4, <1>5, <1>6, <1>7, <1>8 DEF Observe, Matched, c

\* The requests of administrators and a policy enabled anew keep it, too.
LEMMA ReviewRequestInv ==
  ASSUME ReviewAssumption, ReviewInv, ReviewNext, ~(\E n \in Name, i \in IP : Observe(n, i))
  PROVE  ReviewInv' /\ clock' = clock
<1> USE DEF ReviewAssumption
<1>1. ASSUME NEW a \in Admin, Show(a) PROVE ReviewInv' /\ clock' = clock
  BY <1>1 DEF Show, ReviewInv, ReviewTypeOK, CandidateWitnessed, Seen, Policy
<1>2. ASSUME NEW a \in Admin, NEW route \in Route, Validate(a, route) PROVE ReviewInv' /\ clock' = clock
  <2>1. [row |-> policy, route |-> route, expected |-> policy.stamp, running |-> FALSE] \in Ack
    BY DEF ReviewInv, ReviewTypeOK, Policy, Ack
  <2> QED BY <1>2, <2>1 DEF Validate, ReviewInv, ReviewTypeOK, CandidateWitnessed, Seen
<1>3. ASSUME NEW a \in Admin, Acquire(a) PROVE ReviewInv' /\ clock' = clock
  <2>1. ack[a] \in Ack /\ [ack[a] EXCEPT !.running = TRUE] \in Ack
    BY <1>3 DEF Acquire, ReviewInv, ReviewTypeOK, Ack
  <2> QED BY <1>3, <2>1 DEF Acquire, ReviewInv, ReviewTypeOK, CandidateWitnessed, Seen
<1>4. ASSUME NEW a \in Admin, Acknowledge(a) PROVE ReviewInv' /\ clock' = clock
  <2>1. /\ policy' \in Policy /\ policy'.candidate = policy.candidate
        /\ policy'.name = policy.name /\ policy'.review => policy.review
    BY <1>4 DEF Acknowledge, ReviewInv, ReviewTypeOK, Policy
  <2> QED BY <1>4, <2>1 DEF Acknowledge, ReviewInv, ReviewTypeOK, CandidateWitnessed, Seen
<1>5. ASSUME NEW id \in {1, 2}, NEW n \in Name \cup {Nothing}, Reenable(id, n)
      PROVE  ReviewInv' /\ clock' = clock
  <2>1. policy' \in Policy /\ policy'.candidate = Nothing /\ ~policy'.review
    BY <1>5 DEF Reenable, Enabled, Policy
  <2> QED BY <1>5, <2>1 DEF Reenable, ReviewInv, ReviewTypeOK, CandidateWitnessed, Seen
<1> QED BY <1>1, <1>2, <1>3, <1>4, <1>5 DEF ReviewNext

LEMMA ReviewStepInv ==
  ASSUME ReviewAssumption, ReviewInv, [ReviewNext]_PRvars
  PROVE  ReviewInv' /\ (clock' # clock => Witnessed')
<1>1. CASE ReviewNext
  BY <1>1, ReviewObserveInv, ReviewRequestInv
<1>2. CASE UNCHANGED PRvars
  BY <1>2 DEF PRvars, ReviewInv, ReviewTypeOK, CandidateWitnessed, Seen
<1> QED BY <1>1, <1>2

\* What is counted for a candidate is what the last events said.
THEOREM CandidatesWitnessed == ASSUME ReviewAssumption PROVE ReviewSpec => []ReviewInv
<1>1. ReviewInit => ReviewInv
  BY ReviewInitInv
<1>2. ReviewInv /\ [ReviewNext]_PRvars => ReviewInv'
  BY ReviewStepInv
<1> QED BY <1>1, <1>2, PTL DEF ReviewSpec

\* A confirmed change has witnesses of two addresses (_record_policy_match).
THEOREM ChangesWitnessed == ASSUME ReviewAssumption PROVE ReviewSpec => ChangeWitnessed
<1>1. ReviewInv /\ [ReviewNext]_PRvars => [clock' # clock => Witnessed']_PRvars
  BY ReviewStepInv
<1>2. ReviewSpec => []ReviewInv
  BY CandidatesWitnessed
<1> QED BY <1>1, <1>2, PTL DEF ReviewSpec, ChangeWitnessed

-----------------------------------------------------------------------------
(***************************************************************************)
(* The web boundary.  Four places compute it from the settings and from a  *)
(* request; each is traced back to what the gate lets through.             *)
(***************************************************************************)

\* The parts of a request's way.
LEMMA UrlFields ==
  ASSUME NEW way \in Ways
  PROVE  way.url.name \in Hostname
<1>1. way.url \in Urls
  BY DEF Ways
<1> QED BY <1>1 DEF Urls

\* What the forwarded headers of a trusted peer come to.
LEMMA ForwardedFields ==
  ASSUME BoundaryAssumption, NEW way \in Ways
  PROVE  /\ ForwardedProto(way) = "https" <=> Trusted(way) /\ way.proto /\ way.url.scheme = "https"
         /\ ForwardedPort(way) = 443 <=> Trusted(way) /\ way.port /\ way.url.port = 443
         /\ ForwardedHost(way) # NoForwardedHost <=> Trusted(way) /\ way.host # "none"
         /\ Trusted(way) /\ way.host # "none" =>
               /\ ForwardedHost(way).name = way.url.name
               /\ ForwardedHost(way).port = IF way.host = "name" THEN 0 ELSE way.url.port
<1>1. "https" # NoName
  BY DEF BoundaryAssumption
<1>2. ForwardedProto(way) = "https" <=> Trusted(way) /\ way.proto /\ way.url.scheme = "https"
  BY <1>1 DEF ForwardedProto
<1>3. ForwardedPort(way) = 443 <=> Trusted(way) /\ way.port /\ way.url.port = 443
  BY DEF ForwardedPort
<1>4. Trusted(way) /\ way.host # "none" =>
        /\ ForwardedHost(way).name = way.url.name
        /\ ForwardedHost(way).port = IF way.host = "name" THEN 0 ELSE way.url.port
  BY DEF ForwardedHost
<1>5. way.url.name # NoName
  BY UrlFields DEF BoundaryAssumption
<1>6. ForwardedHost(way) # NoForwardedHost <=> Trusted(way) /\ way.host # "none"
  <2>1. CASE Trusted(way) /\ way.host # "none"
    <3>1. ForwardedHost(way).name # NoForwardedHost.name
      BY <1>4, <1>5, <2>1 DEF NoForwardedHost
    <3> QED BY <2>1, <3>1
  <2>2. CASE ~(Trusted(way) /\ way.host # "none")
    BY <2>2 DEF ForwardedHost
  <2> QED BY <2>1, <2>2
<1> QED BY <1>2, <1>3, <1>4, <1>6

\* What the gate lets through came over https at port 443, by the name that is set.
LEMMA LetThrough ==
  ASSUME BoundaryAssumption, NEW way \in Ways, NEW name \in Hostname
  PROVE  ProxyError(way, name) = "none" <=>
            /\ Trusted(way) /\ trust = "listed"
            /\ way.proto /\ way.url.scheme = "https"
            /\ way.port /\ way.url.port = 443
            /\ way.host # "none" /\ way.url.name = name
<1> DEFINE Through == /\ Explicit(way)
                      /\ ForwardedProto(way) = "https" /\ ForwardedPort(way) = 443
                      /\ ForwardedHost(way) # NoForwardedHost
                      /\ HttpsPort(ForwardedHost(way)) = 443 /\ ForwardedHost(way).name = name
<1>1. name # NoName /\ "https" # NoName
  BY DEF BoundaryAssumption
<1>2. Through => /\ RequestScheme(way) = "https" /\ RequestHost(way).name = name
                 /\ RequestHost(way).port \in {0, 443}
  BY <1>1 DEF RequestScheme, RequestHost, HttpsPort
<1>3. ProxyError(way, name) = "none" <=> Through
  BY <1>1, <1>2 DEF ProxyError
<1>4. Through <=> /\ Trusted(way) /\ trust = "listed"
                  /\ way.proto /\ way.url.scheme = "https"
                  /\ way.port /\ way.url.port = 443
                  /\ way.host # "none" /\ way.url.name = name
  BY ForwardedFields DEF Explicit, HttpsPort
<1> QED BY <1>3, <1>4

\* The diagnostics agree with the gate, for a request from anywhere.
LEMMA DiagnosticsRight ==
  ASSUME BoundaryAssumption, hostname \in Hostname, NEW way \in Ways
  PROVE  DiagnosticsAgree(way)
<1>1. hostname # NoName
  BY DEF BoundaryAssumption
<1>2. TransportReady(way, hostname) <=>
        /\ Trusted(way) /\ trust = "listed"
        /\ way.proto /\ way.url.scheme = "https"
        /\ way.port /\ way.url.port = 443
        /\ way.host # "none" /\ way.url.name = hostname
  BY <1>1, ForwardedFields DEF TransportReady, ProxyConfigured, HostReceived, Explicit, HttpsPort
<1> QED BY <1>2, LetThrough DEF DiagnosticsAgree

\* A page that was let through has the origin the checks compare with.
LEMMA PageRight ==
  ASSUME BoundaryAssumption, hostname \in Hostname, NEW way \in Ways
  PROVE  PageWorks(way)
<1> SUFFICES ASSUME ProxyError(way, hostname) = "none"
             PROVE  ~InvalidOrigin(way) /\ (onboarding = "complete" => WebsocketAccepted(way, TRUE))
  BY DEF PageWorks
<1>1. /\ Trusted(way) /\ way.proto /\ way.url.scheme = "https" /\ way.url.port = 443
      /\ way.host # "none" /\ way.url.name = hostname
  BY LetThrough
<1>2. hostname # NoName /\ "https" # NoName
  BY DEF BoundaryAssumption
<1>3. RequestScheme(way) = "https"
  BY <1>1, <1>2 DEF RequestScheme, ForwardedProto
<1>4. /\ RequestHost(way).name = hostname
      /\ RequestHost(way).port \in {0, 443}
  BY <1>1, ForwardedFields DEF RequestHost
<1>5. RequestOrigin(way) = <<"https", hostname, 443>>
  BY <1>3, <1>4 DEF RequestOrigin, Standard
<1>6. Origin(way.url) = <<"https", hostname, 443>>
  BY <1>1 DEF Origin
<1> QED BY <1>2, <1>5, <1>6 DEF InvalidOrigin, WebsocketAccepted, WebsocketOrigin

LEMMA BoundaryInitTyped == ASSUME BoundaryAssumption, BoundaryInit PROVE BoundaryTypeOK
<1>1. 0 \in 0..MaxReconfigured
  BY DEF BoundaryAssumption
<1> QED BY <1>1 DEF BoundaryInit, BoundaryTypeOK

LEMMA BoundaryStepTyped == ASSUME BoundaryAssumption, BoundaryTypeOK, [BoundaryNext]_WBvars PROVE BoundaryTypeOK'
<1> USE DEF BoundaryAssumption, BoundaryTypeOK
<1>1. ASSUME NEW way \in Ways, NEW name \in Hostname, Onboard(way, name) PROVE BoundaryTypeOK'
  BY <1>1 DEF Onboard, Reconfigure
<1>2. ASSUME NEW way \in Ways, NEW name \in Hostname, Repair(way, name) PROVE BoundaryTypeOK'
  BY <1>2 DEF Repair, Reconfigure
<1>3. ASSUME NEW setting \in Trust, NEW emergency \in BOOLEAN, RestartWith(setting, emergency) PROVE BoundaryTypeOK'
  BY <1>3 DEF RestartWith, Reconfigure
<1>4. CASE UNCHANGED WBvars
  BY <1>4 DEF WBvars
<1> QED BY <1>1, <1>2, <1>3, <1>4 DEF BoundaryNext

\* The stored boundary is one the settings page accepts.
THEOREM BoundaryTyped == ASSUME BoundaryAssumption PROVE BoundarySpec => []BoundaryTypeOK
BY BoundaryInitTyped, BoundaryStepTyped, PTL DEF BoundarySpec

\* For every request and every stored boundary the diagnostics say what the gate does,
\* and a page that the gate lets through can send its forms and open its websocket.
THEOREM BoundariesNeverDisagree == ASSUME BoundaryAssumption PROVE BoundarySpec => []BoundariesAgree
<1>1. BoundaryTypeOK => BoundariesAgree
  BY DiagnosticsRight, PageRight DEF BoundaryTypeOK, BoundariesAgree
<1> QED BY <1>1, BoundaryTyped, PTL

-----------------------------------------------------------------------------
(***************************************************************************)
(* The settings of plugins.  The passes over a form come to rest because a *)
(* setting depends only on settings of lower rank.                         *)
(***************************************************************************)

\* The states a form goes through, up to a number of passes.
IsPassing(f, post, last) ==
  f = [n \in 0..last |-> IF n = 0 THEN stored ELSE Overlay(post, f[n - 1])]

LEMMA PassesExist ==
  ASSUME NEW post, NEW last \in Nat
  PROVE  \E f : IsPassing(f, post, last)
<1> DEFINE Bad == {m \in Nat : ~(\E f : IsPassing(f, post, m))}
<1> SUFFICES ASSUME Bad # {} PROVE FALSE
  OBVIOUS
<1>1. PICK m \in Bad : \A k \in Bad : m <= k
  <2>1. Bad \subseteq Nat
    OBVIOUS
  <2> HIDE DEF Bad
  <2> QED BY <2>1, Smallest
<1>2. m # 0
  <2>1. IsPassing([n \in 0..0 |-> stored], post, 0)
    BY DEF IsPassing
  <2> QED BY <2>1
<1>3. m \in Nat /\ m - 1 \in Nat /\ ~(m <= m - 1)
  BY <1>2
<1>4. m - 1 \notin Bad
  <2> HIDE DEF Bad
  <2> QED BY <1>1, <1>3
<1>5. PICK f : IsPassing(f, post, m - 1)
  BY <1>3, <1>4
<1> DEFINE g == [n \in 0..m |-> IF n < m THEN f[n] ELSE Overlay(post, f[m - 1])]
<1>6. DOMAIN g = 0..m /\ \A n \in 0..(m - 1) : g[n] = f[n] /\ f[n] = IF n = 0 THEN stored ELSE Overlay(post, f[n - 1])
  BY <1>3, <1>5 DEF IsPassing
<1>7. \A n \in 0..m : g[n] = IF n = 0 THEN stored ELSE Overlay(post, g[n - 1])
  <2> SUFFICES ASSUME NEW n \in 0..m PROVE g[n] = IF n = 0 THEN stored ELSE Overlay(post, g[n - 1])
    OBVIOUS
  <2>1. CASE n = m
    <3>1. g[m] = Overlay(post, f[m - 1]) /\ m - 1 \in 0..(m - 1)
      BY <1>3
    <3> HIDE DEF g
    <3> QED BY <1>2, <1>6, <2>1, <3>1
  <2>2. CASE n # m
    <3>1. n \in 0..(m - 1) /\ (n # 0 => n - 1 \in 0..(m - 1))
      BY <1>3, <2>2
    <3> HIDE DEF g
    <3> QED BY <1>6, <3>1
  <2> QED BY <2>1, <2>2
<1>8. g = [n \in 0..m |-> IF n = 0 THEN stored ELSE Overlay(post, g[n - 1])]
  <2> HIDE DEF g
  <2>1. g = [n \in 0..m |-> g[n]]
    BY DEF g
  <2> QED BY <1>7, <2>1
<1>9. IsPassing(g, post, m)
  <2> HIDE DEF g
  <2> QED BY <1>8 DEF IsPassing
<1> QED BY <1>1, <1>9

LEMMA SettledIs ==
  ASSUME SettingsAssumption, NEW post
  PROVE  \E f : IsPassing(f, post, Passes) /\ Settled(post) = f[Passes]
<1>1. Passes \in Nat
  BY DEF Passes, SettingsAssumption
<1>2. \E f : f = [n \in 0..Passes |-> IF n = 0 THEN stored ELSE Overlay(post, f[n - 1])]
  BY <1>1, PassesExist DEF IsPassing
<1> QED BY <1>2 DEF Settled, IsPassing

-----------------------------------------------------------------------------
\* Every setting depends on those of lower rank, none of them a secret.
Ranked(rank) ==
  /\ rank \in [Keys -> 0..(Count - 1)]
  /\ \A k \in Keys : \A c \in Effective(k) : /\ c[1] \in Keys /\ c[1] \notin Secrets
                                             /\ rank[c[1]] < rank[k]

LEMMA EffectiveKeys ==
  ASSUME SettingsAssumption, SettingsTypeOK, NEW k \in Keys, NEW c \in Effective(k)
  PROVE  c[1] \in Keys
<1>1. CASE shown[k] = {} /\ k # 1
  BY <1>1 DEF Effective, Keys, SettingsAssumption
<1>2. CASE ~(shown[k] = {} /\ k # 1)
  <2>1. c \in {<<d, v>> : d \in Keys \ {k}, v \in {"true", "false"}}
    BY <1>2 DEF Effective, SettingsTypeOK, Conditions
  <2> QED BY <2>1
<1> QED BY <1>1, <1>2

LEMMA SensibleRanked ==
  ASSUME SettingsAssumption, SettingsTypeOK, Sensible
  PROVE  \E rank : Ranked(rank)
BY EffectiveKeys DEF Sensible, Ranked

LEMMA SameMet ==
  ASSUME NEW k, NEW s, NEW t, \A c \in Effective(k) : s[c[1]] = t[c[1]]
  PROVE  Met(k, s) <=> Met(k, t)
BY DEF Met

\* A setting keeps its value from the pass on whose number exceeds its rank.
LEMMA PassStable ==
  ASSUME SettingsAssumption, NEW rank, Ranked(rank), NEW post, NEW f, IsPassing(f, post, Passes),
         NEW k \in Keys, NEW n \in 0..Passes, NEW m \in 0..Passes, n > rank[k], m > rank[k]
  PROVE  f[n][k] = f[m][k]
<1> DEFINE Unstable(d) == \E i, j \in 0..Passes : i > rank[d] /\ j > rank[d] /\ f[i][d] # f[j][d]
           Bad == {rank[d] : d \in {e \in Keys : Unstable(e)}}
<1>1. rank \in [Keys -> 0..(Count - 1)] /\ Count \in Nat /\ Passes \in Nat
  BY DEF Ranked, SettingsAssumption, Passes
<1> SUFFICES ASSUME Unstable(k) PROVE FALSE
  OBVIOUS
<1>2. rank[k] \in Bad /\ Bad \subseteq Nat
  BY <1>1
<1>3. PICK r \in Bad : \A q \in Bad : r <= q
  <2> HIDE DEF Bad
  <2> QED BY <1>2, Smallest
<1>4. PICK d \in Keys : Unstable(d) /\ rank[d] = r
  OBVIOUS
<1>5. PICK i \in 0..Passes, j \in 0..Passes : i > r /\ j > r /\ f[i][d] # f[j][d]
  BY <1>4
<1>6. r \in Nat /\ i # 0 /\ j # 0 /\ i - 1 \in 0..Passes /\ j - 1 \in 0..Passes
  BY <1>1, <1>4, <1>5
<1>7. \A c \in Effective(d) : f[i - 1][c[1]] = f[j - 1][c[1]]
  <2> SUFFICES ASSUME NEW c \in Effective(d), f[i - 1][c[1]] # f[j - 1][c[1]] PROVE FALSE
    OBVIOUS
  <2>1. c[1] \in Keys /\ rank[c[1]] < r
    BY <1>4 DEF Ranked
  <2>2. rank[c[1]] \in Nat /\ i - 1 > rank[c[1]] /\ j - 1 > rank[c[1]]
    BY <1>1, <1>5, <1>6, <2>1
  <2>3. Unstable(c[1])
    BY <1>6, <2>2
  <2>4. rank[c[1]] \in Bad
    BY <2>1, <2>3
  <2> HIDE DEF Bad
  <2> QED BY <1>3, <1>6, <2>1, <2>2, <2>4
<1>8. Met(d, f[i - 1]) <=> Met(d, f[j - 1])
  BY <1>7, SameMet
<1>9. f[i] = Overlay(post, f[i - 1]) /\ f[j] = Overlay(post, f[j - 1])
  BY <1>6 DEF IsPassing
<1>10. f[i][d] = f[j][d]
  BY <1>8, <1>9 DEF Overlay
<1> QED BY <1>5, <1>10

\* What the passes settle in does not change in one more.
LEMMA SettledFixed ==
  ASSUME SettingsAssumption, SettingsTypeOK, Sensible, NEW post
  PROVE  Settled(post) = Overlay(post, Settled(post))
<1> DEFINE s == Settled(post)
<1>1. PICK f : IsPassing(f, post, Passes) /\ s = f[Passes]
  BY SettledIs
<1>2. PICK rank : Ranked(rank)
  BY SensibleRanked
<1>3. /\ Passes \in Nat /\ Passes - 1 \in 0..Passes /\ Passes \in 0..Passes /\ Passes # 0
      /\ Count \in Nat /\ Passes = Count + 1
  BY DEF Passes, SettingsAssumption
<1>4. s = Overlay(post, f[Passes - 1])
  BY <1>1, <1>3 DEF IsPassing
<1>5. \A k \in Keys : Met(k, f[Passes - 1]) <=> Met(k, s)
  <2> SUFFICES ASSUME NEW k \in Keys PROVE Met(k, f[Passes - 1]) <=> Met(k, s)
    OBVIOUS
  <2>1. \A c \in Effective(k) : f[Passes - 1][c[1]] = f[Passes][c[1]]
    <3> SUFFICES ASSUME NEW c \in Effective(k) PROVE f[Passes - 1][c[1]] = f[Passes][c[1]]
      OBVIOUS
    <3>1. c[1] \in Keys /\ rank[c[1]] < rank[k] /\ rank[k] \in 0..(Count - 1) /\ rank[c[1]] \in Nat
      BY <1>2 DEF Ranked
    <3>2. Passes - 1 > rank[c[1]] /\ Passes > rank[c[1]]
      BY <1>3, <3>1
    <3> QED BY <1>1, <1>2, <1>3, <3>1, <3>2, PassStable
  <2> QED BY <1>1, <2>1, SameMet
<1>6. Overlay(post, f[Passes - 1]) = [k \in Keys |-> IF k \in DOMAIN post /\ Met(k, f[Passes - 1]) THEN post[k] ELSE stored[k]]
  BY DEF Overlay
<1>7. Overlay(post, s) = [k \in Keys |-> IF k \in DOMAIN post /\ Met(k, s) THEN post[k] ELSE stored[k]]
  BY DEF Overlay
<1> HIDE DEF s
<1>8. Overlay(post, f[Passes - 1]) = Overlay(post, s)
  BY <1>5, <1>6, <1>7
<1> QED BY <1>4, <1>8 DEF s

\* What is written makes the state the passes have settled in, but for secrets.
LEMMA ResultSettled ==
  ASSUME SettingsAssumption, SettingsTypeOK, Sensible, NEW post,
         NEW r, r.write = Written(post), r.seen = stored, NEW k \in Keys \ Secrets
  PROVE  Result(r)[k] = Settled(post)[k]
<1>1. Settled(post)[k] = IF k \in DOMAIN post /\ Met(k, Settled(post)) THEN post[k] ELSE stored[k]
  BY SettledFixed DEF Overlay
<1>2. /\ k \in DOMAIN Written(post) <=> k \in DOMAIN post /\ Met(k, Settled(post))
      /\ k \in DOMAIN Written(post) => Written(post)[k] = post[k]
  BY DEF Written, Writable, Restrict
<1> QED BY <1>1, <1>2 DEF Result

LEMMA WrittenShown ==
  ASSUME SettingsAssumption, SettingsTypeOK, Sensible, NEW post \in Posts,
         NEW r, r.write = Written(post), r.seen = stored, NEW k \in DOMAIN r.write
  PROVE  Met(k, Result(r))
<1>1. k \in DOMAIN post /\ Met(k, Settled(post)) /\ k \in Keys
  BY DEF Written, Writable, Restrict, Posts, Partial
<1>2. PICK rank : Ranked(rank)
  BY SensibleRanked
<1>3. \A c \in Effective(k) : Result(r)[c[1]] = Settled(post)[c[1]]
  BY <1>1, <1>2, ResultSettled DEF Ranked
<1> QED BY <1>1, <1>3, SameMet

-----------------------------------------------------------------------------
SettingsInv == SettingsTypeOK /\ HiddenNeverWritten

LEMMA SettingsInitInv == ASSUME SettingsAssumption, SettingsInit PROVE SettingsInv
BY DEF SettingsInit, SettingsInv, SettingsTypeOK, HiddenNeverWritten

LEMMA WrittenPost == ASSUME NEW post \in Posts PROVE Written(post) \in Posts
<1> DEFINE D == DOMAIN Written(post)
<1>1. D \subseteq DOMAIN post /\ D \subseteq Keys /\ \A k \in D : Written(post)[k] = post[k]
  BY DEF Written, Writable, Restrict, Posts, Partial
<1>2. \A k \in DOMAIN post : post[k] \in {Empty, "true", "false"} /\ post[k] \in ValuesOf(k)
  BY DEF Posts, Partial
<1>3. Written(post) = [k \in D |-> Written(post)[k]]
  BY DEF Written, Restrict
<1> HIDE DEF D
<1>4. Written(post) \in [D -> {Empty, "true", "false"}]
  BY <1>1, <1>2, <1>3
<1>5. Written(post) \in Partial
  BY <1>1, <1>4 DEF Partial
<1> QED BY <1>1, <1>2, <1>5 DEF Posts, D

\* A request that changes no definition keeps what is said of the one that has read.
LEMMA HiddenKept ==
  ASSUME HiddenNeverWritten, UNCHANGED shown, request' = request \/ request' = NoPost
  PROVE  HiddenNeverWritten'
BY DEF HiddenNeverWritten, Sensible, Met, Effective, Result

LEMMA ReadInv == ASSUME SettingsAssumption, SettingsInv, NEW post \in Posts, Read(post) PROVE SettingsInv'
<1>1. /\ UNCHANGED <<shown, stored>>
      /\ request'.write = Written(post) /\ request'.seen = stored
  BY DEF Read
<1>2. SettingsTypeOK'
  BY <1>1, WrittenPost DEF SettingsInv, SettingsTypeOK
<1>3. Sensible => \A k \in DOMAIN request'.write : Met(k, Result(request'))
  BY <1>1, WrittenShown DEF SettingsInv
<1>4. HiddenNeverWritten'
  BY <1>1, <1>3 DEF HiddenNeverWritten, Sensible, Met, Effective, Result
<1> QED BY <1>2, <1>4 DEF SettingsInv

LEMMA SettingsStepInv == ASSUME SettingsAssumption, SettingsInv, [SettingsNext]_PSvars PROVE SettingsInv'
<1>1. ASSUME NEW post \in Posts, Read(post) PROVE SettingsInv'
  BY <1>1, ReadInv
<1>2. CASE Commit
  <2>1. /\ DOMAIN stored' = Keys
        /\ \A k \in Keys : stored'[k] = stored[k] \/ (k \in DOMAIN request.write /\ stored'[k] = request.write[k])
    BY <1>2 DEF Commit, Saved
  <2>2. request.write \in Posts
    BY <1>2 DEF Commit, SettingsInv, SettingsTypeOK
  <2>3. \A k \in Keys : stored'[k] \in ValuesOf(k)
    BY <2>1, <2>2 DEF SettingsInv, SettingsTypeOK, Posts
  <2>4. SettingsTypeOK'
    BY <1>2, <2>1, <2>3 DEF Commit, SettingsInv, SettingsTypeOK
  <2> QED BY <1>2, <2>4, HiddenKept DEF Commit, SettingsInv
<1>3. ASSUME NEW k \in Keys, NEW v \in {"true", "false"}, OtherSave(k, v) PROVE SettingsInv'
  <2>1. SettingsTypeOK'
    BY <1>3 DEF OtherSave, SettingsInv, SettingsTypeOK, ValuesOf
  <2> QED BY <1>3, <2>1, HiddenKept DEF OtherSave, SettingsInv
<1>4. ASSUME NEW k \in Keys, DeleteSecret(k) PROVE SettingsInv'
  <2>1. SettingsTypeOK'
    BY <1>4 DEF DeleteSecret, SettingsInv, SettingsTypeOK, ValuesOf
  <2> QED BY <1>4, <2>1, HiddenKept DEF DeleteSecret, SettingsInv
<1>5. CASE UNCHANGED PSvars
  <2>1. SettingsTypeOK'
    BY <1>5 DEF PSvars, SettingsInv, SettingsTypeOK
  <2> QED BY <1>5, <2>1, HiddenKept DEF PSvars, SettingsInv
<1> QED BY <1>1, <1>2, <1>3, <1>4, <1>5 DEF SettingsNext

\* What a request is going to write is shown in the state it makes of what it has read,
\* in whatever order its values were posted (base.py, writable_settings).
THEOREM HiddenStaysUnwritten == ASSUME SettingsAssumption PROVE SettingsSpec => []HiddenNeverWritten
<1>1. SettingsInit => SettingsInv
  BY SettingsInitInv
<1>2. SettingsInv /\ [SettingsNext]_PSvars => SettingsInv'
  BY SettingsStepInv
<1>3. SettingsInv => HiddenNeverWritten
  BY DEF SettingsInv
<1> QED BY <1>1, <1>2, <1>3, PTL DEF SettingsSpec

-----------------------------------------------------------------------------
(***************************************************************************)
(* The assets.  An import knows the rows it found, and the lock keeps others*)
(* from changing whose they are.                                           *)
(***************************************************************************)

\* The highest of some numbers, by how far they are from the bound.
LEMMA TopOf ==
  ASSUME NEW max \in Nat, NEW S, S \subseteq 1..max
  PROVE  Top(S) \in 0..max /\ \A i \in S : i <= Top(S)
<1>1. CASE S = {}
  BY <1>1 DEF Top
<1>2. CASE S # {}
  <2> DEFINE T == {max - i : i \in S}
  <2>1. \A k \in S : k \in Nat /\ max - k \in Nat
    OBVIOUS
  <2>2. T \subseteq Nat /\ T # {}
    BY <1>2, <2>1
  <2>3. PICK d \in T : \A e \in T : d <= e
    <3> HIDE DEF T
    <3> QED BY <2>2, Smallest
  <2>4. PICK i \in S : d = max - i
    OBVIOUS
  <2>5. \A k \in S : k <= i
    <3> SUFFICES ASSUME NEW k \in S PROVE k <= i
      OBVIOUS
    <3>1. max - i <= max - k
      BY <2>3, <2>4
    <3> QED BY <2>1, <3>1
  <2>6. Top(S) \in S /\ \A k \in S : k <= Top(S)
    BY <1>2, <2>5 DEF Top
  <2>7. S \subseteq 0..max
    OBVIOUS
  <2> QED BY <2>6, <2>7
<1> QED BY <1>1, <1>2

\* The new rows are listed one after the other.
LEMMA Enumerated ==
  ASSUME NEW S, IsFiniteSet(S)
  PROVE  SetToSeq(S) \in [1..Cardinality(S) -> S] /\ Cardinality(S) \in Nat
<1>1. PICK n \in Nat : ExistsBijection(1..n, S)
  BY FS_NatBijection
<1>2. Cardinality(S) = n
  BY <1>1, FS_CountingElements
<1>3. \E f \in [1..Cardinality(S) -> S] : IsInjective(f)
  BY <1>1, <1>2 DEF ExistsBijection, Bijection, Injection
<1> QED BY <1>2, <1>3 DEF SetToSeq

\* The row with the lowest id that belongs to something.
LEMMA FoundRowIs ==
  ASSUME AssetsAssumption, AssetsTypeOK, NEW b, FoundRow(b) \in Ids
  PROVE  rows[FoundRow(b)].app = b
<1> DEFINE own == RowsOf(b, TRUE)
           named == IF b \in JsonApps THEN RowsOf(b, FALSE) ELSE {}
           these == IF own # {} THEN own ELSE named
<1>1. these \subseteq Ids /\ \A i \in these : rows[i].app = b
  BY DEF RowsOf
<1>2. Ids \subseteq Nat /\ 0 \notin Ids
  BY DEF AssetsTypeOK
<1>3. these # {}
  BY <1>2 DEF FoundRow
<1>4. \E i \in these : \A k \in these : i <= k
  <2> HIDE DEF these
  <2> QED BY <1>1, <1>2, <1>3, Smallest
<1>5. FoundRow(b) \in these
  BY <1>3, <1>4 DEF FoundRow
<1> QED BY <1>1, <1>5

LEMMA MappedIs ==
  ASSUME AssetsAssumption, AssetsTypeOK, NEW h \in Hosts
  PROVE  /\ Mapped(h) \in 0..MaxId
         /\ Mapped(h) \in Ids => rows[Mapped(h)].host = h
<1> DEFINE these == {i \in Ids : rows[i].host = h /\ rows[i].active}
<1>1. Ids \subseteq Nat /\ 0 \notin Ids /\ Ids \subseteq 1..MaxId /\ MaxId \in Nat
  BY DEF AssetsTypeOK, AssetsAssumption
<1>2. CASE these = {}
  BY <1>1, <1>2 DEF Mapped
<1>3. CASE these # {}
  <2>1. \E i \in these : \A k \in these : i <= k
    <3> HIDE DEF these
    <3>1. these \subseteq Nat
      BY <1>1 DEF these
    <3> QED BY <1>3, <3>1, Smallest
  <2>2. Mapped(h) \in these
    BY <1>3, <2>1 DEF Mapped
  <2>3. Mapped(h) \in Ids /\ rows[Mapped(h)].host = h
    BY <2>2
  <2>4. Ids \subseteq 0..MaxId
    BY <1>1
  <2> QED BY <2>3, <2>4
<1> QED BY <1>2, <1>3

-----------------------------------------------------------------------------
AssetRow == [app : Apps, known : BOOLEAN, host : Hosts \union {NoHost}, active : BOOLEAN]
StoredEvent == [host : Hosts, asset : 0..MaxId]

\* An import holds the lock, knows what its inventory says and the rows it found,
\* which stay those of its applications.
RunKnows(r) ==
  r.at = "write" =>
    /\ r.inv \in Inventories(r.kind)
    /\ \A b \in Listed(r.inv) : r.found[b] \in Ids => rows[r.found[b]].app = b
    /\ r.moved \subseteq Listed(r.inv)

RunHolds(p) ==
  run[p].at # "idle" => action = p /\ run[p].kind \in {"json", "proxmox"}

\* An edit under way has loaded a row, which may be deleted or have another host
\* by the time it is saved.
EditLoad == [id : 0..MaxId, host : Hosts \union {NoHost}]

\* Whom the cached map of a tick names has the host the map says, if an edit has
\* settled it.
MapMatches ==
  hostmap # NoMap => \A h \in Hosts : hostmap[h] \in settled => rows[hostmap[h]].host = h

AssetsInv ==
  /\ AssetsTypeOK
  /\ \A p \in Runners : RunHolds(p) /\ RunKnows(run[p])
  /\ EditedLinksMatch
  /\ MapMatches

LEMMA AssetsInitInv == ASSUME AssetsAssumption, AssetsInit PROVE AssetsInv
<1>1. CASE rows = <<>>
  BY <1>1 DEF AssetsInit, AssetsInv, AssetsTypeOK, Ids, RunHolds, RunKnows, EditedLinksMatch, MapMatches, Idle, NoEdit, AssetsAssumption
<1>2. ASSUME NEW b \in JsonApps, NEW h \in Hosts,
             rows = <<[app |-> b, known |-> FALSE, host |-> h, active |-> TRUE]>>
      PROVE  AssetsInv
  <2>1. Ids = {1} /\ 1 \in 1..MaxId
    BY <1>2 DEF Ids, AssetsAssumption
  <2>2. rows \in [Ids -> AssetRow]
    <3>1. [app |-> b, known |-> FALSE, host |-> h, active |-> TRUE] \in AssetRow
      BY DEF AssetRow, Apps
    <3>2. rows \in Seq(AssetRow)
      BY <1>2, <3>1
    <3> QED BY <3>2 DEF Ids
  <2>3. AssetsTypeOK
    BY <2>1, <2>2 DEF AssetsInit, AssetsTypeOK, AssetRow, Idle, NoEdit, AssetsAssumption
  <2> QED BY <2>3 DEF AssetsInit, AssetsInv, RunHolds, RunKnows, EditedLinksMatch, MapMatches, Idle
<1> QED BY <1>1, <1>2 DEF AssetsInit

\* What the runner does that holds the lock, the others stay idle.
LEMMA OtherRunners ==
  ASSUME AssetsInv, NEW p \in Runners, NEW q \in Runners, p # q, run[p].at # "idle"
  PROVE  run[q].at = "idle"
BY DEF AssetsInv, RunHolds

LEMMA Inventoried ==
  ASSUME AssetsAssumption, NEW kind \in {"json", "proxmox"}, NEW inv \in Inventories(kind)
  PROVE  /\ Listed(inv) \subseteq Apps /\ IsFiniteSet(Listed(inv))
         /\ \A b \in Listed(inv) : inv[b] \in Hosts \union {NoHost}
<1>1. DOMAIN inv \subseteq Apps
  BY DEF Inventories, JsonInventories, GuestInventories, Apps
<1>2. Listed(inv) \subseteq Apps
  BY <1>1 DEF Listed
<1>3. IsFiniteSet(Listed(inv))
  <2>1. IsFiniteSet(Apps)
    BY DEF AssetsAssumption, Apps
  <2> QED BY <1>2, <2>1, FS_Subset
<1>4. \A b \in Listed(inv) : inv[b] \in Hosts \union {NoHost}
  BY DEF Inventories, JsonInventories, GuestInventories, Listed, NotesSay
<1> QED BY <1>2, <1>3, <1>4

\* An import that succeeds leaves rows, each of the application it was of.
LEMMA WriteRows ==
  ASSUME AssetsAssumption, AssetsInv, NEW p \in Runners, WriteImport(p)
  PROVE  /\ Ids' \subseteq 1..MaxId /\ Ids \subseteq Ids'
         /\ rows' \in [Ids' -> AssetRow]
         /\ settled' \subseteq settled
         /\ \A i \in settled' : rows'[i].host = rows[i].host
<1> DEFINE r == run[p]
           base == Top(Ids)
           new == Added(r)
           all == Ids \union {base + n : n \in DOMAIN new}
           rewritten == Updated(r)
           after == [i \in all |-> IF i \in Ids THEN rewritten[i] ELSE NewRow(r, new[i - base])]
<1>1. CASE UNCHANGED <<rows, settled>>
  BY <1>1 DEF AssetsInv, AssetsTypeOK, Ids, AssetRow
<1>2. CASE ~UNCHANGED <<rows, settled>>
  <2>1. /\ base + Len(new) <= MaxId /\ rows' = after
        /\ settled' = {i \in settled : after[i].host = rows[i].host}
    BY <1>2 DEF WriteImport
  <2>2. r.kind \in {"json", "proxmox"} /\ r.inv \in Inventories(r.kind)
    BY DEF WriteImport, AssetsInv, RunHolds, RunKnows
  <2>3. /\ Listed(r.inv) \subseteq Apps /\ IsFiniteSet(Listed(r.inv))
        /\ \A b \in Listed(r.inv) : r.inv[b] \in Hosts \union {NoHost}
    BY <2>2, Inventoried
  <2> DEFINE fresh == {b \in Listed(r.inv) : r.found[b] = 0}
  <2>4. new \in [1..Cardinality(fresh) -> fresh] /\ Cardinality(fresh) \in Nat
    <3>1. IsFiniteSet(fresh)
      BY <2>3, FS_Subset
    <3> QED BY <3>1, Enumerated DEF Added
  <2>5. Len(new) = Cardinality(fresh) /\ DOMAIN new = 1..Len(new) /\ Len(new) \in Nat
    <3> HIDE DEF new, fresh
    <3> QED BY <2>4
  <2>6. Ids \subseteq 1..MaxId /\ MaxId \in Nat /\ base \in 0..MaxId /\ \A i \in Ids : i <= base
    BY TopOf DEF AssetsInv, AssetsTypeOK, AssetsAssumption
  <2>7. all \subseteq 1..MaxId
    <3>1. ASSUME NEW n \in DOMAIN new PROVE base + n \in 1..MaxId
      <4> HIDE DEF base, new
      <4> QED BY <2>1, <2>5, <2>6
    <3> HIDE DEF base, new
    <3> QED BY <2>6, <3>1
  <2>8. \A i \in Ids : rewritten[i] \in AssetRow
    <3> SUFFICES ASSUME NEW i \in Ids PROVE rewritten[i] \in AssetRow
      OBVIOUS
    <3>1. rows[i] \in AssetRow
      BY DEF AssetsInv, AssetsTypeOK, AssetRow
    <3>2. CASE \E b \in Listed(r.inv) : r.found[b] = i
      <4>1. PICK b \in Listed(r.inv) : r.found[b] = i
        BY <3>2
      <4>2. rows[i].app = b
        BY <4>1 DEF WriteImport, AssetsInv, RunKnows
      <4>3. HostAfter(r, rows[i].app, rows[i].host) \in Hosts \union {NoHost}
        BY <2>3, <3>1, <4>1, <4>2 DEF HostAfter, AssetRow
      <4>4. rewritten[i] = [rows[i] EXCEPT !.known = TRUE, !.active = TRUE,
                                           !.host = HostAfter(r, rows[i].app, rows[i].host)]
        <5>1. rows[i].app \notin Missing(r.inv)
          BY <4>1, <4>2 DEF Listed, Missing
        <5> QED BY <3>2, <5>1 DEF Updated
      <4> QED BY <3>1, <4>3, <4>4 DEF AssetRow
    <3>3. CASE ~(\E b \in Listed(r.inv) : r.found[b] = i)
      <4>1. rewritten[i] \in {rows[i], [rows[i] EXCEPT !.active = FALSE]}
        BY <3>3 DEF Updated
      <4> QED BY <3>1, <4>1 DEF AssetRow
    <3> QED BY <3>2, <3>3
  <2>9. \A i \in all \ Ids : NewRow(r, new[i - base]) \in AssetRow
    <3> SUFFICES ASSUME NEW i \in all \ Ids PROVE NewRow(r, new[i - base]) \in AssetRow
      OBVIOUS
    <3>1. i - base \in DOMAIN new
      <4> HIDE DEF base, new
      <4> QED BY <2>5, <2>6
    <3>2. new[i - base] \in Listed(r.inv)
      <4> HIDE DEF base, new
      <4> QED BY <2>4, <3>1
    <3>3. r.inv[new[i - base]] \in Hosts \union {NoHost} /\ new[i - base] \in Apps
      BY <2>3, <3>2
    <3> QED BY <3>3 DEF NewRow, AssetRow
  <2>10. rows' \in [all -> AssetRow] /\ Ids' = all
    <3> HIDE DEF all, rewritten, new, base
    <3> QED BY <2>1, <2>8, <2>9 DEF Ids
  <2>11. settled' \subseteq settled /\ \A i \in settled' : rows'[i].host = rows[i].host
    <3> HIDE DEF after
    <3> QED BY <2>1
  <2> QED BY <2>7, <2>10, <2>11
<1> QED BY <1>1, <1>2

LEMMA EndKeeps ==
  ASSUME AssetsAssumption, AssetsInv, NEW p \in Runners, run[p].at # "idle", End(p)
  PROVE  /\ DOMAIN run' = Runners /\ action' \in Runners \union {Nobody}
         /\ \A q \in Runners : run'[q].at = "idle"
<1>1. run'[p] = Idle /\ \A q \in Runners : q # p => run'[q] = run[q]
  BY DEF End, AssetsInv, AssetsTypeOK
<1>2. \A q \in Runners : run'[q].at = "idle"
  BY <1>1, OtherRunners DEF Idle
<1> QED BY <1>2 DEF End, AssetsInv, AssetsTypeOK, Idle

LEMMA WriteInv == ASSUME AssetsAssumption, AssetsInv, NEW p \in Runners, WriteImport(p) PROVE AssetsInv'
<1>1. run[p].at # "idle" /\ End(p) /\ UNCHANGED <<events, external, edit, hostmap>>
  BY DEF WriteImport
<1>2. /\ DOMAIN run' = Runners /\ action' \in Runners \union {Nobody}
      /\ \A q \in Runners : run'[q].at = "idle"
  BY <1>1, EndKeeps
<1>3. AssetsTypeOK'
  BY <1>1, <1>2, WriteRows DEF AssetsInv, AssetsTypeOK, AssetRow
<1>4. \A q \in Runners : RunHolds(q)' /\ RunKnows(run[q])'
  BY <1>2 DEF RunHolds, RunKnows
<1>5. EditedLinksMatch'
  BY <1>1, WriteRows DEF AssetsInv, EditedLinksMatch
<1>6. MapMatches'
  BY <1>1, WriteRows DEF AssetsInv, MapMatches
<1> QED BY <1>3, <1>4, <1>5, <1>6 DEF AssetsInv

LEMMA FailsInv ==
  ASSUME AssetsAssumption, AssetsInv, NEW p \in Runners, NEW kind, Fails(p, kind)
  PROVE  AssetsInv'
<1>1. run[p].at # "idle" /\ End(p) /\ UNCHANGED <<rows, events, external, edit, hostmap, settled>>
  BY DEF Fails
<1>2. /\ DOMAIN run' = Runners /\ action' \in Runners \union {Nobody}
      /\ \A q \in Runners : run'[q].at = "idle"
  BY <1>1, EndKeeps
<1>3. AssetsTypeOK'
  BY <1>1, <1>2 DEF AssetsInv, AssetsTypeOK, Ids
<1>4. \A q \in Runners : RunHolds(q)' /\ RunKnows(run[q])'
  BY <1>2 DEF RunHolds, RunKnows
<1> QED BY <1>1, <1>3, <1>4 DEF AssetsInv, EditedLinksMatch, MapMatches

LEMMA BeginInv ==
  ASSUME AssetsAssumption, AssetsInv, NEW p \in Runners, NEW kind \in {"json", "proxmox"}, BeginAction(p, kind)
  PROVE  AssetsInv'
<1>1. action = Nobody /\ action' = p /\ UNCHANGED <<rows, events, external, edit, hostmap, settled>>
  BY DEF BeginAction, Free
<1>2. \A q \in Runners : run[q].at = "idle"
  BY <1>1 DEF AssetsInv, RunHolds, AssetsAssumption, Nobody
<1>3. /\ DOMAIN run' = Runners /\ run'[p] = [at |-> "load", kind |-> kind]
      /\ \A q \in Runners : q # p => run'[q] = run[q]
  BY DEF BeginAction, AssetsInv, AssetsTypeOK
<1>4. \A q \in Runners : RunHolds(q)' /\ RunKnows(run[q])'
  BY <1>1, <1>2, <1>3 DEF RunHolds, RunKnows
<1>5. AssetsTypeOK'
  <2>1. \A q \in Runners : run'[q].at \in {"idle", "load", "write"}
    BY <1>2, <1>3
  <2>2. edit' \in [Editors -> EditLoad]
    BY <1>1 DEF AssetsInv, AssetsTypeOK, EditLoad
  <2> QED BY <1>1, <1>3, <2>1, <2>2 DEF AssetsInv, AssetsTypeOK, Ids, EditLoad
<1> QED BY <1>1, <1>4, <1>5 DEF AssetsInv, EditedLinksMatch, MapMatches

LEMMA LoadInv == ASSUME AssetsAssumption, AssetsInv, NEW p \in Runners, Load(p) PROVE AssetsInv'
<1>1. run[p].at = "load" /\ UNCHANGED <<rows, events, external, action, edit, hostmap, settled>>
  BY DEF Load
<1>2. PICK inv \in Inventories(run[p].kind) :
        run' = [run EXCEPT ![p] =
           [at |-> "write", kind |-> @.kind, inv |-> inv,
            found |-> [b \in Listed(inv) |-> FoundRow(b)], touched |-> Touched(inv),
            moved |-> IF external /\ @.kind = "json" THEN Moved(inv) ELSE {}]]
  BY DEF Load
<1>3. /\ DOMAIN run' = Runners
      /\ run'[p].at = "write" /\ run'[p].kind = run[p].kind /\ run'[p].inv = inv
      /\ run'[p].found = [b \in Listed(inv) |-> FoundRow(b)]
      /\ run'[p].moved \subseteq Moved(inv)
      /\ \A q \in Runners : q # p => run'[q] = run[q]
  BY <1>2 DEF AssetsInv, AssetsTypeOK
<1>4. \A b \in Listed(inv) : FoundRow(b) \in Ids => rows[FoundRow(b)].app = b
  BY FoundRowIs DEF AssetsInv
<1>5. RunKnows(run[p])'
  BY <1>1, <1>2, <1>3, <1>4 DEF RunKnows, Ids, Moved
<1>6. \A q \in Runners : q # p => RunKnows(run[q])'
  BY <1>1, <1>3 DEF AssetsInv, RunKnows, Ids
<1>7. \A q \in Runners : RunHolds(q)'
  BY <1>1, <1>3 DEF AssetsInv, RunHolds
<1>8. AssetsTypeOK'
  BY <1>1, <1>3 DEF AssetsInv, AssetsTypeOK, Ids
<1> QED BY <1>1, <1>5, <1>6, <1>7, <1>8 DEF AssetsInv, EditedLinksMatch, MapMatches

\* Opening an edit and refusing it change nothing that others see.
LEMMA OpenEditInv ==
  ASSUME AssetsAssumption, AssetsInv, NEW e \in Editors,
         RefuseEdit(e) \/ \E i \in 1..MaxId : OpenEdit(e, i)
  PROVE  AssetsInv'
<1>1. UNCHANGED <<rows, events, external, action, run, hostmap, settled>>
  BY DEF RefuseEdit, OpenEdit
<1>2. edit' \in [Editors -> EditLoad]
  <2>1. \A i \in Ids : [id |-> i, host |-> rows[i].host] \in EditLoad
    <3>1. \A i \in Ids : i \in 0..MaxId
      <4>1. Ids \subseteq 1..MaxId
        BY Zenon DEF AssetsInv, AssetsTypeOK
      <4> QED BY <4>1
    <3>2. \A i \in Ids : rows[i].host \in Hosts \union {NoHost}
      <4>1. rows \in [Ids -> AssetRow]
        BY Zenon DEF AssetsInv, AssetsTypeOK, AssetRow
      <4> QED BY <4>1 DEF AssetRow
    <3> QED BY <3>1, <3>2 DEF EditLoad
  <2>2. NoEdit \in EditLoad /\ edit \in [Editors -> EditLoad]
    BY DEF NoEdit, EditLoad, AssetsInv, AssetsTypeOK, AssetsAssumption
  <2> HIDE DEF EditLoad
  <2>3. CASE RefuseEdit(e)
    BY <2>2, <2>3 DEF RefuseEdit
  <2>4. CASE \E i \in 1..MaxId : OpenEdit(e, i)
    <3>1. PICK i \in 1..MaxId : OpenEdit(e, i)
      BY <2>4
    <3>2. i \in Ids /\ edit' = [edit EXCEPT ![e] = [id |-> i, host |-> rows[i].host]]
      BY <3>1 DEF OpenEdit
    <3> QED BY <2>1, <2>2, <3>2
  <2> QED BY <2>3, <2>4
<1>3. AssetsTypeOK'
  BY <1>1, <1>2 DEF AssetsInv, AssetsTypeOK, EditLoad, Ids
<1>4. \A q \in Runners : RunHolds(q)' /\ RunKnows(run[q])'
  BY <1>1 DEF AssetsInv, RunHolds, RunKnows, Ids
<1> QED BY <1>1, <1>3, <1>4 DEF AssetsInv, EditedLinksMatch, MapMatches

\* Whatever was linked to an application that is edited has its host afterwards,
\* unless the host was not written because of what the edit had loaded.
LEMMA SaveEditInv ==
  ASSUME AssetsAssumption, AssetsInv, NEW e \in Editors, NEW h \in Hosts \union {NoHost}, SaveEdit(e, h)
  PROVE  AssetsInv'
<1> DEFINE i == edit[e].id
           missed == Unwritten(e, h)
<1>1. /\ i \in Ids
      /\ rows' = IF missed THEN rows ELSE [rows EXCEPT ![i].host = h]
      /\ events' = Synced(i, h)
      /\ settled' = IF hostmap = NoMap /\ ~missed THEN settled \union {i} ELSE settled \ {i}
      /\ edit' = [edit EXCEPT ![e] = NoEdit]
      /\ UNCHANGED <<external, action, run, hostmap>>
  BY DEF SaveEdit
<1>e. edit' \in [Editors -> EditLoad]
  <2>1. NoEdit \in EditLoad /\ edit \in [Editors -> EditLoad]
    BY DEF NoEdit, EditLoad, AssetsInv, AssetsTypeOK, AssetsAssumption
  <2> HIDE DEF EditLoad
  <2> QED BY <1>1, <2>1
<1> HIDE DEF i, missed
<1>2. /\ Ids' = Ids /\ rows' \in [Ids -> AssetRow] /\ (~missed => rows'[i].host = h)
      /\ \A k \in Ids : rows'[k].app = rows[k].app /\ (k # i => rows'[k] = rows[k])
  BY <1>1 DEF AssetsInv, AssetsTypeOK, Ids, AssetRow
<1>3. events \in Seq(StoredEvent) /\ Len(events) \in Nat /\ i \in 0..MaxId /\ 0 \in 0..MaxId
  BY <1>1 DEF AssetsInv, AssetsTypeOK, StoredEvent, AssetsAssumption
<1>4. \A n \in DOMAIN events : /\ events'[n] \in StoredEvent /\ events'[n].host = events[n].host
                               /\ events'[n].asset = IF events[n].host = h THEN i
                                                     ELSE IF events[n].asset = i THEN 0 ELSE events[n].asset
  <2> SUFFICES ASSUME NEW n \in DOMAIN events
               PROVE  /\ events'[n] \in StoredEvent /\ events'[n].host = events[n].host
                      /\ events'[n].asset = IF events[n].host = h THEN i
                                            ELSE IF events[n].asset = i THEN 0 ELSE events[n].asset
    OBVIOUS
  <2>1. events[n] \in StoredEvent
    BY <1>3
  <2>2. events'[n] = IF events[n].host = h THEN [events[n] EXCEPT !.asset = i]
                     ELSE IF events[n].asset = i THEN [events[n] EXCEPT !.asset = 0] ELSE events[n]
    BY <1>1 DEF Synced
  <2> QED BY <1>3, <2>1, <2>2 DEF StoredEvent
<1>5. DOMAIN events' = DOMAIN events /\ DOMAIN events = 1..Len(events)
  BY <1>1, <1>3 DEF Synced
<1>6. events' \in Seq(StoredEvent) /\ Len(events') = Len(events)
  <2>1. events' \in [1..Len(events) -> StoredEvent]
    BY <1>1, <1>4, <1>5 DEF Synced
  <2> QED BY <1>3, <2>1
<1>7. settled' \subseteq Ids'
  BY <1>1, <1>2 DEF AssetsInv, AssetsTypeOK
<1>8. AssetsTypeOK'
  BY <1>1, <1>e, <1>2, <1>6, <1>7 DEF AssetsInv, AssetsTypeOK, AssetRow, StoredEvent, EditLoad
<1>9. \A q \in Runners : RunHolds(q)' /\ RunKnows(run[q])'
  BY <1>1, <1>2 DEF AssetsInv, RunHolds, RunKnows
<1>10. EditedLinksMatch'
  <2> SUFFICES ASSUME NEW n \in DOMAIN events', events'[n].asset \in settled'
               PROVE  rows'[events'[n].asset].host = events'[n].host
    BY DEF EditedLinksMatch
  <2>1. n \in DOMAIN events /\ 0 \notin Ids'
    BY <1>5, <1>8 DEF AssetsTypeOK
  <2>2. CASE events[n].host = h
    <3>1. events'[n].asset = i /\ ~missed
      BY <1>1, <1>4, <2>1, <2>2
    <3> QED BY <1>2, <1>4, <2>1, <2>2, <3>1
  <2>3. CASE events[n].host # h
    <3>1. events'[n].asset = events[n].asset /\ events[n].asset # i
      BY <1>4, <1>7, <2>1, <2>3
    <3>2. events[n].asset \in settled /\ events[n].asset \in Ids
      BY <1>1, <3>1 DEF AssetsInv, AssetsTypeOK
    <3> QED BY <1>2, <1>4, <2>1, <3>1, <3>2 DEF AssetsInv, EditedLinksMatch
  <2> QED BY <2>2, <2>3
<1>11. MapMatches'
  <2> SUFFICES ASSUME hostmap # NoMap, NEW g \in Hosts, hostmap[g] \in settled'
               PROVE  rows'[hostmap[g]].host = g
    BY <1>1 DEF MapMatches
  <2>1. hostmap[g] \in settled /\ hostmap[g] # i /\ hostmap[g] \in Ids
    BY <1>1 DEF AssetsInv, AssetsTypeOK
  <2> QED BY <1>2, <2>1 DEF AssetsInv, MapMatches
<1> QED BY <1>8, <1>9, <1>10, <1>11 DEF AssetsInv

LEMMA CleanUpInv == ASSUME AssetsAssumption, AssetsInv, CleanUpInactive PROVE AssetsInv'
<1> DEFINE left == {i \in Ids : rows[i].active}
<1>1. /\ rows' = [i \in left |-> rows[i]] /\ settled' = settled \intersect left
      /\ UNCHANGED <<events, external, action, run, edit, hostmap>>
  BY DEF CleanUpInactive
<1>2. Ids' = left /\ left \subseteq Ids /\ \A i \in left : rows'[i] = rows[i]
  BY <1>1 DEF Ids
<1>3. AssetsTypeOK'
  <2>1. rows' \in [Ids' -> AssetRow]
    BY <1>1, <1>2 DEF AssetsInv, AssetsTypeOK, AssetRow
  <2> HIDE DEF left
  <2> QED BY <1>1, <1>2, <2>1 DEF AssetsInv, AssetsTypeOK, AssetRow
<1> HIDE DEF left
<1>4. \A q \in Runners : RunHolds(q)' /\ RunKnows(run[q])'
  BY <1>1, <1>2 DEF AssetsInv, RunHolds, RunKnows
<1>5. EditedLinksMatch'
  BY <1>1, <1>2 DEF AssetsInv, EditedLinksMatch
<1>6. MapMatches'
  BY <1>1, <1>2 DEF AssetsInv, MapMatches
<1> QED BY <1>3, <1>4, <1>5, <1>6 DEF AssetsInv

LEMMA StoreInv == ASSUME AssetsAssumption, AssetsInv, NEW h \in Hosts, StoreEvent(h) PROVE AssetsInv'
<1> DEFINE asset == IF HostMap[h] \in Ids THEN HostMap[h] ELSE 0
           new == [host |-> h, asset |-> asset]
<1>1. /\ Len(events) < MaxEvents /\ hostmap' = HostMap /\ events' = Append(events, new)
      /\ UNCHANGED <<rows, external, action, run, edit, settled>>
  BY DEF StoreEvent
<1>2. /\ HostMap \in [Hosts -> 0..MaxId]
      /\ \A g \in Hosts : HostMap[g] \in settled => rows[HostMap[g]].host = g
  <2>1. CASE hostmap = NoMap
    <3>1. HostMap = [g \in Hosts |-> Mapped(g)]
      BY <2>1 DEF HostMap
    <3> QED BY <3>1, MappedIs DEF AssetsInv, AssetsTypeOK
  <2>2. CASE hostmap # NoMap
    BY <2>2 DEF HostMap, AssetsInv, AssetsTypeOK, MapMatches
  <2> QED BY <2>1, <2>2
<1>3. new \in StoredEvent /\ (asset \in settled => rows[asset].host = h)
  <2>1. 0 \in 0..MaxId /\ 0 \notin settled
    BY DEF AssetsAssumption, AssetsInv, AssetsTypeOK
  <2> QED BY <1>2, <2>1 DEF StoredEvent
<1> HIDE DEF asset
<1>4. /\ events \in Seq(StoredEvent) /\ Len(events) \in Nat /\ MaxEvents \in Nat
      /\ events' \in Seq(StoredEvent) /\ Len(events') = Len(events) + 1
      /\ DOMAIN events = 1..Len(events) /\ DOMAIN events' = 1..(Len(events) + 1)
      /\ \A n \in DOMAIN events : events'[n] = events[n]
      /\ events'[Len(events) + 1] = new
  BY <1>1, <1>3 DEF AssetsInv, AssetsTypeOK, StoredEvent, AssetsAssumption
<1>5. AssetsTypeOK'
  BY <1>1, <1>2, <1>4 DEF AssetsInv, AssetsTypeOK, StoredEvent, Ids
<1>6. \A q \in Runners : RunHolds(q)' /\ RunKnows(run[q])'
  BY <1>1 DEF AssetsInv, RunHolds, RunKnows, Ids
<1>7. EditedLinksMatch'
  <2> SUFFICES ASSUME NEW n \in DOMAIN events', events'[n].asset \in settled
               PROVE  rows[events'[n].asset].host = events'[n].host
    BY <1>1 DEF EditedLinksMatch
  <2>1. CASE n \in DOMAIN events
    BY <1>4, <2>1 DEF AssetsInv, EditedLinksMatch
  <2>2. CASE n \notin DOMAIN events
    <3>1. n = Len(events) + 1
      BY <1>4, <2>2
    <3> QED BY <1>3, <1>4, <3>1
  <2> QED BY <2>1, <2>2
<1>8. MapMatches'
  BY <1>1, <1>2 DEF MapMatches
<1> QED BY <1>5, <1>6, <1>7, <1>8 DEF AssetsInv

LEMMA AssetsStepInv == ASSUME AssetsAssumption, AssetsInv, [AssetsNext]_Avars PROVE AssetsInv'
<1>1. ASSUME NEW p \in Runners, ImportJson(p) \/ SyncProxmox(p) PROVE AssetsInv'
  BY <1>1, BeginInv DEF ImportJson, SyncProxmox
<1>2. ASSUME NEW p \in Runners, SourceFails(p) \/ ServerFails(p) PROVE AssetsInv'
  BY <1>2, FailsInv DEF SourceFails, ServerFails
<1>3. ASSUME NEW p \in Runners, Load(p) PROVE AssetsInv'
  BY <1>3, LoadInv
<1>4. ASSUME NEW p \in Runners, WriteImport(p) PROVE AssetsInv'
  BY <1>4, WriteInv
<1>5. CASE SwitchMaster
  <2>1. (~external) \in BOOLEAN
    OBVIOUS
  <2> QED BY <1>5, <2>1 DEF SwitchMaster, AssetsInv, AssetsTypeOK, RunHolds, RunKnows, EditedLinksMatch, MapMatches, Ids
<1>6. ASSUME NEW e \in Editors,
             \/ \E i \in 1..MaxId : OpenEdit(e, i)
             \/ \E h \in Hosts \union {NoHost} : SaveEdit(e, h)
             \/ RefuseEdit(e)
      PROVE  AssetsInv'
  BY <1>6, OpenEditInv, SaveEditInv
<1>7. CASE CleanUpInactive
  BY <1>7, CleanUpInv
<1>8. ASSUME NEW h \in Hosts, StoreEvent(h) PROVE AssetsInv'
  BY <1>8, StoreInv
<1>9. CASE EndTick
  BY <1>9 DEF EndTick, AssetsInv, AssetsTypeOK, RunHolds, RunKnows, EditedLinksMatch, MapMatches, Ids
<1>10. CASE UNCHANGED Avars
  BY <1>10 DEF Avars, AssetsInv, AssetsTypeOK, RunHolds, RunKnows, EditedLinksMatch, MapMatches, Ids
<1> QED BY <1>1, <1>2, <1>3, <1>4, <1>5, <1>6, <1>7, <1>8, <1>9, <1>10 DEF AssetsNext

\* One import at a time, rows that stay those of their applications, and links that
\* match the hosts that edits have written: the invariant of the assets.
THEOREM AssetsInvariance == ASSUME AssetsAssumption PROVE AssetsSpec => []AssetsInv
BY AssetsInitInv, AssetsStepInv, PTL DEF AssetsSpec

\* The rows, events and imports are always typed.
THEOREM AssetsTyped == ASSUME AssetsAssumption PROVE AssetsSpec => []AssetsTypeOK
<1>1. AssetsInv => AssetsTypeOK
  BY DEF AssetsInv
<1> QED BY <1>1, AssetsInvariance, PTL

\* No edit that writes its host leaves an event behind on the application for a host it
\* used to have, until an import changes the host, a tick that began before the edit
\* goes on storing, or another edit links events without writing its own host
\* (asset_hosts.py, sync_asset_host_events).
THEOREM LinksOfEdited == ASSUME AssetsAssumption PROVE AssetsSpec => []EditedLinksMatch
<1>1. AssetsInv => EditedLinksMatch
  BY DEF AssetsInv
<1> QED BY <1>1, AssetsInvariance, PTL

-----------------------------------------------------------------------------
(***************************************************************************)
(* The health of plugins.  A thread writes a row and its event in one      *)
(* transaction, whatever it read before.                                   *)
(***************************************************************************)

\* The stored health is typed and reported; what threads hold is of their kind.
HealthInv == HealthTypeOK /\ FailureReported

\* Whatever a thread has read, the row that turns to an error has its event.
LEMMA UpdateReports ==
  ASSUME HealthInv, NEW w \in Writing, Update(w)
  PROVE  row' \in Statuses /\ reported' \in BOOLEAN /\ FailureReported'
BY DEF HealthInv, HealthTypeOK, FailureReported, Writing, Update, Reports, Statuses

\* What the threads know, by what they are at.
LEMMA ThreadStates ==
  ASSUME HealthTypeOK
  PROVE  /\ check.at = "probe" => check \in Probing
         /\ check.at = "write" => check \in Writing
         /\ failure.at = "write" => failure \in Writing
         /\ refresh.at = "probe" => refresh \in Probing
         /\ refresh.at = "write" => refresh \in Writing
BY DEF HealthTypeOK, Resting, Probing, Writing

LEMMA VerdictType == ASSUME NEW on, NEW ok PROVE Verdict(on, ok) \in Statuses
BY DEF Verdict, Statuses

LEMMA HealthStepInv == ASSUME HealthAssumption, HealthInv, [HealthNext]_PHvars PROVE HealthInv'
<1> USE DEF HealthAssumption
<1>1. CASE BackendChanges
  <2>1. (~reachable) \in BOOLEAN
    OBVIOUS
  <2> QED BY <1>1, <2>1 DEF BackendChanges, Turn, HealthInv, HealthTypeOK, FailureReported
<1>12. CASE RestartPlugins
  BY <1>12 DEF RestartPlugins, Turn, HealthInv, HealthTypeOK, FailureReported
<1>2. CASE Check
  <2>1. check' \in Probing
    BY <1>2 DEF Check, Probing, HealthInv, HealthTypeOK
  <2> QED BY <1>2, <2>1 DEF Check, HealthInv, HealthTypeOK, FailureReported
<1>3. CASE Checked
  <2>1. check' \in Writing
    BY <1>3, VerdictType DEF Checked, Writing, HealthInv, HealthTypeOK
  <2> QED BY <1>3, <2>1 DEF Checked, HealthInv, HealthTypeOK, FailureReported
<1>4. CASE CommitCheck
  BY <1>4, ThreadStates, UpdateReports DEF CommitCheck, HealthInv, HealthTypeOK
<1>5. CASE LoopFails
  <2>1. failure' \in Writing
    BY <1>5 DEF LoopFails, Writing, Statuses, HealthInv, HealthTypeOK
  <2> QED BY <1>5, <2>1 DEF LoopFails, HealthInv, HealthTypeOK, FailureReported
<1>6. CASE CommitFailure
  BY <1>6, ThreadStates, UpdateReports DEF CommitFailure, HealthInv, HealthTypeOK
<1>7. CASE SaveSettings
  <2>1. refresh' \in Probing
    BY <1>7 DEF SaveSettings, Probing, HealthInv, HealthTypeOK
  <2> QED BY <1>7, <2>1 DEF SaveSettings, Turn, HealthInv, HealthTypeOK, FailureReported
<1>8. CASE Refreshed
  <2>1. refresh' \in Writing
    BY <1>8, VerdictType DEF Refreshed, Writing, HealthInv, HealthTypeOK
  <2> QED BY <1>8, <2>1 DEF Refreshed, HealthInv, HealthTypeOK, FailureReported
<1>9. CASE LaterOneRaises
  BY <1>9 DEF LaterOneRaises, HealthInv, HealthTypeOK, FailureReported
<1>10. CASE CommitRefresh
  <2>1. CASE refresh.at = "write"
    BY <1>10, <2>1, ThreadStates, UpdateReports DEF CommitRefresh, HealthInv, HealthTypeOK
  <2>2. CASE refresh.at # "write"
    BY <1>10, <2>2 DEF CommitRefresh, HealthInv, HealthTypeOK, FailureReported
  <2> QED BY <2>1, <2>2
<1>11. CASE UNCHANGED PHvars
  BY <1>11 DEF PHvars, HealthInv, HealthTypeOK, FailureReported
<1> QED BY <1>1, <1>2, <1>3, <1>4, <1>5, <1>6, <1>7, <1>8, <1>9, <1>10, <1>11, <1>12 DEF HealthNext

LEMMA HealthInitInv == ASSUME HealthAssumption, HealthInit PROVE HealthInv
<1>1. 0 \in 0..MaxTurns /\ 0 \in 0..MaxErrors
  BY DEF HealthAssumption
<1> QED BY <1>1 DEF HealthInit, HealthInv, HealthTypeOK, FailureReported, Statuses

\* A plugin whose row is an error has an event that reports it, whichever of its loop,
\* the diagnostics loop and a saved setting wrote it and however they interleave
\* (manager.py).
THEOREM FailuresReported == ASSUME HealthAssumption PROVE HealthSpec => []FailureReported
<1>1. HealthInv => FailureReported
  BY DEF HealthInv
<1> QED BY <1>1, HealthInitInv, HealthStepInv, PTL DEF HealthSpec
=============================================================================
