----------------------------- MODULE MCRequests -----------------------------
(***************************************************************************)
(* What the requests of browsers run into, one component in every          *)
(* behaviour: the sign-in through the provider, the throttle of the        *)
(* sign-in by password, the boundary of the proxy, the settings form of a  *)
(* plugin, and the review of the organization behind a blocked ASN.        *)
(***************************************************************************)
EXTENDS OidcFlow, WebBoundary, PluginSettings, ProviderReview, TLC

CONSTANTS s1, a, i1, i2, owner, other, neighbour, h1, h2, none

VARIABLES
  part,
  backoff, reserved, free, attempt, signedIn, wrong

throttle == <<backoff, reserved, free, attempt, signedIn, wrong>>

OneHost(x) == "host"
AnswersOf == {[redirect |-> a], [issuer |-> i1], [issuer |-> i2]}

T == INSTANCE LoginThrottle WITH
  request <- attempt, Threads <- {owner, other, neighbour}, Owner <- owner,
  Account <- [t \in {owner, other, neighbour} |-> "account"],
  Flood <- (owner :> <<"source", "peer">>) @@ (other :> <<"peer">>)
             @@ (neighbour :> <<"source", "peer">>),
  Threshold <- [account |-> 1, source |-> 2, peer |-> 3],
  Places <- 1, LockTime <- 1, Kept <- 2, MaxEntries <- 2, MaxFaults <- 3

ASSUME
  /\ T!ThrottleAssumption /\ BoundaryAssumption
  /\ SettingsAssumption /\ ReviewAssumption

\* One initial state of the parts a behaviour is not about.
MCInit ==
  /\ part \in {"oidc", "throttle", "boundary", "form", "review"}
  /\ Init /\ (part # "oidc" => web[a] = [issuer |-> i1])
  /\ BoundaryInit /\ (part # "boundary" => trust = "listed" /\ onboarding = "pending")
  /\ T!Init
  /\ ReviewInit /\ (part # "review" => policy.name = none)
  /\ IF part = "form" THEN SettingsInit
     ELSE shown = [k \in 1..3 |-> {}] /\ stored = [k \in 1..3 |-> "true"] /\ request = NoPost

MCNext ==
  \/ part = "oidc" /\ Next /\ UNCHANGED <<part, throttle, WBvars, PSvars, PRvars>>
  \/ part = "throttle" /\ T!Next /\ UNCHANGED <<part, OFvars, WBvars, PSvars, PRvars>>
  \/ part = "boundary" /\ BoundaryNext /\ UNCHANGED <<part, OFvars, throttle, PSvars, PRvars>>
  \/ part = "form" /\ SettingsNext /\ UNCHANGED <<part, OFvars, throttle, WBvars, PRvars>>
  \/ part = "review" /\ ReviewNext /\ UNCHANGED <<part, OFvars, throttle, WBvars, PSvars>>

MCSpec ==
  /\ MCInit /\ [][MCNext]_<<part, OFvars, throttle, WBvars, PSvars, PRvars>>
  /\ WF_throttle(part = "throttle" /\ T!Tick)
  /\ WF_throttle(part = "throttle" /\ T!Send(owner))
  /\ \A t \in {owner, other, neighbour} : WF_throttle(part = "throttle" /\ T!Proceed(t))

\* What runs of the components alone show, for the behaviours of each.
RightPasswordGetsIn == part = "throttle" => T!RightPasswordGetsIn
=============================================================================
