--------------------------- MODULE ProviderReview ---------------------------
(***************************************************************************)
(* The organization behind a blocked ASN (crowdsec/services/policies.py):  *)
(* enriched events name it, a name that several events of different        *)
(* addresses agree on replaces the stored one and asks for a review, and   *)
(* an administrator acknowledges the change a page showed.                 *)
(*                                                                         *)
(* An event is handled under the write lock, and once: the guard on the    *)
(* last event's id never applies.  An acknowledgement loads the policy and *)
(* validates before it waits for the lock, and checks again under it.  The *)
(* route of the form keeps the row it loaded in its session, so there the  *)
(* second check reads what the first one read; /api/actions reads again.   *)
(* Names are what _provider_comparison_value makes of them.                *)
(***************************************************************************)
EXTENDS Naturals

CONSTANTS
  Name,       \* organizations, without what the comparison ignores
  IP,         \* global client addresses
  Admin,      \* browsers of administrators
  Route,      \* where they acknowledge: "form", "api"
  Needed,     \* PROVIDER_CHANGE_MIN_OBSERVATIONS
  MaxChange,  \* confirmed changes
  Nothing     \* an absent value

ReviewAssumption ==
  /\ Nothing \notin Name \cup IP
  /\ Route \subseteq {"form", "api"}
  /\ Needed \in Nat \ {0, 1}
  /\ MaxChange \in Nat

VARIABLES
  policy,  \* the row: its id, the names, the pending review and the candidate
  clock,   \* provider_name_changed_at of the latest change of any row
  page,    \* per browser, the change its page shows: a name and a time
  ack,     \* per browser, its acknowledgement on the way
  streak   \* the events that last named one organization (of the specification only)

PRvars == <<policy, clock, page, ack, streak>>

Candidate == [name : Name, first : IP, count : 1..Needed, apart : BOOLEAN]

Policy == [id : {1, 2}, name : Name \cup {Nothing}, stamp : 0..MaxChange, review : BOOLEAN,
           candidate : Candidate \cup {Nothing}]

Ack == [row : Policy, route : Route, expected : 0..MaxChange, running : BOOLEAN]

ReviewTypeOK ==
  /\ policy \in Policy
  /\ clock \in 0..MaxChange
  /\ page \in [Admin -> (Name \X (0..MaxChange)) \cup {Nothing}]
  /\ ack \in [Admin -> Ack \cup {Nothing}]
  /\ streak \in [name : Name \cup {Nothing}, ips : SUBSET IP, count : 0..Needed]

\* enable_policy: the row takes the name its source event has, or none.
Enabled(id, n) ==
  [id |-> id, name |-> n, stamp |-> 0, review |-> FALSE, candidate |-> Nothing]

ReviewInit ==
  /\ policy \in {Enabled(1, n) : n \in Name \cup {Nothing}}
  /\ clock = 0
  /\ page = [a \in Admin |-> Nothing]
  /\ ack = [a \in Admin |-> Nothing]
  /\ streak = [name |-> Nothing, ips |-> {}, count |-> 0]

-----------------------------------------------------------------------------
\* _record_policy_match.

\* Mutant: what is known of the addresses stays when another name is seen.
AnotherApart(n, i) ==
  [name |-> n, first |-> i, count |-> 1,
   apart |-> policy.candidate # Nothing /\ policy.candidate.apart]

Another(n, i) == [name |-> n, first |-> i, count |-> 1, apart |-> FALSE]

Again(c, i) ==
  [c EXCEPT !.count = IF @ < Needed THEN @ + 1 ELSE @, !.apart = @ \/ c.first # i]

Counted(n, i) ==
  IF policy.candidate # Nothing /\ policy.candidate.name = n
  THEN Again(policy.candidate, i) ELSE Another(n, i)

Confirmed(c) == c.count = Needed /\ c.apart

Matched(n, i) ==
  \/ /\ policy.name = Nothing
     /\ policy' = [policy EXCEPT !.name = n]
     /\ UNCHANGED clock
  \/ /\ policy.name = n
     /\ policy' = [policy EXCEPT !.candidate = Nothing]
     /\ UNCHANGED clock
  \/ /\ policy.name \notin {Nothing, n}
     /\ policy.review
     /\ UNCHANGED <<policy, clock>>
  \/ /\ policy.name \notin {Nothing, n}
     /\ ~policy.review /\ ~Confirmed(Counted(n, i))
     /\ policy' = [policy EXCEPT !.candidate = Counted(n, i)]
     /\ UNCHANGED clock
  \/ /\ policy.name \notin {Nothing, n}
     /\ ~policy.review /\ Confirmed(Counted(n, i))
     /\ clock' = clock + 1
     /\ policy' = [policy EXCEPT !.name = n, !.stamp = clock + 1, !.review = TRUE,
                                 !.candidate = Nothing]

Observe(n, i) ==
  /\ clock < MaxChange
  /\ Matched(n, i)
  /\ streak' = IF streak.name = n
               THEN [streak EXCEPT !.ips = @ \cup {i}, !.count = IF @ < Needed THEN @ + 1 ELSE @]
               ELSE [name |-> n, ips |-> {i}, count |-> 1]
  /\ UNCHANGED <<page, ack>>

-----------------------------------------------------------------------------
\* The page shows a pending review, with its time in the form.
Show(a) ==
  /\ policy.review
  /\ page' = [page EXCEPT ![a] = <<policy.name, policy.stamp>>]
  /\ UNCHANGED <<policy, clock, ack, streak>>

\* validate_action_parameters, on the row as it is loaded now.
Validate(a, route) ==
  /\ ack[a] = Nothing /\ page[a] # Nothing
  /\ policy.review /\ page[a][2] = policy.stamp
  /\ ack' = [ack EXCEPT ![a] = [row |-> policy, route |-> route,
                                expected |-> policy.stamp, running |-> FALSE]]
  /\ UNCHANGED <<policy, clock, page, streak>>

\* _acquire_action: one acknowledgement of a policy at a time, or it is refused.
Acquire(a) ==
  /\ ack[a] # Nothing /\ ~ack[a].running
  /\ ack' = [ack EXCEPT ![a] = IF \E b \in Admin : ack[b] # Nothing /\ ack[b].running
                               THEN Nothing ELSE [@ EXCEPT !.running = TRUE]]
  /\ UNCHANGED <<policy, clock, page, streak>>

\* What the query under the lock finds: the row of the database, or the one the
\* form's session holds for its id.
Found(a) == IF ack[a].route = "form" /\ ack[a].row.id = policy.id THEN ack[a].row ELSE policy

\* acknowledge_provider_change.
Acknowledge(a) ==
  /\ ack[a] # Nothing /\ ack[a].running
  /\ policy' = IF Found(a).stamp = ack[a].expected THEN [policy EXCEPT !.review = FALSE] ELSE policy
  /\ ack' = [ack EXCEPT ![a] = Nothing]
  /\ UNCHANGED <<clock, page, streak>>

\* The policy is removed and enabled again, its row id reused or not.
Reenable(id, n) ==
  /\ policy' = Enabled(id, n)
  /\ UNCHANGED <<clock, page, ack, streak>>

ReviewNext ==
  \/ \E n \in Name, i \in IP : Observe(n, i)
  \/ \E a \in Admin : Show(a) \/ Acquire(a) \/ Acknowledge(a) \/ \E route \in Route : Validate(a, route)
  \/ \E id \in {1, 2}, n \in Name \cup {Nothing} : Reenable(id, n)

ReviewSpec == ReviewInit /\ [][ReviewNext]_PRvars

-----------------------------------------------------------------------------
\* The stored organization changes only to a name that as many events in a row as
\* are needed gave, of at least two addresses, whatever names, reviews and new
\* policies came between (policies.py:618-651).
Witnessed ==
  /\ streak.name = policy.name /\ streak.count = Needed
  /\ \E i, j \in streak.ips : i # j

ChangeWitnessed == [][clock' # clock => Witnessed']_PRvars

Seen(c) ==
  /\ c.name = streak.name /\ c.count <= streak.count /\ c.first \in streak.ips
  /\ c.apart => \E i, j \in streak.ips : i # j

\* What is counted for a candidate is what the last events said, and a policy under
\* review or without a name has none: the inductive invariant.
CandidateWitnessed ==
  /\ policy.review => policy.name # Nothing
  /\ policy.candidate # Nothing =>
       ~policy.review /\ policy.name # Nothing /\ Seen(policy.candidate)

\* "Provider information changed again; review the current value before
\* acknowledging" (policies.py:506): a review ends by the acknowledgement of an
\* administrator whose page shows the name the policy has.
ReviewedAsShown ==
  [][\A a \in Admin : Acknowledge(a) /\ policy.review /\ ~policy'.review
       => page[a] # Nothing /\ page[a][1] = policy.name]_PRvars
=============================================================================
