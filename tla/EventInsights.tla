---------------------------- MODULE EventInsights ----------------------------
(***************************************************************************)
(* The findings made while an event is stored, backend/app/services/        *)
(* events.py, the window rules of insight_rules.py and record_insight.      *)
(*                                                                          *)
(* Events of one address are stored one by one, in any order of their       *)
(* times, and are looked at again when their country becomes known.  All    *)
(* findings of an event are made in one savepoint, which may be rolled      *)
(* back.  An event's asset and host are one context, 0 if they are not      *)
(* known; an asset that is edited later is left out.                        *)
(***************************************************************************)
EXTENDS Integers, Sequences, FiniteSets, FiniteSetsExt

CONSTANTS
  MaxEvents, LastTime, MaxFailed,
  Contexts,   \* assets and hosts
  Near,       \* RELATIONSHIP_WINDOW_SECONDS
  Threshold,  \* of the window rule
  RuleWindow  \* its window_minutes

EventInsightsAssumption ==
  /\ {MaxEvents, LastTime, MaxFailed, Near, RuleWindow} \subseteq Nat /\ Contexts \subseteq Nat /\ 0 \in Contexts
  /\ Threshold \in Nat \ {0}

VARIABLES
  events,    \* the stored events, by id
  findings,  \* insights: type, related_event_ids and occurred_at
  failed     \* the events whose findings were rolled back (of the specification only)

EIvars == <<events, findings, failed>>

Kinds == {"failure", "geoblock", "ban"}
Ids == 1..MaxEvents

FindingsTypeOK ==
  /\ events \in Seq([kind : Kinds, time : 0..LastTime, context : Contexts]) /\ Len(events) <= MaxEvents
  /\ findings \subseteq [type : {"direct", "blocked_request", "ban_after_access", "rule"}, of : SUBSET Ids, at : 0..LastTime]
  /\ failed \subseteq Ids

FindingsInit == events = <<>> /\ findings = {} /\ failed = {}

-----------------------------------------------------------------------------
\* The kind of event a relationship links with the failure of a request.
Security == [blocked_request |-> "geoblock", ban_after_access |-> "ban"]

\* Mutant: the ban is looked for, and the failure, after the event.
NearAhead(type, event) ==
  (IF type = "ban_after_access" THEN event.time ELSE event.time - Near)..(event.time + Near)

\* A ban follows the failure; a geoblock is on either side of it.
NearTo(type, event) ==
  (IF type = "ban_after_access" /\ event.kind = "failure" THEN event.time ELSE event.time - Near)
    ..(IF type = "ban_after_access" /\ event.kind = "ban" THEN event.time ELSE event.time + Near)

\* _relationship_context: an unknown context contradicts nothing.
Compatible(left, right) == left.context = 0 \/ right.context = 0 \/ left.context = right.context

Distance(s, i, j) == IF s[i].time > s[j].time THEN s[i].time - s[j].time ELSE s[j].time - s[i].time

Candidates(s, type, i) ==
  {j \in DOMAIN s :
     /\ {s[i].kind, s[j].kind} = {"failure", Security[type]}
     /\ s[j].time \in NearTo(type, s[i]) /\ Compatible(s[i], s[j])}

\* The nearest one, on either side; the older row of two that are as near.
Nearest(s, type, i) ==
  {j \in Candidates(s, type, i) : \A k \in Candidates(s, type, i) :
     \/ Distance(s, i, j) < Distance(s, i, k)
     \/ Distance(s, i, j) = Distance(s, i, k) /\ j <= k}

Link(s, type, i, j) ==
  [type |-> type, of |-> {i, j}, at |-> IF s[i].time > s[j].time THEN s[i].time ELSE s[j].time]

Relationships(s, i) == UNION {{Link(s, type, i, j) : j \in Nearest(s, type, i)} : type \in DOMAIN Security}

\* apply_declarative_insight_rules, for one rule over failures grouped by address.
RuleFindings(s, i) ==
  LET start == s[i].time - RuleWindow
      matching == {j \in DOMAIN s : s[j].kind = "failure" /\ s[j].time >= start /\ s[j].time <= s[i].time}
      cooling == \E f \in findings : f.type = "rule" /\ f.at >= start /\ f.at <= s[i].time
  IN  IF s[i].kind = "failure" /\ ~cooling /\ Cardinality(matching) >= Threshold
        THEN {[type |-> "rule", of |-> matching, at |-> s[i].time]} ELSE {}

\* record_insight: the same events are reported once.
WithFindings(s, i) ==
  LET direct == IF s[i].kind = "failure" THEN {} ELSE {[type |-> "direct", of |-> {i}, at |-> s[i].time]}
  IN  findings \cup {f \in direct \cup Relationships(s, i) \cup RuleFindings(s, i) :
                       ~(\E g \in findings : g.type = f.type /\ g.of = f.of)}

-----------------------------------------------------------------------------
\* create_rule_based_insights: what fails is rolled back, the event stays.
Found(s, i) ==
  \/ findings' = WithFindings(s, i) /\ failed' = failed \ {i}
  \/ findings' = findings /\ failed' = failed \cup {i} /\ Cardinality(failed') <= MaxFailed

StoreEvent ==
  /\ Len(events) < MaxEvents
  /\ \E kind \in Kinds, time \in 0..LastTime, context \in Contexts :
       events' = Append(events, [kind |-> kind, time |-> time, context |-> context])
  /\ Found(events', Len(events'))

\* geoip.py, when an event gets its country.
Reconcile == \E i \in DOMAIN events : Found(events, i) /\ UNCHANGED events

FindingsNext == StoreEvent \/ Reconcile

FindingsSpec == FindingsInit /\ [][FindingsNext]_EIvars

-----------------------------------------------------------------------------
\* A failure and the event it may be related to: a ban that followed, a geoblock
\* around it, within the minute and of no other asset or host.
Related(type, failure, other) ==
  /\ failure.kind = "failure" /\ other.kind = Security[type] /\ Compatible(failure, other)
  /\ other.time - failure.time \in (IF type = "ban_after_access" THEN 0 ELSE -Near)..Near

Closest(i, j, others) ==
  \A k \in others : Distance(events, i, j) < Distance(events, i, k) \/ (Distance(events, i, j) = Distance(events, i, k) /\ j <= k)

\* A failure and a ban or a geoblock that are related and of which each is the
\* nearest of the other are reported together, whichever of them was stored first
\* and whatever came in between, unless an evaluation failed.
PairsLinked ==
  \A type \in DOMAIN Security : \A i, j \in DOMAIN events \ failed :
    /\ Related(type, events[i], events[j])
    /\ Closest(i, j, {k \in DOMAIN events : Related(type, events[i], events[k])})
    /\ Closest(j, i, {k \in DOMAIN events : Related(type, events[k], events[j])})
    => \E f \in findings : f.type = type /\ f.of = {i, j}
=============================================================================
