------------------------------ MODULE MCFindings ------------------------------
(***************************************************************************)
(* What is made of stored events, one component in every behaviour: mail    *)
(* about two events of one rule, what an event is found to be related to,   *)
(* and the daily trends.                                                    *)
(***************************************************************************)
EXTENDS Notifications, EventInsights, Trends

CONSTANTS e1, e2

VARIABLE part

MCSource == [r \in Rule |-> "event"]
MCKind == [i \in Item |-> "event"]
MCMinCount == [r \in Rule |-> 1]

ASSUME TrendsAssumption /\ EventInsightsAssumption

MCInit ==
  /\ part \in {"mail", "trends", "events"}
  /\ Init /\ TrendsInit /\ FindingsInit
  /\ part # "mail" => on = {}
  /\ part # "trends" => retention = 0

\* The two events are alike, so one of them may be the first.
Ordered == handled'[e2] # 0 => handled'[e1] # 0

MCNext ==
  \/ part = "mail" /\ Next /\ Ordered /\ UNCHANGED <<part, TRvars, EIvars>>
  \/ part = "trends" /\ TrendsNext /\ UNCHANGED <<part, vars, EIvars>>
  \/ part = "events" /\ FindingsNext /\ UNCHANGED <<part, vars, TRvars>>

MCSpec == MCInit /\ [][MCNext]_<<part, vars, TRvars, EIvars>>
=============================================================================
