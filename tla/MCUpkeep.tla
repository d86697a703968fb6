------------------------------ MODULE MCUpkeep ------------------------------
(***************************************************************************)
(* What loops of the process finish in the end, one component in every     *)
(* behaviour: the dispatch of notifications, the compaction of the event   *)
(* counters over three months of two days, and the refresh of the rulesets.*)
(***************************************************************************)
EXTENDS MCNotifications, Rollups, InsightRules

CONSTANTS a, b, c

VARIABLE part

MCReleases == {{a}, {a, b}}
MCPublished == {{a}, {a, b}, {b, c}}

ASSUME RollupsAssumption /\ InsightRulesAssumption

MCInit ==
  /\ part \in {"notifications", "counters", "rules"} /\ Init /\ RollupsInit /\ RulesInit
  /\ part # "notifications" => on = {}
  /\ part # "rules" => release = {a} /\ content = {a}

MCNext ==
  \/ part = "notifications" /\ Next /\ UNCHANGED <<part, ROvars, IRvars>>
  \/ part = "counters" /\ RollupsNext /\ UNCHANGED <<part, vars, IRvars>>
  \/ part = "rules" /\ RulesNext /\ UNCHANGED <<part, vars, ROvars>>

MCSpec ==
  /\ MCInit /\ [][MCNext]_<<part, vars, ROvars, IRvars>>
  /\ WF_vars(part = "notifications" /\ Tick) /\ WF_vars(part = "notifications" /\ Invalidate)
  /\ WF_vars(part = "notifications" /\ Ingest) /\ WF_vars(part = "notifications" /\ Dispatch)
  /\ WF_ROvars(part = "counters" /\ DeleteExpired)
  /\ \A p \in Pass :
       /\ SF_ROvars(part = "counters" /\ StartPass(p))
       /\ SF_ROvars(part = "counters" /\ DeleteMonth(p))
       /\ WF_ROvars(part = "counters" /\ PassStep(p))
  /\ WF_IRvars(part = "rules" /\ Refresh) /\ WF_IRvars(part = "rules" /\ Age)
  /\ WF_IRvars(part = "rules" /\ PublishManifest)

\* The rules converge (InsightRules) in the behaviours about them; the others leave them alone.
RulesConverge == part = "rules" => Converges
=============================================================================
