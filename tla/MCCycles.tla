------------------------------- MODULE MCCycles -------------------------------
(***************************************************************************)
(* What loops go on with where they were, one component in every behaviour: *)
(* the cycle over bans, the versions of applications, the insights on the   *)
(* broker, and the diagnostics.                                             *)
(***************************************************************************)
EXTENDS Level2, PluginHealth

CONSTANTS scheduled, button

VARIABLES
  part,
  asset, release, external, job, retained, told, edits, faults,
  found, wanted, publishing, cursor, delivery, sent, due, before, saves, lost

level2 == vars
updates == <<asset, release, external, job, retained, told, edits, faults>>
mqtt == <<found, wanted, publishing, cursor, delivery, sent, due, before, saves, lost>>

U == INSTANCE AssetUpdates WITH
  Refreshers <- {scheduled, button}, Loop <- scheduled, MaxVersion <- 2, MaxFaults <- 1

M == INSTANCE MqttInsights WITH
  active <- publishing, tick <- delivery, faults <- lost,
  MaxInsights <- 3, Batch <- 2, MaxSaves <- 3, MaxFaults <- 2

ASSUME U!UpdatesAssumption /\ M!MqttAssumption /\ HealthAssumption

\* One initial state of the parts a behaviour is not about.
MCInit ==
  /\ part \in {"level2", "updates", "mqtt", "health"}
  /\ Init /\ U!Init /\ M!Init /\ HealthInit
  /\ part # "level2" => active = Rule
  /\ asset.github \/ external
  /\ part # "updates" => asset.github /\ external
  /\ part # "mqtt" => found = 0
  /\ part # "health" => loaded /\ enabled /\ reachable

MCNext ==
  \/ part = "level2" /\ Next /\ UNCHANGED <<part, updates, mqtt, PHvars>>
  \/ part = "updates" /\ U!Next /\ UNCHANGED <<part, level2, mqtt, PHvars>>
  \/ part = "mqtt" /\ M!Next /\ UNCHANGED <<part, level2, updates, PHvars>>
  \/ part = "health" /\ HealthNext /\ UNCHANGED <<part, level2, updates, mqtt>>

MCSpec ==
  /\ MCInit /\ [][MCNext]_<<part, level2, updates, mqtt, PHvars>>
  /\ WF_updates(part = "updates" /\ (U!Start(scheduled) \/ U!Going(scheduled)))
  /\ WF_mqtt(part = "mqtt" /\ M!Tick)

\* What runs of the components alone show, for the behaviours of each.
UpdatesSettle == part = "updates" => U!FlagSettles
InsightsDelivered == part = "mqtt" => M!InsightsDelivered
=============================================================================
