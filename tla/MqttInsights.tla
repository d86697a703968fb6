---------------------------- MODULE MqttInsights ----------------------------
(***************************************************************************)
(* The publication of insights by MQTT (plugins/mqtt/plugin.py): a tick    *)
(* that works with the settings it read when it began, publishes what is   *)
(* above a cursor in one batch and moves the cursor once the broker has    *)
(* the whole batch, against a settings form that is saved meanwhile, a     *)
(* broker that fails in the middle and crashes.                            *)
(*                                                                         *)
(* "On" is that the plugin is enabled, publishes insights and has an       *)
(* interval.  Insights are never deleted, and are committed in the order   *)
(* of their ids.                                                           *)
(***************************************************************************)
EXTENDS Integers

CONSTANTS
    MaxInsights,    \* bound: insights ever found
    Batch,          \* INSIGHT_BATCH_SIZE
    MaxSaves,       \* bound: the settings are saved that often
    MaxFaults       \* bound: failed batches and crashes

MqttAssumption ==
    /\ {MaxInsights, MaxSaves, MaxFaults} \subseteq Nat /\ Batch \in Nat \ {0}

VARIABLES
    found,     \* the highest id of an insight
    wanted,    \* the settings say that insights are published
    active,    \* insights_was_active
    cursor,    \* insights_cursor
    tick,      \* idle; on: it has read its settings; send: and a batch
    sent,      \* the insights the broker was given
    due,       \* insights found while on, and on since
    before,    \* insights found while off
    saves, faults

MQvars == <<found, wanted, active, cursor, tick, sent, due, before, saves, faults>>

Insights == 1..MaxInsights
Idle == [at |-> "idle"]

TypeOK ==
    /\ {found, cursor} \subseteq 0..MaxInsights
    /\ wanted \in BOOLEAN /\ active \in BOOLEAN
    /\ tick \in {Idle, [at |-> "on"]} \union
         [at : {"send"}, from : 0..MaxInsights, to : Insights]
    /\ {sent, due, before} \subseteq SUBSET Insights
    /\ saves \in 0..MaxSaves /\ faults \in 0..MaxFaults

(* There may be insights already. *)
Init ==
    /\ found \in {0, 1} /\ wanted = FALSE /\ active = FALSE /\ cursor = 0
    /\ tick = Idle /\ sent = {} /\ due = {} /\ before = 1..found
    /\ saves = 0 /\ faults = 0

Fault == faults < MaxFaults /\ faults' = faults + 1

Find ==
    /\ found < MaxInsights /\ found' = found + 1
    /\ IF wanted
       THEN due' = due \union {found'} /\ UNCHANGED before
       ELSE before' = before \union {found'} /\ UNCHANGED due
    /\ UNCHANGED <<wanted, active, cursor, tick, sent, saves, faults>>

(* _sync_insight_activation, for settings that say on: the cursor jumps    *)
(* over everything there is.                                               *)
Activated(on) == IF on /\ ~active THEN found ELSE cursor

(* The form is saved: the setting and the activation, in one transaction.  *)
Save(on) ==
    /\ saves < MaxSaves /\ saves' = saves + 1
    /\ wanted' = on /\ active' = on /\ cursor' = Activated(on)
    /\ due' = IF on THEN due ELSE {}
    /\ UNCHANGED <<found, tick, sent, before, faults>>

BeginTick ==
    /\ tick = Idle /\ wanted
    /\ tick' = [at |-> "on"]
    /\ UNCHANGED <<found, wanted, active, cursor, sent, due, before, saves, faults>>

(* With nothing to publish the tick ends here, and commits an activation,  *)
(* unless it fails with the assets that it exports next.                   *)
Last(from) == IF found < from + Batch THEN found ELSE from + Batch

Read ==
    /\ tick.at = "on"
    /\ IF found > Activated(TRUE)
       THEN /\ tick' = [at |-> "send", from |-> cursor, to |-> Last(cursor)]
            /\ UNCHANGED <<active, cursor, faults>>
       ELSE /\ tick' = Idle
            /\ \/ active' = TRUE /\ cursor' = Activated(TRUE) /\ UNCHANGED faults
               \/ Fault /\ UNCHANGED <<active, cursor>>
    /\ UNCHANGED <<found, wanted, sent, due, before, saves>>

(* What is left of the transaction when the broker fails: nothing. *)
AfterFailureMoved(to) == to
AfterFailure(to) == cursor

(* The whole batch, and then the cursor, over whatever it is by now; or    *)
(* some of the batch and a failure or a crash.                             *)
Send ==
    /\ tick.at = "send"
    /\ \/ /\ sent' = sent \union (tick.from + 1)..tick.to
          /\ cursor' = tick.to
          /\ UNCHANGED faults
       \/ /\ Fault
          /\ \E n \in tick.from..tick.to : sent' = sent \union (tick.from + 1)..n
          /\ cursor' = AfterFailure(tick.to)
    /\ tick' = Idle
    /\ UNCHANGED <<found, wanted, active, due, before, saves>>

(* The process stops while it has not sent anything. *)
Crash ==
    /\ tick # Idle /\ Fault
    /\ tick' = Idle
    /\ UNCHANGED <<found, wanted, active, cursor, sent, due, before, saves>>

Next ==
    \/ Find \/ \E on \in BOOLEAN : Save(on)
    \/ BeginTick \/ Read \/ Send \/ Crash

Tick == BeginTick \/ Read \/ Send

Spec == Init /\ [][Next]_MQvars /\ WF_MQvars(Tick)

-----------------------------------------------------------------------------
(* "Delivery is at least once" (website/guide/plugins/mqtt.md:205): what   *)
(* is found while publishing is on reaches the broker, unless publishing   *)
(* is switched off first, whatever batches fail.                           *)
InsightsDelivered == []<>(due \subseteq sent)

(* "Enabling or re-enabling skips all existing Insights, including         *)
(* findings created while publishing was disabled." (mqtt.md:188), which a *)
(* tick that runs while publishing is switched off and on undoes.        *)
NoReplay == sent \intersect before = {}
=============================================================================
