---------------------------- MODULE PluginHealth ----------------------------
(***************************************************************************)
(* What the diagnostics say of a plugin, and the event that reports that   *)
(* it failed (plugins/manager.py: discovery, start and stop, the health    *)
(* loop, the failures other loops record, the refresh after the settings   *)
(* were saved, _update_diagnostic).                                        *)
(*                                                                         *)
(* Three threads write the row of a plugin.  Each reads it, decides        *)
(* whether to report, and commits when it gets the write lock; the columns *)
(* it does not change stay what others have made them meanwhile.           *)
(***************************************************************************)
EXTENDS Integers

CONSTANTS
    MaxTurns,  \* bound: changes by the operator or of the backend, restarts
    MaxErrors  \* bound: ticks of the other loops that fail

HealthAssumption == {MaxTurns, MaxErrors} \subseteq Nat

VARIABLES
    loaded,     \* the plugin was discovered
    enabled,    \* its setting
    reachable,  \* its health check succeeds
    row,        \* the status in its row of the diagnostics
    reported,   \* an event reports the failure the row shows
    check,      \* the health loop
    failure,    \* a loop that records its failure
    refresh,    \* the request that refreshes all rows
    turns, errors

PHvars == <<loaded, enabled, reachable, row, reported, check, failure, refresh, turns, errors>>

Statuses == {"healthy", "disabled", "error"}
Resting == [at |-> "idle"]

(* A thread has read whether the plugin is enabled; then it knows the      *)
(* status to write, and the one the row had.                               *)
Probing == [at : {"probe"}, enabled : BOOLEAN]
Writing == [at : {"write"}, new : Statuses, seen : Statuses]

HealthTypeOK ==
    /\ loaded \in BOOLEAN /\ enabled \in BOOLEAN /\ reachable \in BOOLEAN
    /\ reported \in BOOLEAN
    /\ row \in Statuses
    /\ check \in {Resting} \union Probing \union Writing
    /\ failure \in {Resting} \union Writing
    /\ refresh \in {Resting, [at |-> "others"]} \union Probing \union Writing
    /\ turns \in 0..MaxTurns /\ errors \in 0..MaxErrors

(* discover and seed_database: a plugin that is switched off in the        *)
(* environment, or cannot be imported, has no loops; a row that is there   *)
(* keeps its status.                                                       *)
HealthInit ==
    /\ loaded \in BOOLEAN /\ enabled \in BOOLEAN /\ reachable \in BOOLEAN
    /\ row = "healthy" /\ reported = FALSE
    /\ check = Resting /\ failure = Resting /\ refresh = Resting
    /\ turns = 0 /\ errors = 0

Turn == turns < MaxTurns /\ turns' = turns + 1

BackendChanges ==
    /\ Turn /\ reachable' = ~reachable
    /\ UNCHANGED <<loaded, enabled, row, reported, check, failure, refresh, errors>>

(* What was not committed is lost. *)
RestartPlugins ==
    /\ Turn /\ loaded' \in BOOLEAN
    /\ check' = Resting /\ failure' = Resting /\ refresh' = Resting
    /\ UNCHANGED <<enabled, reachable, row, reported, errors>>

(***************************************************************************)
(* _update_diagnostic                                                      *)
(***************************************************************************)
Verdict(on, ok) == IF ~on THEN "disabled" ELSE IF ok THEN "healthy" ELSE "error"

ReportsFromHealthy(old, new) == old = "healthy" /\ new = "error"
Reports(old, new) == old # "error" /\ new = "error"

(* The status is written if it is not the one that was read; the event is  *)
(* stored with it.                                                         *)
Update(w) ==
    /\ row' = IF w.new # w.seen THEN w.new ELSE row
    /\ reported' = IF Reports(w.seen, w.new) THEN TRUE
                   ELSE IF row' = "error" THEN reported ELSE FALSE

(***************************************************************************)
(* The health loop                                                         *)
(***************************************************************************)
Check ==
    /\ check = Resting /\ loaded
    /\ check' = [at |-> "probe", enabled |-> enabled]
    /\ UNCHANGED <<loaded, enabled, reachable, row, reported, failure, refresh, turns, errors>>

Checked ==
    /\ check.at = "probe"
    /\ check' = [at |-> "write", new |-> Verdict(check.enabled, reachable), seen |-> row]
    /\ UNCHANGED <<loaded, enabled, reachable, row, reported, failure, refresh, turns, errors>>

CommitCheck ==
    /\ check.at = "write" /\ Update(check)
    /\ check' = Resting
    /\ UNCHANGED <<loaded, enabled, reachable, failure, refresh, turns, errors>>

(***************************************************************************)
(* _record_loop_error, and export_asset_update                             *)
(***************************************************************************)
LoopFails ==
    /\ failure = Resting /\ loaded /\ enabled
    /\ errors < MaxErrors /\ errors' = errors + 1
    /\ failure' = [at |-> "write", new |-> "error", seen |-> row]
    /\ UNCHANGED <<loaded, enabled, reachable, row, reported, check, refresh, turns>>

CommitFailure ==
    /\ failure.at = "write" /\ Update(failure)
    /\ failure' = Resting
    /\ UNCHANGED <<loaded, enabled, reachable, check, refresh, turns, errors>>

(***************************************************************************)
(* refresh_health_diagnostics, after the settings were committed           *)
(***************************************************************************)
SaveSettings ==
    /\ refresh = Resting /\ loaded /\ Turn
    /\ enabled' = ~enabled
    /\ refresh' = [at |-> "probe", enabled |-> enabled']
    /\ UNCHANGED <<loaded, reachable, row, reported, check, failure, errors>>

Refreshed ==
    /\ refresh.at = "probe"
    /\ refresh' = [at |-> "write", new |-> Verdict(refresh.enabled, reachable), seen |-> row]
    /\ UNCHANGED <<loaded, enabled, reachable, row, reported, check, failure, turns, errors>>

(* One commit for all plugins: when the check of a later one raises, its   *)
(* rollback takes back what was decided of this one.                       *)
LaterOneRaises ==
    /\ refresh.at = "write" /\ refresh' = [at |-> "others"]
    /\ UNCHANGED <<loaded, enabled, reachable, row, reported, check, failure, turns, errors>>

CommitRefresh ==
    /\ refresh.at \in {"write", "others"}
    /\ IF refresh.at = "write" THEN Update(refresh) ELSE UNCHANGED <<row, reported>>
    /\ refresh' = Resting
    /\ UNCHANGED <<loaded, enabled, reachable, check, failure, turns, errors>>

HealthNext ==
    \/ BackendChanges \/ RestartPlugins
    \/ Check \/ Checked \/ CommitCheck
    \/ LoopFails \/ CommitFailure
    \/ SaveSettings \/ Refreshed \/ LaterOneRaises \/ CommitRefresh

HealthSpec == HealthInit /\ [][HealthNext]_PHvars

-----------------------------------------------------------------------------
(* No plugin fails silently: whoever of the three threads turns its row to *)
(* an error, and whatever the others have written meanwhile, there is an   *)
(* event that reports it.                                                  *)
FailureReported == row = "error" => reported

(* "This keeps Diagnostics in sync immediately when a plugin is toggled"   *)
(* (manager.py:707), which a check that raises undoes for the plugins      *)
(* before it.                                                              *)
InSyncAfterSave == [][CommitRefresh /\ ~enabled => row' = "disabled"]_PHvars
=============================================================================
