----------------------------- MODULE GeoipScan -----------------------------
(***************************************************************************)
(* The enrichment of stored events (plugins/geoip): a tick takes the       *)
(* newest pending events below a cursor, looks their addresses up one by   *)
(* one and commits after each.  A failed look-up is cached for an hour, a  *)
(* rejected configuration stops the batch until the settings change, and   *)
(* an event whose country was found late is added to the country's daily   *)
(* counter.                                                                *)
(*                                                                         *)
(* Pending events are a sequence, oldest first; events that were checked   *)
(* leave it, so that a cursor is the number of pending events below it.    *)
(* One event is watched, the others come and go for ever.                  *)
(***************************************************************************)
EXTENDS Integers, Sequences, SequencesExt

CONSTANTS
    Limit,       \* ENRICHMENT_BATCH_SIZE
    MaxPending,  \* bound: events that are pending at a time
    MaxFaults    \* bound: failures of the watched look-up, rejections, restarts

GeoipAssumption == Limit \in Nat \ {0} /\ MaxPending \in Nat /\ MaxFaults \in Nat

VARIABLES
    pend,        \* pending events: "watched" or "other"
    cursor,      \* pending events below before_id; NoCursor after a full scan
    pos,         \* the event the tick is at, 0 when it is done
    last,        \* the oldest event of its batch; 0: deleted meanwhile
    at,          \* "idle", "lookup", "read" (the daily row was read)
    cached,      \* the error of the watched address is cached
    blocked,     \* the provider has rejected this configuration
    stale,       \* another thread has counted the country since it was read
    lost,        \* such a count was overwritten
    faults

GSvars == <<pend, cursor, pos, last, at, cached, blocked, stale, lost, faults>>

NoCursor == -1

TypeOK ==
    /\ pend \in Seq({"watched", "other"})
    /\ cursor \in NoCursor..MaxPending
    /\ pos \in 0..MaxPending /\ last \in 0..MaxPending
    /\ at \in {"idle", "lookup", "read"}
    /\ {cached, blocked, stale, lost} \subseteq BOOLEAN
    /\ faults \in 0..MaxFaults

Init ==
    /\ pend \in {<<"watched">>, <<"other", "other", "watched">>}
    /\ cursor = NoCursor
    /\ pos = 0 /\ last = 0 /\ at = "idle"
    /\ cached = FALSE /\ blocked = FALSE /\ stale = FALSE /\ lost = FALSE
    /\ faults = 0

Fault == faults < MaxFaults /\ faults' = faults + 1

(***************************************************************************)
(* The others: datasources, retention, the clock, the operator             *)
(***************************************************************************)
Ingest ==
    /\ Len(pend) < MaxPending
    /\ pend' = Append(pend, "other")
    /\ UNCHANGED <<cursor, pos, last, at, cached, blocked, stale, lost, faults>>

(* A chunk of a datasource that counts the same country on the same day.   *)
CountCountry ==
    /\ at = "read" /\ stale' = TRUE
    /\ UNCHANGED <<pend, cursor, pos, last, at, cached, blocked, lost, faults>>

Down(n) == IF n > 0 THEN n - 1 ELSE n
DeleteOldest ==
    /\ pend # <<>> /\ Head(pend) = "other"
    /\ pend' = Tail(pend)
    /\ at' = IF pos = 1 THEN "lookup" ELSE at
    /\ cursor' = Down(cursor) /\ pos' = Down(pos) /\ last' = Down(last)
    /\ UNCHANGED <<cached, blocked, stale, lost, faults>>

ErrorExpires ==
    /\ cached /\ cached' = FALSE
    /\ UNCHANGED <<pend, cursor, pos, last, at, blocked, stale, lost, faults>>

(* Another key or provider has another signature.                          *)
SaveSettings ==
    /\ blocked /\ blocked' = FALSE
    /\ UNCHANGED <<pend, cursor, pos, last, at, cached, stale, lost, faults>>

(* The cursor and the outcome of the last attempt are in memory.           *)
Restart ==
    /\ Fault
    /\ cursor' = NoCursor /\ blocked' = FALSE /\ stale' = FALSE
    /\ at' = "idle" /\ pos' = 0 /\ last' = 0
    /\ UNCHANGED <<pend, cached, lost>>

(***************************************************************************)
(* The tick                                                                *)
(***************************************************************************)
Eligible == IF cursor = NoCursor THEN Len(pend) ELSE cursor
Oldest == IF Eligible > Limit THEN Eligible - Limit + 1 ELSE 1

ReadBatch ==
    /\ at = "idle"
    /\ IF Eligible = 0
       THEN cursor' = NoCursor /\ UNCHANGED <<pos, last, at>>
       ELSE pos' = Eligible /\ last' = Oldest /\ at' = "lookup" /\ UNCHANGED cursor
    /\ UNCHANGED <<pend, cached, blocked, stale, lost, faults>>

NewestFirst == NoCursor                  \* mutant of the next
BelowBatch == last - 1

(* The end of the batch; a deleted event ends it without moving on.        *)
EndBatch ==
    /\ at = "lookup" /\ (pos < last \/ pos = 0)
    /\ at' = "idle" /\ pos' = 0 /\ last' = 0
    /\ cursor' = IF last = 0 THEN cursor ELSE BelowBatch
    /\ UNCHANGED <<pend, cached, blocked, stale, lost, faults>>

Looking == at = "lookup" /\ pos > 0 /\ pos >= last
Watching == pend[pos] = "watched"

(* The event is checked and leaves; it is committed at once.               *)
Checked ==
    /\ pend' = RemoveAt(pend, pos)
    /\ cursor' = IF cursor = NoCursor THEN cursor ELSE Down(cursor)
    /\ pos' = pos - 1 /\ at' = "lookup"

(* The outcomes of a look-up that do not stop the batch: nothing to look   *)
(* up or nothing to count; a country that is new; an error.                *)
Complete ==
    /\ Looking /\ (Watching => ~cached /\ ~blocked)
    /\ Checked
    /\ UNCHANGED <<last, cached, blocked, stale, lost, faults>>

FindCountry ==
    /\ Looking /\ (Watching => ~cached) /\ ~blocked
    /\ at' = "read" /\ stale' = FALSE
    /\ UNCHANGED <<pend, cursor, pos, last, cached, blocked, lost, faults>>

FailLookup ==
    /\ Looking
    /\ IF Watching /\ ~cached THEN ~blocked /\ Fault /\ cached' = TRUE
       ELSE UNCHANGED <<faults, cached>>
    /\ pos' = pos - 1
    /\ UNCHANGED <<pend, cursor, last, at, blocked, stale, lost>>

(* The counter is written as it was read, plus one.                        *)
Reconcile ==
    /\ at = "read"
    /\ lost' = (lost \/ stale) /\ stale' = FALSE
    /\ Checked
    /\ UNCHANGED <<last, cached, blocked, faults>>

(* A rejected configuration: the cursor stays.                             *)
Stop ==
    /\ Looking /\ (Watching => ~cached)
    /\ IF blocked THEN UNCHANGED faults ELSE Fault
    /\ blocked' = TRUE
    /\ at' = "idle" /\ pos' = 0 /\ last' = 0
    /\ UNCHANGED <<pend, cursor, cached, stale, lost>>

Tick ==
    \/ ReadBatch \/ EndBatch
    \/ Complete \/ FindCountry \/ FailLookup \/ Reconcile \/ Stop

Next ==
    \/ Ingest \/ CountCountry \/ DeleteOldest \/ ErrorExpires \/ SaveSettings
    \/ Restart \/ Tick

(* The loop goes on, the cache expires, and an operator corrects what the  *)
(* provider rejects.                                                       *)
Fairness == WF_GSvars(Tick) /\ WF_GSvars(ErrorExpires) /\ WF_GSvars(SaveSettings)

Spec == Init /\ [][Next]_GSvars /\ Fairness

(***************************************************************************)
(* Properties                                                              *)
(***************************************************************************)
(* However many events come in and fail, and wherever a rejection or a     *)
(* deleted event interrupts a scan, the enrichment comes to every event.   *)
IsPending == \E p \in DOMAIN pend : pend[p] = "watched"
EveryEventChecked == IsPending ~> ~IsPending

(* A country that is found late is added to what others have counted.      *)
CountryCounted == ~lost

=============================================================================
