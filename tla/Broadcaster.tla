---------------------------- MODULE Broadcaster ----------------------------
(***************************************************************************)
(* Live updates: one task polls the newest event and whether any           *)
(* datasource is on (services/event_broadcaster.py), and fans a change out *)
(* to the queues of the open pages, each of which holds the latest state   *)
(* only; a websocket (main.py) passes it on and ends with its session.     *)
(***************************************************************************)
EXTENDS Integers

CONSTANTS
    Clients,     \* open pages
    MaxId,       \* bound: events ever stored
    MaxFaults    \* bound: polls that fail

BroadcasterAssumption == MaxId \in Nat /\ MaxFaults \in Nat

VARIABLES
    newest,      \* the highest event id
    on,          \* a datasource is enabled
    valid,       \* clients whose session resolves
    running,     \* the task polls; a first poll has made the state ready
    state,       \* the state the broadcaster knows
    reading,     \* what a poll in its thread has read
    queue,       \* the queue of a client
    phase,       \* "away", "starting" or "open"
    last,        \* the last id a client was told
    faults

BRvars == <<newest, on, valid, running, state, reading, queue, phase, last, faults>>

Nothing == [on |-> FALSE, id |-> -1]
States == [on : BOOLEAN, id : 0..MaxId] \union {Nothing}

TypeOK ==
    /\ newest \in 0..MaxId /\ {on, running} \subseteq BOOLEAN
    /\ valid \subseteq Clients
    /\ {state, reading} \subseteq States /\ queue \in [Clients -> States]
    /\ phase \in [Clients -> {"away", "starting", "open"}]
    /\ last \in [Clients -> 0..MaxId]
    /\ faults \in 0..MaxFaults

Init ==
    /\ newest = 0 /\ on = TRUE /\ valid = Clients
    /\ running = FALSE /\ state = Nothing /\ reading = Nothing
    /\ queue = [c \in Clients |-> Nothing]
    /\ phase = [c \in Clients |-> "away"]
    /\ last = [c \in Clients |-> 0] /\ faults = 0

(***************************************************************************)
(* The others                                                              *)
(***************************************************************************)
StoreEvent ==
    /\ newest < MaxId /\ newest' = newest + 1
    /\ UNCHANGED <<on, valid, running, state, reading, queue, phase, last, faults>>

ToggleDatasource ==
    /\ on' = ~on
    /\ UNCHANGED <<newest, valid, running, state, reading, queue, phase, last, faults>>

Revoke(c) ==
    /\ c \in valid /\ valid' = valid \ {c}
    /\ UNCHANGED <<newest, on, running, state, reading, queue, phase, last, faults>>

(***************************************************************************)
(* Polling: a read in a thread, then the loop takes its result             *)
(***************************************************************************)
Starting == {c \in Clients : phase[c] = "starting"}

PollRead ==
    /\ reading = Nothing /\ (running \/ Starting # {})
    /\ reading' = [on |-> on, id |-> newest]
    /\ UNCHANGED <<newest, on, valid, running, state, queue, phase, last, faults>>

IfEmpty(c) == IF queue[c] = Nothing THEN reading ELSE queue[c]  \* mutant of the next
LatestWins(c) == reading

Broadcast == [c \in Clients |-> IF phase[c] = "open" THEN LatestWins(c) ELSE Nothing]

PollApply ==
    /\ reading # Nothing
    /\ queue' = IF state # Nothing /\ reading # state THEN Broadcast ELSE queue
    /\ state' = reading /\ reading' = Nothing
    /\ running' = TRUE
    /\ UNCHANGED <<newest, on, valid, phase, last, faults>>

(* A poll that fails ends the connection that waited for the first one.    *)
PollFail ==
    /\ reading # Nothing /\ faults < MaxFaults
    /\ faults' = faults + 1 /\ reading' = Nothing
    /\ IF running THEN UNCHANGED phase
       ELSE \E c \in Starting : phase' = [phase EXCEPT ![c] = "away"]
    /\ UNCHANGED <<newest, on, valid, running, state, queue, last>>

(***************************************************************************)
(* A websocket                                                             *)
(***************************************************************************)
Connect(c) ==
    /\ phase[c] = "away" /\ c \in valid
    /\ phase' = [phase EXCEPT ![c] = "starting"]
    /\ UNCHANGED <<newest, on, valid, running, state, reading, queue, last, faults>>

Subscribe(c) ==
    /\ phase[c] = "starting" /\ running
    /\ phase' = [phase EXCEPT ![c] = IF state.on THEN "open" ELSE "away"]
    /\ last' = [last EXCEPT ![c] = IF state.on THEN state.id ELSE 0]
    /\ UNCHANGED <<newest, on, valid, running, state, reading, queue, faults>>

Close(c) ==
    /\ phase' = [phase EXCEPT ![c] = "away"]
    /\ last' = [last EXCEPT ![c] = 0]
    /\ queue' = [queue EXCEPT ![c] = Nothing]

Take(c) ==
    /\ phase[c] = "open" /\ queue[c] # Nothing
    /\ IF ~queue[c].on THEN Close(c)
       ELSE /\ queue' = [queue EXCEPT ![c] = Nothing]
            /\ last' = [last EXCEPT ![c] = IF queue[c].id > @ THEN queue[c].id ELSE @]
            /\ UNCHANGED phase
    /\ UNCHANGED <<newest, on, valid, running, state, reading, faults>>

CheckSession(c) ==
    /\ phase[c] = "open" /\ c \notin valid
    /\ Close(c)
    /\ UNCHANGED <<newest, on, valid, running, state, reading, faults>>

Disconnect(c) ==
    /\ phase[c] = "open" /\ Close(c)
    /\ UNCHANGED <<newest, on, valid, running, state, reading, faults>>

Poll == PollRead \/ PollApply
Next ==
    \/ StoreEvent \/ ToggleDatasource
    \/ Poll \/ PollFail
    \/ \E c \in Clients : \/ Revoke(c) \/ Connect(c) \/ Subscribe(c) \/ Take(c)
                          \/ CheckSession(c) \/ Disconnect(c)

(* The task polls every second, and the loop serves each connection.       *)
Fairness ==
    /\ WF_BRvars(Poll)
    /\ \A c \in Clients : WF_BRvars(Subscribe(c)) /\ WF_BRvars(Take(c)) /\ WF_BRvars(CheckSession(c))

Spec == Init /\ [][Next]_BRvars /\ Fairness

(***************************************************************************)
(* Properties                                                              *)
(***************************************************************************)
(* An open page is told of the newest event, whatever it was busy with     *)
(* while the queue changed, and a page without a session is closed.        *)
ClientsFollow ==
    \A c \in Clients :
        /\ \A n \in 1..MaxId : (phase[c] = "open" /\ newest = n) ~> (phase[c] # "open" \/ last[c] >= n)
        /\ (phase[c] = "open" /\ c \notin valid) ~> phase[c] # "open"

=============================================================================
