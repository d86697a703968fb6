--------------------------------- MODULE Level2 ---------------------------------
(***************************************************************************)
(* The Level 2 correlation cycle: backend/app/services/                     *)
(* insight_correlation.py.                                                  *)
(*                                                                          *)
(* Every tick continues one cycle over the bans of a fixed window of        *)
(* creation times, a few bans and a few rules at a time, and commits how    *)
(* far it came together with what it found.  The next window starts a fixed *)
(* overlap before the end of the last one, so that bans that are committed  *)
(* late and countries that are found late are judged again.  Rules come and *)
(* go at any time, as the rule refresh stores them and plugins are switched.*)
(*                                                                          *)
(* What a rule counts is left out: a ban is judged by a rule or it is not.  *)
(***************************************************************************)
EXTENDS Integers, FiniteSets, FiniteSetsExt

CONSTANTS
  Rule,            \* identifiers of scan_ban_chain rules; their order is that of the ids
  Ban,             \* identifiers of ban events, in the order of their inserts
  MaxBanAnchors,   \* MAX_BAN_ANCHORS
  MaxChainRules,   \* MAX_CHAIN_RULES
  RecheckMinutes,  \* RECHECK_MINUTES
  MaxTime,         \* how long the clock runs
  MaxChanges       \* how often a rule comes or goes

ASSUME Level2Assumption ==
  /\ Rule \subseteq Nat \ {0} /\ Ban \subseteq Nat \ {0} /\ IsFiniteSet(Rule) /\ IsFiniteSet(Ban)
  /\ {MaxBanAnchors, MaxChainRules} \subseteq Nat \ {0}
  /\ {RecheckMinutes, MaxTime, MaxChanges} \subseteq Nat

\* Before every time, and before the window of every time.
None == -1 - RecheckMinutes

VARIABLES
  now,
  active,   \* the rules that are active and available
  since,    \* per rule, since when it has been active (of the specification only)
  created,  \* per ban, its created_at
  stored,   \* the bans that are committed
  open,     \* the bans of the transaction that holds the write lock
  cycle,    \* insights.level2.cycle
  cutoff,   \* insights.level2.completed_cutoff
  tick,     \* the tick that is running
  judged,   \* per ban and rule, when it was last judged and committed
  began,    \* where the first window started (of the specification only)
  changes   \* ditto

vars == <<now, active, since, created, stored, open, cycle, cutoff, tick, judged, began, changes>>

NoCycle == [from |-> None, to |-> None, lastId |-> 0, lastRule |-> 0, batch |-> {}]
Idle == [running |-> FALSE, state |-> NoCycle, remaining |-> {}, anchors |-> {}, at |-> 0]

Time == 0..MaxTime
CycleState ==
  [from : None..MaxTime, to : None..MaxTime, lastId : Ban \cup {0}, lastRule : Rule \cup {0},
   batch : SUBSET Rule]
TickState ==
  [running : BOOLEAN, state : CycleState, remaining : SUBSET Rule, anchors : SUBSET Ban, at : Time]

TypeOK ==
  /\ now \in Time /\ active \subseteq Rule /\ since \in [Rule -> Time]
  /\ created \in [Ban -> Time \cup {None}] /\ stored \subseteq Ban /\ open \subseteq Ban
  /\ cutoff \in Time \cup {None} /\ cycle \in CycleState /\ tick \in TickState
  /\ judged \in [Ban \X Rule -> Time \cup {None}]
  /\ began \in None..MaxTime /\ changes \in 0..MaxChanges

Init ==
  /\ now = 0 /\ active \in SUBSET Rule /\ since = [r \in Rule |-> 0]
  /\ created = [b \in Ban |-> None] /\ stored = {} /\ open = {}
  /\ cycle = NoCycle /\ cutoff = None /\ tick = Idle
  /\ judged = [p \in Ban \X Rule |-> None] /\ began = None /\ changes = 0

-----------------------------------------------------------------------------
\* A batch of events that holds bans is committed within the overlap.
Minute ==
  /\ now < MaxTime /\ \A b \in open : created[b] + RecheckMinutes > now
  /\ now' = now + 1
  /\ UNCHANGED <<active, since, created, stored, open, cycle, cutoff, tick, judged, began, changes>>

\* The insert gives the ban its id and its created_at and holds the write lock.
StoreBan(b) ==
  /\ created[b] = None /\ \A c \in Ban : c < b => created[c] # None
  /\ created' = [created EXCEPT ![b] = now]
  /\ open' = open \cup {b}
  /\ UNCHANGED <<now, active, since, stored, cycle, cutoff, tick, judged, began, changes>>

CommitBans ==
  /\ open # {}
  /\ stored' = stored \cup open /\ open' = {}
  /\ UNCHANGED <<now, active, since, created, cycle, cutoff, tick, judged, began, changes>>

\* A rule is imported, dropped or made available: insight_rules.py, InsightRules.
ChangeRule(r) ==
  /\ changes < MaxChanges /\ open = {}
  /\ active' = IF r \in active THEN active \ {r} ELSE active \cup {r}
  /\ since' = [since EXCEPT ![r] = now]
  /\ changes' = changes + 1
  /\ UNCHANGED <<now, created, stored, open, cycle, cutoff, tick, judged, began>>

-----------------------------------------------------------------------------
First(S, n) == {x \in S : Cardinality({y \in S : y <= x}) <= n}

\* A new window advances from the completed one, even if draining that one took
\* longer than the overlap.
NewWindow(time) ==
  LET previous == IF cutoff = None THEN time ELSE cutoff
  IN  [NoCycle EXCEPT !.from = previous - RecheckMinutes,
                      !.to = IF time > previous THEN time ELSE previous]

Resumed == IF cycle = NoCycle THEN NewWindow(now) ELSE cycle

\* The rules of a batch are fixed when it starts; the bans are those committed now.
ReadTick ==
  LET state == Resumed
      remaining == {r \in active : r > state.lastRule}
      window == {b \in stored : created[b] >= state.from /\ created[b] <= state.to /\ b > state.lastId}
  IN  /\ ~tick.running
      /\ tick' = [running |-> TRUE, remaining |-> remaining, anchors |-> First(window, MaxBanAnchors), at |-> now,
                  state |-> IF state.batch = {} THEN [state EXCEPT !.batch = First(remaining, MaxChainRules)]
                            ELSE state]
      /\ UNCHANGED <<now, active, since, created, stored, open, cycle, cutoff, judged, began, changes>>

BatchEnd(state) == IF state.batch = {} THEN state.lastRule ELSE Max(state.batch)

\* Mutant: the next batch goes on where the last one stopped.
NextBatchFromCursor(state) == [state EXCEPT !.lastRule = BatchEnd(state), !.batch = {}]

\* Every batch of rules drains the same window.
NextBatch(state) == [state EXCEPT !.lastRule = BatchEnd(state), !.lastId = 0, !.batch = {}]

Judged(anchors, rules, at) ==
  [p \in Ban \X Rule |-> IF p[1] \in anchors /\ p[2] \in rules THEN at ELSE judged[p]]

\* One that cannot judge a pair counts the error and goes on.
CommitTick ==
  LET state == tick.state
      rules == tick.remaining \cap state.batch
      drained == state.batch = {} \/ Cardinality(tick.anchors) < MaxBanAnchors
      completed == drained /\ \A r \in tick.remaining : r <= BatchEnd(state)
  IN  /\ tick.running /\ open = {}
      /\ judged' = Judged(tick.anchors, rules, tick.at)
      /\ cycle' = IF completed THEN NoCycle
                  ELSE IF drained THEN NextBatch(state)
                  ELSE [state EXCEPT !.lastId = Max(tick.anchors)]
      /\ cutoff' = IF completed THEN state.to ELSE cutoff
      /\ began' = IF began = None THEN state.from ELSE began
      /\ tick' = Idle
      /\ UNCHANGED <<now, active, since, created, stored, open, changes>>

\* The process ends, or the commit fails: the tick is repeated as a whole.
LoseTick ==
  /\ tick.running /\ tick' = Idle
  /\ UNCHANGED <<now, active, since, created, stored, open, cycle, cutoff, judged, began, changes>>

Next ==
  \/ Minute \/ CommitBans \/ ReadTick \/ CommitTick \/ LoseTick
  \/ \E b \in Ban : StoreBan(b)
  \/ \E r \in Rule : ChangeRule(r)

Spec == Init /\ [][Next]_vars

-----------------------------------------------------------------------------
\* Once a window has ended more than the overlap after a ban was created, and the
\* ban was not before the first window, every rule that has been active since then
\* has judged the ban at a time when it was older than the overlap: what became
\* known of it in that time has been seen, however the window was drained and
\* however late the ban was committed.
BansJudgedWhenSettled ==
  \A b \in stored, r \in active :
    created[b] >= began /\ cutoff > created[b] + RecheckMinutes /\ since[r] <= created[b] + RecheckMinutes
      => judged[<<b, r>>] >= created[b] + RecheckMinutes
=============================================================================
