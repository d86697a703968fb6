------------------------------- MODULE Trends -------------------------------
(***************************************************************************)
(* The daily comparison of two windows of observed events: backend/app/     *)
(* services/insight_trends.py, run by the manager's hourly loop.            *)
(*                                                                          *)
(* A tick resumes the comparison of one day, looks at which sources feed    *)
(* every metric now, judges a bounded number of groups and commits how far  *)
(* it came.  Sources change, fail and recover, retention is set and old     *)
(* events are deleted between the ticks.  Every group has events in every   *)
(* window; whether they increased is left open.                             *)
(*                                                                          *)
(* A set of sources never comes back after it changed: the code can tell    *)
(* two sets apart only when a tick sees them.                               *)
(***************************************************************************)
EXTENDS Integers, FiniteSets

CONSTANTS
  Metric,      \* METRICS, as numbers in their order
  Group,       \* the assets or countries of a metric, as numbers in their order
  MaxGroups,   \* MAX_GROUPS
  Day,         \* instants of a day
  Half,        \* the length of a window, seven days
  Retentions,  \* the values of retention_days, 0 for no limit
  MaxTime, MaxSourceChanges

TrendsAssumption ==
  /\ Metric \subseteq Nat \ {0} /\ Group \subseteq Nat \ {0} /\ IsFiniteSet(Metric) /\ IsFiniteSet(Group)
  /\ {MaxGroups, Day, Half} \subseteq Nat \ {0} /\ Half % Day = 0
  /\ Retentions \subseteq Nat /\ Retentions # {} /\ {MaxTime, MaxSourceChanges} \subseteq Nat

VARIABLES
  now,
  source,        \* per metric, the enabled plugins and datasources: a number, 0 for none
  failing,       \* the metrics one of whose sources has an error or a warning
  retention,     \* retention_days
  watched,       \* insights.trends.sources: per metric the sources and observed_since
  cycle,         \* insights.trends.cycle
  insights,      \* the findings, with the time they were recorded
  changed,       \* per metric, when its sources changed (of the specification only)
  deleted,       \* the latest cutoff of a clean-up under this retention (ditto)
  judged,        \* the groups judged in this cycle (ditto)
  unready,       \* the metrics some tick of this cycle could not judge (ditto)
  sourceChanges  \* how often a source or the retention changed (ditto)

TRvars == <<now, source, failing, retention, watched, cycle, insights, changed, deleted, judged, unready, sourceChanges>>

Pair == Metric \X Group
Start == [metric |-> 0, group |-> 0]

TrendsTypeOK ==
  /\ now \in 0..MaxTime /\ source \in [Metric -> 0..MaxSourceChanges + 1] /\ failing \subseteq Metric
  /\ retention \in Retentions /\ watched \in [Metric -> [sources : -1..MaxSourceChanges + 1, observed : 0..MaxTime]]
  /\ cycle \in [end : -1..MaxTime, at : [metric : Metric \cup {0}, group : Group \cup {0}], completed : BOOLEAN]
  /\ insights \subseteq [of : Pair, end : -1..MaxTime]
  /\ changed \in [Metric -> 0..MaxTime] /\ deleted \in Int
  /\ judged \subseteq Pair /\ unready \subseteq Metric /\ sourceChanges \in 0..MaxSourceChanges

TrendsInit ==
  /\ now = 0 /\ source = [m \in Metric |-> 1] /\ failing = {} /\ retention \in Retentions
  /\ watched = [m \in Metric |-> [sources |-> -1, observed |-> 0]]
  /\ cycle = [end |-> -1, at |-> Start, completed |-> TRUE]
  /\ insights = {} /\ changed = [m \in Metric |-> 0] /\ deleted = -Half
  /\ judged = {} /\ unready = {} /\ sourceChanges = 0

-----------------------------------------------------------------------------
Pass ==
  /\ now < MaxTime /\ now' = now + 1
  /\ UNCHANGED <<source, failing, retention, watched, cycle, insights, changed, deleted, judged, unready, sourceChanges>>

\* A plugin or a datasource is switched on or off, the last one included.
ChangeSource(m) ==
  /\ sourceChanges < MaxSourceChanges
  /\ source' \in {[source EXCEPT ![m] = sourceChanges + 2], [source EXCEPT ![m] = 0]} \ {source}
  /\ changed' = [changed EXCEPT ![m] = now] /\ sourceChanges' = sourceChanges + 1
  /\ UNCHANGED <<now, failing, retention, watched, cycle, insights, deleted, judged, unready>>

ReportSource(m) ==
  /\ failing' = IF m \in failing THEN failing \ {m} ELSE failing \cup {m}
  /\ UNCHANGED <<now, source, retention, watched, cycle, insights, changed, deleted, judged, unready, sourceChanges>>

SetRetention ==
  /\ sourceChanges < MaxSourceChanges
  /\ retention' \in Retentions \ {retention}
  /\ deleted' = -Half /\ sourceChanges' = sourceChanges + 1
  /\ UNCHANGED <<now, source, failing, watched, cycle, insights, changed, judged, unready>>

\* The clean-up of old events.
CleanUp ==
  /\ retention > 0 /\ deleted' = now - retention
  /\ UNCHANGED <<now, source, failing, retention, watched, cycle, insights, changed, judged, unready, sourceChanges>>

-----------------------------------------------------------------------------
Today == now - (now % Day)

Begins(state) == state.end - 2 * Half

\* A day that was begun is finished before another one is.
Resumed ==
  IF cycle.completed /\ cycle.end # Today THEN [end |-> Today, at |-> Start, completed |-> FALSE] ELSE cycle

Observed(m) == IF watched[m].sources = source[m] THEN watched[m].observed ELSE now

\* Without a plugin there is nothing that fails.
Failed == {m \in failing : source[m] # 0}

Ready(m, state) ==
  /\ source[m] # 0 /\ m \notin Failed /\ Observed(m) <= Today - 2 * Half
  /\ retention = 0 \/ Begins(state) >= now - retention

\* Mutant: what is ready today is taken to be ready for the day that is resumed.
CoveredToday(m, state) == Ready(m, state)

Covered(m, state) == Ready(m, state) /\ Observed(m) <= Begins(state)

Before(p, q) == p[1] < q[1] \/ (p[1] = q[1] /\ p[2] < q[2])

\* Mutant: a metric that fails is passed over.
ReachableDespite(state) == {m \in Metric : m >= state.at.metric} \ Failed

\* The metrics before the first unfinished one whose source fails.
Reachable(state) ==
  {m \in Metric : m >= state.at.metric /\ ~(\E f \in Failed : state.at.metric <= f /\ f <= m)}

Pending(state) ==
  {p \in Pair : /\ p[1] \in Reachable(state) /\ Covered(p[1], state)
                /\ Before(<<state.at.metric, state.at.group>>, p)}

Completes(state) ==
  /\ Cardinality(Pending(state)) < MaxGroups
  /\ {m \in Metric : m >= state.at.metric} \cap Failed \subseteq Reachable(state)

Last(taken) == CHOOSE p \in taken : \A q \in taken : q = p \/ Before(q, p)

\* One that cannot judge a group counts the error and goes on.
TrendTick ==
  LET state == Resumed
      fresh == state # cycle
      taken == IF state.completed THEN {}
               ELSE {p \in Pending(state) : Cardinality({q \in Pending(state) : Before(q, p)}) < MaxGroups}
  IN  /\ watched' = [m \in Metric |-> [sources |-> source[m], observed |-> Observed(m)]]
      /\ cycle' = [end |-> state.end,
                   at |-> IF taken = {} THEN state.at ELSE [metric |-> Last(taken)[1], group |-> Last(taken)[2]],
                   completed |-> state.completed \/ Completes(state)]
      /\ \E increased \in {{}, taken} :
           insights' = insights \cup {[of |-> p, end |-> state.end] : p \in increased}
      /\ judged' = (IF fresh THEN {} ELSE judged) \cup taken
      /\ unready' = IF state.completed THEN unready
                    ELSE (IF fresh THEN {} ELSE unready) \cup {m \in Metric \ Failed : ~Covered(m, state)}
      /\ UNCHANGED <<now, source, failing, retention, changed, deleted, sourceChanges>>

TrendsNext ==
  \/ Pass \/ SetRetention \/ CleanUp \/ TrendTick
  \/ \E m \in Metric : ChangeSource(m) \/ ReportSource(m)

TrendsSpec == TrendsInit /\ [][TrendsNext]_TRvars

-----------------------------------------------------------------------------
\* What is reported as an increase compares two windows that the sources enabled
\* now have fed from the first day on, and of which no clean-up under the present
\* retention has deleted anything.
TrendCovered ==
  [][\A i \in insights' \ insights :
       /\ changed[i.of[1]] <= Begins(i) /\ source[i.of[1]] # 0
       /\ deleted <= Begins(i)]_TRvars

\* A comparison that is completed has judged every group of every metric that was
\* covered whenever a tick looked, whatever failed and recovered in between.
TrendDrained ==
  cycle.completed /\ cycle.end # -1 => (Metric \ unready) \X Group \subseteq judged
=============================================================================
