------------------------------ MODULE Rollups -------------------------------
(***************************************************************************)
(* Event counters: backend/app/services/events.py (update_rollups, the      *)
(* compaction of completed months and retention) and the two hourly loops of*)
(* the plugin manager that run it in worker threads.                        *)
(*                                                                          *)
(* Storing an event adds one to its day's counter under the app-wide write  *)
(* lock.  A compaction pass sums the days of every month that has left the  *)
(* dashboard's window, deletes them and adds the sum to the month's counter.*)
(* Passes exclude each other by a lock of their own, but the write lock is  *)
(* taken only by the first DELETE of a pass, after its first month was read.*)
(*                                                                          *)
(* One counter stands for the metric rows of an event: they are written and *)
(* merged together.                                                         *)
(***************************************************************************)
EXTENDS Integers

CONSTANTS
  LastDay,      \* days are 0..LastDay
  MonthLength,  \* days of a month
  TrendWindow,  \* DAILY_ROLLUP_WINDOW_DAYS
  Retention,    \* the retention_days setting
  MaxEvents,    \* events stored in a behaviour
  MaxAborts     \* passes that fail or are interrupted before their commit

RollupsAssumption ==
  /\ LastDay \in Nat /\ MaxEvents \in Nat /\ MaxAborts \in Nat
  /\ MonthLength \in Nat \ {0} /\ TrendWindow \in Nat \ {0} /\ Retention \in Nat \ {0}

Day == 0..LastDay

MonthOf(d) == d \div MonthLength

Month == {MonthOf(d) : d \in Day}

DaysOf(m) == {d \in Day : MonthOf(d) = m}

NoMonth == -1

Days == LastDay + 1

\* The sum of a counter over a set of days.
Total(f, S) ==
  LET before[n \in 0..Days] == IF n = 0 THEN 0 ELSE before[n - 1] + (IF n - 1 \in S THEN f[n - 1] ELSE 0)
  IN  before[Days]

\* _rollup_compaction_loop and _retention_cleanup_loop.
Pass == {"rollup", "retention"}

VARIABLES
  today,
  arrived,    \* per day, the events ever stored (of the specification only)
  raw,        \* per day, the events that are still in the events table
  daily,      \* aggregation_daily
  monthly,    \* aggregation_monthly
  writer,     \* the pass that holds the write lock, or "nobody"
  compactor,  \* the pass that holds _COMPACTION_LOCK, or "nobody"
  pass,       \* what each pass has read and not committed
  missed,     \* per month, events that a pass deleted uncounted (ditto)
  aborts      \* passes that failed (ditto)

ROvars == <<today, arrived, raw, daily, monthly, writer, compactor, pass, missed, aborts>>

\* at: where the pass is; todo: months left; month: the one whose sum is read;
\* late: events stored for it since (of the specification only); merged: per
\* month deleted in the open transaction, the sum added; gone: those months.
PassState ==
  [at : {"idle", "compacting", "deleting"}, todo : SUBSET Month, month : Month \cup {NoMonth},
   sum : Nat, late : Nat, gone : SUBSET Month, merged : [Month -> Nat], skipped : [Month -> Nat]]

NoPass == [at |-> "idle", todo |-> {}, month |-> NoMonth, sum |-> 0, late |-> 0, gone |-> {},
           merged |-> [m \in Month |-> 0], skipped |-> [m \in Month |-> 0]]

RollupsTypeOK ==
  /\ today \in Day
  /\ arrived \in [Day -> Nat] /\ raw \in [Day -> Nat] /\ daily \in [Day -> Nat]
  /\ monthly \in [Month -> Nat] /\ missed \in [Month -> Nat]
  /\ writer \in Pass \cup {"nobody"} /\ compactor \in Pass \cup {"nobody"}
  /\ pass \in [Pass -> PassState]
  /\ aborts \in 0..MaxAborts

RollupsInit ==
  /\ today = 0
  /\ arrived = [d \in Day |-> 0] /\ raw = arrived /\ daily = arrived
  /\ monthly = [m \in Month |-> 0] /\ missed = monthly
  /\ writer = "nobody" /\ compactor = "nobody"
  /\ pass = [p \in Pass |-> NoPass]
  /\ aborts = 0

-----------------------------------------------------------------------------
OldestRetainedMonth == (today - (TrendWindow - 1)) \div MonthLength

\* Mutant: a month that has a monthly row already is skipped.
CompactableOnce ==
  {m \in Month : m < OldestRetainedMonth /\ Total(daily, DaysOf(m)) > 0 /\ monthly[m] = 0}

Compactable == {m \in Month : m < OldestRetainedMonth /\ Total(daily, DaysOf(m)) > 0}

\* Mutant: a monthly row that exists already is not added to.
MergedOnce(p) ==
  [m \in Month |-> IF monthly[m] = 0 THEN pass[p].merged[m] ELSE monthly[m]]

Merged(p) == [m \in Month |-> monthly[m] + pass[p].merged[m]]

Remaining(p) == [d \in Day |-> IF MonthOf(d) \in pass[p].gone THEN 0 ELSE daily[d]]

NextDay ==
  /\ today < LastDay
  /\ today' = today + 1
  /\ UNCHANGED <<arrived, raw, daily, monthly, writer, compactor, pass, missed, aborts>>

\* store_event: an event of any day, whenever its log line is read.
StoreEvent(d) ==
  /\ writer = "nobody"
  /\ Total(arrived, Day) < MaxEvents
  /\ arrived' = [arrived EXCEPT ![d] = @ + 1]
  /\ raw' = [raw EXCEPT ![d] = @ + 1]
  /\ daily' = [daily EXCEPT ![d] = @ + 1]
  /\ pass' = [p \in Pass |-> IF pass[p].month = MonthOf(d)
                              THEN [pass[p] EXCEPT !.late = @ + 1] ELSE pass[p]]
  /\ UNCHANGED <<today, monthly, writer, compactor, missed, aborts>>

CompactionLock(p) == compactor = "nobody"

StartPass(p) ==
  /\ pass[p].at = "idle"
  /\ CompactionLock(p)
  /\ compactor' = p
  /\ pass' = [pass EXCEPT ![p] = [NoPass EXCEPT !.at = "compacting", !.todo = Compactable]]
  /\ UNCHANGED <<today, arrived, raw, daily, monthly, writer, missed, aborts>>

\* The sum of a month is read before the pass has the write lock, or under it
\* when it has deleted a month before.
ReadMonth(p) ==
  /\ pass[p].month = NoMonth
  /\ \E m \in pass[p].todo :
       pass' = [pass EXCEPT ![p] = [pass[p] EXCEPT !.month = m, !.todo = pass[p].todo \ {m},
                                                   !.sum = Total(daily, DaysOf(m)), !.late = 0]]
  /\ UNCHANGED <<today, arrived, raw, daily, monthly, writer, compactor, missed, aborts>>

\* The DELETE takes the write lock and keeps it to the end of the transaction.
DeleteMonth(p) ==
  LET m == pass[p].month
  IN  /\ m # NoMonth
      /\ writer \in {"nobody", p}
      /\ writer' = p
      /\ pass' = [pass EXCEPT ![p] = [pass[p] EXCEPT !.month = NoMonth, !.gone = pass[p].gone \cup {m},
                                                     !.merged[m] = pass[p].sum, !.skipped[m] = pass[p].late]]
      /\ UNCHANGED <<today, arrived, raw, daily, monthly, compactor, missed, aborts>>

AfterPass(p) == IF p = "retention" THEN [NoPass EXCEPT !.at = "deleting"] ELSE NoPass

CommitPass(p) ==
  /\ pass[p].at = "compacting"
  /\ pass[p].todo = {}
  /\ pass[p].month = NoMonth
  /\ daily' = Remaining(p)
  /\ monthly' = Merged(p)
  /\ missed' = [m \in Month |-> missed[m] + pass[p].skipped[m]]
  /\ writer' = IF writer = p THEN "nobody" ELSE writer
  /\ compactor' = "nobody"
  /\ pass' = [pass EXCEPT ![p] = AfterPass(p)]
  /\ UNCHANGED <<today, arrived, raw, aborts>>

\* The pass raises, or the process dies: the transaction is rolled back and
\* both locks are released.
AbortPass(p) ==
  /\ aborts < MaxAborts
  /\ aborts' = aborts + 1
  /\ pass[p].at # "idle"
  /\ writer' = IF writer = p THEN "nobody" ELSE writer
  /\ compactor' = IF compactor = p THEN "nobody" ELSE compactor
  /\ pass' = [pass EXCEPT ![p] = NoPass]
  /\ UNCHANGED <<today, arrived, raw, daily, monthly, missed>>

\* cleanup_events_by_retention after its compaction.
DeleteExpired ==
  /\ pass["retention"].at = "deleting"
  /\ writer = "nobody"
  /\ raw' = [d \in Day |-> IF d < today - Retention THEN 0 ELSE raw[d]]
  /\ pass' = [pass EXCEPT !["retention"] = NoPass]
  /\ UNCHANGED <<today, arrived, daily, monthly, writer, compactor, missed, aborts>>

PassStep(p) == StartPass(p) \/ ReadMonth(p) \/ DeleteMonth(p) \/ CommitPass(p)

RollupsNext ==
  \/ NextDay
  \/ \E d \in Day : StoreEvent(d)
  \/ \E p \in Pass : PassStep(p) \/ AbortPass(p)
  \/ DeleteExpired

RollupsSpec == RollupsInit /\ [][RollupsNext]_ROvars

\* Both loops run hourly for ever, a thread that waits for a lock gets it in the
\* end, and only finitely many passes (MaxAborts) are interrupted.
RollupsFairSpec ==
  /\ RollupsSpec
  /\ WF_ROvars(DeleteExpired)
  /\ \A p \in Pass : SF_ROvars(StartPass(p)) /\ SF_ROvars(DeleteMonth(p)) /\ WF_ROvars(PassStep(p))

-----------------------------------------------------------------------------
Counted(m) == monthly[m] + Total(daily, DaysOf(m))

\* The lock discipline: a pass that compacts holds the compaction
\* lock from its first read past its commit, and nobody else holds the write lock
\* longer than one step (events.py:364-374, session.py:62-93).
LocksNested ==
  /\ \A p \in Pass : compactor = p <=> pass[p].at = "compacting"
  /\ writer # "nobody" => writer = compactor /\ pass[writer].gone # {}

\* Whatever the passes, their failures and late events do, every stored event is
\* counted exactly once, in its day or in its month, except those stored between
\* a pass's sum of their month and its write lock (events.py:386-418).
CountsConserved == \A m \in Month : Counted(m) + missed[m] = Total(arrived, DaysOf(m))

\* A day that the dashboard's trend can show is not compacted away, and where its
\* raw events are retained as well the two say the same (events.py:379-384, 433-438).
TrendIsDaily ==
  \A d \in Day : d > today - TrendWindow /\ d <= today =>
    /\ daily[d] = arrived[d]
    /\ d >= today - Retention => raw[d] = daily[d]

\* A completed month outside the window loses its daily rows, however late its
\* events come: again and again there are none.
CompletedMonthCompacted ==
  []<>(\A m \in Month : m < OldestRetainedMonth => Total(daily, DaysOf(m)) = 0)

\* "exactly the daily rows deleted below are added to the monthly rollup ...
\* keeps monthly counts exact for every arrival order" (events.py:387-393).
CountsExact == \A m \in Month : Counted(m) = Total(arrived, DaysOf(m))

=============================================================================
