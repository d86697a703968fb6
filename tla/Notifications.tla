----------------------------- MODULE Notifications -----------------------------
(***************************************************************************)
(* Mail notifications: backend/app/services/notifications.py, the pages     *)
(* that change its rules and the dispatch loop of the plugin manager.       *)
(*                                                                          *)
(* Ingestion, enrichment and the asset update check queue a row for every   *)
(* rule an item matches, judged by rules cached in the process.  Every      *)
(* thirty seconds a dispatcher claims systems that went offline and mails   *)
(* what is pending: a mail leaves before the rows that record it are        *)
(* committed.  Operators switch rules, mail and plugins at any time.        *)
(*                                                                          *)
(* Times are ages in minutes.  Payloads are left out: a repeated event only *)
(* refreshes the text of its pending row.  Ingestion and enrichment are one *)
(* thread here: they share the soft limit of pending rows, which neither    *)
(* counts under a common lock.                                              *)
(***************************************************************************)
EXTENDS Integers, FiniteSets

CONSTANTS
  Rule, Item, System,
  Source,       \* Source[r]: what a rule is about: "event", "insight", "asset", "offline"
  Kind,         \* Kind[i]: what an item is: "event", "insight", "asset"
  MinCount,     \* MinCount[r]: min_count
  Ttl,          \* RULE_CACHE_TTL_SECONDS
  Backlog,      \* BACKLOG_PROTECTION_WINDOW
  Window,       \* window_minutes
  Cooldown,     \* cooldown_minutes
  Limit,        \* PENDING_NOTIFICATION_LIMIT
  StaleAfter,   \* asset_stale_threshold
  Late,         \* how late an event is ingested
  Slow,         \* how long a dispatch takes
  MaxSeen,      \* how often a system is seen again
  MaxChanges,   \* changes operators make
  MaxLost       \* dispatches that are lost before their commit

ASSUME NotificationsAssumption ==
  /\ Source \in [Rule -> {"event", "insight", "asset", "offline"}]
  /\ Kind \in [Item -> {"event", "insight", "asset"}]
  /\ MinCount \in [Rule -> Nat \ {0}]
  /\ Item # {} /\ Item \cap (System \X (0..MaxSeen)) = {}
  /\ {Ttl, Backlog, Window, Cooldown, Limit, StaleAfter, Late, Slow, MaxSeen, MaxChanges, MaxLost} \subseteq Nat

Never == -1

\* An age is counted as far as it is compared: up to the first value past the bound.
RowTop == 1 + Slow + (IF Backlog > Window THEN Backlog ELSE Window)
SentTop == 1 + Slow + Cooldown
EventTop == 1 + (IF Backlog > Late THEN Backlog ELSE Late)

VARIABLES
  on,        \* the rules that are enabled and available, as committed
  master,    \* notifications.enabled, as committed
  smtp,      \* the mail settings are complete, as committed
  cache,     \* _rules_cache with its switches, and the age of _rules_loaded_at
  stale,     \* a change is committed whose invalidate_rules_cache has not run
  age,       \* per item, the age of its event_time
  handled,   \* per item, how often it was handled
  seen,      \* per system, its last_seen: which, and how long ago
  claimed,   \* per system, offline_event_for_last_seen
  rows,      \* the notifications table
  ingest,    \* the thread that stores or enriches an item
  mailer,    \* the thread that dispatches
  mailed,    \* rows whose mail left, and those for which two left (of the specification only)
  lost,      \* rows that were in a dispatch that was lost (ditto)
  changes    \* changes made and dispatches lost (ditto)

vars == <<on, master, smtp, cache, stale, age, handled, seen, claimed, rows,
          ingest, mailer, mailed, lost, changes>>

saved == <<on, master, smtp>>
history == <<mailed, lost, changes>>
sightings == <<seen, claimed>>

\* Offline events are named by the system and which last_seen they report.
Report == System \X (0..MaxSeen)

Subject == Item \cup Report

\* by: the handling of the item that queued the row.
Row == [rule : Rule, item : Subject, by : 0..2, age : 0..RowTop,
        status : {"pending", "sent", "failed", "skipped"}, sent : 0..SentTop \cup {Never}]

CacheState == [age : 0..Ttl \cup {Never}, rules : SUBSET Rule, use : BOOLEAN]

\* What a dispatch decided about a row.
Mark == [row : Row, status : {"sent", "failed", "skipped"}, sent : 0..SentTop \cup {Never}]

IngestState == [at : {"idle", "consult", "fill", "queue", "commit"}, item : Item, holds : BOOLEAN,
                read : CacheState, new : SUBSET Row]

MailerState == [at : {"idle", "claim", "mail"}, age : 0..Slow + 1, systems : SUBSET Report,
                rules : SUBSET Rule, holds : BOOLEAN, claims : SUBSET Report,
                flushed : SUBSET Row, new : SUBSET Row, done : SUBSET Mark]

Unloaded == [age |-> Never, rules |-> {}, use |-> FALSE]

Rest == [at |-> "idle", item |-> CHOOSE i \in Item : TRUE, holds |-> FALSE, read |-> Unloaded, new |-> {}]

Idle == [at |-> "idle", age |-> 0, systems |-> {}, rules |-> {}, holds |-> FALSE,
         claims |-> {}, flushed |-> {}, new |-> {}, done |-> {}]

TypeOK ==
  /\ on \subseteq Rule /\ {master, smtp, stale} \subseteq BOOLEAN
  /\ cache \in CacheState
  /\ age \in [Item -> 0..EventTop \cup {Never}] /\ handled \in [Item -> 0..2]
  /\ seen \in [System -> [no : 0..MaxSeen, age : 0..StaleAfter + 1]]
  /\ claimed \in [System -> 0..MaxSeen \cup {Never}]
  /\ rows \subseteq Row
  /\ ingest \in IngestState /\ mailer \in MailerState

Init ==
  /\ on \in SUBSET Rule /\ master = TRUE /\ smtp = TRUE
  /\ cache = Unloaded /\ stale = FALSE
  /\ age = [i \in Item |-> Never] /\ handled = [i \in Item |-> 0]
  /\ seen = [s \in System |-> [no |-> 0, age |-> 0]] /\ claimed = [s \in System |-> Never]
  /\ rows = {} /\ ingest = Rest /\ mailer = Idle
  /\ mailed = [once |-> {}, twice |-> {}] /\ lost = {}
  /\ changes = [made |-> 0, lost |-> 0]

-----------------------------------------------------------------------------
\* The app-wide write lock: held from the first flush or bulk update of a
\* transaction to its end.  A new event is flushed before it is handled; an
\* enriched one and its notifications are flushed by the commit.
LockFree == ~ingest.holds /\ ~mailer.holds

Older(a, top) == IF a \in {Never, top} THEN a ELSE a + 1

Aged(table) == {[n EXCEPT !.age = Older(@, RowTop), !.sent = Older(@, SentTop)] : n \in table}

\* A minute passes; handling one item takes less.
Tick ==
  /\ ingest.at = "idle"
  /\ mailer.at # "idle" => mailer.age < Slow
  /\ cache' = [cache EXCEPT !.age = Older(@, Ttl)]
  /\ age' = [i \in Item |-> Older(age[i], EventTop)]
  /\ seen' = [s \in System |-> [seen[s] EXCEPT !.age = Older(@, StaleAfter + 1)]]
  /\ rows' = Aged(rows)
  /\ mailer' = [mailer EXCEPT !.age = IF mailer.at = "idle" THEN 1 ELSE @ + 1,
                  !.flushed = Aged(@), !.new = Aged(@),
                  !.done = {[row |-> [d.row EXCEPT !.age = Older(@, RowTop), !.sent = Older(@, SentTop)],
                             sent |-> Older(d.sent, SentTop), status |-> d.status] : d \in @}]
  /\ UNCHANGED <<saved, stale, handled, claimed, ingest, mailed, lost, changes>>

\* save_notification_rules, save_notification_settings, save_plugin_settings:
\* the commit, and in a step of its own the invalidation.
Save ==
  /\ LockFree /\ ~stale /\ changes.made < MaxChanges
  /\ \/ /\ \E r \in Rule : on' = (on \ {r}) \cup ({r} \ on)
        /\ UNCHANGED <<master, smtp>>
     \/ master' = ~master /\ UNCHANGED <<on, smtp>>
     \/ smtp' = ~smtp /\ UNCHANGED <<on, master>>
     \/ UNCHANGED saved
  /\ stale' = TRUE
  /\ changes' = [changes EXCEPT !.made = @ + 1]
  /\ UNCHANGED <<cache, age, handled, sightings, rows, ingest, mailer, mailed, lost>>

Invalidate ==
  /\ stale
  /\ stale' = FALSE /\ cache' = Unloaded
  /\ UNCHANGED <<saved, age, handled, sightings, rows, ingest, mailer, history>>

\* An asset import that finds a system again.
SeeSystem(s) ==
  /\ LockFree /\ seen[s].age > 0 /\ seen[s].no < MaxSeen
  /\ seen' = [seen EXCEPT ![s] = [no |-> @.no + 1, age |-> 0]]
  /\ UNCHANGED <<saved, cache, stale, age, handled, claimed, rows, ingest, mailer, history>>

-----------------------------------------------------------------------------
Fresh(c) == c.age # Never /\ c.age < Ttl

Loaded == [age |-> 0, rules |-> on, use |-> master /\ smtp]

\* What a query of the open transaction sees.
Table == rows \cup mailer.flushed

PendingOf(rule) == {n \in Table : n.rule = rule /\ n.status = "pending"}

\* The limit counts the pending rows of the rule's window.
Full(rule) ==
  MinCount[rule] = 1 /\ Cardinality({n \in PendingOf(rule) : n.age <= Window}) >= Limit

\* Mutant: an event is looked for among the rows that are pending.
QueuedPending(rule, item) == \E n \in PendingOf(rule) : n.item = item

\* An event is looked for among the rule's rows of the backlog window.
Queued(rule, item) == \E n \in Table : n.rule = rule /\ n.item = item /\ n.age <= Backlog

NewRows(item, by, rules) ==
  {[rule |-> r, item |-> item, by |-> by, age |-> 0, status |-> "pending", sent |-> Never] :
     r \in {q \in rules : ~Full(q) /\ (Source[q] \in {"event", "offline"} => ~Queued(q, item))}}

About(i) == {r \in Rule : Source[r] = Kind[i]}

-----------------------------------------------------------------------------
\* store_event for a new event, record_insight for a new insight.
Store(i) ==
  /\ ingest.at = "idle" /\ LockFree
  /\ handled[i] = 0 /\ Kind[i] # "asset"
  /\ \E a \in 0..Late : age' = [age EXCEPT ![i] = a]
  /\ handled' = [handled EXCEPT ![i] = 1]
  /\ ingest' = [Rest EXCEPT !.at = "consult", !.item = i, !.holds = TRUE]
  /\ UNCHANGED <<saved, cache, stale, sightings, rows, mailer, history>>

\* GeoIP found the country of an event: it is handled once more.
Enrich(i) ==
  /\ ingest.at = "idle"
  /\ handled[i] = 1 /\ Kind[i] = "event"
  /\ handled' = [handled EXCEPT ![i] = 2]
  /\ ingest' = [Rest EXCEPT !.at = "consult", !.item = i]
  /\ UNCHANGED <<saved, cache, stale, age, sightings, rows, mailer, history>>

\* _active_rules: a cache that is too old is read anew, and filled in a step of
\* its own: a change may be committed and the cache invalidated in between.
ConsultCache ==
  /\ ingest.at = "consult"
  /\ ingest' = IF Fresh(cache) THEN [ingest EXCEPT !.at = "queue"]
               ELSE [ingest EXCEPT !.at = "fill", !.read = Loaded]
  /\ UNCHANGED <<saved, cache, stale, age, handled, sightings, rows, mailer, history>>

FillCache ==
  /\ ingest.at = "fill"
  /\ cache' = ingest.read
  /\ ingest' = [ingest EXCEPT !.at = "queue", !.read = Unloaded]
  /\ UNCHANGED <<saved, stale, age, handled, sightings, rows, mailer, history>>

Recent(i) == age[i] <= Backlog

\* The cache that was checked or filled is read again: invalidated in between,
\* it matches nothing.  A rule may match an event only once its country is known.
Queue ==
  LET i == ingest.item
  IN  /\ ingest.at = "queue"
      /\ \E matched \in SUBSET (About(i) \cap cache.rules) :
           ingest' = [ingest EXCEPT !.at = "commit",
             !.new = IF cache.use /\ Recent(i) THEN NewRows(i, handled[i], matched) ELSE {}]
      /\ UNCHANGED <<saved, cache, stale, age, handled, sightings, rows, mailer, history>>

CommitItem ==
  /\ ingest.at = "commit" /\ ~mailer.holds
  /\ rows' = rows \cup ingest.new
  /\ ingest' = Rest
  /\ UNCHANGED <<saved, cache, stale, age, handled, sightings, mailer, history>>

\* refresh_asset_updates: one transaction that flushes nothing before its end,
\* so that the limit does not see the rows it adds.
RefreshAssets ==
  LET used == IF Fresh(cache) THEN cache ELSE Loaded
  IN  /\ LockFree
      /\ \E found \in SUBSET {i \in Item : Kind[i] = "asset" /\ handled[i] = 0} :
           /\ found # {}
           /\ handled' = [i \in Item |-> IF i \in found THEN 1 ELSE handled[i]]
           /\ rows' = rows \cup UNION {IF used.use THEN NewRows(i, 1, About(i) \cap used.rules) ELSE {} : i \in found}
      /\ cache' = used
      /\ UNCHANGED <<saved, stale, age, sightings, ingest, mailer, history>>

Ingest == ConsultCache \/ FillCache \/ Queue \/ CommitItem

-----------------------------------------------------------------------------
\* The loop has slept since the last dispatch; _detect_offline_systems reads the
\* systems to report, without a lock.
StartTick ==
  /\ mailer.at = "idle" /\ mailer.age = 1
  /\ mailer' = [Idle EXCEPT !.at = "claim",
       !.systems = {<<s, seen[s].no>> : s \in {q \in System : seen[q].age > StaleAfter /\ claimed[q] # seen[q].no}}]
  /\ UNCHANGED <<saved, cache, stale, age, handled, sightings, rows, ingest, history>>

\* Mutant: the claim is not conditional.
ClaimableAlways(s, no) == TRUE

\* _claim_offline_system: only what is still as it was read.
Claimable(s, no) == seen[s].no = no /\ claimed[s] # no

\* The offline event is stored and handled in the dispatcher's transaction;
\* its flush makes the rows of the event before it visible.
Claim(s, no) ==
  LET used == IF Fresh(cache) THEN cache ELSE Loaded
      rest == [mailer EXCEPT !.systems = @ \ {<<s, no>>}, !.holds = TRUE]
      visible == mailer.flushed \cup mailer.new
  IN  /\ mailer.at = "claim" /\ <<s, no>> \in mailer.systems
      /\ ~ingest.holds
      /\ IF Claimable(s, no)
           THEN /\ cache' = used
                /\ mailer' = [rest EXCEPT !.claims = @ \cup {<<s, no>>}, !.flushed = visible,
                     !.new = IF used.use
                               THEN NewRows(<<s, no>>, 0, {r \in used.rules : Source[r] = "offline"}) ELSE {}]
           ELSE mailer' = rest /\ UNCHANGED cache
      /\ UNCHANGED <<saved, stale, age, handled, sightings, rows, ingest, history>>

\* With mail switched off the tick ends here; the rows stay pending.
ListRules ==
  /\ mailer.at = "claim" /\ mailer.systems = {}
  /\ mailer' = [mailer EXCEPT !.at = "mail", !.age = 0,
                  !.rules = IF master THEN {r \in Rule : PendingOf(r) # {}} ELSE {}]
  /\ UNCHANGED <<saved, cache, stale, age, handled, sightings, rows, ingest, history>>

\* Mutant: below the threshold nothing leaves the window.
InWindowFrozen(rule) == PendingOf(rule)

InWindow(rule) == {n \in PendingOf(rule) : n.age - mailer.age <= Window}

TooFew(rule) == MinCount[rule] > 1 /\ Cardinality(InWindow(rule)) < MinCount[rule]

Cooling(rule) == \E n \in Table : n.rule = rule /\ n.status = "sent" /\ n.sent - mailer.age <= Cooldown

Marked(table, status, sent) == {[row |-> n, status |-> status, sent |-> sent] : n \in table}

\* What is done with the pending rows of one rule, in the order of the checks.
Settle(rule, marks, takesLock) ==
  /\ mailer.at = "mail" /\ rule \in mailer.rules
  /\ mailer' = [mailer EXCEPT !.rules = @ \ {rule}, !.done = @ \cup marks, !.holds = @ \/ takesLock]
  /\ UNCHANGED <<saved, cache, stale, age, handled, sightings, rows, ingest, lost, changes>>

\* A rule switched off or no longer available: a bulk update, which takes the lock.
SkipRule(rule) ==
  /\ rule \notin on /\ ~ingest.holds
  /\ Settle(rule, Marked(PendingOf(rule), "skipped", Never), TRUE)
  /\ UNCHANGED mailed

\* Below the threshold only what has left the window is skipped.
AwaitThreshold(rule) ==
  /\ rule \in on /\ smtp /\ TooFew(rule)
  /\ Settle(rule, Marked(PendingOf(rule) \ InWindow(rule), "skipped", Never), FALSE)
  /\ UNCHANGED mailed

\* The channel is not configured, or the rule's last mail is too recent.
Defer(rule) ==
  /\ rule \in on
  /\ ~smtp \/ (~TooFew(rule) /\ Cooling(rule))
  /\ Settle(rule, {}, FALSE)
  /\ UNCHANGED mailed

\* Everything that is pending, the oldest first, goes into one mail.
Digest(rule) == {<<n.rule, n.item, n.by>> : n \in PendingOf(rule)}

\* A mail that failed may have left all the same.
Outcome == {"sent", "failed"}

\* Either outcome is final.
Send(rule, outcome) ==
  /\ rule \in on /\ smtp /\ ~TooFew(rule) /\ ~Cooling(rule)
  /\ Settle(rule, Marked(PendingOf(rule), outcome, IF outcome = "sent" THEN 0 ELSE Never), FALSE)
  /\ mailed' = [once |-> mailed.once \cup Digest(rule),
                twice |-> mailed.twice \cup (mailed.once \cap Digest(rule))]

MailRule(r) == SkipRule(r) \/ AwaitThreshold(r) \/ Defer(r) \/ \E o \in Outcome : Send(r, o)

\* Mutant: what a failed mail reported stays pending.
RecordedUnlessFailed(d) ==
  IF d.status = "failed" THEN d.row ELSE [d.row EXCEPT !.status = d.status, !.sent = d.sent]

Recorded(d) == [d.row EXCEPT !.status = d.status, !.sent = d.sent]

CommitTick ==
  /\ mailer.at = "mail" /\ mailer.rules = {} /\ ~ingest.holds
  /\ rows' = (Table \ {d.row : d \in mailer.done}) \cup {Recorded(d) : d \in mailer.done} \cup mailer.new
  /\ claimed' = [s \in System |-> IF \E c \in mailer.claims : c[1] = s
                                  THEN (CHOOSE c \in mailer.claims : c[1] = s)[2] ELSE claimed[s]]
  /\ mailer' = Idle
  /\ UNCHANGED <<saved, cache, stale, age, handled, seen, ingest, history>>

\* The commit fails or the process ends: the mails have left all the same.
LoseTick ==
  /\ mailer.at # "idle" /\ changes.lost < MaxLost
  /\ changes' = [changes EXCEPT !.lost = @ + 1]
  /\ lost' = lost \cup {<<d.row.rule, d.row.item, d.row.by>> : d \in mailer.done}
  /\ mailer' = Idle
  /\ UNCHANGED <<saved, cache, stale, age, handled, sightings, rows, ingest, mailed>>

ClaimAny == \E c \in System \X (0..MaxSeen) : Claim(c[1], c[2])

Dispatch == StartTick \/ ClaimAny \/ ListRules \/ (\E r \in Rule : MailRule(r)) \/ CommitTick

Next ==
  \/ Tick \/ Save \/ Invalidate \/ Ingest \/ RefreshAssets \/ Dispatch \/ LoseTick
  \/ \E i \in Item : Store(i) \/ Enrich(i)
  \/ \E s \in System : SeeSystem(s)

Spec == Init /\ [][Next]_vars

\* Time passes, threads are scheduled and the dispatcher runs again and again.
FairSpec ==
  Spec /\ WF_vars(Tick) /\ WF_vars(Invalidate) /\ WF_vars(Ingest) /\ WF_vars(Dispatch)

-----------------------------------------------------------------------------
\* An event or insight has one row per rule, however often and whenever it is
\* handled and whatever became of the row (_enqueue_event looks back only the
\* backlog window).
OncePerItem ==
  \A n1, n2 \in rows : n1.rule = n2.rule /\ n1.item = n2.item => n1 = n2

\* No row is in two mails, unless a dispatch was lost after the first left.
NoMailTwice == mailed.twice \subseteq lost

\* When an offline event is committed, its system has not been seen again since
\* the dispatcher read it, and it is committed once.
OfflineStillOffline ==
  [][\A s \in System : claimed'[s] # claimed[s] => claimed'[s] = seen[s].no /\ seen[s].age > StaleAfter]_vars

\* What is pending is mailed, fails or is skipped, unless mail is switched off
\* or not configured: neither cooldown nor threshold keeps a row for ever.
Settles ==
  \A r \in Rule :
    (\E n \in rows : n.rule = r /\ n.status = "pending")
      ~> ((\A n \in rows : n.rule = r => n.status # "pending") \/ ~master \/ ~smtp)
=============================================================================
