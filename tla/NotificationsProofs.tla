-------------------------- MODULE NotificationsProofs --------------------------
(***************************************************************************)
(* Proofs about Notifications, for any rules, items, systems and bounds:    *)
(* what is queued is queued once, no mail repeats what another reported     *)
(* unless a dispatch was lost in between, and a system that is reported     *)
(* offline has not been seen again.                                         *)
(*                                                                          *)
(* The argument.  An event is looked for among the rows of the last minutes *)
(* only, so that a row could be missed: it is not, because an event that is *)
(* handled again is older than its rows (AgeInv), and one that is too old   *)
(* is not queued at all.  Insights and assets are handled once (HandledInv).*)
(* An offline report is queued under a claim that only one dispatch commits *)
(* (ClaimInv).  A dispatch decides about a pending row at most once         *)
(* (DoneInv), and what was mailed is no longer pending, is about to be      *)
(* recorded, or was in a dispatch that was lost (MailedInv).                *)
(***************************************************************************)
EXTENDS Notifications, TLAPS

\* One row per rule and item.
Keyed(table) == \A n1, n2 \in table : n1.rule = n2.rule /\ n1.item = n2.item => n1 = n2

\* No rule and item in both.
Apart(table, others) == \A n1 \in table, n2 \in others : ~(n1.rule = n2.rule /\ n1.item = n2.item)

\* Rows are unique, those that are not flushed yet included.
QueueInv ==
  /\ Keyed(Table) /\ Keyed(ingest.new) /\ Keyed(mailer.new)
  /\ Apart(Table, ingest.new) /\ Apart(Table, mailer.new)

\* Which handling of an item its rows can come from.
HandledInv ==
  /\ \A i \in Item : handled[i] = 2 => Kind[i] = "event"
  /\ ingest.at # "idle" => handled[ingest.item] # 0
  /\ ingest.at # "commit" => ingest.new = {}
  /\ \A n \in ingest.new : n.item = ingest.item
  /\ \A n \in rows : n.item \in Item =>
       /\ handled[n.item] # 0
       /\ ingest.at \in {"consult", "fill", "queue"} /\ ingest.item = n.item => handled[n.item] = 2

\* A row is not older than its event, as far as ages are told apart.
AgeInv ==
  /\ \A i \in Item : Kind[i] = "event" /\ handled[i] # 0 => age[i] # Never
  /\ \A n \in rows \cup ingest.new : n.item \in Item /\ Kind[n.item] = "event" =>
       n.age <= age[n.item] \/ age[n.item] > Backlog

\* What the dispatcher read and claimed of the systems.
ClaimInv ==
  /\ \A s \in System : claimed[s] <= seen[s].no
  /\ \A c \in mailer.systems : c[2] <= seen[c[1]].no
  /\ \A c \in mailer.systems \cup mailer.claims : c[2] = seen[c[1]].no => seen[c[1]].age > StaleAfter
  /\ mailer.systems \cap mailer.claims = {}
  /\ \A c \in mailer.claims : mailer.holds /\ claimed[c[1]] < c[2] /\ c[2] = seen[c[1]].no
  /\ \A n \in mailer.flushed \cup mailer.new : n.item \in mailer.claims
  /\ \A n \in rows : n.item \notin Item => n.item \in Report /\ n.item[2] <= claimed[n.item[1]]

\* What the open dispatch has decided.
DoneInv ==
  /\ \A d \in mailer.done : d.row \in Table /\ d.row.status = "pending" /\ d.row.rule \notin mailer.rules
  /\ \A d1, d2 \in mailer.done : d1.row = d2.row => d1 = d2
  /\ mailer.at # "mail" => mailer.done = {}

KeyOf(n) == <<n.rule, n.item, n.by>>

\* What was mailed is recorded, about to be, or was in a dispatch that was lost.
MailedInv ==
  /\ mailed.twice \subseteq lost
  /\ \A k \in mailed.once :
       \/ k \in lost
       \/ \E d \in mailer.done : KeyOf(d.row) = k
       \/ \E n \in rows : KeyOf(n) = k /\ n.status # "pending"

IInv == TypeOK /\ HandledInv /\ AgeInv /\ ClaimInv /\ DoneInv /\ MailedInv /\ QueueInv

-----------------------------------------------------------------------------
(* The ages, and what a minute does to a row.                                *)

Grown(n) == [n EXCEPT !.age = Older(@, RowTop), !.sent = Older(@, SentTop)]

GrownMark(d) ==
  [row |-> [d.row EXCEPT !.age = Older(@, RowTop), !.sent = Older(@, SentTop)],
   sent |-> Older(d.sent, SentTop), status |-> d.status]

LEMMA Bounds ==
  /\ Ttl \in Nat /\ Backlog \in Nat /\ Window \in Nat /\ Cooldown \in Nat /\ StaleAfter \in Nat
  /\ Late \in Nat /\ Slow \in Nat /\ MaxSeen \in Nat
  /\ RowTop \in Nat /\ SentTop \in Nat /\ EventTop \in Nat
  /\ RowTop > Backlog /\ EventTop > Backlog /\ EventTop > Late
  /\ Never = -1 /\ Never \notin Nat
<1>1. /\ Ttl \in Nat /\ Backlog \in Nat /\ Window \in Nat /\ Cooldown \in Nat /\ StaleAfter \in Nat
      /\ Late \in Nat /\ Slow \in Nat /\ MaxSeen \in Nat
  BY NotificationsAssumption DEF NotificationsAssumption
<1>2. Never = -1 /\ Never \notin Nat
  BY DEF Never
<1> QED BY <1>1, <1>2 DEF RowTop, SentTop, EventTop

LEMMA OlderAge ==
  ASSUME NEW top \in Nat, NEW a \in 0..top \cup {Never}
  PROVE  /\ Older(a, top) \in 0..top \cup {Never}
         /\ a # Never => Older(a, top) \in 0..top /\ Older(a, top) >= a /\ Older(a, top) <= a + 1
         /\ a # Never /\ a # top => Older(a, top) = a + 1
         /\ a = top => Older(a, top) = top
         /\ a = Never => Older(a, top) = Never
BY Bounds DEF Older

LEMMA ItemsAreNotReports == \A i \in Item : i \notin Report
BY NotificationsAssumption DEF NotificationsAssumption, Report

LEMMA GrownRow ==
  ASSUME NEW n \in Row
  PROVE  /\ Grown(n) \in Row
         /\ Grown(n).rule = n.rule /\ Grown(n).item = n.item /\ Grown(n).by = n.by
         /\ Grown(n).status = n.status
         /\ Grown(n).age = Older(n.age, RowTop)
<1>1. n.age \in 0..RowTop \cup {Never} /\ n.age # Never
  BY Bounds DEF Row
<1>2. Older(n.age, RowTop) \in 0..RowTop
  BY <1>1, Bounds, OlderAge
<1>3. Older(n.sent, SentTop) \in 0..SentTop \cup {Never}
  BY Bounds, OlderAge DEF Row
<1> QED BY <1>2, <1>3 DEF Grown, Row

LEMMA GrownMarkIs ==
  ASSUME NEW d \in Mark
  PROVE  GrownMark(d) \in Mark /\ GrownMark(d).row = Grown(d.row) /\ GrownMark(d).status = d.status
<1>1. d.row \in Row /\ Grown(d.row) \in Row
  BY GrownRow DEF Mark
<1>2. Older(d.sent, SentTop) \in 0..SentTop \cup {Never}
  BY Bounds, OlderAge DEF Mark
<1> QED BY <1>1, <1>2 DEF GrownMark, Grown, Mark

LEMMA AgedIs == \A table : Aged(table) = {Grown(n) : n \in table}
BY DEF Aged, Grown

\* What one handling of an item adds.
LEMMA NewRowsAre ==
  ASSUME NEW item \in Subject, NEW by \in 0..2, NEW rules \in SUBSET Rule
  PROVE  /\ NewRows(item, by, rules) \subseteq Row
         /\ \A n \in NewRows(item, by, rules) :
              /\ n.item = item /\ n.by = by /\ n.age = 0 /\ n.status = "pending" /\ n.rule \in rules
              /\ Source[n.rule] \in {"event", "offline"} => ~Queued(n.rule, item)
         /\ Keyed(NewRows(item, by, rules))
<1> DEFINE new(r) == [rule |-> r, item |-> item, by |-> by, age |-> 0, status |-> "pending", sent |-> Never]
<1>1. \A n \in NewRows(item, by, rules) : \E r \in rules :
        n = new(r) /\ (Source[r] \in {"event", "offline"} => ~Queued(r, item))
  BY DEF NewRows
<1>2. \A r \in rules : new(r) \in Row
  BY Bounds DEF Row
<1>3. \A n \in NewRows(item, by, rules) : n = new(n.rule)
  BY <1>1
<1>4. Keyed(NewRows(item, by, rules))
  BY <1>3 DEF Keyed
<1> HIDE DEF new
<1>5. \A r \in rules : new(r).rule = r /\ new(r).item = item /\ new(r).by = by /\ new(r).age = 0
                       /\ new(r).status = "pending"
  BY DEF new
<1> QED BY <1>1, <1>2, <1>4, <1>5

-----------------------------------------------------------------------------
(* Types.                                                                    *)

LEMMA Loaders ==
  ASSUME TypeOK
  PROVE  /\ Loaded \in CacheState /\ Unloaded \in CacheState
         /\ Rest \in IngestState
         /\ Idle \in MailerState
<1>1. Loaded \in CacheState /\ Unloaded \in CacheState
  BY Bounds DEF TypeOK, IngestState, MailerState, Loaded, Unloaded, CacheState
<1>2. (CHOOSE i \in Item : TRUE) \in Item
  BY NotificationsAssumption DEF NotificationsAssumption
<1>3. 0 \in 0..Slow + 1
  BY Bounds
<1> QED BY <1>1, <1>2, <1>3 DEF Rest, Idle, IngestState, MailerState

LEMMA TableRows == ASSUME TypeOK PROVE Table \subseteq Row /\ \A r : PendingOf(r) \subseteq Table
BY DEF TypeOK, IngestState, MailerState, Table, PendingOf

LEMMA AboutRules == \A i : About(i) \subseteq Rule
BY DEF About

LEMMA AgedRows == ASSUME NEW table \in SUBSET Row PROVE Aged(table) \in SUBSET Row
BY AgedIs, GrownRow

LEMMA TypeTick == ASSUME TypeOK, Tick PROVE TypeOK'
<1>1. cache' \in CacheState
  BY Bounds, OlderAge DEF TypeOK, IngestState, MailerState, Tick, CacheState
<1>2. age' \in [Item -> 0..EventTop \cup {Never}]
  BY Bounds, OlderAge DEF TypeOK, IngestState, MailerState, Tick
<1>3. seen' \in [System -> [no : 0..MaxSeen, age : 0..StaleAfter + 1]]
  <2>1. \A a \in 0..StaleAfter + 1 : Older(a, StaleAfter + 1) \in 0..StaleAfter + 1
    BY Bounds, OlderAge
  <2> QED BY <2>1 DEF TypeOK, IngestState, MailerState, Tick
<1>4. rows' \subseteq Row
  BY AgedRows DEF TypeOK, IngestState, MailerState, Tick
<1>5. mailer' \in MailerState
  <2>1. Aged(mailer.flushed) \subseteq Row /\ Aged(mailer.new) \subseteq Row
    BY AgedRows DEF TypeOK, IngestState, MailerState
  <2>2. {GrownMark(d) : d \in mailer.done} \subseteq Mark
    BY GrownMarkIs DEF TypeOK, IngestState, MailerState
  <2>3. (IF mailer.at = "idle" THEN 1 ELSE mailer.age + 1) \in 0..Slow + 1
    BY Bounds DEF TypeOK, IngestState, MailerState, Tick
  <2> DEFINE newAge == IF mailer.at = "idle" THEN 1 ELSE mailer.age + 1
             newDone == {GrownMark(d) : d \in mailer.done}
  <2>4. mailer' = [mailer EXCEPT !.age = newAge, !.flushed = Aged(mailer.flushed),
                     !.new = Aged(mailer.new), !.done = newDone]
    BY DEF Tick, GrownMark
  <2> HIDE DEF newAge, newDone
  <2>5. newAge \in 0..Slow + 1 /\ newDone \subseteq Mark
    BY <2>2, <2>3 DEF newAge, newDone
  <2> QED BY <2>1, <2>4, <2>5 DEF TypeOK, IngestState, MailerState
<1> QED BY <1>1, <1>2, <1>3, <1>4, <1>5 DEF TypeOK, IngestState, MailerState, Tick, saved

LEMMA TypeOperators ==
  ASSUME TypeOK, Save \/ Invalidate \/ \E s \in System : SeeSystem(s)
  PROVE  TypeOK'
<1>1. CASE Save
  BY <1>1 DEF TypeOK, IngestState, MailerState, Save, saved, sightings
<1>2. CASE Invalidate
  BY <1>2, Loaders DEF TypeOK, IngestState, MailerState, Invalidate, saved, sightings, history
<1>3. ASSUME NEW s \in System, SeeSystem(s) PROVE TypeOK'
  <2>1. [no |-> seen[s].no + 1, age |-> 0] \in [no : 0..MaxSeen, age : 0..StaleAfter + 1]
    BY <1>3, Bounds DEF TypeOK, IngestState, MailerState, SeeSystem
  <2>2. seen' \in [System -> [no : 0..MaxSeen, age : 0..StaleAfter + 1]]
    BY <1>3, <2>1 DEF TypeOK, IngestState, MailerState, SeeSystem
  <2> QED BY <1>3, <2>2 DEF TypeOK, IngestState, MailerState, SeeSystem, saved, history
<1> QED BY <1>1, <1>2, <1>3

LEMMA TypeIngest ==
  ASSUME TypeOK, Ingest \/ RefreshAssets \/ \E i \in Item : Store(i) \/ Enrich(i)
  PROVE  TypeOK'
<1>1. ASSUME NEW i \in Item, Store(i) PROVE TypeOK'
  <2>1. age' \in [Item -> 0..EventTop \cup {Never}]
    <3>1. \A a \in 0..Late : a \in 0..EventTop
      BY Bounds
    <3> QED BY <1>1, <3>1 DEF TypeOK, IngestState, MailerState, Store
  <2>2. handled' \in [Item -> 0..2]
    <3>1. handled \in [Item -> 0..2]
      BY DEF TypeOK, IngestState, MailerState
    <3>2. handled' = [handled EXCEPT ![i] = 1]
      BY <1>1 DEF Store
    <3> QED BY <3>1, <3>2
  <2> QED BY <1>1, <2>1, <2>2, Loaders DEF TypeOK, IngestState, MailerState, Store, saved, sightings, history
<1>2. ASSUME NEW i \in Item, Enrich(i) PROVE TypeOK'
  <2>1. handled' \in [Item -> 0..2]
    <3>1. handled \in [Item -> 0..2]
      BY DEF TypeOK, IngestState, MailerState
    <3>2. handled' = [handled EXCEPT ![i] = 2]
      BY <1>2 DEF Enrich
    <3> QED BY <3>1, <3>2
  <2> QED BY <1>2, <2>1, Loaders DEF TypeOK, IngestState, MailerState, Enrich, saved, sightings, history
<1>3. CASE ConsultCache
  BY <1>3, Loaders DEF TypeOK, IngestState, MailerState, ConsultCache, saved, sightings, history
<1>4. CASE FillCache
  BY <1>4, Loaders DEF TypeOK, IngestState, MailerState, FillCache, saved, sightings, history
<1>5. CASE Queue
  <2>1. PICK matched \in SUBSET (About(ingest.item) \cap cache.rules) :
          ingest' = [ingest EXCEPT !.at = "commit",
             !.new = IF cache.use /\ Recent(ingest.item)
                       THEN NewRows(ingest.item, handled[ingest.item], matched) ELSE {}]
    BY <1>5 DEF Queue
  <2>2. NewRows(ingest.item, handled[ingest.item], matched) \subseteq Row
    BY NewRowsAre, AboutRules DEF TypeOK, IngestState, MailerState, Subject
  <2> QED BY <1>5, <2>1, <2>2 DEF TypeOK, IngestState, MailerState, Queue, saved, sightings, history
<1>6. CASE CommitItem
  BY <1>6, Loaders DEF TypeOK, IngestState, MailerState, CommitItem, saved, sightings, history
<1>7. CASE RefreshAssets
  <2> DEFINE used == IF Fresh(cache) THEN cache ELSE Loaded
  <2>1. used \in CacheState
    BY Loaders DEF TypeOK, IngestState, MailerState
  <2> HIDE DEF used
  <2>2. PICK found \in SUBSET Item :
          /\ handled' = [i \in Item |-> IF i \in found THEN 1 ELSE handled[i]]
          /\ rows' = rows \cup UNION {IF used.use THEN NewRows(i, 1, About(i) \cap used.rules) ELSE {} : i \in found}
    BY <1>7 DEF RefreshAssets, used
  <2>3. \A i \in found : NewRows(i, 1, About(i) \cap used.rules) \subseteq Row
    BY NewRowsAre, AboutRules DEF Subject
  <2>4. rows' \subseteq Row
    <3>1. \A i \in found : (IF used.use THEN NewRows(i, 1, About(i) \cap used.rules) ELSE {}) \subseteq Row
      BY <2>3
    <3>2. rows \subseteq Row
      BY DEF TypeOK, IngestState, MailerState
    <3> QED BY <2>2, <3>1, <3>2
  <2>5. handled' \in [Item -> 0..2]
    BY <2>2 DEF TypeOK, IngestState, MailerState
  <2>6. cache' \in CacheState
    BY <1>7, <2>1 DEF RefreshAssets, used
  <2> QED BY <1>7, <2>4, <2>5, <2>6 DEF TypeOK, IngestState, MailerState, RefreshAssets, saved, sightings, history
<1> QED BY <1>1, <1>2, <1>3, <1>4, <1>5, <1>6, <1>7 DEF Ingest

LEMMA MarkedType ==
  ASSUME NEW table \in SUBSET Row, NEW status \in {"sent", "failed", "skipped"},
         NEW sent \in 0..SentTop \cup {Never}
  PROVE  Marked(table, status, sent) \subseteq Mark
BY DEF Marked, Mark

\* What a dispatch decides about a rule is about its pending rows.
LEMMA MarksAre ==
  ASSUME TypeOK, NEW rule \in Rule, MailRule(rule)
  PROVE  \E marks \in SUBSET Mark, takesLock \in BOOLEAN :
           /\ Settle(rule, marks, takesLock)
           /\ \A d \in marks : d.row \in PendingOf(rule)
           /\ \A d1, d2 \in marks : d1.row = d2.row => d1 = d2
           /\ \/ mailed' = mailed
              \/ /\ \A n \in PendingOf(rule) : \E d \in marks : d.row = n
                 /\ mailed' = [once |-> mailed.once \cup Digest(rule),
                               twice |-> mailed.twice \cup (mailed.once \cap Digest(rule))]
<1> USE TableRows
<1>0. 0 \in 0..SentTop
  BY Bounds
<1>1. \A table, status, sent :
        /\ \A d \in Marked(table, status, sent) : d.row \in table
        /\ \A n \in table : \E d \in Marked(table, status, sent) : d.row = n
        /\ \A d1, d2 \in Marked(table, status, sent) : d1.row = d2.row => d1 = d2
  <2> TAKE table, status, sent
  <2> DEFINE mark(n) == [row |-> n, status |-> status, sent |-> sent]
  <2>1. \A n : mark(n).row = n
    OBVIOUS
  <2>2. Marked(table, status, sent) = {mark(n) : n \in table}
    BY DEF Marked
  <2> HIDE DEF mark
  <2> QED BY <2>1, <2>2
<1>2. \A table \in SUBSET PendingOf(rule), status \in {"sent", "failed", "skipped"}, sent \in {0, Never} :
        Marked(table, status, sent) \in SUBSET Mark
  BY <1>0, MarkedType
<1>3. CASE SkipRule(rule)
  <2>1. Marked(PendingOf(rule), "skipped", Never) \in SUBSET Mark
    BY <1>2
  <2> QED BY <1>1, <1>3, <2>1 DEF SkipRule
<1>4. CASE AwaitThreshold(rule)
  <2>1. Marked(PendingOf(rule) \ InWindow(rule), "skipped", Never) \in SUBSET Mark
    BY <1>2
  <2> QED BY <1>1, <1>4, <2>1 DEF AwaitThreshold
<1>5. CASE Defer(rule)
  <2>1. Settle(rule, {}, FALSE) /\ mailed' = mailed
    BY <1>5 DEF Defer
  <2>2. {} \in SUBSET Mark /\ FALSE \in BOOLEAN
    OBVIOUS
  <2> QED BY <2>1, <2>2
<1>6. ASSUME NEW outcome \in Outcome, Send(rule, outcome)
      PROVE  \E marks \in SUBSET Mark :
               /\ Settle(rule, marks, FALSE)
               /\ \A d \in marks : d.row \in PendingOf(rule)
               /\ \A d1, d2 \in marks : d1.row = d2.row => d1 = d2
               /\ \A n \in PendingOf(rule) : \E d \in marks : d.row = n
               /\ mailed' = [once |-> mailed.once \cup Digest(rule),
                             twice |-> mailed.twice \cup (mailed.once \cap Digest(rule))]
  <2> DEFINE marks == Marked(PendingOf(rule), outcome, IF outcome = "sent" THEN 0 ELSE Never)
  <2>1. marks \in SUBSET Mark
    BY <1>2 DEF Outcome
  <2>2. Settle(rule, marks, FALSE)
    BY <1>6 DEF Send
  <2>3. /\ \A d \in marks : d.row \in PendingOf(rule)
        /\ \A d1, d2 \in marks : d1.row = d2.row => d1 = d2
        /\ \A n \in PendingOf(rule) : \E d \in marks : d.row = n
    BY <1>1
  <2>4. mailed' = [once |-> mailed.once \cup Digest(rule),
                   twice |-> mailed.twice \cup (mailed.once \cap Digest(rule))]
    BY <1>6 DEF Send
  <2> HIDE DEF marks
  <2> QED BY <2>1, <2>2, <2>3, <2>4
<1> QED BY <1>3, <1>4, <1>5, <1>6 DEF MailRule

LEMMA TypeDispatch == ASSUME TypeOK, Dispatch \/ LoseTick PROVE TypeOK'
<1>1. CASE StartTick
  <2>1. \A s \in System : <<s, seen[s].no>> \in Report
    BY DEF TypeOK, IngestState, MailerState, Report
  <2>2. mailer'.systems \subseteq Report /\ mailer' = [Idle EXCEPT !.at = "claim", !.systems = mailer'.systems]
    BY <1>1, <2>1 DEF StartTick, Idle
  <2> QED BY <1>1, <2>2, Loaders DEF TypeOK, IngestState, MailerState, StartTick, saved, sightings, history
<1>2. ASSUME NEW s \in System, NEW no \in 0..MaxSeen, Claim(s, no) PROVE TypeOK'
  <2> DEFINE used == IF Fresh(cache) THEN cache ELSE Loaded
             news == IF used.use THEN NewRows(<<s, no>>, 0, {r \in used.rules : Source[r] = "offline"}) ELSE {}
  <2>1. used \in CacheState
    BY Loaders DEF TypeOK, IngestState, MailerState
  <2>2. <<s, no>> \in Subject /\ <<s, no>> \in Report
    BY DEF Subject, Report
  <2>3. news \subseteq Row
    <3> HIDE DEF used
    <3>1. {r \in used.rules : Source[r] = "offline"} \in SUBSET Rule
      BY <2>1 DEF CacheState
    <3> QED BY <2>2, <3>1, NewRowsAre DEF news
  <2>4. CASE Claimable(s, no)
    <3>1. /\ cache' = used
          /\ mailer' = [mailer EXCEPT !.systems = @ \ {<<s, no>>}, !.holds = TRUE,
                          !.claims = @ \cup {<<s, no>>}, !.flushed = mailer.flushed \cup mailer.new, !.new = news]
      BY <1>2, <2>4 DEF Claim, TypeOK
    <3> HIDE DEF news, used
    <3> QED BY <1>2, <2>1, <2>2, <2>3, <3>1 DEF TypeOK, IngestState, MailerState, Claim, saved, sightings, history
  <2>5. CASE ~Claimable(s, no)
    <3>1. mailer' = [mailer EXCEPT !.systems = @ \ {<<s, no>>}, !.holds = TRUE] /\ cache' = cache
      BY <1>2, <2>5 DEF Claim
    <3>2. mailer' \in MailerState
      BY <3>1 DEF TypeOK, IngestState, MailerState
    <3> QED BY <1>2, <3>1, <3>2 DEF TypeOK, IngestState, MailerState, Claim, saved, sightings, history
  <2> QED BY <2>4, <2>5
<1>3. CASE ListRules
  <2> DEFINE listed == IF master THEN {r \in Rule : PendingOf(r) # {}} ELSE {}
  <2>1. listed \subseteq Rule
    OBVIOUS
  <2>2. 0 \in 0..Slow + 1
    BY Bounds
  <2>3. mailer' = [mailer EXCEPT !.at = "mail", !.age = 0, !.rules = listed]
    BY <1>3 DEF ListRules
  <2> HIDE DEF listed
  <2>4. mailer' \in MailerState
    BY <2>1, <2>2, <2>3 DEF TypeOK, IngestState, MailerState
  <2> QED BY <1>3, <2>4 DEF TypeOK, IngestState, MailerState, ListRules, saved, sightings, history
<1>4. ASSUME NEW rule \in Rule, MailRule(rule) PROVE TypeOK'
  <2>1. PICK marks \in SUBSET Mark, takesLock \in BOOLEAN : Settle(rule, marks, takesLock)
    BY <1>4, MarksAre
  <2>2. mailer' \in MailerState
    BY <2>1 DEF TypeOK, IngestState, MailerState, Settle
  <2> QED BY <2>1, <2>2 DEF TypeOK, IngestState, MailerState, Settle, saved, sightings
<1>5. CASE CommitTick
  <2>1. \A d \in mailer.done : Recorded(d) \in Row
    <3> SUFFICES ASSUME NEW d \in Mark PROVE Recorded(d) \in Row
      BY DEF TypeOK, IngestState, MailerState
    <3>1. d.row \in Row /\ d.status \in {"sent", "failed", "skipped"} /\ d.sent \in 0..SentTop \cup {Never}
      BY DEF Mark
    <3> QED BY <3>1 DEF Recorded, Row
  <2>2. rows' \subseteq Row
    BY <1>5, <2>1, TableRows DEF TypeOK, IngestState, MailerState, CommitTick
  <2>3. claimed' \in [System -> 0..MaxSeen \cup {Never}]
    <3>1. \A s \in System : (\E c \in mailer.claims : c[1] = s) =>
            (CHOOSE c \in mailer.claims : c[1] = s)[2] \in 0..MaxSeen
      BY DEF TypeOK, IngestState, MailerState, Report
    <3> QED BY <1>5, <3>1 DEF TypeOK, IngestState, MailerState, CommitTick
  <2> QED BY <1>5, <2>2, <2>3, Loaders DEF TypeOK, IngestState, MailerState, CommitTick, saved, history
<1>6. CASE LoseTick
  BY <1>6, Loaders DEF TypeOK, IngestState, MailerState, LoseTick, saved, sightings
<1>7. ASSUME ClaimAny PROVE TypeOK'
  <2>1. PICK c \in System \X (0..MaxSeen) : Claim(c[1], c[2])
    BY <1>7 DEF ClaimAny
  <2> QED BY <1>2, <2>1
<1> QED BY <1>1, <1>3, <1>4, <1>5, <1>6, <1>7 DEF Dispatch

LEMMA TypeNext == ASSUME TypeOK, [Next]_vars PROVE TypeOK'
<1>1. CASE UNCHANGED vars
  BY <1>1 DEF TypeOK, IngestState, MailerState, vars
<1> QED BY <1>1, TypeTick, TypeOperators, TypeIngest, TypeDispatch DEF Next

LEMMA TypeInit == Init => TypeOK
<1> SUFFICES ASSUME Init PROVE TypeOK
  OBVIOUS
<1>1. Unloaded \in CacheState
  BY Bounds DEF Unloaded, CacheState
<1>2. (CHOOSE i \in Item : TRUE) \in Item
  BY NotificationsAssumption DEF NotificationsAssumption
<1>3. 0 \in 0..MaxSeen /\ 0 \in 0..StaleAfter + 1 /\ 0 \in 0..Slow + 1
  BY Bounds
<1>4. on \subseteq Rule /\ {master, smtp, stale} \subseteq BOOLEAN /\ cache \in CacheState
  BY <1>1 DEF Init
<1>5. age \in [Item -> 0..EventTop \cup {Never}] /\ handled \in [Item -> 0..2]
  BY DEF Init
<1>6. /\ seen \in [System -> [no : 0..MaxSeen, age : 0..StaleAfter + 1]]
      /\ claimed \in [System -> 0..MaxSeen \cup {Never}]
  BY <1>3 DEF Init
<1>7. ingest \in IngestState
  BY <1>1, <1>2 DEF Init, Rest, IngestState
<1>8. rows \subseteq Row
      /\ mailer \in MailerState
  BY <1>3 DEF Init, Idle, MailerState
<1> QED BY <1>4, <1>5, <1>6, <1>7, <1>8 DEF TypeOK


-----------------------------------------------------------------------------
(* What a step leaves alone, and where the rows after it come from.          *)

Quiet == UNCHANGED <<rows, handled, age, ingest>>

\* The same notification: what changes of a row is its age and its status.
Same(n, m) == n.rule = m.rule /\ n.item = m.item /\ n.by = m.by

LEMMA QuietSteps ==
  ASSUME [Next]_vars
  PROVE  \/ Quiet \/ Tick \/ ConsultCache \/ FillCache \/ Queue \/ CommitItem \/ RefreshAssets
         \/ CommitTick \/ \E i \in Item : Store(i) \/ Enrich(i)
<1>1. ASSUME NEW r \in Rule, MailRule(r) PROVE Quiet
  BY <1>1 DEF MailRule, SkipRule, AwaitThreshold, Defer, Send, Settle, Quiet
<1>2. CASE UNCHANGED vars \/ Save \/ Invalidate \/ LoseTick \/ StartTick \/ ListRules
  BY <1>2 DEF vars, Save, Invalidate, LoseTick, StartTick, ListRules, Quiet
<1>3. CASE ClaimAny
  BY <1>3 DEF ClaimAny, Claim, Quiet
<1>4. ASSUME NEW s \in System, SeeSystem(s) PROVE Quiet
  BY <1>4 DEF SeeSystem, Quiet
<1> QED BY <1>1, <1>2, <1>3, <1>4 DEF Next, Ingest, Dispatch

LEMMA TickRows ==
  ASSUME TypeOK, Tick, NEW n \in rows'
  PROVE  \E m \in rows : n = Grown(m) /\ Same(n, m) /\ n.status = m.status /\ n.age = Older(m.age, RowTop)
<1>1. PICK m \in rows : n = Grown(m)
  BY AgedIs DEF Tick
<1>2. m \in Row
  BY DEF TypeOK
<1> QED BY <1>1, <1>2, GrownRow DEF Same

LEMMA RecordedIs ==
  ASSUME NEW d \in Mark
  PROVE  /\ Same(Recorded(d), d.row) /\ Recorded(d).age = d.row.age
         /\ Recorded(d).status = d.status /\ d.status # "pending"
<1>1. d.row \in Row /\ d.status \in {"sent", "failed", "skipped"}
  BY DEF Mark
<1> QED BY <1>1 DEF Recorded, Row, Same

LEMMA MarksOfMailer == ASSUME TypeOK PROVE mailer.done \subseteq Mark
BY DEF TypeOK, MailerState

LEMMA CommitRows ==
  ASSUME TypeOK, DoneInv, CommitTick, NEW n \in rows'
  PROVE  \E m \in Table \cup mailer.new : Same(n, m) /\ n.age = m.age
<1>1. CASE n \in Table \cup mailer.new
  BY <1>1 DEF Same
<1>2. CASE \E d \in mailer.done : n = Recorded(d)
  <2>1. PICK d \in mailer.done : n = Recorded(d)
    BY <1>2
  <2>2. d.row \in Table
    BY DEF DoneInv
  <2> QED BY <2>1, <2>2, RecordedIs, MarksOfMailer
<1> QED BY <1>1, <1>2 DEF CommitTick

\* Rows of the open dispatch are about systems.
LEMMA DispatchedAreReports ==
  ASSUME TypeOK, ClaimInv, NEW n \in mailer.flushed \cup mailer.new
  PROVE  n.item \in Report /\ n.item \notin Item
<1>1. n.item \in mailer.claims /\ mailer.claims \subseteq Report
  BY DEF ClaimInv, TypeOK, MailerState
<1> QED BY <1>1, ItemsAreNotReports

LEMMA CommitItemRows ==
  ASSUME TypeOK, ClaimInv, DoneInv, CommitTick, NEW n \in rows', n.item \in Item
  PROVE  \E m \in rows : Same(n, m) /\ n.age = m.age
<1>1. PICK m \in Table \cup mailer.new : Same(n, m) /\ n.age = m.age
  BY CommitRows
<1>2. m.item \in Item
  BY <1>1 DEF Same
<1> QED BY <1>1, <1>2, DispatchedAreReports DEF Table

\* What a refresh of the assets adds.
LEMMA RefreshRows ==
  ASSUME TypeOK, RefreshAssets
  PROVE  \E found \in SUBSET Item, news \in SUBSET Row :
           /\ \A i \in found : Kind[i] = "asset" /\ handled[i] = 0
           /\ handled' = [i \in Item |-> IF i \in found THEN 1 ELSE handled[i]]
           /\ rows' = rows \cup news
           /\ \A n \in news : n.item \in found
           /\ Keyed(news)
<1> DEFINE used == IF Fresh(cache) THEN cache ELSE Loaded
           new(i) == IF used.use THEN NewRows(i, 1, About(i) \cap used.rules) ELSE {}
<1>1. PICK found \in SUBSET {i \in Item : Kind[i] = "asset" /\ handled[i] = 0} :
        /\ handled' = [i \in Item |-> IF i \in found THEN 1 ELSE handled[i]]
        /\ rows' = rows \cup UNION {new(i) : i \in found}
  BY DEF RefreshAssets
<1>2. \A i \in Item : About(i) \cap used.rules \in SUBSET Rule
  BY AboutRules
<1>3. \A i \in Item : i \in Subject /\ 1 \in 0..2
  BY DEF Subject
<1>4. \A i \in Item : new(i) \subseteq Row /\ (\A n \in new(i) : n.item = i) /\ Keyed(new(i))
  <2> TAKE i \in Item
  <2> DEFINE some == NewRows(i, 1, About(i) \cap used.rules)
  <2>1. some \subseteq Row /\ (\A n \in some : n.item = i) /\ Keyed(some)
    BY <1>2, <1>3, NewRowsAre
  <2>2. Keyed({})
    BY DEF Keyed
  <2> HIDE DEF some
  <2>3. new(i) = some \/ new(i) = {}
    BY DEF some
  <2> HIDE DEF new
  <2> QED BY <2>1, <2>2, <2>3
<1> HIDE DEF new, used
<1> DEFINE news == UNION {new(i) : i \in found}
<1>5. news \in SUBSET Row /\ \A n \in news : n.item \in found /\ n \in new(n.item)
  BY <1>4
<1>6. Keyed(news)
  BY <1>4, <1>5 DEF Keyed
<1> HIDE DEF news
<1>7. rows' = rows \cup news
  BY <1>1 DEF news
<1> QED BY <1>1, <1>5, <1>6, <1>7


-----------------------------------------------------------------------------
(* How often an item was handled.                                            *)

\* What Queue puts into ingest.new.
LEMMA QueuedRows ==
  ASSUME TypeOK, Queue
  PROVE  \E news \in SUBSET Row :
           /\ ingest' = [ingest EXCEPT !.at = "commit", !.new = news]
           /\ \A n \in news :
                /\ n.item = ingest.item /\ n.age = 0 /\ Source[n.rule] = Kind[n.item]
                /\ Recent(n.item)
                /\ Source[n.rule] = "event" => ~Queued(n.rule, n.item)
           /\ Keyed(news)
<1>1. PICK matched \in SUBSET (About(ingest.item) \cap cache.rules) :
        ingest' = [ingest EXCEPT !.at = "commit",
           !.new = IF cache.use /\ Recent(ingest.item)
                     THEN NewRows(ingest.item, handled[ingest.item], matched) ELSE {}]
  BY DEF Queue
<1> DEFINE news == IF cache.use /\ Recent(ingest.item)
                     THEN NewRows(ingest.item, handled[ingest.item], matched) ELSE {}
<1>2. matched \in SUBSET Rule /\ ingest.item \in Subject /\ handled[ingest.item] \in 0..2
  BY AboutRules DEF TypeOK, IngestState, Subject
<1>3. \A r \in matched : Source[r] = Kind[ingest.item]
  BY DEF About
<1>4. CASE news = {}
  BY <1>1, <1>4 DEF Keyed
<1>5. CASE news # {}
  <2>1. news = NewRows(ingest.item, handled[ingest.item], matched) /\ Recent(ingest.item)
    BY <1>5
  <2> HIDE DEF news
  <2>2. /\ news \subseteq Row /\ Keyed(news)
        /\ \A n \in news : /\ n.item = ingest.item /\ n.age = 0 /\ n.rule \in matched
                           /\ Source[n.rule] \in {"event", "offline"} => ~Queued(n.rule, ingest.item)
    BY <1>2, <2>1, NewRowsAre
  <2>3. ingest' = [ingest EXCEPT !.at = "commit", !.new = news]
    BY <1>1 DEF news
  <2> QED BY <1>3, <2>1, <2>2, <2>3
<1> QED BY <1>4, <1>5

LEMMA HandledNext ==
  ASSUME TypeOK, ClaimInv, DoneInv, HandledInv, [Next]_vars
  PROVE  HandledInv'
<1> DEFINE Busy(at) == at \in {"consult", "fill", "queue"}
<1>0. /\ handled \in [Item -> 0..2]
      /\ ingest.item \in Item
      /\ rows \subseteq Row
      /\ ingest \in IngestState
  BY DEF TypeOK, IngestState
<1>1. CASE Quiet
  BY <1>1 DEF Quiet, HandledInv
<1>2. CASE Tick
  <2>1. handled' = handled /\ ingest' = ingest /\ ingest.at = "idle"
    BY <1>2 DEF Tick
  <2>2. \A n \in rows' : n.item \in Item => handled[n.item] # 0
    BY <1>2, TickRows DEF HandledInv, Same
  <2> QED BY <2>1, <2>2 DEF HandledInv
<1>3. CASE ConsultCache
  <2>1. handled' = handled /\ rows' = rows /\ ingest.at = "consult"
    BY <1>3 DEF ConsultCache
  <2>2. ingest'.at \in {"fill", "queue"} /\ ingest'.item = ingest.item /\ ingest'.new = ingest.new
    BY <1>0, <1>3 DEF ConsultCache, IngestState
  <2> QED BY <2>1, <2>2 DEF HandledInv
<1>4. CASE FillCache
  <2>1. handled' = handled /\ rows' = rows /\ ingest.at = "fill"
    BY <1>4 DEF FillCache
  <2>2. ingest'.at = "queue" /\ ingest'.item = ingest.item /\ ingest'.new = ingest.new
    BY <1>0, <1>4 DEF FillCache, IngestState
  <2> QED BY <2>1, <2>2 DEF HandledInv
<1>5. CASE Queue
  <2>1. handled' = handled /\ rows' = rows /\ ingest.at = "queue"
    BY <1>5 DEF Queue
  <2>2. PICK news \in SUBSET Row :
          /\ ingest' = [ingest EXCEPT !.at = "commit", !.new = news]
          /\ \A n \in news : n.item = ingest.item
    BY <1>5, QueuedRows
  <2>3. ingest'.at = "commit" /\ ingest'.item = ingest.item /\ ingest'.new = news
    BY <1>0, <2>2 DEF IngestState
  <2> QED BY <2>1, <2>2, <2>3 DEF HandledInv
<1>6. CASE CommitItem
  <2>1. handled' = handled /\ rows' = rows \cup ingest.new /\ ingest.at = "commit"
    BY <1>6 DEF CommitItem
  <2>2. ingest'.at = "idle" /\ ingest'.new = {}
    BY <1>6 DEF CommitItem, Rest
  <2> QED BY <2>1, <2>2 DEF HandledInv
<1>7. CASE RefreshAssets
  <2>1. PICK found \in SUBSET Item, news \in SUBSET Row :
           /\ \A i \in found : Kind[i] = "asset" /\ handled[i] = 0
           /\ handled' = [i \in Item |-> IF i \in found THEN 1 ELSE handled[i]]
           /\ rows' = rows \cup news
           /\ \A n \in news : n.item \in found
    BY <1>7, RefreshRows
  <2>2. ingest' = ingest
    BY <1>7 DEF RefreshAssets
  <2>3. \A i \in Item : i \in found => handled'[i] = 1 /\ handled[i] = 0
    BY <2>1
  <2>4. \A i \in Item : i \notin found => handled'[i] = handled[i]
    BY <2>1
  <2> QED BY <1>0, <2>1, <2>2, <2>3, <2>4 DEF HandledInv
<1>8. CASE CommitTick
  <2>1. handled' = handled /\ ingest' = ingest
    BY <1>8 DEF CommitTick
  <2>2. \A n \in rows' : n.item \in Item => \E m \in rows : n.item = m.item
    BY <1>8, CommitItemRows DEF Same
  <2> QED BY <2>1, <2>2 DEF HandledInv
<1>9. ASSUME NEW i \in Item, Store(i) PROVE HandledInv'
  <2>1. handled' = [handled EXCEPT ![i] = 1] /\ rows' = rows /\ handled[i] = 0
    BY <1>9 DEF Store
  <2>2. ingest'.at = "consult" /\ ingest'.item = i /\ ingest'.new = {}
    BY <1>9 DEF Store, Rest
  <2>3. handled'[i] = 1 /\ \A j \in Item : j # i => handled'[j] = handled[j]
    BY <1>0, <2>1
  <2> QED BY <2>1, <2>2, <2>3 DEF HandledInv
<1>10. ASSUME NEW i \in Item, Enrich(i) PROVE HandledInv'
  <2>1. handled' = [handled EXCEPT ![i] = 2] /\ rows' = rows /\ Kind[i] = "event"
    BY <1>10 DEF Enrich
  <2>2. ingest'.at = "consult" /\ ingest'.item = i /\ ingest'.new = {}
    BY <1>10 DEF Enrich, Rest
  <2>3. handled'[i] = 2 /\ \A j \in Item : j # i => handled'[j] = handled[j]
    BY <1>0, <2>1
  <2> QED BY <2>1, <2>2, <2>3 DEF HandledInv
<1> QED BY <1>1, <1>2, <1>3, <1>4, <1>5, <1>6, <1>7, <1>8, <1>9, <1>10, QuietSteps

-----------------------------------------------------------------------------
(* Ages.                                                                     *)

LEMMA AgeNext ==
  ASSUME TypeOK, ClaimInv, DoneInv, HandledInv, AgeInv, [Next]_vars
  PROVE  AgeInv'
<1>0. /\ handled \in [Item -> 0..2]
      /\ age \in [Item -> 0..EventTop \cup {Never}]
      /\ ingest.item \in Item
      /\ rows \subseteq Row /\ ingest.new \subseteq Row
      /\ ingest \in IngestState
  BY DEF TypeOK, IngestState
<1>1. CASE Quiet
  BY <1>1 DEF Quiet, AgeInv
<1>2. CASE Tick
  <2>1. handled' = handled /\ ingest' = ingest /\ ingest.at = "idle" /\ ingest.new = {}
    BY <1>2 DEF Tick, HandledInv
  <2>2. \A i \in Item : age'[i] = Older(age[i], EventTop)
    BY <1>2 DEF Tick
  <2>3. \A i \in Item : age[i] # Never => age'[i] # Never
    BY <1>0, <2>2, OlderAge, Bounds
  <2>4. ASSUME NEW n \in rows', n.item \in Item, Kind[n.item] = "event"
        PROVE  n.age <= age'[n.item] \/ age'[n.item] > Backlog
    <3>1. PICK m \in rows : Same(n, m) /\ n.age = Older(m.age, RowTop)
      BY <1>2, TickRows
    <3>2. n.item = m.item /\ m.age \in 0..RowTop
      BY <1>0, <3>1 DEF Same, Row
    <3> DEFINE old == age[n.item]
    <3>3. m.age <= old \/ old > Backlog
      BY <2>4, <3>2 DEF AgeInv
    <3>4. n.age \in 0..RowTop /\ n.age <= m.age + 1
      <4>1. m.age \in 0..RowTop \cup {Never} /\ m.age # Never
        BY <3>2, Bounds
      <4> QED BY <3>1, <4>1, OlderAge, Bounds
    <3>5. old \in 0..EventTop \cup {Never} /\ age'[n.item] = Older(old, EventTop)
      BY <1>0, <2>2, <2>4
    <3>6. old # Never /\ old \in 0..EventTop
      BY <3>2, <3>3, <3>5, Bounds
    <3>7. /\ age'[n.item] \in 0..EventTop
          /\ age'[n.item] >= old
          /\ old # EventTop => age'[n.item] = old + 1
          /\ old = EventTop => age'[n.item] = EventTop
      BY <3>5, <3>6, OlderAge, Bounds
    <3> HIDE DEF old
    <3> QED BY <3>2, <3>3, <3>4, <3>6, <3>7, Bounds
  <2> QED BY <2>1, <2>3, <2>4 DEF AgeInv
<1>3. CASE ConsultCache \/ FillCache
  <2>1. UNCHANGED <<handled, rows, age>>
    BY <1>3 DEF ConsultCache, FillCache
  <2>2. ingest'.new = ingest.new
    BY <1>0, <1>3 DEF ConsultCache, FillCache, IngestState
  <2> QED BY <2>1, <2>2 DEF AgeInv
<1>5. CASE Queue
  <2>1. UNCHANGED <<handled, rows, age>> /\ ingest.at = "queue"
    BY <1>5 DEF Queue
  <2>2. PICK news \in SUBSET Row :
          /\ ingest' = [ingest EXCEPT !.at = "commit", !.new = news]
          /\ \A n \in news : n.item = ingest.item /\ n.age = 0
    BY <1>5, QueuedRows
  <2>3. ingest'.new = news
    BY <1>0, <2>2 DEF IngestState
  <2>4. Kind[ingest.item] = "event" => age[ingest.item] \in 0..EventTop
    BY <1>0, <2>1 DEF HandledInv, AgeInv
  <2>5. \A n \in news : Kind[n.item] = "event" => n.age <= age[n.item]
    BY <2>2, <2>4, Bounds
  <2> QED BY <2>1, <2>3, <2>5 DEF AgeInv
<1>6. CASE CommitItem
  <2>1. UNCHANGED <<handled, age>> /\ rows' = rows \cup ingest.new /\ ingest'.new = {}
    BY <1>6 DEF CommitItem, Rest
  <2> QED BY <2>1 DEF AgeInv
<1>7. CASE RefreshAssets
  <2>1. PICK found \in SUBSET Item, news \in SUBSET Row :
           /\ \A i \in found : Kind[i] = "asset" /\ handled[i] = 0
           /\ handled' = [i \in Item |-> IF i \in found THEN 1 ELSE handled[i]]
           /\ rows' = rows \cup news
           /\ \A n \in news : n.item \in found
    BY <1>7, RefreshRows
  <2>2. ingest' = ingest /\ age' = age
    BY <1>7 DEF RefreshAssets
  <2>3. \A i \in Item : Kind[i] = "event" => i \notin found /\ handled'[i] = handled[i]
    BY <2>1
  <2> QED BY <1>0, <2>1, <2>2, <2>3 DEF AgeInv
<1>8. CASE CommitTick
  <2>1. UNCHANGED <<handled, age, ingest>>
    BY <1>8 DEF CommitTick
  <2>2. \A n \in rows' : n.item \in Item => \E m \in rows : n.item = m.item /\ n.age = m.age
    BY <1>8, CommitItemRows DEF Same
  <2> QED BY <2>1, <2>2 DEF AgeInv
<1>9. ASSUME NEW i \in Item, Store(i) PROVE AgeInv'
  <2>1. handled' = [handled EXCEPT ![i] = 1] /\ rows' = rows /\ handled[i] = 0
    BY <1>9 DEF Store
  <2>2. ingest'.new = {}
    BY <1>9 DEF Store, Rest
  <2>3. \A j \in Item : j # i => handled'[j] = handled[j] /\ age'[j] = age[j]
    BY <1>0, <1>9 DEF Store
  <2>4. age'[i] # Never
    <3>1. PICK a \in 0..Late : age' = [age EXCEPT ![i] = a]
      BY <1>9 DEF Store
    <3> QED BY <1>0, <3>1, Bounds
  <2>5. \A n \in rows : n.item # i
    BY <2>1 DEF HandledInv
  <2> QED BY <2>1, <2>2, <2>3, <2>4, <2>5 DEF AgeInv
<1>10. ASSUME NEW i \in Item, Enrich(i) PROVE AgeInv'
  <2>1. handled' = [handled EXCEPT ![i] = 2] /\ UNCHANGED <<rows, age>> /\ handled[i] = 1
    BY <1>10 DEF Enrich
  <2>2. ingest'.new = {}
    BY <1>10 DEF Enrich, Rest
  <2>3. \A j \in Item : handled'[j] # 0 => handled[j] # 0
    BY <1>0, <2>1
  <2> QED BY <2>1, <2>2, <2>3 DEF AgeInv
<1> QED BY <1>1, <1>2, <1>3, <1>5, <1>6, <1>7, <1>8, <1>9, <1>10, QuietSteps


-----------------------------------------------------------------------------
(* Systems.                                                                  *)

\* The dispatcher's part of an action that does not change it.
LEMMA SightingsKept ==
  ASSUME [Next]_vars
  PROVE  \/ UNCHANGED <<seen, claimed, mailer>>
         \/ Tick \/ (\E s \in System : SeeSystem(s)) \/ LoseTick \/ Dispatch
BY DEF Next, vars, saved, sightings, history, Save, Invalidate, Ingest, ConsultCache, FillCache, Queue,
       CommitItem, RefreshAssets, Store, Enrich

\* Other threads add rows about items only.
LEMMA RowsKept ==
  ASSUME TypeOK, HandledInv, [Next]_vars, UNCHANGED <<seen, claimed, mailer>>, ~Tick, ~CommitTick,
         NEW n \in rows'
  PROVE  n \in rows \/ n.item \in Item
<1>1. CASE Quiet \/ ConsultCache \/ FillCache \/ Queue \/ \E i \in Item : Store(i) \/ Enrich(i)
  BY <1>1 DEF Quiet, ConsultCache, FillCache, Queue, Store, Enrich
<1>2. CASE CommitItem
  <2>1. ingest.item \in Item /\ \A m \in ingest.new : m.item = ingest.item
    BY DEF HandledInv, TypeOK, IngestState
  <2> QED BY <1>2, <2>1 DEF CommitItem
<1>3. CASE RefreshAssets
  BY <1>3, RefreshRows
<1> QED BY <1>1, <1>2, <1>3, QuietSteps

LEMMA ClaimNext ==
  ASSUME TypeOK, ClaimInv, DoneInv, HandledInv, [Next]_vars
  PROVE  ClaimInv'
<1>0. /\ seen \in [System -> [no : 0..MaxSeen, age : 0..StaleAfter + 1]]
      /\ claimed \in [System -> 0..MaxSeen \cup {Never}]
      /\ mailer \in MailerState /\ rows \subseteq Row
      /\ mailer.systems \subseteq Report /\ mailer.claims \subseteq Report
      /\ mailer.flushed \subseteq Row /\ mailer.new \subseteq Row
  BY DEF TypeOK, MailerState
<1>r. \A c \in Report : c[1] \in System /\ c[2] \in 0..MaxSeen
  BY DEF Report
<1>s. \A s \in System : seen[s].no \in 0..MaxSeen /\ seen[s].age \in 0..StaleAfter + 1
                        /\ claimed[s] \in 0..MaxSeen \cup {Never} /\ claimed[s] \in Int
  BY <1>0, Bounds
<1>i. /\ Idle.systems = {} /\ Idle.claims = {} /\ Idle.flushed = {} /\ Idle.new = {}
  BY DEF Idle
<1>1. CASE UNCHANGED <<seen, claimed, mailer>> /\ ~Tick /\ ~CommitTick
  <2>1. \A n \in rows' : n \in rows \/ n.item \in Item
    BY <1>1, RowsKept
  <2> QED BY <1>1, <2>1 DEF ClaimInv
<1>2. CASE Tick
  <2>1. \A s \in System : seen'[s].no = seen[s].no /\ seen'[s].age >= seen[s].age
                          /\ seen'[s].age \in 0..StaleAfter + 1
    <3> TAKE s \in System
    <3>1. seen'[s] = [seen[s] EXCEPT !.age = Older(@, StaleAfter + 1)]
      BY <1>2 DEF Tick
    <3>2. Older(seen[s].age, StaleAfter + 1) >= seen[s].age /\ Older(seen[s].age, StaleAfter + 1) \in 0..StaleAfter + 1
      <4>1. seen[s].age \in 0..StaleAfter + 1 /\ seen[s].age # Never
        BY <1>s, Bounds
      <4> QED BY <4>1, OlderAge, Bounds
    <3>3. seen[s] \in [no : 0..MaxSeen, age : 0..StaleAfter + 1]
      BY <1>0
    <3> HIDE <1>0, <1>s
    <3> QED BY <3>1, <3>2, <3>3
  <2>2. claimed' = claimed
    BY <1>2 DEF Tick
  <2>3. /\ mailer'.systems = mailer.systems /\ mailer'.claims = mailer.claims /\ mailer'.holds = mailer.holds
        /\ mailer'.flushed = Aged(mailer.flushed) /\ mailer'.new = Aged(mailer.new)
    BY <1>0, <1>2 DEF Tick, MailerState
  <2>4. \A n \in mailer'.flushed \cup mailer'.new : \E m \in mailer.flushed \cup mailer.new : n.item = m.item
    BY <1>0, <2>3, AgedIs, GrownRow
  <2>5. \A n \in rows' : \E m \in rows : n.item = m.item
    BY <1>2, TickRows DEF Same
  <2>6. \A c \in mailer.systems \cup mailer.claims : c[2] = seen'[c[1]].no => seen'[c[1]].age > StaleAfter
    BY <1>0, <1>r, <1>s, <2>1, Bounds DEF ClaimInv
  <2>7. \A s \in System : claimed'[s] <= seen'[s].no
    BY <2>1, <2>2 DEF ClaimInv
  <2>8. \A c \in mailer.systems : c[2] <= seen'[c[1]].no
    BY <1>0, <1>r, <2>1 DEF ClaimInv
  <2>9. \A c \in mailer.claims : mailer.holds /\ claimed[c[1]] < c[2] /\ c[2] = seen'[c[1]].no
    BY <1>0, <1>r, <2>1 DEF ClaimInv
  <2>10. \A n \in mailer'.flushed \cup mailer'.new : n.item \in mailer.claims
    BY <2>4 DEF ClaimInv
  <2>11. \A n \in rows' : n.item \notin Item => n.item \in Report /\ n.item[2] <= claimed[n.item[1]]
    BY <2>5 DEF ClaimInv
  <2>12. mailer.systems \cap mailer.claims = {}
    BY DEF ClaimInv
  <2> HIDE <1>0, <1>r, <1>s
  <2> QED BY <2>2, <2>3, <2>6, <2>7, <2>8, <2>9, <2>10, <2>11, <2>12 DEF ClaimInv
<1>3. ASSUME NEW s \in System, SeeSystem(s) PROVE ClaimInv'
  <2>1. UNCHANGED <<claimed, rows, mailer>> /\ ~mailer.holds
    BY <1>3 DEF SeeSystem, LockFree
  <2>2. mailer.claims = {}
    BY <2>1 DEF ClaimInv
  <2>3. seen'[s].no = seen[s].no + 1 /\ \A q \in System : q # s => seen'[q] = seen[q]
    BY <1>0, <1>3 DEF SeeSystem
  <2>4. \A q \in System : claimed[q] <= seen'[q].no
    BY <1>s, <2>3 DEF ClaimInv
  <2>5. \A c \in mailer.systems : c[2] <= seen'[c[1]].no
    BY <1>0, <1>r, <1>s, <2>3 DEF ClaimInv
  <2>6. \A c \in mailer.systems : c[2] = seen'[c[1]].no => seen'[c[1]].age > StaleAfter
    <3> TAKE c \in mailer.systems
    <3>1. CASE c[1] = s
      <4>1. c[2] <= seen[s].no /\ c[2] \in 0..MaxSeen
        BY <1>0, <1>r, <3>1 DEF ClaimInv
      <4> QED BY <1>s, <2>3, <3>1, <4>1
    <3>2. CASE c[1] # s
      BY <1>0, <1>r, <2>3, <3>2 DEF ClaimInv
    <3> QED BY <3>1, <3>2
  <2> QED BY <2>1, <2>2, <2>4, <2>5, <2>6 DEF ClaimInv
<1>4. CASE LoseTick
  <2>1. UNCHANGED <<seen, claimed, rows>> /\ mailer' = Idle
    BY <1>4 DEF LoseTick, sightings
  <2> QED BY <1>i, <2>1 DEF ClaimInv
<1>5. CASE StartTick
  <2>1. UNCHANGED <<seen, claimed, rows>>
    BY <1>5 DEF StartTick, sightings
  <2>2. /\ mailer'.systems = {<<s, seen[s].no>> : s \in {q \in System : seen[q].age > StaleAfter /\ claimed[q] # seen[q].no}}
        /\ mailer'.claims = {} /\ mailer'.flushed = {} /\ mailer'.new = {}
    BY <1>5 DEF StartTick, Idle
  <2>3. \A c \in mailer'.systems : c[1] \in System /\ c[2] = seen[c[1]].no /\ seen[c[1]].age > StaleAfter
    BY <2>2
  <2> QED BY <1>s, <2>1, <2>2, <2>3 DEF ClaimInv
<1>6. ASSUME NEW s \in System, NEW no \in 0..MaxSeen, Claim(s, no) PROVE ClaimInv'
  <2>1. UNCHANGED <<seen, claimed, rows>> /\ <<s, no>> \in mailer.systems
    BY <1>6 DEF Claim, sightings
  <2>2. CASE ~Claimable(s, no)
    <3>1. mailer' = [mailer EXCEPT !.systems = @ \ {<<s, no>>}, !.holds = TRUE]
      BY <1>6, <2>2 DEF Claim
    <3>2. /\ mailer'.systems = mailer.systems \ {<<s, no>>} /\ mailer'.holds = TRUE
          /\ mailer'.claims = mailer.claims /\ mailer'.flushed = mailer.flushed /\ mailer'.new = mailer.new
      BY <1>0, <3>1 DEF MailerState
    <3> QED BY <2>1, <3>2 DEF ClaimInv
  <2>3. CASE Claimable(s, no)
    <3> DEFINE used == IF Fresh(cache) THEN cache ELSE Loaded
               news == IF used.use THEN NewRows(<<s, no>>, 0, {r \in used.rules : Source[r] = "offline"}) ELSE {}
    <3>1. mailer' = [mailer EXCEPT !.systems = @ \ {<<s, no>>}, !.holds = TRUE,
                          !.claims = @ \cup {<<s, no>>}, !.flushed = mailer.flushed \cup mailer.new, !.new = news]
      BY <1>6, <2>3 DEF Claim
    <3>2. \A n \in news : n.item = <<s, no>>
      <4>1. {r \in used.rules : Source[r] = "offline"} \in SUBSET Rule
        BY Loaders DEF TypeOK, CacheState
      <4>2. <<s, no>> \in Subject /\ 0 \in 0..2
        BY DEF Subject, Report
      <4> QED BY <4>1, <4>2, NewRowsAre
    <3> HIDE DEF news, used
    <3>3. /\ mailer'.systems = mailer.systems \ {<<s, no>>} /\ mailer'.holds = TRUE
          /\ mailer'.claims = mailer.claims \cup {<<s, no>>}
          /\ mailer'.flushed = mailer.flushed \cup mailer.new /\ mailer'.new = news
      BY <1>0, <3>1 DEF MailerState
    <3>4. no = seen[s].no /\ claimed[s] < no
      BY <1>s, <2>3 DEF Claimable, ClaimInv
    <3>5. \A n \in mailer'.flushed \cup mailer'.new : n.item \in mailer'.claims
      BY <3>2, <3>3 DEF ClaimInv
    <3>6. \A c \in mailer'.claims : claimed[c[1]] < c[2] /\ c[2] = seen[c[1]].no
      BY <3>3, <3>4 DEF ClaimInv
    <3>7. /\ mailer'.systems \cup mailer'.claims = mailer.systems \cup mailer.claims
          /\ mailer'.systems \cap mailer'.claims = {}
      BY <2>1, <3>3 DEF ClaimInv
    <3>8. mailer'.systems \subseteq mailer.systems
      BY <3>3
    <3> QED BY <2>1, <3>3, <3>5, <3>6, <3>7, <3>8 DEF ClaimInv
  <2> QED BY <2>2, <2>3
<1>7. CASE ListRules
  <2>1. UNCHANGED <<seen, claimed, rows>>
    BY <1>7 DEF ListRules, sightings
  <2>2. /\ mailer'.systems = mailer.systems /\ mailer'.holds = mailer.holds
        /\ mailer'.claims = mailer.claims /\ mailer'.flushed = mailer.flushed /\ mailer'.new = mailer.new
    BY <1>0, <1>7 DEF ListRules, MailerState
  <2> QED BY <2>1, <2>2 DEF ClaimInv
<1>8. ASSUME NEW rule \in Rule, MailRule(rule) PROVE ClaimInv'
  <2>1. PICK marks \in SUBSET Mark, takesLock \in BOOLEAN : Settle(rule, marks, takesLock)
    BY <1>8, MarksAre
  <2>2. UNCHANGED <<seen, claimed, rows>>
    BY <2>1 DEF Settle, sightings
  <2>3. /\ mailer'.systems = mailer.systems /\ mailer'.holds = (mailer.holds \/ takesLock)
        /\ mailer'.claims = mailer.claims /\ mailer'.flushed = mailer.flushed /\ mailer'.new = mailer.new
    BY <1>0, <2>1 DEF Settle, MailerState
  <2> QED BY <2>2, <2>3 DEF ClaimInv
<1>9. CASE CommitTick
  <2>1. seen' = seen /\ mailer' = Idle
    BY <1>9 DEF CommitTick
  <2>2. \A s \in System : \/ claimed'[s] = claimed[s]
                          \/ claimed'[s] = seen[s].no
    <3> TAKE s \in System
    <3>1. claimed'[s] = IF \E c \in mailer.claims : c[1] = s
                        THEN (CHOOSE c \in mailer.claims : c[1] = s)[2] ELSE claimed[s]
      BY <1>9 DEF CommitTick
    <3> QED BY <3>1 DEF ClaimInv
  <2>3. \A c \in mailer.claims : claimed'[c[1]] = c[2]
    <3> TAKE c \in mailer.claims
    <3>0. c[1] \in System
      BY <1>0, <1>r
    <3>1. claimed'[c[1]] = (CHOOSE e \in mailer.claims : e[1] = c[1])[2]
      BY <1>9, <3>0 DEF CommitTick
    <3>2. \A e \in mailer.claims : e[1] = c[1] => e[2] = c[2]
      BY DEF ClaimInv
    <3> QED BY <3>1, <3>2
  <2>4. \A s \in System : claimed[s] <= claimed'[s] /\ claimed'[s] <= seen[s].no /\ claimed'[s] \in Int
    BY <1>s, <2>2 DEF ClaimInv
  <2>5. ASSUME NEW n \in rows', n.item \notin Item
        PROVE  n.item \in Report /\ n.item[2] <= claimed'[n.item[1]]
    <3>1. PICK m \in Table \cup mailer.new : n.item = m.item
      BY <1>9, CommitRows DEF Same
    <3>2. CASE m \in rows
      <4>1. n.item \in Report /\ n.item[2] <= claimed[n.item[1]]
        BY <2>5, <3>1, <3>2 DEF ClaimInv
      <4>2. n.item[1] \in System /\ n.item[2] \in 0..MaxSeen
        BY <1>r, <4>1
      <4>3. claimed[n.item[1]] \in Int /\ claimed'[n.item[1]] \in Int /\ claimed[n.item[1]] <= claimed'[n.item[1]]
        BY <1>s, <2>4, <4>2
      <4> QED BY <4>1, <4>2, <4>3
    <3>3. CASE m \in mailer.flushed \cup mailer.new
      <4>1. n.item \in mailer.claims
        BY <3>1, <3>3 DEF ClaimInv
      <4>2. n.item \in Report /\ n.item[2] \in 0..MaxSeen
        BY <1>0, <1>r, <4>1
      <4> QED BY <2>3, <4>1, <4>2
    <3> QED BY <3>1, <3>2, <3>3 DEF Table
  <2> QED BY <1>i, <2>1, <2>4, <2>5 DEF ClaimInv
<1>10. ASSUME ClaimAny PROVE ClaimInv'
  <2>1. PICK c \in System \X (0..MaxSeen) : Claim(c[1], c[2])
    BY <1>10 DEF ClaimAny
  <2>2. c[1] \in System /\ c[2] \in 0..MaxSeen
    OBVIOUS
  <2> QED BY <1>6, <2>1, <2>2
<1> QED BY <1>1, <1>2, <1>3, <1>4, <1>5, <1>7, <1>8, <1>9, <1>10, SightingsKept DEF Dispatch

-----------------------------------------------------------------------------
(* The open dispatch.                                                        *)

\* What a minute makes of the table and of the open dispatch.
LEMMA TickTable ==
  ASSUME TypeOK, Tick
  PROVE  /\ Table' = Aged(Table)
         /\ mailer'.new = Aged(mailer.new)
         /\ mailer'.done = {GrownMark(d) : d \in mailer.done}
         /\ mailer'.rules = mailer.rules /\ mailer'.at = mailer.at
<1>1. mailer \in MailerState
  BY DEF TypeOK
<1>2. /\ mailer'.flushed = Aged(mailer.flushed) /\ mailer'.new = Aged(mailer.new)
      /\ mailer'.done = {GrownMark(d) : d \in mailer.done}
      /\ mailer'.rules = mailer.rules /\ mailer'.at = mailer.at
  BY <1>1 DEF Tick, MailerState, GrownMark
<1>3. rows' = Aged(rows)
  BY DEF Tick
<1>4. \A t1, t2 : Aged(t1 \cup t2) = Aged(t1) \cup Aged(t2)
  BY DEF Aged
<1> QED BY <1>2, <1>3, <1>4 DEF Table

LEMMA DispatchSteps ==
  ASSUME TypeOK, [Next]_vars
  PROVE  \/ UNCHANGED <<mailer, mailed, lost>> /\ rows \subseteq rows'
         \/ Tick \/ LoseTick \/ Dispatch
<1>1. CASE UNCHANGED vars \/ Save \/ Invalidate \/ \E s \in System : SeeSystem(s)
  BY <1>1 DEF vars, Save, Invalidate, SeeSystem, history
<1>2. CASE Ingest
  BY <1>2 DEF Ingest, ConsultCache, FillCache, Queue, CommitItem, history
<1>3. CASE RefreshAssets
  BY <1>3, RefreshRows DEF RefreshAssets, history
<1>4. CASE \E i \in Item : Store(i) \/ Enrich(i)
  BY <1>4 DEF Store, Enrich, history
<1> QED BY <1>1, <1>2, <1>3, <1>4 DEF Next

LEMMA DoneNext ==
  ASSUME TypeOK, DoneInv, QueueInv, [Next]_vars
  PROVE  DoneInv'
<1>0. /\ mailer \in MailerState /\ mailer.done \subseteq Mark
  BY DEF TypeOK, MailerState
<1>i. Idle.done = {}
  BY DEF Idle
<1>1. CASE mailer' = mailer /\ rows \subseteq rows'
  <2>1. Table \subseteq Table'
    BY <1>1 DEF Table
  <2> QED BY <1>1, <2>1 DEF DoneInv
<1>2. CASE Tick
  <2>1. /\ Table' = {Grown(n) : n \in Table}
        /\ mailer'.done = {GrownMark(d) : d \in mailer.done}
        /\ mailer'.rules = mailer.rules /\ mailer'.at = mailer.at
    BY <1>2, TickTable, AgedIs
  <2>2. \A d \in mailer.done : d.row \in Row /\ GrownMark(d).row = Grown(d.row)
          /\ Grown(d.row).status = d.row.status /\ Grown(d.row).rule = d.row.rule /\ Grown(d.row).item = d.row.item
    BY <1>0, GrownMarkIs, GrownRow DEF Mark
  <2>3. \A d1, d2 \in mailer.done : Grown(d1.row) = Grown(d2.row) => d1 = d2
    BY <2>2 DEF DoneInv, QueueInv, Keyed
  <2>4. \A d \in mailer'.done : d.row \in Table' /\ d.row.status = "pending" /\ d.row.rule \notin mailer'.rules
    BY <2>1, <2>2 DEF DoneInv
  <2>5. \A d1, d2 \in mailer'.done : d1.row = d2.row => d1 = d2
    BY <2>1, <2>2, <2>3
  <2>6. mailer'.at # "mail" => mailer'.done = {}
    BY <2>1 DEF DoneInv
  <2> QED BY <2>4, <2>5, <2>6 DEF DoneInv
<1>3. CASE LoseTick \/ CommitTick
  <2>1. mailer' = Idle
    BY <1>3 DEF LoseTick, CommitTick
  <2> QED BY <1>i, <2>1 DEF DoneInv
<1>4. CASE StartTick
  <2>1. mailer'.done = {}
    BY <1>4 DEF StartTick, Idle
  <2> QED BY <2>1 DEF DoneInv
<1>5. ASSUME NEW s, NEW no, Claim(s, no) PROVE DoneInv'
  <2>1. mailer.at = "claim" /\ mailer.done = {}
    BY <1>5 DEF Claim, DoneInv
  <2>2. mailer'.done = mailer.done
    BY <1>0, <1>5 DEF Claim, MailerState
  <2> QED BY <2>1, <2>2 DEF DoneInv
<1>6. CASE ListRules
  <2>1. mailer.done = {}
    BY <1>6 DEF ListRules, DoneInv
  <2>2. mailer'.done = mailer.done
    BY <1>0, <1>6 DEF ListRules, MailerState
  <2> QED BY <2>1, <2>2 DEF DoneInv
<1>7. ASSUME NEW rule \in Rule, MailRule(rule) PROVE DoneInv'
  <2>1. PICK marks \in SUBSET Mark, takesLock \in BOOLEAN :
           /\ Settle(rule, marks, takesLock)
           /\ \A d \in marks : d.row \in PendingOf(rule)
           /\ \A d1, d2 \in marks : d1.row = d2.row => d1 = d2
    BY <1>7, MarksAre
  <2>2. rule \in mailer.rules /\ mailer.at = "mail" /\ rows' = rows
    BY <2>1 DEF Settle
  <2>3. /\ mailer'.rules = mailer.rules \ {rule} /\ mailer'.done = mailer.done \cup marks
        /\ mailer'.at = "mail" /\ mailer'.flushed = mailer.flushed
    BY <1>0, <2>1 DEF Settle, MailerState
  <2>4. Table' = Table
    BY <2>2, <2>3 DEF Table
  <2>5. \A d \in marks : d.row \in Table /\ d.row.status = "pending" /\ d.row.rule = rule
    BY <2>1 DEF PendingOf
  <2>6. \A d \in mailer.done : d.row.rule # rule /\ d.row.rule \notin mailer.rules
    BY <2>2 DEF DoneInv
  <2>7. \A d1, d2 \in mailer'.done : d1.row = d2.row => d1 = d2
    BY <2>1, <2>3, <2>5, <2>6 DEF DoneInv
  <2> QED BY <2>3, <2>4, <2>5, <2>6, <2>7 DEF DoneInv
<1> QED BY <1>1, <1>2, <1>3, <1>4, <1>5, <1>6, <1>7, DispatchSteps DEF Dispatch, ClaimAny

LEMMA MailedNext ==
  ASSUME TypeOK, DoneInv, QueueInv, MailedInv, [Next]_vars
  PROVE  MailedInv'
<1>0. /\ mailer \in MailerState /\ mailer.done \subseteq Mark /\ rows \subseteq Row
  BY DEF TypeOK, MailerState
<1>1. CASE UNCHANGED <<mailer, mailed, lost>> /\ rows \subseteq rows'
  BY <1>1 DEF MailedInv
<1>2. CASE Tick
  <2>1. UNCHANGED <<mailed, lost>> /\ rows' = {Grown(n) : n \in rows}
        /\ mailer'.done = {GrownMark(d) : d \in mailer.done}
    BY <1>2, TickTable, AgedIs DEF Tick
  <2>2. \A n \in rows : KeyOf(Grown(n)) = KeyOf(n) /\ Grown(n).status = n.status
    BY <1>0, GrownRow DEF KeyOf
  <2>3. \A d \in mailer.done : KeyOf(GrownMark(d).row) = KeyOf(d.row)
    BY <1>0, GrownMarkIs, GrownRow DEF KeyOf, Mark
  <2> QED BY <2>1, <2>2, <2>3 DEF MailedInv
<1>3. CASE LoseTick
  <2>1. UNCHANGED <<mailed, rows>> /\ lost' = lost \cup {KeyOf(d.row) : d \in mailer.done}
    BY <1>3 DEF LoseTick, KeyOf
  <2> QED BY <2>1 DEF MailedInv
<1>4. CASE CommitTick
  <2>1. UNCHANGED <<mailed, lost>>
    BY <1>4 DEF CommitTick, history
  <2>2. rows' = (Table \ {d.row : d \in mailer.done}) \cup {Recorded(d) : d \in mailer.done} \cup mailer.new
    BY <1>4 DEF CommitTick
  <2>3. \A d \in mailer.done : Recorded(d) \in rows' /\ KeyOf(Recorded(d)) = KeyOf(d.row) /\ Recorded(d).status # "pending"
    BY <1>0, <2>2, RecordedIs DEF KeyOf, Same
  <2>4. \A n \in rows : n.status # "pending" => n \in rows'
    BY <2>2 DEF DoneInv, Table
  <2> QED BY <2>1, <2>3, <2>4 DEF MailedInv
<1>5. CASE StartTick
  <2>1. UNCHANGED <<mailed, lost, rows>> /\ mailer.done = {}
    BY <1>5 DEF StartTick, history, DoneInv
  <2> QED BY <2>1 DEF MailedInv
<1>6. ASSUME (\E s, no : Claim(s, no)) \/ ListRules PROVE MailedInv'
  <2>1. UNCHANGED <<mailed, lost, rows>>
    BY <1>6 DEF Claim, ListRules, history
  <2>2. mailer'.done = mailer.done
    BY <1>0, <1>6 DEF Claim, ListRules, MailerState
  <2> QED BY <2>1, <2>2 DEF MailedInv
<1>7. ASSUME NEW rule \in Rule, MailRule(rule) PROVE MailedInv'
  <2>1. PICK marks \in SUBSET Mark, takesLock \in BOOLEAN :
           /\ Settle(rule, marks, takesLock)
           /\ \/ mailed' = mailed
              \/ /\ \A n \in PendingOf(rule) : \E d \in marks : d.row = n
                 /\ mailed' = [once |-> mailed.once \cup Digest(rule),
                               twice |-> mailed.twice \cup (mailed.once \cap Digest(rule))]
    BY <1>7, MarksAre
  <2>2. rule \in mailer.rules /\ UNCHANGED <<rows, lost>>
    BY <2>1 DEF Settle
  <2>3. mailer'.done = mailer.done \cup marks
    BY <1>0, <2>1 DEF Settle, MailerState
  <2>4. CASE mailed' = mailed
    BY <2>2, <2>3, <2>4 DEF MailedInv
  <2>5. CASE /\ \A n \in PendingOf(rule) : \E d \in marks : d.row = n
             /\ mailed' = [once |-> mailed.once \cup Digest(rule),
                           twice |-> mailed.twice \cup (mailed.once \cap Digest(rule))]
    <3>1. Digest(rule) = {KeyOf(n) : n \in PendingOf(rule)}
      BY DEF Digest, KeyOf
    <3>2. /\ mailed'.once = mailed.once \cup Digest(rule)
          /\ mailed'.twice = mailed.twice \cup (mailed.once \cap Digest(rule))
      BY <2>5
    <3>3. \A k \in Digest(rule) : \E d \in marks : KeyOf(d.row) = k
      BY <2>5, <3>1
    <3>4. ASSUME NEW k \in mailed.once \cap Digest(rule) PROVE k \in lost
      <4>1. PICK n \in Table : n.rule = rule /\ n.status = "pending" /\ k = KeyOf(n)
        BY <3>1 DEF PendingOf
      <4>2. \A d \in mailer.done : d.row.rule # rule
        BY <2>2 DEF DoneInv
      <4>3. \A d \in mailer.done : KeyOf(d.row) # k
        BY <4>1, <4>2 DEF KeyOf
      <4>4. \A m \in rows : KeyOf(m) = k => m = n
        BY <4>1 DEF KeyOf, QueueInv, Keyed, Table
      <4> QED BY <4>1, <4>3, <4>4 DEF MailedInv
    <3> QED BY <2>2, <2>3, <3>2, <3>3, <3>4 DEF MailedInv
  <2> QED BY <2>1, <2>4, <2>5
<1> QED BY <1>1, <1>2, <1>3, <1>4, <1>5, <1>6, <1>7, DispatchSteps DEF Dispatch, ClaimAny

-----------------------------------------------------------------------------
(* Rows are unique.                                                          *)

\* The rows of the table about an item are committed.
LEMMA ItemRows ==
  ASSUME TypeOK, ClaimInv, NEW n \in Table, n.item \in Item
  PROVE  n \in rows
BY DispatchedAreReports DEF Table

LEMMA NewAreItems ==
  ASSUME TypeOK, HandledInv, NEW n \in ingest.new
  PROVE  n.item \in Item /\ n.item = ingest.item /\ ingest.at = "commit" /\ handled[n.item] # 0
BY DEF HandledInv, TypeOK, IngestState

\* Rows about items and rows about systems differ in what they are about.
LEMMA ItemsApart ==
  ASSUME TypeOK, ClaimInv, NEW table, \A n \in table : n.item \in Item
  PROVE  Apart(table, mailer.new) /\ Apart(mailer.new, table)
BY DispatchedAreReports DEF Apart

LEMMA KeyedUnion ==
  ASSUME NEW t1, NEW t2, Keyed(t1), Keyed(t2), Apart(t1, t2)
  PROVE  Keyed(t1 \cup t2)
BY DEF Keyed, Apart

LEMMA KeyedGrown ==
  ASSUME NEW t \in SUBSET Row, Keyed(t)
  PROVE  Keyed(Aged(t))
<1>1. \A n \in t : Grown(n).rule = n.rule /\ Grown(n).item = n.item
  BY GrownRow
<1> QED BY <1>1, AgedIs DEF Keyed

LEMMA ApartGrown ==
  ASSUME NEW t1 \in SUBSET Row, NEW t2 \in SUBSET Row, Apart(t1, t2)
  PROVE  Apart(Aged(t1), Aged(t2))
<1>1. \A n \in t1 \cup t2 : Grown(n).rule = n.rule /\ Grown(n).item = n.item
  BY GrownRow
<1> QED BY <1>1, AgedIs DEF Apart

\* What a dispatch leaves in the table.
LEMMA KeyedCommit ==
  ASSUME TypeOK, DoneInv, QueueInv, CommitTick
  PROVE  Keyed(rows')
<1> DEFINE left == Table \ {d.row : d \in mailer.done}
           recorded == {Recorded(d) : d \in mailer.done}
<1>1. rows' = left \cup recorded \cup mailer.new
  BY DEF CommitTick
<1>2. \A d \in mailer.done : d.row \in Table /\ Same(Recorded(d), d.row)
  BY RecordedIs, MarksOfMailer DEF DoneInv
<1>3. Keyed(left) /\ Apart(left, mailer.new)
  BY DEF QueueInv, Keyed, Apart
<1>4. Keyed(recorded)
  <2> SUFFICES ASSUME NEW d1 \in mailer.done, NEW d2 \in mailer.done,
                      Recorded(d1).rule = Recorded(d2).rule, Recorded(d1).item = Recorded(d2).item
               PROVE  d1 = d2
    BY DEF Keyed
  <2>1. d1.row = d2.row
    BY <1>2 DEF Same, QueueInv, Keyed
  <2> QED BY <2>1 DEF DoneInv
<1>5. Apart(recorded, mailer.new)
  BY <1>2 DEF Same, QueueInv, Apart
<1>6. Apart(left, recorded)
  <2> SUFFICES ASSUME NEW n \in left, NEW d \in mailer.done, n.rule = Recorded(d).rule, n.item = Recorded(d).item
               PROVE  FALSE
    BY DEF Apart
  <2>1. n = d.row
    BY <1>2 DEF Same, QueueInv, Keyed
  <2> QED BY <2>1
<1> HIDE DEF left, recorded
<1>7. Keyed(left \cup recorded) /\ Apart(left \cup recorded, mailer.new)
  BY <1>3, <1>4, <1>5, <1>6, KeyedUnion DEF Apart
<1>8. Keyed(mailer.new)
  BY DEF QueueInv
<1> QED BY <1>1, <1>7, <1>8, KeyedUnion

LEMMA QueueNext ==
  ASSUME TypeOK, ClaimInv, DoneInv, HandledInv, AgeInv, QueueInv, [Next]_vars
  PROVE  QueueInv'
<1>0. /\ mailer \in MailerState /\ ingest \in IngestState
      /\ rows \subseteq Row /\ Table \subseteq Row /\ mailer.new \subseteq Row
      /\ ingest.item \in Item
  BY TableRows DEF TypeOK, MailerState, IngestState
<1>e. Keyed({}) /\ \A t : Apart(t, {})
  BY DEF Keyed, Apart
<1>n. Apart(mailer.new, ingest.new) /\ Apart(ingest.new, mailer.new)
  BY NewAreItems, ItemsApart
<1>1. CASE UNCHANGED <<rows, mailer, ingest>>
  BY <1>1 DEF QueueInv, Table
<1>2. CASE Tick
  <2>1. ingest' = ingest /\ ingest.new = {}
    BY <1>2 DEF Tick, HandledInv
  <2>2. Table' = Aged(Table) /\ mailer'.new = Aged(mailer.new)
    BY <1>2, TickTable
  <2>3. Keyed(Aged(Table)) /\ Keyed(Aged(mailer.new)) /\ Apart(Aged(Table), Aged(mailer.new))
    BY <1>0, KeyedGrown, ApartGrown DEF QueueInv
  <2> QED BY <1>e, <2>1, <2>2, <2>3 DEF QueueInv
<1>3. CASE ConsultCache \/ FillCache
  <2>1. UNCHANGED <<rows, mailer>> /\ ingest'.new = ingest.new
    BY <1>0, <1>3 DEF ConsultCache, FillCache, IngestState
  <2> QED BY <2>1 DEF QueueInv, Table
<1>4. CASE Queue
  <2>1. UNCHANGED <<rows, mailer>> /\ ingest.at = "queue"
    BY <1>4 DEF Queue
  <2>2. PICK news \in SUBSET Row :
           /\ ingest' = [ingest EXCEPT !.at = "commit", !.new = news]
           /\ \A n \in news :
                /\ n.item = ingest.item /\ n.age = 0 /\ Source[n.rule] = Kind[n.item]
                /\ Recent(n.item)
                /\ Source[n.rule] = "event" => ~Queued(n.rule, n.item)
           /\ Keyed(news)
    BY <1>4, QueuedRows
  <2>3. ingest'.new = news /\ Table' = Table
    BY <1>0, <2>1, <2>2 DEF IngestState, Table
  <2>4. Apart(Table, news)
    <3> SUFFICES ASSUME NEW m \in Table, NEW n \in news, m.rule = n.rule, m.item = n.item PROVE FALSE
      BY DEF Apart
    <3>1. m.item = ingest.item /\ m.item \in Item /\ m \in rows
      BY <1>0, <2>2, ItemRows
    <3>2. Kind[m.item] = "event"
      BY <2>1, <3>1 DEF HandledInv
    <3>3. m.age > Backlog
      <4>1. Source[n.rule] = "event"
        BY <2>2, <3>2
      <4>2. ~(m.age <= Backlog)
        BY <2>2, <4>1 DEF Queued
      <4>3. m.age \in 0..RowTop
        BY <1>0 DEF Row
      <4> QED BY <4>2, <4>3, Bounds
    <3>4. m.age <= age[m.item] \/ age[m.item] > Backlog
      BY <3>1, <3>2 DEF AgeInv
    <3>5. age[m.item] <= Backlog
      BY <2>2 DEF Recent
    <3>6. m.age \in Int /\ age[m.item] \in Int
      BY <1>0, <3>1, Bounds DEF Row, TypeOK
    <3> QED BY <3>3, <3>4, <3>5, <3>6, Bounds
  <2> QED BY <2>1, <2>2, <2>3, <2>4 DEF QueueInv
<1>5. CASE CommitItem
  <2>1. rows' = rows \cup ingest.new /\ mailer' = mailer /\ ingest'.new = {}
    BY <1>5 DEF CommitItem, Rest
  <2>2. Table' = Table \cup ingest.new
    BY <2>1 DEF Table
  <2>3. Keyed(Table \cup ingest.new)
    BY KeyedUnion DEF QueueInv
  <2>4. Apart(Table \cup ingest.new, mailer.new)
    BY <1>n DEF QueueInv, Apart
  <2> QED BY <1>e, <2>1, <2>2, <2>3, <2>4 DEF QueueInv
<1>6. CASE RefreshAssets
  <2>1. PICK found \in SUBSET Item, news \in SUBSET Row :
           /\ \A i \in found : Kind[i] = "asset" /\ handled[i] = 0
           /\ rows' = rows \cup news
           /\ \A n \in news : n.item \in found
           /\ Keyed(news)
    BY <1>6, RefreshRows
  <2>2. UNCHANGED <<mailer, ingest>> /\ Table' = Table \cup news
    BY <1>6, <2>1 DEF RefreshAssets, Table
  <2>3. Apart(Table, news)
    <3> SUFFICES ASSUME NEW m \in Table, NEW n \in news, m.item = n.item PROVE FALSE
      BY DEF Apart
    <3>1. m.item \in Item /\ handled[m.item] = 0
      BY <2>1
    <3> QED BY <3>1, ItemRows DEF HandledInv
  <2>4. Apart(news, ingest.new)
    BY <2>1, NewAreItems DEF Apart
  <2>5. Apart(news, mailer.new)
    BY <2>1, ItemsApart
  <2>6. Keyed(Table \cup news)
    BY <2>1, <2>3, KeyedUnion DEF QueueInv
  <2>7. Apart(Table \cup news, ingest.new) /\ Apart(Table \cup news, mailer.new)
    BY <2>4, <2>5 DEF QueueInv, Apart
  <2> QED BY <2>2, <2>6, <2>7 DEF QueueInv
<1>7. CASE \E i \in Item : Store(i) \/ Enrich(i)
  <2>1. UNCHANGED <<rows, mailer>> /\ ingest'.new = {}
    BY <1>7 DEF Store, Enrich, Rest
  <2>2. Table' = Table
    BY <2>1 DEF Table
  <2> QED BY <1>e, <2>1, <2>2 DEF QueueInv
<1>8. CASE StartTick \/ LoseTick
  <2>1. UNCHANGED <<rows, ingest>> /\ mailer'.flushed = {} /\ mailer'.new = {}
    <3>1. CASE StartTick
      BY <3>1 DEF StartTick, Idle
    <3>2. CASE LoseTick
      BY <3>2 DEF LoseTick, Idle
    <3> QED BY <1>8, <3>1, <3>2
  <2>2. Table' \subseteq Table
    BY <2>1 DEF Table
  <2> QED BY <1>e, <2>1, <2>2 DEF QueueInv, Keyed, Apart
<1>9. CASE ListRules \/ \E rule \in Rule : MailRule(rule)
  <2>1. UNCHANGED <<rows, ingest>>
    BY <1>9 DEF ListRules, MailRule, SkipRule, AwaitThreshold, Defer, Send, Settle
  <2>2. mailer'.flushed = mailer.flushed /\ mailer'.new = mailer.new
    BY <1>0, <1>9 DEF ListRules, MailRule, SkipRule, AwaitThreshold, Defer, Send, Settle, MailerState
  <2> QED BY <2>1, <2>2 DEF QueueInv, Table
<1>10. ASSUME NEW s \in System, NEW no \in 0..MaxSeen, Claim(s, no) PROVE QueueInv'
  <2>1. UNCHANGED <<rows, ingest>> /\ <<s, no>> \in mailer.systems
    BY <1>10 DEF Claim
  <2>2. CASE ~Claimable(s, no)
    <3>1. mailer'.flushed = mailer.flushed /\ mailer'.new = mailer.new
      BY <1>0, <1>10, <2>2 DEF Claim, MailerState
    <3> QED BY <2>1, <3>1 DEF QueueInv, Table
  <2>3. CASE Claimable(s, no)
    <3> DEFINE used == IF Fresh(cache) THEN cache ELSE Loaded
               offline == {r \in used.rules : Source[r] = "offline"}
               news == IF used.use THEN NewRows(<<s, no>>, 0, offline) ELSE {}
    <3>1. mailer' = [mailer EXCEPT !.systems = @ \ {<<s, no>>}, !.holds = TRUE,
                          !.claims = @ \cup {<<s, no>>}, !.flushed = mailer.flushed \cup mailer.new, !.new = news]
      BY <1>10, <2>3 DEF Claim
    <3>2. <<s, no>> \in Report /\ <<s, no>> \in Subject /\ 0 \in 0..2
      BY DEF Report, Subject
    <3>3. (\A n \in news : n.item = <<s, no>>) /\ Keyed(news)
      <4>1. offline \in SUBSET Rule
        BY Loaders DEF TypeOK, CacheState
      <4> DEFINE some == NewRows(<<s, no>>, 0, offline)
      <4>2. (\A n \in some : n.item = <<s, no>>) /\ Keyed(some)
        BY <3>2, <4>1, NewRowsAre
      <4>3. news = some \/ news = {}
        OBVIOUS
      <4> HIDE DEF some, news
      <4> QED BY <1>e, <4>2, <4>3
    <3> HIDE DEF news, offline, used
    <3>4. mailer'.flushed = mailer.flushed \cup mailer.new /\ mailer'.new = news
      BY <1>0, <3>1 DEF MailerState
    <3>5. Table' = Table \cup mailer.new
      BY <2>1, <3>4 DEF Table
    <3>6. \A n \in rows : n.item # <<s, no>>
      <4> SUFFICES ASSUME NEW n \in rows, n.item = <<s, no>> PROVE FALSE
        OBVIOUS
      <4>1. n.item \notin Item
        BY <3>2, ItemsAreNotReports
      <4>2. no <= claimed[s]
        BY <4>1 DEF ClaimInv
      <4>3. no = seen[s].no /\ claimed[s] # no /\ claimed[s] <= seen[s].no
        BY <2>3 DEF Claimable, ClaimInv
      <4>4. claimed[s] \in Int
        BY Bounds DEF TypeOK
      <4> QED BY <4>2, <4>3, <4>4
    <3>7. \A n \in mailer.flushed \cup mailer.new : n.item # <<s, no>>
      BY <2>1 DEF ClaimInv
    <3>8. Apart(Table \cup mailer.new, news)
      BY <3>3, <3>6, <3>7 DEF Apart, Table
    <3>9. Keyed(Table \cup mailer.new)
      BY KeyedUnion DEF QueueInv
    <3>10. Apart(Table \cup mailer.new, ingest.new)
      BY <1>n DEF QueueInv, Apart
    <3> QED BY <2>1, <3>3, <3>4, <3>5, <3>8, <3>9, <3>10 DEF QueueInv
  <2> QED BY <2>2, <2>3
<1>11. CASE CommitTick
  <2>1. ingest' = ingest /\ mailer'.flushed = {} /\ mailer'.new = {}
    BY <1>11 DEF CommitTick, Idle
  <2>2. Table' = rows'
    BY <2>1 DEF Table
  <2>3. Keyed(rows')
    BY <1>11, KeyedCommit
  <2>4. Apart(rows', ingest.new)
    <3>1. \A n \in rows' : \E m \in Table \cup mailer.new : n.rule = m.rule /\ n.item = m.item
      BY <1>11, CommitRows DEF Same
    <3> QED BY <1>n, <3>1 DEF QueueInv, Apart
  <2> QED BY <1>e, <2>1, <2>2, <2>3, <2>4 DEF QueueInv
<1>12. CASE Save \/ Invalidate \/ (\E s \in System : SeeSystem(s)) \/ UNCHANGED vars
  BY <1>1, <1>12 DEF Save, Invalidate, SeeSystem, vars
<1>13. CASE ClaimAny
  <2>1. PICK c \in System \X (0..MaxSeen) : Claim(c[1], c[2])
    BY <1>13 DEF ClaimAny
  <2>2. c[1] \in System /\ c[2] \in 0..MaxSeen
    OBVIOUS
  <2> QED BY <1>10, <2>1, <2>2
<1> QED BY <1>2, <1>3, <1>4, <1>5, <1>6, <1>7, <1>8, <1>9, <1>11, <1>12, <1>13
        DEF Next, Ingest, Dispatch

-----------------------------------------------------------------------------
(* The invariant and what follows from it.                                   *)

\* The invariant holds at first.
LEMMA InvInit == Init => IInv
<1> SUFFICES ASSUME Init PROVE IInv
  OBVIOUS
<1>1. TypeOK
  BY TypeInit
<1>2. /\ ingest.at = "idle" /\ ingest.new = {}
      /\ mailer.at = "idle" /\ mailer.systems = {} /\ mailer.claims = {} /\ mailer.flushed = {}
      /\ mailer.new = {} /\ mailer.done = {}
      /\ rows = {} /\ mailed = [once |-> {}, twice |-> {}]
  BY DEF Init, Rest, Idle
<1>3. /\ \A i \in Item : handled[i] = 0
      /\ \A s \in System : claimed[s] = Never /\ seen[s].no = 0
  BY DEF Init
<1>4. HandledInv
  BY <1>2, <1>3 DEF HandledInv
<1>5. AgeInv
  BY <1>2, <1>3 DEF AgeInv
<1>6. ClaimInv
  BY <1>2, <1>3, Bounds DEF ClaimInv
<1>7. DoneInv /\ MailedInv
  BY <1>2 DEF DoneInv, MailedInv
<1>8. QueueInv
  BY <1>2 DEF QueueInv, Table, Keyed, Apart
<1> QED BY <1>1, <1>4, <1>5, <1>6, <1>7, <1>8 DEF IInv

\* A step keeps every part.
LEMMA InvNext == IInv /\ [Next]_vars => IInv'
BY TypeNext, HandledNext, AgeNext, ClaimNext, DoneNext, MailedNext, QueueNext DEF IInv

\* The parts of the invariant hold together: each is kept with the help of others.
THEOREM Invariance == Spec => []IInv
BY InvInit, InvNext, PTL DEF Spec

\* A rule and an item have one row, whenever the item is handled and whatever
\* became of the row (_enqueue_event, _enqueue).
THEOREM QueuedOnce == Spec => []OncePerItem
<1>1. IInv => OncePerItem
  BY DEF IInv, QueueInv, Keyed, Table, OncePerItem
<1> QED BY <1>1, Invariance, PTL

\* Only a dispatch whose commit was lost is mailed again (dispatch_pending_notifications).
THEOREM MailedOnce == Spec => []NoMailTwice
<1>1. IInv => NoMailTwice
  BY DEF IInv, MailedInv, NoMailTwice
<1> QED BY <1>1, Invariance, PTL

\* A claim that is committed names the last_seen the system still has, and the
\* system is stale (_claim_offline_system).
THEOREM ReportedOffline == Spec => OfflineStillOffline
<1> DEFINE Step == \A s \in System : claimed'[s] # claimed[s] => claimed'[s] = seen[s].no /\ seen[s].age > StaleAfter
<1>1. IInv /\ [Next]_vars => [Step]_vars
  <2> SUFFICES ASSUME TypeOK, ClaimInv, [Next]_vars PROVE Step \/ UNCHANGED vars
    BY DEF IInv
  <2>1. CASE claimed' = claimed
    BY <2>1
  <2>2. CASE CommitTick
    <3> SUFFICES ASSUME NEW s \in System, claimed'[s] # claimed[s]
                 PROVE  claimed'[s] = seen[s].no /\ seen[s].age > StaleAfter
      OBVIOUS
    <3>1. claimed'[s] = IF \E c \in mailer.claims : c[1] = s
                        THEN (CHOOSE c \in mailer.claims : c[1] = s)[2] ELSE claimed[s]
      BY <2>2 DEF CommitTick
    <3>2. PICK c \in mailer.claims : c[1] = s /\ claimed'[s] = c[2]
      BY <3>1
    <3> QED BY <3>2 DEF ClaimInv
  <2>3. CommitTick \/ claimed' = claimed
    BY DEF Next, vars, saved, sightings, history, Tick, Save, Invalidate, Ingest, ConsultCache, FillCache,
           Queue, CommitItem, RefreshAssets, Store, Enrich, SeeSystem, LoseTick, Dispatch, StartTick, ClaimAny,
           Claim, ListRules, MailRule, SkipRule, AwaitThreshold, Defer, Send, Settle
  <2> QED BY <2>1, <2>2, <2>3
<1> QED BY <1>1, Invariance, PTL DEF Spec, OfflineStillOffline
================================================================================
