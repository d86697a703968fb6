-------------------------- MODULE InsightsProofs ----------------------------
(***************************************************************************)
(* What the three kinds of insights keep, for every value of their constants:*)
(* public rules are the verified ones, related events are linked, and a    *)
(* comparison of trends leaves nothing out and compares only what is covered.*)
(***************************************************************************)
EXTENDS InsightRules, EventInsights, Trends, FiniteSetTheorems, WellFoundedInduction, TLAPS

-----------------------------------------------------------------------------
(***************************************************************************)
(* The rules.  A refresh works on a copy of the table that must be as      *)
(* verified as the stored one in every state it can be committed from.     *)
(***************************************************************************)

\* The active public rules of a table are those of ruleset h, all of them.
Verified(table, h) ==
  \A id \in Id :
    /\ table[id].source = "remote" /\ table[id].active => h # NoRuleset /\ id \in h /\ table[id].from = h
    /\ h # NoRuleset /\ id \in h => table[id].source = "remote" /\ table[id].active

\* What a refresh will commit whatever comes is verified like what is stored.
RulesInv ==
  /\ RulesTypeOK
  /\ Verified(rules, hash)
  /\ refresh.at # "idle" => Verified(refresh.rows, hash)

LEMMA RowDisabled ==
  ASSUME NEW row \in RuleRow
  PROVE  [row EXCEPT !.active = FALSE] \in RuleRow /\ [row EXCEPT !.active = FALSE].source = row.source
         /\ ~[row EXCEPT !.active = FALSE].active
BY DEF RuleRow

\* An import of known ids makes rows of rows.
LEMMA ImportedType ==
  ASSUME InsightRulesAssumption, release \in Releases, NEW table \in [Id -> RuleRow],
         NEW by \in {"bundled", "remote", "plugin"}, NEW ids \in SUBSET Id
  PROVE  Imported(table, by, ids) \in [Id -> RuleRow]
<1>1. \A id \in Id : table[id] \in RuleRow /\ [table[id] EXCEPT !.active = FALSE] \in RuleRow
  BY RowDisabled
<1>2. [source |-> by, from |-> ids, active |-> TRUE] \in RuleRow
  BY DEF RuleRow
<1>3. [source |-> "bundled", from |-> release, active |-> TRUE] \in RuleRow
  BY DEF RuleRow, InsightRulesAssumption
<1> QED BY <1>1, <1>2, <1>3 DEF Imported

\* Seeding the shipped rules keeps every verified one.
LEMMA SeededVerified ==
  ASSUME InsightRulesAssumption, release \in Releases, NEW table \in [Id -> RuleRow], NEW h, Verified(table, h)
  PROVE  Seeded(table) \in [Id -> RuleRow] /\ Verified(Seeded(table), h)
<1>1. Seeded(table) \in [Id -> RuleRow]
  BY ImportedType DEF InsightRulesAssumption, Seeded
<1>2. Verified(Seeded(table), h)
  BY DEF InsightRulesAssumption, Seeded, Imported, Verified, RuleRow
<1> QED BY <1>1, <1>2

\* After an import of a public ruleset the active public rules are its rules.
LEMMA PublicVerified ==
  ASSUME InsightRulesAssumption, release \in Releases, NEW table \in [Id -> RuleRow], NEW h \in Published
  PROVE  Imported(table, "remote", h) \in [Id -> RuleRow] /\ Verified(Imported(table, "remote", h), h)
<1>1. Imported(table, "remote", h) \in [Id -> RuleRow]
  BY ImportedType DEF InsightRulesAssumption
<1>2. Verified(Imported(table, "remote", h), h)
  BY DEF InsightRulesAssumption, Imported, Verified, RuleRow
<1> QED BY <1>1, <1>2

LEMMA RulesInitInv == ASSUME InsightRulesAssumption, RulesInit PROVE RulesInv
BY DEF InsightRulesAssumption, RulesInit, RulesInv, RulesTypeOK, Verified, NoRow, NoRefresh, RuleRow

\* A refresh that keeps the last public rules commits the rows it has.
LEMMA KeepInv ==
  ASSUME InsightRulesAssumption, RulesInv, refresh.at # "idle", Keep,
         used' \in [publish : 0..MaxPublish, fail : 0..MaxFailures, restart : 0..MaxRestarts]
  PROVE  RulesInv'
<1>1. NoRefresh.at = "idle" /\ NoRefresh \in [at : {"idle", "manifest", "content"}, rows : [Id -> RuleRow], expected : SUBSET Id]
  BY DEF NoRefresh, NoRow, RuleRow
<1> QED BY <1>1 DEF RulesInv, RulesTypeOK, Keep, Verified

LEMMA RefreshInv == ASSUME InsightRulesAssumption, RulesInv, Refresh PROVE RulesInv'
<1> USE DEF InsightRulesAssumption
<1>1. NoRefresh.at = "idle" /\ NoRefresh \in [at : {"idle", "manifest", "content"}, rows : [Id -> RuleRow], expected : SUBSET Id]
  BY DEF NoRefresh, NoRow, RuleRow
<1>2. CASE BeginRefresh
  <2>1. Seeded(rules) \in [Id -> RuleRow] /\ Verified(Seeded(rules), hash)
    BY SeededVerified DEF RulesInv, RulesTypeOK
  <2>2. CASE fetched = "fresh"
    BY <1>2, <2>1, <2>2 DEF BeginRefresh, RulesInv, RulesTypeOK, NoRefresh, Verified
  <2>3. CASE fetched # "fresh"
    <3>1. /\ refresh'.at = "manifest" /\ refresh'.rows = Seeded(rules)
          /\ refresh' \in [at : {"idle", "manifest", "content"}, rows : [Id -> RuleRow], expected : SUBSET Id]
      BY <1>2, <2>1, <2>3 DEF BeginRefresh, NoRefresh
    <3> QED BY <1>2, <2>1, <2>3, <3>1 DEF BeginRefresh, RulesInv, RulesTypeOK, Verified
  <2> QED BY <2>2, <2>3
<1>3. CASE FetchManifest
  BY <1>3 DEF FetchManifest, RulesInv, RulesTypeOK, Verified, importedState
<1>4. CASE AnswerUnchanged
  <2>1. CASE hash = refresh.expected
    BY <1>1, <1>4, <2>1 DEF AnswerUnchanged, RulesInv, RulesTypeOK, Verified
  <2>2. CASE hash # refresh.expected
    BY <1>4, <2>2, KeepInv DEF AnswerUnchanged, RulesInv, RulesTypeOK
  <2> QED BY <2>1, <2>2
<1>5. ASSUME NEW tagged \in BOOLEAN, AnswerContent(tagged) PROVE RulesInv'
  <2>1. Imported(refresh.rows, "remote", content) \in [Id -> RuleRow] /\ Verified(Imported(refresh.rows, "remote", content), content)
    BY PublicVerified DEF RulesInv, RulesTypeOK
  <2>2. rules' \in [Id -> RuleRow] /\ Verified(rules', hash')
    BY <1>5, <2>1 DEF AnswerContent, RulesInv, RulesTypeOK
  <2> QED BY <1>1, <1>5, <2>2 DEF AnswerContent, Tagged, RulesInv, RulesTypeOK
<1> QED BY <1>2, <1>3, <1>4, <1>5 DEF Refresh, RulesTypeOK, RulesInv

\* A process that starts with other plugins leaves the public rules alone: it
\* imports only over rows of plugins and of nobody.
LEMMA RestartInv == ASSUME InsightRulesAssumption, RulesInv, NEW loaded \in BOOLEAN, Restart(loaded) PROVE RulesInv'
<1> USE DEF InsightRulesAssumption
<1>1. NoRefresh.at = "idle" /\ NoRefresh \in [at : {"idle", "manifest", "content"}, rows : [Id -> RuleRow], expected : SUBSET Id]
  BY DEF NoRefresh, NoRow, RuleRow
<1>2. rules' \in [Id -> RuleRow] /\ Verified(rules', hash)
  <2>1. CASE loaded /\ ~(\E id \in PluginIds : id \in release' \/ rules[id].source \notin {"none", "plugin"})
    <3>1. rules' = Imported(rules, "plugin", PluginIds)
      BY <2>1 DEF Restart
    <3>2. rules' \in [Id -> RuleRow]
      BY <3>1, ImportedType DEF RulesInv, RulesTypeOK
    <3>3. Verified(rules', hash)
      BY <2>1, <3>1 DEF RulesInv, RulesTypeOK, Imported, Verified, RuleRow
    <3> QED BY <3>2, <3>3
  <2>2. CASE loaded /\ \E id \in PluginIds : id \in release' \/ rules[id].source \notin {"none", "plugin"}
    BY <2>2 DEF Restart, RulesInv, RulesTypeOK
  <2>3. CASE ~loaded
    <3>1. rules' = [id \in Id |-> IF rules[id].source = "plugin" THEN [rules[id] EXCEPT !.active = FALSE] ELSE rules[id]]
      BY <2>3 DEF Restart
    <3>2. \A id \in Id : rules[id] \in RuleRow
      BY DEF RulesInv, RulesTypeOK
    <3>3. \A id \in Id : rules'[id] \in RuleRow /\ (rules'[id] = rules[id] \/ (rules[id].source = "plugin" /\ rules'[id].source = "plugin"))
      BY <3>1, <3>2, RowDisabled
    <3> QED BY <3>1, <3>3 DEF RulesInv, Verified
  <2> QED BY <2>1, <2>2, <2>3
<1>3. used' \in [publish : 0..MaxPublish, fail : 0..MaxFailures, restart : 0..MaxRestarts]
  BY DEF Restart, RulesInv, RulesTypeOK
<1> QED BY <1>1, <1>2, <1>3 DEF Restart, RulesInv, RulesTypeOK

LEMMA RulesStepInv == ASSUME InsightRulesAssumption, RulesInv, [RulesNext]_IRvars PROVE RulesInv'
<1> USE DEF InsightRulesAssumption
<1>1. CASE SeedEmpty
  <2>1. Seeded(rules) \in [Id -> RuleRow] /\ Verified(Seeded(rules), hash)
    BY SeededVerified DEF RulesInv, RulesTypeOK
  <2> QED BY <1>1, <2>1 DEF SeedEmpty, RulesInv, RulesTypeOK, Verified
<1>2. CASE Refresh
  BY <1>2, RefreshInv
<1>3. ASSUME NEW stage \in {"manifest", "content"}, FailAt(stage) PROVE RulesInv'
  <2>1. refresh.at # "idle" /\ Keep
    BY <1>3 DEF FailAt
  <2>2. used' \in [publish : 0..MaxPublish, fail : 0..MaxFailures, restart : 0..MaxRestarts]
    BY <1>3 DEF FailAt, RulesInv, RulesTypeOK
  <2> QED BY <2>1, <2>2, KeepInv
<1>4. CASE Age
  BY <1>4 DEF Age, RulesInv, RulesTypeOK, Verified
<1>5. CASE PublishContent
  BY <1>5 DEF PublishContent, RulesInv, RulesTypeOK, Verified, importedState
<1>6. CASE PublishManifest
  BY <1>6 DEF PublishManifest, RulesInv, RulesTypeOK, Verified, importedState
<1>7. ASSUME NEW loaded \in BOOLEAN, Restart(loaded) PROVE RulesInv'
  BY <1>7, RestartInv
<1>8. CASE UNCHANGED IRvars
  BY <1>8 DEF IRvars, RulesInv, RulesTypeOK, Verified
<1> QED BY <1>1, <1>2, <1>3, <1>4, <1>5, <1>6, <1>7, <1>8 DEF RulesNext, FailManifest, RejectContent

\* The stored rules are typed and verified, and so is what an open refresh commits.
THEOREM RulesInvariance == ASSUME InsightRulesAssumption PROVE RulesSpec => []RulesInv
BY RulesInitInv, RulesStepInv, PTL DEF RulesSpec

\* Between refreshes the active public rules are exactly those of the last verified
\* ruleset, whatever the network, the backups and other plugins do (insight_rules.py).
THEOREM PublicRulesVerified == ASSUME InsightRulesAssumption PROVE RulesSpec => []RemoteRowsVerified
<1>1. RulesInv => RemoteRowsVerified
  BY DEF RulesInv, Verified, RemoteRowsVerified
<1> QED BY <1>1, RulesInvariance, PTL

-----------------------------------------------------------------------------
(***************************************************************************)
(* The findings of events.  Stored events are never reordered and a later  *)
(* one is never nearer, so what the last evaluation of an event found stays*)
(* what there is to find on its earlier side.                              *)
(***************************************************************************)

Event == [kind : Kinds, time : 0..LastTime, context : Contexts]

Reported(found, type, i, j) == \E f \in found : f.type = type /\ f.of = {i, j}

\* The nearest earlier mate of an event whose last evaluation did not fail is
\* reported with it, of whatever kind the event is.
NearestFound(s, bad, found) ==
  \A type \in DOMAIN Security : \A e \in DOMAIN s \ bad : \A m \in Nearest(s, type, e) :
    m <= e => Reported(found, type, e, m)

FindingsInv == events \in Seq(Event) /\ NearestFound(events, failed, findings)

\* What the code looks for on either side is what is related.
LEMMA CandidatesRelated ==
  ASSUME EventInsightsAssumption, NEW s \in Seq(Event), NEW type \in DOMAIN Security,
         NEW i \in DOMAIN s, NEW j \in DOMAIN s
  PROVE  /\ s[i].kind = "failure" => (j \in Candidates(s, type, i) <=> Related(type, s[i], s[j]))
         /\ s[i].kind = Security[type] => (j \in Candidates(s, type, i) <=> Related(type, s[j], s[i]))
<1> s[i] \in Event /\ s[j] \in Event
  OBVIOUS
<1>1. s[i].time \in Int /\ s[j].time \in Int /\ Near \in Int
  BY DEF Event, EventInsightsAssumption
<1>2. /\ type \in {"blocked_request", "ban_after_access"}
      /\ Security[type] = IF type = "ban_after_access" THEN "ban" ELSE "geoblock"
  BY DEF Security
<1>3. Compatible(s[i], s[j]) <=> Compatible(s[j], s[i])
  BY DEF Compatible
<1>4. ASSUME s[i].kind = "failure" PROVE j \in Candidates(s, type, i) <=> Related(type, s[i], s[j])
  <2>1. {s[i].kind, s[j].kind} = {"failure", Security[type]} <=> s[j].kind = Security[type]
    BY <1>2, <1>4
  <2>2. s[j].time \in NearTo(type, s[i]) <=>
          s[j].time - s[i].time \in (IF type = "ban_after_access" THEN 0 ELSE -Near)..Near
    <3>1. CASE type = "ban_after_access"
      BY <1>1, <1>2, <1>4, <3>1 DEF NearTo
    <3>2. CASE type # "ban_after_access"
      <4>1. NearTo(type, s[i]) = (s[i].time - Near)..(s[i].time + Near)
        BY <3>2 DEF NearTo
      <4>2. \A t \in Int, u \in Int : u \in (t - Near)..(t + Near) <=> u - t \in (-Near)..Near
        BY <1>1
      <4> QED BY <1>1, <3>2, <4>1, <4>2
    <3> QED BY <3>1, <3>2
  <2> QED BY <1>4, <2>1, <2>2 DEF Candidates, Related
<1>5. ASSUME s[i].kind = Security[type] PROVE j \in Candidates(s, type, i) <=> Related(type, s[j], s[i])
  <2>1. {s[i].kind, s[j].kind} = {"failure", Security[type]} <=> s[j].kind = "failure"
    BY <1>2, <1>5
  <2>2. s[j].time \in NearTo(type, s[i]) <=>
          s[i].time - s[j].time \in (IF type = "ban_after_access" THEN 0 ELSE -Near)..Near
    <3>1. CASE type = "ban_after_access"
      BY <1>1, <1>2, <1>5, <3>1 DEF NearTo
    <3>2. CASE type # "ban_after_access"
      <4>1. NearTo(type, s[i]) = (s[i].time - Near)..(s[i].time + Near)
        BY <3>2 DEF NearTo
      <4>2. \A t \in Int, u \in Int : u \in (t - Near)..(t + Near) <=> t - u \in (-Near)..Near
        BY <1>1
      <4> QED BY <1>1, <3>2, <4>1, <4>2
    <3> QED BY <3>1, <3>2
  <2> QED BY <1>3, <1>5, <2>1, <2>2 DEF Candidates, Related
<1> QED BY <1>4, <1>5

\* The finding of two events is made from either of them.
LEMMA LinkedFromNearest ==
  ASSUME EventInsightsAssumption, FindingsInv
  PROVE  PairsLinked
<1> SUFFICES ASSUME NEW type \in DOMAIN Security, NEW i \in DOMAIN events \ failed, NEW j \in DOMAIN events \ failed,
                    Related(type, events[i], events[j]),
                    Closest(i, j, {k \in DOMAIN events : Related(type, events[i], events[k])}),
                    Closest(j, i, {k \in DOMAIN events : Related(type, events[k], events[j])})
             PROVE  Reported(findings, type, i, j)
  BY DEF PairsLinked, Reported
<1>1. /\ events[i].kind = "failure" /\ events[j].kind = Security[type]
      /\ i \in Int /\ j \in Int
  BY DEF Related, FindingsInv
<1>2. Candidates(events, type, i) = {k \in DOMAIN events : Related(type, events[i], events[k])}
  BY <1>1, CandidatesRelated DEF Candidates, FindingsInv
<1>3. Candidates(events, type, j) = {k \in DOMAIN events : Related(type, events[k], events[j])}
  BY <1>1, CandidatesRelated DEF Candidates, FindingsInv
<1>4. j \in Nearest(events, type, i)
  BY <1>2 DEF Nearest, Closest
<1>5. i \in Nearest(events, type, j)
  BY <1>3 DEF Nearest, Closest
<1>6. CASE j <= i
  BY <1>4, <1>6 DEF FindingsInv, NearestFound
<1>7. CASE i <= j
  <2>1. Reported(findings, type, j, i)
    BY <1>5, <1>7 DEF FindingsInv, NearestFound
  <2>2. {j, i} = {i, j}
    OBVIOUS
  <2> QED BY <2>1, <2>2 DEF Reported
<1> QED BY <1>1, <1>6, <1>7

\* An event that is stored later is not nearer than what was nearest.
LEMMA NearestBefore ==
  ASSUME EventInsightsAssumption, NEW s \in Seq(Event), NEW x \in Event, NEW type \in DOMAIN Security,
         NEW e \in DOMAIN s, NEW m \in Nearest(Append(s, x), type, e), m \in DOMAIN s
  PROVE  m \in Nearest(s, type, e)
<1>1. \A k \in DOMAIN s : k \in DOMAIN Append(s, x) /\ Append(s, x)[k] = s[k]
  OBVIOUS
<1>2. \A k \in DOMAIN s : k \in Candidates(s, type, e) <=> k \in Candidates(Append(s, x), type, e)
  BY <1>1 DEF Candidates
<1>3. \A k \in DOMAIN s : Distance(s, e, k) = Distance(Append(s, x), e, k)
  BY <1>1 DEF Distance
<1>4. Candidates(s, type, e) \subseteq DOMAIN s
  BY DEF Candidates
<1> QED BY <1>2, <1>3, <1>4 DEF Nearest

\* An evaluation that is not rolled back reports the nearest mates of its event.
LEMMA EvaluationReports ==
  ASSUME NEW s, NEW e, NEW type \in DOMAIN Security, NEW m \in Nearest(s, type, e)
  PROVE  Reported(WithFindings(s, e), type, e, m)
<1> DEFINE link == Link(s, type, e, m)
<1>3. link \in Relationships(s, e)
  BY DEF Relationships
<1>4. link.type = type /\ link.of = {e, m}
  BY DEF Link
<1> HIDE DEF link
<1>5. CASE \E g \in findings : g.type = link.type /\ g.of = link.of
  BY <1>4, <1>5 DEF WithFindings, Reported
<1>6. CASE ~(\E g \in findings : g.type = link.type /\ g.of = link.of)
  <2>1. link \in WithFindings(s, e)
    BY <1>3, <1>6 DEF WithFindings
  <2> QED BY <1>4, <2>1 DEF Reported
<1> QED BY <1>5, <1>6

\* Whatever comes of the evaluation of an event, the nearest mates of the others
\* stay reported, and its own are unless it failed.
LEMMA FoundKeeps ==
  ASSUME NEW s, NEW e, Found(s, e),
         \A type \in DOMAIN Security : \A d \in (DOMAIN s \ failed) \ {e} : \A m \in Nearest(s, type, d) :
           m <= d => Reported(findings, type, d, m)
  PROVE  NearestFound(s, failed', findings')
<1> SUFFICES ASSUME NEW type \in DOMAIN Security, NEW d \in DOMAIN s \ failed', NEW m \in Nearest(s, type, d), m <= d
             PROVE  Reported(findings', type, d, m)
  BY DEF NearestFound
<1>1. findings \subseteq findings'
  BY DEF Found, WithFindings
<1>2. CASE d # e
  <2>1. d \notin failed
    BY <1>2 DEF Found
  <2> QED BY <1>1, <1>2, <2>1 DEF Reported
<1>3. CASE d = e
  <2>1. findings' = WithFindings(s, e)
    BY <1>3 DEF Found
  <2> QED BY <1>3, <2>1, EvaluationReports
<1> QED BY <1>2, <1>3

LEMMA FindingsInitInv == ASSUME FindingsInit PROVE FindingsInv
BY DEF FindingsInit, FindingsInv, NearestFound

LEMMA FindingsStepInv ==
  ASSUME EventInsightsAssumption, FindingsInv, [FindingsNext]_EIvars
  PROVE  FindingsInv'
<1>1. CASE StoreEvent
  <2>1. PICK x \in Event : events' = Append(events, x)
    BY <1>1 DEF StoreEvent, Event
  <2>2. /\ events' \in Seq(Event) /\ Len(events') = Len(events) + 1 /\ Len(events) \in Nat
        /\ DOMAIN events = 1..Len(events) /\ DOMAIN events' = 1..(Len(events) + 1)
    BY <2>1 DEF FindingsInv
  <2>3. \A type \in DOMAIN Security : \A d \in (DOMAIN events' \ failed) \ {Len(events')} :
          \A m \in Nearest(events', type, d) :
            m <= d => Reported(findings, type, d, m)
    <3> SUFFICES ASSUME NEW type \in DOMAIN Security, NEW d \in (DOMAIN events' \ failed) \ {Len(events')},
                        NEW m \in Nearest(events', type, d), m <= d
                 PROVE  Reported(findings, type, d, m)
      OBVIOUS
    <3>1. m \in DOMAIN events'
      BY DEF Nearest, Candidates
    <3>2. d \in DOMAIN events /\ m \in DOMAIN events
      BY <2>2, <3>1
    <3>3. m \in Nearest(events, type, d)
      BY <2>1, <3>2, NearestBefore DEF FindingsInv
    <3> QED BY <3>2, <3>3 DEF FindingsInv, NearestFound
  <2>4. Found(events', Len(events'))
    BY <1>1 DEF StoreEvent
  <2>5. NearestFound(events', failed', findings')
    BY <2>3, <2>4, FoundKeeps
  <2> QED BY <2>2, <2>5 DEF FindingsInv
<1>2. CASE Reconcile
  <2>1. PICK e \in DOMAIN events : Found(events, e)
    BY <1>2 DEF Reconcile
  <2>2. NearestFound(events, failed', findings')
    BY <2>1, FoundKeeps DEF FindingsInv, NearestFound
  <2> QED BY <1>2, <2>2 DEF Reconcile, FindingsInv
<1>3. CASE UNCHANGED EIvars
  BY <1>3 DEF EIvars, FindingsInv
<1> QED BY <1>1, <1>2, <1>3 DEF FindingsNext

\* A failure and a related ban or geoblock of which each is the other's nearest are
\* reported together, whichever was stored first and whatever came between, unless an
\* evaluation failed (events.py:463-515).
THEOREM LinkedPairs == ASSUME EventInsightsAssumption PROVE FindingsSpec => []PairsLinked
<1>1. FindingsInit => FindingsInv
  BY FindingsInitInv
<1>2. FindingsInv /\ [FindingsNext]_EIvars => FindingsInv'
  BY FindingsStepInv
<1>3. FindingsInv => PairsLinked
  BY LinkedFromNearest
<1> QED BY <1>1, <1>2, <1>3, PTL DEF FindingsSpec

-----------------------------------------------------------------------------
(***************************************************************************)
(* The trends.  A day is compared in ticks, each of which takes the next   *)
(* groups in order; what a day has judged is closed downwards.  First, the *)
(* order of the groups.                                                    *)
(***************************************************************************)

LEMMA BeforeOrder ==
  ASSUME NEW a \in Nat, NEW b \in Nat, NEW p \in Nat \X Nat, NEW q \in Nat \X Nat
  PROVE  /\ Before(p, q) \/ p = q \/ Before(q, p)
         /\ ~Before(p, p)
         /\ Before(p, q) => p[1] <= q[1]
         /\ Before(<<a, b>>, p) => a <= p[1]
         /\ a < p[1] => Before(<<a, b>>, p)
BY DEF Before

LEMMA BeforeTransitive ==
  ASSUME NEW p \in Nat \X Nat, NEW q \in Nat \X Nat, NEW r \in Nat \X Nat, Before(p, q), Before(q, r)
  PROVE  Before(p, r)
BY DEF Before

LEMMA PairsAreNumbers == ASSUME TrendsAssumption PROVE Pair \subseteq Nat \X Nat /\ IsFiniteSet(Pair)
<1>1. IsFiniteSet(Metric \X Group)
  BY FS_Product DEF TrendsAssumption
<1> QED BY <1>1 DEF TrendsAssumption, Pair

\* The last of some groups is one of them.
LEMMA LastIn ==
  ASSUME TrendsAssumption, NEW S, S \subseteq Pair, S # {}
  PROVE  Last(S) \in S
<1> DEFINE After(p) == {q \in S : Before(p, q)}
           T == {After(p) : p \in S}
<1>0. IsFiniteSet(S) /\ S \subseteq Nat \X Nat
  BY PairsAreNumbers, FS_Subset
<1>1. T \subseteq FiniteSubsetsOf(S)
  BY <1>0, FS_FiniteSubsetsOfFinite
<1>2. T # {}
  OBVIOUS
<1>3. IsWellFoundedOn(StrictSubsetOrdering(S), FiniteSubsetsOf(S))
  BY <1>0, FS_StrictSubsetOrderingWellFounded
<1> HIDE DEF T
<1>4. PICK t \in T : \A u \in T : ~(<<u, t>> \in StrictSubsetOrdering(S))
  BY <1>1, <1>2, <1>3, WFMin
<1>5. PICK p \in S : t = After(p)
  BY DEF T
<1>6. \A q \in S : q = p \/ Before(q, p)
  <2> SUFFICES ASSUME NEW q \in S, q # p, ~Before(q, p) PROVE FALSE
    OBVIOUS
  <2>1. p \in Nat \X Nat /\ q \in Nat \X Nat
    BY <1>0
  <2>2. Before(p, q)
    BY <2>1, BeforeOrder
  <2>3. After(q) \subseteq After(p)
    <3> SUFFICES ASSUME NEW r \in S, Before(q, r) PROVE Before(p, r)
      OBVIOUS
    <3> QED BY <1>0, <2>1, <2>2, BeforeTransitive
  <2>4. q \in After(p) /\ q \notin After(q)
    BY <2>1, <2>2, BeforeOrder
  <2>5. After(q) \in T /\ After(q) \subseteq S
    BY DEF T
  <2>6. <<After(q), t>> \in StrictSubsetOrdering(S)
    BY <1>5, <2>3, <2>4, <2>5 DEF StrictSubsetOrdering
  <2> QED BY <1>4, <2>5, <2>6
<1> QED BY <1>6 DEF Last

-----------------------------------------------------------------------------
\* What one tick takes.

Taken(state) == {p \in Pending(state) : Cardinality({q \in Pending(state) : Before(q, p)}) < MaxGroups}

At(state) == <<state.at.metric, state.at.group>>

\* What is judged of a day, in all its ticks: every group of a metric no tick found
\* unready, up to where the comparison has come.
JudgedUpTo(state, bad, seen) ==
  \A p \in (Metric \ bad) \X Group : p \in seen \/ (~state.completed /\ Before(At(state), p))

LEMMA PendingPairs ==
  ASSUME TrendsAssumption, NEW state
  PROVE  /\ Pending(state) \subseteq Pair /\ IsFiniteSet(Pending(state)) /\ Taken(state) \subseteq Pending(state)
         /\ \A p \in Pending(state) : Cardinality({q \in Pending(state) : Before(q, p)}) \in Nat
         /\ Cardinality(Pending(state)) \in Nat
<1>1. Pending(state) \subseteq Pair
  BY DEF Pending
<1>2. IsFiniteSet(Pending(state))
  BY <1>1, PairsAreNumbers, FS_Subset
<1>3. \A p \in Pending(state) : {q \in Pending(state) : Before(q, p)} \subseteq Pending(state)
  OBVIOUS
<1>4. \A p \in Pending(state) : IsFiniteSet({q \in Pending(state) : Before(q, p)})
  BY <1>2, <1>3, FS_Subset
<1> QED BY <1>1, <1>2, <1>4, FS_CardinalityType DEF Taken

\* Of the groups that can be judged, a tick leaves none out before the last it takes.
LEMMA TakenClosed ==
  ASSUME TrendsAssumption, NEW state, NEW l \in Taken(state), NEW p \in Pending(state), ~Before(l, p)
  PROVE  p \in Taken(state)
<1> DEFINE Under(r) == {q \in Pending(state) : Before(q, r)}
<1>1. l \in Pending(state) /\ Pending(state) \subseteq Nat \X Nat
  BY PendingPairs, PairsAreNumbers
<1>2. p = l \/ Before(p, l)
  BY <1>1, BeforeOrder
<1>3. Under(p) \subseteq Under(l)
  <2> SUFFICES ASSUME NEW q \in Pending(state), Before(q, p) PROVE Before(q, l)
    OBVIOUS
  <2> QED BY <1>1, <1>2, BeforeTransitive
<1>4. IsFiniteSet(Under(l))
  <2>1. Under(l) \subseteq Pending(state)
    OBVIOUS
  <2> QED BY <2>1, PendingPairs, FS_Subset
<1>5. Cardinality(Under(p)) <= Cardinality(Under(l)) /\ Cardinality(Under(l)) < MaxGroups
  BY <1>3, <1>4, FS_Subset DEF Taken
<1>6. Cardinality(Under(p)) \in Nat /\ Cardinality(Under(l)) \in Nat /\ MaxGroups \in Int
  BY <1>1, PendingPairs DEF TrendsAssumption
<1>7. Cardinality(Under(p)) < MaxGroups
  <2> HIDE DEF Under
  <2> QED BY <1>5, <1>6
<1> QED BY <1>7 DEF Taken

\* Before what a tick comes to, a group is judged or its metric was not ready.
LEMMA TickJudges ==
  ASSUME TrendsAssumption, failing \subseteq Metric,
         NEW state, state.at.metric \in Nat, state.at.group \in Nat, ~state.completed,
         NEW p \in Pair, Before(At(state), p), p[1] \in Failed \/ Covered(p[1], state),
         p \notin Taken(state)
  PROVE  /\ ~Completes(state)
         /\ Taken(state) # {} => Before(Last(Taken(state)), p)
<1> DEFINE l == Last(Taken(state))
<1>1. p \in Nat \X Nat /\ p[1] \in Metric /\ p[1] >= state.at.metric /\ p[1] \in Nat
  BY PairsAreNumbers, BeforeOrder DEF At, Pair
<1>2. ASSUME Completes(state) PROVE FALSE
  <2>1. \A f \in Failed : f \in Metric /\ f \in Nat /\ ~(f >= state.at.metric)
    <3> SUFFICES ASSUME NEW f \in Failed, f \in Metric, f \in Nat, f >= state.at.metric PROVE FALSE
      BY DEF Failed, TrendsAssumption
    <3>1. f \in Reachable(state)
      BY <1>2 DEF Completes
    <3> QED BY <3>1 DEF Reachable
  <2>2. p[1] \in Reachable(state) /\ Covered(p[1], state)
    BY <1>1, <2>1 DEF Reachable
  <2>3. p \in Pending(state)
    BY <2>2 DEF Pending, At
  <2>4. Cardinality({q \in Pending(state) : Before(q, p)}) <= Cardinality(Pending(state))
    BY PendingPairs, FS_Subset
  <2>5. Cardinality({q \in Pending(state) : Before(q, p)}) < MaxGroups
    BY <1>2, <2>3, <2>4, PendingPairs DEF Completes, TrendsAssumption
  <2> QED BY <2>3, <2>5 DEF Taken
<1>3. ASSUME Taken(state) # {}, ~Before(l, p) PROVE FALSE
  <2>1. l \in Taken(state) /\ l \in Pending(state) /\ l \in Nat \X Nat
    BY <1>3, LastIn, PendingPairs, PairsAreNumbers
  <2>2. l[1] \in Reachable(state) /\ p[1] <= l[1]
    BY <1>1, <1>3, <2>1, BeforeOrder DEF Pending
  <2>3. \A f \in Failed : f \in Nat /\ ~(state.at.metric <= f /\ f <= p[1])
    BY <1>1, <2>1, <2>2 DEF Reachable, Failed, TrendsAssumption
  <2>4. p[1] \in Reachable(state) /\ Covered(p[1], state)
    BY <1>1, <2>3 DEF Reachable
  <2>5. p \in Pending(state)
    BY <2>4 DEF Pending, At
  <2> QED BY <1>3, <2>1, <2>5, TakenClosed
<1> QED BY <1>2, <1>3

-----------------------------------------------------------------------------
\* Sources are told apart by a number that is never used again; what deleted events
\* is not yet beyond the retention; and what a day has judged is without a gap.
TrendsInv ==
  /\ TrendsTypeOK
  /\ \A m \in Metric : /\ source[m] <= sourceChanges + 1 /\ watched[m].sources <= sourceChanges + 1
                       /\ changed[m] <= now
                       /\ watched[m].sources = source[m] /\ source[m] # 0 => changed[m] <= watched[m].observed
  /\ deleted = -Half \/ (retention # 0 /\ deleted <= now - retention)
  /\ (cycle.end = -1 /\ cycle.completed) \/ JudgedUpTo(cycle, unready, judged)

LEMMA TrendNumbers ==
  ASSUME TrendsAssumption, TrendsInv
  PROVE  /\ now \in Nat /\ retention \in Nat /\ Half \in Nat /\ deleted \in Int
         /\ Metric \cup {0} \subseteq Nat /\ Group \cup {0} \subseteq Nat /\ failing \subseteq Metric
<1>1. Half \in Nat /\ MaxTime \in Nat /\ Retentions \subseteq Nat /\ Metric \subseteq Nat /\ Group \subseteq Nat
  BY DEF TrendsAssumption
<1>2. now \in 0..MaxTime /\ retention \in Retentions /\ deleted \in Int /\ failing \subseteq Metric
  BY DEF TrendsInv, TrendsTypeOK
<1> QED BY <1>1, <1>2

LEMMA TodayType == ASSUME TrendsAssumption, now \in 0..MaxTime PROVE Today \in 0..MaxTime
<1>1. Day \in Nat /\ Day > 0 /\ MaxTime \in Nat
  BY DEF TrendsAssumption
<1> QED BY <1>1 DEF Today

LEMMA TrendsInitInv == ASSUME TrendsAssumption, TrendsInit PROVE TrendsInv
<1>1. Half \in Nat /\ MaxTime \in Nat /\ MaxSourceChanges \in Nat
  BY DEF TrendsAssumption
<1>2. TrendsTypeOK
  BY <1>1 DEF TrendsInit, TrendsTypeOK, Start
<1>3. cycle.end = -1 /\ cycle.completed
  BY DEF TrendsInit
<1> QED BY <1>1, <1>2, <1>3 DEF TrendsInit, TrendsInv

\* The tick, with the day it works on.
TickWith(state, fresh, taken) ==
  /\ state = Resumed /\ fresh = (state # cycle)
  /\ taken = IF state.completed THEN {} ELSE Taken(state)
  /\ watched' = [m \in Metric |-> [sources |-> source[m], observed |-> Observed(m)]]
  /\ cycle' = [end |-> state.end,
               at |-> IF taken = {} THEN state.at ELSE [metric |-> Last(taken)[1], group |-> Last(taken)[2]],
               completed |-> state.completed \/ Completes(state)]
  /\ \E increased \in {{}, taken} :
       insights' = insights \cup {[of |-> p, end |-> state.end] : p \in increased}
  /\ judged' = (IF fresh THEN {} ELSE judged) \cup taken
  /\ unready' = IF state.completed THEN unready
                ELSE (IF fresh THEN {} ELSE unready) \cup {m \in Metric \ Failed : ~Covered(m, state)}
  /\ UNCHANGED <<now, source, failing, retention, changed, deleted, sourceChanges>>

LEMMA TickOf ==
  ASSUME TrendTick
  PROVE  \E state, fresh, taken : TickWith(state, fresh, taken)
BY DEF TrendTick, Taken, TickWith

LEMMA ResumedState ==
  ASSUME TrendsAssumption, TrendsInv
  PROVE  /\ Resumed \in [end : -1..MaxTime, at : [metric : Metric \cup {0}, group : Group \cup {0}], completed : BOOLEAN]
         /\ Resumed.completed => Resumed = cycle
         /\ ~Resumed.completed =>
              JudgedUpTo(Resumed, IF Resumed # cycle THEN {} ELSE unready, IF Resumed # cycle THEN {} ELSE judged)
<1> DEFINE new == [end |-> Today, at |-> Start, completed |-> FALSE]
<1>1. CASE Resumed = cycle
  <2>1. ~cycle.completed => JudgedUpTo(cycle, unready, judged)
    BY DEF TrendsInv
  <2> QED BY <1>1, <2>1 DEF TrendsInv, TrendsTypeOK
<1>2. CASE Resumed # cycle
  <2>1. Resumed = new
    BY <1>2 DEF Resumed
  <2>2. Today \in -1..MaxTime
    BY TodayType DEF TrendsInv, TrendsTypeOK
  <2>3. new \in [end : -1..MaxTime, at : [metric : Metric \cup {0}, group : Group \cup {0}], completed : BOOLEAN]
    BY <2>2 DEF Start
  <2>4. At(new) = <<0, 0>> /\ ~new.completed
    BY DEF At, Start
  <2>5. \A p \in Pair : Before(<<0, 0>>, p)
    BY PairsAreNumbers DEF Before, Pair, TrendsAssumption
  <2>6. JudgedUpTo(new, {}, {})
    BY <2>4, <2>5 DEF JudgedUpTo, Pair
  <2> QED BY <1>2, <2>1, <2>3, <2>4, <2>6
<1> QED BY <1>1, <1>2

\* What a tick judges leaves no gap in the day.
LEMMA TickNoGap ==
  ASSUME TrendsAssumption, failing \subseteq Metric,
         NEW state, state.at.metric \in Nat, state.at.group \in Nat, ~state.completed,
         NEW bad, NEW seen, JudgedUpTo(state, bad, seen),
         NEW next, next.completed = Completes(state),
         Taken(state) = {} => next.at = state.at,
         Taken(state) # {} => next.at = [metric |-> Last(Taken(state))[1], group |-> Last(Taken(state))[2]]
  PROVE  JudgedUpTo(next, bad \cup {m \in Metric \ Failed : ~Covered(m, state)}, seen \cup Taken(state))
<1> DEFINE worse == bad \cup {m \in Metric \ Failed : ~Covered(m, state)}
<1> SUFFICES ASSUME NEW p \in (Metric \ worse) \X Group, p \notin seen, p \notin Taken(state)
             PROVE  ~next.completed /\ Before(At(next), p)
  BY DEF JudgedUpTo
<1>1. p \in Pair /\ p \in (Metric \ bad) \X Group /\ (p[1] \in Failed \/ Covered(p[1], state))
  BY DEF Pair
<1>2. Before(At(state), p)
  BY <1>1 DEF JudgedUpTo
<1>3. ~Completes(state) /\ (Taken(state) # {} => Before(Last(Taken(state)), p))
  BY <1>1, <1>2, TickJudges
<1>4. CASE Taken(state) = {}
  BY <1>2, <1>3, <1>4 DEF At
<1>5. CASE Taken(state) # {}
  <2>1. At(next) = <<Last(Taken(state))[1], Last(Taken(state))[2]>>
    BY <1>5 DEF At
  <2>2. Last(Taken(state)) \in Metric \X Group
    BY <1>5, LastIn, PendingPairs DEF Pair
  <2>3. At(next) = Last(Taken(state))
    BY <2>1, <2>2
  <2> QED BY <1>3, <1>5, <2>3
<1> QED BY <1>4, <1>5

\* Where a tick has come to is where a pair is, or where it was.
LEMMA TickTyped ==
  ASSUME TrendsAssumption, TrendsInv, TrendTick
  PROVE  TrendsTypeOK'
<1> PICK state, fresh, taken : TickWith(state, fresh, taken)
  BY TickOf
<1> USE DEF TickWith
<1> DEFINE place == IF taken = {} THEN state.at ELSE [metric |-> Last(taken)[1], group |-> Last(taken)[2]]
           Cycles == [end : -1..MaxTime, at : [metric : Metric \cup {0}, group : Group \cup {0}], completed : BOOLEAN]
<1>1. state \in Cycles
  BY ResumedState
<1>2. taken \subseteq Pair
  BY PendingPairs
<1>3. place \in [metric : Metric \cup {0}, group : Group \cup {0}]
  <2>1. CASE taken = {}
    BY <1>1, <2>1
  <2>2. CASE taken # {}
    <3>1. Last(taken) \in Metric \X Group
      BY <1>2, <2>2, LastIn DEF Pair
    <3> QED BY <2>2, <3>1
  <2> QED BY <2>1, <2>2
<1>4. (state.completed \/ Completes(state)) \in BOOLEAN
  OBVIOUS
<1>5. cycle' \in Cycles
  <2> HIDE DEF place
  <2>1. cycle' = [end |-> state.end, at |-> place, completed |-> state.completed \/ Completes(state)]
    BY DEF place
  <2> QED BY <1>1, <1>3, <1>4, <2>1
<1>6. \A m \in Metric : Observed(m) \in 0..MaxTime /\ source[m] \in -1..MaxSourceChanges + 1
  BY DEF Observed, TrendsInv, TrendsTypeOK
<1>7. watched' \in [Metric -> [sources : -1..MaxSourceChanges + 1, observed : 0..MaxTime]]
  BY <1>6
<1>8. insights' \subseteq [of : Pair, end : -1..MaxTime]
  BY <1>1, <1>2 DEF TrendsInv, TrendsTypeOK
<1>9. judged' \subseteq Pair /\ unready' \subseteq Metric
  BY <1>2 DEF TrendsInv, TrendsTypeOK
<1> QED BY <1>5, <1>7, <1>8, <1>9 DEF TrendsInv, TrendsTypeOK

LEMMA TickInv == ASSUME TrendsAssumption, TrendsInv, TrendTick PROVE TrendsInv'
<1> PICK state, fresh, taken : TickWith(state, fresh, taken)
  BY TickOf
<1>1. TrendsTypeOK'
  BY TickTyped
<1>2. \A m \in Metric : watched'[m].sources = source[m] /\ watched'[m].observed = Observed(m)
  BY DEF TickWith
<1>3. \A m \in Metric : source[m] # 0 => changed[m] <= Observed(m)
  BY DEF Observed, TrendsInv
<1>4. \A m \in Metric : /\ source'[m] <= sourceChanges' + 1 /\ watched'[m].sources <= sourceChanges' + 1
                        /\ changed'[m] <= now'
                        /\ watched'[m].sources = source'[m] /\ source'[m] # 0 => changed'[m] <= watched'[m].observed
  BY <1>2, <1>3 DEF TrendsInv, TickWith
<1>5. (deleted = -Half \/ (retention # 0 /\ deleted <= now - retention))'
  BY DEF TrendsInv, TickWith
<1>6. CASE state.completed
  <2>1. state = cycle /\ taken = {} /\ ~fresh
    BY <1>6, ResumedState DEF TickWith
  <2>2. cycle'.end = cycle.end /\ cycle'.at = cycle.at /\ cycle'.completed /\ unready' = unready /\ judged' = judged
    BY <1>6, <2>1 DEF TickWith
  <2>3. (cycle'.end = -1 /\ cycle'.completed) \/ JudgedUpTo(cycle', unready', judged')
    BY <1>6, <2>1, <2>2 DEF TrendsInv, JudgedUpTo, At
  <2> QED BY <1>1, <1>4, <1>5, <2>3 DEF TrendsInv
<1>7. CASE ~state.completed
  <2> DEFINE bad == IF fresh THEN {} ELSE unready
             seen == IF fresh THEN {} ELSE judged
  <2>1. JudgedUpTo(state, bad, seen)
    BY <1>7, ResumedState DEF TickWith
  <2>2. taken = Taken(state)
    BY <1>7 DEF TickWith
  <2>3. state.at.metric \in Nat /\ state.at.group \in Nat /\ failing \subseteq Metric
    <3>1. state.at \in [metric : Metric \cup {0}, group : Group \cup {0}]
      BY ResumedState DEF TickWith
    <3> QED BY <3>1, TrendNumbers
  <2>4. /\ cycle'.completed = Completes(state)
        /\ Taken(state) = {} => cycle'.at = state.at
        /\ Taken(state) # {} => cycle'.at = [metric |-> Last(Taken(state))[1], group |-> Last(Taken(state))[2]]
    BY <1>7, <2>2 DEF TickWith, Completes
  <2>5. JudgedUpTo(cycle', bad \cup {m \in Metric \ Failed : ~Covered(m, state)}, seen \cup Taken(state))
    <3> HIDE DEF bad, seen
    <3> QED BY <1>7, <2>1, <2>3, <2>4, TickNoGap
  <2>6. JudgedUpTo(cycle', unready', judged')
    BY <1>7, <2>2, <2>5 DEF TickWith
  <2> QED BY <1>1, <1>4, <1>5, <2>6 DEF TrendsInv
<1> QED BY <1>6, <1>7

LEMMA TrendsStepInv == ASSUME TrendsAssumption, TrendsInv, [TrendsNext]_TRvars PROVE TrendsInv'
<1>1. CASE Pass
  <2>1. now + 1 \in 0..MaxTime
    BY <1>1 DEF Pass, TrendsInv, TrendsTypeOK, TrendsAssumption
  <2>2. \A m \in Metric : changed[m] <= now + 1
    BY DEF TrendsInv, TrendsTypeOK
  <2>3. deleted = -Half \/ (retention # 0 /\ deleted <= now + 1 - retention)
    BY TrendNumbers DEF TrendsInv
  <2>4. TrendsTypeOK'
    BY <1>1, <2>1 DEF Pass, TrendsInv, TrendsTypeOK
  <2>5. (cycle'.end = -1 /\ cycle'.completed) \/ JudgedUpTo(cycle', unready', judged')
    BY <1>1 DEF Pass, TrendsInv, JudgedUpTo, At
  <2>6. now' = now + 1 /\ UNCHANGED <<source, watched, changed, deleted, retention, sourceChanges>>
    BY <1>1 DEF Pass
  <2>7. \A m \in Metric : /\ source'[m] <= sourceChanges' + 1 /\ watched'[m].sources <= sourceChanges' + 1
                          /\ changed'[m] <= now'
                          /\ watched'[m].sources = source'[m] /\ source'[m] # 0 => changed'[m] <= watched'[m].observed
    BY <2>2, <2>6 DEF TrendsInv
  <2>8. deleted' = -Half \/ (retention' # 0 /\ deleted' <= now' - retention')
    BY <2>3, <2>6, TrendNumbers
  <2> QED BY <2>4, <2>5, <2>7, <2>8 DEF TrendsInv
<1>2. CASE SetRetention
  <2>1. -Half \in Int /\ sourceChanges + 1 \in 0..MaxSourceChanges /\ sourceChanges \in Int
    BY <1>2 DEF SetRetention, TrendsInv, TrendsTypeOK, TrendsAssumption
  <2>2. \A m \in Metric : source[m] <= sourceChanges + 2 /\ watched[m].sources <= sourceChanges + 2
    BY <2>1 DEF TrendsInv, TrendsTypeOK
  <2> QED BY <1>2, <2>1, <2>2 DEF SetRetention, TrendsInv, TrendsTypeOK, JudgedUpTo, At
<1>3. CASE CleanUp
  <2>1. now - retention \in Int /\ retention # 0
    BY <1>3, TrendNumbers DEF CleanUp
  <2> QED BY <1>3, <2>1 DEF CleanUp, TrendsInv, TrendsTypeOK, JudgedUpTo, At
<1>4. CASE TrendTick
  BY <1>4, TickInv
<1>5. ASSUME NEW m \in Metric, ChangeSource(m) PROVE TrendsInv'
  <2>1. /\ sourceChanges + 1 \in 0..MaxSourceChanges /\ sourceChanges \in Int /\ MaxSourceChanges \in Int
        /\ sourceChanges + 2 \in 0..MaxSourceChanges + 1
    BY <1>5 DEF ChangeSource, TrendsInv, TrendsTypeOK, TrendsAssumption
  <2>2. PICK new \in {sourceChanges + 2, 0} : source' = [source EXCEPT ![m] = new]
    BY <1>5 DEF ChangeSource
  <2>3. source' \in [Metric -> 0..MaxSourceChanges + 1] /\ changed' \in [Metric -> 0..MaxTime]
    BY <1>5, <2>1, <2>2 DEF ChangeSource, TrendsInv, TrendsTypeOK
  <2>4. TrendsTypeOK'
    BY <1>5, <2>1, <2>3 DEF ChangeSource, TrendsInv, TrendsTypeOK
  <2>5. ASSUME NEW k \in Metric
        PROVE  /\ source'[k] <= sourceChanges' + 1 /\ watched'[k].sources <= sourceChanges' + 1
               /\ changed'[k] <= now'
               /\ watched'[k].sources = source'[k] /\ source'[k] # 0 => changed'[k] <= watched'[k].observed
    <3>1. /\ source[k] \in Int /\ watched[k].sources \in Int /\ changed[k] \in Int /\ now \in Int
          /\ source[k] <= sourceChanges + 1 /\ watched[k].sources <= sourceChanges + 1
          /\ changed[k] <= now
          /\ watched[k].sources = source[k] /\ source[k] # 0 => changed[k] <= watched[k].observed
      BY DEF TrendsInv, TrendsTypeOK
    <3>2. CASE k = m
      <4>1. source'[k] = new /\ changed'[k] = now
        BY <1>5, <2>2, <3>2 DEF ChangeSource, TrendsInv, TrendsTypeOK
      <4> QED BY <1>5, <2>1, <2>2, <3>1, <4>1 DEF ChangeSource
    <3>3. CASE k # m
      <4>1. source'[k] = source[k] /\ changed'[k] = changed[k]
        BY <1>5, <2>2, <3>3 DEF ChangeSource, TrendsInv, TrendsTypeOK
      <4> QED BY <1>5, <2>1, <3>1, <4>1 DEF ChangeSource
    <3> QED BY <3>2, <3>3
  <2> QED BY <1>5, <2>4, <2>5 DEF ChangeSource, TrendsInv, JudgedUpTo, At
<1>6. ASSUME NEW m \in Metric, ReportSource(m) PROVE TrendsInv'
  BY <1>6 DEF ReportSource, TrendsInv, TrendsTypeOK, JudgedUpTo, At
<1>7. CASE UNCHANGED TRvars
  BY <1>7 DEF TRvars, TrendsInv, TrendsTypeOK, JudgedUpTo, At
<1> QED BY <1>1, <1>2, <1>3, <1>4, <1>5, <1>6, <1>7 DEF TrendsNext

\* The invariant of the comparison holds in every behaviour.
THEOREM TrendsInvariance == ASSUME TrendsAssumption PROVE TrendsSpec => []TrendsInv
BY TrendsInitInv, TrendsStepInv, PTL DEF TrendsSpec

\* A comparison that says it is complete has left out no group of a metric that was
\* covered in all its ticks (insight_trends.py).
THEOREM TrendsDrained == ASSUME TrendsAssumption PROVE TrendsSpec => []TrendDrained
<1>1. TrendsInv => TrendDrained
  BY DEF TrendsInv, JudgedUpTo, TrendDrained
<1> QED BY <1>1, TrendsInvariance, PTL

\* What a tick reports lies within what the present sources and retention cover.
LEMMA ReportCovered ==
  ASSUME TrendsAssumption, TrendsInv, [TrendsNext]_TRvars, NEW i \in insights' \ insights
  PROVE  changed[i.of[1]] <= Begins(i) /\ source[i.of[1]] # 0 /\ deleted <= Begins(i)
<1>1. TrendTick
  BY DEF TrendsNext, TRvars, Pass, SetRetention, CleanUp, ChangeSource, ReportSource
<1> PICK state, fresh, taken : TickWith(state, fresh, taken)
  BY <1>1, TickOf
<1>2. PICK p \in taken : i = [of |-> p, end |-> state.end]
  BY DEF TickWith
<1>3. ~state.completed /\ taken = Taken(state) /\ state = Resumed
  BY <1>2 DEF TickWith
<1>4. p \in Pending(state) /\ p[1] \in Metric
  BY <1>2, <1>3, PendingPairs DEF Pair
<1>5. /\ source[p[1]] # 0 /\ Observed(p[1]) <= Begins(state)
      /\ retention = 0 \/ Begins(state) >= now - retention
  BY <1>4 DEF Pending, Covered, Ready
<1>6. changed[p[1]] <= Observed(p[1]) /\ changed[p[1]] \in Int /\ Observed(p[1]) \in Nat
  BY <1>4, <1>5 DEF Observed, TrendsInv, TrendsTypeOK
<1>7. /\ Begins(state) \in Int /\ Begins(i) = Begins(state) /\ Half \in Nat /\ deleted \in Int
      /\ retention \in Nat /\ now \in Int
  <2>1. state.end \in Int
    BY <1>3, ResumedState DEF TrendsAssumption
  <2> QED BY <1>2, <2>1 DEF Begins, TrendsAssumption, TrendsInv, TrendsTypeOK
<1>8. deleted = -Half \/ (retention # 0 /\ deleted <= now - retention)
  BY DEF TrendsInv
<1> QED BY <1>2, <1>5, <1>6, <1>7, <1>8

\* Whatever is reported as an increase compares windows that the sources enabled now
\* have fed from the first day on and that no clean-up under the present retention
\* has touched (insight_trends.py).
THEOREM TrendsCovered == ASSUME TrendsAssumption PROVE TrendsSpec => TrendCovered
<1>1. TrendsInv /\ [TrendsNext]_TRvars =>
        [\A i \in insights' \ insights :
           /\ changed[i.of[1]] <= Begins(i) /\ source[i.of[1]] # 0
           /\ deleted <= Begins(i)]_TRvars
  BY ReportCovered
<1> QED BY <1>1, TrendsInvariance, PTL DEF TrendsSpec, TrendCovered
=============================================================================
