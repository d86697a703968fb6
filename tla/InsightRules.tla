------------------------------ MODULE InsightRules ------------------------------
(***************************************************************************)
(* The declarative insight rules: backend/app/services/insight_rules.py and *)
(* the part of PluginManager.seed_database that imports plugin rules.       *)
(*                                                                          *)
(* A rule has one row, whichever ruleset it comes from: the one the release *)
(* ships, the public one, or a plugin's.  The refresh imports the shipped   *)
(* ruleset, asks for the hash of the public one and then for its content,   *)
(* in one transaction that holds the write lock throughout.  The server     *)
(* publishes content and hash one after the other, may fail at each request *)
(* and may leave out the ETag.  Restarts change the release and the plugins.*)
(*                                                                          *)
(* A public ruleset is its set of rule ids and stands for its hash and ETag.*)
(***************************************************************************)
EXTENDS Integers, FiniteSets

CONSTANTS
  Id,         \* rule identifiers
  Releases,   \* the shipped rulesets, one per release: sets of ids
  Published,  \* the public rulesets: sets of ids
  PluginIds,  \* the ruleset of a plugin
  MaxPublish, MaxFailures, MaxRestarts,
  MayUntag,   \* whether an answer may come without an ETag
  NoRuleset   \* no ruleset: not a set of ids

InsightRulesAssumption ==
  /\ Releases # {} /\ Releases \subseteq SUBSET Id /\ PluginIds \subseteq Id
  /\ Published # {} /\ Published \subseteq SUBSET Id /\ NoRuleset \notin Published
  /\ {MaxPublish, MaxFailures, MaxRestarts} \subseteq Nat /\ MayUntag \in BOOLEAN

VARIABLES
  release,   \* the shipped ruleset of this process
  rules,     \* insight_rules: per id its source, the ruleset it was taken from, is_active
  hash,      \* insight_rules.sha256
  etag,      \* insight_rules.etag
  fetched,   \* insight_rules.fetched_at: never, less than RULE_REFRESH_INTERVAL ago, or longer
  content,   \* the public ruleset
  manifest,  \* the public hash
  refresh,   \* the refresh that is running: its rows, not committed, and the hash it expects
  used       \* how often the environment did what it does (of the specification only)

IRvars == <<release, rules, hash, etag, fetched, content, manifest, refresh, used>>

importedState == <<rules, hash, etag, fetched>>

NoRow == [source |-> "none", from |-> {}, active |-> FALSE]

NoRefresh == [at |-> "idle", rows |-> [id \in Id |-> NoRow], expected |-> {}]

RuleRow == [source : {"none", "bundled", "remote", "plugin"}, from : SUBSET Id, active : BOOLEAN]

RulesTypeOK ==
  /\ release \in Releases /\ rules \in [Id -> RuleRow]
  /\ {hash, etag} \subseteq Published \cup {NoRuleset} /\ fetched \in {"never", "fresh", "stale"}
  /\ {content, manifest} \subseteq Published
  /\ refresh \in [at : {"idle", "manifest", "content"}, rows : [Id -> RuleRow], expected : SUBSET Id]
  /\ used \in [publish : 0..MaxPublish, fail : 0..MaxFailures, restart : 0..MaxRestarts]

RulesInit ==
  /\ release \in Releases /\ rules = [id \in Id |-> NoRow]
  /\ hash = NoRuleset /\ etag = NoRuleset /\ fetched = "never"
  /\ content \in Published /\ manifest = content
  /\ refresh = NoRefresh /\ used = [publish |-> 0, fail |-> 0, restart |-> 0]

-----------------------------------------------------------------------------
\* Two sources of one id: a plugin never takes over another rule, nor does any
\* other source take over a plugin's, active or not.
Conflicts(table, source, ids) ==
  \E id \in ids :
    IF source = "plugin" THEN id \in release \/ table[id].source \notin {"none", "plugin"}
    ELSE table[id].source = "plugin"

\* Mutant: seeding replaces what was verified.
ImportedOver(table, source, ids) ==
  [id \in Id |->
    IF id \in ids THEN [source |-> source, from |-> ids, active |-> TRUE]
    ELSE IF table[id].source # source THEN table[id]
    ELSE IF source = "remote" /\ id \in release THEN [source |-> "bundled", from |-> release, active |-> TRUE]
    ELSE [table[id] EXCEPT !.active = FALSE]]

\* A verified override is kept when the shipped rules are seeded; a rule that is
\* no longer public is again the shipped one, or inactive.
Imported(table, source, ids) ==
  [id \in Id |->
    IF id \in ids
      THEN IF source = "bundled" /\ table[id].source = "remote" THEN table[id]
           ELSE [source |-> source, from |-> ids, active |-> TRUE]
    ELSE IF table[id].source # source THEN table[id]
    ELSE IF source = "remote" /\ id \in release THEN [source |-> "bundled", from |-> release, active |-> TRUE]
    ELSE [table[id] EXCEPT !.active = FALSE]]

Seeded(table) == Imported(table, "bundled", release)

\* active_rules: the first event of an empty table imports the shipped rules.
SeedEmpty ==
  /\ refresh = NoRefresh /\ \A id \in Id : ~rules[id].active
  /\ ~Conflicts(rules, "bundled", release)
  /\ rules' = Seeded(rules)
  /\ UNCHANGED <<release, hash, etag, fetched, content, manifest, refresh, used>>

-----------------------------------------------------------------------------
\* The shipped ruleset first: with a conflict the refresh ends here.  Within the
\* interval nothing is fetched.
BeginRefresh ==
  /\ refresh = NoRefresh /\ ~Conflicts(rules, "bundled", release)
  /\ IF fetched = "fresh"
       THEN rules' = Seeded(rules) /\ UNCHANGED refresh
       ELSE refresh' = [NoRefresh EXCEPT !.at = "manifest", !.rows = Seeded(rules)] /\ UNCHANGED rules
  /\ UNCHANGED <<release, hash, etag, fetched, content, manifest, used>>

FetchManifest ==
  /\ refresh.at = "manifest"
  /\ refresh' = [refresh EXCEPT !.at = "content", !.expected = manifest]
  /\ UNCHANGED <<release, importedState, content, manifest, used>>

\* Whatever fails, the shipped rules are committed and the last public ones stay.
Keep ==
  /\ rules' = refresh.rows /\ refresh' = NoRefresh
  /\ UNCHANGED <<release, hash, etag, fetched, content, manifest>>

FailAt(stage) ==
  /\ refresh.at = stage /\ used.fail < MaxFailures
  /\ used' = [used EXCEPT !.fail = @ + 1]
  /\ Keep

\* No answer, one that is too large, or an expired or malformed manifest.
FailManifest == FailAt("manifest")

\* No answer, or a ruleset that does not validate as a whole.
RejectContent == FailAt("content")

Unchanged304 == hash # NoRuleset /\ etag # NoRuleset /\ content = etag

AnswerUnchanged ==
  /\ refresh.at = "content" /\ Unchanged304
  /\ IF hash = refresh.expected
       THEN /\ rules' = refresh.rows /\ refresh' = NoRefresh /\ fetched' = "fresh"
            /\ UNCHANGED <<release, hash, etag, content, manifest>>
       ELSE Keep
  /\ UNCHANGED used

\* Mutant: an ETag is remembered for what could not be verified, too.
TaggedAlways(verified, tagged) == IF tagged THEN content ELSE etag

Tagged(verified, tagged) == IF verified /\ tagged THEN content ELSE etag

AnswerContent(tagged) ==
  LET verified == content = refresh.expected /\ ~Conflicts(refresh.rows, "remote", content)
  IN  /\ refresh.at = "content" /\ ~Unchanged304
      /\ rules' = IF verified THEN Imported(refresh.rows, "remote", content) ELSE refresh.rows
      /\ hash' = IF verified THEN content ELSE hash
      /\ fetched' = IF verified THEN "fresh" ELSE fetched
      /\ etag' = Tagged(verified, tagged)
      /\ refresh' = NoRefresh
      /\ UNCHANGED <<release, content, manifest, used>>

Refresh ==
  \/ BeginRefresh \/ FetchManifest \/ AnswerUnchanged
  \/ \E tagged \in {TRUE} \cup {~MayUntag} : AnswerContent(tagged)

-----------------------------------------------------------------------------
\* The interval is over.
Age ==
  /\ fetched = "fresh" /\ fetched' = "stale"
  /\ UNCHANGED <<release, rules, hash, etag, content, manifest, refresh, used>>

PublishContent ==
  /\ used.publish < MaxPublish /\ content = manifest
  /\ content' \in Published \ {content}
  /\ used' = [used EXCEPT !.publish = @ + 1]
  /\ UNCHANGED <<release, importedState, manifest, refresh>>

PublishManifest ==
  /\ manifest # content /\ manifest' = content
  /\ UNCHANGED <<release, importedState, content, refresh, used>>

\* seed_database imports what the loaded plugins bring (a conflict leaves the
\* rules as they are) and switches off those of plugins that are gone.
Restart(loaded) ==
  LET imports == loaded /\ ~(\E id \in PluginIds : id \in release' \/ rules[id].source \notin {"none", "plugin"})
  IN  /\ used.restart < MaxRestarts
      /\ release' \in Releases
      /\ rules' = IF imports THEN Imported(rules, "plugin", PluginIds)
                 ELSE IF loaded THEN rules
                 ELSE [id \in Id |-> IF rules[id].source = "plugin" THEN [rules[id] EXCEPT !.active = FALSE] ELSE rules[id]]
      /\ refresh' = NoRefresh
      /\ used' = [used EXCEPT !.restart = @ + 1]
      /\ UNCHANGED <<hash, etag, fetched, content, manifest>>

RulesNext ==
  \/ SeedEmpty \/ Refresh \/ FailManifest \/ RejectContent \/ Age \/ PublishContent \/ PublishManifest
  \/ \E loaded \in BOOLEAN : Restart(loaded)

RulesSpec == RulesInit /\ [][RulesNext]_IRvars

\* The loop runs the refresh again and again; the server finishes what it publishes.
RulesFairSpec == RulesSpec /\ WF_IRvars(Refresh) /\ WF_IRvars(Age) /\ WF_IRvars(PublishManifest)

-----------------------------------------------------------------------------
\* The active public rules are those of the ruleset whose hash is stored, all of
\* them and in its version, whatever is seeded, fails, restarts or is upgraded.
RemoteRowsVerified ==
  \A id \in Id :
    /\ rules[id].source = "remote" /\ rules[id].active => hash # NoRuleset /\ id \in hash /\ rules[id].from = hash
    /\ hash # NoRuleset /\ id \in hash => rules[id].source = "remote" /\ rules[id].active

\* The rules in use are those of the server once it and the plugins rest.
Converges == <>[](hash = content \/ Conflicts(rules, "remote", content) \/ Conflicts(rules, "bundled", release))

\* "Bundled-only rules stay active", and an omitted rule "falls back to the bundled
\* rule with the same ID": once everything rests, what the release ships is in use.
ShippedActive == <>[](\A id \in release : rules[id].active \/ Conflicts(rules, "bundled", release))
=============================================================================
