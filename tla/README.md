# Verification of OpenSecDash

OpenSecDash is a self-hosted dashboard that collects security events from logs, enriches
them, counts them, finds insights in them, notifies about them and acts on them, above all by
banning addresses through CrowdSec's local API (LAPI). It is one Python process: FastAPI
request handlers in worker threads, one asyncio loop with a periodic loop per plugin whose
work runs in worker threads, one SQLite database behind one app-wide write lock.

This directory holds TLA+ models of its parts, the TLC runs that check them, and the proofs
that TLAPS checks. Paths below are relative to the repository.

| file | what it is |
|---|---|
| `AsnBan.tla` | permanent ASN bans: policies, decision cache, LAPI, tick, operator actions |
| `PolicyLedger.tla` | what permanent ASN bans promise, without LAPI, cache, tick and failures |
| `AsnBanProofs.tla` | `AsnBan`'s safety properties and its refinement of `PolicyLedger`, for every value of its constants |
| `ProviderReview.tla` | the changed organization behind a blocked ASN |
| `Rollups.tla` | daily and monthly counters, compaction, retention |
| `SignIn.tla`, `SignInProofs.tla` | users, sessions, provider accounts, the two sign-in methods, and proofs |
| `OidcFlow.tla`, `OidcFlowProofs.tla` | the redirect to the provider and back, and proofs |
| `LoginThrottle.tla`, `WebBoundary.tla` | the password form; proxies and origins |
| `Notifications.tla`, `NotificationsProofs.tla` | rules, queue and dispatch of mails, and proofs |
| `Level2.tla`, `Level2Proofs.tla` | the cycle that judges bans, and proofs |
| `InsightRules.tla`, `EventInsights.tla`, `Trends.tla` | where rules come from; findings of an event, of a day |
| `InsightsProofs.tla` | proofs of these three |
| `LogTail.tla` | log sources and duplicates |
| `CollectionProofs.tla` | proofs of `LogTail` and `Rollups` |
| `GeoipScan.tla`, `Broadcaster.tla`, `SearchExpression.tla` | enrichment; live pages; the search box |
| `Assets.tla`, `AssetUpdates.tla`, `MqttInsights.tla` | inventories; versions of applications; insights on the broker |
| `PluginSettings.tla`, `PluginHealth.tla` | the settings form of a plugin; its diagnostics |
| `AdministrationProofs.tla` | proofs of `ProviderReview`, `WebBoundary`, `PluginSettings`, `Assets` and `PluginHealth` |
| `MC*.tla`, `MC*.cfg` | the instances TLC checks |
| `PROJECT.json` | components, runs, mutants, the code each definition models, hazards, theorems |

Run `tlc -config MCFindings.cfg MCFindings` for a run, `tlapm AsnBanProofs.tla` for a module of proofs.

## 1. Inventory

### Parts and state

| part | code | state | operations |
|---|---|---|---|
| ASN bans | `plugins/crowdsec/services/policies.py` | policies, enforcements, exceptions (tables) | enable, disable, observe an event, release, retry, remove, except, review a changed organization |
| Decision sync, LAPI client | `plugins/crowdsec/services/decisions.py`, `lapi.py`, `plugin.py` | decision cache (table); the decisions in CrowdSec | sync, ban, delete by id, tick, refresh |
| Event storage, rollups | `backend/app/services/events.py` | events, daily and monthly counters, a compaction lock | store, deduplicate, count, compact, expire, search |
| Action framework | `backend/app/services/actions.py` | actions (table), keys of running actions | validate, execute, hooks |
| Database session | `backend/app/database/session.py` | the write lock, a flag per session | acquire at first write, release at the transaction's end |
| Plugin manager | `backend/app/plugins/manager.py` | tasks, diagnostics, collection offsets | one loop per duty, start-up, shutdown, settings, health |
| Enrichment | `plugins/geoip/` | lookup cache (table), scan cursor | look up, mark, report to hooks |
| Notifications | `backend/app/services/notifications.py` | rules, queue (tables), rule cache | enqueue, dispatch, detect offline systems |
| Insights | `backend/app/services/insight_*.py` | rules, insights, cycles and cutoffs (settings) | refresh rules, rules per event, cycles over bans, daily trends |
| Broadcaster | `backend/app/services/event_broadcaster.py`, `main.py` | last state, a queue per client | poll, broadcast, serve a websocket |
| Sign-in | `backend/app/services/auth.py`, `oidc.py`, `onboarding.py`, the routes over them | users, identities, sessions, method settings, a reachability lock, metadata cache, failed attempts | sign in, change roles, link, revoke, configure and switch methods |
| Request boundary | `backend/app/web/` | trusted proxies, host name, flow cookie | gate, check origins, diagnose |
| Log sources | `plugins/traefik_log`, `geoblock_log`, `plugins/base.py` | file offset, inode, size | tail, parse, store |
| Assets | `plugins/json_assets`, `proxmox_assets`, `services/asset_*.py` | rows, links of events, host map | import, sync, edit, clean up, refresh, export |
| MQTT | `plugins/mqtt/plugin.py` | cursor, whether it was active | publish insights and versions |
| Self updates, pages, branding, views | the rest | settings | render |

`PROJECT.json` lists every part with its status.

### How they interact

* Log sources call `store_event`, which counts the event, evaluates insight rules and queues
  notifications in the caller's transaction.
* The GeoIP loop completes events later, one transaction per event, and calls every plugin's
  `on_event_enriched` in a savepoint. CrowdSec's hook is `process_enriched_event`: this is how
  an event in a blocked autonomous system becomes a ban.
* Operators act through `create_action`: it validates with reads only, then writes (and so takes
  the write lock), calls the plugin, which calls the LAPI, then the plugin's `after_execute`,
  which syncs the decisions and finalises. Policies call the same framework internally.
* Requests that could take away the last administrator's way in check and commit under one
  lock; requests that ask the provider wait for its answer outside any lock.
* CrowdSec's tick syncs the decisions at most once per interval and retries what failed.
* Two hourly loops compact counters; one of them then deletes expired events.
* Three loops make findings from what is stored (rules, bans, trends); a dispatcher mails what
  ingestion, enrichment, asset refreshes and its own look at offline systems have queued.
* Imports and edits move events between applications; ticks link new events by a host map they
  have read before.

### What is hard

* *The lock is taken late.* The write lock is taken by the first write of a transaction. What a
  transaction read or fetched before may be stale when it writes: the list of decisions of a
  sync, the validation of an action, the sum of a month, a duplicate that was not there, the row of
  an asset, the settings of a form.
* *Two systems, no common transaction.* Requests to LAPI, mail, the broker and GitHub may fail before or
  after they took effect; commits may be lost after requests took effect; CrowdSec and other tools
  ban and unban the same addresses.
* *State read before an await.* A request that asks the provider, or checks a password, goes on
  with settings and users that others may have changed meanwhile; tabs share cookies.
* *Retries.* Releases and removals that failed are retried minutes later in a changed world.
* *Work in instalments.* Cycles, cursors and offsets are resumed after hours, restarts and changes of
  what they range over.
* *Long sequences.* Addresses move between networks, decisions expire, policies are removed and
  made again, exceptions come and go; a log is rotated, cut and read again.

### What makes each part correct

* ASN bans: only an owned decision is ever released, by its exact id; an address has one owner;
  an excepted pair is not held; nothing outlives its policy; removals and releases finish. A changed
  organization is what several events of several addresses said.
* Rollups: every stored event is counted exactly once, in its day or its month; days the trend
  shows are not compacted; completed months are; locks are nested in one order.
* Log sources: no line is lost or stored twice, and a ban that two parts report is one event.
* Enrichment: every event is reached. Broadcaster: a client ends with the newest state. Search: what
  is accepted means what the grammar says.
* Insights: every ban is judged by every rule that was active; a day's comparison rests on data that
  covers it and leaves no group out; related events find each other in any order; rules of two rulesets are
  never mixed and follow the server's in the end.
* Notifications: one row per item and rule, no row in two mails unless a commit fails, an offline system is
  offline, and no row waits for ever.
* Sign-in: an administrator stays, one method stays on, and what is on lets one in; sessions
  end with what created them; the provider cannot change while all depends on it; a flow ends as the tab that
  began it asked; the throttle locks nobody out; all checks of a request see the same origin.
* Assets: an edit moves the events with the host; versions and their flag settle; what is due
  reaches the broker; a plugin does not fail silently; hidden settings are not written.

## 2. Plan

Done, in this order: `AsnBan` with `PolicyLedger` and proofs, `Rollups`, `SignIn` with proofs;
`Notifications`; `Level2`, `Trends`, `InsightRules`, `EventInsights`; `LogTail`, `GeoipScan`, `Broadcaster`,
`SearchExpression`; `Assets`, `AssetUpdates`, `MqttInsights`, `PluginHealth`, `PluginSettings`; `OidcFlow`,
`LoginThrottle`, `WebBoundary`; `ProviderReview`; that `AsnBan` implements `PolicyLedger` and its action properties;
proofs of `Notifications`, `LogTail`, `Level2` and `OidcFlow`; proofs of `Rollups` with its sums, `InsightRules`, `EventInsights`, `Trends`,
`Assets`, `PluginSettings`, `PluginHealth`, `WebBoundary` and `ProviderReview`: of every safety property the runs check but `ParsedAsGrammar`.

Left:

1. `ActionFramework` with `WriteLock`: action keys, validation before the lock, hooks, transaction ends;
   then `AsnBan`'s atomic operator actions as its abstraction, and `TickFresh` in two steps.
2. The safety half of `GeoipScan`, `AssetUpdates` and `MqttInsights`, which so far promise only what happens in the end.
3. What section 13 leaves out of modelled components.

## 3. How the runs are composed

Components that share no state their properties are about are checked side by side: an `MC` module
EXTENDS the components that are proved about, whose definitions have names of their own, INSTANCEs the others with variables
and bounds of their own, and a variable `part`,
chosen in the initial state and never changed, says which of them a behaviour is about; the others stay
in one initial state. That is the union of the runs of the components, not a product, and no
property of one part sees a step of another. Temporal properties of a part are stated for the behaviours of that part,
and its fairness is conjoined with `part`. `asnban` puts two instances of one component into one run: a constraint
keeps what a state knows of bans within one of them.

| run | instance | shows |
|---|---|---|
| `asnban` | `MCPolicies`: two systems over one address with two ban identifiers for one of them, and one system over two addresses of which others ban one, dry-run toggled; failures, lost commits, restarts | `OwnedIsCached`, `OneOwnerPerAddress`, `ExceptedNotOwned`, `KeepsLedger`, `OnlyOwnedDeleted`, `RemovalLeavesNothingOwned` |
| `asnban_retry` | `MCAsnBan`: two systems, one address, a concurrent refresh, GeoIP toggled, failures, fairness | `RemovalFinishes`, `ReleaseResolves` |
| `upkeep` | `MCUpkeep`: notifications of an asset and of a system that comes and goes; counters of six days in months of two, three events, one pass that fails; three rules, two publications, one failed download, two restarts | `OfflineStillOffline`, `Settles`; `CountsConserved`, `CompletedMonthCompacted`; `RemoteRowsVerified`, `RulesConverge` |
| `signin` | `MCSignIn`: two users, two providers, two subjects, six changes, one awaiting request | `LastAdminStays`, `OneMethodPersisted`, `OidcSessionsLinked`, `ReachableKept`, `ProviderLocked` |
| `findings` | `MCFindings`: mail about two events of one rule, with the rule, mail and the cache changed once and one dispatch lost; three events; trends of two metrics | `OncePerItem`, `NoMailTwice`; `PairsLinked`; `TrendDrained`, `TrendCovered` |
| `cycles` | `MCCycles`: two bans and two rules, one of each in a tick; two refreshers; a broker; the diagnostics of one plugin | `BansJudgedWhenSettled`; `UpdatesSettle`; `InsightsDelivered`; `FailureReported` |
| `collection` | `MCCollection`: a new installation next to a log, the enrichment, two open pages, queries of nine tokens | `LogDrains`, `EveryEventChecked`, `ClientsFollow`, `ParsedAsGrammar` |
| `ingestion` | `MCIngestion`: a log of three lines of which one is there before, whole or in halves, two faults; an application of each source, imports and two edits, of which two at a time are under way | `IngestedOnce`, `OneBanOneEvent`; `EditedLinksMatch` |
| `requests` | `MCRequests`: two sign-in flows, three password requests, a proxy, a settings form, a review | `FlowsEndAsTheyBegan`, `RightPasswordGetsIn`, `BoundariesAgree`, `HiddenNeverWritten`, `ChangeWitnessed` |
| `rollups_late` | `MCRollups` without failures | `CountsExact` violated |
| `signin_disable` | `MCSignIn`, the provider may be switched off between check and commit of another request | `OneMethodPersisted` violated |
| `collection_recount` | `MCCollection` | `CountedOnce` violated |

Runs with `CHECK_DEADLOCK FALSE` are those whose behaviours end at a named bound. Every other disagreement
between code and documents below is stated as a property of its module as well, which TLC refutes on the
instances of this size; `PROJECT.json` lists them under `findings`.

## 4. Permanent ASN bans (`AsnBan`)

### State

| variable | code |
|---|---|
| `lapi` | the ban decisions CrowdSec enforces |
| `db.cache` | `crowdsec_decisions` |
| `db.pol` | `crowdsec_asn_bans.status`, `"none"` without a row |
| `db.own` | per policy and address: `decision_id`, `last_observed_asn`, `release_pending` of the enforcement row when it owns a decision |
| `db.exc` | `crowdsec_asn_ban_exceptions` |
| `settings` | dry-run off, CrowdSec enabled, GeoIP enabled |
| `snap`, `target` | a fetched list a sync has not stored yet, and the removal the tick fetched it for |
| `tx` | the tick's open transaction: the committed rows, releases left, removals done |
| `unban` | a manual unban that is validated and waits for the lock |

A decision is a record of address, scenario and a serial; a policy's decisions have its
autonomous system as scenario, all others `Foreign`. An enforcement row that owns nothing
decides nothing and is `None`.

### Actions

| action | code |
|---|---|
| `Observe` (`Enforce`, `Reclassify`) | `process_enriched_event` and all it calls, in GeoIP's transaction |
| `Enable`, `Disable`, `RemoveException` | `enable_policy`, `disable_policy`, `remove_exception` through `create_action` |
| `ManualBan` | action `security.ban` |
| `UnbanValidate`, `UnbanExecute` | action `security.unban` before and under the write lock |
| `RefreshFetch`, `RefreshApply` | a forced sync outside an action: `/crowdsec/decisions/refresh` and the diagnostics refreshed after settings are saved |
| `TickFetch`, `TickSync`, `TickFresh`, `TickRemoveFetched`, `TickRelease`, `TickRemove`, `TickCommit` | the plugin's tick: sync unless fresh, retry releases, retry removals, commit |
| `SaveSettings` | `save_setting` |
| `Expire`, `ForeignBan` | CrowdSec and other tools |
| `Restart` | the process dies and starts again |

A transaction that makes its requests under the write lock is one action. What happens before
the lock is an action of its own. The tick is the one transaction with requests whose effects
others (CrowdSec) may interleave with, so it is split at each retried release and removal;
meanwhile nobody else writes (`LockFree`).

A request is answered `ok`, `refused` (no effect) or `lost` (effect, but an error for the
caller); a deletion of an unknown id is refused. A commit may be lost after its requests
(`Store`, `TickCommit`). A sync that fails stores nothing but a diagnostic.

### Left out, and why it is sound or not

* `last_event_id`: an event is reported once, so the guard on it does not fire.
* Ids of decisions are never reused; `Synced` keeps the code's check that an owned decision
  matches its policy all the same. An identifier nobody refers to stands for a new one.
* LAPI's limit of 500 alerts per answer: lists are complete. A partial list would do what the
  stale list of `LiveBanStaysOwned` does.
* SQLite may give a new policy the row id of a removed one. Only `TickRemoveFetched` holds a
  policy across such a change outside the lock with an effect on it; it works on the new row as
  the code does. A waiting unban is made to forget a policy that goes.
* Requests that are rejected by validation change nothing but a failed action's row.
* The review of a changed organization does not touch this state; it is `ProviderReview` (section 7).
* Both the enabled check of `Enable` and its effect are one step; a setting switched off in
  between would give an active policy without a ban, which a failed ban gives as well.
* `TickFresh` queries the pending rows (policies.py:904-911) and makes its first write under the lock in one step.
  A row that is reconciled or seen again in that moment is tried by the id that was read: refused if the decision is gone,
  and otherwise the release of a decision that was pending when the tick began.

### Bounds and fairness

The interactions concern one address in two networks (transfer, reclassification), or two
addresses of one policy (removal that fails half way), or one address that others ban too; a
third of any adds no new kind of conflict. Two identifiers for one pair allow a ban to be
repeated while its predecessor is still cached or fetched. The proofs cover all instances.

Fairness (`FairSpec`): the plugin manager ticks for ever (`WF(PluginTick)`), the cache grows older than
the sync interval again and again so that a tick starts with a sync (`SF(TickFetch)`), and a
request repeated for ever is answered in the end (`SF` of a successful release or removal, per
row). Nothing is assumed of operators, events or CrowdSec.

### Where the code and its documents disagree

* `LiveBanStaysOwned`: *"exact IDs are retained for release and cleanup"* (adr-047:115-117). The tick
  fetches the list, an operator enables a policy and its ban is made, the tick stores the
  old list: the policy's live decision is disowned. It stays in CrowdSec until it expires,
  even if the policy is removed.
* `BlockedAddressNotReleased`: *"if the new ASN is also blocked, the existing decision remains attributed to
  the old policy until expiry"* (website/guide/plugins/crowdsec.md:110). A release failed, the
  address is back in a blocked system, the tick's retry releases it nevertheless.
* `UnbanExcepts`: *"automatically creates a durable exception ... after the LAPI deletion succeeds"*
  (website/guide/plugins/crowdsec.md:114). The deletion succeeds, the sync fails, no exception is
  stored, and the next event bans the address again.

### The abstract ledger

`PolicyLedger` states adr-047's promises on three variables: which policies exist, which decision
each holds for each address, which pairs are excepted. A policy comes to hold a decision only
while active, for an address that is neither excepted nor held; it may lose decisions at any time; it
never swaps them; only an unban makes an exception. `KeepsLedger` maps the rows a reader
of the database sees to it: the open tick counts only when it commits, as one step that may
lose many decisions and drop many policies.

### Proofs

`AsnBanProofs` proves for all constants that satisfy `AsnBanAssumption`:

* `RowsConsistent`: `Spec => []IInv`;
* `OwnedDecisionsAreCached`, `AddressesHaveOneOwner`, `ExceptionsHold`: the three invariants;
* `LedgerKept`: `Spec => KeepsLedger`, every step is a step of `PolicyLedger` or none;
* `OnlyOwnedDeletedHolds`, `RemovalLeavesNothing`: the two action properties.

Besides the kinds of the constants `AsnBanAssumption` says that `Foreign` and `None` are no systems, that `Tick` is no
refresher, and that the values for "owns nothing" and "no transaction" are neither a claim nor a transaction.

`IInv` is `TypeOK` and `ConsistentRows` of the current rows and, while the tick is open, of the rows it
would be rolled back to. The single invariants are not inductive. That an address has one owner
follows when a ban is associated only because an owned decision is cached (`OwnedIsCachedIn`) and
a cached ban suppresses a new one; that an excepted pair is not owned needs that rows of a policy
that does not exist are gone (`PolicyRowsOnlyIn`). The rolled back rows are in it because a
restart may bring them back after any step.

The refinement needs one fact more, `LInv`: the open tick's rows differ from the committed ones by losses only
(`Shrinks`): it may have given decisions up, dropped policies and their exceptions, and nothing else. So the commit,
which publishes all of it at once, is one step of the ledger, and a step that rolls it back is none.
`RemovalLeavesNothing` uses `LInv` as well: a policy whose removal an open tick has done owns nothing in the rows it found that
is still at the LAPI, or the removal worked on a list from before the lock.

The proof has a lemma for each operator on rows (`Synced`, `Associated`, `Noted`, `Dropped`,
`AfterRelease`, `AfterRemoval`, `Excepted`): it keeps `ConsistentRows` and the type, and what it may lose. A lemma
per action follows, then the step, and PTL. Liveness is model-checked only.

## 5. Rollups (`Rollups`)

`daily` and `monthly` are the two tables; `raw` is the events table; `arrived` (all events ever), `missed`
and the pass's `late` and `skipped` exist only in the specification. One counter stands for the metric rows of
an event, which are written and merged together.

`StoreEvent` is `store_event` from its first write on. A pass (`StartPass`, `ReadMonth`,
`DeleteMonth`, `CommitPass`) is `compact_completed_daily_rollups`: under the compaction lock it
reads a month's sum, and its `DELETE` takes the write lock until the commit. The retention pass then
runs `DeleteExpired`. `AbortPass` is an exception or the end of the process at any point.

The first month of a pass is read without the write lock: sessions do not flush before queries
(`autoflush=False`), so nothing is written until the `DELETE`. An event of that month stored in
between is in a daily row that the `DELETE` removes and the sum does not contain: run `rollups_late`
finds `CountsExact`, the claim of the comment at events.py:387-393, violated. `CountsConserved` states what does hold: counters plus exactly those
events are all events, whatever else passes, failures and late events do.

Three months are needed for a pass that compacts two while the window covers the third; three
events for one counted, one late and one later still. Fairness: the loops run for ever, a thread that
waits for a lock gets it in the end (the code uses `threading.Lock`, whose queue no thread
is left in for ever while others release it). `MaxAborts` bounds the interrupted passes: a machine on
which every pass fails compacts nothing.

Left out: country counters added later by enrichment, which are an event counted late (`GeoipScan` has
them); the duplicate clean-up is in `LogTail`.

### Proofs

`CollectionProofs` proves for any calendar, window, retention and number of events (`RollupsAssumption`):

* `CompactionLocksNested`: who holds the write lock of a compaction holds the compaction lock (`LocksNested`);
* `TrendStaysDaily`: no day the trend can show is compacted, and as long as its raw events are retained its
  counter agrees with them (`TrendIsDaily`);
* `EventsCounted`: every stored event is counted in its day or its month, except those of `missed` (`CountsConserved`).

The first two follow from `RollupsConsistent`: `Spec => []RollupsInv`, with `RollupsInv` the
shapes of the variables, `LocksNested`, `ClaimedAreOld` and `WindowKept`. That trend days stay is not inductive:
a pass works on months it chose earlier, so the invariant says that every month it has read or is going to
read is older than the oldest retained one, and `today` only grows.

`EventsCounted` follows from `CountsInv`, which adds what an open transaction carries (`Carried`): the sum it has read of a month and the events
stored since are what the month's days hold, a month it has deleted it carries whole, as merged or as skipped, no month is
taken twice, and only the holder of the write lock has deleted anything, so that no event is stored then. The sum over
days is a recursive function; what it does when one day changes (`SumsDiffer`) is proved by descent on the days, from the
well-foundedness of the numbers (`UpTo`), since this prover cannot instantiate the library's induction rule.

## 6. Sign-in (`SignIn`)

### State

| variable | code |
|---|---|
| `user` | `users`: role, active, whether a password hash is stored; role `"none"` without a row |
| `link` | `external_identities`: issuer and subject of a user's account at the provider |
| `sessions` | `user_sessions` as pairs of user and `auth_method`; several sessions of one user and method are one |
| `config` | settings `auth.oidc.*` and `auth.password_login_enabled` |
| `onboarding` | `auth.onboarding_state`: `"pending"` (new), `"legacy"` (upgraded and open), `"complete"` |
| `breakGlass` | `OSD_AUTH_DISABLED`, fixed while the process runs |
| `checked` | the request inside `admin_reachability_mutation`: it has passed its check and has not committed |
| `inflight` | requests that await the provider or the check of a password, with what they read before |

A provider stands for a discovery URL with a client id, and the issuer it reports. A viewer stands
for an operator too: no check tells them apart.

### Actions

A request that can remove the last administrator, or the last one the provider knows, runs under
`_ADMIN_REACHABILITY_MUTATION_LOCK`, restarts its transaction there, checks and commits. It is
two actions here, `Check...` and `Commit...`, so that everything which does *not* take that lock may
happen between them: new users, passwords, sign-ins, log-outs, and the routes that switch the
provider on or off, set automatic accounts or switch password sign-in on. `LockFree`
is the lock.

`BeginSave`, `BeginEnable`, `BeginLogin` and `BeginCallback` put a request into `inflight`; `CheckSave`,
`FinishEnable`, `FinishLogin`, `CompleteLogin` and `CompleteLink` go on with it, `Fail` ends it. `Restart`
ends all requests and may change `OSD_AUTH_DISABLED`. `MayAdminister` and `MayConfigure` are the
gate in `main.py` and the guards of the routes.

### Bounds

`Overlaps` names the two overlaps with which the code breaks its promises. `signin_disable` and the definitions below
show that it does, and `signin` that with neither of them the five properties hold in the
same interleavings: in the model those two routes are the only holes, which the proofs confirm
for all sizes. `signin` needs two users to have a
last and another administrator, two providers to change from one to the other, and two subjects for
accounts nobody or somebody else owns. Switching password sign-in off takes four changes after the set-up
(save, enable, link an account, switch off), so six leave two for what follows. `MaxChanges` counts
requests that change users or settings and restarts; sign-ins, links, log-outs, own passwords and the
set-up are free. It ends behaviours, which is why these configurations do not check for deadlock.
Users and subjects are interchangeable, hence the symmetry; there is no liveness here.

`ReachableKept` and `ProviderLocked` leave out emergency access, as the documents do: with
`OSD_AUTH_DISABLED` set the configuration may be replaced to get back in.

### Where the code and its documents disagree

* `signin_disable`: *"Authentication can never persist a state with no usable sign-in method"*
  (adr-028:292). `disable_oidc` does not take the lock: after `disable_password_login` has checked that
  the provider is usable, it switches it off and password sign-in on; then password sign-in is stored as off.
  Reading the setting ignores such an "off", so nobody is locked out, but the state is persisted.
* `ProviderLocked` with the overlap of `enable_oidc`: *"the provider configuration and issuer are locked against changes"*
  (adr-028:295-297). `enable_oidc` stores the issuer it read before asking the provider, whatever was saved,
  enabled and made the only method since.
* `AdminCanSignIn`: *"so the instance can never end up with no way in"*
  (website/guide/configuration/authentication.md:180). The last active administrator may be a user
  whom the provider created, without a password; when the provider is switched off, password
  sign-in comes back for nobody.

### Left out

Expiry dates (`EndSession` is an expiry too), the provider's own checks of a token. Throttle, transport checks,
flow cookie and metadata cache are modules of their own (section 12). A request is not
interrupted between the gate and the lock, where the code reads nothing it uses later but the actor's
right to act. `CompleteLogin` reads the identity and its user and stores the session in one step; the code reads them
shortly before its commit.

### Proofs

`SignInProofs` proves all five properties of run `signin` for any users, providers, subjects and bounds:

* `AdministratorStays` and `ProviderSessionsAreLinked` whatever overlaps, from `UsersConsistent`:
  `Spec => []IInv`;
* `AWayInIsStored`, `WayInStays` and `ProviderStays` for `Overlaps = {}`, from `WaysInConsistent`:
  `Spec => []JInv`.

The properties are not inductive because a commit relies on what its check saw. The strengthening
says, for each kind of request in `checked`, what its check found and that it is still so:
another active administrator (`PendingKeepsAdmin`), another linked one (`PendingKeepsReachable`), a usable
provider, password sign-in or emergency access (`PendingKeepsMethod`). The delicate step is a link completed
between a check and its commit (`CompleteLinkKeeps`): it could make the request's user the only
linked administrator. That needs a session in a state without linked administrators, which only emergency access
leads to, after ending every session; `StrandedStayOut` and `NoSignInInEmergency` carry that argument.
`Kept` joins the invariant of the next state with the two action properties, so each action is
treated once. `JInv` was model-checked on the instance of `signin` before it was proved. There is
no liveness in `SignIn`.

## 7. The review of a changed organization (`ProviderReview`)

Enriched events name the organization behind a blocked autonomous system. `Observe` is `process_enriched_event`
with `_record_policy_match`: a first name is stored; the stored one clears a candidate; another one is a candidate,
counted as long as events keep naming it, and confirmed by `Needed` (three in the code) events of at least two
addresses. A confirmed change asks for a review. `Show`, `Validate`, `Acquire` and `Acknowledge` are a page and its
request; `Reenable` removes a policy and makes it again, with the row id reused or not.

An event is handled under the write lock (a savepoint of the enrichment flushes before the hooks run) and once.
`streak`, the events that last named one organization, exists only in the specification.

Instance: three names, two addresses, two administrators who use both routes, `Needed` 3, two confirmed changes.
Three names are needed for a candidate that another one replaces; two changes for a review that is
overtaken by the next change.

`ChangeWitnessed` holds: the stored name changes only when the last `Needed` events gave the new one, from two
addresses. `AdministrationProofs` proves it (`ChangesWitnessed`) for any names, addresses, administrators,
routes and `Needed` above 1. The inductive invariant adds `CandidateWitnessed` to the types: what is counted for a
candidate is what the last events said. Without it nothing relates the columns of the row to the events.

`ReviewedAsShown`, the claim of policies.py:505-506, does not hold for the route of the form: its session has loaded
the policy before the lock, so the check under the lock compares the old row with itself.

## 8. Notifications (`Notifications`)

| variable | code |
|---|---|
| `on`, `master`, `smtp` | enabled rules and the settings, as committed |
| `cache`, `stale` | `_rules_cache` with its age; a committed change whose invalidation has not run yet |
| `rows` | the `notifications` table: rule, item, status, age, age of the mail |
| `seen`, `claimed` | a system's `last_seen`, and the one an offline event was made for |
| `ingest`, `mailer` | the thread that handles an item, and the one that dispatches |

`Store`, `Enrich` and `RefreshAssets` start handling an item; `ConsultCache`, `FillCache`, `Queue` and `CommitItem` go on
with it. Ingestion holds the write lock while it matches, enrichment and asset refreshes do not. `StartTick`, `Claim`, `ListRules`,
`SkipRule`, `AwaitThreshold`, `Defer`, `Send` and `CommitTick` are one dispatch; `LoseTick` one that is lost after its
mails have left. `Save` commits a change of rules or settings, `Invalidate` drops the cache afterwards.

Times are ages, counted up to the first value past the bound they are compared with; the unit is one dispatch
interval. Which of a rule's conditions an item meets is nondeterministic. `OncePerItem` relies on event times that
are not in the future, as the look-back of `_enqueue_event` does. The limit of pending rows (25) is soft: two threads do not
count under a common lock, and one asset refresh does not count its own rows. An event that is
handled while the cache is dropped between the look at it and its use matches nothing; no
document promises otherwise. A failed mail is final.

`findings` has two events of one rule, for rows that are queued twice or mailed twice (the events are alike, so one is taken to be
the first); `upkeep` an asset update and a system, each with a rule of its own (that of the system with a threshold), and cooldown.
In both an event reaches the queue within the interval of its time and a mail takes less than one (`Late` and `Slow` are 0); the
proofs hold for any delay.
Fairness: the clock, the invalidation after a commit, a handling and a dispatch under way go on (`WF`); nothing is
assumed of events and operators. `Settles` leaves out installations whose mail is off, as a pending row stays
pending there by design.

### Proofs

`NotificationsProofs` proves, for any rules, items, systems, delays and bounds of `NotificationsAssumption`, `QueuedOnce` (`OncePerItem`),
`MailedOnce` (`NoMailTwice`) and `ReportedOffline` (`OfflineStillOffline`), all from `Invariance`: `Spec => []IInv`. The
assumption asks for an item and that no item is an offline report. None of the three is inductive:

* The look-back finds only rows of the last minutes. That it misses none that matters follows because a row is never older
  than its event (`AgeInv`), and an event past the backlog is not queued at all. Ages are counted only as far as they are
  compared, so the invariant says it up to that bound.
* Insights and asset updates are handled once (`HandledInv`), and the rows of a thread that waits for the lock are apart from those
  that are flushed (`QueueInv`), those of the other thread included.
* What a dispatch decided is about a pending row, once per row (`DoneInv`); what was mailed is recorded, about to be, or was in a
  dispatch that was lost (`MailedInv`).
* The dispatcher read a system before it had the lock. Under the lock the conditional update claims only what is still so, and
  nobody sees a system while the lock is held (`ClaimInv`).

Left out: the test mail, texts, and the seeding of rules for new insight types.

## 9. Insights

`Level2` is the cycle of `insight_correlation.py`. `ReadTick`, `CommitTick` and `LoseTick` are one tick: it resumes the cycle, or
starts one over the bans created since the last cutoff less an overlap of `RecheckMinutes`, takes at most `MaxBanAnchors`
bans and `MaxChainRules` rules and stores how far it came. `StoreBan` and `CommitBans` are ingestion, whose transaction may commit after
the tick has looked. `ChangeRule` takes rules away and brings them. `BansJudgedWhenSettled`: a ban which the
cutoff has left behind by the overlap was judged, at its end or later, by every rule that was active all
along. Instance: two bans, two rules, one of each in a tick, so that a batch is full, a cycle takes four ticks and one
more that finds nothing. What a rule counts is left out.

`Level2Proofs` proves `BansJudgedWhenSettled` (`AllJudged`) for any finite sets of bans and rules, any limits and any overlap. A tick reads before it
commits, and bans, rules and time go on in between, so the invariant says what the stored cursor stands for: within a window
every ban up to it is judged by every rule of the batches so far (`JudgementsInv`), a batch passes no rule over that was
active when the window began (`BatchesInv`), windows continue one another less the overlap (`WindowsInv`, `CutoffInv`), and
what a running tick has read passes nothing over either (`TickInv`). All of them speak of the committed window and of the running
tick's alike (`InPlay`). What changes while a window is drained is younger than the overlap and belongs to the next one: an open
transaction holds only such bans (`BansInv`). The lemmas about the first elements of a set and its largest replace induction
by the well-foundedness of finite subsets.

`Trends` is the daily comparison of two windows. A tick looks at the sources of every metric, restarts the
observation of one whose sources changed, waits for one that failed, and judges a bounded number of groups.
`TrendCovered`: a finding rests on windows that were observed and not deleted in their whole length. `TrendDrained`: a
completed comparison has judged every group of every metric that was ready in each of its ticks. Left out: sources that come back exactly as they were,
and retention that is raised after it was lowered, both of which the code cannot see. Instance: two metrics,
one group, one group a tick, two instants a day.

`InsightsProofs` proves both for any metrics, groups, limits, times and retentions. `TrendDrained` (`TrendsDrained`) rests on the order of groups: a tick takes
the next `MaxGroups` that are pending, so it leaves out none before the last it takes (`TakenClosed`), and what a day has judged is without a gap up to
where its cycle stands, but for metrics that some tick found unready (`JudgedUpTo`). A tick that stops before a failing metric does not pass
it. `TrendCovered` (`TrendsCovered`) is an action property: the invariant says that the number which stands for a metric's sources is never
used again, so that an observation which still has it began after the last change, and that clean-ups under the present retention
reach no further than the retention.

`InsightRules` is where rules come from. A rule has one row, of the shipped, the public or a plugin's ruleset. `SeedEmpty`
and `Restart` seed it; `Refresh`, `FailManifest` and `RejectContent` are `refresh_default_insight_rules`, which asks for a hash, then for the content,
in one transaction that holds the write lock during the requests. `PublishContent` and `PublishManifest` are the server,
which publishes one after the other. `RemoteRowsVerified`: active public rules are exactly those of the stored
hash. `Converges` (`RulesConverge` in the run): once nothing is published any more the stored hash becomes the server's, unless two rulesets claim one rule. It needs
`MayUntag` FALSE: an answer without an ETag keeps an old one, with which the next requests are answered "not modified" although
the content is new. Fairness: refreshes come back at their interval, and a published content gets its hash. `ShippedActive` does not hold: a rule
that the public ruleset dropped before a release began to ship it stays off.

`InsightsProofs` proves `RemoteRowsVerified` (`PublicRulesVerified`) for any releases, rulesets and plugins. A refresh seeds the shipped rules into its own copy
before it asks for anything, and every way it can end commits that copy or the imported one, or drops it; so the invariant (`RulesInv`)
says of the copy what the property says of the table.

`EventInsights` is what `store_event` finds while it stores an event: pairs of a failure and a geoblock or a ban of one address near
it in time, and rules that count in a window, with their cooldown; all findings of an event in one savepoint.
`PairsLinked`: two events that are each other's nearest are reported together, whichever was stored
first. Instance: three events at three times, contexts none, 1 and 2. An asset and a host are one context; an asset edited later is left out.

`InsightsProofs` proves it (`LinkedPairs`) for any number of events, times and contexts. Only the later of two events is evaluated when both are there, so the
invariant (`NearestFound`) says that every event whose evaluation did not fail was reported with the nearest of what was stored before it. What is
nearest among all events is nearest among the earlier ones (`NearestBefore`), and what either side of a pair looks for is the same relation
(`CandidatesRelated`), although the code computes it from two different time ranges.

## 10. Collection

`LogTail` is a datasource: the log is written in lines and half lines (`Write`, `WriteRest`), rotated (`Rotate`) and
tailed (`Collect`) by offset, inode and last size; what a tick has read is stored in chunks (`StoreChunk`), the first of which takes the
write lock at once while later ones look for duplicates before they have it (`Judge`). A manual ban runs beside it
(`BeginBan`, `ExecuteBan`, `RecordBan`), holding the lock during the LAPI request, and CrowdSec's log reports it too. `Forget` is retention, `Crash` and
`Start` a restart, whose clean-up of duplicates runs once.

`tail_text_file` returns what `readline` gives: at the end of a file that is being written half a line, and its rest at the next tick.
So the parser is handed *pieces*: a whole line, its `head` or its `rest`. What a half shows is chosen when it is written (`halves`, `Shows`): the words that make an
event, the id of a manual ban's action, the address, or nothing. GeoBlock makes an event of any text with "request denied" and CrowdSec of any text with
the word "ban", with what else they find in it; Traefik's parser drops every half, since it is no JSON, which is the choice of showing nothing. A half that is an
event is stored under its own raw text, and after a restart the whole line is another piece. The duplicate rules find a ban by the id of the action or by
the address only if the piece shows it (`ByRule`).

`IngestedOnce`: while the process runs, a piece whose event was not expired has one event at most and is counted as often as it is stored.
`OneBanOneEvent`: a manual ban has no event of its action beside one of a piece that shows the id of the action or, if it succeeded, the address.
`LogDrains`: a line that stays in the log is stored, taken for an event that is there, or lost for a named reason: a fault, being read in halves, or a crash.
Two runs check the model. `ingestion` has two faults (three lines of which one is there before, two lines a tick, one a chunk, one manual
ban, one line kept): a half that is read, and a crash after which the whole line is read again. `LogDrains` is checked in `collection` with
five lines, three of them there before, and one fault, for a new installation. Fairness: the loop and
the action go on, and a process that ended is started again.

`CollectionProofs` proves `IngestedOnce` (`StoredOnce`) and `OneBanOneEvent` (`BanRecordedOnce`) for any log, batch, chunk, retention, actions and faults, and
whatever halves show.
`OneBanOneEvent` needs the lock: an action that is under way holds it (`LockInv`), and a piece that got past it reports a ban whose action is over
(`BanInv`), so that the look-up that decided before the lock is still right under it (`JudgeInv`). `IngestedOnce` needs that the
process is up only after the clean-up of duplicates has run, and that a batch does not outlive the process (`CountInv`).

Left out: a missing file, a disabled plugin, a file that regrows past its last size between two polls, which
base.py's docstring excludes. All bans are of one address within the window of the fallback rule. A line is written in two parts at most, and no two pieces read the same.

Five claims do not hold: `CountedOnce` (run `collection_recount`: after a restart the log is read
from its start and expired lines are counted again), `HistoryKept` (the clean-up rebuilds counters from what is left),
`LoggedBanShown` (a ban whose reply was lost is taken for the failed action), `LineOnce` (a line read in halves is stored again as a whole after a restart,
with GeoBlock and CrowdSec) and `BanShownOnce` (half a line of a manual ban, cut before the id and the address, is a second event of the ban).

`GeoipScan` follows one event through batches that walk from the newest to the oldest with a cursor that wraps, while
others arrive, are deleted, fail, or are rejected with the whole configuration. `EveryEventChecked` assumes ticks, the end
of a cached error and a new configuration after a rejection (`WF`; without it, enrichment is off by design). Saving the same
rejected key again keeps it blocked until a restart. Instance: batches of two, five pending events, two faults.
`CountryCounted` does not hold: the count of a country is read before the lock and overwritten.

`Broadcaster` polls, stores what it read and hands it to queues of one entry whose newest value wins; pages connect, subscribe,
take and have their session checked. `ClientsFollow`: an open page is told the newest event or closes, and
one whose session ended is closed. Event ids only grow. Instance: two pages, two events, one failed poll.

`SearchExpression` types queries token by token, runs validator and parser, and compares every accepted one with the
grammar by reference for every assignment (`ParsedAsGrammar`). Instance: nine tokens, two levels of parentheses: two nested groups with
operators on both sides need nine. It has RECURSIVE operators and is model-checked only. `WholeQuerySearched` does not hold: in
`"a b" c` the last term is not searched.

## 11. Assets, MQTT, plugins

`Assets`: JSON imports and Proxmox syncs under the lock of asset actions (`ImportJson`, `SyncProxmox`, `Load`, `Write`), edits of a host
(`OpenEdit`, `SaveEdit`, `RefuseEdit`), the clean-up of inactive rows, events linked by the map a tick has cached (`StoreEvent`, `EndTick`). An import reads
rows, waits for a server and writes changed columns at its end; a row that was deleted meanwhile fails it as a whole. An edit loads its row
before it tries the metadata lock of the asset, which refuses it (409) when another edit has it, and before its first write takes the write lock. Both write only what differs
from what they loaded: an import the hosts in `moved`, an edit the host unless it is the one it loaded (`Unwritten`). The edit makes its links by what was posted in any case.

Of two overlapping edits the second may therefore link the events of A to an application whose row the first has given B: `EditRebuilds`, that an edit
leaves on its application only events of its host, does not hold: one application, two hosts and two edits are enough, or an edit and an import. `EditedLinksMatch` is
what does: after an edit whose host was written, or was still the row's, events and applications agree until an import changes the
host, a tick links by a map it cached before, or such a stale edit comes. It fails if an edit forgets to detach. Without the exceptions
(`LinksMatch`) it does not hold, nor do `NoHeirs` (a deleted id is given to another asset, which inherits the events) and `MissingDeactivated`
(an application stays active when its whole system is gone). Instance: one application of each source, two hosts,
two runners, two editors, two rows, one event; of the import that has the lock and the edits, two at a time are under way.

`AdministrationProofs` proves `EditedLinksMatch` (`LinksOfEdited`) for any applications, hosts,
runners, editors and rows: the lock keeps imports apart (`RunHolds`), the rows an import found before it waited are still those of its
applications when it writes or are gone (`RunKnows`), and a map that a tick has cached names an edited application only by the host it has
(`MapMatches`), because an application that is edited under a cached map does not count as settled. When two applications have one host, editing one away detaches the events of both; no document says
whose they are.

`AssetUpdates`: two refreshers and edits beside each other, the request to GitHub between read and write, an import that sets only the
version, the notification and the retained message. `UpdatesSettle`: when versions, releases and
faults have come to an end, flag and stored release are right for good. Fairness: the loop starts again and goes on with what it
started; the button, the form and an import may hang for ever.
`NotifiedOnce` does not hold: two refreshes find one version new. Instance: two versions, one fault.

`MqttInsights`: a tick with the settings it began with, a batch, a cursor, a form that is saved meanwhile, a broker that fails half way.
`InsightsDelivered`: what is found while publishing is on is sent, unless publishing is switched off first. Fairness: `WF(Tick)`.
`NoReplay` does not hold: a tick that spans an off and on puts the old cursor back. Instance: three insights, batches of two,
three saves, two faults. An activation is committed with the tick and lost with a failing export of assets, as in the code.

`PluginHealth`: the health loop, a loop that records its failure and the refresh after a save write one row; each reads, decides
whether to report, and commits columns it changed. `FailureReported`: a row that says "error" has an event. `InSyncAfterSave` does
not hold: a check that raises rolls back the rows of the plugins before it. Instance: three changes, two failing ticks.
`AdministrationProofs` proves `FailureReported` (`FailuresReported`): a thread may have read anything, but its commit writes the error and the event that
reports it together, or finds the error there already.

`PluginSettings`: which posted values may be written when settings hide each other, for every set of up to two conditions
of three settings. `HiddenNeverWritten`: what is going to be written is visible in the state it makes of the one that was
read. Cyclic conditions, and ones on secrets, are excluded by `Sensible`, as no plugin has any. `HiddenInTheEnd` does not hold: the request reads before it waits
for the lock. `AdministrationProofs` proves `HiddenNeverWritten` (`HiddenStaysUnwritten`) for any number of settings and conditions: a setting depends on settings of lower
rank only, so it keeps its value from the pass on that exceeds its rank (`PassStable`), as many passes as there are settings
bring the form to rest (`SettledFixed`), and the state the writes make is the one the passes settled in, except for secrets, on which
nothing depends (`ResultSettled`).

## 12. Requests

`OidcFlow`: one browser with several tabs. A request carries the cookies it was sent with and its answer sets what it made of them, so
answers overtake each other; `Begin`, `Fetch`, `Redirect`, `Return` and the completions are a flow, beside sign-outs, restarts (which change the key that
signs the flow cookie), expiry, a saved or switched provider and a server whose document changes. `FlowsEndAsTheyBegan`: an account is linked
only to the user who asked, by the callback of that very flow, and nobody is signed in by a flow that was to
link. An older tab's callback clears the newer flow's cookie as well; the newer one must be started
again. Instance: two users, one provider with two issuers and a redirect, two flows, two requests, two changes.

`OidcFlowProofs` proves it (`FlowsHold`) for any users, URLs, issuers, answers and bounds. The callback trusts a cookie that another tab or a late answer may
have set again; the invariant (`FlowsInv`) says that whatever cookie, page or request is around, what it says of a flow is what the flow was
started for, and that a flow to sign in names no user. A cookie of another process is taken as none, and states are not reused, so no cookie speaks of
a flow that is not its own.

`LoginThrottle`: requests in threads look at the buckets of account, source and peer, take a place, reserve the account, check, give back and
record. `RightPasswordGetsIn`: after finitely many wrong passwords whoever knows the right one gets in. Fairness: the clock, the owner who tries
again, a thread that has begun. Instance: thresholds 1, 2 and 3, one place, two entries remembered, three faults, three threads that
share the account, two of them a source.

`WebBoundary`: for every URL, every set of headers a proxy forwards and every trust setting, the gate, the diagnostics, the origin of forms and the
websocket agree (`BoundariesAgree`), through set-up, repair and restarts. A proxy forwards what is true of the URL. Unsafe forms send an Origin. Roles are left out.
`AdministrationProofs` proves it (`BoundariesNeverDisagree`) for any set of host names, from `BoundaryTyped`: what the gate lets through came over https at the default port by the
stored name (`LetThrough`), which the other three computations are then traced back to.

## 13. What is proved, what is only checked, what is not modelled

Proved for every value of the constants: every safety property that a passing run checks, except `ParsedAsGrammar`. These are all those of `AsnBan` with its
refinement of `PolicyLedger`, of `SignIn`, `Notifications`, `LogTail`, `Rollups`, `Level2`, `Trends`, `InsightRules`, `EventInsights`, `ProviderReview`, `Assets`,
`PluginSettings`, `PluginHealth`, `WebBoundary` and `OidcFlow`. The proofs assume what the named assumptions of the modules say, and nothing else.
Each inductive invariant was model-checked on the instances of the runs before it was proved.

Only model-checked: all liveness and the fairness it needs, which this prover does not do (`RemovalFinishes`, `ReleaseResolves`, `Settles`, `CompletedMonthCompacted`,
`RulesConverge`, `UpdatesSettle`, `InsightsDelivered`, `LogDrains`, `EveryEventChecked`, `ClientsFollow`, `RightPasswordGetsIn`); and `ParsedAsGrammar`, whose
parser and grammar are recursive operators. `TypeOK` of a module that is proved about is part of its inductive invariant.

Parts of modelled components that are left out: the order in which shutdown cancels loops, discovery messages and the connection of MQTT,
the check for updates of OpenSecDash itself (one cached request), metrics and filters of the event pages, quotas of look-up providers, LAPI's
limit of 500 alerts, saved views, preferences and branding (rows that one request reads or writes).

Parsing of log lines, rendering, translations, logging and the libraries for OIDC, MQTT and SMTP have no behaviour a model would
add to. Schema changes run before anything concurrent exists. Components with the status `not_modelled` or `partly` in `PROJECT.json` carry
the reason.
