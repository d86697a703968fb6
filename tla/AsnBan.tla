------------------------------- MODULE AsnBan -------------------------------
(***************************************************************************)
(* Permanent ASN bans: plugins/crowdsec/services/policies.py together with  *)
(* the decision sync (decisions.py), the LAPI client (lapi.py), the CrowdSec*)
(* plugin's tick and hooks (plugin.py) and the action framework that runs   *)
(* them (backend/app/services/actions.py).                                  *)
(*                                                                          *)
(* A policy blocks an autonomous system.  Every event that GeoIP places in a*)
(* blocked ASN makes OpenSecDash post one ordinary single-IP ban to the     *)
(* CrowdSec LAPI; the enforcement row remembers the exact decision id, and  *)
(* everything the policy later releases is released by that id.  The LAPI   *)
(* is another process: decisions expire, other tools ban and unban, and any *)
(* request may fail before or after it took effect.                         *)
(*                                                                          *)
(* Writers of the database are serialised by the app-wide write lock, which *)
(* a session takes at its first write and keeps to the end of its           *)
(* transaction.  A transaction that makes its LAPI calls under that lock is *)
(* one action here; what happens before the lock (the fetch of a sync, the  *)
(* validation of an unban) is an action of its own.  The periodic tick makes*)
(* several LAPI calls in one transaction, so it is a sequence of actions    *)
(* that hold the lock: tx # NoTx.                                           *)
(***************************************************************************)
EXTENDS Naturals, FiniteSets

CONSTANTS
  ASN,       \* autonomous systems an event can be placed in
  IP,        \* global client addresses
  Foreign,   \* the scenario of every decision that is not a policy ban
  Decision,  \* identifiers of LAPI decisions of type ban
  Tick,      \* the plugin's periodic tick, as an owner of a fetched list
  Refresher, \* concurrent refresh requests
  None,      \* an absent value
  NoTx,      \* no tick transaction is open
  Toggles,   \* the settings an administrator may flip
  MayFail,   \* LAPI requests may be refused, or take effect and lose the reply
  MayCrash   \* a commit may be lost and the process may restart

Pair == ASN \X IP

\* A decision is the record of its address, its scenario and what tells it from
\* others alike.  LAPI ids never repeat; an identifier that nobody refers to any
\* more stands for a new one.

\* What an enforcement row says of the decision it owns: decision_id,
\* last_observed_asn and release_pending.  A row that owns no decision decides
\* nothing and is None.
Claim == [dec : Decision, obs : ASN, pending : BOOLEAN]

\* The rows: crowdsec_decisions (cache), crowdsec_asn_bans (pol),
\* crowdsec_asn_ban_enforcements (own), crowdsec_asn_ban_exceptions (exc).
Database == [cache : SUBSET Decision,
             pol   : [ASN -> {"none", "active", "removing"}],
             own   : [Pair -> Claim \cup {None}],
             exc   : SUBSET Pair]

\* The tick's transaction: the rows it found, the releases it has to retry and
\* the policies whose removal it has retried.
Transaction == [old : Database, rel : SUBSET Pair, done : SUBSET ASN]

ASSUME AsnBanAssumption ==
  /\ Foreign \notin ASN
  /\ Tick \notin Refresher
  /\ None \notin ASN
  /\ \A d \in Decision : d.ip \in IP /\ d.scenario \in ASN \cup {Foreign}
  /\ None \notin Claim
  /\ NoTx \notin Transaction
  /\ Toggles \subseteq {"real", "crowdsec", "geoip"}
  /\ MayFail \in BOOLEAN
  /\ MayCrash \in BOOLEAN

VARIABLES
  lapi,      \* the decisions CrowdSec enforces now
  db,        \* the database as its next writer finds it
  settings,  \* "real": dry-run off; "crowdsec", "geoip": plugin enabled
  snap,      \* a fetched decision list not applied yet, per syncer
  target,    \* the policy whose removal the tick fetched for, or None
  tx,        \* the tick's open transaction: old rows and remaining work
  unban      \* a validated manual unban waiting for the write lock, or None

vars == <<lapi, db, settings, snap, target, tx, unban>>

Syncer == {Tick} \cup Refresher

UnbanRequest == [dec : Decision, asn : ASN \cup {None}]

TypeOK ==
  /\ lapi \subseteq Decision
  /\ db \in Database
  /\ settings \subseteq {"real", "crowdsec", "geoip"}
  /\ snap \in [Syncer -> (SUBSET Decision) \cup {None}]
  /\ target \in ASN \cup {None}
  /\ tx \in Transaction \cup {NoTx}
  /\ unban \in UnbanRequest \cup {None}

Init ==
  /\ lapi = {}
  /\ db = [cache |-> {}, pol |-> [a \in ASN |-> "none"],
           own |-> [e \in Pair |-> None], exc |-> {}]
  /\ settings = {"real", "crowdsec", "geoip"}
  /\ snap = [s \in Syncer |-> None]
  /\ target = None
  /\ tx = NoTx
  /\ unban = None

-----------------------------------------------------------------------------
(* What the LAPI answers.  "refused" had no effect, "lost" took effect but   *)
(* the caller sees an error; deleting an unknown id is an error.             *)

Replies(d) ==
  IF d \notin lapi THEN {"refused"}
  ELSE IF MayFail THEN {"ok", "refused", "lost"} ELSE {"ok"}

Without(d, reply) == IF reply = "refused" THEN lapi ELSE lapi \ {d}

SyncReplies == IF MayFail THEN BOOLEAN ELSE {TRUE}

\* An identifier nobody refers to (owned ids are cached: OwnedIsCached).
Fresh(d) ==
  /\ d \notin lapi \cup db.cache
  /\ tx # NoTx => d \notin tx.old.cache
  /\ \A s \in Syncer : snap[s] # None => d \notin snap[s]
  /\ unban # None => unban.dec # d

-----------------------------------------------------------------------------
(* What a transaction does to the rows.                                      *)

LockFree == tx = NoTx

\* A transaction commits, or its writes are lost while its LAPI calls are not.
Store(s) == db' = s \/ (MayCrash /\ db' = db)

\* A decision is the policy's when address, origin and scenario match.
Owns(e, d) == d.ip = e[2] /\ d.scenario = e[1]

\* Mutant: reconcile_enforcements_after_sync is forgotten.
UnreconciledSync(s, list) == [s EXCEPT !.cache = list]

\* sync_crowdsec_decisions: replace the cache by a fetched list, then drop the
\* ownership of every decision that is not in it or does not match.
Synced(s, list) ==
  [s EXCEPT !.cache = list,
            !.own = [e \in Pair |->
               IF s.own[e] # None /\ s.own[e].dec \in list /\ Owns(e, s.own[e].dec)
               THEN s.own[e] ELSE None]]

\* _associate_policy_decision: exactly one matching cached decision.
Associated(s, e) ==
  LET candidates == {d \in s.cache : Owns(e, d)}
  IN  IF \E d \in candidates : candidates = {d}
      THEN [s EXCEPT !.own[e] = [dec |-> CHOOSE d \in candidates : TRUE,
                                 obs |-> e[1], pending |-> FALSE]]
      ELSE s

Disowned(s, e) == [s EXCEPT !.own[e] = None]

\* last_observed_asn := a on the rows E that own a decision for address i.
Noted(s, a, i, E) ==
  [s EXCEPT !.own = [e \in Pair |->
     IF e \in E /\ e[2] = i /\ s.own[e] # None
     THEN [s.own[e] EXCEPT !.obs = a] ELSE s.own[e]]]

\* Mutant: only bans of others stop a policy ban.
BannedByOthersInCache(s, i) == \E d \in s.cache : d.ip = i /\ d.scenario = Foreign

BannedInCache(s, i) == \E d \in s.cache : d.ip = i

Pending(s) == {e \in Pair : s.own[e] # None /\ s.own[e].pending}

Removing(s) == {a \in ASN : s.pol[a] = "removing"}

\* _run_reclassification_release: the id-exact delete and the forced sync both
\* succeed, or the release stays pending.
AfterRelease(s, e, reply, synced) ==
  IF reply = "ok" /\ synced
  THEN Disowned(Synced(s, lapi \ {s.own[e].dec}), e)
  ELSE [s EXCEPT !.own[e].pending = TRUE]

\* Mutant: exceptions outlive the policy (no cascade).
DroppedWithoutExceptions(s, a) ==
  [s EXCEPT !.pol[a] = "none",
            !.own = [e \in Pair |-> IF e[1] = a THEN None ELSE s.own[e]]]

\* The policy row goes with its enforcements and exceptions (ON DELETE CASCADE).
Dropped(s, a) ==
  [s EXCEPT !.pol[a] = "none",
            !.own = [e \in Pair |-> IF e[1] = a THEN None ELSE s.own[e]],
            !.exc = {e \in s.exc : e[1] # a}]

\* _finish_policy_removal after its forced sync: delete every owned decision,
\* then the policy when no delete failed.  An answer per address.
OwnedIPs(s, a) == {i \in IP : s.own[<<a, i>>] # None}

Answers(s, a) ==
  {r \in [IP -> {"ok", "refused", "lost"}] : \A i \in IP :
     r[i] \in IF i \in OwnedIPs(s, a) THEN Replies(s.own[<<a, i>>].dec) ELSE {"ok"}}

\* Mutant: deleted by scenario, not by id.
DeletedByScenario(s, a, r) == {d \in lapi : d.scenario = a}

Deleted(s, a, r) == {s.own[<<a, i>>].dec : i \in {j \in OwnedIPs(s, a) : r[j] # "refused"}}

\* Mutant: failed deletions do not keep the policy.
AfterRemovalWhateverFailed(s, a, r) == Dropped(s, a)

AfterRemoval(s, a, r) ==
  IF \A i \in IP : r[i] = "ok"
  THEN Dropped(s, a)
  ELSE [s EXCEPT !.own = [e \in Pair |->
          IF e[1] = a /\ r[e[2]] = "ok" THEN None ELSE s.own[e]]]

\* A validated unban names policy and enforcement rows; they may be gone.
ForgetDroppedPolicy ==
  unban' = IF unban # None /\ unban.asn # None /\ db'.pol[unban.asn] = "none"
           THEN [unban EXCEPT !.asn = None]
           ELSE unban

-----------------------------------------------------------------------------
(* The CrowdSec side: decisions expire or are deleted by other tools, and    *)
(* CrowdSec or other tools ban addresses for reasons of their own.           *)

Expire(d) ==
  /\ d \in lapi
  /\ lapi' = lapi \ {d}
  /\ UNCHANGED <<db, settings, snap, target, tx, unban>>

ForeignBan(d) ==
  /\ d.scenario = Foreign
  /\ Fresh(d)
  /\ lapi' = lapi \cup {d}
  /\ UNCHANGED <<db, settings, snap, target, tx, unban>>

-----------------------------------------------------------------------------
(* process_enriched_event, inside GeoIP's per-event transaction.             *)

\* The event's ASN a is blocked: ban its address i unless the pair is excepted
\* or a ban is known.  A failed ban leaves the row and is not undone.
Enforce(s, a, i) ==
  LET e    == <<a, i>>
      seen == Noted(s, a, i, Pair)
      idle == e \in s.exc \/ BannedInCache(s, i)
  IN  \/ /\ idle \/ MayFail
         /\ Store(seen)
         /\ UNCHANGED lapi
      \/ /\ ~idle
         /\ \E d \in Decision :
              /\ Owns(e, d)
              /\ Fresh(d)
              /\ lapi' = lapi \cup {d}
              /\ \/ Store(Associated(Synced(seen, lapi \cup {d}), e))
                 \/ MayFail /\ Store(seen)

\* ASN a is not blocked: release what other policies own for the address.
\* OneOwnerPerAddress says that the loop of the code has at most one turn.
Reclassify(s, a, i) ==
  LET others == {e \in Pair : e[1] # a}
      noted  == Noted(s, a, i, others)
      owners == {e \in others : e[2] = i /\ s.own[e] # None /\ ~s.own[e].pending}
  IN  IF owners = {}
      THEN Store(noted) /\ UNCHANGED lapi
      ELSE \E e \in owners : \E reply \in Replies(s.own[e].dec), synced \in SyncReplies :
             /\ lapi' = Without(s.own[e].dec, reply)
             /\ Store(AfterRelease(noted, e, reply, synced))

Observe(a, i) ==
  /\ LockFree
  /\ settings = {"real", "crowdsec", "geoip"}
  /\ IF db.pol[a] = "active" THEN Enforce(db, a, i) ELSE Reclassify(db, a, i)
  /\ UNCHANGED <<settings, snap, target, tx, unban>>

-----------------------------------------------------------------------------
(* Actions of an administrator (create_action).                              *)

SaveSettings(flag) ==
  /\ LockFree
  /\ flag \in Toggles
  /\ settings' = IF flag \in settings THEN settings \ {flag} ELSE settings \cup {flag}
  /\ UNCHANGED <<lapi, db, snap, target, tx, unban>>

\* validate_action_parameters: the LAPI is configured, the policy is new.
MayEnable(a) == settings = {"real", "crowdsec", "geoip"} /\ db.pol[a] = "none"

\* security.asn_ban.enable from an event of ASN a and address i.
Enable(a, i) ==
  /\ LockFree
  /\ MayEnable(a)
  /\ Enforce([db EXCEPT !.pol[a] = "active"], a, i)
  /\ UNCHANGED <<settings, snap, target, tx, unban>>

\* security.asn_ban.disable: "removing" is stored even when the removal fails.
Disable(a) ==
  LET marked == [db EXCEPT !.pol[a] = "removing"]
      synced == Synced(marked, lapi)
  IN  /\ LockFree
      /\ "real" \in settings
      /\ db.pol[a] # "none"
      /\ \/ /\ MayFail
            /\ Store(marked) \/ Store(synced)
            /\ UNCHANGED lapi
         \/ \E r \in Answers(synced, a) :
              /\ lapi' = lapi \ Deleted(synced, a, r)
              /\ Store(AfterRemoval(synced, a, r))
      /\ ForgetDroppedPolicy
      /\ UNCHANGED <<settings, snap, target, tx>>

\* security.ban: a ban with a scenario of its own, then a forced sync.
ManualBan(d) ==
  /\ LockFree
  /\ "real" \in settings
  /\ d.scenario = Foreign
  /\ Fresh(d)
  /\ lapi' = lapi \cup {d}
  /\ Store(Synced(db, lapi \cup {d})) \/ (MayFail /\ UNCHANGED db)
  /\ UNCHANGED <<settings, snap, target, tx, unban>>

\* security.unban validates before it waits for the write lock ...
UnbanValidate(d) ==
  LET owners == {a \in ASN : /\ db.pol[a] = "active"
                              /\ db.own[<<a, d.ip>>] # None
                              /\ db.own[<<a, d.ip>>].dec = d}
  IN  /\ LockFree
      /\ "real" \in settings
      /\ unban = None
      /\ d \in db.cache
      /\ unban' = [dec |-> d, asn |-> IF owners = {} THEN None
                                      ELSE CHOOSE a \in owners : TRUE]
      /\ UNCHANGED <<lapi, db, settings, snap, target, tx>>

\* Mutant: the policy's status is not checked again.
ExceptedWhateverStatus(s, u) ==
  IF u.asn # None
  THEN [Disowned(s, <<u.asn, u.dec.ip>>) EXCEPT !.exc = s.exc \cup {<<u.asn, u.dec.ip>>}]
  ELSE s

\* _add_exception_after_manual_unban
Excepted(s, u) ==
  IF u.asn # None /\ s.pol[u.asn] = "active"
  THEN [Disowned(s, <<u.asn, u.dec.ip>>) EXCEPT !.exc = s.exc \cup {<<u.asn, u.dec.ip>>}]
  ELSE s

\* ... and then deletes by id, syncs, and stores the exception.
UnbanExecute ==
  /\ LockFree
  /\ unban # None
  /\ unban' = None
  /\ IF "real" \in settings
     THEN \E reply \in Replies(unban.dec), synced \in SyncReplies :
            /\ lapi' = Without(unban.dec, reply)
            /\ IF reply = "ok" /\ synced
               THEN Store(Excepted(Synced(db, lapi \ {unban.dec}), unban))
               ELSE UNCHANGED db
     ELSE UNCHANGED <<lapi, db>>
  /\ UNCHANGED <<settings, snap, target, tx>>

RemoveException(e) ==
  /\ LockFree
  /\ "real" \in settings
  /\ e \in db.exc
  /\ Store([db EXCEPT !.exc = db.exc \ {e}])
  /\ UNCHANGED <<lapi, settings, snap, target, tx, unban>>

-----------------------------------------------------------------------------
(* A sync outside an action: the list is fetched before the write lock.      *)

RefreshFetch(r) ==
  /\ snap[r] = None
  /\ snap' = [snap EXCEPT ![r] = lapi]
  /\ UNCHANGED <<lapi, db, settings, target, tx, unban>>

RefreshApply(r) ==
  /\ LockFree
  /\ snap[r] # None
  /\ Store(Synced(db, snap[r]))
  /\ snap' = [snap EXCEPT ![r] = None]
  /\ UNCHANGED <<lapi, settings, target, tx, unban>>

-----------------------------------------------------------------------------
(* The plugin's tick: sync unless fresh, then retry_pending_policy_work.     *)

TickIdle == tx = NoTx /\ snap[Tick] = None

Retrying == {"real", "crowdsec"} \subseteq settings

\* Mutant: pending releases are not retried.
BeginWithoutReleases(s, finished) == tx' = [old |-> db, rel |-> {}, done |-> finished]

Begin(s, finished) == tx' = [old |-> db, rel |-> Pending(s), done |-> finished]

TickFetch ==
  /\ TickIdle
  /\ "crowdsec" \in settings
  /\ snap' = [snap EXCEPT ![Tick] = lapi]
  /\ UNCHANGED <<lapi, db, settings, target, tx, unban>>

TickSync ==
  LET s == Synced(db, snap[Tick])
  IN  /\ LockFree
      /\ snap[Tick] # None
      /\ target = None
      /\ IF Retrying
         THEN db' = s /\ Begin(s, {})
         ELSE Store(s) /\ UNCHANGED tx
      /\ snap' = [snap EXCEPT ![Tick] = None]
      /\ UNCHANGED <<lapi, settings, target, unban>>

\* The cache is younger than the sync interval: retry without a sync.  With no
\* release to retry the first write of the tick is the forced sync of the first
\* removal, which fetches before it holds the lock.
TickFresh ==
  /\ TickIdle
  /\ Retrying
  /\ db.cache # {}
  /\ \/ /\ Pending(db) # {}
        /\ Begin(db, {})
        /\ UNCHANGED <<snap, target>>
     \/ /\ Pending(db) = {}
        /\ target' \in Removing(db)
        /\ snap' = [snap EXCEPT ![Tick] = lapi]
        /\ UNCHANGED tx
  /\ UNCHANGED <<lapi, db, settings, unban>>

\* The removal goes on with the list it fetched.  Meanwhile the policy may have
\* been removed by hand, and enabled again under the row id that became free:
\* then the removal works on the new row.
TickRemoveFetched ==
  LET s == Synced(db, snap[Tick])
  IN  /\ LockFree
      /\ target # None
      /\ snap[Tick] # None
      /\ \/ /\ db.pol[target] # "removing" \/ MayFail
            /\ db' = s
            /\ UNCHANGED lapi
         \/ /\ db.pol[target] # "none"
            /\ \E r \in Answers(s, target) :
                 /\ lapi' = lapi \ Deleted(s, target, r)
                 /\ db' = AfterRemoval(s, target, r)
      /\ tx' = [old |-> db, rel |-> {}, done |-> {target}]
      /\ target' = None
      /\ snap' = [snap EXCEPT ![Tick] = None]
      /\ UNCHANGED <<settings, unban>>

TickRelease(e) ==
  /\ tx # NoTx
  /\ e \in tx.rel
  /\ tx' = [tx EXCEPT !.rel = tx.rel \ {e}]
  /\ IF db.own[e] = None
     THEN UNCHANGED <<lapi, db>>
     ELSE \E reply \in Replies(db.own[e].dec), synced \in SyncReplies :
            /\ lapi' = Without(db.own[e].dec, reply)
            /\ db' = AfterRelease(db, e, reply, synced)
  /\ UNCHANGED <<settings, snap, target, unban>>

TickRemove(a) ==
  LET s == Synced(db, lapi)
  IN  /\ tx # NoTx
      /\ tx.rel = {}
      /\ a \in Removing(db) \ tx.done
      /\ \/ /\ MayFail
            /\ db' = db \/ db' = s
            /\ UNCHANGED lapi
         \/ \E r \in Answers(s, a) :
              /\ lapi' = lapi \ Deleted(s, a, r)
              /\ db' = AfterRemoval(s, a, r)
      /\ tx' = [tx EXCEPT !.done = tx.done \cup {a}]
      /\ UNCHANGED <<settings, snap, target, unban>>

TickCommit ==
  /\ tx # NoTx
  /\ tx.rel = {}
  /\ Removing(db) \subseteq tx.done
  /\ db' = db \/ (MayCrash /\ db' = tx.old)
  /\ tx' = NoTx
  /\ ForgetDroppedPolicy
  /\ UNCHANGED <<lapi, settings, snap, target>>

\* The process dies and comes back: only committed rows and the LAPI survive.
Restart ==
  /\ MayCrash
  /\ db' = IF tx = NoTx THEN db ELSE tx.old
  /\ snap' = [s \in Syncer |-> None]
  /\ target' = None
  /\ tx' = NoTx
  /\ unban' = None
  /\ UNCHANGED <<lapi, settings>>

-----------------------------------------------------------------------------
Environment == \E d \in Decision : Expire(d) \/ ForeignBan(d)

Operator ==
  \/ \E a \in ASN : Disable(a)
  \/ \E a \in ASN, i \in IP : Enable(a, i)
  \/ \E d \in Decision : ManualBan(d) \/ UnbanValidate(d)
  \/ UnbanExecute
  \/ \E e \in Pair : RemoveException(e)
  \/ \E flag \in Toggles : SaveSettings(flag)

PluginTick ==
  \/ TickFetch \/ TickSync \/ TickFresh \/ TickRemoveFetched \/ TickCommit
  \/ \E e \in Pair : TickRelease(e)
  \/ \E a \in ASN : TickRemove(a)

Next ==
  \/ Environment
  \/ \E a \in ASN, i \in IP : Observe(a, i)
  \/ Operator
  \/ \E r \in Refresher : RefreshFetch(r) \/ RefreshApply(r)
  \/ PluginTick
  \/ Restart

Spec == Init /\ [][Next]_vars

(* The plugin manager runs the tick for ever.  Every second tick that finds  *)
(* the cache older than the sync interval starts with a sync, so a fetch is  *)
(* never put off for ever; a LAPI that is up again answers a request that is *)
(* retried for ever.                                                         *)

ReleaseSucceeds(e) == TickRelease(e) /\ db'.own[e] = None

RemovalSucceeds(a) ==
  /\ TickRemove(a) \/ (TickRemoveFetched /\ target = a)
  /\ db.pol[a] = "removing" /\ db'.pol[a] = "none"

TickFairness ==
  /\ WF_vars(PluginTick)
  /\ SF_vars(TickFetch)
  /\ \A e \in Pair : SF_vars(ReleaseSucceeds(e))
  /\ \A a \in ASN : SF_vars(RemovalSucceeds(a))

FairSpec == Spec /\ TickFairness

-----------------------------------------------------------------------------
(* Safety: what the rows say.                                                *)

OwnedMatchesIn(s) == \A e \in Pair : s.own[e] # None => Owns(e, s.own[e].dec)

OwnedIsCachedIn(s) == \A e \in Pair : s.own[e] # None => s.own[e].dec \in s.cache

OneOwnerIn(s) ==
  \A a, b \in ASN, i \in IP : s.own[<<a, i>>] # None /\ s.own[<<b, i>>] # None => a = b

ExceptedNotOwnedIn(s) == \A e \in s.exc : s.own[e] = None

PolicyRowsOnlyIn(s) ==
  \A e \in Pair : s.pol[e[1]] = "none" => s.own[e] = None /\ e \notin s.exc

ConsistentRows(s) ==
  /\ OwnedMatchesIn(s)
  /\ OwnedIsCachedIn(s)
  /\ OneOwnerIn(s)
  /\ ExceptedNotOwnedIn(s)
  /\ PolicyRowsOnlyIn(s)

\* Whatever is owned is a decision the last sync listed for that address and
\* with that policy's scenario, whichever sync came last (decisions.py:139-172).
OwnedIsCached == OwnedMatchesIn(db) /\ OwnedIsCachedIn(db)

\* Two policies never own decisions for one address, so a reclassification has
\* one decision to release (policies.py:683-712).
OneOwnerPerAddress == OneOwnerIn(db)

\* An address an operator excepted from a policy is never held by that policy
\* again, and no row outlives its policy (policies.py:573-583, 830-866).
ExceptedNotOwned == ExceptedNotOwnedIn(db) /\ PolicyRowsOnlyIn(db)

\* The inductive invariant: the rows a rolled back tick returns to are
\* consistent as well.
IInv ==
  /\ TypeOK
  /\ ConsistentRows(db)
  /\ tx # NoTx => ConsistentRows(tx.old)

-----------------------------------------------------------------------------
(* Safety: what a step may do.                                               *)

\* What a tick, an event or a removal deletes from CrowdSec is the decision some
\* row owned when it was deleted, never all bans of an address.
OnlyOwnedDeleted ==
  [][\A d \in lapi \ lapi' :
       \/ Expire(d)
       \/ UnbanExecute /\ unban.dec = d
       \/ \E e \in Pair : db.own[e] # None /\ db.own[e].dec = d]_vars

\* A policy that goes leaves nothing it owned in CrowdSec, unless the removal
\* worked with a list fetched before the lock (TickRemoveFetched).
RemovalLeavesNothingOwned ==
  [][\A a \in ASN, i \in IP :
       db.own[<<a, i>>] # None /\ db'.pol[a] = "none" /\ target' = target
         => db.own[<<a, i>>].dec \notin lapi']_vars

-----------------------------------------------------------------------------
(* Refinement.                                                               *)

\* The rows a reader of the database sees: a tick's writes are its own until
\* it commits.
Committed == IF tx = NoTx THEN db ELSE tx.old

Ledger == INSTANCE PolicyLedger WITH
  policy   <- Committed.pol,
  held     <- [e \in Pair |-> IF Committed.own[e] = None THEN None ELSE Committed.own[e].dec],
  excepted <- Committed.exc

\* The committed rows are the ledger adr-047 describes, through failed requests,
\* lost commits, stale lists and a tick that releases and removes many rows in
\* one transaction.
KeepsLedger == Ledger!Spec

-----------------------------------------------------------------------------
(* Liveness under FairSpec.                                                  *)

\* A policy that was told to go, goes or is taken back by an operator, however
\* often the LAPI fails on the way.
RemovalFinishes == \A a \in ASN : db.pol[a] = "removing" ~> db.pol[a] # "removing"

\* A release that failed is not pending for ever.
ReleaseResolves ==
  \A e \in Pair : (tx = NoTx /\ e \in Pending(db)) ~> (e \notin Pending(db))

-----------------------------------------------------------------------------
(* What the documentation promises and the code does not keep.               *)

\* "their exact IDs are retained for release and cleanup" (ADR-047): a policy
\* gives up a decision that is still enforced only in the step that removes it.
LiveBanStaysOwned ==
  [][\A e \in Pair : db.own[e] # None /\ db'.own[e] = None => db.own[e].dec \notin lapi']_vars

\* "if the new ASN is also blocked, the existing decision remains attributed to
\* the old policy until expiry" (website/guide/plugins/crowdsec.md): a retried
\* release deletes no decision whose address was last seen in a blocked ASN.
BlockedAddressNotReleased ==
  [][\A e \in Pair :
       TickRelease(e) /\ db.own[e] # None /\ db.pol[db.own[e].obs] = "active"
         => lapi' = lapi]_vars

\* "Manually unbanning a policy-owned decision automatically creates a durable
\* exception for that ASN/IP pair after the LAPI deletion succeeds"
\* (website/guide/plugins/crowdsec.md).
UnbanExcepts ==
  [][UnbanExecute /\ lapi' # lapi /\ unban.asn # None /\ db.pol[unban.asn] = "active"
       => <<unban.asn, unban.dec.ip>> \in db'.exc]_vars

=============================================================================
