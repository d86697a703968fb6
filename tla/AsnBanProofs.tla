---------------------------- MODULE AsnBanProofs ----------------------------
(***************************************************************************)
(* IInv is an inductive invariant of AsnBan, for any autonomous systems,    *)
(* addresses, decisions and refreshers, with failures and crashes.          *)
(*                                                                          *)
(* The argument has two layers.  Lemmas about the row operators say that    *)
(* what a transaction computes from consistent rows is consistent; most     *)
(* operators only lose ownership, so one lemma (LosingKeepsRows) does the   *)
(* work.  The step theorem then takes the actions one by one: every row set *)
(* an action stores comes from such an operator.                            *)
(*                                                                          *)
(* From there to the ledger: the committed rows are refined step by step.   *)
(* Most transactions only shrink the rows (Shrinks), which the ledger calls *)
(* Drop; inside the tick's transaction the ledger stutters, and LInv says   *)
(* that what the transaction has made of the rows so far is a shrinkage of  *)
(* those it found, so that its commit is a Drop as well.                    *)
(***************************************************************************)
EXTENDS AsnBan, TLAPS

Good(s) == s \in Database /\ ConsistentRows(s)

\* t owns nothing but decisions that s owns.
OnlyLoses(s, t) ==
  \A e \in Pair : t.own[e] # None => s.own[e] # None /\ t.own[e].dec = s.own[e].dec

-----------------------------------------------------------------------------
\* A pair is the pair of its components.
LEMMA PairShape == \A e \in Pair : e[1] \in ASN /\ e[2] \in IP /\ e = <<e[1], e[2]>>
  BY DEF Pair

LEMMA ClaimShape ==
  /\ None \notin Claim
  /\ \A c \in Claim \cup {None} : c # None => c \in Claim /\ c.dec \in Decision
  BY AsnBanAssumption DEF Claim, AsnBanAssumption

\* Rows that only lose ownership stay consistent (every release, sync, disown).
LEMMA LosingKeepsRows ==
  ASSUME NEW s, NEW t, Good(s), t \in Database, OnlyLoses(s, t),
         OwnedIsCachedIn(t), PolicyRowsOnlyIn(t),
         \A e \in t.exc : e \in s.exc \/ t.own[e] = None
  PROVE  Good(t)
<1>1. OwnedMatchesIn(t)
  BY DEF Good, ConsistentRows, OwnedMatchesIn, OnlyLoses
<1>2. OneOwnerIn(t)
  <2>1. \A a \in ASN, i \in IP : <<a, i>> \in Pair
    BY DEF Pair
  <2> QED BY <2>1 DEF Good, ConsistentRows, OneOwnerIn, OnlyLoses
<1>3. ExceptedNotOwnedIn(t)
  <2>1. t.exc \subseteq Pair
    BY DEF Database
  <2> QED BY <2>1 DEF Good, ConsistentRows, ExceptedNotOwnedIn, OnlyLoses
<1> QED BY <1>1, <1>2, <1>3 DEF Good, ConsistentRows

\* sync_crowdsec_decisions, whatever list it applies.
LEMMA SyncedGood ==
  ASSUME NEW s, Good(s), NEW list \in SUBSET Decision
  PROVE  /\ Good(Synced(s, list))
         /\ Synced(s, list).cache = list
         /\ Synced(s, list).pol = s.pol
         /\ Synced(s, list).exc = s.exc
         /\ OnlyLoses(s, Synced(s, list))
<1> DEFINE t == Synced(s, list)
<1>1. s \in Database
  BY DEF Good
<1>2. /\ t.cache = list /\ t.pol = s.pol /\ t.exc = s.exc
      /\ t.own = [e \in Pair |->
           IF s.own[e] # None /\ s.own[e].dec \in list /\ Owns(e, s.own[e].dec)
           THEN s.own[e] ELSE None]
      /\ t \in Database
  BY <1>1 DEF Synced, Database
<1>3. OnlyLoses(s, t) /\ OwnedIsCachedIn(t)
  BY <1>2 DEF OnlyLoses, OwnedIsCachedIn
<1>4. PolicyRowsOnlyIn(t)
  BY <1>2 DEF PolicyRowsOnlyIn, Good, ConsistentRows
<1>5. Good(t)
  BY <1>2, <1>3, <1>4, LosingKeepsRows
<1> QED BY <1>2, <1>3, <1>5

\* A note of the ASN an address was last seen in changes no ownership.
LEMMA NotedGood ==
  ASSUME NEW s, Good(s), NEW a \in ASN, NEW i, NEW E
  PROVE  /\ Good(Noted(s, a, i, E))
         /\ Noted(s, a, i, E).pol = s.pol
         /\ Noted(s, a, i, E).exc = s.exc
         /\ Noted(s, a, i, E).cache = s.cache
         /\ OnlyLoses(s, Noted(s, a, i, E))
         /\ \A e \in Pair : Noted(s, a, i, E).own[e] = None <=> s.own[e] = None
<1> DEFINE t == Noted(s, a, i, E)
<1>1. s \in Database
  BY DEF Good
<1>2. /\ t.cache = s.cache /\ t.pol = s.pol /\ t.exc = s.exc
      /\ t.own = [e \in Pair |-> IF e \in E /\ e[2] = i /\ s.own[e] # None
                                 THEN [s.own[e] EXCEPT !.obs = a] ELSE s.own[e]]
  BY <1>1 DEF Noted, Database
<1>3. \A e \in Pair : s.own[e] # None =>
        /\ [s.own[e] EXCEPT !.obs = a] \in Claim
        /\ [s.own[e] EXCEPT !.obs = a].dec = s.own[e].dec
        /\ [s.own[e] EXCEPT !.obs = a] # None
  BY <1>1, ClaimShape DEF Database, Claim
<1>4. t \in Database
  BY <1>1, <1>2, <1>3 DEF Database, Noted
<1>5. OnlyLoses(s, t) /\ \A e \in Pair : t.own[e] = None <=> s.own[e] = None
  BY <1>2, <1>3 DEF OnlyLoses
<1>6. OwnedIsCachedIn(t) /\ PolicyRowsOnlyIn(t)
  BY <1>2, <1>5 DEF OnlyLoses, Good, ConsistentRows, OwnedIsCachedIn, PolicyRowsOnlyIn
<1>7. Good(t)
  BY <1>2, <1>4, <1>5, <1>6, LosingKeepsRows
<1> QED BY <1>2, <1>5, <1>7

\* A new association, for an active, not excepted pair whose address nobody owns.
LEMMA AssociatedGood ==
  ASSUME NEW s, Good(s), NEW e \in Pair, s.pol[e[1]] # "none", e \notin s.exc,
         \A f \in Pair : f[2] = e[2] => s.own[f] = None
  PROVE  Good(Associated(s, e))
<1> DEFINE candidates == {d \in s.cache : Owns(e, d)}
<1>1. s \in Database
  BY DEF Good
<1>2. CASE ~ \E d \in candidates : candidates = {d}
  BY <1>2 DEF Associated
<1>3. CASE \E d \in candidates : candidates = {d}
  <2>1. PICK d \in candidates : candidates = {d}
    BY <1>3
  <2> DEFINE c == [dec |-> d, obs |-> e[1], pending |-> FALSE]
             t == [s EXCEPT !.own[e] = c]
  <2>2. Associated(s, e) = t
    <3>1. (CHOOSE x \in candidates : TRUE) = d
      BY <2>1
    <3> QED BY <1>3, <3>1 DEF Associated
  <2>3. d \in s.cache /\ d \in Decision /\ Owns(e, d)
    BY <1>1 DEF Database
  <2>4. c \in Claim /\ c # None /\ c.dec = d
    <3>1. e[1] \in ASN
      BY PairShape
    <3>2. c \in Claim
      BY <2>3, <3>1 DEF Claim
    <3> QED BY <3>2, ClaimShape
  <2>5. /\ t \in Database /\ t.cache = s.cache /\ t.pol = s.pol /\ t.exc = s.exc
        /\ t.own = [s.own EXCEPT ![e] = c]
    BY <1>1, <2>4 DEF Database
  <2>6. t.own[e] = c /\ \A f \in Pair \ {e} : t.own[f] = s.own[f]
    BY <1>1, <2>5 DEF Database
  <2>7. OwnedMatchesIn(t) /\ OwnedIsCachedIn(t)
    BY <2>3, <2>4, <2>5, <2>6 DEF Good, ConsistentRows, OwnedMatchesIn, OwnedIsCachedIn
  <2>8. ExceptedNotOwnedIn(t) /\ PolicyRowsOnlyIn(t)
    BY <1>1, <2>5, <2>6 DEF Good, ConsistentRows, ExceptedNotOwnedIn, PolicyRowsOnlyIn, Database
  <2>9. OneOwnerIn(t)
    <3> SUFFICES ASSUME NEW a \in ASN, NEW b \in ASN, NEW i \in IP,
                        t.own[<<a, i>>] # None, t.own[<<b, i>>] # None
                 PROVE  a = b
      BY DEF OneOwnerIn
    <3>1. <<a, i>> \in Pair /\ <<b, i>> \in Pair
      BY DEF Pair
    <3>2. CASE i # e[2]
      <4>1. s.own[<<a, i>>] # None /\ s.own[<<b, i>>] # None
        BY <3>1, <3>2, <2>6, PairShape
      <4> QED BY <4>1 DEF Good, ConsistentRows, OneOwnerIn
    <3>3. CASE i = e[2]
      <4>1. s.own[<<a, i>>] = None /\ s.own[<<b, i>>] = None
        BY <3>1, <3>3
      <4>2. <<a, i>> = e /\ <<b, i>> = e
        BY <3>1, <4>1, <2>6
      <4> QED BY <4>2
    <3> QED BY <3>2, <3>3
  <2> QED BY <2>2, <2>5, <2>7, <2>8, <2>9 DEF Good, ConsistentRows
<1> QED BY <1>2, <1>3

LEMMA DisownedGood ==
  ASSUME NEW s, Good(s), NEW e \in Pair
  PROVE  /\ Good(Disowned(s, e))
         /\ Disowned(s, e).pol = s.pol
         /\ Disowned(s, e).exc = s.exc
         /\ Disowned(s, e).cache = s.cache
         /\ Disowned(s, e).own[e] = None
         /\ OnlyLoses(s, Disowned(s, e))
<1> DEFINE t == Disowned(s, e)
<1>1. s \in Database
  BY DEF Good
<1>2. /\ t \in Database /\ t.cache = s.cache /\ t.pol = s.pol /\ t.exc = s.exc
      /\ t.own = [s.own EXCEPT ![e] = None]
  BY <1>1 DEF Disowned, Database
<1>3. t.own[e] = None /\ \A f \in Pair \ {e} : t.own[f] = s.own[f]
  BY <1>1, <1>2 DEF Database
<1>4. OnlyLoses(s, t) /\ OwnedIsCachedIn(t) /\ PolicyRowsOnlyIn(t)
  BY <1>2, <1>3 DEF OnlyLoses, Good, ConsistentRows, OwnedIsCachedIn, PolicyRowsOnlyIn
<1>5. Good(t)
  BY <1>2, <1>4, LosingKeepsRows
<1> QED BY <1>2, <1>3, <1>4, <1>5

LEMMA AfterReleaseGood ==
  ASSUME NEW s, Good(s), NEW e \in Pair, s.own[e] # None, lapi \subseteq Decision,
         NEW reply, NEW synced \in BOOLEAN
  PROVE  /\ Good(AfterRelease(s, e, reply, synced))
         /\ AfterRelease(s, e, reply, synced).pol = s.pol
         /\ AfterRelease(s, e, reply, synced).exc = s.exc
         /\ OnlyLoses(s, AfterRelease(s, e, reply, synced))
<1>1. s \in Database
  BY DEF Good
<1>2. CASE reply = "ok" /\ synced
  <2> DEFINE list == lapi \ {s.own[e].dec}
             u == Synced(s, list)
  <2>1. /\ Good(u) /\ u.pol = s.pol /\ u.exc = s.exc /\ OnlyLoses(s, u)
    BY SyncedGood
  <2>2. /\ Good(Disowned(u, e)) /\ Disowned(u, e).pol = s.pol
        /\ Disowned(u, e).exc = s.exc /\ OnlyLoses(u, Disowned(u, e))
    BY <2>1, DisownedGood
  <2>3. OnlyLoses(s, Disowned(u, e))
    BY <2>1, <2>2 DEF OnlyLoses
  <2>4. AfterRelease(s, e, reply, synced) = Disowned(u, e)
    BY <1>2 DEF AfterRelease
  <2> QED BY <2>2, <2>3, <2>4
<1>3. CASE ~(reply = "ok" /\ synced)
  <2> DEFINE c == [s.own[e] EXCEPT !.pending = TRUE]
             t == [s EXCEPT !.own[e].pending = TRUE]
  <2>1. s.own[e] \in Claim
    BY <1>1, ClaimShape DEF Database
  <2>2. c \in Claim /\ c.dec = s.own[e].dec
    BY <2>1 DEF Claim
  <2>3. /\ t \in Database /\ t.cache = s.cache /\ t.pol = s.pol /\ t.exc = s.exc
        /\ t.own = [s.own EXCEPT ![e] = c]
    BY <1>1, <2>2 DEF Database
  <2>4. t.own[e] = c /\ \A f \in Pair \ {e} : t.own[f] = s.own[f]
    BY <1>1, <2>3 DEF Database
  <2>5. OnlyLoses(s, t)
    BY <2>2, <2>4 DEF OnlyLoses
  <2>6. OwnedIsCachedIn(t)
    BY <2>3, <2>5 DEF OnlyLoses, Good, ConsistentRows, OwnedIsCachedIn
  <2>7. PolicyRowsOnlyIn(t)
    BY <2>3, <2>4 DEF Good, ConsistentRows, PolicyRowsOnlyIn
  <2>8. Good(t)
    <3>1. \A f \in t.exc : f \in s.exc
      BY <2>3
    <3> QED BY <3>1, <2>3, <2>5, <2>6, <2>7, LosingKeepsRows
  <2>9. AfterRelease(s, e, reply, synced) = t
    BY <1>3 DEF AfterRelease
  <2> QED BY <2>3, <2>5, <2>8, <2>9
<1> QED BY <1>2, <1>3

\* A policy goes with its rows.
LEMMA DroppedGood ==
  ASSUME NEW s, Good(s), NEW a \in ASN
  PROVE  Good(Dropped(s, a)) /\ OnlyLoses(s, Dropped(s, a))
<1> DEFINE t == Dropped(s, a)
<1>1. s \in Database
  BY DEF Good
<1>2. /\ t.cache = s.cache /\ t.pol = [s.pol EXCEPT ![a] = "none"]
      /\ t.own = [e \in Pair |-> IF e[1] = a THEN None ELSE s.own[e]]
      /\ t.exc = {e \in s.exc : e[1] # a}
      /\ t \in Database
  BY <1>1 DEF Dropped, Database
<1>3. OnlyLoses(s, t)
  BY <1>2 DEF OnlyLoses
<1>4. OwnedIsCachedIn(t)
  BY <1>2, <1>3 DEF OnlyLoses, Good, ConsistentRows, OwnedIsCachedIn
<1>5. PolicyRowsOnlyIn(t)
  <2> SUFFICES ASSUME NEW e \in Pair, t.pol[e[1]] = "none"
               PROVE  t.own[e] = None /\ e \notin t.exc
    BY DEF PolicyRowsOnlyIn
  <2>1. e[1] # a => s.pol[e[1]] = "none"
    BY <1>1, <1>2, PairShape DEF Database
  <2> QED BY <1>2, <2>1 DEF Good, ConsistentRows, PolicyRowsOnlyIn
<1>6. Good(t)
  BY <1>2, <1>3, <1>4, <1>5, LosingKeepsRows
<1> QED BY <1>3, <1>6

LEMMA AfterRemovalGood ==
  ASSUME NEW s, Good(s), NEW a \in ASN, NEW r
  PROVE  Good(AfterRemoval(s, a, r)) /\ OnlyLoses(s, AfterRemoval(s, a, r))
<1> DEFINE t == [s EXCEPT !.own = [e \in Pair |->
                   IF e[1] = a /\ r[e[2]] = "ok" THEN None ELSE s.own[e]]]
<1>1. s \in Database
  BY DEF Good
<1>2. /\ t.cache = s.cache /\ t.pol = s.pol /\ t.exc = s.exc
      /\ t.own = [e \in Pair |-> IF e[1] = a /\ r[e[2]] = "ok" THEN None ELSE s.own[e]]
      /\ t \in Database
  BY <1>1 DEF Database
<1>3. OnlyLoses(s, t)
  BY <1>2 DEF OnlyLoses
<1>4. OwnedIsCachedIn(t) /\ PolicyRowsOnlyIn(t)
  BY <1>2, <1>3 DEF OnlyLoses, Good, ConsistentRows, OwnedIsCachedIn, PolicyRowsOnlyIn
<1>5. Good(t)
  BY <1>2, <1>3, <1>4, LosingKeepsRows
<1> QED BY <1>3, <1>5, DroppedGood DEF AfterRemoval

\* The unban of a decision an active policy owned.
LEMMA ExceptedGood ==
  ASSUME NEW s, Good(s), NEW u \in UnbanRequest
  PROVE  /\ Good(Excepted(s, u))
         /\ Excepted(s, u).pol = s.pol
         /\ OnlyLoses(s, Excepted(s, u))
<1> DEFINE e == <<u.asn, u.dec.ip>>
           w == Disowned(s, e)
           t == [w EXCEPT !.exc = s.exc \cup {e}]
<1>1. CASE ~(u.asn # None /\ s.pol[u.asn] = "active")
  BY <1>1 DEF Excepted, OnlyLoses
<1>2. CASE u.asn # None /\ s.pol[u.asn] = "active"
  <2>1. e \in Pair /\ u.asn \in ASN
    BY <1>2, AsnBanAssumption DEF UnbanRequest, Pair, AsnBanAssumption
  <2>2. /\ Good(w) /\ w.pol = s.pol /\ w.exc = s.exc /\ w.cache = s.cache
        /\ w.own[e] = None /\ OnlyLoses(s, w)
    BY <2>1, DisownedGood
  <2>3. w \in Database
    BY <2>2 DEF Good
  <2>4. /\ t \in Database /\ t.cache = w.cache /\ t.pol = w.pol /\ t.own = w.own
        /\ t.exc = s.exc \cup {e}
    BY <2>1, <2>2, <2>3 DEF Database
  <2>5. OnlyLoses(w, t) /\ OwnedIsCachedIn(t)
    BY <2>2, <2>4 DEF OnlyLoses, Good, ConsistentRows, OwnedIsCachedIn
  <2>6. PolicyRowsOnlyIn(t)
    <3> SUFFICES ASSUME NEW f \in Pair, t.pol[f[1]] = "none"
                 PROVE  t.own[f] = None /\ f \notin t.exc
      BY DEF PolicyRowsOnlyIn
    <3>1. e[1] = u.asn
      OBVIOUS
    <3>2. f # e
      BY <1>2, <2>2, <2>4, <3>1
    <3> QED BY <2>2, <2>4, <3>2 DEF Good, ConsistentRows, PolicyRowsOnlyIn
  <2>7. \A f \in t.exc : f \in w.exc \/ t.own[f] = None
    BY <2>2, <2>4
  <2>8. Good(t)
    BY <2>2, <2>4, <2>5, <2>6, <2>7, LosingKeepsRows
  <2>9. Excepted(s, u) = t
    BY <1>2 DEF Excepted
  <2> QED BY <2>2, <2>4, <2>8, <2>9 DEF OnlyLoses
<1> QED BY <1>1, <1>2

\* A policy is added or marked.
LEMMA StatusGood ==
  ASSUME NEW s, Good(s), NEW a \in ASN, NEW status \in {"active", "removing"}
  PROVE  /\ Good([s EXCEPT !.pol[a] = status])
         /\ [s EXCEPT !.pol[a] = status].own = s.own
         /\ [s EXCEPT !.pol[a] = status].exc = s.exc
         /\ [s EXCEPT !.pol[a] = status].cache = s.cache
         /\ [s EXCEPT !.pol[a] = status].pol = [s.pol EXCEPT ![a] = status]
<1> DEFINE t == [s EXCEPT !.pol[a] = status]
<1>1. s \in Database
  BY DEF Good
<1>2. /\ t \in Database /\ t.cache = s.cache /\ t.own = s.own /\ t.exc = s.exc
      /\ t.pol = [s.pol EXCEPT ![a] = status]
  BY <1>1 DEF Database
<1>3. OnlyLoses(s, t) /\ OwnedIsCachedIn(t)
  BY <1>2 DEF OnlyLoses, Good, ConsistentRows, OwnedIsCachedIn
<1>4. PolicyRowsOnlyIn(t)
  <2>1. \A e \in Pair : t.pol[e[1]] = "none" => s.pol[e[1]] = "none"
    BY <1>1, <1>2, PairShape DEF Database
  <2> QED BY <1>2, <2>1 DEF Good, ConsistentRows, PolicyRowsOnlyIn
<1>5. Good(t)
  BY <1>2, <1>3, <1>4, LosingKeepsRows
<1> QED BY <1>2, <1>5

LEMMA ReadmittedGood ==
  ASSUME NEW s, Good(s), NEW e
  PROVE  Good([s EXCEPT !.exc = s.exc \ {e}])
<1> DEFINE t == [s EXCEPT !.exc = s.exc \ {e}]
<1>1. s \in Database
  BY DEF Good
<1>2. /\ t \in Database /\ t.cache = s.cache /\ t.own = s.own /\ t.pol = s.pol
      /\ t.exc = s.exc \ {e}
  BY <1>1 DEF Database
<1>3. OnlyLoses(s, t) /\ OwnedIsCachedIn(t) /\ PolicyRowsOnlyIn(t)
  BY <1>2 DEF OnlyLoses, Good, ConsistentRows, OwnedIsCachedIn, PolicyRowsOnlyIn
<1>4. \A f \in t.exc : f \in s.exc
  BY <1>2
<1> QED BY <1>2, <1>3, <1>4, LosingKeepsRows

-----------------------------------------------------------------------------
\* What an observation stores and posts.
LEMMA EnforceGood ==
  ASSUME NEW s, Good(s), Good(db), lapi \subseteq Decision,
         NEW a \in ASN, NEW i \in IP, s.pol[a] = "active", Enforce(s, a, i)
  PROVE  lapi' \subseteq Decision /\ Good(db')
<1> DEFINE e    == <<a, i>>
           seen == Noted(s, a, i, Pair)
           idle == e \in s.exc \/ BannedInCache(s, i)
<1>1. /\ Good(seen) /\ seen.pol = s.pol /\ seen.exc = s.exc /\ seen.cache = s.cache
      /\ \A f \in Pair : seen.own[f] = None <=> s.own[f] = None
  BY NotedGood
<1>2. e \in Pair /\ e[1] = a /\ e[2] = i
  BY DEF Pair
<1>3. CASE Store(seen) /\ UNCHANGED lapi
  BY <1>1, <1>3 DEF Store
<1>4. ASSUME ~idle, NEW d \in Decision, lapi' = lapi \cup {d},
             \/ Store(Associated(Synced(seen, lapi \cup {d}), e))
             \/ MayFail /\ Store(seen)
      PROVE  lapi' \subseteq Decision /\ Good(db')
  <2> DEFINE u == Synced(seen, lapi \cup {d})
  <2>1. Good(u) /\ u.pol = s.pol /\ u.exc = s.exc /\ OnlyLoses(seen, u)
    BY <1>1, SyncedGood
  <2>2. \A f \in Pair : f[2] = i => s.own[f] = None
    <3> SUFFICES ASSUME NEW f \in Pair, f[2] = i, s.own[f] # None PROVE FALSE
      OBVIOUS
    <3>1. s.own[f].dec \in s.cache /\ s.own[f].dec.ip = i
      BY DEF Good, ConsistentRows, OwnedIsCachedIn, OwnedMatchesIn, Owns
    <3> QED BY <3>1, <1>4 DEF BannedInCache
  <2>3. \A f \in Pair : f[2] = e[2] => u.own[f] = None
    BY <1>1, <1>2, <2>1, <2>2 DEF OnlyLoses
  <2>4. u.pol[e[1]] # "none" /\ e \notin u.exc
    BY <1>2, <1>4, <2>1
  <2>5. Good(Associated(u, e))
    BY <1>2, <2>1, <2>3, <2>4, AssociatedGood
  <2> QED BY <1>1, <1>4, <2>5 DEF Store
<1> QED BY <1>3, <1>4 DEF Enforce

LEMMA ReclassifyGood ==
  ASSUME NEW s, Good(s), Good(db), lapi \subseteq Decision,
         NEW a \in ASN, NEW i \in IP, Reclassify(s, a, i)
  PROVE  lapi' \subseteq Decision /\ Good(db')
<1> DEFINE others == {e \in Pair : e[1] # a}
           noted  == Noted(s, a, i, others)
           owners == {e \in others : e[2] = i /\ s.own[e] # None /\ ~s.own[e].pending}
<1>1. Good(noted) /\ \A e \in Pair : noted.own[e] = None <=> s.own[e] = None
  BY NotedGood
<1>2. CASE Store(noted) /\ UNCHANGED lapi
  BY <1>1, <1>2 DEF Store
<1>3. ASSUME NEW e \in owners, NEW reply, NEW synced \in SyncReplies,
             lapi' = Without(s.own[e].dec, reply),
             Store(AfterRelease(noted, e, reply, synced))
      PROVE  lapi' \subseteq Decision /\ Good(db')
  <2>1. e \in Pair /\ noted.own[e] # None /\ synced \in BOOLEAN
    BY <1>1, <1>3 DEF SyncReplies
  <2>2. Good(AfterRelease(noted, e, reply, synced))
    BY <1>1, <2>1, AfterReleaseGood
  <2> QED BY <1>3, <2>2 DEF Store, Without
<1> QED BY <1>2, <1>3 DEF Reclassify

-----------------------------------------------------------------------------
\* What every step has and has to establish.
LEMMA IInvFacts ==
  ASSUME IInv
  PROVE  /\ lapi \subseteq Decision
         /\ Good(db)
         /\ settings \subseteq {"real", "crowdsec", "geoip"}
         /\ snap \in [Syncer -> (SUBSET Decision) \cup {None}]
         /\ target \in ASN \cup {None}
         /\ tx \in Transaction \cup {NoTx}
         /\ tx # NoTx => Good(tx.old)
         /\ unban \in UnbanRequest \cup {None}
  BY DEF IInv, TypeOK, Good, Transaction

LEMMA Assemble ==
  ASSUME lapi' \subseteq Decision, Good(db'),
         settings' \subseteq {"real", "crowdsec", "geoip"},
         snap' \in [Syncer -> (SUBSET Decision) \cup {None}],
         target' \in ASN \cup {None},
         tx' \in Transaction \cup {NoTx},
         tx' # NoTx => Good(tx'.old),
         unban' \in UnbanRequest \cup {None}
  PROVE  IInv'
  BY DEF IInv, TypeOK, Good, Transaction

LEMMA ForgetKeepsRequest ==
  ASSUME unban \in UnbanRequest \cup {None}, ForgetDroppedPolicy
  PROVE  unban' \in UnbanRequest \cup {None}
<1>1. \A u \in UnbanRequest : [u EXCEPT !.asn = None] \in UnbanRequest
  BY DEF UnbanRequest
<1> QED BY <1>1 DEF ForgetDroppedPolicy

\* One step per action.
LEMMA EnvironmentStep == IInv /\ Environment => IInv'
<1> SUFFICES ASSUME IInv, Environment PROVE IInv'
  OBVIOUS
<1> USE IInvFacts, Assemble
<1>1. ASSUME NEW d \in Decision, Expire(d) PROVE IInv'
  BY <1>1 DEF Expire
<1>2. ASSUME NEW d \in Decision, ForeignBan(d) PROVE IInv'
  BY <1>2 DEF ForeignBan
<1> QED BY <1>1, <1>2 DEF Environment

LEMMA ObserveStep == ASSUME IInv, NEW a \in ASN, NEW i \in IP, Observe(a, i) PROVE IInv'
<1>1. CASE db.pol[a] = "active"
  <2>1. lapi' \subseteq Decision /\ Good(db')
    BY <1>1, IInvFacts, EnforceGood DEF Observe
  <2> QED BY <2>1, IInvFacts, Assemble DEF Observe
<1>2. CASE db.pol[a] # "active"
  <2>1. lapi' \subseteq Decision /\ Good(db')
    BY <1>2, IInvFacts, ReclassifyGood DEF Observe
  <2> QED BY <2>1, IInvFacts, Assemble DEF Observe
<1> QED BY <1>1, <1>2

LEMMA EnableStep == ASSUME IInv, NEW a \in ASN, NEW i \in IP, Enable(a, i) PROVE IInv'
<1> DEFINE s == [db EXCEPT !.pol[a] = "active"]
<1>1. Good(s) /\ s.pol[a] = "active"
  BY IInvFacts, StatusGood DEF Good, Database
<1>2. lapi' \subseteq Decision /\ Good(db')
  BY <1>1, IInvFacts, EnforceGood DEF Enable, MayEnable
<1> QED BY <1>2, IInvFacts, Assemble DEF Enable, MayEnable

LEMMA DisableStep == ASSUME IInv, NEW a \in ASN, Disable(a) PROVE IInv'
<1> DEFINE marked == [db EXCEPT !.pol[a] = "removing"]
           synced == Synced(marked, lapi)
<1>1. Good(marked)
  BY IInvFacts, StatusGood
<1>2. Good(synced)
  BY <1>1, IInvFacts, SyncedGood
<1>3. CASE (Store(marked) \/ Store(synced)) /\ UNCHANGED lapi
  <2>1. Good(db') /\ lapi' \subseteq Decision
    BY <1>1, <1>2, <1>3, IInvFacts DEF Store
  <2> QED BY <2>1, IInvFacts, Assemble, ForgetKeepsRequest DEF Disable
<1>4. ASSUME NEW r, lapi' = lapi \ Deleted(synced, a, r), Store(AfterRemoval(synced, a, r))
      PROVE  IInv'
  <2>1. Good(db') /\ lapi' \subseteq Decision
    BY <1>2, <1>4, IInvFacts, AfterRemovalGood DEF Store
  <2> QED BY <2>1, IInvFacts, Assemble, ForgetKeepsRequest DEF Disable
<1> QED BY <1>3, <1>4 DEF Disable

LEMMA ManualBanStep == ASSUME IInv, NEW d \in Decision, ManualBan(d) PROVE IInv'
<1>1. Good(Synced(db, lapi \cup {d}))
  BY IInvFacts, SyncedGood
<1>2. Good(db') /\ lapi' \subseteq Decision
  BY <1>1, IInvFacts DEF ManualBan, Store
<1> QED BY <1>2, IInvFacts, Assemble DEF ManualBan

LEMMA UnbanValidateStep == ASSUME IInv, NEW d \in Decision, UnbanValidate(d) PROVE IInv'
<1> DEFINE owners == {a \in ASN : /\ db.pol[a] = "active"
                                   /\ db.own[<<a, d.ip>>] # None
                                   /\ db.own[<<a, d.ip>>].dec = d}
<1>1. (IF owners = {} THEN None ELSE CHOOSE a \in owners : TRUE) \in ASN \cup {None}
  OBVIOUS
<1>2. unban' \in UnbanRequest
  BY <1>1 DEF UnbanValidate, UnbanRequest
<1> QED BY <1>2, IInvFacts, Assemble DEF UnbanValidate

LEMMA UnbanExecuteStep == ASSUME IInv, UnbanExecute PROVE IInv'
<1>1. unban \in UnbanRequest
  BY IInvFacts DEF UnbanExecute
<1> DEFINE s == Synced(db, lapi \ {unban.dec})
<1>2. Good(Excepted(s, unban))
  <2>1. Good(s)
    BY IInvFacts, SyncedGood
  <2> QED BY <1>1, <2>1, ExceptedGood
<1>3. Good(db') /\ lapi' \subseteq Decision
  BY <1>2, IInvFacts DEF UnbanExecute, Store, Without
<1> QED BY <1>3, IInvFacts, Assemble DEF UnbanExecute

LEMMA OperatorStep == IInv /\ Operator => IInv'
<1> SUFFICES ASSUME IInv, Operator PROVE IInv'
  OBVIOUS
<1>1. ASSUME NEW e \in Pair, RemoveException(e) PROVE IInv'
  <2>1. Good(db')
    BY <1>1, IInvFacts, ReadmittedGood DEF RemoveException, Store
  <2> QED BY <1>1, <2>1, IInvFacts, Assemble DEF RemoveException
<1>2. ASSUME NEW flag \in Toggles, SaveSettings(flag) PROVE IInv'
  <2>1. settings' \subseteq {"real", "crowdsec", "geoip"}
    BY <1>2, IInvFacts, AsnBanAssumption DEF SaveSettings, AsnBanAssumption
  <2> QED BY <1>2, <2>1, IInvFacts, Assemble DEF SaveSettings
<1> QED
  BY <1>1, <1>2, DisableStep, EnableStep, ManualBanStep, UnbanValidateStep, UnbanExecuteStep
  DEF Operator

LEMMA RefresherStep ==
  ASSUME IInv, NEW r \in Refresher, RefreshFetch(r) \/ RefreshApply(r)
  PROVE  IInv'
<1>1. CASE RefreshFetch(r)
  <2>1. snap' \in [Syncer -> (SUBSET Decision) \cup {None}]
    BY <1>1, IInvFacts DEF RefreshFetch
  <2> QED BY <1>1, <2>1, IInvFacts, Assemble DEF RefreshFetch
<1>2. CASE RefreshApply(r)
  <2>1. snap[r] \in SUBSET Decision
    BY <1>2, IInvFacts DEF RefreshApply, Syncer
  <2>2. Good(db')
    BY <1>2, <2>1, IInvFacts, SyncedGood DEF RefreshApply, Store
  <2>3. snap' \in [Syncer -> (SUBSET Decision) \cup {None}]
    BY <1>2, IInvFacts DEF RefreshApply
  <2> QED BY <1>2, <2>2, <2>3, IInvFacts, Assemble DEF RefreshApply
<1> QED BY <1>1, <1>2

LEMMA TickFetchStep == ASSUME IInv, TickFetch PROVE IInv'
<1>1. snap' \in [Syncer -> (SUBSET Decision) \cup {None}]
  BY IInvFacts DEF TickFetch
<1> QED BY <1>1, IInvFacts, Assemble DEF TickFetch

\* The list the tick fetched, and its slot when it has used it.
LEMMA TickSnap ==
  ASSUME IInv, snap[Tick] # None
  PROVE  /\ snap[Tick] \in SUBSET Decision
         /\ [snap EXCEPT ![Tick] = None] \in [Syncer -> (SUBSET Decision) \cup {None}]
  BY IInvFacts DEF Syncer

LEMMA BeginRecord ==
  ASSUME NEW s, IInv, NEW finished \in SUBSET ASN, Begin(s, finished)
  PROVE  tx' \in Transaction /\ tx'.old = db
<1>1. db \in Database /\ Pending(s) \subseteq Pair
  BY IInvFacts DEF Good, Pending
<1> QED BY <1>1 DEF Begin, Transaction

LEMMA TickSyncStep == ASSUME IInv, TickSync PROVE IInv'
<1> DEFINE s == Synced(db, snap[Tick])
<1>1. Good(s)
  BY IInvFacts, TickSnap, SyncedGood DEF TickSync
<1>2. Good(db')
  BY <1>1, IInvFacts DEF TickSync, Store
<1>3. tx' \in Transaction \cup {NoTx} /\ (tx' # NoTx => Good(tx'.old))
  BY IInvFacts, BeginRecord DEF TickSync
<1> QED BY <1>2, <1>3, IInvFacts, TickSnap, Assemble DEF TickSync

LEMMA TickFreshStep == ASSUME IInv, TickFresh PROVE IInv'
<1>1. CASE Pending(db) # {} /\ Begin(db, {}) /\ UNCHANGED <<snap, target>>
  <2>1. tx' \in Transaction /\ tx'.old = db
    BY <1>1, BeginRecord
  <2> QED BY <1>1, <2>1, IInvFacts, Assemble DEF TickFresh
<1>2. CASE target' \in Removing(db) /\ snap' = [snap EXCEPT ![Tick] = lapi] /\ UNCHANGED tx
  <2>1. snap' \in [Syncer -> (SUBSET Decision) \cup {None}] /\ target' \in ASN
    BY <1>2, IInvFacts DEF Removing
  <2> QED BY <1>2, <2>1, IInvFacts, Assemble DEF TickFresh
<1> QED BY <1>1, <1>2 DEF TickFresh

LEMMA TickRemoveFetchedStep == ASSUME IInv, TickRemoveFetched PROVE IInv'
<1> DEFINE s == Synced(db, snap[Tick])
<1>1. snap[Tick] # None /\ target \in ASN
  BY IInvFacts DEF TickRemoveFetched
<1>2. Good(s)
  BY <1>1, IInvFacts, TickSnap, SyncedGood
<1>3. \A r : Good(AfterRemoval(s, target, r))
  BY <1>1, <1>2, AfterRemovalGood
<1>4. Good(db') /\ lapi' \subseteq Decision
  BY <1>2, <1>3, IInvFacts DEF TickRemoveFetched
<1>5. tx' \in Transaction /\ tx'.old = db
  BY <1>1, IInvFacts DEF TickRemoveFetched, Transaction, Good
<1> QED BY <1>1, <1>4, <1>5, IInvFacts, TickSnap, Assemble DEF TickRemoveFetched

LEMMA TickReleaseStep == ASSUME IInv, NEW e \in Pair, TickRelease(e) PROVE IInv'
<1>1. tx \in Transaction /\ Good(tx.old)
  BY IInvFacts DEF TickRelease
<1>2. tx' \in Transaction /\ tx'.old = tx.old
  BY <1>1 DEF TickRelease, Transaction
<1>3. Good(db') /\ lapi' \subseteq Decision
  <2>1. CASE db.own[e] = None
    BY <2>1, IInvFacts DEF TickRelease
  <2>2. ASSUME NEW reply, NEW synced \in SyncReplies, db.own[e] # None,
               lapi' = Without(db.own[e].dec, reply),
               db' = AfterRelease(db, e, reply, synced)
        PROVE  Good(db') /\ lapi' \subseteq Decision
    <3>1. synced \in BOOLEAN
      BY DEF SyncReplies
    <3> QED BY <2>2, <3>1, IInvFacts, AfterReleaseGood DEF Without
  <2> QED BY <2>1, <2>2 DEF TickRelease
<1> QED BY <1>1, <1>2, <1>3, IInvFacts, Assemble DEF TickRelease

LEMMA TickRemoveStep == ASSUME IInv, NEW a \in ASN, TickRemove(a) PROVE IInv'
<1> DEFINE s == Synced(db, lapi)
<1>1. tx \in Transaction /\ Good(tx.old)
  BY IInvFacts DEF TickRemove
<1>2. tx' \in Transaction /\ tx'.old = tx.old
  BY <1>1 DEF TickRemove, Transaction
<1>3. Good(s)
  BY IInvFacts, SyncedGood
<1>4. \A r : Good(AfterRemoval(s, a, r))
  BY <1>3, AfterRemovalGood
<1>5. Good(db') /\ lapi' \subseteq Decision
  BY <1>3, <1>4, IInvFacts DEF TickRemove
<1> QED BY <1>1, <1>2, <1>5, IInvFacts, Assemble DEF TickRemove

LEMMA TickCommitStep == ASSUME IInv, TickCommit PROVE IInv'
<1>1. Good(db')
  BY IInvFacts DEF TickCommit
<1> QED BY <1>1, IInvFacts, Assemble, ForgetKeepsRequest DEF TickCommit

LEMMA RestartStep == ASSUME IInv, Restart PROVE IInv'
<1>1. Good(db')
  BY IInvFacts DEF Restart
<1> QED BY <1>1, IInvFacts, Assemble DEF Restart

LEMMA StutterStep == ASSUME IInv, UNCHANGED vars PROVE IInv'
  BY IInvFacts, Assemble DEF vars

LEMMA IInvInit == Init => IInv
<1> SUFFICES ASSUME Init PROVE IInv
  OBVIOUS
<1>1. TypeOK
  BY DEF Init, TypeOK, Database
<1>2. ConsistentRows(db)
  BY DEF Init, ConsistentRows, OwnedMatchesIn, OwnedIsCachedIn, OneOwnerIn,
         ExceptedNotOwnedIn, PolicyRowsOnlyIn, Pair
<1> QED BY <1>1, <1>2 DEF Init, IInv

LEMMA IInvNext == IInv /\ [Next]_vars => IInv'
<1> SUFFICES ASSUME IInv, [Next]_vars PROVE IInv'
  OBVIOUS
<1>1. CASE PluginTick
  BY <1>1, TickFetchStep, TickSyncStep, TickFreshStep, TickRemoveFetchedStep,
     TickReleaseStep, TickRemoveStep, TickCommitStep DEF PluginTick
<1>2. CASE Next /\ ~PluginTick
  BY <1>2, EnvironmentStep, ObserveStep, OperatorStep, RefresherStep, RestartStep DEF Next
<1> QED BY <1>1, <1>2, StutterStep

-----------------------------------------------------------------------------
\* The rows, those a rolled back tick returns to included, are well typed and
\* consistent in every reachable state.
THEOREM RowsConsistent == Spec => []IInv
  BY IInvInit, IInvNext, PTL DEF Spec

\* What is owned is cached and matches its policy (reconcile_enforcements_after_sync).
THEOREM OwnedDecisionsAreCached == Spec => []OwnedIsCached
<1>1. IInv => OwnedIsCached
  BY DEF IInv, ConsistentRows, OwnedIsCached
<1> QED BY <1>1, RowsConsistent, PTL

\* No address is held by two policies (_release_reclassified_enforcements).
THEOREM AddressesHaveOneOwner == Spec => []OneOwnerPerAddress
<1>1. IInv => OneOwnerPerAddress
  BY DEF IInv, ConsistentRows, OneOwnerPerAddress
<1> QED BY <1>1, RowsConsistent, PTL

\* An excepted pair is not held by its policy and no row outlives its policy
\* (_add_exception_after_manual_unban, the cascades of models/core.py).
THEOREM ExceptionsHold == Spec => []ExceptedNotOwned
<1>1. IInv => ExceptedNotOwned
  BY DEF IInv, ConsistentRows, ExceptedNotOwned
<1> QED BY <1>1, RowsConsistent, PTL

-----------------------------------------------------------------------------
\* What syncs, releases, removals and crashes make of the rows s: ownership is
\* lost, and a policy that goes takes its exceptions with it.
Shrinks(s, t) ==
  /\ OnlyLoses(s, t)
  /\ \A a \in ASN : t.pol[a] = s.pol[a] \/ (s.pol[a] # "none" /\ t.pol[a] = "none")
  /\ t.exc = {e \in s.exc : t.pol[e[1]] # "none"}

\* A tick that is rolled back gives nothing away that it had taken.
LInv == tx # NoTx => Shrinks(tx.old, db)

LEMMA ShrinksOf ==
  ASSUME NEW s, NEW t, Good(s), OnlyLoses(s, t), t.pol = s.pol, t.exc = s.exc
  PROVE  Shrinks(s, t)
<1>1. s.exc \subseteq Pair
  BY DEF Good, Database
<1>2. \A e \in s.exc : s.pol[e[1]] # "none"
  BY <1>1 DEF Good, ConsistentRows, PolicyRowsOnlyIn
<1> QED BY <1>2 DEF Shrinks

LEMMA ShrinksReflexive == \A s : Good(s) => Shrinks(s, s)
<1> SUFFICES ASSUME NEW s, Good(s) PROVE Shrinks(s, s)
  OBVIOUS
<1>1. OnlyLoses(s, s)
  BY DEF OnlyLoses
<1> QED BY <1>1, ShrinksOf

LEMMA ShrinksTransitive ==
  ASSUME NEW s, NEW t, NEW u, Good(s), Shrinks(s, t), Shrinks(t, u)
  PROVE  Shrinks(s, u)
<1>1. OnlyLoses(s, u)
  BY DEF Shrinks, OnlyLoses
<1>2. \A a \in ASN : u.pol[a] = s.pol[a] \/ (s.pol[a] # "none" /\ u.pol[a] = "none")
  BY DEF Shrinks
<1>3. \A e \in s.exc : e[1] \in ASN
  BY PairShape DEF Good, Database
<1>4. u.exc = {e \in s.exc : u.pol[e[1]] # "none"}
  <2>1. \A e \in s.exc : u.pol[e[1]] # "none" => t.pol[e[1]] # "none"
    BY <1>3 DEF Shrinks
  <2> QED BY <2>1 DEF Shrinks
<1> QED BY <1>1, <1>2, <1>4 DEF Shrinks

LEMMA SyncedShrinks ==
  ASSUME NEW s, Good(s), NEW list \in SUBSET Decision
  PROVE  Shrinks(s, Synced(s, list))
BY SyncedGood, ShrinksOf

LEMMA DroppedShrinks ==
  ASSUME NEW s, Good(s), NEW a \in ASN, s.pol[a] # "none"
  PROVE  Shrinks(s, Dropped(s, a))
<1> DEFINE t == Dropped(s, a)
<1>1. s \in Database
  BY DEF Good
<1>2. t.pol = [s.pol EXCEPT ![a] = "none"] /\ t.exc = {e \in s.exc : e[1] # a}
  BY <1>1 DEF Dropped, Database
<1>3. \A b \in ASN : t.pol[b] = IF b = a THEN "none" ELSE s.pol[b]
  BY <1>1, <1>2 DEF Database
<1>4. \A e \in s.exc : e[1] \in ASN /\ s.pol[e[1]] # "none"
  BY <1>1, PairShape DEF Database, Good, ConsistentRows, PolicyRowsOnlyIn
<1>5. t.exc = {e \in s.exc : t.pol[e[1]] # "none"}
  BY <1>2, <1>3, <1>4
<1> QED BY <1>3, <1>5, DroppedGood DEF Shrinks

\* A removal that a failed deletion holds back keeps policy and exceptions.
LEMMA HeldBack ==
  ASSUME NEW s, Good(s), NEW a \in ASN, NEW r, ~ \A i \in IP : r[i] = "ok"
  PROVE  AfterRemoval(s, a, r).pol = s.pol /\ AfterRemoval(s, a, r).exc = s.exc
BY DEF AfterRemoval, Good, Database

LEMMA AfterRemovalShrinks ==
  ASSUME NEW s, Good(s), NEW a \in ASN, s.pol[a] # "none", NEW r
  PROVE  Shrinks(s, AfterRemoval(s, a, r))
<1>1. CASE \A i \in IP : r[i] = "ok"
  BY <1>1, DroppedShrinks DEF AfterRemoval
<1>2. CASE ~ \A i \in IP : r[i] = "ok"
  BY <1>2, HeldBack, AfterRemovalGood, ShrinksOf
<1> QED BY <1>1, <1>2

LEMMA AfterReleaseShrinks ==
  ASSUME NEW s, Good(s), NEW e \in Pair, s.own[e] # None, lapi \subseteq Decision,
         NEW reply, NEW synced \in BOOLEAN
  PROVE  Shrinks(s, AfterRelease(s, e, reply, synced))
BY AfterReleaseGood, ShrinksOf

-----------------------------------------------------------------------------
(* From rows to steps of the ledger.                                         *)

LEMMA LedgerPair == Ledger!Pair = Pair
  BY DEF Ledger!Pair, Pair

\* Rows whose ownership shrinks outside E keep the ledger's OnlyLosses(E).
LEMMA LossesAreLosses ==
  ASSUME NEW s, NEW t, Good(s), Good(t), Committed = s, Committed' = t, NEW E,
         \A e \in Pair \ E : t.own[e] # None => s.own[e] # None /\ t.own[e].dec = s.own[e].dec
  PROVE  Ledger!OnlyLosses(E)
<1>1. s.own \in [Pair -> Claim \cup {None}] /\ t.own \in [Pair -> Claim \cup {None}]
  BY DEF Good, Database
<1>2. \A e \in Pair : t.own[e] # None => t.own[e].dec \in Decision
  BY <1>1, ClaimShape
<1> QED BY <1>1, <1>2, LedgerPair DEF Ledger!OnlyLosses

LEMMA ShrinkIsDrop ==
  ASSUME NEW s, NEW t, Good(s), Good(t), Committed = s, Committed' = t, Shrinks(s, t)
  PROVE  Ledger!Next
<1> DEFINE gone == {a \in ASN : s.pol[a] # "none" /\ t.pol[a] = "none"}
<1>1. s \in Database /\ t \in Database
  BY DEF Good
<1>2. Ledger!OnlyLosses({})
  BY LossesAreLosses DEF Shrinks, OnlyLoses
<1>3. t.pol = [a \in ASN |-> IF a \in gone THEN "none" ELSE s.pol[a]]
  BY <1>1 DEF Shrinks, Database
<1>4. t.exc = {e \in s.exc : e[1] \notin gone}
  <2>1. \A e \in s.exc : e[1] \in ASN /\ s.pol[e[1]] # "none"
    BY <1>1, PairShape DEF Database, Good, ConsistentRows, PolicyRowsOnlyIn
  <2> QED BY <2>1 DEF Shrinks
<1>5. \A e \in Pair : e[1] \in gone => t.own[e] = None
  BY DEF Good, ConsistentRows, PolicyRowsOnlyIn
<1>6. Ledger!Drop(gone)
  BY <1>2, <1>3, <1>4, <1>5, LedgerPair DEF Ledger!Drop
<1>7. gone \in SUBSET ASN
  OBVIOUS
<1> QED BY <1>6, <1>7 DEF Ledger!Next

\* A policy is told to go.
LEMMA MarkIsCondemn ==
  ASSUME NEW s, NEW t, Good(s), Good(t), Committed = s, Committed' = t,
         NEW a \in ASN, s.pol[a] # "none", OnlyLoses(s, t),
         t.pol = [s.pol EXCEPT ![a] = "removing"], t.exc = s.exc
  PROVE  Ledger!Next
<1>1. Ledger!OnlyLosses({})
  BY LossesAreLosses DEF OnlyLoses
<1>2. Ledger!Condemn(a)
  BY <1>1 DEF Ledger!Condemn
<1> QED BY <1>2 DEF Ledger!Next

\* A system is blocked, nothing is banned.
LEMMA NewIsBlock ==
  ASSUME NEW s, NEW t, Good(s), Good(t), Committed = s, Committed' = t,
         NEW a \in ASN, s.pol[a] = "none", OnlyLoses(s, t),
         t.pol = [s.pol EXCEPT ![a] = "active"], t.exc = s.exc
  PROVE  Ledger!Next
<1>1. Ledger!OnlyLosses({})
  BY LossesAreLosses DEF OnlyLoses
<1>2. Ledger!Block(a)
  BY <1>1 DEF Ledger!Block
<1> QED BY <1>2 DEF Ledger!Next

\* A pair is banned, in a system that was or is now blocked.
LEMMA ClaimIsBan ==
  ASSUME NEW s, NEW t, Good(s), Good(t), Committed = s, Committed' = t,
         NEW e \in Pair, s.pol[e[1]] # "removing", t.pol[e[1]] = "active",
         t.pol \in {s.pol, [s.pol EXCEPT ![e[1]] = "active"]}, t.exc = s.exc,
         e \notin s.exc, s.own[e] = None, t.own[e] # None,
         \A f \in Pair \ {e} : t.own[f] # None => s.own[f] # None /\ t.own[f].dec = s.own[f].dec
  PROVE  Ledger!Next
<1>1. Ledger!OnlyLosses({e})
  BY LossesAreLosses
<1>2. t.own[e].dec \in Decision
  BY ClaimShape DEF Good, Database
<1>3. \A a \in ASN \ {e[1]} : t.own[<<a, e[2]>>] = None
  BY PairShape DEF Good, ConsistentRows, OneOwnerIn
<1>4. \A a \in ASN : <<a, e[2]>> \in Pair
  BY PairShape DEF Pair
<1>5. Ledger!Ban(e, t.own[e].dec)
  BY <1>1, <1>3, <1>4, LedgerPair DEF Ledger!Ban
<1> QED BY <1>2, <1>5, LedgerPair DEF Ledger!Next

LEMMA UnbanIsExcept ==
  ASSUME NEW s, NEW t, Good(s), Good(t), Committed = s, Committed' = t,
         NEW e \in Pair, s.pol[e[1]] = "active", t.pol = s.pol, OnlyLoses(s, t),
         t.exc = s.exc \cup {e}, t.own[e] = None
  PROVE  Ledger!Next
<1>1. Ledger!OnlyLosses({})
  BY LossesAreLosses DEF OnlyLoses
<1>2. Ledger!Except(e)
  BY <1>1, LedgerPair DEF Ledger!Except
<1> QED BY <1>2, LedgerPair DEF Ledger!Next

LEMMA RemovalIsReadmit ==
  ASSUME NEW s, NEW t, Good(s), Good(t), Committed = s, Committed' = t,
         NEW e \in Pair, e \in s.exc, t.pol = s.pol, t.own = s.own, t.exc = s.exc \ {e}
  PROVE  Ledger!Next
<1>1. Ledger!Readmit(e)
  BY LedgerPair DEF Ledger!Readmit
<1> QED BY <1>1, LedgerPair DEF Ledger!Next

-----------------------------------------------------------------------------
(* What each action makes of the rows.                                       *)

\* A transaction that stores rows s, or loses its writes.
LEMMA StoreIs ==
  ASSUME NEW s, Store(s)
  PROVE  db' = s \/ db' = db
BY DEF Store

\* An observation in a blocked system: the rows lose ownership, but for the
\* association of one pair that is not excepted and whose address nobody holds.
LEMMA EnforceStep ==
  ASSUME NEW s, Good(s), lapi \subseteq Decision,
         NEW a \in ASN, NEW i \in IP, s.pol[a] = "active", Enforce(s, a, i)
  PROVE  \/ db' = db
         \/ /\ Good(db')
            /\ db'.pol = s.pol
            /\ db'.exc = s.exc
            /\ \/ OnlyLoses(s, db')
               \/ /\ <<a, i>> \notin s.exc
                  /\ s.own[<<a, i>>] = None
                  /\ db'.own[<<a, i>>] # None
                  /\ \A f \in Pair \ {<<a, i>>} :
                       db'.own[f] # None => s.own[f] # None /\ db'.own[f].dec = s.own[f].dec
<1> DEFINE e    == <<a, i>>
           seen == Noted(s, a, i, Pair)
           idle == e \in s.exc \/ BannedInCache(s, i)
<1>1. /\ Good(seen) /\ seen.pol = s.pol /\ seen.exc = s.exc /\ OnlyLoses(s, seen)
      /\ \A f \in Pair : seen.own[f] = None <=> s.own[f] = None
  BY NotedGood
<1>2. e \in Pair /\ e[1] = a /\ e[2] = i
  BY DEF Pair
<1>3. CASE Store(seen)
  BY <1>1, <1>3, StoreIs
<1>4. ASSUME ~idle, NEW d \in Decision,
             Store(Associated(Synced(seen, lapi \cup {d}), e)), db' # db
      PROVE  /\ Good(db') /\ db'.pol = s.pol /\ db'.exc = s.exc
             /\ \/ OnlyLoses(s, db')
                \/ /\ e \notin s.exc /\ s.own[e] = None /\ db'.own[e] # None
                   /\ \A f \in Pair \ {e} :
                        db'.own[f] # None => s.own[f] # None /\ db'.own[f].dec = s.own[f].dec
  <2> DEFINE u == Synced(seen, lapi \cup {d})
             t == Associated(u, e)
  <2>1. Good(u) /\ u.pol = s.pol /\ u.exc = s.exc /\ OnlyLoses(seen, u)
    BY <1>1, SyncedGood
  <2>2. OnlyLoses(s, u)
    BY <1>1, <2>1 DEF OnlyLoses
  <2>3. \A f \in Pair : f[2] = i => s.own[f] = None
    <3> SUFFICES ASSUME NEW f \in Pair, f[2] = i, s.own[f] # None PROVE FALSE
      OBVIOUS
    <3>1. s.own[f].dec \in s.cache /\ s.own[f].dec.ip = i
      BY DEF Good, ConsistentRows, OwnedIsCachedIn, OwnedMatchesIn, Owns
    <3> QED BY <3>1, <1>4 DEF BannedInCache
  <2>4. \A f \in Pair : f[2] = e[2] => u.own[f] = None
    BY <1>1, <1>2, <2>1, <2>3 DEF OnlyLoses
  <2>5. Good(t)
    BY <1>2, <1>4, <2>1, <2>4, AssociatedGood
  <2>6. t.pol = u.pol /\ t.exc = u.exc /\ \A f \in Pair \ {e} : t.own[f] = u.own[f]
    BY <2>1 DEF Associated, Good, Database
  <2>7. db' = t
    BY <1>4, StoreIs
  <2>8. CASE t.own[e] = None
    BY <2>1, <2>2, <2>5, <2>6, <2>7, <2>8 DEF OnlyLoses
  <2>9. CASE t.own[e] # None
    BY <1>2, <1>4, <2>1, <2>2, <2>3, <2>5, <2>6, <2>7, <2>9 DEF OnlyLoses
  <2> QED BY <2>8, <2>9
<1> QED BY <1>3, <1>4 DEF Enforce

\* An observation elsewhere only releases.
LEMMA ReclassifyShrinks ==
  ASSUME Good(db), lapi \subseteq Decision,
         NEW a \in ASN, NEW i \in IP, Reclassify(db, a, i)
  PROVE  Shrinks(db, db') /\ db'.pol = db.pol
<1> DEFINE others == {e \in Pair : e[1] # a}
           noted  == Noted(db, a, i, others)
           owners == {e \in others : e[2] = i /\ db.own[e] # None /\ ~db.own[e].pending}
<1>1. /\ Good(noted) /\ Shrinks(db, noted) /\ noted.pol = db.pol
      /\ \A e \in Pair : noted.own[e] = None <=> db.own[e] = None
  BY NotedGood, ShrinksOf
<1>2. CASE Store(noted)
  BY <1>1, <1>2, StoreIs, ShrinksReflexive
<1>3. ASSUME NEW e \in owners, NEW reply, NEW synced \in SyncReplies,
             Store(AfterRelease(noted, e, reply, synced))
      PROVE  Shrinks(db, db') /\ db'.pol = db.pol
  <2>1. e \in Pair /\ noted.own[e] # None /\ synced \in BOOLEAN
    BY <1>1, <1>3 DEF SyncReplies
  <2>2. /\ Shrinks(noted, AfterRelease(noted, e, reply, synced))
        /\ AfterRelease(noted, e, reply, synced).pol = noted.pol
    BY <1>1, <2>1, AfterReleaseShrinks, AfterReleaseGood
  <2> QED BY <1>1, <1>3, <2>2, StoreIs, ShrinksReflexive, ShrinksTransitive
<1> QED BY <1>2, <1>3 DEF Reclassify

-----------------------------------------------------------------------------
(* The tick's transaction.                                                   *)

\* A removal with a list that was fetched before the lock.
LEMMA FetchedShrinks ==
  ASSUME IInv, TickRemoveFetched
  PROVE  Shrinks(db, db')
<1> DEFINE s == Synced(db, snap[Tick])
<1>1. Good(s) /\ Shrinks(db, s) /\ s.pol = db.pol
  BY IInvFacts, TickSnap, SyncedShrinks, SyncedGood DEF TickRemoveFetched
<1>2. target \in ASN
  BY IInvFacts DEF TickRemoveFetched
<1>3. CASE db' = s
  BY <1>1, <1>3
<1>4. ASSUME db.pol[target] # "none", NEW r, db' = AfterRemoval(s, target, r)
      PROVE  Shrinks(db, db')
  BY <1>1, <1>2, <1>4, IInvFacts, AfterRemovalShrinks, ShrinksTransitive
<1> QED BY <1>3, <1>4 DEF TickRemoveFetched

\* While the tick's transaction is open its rows only shrink, and the rows it
\* would be rolled back to are those it found.
LEMMA OpenStep ==
  ASSUME IInv, [Next]_vars, tx' # NoTx
  PROVE  /\ Shrinks(db, db')
         /\ tx = NoTx => tx'.old = db
         /\ tx # NoTx => tx'.old = tx.old
<1>1. CASE UNCHANGED <<db, tx>>
  BY <1>1, IInvFacts, ShrinksReflexive
<1>2. CASE TickSync
  <2>1. Shrinks(db, Synced(db, snap[Tick]))
    BY <1>2, IInvFacts, TickSnap, SyncedShrinks DEF TickSync
  <2>2. db' = Synced(db, snap[Tick]) /\ Begin(db', {}) /\ tx = NoTx
    BY <1>2 DEF TickSync, LockFree
  <2> QED BY <2>1, <2>2 DEF Begin
<1>3. CASE TickFresh
  <2>1. db' = db /\ tx = NoTx /\ (Begin(db, {}) \/ tx' = tx)
    BY <1>3 DEF TickFresh, TickIdle
  <2> QED BY <2>1, IInvFacts, ShrinksReflexive DEF Begin
<1>4. CASE TickRemoveFetched
  BY <1>4, FetchedShrinks DEF TickRemoveFetched, LockFree
<1>5. ASSUME NEW e \in Pair, TickRelease(e)
      PROVE  tx # NoTx /\ tx'.old = tx.old /\ Shrinks(db, db')
  <2>1. tx \in Transaction /\ tx # NoTx
    BY <1>5, IInvFacts DEF TickRelease
  <2>2. tx'.old = tx.old
    BY <1>5, <2>1 DEF TickRelease, Transaction
  <2>3. db' = db => Shrinks(db, db')
    BY IInvFacts, ShrinksReflexive
  <2>4. ASSUME db.own[e] # None, NEW reply, NEW synced \in SyncReplies,
               db' = AfterRelease(db, e, reply, synced)
        PROVE  Shrinks(db, db')
    <3>1. synced \in BOOLEAN
      BY DEF SyncReplies
    <3> QED BY <2>4, <3>1, IInvFacts, AfterReleaseShrinks
  <2>5. Shrinks(db, db')
    BY <1>5, <2>3, <2>4 DEF TickRelease
  <2> QED BY <2>1, <2>2, <2>5
<1>6. ASSUME NEW a \in ASN, TickRemove(a)
      PROVE  tx # NoTx /\ tx'.old = tx.old /\ Shrinks(db, db')
  <2> DEFINE s == Synced(db, lapi)
  <2>1. tx \in Transaction /\ tx # NoTx
    BY <1>6, IInvFacts DEF TickRemove
  <2>2. tx'.old = tx.old
    BY <1>6, <2>1 DEF TickRemove, Transaction
  <2>3. Good(s) /\ Shrinks(db, s) /\ s.pol = db.pol
    BY IInvFacts, SyncedShrinks, SyncedGood
  <2>4. s.pol[a] # "none"
    BY <1>6, <2>3 DEF TickRemove, Removing
  <2>5. \A r : Shrinks(db, AfterRemoval(s, a, r))
    BY <2>3, <2>4, IInvFacts, AfterRemovalShrinks, ShrinksTransitive
  <2>6. Shrinks(db, db')
    BY <1>6, <2>3, <2>5, IInvFacts, ShrinksReflexive DEF TickRemove
  <2> QED BY <2>1, <2>2, <2>6
<1>7. CASE \/ TickCommit \/ Restart \/ \E a \in ASN, i \in IP : Observe(a, i)
           \/ Operator \/ \E r \in Refresher : RefreshApply(r)
  <2>1. \/ tx = NoTx /\ tx' = tx
        \/ tx' = NoTx
        \/ UNCHANGED <<db, tx>>
    BY <1>7 DEF TickCommit, Restart, Observe, Operator, Disable, Enable, ManualBan,
       UnbanValidate, UnbanExecute, RemoveException, SaveSettings, RefreshApply, LockFree
  <2> QED BY <1>1, <2>1
<1>8. CASE Environment \/ TickFetch \/ \E r \in Refresher : RefreshFetch(r)
  BY <1>1, <1>8 DEF Environment, Expire, ForeignBan, TickFetch, RefreshFetch
<1>9. CASE UNCHANGED vars
  BY <1>1, <1>9 DEF vars
<1> QED BY <1>2, <1>3, <1>4, <1>5, <1>6, <1>7, <1>8, <1>9 DEF Next, PluginTick

LEMMA LInvNext == ASSUME IInv, LInv, [Next]_vars PROVE LInv'
<1> SUFFICES ASSUME tx' # NoTx PROVE Shrinks(tx'.old, db')
  BY DEF LInv
<1>1. CASE tx = NoTx
  BY <1>1, OpenStep
<1>2. CASE tx # NoTx
  BY <1>2, OpenStep, IInvFacts, ShrinksTransitive DEF LInv
<1> QED BY <1>1, <1>2

-----------------------------------------------------------------------------
(* Steps of the ledger.                                                      *)

\* The ledger does not see what happens inside a transaction of the tick.
LEMMA OpenIsStutter ==
  ASSUME IInv, [Next]_vars, tx' # NoTx
  PROVE  UNCHANGED Ledger!vars
<1>1. Committed' = Committed
  BY OpenStep DEF Committed
<1> QED BY <1>1 DEF Ledger!vars

\* It sees the rows of a commit, or those from before the transaction.
LEMMA CloseIsDrop ==
  ASSUME IInv, LInv, IInv', [Next]_vars, tx # NoTx, tx' = NoTx
  PROVE  Ledger!Next
<1>1. TickCommit \/ Restart
  <2>1. ~(\E e \in Pair : TickRelease(e)) /\ ~(\E a \in ASN : TickRemove(a))
    BY IInvFacts, AsnBanAssumption DEF TickRelease, TickRemove, Transaction, AsnBanAssumption
  <2> QED BY <2>1 DEF Next, PluginTick, Environment, Expire, ForeignBan, Observe, Operator, Disable,
     Enable, ManualBan, UnbanValidate, UnbanExecute, RemoveException, SaveSettings,
     RefreshFetch, RefreshApply, LockFree, TickFetch, TickSync, TickFresh, TickIdle,
     TickRemoveFetched, vars
<1>2. Good(tx.old) /\ Shrinks(tx.old, db) /\ Committed = tx.old
  BY IInvFacts DEF LInv, Committed
<1>3. db' = db \/ db' = tx.old
  BY <1>1 DEF TickCommit, Restart
<1>4. Committed' = db' /\ Good(db')
  BY <1>2, <1>3, IInvFacts DEF Committed
<1>5. Shrinks(tx.old, db')
  BY <1>2, <1>3, ShrinksReflexive
<1> QED BY <1>2, <1>4, <1>5, ShrinkIsDrop

\* A transaction of one step.
LEMMA ShortTx ==
  ASSUME IInv, tx = NoTx, tx' = NoTx
  PROVE  /\ Committed = db /\ Committed' = db'
         /\ Good(db)
         /\ Good(db') /\ Shrinks(db, db') => Ledger!Next
<1>1. Committed = db /\ Committed' = db'
  BY DEF Committed
<1> QED BY <1>1, IInvFacts, ShrinkIsDrop

LEMMA IdleIsLose ==
  ASSUME IInv, tx = NoTx, tx' = NoTx, db' = db
  PROVE  Ledger!Next
BY ShortTx, ShrinksReflexive

LEMMA ObserveLedger ==
  ASSUME IInv, IInv', NEW a \in ASN, NEW i \in IP, Observe(a, i)
  PROVE  Ledger!Next
<1>1. tx = NoTx /\ tx' = NoTx /\ lapi \subseteq Decision /\ Good(db) /\ Good(db')
  BY IInvFacts DEF Observe, LockFree, IInv, TypeOK, Good
<1>2. CASE db.pol[a] # "active"
  BY <1>1, <1>2, ReclassifyShrinks, ShortTx DEF Observe
<1>3. CASE db.pol[a] = "active"
  <2> DEFINE e == <<a, i>>
  <2>1. e \in Pair /\ e[1] = a
    BY DEF Pair
  <2>2. CASE db' = db
    BY <1>1, <2>2, IdleIsLose
  <2>3. CASE OnlyLoses(db, db') /\ db'.pol = db.pol /\ db'.exc = db.exc
    BY <1>1, <2>3, ShrinksOf, ShortTx
  <2>4. CASE /\ db'.pol = db.pol /\ db'.exc = db.exc
             /\ e \notin db.exc /\ db.own[e] = None /\ db'.own[e] # None
             /\ \A f \in Pair \ {e} :
                  db'.own[f] # None => db.own[f] # None /\ db'.own[f].dec = db.own[f].dec
    BY <1>1, <1>3, <2>1, <2>4, ShortTx, ClaimIsBan
  <2> QED BY <1>1, <1>3, <2>2, <2>3, <2>4, EnforceStep DEF Observe
<1> QED BY <1>2, <1>3

LEMMA EnableLedger ==
  ASSUME IInv, IInv', NEW a \in ASN, NEW i \in IP, Enable(a, i)
  PROVE  Ledger!Next
<1> DEFINE s == [db EXCEPT !.pol[a] = "active"]
           e == <<a, i>>
<1>1. tx = NoTx /\ tx' = NoTx /\ lapi \subseteq Decision /\ Good(db) /\ Good(db')
  BY IInvFacts DEF Enable, LockFree, IInv, TypeOK, Good
<1>2. /\ Good(s) /\ s.pol = [db.pol EXCEPT ![a] = "active"]
      /\ s.own = db.own /\ s.exc = db.exc /\ s.pol[a] = "active"
  BY <1>1, StatusGood DEF Good, Database
<1>3. e \in Pair /\ e[1] = a /\ db.pol[a] = "none"
  BY DEF Pair, Enable, MayEnable
<1>4. Enforce(s, a, i)
  BY DEF Enable
<1> HIDE DEF s
<1>5. CASE db' = db
  BY <1>1, <1>5, IdleIsLose
<1>6. CASE OnlyLoses(s, db') /\ db'.pol = s.pol /\ db'.exc = s.exc
  <2>1. OnlyLoses(db, db')
    BY <1>2, <1>6 DEF OnlyLoses
  <2> QED BY <1>1, <1>2, <1>3, <1>6, <2>1, ShortTx, NewIsBlock
<1>7. CASE /\ db'.pol = s.pol /\ db'.exc = s.exc
           /\ e \notin s.exc /\ s.own[e] = None /\ db'.own[e] # None
           /\ \A f \in Pair \ {e} :
                db'.own[f] # None => s.own[f] # None /\ db'.own[f].dec = s.own[f].dec
  BY <1>1, <1>2, <1>3, <1>7, ShortTx, ClaimIsBan
<1>8. \/ db' = db
      \/ /\ db'.pol = s.pol /\ db'.exc = s.exc
         /\ \/ OnlyLoses(s, db')
            \/ /\ e \notin s.exc /\ s.own[e] = None /\ db'.own[e] # None
               /\ \A f \in Pair \ {e} :
                    db'.own[f] # None => s.own[f] # None /\ db'.own[f].dec = s.own[f].dec
  <2>1. Good(s) /\ lapi \subseteq Decision /\ s.pol[a] = "active"
    BY <1>1, <1>2
  <2> QED BY <1>4, <2>1, EnforceStep
<1> QED BY <1>5, <1>6, <1>7, <1>8

LEMMA DisableLedger ==
  ASSUME IInv, IInv', NEW a \in ASN, Disable(a)
  PROVE  Ledger!Next
<1> DEFINE marked == [db EXCEPT !.pol[a] = "removing"]
           s == Synced(marked, lapi)
<1>1. /\ tx = NoTx /\ tx' = NoTx /\ lapi \subseteq Decision /\ Good(db) /\ Good(db')
      /\ db.pol[a] # "none"
  BY IInvFacts DEF Disable, LockFree, IInv, TypeOK, Good
<1>2. /\ Good(marked) /\ marked.pol = [db.pol EXCEPT ![a] = "removing"]
      /\ marked.own = db.own /\ marked.exc = db.exc
  BY <1>1, StatusGood
<1> HIDE DEF marked
<1>3. Good(s) /\ s.pol = marked.pol /\ s.exc = db.exc /\ OnlyLoses(db, s)
  <2>1. /\ Good(s) /\ s.pol = marked.pol /\ s.exc = marked.exc /\ OnlyLoses(marked, s)
    BY <1>1, <1>2, SyncedGood
  <2> QED BY <1>2, <2>1 DEF OnlyLoses
<1>4. CASE db' = db
  BY <1>1, <1>4, IdleIsLose
<1>5. CASE OnlyLoses(db, db') /\ db'.pol = marked.pol /\ db'.exc = db.exc
  BY <1>1, <1>2, <1>5, ShortTx, MarkIsCondemn
<1>6. CASE db' = marked
  BY <1>2, <1>5, <1>6 DEF OnlyLoses
<1>7. CASE db' = s
  BY <1>2, <1>3, <1>5, <1>7
<1>8. ASSUME NEW r, db' = AfterRemoval(s, a, r) PROVE Ledger!Next
  <2>1. OnlyLoses(db, db')
    BY <1>3, <1>8, AfterRemovalGood DEF OnlyLoses
  <2>2. CASE \A i \in IP : r[i] = "ok"
    <3>1. db' = Dropped(s, a)
      BY <1>8, <2>2 DEF AfterRemoval
    <3>2. db.pol \in [ASN -> {"none", "active", "removing"}]
      BY <1>1 DEF Good, Database
    <3>3. s.pol[a] # "none"
      BY <1>2, <1>3, <3>2
    <3>4. Shrinks(s, db')
      BY <1>3, <3>1, <3>3, DroppedShrinks
    <3>5. \A b \in ASN : b # a => db'.pol[b] = s.pol[b]
      BY <1>3, <3>1 DEF Dropped, Good, Database
    <3>6. db'.pol[a] = "none"
      BY <1>3, <3>1 DEF Dropped, Good, Database
    <3>7. \A b \in ASN : db'.pol[b] = db.pol[b] \/ (db.pol[b] # "none" /\ db'.pol[b] = "none")
      BY <1>1, <1>2, <1>3, <3>2, <3>5, <3>6
    <3>8. Shrinks(db, db')
      BY <1>3, <2>1, <3>4, <3>7 DEF Shrinks
    <3> QED BY <1>1, <3>8, ShortTx
  <2>3. CASE ~ \A i \in IP : r[i] = "ok"
    BY <1>3, <1>5, <1>8, <2>1, <2>3, HeldBack
  <2> QED BY <2>2, <2>3
<1> QED BY <1>1, <1>4, <1>6, <1>7, <1>8, StoreIs DEF Disable, marked

LEMMA UnbanLedger ==
  ASSUME IInv, IInv', UnbanExecute
  PROVE  Ledger!Next
<1> DEFINE s == Synced(db, lapi \ {unban.dec})
           e == <<unban.asn, unban.dec.ip>>
<1>1. /\ tx = NoTx /\ tx' = NoTx /\ Good(db) /\ Good(db') /\ lapi \subseteq Decision
      /\ unban \in UnbanRequest
  BY IInvFacts DEF UnbanExecute, LockFree, IInv, TypeOK, Good
<1>2. Good(s) /\ s.pol = db.pol /\ s.exc = db.exc /\ OnlyLoses(db, s) /\ Shrinks(db, s)
  BY <1>1, SyncedGood, SyncedShrinks
<1>3. CASE db' = db \/ db' = s
  BY <1>1, <1>2, <1>3, IdleIsLose, ShortTx
<1>4. CASE db' = Excepted(s, unban) /\ unban.asn # None /\ s.pol[unban.asn] = "active"
  <2>1. e \in Pair /\ e[1] = unban.asn
    BY <1>1, <1>4, AsnBanAssumption DEF UnbanRequest, Pair, AsnBanAssumption
  <2>2. /\ Good(Disowned(s, e)) /\ Disowned(s, e).own[e] = None
        /\ db' = [Disowned(s, e) EXCEPT !.exc = s.exc \cup {e}]
    BY <1>2, <1>4, <2>1, DisownedGood DEF Excepted
  <2>3. db'.exc = db.exc \cup {e} /\ db'.own[e] = None
    BY <1>2, <2>2 DEF Good, Database
  <2>4. db'.pol = db.pol /\ OnlyLoses(db, db')
    BY <1>1, <1>2, <1>4, ExceptedGood DEF OnlyLoses
  <2> QED BY <1>1, <1>2, <1>4, <2>1, <2>3, <2>4, ShortTx, UnbanIsExcept
<1>5. db' = db \/ db' = Excepted(s, unban)
  BY StoreIs DEF UnbanExecute
<1>6. Excepted(s, unban) = s \/ (unban.asn # None /\ s.pol[unban.asn] = "active")
  BY DEF Excepted
<1> QED BY <1>3, <1>4, <1>5, <1>6

\* Every other action of one transaction.
LEMMA OtherLedger ==
  ASSUME IInv, IInv', [Next]_vars, tx = NoTx, tx' = NoTx,
         ~ \E a \in ASN, i \in IP : Observe(a, i) \/ Enable(a, i),
         ~ \E a \in ASN : Disable(a),
         ~ UnbanExecute
  PROVE  Ledger!Next
<1>1. CASE db' = db
  BY <1>1, IdleIsLose
<1>2. ASSUME NEW e \in Pair, RemoveException(e) PROVE Ledger!Next
  <2>1. Good(db) /\ e \in db.exc
    BY <1>2, IInvFacts DEF RemoveException
  <2>2. CASE db' = [db EXCEPT !.exc = db.exc \ {e}]
    <3>1. db'.pol = db.pol /\ db'.own = db.own /\ db'.exc = db.exc \ {e}
      BY <2>1, <2>2 DEF Good, Database
    <3>2. Good(db')
      BY DEF IInv, TypeOK, Good
    <3> QED BY <2>1, <3>1, <3>2, ShortTx, RemovalIsReadmit
  <2> QED BY <1>1, <1>2, <2>2, StoreIs DEF RemoveException
<1>3. ASSUME NEW list \in SUBSET Decision, db' = Synced(db, list) PROVE Ledger!Next
  BY <1>3, ShortTx, SyncedGood, SyncedShrinks
<1>4. ASSUME NEW d \in Decision, ManualBan(d) PROVE Ledger!Next
  <2>1. db' = db \/ db' = Synced(db, lapi \cup {d})
    BY <1>4, StoreIs DEF ManualBan
  <2>2. lapi \cup {d} \in SUBSET Decision
    BY IInvFacts
  <2> QED BY <1>1, <1>3, <2>1, <2>2
<1>5. ASSUME NEW r \in Refresher, RefreshApply(r) PROVE Ledger!Next
  <2>1. snap[r] \in SUBSET Decision
    BY <1>5, IInvFacts DEF RefreshApply, Syncer
  <2> QED BY <1>1, <1>3, <1>5, <2>1, StoreIs DEF RefreshApply
<1>6. CASE TickSync
  <2>1. snap[Tick] \in SUBSET Decision
    BY <1>6, TickSnap DEF TickSync
  <2> QED BY <1>1, <1>3, <1>6, <2>1, StoreIs DEF TickSync
<1>7. CASE TickRemoveFetched
  <2>1. Good(db')
    BY DEF IInv, TypeOK, Good
  <2> QED BY <1>7, <2>1, FetchedShrinks, ShortTx
<1>8. CASE Environment \/ (\E flag \in Toggles : SaveSettings(flag))
           \/ (\E d \in Decision : UnbanValidate(d)) \/ (\E r \in Refresher : RefreshFetch(r))
           \/ TickFetch \/ TickFresh \/ Restart \/ UNCHANGED vars
  <2>1. db' = db
    BY <1>8 DEF Environment, Expire, ForeignBan, SaveSettings, UnbanValidate, RefreshFetch,
       TickFetch, TickFresh, Restart, vars
  <2> QED BY <1>1, <2>1
<1>9. /\ ~TickCommit /\ \A e \in Pair : ~TickRelease(e)
      /\ \A a \in ASN : ~TickRemove(a)
  BY DEF TickCommit, TickRelease, TickRemove
<1> QED BY <1>2, <1>4, <1>5, <1>6, <1>7, <1>8, <1>9 DEF Next, Operator, PluginTick

LEMMA LedgerNext ==
  ASSUME IInv, LInv, [Next]_vars
  PROVE  [Ledger!Next]_(Ledger!vars)
<1>1. IInv'
  BY IInvNext
<1>2. CASE tx' # NoTx
  BY <1>2, OpenIsStutter
<1>3. CASE tx # NoTx /\ tx' = NoTx
  BY <1>1, <1>3, CloseIsDrop
<1>4. CASE tx = NoTx /\ tx' = NoTx
  BY <1>1, <1>4, ObserveLedger, EnableLedger, DisableLedger, UnbanLedger, OtherLedger
<1> QED BY <1>2, <1>3, <1>4

LEMMA LedgerInit == Init => Ledger!Init
<1> SUFFICES ASSUME Init PROVE Ledger!Init
  OBVIOUS
<1>1. Committed = db
  BY DEF Init, Committed
<1> QED BY <1>1, LedgerPair DEF Init, Ledger!Init

\* The committed rows are a ledger of policies.
THEOREM LedgerKept == Spec => KeepsLedger
<1>1. Init => LInv
  BY DEF Init, LInv
<1> QED BY <1>1, RowsConsistent, LInvNext, LedgerInit, LedgerNext, PTL DEF Spec, KeepsLedger, Ledger!Spec

-----------------------------------------------------------------------------
(* What leaves CrowdSec.                                                     *)

\* Whatever a removal deletes, some row owned.
LEMMA DeletedIsOwned ==
  ASSUME NEW s, NEW a \in ASN, NEW r, OnlyLoses(db, s)
  PROVE  \A d \in Deleted(s, a, r) : \E e \in Pair : db.own[e] # None /\ db.own[e].dec = d
<1>1. \A i \in IP : <<a, i>> \in Pair
  BY DEF Pair
<1> QED BY <1>1 DEF Deleted, OwnedIPs, OnlyLoses

LEMMA OwnedDeletedStep ==
  ASSUME IInv, [Next]_vars, NEW d \in lapi \ lapi'
  PROVE  \/ Expire(d)
         \/ UnbanExecute /\ unban.dec = d
         \/ \E e \in Pair : db.own[e] # None /\ db.own[e].dec = d
<1> DEFINE Owned == \E e \in Pair : db.own[e] # None /\ db.own[e].dec = d
<1>1. ASSUME NEW a \in ASN, NEW s, OnlyLoses(db, s), NEW r, lapi' = lapi \ Deleted(s, a, r)
      PROVE  Owned
  BY <1>1, DeletedIsOwned
<1>2. ASSUME NEW e \in Pair, db.own[e] # None, NEW reply, lapi' = Without(db.own[e].dec, reply)
      PROVE  Owned
  BY <1>2 DEF Without
<1>3. ASSUME NEW a \in ASN, NEW i \in IP, Observe(a, i) \/ Enable(a, i) PROVE Owned
  BY <1>2, <1>3 DEF Observe, Enable, Enforce, Reclassify
<1>4. ASSUME NEW a \in ASN, Disable(a) PROVE Owned
  <2> DEFINE marked == [db EXCEPT !.pol[a] = "removing"]
             s == Synced(marked, lapi)
  <2>1. Good(marked) /\ marked.own = db.own
    BY IInvFacts, StatusGood
  <2> HIDE DEF marked
  <2>2. OnlyLoses(marked, s)
    BY <2>1, IInvFacts, SyncedGood
  <2>3. OnlyLoses(db, s)
    BY <2>1, <2>2 DEF OnlyLoses
  <2>4. \E r : lapi' = lapi \ Deleted(s, a, r)
    BY <1>4 DEF Disable, marked
  <2> QED BY <1>1, <2>3, <2>4
<1>5. CASE TickRemoveFetched
  <2> DEFINE s == Synced(db, snap[Tick])
  <2>1. OnlyLoses(db, s) /\ target \in ASN
    BY <1>5, IInvFacts, TickSnap, SyncedGood DEF TickRemoveFetched
  <2>2. \E r : lapi' = lapi \ Deleted(s, target, r)
    BY <1>5 DEF TickRemoveFetched
  <2> QED BY <1>1, <2>1, <2>2
<1>6. ASSUME NEW a \in ASN, TickRemove(a) PROVE Owned
  <2> DEFINE s == Synced(db, lapi)
  <2>1. OnlyLoses(db, s)
    BY IInvFacts, SyncedGood
  <2>2. \E r : lapi' = lapi \ Deleted(s, a, r)
    BY <1>6 DEF TickRemove
  <2> QED BY <1>1, <2>1, <2>2
<1>7. ASSUME NEW e \in Pair, TickRelease(e) PROVE Owned
  BY <1>2, <1>7 DEF TickRelease
<1>8. CASE UnbanExecute
  BY <1>8 DEF UnbanExecute, Without
<1>9. ASSUME NEW c \in Decision, Expire(c) PROVE Expire(d)
  BY <1>9 DEF Expire
<1>10. CASE UNCHANGED lapi \/ \E c \in Decision : ForeignBan(c) \/ ManualBan(c)
  BY <1>10 DEF ForeignBan, ManualBan
<1>11. CASE \/ \E c \in Decision : UnbanValidate(c)
            \/ \E e \in Pair : RemoveException(e)
            \/ \E flag \in Toggles : SaveSettings(flag)
            \/ \E r \in Refresher : RefreshFetch(r) \/ RefreshApply(r)
            \/ TickFetch \/ TickSync \/ TickFresh \/ TickCommit \/ Restart \/ UNCHANGED vars
  BY <1>10, <1>11 DEF UnbanValidate, RemoveException, SaveSettings, RefreshFetch, RefreshApply,
     TickFetch, TickSync, TickFresh, TickCommit, Restart, vars
<1> QED BY <1>3, <1>4, <1>5, <1>6, <1>7, <1>8, <1>9, <1>10, <1>11
        DEF Next, Environment, Operator, PluginTick

\* Only expiry, an operator's unban of that decision and releases of what some
\* row owned take a decision out of CrowdSec, whatever fails or crashes.
THEOREM OnlyOwnedDeletedHolds == Spec => OnlyOwnedDeleted
<1>1. IInv /\ [Next]_vars =>
        [\A d \in lapi \ lapi' :
           \/ Expire(d)
           \/ UnbanExecute /\ unban.dec = d
           \/ \E e \in Pair : db.own[e] # None /\ db.own[e].dec = d]_vars
  BY OwnedDeletedStep
<1> QED BY <1>1, RowsConsistent, PTL DEF Spec, OnlyOwnedDeleted

-----------------------------------------------------------------------------
\* When a removal that synced under the lock drops the policy, no decision it
\* owned before is left: the sync forgets what is not enforced any more, and
\* every deletion of the rest succeeded.
LEMMA RemovedIsGone ==
  ASSUME NEW m, Good(m), lapi \subseteq Decision, NEW a \in ASN, NEW i \in IP,
         NEW r \in Answers(Synced(m, lapi), a), m.pol[a] # "none",
         lapi' = lapi \ Deleted(Synced(m, lapi), a, r),
         AfterRemoval(Synced(m, lapi), a, r).pol[a] = "none", m.own[<<a, i>>] # None
  PROVE  m.own[<<a, i>>].dec \notin lapi'
<1> DEFINE s == Synced(m, lapi)
           e == <<a, i>>
<1>1. Good(s) /\ s.pol = m.pol /\ OnlyLoses(m, s)
  BY SyncedGood
<1>2. e \in Pair
  BY DEF Pair
<1>3. r[i] = "ok"
  BY <1>1, HeldBack
<1>4. CASE s.own[e] = None
  <2>1. Owns(e, m.own[e].dec)
    BY <1>2 DEF Good, ConsistentRows, OwnedMatchesIn
  <2>2. m.own[e].dec \notin lapi
    BY <1>2, <1>4, <2>1 DEF Synced, Good, Database
  <2> QED BY <2>2
<1>5. CASE s.own[e] # None
  BY <1>1, <1>2, <1>3, <1>5 DEF Deleted, OwnedIPs, OnlyLoses
<1> QED BY <1>4, <1>5

\* An action that removes no policy keeps every policy.
LEMMA PolicyStays ==
  ASSUME IInv, LInv, [Next]_vars, NEW a \in ASN, db.pol[a] # "none", db'.pol[a] = "none"
  PROVE  Disable(a) \/ TickRemove(a) \/ TickRemoveFetched
<1>1. /\ Good(db) /\ lapi \subseteq Decision
      /\ db.pol \in [ASN -> {"none", "active", "removing"}]
  BY IInvFacts DEF Good, Database
<1>2. db'.pol # db.pol
  OBVIOUS
<1>3. ASSUME NEW b \in ASN, NEW i \in IP, Observe(b, i) PROVE FALSE
  BY <1>1, <1>2, <1>3, EnforceStep, ReclassifyShrinks DEF Observe
<1>4. ASSUME NEW b \in ASN, NEW i \in IP, Enable(b, i) PROVE FALSE
  <2> DEFINE s == [db EXCEPT !.pol[b] = "active"]
  <2>1. Enforce(s, b, i)
    BY <1>4 DEF Enable
  <2>2. Good(s) /\ s.pol = [db.pol EXCEPT ![b] = "active"]
    BY <1>1, StatusGood
  <2> HIDE DEF s
  <2>3. s.pol[b] = "active"
    BY <1>1, <2>2
  <2>4. db' = db \/ db'.pol = s.pol
    BY <1>1, <2>1, <2>2, <2>3, EnforceStep
  <2> QED BY <1>1, <1>2, <2>2, <2>4
<1>5. ASSUME NEW b \in ASN \ {a}, Disable(b) PROVE FALSE
  <2> DEFINE m == [db EXCEPT !.pol[b] = "removing"]
             s == Synced(m, lapi)
  <2>1. Good(m) /\ m.pol = [db.pol EXCEPT ![b] = "removing"]
    BY <1>1, StatusGood
  <2>2. db' = db \/ db' = m \/ db' = s \/ \E r : db' = AfterRemoval(s, b, r)
    BY <1>5, StoreIs DEF Disable
  <2> HIDE DEF m
  <2>3. Good(s) /\ s.pol = m.pol
    BY <1>1, <2>1, SyncedGood
  <2>4. \A r : AfterRemoval(s, b, r).pol[a] = s.pol[a]
    BY <2>3 DEF AfterRemoval, Dropped, Good, Database
  <2> QED BY <1>1, <2>1, <2>2, <2>3, <2>4
<1>6. ASSUME NEW b \in ASN \ {a}, TickRemove(b) PROVE FALSE
  <2> DEFINE s == Synced(db, lapi)
  <2>1. Good(s) /\ s.pol = db.pol
    BY <1>1, SyncedGood
  <2>2. \A r : AfterRemoval(s, b, r).pol[a] = s.pol[a]
    BY <2>1 DEF AfterRemoval, Dropped, Good, Database
  <2> QED BY <1>6, <2>1, <2>2 DEF TickRemove
<1>7. ASSUME NEW list \in SUBSET Decision, db' = db \/ db' = Synced(db, list) PROVE FALSE
  BY <1>1, <1>2, <1>7, SyncedGood
<1>8. ASSUME NEW d \in Decision, ManualBan(d) PROVE FALSE
  <2>1. lapi \cup {d} \in SUBSET Decision
    BY <1>1
  <2> QED BY <1>7, <1>8, <2>1, StoreIs DEF ManualBan
<1>9. CASE UnbanExecute
  <2> DEFINE s == Synced(db, lapi \ {unban.dec})
  <2>1. unban \in UnbanRequest
    BY <1>9, IInvFacts DEF UnbanExecute
  <2>2. Good(s) /\ s.pol = db.pol
    BY <1>1, SyncedGood
  <2>3. Excepted(s, unban).pol = db.pol
    BY <2>1, <2>2, ExceptedGood
  <2> QED BY <1>2, <1>9, <2>3, StoreIs DEF UnbanExecute
<1>10. ASSUME NEW e \in Pair, RemoveException(e) PROVE FALSE
  BY <1>1, <1>2, <1>10, StoreIs DEF RemoveException, Good, Database
<1>11. ASSUME NEW r \in Refresher, RefreshApply(r) PROVE FALSE
  <2>1. snap[r] \in SUBSET Decision
    BY <1>11, IInvFacts DEF RefreshApply, Syncer
  <2> QED BY <1>7, <1>11, <2>1, StoreIs DEF RefreshApply
<1>12. CASE TickSync
  <2>1. snap[Tick] \in SUBSET Decision
    BY <1>12, TickSnap DEF TickSync
  <2> QED BY <1>7, <1>12, <2>1, StoreIs DEF TickSync
<1>13. ASSUME NEW e \in Pair, TickRelease(e) PROVE FALSE
  <2>1. \A synced \in SyncReplies : synced \in BOOLEAN
    BY DEF SyncReplies
  <2> QED BY <1>1, <1>2, <1>13, <2>1, AfterReleaseGood DEF TickRelease
<1>14. CASE TickCommit \/ Restart
  <2>1. db' = db \/ (tx # NoTx /\ db' = tx.old)
    BY <1>14 DEF TickCommit, Restart
  <2> QED BY <1>2, <2>1 DEF LInv, Shrinks
<1>15. CASE Environment \/ (\E flag \in Toggles : SaveSettings(flag))
           \/ (\E d \in Decision : UnbanValidate(d)) \/ (\E r \in Refresher : RefreshFetch(r))
           \/ TickFetch \/ TickFresh \/ UNCHANGED vars
  BY <1>2, <1>15 DEF Environment, Expire, ForeignBan, SaveSettings, UnbanValidate, RefreshFetch,
     TickFetch, TickFresh, vars
<1> QED BY <1>3, <1>4, <1>5, <1>6, <1>8, <1>9, <1>10, <1>11, <1>12, <1>13, <1>14, <1>15
        DEF Next, Operator, PluginTick

LEMMA NothingOwnedStep ==
  ASSUME IInv, LInv, [Next]_vars, NEW a \in ASN, NEW i \in IP,
         db.own[<<a, i>>] # None, db'.pol[a] = "none", target' = target
  PROVE  db.own[<<a, i>>].dec \notin lapi'
<1> DEFINE e == <<a, i>>
<1>1. Good(db) /\ lapi \subseteq Decision
  BY IInvFacts
<1>2. e \in Pair
  BY DEF Pair
<1>3. db.pol[a] # "none"
  BY <1>1, <1>2 DEF Good, ConsistentRows, PolicyRowsOnlyIn
<1>4. db' # db
  BY <1>3
<1>5. CASE Disable(a)
  <2> DEFINE m == [db EXCEPT !.pol[a] = "removing"]
  <2>1. Good(m) /\ m.pol = [db.pol EXCEPT ![a] = "removing"] /\ m.own = db.own
    BY <1>1, StatusGood
  <2>2. db' = m \/ db' = Synced(m, lapi)
        \/ \E r \in Answers(Synced(m, lapi), a) :
             lapi' = lapi \ Deleted(Synced(m, lapi), a, r) /\ db' = AfterRemoval(Synced(m, lapi), a, r)
    BY <1>4, <1>5, StoreIs DEF Disable
  <2> HIDE DEF m
  <2>3. m.pol[a] = "removing"
    BY <1>1, <2>1 DEF Good, Database
  <2>4. Synced(m, lapi).pol = m.pol
    BY <1>1, <2>1, SyncedGood
  <2>5. PICK r \in Answers(Synced(m, lapi), a) :
          lapi' = lapi \ Deleted(Synced(m, lapi), a, r) /\ db' = AfterRemoval(Synced(m, lapi), a, r)
    BY <2>2, <2>3, <2>4
  <2>6. m.own[<<a, i>>] # None /\ m.pol[a] # "none" /\ AfterRemoval(Synced(m, lapi), a, r).pol[a] = "none"
    BY <2>1, <2>3, <2>5
  <2> QED BY <1>1, <2>1, <2>5, <2>6, RemovedIsGone
<1>6. CASE TickRemove(a)
  <2>1. Synced(db, lapi).pol = db.pol
    BY <1>1, SyncedGood
  <2>2. PICK r \in Answers(Synced(db, lapi), a) :
          lapi' = lapi \ Deleted(Synced(db, lapi), a, r) /\ db' = AfterRemoval(Synced(db, lapi), a, r)
    BY <1>3, <1>4, <1>6, <2>1 DEF TickRemove
  <2> QED BY <1>1, <1>3, <2>2, RemovedIsGone
<1>7. ~TickRemoveFetched
  BY DEF TickRemoveFetched
<1> QED BY <1>3, <1>5, <1>6, <1>7, PolicyStays

\* A policy that goes leaves nothing it owned in CrowdSec, unless the removal
\* worked with a list fetched before the lock (_finish_policy_removal).
THEOREM RemovalLeavesNothing == Spec => RemovalLeavesNothingOwned
<1>1. Init => LInv
  BY DEF Init, LInv
<1>2. IInv /\ LInv /\ [Next]_vars =>
        [\A a \in ASN, i \in IP :
           db.own[<<a, i>>] # None /\ db'.pol[a] = "none" /\ target' = target
             => db.own[<<a, i>>].dec \notin lapi']_vars
  BY NothingOwnedStep
<1> QED BY <1>1, <1>2, RowsConsistent, LInvNext, PTL DEF Spec, RemovalLeavesNothingOwned

=============================================================================
