----------------------------- MODULE MCPolicies -----------------------------
(***************************************************************************)
(* Two instances of AsnBan in one: two systems over one address, of which   *)
(* one can be banned again while its first ban is still cached, and one     *)
(* system over two addresses, of which other tools ban one and dry-run is   *)
(* switched.                                                                *)
(***************************************************************************)
EXTENDS AsnBan

CONSTANTS a1, a2, i1, i2

MCDecision ==
  [ip : {i1}, scenario : {a1, a2, Foreign}, serial : {1}]
    \cup [ip : {i1}, scenario : {a1}, serial : {2}]
    \cup [ip : {i2}, scenario : {a1}, serial : {1}]

\* Bounds: what a state knows of bans fits one of the two instances.
Fetched == UNION {snap[s] : s \in {t \in Syncer : snap[t] # None}}
Validated == IF unban = None THEN {} ELSE {unban.dec}
Known == lapi \cup db.cache \cup Fetched \cup Validated \cup (IF tx = NoTx THEN {} ELSE tx.old.cache)

TwoSystems ==
  /\ \A d \in Known : d.ip = i1 /\ d.scenario # Foreign
  /\ \A e \in db.exc : e[2] = i1
  /\ settings = {"real", "crowdsec", "geoip"}

TwoAddresses ==
  /\ \A d \in Known : d.scenario # a2 /\ d.serial = 1
  /\ db.pol[a2] = "none"
  /\ \A e \in Pair : db.own[e] # None => db.own[e].obs = a1

OneInstance == TwoSystems \/ TwoAddresses
=============================================================================
