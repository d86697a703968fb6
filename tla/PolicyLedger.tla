---------------------------- MODULE PolicyLedger ----------------------------
(***************************************************************************)
(* What permanent ASN bans promise (docs/adr/adr-047), without the LAPI, the*)
(* decision cache, the tick and the failures: the ledger of policies, of the*)
(* decisions they hold and of the pairs excepted from them, as it is stored *)
(* after each transaction.                                                  *)
(*                                                                          *)
(* A policy comes to hold a decision only while it is active, only for an   *)
(* address it does not except and that no policy holds, and one address per *)
(* transaction.  It may lose decisions at any time (they expire).  It never *)
(* swaps one for another, and only an operator's unban makes an exception.  *)
(***************************************************************************)
CONSTANTS ASN, IP, Decision, None

VARIABLES
  policy,   \* status per autonomous system
  held,     \* the decision a policy holds for an address, or None
  excepted  \* pairs excepted by an operator

vars == <<policy, held, excepted>>

Pair == ASN \X IP

Init ==
  /\ policy = [a \in ASN |-> "none"]
  /\ held = [e \in Pair |-> None]
  /\ excepted = {}

\* Every pair outside E holds what it held or nothing.
OnlyLosses(E) ==
  /\ held' \in [Pair -> Decision \cup {None}]
  /\ \A e \in Pair \ E : held'[e] \in {held[e], None}

\* An observation in a blocked system; the first one may block it.
Ban(e, d) ==
  /\ policy' \in {policy, [policy EXCEPT ![e[1]] = "active"]}
  /\ policy'[e[1]] = "active" /\ policy[e[1]] # "removing"
  /\ e \notin excepted
  /\ held[e] = None
  /\ held'[e] = d
  /\ \A a \in ASN \ {e[1]} : held'[<<a, e[2]>>] = None
  /\ OnlyLosses({e})
  /\ UNCHANGED excepted

Block(a) ==
  /\ policy[a] = "none"
  /\ policy' = [policy EXCEPT ![a] = "active"]
  /\ OnlyLosses({})
  /\ UNCHANGED excepted

Lose == UNCHANGED <<policy, excepted>> /\ OnlyLosses({})

Condemn(a) ==
  /\ policy[a] # "none"
  /\ policy' = [policy EXCEPT ![a] = "removing"]
  /\ OnlyLosses({})
  /\ UNCHANGED excepted

\* Policies go with everything they hold and except; others may lose decisions.
Drop(gone) ==
  /\ \A a \in gone : policy[a] # "none"
  /\ policy' = [a \in ASN |-> IF a \in gone THEN "none" ELSE policy[a]]
  /\ excepted' = {e \in excepted : e[1] \notin gone}
  /\ OnlyLosses({})
  /\ \A e \in Pair : e[1] \in gone => held'[e] = None

Except(e) ==
  /\ policy[e[1]] = "active"
  /\ excepted' = excepted \cup {e}
  /\ held'[e] = None
  /\ OnlyLosses({})
  /\ UNCHANGED policy

Readmit(e) ==
  /\ e \in excepted
  /\ excepted' = excepted \ {e}
  /\ UNCHANGED <<policy, held>>

Next ==
  \/ Lose
  \/ \E a \in ASN : Block(a) \/ Condemn(a)
  \/ \E e \in Pair, d \in Decision : Ban(e, d)
  \/ \E gone \in SUBSET ASN : Drop(gone)
  \/ \E e \in Pair : Except(e) \/ Readmit(e)

Spec == Init /\ [][Next]_vars

=============================================================================
