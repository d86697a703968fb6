---------------------------- MODULE MCIngestion ----------------------------
(***************************************************************************)
(* Where events come from and what they belong to, one of the two in every *)
(* behaviour: a log that is written whole or in halves beside a manual     *)
(* ban, and two edits, the imports of a loop and a button and a datasource *)
(* tick over an application of each source and two hosts.                  *)
(***************************************************************************)
EXTENDS LogTail, Assets, TLC

CONSTANTS app, guest, h1, h2, none, loop, button, e1, e2

VARIABLE part

ASSUME AssetsAssumption

\* At most two of the imports and edits are under way at once.
Overlapping == {e \in Editors : edit[e] # NoEdit} \union {p \in Runners : run[p].at # "idle"}
Overlap == Cardinality(Overlapping) <= 2

MCInit ==
  /\ part \in {"log", "assets"}
  /\ Init /\ (part # "log" => maintained)
  /\ AssetsInit /\ (part # "assets" => rows = <<>> /\ external)

MCNext ==
  \/ part = "log" /\ Next /\ UNCHANGED <<part, Avars>>
  \/ part = "assets" /\ AssetsNext /\ Overlap' /\ UNCHANGED <<part, LTvars>>

MCSpec == MCInit /\ [][MCNext]_<<part, LTvars, Avars>>

Alike == Permutations({h1, h2}) \union Permutations({loop, button}) \union Permutations({e1, e2})
=============================================================================
