---------------------------- MODULE MCNotifications ----------------------------
(***************************************************************************)
(* Small instances of Notifications: assets, and systems with a rule that   *)
(* reports them only in pairs.                                              *)
(***************************************************************************)
EXTENDS Notifications

CONSTANTS asset, offline

MCSource == [r \in Rule |-> IF r = asset THEN "asset" ELSE "offline"]

MCAssets == [i \in Item |-> "asset"]

MCMinCount == [r \in Rule |-> IF r = offline THEN 2 ELSE 1]
=============================================================================
