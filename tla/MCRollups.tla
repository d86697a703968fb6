------------------------------ MODULE MCRollups -----------------------------
(* Small instances of Rollups: three months of two days. *)
EXTENDS Rollups
=============================================================================
