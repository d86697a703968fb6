------------------------------ MODULE MCSignIn ------------------------------
(* Small instances of SignIn. *)
EXTENDS SignIn, TLC

CONSTANTS a, b, s, t

Symmetric == Permutations(User) \cup Permutations(Subject)
=============================================================================
