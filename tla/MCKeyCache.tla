---------------------------- MODULE MCKeyCache ----------------------------
(* Small instances of KeyCache for TLC: requests and administrators are     *)
(* interchangeable.                                                         *)
EXTENDS KeyCache, TLC

Actors == Permutations(Request) \cup Permutations(Admin)
=============================================================================
