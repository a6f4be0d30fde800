------------------------------ MODULE MCStandups ------------------------------
(* Instances of Standups for TLC.                                              *)
EXTENDS Standups, TLC

CONSTANTS u1, u2, c1, c2

WorkingDays == {{0}, {1}}

Symmetry == Permutations(Calls) \union Permutations(Users)
=============================================================================
