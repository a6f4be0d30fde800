------------------------------- MODULE MCTeams -------------------------------
(* Instances of Teams for TLC: an owner, and two others who may join.          *)
EXTENDS Teams, TLC

CONSTANTS u1, u2, u3

(* Requests, invitations and the users who do not own the team are alike.      *)
Symmetry ==
  Permutations(Calls) \union Permutations(Invitations) \union Permutations({u2, u3})
=============================================================================
