--------------------------- MODULE MCDigestPipeline ---------------------------
(* Instances of DigestPipeline for TLC.  Nothing tells one user, or one worker *)
(* slot of the queue "digest", from another.                                   *)
EXTENDS DigestPipeline, TLC

Symmetry == Permutations(Users) \union Permutations(Generators)
=============================================================================
