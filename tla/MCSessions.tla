------------------------------ MODULE MCSessions ------------------------------
(* Instances of Sessions for TLC.                                              *)
EXTENDS Sessions, TLC

(* Tokens, families, browsers and requests are alike.                          *)
Symmetry == Permutations(Calls) \union Permutations(Tokens)
              \union Permutations(Families) \union Permutations(Browsers)
=============================================================================
