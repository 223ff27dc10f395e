--------------------------- MODULE MCTokenManager ---------------------------
(* Instances of TokenManager for TLC.                                      *)
EXTENDS TokenManager, TLC

Symmetric == Permutations(Session) \cup Permutations(Call)
=============================================================================
