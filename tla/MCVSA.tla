------------------------------- MODULE MCVSA -------------------------------
(* Instances of VSA for TLC; the .cfg files give the constants.            *)
EXTENDS VSA, TLC

Symmetry == Permutations(Threads)
=============================================================================
