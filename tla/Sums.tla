-------------------------------- MODULE Sums --------------------------------
(* Sums of a function over a finite set.                                   *)
EXTENDS Integers, FiniteSetsExt

SumOver(f, S) == MapThenSumSet(LAMBDA x : f[x], S)
=============================================================================
