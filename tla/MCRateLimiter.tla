--------------------------- MODULE MCRateLimiter ---------------------------
(* Instances of RateLimiter for TLC; the .cfg files give the constants.    *)
EXTENDS RateLimiter, TLC

Symmetry == Permutations(Keys) \cup Permutations(Handlers)

Plain == [limit |-> 4, low |-> 0, maxAge |-> FALSE, evict |-> FALSE, release |-> FALSE]
Aged == [Plain EXCEPT !.limit = 3, !.low = 1, !.maxAge = TRUE]

\* Without and with hysteresis.
WriteConfigs == {[Plain EXCEPT !.limit = 2], [Plain EXCEPT !.limit = 2, !.low = 1]}

\* The background loops: no hysteresis; the same with refunds; hysteresis with
\* commit_max_age; eviction.
LoopConfigs ==
    {Plain, [Plain EXCEPT !.limit = 3, !.release = TRUE], Aged,
     [Plain EXCEPT !.limit = 2, !.evict = TRUE]}
=============================================================================
