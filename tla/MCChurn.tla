------------------------------ MODULE MCChurn ------------------------------
(* Instances of Churn for TLC.                                             *)
EXTENDS Churn

CONSTANTS k1

MCConfigs == {
    [enabled |-> TRUE, interval |-> TRUE, sampled |-> {k1}],
    [enabled |-> FALSE, interval |-> FALSE, sampled |-> {k1}]}
MCVectors == {-2}
=============================================================================
