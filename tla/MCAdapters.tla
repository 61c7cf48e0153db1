----------------------------- MODULE MCAdapters -----------------------------
(* Instances of Adapters for TLC: three commits of two keys.               *)
EXTENDS Adapters, TLC

CONSTANTS k1, k2, c1, c2, c3

MCKeyOf == c1 :> k1 @@ c2 :> k2 @@ c3 :> k1
MCVecOf == c1 :> 1 @@ c2 :> 2 @@ c3 :> -2
MCTokenOf == c1 :> 1 @@ c2 :> 0 @@ c3 :> 2
\* Overlapping batches of both orders.
MCBatches == {<<c1, c2>>, <<c2, c1>>, <<c3>>}
\* c1 and c3, which have the same key, are in different partitions.
MCPartitionOf == [id \in CommitIDs |-> IF id[1] = c3 THEN 1 ELSE 2]
=============================================================================
