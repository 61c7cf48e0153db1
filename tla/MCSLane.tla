------------------------------ MODULE MCSLane ------------------------------
(* Instances of SLane for TLC: one cell, with deltas that may cancel out.  *)
EXTENDS SLane, TLC

MCPack == <<1, 1>> :> 2
MCDeltas == {-1, 1}
=============================================================================
