------------------------------ MODULE MCSShard ------------------------------
(* Instances of SShard for TLC.                                            *)
EXTENDS SShard, TLC

\* Four cells; three of them hash to the last slot of a table of 4, so that probing
\* wraps around, and two cells of different keys have the same packed id.
MCPack == <<1, 1>> :> 3 @@ <<1, 2>> :> 7 @@ <<2, 1>> :> 3 @@ <<2, 2>> :> 4
MCDeltas == {-1, 1}
=============================================================================
