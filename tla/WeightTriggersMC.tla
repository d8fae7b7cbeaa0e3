-------------------------- MODULE WeightTriggersMC --------------------------
(* TLC instances of WeightTriggers: every DAG of four units, tips in       *)
(* either order.                                                           *)
EXTENDS WeightTriggers

MCUnit == 1 .. 4

MCSelfWeight == (1 :> 0) @@ (2 :> 1) @@ (3 :> 2) @@ (4 :> 1)
=============================================================================
