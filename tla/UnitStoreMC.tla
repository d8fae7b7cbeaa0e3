---------------------------- MODULE UnitStoreMC ----------------------------
(* TLC instances of UnitStore: every DAG of four units.                    *)
EXTENDS UnitStore

MCUnit == 1 .. 4

(* The genesis unit has self weight 0 and the code's difficulty gives 1;   *)
(* the header of a peer's unit may say more.                               *)
MCSelfWeight == (1 :> 0) @@ (2 :> 1) @@ (3 :> 2) @@ (4 :> 1)
=============================================================================
