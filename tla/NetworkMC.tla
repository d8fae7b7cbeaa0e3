----------------------------- MODULE NetworkMC -----------------------------
(* TLC instances of Network.                                               *)
EXTENDS Network, TLC

(* All nodes run the same program.                                         *)
Symmetry == Permutations(Node)
=============================================================================
