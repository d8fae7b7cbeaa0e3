------------------------------- MODULE DagMC -------------------------------
(* TLC instances of Dag.                                                   *)
EXTENDS Dag

(* The two network threads run the same code.                              *)
Symmetry == Permutations(Handlers)
=============================================================================
