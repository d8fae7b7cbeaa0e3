-------------------------------- MODULE Host --------------------------------
(***************************************************************************)
(* A process of the program: its file, its start, what it serves, and the  *)
(* thread that reads the sensors.                                          *)
(*                                                                         *)
(* The reader's variables are its own, and the node's are not the          *)
(* reader's: pushInfo only queues a task, and a unit may be made at any    *)
(* time because of commands anyway.  Their steps commute, so that they are *)
(* explored one after the other: the reader on a node that has just come   *)
(* up alone for the first time, and once it reads the node stands still.   *)
(***************************************************************************)
EXTENDS NodeFile, Serial

vars == <<nodeVars, serialVars>>

TypeOK == NodeTypeOK /\ SerialTypeOK

Init == NodeInit /\ SerialInit

JustUp == at = Up /\ rows = {} /\ tipsPool_ = {genesis(Genesis)}

Next ==
    \/ ~init_ok /\ NodeNext /\ UNCHANGED serialVars
    \/ JustUp /\ start_read /\ UNCHANGED nodeVars
    \/ SerialStep /\ UNCHANGED nodeVars

Spec == Init /\ [][Next]_vars
=============================================================================
