----------------------------- MODULE TaskQueue -----------------------------
(***************************************************************************)
(* What fixed_thread_pool promises to those who call execute: tasks are    *)
(* taken in the order in which they were handed over, each by one worker,  *)
(* once, and none waits for ever.                                          *)
(***************************************************************************)
EXTENDS Naturals, Sequences, Functions

CONSTANTS Workers, Tasks, NoTask

VARIABLES tasks,    \* tasks handed over and not yet taken
          current   \* the task each worker runs

vars == <<tasks, current>>

Idle == Tasks \ (Range(tasks) \cup Range(current))

Init ==
    /\ tasks = << >>
    /\ current = [w \in Workers |-> NoTask]

Submit ==
    /\ \E t \in Idle : tasks' = Append(tasks, t)
    /\ UNCHANGED current

Take(w) ==
    /\ current[w] = NoTask
    /\ tasks # << >>
    /\ current' = [current EXCEPT ![w] = Head(tasks)]
    /\ tasks' = Tail(tasks)

Finish(w) ==
    /\ current[w] # NoTask
    /\ current' = [current EXCEPT ![w] = NoTask]
    /\ UNCHANGED tasks

Next == Submit \/ \E w \in Workers : Take(w) \/ Finish(w)

Spec == Init /\ [][Next]_vars

(* Some worker takes the first task; whoever runs a task finishes it.      *)
FairSpec ==
    /\ Spec
    /\ WF_vars(\E w \in Workers : Take(w))
    /\ \A w \in Workers : WF_vars(Finish(w))
=============================================================================
