----------------------------- MODULE ThreadPool -----------------------------
(***************************************************************************)
(* threadpool::fixed_thread_pool and the threads that use it: the producer *)
(* threads that startProdUnits detaches, and the thread that listens for   *)
(* commands and messages and calls execute on the spot.  The timers are in *)
(* a module of their own; they share nothing with the workers but the      *)
(* thread that constructs, calls and destroys the pool.                    *)
(*                                                                         *)
(* Every critical section of mtx_ is one step: condition variables release *)
(* the mutex when they wait, and nothing is waited for inside a section    *)
(* otherwise.  The notifications sent outside the mutex are steps of their *)
(* own.                                                                    *)
(***************************************************************************)
EXTENDS Timers

CONSTANTS Workers,    \* the threads a pool may have (a bound)
          Producers,  \* the threads startProdUnits may detach (a bound)
          Tasks,      \* names for tasks in flight; a finished task's name is
                      \* used again
          Destructs   \* TRUE: the pool is destroyed some time

ASSUME PoolAssumption ==
    /\ IsFiniteSet(Workers) /\ IsFiniteSet(Producers)
    /\ NoTask \notin Tasks \cup Producers
    /\ {Spurious, Destructs} \subseteq BOOLEAN

VARIABLES tasks_, is_start_, is_shutdown_,
          current,     \* the task each worker runs
          wpc,         \* where each worker is
          is_producing_,
          ppc,         \* where each producer thread is
          cpc          \* where the calling thread is

poolVars == <<tasks_, is_start_, is_shutdown_>>
workVars == <<poolVars, current, wpc, is_producing_, ppc, cpc>>
vars == <<workVars, timerVars>>

Free == Tasks \ (Range(tasks_) \cup Range(current))

WorkersTypeOK ==
    /\ tasks_ \in Seq(Tasks) /\ IsInjective(tasks_)
    /\ is_start_ \in BOOLEAN /\ is_shutdown_ \in BOOLEAN
    /\ current \in [Workers -> Tasks \cup {NoTask}]
    /\ wpc \in [Workers -> {"none", "loop", "wait_start", "wait", "run", "exit"}]
    /\ is_producing_ \in BOOLEAN
    /\ ppc \in [Producers -> {"off", "check", "wait_empty", "wait", "push", "notify"}]
    /\ cpc \in {"init", "idle", "notify", "destruct", "gone"}

TypeOK == WorkersTypeOK /\ TimersTypeOK

(* The constructor starts thread_count workers and timer_count timers.     *)
(* The program has pools of one and of two workers.  Its tasks go to the   *)
(* kind of thread that its pool has: a pool of both is two that do not     *)
(* meet, so that a pool has one kind here.                                 *)
HasWorkers == \E w \in Workers : wpc[w] # "none"
HasTimers == \E w \in Timers : tpc[w] # "none"

Init ==
    /\ tasks_ = << >> /\ is_start_ = FALSE /\ is_shutdown_ = FALSE
    /\ current = [w \in Workers |-> NoTask]
    /\ wpc \in [Workers -> {"none", "loop"}]
    /\ TimersInit
    /\ HasWorkers # HasTimers
    /\ is_producing_ = FALSE
    /\ ppc = [p \in Producers |-> "off"]
    /\ cpc = "init"

----------------------------------------------------------------------------
(* Condition variables: a waiting thread that is notified goes back for    *)
(* the mutex and looks again.                                              *)

NotifyIfFirst ==
    IF Len(tasks_) = 1 /\ \E w \in Workers : wpc[w] = "wait"
    THEN \E w \in Workers : wpc[w] = "wait" /\ wpc' = [wpc EXCEPT ![w] = "loop"]
    ELSE UNCHANGED wpc

NotifyOneWorker ==
    IF \E w \in Workers : wpc[w] = "wait"
    THEN \E w \in Workers : wpc[w] = "wait" /\ wpc' = [wpc EXCEPT ![w] = "loop"]
    ELSE UNCHANGED wpc

NotifyOneOfAll(from) ==
    IF \E w \in Workers : wpc[w] = from
    THEN \E w \in Workers : wpc[w] = from /\ wpc' = [wpc EXCEPT ![w] = "loop"]
    ELSE UNCHANGED wpc

NotifyAllWorkers(from) ==
    wpc' = [w \in Workers |-> IF wpc[w] = from THEN "loop" ELSE wpc[w]]

NotifyNoProducer == UNCHANGED ppc

NotifyOneProducer ==
    IF \E p \in Producers : ppc[p] = "wait"
    THEN \E p \in Producers : ppc[p] = "wait" /\ ppc' = [ppc EXCEPT ![p] = "wait_empty"]
    ELSE UNCHANGED ppc

----------------------------------------------------------------------------
(* A worker: one round of its loop, from the mutex to the next wait,       *)
(* unlock or end.                                                          *)

Goto(w, pc) == wpc' = [wpc EXCEPT ![w] = pc]

WaitForStart(w) ==
    /\ wpc[w] = "loop"
    /\ ~is_start_
    /\ Goto(w, "wait_start")
    /\ UNCHANGED <<poolVars, current, is_producing_, ppc, cpc>>

AllStay == tasks_
AllButFirst == Tail(tasks_)

TakeTask(w) ==
    /\ wpc[w] = "loop"
    /\ is_start_
    /\ tasks_ # << >>
    /\ current' = [current EXCEPT ![w] = Head(tasks_)]
    /\ tasks_' = AllButFirst
    /\ Goto(w, "run")
    /\ UNCHANGED <<is_start_, is_shutdown_, is_producing_, ppc, cpc>>

Exit(w) ==
    /\ wpc[w] = "loop"
    /\ is_start_
    /\ tasks_ = << >>
    /\ is_shutdown_
    /\ Goto(w, "exit")
    /\ UNCHANGED <<poolVars, current, is_producing_, ppc, cpc>>

WaitForTask(w) ==
    /\ wpc[w] = "loop"
    /\ is_start_
    /\ tasks_ = << >>
    /\ ~is_shutdown_
    /\ NotifyOneProducer
    /\ Goto(w, "wait")
    /\ UNCHANGED <<poolVars, current, is_producing_, cpc>>

FinishTask(w) ==
    /\ wpc[w] = "run"
    /\ current' = [current EXCEPT ![w] = NoTask]
    /\ Goto(w, "loop")
    /\ UNCHANGED <<poolVars, is_producing_, ppc, cpc>>

SpuriousWakeup(w) ==
    /\ Spurious
    /\ wpc[w] \in {"wait_start", "wait"}
    /\ Goto(w, "loop")
    /\ UNCHANGED <<poolVars, current, is_producing_, ppc, cpc>>

----------------------------------------------------------------------------
(* The calling thread.                                                     *)

(* Before anything else, and once more after a synchronisation.            *)
start ==
    /\ cpc \in {"init", "idle"}
    /\ is_start_' = TRUE
    /\ NotifyAllWorkers("wait_start")
    /\ cpc' = "idle"
    /\ UNCHANGED <<tasks_, is_shutdown_, current, is_producing_, ppc>>

EnqueueTwice == \E t \in Free : tasks_' = tasks_ \o <<t, t>>
Enqueue == \E t \in Free : tasks_' = Append(tasks_, t)

(* execute: the task is queued under the mutex and announced outside it.   *)
(* The bound leaves a name for each producer.                              *)
execute ==
    /\ cpc = "idle" /\ HasWorkers
    /\ Cardinality(Free) > Cardinality(Producers)
    /\ Enqueue
    /\ cpc' = "notify"
    /\ UNCHANGED <<is_start_, is_shutdown_, current, wpc, is_producing_, ppc>>

ExecuteNotify ==
    /\ cpc = "notify"
    /\ NotifyOneWorker
    /\ cpc' = "idle"
    /\ UNCHANGED <<poolVars, current, is_producing_, ppc>>

(* Each "start" command detaches another producer thread.                  *)
startProdUnits ==
    /\ cpc = "idle" /\ HasWorkers
    /\ is_producing_' = TRUE
    /\ \E p \in Producers : ppc[p] = "off" /\ ppc' = [ppc EXCEPT ![p] = "check"]
    /\ UNCHANGED <<poolVars, current, wpc, cpc>>

stopProdUnits ==
    /\ cpc = "idle"
    /\ is_producing_
    /\ is_producing_' = FALSE
    /\ UNCHANGED <<poolVars, current, wpc, ppc, cpc>>

(* ~fixed_thread_pool, in its two steps for the workers and then its two   *)
(* for the timers.  Nobody calls the pool afterwards.                      *)
Shutdown ==
    /\ Destructs
    /\ cpc = "idle" /\ apc = "idle"
    /\ \A p \in Producers : ppc[p] = "off"
    /\ is_shutdown_' = TRUE
    /\ cpc' = "destruct"
    /\ UNCHANGED <<tasks_, is_start_, current, wpc, is_producing_, ppc>>

ShutdownNotify ==
    /\ cpc = "destruct"
    /\ NotifyAllWorkers("wait")
    /\ cpc' = "gone"
    /\ UNCHANGED <<poolVars, current, is_producing_, ppc>>

----------------------------------------------------------------------------
(* A producer thread: while (is_producing_) { wait_empty(); pushInfo(); }  *)

CheckProducing(p) ==
    /\ ppc[p] = "check"
    /\ ppc' = [ppc EXCEPT ![p] = IF is_producing_ THEN "wait_empty" ELSE "off"]
    /\ UNCHANGED <<poolVars, current, wpc, is_producing_, cpc>>

(* The wait with a predicate: look, wait, look again.                      *)
wait_empty(p) ==
    /\ ppc[p] = "wait_empty"
    /\ ppc' = [ppc EXCEPT ![p] = IF tasks_ = << >> THEN "push" ELSE "wait"]
    /\ UNCHANGED <<poolVars, current, wpc, is_producing_, cpc>>

SpuriousLook(p) ==
    /\ Spurious
    /\ ppc[p] = "wait"
    /\ ppc' = [ppc EXCEPT ![p] = "wait_empty"]
    /\ UNCHANGED <<poolVars, current, wpc, is_producing_, cpc>>

ProducerPush(p) ==
    /\ ppc[p] = "push"
    /\ Enqueue
    /\ ppc' = [ppc EXCEPT ![p] = "notify"]
    /\ UNCHANGED <<is_start_, is_shutdown_, current, wpc, is_producing_, cpc>>

ProducerNotify(p) ==
    /\ ppc[p] = "notify"
    /\ NotifyOneWorker
    /\ ppc' = [ppc EXCEPT ![p] = "check"]
    /\ UNCHANGED <<poolVars, current, is_producing_, cpc>>

----------------------------------------------------------------------------
WorkerStep(w) ==
    WaitForStart(w) \/ TakeTask(w) \/ Exit(w) \/ WaitForTask(w) \/ FinishTask(w)

ProducerStep(p) ==
    CheckProducing(p) \/ wait_empty(p) \/ ProducerPush(p) \/ ProducerNotify(p)

WorkNext ==
    \/ \E w \in Workers : WorkerStep(w) \/ SpuriousWakeup(w)
    \/ start \/ execute \/ ExecuteNotify \/ startProdUnits \/ stopProdUnits
    \/ Shutdown \/ ShutdownNotify
    \/ \E p \in Producers : ProducerStep(p) \/ SpuriousLook(p)

TimersNext ==
    \/ \E w \in Timers : TimerStep(w) \/ TimerSpurious(w)
    \/ cpc = "idle" /\ HasTimers /\ \E t \in TimerTasks : Arm(t)
    \/ ArmInsert \/ ArmNotify
    \/ cpc = "gone" /\ TimerShutdown
    \/ TimerShutdownNotify
    \/ Tick

Next ==
    \/ WorkNext /\ UNCHANGED timerVars
    \/ TimersNext /\ UNCHANGED workVars

Spec == Init /\ [][Next]_vars

(* Every thread that can go on does; the pool is started (dag.init, the    *)
(* constructor of servBcast).  Nobody has to call execute.                 *)
FairSpec ==
    /\ Spec
    /\ \A w \in Workers : WF_workVars(WorkerStep(w))
    /\ \A p \in Producers : WF_workVars(ProducerStep(p))
    /\ WF_workVars(ExecuteNotify) /\ WF_workVars(ShutdownNotify) /\ WF_workVars(start)
    /\ TimersFair
    /\ WF_timerVars(cpc = "gone" /\ TimerShutdown)
----------------------------------------------------------------------------
Looking   == {w \in Workers : wpc[w] = "loop"}
Notifiers == {p \in Producers : ppc[p] = "notify"} \cup {c \in {NoTask} : cpc = "notify"}

WorkersCovered ==
    (\E w \in Workers : wpc[w] = "wait")
        => Len(tasks_) <= Cardinality(Looking) + Cardinality(Notifiers)

(* No lost wake-up: while a worker sleeps, each queued task has a worker   *)
(* that is going to look at the queue or a caller that is going to notify; *)
(* and what a timer waits for without a time-out is covered in its way     *)
(* (threadpool.hpp:33-45, 77, 117-138; the notifications are sent after    *)
(* the mutex is released).                                                 *)
QueuedTasksCovered == WorkersCovered /\ TimersCovered

(* A producer only sleeps while something is left to wake it: a worker     *)
(* that has yet to find the queue empty, or another producer that will     *)
(* fill it (threadpool.hpp:43, 111-115; is_empty_cond_ is notified one     *)
(* producer at a time).                                                    *)
EmptyWaitJustified ==
    (\E p \in Producers : ppc[p] = "wait") =>
        \/ \E w \in Workers : wpc[w] \in {"loop", "run", "wait_start"}
        \/ Notifiers # {}
        \/ \E p \in Producers : ppc[p] \in {"wait_empty", "push"}

(* A task is run by one worker at a time, and no task that is queued is    *)
(* running; tasks are taken in the order of the calls of execute, and      *)
(* every one of them is taken (threadpool.hpp:25-47, 117-124).             *)
Queue == INSTANCE TaskQueue WITH tasks <- tasks_

ImplementsQueue == Queue!Spec

ImplementsFairQueue == Queue!FairSpec

(* After a "pause", once no command or message follows, every producer     *)
(* thread ends: none sleeps on in wait_empty (dag.h:28,                    *)
(* threadpool.hpp:111-115).                                                *)
ProducersEnd ==
    <>[](~is_producing_ /\ cpc = "idle") => <>[](\A p \in Producers : ppc[p] = "off")

(* The destructor lets the queue run dry before the workers leave, and     *)
(* lets the timed tasks that are no cycles run before the timers leave; a  *)
(* cycle keeps its threads for ever (threadpool.hpp:39, 73, 87-103).       *)
DrainsOnShutdown ==
    /\ is_shutdown_ ~> tasks_ = << >> /\ \A w \in Workers : wpc[w] \in {"none", "exit"}
    /\ is_timer_shutdown_ ~>
          \/ \A w \in Timers : tpc[w] \in {"none", "exit"}
          \/ \E i \in Range(timers_) : i.is_cycle
=============================================================================
