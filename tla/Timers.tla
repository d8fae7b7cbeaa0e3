------------------------------- MODULE Timers -------------------------------
(***************************************************************************)
(* threadpool::fixed_thread_pool, the timers: threads that run tasks at    *)
(* their clock, once or again and again.                                   *)
(*                                                                         *)
(* Clocks are kept as the time left, which Tick counts down to nothing; a  *)
(* thread may be late by any time.  As for the workers, a critical section *)
(* of mtx_ is one step.                                                    *)
(***************************************************************************)
EXTENDS Naturals, FiniteSets, Sequences, SequencesExt

CONSTANTS Timers,       \* the timer threads a pool may have (a bound)
          TimerTasks,   \* names for tasks in flight
          MaxInterval,  \* the longest interval_ms (a bound)
          NoTask,
          Spurious      \* TRUE: waits may return without a notification

ASSUME TimersAssumption ==
    /\ MaxInterval \in Nat \ {0}
    /\ NoTask \notin TimerTasks

VARIABLES timers_,           \* tasks_ of the timer, in the order of the multimap,
                             \* with the task that is about to go in
          is_timer_shutdown_,
          tpc,               \* where each timer thread is
          nap,               \* how long its sleep has yet to go
          firing,            \* the task it runs
          apc                \* where the thread is that calls execute

timerVars == <<timers_, is_timer_shutdown_, tpc, nap, firing, apc>>

info == [task : TimerTasks, interval_ms : 1 .. MaxInterval,
         left : 0 .. MaxInterval, is_cycle : BOOLEAN, in : BOOLEAN]

(* The places of the tasks that are in, and the first of them.             *)
Queued == {k \in DOMAIN timers_ : timers_[k].in}
First == timers_[Min(Queued)]

(* The order of the multimap.                                              *)
Sorted(queue) == \A i, j \in DOMAIN queue : i < j => queue[i].left <= queue[j].left

TimersTypeOK ==
    /\ timers_ \in Seq(info)
    /\ is_timer_shutdown_ \in BOOLEAN
    /\ tpc \in [Timers -> {"none", "loop", "sleep", "wait", "run", "exit"}]
    /\ nap \in [Timers -> 0 .. MaxInterval]
    /\ firing \in [Timers -> TimerTasks \cup {NoTask}]
    /\ apc \in {"idle", "insert", "notify"}
    /\ Sorted(timers_)

(* The constructor starts timer_count threads.                             *)
TimersInit ==
    /\ timers_ = << >> /\ is_timer_shutdown_ = FALSE
    /\ tpc \in [Timers -> {"none", "loop"}]
    /\ nap = [w \in Timers |-> 0]
    /\ firing = [w \in Timers |-> NoTask]
    /\ apc = "idle"

TimerGoto(w, pc) == tpc' = [tpc EXCEPT ![w] = pc]

(* emplace: behind the tasks with the same clock or an earlier one.        *)
Later(queue, i) == {k \in DOMAIN queue : queue[k].left > i.left}

EmplaceLast(queue, i) == Append(queue, i)
Emplace(queue, i) == InsertAt(queue, Min(Later(queue, i) \cup {Len(queue) + 1}), i)

----------------------------------------------------------------------------
(* A timer thread: one round of its loop.                                  *)

WholeInterval(i) == i.interval_ms
NapFor(i) == i.left

TimerSleep(w) ==
    /\ tpc[w] = "loop"
    /\ Queued # {}
    /\ First.left > 0
    /\ nap' = [nap EXCEPT ![w] = NapFor(First)]
    /\ TimerGoto(w, "sleep")
    /\ UNCHANGED <<timers_, is_timer_shutdown_, firing, apc>>

TimerWake(w) ==
    /\ tpc[w] = "sleep"
    /\ nap[w] = 0
    /\ TimerGoto(w, "loop")
    /\ UNCHANGED <<timers_, is_timer_shutdown_, nap, firing, apc>>

(* A task that is a cycle is put back with its next clock, and then the    *)
(* first is erased by its place.                                           *)
EraseByClock(queue, k) == SelectSeq(queue, LAMBDA i : i.left # queue[k].left)
Erase(queue, k) == RemoveAt(queue, k)

Reload(queue, i) ==
    IF i.is_cycle THEN Emplace(queue, [i EXCEPT !.left = i.interval_ms]) ELSE queue

TimerFire(w) ==
    /\ tpc[w] = "loop"
    /\ Queued # {}
    /\ First.left = 0
    /\ timers_' = Erase(Reload(timers_, First), Min(Queued))
    /\ firing' = [firing EXCEPT ![w] = First.task]
    /\ TimerGoto(w, "run")
    /\ UNCHANGED <<is_timer_shutdown_, nap, apc>>

TimerFinish(w) ==
    /\ tpc[w] = "run"
    /\ firing' = [firing EXCEPT ![w] = NoTask]
    /\ TimerGoto(w, "loop")
    /\ UNCHANGED <<timers_, is_timer_shutdown_, nap, apc>>

TimerExit(w) ==
    /\ tpc[w] = "loop"
    /\ Queued = {}
    /\ is_timer_shutdown_
    /\ TimerGoto(w, "exit")
    /\ UNCHANGED <<timers_, is_timer_shutdown_, nap, firing, apc>>

TimerWait(w) ==
    /\ tpc[w] = "loop"
    /\ Queued = {}
    /\ ~is_timer_shutdown_
    /\ TimerGoto(w, "wait")
    /\ UNCHANGED <<timers_, is_timer_shutdown_, nap, firing, apc>>

TimerSpurious(w) ==
    /\ Spurious
    /\ tpc[w] = "wait"
    /\ TimerGoto(w, "loop")
    /\ UNCHANGED <<timers_, is_timer_shutdown_, nap, firing, apc>>

----------------------------------------------------------------------------
(* execute with an interval: the clock is read first, then the task goes   *)
(* in under the mutex, then it is announced.                               *)

Arm(t) ==
    /\ apc = "idle"
    /\ t \notin {i.task : i \in Range(timers_)} \cup Range(firing)
    /\ \E d \in 1 .. MaxInterval, c \in BOOLEAN :
           timers_' = Emplace(timers_, [task |-> t, interval_ms |-> d, left |-> d,
                                        is_cycle |-> c, in |-> FALSE])
    /\ apc' = "insert"
    /\ UNCHANGED <<is_timer_shutdown_, tpc, nap, firing>>

ArmInsert ==
    /\ apc = "insert"
    /\ timers_' = [k \in DOMAIN timers_ |-> [timers_[k] EXCEPT !.in = TRUE]]
    /\ apc' = "notify"
    /\ UNCHANGED <<is_timer_shutdown_, tpc, nap, firing>>

NotifyNoTimer == UNCHANGED tpc

NotifyOneTimer ==
    IF \E w \in Timers : tpc[w] = "wait"
    THEN \E w \in Timers : tpc[w] = "wait" /\ TimerGoto(w, "loop")
    ELSE UNCHANGED tpc

ArmNotify ==
    /\ apc = "notify"
    /\ NotifyOneTimer
    /\ apc' = "idle"
    /\ UNCHANGED <<timers_, is_timer_shutdown_, nap, firing>>

NotifyNoTimers == UNCHANGED tpc
NotifyAllTimers ==
    tpc' = [w \in Timers |-> IF tpc[w] = "wait" THEN "loop" ELSE tpc[w]]

(* The destructor's second half.                                           *)
TimerShutdown ==
    /\ ~is_timer_shutdown_
    /\ is_timer_shutdown_' = TRUE
    /\ UNCHANGED <<timers_, tpc, nap, firing, apc>>

TimerShutdownNotify ==
    /\ is_timer_shutdown_
    /\ NotifyAllTimers
    /\ UNCHANGED <<timers_, is_timer_shutdown_, nap, firing, apc>>

Less(n) == IF n = 0 THEN 0 ELSE n - 1

Tick ==
    /\ timers_' = [k \in DOMAIN timers_ |-> [timers_[k] EXCEPT !.left = Less(@)]]
    /\ nap' = [w \in Timers |-> Less(nap[w])]
    /\ UNCHANGED <<is_timer_shutdown_, tpc, firing, apc>>

----------------------------------------------------------------------------
TimerStep(w) ==
    \/ TimerSleep(w) \/ TimerWake(w) \/ TimerFire(w) \/ TimerFinish(w)
    \/ TimerExit(w) \/ TimerWait(w)

(* Every thread that can go on does, sleeps end, and so does each task.    *)
TimersFair ==
    /\ \A w \in Timers : WF_timerVars(TimerStep(w))
    /\ WF_timerVars(Tick) /\ WF_timerVars(ArmInsert) /\ WF_timerVars(ArmNotify)
    /\ WF_timerVars(TimerShutdownNotify)

----------------------------------------------------------------------------
(* A task is queued only while some thread is not in the untimed wait, or  *)
(* the caller has yet to notify; the notification is sent once, after the  *)
(* mutex is released, and finds nobody when every thread sleeps or runs    *)
(* (threadpool.hpp:77, 127-138).                                           *)
TimersCovered ==
    (Queued # {} /\ \E w \in Timers : tpc[w] = "wait") =>
        apc = "notify" \/ \E w \in Timers : tpc[w] \in {"loop", "sleep", "run"}

(* How late a task can be: one that is added with an earlier clock than    *)
(* what the threads sleep for runs when they wake, and each of them wakes  *)
(* no later than some queued task is due: no thread sleeps past the last   *)
(* clock (threadpool.hpp:54-62).                                           *)
SleepsForATask ==
    \A w \in Timers :
        tpc[w] = "sleep" /\ nap[w] > 0 => \E k \in Queued : timers_[k].left = nap[w]

(* Every task that was added is run, whatever was added before or after it *)
(* and however often the cycles come round (threadpool.hpp:53-71).         *)
EveryTaskFires ==
    (\E w \in Timers : tpc[w] # "none") =>
        \A t \in TimerTasks :
            (\E i \in Range(timers_) : i.task = t)
                ~> (\E w \in Timers : firing[w] = t)
=============================================================================
