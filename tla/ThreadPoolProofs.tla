-------------------------- MODULE ThreadPoolProofs --------------------------
(***************************************************************************)
(* Theorems about ThreadPool, for every number of workers, timers and      *)
(* producers, any tasks and any intervals.                                 *)
(***************************************************************************)
EXTENDS ThreadPool, SequenceFacts, FiniteSetTheorems

TimersInv == TimersTypeOK /\ TimersCovered /\ SleepsForATask

----------------------------------------------------------------------------
(* The multimap.                                                           *)

LEMMA InfoFields ==
    ASSUME NEW i \in info
    PROVE  /\ i.task \in TimerTasks /\ i.left \in Nat /\ i.left <= MaxInterval
           /\ i.interval_ms \in Nat /\ 1 <= i.interval_ms /\ i.interval_ms <= MaxInterval
           /\ MaxInterval \in Nat
BY TimersAssumption DEF info

(* A task that goes in keeps the order and every task that was there, and  *)
(* those before it keep their places.                                      *)
LEMMA EmplaceKeeps ==
    ASSUME NEW q \in Seq(info), Sorted(q), NEW i \in info
    PROVE  LET r == Emplace(q, i) IN
           /\ r \in Seq(info) /\ Sorted(r) /\ Len(r) = Len(q) + 1
           /\ \A k \in DOMAIN q : \E j \in DOMAIN r : r[j] = q[k] /\ (j = k \/ j = k + 1)
           /\ \A j \in DOMAIN r : r[j] = i \/ \E k \in DOMAIN q : r[j] = q[k]
           /\ \A k \in DOMAIN q : q[k].left <= i.left => r[k] = q[k]
<1> DEFINE T == Later(q, i) \cup {Len(q) + 1}
           m == Min(T)
           r == Emplace(q, i)
<1>1. /\ Len(q) \in Nat /\ DOMAIN q = 1 .. Len(q)
      /\ \A k \in DOMAIN q : q[k] \in info /\ q[k].left \in Nat
      /\ i.left \in Nat
  BY LenProperties, ElementOfSeq, InfoFields
<1>2. m \in T /\ \A k \in T : m <= k
  <2>1. T \subseteq Nat /\ T # {}
    BY <1>1 DEF Later
  <2> HIDE DEF T
  <2> QED
    BY <2>1, MinOfNaturals
<1>3. /\ m \in 1 .. Len(q) + 1
      /\ \A k \in DOMAIN q : k < m => q[k].left <= i.left
      /\ \A k \in DOMAIN q : m <= k => q[k].left > i.left
  <2>1. m \in 1 .. Len(q) + 1
    BY <1>1, <1>2 DEF Later
  <2>2. ASSUME NEW k \in DOMAIN q, k < m PROVE q[k].left <= i.left
    <3>1. k \notin T
      <4> HIDE DEF T, m
      <4>1. k \in Nat /\ m \in Nat
        BY <1>1, <2>1
      <4> QED
        BY <1>2, <2>2, <4>1
    <3> QED
      BY <1>1, <2>2, <3>1 DEF Later
  <2>3. ASSUME NEW k \in DOMAIN q, m <= k PROVE q[k].left > i.left
    <3>1. m \in DOMAIN q /\ q[m].left > i.left
      BY <1>1, <1>2, <2>1, <2>3 DEF Later
    <3>2. q[m].left <= q[k].left
      BY <1>1, <2>1, <2>3, <3>1 DEF Sorted
    <3> QED
      BY <1>1, <3>1, <3>2
  <2> HIDE DEF m
  <2> QED
    BY <2>1, <2>2, <2>3
<1> HIDE DEF m
<1>4. r = InsertAt(q, m, i)
  BY DEF Emplace, m
<1> HIDE DEF r
<1>5. /\ r \in Seq(info) /\ Len(r) = Len(q) + 1
      /\ \A k \in 1 .. m - 1 : r[k] = q[k]
      /\ r[m] = i
      /\ \A k \in m + 1 .. Len(q) + 1 : r[k] = q[k - 1]
  <2>1. /\ InsertAt(q, m, i) \in Seq(info) /\ Len(InsertAt(q, m, i)) = Len(q) + 1
        /\ \A k \in 1 .. m - 1 : InsertAt(q, m, i)[k] = q[k]
        /\ InsertAt(q, m, i)[m] = i
        /\ \A k \in m + 1 .. Len(q) + 1 : InsertAt(q, m, i)[k] = q[k - 1]
    BY <1>3, InsertAtPlaces
  <2> QED
    BY <1>4, <2>1
<1>6. DOMAIN r = 1 .. Len(q) + 1
  BY <1>5, LenProperties
<1>7. ASSUME NEW k \in DOMAIN q
      PROVE  \E j \in DOMAIN r : r[j] = q[k] /\ (j = k \/ j = k + 1)
  <2>1. CASE k < m
    BY <1>1, <1>3, <1>5, <1>6, <2>1
  <2>2. CASE ~(k < m)
    <3>1. k + 1 \in m + 1 .. Len(q) + 1 /\ k + 1 \in DOMAIN r /\ (k + 1) - 1 = k
      BY <1>1, <1>3, <1>6, <2>2
    <3> QED
      BY <1>5, <3>1
  <2> QED
    BY <2>1, <2>2
<1>8. ASSUME NEW j \in DOMAIN r
      PROVE  \/ j < m /\ j \in DOMAIN q /\ r[j] = q[j]
             \/ j = m /\ r[j] = i
             \/ j > m /\ j - 1 \in DOMAIN q /\ r[j] = q[j - 1]
  BY <1>1, <1>3, <1>5, <1>6
<1>9. Sorted(r)
  <2> SUFFICES ASSUME NEW a \in DOMAIN r, NEW b \in DOMAIN r, a < b
               PROVE  r[a].left <= r[b].left
    BY DEF Sorted
  <2>1. a \in Nat /\ b \in Nat /\ m \in Nat
    BY <1>1, <1>3, <1>6
  <2>2. \A x, y \in DOMAIN q : x < y => q[x].left <= q[y].left
    BY DEF Sorted
  <2>3. CASE b < m
    BY <1>8, <2>1, <2>2, <2>3
  <2>4. CASE b = m
    BY <1>3, <1>8, <2>1, <2>4
  <2>5. CASE b > m
    <3>1. b - 1 \in DOMAIN q /\ r[b] = q[b - 1] /\ m <= b - 1
      BY <1>8, <2>1, <2>5
    <3>2. CASE a < m
      <4>1. a \in DOMAIN q /\ r[a] = q[a] /\ a < b - 1
        BY <1>8, <2>1, <3>1, <3>2
      <4> QED
        BY <2>2, <3>1, <4>1
    <3>3. CASE a = m
      BY <1>1, <1>3, <1>8, <2>1, <3>1, <3>3
    <3>4. CASE a > m
      <4>1. a - 1 \in DOMAIN q /\ r[a] = q[a - 1] /\ a - 1 < b - 1
        BY <1>8, <2>1, <3>4
      <4> QED
        BY <2>2, <3>1, <4>1
    <3> QED
      BY <2>1, <3>2, <3>3, <3>4
  <2> QED
    BY <2>1, <2>3, <2>4, <2>5
<1>10. ASSUME NEW k \in DOMAIN q, q[k].left <= i.left
       PROVE  r[k] = q[k]
  <2>1. k \in Nat /\ 1 <= k /\ m \in Nat
    BY <1>1, <1>3
  <2>2. q[k].left \in Nat /\ i.left \in Nat
    BY <1>1
  <2>3. ~(m <= k)
    BY <1>3, <1>10, <2>2
  <2>4. k \in 1 .. m - 1
    BY <2>1, <2>3
  <2> QED
    BY <1>5, <2>4
<1> QED
  BY <1>5, <1>7, <1>8, <1>9, <1>10 DEF r

LEMMA FirstQueued ==
    ASSUME TimersTypeOK, Queued # {}
    PROVE  /\ Min(Queued) \in Queued /\ Queued \subseteq DOMAIN timers_
           /\ First = timers_[Min(Queued)] /\ First \in info
<1>1. Queued \subseteq Nat /\ Queued \subseteq DOMAIN timers_
  BY LenProperties DEF Queued, TimersTypeOK
<1>2. Min(Queued) \in Queued
  BY <1>1, MinOfNaturals
<1> QED
  BY <1>1, <1>2, ElementOfSeq, LenProperties DEF First, TimersTypeOK

----------------------------------------------------------------------------
(* The timers.                                                             *)

LEMMA TimersInitial == TimersInit => TimersInv
<1> SUFFICES ASSUME TimersInit PROVE TimersInv
  OBVIOUS
<1>1. 0 \in 0 .. MaxInterval
  BY TimersAssumption
<1>2. timers_ = << >> /\ DOMAIN timers_ = {} /\ timers_ \in Seq(info)
  BY DEF TimersInit
<1>3. TimersTypeOK
  BY <1>1, <1>2 DEF TimersInit, TimersTypeOK, Sorted
<1>4. TimersCovered /\ SleepsForATask
  BY <1>2 DEF TimersInit, TimersCovered, SleepsForATask, Queued
<1> QED
  BY <1>3, <1>4 DEF TimersInv

(* Steps that leave the queue and the sleeps alone.                        *)
LEMMA QuietStep ==
    ASSUME TimersInv, UNCHANGED <<timers_, nap>>,
           \/ \E w \in Timers : \/ TimerWake(w) \/ TimerFinish(w) \/ TimerExit(w)
                                \/ TimerWait(w) \/ TimerSpurious(w)
           \/ ArmNotify \/ TimerShutdown \/ TimerShutdownNotify
    PROVE  TimersInv'
<1>1. TimersTypeOK'
  BY DEF TimersInv, TimersTypeOK, TimerWake, TimerFinish, TimerExit, TimerWait, TimerSpurious,
         ArmNotify, NotifyOneTimer, TimerShutdown, TimerShutdownNotify, NotifyAllTimers, TimerGoto
<1>2. /\ Queued' = Queued
      /\ \A w \in Timers : tpc'[w] = "sleep" => tpc[w] = "sleep"
  BY DEF TimersInv, TimersTypeOK, TimerWake, TimerFinish, TimerExit, TimerWait, TimerSpurious,
         ArmNotify, NotifyOneTimer, TimerShutdown, TimerShutdownNotify, NotifyAllTimers, TimerGoto,
         Queued
<1>3. SleepsForATask'
  BY <1>2 DEF TimersInv, SleepsForATask
<1>4. TimersCovered'
  <2>1. CASE \E w \in Timers : TimerExit(w) \/ TimerWait(w)
    BY <1>2, <2>1 DEF TimersCovered, TimerExit, TimerWait
  <2>2. CASE \E w \in Timers : TimerWake(w) \/ TimerFinish(w) \/ TimerSpurious(w)
    <3>1. PICK w \in Timers : tpc'[w] = "loop"
      BY <2>2 DEF TimersInv, TimersTypeOK, TimerWake, TimerFinish, TimerSpurious, TimerGoto
    <3> QED
      BY <3>1 DEF TimersCovered
  <2>3. CASE ArmNotify
    <3>1. CASE \E w \in Timers : tpc[w] = "wait"
      <4>1. PICK w \in Timers : tpc' = [tpc EXCEPT ![w] = "loop"]
        BY <2>3, <3>1 DEF ArmNotify, NotifyOneTimer, TimerGoto
      <4>2. tpc'[w] = "loop"
        BY <4>1 DEF TimersInv, TimersTypeOK
      <4> QED
        BY <4>2 DEF TimersCovered
    <3>2. CASE ~\E w \in Timers : tpc[w] = "wait"
      BY <2>3, <3>2 DEF ArmNotify, NotifyOneTimer, TimersCovered
    <3> QED
      BY <3>1, <3>2
  <2>4. CASE TimerShutdown
    BY <1>2, <2>4 DEF TimerShutdown, TimersInv, TimersCovered
  <2>5. CASE TimerShutdownNotify
    <3>1. \A w \in Timers : tpc'[w] # "wait"
      BY <2>5 DEF TimerShutdownNotify, NotifyAllTimers
    <3> QED
      BY <3>1 DEF TimersCovered
  <2> QED
    BY <2>1, <2>2, <2>3, <2>4, <2>5
<1> QED
  BY <1>1, <1>3, <1>4 DEF TimersInv

LEMMA SleepStep ==
    ASSUME TimersInv, NEW w \in Timers, TimerSleep(w)
    PROVE  TimersInv'
<1>1. /\ tpc' = [tpc EXCEPT ![w] = "sleep"] /\ tpc'[w] = "sleep"
      /\ nap' = [nap EXCEPT ![w] = First.left]
      /\ UNCHANGED <<timers_, is_timer_shutdown_, firing, apc>>
      /\ Queued # {} /\ Queued' = Queued
  BY DEF TimerSleep, NapFor, TimerGoto, TimersInv, TimersTypeOK, Queued
<1>2. First.left \in 0 .. MaxInterval /\ First = timers_[Min(Queued)] /\ Min(Queued) \in Queued
  BY <1>1, FirstQueued, InfoFields DEF TimersInv
<1>3. TimersTypeOK'
  BY <1>1, <1>2 DEF TimersInv, TimersTypeOK, Sorted
<1>4. TimersCovered'
  BY <1>1 DEF TimersCovered
<1>5. SleepsForATask'
  <2> SUFFICES ASSUME NEW v \in Timers, tpc'[v] = "sleep", nap'[v] > 0
               PROVE  \E k \in Queued : timers_[k].left = nap'[v]
    BY <1>1 DEF SleepsForATask
  <2>1. CASE v = w
    BY <1>1, <1>2, <2>1 DEF TimersInv, TimersTypeOK
  <2>2. CASE v # w
    BY <1>1, <2>2 DEF TimersInv, TimersTypeOK, SleepsForATask
  <2> QED
    BY <2>1, <2>2
<1> QED
  BY <1>3, <1>4, <1>5 DEF TimersInv

(* Firing takes a task away that nobody sleeps for: it is due.             *)
LEMMA FireStep ==
    ASSUME TimersInv, NEW w \in Timers, TimerFire(w)
    PROVE  TimersInv'
<1> DEFINE q == timers_
           m == Min(Queued)
           f == timers_[m]
           r == Reload(q, f)
<1>1. /\ q \in Seq(info) /\ Sorted(q) /\ DOMAIN q = 1 .. Len(q) /\ Len(q) \in Nat
      /\ m \in Queued /\ m \in DOMAIN q /\ f \in info /\ f.left = 0 /\ First = f
      /\ \A k \in DOMAIN q : q[k] \in info /\ q[k].left \in Nat
  BY FirstQueued, LenProperties, ElementOfSeq, InfoFields
     DEF TimersInv, TimersTypeOK, TimerFire, Queued
<1>2. /\ timers_' = RemoveAt(r, m) /\ firing' = [firing EXCEPT ![w] = f.task]
      /\ tpc' = [tpc EXCEPT ![w] = "run"] /\ UNCHANGED <<is_timer_shutdown_, nap, apc>>
  BY <1>1 DEF TimerFire, Erase, TimerGoto
<1> HIDE DEF f, m
<1>3. /\ r \in Seq(info) /\ Sorted(r) /\ r[m] = f /\ m \in 1 .. Len(r) /\ DOMAIN r = 1 .. Len(r)
      /\ \A k \in DOMAIN q : \E j \in DOMAIN r : r[j] = q[k] /\ (k # m => j # m)
  <2>1. CASE f.is_cycle
    <3> DEFINE i == [f EXCEPT !.left = f.interval_ms]
    <3>1. i \in info /\ i.left = f.interval_ms /\ i.left > 0
      <4>1. f.interval_ms \in 1 .. MaxInterval /\ MaxInterval \in Nat /\ f \in info
        BY <1>1, InfoFields DEF info
      <4>2. i \in info /\ i.left = f.interval_ms
        BY <4>1 DEF info
      <4> HIDE DEF i
      <4> QED
        BY <4>1, <4>2
    <3>2. r = Emplace(q, i)
      BY <2>1 DEF Reload
    <3> HIDE DEF i, r
    <3>3. /\ r \in Seq(info) /\ Sorted(r) /\ Len(r) = Len(q) + 1
          /\ \A k \in DOMAIN q : \E j \in DOMAIN r : r[j] = q[k] /\ (j = k \/ j = k + 1)
          /\ \A k \in DOMAIN q : q[k].left <= i.left => r[k] = q[k]
      <4> HIDE DEF q
      <4>1. q \in Seq(info) /\ Sorted(q) /\ i \in info
        BY <1>1, <3>1
      <4>2. LET e == Emplace(q, i) IN
            /\ e \in Seq(info) /\ Sorted(e) /\ Len(e) = Len(q) + 1
            /\ \A k \in DOMAIN q : \E j \in DOMAIN e : e[j] = q[k] /\ (j = k \/ j = k + 1)
            /\ \A k \in DOMAIN q : q[k].left <= i.left => e[k] = q[k]
        BY <4>1, EmplaceKeeps
      <4> QED
        BY <3>2, <4>2
    <3>4. q[m].left <= i.left /\ q[m] = f
      BY <1>1, <3>1, InfoFields DEF f
    <3>5. ASSUME NEW k \in DOMAIN q
          PROVE  \E j \in DOMAIN r : r[j] = q[k] /\ (k # m => j # m)
      <4>1. CASE k < m
        <5>1. q[k].left <= q[m].left
          BY <1>1, <4>1 DEF Sorted
        <5>2. q[k].left <= i.left
          BY <1>1, <3>1, <3>4, <5>1, InfoFields
        <5>3. r[k] = q[k] /\ k \in DOMAIN r /\ k # m
          BY <1>1, <3>3, <4>1, <5>2, LenProperties
        <5> QED
          BY <5>3
      <4>2. CASE k = m
        BY <3>3, <4>2
      <4>3. CASE k > m
        <5>1. PICK j \in DOMAIN r : r[j] = q[k] /\ (j = k \/ j = k + 1)
          BY <3>3
        <5>2. j # m
          BY <1>1, <4>3, <5>1
        <5> QED
          BY <5>1, <5>2
      <4> QED
        BY <1>1, <4>1, <4>2, <4>3
    <3> QED
      BY <1>1, <3>3, <3>4, <3>5, LenProperties
  <2>2. CASE ~f.is_cycle
    <3>1. r = q
      BY <2>2 DEF Reload
    <3> QED
      BY <1>1, <3>1 DEF f
  <2> QED
    BY <2>1, <2>2
<1> HIDE DEF r
<1>4. /\ timers_' \in Seq(info) /\ Len(timers_') = Len(r) - 1
      /\ DOMAIN timers_' = 1 .. Len(r) - 1
      /\ \A k \in 1 .. m - 1 : timers_'[k] = r[k]
      /\ \A k \in m .. Len(r) - 1 : timers_'[k] = r[k + 1]
  BY <1>2, <1>3, RemoveAtPlaces, LenProperties
<1>5. Len(r) \in Nat
  BY <1>3, LenProperties
<1>6. Sorted(timers_')
  <2> SUFFICES ASSUME NEW a \in DOMAIN timers_', NEW b \in DOMAIN timers_', a < b
               PROVE  timers_'[a].left <= timers_'[b].left
    BY DEF Sorted
  <2>1. PICK x \in DOMAIN r : timers_'[a] = r[x] /\ (a < m => x = a) /\ (a >= m => x = a + 1)
    <3>1. a \in Nat /\ m \in Nat /\ a \in 1 .. Len(r) - 1
      BY <1>1, <1>4
    <3>2. CASE a < m
      <4>1. a \in 1 .. m - 1 /\ a \in DOMAIN r
        BY <1>3, <1>5, <3>1, <3>2
      <4> QED
        BY <1>4, <3>1, <3>2, <4>1
    <3>3. CASE ~(a < m)
      <4>1. a \in m .. Len(r) - 1 /\ a + 1 \in DOMAIN r
        BY <1>3, <1>5, <3>1, <3>3
      <4> QED
        BY <1>4, <3>1, <3>3, <4>1
    <3> QED
      BY <3>2, <3>3
  <2>2. PICK y \in DOMAIN r : timers_'[b] = r[y] /\ (b < m => y = b) /\ (b >= m => y = b + 1)
    <3>1. b \in Nat /\ m \in Nat /\ b \in 1 .. Len(r) - 1
      BY <1>1, <1>4
    <3>2. CASE b < m
      <4>1. b \in 1 .. m - 1 /\ b \in DOMAIN r
        BY <1>3, <1>5, <3>1, <3>2
      <4> QED
        BY <1>4, <3>1, <3>2, <4>1
    <3>3. CASE ~(b < m)
      <4>1. b \in m .. Len(r) - 1 /\ b + 1 \in DOMAIN r
        BY <1>3, <1>5, <3>1, <3>3
      <4> QED
        BY <1>4, <3>1, <3>3, <4>1
    <3> QED
      BY <3>2, <3>3
  <2>3. x < y
    BY <1>1, <1>3, <1>4, <1>5, <2>1, <2>2
  <2> QED
    BY <1>3, <2>1, <2>2, <2>3 DEF Sorted
<1>7. ASSUME NEW k \in DOMAIN q, k # m
      PROVE  \E j \in DOMAIN timers_' : timers_'[j] = q[k]
  <2>1. PICK j \in DOMAIN r : r[j] = q[k] /\ j # m
    BY <1>3, <1>7
  <2>2. CASE j < m
    BY <1>1, <1>3, <1>4, <1>5, <2>1, <2>2
  <2>3. CASE j > m
    <3>1. j - 1 \in m .. Len(r) - 1 /\ (j - 1) + 1 = j /\ j - 1 \in DOMAIN timers_'
      BY <1>1, <1>3, <1>4, <1>5, <2>1, <2>3
    <3> QED
      BY <1>4, <2>1, <3>1
  <2> QED
    BY <1>1, <1>3, <1>5, <2>1, <2>2, <2>3
<1>8. TimersTypeOK'
  <2>1. f.task \in TimerTasks
    BY <1>1, InfoFields
  <2> QED
    BY <1>2, <1>4, <1>6, <2>1 DEF TimersInv, TimersTypeOK
<1>9. TimersCovered'
  <2>1. tpc'[w] = "run"
    BY <1>2 DEF TimersInv, TimersTypeOK
  <2> QED
    BY <2>1 DEF TimersCovered
<1>10. SleepsForATask'
  <2> SUFFICES ASSUME NEW v \in Timers, tpc'[v] = "sleep", nap'[v] > 0
               PROVE  \E j \in Queued' : timers_'[j].left = nap'[v]
    BY DEF SleepsForATask
  <2>1. tpc[v] = "sleep" /\ nap[v] > 0 /\ nap'[v] = nap[v]
    BY <1>2 DEF TimersInv, TimersTypeOK
  <2>2. PICK k \in Queued : timers_[k].left = nap[v]
    BY <2>1 DEF TimersInv, SleepsForATask
  <2>3. k \in DOMAIN q /\ k # m /\ q[k].in
    <3>1. nap[v] # 0
      BY <2>1
    <3> QED
      BY <1>1, <2>2, <3>1 DEF Queued, f
  <2>4. PICK j \in DOMAIN timers_' : timers_'[j] = q[k]
    BY <1>7, <2>3
  <2> QED
    BY <2>1, <2>2, <2>3, <2>4 DEF Queued
<1> QED
  BY <1>8, <1>9, <1>10 DEF TimersInv

LEMMA ArmStep ==
    ASSUME TimersInv, NEW t \in TimerTasks, Arm(t)
    PROVE  TimersInv'
<1>1. PICK i \in info :
         /\ ~i.in /\ timers_' = Emplace(timers_, i)
         /\ apc = "idle" /\ apc' = "insert" /\ UNCHANGED <<is_timer_shutdown_, tpc, nap, firing>>
  <2>1. PICK d \in 1 .. MaxInterval, c \in BOOLEAN :
           timers_' = Emplace(timers_, [task |-> t, interval_ms |-> d, left |-> d,
                                        is_cycle |-> c, in |-> FALSE])
    BY DEF Arm
  <2>2. [task |-> t, interval_ms |-> d, left |-> d, is_cycle |-> c, in |-> FALSE] \in info
    BY TimersAssumption DEF info
  <2> QED
    BY <2>1, <2>2 DEF Arm
<1>2. /\ timers_' \in Seq(info) /\ Sorted(timers_')
      /\ \A k \in DOMAIN timers_ : \E j \in DOMAIN timers_' : timers_'[j] = timers_[k]
      /\ \A j \in DOMAIN timers_' :
            timers_'[j] = i \/ \E k \in DOMAIN timers_ : timers_'[j] = timers_[k]
  BY <1>1, EmplaceKeeps DEF TimersInv, TimersTypeOK
<1>3. TimersTypeOK'
  BY <1>1, <1>2 DEF TimersInv, TimersTypeOK
<1>4. TimersCovered'
  <2>1. Queued' # {} => Queued # {}
    BY <1>1, <1>2 DEF Queued
  <2> QED
    BY <1>1, <2>1 DEF TimersInv, TimersCovered
<1>5. SleepsForATask'
  <2> SUFFICES ASSUME NEW v \in Timers, tpc[v] = "sleep", nap[v] > 0
               PROVE  \E j \in Queued' : timers_'[j].left = nap[v]
    BY <1>1 DEF SleepsForATask
  <2>1. PICK k \in Queued : timers_[k].left = nap[v]
    BY DEF TimersInv, SleepsForATask
  <2>2. PICK j \in DOMAIN timers_' : timers_'[j] = timers_[k]
    BY <1>2, <2>1 DEF Queued
  <2> QED
    BY <2>1, <2>2 DEF Queued
<1> QED
  BY <1>3, <1>4, <1>5 DEF TimersInv

LEMMA ArmInsertStep ==
    ASSUME TimersInv, ArmInsert
    PROVE  TimersInv'
<1>1. /\ timers_' = [k \in DOMAIN timers_ |-> [timers_[k] EXCEPT !.in = TRUE]]
      /\ apc' = "notify" /\ UNCHANGED <<is_timer_shutdown_, tpc, nap, firing>>
  BY DEF ArmInsert
<1>2. /\ \A k \in DOMAIN timers_ : timers_[k] \in info
      /\ DOMAIN timers_ = 1 .. Len(timers_) /\ Len(timers_) \in Nat
  BY LenProperties, ElementOfSeq DEF TimersInv, TimersTypeOK
<1>3. /\ DOMAIN timers_' = DOMAIN timers_
      /\ \A k \in DOMAIN timers_ : /\ timers_'[k] \in info /\ timers_'[k].in
                                   /\ timers_'[k].left = timers_[k].left
  BY <1>1, <1>2 DEF info
<1>4. timers_' \in Seq(info)
  <2>1. timers_' \in [1 .. Len(timers_) -> info]
    BY <1>1, <1>2, <1>3
  <2> QED
    BY <1>2, <2>1
<1>5. TimersTypeOK'
  <2>1. Sorted(timers_')
    BY <1>3 DEF TimersInv, TimersTypeOK, Sorted
  <2> QED
    BY <1>1, <1>4, <2>1 DEF TimersInv, TimersTypeOK
<1>6. TimersCovered'
  BY <1>1 DEF TimersCovered
<1>7. SleepsForATask'
  <2> SUFFICES ASSUME NEW v \in Timers, tpc[v] = "sleep", nap[v] > 0
               PROVE  \E k \in Queued' : timers_'[k].left = nap[v]
    BY <1>1 DEF SleepsForATask
  <2>1. PICK k \in Queued : timers_[k].left = nap[v]
    BY DEF TimersInv, SleepsForATask
  <2> QED
    BY <1>3, <2>1 DEF Queued
<1> QED
  BY <1>5, <1>6, <1>7 DEF TimersInv

(* The clock goes on for the tasks and for those who sleep alike.          *)
LEMMA TickStep ==
    ASSUME TimersInv, Tick
    PROVE  TimersInv'
<1>1. /\ timers_' = [k \in DOMAIN timers_ |-> [timers_[k] EXCEPT !.left = Less(timers_[k].left)]]
      /\ nap' = [w \in Timers |-> Less(nap[w])]
      /\ UNCHANGED <<is_timer_shutdown_, tpc, firing, apc>>
  BY DEF Tick
<1>2. /\ \A k \in DOMAIN timers_ : timers_[k] \in info
      /\ DOMAIN timers_ = 1 .. Len(timers_) /\ Len(timers_) \in Nat
  BY LenProperties, ElementOfSeq DEF TimersInv, TimersTypeOK
<1>3. \A n \in 0 .. MaxInterval : Less(n) \in 0 .. MaxInterval
  BY TimersAssumption DEF Less
<1>4. /\ DOMAIN timers_' = DOMAIN timers_
      /\ \A k \in DOMAIN timers_ : /\ timers_'[k] \in info /\ timers_'[k].in = timers_[k].in
                                   /\ timers_'[k].left = Less(timers_[k].left)
  <2>1. DOMAIN timers_' = DOMAIN timers_
    BY <1>1
  <2>2. ASSUME NEW k \in DOMAIN timers_
        PROVE  /\ timers_'[k] \in info /\ timers_'[k].in = timers_[k].in
               /\ timers_'[k].left = Less(timers_[k].left)
    <3>1. timers_[k].left \in 0 .. MaxInterval /\ timers_[k] \in info
      BY <1>2 DEF info
    <3>2. timers_'[k] = [timers_[k] EXCEPT !.left = Less(timers_[k].left)]
      BY <1>1
    <3>3. Less(timers_[k].left) \in 0 .. MaxInterval
      BY <1>3, <3>1
    <3> QED
      BY <3>1, <3>2, <3>3 DEF info
  <2> QED
    BY <2>1, <2>2
<1>5. timers_' \in Seq(info)
  <2>1. timers_' \in [1 .. Len(timers_) -> info]
    BY <1>1, <1>2, <1>4
  <2> QED
    BY <1>2, <2>1
<1>6. Sorted(timers_')
  <2>1. \A k \in DOMAIN timers_ : timers_[k].left \in Nat
    BY <1>2, InfoFields
  <2> SUFFICES ASSUME NEW a \in DOMAIN timers_, NEW b \in DOMAIN timers_, a < b
               PROVE  timers_'[a].left <= timers_'[b].left
    BY <1>4 DEF Sorted
  <2>2. timers_[a].left <= timers_[b].left
    BY DEF TimersInv, TimersTypeOK, Sorted
  <2>3. Less(timers_[a].left) <= Less(timers_[b].left)
    BY <2>1, <2>2 DEF Less
  <2> QED
    BY <1>4, <2>3
<1>7. TimersTypeOK'
  <2>1. nap' \in [Timers -> 0 .. MaxInterval]
    BY <1>1, <1>3 DEF TimersInv, TimersTypeOK
  <2> QED
    BY <1>1, <1>5, <1>6, <2>1 DEF TimersInv, TimersTypeOK
<1>8. Queued' = Queued
  BY <1>4 DEF Queued
<1>9. TimersCovered'
  BY <1>1, <1>8 DEF TimersInv, TimersCovered
<1>10. SleepsForATask'
  <2> SUFFICES ASSUME NEW v \in Timers, tpc[v] = "sleep", nap'[v] > 0
               PROVE  \E j \in Queued : timers_'[j].left = nap'[v]
    BY <1>1, <1>8 DEF SleepsForATask
  <2>1. nap[v] \in Nat /\ nap'[v] = Less(nap[v]) /\ nap[v] > 0
    BY <1>1, TimersAssumption DEF TimersInv, TimersTypeOK, Less
  <2>2. PICK k \in Queued : timers_[k].left = nap[v]
    BY <2>1 DEF TimersInv, SleepsForATask
  <2>3. timers_'[k].left = nap'[v]
    BY <1>4, <2>1, <2>2 DEF Queued
  <2> QED
    BY <2>3
<1> QED
  BY <1>7, <1>9, <1>10 DEF TimersInv

LEMMA TimersInvStep == TimersInv /\ [TimersNext]_timerVars => TimersInv'
<1> SUFFICES ASSUME TimersInv, [TimersNext]_timerVars PROVE TimersInv'
  OBVIOUS
<1>1. CASE \E w \in Timers : TimerSleep(w) \/ TimerFire(w)
  BY <1>1, SleepStep, FireStep
<1>2. CASE Tick \/ ArmInsert \/ \E t \in TimerTasks : Arm(t)
  BY <1>2, TickStep, ArmInsertStep, ArmStep
<1>3. CASE \/ \E w \in Timers : \/ TimerWake(w) \/ TimerFinish(w) \/ TimerExit(w)
                                 \/ TimerWait(w) \/ TimerSpurious(w)
           \/ ArmNotify \/ TimerShutdown \/ TimerShutdownNotify
  <2>1. UNCHANGED <<timers_, nap>>
    BY <1>3 DEF TimerWake, TimerFinish, TimerExit, TimerWait, TimerSpurious,
                ArmNotify, TimerShutdown, TimerShutdownNotify
  <2> QED
    BY <1>3, <2>1, QuietStep
<1>4. CASE UNCHANGED timerVars
  BY <1>4 DEF timerVars, TimersInv, TimersTypeOK, TimersCovered, SleepsForATask, Queued
<1> QED
  BY <1>1, <1>2, <1>3, <1>4 DEF TimersNext, TimerStep

----------------------------------------------------------------------------
(* The workers.                                                            *)

(* Who runs a task is known by it; nobody waits for tasks before the pool  *)
(* is started; nothing goes on beside the destructor; and there are        *)
(* workers where there is anybody who queues tasks.                        *)
WorkersOrder ==
    /\ \A w \in Workers : current[w] # NoTask <=> wpc[w] = "run"
    /\ ~is_start_ => \A w \in Workers : wpc[w] # "wait"
    /\ is_shutdown_ => cpc \in {"destruct", "gone"} /\ \A p \in Producers : ppc[p] = "off"
    /\ \A w \in Workers : wpc[w] = "exit" => is_shutdown_
    /\ cpc = "notify" \/ (\E p \in Producers : ppc[p] # "off") => HasWorkers

WorkersInv == WorkersTypeOK /\ WorkersOrder /\ WorkersCovered /\ EmptyWaitJustified

LEMMA LookingFinite ==
    /\ IsFiniteSet(Looking) /\ Cardinality(Looking) \in Nat
    /\ IsFiniteSet(Notifiers) /\ Cardinality(Notifiers) \in Nat
<1>1. IsFiniteSet(Looking)
  BY PoolAssumption, FS_Subset DEF Looking
<1>2. IsFiniteSet(Producers \cup {NoTask})
  BY PoolAssumption, FS_AddElement
<1>3. Notifiers \in SUBSET (Producers \cup {NoTask})
  BY DEF Notifiers
<1>4. IsFiniteSet(Notifiers)
  BY <1>2, <1>3, FS_Subset
<1> QED
  BY <1>1, <1>4, FS_CardinalityType

(* Growing sets of those who look and those who notify cover as much.      *)
LEMMA Grows ==
    ASSUME NEW S, NEW T, IsFiniteSet(T), S \subseteq T
    PROVE  Cardinality(S) <= Cardinality(T) /\ Cardinality(S) \in Nat /\ Cardinality(T) \in Nat
BY FS_Subset, FS_CardinalityType

LEMMA WorkersStart == Init => WorkersInv
<1> SUFFICES ASSUME Init PROVE WorkersInv
  OBVIOUS
<1>1. tasks_ = << >> /\ DOMAIN tasks_ = {} /\ tasks_ \in Seq(Tasks)
  BY DEF Init
<1>2. WorkersTypeOK
  BY <1>1 DEF Init, WorkersTypeOK, IsInjective
<1>3. WorkersOrder
  BY DEF Init, WorkersOrder
<1>4. WorkersCovered /\ EmptyWaitJustified
  BY DEF Init, WorkersCovered, EmptyWaitJustified
<1> QED
  BY <1>2, <1>3, <1>4 DEF WorkersInv

(* The queue: what is taken and what comes in.                             *)
LEMMA TakeFirst ==
    ASSUME tasks_ \in Seq(Tasks), IsInjective(tasks_), tasks_ # << >>
    PROVE  /\ Head(tasks_) \in Tasks
           /\ Tail(tasks_) \in Seq(Tasks) /\ IsInjective(Tail(tasks_))
           /\ Len(tasks_) \in Nat /\ Len(Tail(tasks_)) = Len(tasks_) - 1
<1>1. /\ Head(tasks_) \in Tasks /\ Tail(tasks_) \in Seq(Tasks)
      /\ Len(tasks_) \in Nat /\ Len(tasks_) >= 1
      /\ Len(Tail(tasks_)) = Len(tasks_) - 1
      /\ \A k \in 1 .. Len(tasks_) - 1 : Tail(tasks_)[k] = tasks_[k + 1]
  BY HeadTailProperties, LenProperties, EmptySeq
<1>2. IsInjective(Tail(tasks_))
  <2> SUFFICES ASSUME NEW a \in 1 .. Len(tasks_) - 1, NEW b \in 1 .. Len(tasks_) - 1,
                      Tail(tasks_)[a] = Tail(tasks_)[b]
               PROVE  a = b
    BY <1>1, LenProperties DEF IsInjective
  <2>1. a + 1 \in DOMAIN tasks_ /\ b + 1 \in DOMAIN tasks_ /\ tasks_[a + 1] = tasks_[b + 1]
    BY <1>1, LenProperties
  <2>2. a + 1 = b + 1
    BY <2>1 DEF IsInjective
  <2> QED
    BY <1>1, <2>2
<1> QED
  BY <1>1, <1>2

LEMMA ComeIn ==
    ASSUME tasks_ \in Seq(Tasks), IsInjective(tasks_), Enqueue
    PROVE  /\ tasks_' \in Seq(Tasks) /\ IsInjective(tasks_')
           /\ Len(tasks_) \in Nat /\ Len(tasks_') = Len(tasks_) + 1
           /\ \E t \in Free : tasks_' = Append(tasks_, t)
<1>1. PICK t \in Free : tasks_' = Append(tasks_, t)
  BY DEF Enqueue
<1>2. t \in Tasks /\ \A k \in DOMAIN tasks_ : tasks_[k] # t
  BY DEF Free, Range
<1>3. /\ tasks_' \in Seq(Tasks) /\ Len(tasks_) \in Nat /\ Len(tasks_') = Len(tasks_) + 1
      /\ \A k \in 1 .. Len(tasks_) : tasks_'[k] = tasks_[k]
      /\ tasks_'[Len(tasks_) + 1] = t
  BY <1>1, <1>2, AppendProperties, LenProperties
<1>4. IsInjective(tasks_')
  <2> SUFFICES ASSUME NEW a \in 1 .. Len(tasks_) + 1, NEW b \in 1 .. Len(tasks_) + 1,
                      tasks_'[a] = tasks_'[b]
               PROVE  a = b
    BY <1>3, LenProperties DEF IsInjective
  <2>1. DOMAIN tasks_ = 1 .. Len(tasks_)
    BY LenProperties
  <2> QED
    BY <1>2, <1>3, <2>1 DEF IsInjective
<1> QED
  BY <1>1, <1>3, <1>4

LEMMA WorkTypeStep ==
    ASSUME WorkersTypeOK, WorkNext
    PROVE  WorkersTypeOK'
<1>1. ASSUME NEW w \in Workers, WorkerStep(w) \/ SpuriousWakeup(w) PROVE WorkersTypeOK'
  <2>1. CASE TakeTask(w)
    <3>1. Head(tasks_) \in Tasks /\ Tail(tasks_) \in Seq(Tasks) /\ IsInjective(Tail(tasks_))
      BY <2>1, TakeFirst DEF WorkersTypeOK, TakeTask
    <3> QED
      BY <2>1, <3>1 DEF WorkersTypeOK, TakeTask, AllButFirst, Goto
  <2>2. CASE WaitForTask(w)
    BY <2>2 DEF WorkersTypeOK, WaitForTask, NotifyOneProducer, Goto, poolVars
  <2>3. CASE WaitForStart(w) \/ Exit(w) \/ FinishTask(w) \/ SpuriousWakeup(w)
    BY <2>3 DEF WorkersTypeOK, WaitForStart, Exit, FinishTask, SpuriousWakeup, Goto, poolVars
  <2> QED
    BY <1>1, <2>1, <2>2, <2>3 DEF WorkerStep
<1>2. CASE start \/ ExecuteNotify \/ startProdUnits \/ stopProdUnits \/ Shutdown \/ ShutdownNotify
  BY <1>2 DEF WorkersTypeOK, start, ExecuteNotify, startProdUnits, stopProdUnits, Shutdown,
              ShutdownNotify, NotifyAllWorkers, NotifyOneWorker, poolVars
<1>3. CASE execute
  <2>1. tasks_' \in Seq(Tasks) /\ IsInjective(tasks_')
    BY <1>3, ComeIn DEF WorkersTypeOK, execute
  <2> QED
    BY <1>3, <2>1 DEF WorkersTypeOK, execute
<1>4. ASSUME NEW p \in Producers, ProducerStep(p) \/ SpuriousLook(p) PROVE WorkersTypeOK'
  <2>1. CASE ProducerPush(p)
    <3>1. tasks_' \in Seq(Tasks) /\ IsInjective(tasks_')
      BY <2>1, ComeIn DEF WorkersTypeOK, ProducerPush
    <3> QED
      BY <2>1, <3>1 DEF WorkersTypeOK, ProducerPush
  <2>2. CASE CheckProducing(p) \/ wait_empty(p) \/ ProducerNotify(p) \/ SpuriousLook(p)
    BY <2>2 DEF WorkersTypeOK, CheckProducing, wait_empty, ProducerNotify, SpuriousLook,
                NotifyOneWorker, poolVars
  <2> QED
    BY <1>4, <2>1, <2>2 DEF ProducerStep
<1> QED
  BY <1>1, <1>2, <1>3, <1>4 DEF WorkNext

LEMMA WorkOrderStep ==
    ASSUME WorkersInv, WorkNext
    PROVE  WorkersOrder'
<1> USE DEF WorkersInv, WorkersTypeOK, WorkersOrder, HasWorkers
<1>1. ASSUME NEW w \in Workers, WorkerStep(w) \/ SpuriousWakeup(w) PROVE WorkersOrder'
  <2>1. CASE TakeTask(w)
    <3>1. Head(tasks_) \in Tasks /\ Head(tasks_) # NoTask
      BY <2>1, TakeFirst, PoolAssumption DEF TakeTask
    <3> QED
      BY <2>1, <3>1 DEF TakeTask, Goto
  <2>2. CASE WaitForTask(w)
    BY <2>2 DEF WaitForTask, NotifyOneProducer, Goto, poolVars
  <2>3. CASE WaitForStart(w) \/ Exit(w) \/ FinishTask(w) \/ SpuriousWakeup(w)
    BY <2>3 DEF WaitForStart, Exit, FinishTask, SpuriousWakeup, Goto, poolVars
  <2> QED
    BY <1>1, <2>1, <2>2, <2>3 DEF WorkerStep
<1>2. CASE start \/ Shutdown \/ ShutdownNotify
  BY <1>2 DEF start, Shutdown, ShutdownNotify, NotifyAllWorkers, poolVars
<1>3. CASE ExecuteNotify
  BY <1>3 DEF ExecuteNotify, NotifyOneWorker, poolVars
<1>4. CASE execute \/ startProdUnits \/ stopProdUnits
  BY <1>4 DEF execute, startProdUnits, stopProdUnits, poolVars
<1>5. ASSUME NEW p \in Producers, ProducerStep(p) \/ SpuriousLook(p) PROVE WorkersOrder'
  <2>1. CASE ProducerNotify(p)
    BY <2>1 DEF ProducerNotify, NotifyOneWorker, poolVars
  <2>2. CASE CheckProducing(p) \/ wait_empty(p) \/ ProducerPush(p) \/ SpuriousLook(p)
    BY <2>2 DEF CheckProducing, wait_empty, ProducerPush, SpuriousLook, poolVars
  <2> QED
    BY <1>5, <2>1, <2>2 DEF ProducerStep
<1> QED
  BY <1>1, <1>2, <1>3, <1>4, <1>5 DEF WorkNext

(* A worker that is notified looks at the queue again; if none waits there *)
(* is nothing to be covered.                                               *)
LEMMA Notified ==
    ASSUME WorkersInv, NotifyOneWorker, UNCHANGED tasks_,
           NEW n, n \in Notifiers, Notifiers' = Notifiers \ {n}
    PROVE  WorkersCovered'
<1>1. CASE \E w \in Workers : wpc[w] = "wait"
  <2>1. PICK w \in Workers : wpc[w] = "wait" /\ wpc' = [wpc EXCEPT ![w] = "loop"]
    BY <1>1 DEF NotifyOneWorker
  <2>2. Looking' = Looking \cup {w} /\ w \notin Looking
    BY <2>1 DEF Looking, WorkersInv, WorkersTypeOK
  <2>3. Cardinality(Looking') = Cardinality(Looking) + 1
    BY <2>2, LookingFinite, FS_AddElement
  <2>4. Cardinality(Notifiers') = Cardinality(Notifiers) - 1
    BY LookingFinite, FS_RemoveElement
  <2>5. Len(tasks_) <= Cardinality(Looking) + Cardinality(Notifiers)
    BY <1>1 DEF WorkersInv, WorkersCovered
  <2>6. Len(tasks_) \in Nat
    BY LenProperties DEF WorkersInv, WorkersTypeOK
  <2> QED
    BY <2>3, <2>4, <2>5, <2>6, LookingFinite DEF WorkersCovered
<1>2. CASE ~\E w \in Workers : wpc[w] = "wait"
  BY <1>2 DEF NotifyOneWorker, WorkersCovered
<1> QED
  BY <1>1, <1>2

(* A task that comes in brings its own notification.                       *)
LEMMA Announced ==
    ASSUME WorkersInv, Enqueue, UNCHANGED wpc,
           NEW n, n \notin Notifiers, Notifiers' = Notifiers \cup {n}
    PROVE  WorkersCovered'
<1>1. Len(tasks_) \in Nat /\ Len(tasks_') = Len(tasks_) + 1
  BY ComeIn DEF WorkersInv, WorkersTypeOK
<1>2. Cardinality(Notifiers') = Cardinality(Notifiers) + 1
  BY LookingFinite, FS_AddElement
<1>3. Looking' = Looking
  BY DEF Looking
<1>4. (\E w \in Workers : wpc[w] = "wait")
         => Len(tasks_) <= Cardinality(Looking) + Cardinality(Notifiers)
  BY DEF WorkersInv, WorkersCovered
<1> QED
  BY <1>1, <1>2, <1>3, <1>4, LookingFinite DEF WorkersCovered

(* Steps after which no fewer look and notify than before.                 *)
LEMMA NotFewer ==
    ASSUME WorkersInv, UNCHANGED tasks_, Looking \subseteq Looking', Notifiers' = Notifiers,
           IsFiniteSet(Looking'),
           (\E w \in Workers : wpc'[w] = "wait") => \E w \in Workers : wpc[w] = "wait"
    PROVE  WorkersCovered'
<1>1. Cardinality(Looking) <= Cardinality(Looking') /\ Cardinality(Looking') \in Nat
  BY Grows
<1>2. (\E w \in Workers : wpc[w] = "wait")
         => Len(tasks_) <= Cardinality(Looking) + Cardinality(Notifiers)
  BY DEF WorkersInv, WorkersCovered
<1>3. Len(tasks_) \in Nat
  BY LenProperties DEF WorkersInv, WorkersTypeOK
<1> QED
  BY <1>1, <1>2, <1>3, LookingFinite DEF WorkersCovered

LEMMA LookingFiniteNext == IsFiniteSet(Looking') /\ Cardinality(Looking') \in Nat
                           /\ Cardinality(Notifiers') \in Nat
<1>1. IsFiniteSet(Looking')
  BY PoolAssumption, FS_Subset DEF Looking
<1>2. IsFiniteSet(Producers \cup {NoTask})
  BY PoolAssumption, FS_AddElement
<1>3. Notifiers' \in SUBSET (Producers \cup {NoTask})
  BY DEF Notifiers
<1>4. IsFiniteSet(Notifiers')
  BY <1>2, <1>3, FS_Subset
<1> QED
  BY <1>1, <1>4, FS_CardinalityType

LEMMA WorkCoveredStep ==
    ASSUME WorkersInv, WorkNext
    PROVE  WorkersCovered'
<1> USE DEF WorkersInv
<1>1. ASSUME NEW w \in Workers, WorkerStep(w) \/ SpuriousWakeup(w) PROVE WorkersCovered'
  <2>1. CASE TakeTask(w)
    <3>1. Len(tasks_) \in Nat /\ tasks_' = Tail(tasks_) /\ Len(tasks_') = Len(tasks_) - 1
      BY <2>1, TakeFirst DEF WorkersTypeOK, TakeTask, AllButFirst
    <3>2. w \in Looking /\ Looking' = Looking \ {w} /\ Notifiers' = Notifiers
      BY <2>1 DEF TakeTask, Goto, Looking, Notifiers, WorkersTypeOK
    <3>3. Cardinality(Looking') = Cardinality(Looking) - 1
      BY <3>2, LookingFinite, FS_RemoveElement
    <3>4. (\E v \in Workers : wpc'[v] = "wait") => \E v \in Workers : wpc[v] = "wait"
      BY <2>1 DEF TakeTask, Goto, WorkersTypeOK
    <3>5. (\E v \in Workers : wpc[v] = "wait")
             => Len(tasks_) <= Cardinality(Looking) + Cardinality(Notifiers)
      BY DEF WorkersCovered
    <3>6. Cardinality(Notifiers') = Cardinality(Notifiers)
      BY <3>2
    <3> SUFFICES ASSUME \E v \in Workers : wpc'[v] = "wait"
                 PROVE  Len(tasks_') <= Cardinality(Looking') + Cardinality(Notifiers')
      BY DEF WorkersCovered
    <3>7. Len(tasks_) <= Cardinality(Looking) + Cardinality(Notifiers)
      BY <3>4, <3>5
    <3> QED
      BY <3>1, <3>3, <3>6, <3>7, LookingFinite
  <2>2. CASE Exit(w) \/ WaitForTask(w)
    <3>1. tasks_' = << >> /\ Len(tasks_') = 0
      BY <2>2 DEF Exit, WaitForTask, poolVars
    <3> QED
      BY <3>1, LookingFiniteNext DEF WorkersCovered
  <2>3. CASE WaitForStart(w)
    <3>1. \A v \in Workers : wpc'[v] # "wait"
      BY <2>3 DEF WaitForStart, Goto, WorkersOrder, WorkersTypeOK
    <3> QED
      BY <3>1 DEF WorkersCovered
  <2>4. CASE FinishTask(w) \/ SpuriousWakeup(w)
    <3>1. Looking \subseteq Looking' /\ Notifiers' = Notifiers /\ tasks_' = tasks_
      BY <2>4 DEF FinishTask, SpuriousWakeup, Goto, Looking, Notifiers, WorkersTypeOK, poolVars
    <3>2. (\E v \in Workers : wpc'[v] = "wait") => \E v \in Workers : wpc[v] = "wait"
      BY <2>4 DEF FinishTask, SpuriousWakeup, Goto, WorkersTypeOK
    <3> QED
      BY <3>1, <3>2, NotFewer, LookingFiniteNext
  <2> QED
    BY <1>1, <2>1, <2>2, <2>3, <2>4 DEF WorkerStep
<1>2. CASE start
  <2>1. Looking \subseteq Looking' /\ Notifiers' = Notifiers /\ tasks_' = tasks_
    BY <1>2 DEF start, NotifyAllWorkers, Looking, Notifiers
  <2>2. (\E v \in Workers : wpc'[v] = "wait") => \E v \in Workers : wpc[v] = "wait"
    BY <1>2 DEF start, NotifyAllWorkers
  <2> QED
    BY <2>1, <2>2, NotFewer, LookingFiniteNext
<1>3. CASE execute
  <2>1. NoTask \notin Notifiers /\ Notifiers' = Notifiers \cup {NoTask}
    BY <1>3, PoolAssumption DEF execute, Notifiers
  <2> QED
    BY <1>3, <2>1, Announced DEF execute
<1>4. CASE ExecuteNotify
  <2>1. NoTask \in Notifiers /\ Notifiers' = Notifiers \ {NoTask}
    BY <1>4, PoolAssumption DEF ExecuteNotify, Notifiers
  <2> QED
    BY <1>4, <2>1, Notified DEF ExecuteNotify, poolVars
<1>5. CASE startProdUnits \/ stopProdUnits \/ Shutdown
  <2>1. Looking' = Looking /\ Notifiers' = Notifiers /\ UNCHANGED <<wpc, tasks_>>
    BY <1>5 DEF startProdUnits, stopProdUnits, Shutdown, Looking, Notifiers, WorkersTypeOK, poolVars
  <2> QED
    BY <2>1, NotFewer, LookingFiniteNext
<1>6. CASE ShutdownNotify
  <2>1. \A v \in Workers : wpc'[v] # "wait"
    BY <1>6 DEF ShutdownNotify, NotifyAllWorkers
  <2> QED
    BY <2>1 DEF WorkersCovered
<1>7. ASSUME NEW p \in Producers, ProducerStep(p) \/ SpuriousLook(p) PROVE WorkersCovered'
  <2>1. CASE ProducerPush(p)
    <3>1. p \notin Notifiers /\ Notifiers' = Notifiers \cup {p}
      BY <2>1, PoolAssumption DEF ProducerPush, Notifiers, WorkersTypeOK
    <3> QED
      BY <2>1, <3>1, Announced DEF ProducerPush
  <2>2. CASE ProducerNotify(p)
    <3>1. p \in Notifiers /\ Notifiers' = Notifiers \ {p}
      BY <2>2, PoolAssumption DEF ProducerNotify, Notifiers, WorkersTypeOK
    <3> QED
      BY <2>2, <3>1, Notified DEF ProducerNotify, poolVars
  <2>3. CASE CheckProducing(p) \/ wait_empty(p) \/ SpuriousLook(p)
    <3>1. Looking' = Looking /\ Notifiers' = Notifiers /\ UNCHANGED <<wpc, tasks_>>
      BY <2>3 DEF CheckProducing, wait_empty, SpuriousLook, Looking, Notifiers, WorkersTypeOK, poolVars
    <3> QED
      BY <3>1, NotFewer, LookingFiniteNext
  <2> QED
    BY <1>7, <2>1, <2>2, <2>3 DEF ProducerStep
<1> QED
  BY <1>1, <1>2, <1>3, <1>4, <1>5, <1>6, <1>7 DEF WorkNext

(* While nothing is shut down, some worker is about to look, or runs, or   *)
(* waits for the start, unless all of them wait for a task.                *)
LEMMA SomeWorker ==
    ASSUME WorkersInv, HasWorkers, ~is_shutdown_, \A w \in Workers : wpc[w] # "wait"
    PROVE  \E w \in Workers : wpc[w] \in {"loop", "run", "wait_start"}
BY DEF WorkersInv, WorkersTypeOK, WorkersOrder, HasWorkers

LEMMA NotifiedSome ==
    ASSUME WorkersInv, HasWorkers, ~is_shutdown_, NotifyOneWorker
    PROVE  \E w \in Workers : wpc'[w] \in {"loop", "run", "wait_start"}
<1>1. CASE \E w \in Workers : wpc[w] = "wait"
  <2>1. PICK w \in Workers : wpc' = [wpc EXCEPT ![w] = "loop"]
    BY <1>1 DEF NotifyOneWorker
  <2>2. wpc'[w] = "loop"
    BY <2>1 DEF WorkersInv, WorkersTypeOK
  <2> QED
    BY <2>2
<1>2. CASE ~\E w \in Workers : wpc[w] = "wait"
  BY <1>2, SomeWorker DEF NotifyOneWorker
<1> QED
  BY <1>1, <1>2

LEMMA WorkEmptyStep ==
    ASSUME WorkersInv, WorkNext
    PROVE  EmptyWaitJustified'
<1> USE DEF WorkersInv
<1>1. ASSUME NEW w \in Workers, WorkerStep(w) \/ SpuriousWakeup(w) PROVE EmptyWaitJustified'
  <2>1. CASE WaitForStart(w) \/ TakeTask(w) \/ FinishTask(w) \/ SpuriousWakeup(w)
    <3>1. wpc'[w] \in {"loop", "run", "wait_start"}
      BY <2>1 DEF WaitForStart, TakeTask, FinishTask, SpuriousWakeup, Goto, WorkersTypeOK
    <3> QED
      BY <3>1 DEF EmptyWaitJustified
  <2>2. CASE Exit(w)
    <3>1. \A p \in Producers : ppc'[p] = "off"
      BY <2>2 DEF Exit, WorkersOrder
    <3> QED
      BY <3>1 DEF EmptyWaitJustified
  <2>3. CASE WaitForTask(w)
    <3>1. CASE \E p \in Producers : ppc[p] = "wait"
      <4>1. PICK p \in Producers : ppc' = [ppc EXCEPT ![p] = "wait_empty"]
        BY <2>3, <3>1 DEF WaitForTask, NotifyOneProducer
      <4>2. ppc'[p] = "wait_empty"
        BY <4>1 DEF WorkersTypeOK
      <4> QED
        BY <4>2 DEF EmptyWaitJustified
    <3>2. CASE ~\E p \in Producers : ppc[p] = "wait"
      BY <2>3, <3>2 DEF WaitForTask, NotifyOneProducer, EmptyWaitJustified
    <3> QED
      BY <3>1, <3>2
  <2> QED
    BY <1>1, <2>1, <2>2, <2>3 DEF WorkerStep
<1>2. CASE start \/ ShutdownNotify
  <2>1. /\ ppc' = ppc /\ Notifiers' = Notifiers
        /\ \A w \in Workers : wpc[w] \in {"loop", "run", "wait_start"}
                                => wpc'[w] \in {"loop", "run", "wait_start"}
    BY <1>2 DEF start, ShutdownNotify, NotifyAllWorkers, Notifiers, poolVars
  <2> QED
    BY <2>1 DEF EmptyWaitJustified
<1>3. CASE execute
  <2>1. NoTask \in Notifiers'
    BY <1>3 DEF execute, Notifiers
  <2> QED
    BY <2>1 DEF EmptyWaitJustified
<1>4. CASE ExecuteNotify
  <2>1. HasWorkers /\ ~is_shutdown_ /\ NotifyOneWorker
    BY <1>4 DEF ExecuteNotify, WorkersOrder
  <2> QED
    BY <2>1, NotifiedSome DEF EmptyWaitJustified
<1>5. CASE startProdUnits \/ stopProdUnits \/ Shutdown
  <2>1. /\ wpc' = wpc /\ Notifiers' = Notifiers
        /\ \A p \in Producers :
              ppc'[p] = ppc[p] \/ (ppc[p] = "off" /\ ppc'[p] = "check")
    BY <1>5 DEF startProdUnits, stopProdUnits, Shutdown, Notifiers, WorkersTypeOK, poolVars
  <2> QED
    BY <2>1 DEF EmptyWaitJustified
<1>6. ASSUME NEW p \in Producers, ProducerStep(p) \/ SpuriousLook(p) PROVE EmptyWaitJustified'
  <2>1. CASE CheckProducing(p)
    <3>1. /\ wpc' = wpc /\ Notifiers' = Notifiers
          /\ ppc[p] = "check" /\ \A q \in Producers \ {p} : ppc'[q] = ppc[q]
          /\ ppc'[p] \in {"wait_empty", "off"}
      BY <2>1 DEF CheckProducing, Notifiers, WorkersTypeOK
    <3> QED
      BY <3>1 DEF EmptyWaitJustified
  <2>2. CASE wait_empty(p)
    <3>1. wpc' = wpc /\ Notifiers' = Notifiers /\ tasks_' = tasks_
      BY <2>2 DEF wait_empty, Notifiers, WorkersTypeOK, poolVars
    <3>2. CASE tasks_ = << >>
      <4>1. ppc'[p] = "push"
        BY <2>2, <3>2 DEF wait_empty, WorkersTypeOK
      <4> QED
        BY <4>1 DEF EmptyWaitJustified
    <3>3. CASE tasks_ # << >> /\ \E w \in Workers : wpc[w] = "wait"
      <4>1. Len(tasks_) \in Nat /\ Len(tasks_) # 0
        BY <3>3, LenProperties, EmptySeq DEF WorkersTypeOK
      <4>2. Cardinality(Looking) # 0 \/ Cardinality(Notifiers) # 0
        BY <3>3, <4>1, LookingFinite DEF WorkersCovered
      <4>3. Looking # {} \/ Notifiers # {}
        BY <4>2, FS_EmptySet
      <4> QED
        BY <3>1, <4>3 DEF EmptyWaitJustified, Looking
    <3>4. CASE \A w \in Workers : wpc[w] # "wait"
      <4>1. HasWorkers /\ ~is_shutdown_
        BY <2>2 DEF wait_empty, WorkersOrder
      <4> QED
        BY <3>1, <3>4, <4>1, SomeWorker DEF EmptyWaitJustified
    <3> QED
      BY <3>2, <3>3, <3>4
  <2>3. CASE SpuriousLook(p)
    <3>1. ppc'[p] = "wait_empty"
      BY <2>3 DEF SpuriousLook, WorkersTypeOK
    <3> QED
      BY <3>1 DEF EmptyWaitJustified
  <2>4. CASE ProducerPush(p)
    <3>1. p \in Notifiers'
      BY <2>4 DEF ProducerPush, Notifiers, WorkersTypeOK
    <3> QED
      BY <3>1 DEF EmptyWaitJustified
  <2>5. CASE ProducerNotify(p)
    <3>1. HasWorkers /\ ~is_shutdown_ /\ NotifyOneWorker
      BY <2>5 DEF ProducerNotify, WorkersOrder
    <3> QED
      BY <3>1, NotifiedSome DEF EmptyWaitJustified
  <2> QED
    BY <1>6, <2>1, <2>2, <2>3, <2>4, <2>5 DEF ProducerStep
<1> QED
  BY <1>1, <1>2, <1>3, <1>4, <1>5, <1>6 DEF WorkNext

LEMMA WorkersInvStep == WorkersInv /\ [WorkNext]_workVars => WorkersInv'
<1> SUFFICES ASSUME WorkersInv, [WorkNext]_workVars PROVE WorkersInv'
  OBVIOUS
<1>1. CASE WorkNext
  BY <1>1, WorkTypeStep, WorkOrderStep, WorkCoveredStep, WorkEmptyStep DEF WorkersInv
<1>2. CASE UNCHANGED workVars
  BY <1>2 DEF workVars, poolVars, WorkersInv, WorkersTypeOK, WorkersOrder, WorkersCovered,
              EmptyWaitJustified, Looking, Notifiers, HasWorkers
<1> QED
  BY <1>1, <1>2

LEMMA PoolInvariant == Spec => [](WorkersInv /\ TimersInv)
<1>1. Init => WorkersInv /\ TimersInv
  BY WorkersStart, TimersInitial DEF Init
<1>2. [Next]_vars => [WorkNext]_workVars /\ [TimersNext]_timerVars
  BY DEF Next, vars
<1> QED
  BY <1>1, <1>2, WorkersInvStep, TimersInvStep, PTL DEF Spec

----------------------------------------------------------------------------
(* The queue and the multimap hold what they should, each task once, the   *)
(* timed ones in the order of their clocks (threadpool.hpp:151-181).       *)
THEOREM PoolTypes == Spec => []TypeOK
BY PoolInvariant, PTL DEF TypeOK, WorkersInv, TimersInv

(* No wake-up is lost, with any number of workers and producers, though    *)
(* the notifications are sent after the mutex is released                  *)
(* (threadpool.hpp:33-45, 77, 117-138).                                    *)
THEOREM NoLostWakeup == Spec => []QueuedTasksCovered
BY PoolInvariant, PTL DEF QueuedTasksCovered, WorkersInv, TimersInv

(* No producer sleeps with nobody left to wake it                          *)
(* (threadpool.hpp:43, 111-115).                                           *)
THEOREM ProducersAreWoken == Spec => []EmptyWaitJustified
BY PoolInvariant, PTL DEF WorkersInv

(* No timer sleeps past the clock of every task (threadpool.hpp:54-62).    *)
THEOREM NapsEndInTime == Spec => []SleepsForATask
BY PoolInvariant, PTL DEF TimersInv

(* Tasks are taken in the order in which they came, each once              *)
(* (threadpool.hpp:25-47, 117-124).                                        *)
THEOREM TasksInOrder == Spec => ImplementsQueue
<1>1. Init => Queue!Init
  BY DEF Init, Queue!Init
<1>2. WorkersInv /\ [Next]_vars => [Queue!Next]_Queue!vars
  <2> SUFFICES ASSUME WorkersInv, [Next]_vars PROVE [Queue!Next]_Queue!vars
    OBVIOUS
  <2> USE DEF WorkersInv
  <2>1. CASE execute \/ \E p \in Producers : ProducerPush(p)
    <3>1. Enqueue /\ UNCHANGED current
      BY <2>1 DEF execute, ProducerPush
    <3> QED
      BY <3>1 DEF Enqueue, Free, Queue!Next, Queue!Submit, Queue!Idle, Range, Queue!Range
  <2>2. ASSUME NEW w \in Workers, TakeTask(w) PROVE Queue!Next
    <3>1. current[w] = NoTask /\ tasks_ # << >> /\ tasks_' = Tail(tasks_)
          /\ current' = [current EXCEPT ![w] = Head(tasks_)]
      BY <2>2 DEF TakeTask, AllButFirst, WorkersOrder, WorkersTypeOK
    <3> QED
      BY <3>1 DEF Queue!Next, Queue!Take
  <2>3. ASSUME NEW w \in Workers, FinishTask(w) PROVE Queue!Next
    <3>1. current[w] # NoTask /\ tasks_' = tasks_ /\ current' = [current EXCEPT ![w] = NoTask]
      BY <2>3 DEF FinishTask, WorkersOrder, WorkersTypeOK, poolVars
    <3> QED
      BY <3>1 DEF Queue!Next, Queue!Finish
  <2>4. CASE UNCHANGED <<tasks_, current>>
    BY <2>4 DEF Queue!vars
  <2>5. ASSUME NEW w \in Workers,
               WaitForStart(w) \/ Exit(w) \/ WaitForTask(w) \/ SpuriousWakeup(w)
        PROVE  UNCHANGED <<tasks_, current>>
    BY <2>5 DEF WaitForStart, Exit, WaitForTask, SpuriousWakeup, poolVars
  <2>6. ASSUME \/ start \/ ExecuteNotify \/ startProdUnits \/ stopProdUnits
               \/ Shutdown \/ ShutdownNotify
        PROVE  UNCHANGED <<tasks_, current>>
    BY <2>6 DEF start, ExecuteNotify, startProdUnits, stopProdUnits, Shutdown, ShutdownNotify,
                poolVars
  <2>7. ASSUME NEW p \in Producers,
               CheckProducing(p) \/ wait_empty(p) \/ ProducerNotify(p) \/ SpuriousLook(p)
        PROVE  UNCHANGED <<tasks_, current>>
    BY <2>7 DEF CheckProducing, wait_empty, ProducerNotify, SpuriousLook, poolVars
  <2>8. ASSUME UNCHANGED workVars PROVE UNCHANGED <<tasks_, current>>
    BY <2>8 DEF workVars, poolVars
  <2> QED
    BY <2>1, <2>2, <2>3, <2>4, <2>5, <2>6, <2>7, <2>8
       DEF Next, vars, WorkNext, WorkerStep, ProducerStep
<1> QED
  BY <1>1, <1>2, PoolInvariant, PTL DEF Spec, ImplementsQueue, Queue!Spec
=============================================================================
