\* One or two workers, two producers, commands, the destructor, spurious
\* wake-ups; or one or two timers and two timed tasks.
CONSTANTS
  Workers = {w1, w2}
  Producers = {p1, p2}
  Tasks = {t1, t2, t3}
  Timers = {m1, m2}
  TimerTasks = {k1, k2}
  MaxInterval = 2
  NoTask = no_task
  Spurious = TRUE
  Destructs = TRUE
SPECIFICATION FairSpec
INVARIANTS
  TypeOK
  QueuedTasksCovered
  EmptyWaitJustified
  SleepsForATask
PROPERTIES
  ImplementsFairQueue
  ProducersEnd
  DrainsOnShutdown
  EveryTaskFires
CHECK_DEADLOCK FALSE
