SPECIFICATION SemSpec
CONSTANTS
  t1 = t1
  t2 = t2
  t3 = t3
  s1 = s1
  s2 = s2
  runq = runq
  timerq = timerq
  IdleTask = idle
  NoQueue = NoQueue
  Tasks <- MCTasks
  Queues <- MCQueues
  RunQueue <- runq
  TimerQueue <- timerq
  BootTasks <- MCBootTasks
  Sems <- MCSems
  Counts = {0, 1}
  MaxCount = 2
INVARIANT SemTypeOK
INVARIANT TasksAccounted
INVARIANT CountMatchesWaiters
INVARIANT WaitersAreInAcquire
PROPERTY KeepsPromise
