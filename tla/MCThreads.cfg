SPECIFICATION Spec
CONSTANTS
  t1 = t1
  t2 = t2
  t3 = t3
  m1 = m1
  m2 = m2
  kt = kt
  runq = runq
  timerq = timerq
  IdleTask = idle
  NoQueue = NoQueue
  Reaper = Reaper
  ReaperQueue = ReaperQueue
  ReaperSem = ReaperSem
  NoTask = NoTask
  NoIrq = NoIrq
  KernelTeam <- kt
  Teams = {kt, m1, m2}
  Tasks <- MCTasks
  Queues <- MCQueues
  RunQueue <- runq
  TimerQueue <- timerq
  BootTasks <- MCBootTasks
  BootTeam <- MCBootTeam
  Irqs <- MCIrqs
  HandledBy <- MCHandledBy
  SleepTicks = {0, 1}
INVARIANT TasksAccounted
INVARIANT NoIdlingWithWork
INVARIANT DeathsCounted
INVARIANT DeadAwaitReaper
INVARIANT TeamCountsTasks
INVARIANT NoJoinerOfFreedThread
PROPERTY JoinOnlyTheDead
PROPERTY DeadStayDead
PROPERTY WokenByOwnIrq
INVARIANT SleeperCanBeWoken
