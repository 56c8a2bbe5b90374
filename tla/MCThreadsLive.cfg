SPECIFICATION FairSpec
CONSTANTS
  t1 = t1
  t2 = t2
  t3 = t3
  m1 = m1
  m2 = m2
  kt = kt
  runq = runq
  timerq = timerq
  IdleTask = idle
  NoQueue = NoQueue
  Reaper = Reaper
  ReaperQueue = ReaperQueue
  ReaperSem = ReaperSem
  NoTask = NoTask
  NoIrq = NoIrq
  KernelTeam <- kt
  Teams = {kt, m1, m2}
  Tasks <- MCTasks2
  Queues <- MCQueues2
  RunQueue <- runq
  TimerQueue <- timerq
  BootTasks <- MCBootTasks
  BootTeam <- MCBootTeam2
  Irqs <- MCIrqs2
  HandledBy <- MCHandledBy2
  SleepTicks = {1, 2}
INVARIANT MappedSleeperCanBeWoken
PROPERTY DeadAreReaped
PROPERTY JoinersReturn
PROPERTY SleepersRun
