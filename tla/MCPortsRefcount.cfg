SPECIFICATION Spec
CONSTANTS
  t1 = t1
  t2 = t2
  t3 = t3
  p1 = p1
  p2 = p2
  p3 = p3
  sq1 = sq1
  sq2 = sq2
  sq3 = sq3
  m1 = m1
  m2 = m2
  runq = runq
  timerq = timerq
  IdleTask = idle
  NoQueue = NoQueue
  NoPort = NoPort
  RunQueue <- runq
  TimerQueue <- timerq
  Tasks = {t1, t2, t3}
  BootTasks <- MCBootTasks3
  Ports <- MCPorts2
  SendQueue <- MCSendQueue2
  Queues <- MCQueues2
  Teams = {m1}
  TeamOf <- MCTeamOf
  MAX_MSGCOUNT = 1
  MaySlave <- MCSlavePrivate
  Restricts = {NoPort}
  MaySend <- MCSendToBoth
  NoWaits = {FALSE}
  MaxRefcount = 3
  Sizes = {"fits"}
  RacyDestroy = FALSE
  RacySlave = FALSE
INVARIANT RefcountExact
