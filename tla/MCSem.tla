------------------------------- MODULE MCSem -------------------------------
(* Model checking of Sem: three tasks and two semaphores.                  *)
EXTENDS Sem, TLC

CONSTANTS t1, t2, t3, s1, s2, runq, timerq

MCTasks == {t1, t2, t3}
MCQueues == {runq, timerq, s1, s2}
MCSems == {s1, s2}
MCBootTasks == <<t1, t2, t3>>
=============================================================================
