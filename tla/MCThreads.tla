----------------------------- MODULE MCThreads -----------------------------
(* Model checking of Threads: the reaper and up to three user threads.     *)
EXTENDS Threads, TLC

CONSTANTS t1, t2, t3, kt, m1, m2, runq, timerq

MCTasks == {t1, t2, t3, Reaper}
MCQueues == MCTasks \cup {runq, timerq, ReaperQueue, ReaperSem}
MCBootTasks == <<t1, Reaper>>
MCBootTeam == [t \in MCTasks |-> IF t = Reaper THEN KernelTeam ELSE m1]
\* Two interrupts of one thread, which may handle the second after the
\* first: irq_task_map then keeps an entry that is out of date.
MCIrqs == {1, 2}
MCHandledBy == [n \in MCIrqs |-> {t1}]

\* A smaller instance, for liveness.
MCTasks2 == {t1, t2, Reaper}
MCQueues2 == MCTasks2 \cup {runq, timerq, ReaperQueue, ReaperSem}
MCBootTeam2 == [t \in MCTasks2 |-> MCBootTeam[t]]
MCIrqs2 == {1}
MCHandledBy2 == [n \in MCIrqs2 |-> {t1, t2}]

\* Every thread may handle both interrupts.
MCHandledByAll == [n \in MCIrqs |-> {t1, t2}]
=============================================================================
