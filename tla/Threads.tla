------------------------------ MODULE Threads ------------------------------
(***************************************************************************)
(* The life of a thread: thr_create and thr_spawn, os_sleep, os_sleep_irq  *)
(* and interrupts, thr_wait, os_terminate, and the kernel's reaper thread  *)
(* that frees what a dead thread leaves (syscall.c, task.c, kernel.c,      *)
(* fault.c, team.c).                                                       *)
(*                                                                         *)
(* A task structure is also the resource its joiners wait on (thr_wait     *)
(* casts it), so every task is one of the Queues.  A structure that the    *)
(* reaper frees may be used again by the next thread, which then has the   *)
(* same address: irq_task_map keeps pointing to it.                        *)
(***************************************************************************)
EXTENDS Sched, FiniteSets

CONSTANTS Reaper,       \* the reaper's task
          ReaperQueue,  \* reaper_queue, where the dead wait
          ReaperSem,    \* reaper_sem
          Teams,        \* team structures
          KernelTeam,   \* kernel_team: the idler's, the reaper's, the pager's
          BootTeam,     \* BootTeam[t], the team of each thread at boot
          Irqs,         \* interrupt lines, the timer's excepted
          HandledBy,    \* HandledBy[n], the tasks that may ask for interrupt n
          SleepTicks,   \* arguments of os_sleep, converted to ticks
          NoTask,       \* NULL, in irq_task_map
          NoIrq         \* a task's irq before os_handle_irq

ASSUME ThreadsAssumption ==
    /\ Tasks \cup {ReaperQueue, ReaperSem} \subseteq Queues \ {RunQueue, TimerQueue}
    /\ ReaperQueue # ReaperSem
    /\ {ReaperQueue, ReaperSem} \cap Tasks = {}
    /\ Reaper \in Elements(BootTasks)
    /\ KernelTeam \in Teams
    /\ BootTeam \in [Tasks -> Teams]
    /\ BootTeam[Reaper] = KernelTeam
    /\ HandledBy \in [Irqs -> SUBSET (Tasks \ {Reaper})]
    /\ SleepTicks \subseteq Nat
    /\ NoTask \notin Tasks
    /\ NoIrq \notin Irqs
    /\ IsFiniteSet(Tasks)

VARIABLES sched,         \* the scheduler, see Sched
          deaths,        \* the count of reaper_sem
          reaping,       \* the reaper has passed sem_acquire(reaper_sem)
          team,          \* team[t], the team task structure t belongs to
          refcount,      \* refcount[m], the number of tasks team m counts
          irq,           \* irq[t], the interrupt t registered last
          irq_task_map,  \* irq_task_map[n], the task structure n wakes
          unmasked       \* the interrupt lines that are enabled

vars == <<sched, deaths, reaping, team, refcount, irq, irq_task_map, unmasked>>
life == <<deaths, reaping, team, refcount>>
irqs == <<irq, irq_task_map, unmasked>>

Self == sched.current

\* A user thread runs, and may call the kernel.
CanCall == Self \in Tasks \ {Reaper}

\* The reaper runs with interrupts off (cli), every other thread with
\* interrupts on.
InterruptsOn == Self # Reaper

Counted(m) == Cardinality({t \in Elements(BootTasks) : BootTeam[t] = m})

Init ==
    /\ sched = SchedInit
    /\ deaths = 0
    /\ reaping = FALSE
    /\ team = BootTeam
    /\ refcount = [m \in Teams |-> IF m = KernelTeam THEN Counted(m) + 1
                                                     ELSE Counted(m)]
    /\ irq = [t \in Tasks |-> NoIrq]
    /\ irq_task_map = [n \in Irqs |-> NoTask]
    /\ unmasked = {}

-----------------------------------------------------------------------------
(* Creation.                                                               *)

\* Mutant: the structure of a dead thread is given out before it is freed.
new_thread_reusing_dead(u, m) ==
    /\ sched.flags[u] \in {tFREE, tDEAD}
    /\ sched' = rsrc_enqueue(sched, RunQueue, u)
    /\ team' = [team EXCEPT ![u] = m]
    /\ refcount' = [refcount EXCEPT ![m] = @ + 1]
    /\ irq' = [irq EXCEPT ![u] = NoIrq]
    /\ UNCHANGED <<deaths, reaping, irq_task_map, unmasked>>

\* task_create() and the end of new_thread(): u is a structure nobody uses,
\* in team m, on the run queue.
new_thread(u, m) ==
    /\ sched.flags[u] = tFREE
    /\ sched' = rsrc_enqueue(sched, RunQueue, u)
    /\ team' = [team EXCEPT ![u] = m]
    /\ refcount' = [refcount EXCEPT ![m] = @ + 1]
    /\ irq' = [irq EXCEPT ![u] = NoIrq]
    /\ UNCHANGED <<deaths, reaping, irq_task_map, unmasked>>

thr_create(u) == CanCall /\ new_thread(u, team[Self])

\* The new thread gets a team of its own.
thr_spawn(u, m) == CanCall /\ refcount[m] = 0 /\ new_thread(u, m)

-----------------------------------------------------------------------------
(* Waiting.                                                                *)

sleep(ticks) ==
    /\ CanCall
    /\ sched' = swtch(IF ticks = 0 THEN sched
                      ELSE rsrc_enqueue_ordered(sched, TimerQueue, Self, ticks))
    /\ UNCHANGED <<life, irqs>>

\* thr_wait() sleeps on the task it waits for; a dead task that the reaper
\* has not freed can still be waited for.
thr_wait(u) ==
    /\ CanCall
    /\ sched.flags[u] # tFREE
    /\ sched' = wait_on(sched, u)
    /\ UNCHANGED <<life, irqs>>

\* Mutant: the line is enabled as soon as somebody handles it.
os_handle_irq_unmasking(n) ==
    /\ CanCall
    /\ Self \in HandledBy[n]
    /\ irq' = [irq EXCEPT ![Self] = n]
    /\ irq_task_map' = [irq_task_map EXCEPT ![n] = Self]
    /\ unmasked' = unmasked \cup {n}
    /\ UNCHANGED <<sched, life>>

os_handle_irq(n) ==
    /\ CanCall
    /\ Self \in HandledBy[n]
    /\ irq' = [irq EXCEPT ![Self] = n]
    /\ irq_task_map' = [irq_task_map EXCEPT ![n] = Self]
    /\ UNCHANGED <<sched, life, unmasked>>

\* Mutant: the interrupt line stays masked.
os_sleep_irq_masked ==
    /\ CanCall
    /\ sched' = swtch(IF irq[Self] = NoIrq THEN sched
                      ELSE [sched EXCEPT !.flags[Self] = tSLEEP_IRQ])
    /\ UNCHANGED <<life, irqs>>

\* Without a registered interrupt os_sleep_irq() only yields.
os_sleep_irq ==
    /\ CanCall
    /\ IF irq[Self] = NoIrq
       THEN /\ sched' = swtch(sched)
            /\ UNCHANGED unmasked
       ELSE /\ sched' = swtch([sched EXCEPT !.flags[Self] = tSLEEP_IRQ])
            /\ unmasked' = unmasked \cup {irq[Self]}
    /\ UNCHANGED <<life, irq, irq_task_map>>

-----------------------------------------------------------------------------
(* Interrupts.                                                             *)

SleepsInIrq(t) == t \in Tasks /\ sched.flags[t] = tSLEEP_IRQ

irq_dispatch(n) ==
    /\ InterruptsOn
    /\ n \in unmasked
    /\ unmasked' = unmasked \ {n}
    /\ sched' = IF SleepsInIrq(irq_task_map[n])
                THEN preempt(sched, irq_task_map[n], ERR_NONE)
                ELSE sched
    /\ UNCHANGED <<life, irq, irq_task_map>>

timer ==
    /\ InterruptsOn
    /\ sched' = timer_irq(sched)
    /\ UNCHANGED <<life, irqs>>

-----------------------------------------------------------------------------
(* Death.                                                                  *)

\* Mutant: nobody wakes the reaper.
wake_nobody(k) == k

\* sem_release() without its context switch.
wake_the_reaper(k) == wake_one(k, ReaperSem, ERR_NONE)

\* Mutant: the state is set before rsrc_enqueue(), which sets it again.
terminate_marks_first ==
    /\ CanCall
    /\ LET dead   == rsrc_enqueue([sched EXCEPT !.flags[Self] = tDEAD],
                                  ReaperQueue, Self)
           joined == wake_all(dead, Self, ERR_RESOURCE)
       IN sched' = swtch(wake_the_reaper(joined))
    /\ deaths' = deaths + 1
    /\ UNCHANGED <<reaping, team, refcount, irqs>>

\* Mutant: a death is counted only when the reaper is not asleep.
terminate_counts_backlog ==
    /\ CanCall
    /\ LET dead   == [rsrc_enqueue(sched, ReaperQueue, Self)
                        EXCEPT !.flags[Self] = tDEAD]
           joined == wake_all(dead, Self, ERR_RESOURCE)
       IN sched' = swtch(wake_the_reaper(joined))
    /\ deaths' = IF sched.queue[ReaperSem] = <<>> THEN deaths + 1 ELSE deaths
    /\ UNCHANGED <<reaping, team, refcount, irqs>>

terminate ==
    /\ CanCall
    /\ LET dead   == [rsrc_enqueue(sched, ReaperQueue, Self)
                        EXCEPT !.flags[Self] = tDEAD]
           joined == wake_all(dead, Self, ERR_RESOURCE)
       IN sched' = swtch(wake_the_reaper(joined))
    /\ deaths' = deaths + 1
    /\ UNCHANGED <<reaping, team, refcount, irqs>>

\* The reaper passes the semaphore, or sleeps on it; when it is woken it
\* has passed.
reaper_acquire ==
    /\ Self = Reaper
    /\ ~reaping
    /\ deaths' = deaths - 1
    /\ reaping' = TRUE
    /\ sched' = IF deaths > 0 THEN sched ELSE wait_on(sched, ReaperSem)
    /\ UNCHANGED <<team, refcount, irqs>>

\* Mutant: whoever waits for the dead task is left there.
reaper_reap_without_release ==
    /\ Self = Reaper
    /\ reaping
    /\ LET t == Head(sched.queue[ReaperQueue])
           k == rsrc_dequeue(sched, ReaperQueue)
       IN /\ sched' = [k EXCEPT !.flags[t] = tFREE]
          /\ refcount' = [refcount EXCEPT ![team[t]] = @ - 1]
    /\ reaping' = FALSE
    /\ UNCHANGED <<deaths, team, irqs>>

\* Mutant: the dead task's team is not told.
reaper_reap_without_detach ==
    /\ Self = Reaper
    /\ reaping
    /\ LET t == Head(sched.queue[ReaperQueue])
           k == wake_all(rsrc_dequeue(sched, ReaperQueue), t, ERR_RESOURCE)
       IN sched' = [k EXCEPT !.flags[t] = tFREE]
    /\ reaping' = FALSE
    /\ UNCHANGED <<deaths, team, refcount, irqs>>

\* task_destroy() of the task that has been dead longest.
reaper_reap ==
    /\ Self = Reaper
    /\ reaping
    /\ LET t == Head(sched.queue[ReaperQueue])
           k == wake_all(rsrc_dequeue(sched, ReaperQueue), t, ERR_RESOURCE)
       IN /\ sched' = [k EXCEPT !.flags[t] = tFREE]
          /\ refcount' = [refcount EXCEPT ![team[t]] = @ - 1]
    /\ reaping' = FALSE
    /\ UNCHANGED <<deaths, team, irqs>>

-----------------------------------------------------------------------------
reaper == reaper_acquire \/ reaper_reap

Next ==
    \/ \E u \in Tasks : thr_create(u) \/ thr_wait(u)
    \/ \E u \in Tasks, m \in Teams : thr_spawn(u, m)
    \/ \E ticks \in SleepTicks : sleep(ticks)
    \/ \E n \in Irqs : os_handle_irq(n) \/ irq_dispatch(n)
    \/ os_sleep_irq
    \/ terminate
    \/ reaper
    \/ timer

\* A timer interrupt stays pending while interrupts are off and is taken
\* when they are back on; the reaper is not interrupted while it runs.
Fairness == SF_vars(timer) /\ WF_vars(reaper)

Spec == Init /\ [][Next]_vars
FairSpec == Spec /\ Fairness

-----------------------------------------------------------------------------
TypeOK ==
    /\ sched \in SchedStates
    /\ deaths \in Int
    /\ reaping \in BOOLEAN
    /\ team \in [Tasks -> Teams]
    /\ refcount \in [Teams -> Nat]
    /\ irq \in [Tasks -> Irqs \cup {NoIrq}]
    /\ irq_task_map \in [Irqs -> Tasks \cup {NoTask}]
    /\ unmasked \in SUBSET Irqs

(* The scheduler's queues and the tasks agree, and no task is lost, through *)
(* creation, sleep, interrupts, death and reuse of the task structure.     *)
TasksAccounted == QueuesAgree(sched) /\ NoTaskLost(sched)

(* The processor idles only when no task can run: a handler that makes a   *)
(* task ready never leaves the idler running.                              *)
NoIdlingWithWork == IdleOnlyWhenNothingToRun(sched)

(* reaper_sem counts the dead: the reaper, which does not check what it    *)
(* takes from reaper_queue (kernel.c:84), never finds it empty, and goes   *)
(* to sleep only when nobody is left in it.                                *)
Pending == IF reaping /\ sched.waiting_on[Reaper] # ReaperSem THEN 1 ELSE 0
DeathsCounted ==
    Len(sched.queue[ReaperQueue]) = Pending + (IF deaths > 0 THEN deaths ELSE 0)

(* The dead wait for the reaper, and nobody else does.                     *)
DeadAwaitReaper ==
    \A t \in Tasks : sched.flags[t] = tDEAD <=> sched.waiting_on[t] = ReaperQueue

(* A team counts its threads until they are freed: team_destroy() never    *)
(* meets a task (team.c:39).                                               *)
TeamCountsTasks ==
    \A m \in Teams :
        refcount[m] = Cardinality({t \in Tasks : /\ team[t] = m
                                                 /\ sched.flags[t] # tFREE})
                      + (IF m = KernelTeam THEN 1 ELSE 0)

(* Nobody waits for a thread that has been freed.                          *)
NoJoinerOfFreedThread ==
    \A u \in Tasks : sched.flags[u] = tFREE => sched.queue[u] = <<>>

(* openblt.html:188: a task in os_sleep_irq() sleeps until the interrupt   *)
(* it is registered to handle is triggered.  irq_task_map still points to  *)
(* it for the lines it handled before, or that whoever had its structure   *)
(* before handled, and irq_dispatch() (fault.c:162) wakes whom the map     *)
(* names without looking at its irq: those lines must be masked by then.   *)
WokenByOwnIrq ==
    [][\A t \in Tasks : SleepsInIrq(t) /\ ~(SleepsInIrq(t))' =>
          irq[t] \in unmasked \ unmasked']_vars

(* Only the sleeper enables its line, and the line's interrupt wakes it:   *)
(* a task asleep on a line that is still mapped to it can be woken, also   *)
(* when others handle the line or the task is mapped to other lines.       *)
MappedSleeperCanBeWoken ==
    \A t \in Tasks :
        SleepsInIrq(t) /\ irq_task_map[irq[t]] = t => irq[t] \in unmasked

(* openblt.html:188-190: the kernel knows whom to wake: a task asleep on   *)
(* an interrupt is the one the interrupt is dispatched to, and the line is *)
(* enabled.                                                                *)
SleeperCanBeWoken ==
    \A t \in Tasks : SleepsInIrq(t) => /\ irq_task_map[irq[t]] = t
                                       /\ irq[t] \in unmasked

(* thr_wait() returns only when the thread it waits for is dead or freed.  *)
JoinOnlyTheDead ==
    [][\A t, u \in Tasks :
          sched.waiting_on[t] = u /\ sched'.waiting_on[t] # u =>
              sched'.flags[u] \in {tDEAD, tFREE}]_vars

(* A dead thread does not run again: it stays dead until it is freed.      *)
DeadStayDead ==
    [][\A t \in Tasks : sched.flags[t] = tDEAD =>
          sched'.flags[t] \in {tDEAD, tFREE}]_vars

(* When a tick is over, no sleeper whose wake time has come is still on    *)
(* the timer queue.                                                        *)
SleepersWakeOnTime ==
    \A t \in Tasks : sched.waiting_on[t] = TimerQueue => sched.wait_time[t] > 0

(* Every dead thread is freed.                                             *)
DeadAreReaped ==
    \A t \in Tasks : sched.flags[t] = tDEAD ~> sched.flags[t] = tFREE

(* Every joiner of a thread that has died returns.                         *)
JoinersReturn ==
    \A t, u \in Tasks :
        sched.waiting_on[t] = u /\ sched.flags[u] = tDEAD ~> sched.waiting_on[t] # u

(* A thread in os_sleep() is made ready again, and runs.                   *)
SleepersRun ==
    \A t \in Tasks : sched.waiting_on[t] = TimerQueue ~> sched.current = t
=============================================================================
