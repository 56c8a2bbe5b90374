-------------------------------- MODULE Sem --------------------------------
(***************************************************************************)
(* Kernel semaphores (sem.c) on the scheduler: the four system calls, the  *)
(* return of a task that slept in sem_acquire(), and the timer interrupt   *)
(* that may come between any two steps of a task in user mode.             *)
(*                                                                         *)
(* A call that returns an error because it finds no semaphore changes      *)
(* nothing and is not an action.                                           *)
(***************************************************************************)
EXTENDS Sched

CONSTANTS Sems,      \* the semaphores' resources; their queues hold waiters
          Counts,    \* initial counts passed to sem_create()
          MaxCount   \* bound on the units that are released and not acquired

UserMode == "user"  \* the frame of a task that is not in the kernel

ASSUME SemAssumption ==
    /\ Sems \subseteq Queues \ {RunQueue, TimerQueue}
    /\ UserMode \notin Sems
    /\ Counts \subseteq Nat
    /\ MaxCount \in Nat

VARIABLES sched,  \* the scheduler, see Sched
          sem,    \* sem[s], whether the semaphore exists and its count
          frame   \* frame[t], the call in which t is: UserMode or a semaphore

semVars == <<sched, sem, frame>>

\* The running task is in user mode (or is the idler): it may enter the
\* kernel, and interrupts are on.
InUser == sched.current \in Tasks => frame[sched.current] = UserMode
CanCall == sched.current \in Tasks /\ frame[sched.current] = UserMode

SemInit ==
    /\ sched = SchedInit
    /\ sem = [s \in Sems |-> [live |-> FALSE, count |-> 0]]
    /\ frame = [t \in Tasks |-> UserMode]

-----------------------------------------------------------------------------
sem_create(s, n) ==
    /\ CanCall
    /\ ~sem[s].live
    /\ sem' = [sem EXCEPT ![s] = [live |-> TRUE, count |-> n]]
    /\ UNCHANGED <<sched, frame>>

\* Mutant: the waiters are told that they have a unit.
sem_destroy_granting(s) ==
    /\ CanCall
    /\ sem[s].live
    /\ sem' = [sem EXCEPT ![s] = [live |-> FALSE, count |-> 0]]
    /\ sched' = wake_all(sched, s, ERR_NONE)
    /\ UNCHANGED frame

\* rsrc_release() wakes every waiter with ERR_RESOURCE.
sem_destroy(s) ==
    /\ CanCall
    /\ sem[s].live
    /\ sem' = [sem EXCEPT ![s] = [live |-> FALSE, count |-> 0]]
    /\ sched' = wake_all(sched, s, ERR_RESOURCE)
    /\ UNCHANGED frame

\* Mutant: a unit too many is given away.
sem_acquire_at_zero(s) ==
    /\ CanCall
    /\ sem[s].live
    /\ sem' = [sem EXCEPT ![s].count = @ - 1]
    /\ IF sem[s].count >= 0
       THEN UNCHANGED <<sched, frame>>
       ELSE /\ sched' = wait_on(sched, s)
            /\ frame' = [frame EXCEPT ![sched.current] = s]

sem_acquire(s) ==
    /\ CanCall
    /\ sem[s].live
    /\ sem' = [sem EXCEPT ![s].count = @ - 1]
    /\ IF sem[s].count > 0
       THEN UNCHANGED <<sched, frame>>
       ELSE /\ sched' = wait_on(sched, s)
            /\ frame' = [frame EXCEPT ![sched.current] = s]

\* A task that slept in sem_acquire() runs again and returns its status.
sem_acquire_return ==
    /\ sched.current \in Tasks
    /\ frame[sched.current] # UserMode
    /\ frame' = [frame EXCEPT ![sched.current] = UserMode]
    /\ UNCHANGED <<sched, sem>>

\* Mutant: the waiter runs but is not taken off the queue.
sem_release_without_dequeue(s) ==
    /\ CanCall
    /\ sem[s].live
    /\ sem[s].count < MaxCount
    /\ sem' = [sem EXCEPT ![s].count = @ + 1]
    /\ sched' = IF sched.queue[s] = <<>>
                THEN sched
                ELSE preempt(sched, Head(sched.queue[s]), ERR_NONE)
    /\ UNCHANGED frame

\* The waiter at the head of the queue runs at once, with its unit.
sem_release(s) ==
    /\ CanCall
    /\ sem[s].live
    /\ sem[s].count < MaxCount
    /\ sem' = [sem EXCEPT ![s].count = @ + 1]
    /\ sched' = IF sched.queue[s] = <<>>
                THEN sched
                ELSE preempt(rsrc_dequeue(sched, s),
                             Head(sched.queue[s]), ERR_NONE)
    /\ UNCHANGED frame

timer ==
    /\ InUser
    /\ sched' = timer_irq(sched)
    /\ UNCHANGED <<sem, frame>>

SemNext ==
    \/ \E s \in Sems, n \in Counts : sem_create(s, n)
    \/ \E s \in Sems : sem_destroy(s) \/ sem_acquire(s) \/ sem_release(s)
    \/ sem_acquire_return
    \/ timer

SemSpec == SemInit /\ [][SemNext]_semVars

-----------------------------------------------------------------------------
SemTypeOK ==
    /\ sched \in SchedStates
    /\ sem \in [Sems -> [live : BOOLEAN, count : Int]]
    /\ frame \in [Tasks -> Sems \cup {UserMode}]

(* The scheduler's queues and the tasks agree, and no task is lost, after  *)
(* every system call and interrupt (kernel.c:179 and 185: the current task *)
(* must be running, the task that preempts it had better be on no queue).  *)
TasksAccounted == QueuesAgree(sched) /\ NoTaskLost(sched)

(* A negative count is the number of waiters; nobody waits on a semaphore  *)
(* that has units left or does not exist.                                  *)
CountMatchesWaiters ==
    \A s \in Sems :
        Len(sched.queue[s]) = IF sem[s].count < 0 THEN -sem[s].count ELSE 0

(* A task that waits on a semaphore is inside sem_acquire() on it, and a   *)
(* task whose sem_acquire() slept was woken or is still on the queue.      *)
WaitersAreInAcquire ==
    \A t \in Tasks : sched.waiting_on[t] \in Sems => frame[t] = sched.waiting_on[t]

-----------------------------------------------------------------------------
\* The promise the semaphores keep: see Semaphore.
Waiting(t) == sched.waiting_on[t] \in Sems
Promise == INSTANCE Semaphore WITH
    live      <- {s \in Sems : sem[s].live},
    available <- [s \in Sems |-> IF sem[s].count > 0 THEN sem[s].count ELSE 0],
    line      <- [s \in Sems |-> sched.queue[s]],
    granted   <- {t \in Tasks : /\ frame[t] # UserMode
                                /\ ~Waiting(t)
                                /\ sched.status[t] = ERR_NONE},
    refused   <- {t \in Tasks : /\ frame[t] # UserMode
                                /\ ~Waiting(t)
                                /\ sched.status[t] = ERR_RESOURCE}

(* Every step of the kernel is a step of the promise: units go to waiters  *)
(* in the order they came, exactly once, and a destroyed semaphore refuses *)
(* exactly those who were in line.                                         *)
KeepsPromise == Promise!Spec
=============================================================================
