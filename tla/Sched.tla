------------------------------- MODULE Sched -------------------------------
(***************************************************************************)
(* The kernel's task scheduler: tasks, the resource queues they wait on,   *)
(* and the operations that move a task between them (resource.c, list.c,   *)
(* task.c, kernel.c, the timer handler of fault.c).                        *)
(*                                                                         *)
(* The kernel runs with interrupts off, on one processor: a system call or *)
(* an interrupt handler is one uninterrupted sequence of these operations  *)
(* up to the next context switch.  Each operation is therefore an operator *)
(* from the scheduler's state to its next state, and the modules that      *)
(* extend this one compose them in the order of the C code.                *)
(*                                                                         *)
(* A scheduler state k is a record:                                        *)
(*   current     the running task                                          *)
(*   flags       flags[t], the tXXX state of task t                        *)
(*   waiting_on  waiting_on[t], the resource whose queue holds t           *)
(*   status      status[t], what wait_on() returns to t when it is woken   *)
(*   wait_time   wait_time[t], ticks until t's wake time (the C code keeps *)
(*               the absolute time kernel_timer + ticks)                   *)
(*   queue       queue[q], the tasks chained on resource q, oldest first   *)
(***************************************************************************)
EXTENDS Integers, Sequences

CONSTANTS Tasks,       \* the task structures, the idler's excepted
          IdleTask,    \* idle_task, which no queue ever holds
          Queues,      \* the resources that have a wait queue
          RunQueue,    \* run_queue
          TimerQueue,  \* timer_queue
          NoQueue,     \* NULL, as a value of waiting_on
          BootTasks    \* the tasks go_kernel() starts, in run queue order

ASSUME SchedAssumption ==
    /\ IdleTask \notin Tasks
    /\ {RunQueue, TimerQueue} \subseteq Queues
    /\ RunQueue # TimerQueue
    /\ NoQueue \notin Queues
    /\ BootTasks \in Seq(Tasks) \ {<<>>}
    /\ \A i, j \in 1 .. Len(BootTasks) : BootTasks[i] = BootTasks[j] => i = j

AllTasks == Tasks \cup {IdleTask}

tFREE      == "tFREE"        \* no task uses the structure
tRUNNING   == "tRUNNING"
tREADY     == "tREADY"
tDEAD      == "tDEAD"
tWAITING   == "tWAITING"
tSLEEP_IRQ == "tSLEEP_IRQ"
Flags      == {tFREE, tRUNNING, tREADY, tDEAD, tWAITING, tSLEEP_IRQ}

ERR_NONE     == "ERR_NONE"
ERR_RESOURCE == "ERR_RESOURCE"
Status       == {ERR_NONE, ERR_RESOURCE}

Elements(s) == {s[i] : i \in 1 .. Len(s)}

-----------------------------------------------------------------------------
(* Resource queues (resource.c, list.c).                                   *)

rsrc_enqueue(k, q, t) ==
    [k EXCEPT !.wait_time[t]  = 0,
              !.flags[t]      = tWAITING,
              !.waiting_on[t] = q,
              !.queue[q]      = Append(@, t)]

\* The queue is not kept ordered: like rsrc_enqueue, it appends.
rsrc_enqueue_ordered(k, q, t, ticks) ==
    [rsrc_enqueue(k, q, t) EXCEPT !.wait_time[t] = ticks]

\* Mutant: the task still points to the queue it has left.
rsrc_dequeue_keeps_waiting_on(k, q) ==
    IF k.queue[q] = <<>>
    THEN k
    ELSE [k EXCEPT !.flags[Head(k.queue[q])] = tREADY,
                   !.queue[q]                = Tail(@)]

\* The head of q leaves it.  The C function returns NULL when q is empty;
\* here the caller looks at the queue first.
rsrc_dequeue(k, q) ==
    IF k.queue[q] = <<>>
    THEN k
    ELSE [k EXCEPT !.waiting_on[Head(k.queue[q])] = NoQueue,
                   !.flags[Head(k.queue[q])]      = tREADY,
                   !.queue[q]                     = Tail(@)]

\* The task is not on any queue: it goes to the end of the run queue.
task_wake(k, t, status) ==
    rsrc_enqueue([k EXCEPT !.status[t] = status], RunQueue, t)

\* The first n tasks of q, in their order, go to the end of the run queue.
move_heads(k, q, n) ==
    LET moved == {k.queue[q][i] : i \in 1 .. n} IN
    [k EXCEPT
       !.wait_time  = [t \in AllTasks |-> IF t \in moved THEN 0 ELSE @[t]],
       !.flags      = [t \in AllTasks |-> IF t \in moved THEN tWAITING ELSE @[t]],
       !.waiting_on = [t \in AllTasks |-> IF t \in moved THEN RunQueue ELSE @[t]],
       !.queue      = [@ EXCEPT
           ![RunQueue] = k.queue[RunQueue] \o SubSeq(k.queue[q], 1, n),
           ![q]        = SubSeq(k.queue[q], n + 1, Len(k.queue[q]))]]

\* The loop of rsrc_release() and terminate(): list_detach_head() and
\* task_wake() until q is empty.
wake_all(k, q, status) ==
    [move_heads(k, q, Len(k.queue[q])) EXCEPT
       !.status = [t \in AllTasks |-> IF t \in Elements(k.queue[q])
                                      THEN status ELSE @[t]]]

\* Wake one waiter of q, if there is one.
wake_one(k, q, status) ==
    IF k.queue[q] = <<>>
    THEN k
    ELSE task_wake(rsrc_dequeue(k, q), Head(k.queue[q]), status)

-----------------------------------------------------------------------------
(* Context switches (kernel.c, task.c).                                    *)

Runnable(k) == k.flags[k.current] = tRUNNING

\* A running task that gives up the processor; the idler is never queued.
requeue_current(k) ==
    IF k.current = IdleTask THEN k ELSE rsrc_enqueue(k, RunQueue, k.current)

\* Mutant: nobody runs when the run queue is empty.
dispatch_without_idler(k) ==
    LET next == IF k.queue[RunQueue] = <<>> THEN NoQueue
                                            ELSE Head(k.queue[RunQueue])
    IN [rsrc_dequeue(k, RunQueue) EXCEPT
          !.current = next,
          !.flags   = [t \in AllTasks |-> IF t = next THEN tRUNNING ELSE @[t]]]

\* Take the next task from the run queue, or the idler when it is empty.
\* (live_tasks counts the reaper, which never ends, so that the branch of
\* swtch() that stops the machine is not reached.)
dispatch(k) ==
    LET next == IF k.queue[RunQueue] = <<>> THEN IdleTask
                                            ELSE Head(k.queue[RunQueue])
    IN [rsrc_dequeue(k, RunQueue) EXCEPT !.current     = next,
                                         !.flags[next] = tRUNNING]

swtch(k) ==
    IF Runnable(k)
    THEN IF k.queue[RunQueue] = <<>> THEN k ELSE dispatch(requeue_current(k))
    ELSE dispatch(k)

\* t runs at once in place of the current task, which must be running.
preempt(k, t, status) ==
    [requeue_current(k) EXCEPT !.current   = t,
                               !.status[t] = status,
                               !.flags[t]  = tRUNNING]

\* The current task sleeps on q until somebody wakes it.
wait_on(k, q) ==
    swtch(rsrc_enqueue([k EXCEPT !.status[k.current] = ERR_NONE],
                       q, k.current))

-----------------------------------------------------------------------------
(* The timer interrupt (fault.c).                                          *)

Tick(k) ==
    [k EXCEPT !.wait_time =
        [t \in AllTasks |-> IF k.waiting_on[t] = TimerQueue /\ @[t] > 0
                            THEN @[t] - 1 ELSE @[t]]]

\* Mutant: a sleeper whose time is exactly now is not due.
StopsAtNow(k, n) ==
    \/ n = Len(k.queue[TimerQueue])
    \/ k.wait_time[k.queue[TimerQueue][n + 1]] >= 0

\* The loop looks at the head of the queue only: it stops at the first
\* sleeper whose time has not come, and at the end of the queue.
StopsAt(k, n) ==
    \/ n = Len(k.queue[TimerQueue])
    \/ k.wait_time[k.queue[TimerQueue][n + 1]] > 0

Due(k) ==
    CHOOSE n \in 0 .. Len(k.queue[TimerQueue]) :
        StopsAt(k, n) /\ \A m \in 0 .. n - 1 : ~StopsAt(k, m)

wake_expired(k) == move_heads(k, TimerQueue, Due(k))

\* Mutant: the woken tasks wait for the next context switch.
timer_irq_without_swtch(k) == wake_expired(Tick(k))

timer_irq(k) == swtch(wake_expired(Tick(k)))

-----------------------------------------------------------------------------
(* State at the end of go_kernel(): the first task of the run queue runs.  *)

SchedInit ==
    [current    |-> Head(BootTasks),
     flags      |-> [t \in AllTasks |->
                        IF t = Head(BootTasks) THEN tRUNNING
                        ELSE IF t \in Elements(BootTasks) THEN tWAITING
                        ELSE IF t = IdleTask THEN tREADY ELSE tFREE],
     waiting_on |-> [t \in AllTasks |->
                        IF t \in Elements(Tail(BootTasks)) THEN RunQueue
                                                           ELSE NoQueue],
     status     |-> [t \in AllTasks |-> ERR_NONE],
     wait_time  |-> [t \in AllTasks |-> 0],
     queue      |-> [q \in Queues |->
                        IF q = RunQueue THEN Tail(BootTasks) ELSE <<>>]]

SchedStates ==
    [current    : AllTasks,
     flags      : [AllTasks -> Flags],
     waiting_on : [AllTasks -> Queues \cup {NoQueue}],
     status     : [AllTasks -> Status],
     wait_time  : [AllTasks -> Nat],
     queue      : [Queues -> Seq(Tasks)]]

-----------------------------------------------------------------------------
(* What every operation relies on, between any two of them: a task is on   *)
(* the queue its waiting_on names, once, and on no other.                  *)
QueuesAgree(k) ==
    /\ \A q \in Queues : \A i \in 1 .. Len(k.queue[q]) :
          k.waiting_on[k.queue[q][i]] = q
    /\ \A q \in Queues : \A i, j \in 1 .. Len(k.queue[q]) :
          k.queue[q][i] = k.queue[q][j] => i = j
    /\ \A t \in Tasks : k.waiting_on[t] # NoQueue =>
          \E i \in 1 .. Len(k.queue[k.waiting_on[t]]) :
              k.queue[k.waiting_on[t]][i] = t
    /\ k.waiting_on[IdleTask] = NoQueue

(* A task waits exactly when it is on a queue, or it is dead; only the     *)
(* current task may be running.                                            *)
FlagsAgree(k) ==
    /\ \A t \in Tasks : k.flags[t] = tWAITING => k.waiting_on[t] # NoQueue
    /\ \A t \in Tasks : k.waiting_on[t] # NoQueue => k.flags[t] \in {tWAITING, tDEAD}
    /\ \A t \in Tasks : k.flags[t] = tRUNNING => t = k.current
    /\ \A t \in Tasks : k.flags[t] # tREADY

(* Between two system calls or interrupts the current task is running and  *)
(* on no queue, and every other task can still be found: on a queue, in    *)
(* os_sleep_irq(), or dead.                                                *)
NoTaskLost(k) ==
    /\ k.flags[k.current] = tRUNNING
    /\ k.waiting_on[k.current] = NoQueue
    /\ FlagsAgree(k)

(* The processor idles only when there is nothing to run.                  *)
IdleOnlyWhenNothingToRun(k) ==
    k.current = IdleTask => k.queue[RunQueue] = <<>>
=============================================================================
