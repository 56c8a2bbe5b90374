---------------------------- MODULE SchedProofs ----------------------------
(***************************************************************************)
(* What the scheduler's operations preserve, for every set of tasks and    *)
(* queues: lemmas about the operators of Sched, which the proofs of the    *)
(* modules built on it cite by name.                                       *)
(***************************************************************************)
EXTENDS Sched, TLAPS, SequenceTheorems, WellFoundedInduction

(* A scheduler state between two operations of a handler: well typed, its  *)
(* queues and waiting_on agree, and so do its flags.                       *)
Consistent(k) == k \in SchedStates /\ QueuesAgree(k) /\ FlagsAgree(k)

-----------------------------------------------------------------------------
(* Types.  Each operation changes some fields of the record; the lemmas    *)
(* list them, so that the proofs that follow need not expand it again.     *)

(* The fields of a scheduler state.                                        *)
LEMMA Fields ==
    ASSUME NEW k \in SchedStates
    PROVE  /\ k.current \in AllTasks
           /\ k.flags \in [AllTasks -> Flags]
           /\ k.waiting_on \in [AllTasks -> Queues \cup {NoQueue}]
           /\ k.status \in [AllTasks -> Status]
           /\ k.wait_time \in [AllTasks -> Nat]
           /\ k.queue \in [Queues -> Seq(Tasks)]
  BY DEF SchedStates

(* rsrc_enqueue(): resource.c:144.                                         *)
LEMMA EnqueueFields ==
    ASSUME NEW k \in SchedStates, NEW q \in Queues, NEW t \in Tasks
    PROVE  /\ rsrc_enqueue(k, q, t) \in SchedStates
           /\ rsrc_enqueue(k, q, t).current = k.current
           /\ rsrc_enqueue(k, q, t).flags = [k.flags EXCEPT ![t] = tWAITING]
           /\ rsrc_enqueue(k, q, t).waiting_on = [k.waiting_on EXCEPT ![t] = q]
           /\ rsrc_enqueue(k, q, t).status = k.status
           /\ rsrc_enqueue(k, q, t).queue = [k.queue EXCEPT ![q] = Append(k.queue[q], t)]
  <1>1. [k.flags EXCEPT ![t] = tWAITING] \in [AllTasks -> Flags]
    BY Fields DEF Flags
  <1>2. [k.wait_time EXCEPT ![t] = 0] \in [AllTasks -> Nat]
    BY Fields
  <1>3. [k.waiting_on EXCEPT ![t] = q] \in [AllTasks -> Queues \cup {NoQueue}]
    BY Fields
  <1>4. [k.queue EXCEPT ![q] = Append(k.queue[q], t)] \in [Queues -> Seq(Tasks)]
    BY Fields
  <1>5. rsrc_enqueue(k, q, t) \in SchedStates
    BY <1>1, <1>2, <1>3, <1>4 DEF SchedStates, rsrc_enqueue
  <1>6. /\ rsrc_enqueue(k, q, t).current = k.current
        /\ rsrc_enqueue(k, q, t).flags = [k.flags EXCEPT ![t] = tWAITING]
        /\ rsrc_enqueue(k, q, t).waiting_on = [k.waiting_on EXCEPT ![t] = q]
        /\ rsrc_enqueue(k, q, t).status = k.status
        /\ rsrc_enqueue(k, q, t).queue = [k.queue EXCEPT ![q] = Append(k.queue[q], t)]
    BY DEF SchedStates, rsrc_enqueue
  <1> QED BY <1>5, <1>6

(* rsrc_dequeue() of a queue that holds a task: resource.c:152.            *)
LEMMA DequeueFields ==
    ASSUME NEW k \in SchedStates, NEW q \in Queues, k.queue[q] # <<>>,
           NEW h, h = Head(k.queue[q])
    PROVE  /\ h \in Tasks
           /\ rsrc_dequeue(k, q) \in SchedStates
           /\ rsrc_dequeue(k, q).current = k.current
           /\ rsrc_dequeue(k, q).flags = [k.flags EXCEPT ![h] = tREADY]
           /\ rsrc_dequeue(k, q).waiting_on = [k.waiting_on EXCEPT ![h] = NoQueue]
           /\ rsrc_dequeue(k, q).status = k.status
           /\ rsrc_dequeue(k, q).queue = [k.queue EXCEPT ![q] = Tail(k.queue[q])]
  <1>1. h \in Tasks
    BY Fields
  <1>2. [k.flags EXCEPT ![h] = tREADY] \in [AllTasks -> Flags]
    BY Fields DEF Flags
  <1>3. [k.waiting_on EXCEPT ![h] = NoQueue] \in [AllTasks -> Queues \cup {NoQueue}]
    BY Fields
  <1>4. [k.queue EXCEPT ![q] = Tail(k.queue[q])] \in [Queues -> Seq(Tasks)]
    BY Fields
  <1>5. rsrc_dequeue(k, q) \in SchedStates
    BY <1>2, <1>3, <1>4 DEF SchedStates, rsrc_dequeue
  <1>6. /\ rsrc_dequeue(k, q).current = k.current
        /\ rsrc_dequeue(k, q).flags = [k.flags EXCEPT ![h] = tREADY]
        /\ rsrc_dequeue(k, q).waiting_on = [k.waiting_on EXCEPT ![h] = NoQueue]
        /\ rsrc_dequeue(k, q).status = k.status
        /\ rsrc_dequeue(k, q).queue = [k.queue EXCEPT ![q] = Tail(k.queue[q])]
    BY DEF SchedStates, rsrc_dequeue
  <1> QED BY <1>1, <1>5, <1>6

-----------------------------------------------------------------------------
(* Queues.                                                                 *)

(* A task that is on no queue may be appended to any: list_attach_tail().  *)
LEMMA AppendAgree ==
    ASSUME NEW k \in SchedStates, NEW r \in SchedStates,
           NEW q \in Queues, NEW t \in Tasks,
           QueuesAgree(k), k.waiting_on[t] = NoQueue,
           r.queue = [k.queue EXCEPT ![q] = Append(k.queue[q], t)],
           r.waiting_on = [k.waiting_on EXCEPT ![t] = q]
    PROVE  QueuesAgree(r)
  <1>1. k.queue \in [Queues -> Seq(Tasks)] /\ k.waiting_on \in [AllTasks -> Queues \cup {NoQueue}]
    BY Fields
  <1>2. \A p \in Queues : \A i \in 1 .. Len(k.queue[p]) : k.queue[p][i] \in Tasks \ {t}
    BY <1>1, SchedAssumption DEF QueuesAgree
  <1>3. \A p \in Queues : \A i \in 1 .. Len(r.queue[p]) : r.waiting_on[r.queue[p][i]] = p
    BY <1>1, <1>2 DEF QueuesAgree, AllTasks
  <1>4. \A p \in Queues : \A i, j \in 1 .. Len(r.queue[p]) :
            r.queue[p][i] = r.queue[p][j] => i = j
    BY <1>1, <1>2 DEF QueuesAgree
  <1>5. ASSUME NEW u \in Tasks, r.waiting_on[u] # NoQueue
        PROVE  \E i \in 1 .. Len(r.queue[r.waiting_on[u]]) :
                   r.queue[r.waiting_on[u]][i] = u
    <2>1. CASE u = t
      <3>1. r.waiting_on[u] = q /\ r.queue[q] = Append(k.queue[q], t)
        BY <2>1, <1>1 DEF AllTasks
      <3>2. Len(r.queue[q]) \in 1 .. Len(r.queue[q]) /\ r.queue[q][Len(r.queue[q])] = t
        BY <3>1, <1>1
      <3> QED BY <2>1, <3>1, <3>2
    <2>2. CASE u # t
      <3>1. r.waiting_on[u] = k.waiting_on[u]
        BY <2>2, <1>1 DEF AllTasks
      <3>2. k.waiting_on[u] \in Queues
        BY <3>1, <1>5, <1>1 DEF AllTasks
      <3>3. PICK i \in 1 .. Len(k.queue[k.waiting_on[u]]) : k.queue[k.waiting_on[u]][i] = u
        BY <3>1, <1>5 DEF QueuesAgree
      <3>4. i \in 1 .. Len(r.queue[k.waiting_on[u]]) /\ r.queue[k.waiting_on[u]][i] = u
        BY <3>2, <3>3, <1>1
      <3> QED BY <3>1, <3>4
    <2> QED BY <2>1, <2>2
  <1>6. r.waiting_on[IdleTask] = NoQueue
    BY <1>1, SchedAssumption DEF QueuesAgree, AllTasks
  <1> QED BY <1>3, <1>4, <1>5, <1>6 DEF QueuesAgree

(* The head of a queue may leave it: list_detach_head().                   *)
LEMMA DetachHeadAgree ==
    ASSUME NEW k \in SchedStates, NEW r \in SchedStates, NEW q \in Queues,
           QueuesAgree(k), k.queue[q] # <<>>, NEW h, h = Head(k.queue[q]),
           r.queue = [k.queue EXCEPT ![q] = Tail(k.queue[q])],
           r.waiting_on = [k.waiting_on EXCEPT ![h] = NoQueue]
    PROVE  QueuesAgree(r)
  <1>1. k.queue \in [Queues -> Seq(Tasks)] /\ k.waiting_on \in [AllTasks -> Queues \cup {NoQueue}]
    BY Fields
  <1>2. /\ h = k.queue[q][1] /\ 1 \in 1 .. Len(k.queue[q]) /\ h \in Tasks
        /\ k.waiting_on[h] = q
    BY <1>1 DEF QueuesAgree
  <1>3. /\ Len(r.queue[q]) = Len(k.queue[q]) - 1
        /\ \A i \in 1 .. Len(r.queue[q]) : /\ r.queue[q][i] = k.queue[q][i + 1]
                                           /\ i + 1 \in 1 .. Len(k.queue[q])
                                           /\ r.queue[q][i] # h
    BY <1>1, <1>2 DEF QueuesAgree
  <1>4. \A p \in Queues \ {q} : r.queue[p] = k.queue[p]
    BY <1>1
  <1>5. \A p \in Queues \ {q} : \A i \in 1 .. Len(k.queue[p]) : k.queue[p][i] \in Tasks \ {h}
    BY SMTT(60), <1>1, <1>2 DEF QueuesAgree
  <1>6. \A p \in Queues : \A i \in 1 .. Len(r.queue[p]) : r.waiting_on[r.queue[p][i]] = p
    BY SMTT(60), <1>1, <1>3, <1>4, <1>5 DEF QueuesAgree, AllTasks
  <1>7. \A p \in Queues : \A i, j \in 1 .. Len(r.queue[p]) :
            r.queue[p][i] = r.queue[p][j] => i = j
    BY <1>1, <1>3, <1>4 DEF QueuesAgree
  <1>8. ASSUME NEW u \in Tasks, r.waiting_on[u] # NoQueue
        PROVE  \E i \in 1 .. Len(r.queue[r.waiting_on[u]]) :
                   r.queue[r.waiting_on[u]][i] = u
    <2>1. u # h /\ r.waiting_on[u] = k.waiting_on[u] /\ k.waiting_on[u] \in Queues
      BY <1>1, <1>2, <1>8 DEF AllTasks
    <2>2. PICK i \in 1 .. Len(k.queue[k.waiting_on[u]]) : k.queue[k.waiting_on[u]][i] = u
      BY <2>1, <1>8 DEF QueuesAgree
    <2>3. CASE k.waiting_on[u] = q
      <3>1. i # 1
        BY <2>1, <2>2, <2>3, <1>2
      <3>2. i - 1 \in 1 .. Len(r.queue[q]) /\ r.queue[q][i - 1] = u
        BY <2>2, <2>3, <3>1, <1>3, <1>1
      <3> QED BY <3>2, <2>1, <2>3
    <2>4. CASE k.waiting_on[u] # q
      BY <2>1, <2>2, <2>4, <1>4
    <2> QED BY <2>3, <2>4
  <1>9. r.waiting_on[IdleTask] = NoQueue
    BY <1>1, <1>2, SchedAssumption DEF QueuesAgree, AllTasks
  <1> QED BY <1>6, <1>7, <1>8, <1>9 DEF QueuesAgree

-----------------------------------------------------------------------------
(* Context switches.                                                       *)

(* What the rest of the kernel sees of a switch: only the run queue, and   *)
(* tasks on it or leaving the processor, change.                           *)
OthersUntouched(k, r) ==
    /\ r.status = k.status
    /\ \A q \in Queues \ {RunQueue} : r.queue[q] = k.queue[q]
    /\ \A t \in Tasks : r.waiting_on[t] # k.waiting_on[t] =>
                            r.waiting_on[t] \in {RunQueue, NoQueue}

(* The dispatcher half of swtch() (kernel.c:206-229), entered when no task *)
(* is marked running, leaves a running task that is on no queue.           *)
LEMMA DispatchSafe ==
    ASSUME NEW k, Consistent(k),
           \A t \in Tasks : k.flags[t] # tRUNNING
    PROVE  /\ Consistent(dispatch(k)) /\ NoTaskLost(dispatch(k))
           /\ OthersUntouched(k, dispatch(k))
  <1> DEFINE r == dispatch(k)
             d == rsrc_dequeue(k, RunQueue)
             h == Head(k.queue[RunQueue])
  <1>0. k \in SchedStates /\ QueuesAgree(k) /\ FlagsAgree(k) /\ RunQueue \in Queues
    BY SchedAssumption DEF Consistent
  <1>1. CASE k.queue[RunQueue] = <<>>
    <2>1. r = [k EXCEPT !.current = IdleTask, !.flags[IdleTask] = tRUNNING]
      BY <1>1 DEF dispatch, rsrc_dequeue
    <2>2. [k.flags EXCEPT ![IdleTask] = tRUNNING] \in [AllTasks -> Flags]
      BY <1>0, Fields DEF Flags
    <2>3. r \in SchedStates
      BY <2>1, <2>2, <1>0 DEF SchedStates, AllTasks
    <2>4. /\ r.current = IdleTask
          /\ r.flags = [k.flags EXCEPT ![IdleTask] = tRUNNING]
          /\ r.waiting_on = k.waiting_on
          /\ r.status = k.status
          /\ r.queue = k.queue
      BY <2>1, <1>0 DEF SchedStates
    <2>5. QueuesAgree(r)
      BY <2>4, <1>0 DEF QueuesAgree
    <2>6. \A t \in Tasks : r.flags[t] = k.flags[t]
      BY <2>4, <1>0, Fields, SchedAssumption DEF AllTasks
    <2>7. FlagsAgree(r)
      BY <2>4, <2>6, <1>0 DEF FlagsAgree
    <2>8. r.flags[IdleTask] = tRUNNING /\ r.waiting_on[IdleTask] = NoQueue
      BY <2>4, <1>0, Fields DEF AllTasks, QueuesAgree
    <2>9. OthersUntouched(k, r)
      BY <2>4 DEF OthersUntouched
    <2> QED BY <2>3, <2>4, <2>5, <2>7, <2>8, <2>9 DEF Consistent, NoTaskLost
  <1>2. CASE k.queue[RunQueue] # <<>>
    <2>1. /\ h \in Tasks
          /\ d \in SchedStates
          /\ d.current = k.current
          /\ d.flags = [k.flags EXCEPT ![h] = tREADY]
          /\ d.waiting_on = [k.waiting_on EXCEPT ![h] = NoQueue]
          /\ d.status = k.status
          /\ d.queue = [k.queue EXCEPT ![RunQueue] = Tail(k.queue[RunQueue])]
      BY <1>0, <1>2, DequeueFields
    <2>2. r = [d EXCEPT !.current = h, !.flags[h] = tRUNNING]
      BY <1>2 DEF dispatch
    <2>3. [d.flags EXCEPT ![h] = tRUNNING] \in [AllTasks -> Flags]
      BY <2>1, Fields DEF Flags
    <2>4. r \in SchedStates
      BY <2>1, <2>2, <2>3 DEF SchedStates, AllTasks
    <2>5. /\ r.current = h
          /\ r.flags = [d.flags EXCEPT ![h] = tRUNNING]
          /\ r.waiting_on = d.waiting_on
          /\ r.status = d.status
          /\ r.queue = d.queue
      BY <2>1, <2>2 DEF SchedStates
    <2>6. QueuesAgree(r)
      BY <1>0, <1>2, <2>1, <2>4, <2>5, DetachHeadAgree
    <2>7. /\ r.flags[h] = tRUNNING /\ r.waiting_on[h] = NoQueue
          /\ \A t \in Tasks \ {h} : /\ r.flags[t] = k.flags[t]
                                    /\ r.waiting_on[t] = k.waiting_on[t]
      BY <1>0, <2>1, <2>5, Fields DEF AllTasks
    <2>8. FlagsAgree(r)
      BY <2>5, <2>7, <1>0 DEF FlagsAgree, tRUNNING, tREADY, tWAITING
    <2>9. OthersUntouched(k, r)
      BY <2>1, <2>5, <2>7, <1>0, Fields DEF OthersUntouched
    <2> QED BY <2>4, <2>5, <2>6, <2>7, <2>8, <2>9 DEF Consistent, NoTaskLost
  <1> QED BY <1>1, <1>2

(* The current task goes to the run queue (kernel.c:181, 202): afterwards  *)
(* no task is marked running.                                              *)
LEMMA RequeueSafe ==
    ASSUME NEW k, Consistent(k), NoTaskLost(k)
    PROVE  /\ Consistent(requeue_current(k))
           /\ \A t \in Tasks : requeue_current(k).flags[t] # tRUNNING
           /\ OthersUntouched(k, requeue_current(k))
           /\ \A t \in Tasks \ {k.current} :
                  /\ requeue_current(k).flags[t] = k.flags[t]
                  /\ requeue_current(k).waiting_on[t] = k.waiting_on[t]
  <1> DEFINE r == requeue_current(k)
  <1>0. k \in SchedStates /\ QueuesAgree(k) /\ FlagsAgree(k) /\ RunQueue \in Queues
    BY SchedAssumption DEF Consistent
  <1>1. CASE k.current = IdleTask
    <2>1. r = k
      BY <1>1 DEF requeue_current
    <2>2. \A t \in Tasks : k.flags[t] # tRUNNING
      BY <1>0, <1>1, SchedAssumption DEF FlagsAgree
    <2> QED BY <2>1, <2>2 DEF OthersUntouched
  <1>2. CASE k.current # IdleTask
    <2>1. r = rsrc_enqueue(k, RunQueue, k.current) /\ k.current \in Tasks
      BY <1>0, <1>2, Fields DEF requeue_current, AllTasks
    <2>2. /\ r \in SchedStates
          /\ r.current = k.current
          /\ r.flags = [k.flags EXCEPT ![k.current] = tWAITING]
          /\ r.waiting_on = [k.waiting_on EXCEPT ![k.current] = RunQueue]
          /\ r.status = k.status
          /\ r.queue = [k.queue EXCEPT ![RunQueue] = Append(k.queue[RunQueue], k.current)]
      BY <2>1, <1>0, EnqueueFields
    <2>3. QueuesAgree(r)
      BY <1>0, <2>1, <2>2, AppendAgree DEF NoTaskLost
    <2>4. /\ r.flags[k.current] = tWAITING /\ r.waiting_on[k.current] = RunQueue
          /\ \A t \in Tasks \ {k.current} : /\ r.flags[t] = k.flags[t]
                                            /\ r.waiting_on[t] = k.waiting_on[t]
      BY <1>0, <2>1, <2>2, Fields DEF AllTasks
    <2>5. FlagsAgree(r) /\ \A t \in Tasks : r.flags[t] # tRUNNING
      BY <1>0, <2>2, <2>4, SchedAssumption DEF FlagsAgree, tWAITING, tRUNNING, tREADY
    <2>6. OthersUntouched(k, r)
      BY <1>0, <2>2, <2>4, Fields DEF OthersUntouched
    <2> QED BY <2>2, <2>3, <2>4, <2>5, <2>6 DEF Consistent
  <1> QED BY <1>1, <1>2

(* swtch() (kernel.c:196): whether the current task may go on or not, the  *)
(* task that runs next is running and on no queue, and nothing is lost.    *)
LEMMA SwtchSafe ==
    ASSUME NEW k, Consistent(k), Runnable(k) => k.waiting_on[k.current] = NoQueue
    PROVE  /\ Consistent(swtch(k)) /\ NoTaskLost(swtch(k))
           /\ OthersUntouched(k, swtch(k))
  <1>1. CASE ~Runnable(k)
    <2>1. \A t \in Tasks : k.flags[t] # tRUNNING
      BY <1>1 DEF Consistent, FlagsAgree, Runnable
    <2> QED BY <2>1, <1>1, DispatchSafe DEF swtch
  <1>2. CASE Runnable(k) /\ k.queue[RunQueue] = <<>>
    BY <1>2 DEF swtch, Consistent, NoTaskLost, Runnable, OthersUntouched
  <1>3. CASE Runnable(k) /\ k.queue[RunQueue] # <<>>
    <2> DEFINE r == requeue_current(k)
    <2>1. NoTaskLost(k)
      BY <1>3 DEF Consistent, NoTaskLost, Runnable
    <2>2. /\ Consistent(r)
          /\ \A t \in Tasks : r.flags[t] # tRUNNING
          /\ OthersUntouched(k, r)
      BY <2>1, RequeueSafe
    <2>3. /\ Consistent(dispatch(r)) /\ NoTaskLost(dispatch(r))
          /\ OthersUntouched(r, dispatch(r))
      BY <2>2, DispatchSafe
    <2>4. OthersUntouched(k, dispatch(r))
      BY <2>2, <2>3 DEF OthersUntouched
    <2> QED BY <1>3, <2>3, <2>4 DEF swtch
  <1> QED BY <1>1, <1>2, <1>3

(* Between k and r the current task went to sleep on q, at its end.        *)
Slept(k, q, r) ==
    /\ Consistent(r) /\ NoTaskLost(r)
    /\ r.queue[q] = Append(k.queue[q], k.current)
    /\ \A p \in Queues \ {RunQueue, q} : r.queue[p] = k.queue[p]
    /\ r.status = [k.status EXCEPT ![k.current] = ERR_NONE]
    /\ \A t \in Tasks : r.waiting_on[t] # k.waiting_on[t] =>
           \/ r.waiting_on[t] \in {RunQueue, NoQueue}
           \/ t = k.current /\ r.waiting_on[t] = q

(* wait_on() (task.c:21): the caller sleeps on q and another task runs.    *)
LEMMA WaitOnSafe ==
    ASSUME NEW k, Consistent(k), NoTaskLost(k), k.current \in Tasks,
           NEW q \in Queues \ {RunQueue}
    PROVE  Slept(k, q, wait_on(k, q))
  <1> DEFINE c == k.current
             s == [k EXCEPT !.status[k.current] = ERR_NONE]
  <1>0. k \in SchedStates /\ QueuesAgree(k) /\ FlagsAgree(k)
    BY DEF Consistent
  <1>1. [k.status EXCEPT ![c] = ERR_NONE] \in [AllTasks -> Status]
    BY <1>0, Fields DEF Status
  <1>2. s \in SchedStates
    BY <1>0, <1>1 DEF SchedStates
  <1>3. /\ s.current = c /\ s.flags = k.flags /\ s.waiting_on = k.waiting_on
        /\ s.queue = k.queue /\ s.status = [k.status EXCEPT ![c] = ERR_NONE]
    BY <1>0 DEF SchedStates
  <1> DEFINE e == rsrc_enqueue(s, q, c)
  <1>4. wait_on(k, q) = swtch(e)
    BY DEF wait_on
  <1> HIDE DEF s
  <1>5. /\ e \in SchedStates
        /\ e.current = c
        /\ e.flags = [k.flags EXCEPT ![c] = tWAITING]
        /\ e.waiting_on = [k.waiting_on EXCEPT ![c] = q]
        /\ e.status = [k.status EXCEPT ![c] = ERR_NONE]
        /\ e.queue = [k.queue EXCEPT ![q] = Append(k.queue[q], c)]
    <2>1. q \in Queues /\ c \in Tasks
      OBVIOUS
    <2>2. /\ e \in SchedStates
          /\ e.current = s.current
          /\ e.flags = [s.flags EXCEPT ![c] = tWAITING]
          /\ e.waiting_on = [s.waiting_on EXCEPT ![c] = q]
          /\ e.status = s.status
          /\ e.queue = [s.queue EXCEPT ![q] = Append(s.queue[q], c)]
      BY <1>2, <2>1, EnqueueFields
    <2> QED BY <2>2, <1>3
  <1> HIDE DEF e
  <1>6. QueuesAgree(e)
    BY <1>0, <1>5, AppendAgree DEF NoTaskLost
  <1>7. /\ e.flags[c] = tWAITING /\ e.waiting_on[c] = q
        /\ \A t \in Tasks \ {c} : e.flags[t] = k.flags[t] /\ e.waiting_on[t] = k.waiting_on[t]
    BY <1>0, <1>5, Fields DEF AllTasks
  <1>8. FlagsAgree(e) /\ ~Runnable(e)
    BY <1>0, <1>5, <1>7, SchedAssumption DEF FlagsAgree, Runnable, tWAITING, tRUNNING, tREADY
  <1>9. /\ Consistent(swtch(e)) /\ NoTaskLost(swtch(e)) /\ OthersUntouched(e, swtch(e))
    BY <1>5, <1>6, <1>8, SwtchSafe DEF Consistent
  <1>10. /\ swtch(e).queue[q] = Append(k.queue[q], c)
         /\ \A p \in Queues \ {RunQueue, q} : swtch(e).queue[p] = k.queue[p]
    <2>1. k.queue \in [Queues -> Seq(Tasks)]
      BY <1>0, Fields
    <2>2. /\ e.queue[q] = Append(k.queue[q], c)
          /\ \A p \in Queues \ {RunQueue, q} : e.queue[p] = k.queue[p]
      BY <2>1, <1>5
    <2> QED BY <2>2, <1>9 DEF OthersUntouched
  <1>11. \A t \in Tasks :
            swtch(e).waiting_on[t] # k.waiting_on[t] =>
                \/ swtch(e).waiting_on[t] \in {RunQueue, NoQueue}
                \/ t = c /\ swtch(e).waiting_on[t] = q
    BY <1>9, <1>7 DEF OthersUntouched
  <1> QED BY <1>4, <1>5, <1>9, <1>10, <1>11 DEF OthersUntouched, Slept

-----------------------------------------------------------------------------
(* Waking the tasks of a queue, and the timer.                             *)

(* The first n tasks of q moved to the run queue, between k and r. *)
HeadsMoved(k, r, q, n, moved) ==
    /\ moved = {k.queue[q][i] : i \in 1 .. n}
    /\ r.waiting_on = [t \in AllTasks |-> IF t \in moved THEN RunQueue ELSE k.waiting_on[t]]
    /\ r.queue = [k.queue EXCEPT
                      ![RunQueue] = k.queue[RunQueue] \o SubSeq(k.queue[q], 1, n),
                      ![q] = SubSeq(k.queue[q], n + 1, Len(k.queue[q]))]

(* move_heads(), field by field: resource.c:108-111, fault.c:192-196.      *)
LEMMA MoveHeadsFields ==
    ASSUME NEW k \in SchedStates, NEW q \in Queues \ {RunQueue},
           NEW n \in 0 .. Len(k.queue[q]),
           NEW moved, moved = {k.queue[q][i] : i \in 1 .. n},
           NEW r, r = move_heads(k, q, n)
    PROVE  /\ r \in SchedStates
           /\ r.current = k.current
           /\ r.flags = [t \in AllTasks |-> IF t \in moved THEN tWAITING ELSE k.flags[t]]
           /\ r.status = k.status
           /\ HeadsMoved(k, r, q, n, moved)
  <1>1. [t \in AllTasks |-> IF t \in moved THEN tWAITING ELSE k.flags[t]] \in [AllTasks -> Flags]
    BY Fields DEF Flags
  <1>2. [t \in AllTasks |-> IF t \in moved THEN 0 ELSE k.wait_time[t]] \in [AllTasks -> Nat]
    BY Fields
  <1>3. [t \in AllTasks |-> IF t \in moved THEN RunQueue ELSE k.waiting_on[t]]
            \in [AllTasks -> Queues \cup {NoQueue}]
    BY Fields, SchedAssumption
  <1>4. [k.queue EXCEPT ![RunQueue] = k.queue[RunQueue] \o SubSeq(k.queue[q], 1, n),
                        ![q] = SubSeq(k.queue[q], n + 1, Len(k.queue[q]))] \in [Queues -> Seq(Tasks)]
    <2>1. k.queue \in [Queues -> Seq(Tasks)] /\ RunQueue \in Queues
      BY Fields, SchedAssumption
    <2>2. k.queue[RunQueue] \in Seq(Tasks) /\ k.queue[q] \in Seq(Tasks)
      BY <2>1
    <2>5. /\ \A i \in 1 .. n : k.queue[q][i] \in Tasks
          /\ \A i \in n + 1 .. Len(k.queue[q]) : k.queue[q][i] \in Tasks
          /\ n \in Int /\ n + 1 \in Int /\ Len(k.queue[q]) \in Int
      BY <2>2
    <2>3. SubSeq(k.queue[q], 1, n) \in Seq(Tasks) /\ SubSeq(k.queue[q], n + 1, Len(k.queue[q])) \in Seq(Tasks)
      BY <2>5, SubSeqProperties
    <2>4. k.queue[RunQueue] \o SubSeq(k.queue[q], 1, n) \in Seq(Tasks)
      BY <2>2, <2>3, ConcatProperties
    <2> QED BY <2>1, <2>3, <2>4
  <1>5. r \in SchedStates
    BY <1>1, <1>2, <1>3, <1>4 DEF SchedStates, move_heads
  <1>6. /\ r.current = k.current
        /\ r.flags = [t \in AllTasks |-> IF t \in moved THEN tWAITING ELSE k.flags[t]]
        /\ r.status = k.status
    BY DEF SchedStates, move_heads
  <1>7. HeadsMoved(k, r, q, n, moved)
    BY DEF SchedStates, move_heads, HeadsMoved
  <1> QED BY <1>5, <1>6, <1>7

(* Moving the heads of a queue keeps the queues and the tasks in agreement.*)
LEMMA MoveHeadsAgree ==
    ASSUME NEW k \in SchedStates, QueuesAgree(k), NEW r \in SchedStates,
           NEW q \in Queues \ {RunQueue}, NEW n \in 0 .. Len(k.queue[q]),
           NEW moved, HeadsMoved(k, r, q, n, moved)
    PROVE  QueuesAgree(r)
  <1> DEFINE s == k.queue[q]
             u == k.queue[RunQueue]
  <1>0. moved = {s[i] : i \in 1 .. n}
    BY DEF HeadsMoved
  <1>1. \A t \in Tasks : r.waiting_on[t] = IF t \in moved THEN RunQueue ELSE k.waiting_on[t]
    BY DEF HeadsMoved, AllTasks
  <1>2. /\ k.queue \in [Queues -> Seq(Tasks)] /\ RunQueue \in Queues
        /\ k.waiting_on \in [AllTasks -> Queues \cup {NoQueue}]
    BY Fields, SchedAssumption
  <1>3. /\ s \in Seq(Tasks) /\ u \in Seq(Tasks)
        /\ Len(s) \in Nat /\ Len(u) \in Nat /\ n \in Nat /\ n <= Len(s)
    BY <1>2
  <1>4. /\ r.queue[RunQueue] = u \o SubSeq(s, 1, n)
        /\ r.queue[q] = SubSeq(s, n + 1, Len(s))
        /\ \A p \in Queues \ {RunQueue, q} : r.queue[p] = k.queue[p]
    BY <1>2 DEF HeadsMoved
  <1>5. /\ SubSeq(s, 1, n) \in Seq(Tasks)
        /\ Len(SubSeq(s, 1, n)) = n
        /\ \A i \in 1 .. n : SubSeq(s, 1, n)[i] = s[i]
    <2>1. \A i \in 1 .. n : s[i] \in Tasks
      BY <1>3
    <2>2. /\ SubSeq(s, 1, n) \in Seq(Tasks)
          /\ Len(SubSeq(s, 1, n)) = (IF 1 <= n THEN n - 1 + 1 ELSE 0)
          /\ \A i \in 1 .. n - 1 + 1 : SubSeq(s, 1, n)[i] = s[1 + i - 1]
      BY <2>1, <1>3, SubSeqProperties
    <2> QED BY <2>2, <1>3
  <1>6. /\ Len(r.queue[q]) = Len(s) - n
        /\ \A i \in 1 .. Len(s) - n : r.queue[q][i] = s[n + i]
    <2>1. /\ \A i \in n + 1 .. Len(s) : s[i] \in Tasks
          /\ n + 1 \in Int /\ Len(s) \in Int
      BY <1>3
    <2>2. /\ Len(SubSeq(s, n + 1, Len(s))) = (IF n + 1 <= Len(s) THEN Len(s) - (n + 1) + 1 ELSE 0)
          /\ \A i \in 1 .. Len(s) - (n + 1) + 1 : SubSeq(s, n + 1, Len(s))[i] = s[n + 1 + i - 1]
      BY <2>1, SubSeqProperties
    <2>3. Len(SubSeq(s, n + 1, Len(s))) = Len(s) - n
      BY <2>2, <1>3
    <2>4. \A i \in 1 .. Len(s) - n : i \in 1 .. Len(s) - (n + 1) + 1 /\ n + 1 + i - 1 = n + i
      BY <1>3
    <2>5. \A i \in 1 .. Len(s) - n : SubSeq(s, n + 1, Len(s))[i] = s[n + i]
      BY <2>2, <2>4
    <2> QED BY <2>3, <2>5, <1>4
  <1>7. /\ Len(r.queue[RunQueue]) = Len(u) + n
        /\ \A i \in 1 .. Len(u) : r.queue[RunQueue][i] = u[i]
        /\ \A i \in Len(u) + 1 .. Len(u) + n : r.queue[RunQueue][i] = s[i - Len(u)]
    <2>1. /\ Len(u \o SubSeq(s, 1, n)) = Len(u) + n
          /\ \A i \in 1 .. Len(u) + n : (u \o SubSeq(s, 1, n))[i] =
                IF i <= Len(u) THEN u[i] ELSE SubSeq(s, 1, n)[i - Len(u)]
      <3> DEFINE m == SubSeq(s, 1, n)
      <3>1. m \in Seq(Tasks) /\ Len(m) = n
        BY <1>5
      <3> HIDE DEF m
      <3>2. /\ Len(u \o m) = Len(u) + Len(m)
            /\ \A i \in 1 .. Len(u) + Len(m) : (u \o m)[i] =
                  IF i <= Len(u) THEN u[i] ELSE m[i - Len(u)]
        BY ZenonT(60), <1>3, <3>1, ConcatProperties
      <3> QED BY <3>1, <3>2 DEF m
    <2>2. Len(u) \in Nat
      BY <1>3
    <2>3. \A i \in Len(u) + 1 .. Len(u) + n :
             i - Len(u) \in 1 .. n /\ ~(i <= Len(u)) /\ i \in 1 .. Len(u) + n
      BY <1>3, <2>2
    <2>4. \A i \in 1 .. Len(u) : i <= Len(u) /\ i \in 1 .. Len(u) + n
      BY <1>3, <2>2
    <2> QED BY <2>1, <2>2, <2>3, <2>4, <1>4, <1>5
  <1>8. /\ \A i \in 1 .. Len(s) : s[i] \in Tasks /\ k.waiting_on[s[i]] = q
        /\ \A i, j \in 1 .. Len(s) : s[i] = s[j] => i = j
        /\ \A i \in 1 .. Len(u) : u[i] \in Tasks /\ k.waiting_on[u[i]] = RunQueue
        /\ \A i, j \in 1 .. Len(u) : u[i] = u[j] => i = j
    BY <1>2, <1>3 DEF QueuesAgree
  <1> HIDE DEF s, u
  <1>9. /\ \A i \in 1 .. n : s[i] \in moved
        /\ \A i \in n + 1 .. Len(s) : s[i] \notin moved
        /\ \A i \in 1 .. Len(u) : u[i] \notin moved
        /\ \A t \in moved : t \in Tasks /\ k.waiting_on[t] = q
    BY SMTT(60), <1>0, <1>8, <1>3
  <1>10. \A p \in Queues : \A i \in 1 .. Len(r.queue[p]) : r.waiting_on[r.queue[p][i]] = p
    <2> SUFFICES ASSUME NEW p \in Queues, NEW i \in 1 .. Len(r.queue[p])
                 PROVE  r.waiting_on[r.queue[p][i]] = p
      OBVIOUS
    <2>1. CASE p = q
      <3>1. r.queue[p][i] = s[n + i] /\ n + i \in n + 1 .. Len(s) /\ n + i \in 1 .. Len(s)
        <4>1. i \in 1 .. Len(s) - n
          BY <2>1, <1>6
        <4>2. n + i \in n + 1 .. Len(s) /\ n + i \in 1 .. Len(s)
          BY <4>1, <1>3
        <4> QED BY <2>1, <4>1, <4>2, <1>6
      <3> QED BY <3>1, <1>1, <2>1, <1>8, <1>9
    <2>2. CASE p = RunQueue /\ i <= Len(u)
      <3>1. r.queue[p][i] = u[i] /\ i \in 1 .. Len(u)
        BY <2>2, <1>7, <1>3
      <3> QED BY <3>1, <1>1, <2>2, <1>8, <1>9
    <2>3. CASE p = RunQueue /\ ~(i <= Len(u))
      <3>1. r.queue[p][i] = s[i - Len(u)] /\ i - Len(u) \in 1 .. n /\ i - Len(u) \in 1 .. Len(s)
        BY <2>3, <1>7, <1>3
      <3> QED BY <3>1, <1>1, <2>3, <1>8, <1>9
    <2>4. CASE p \notin {q, RunQueue}
      <3>1. r.queue[p] = k.queue[p] /\ k.queue[p] \in Seq(Tasks)
        BY <2>4, <1>4, <1>2
      <3>2. k.waiting_on[k.queue[p][i]] = p /\ k.queue[p][i] \in Tasks
        BY <3>1 DEF QueuesAgree
      <3>3. k.queue[p][i] \notin moved
        BY <3>2, <2>4, <1>9
      <3> QED BY <3>1, <3>2, <3>3, <1>1
    <2> QED BY <2>1, <2>2, <2>3, <2>4
  <1>11. \A p \in Queues : \A i, j \in 1 .. Len(r.queue[p]) :
            r.queue[p][i] = r.queue[p][j] => i = j
    <2> SUFFICES ASSUME NEW p \in Queues, NEW i \in 1 .. Len(r.queue[p]),
                        NEW j \in 1 .. Len(r.queue[p]), r.queue[p][i] = r.queue[p][j]
                 PROVE  i = j
      OBVIOUS
    <2>1. CASE p = q
      <3>1. i \in 1 .. Len(s) - n /\ j \in 1 .. Len(s) - n
        BY <2>1, <1>6
      <3>2. s[n + i] = s[n + j] /\ n + i \in 1 .. Len(s) /\ n + j \in 1 .. Len(s)
        BY SMTT(60), <3>1, <2>1, <1>3, <1>6
      <3>3. n + i = n + j
        BY <3>2, <1>8
      <3> QED BY <3>1, <3>3, <1>3
    <2>2. CASE p = RunQueue
      <3>1. \A m \in 1 .. Len(u) + n :
                \/ m \in 1 .. Len(u) /\ r.queue[p][m] = u[m]
                \/ /\ m - Len(u) \in 1 .. n /\ m - Len(u) \in 1 .. Len(s)
                   /\ r.queue[p][m] = s[m - Len(u)]
        <4> SUFFICES ASSUME NEW m \in 1 .. Len(u) + n
                     PROVE  \/ m \in 1 .. Len(u) /\ r.queue[p][m] = u[m]
                            \/ /\ m - Len(u) \in 1 .. n /\ m - Len(u) \in 1 .. Len(s)
                               /\ r.queue[p][m] = s[m - Len(u)]
          OBVIOUS
        <4>1. \/ m \in 1 .. Len(u)
              \/ /\ m \in Len(u) + 1 .. Len(u) + n
                 /\ m - Len(u) \in 1 .. n /\ m - Len(u) \in 1 .. Len(s)
          BY <1>3
        <4> QED BY <4>1, <2>2, <1>7
      <3>2. i \in 1 .. Len(u) + n /\ j \in 1 .. Len(u) + n /\ Len(u) \in Nat
        BY <2>2, <1>3, <1>7
      <3>3. \A m \in 1 .. n, l \in 1 .. Len(u) : s[m] # u[l]
        BY <1>9
      <3>4. \/ i \in 1 .. Len(u) /\ j \in 1 .. Len(u) /\ u[i] = u[j]
            \/ /\ i - Len(u) \in 1 .. Len(s) /\ j - Len(u) \in 1 .. Len(s)
               /\ s[i - Len(u)] = s[j - Len(u)]
        BY <3>1, <3>2, <3>3
      <3>5. i = j \/ i - Len(u) = j - Len(u)
        BY <3>4, <1>8
      <3> QED BY <3>2, <3>5
    <2>3. CASE p \notin {q, RunQueue}
      BY <2>3, <1>4 DEF QueuesAgree
    <2> QED BY <2>1, <2>2, <2>3
  <1>12. ASSUME NEW t \in Tasks, r.waiting_on[t] # NoQueue
        PROVE  \E i \in 1 .. Len(r.queue[r.waiting_on[t]]) :
                   r.queue[r.waiting_on[t]][i] = t
    <2>1. CASE t \in moved
      <3>1. PICK i \in 1 .. n : t = s[i]
        BY <2>1, <1>0
      <3>2. r.waiting_on[t] = RunQueue
        BY <2>1, <1>1
      <3>3. Len(u) + i \in 1 .. Len(r.queue[RunQueue]) /\ r.queue[RunQueue][Len(u) + i] = s[i]
        <4>1. /\ Len(u) + i \in Len(u) + 1 .. Len(u) + n
              /\ Len(u) + i \in 1 .. Len(u) + n
              /\ Len(u) + i - Len(u) = i
          BY <1>3
        <4> QED BY <4>1, <1>7
      <3> QED BY <3>1, <3>2, <3>3
    <2>2. CASE t \notin moved
      <3>1. r.waiting_on[t] = k.waiting_on[t] /\ k.waiting_on[t] \in Queues
        BY <2>2, <1>1, <1>2, <1>12 DEF AllTasks
      <3>2. PICK i \in 1 .. Len(k.queue[k.waiting_on[t]]) : k.queue[k.waiting_on[t]][i] = t
        BY <3>1, <1>12 DEF QueuesAgree
      <3>3. CASE k.waiting_on[t] = q
        <4>1. t = s[i] /\ i \in n + 1 .. Len(s)
          BY <3>2, <3>3, <2>2, <1>3, <1>9 DEF s
        <4>2. i - n \in 1 .. Len(r.queue[q]) /\ r.queue[q][i - n] = t
          BY <4>1, <1>6, <1>3
        <4> QED BY <4>2, <3>1, <3>3
      <3>4. CASE k.waiting_on[t] = RunQueue
        <4>1. t = u[i] /\ i \in 1 .. Len(u)
          BY <3>2, <3>4 DEF u
        <4>2. i \in 1 .. Len(r.queue[RunQueue]) /\ r.queue[RunQueue][i] = t
          BY <4>1, <1>7, <1>3
        <4> QED BY <4>2, <3>1, <3>4
      <3>5. CASE k.waiting_on[t] \notin {q, RunQueue}
        BY <3>1, <3>2, <3>5, <1>4
      <3> QED BY <3>3, <3>4, <3>5
    <2> QED BY <2>1, <2>2
  <1>13. r.waiting_on[IdleTask] = NoQueue
    BY <1>9, SchedAssumption DEF HeadsMoved, AllTasks, QueuesAgree, AllTasks
  <1> QED BY <1>10, <1>11, <1>12, <1>13 DEF QueuesAgree

-----------------------------------------------------------------------------
(* A set of naturals that is not empty has a least element.                *)
LEMMA LeastNatural ==
    ASSUME NEW T \in SUBSET Nat, T # {}
    PROVE  \E x \in T : \A y \in T : x <= y
  <1> DEFINE R == OpToRel(<, Nat)
  <1>1. IsWellFoundedOn(R, Nat)
    BY NatLessThanWellFounded
  <1>2. \A x, y \in Nat : y < x => <<y, x>> \in R
    BY DEF OpToRel
  <1> HIDE DEF R
  <1>3. PICK x \in T : \A y \in T : ~(<<y, x>> \in R)
    BY <1>1, WFMin
  <1>4. \A y \in T : x \in Nat /\ y \in Nat /\ ~(y < x)
    BY <1>2, <1>3
  <1> QED BY <1>4

(* The timer loop stops: at the first sleeper that is not due, or at the   *)
(* end of the queue (fault.c:192).                                         *)
LEMMA DueInQueue ==
    ASSUME NEW k \in SchedStates
    PROVE  /\ Due(k) \in 0 .. Len(k.queue[TimerQueue])
           /\ StopsAt(k, Due(k))
           /\ \A m \in 0 .. Due(k) - 1 : ~StopsAt(k, m)
  <1> DEFINE n == Len(k.queue[TimerQueue])
             T == {m \in 0 .. n : StopsAt(k, m)}
  <1>0. n \in Nat /\ TimerQueue \in Queues
    BY SchedAssumption DEF SchedStates
  <1>1. n \in T /\ T \in SUBSET Nat
    BY <1>0 DEF StopsAt
  <1>2. PICK m \in T : \A y \in T : m <= y
    BY <1>1, LeastNatural
  <1>3. m \in 0 .. n /\ StopsAt(k, m) /\ \A y \in 0 .. m - 1 : ~StopsAt(k, y)
    BY <1>2, <1>0
  <1> QED BY <1>3 DEF Due

-----------------------------------------------------------------------------
(* The operations of the handlers, between two states in which no task is  *)
(* lost.                                                                   *)

(* Tasks moved to the run queue leave the current task running and lose    *)
(* nobody.                                                                 *)
LEMMA MoveHeadsSafe ==
    ASSUME NEW k, Consistent(k),
           NEW q \in Queues \ {RunQueue}, NEW n \in 0 .. Len(k.queue[q])
    PROVE  /\ Consistent(move_heads(k, q, n))
           /\ NoTaskLost(k) => NoTaskLost(move_heads(k, q, n))
           /\ move_heads(k, q, n).current = k.current
           /\ move_heads(k, q, n).status = k.status
           /\ \A p \in Queues \ {RunQueue, q} : move_heads(k, q, n).queue[p] = k.queue[p]
           /\ move_heads(k, q, n).queue[q] = SubSeq(k.queue[q], n + 1, Len(k.queue[q]))
           /\ \A t \in Tasks : move_heads(k, q, n).waiting_on[t] # k.waiting_on[t] =>
                                   move_heads(k, q, n).waiting_on[t] = RunQueue
  <1> DEFINE r == move_heads(k, q, n)
             moved == {k.queue[q][i] : i \in 1 .. n}
  <1>0. /\ k \in SchedStates /\ QueuesAgree(k) /\ FlagsAgree(k)
        /\ RunQueue \in Queues /\ q \in Queues /\ q # NoQueue /\ RunQueue # NoQueue
    BY SchedAssumption DEF Consistent
  <1>1. /\ r \in SchedStates
        /\ r.current = k.current
        /\ r.flags = [t \in AllTasks |-> IF t \in moved THEN tWAITING ELSE k.flags[t]]
        /\ r.status = k.status
        /\ HeadsMoved(k, r, q, n, moved)
    BY <1>0, MoveHeadsFields
  <1>2. \A t \in moved : t \in Tasks /\ k.waiting_on[t] = q
    <2>1. k.queue[q] \in Seq(Tasks)
      BY <1>0, Fields
    <2>2. \A i \in 1 .. n : i \in 1 .. Len(k.queue[q])
      BY <2>1
    <2>3. \A i \in 1 .. n : k.queue[q][i] \in Tasks /\ k.waiting_on[k.queue[q][i]] = q
      BY <2>1, <2>2, <1>0 DEF QueuesAgree
    <2> QED BY <2>3
  <1> HIDE DEF r, moved
  <1>3. QueuesAgree(r)
    BY <1>0, <1>1, MoveHeadsAgree
  <1>4. \A t \in AllTasks : /\ r.flags[t] = IF t \in moved THEN tWAITING ELSE k.flags[t]
                            /\ r.waiting_on[t] = IF t \in moved THEN RunQueue ELSE k.waiting_on[t]
    BY <1>1 DEF HeadsMoved
  <1>5. FlagsAgree(r)
    BY <1>0, <1>1, <1>2, <1>4 DEF FlagsAgree, AllTasks, tWAITING, tRUNNING, tREADY
  <1>6. k.current \in AllTasks /\ (NoTaskLost(k) => k.current \notin moved)
    BY <1>0, <1>2, Fields DEF NoTaskLost
  <1>7. NoTaskLost(k) => NoTaskLost(r)
    BY <1>1, <1>4, <1>5, <1>6 DEF NoTaskLost
  <1>8. /\ \A p \in Queues \ {RunQueue, q} : r.queue[p] = k.queue[p]
        /\ r.queue[q] = SubSeq(k.queue[q], n + 1, Len(k.queue[q]))
    <2>1. k.queue \in [Queues -> Seq(Tasks)]
      BY <1>0, Fields
    <2> QED BY <2>1, <1>0, <1>1 DEF HeadsMoved
  <1>9. \A t \in Tasks : r.waiting_on[t] # k.waiting_on[t] => r.waiting_on[t] = RunQueue
    BY <1>4 DEF AllTasks
  <1> QED BY <1>1, <1>3, <1>5, <1>7, <1>8, <1>9 DEF Consistent, r

(* rsrc_release() (resource.c:108): every waiter of q is runnable.         *)
LEMMA WakeAllSafe ==
    ASSUME NEW k, Consistent(k),
           NEW q \in Queues \ {RunQueue}, NEW st \in Status
    PROVE  /\ Consistent(wake_all(k, q, st))
           /\ NoTaskLost(k) => NoTaskLost(wake_all(k, q, st))
           /\ wake_all(k, q, st).current = k.current
           /\ \A p \in Queues \ {RunQueue, q} : wake_all(k, q, st).queue[p] = k.queue[p]
           /\ wake_all(k, q, st).queue[q] = <<>>
           /\ \A t \in Tasks : wake_all(k, q, st).waiting_on[t] # k.waiting_on[t] =>
                                   wake_all(k, q, st).waiting_on[t] = RunQueue
  <1> DEFINE n == Len(k.queue[q])
             m == move_heads(k, q, n)
             st2 == [t \in AllTasks |-> IF t \in Elements(k.queue[q]) THEN st ELSE m.status[t]]
             r == wake_all(k, q, st)
  <1>1. k.queue[q] \in Seq(Tasks) /\ n \in 0 .. Len(k.queue[q])
    BY Fields DEF Consistent
  <1>2. SubSeq(k.queue[q], n + 1, Len(k.queue[q])) = <<>>
    BY <1>1, SubSeqEmpty
  <1>3. r = [m EXCEPT !.status = st2]
    BY DEF wake_all
  <1> HIDE DEF n, r
  <1>9. NoTaskLost(k) => NoTaskLost(m)
    BY <1>1, MoveHeadsSafe
  <1>4. /\ Consistent(m)
        /\ m.current = k.current
        /\ \A p \in Queues \ {RunQueue, q} : m.queue[p] = k.queue[p]
        /\ m.queue[q] = SubSeq(k.queue[q], n + 1, Len(k.queue[q]))
        /\ \A t \in Tasks : m.waiting_on[t] # k.waiting_on[t] => m.waiting_on[t] = RunQueue
    BY <1>1, MoveHeadsSafe
  <1> HIDE DEF m
  <1>5. st2 \in [AllTasks -> Status]
    BY <1>4, Fields DEF Consistent
  <1> HIDE DEF st2
  <1>6. r \in SchedStates
    BY <1>4, <1>3, <1>5 DEF Consistent, SchedStates
  <1>7. r.current = m.current /\ r.flags = m.flags /\ r.waiting_on = m.waiting_on /\ r.queue = m.queue
    BY <1>4, <1>3 DEF Consistent, SchedStates
  <1>8. QueuesAgree(r) /\ FlagsAgree(r) /\ (NoTaskLost(k) => NoTaskLost(r))
    BY <1>4, <1>7, <1>9 DEF Consistent, NoTaskLost, QueuesAgree, FlagsAgree
  <1> QED BY <1>2, <1>4, <1>6, <1>7, <1>8 DEF Consistent, r

(* timer_irq() (fault.c:187): at most the run queue, the timer queue and   *)
(* the current task change.                                                *)
LEMMA TimerSafe ==
    ASSUME NEW k, Consistent(k), NoTaskLost(k)
    PROVE  /\ Consistent(timer_irq(k)) /\ NoTaskLost(timer_irq(k))
           /\ timer_irq(k).status = k.status
           /\ \A p \in Queues \ {RunQueue, TimerQueue} : timer_irq(k).queue[p] = k.queue[p]
           /\ \A t \in Tasks : timer_irq(k).waiting_on[t] # k.waiting_on[t] =>
                                   timer_irq(k).waiting_on[t] \in {RunQueue, NoQueue}
  <1> DEFINE c == Tick(k)
             w == wake_expired(c)
             r == swtch(w)
  <1>0. k \in SchedStates /\ QueuesAgree(k) /\ FlagsAgree(k)
    BY DEF Consistent
  <1>1. [t \in AllTasks |-> IF k.waiting_on[t] = TimerQueue /\ k.wait_time[t] > 0
                            THEN k.wait_time[t] - 1 ELSE k.wait_time[t]] \in [AllTasks -> Nat]
    BY <1>0, Fields
  <1>2. c \in SchedStates
    BY <1>0, <1>1 DEF Tick, SchedStates
  <1>3. /\ c.current = k.current /\ c.flags = k.flags /\ c.waiting_on = k.waiting_on
        /\ c.status = k.status /\ c.queue = k.queue
    BY <1>0 DEF Tick, SchedStates
  <1> HIDE DEF c
  <1>4. Consistent(c) /\ NoTaskLost(c)
    BY <1>0, <1>2, <1>3 DEF Consistent, NoTaskLost, QueuesAgree, FlagsAgree
  <1>5. Due(c) \in 0 .. Len(c.queue[TimerQueue]) /\ TimerQueue \in Queues \ {RunQueue}
    BY <1>2, DueInQueue, SchedAssumption
  <1>6. /\ Consistent(w) /\ NoTaskLost(w)
        /\ w.status = c.status
        /\ \A p \in Queues \ {RunQueue, TimerQueue} : w.queue[p] = c.queue[p]
        /\ \A t \in Tasks : w.waiting_on[t] # c.waiting_on[t] => w.waiting_on[t] = RunQueue
    BY <1>4, <1>5, MoveHeadsSafe DEF wake_expired
  <1> HIDE DEF w
  <1>7. Consistent(r) /\ NoTaskLost(r) /\ OthersUntouched(w, r)
    BY <1>6, SwtchSafe DEF NoTaskLost
  <1> HIDE DEF r
  <1>8. timer_irq(k) = r
    BY DEF timer_irq, r, w, c
  <1> QED BY <1>3, <1>6, <1>7, <1>8 DEF OthersUntouched

(* rsrc_dequeue() and preempt() (sem.c:58, kernel.c:175): the head of q    *)
(* runs at once and the current task is runnable.                          *)
hand_over(k, q, st) == preempt(rsrc_dequeue(k, q), Head(k.queue[q]), st)

HandedOver(k, q, st, r) ==
    /\ Consistent(r) /\ NoTaskLost(r)
    /\ r.current = Head(k.queue[q])
    /\ r.status = [k.status EXCEPT ![Head(k.queue[q])] = st]
    /\ r.queue[q] = Tail(k.queue[q])
    /\ \A p \in Queues \ {RunQueue, q} : r.queue[p] = k.queue[p]
    /\ \A t \in Tasks : r.waiting_on[t] # k.waiting_on[t] =>
                            r.waiting_on[t] \in {RunQueue, NoQueue}

(* rsrc_dequeue() and preempt() (resource.c, kernel.c) give the head of a  *)
(* queue the processor, and the current task the run queue.                *)
LEMMA HandOverSafe ==
    ASSUME NEW k, Consistent(k), NoTaskLost(k), k.current \in Tasks,
           NEW q \in Queues \ {RunQueue}, k.queue[q] # <<>>, NEW st \in Status
    PROVE  HandedOver(k, q, st, hand_over(k, q, st))
  <1> DEFINE h == Head(k.queue[q])
             c == k.current
             d == rsrc_dequeue(k, q)
             e == rsrc_enqueue(d, RunQueue, c)
             r == hand_over(k, q, st)
  <1>0. /\ k \in SchedStates /\ QueuesAgree(k) /\ FlagsAgree(k)
        /\ RunQueue \in Queues /\ q \in Queues /\ RunQueue # NoQueue
    BY SchedAssumption DEF Consistent
  <1>1. /\ h \in Tasks
        /\ d \in SchedStates
        /\ d.current = c
        /\ d.flags = [k.flags EXCEPT ![h] = tREADY]
        /\ d.waiting_on = [k.waiting_on EXCEPT ![h] = NoQueue]
        /\ d.status = k.status
        /\ d.queue = [k.queue EXCEPT ![q] = Tail(k.queue[q])]
    BY <1>0, DequeueFields
  <1>2. c \in Tasks /\ c # IdleTask /\ k.waiting_on[c] = NoQueue /\ c # h
    <2>1. k.queue[q] \in Seq(Tasks)
      BY <1>0, Fields
    <2>2. 1 \in 1 .. Len(k.queue[q]) /\ h = k.queue[q][1]
      BY <2>1
    <2>3. k.waiting_on[h] = q /\ q # NoQueue
      BY <2>2, <1>0, SchedAssumption DEF QueuesAgree
    <2> QED BY <2>3, SchedAssumption DEF NoTaskLost
  <1>3. r = [e EXCEPT !.current = h, !.status[h] = st, !.flags[h] = tRUNNING]
    BY <1>1, <1>2 DEF hand_over, preempt, requeue_current
  <1> HIDE DEF r, d
  <1>4. /\ e \in SchedStates
        /\ e.current = c
        /\ e.flags = [d.flags EXCEPT ![c] = tWAITING]
        /\ e.waiting_on = [d.waiting_on EXCEPT ![c] = RunQueue]
        /\ e.status = d.status
        /\ e.queue = [d.queue EXCEPT ![RunQueue] = Append(d.queue[RunQueue], c)]
    <2> HIDE DEF c, h
    <2>1. d \in SchedStates /\ RunQueue \in Queues /\ c \in Tasks
      BY <1>0, <1>1, <1>2
    <2>2. /\ e \in SchedStates
          /\ e.current = d.current
          /\ e.flags = [d.flags EXCEPT ![c] = tWAITING]
          /\ e.waiting_on = [d.waiting_on EXCEPT ![c] = RunQueue]
          /\ e.status = d.status
          /\ e.queue = [d.queue EXCEPT ![RunQueue] = Append(d.queue[RunQueue], c)]
      BY <2>1, EnqueueFields
    <2> QED BY <2>2, <1>1
  <1> HIDE DEF e, h, c
  <1>5. QueuesAgree(d)
    BY <1>0, <1>1, DetachHeadAgree DEF h
  <1>6. d.waiting_on[c] = NoQueue
    BY <1>0, <1>1, <1>2, Fields DEF AllTasks
  <1>7. QueuesAgree(e)
    BY <1>0, <1>1, <1>2, <1>4, <1>5, <1>6, AppendAgree
  <1>8. /\ [e.flags EXCEPT ![h] = tRUNNING] \in [AllTasks -> Flags]
        /\ [e.status EXCEPT ![h] = st] \in [AllTasks -> Status]
    BY <1>4, Fields DEF Flags
  <1>9. r \in SchedStates
    BY <1>1, <1>3, <1>4, <1>8 DEF SchedStates, AllTasks
  <1>10. /\ r.current = h
         /\ r.flags = [e.flags EXCEPT ![h] = tRUNNING]
         /\ r.waiting_on = e.waiting_on
         /\ r.status = [e.status EXCEPT ![h] = st]
         /\ r.queue = e.queue
    BY <1>3, <1>4 DEF SchedStates
  <1>11. QueuesAgree(r)
    <2>1. r.queue = e.queue /\ r.waiting_on = e.waiting_on
      BY <1>10
    <2> QED BY <1>7, <2>1 DEF QueuesAgree
  <1>12. /\ k.flags \in [AllTasks -> Flags] /\ k.waiting_on \in [AllTasks -> Queues \cup {NoQueue}]
         /\ h \in AllTasks /\ c \in AllTasks
    BY <1>0, <1>1, <1>2, Fields DEF AllTasks
  <1>13. /\ r.flags[h] = tRUNNING /\ r.waiting_on[h] = NoQueue
         /\ r.flags[c] = tWAITING /\ r.waiting_on[c] = RunQueue
         /\ \A t \in Tasks \ {c, h} : r.flags[t] = k.flags[t] /\ r.waiting_on[t] = k.waiting_on[t]
    BY <1>1, <1>2, <1>4, <1>10, <1>12 DEF AllTasks
  <1>14. FlagsAgree(r)
    BY <1>0, <1>10, <1>13 DEF FlagsAgree, c, tWAITING, tRUNNING, tREADY
  <1>15. NoTaskLost(r)
    BY <1>10, <1>13, <1>14 DEF NoTaskLost
  <1>16. /\ r.queue[q] = Tail(k.queue[q])
         /\ \A p \in Queues \ {RunQueue, q} : r.queue[p] = k.queue[p]
    <2>1. k.queue \in [Queues -> Seq(Tasks)]
      BY <1>0, Fields
    <2>2. /\ d.queue[q] = Tail(k.queue[q])
          /\ \A p \in Queues \ {RunQueue, q} : d.queue[p] = k.queue[p]
      BY <2>1, <1>0, <1>1
    <2>3. d.queue \in [Queues -> Seq(Tasks)]
      BY <1>1, Fields
    <2>4. \A p \in Queues \ {RunQueue} : e.queue[p] = d.queue[p]
      BY <2>3, <1>4
    <2> QED BY <2>2, <2>4, <1>0, <1>10
  <1>17. \A t \in Tasks : r.waiting_on[t] # k.waiting_on[t] => r.waiting_on[t] \in {RunQueue, NoQueue}
    BY <1>13
  <1>18. r.status = [k.status EXCEPT ![h] = st]
    BY <1>1, <1>4, <1>10
  <1> QED BY <1>9, <1>10, <1>11, <1>14, <1>15, <1>16, <1>17, <1>18 DEF Consistent, HandedOver, h, r

(* go_kernel() (kernel.c:279) leaves every task accounted for.             *)
LEMMA InitSafe ==
    /\ Consistent(SchedInit) /\ NoTaskLost(SchedInit)
    /\ \A q \in Queues \ {RunQueue} : SchedInit.queue[q] = <<>>
    /\ \A t \in Tasks : SchedInit.waiting_on[t] \in {RunQueue, NoQueue}
  <1> DEFINE B == BootTasks
             rest == Tail(BootTasks)
             k == SchedInit
  <1>1. /\ B \in Seq(Tasks) /\ B # <<>> /\ Len(B) \in Nat /\ Len(B) >= 1
        /\ \A i, j \in 1 .. Len(B) : B[i] = B[j] => i = j
        /\ \A i \in 1 .. Len(B) : B[i] \in Tasks
        /\ Head(B) = B[1]
    BY SchedAssumption
  <1>2. /\ rest \in Seq(Tasks) /\ Len(rest) = Len(B) - 1
        /\ \A i \in 1 .. Len(rest) : rest[i] = B[i + 1] /\ i + 1 \in 1 .. Len(B) /\ rest[i] \in Tasks
        /\ \A i, j \in 1 .. Len(rest) : rest[i] = rest[j] => i = j
        /\ \A i \in 1 .. Len(rest) : rest[i] # Head(B)
    BY <1>1
  <1>3. /\ IdleTask \notin Tasks /\ RunQueue \in Queues /\ NoQueue \notin Queues
        /\ <<>> \in Seq(Tasks) /\ Len(<<>>) = 0
    BY SchedAssumption
  <1>4. /\ \A t \in Elements(rest) : t \in Tasks /\ \E i \in 1 .. Len(rest) : rest[i] = t
        /\ \A i \in 1 .. Len(rest) : rest[i] \in Elements(rest)
        /\ \A t \in Elements(B) : t \in Tasks /\ (t = Head(B) \/ t \in Elements(rest))
    <2>1. \A i \in 1 .. Len(B) : i = 1 \/ (i - 1 \in 1 .. Len(rest) /\ rest[i - 1] = B[i])
      BY <1>1, <1>2
    <2> QED BY <2>1, <1>1, <1>2 DEF Elements
  <1>5. /\ k.current = Head(B)
        /\ k.flags = [t \in AllTasks |->
                        IF t = Head(B) THEN tRUNNING
                        ELSE IF t \in Elements(B) THEN tWAITING
                        ELSE IF t = IdleTask THEN tREADY ELSE tFREE]
        /\ k.waiting_on = [t \in AllTasks |-> IF t \in Elements(rest) THEN RunQueue ELSE NoQueue]
        /\ k.queue = [q \in Queues |-> IF q = RunQueue THEN rest ELSE <<>>]
    BY DEF SchedInit
  <1> HIDE DEF B, rest
  <1>6. k \in SchedStates
    <2>1. Head(B) \in AllTasks /\ ERR_NONE \in Status /\ 0 \in Nat
      BY <1>1 DEF AllTasks, Status
    <2>2. k.flags \in [AllTasks -> Flags]
      BY <1>5 DEF Flags
    <2>3. k.waiting_on \in [AllTasks -> Queues \cup {NoQueue}]
      BY <1>3, <1>5
    <2>4. k.queue \in [Queues -> Seq(Tasks)]
      BY <1>2, <1>3, <1>5
    <2>5. /\ k.status = [t \in AllTasks |-> ERR_NONE]
          /\ k.wait_time = [t \in AllTasks |-> 0]
      BY DEF SchedInit
    <2>6. k = [current |-> k.current, flags |-> k.flags, waiting_on |-> k.waiting_on,
               status |-> k.status, wait_time |-> k.wait_time, queue |-> k.queue]
      BY DEF SchedInit
    <2> HIDE DEF k
    <2> QED BY <2>1, <2>2, <2>3, <2>4, <2>5, <2>6, <1>5 DEF SchedStates
  <1> HIDE DEF k
  <1>7. QueuesAgree(k)
    <2>1. \A q \in Queues : \A i \in 1 .. Len(k.queue[q]) :
             /\ q = RunQueue /\ k.queue[q] = rest /\ i \in 1 .. Len(rest)
      BY <1>3, <1>5
    <2>2. \A q \in Queues : \A i \in 1 .. Len(k.queue[q]) : k.waiting_on[k.queue[q][i]] = q
      BY <2>1, <1>4, <1>5 DEF AllTasks
    <2>3. \A q \in Queues : \A i, j \in 1 .. Len(k.queue[q]) :
             k.queue[q][i] = k.queue[q][j] => i = j
      BY <2>1, <1>2
    <2>4. \A t \in Tasks : k.waiting_on[t] # NoQueue =>
             \E i \in 1 .. Len(k.queue[k.waiting_on[t]]) : k.queue[k.waiting_on[t]][i] = t
      BY <1>3, <1>4, <1>5 DEF AllTasks
    <2>5. k.waiting_on[IdleTask] = NoQueue
      BY <1>3, <1>4, <1>5 DEF AllTasks
    <2> QED BY <2>2, <2>3, <2>4, <2>5 DEF QueuesAgree
  <1>8. Head(B) \notin Elements(rest) /\ Head(B) \in Tasks
    BY <1>1, <1>2, <1>4
  <1>9. FlagsAgree(k)
    <2>1. \A t \in Tasks : /\ k.flags[t] = IF t = Head(B) THEN tRUNNING
                                           ELSE IF t \in Elements(B) THEN tWAITING ELSE tFREE
                           /\ k.waiting_on[t] = IF t \in Elements(rest) THEN RunQueue ELSE NoQueue
      BY <1>3, <1>5 DEF AllTasks
    <2>2. \A t \in Elements(rest) : t \in Elements(B)
      BY <1>2 DEF Elements
    <2>3. k.current = Head(B) /\ RunQueue # NoQueue
      BY <1>3, <1>5
    <2> QED BY <2>1, <2>2, <2>3, <1>4, <1>8
            DEF FlagsAgree, tRUNNING, tWAITING, tFREE, tREADY, tDEAD
  <1>10. NoTaskLost(k)
    BY <1>5, <1>8, <1>9 DEF NoTaskLost, AllTasks
  <1>11. /\ \A q \in Queues \ {RunQueue} : k.queue[q] = <<>>
         /\ \A t \in Tasks : k.waiting_on[t] \in {RunQueue, NoQueue}
    BY <1>5 DEF AllTasks
  <1> QED BY <1>6, <1>7, <1>9, <1>10, <1>11 DEF Consistent, k

-----------------------------------------------------------------------------
(* What the scheduler does to those who sleep in a call of the kernel.     *)

SleepQueues == Queues \ {RunQueue, TimerQueue}

(* The tasks outside T neither fall asleep in a call nor are woken from one*)
Undisturbed(k, r, T) ==
    \A t \in Tasks \ T :
        /\ r.status[t] = k.status[t]
        /\ \/ k.waiting_on[t] \in SleepQueues
           \/ r.waiting_on[t] \in SleepQueues
           => r.waiting_on[t] = k.waiting_on[t]

(* A queue holds the tasks that wait on it.                                *)
LEMMA OnQueue ==
    ASSUME NEW k, Consistent(k), NEW q \in Queues, NEW t \in Tasks
    PROVE  (k.waiting_on[t] = q) <=> (t \in Elements(k.queue[q]))
  <1>1. q # NoQueue
    BY SchedAssumption
  <1> QED BY <1>1 DEF Consistent, QueuesAgree, Elements

(* Who waits on a queue that does not change goes on waiting.              *)
LEMMA StaysOn ==
    ASSUME NEW k, NEW r, Consistent(k), Consistent(r), NEW q \in Queues,
           r.queue[q] = k.queue[q], NEW t \in Tasks
    PROVE  (r.waiting_on[t] = q) <=> (k.waiting_on[t] = q)
  <1>1. (r.waiting_on[t] = q) <=> (t \in Elements(r.queue[q]))
    BY OnQueue
  <1>2. (k.waiting_on[t] = q) <=> (t \in Elements(k.queue[q]))
    BY OnQueue
  <1> QED BY <1>1, <1>2

(* A move between the run queue and one sleep queue disturbs few.          *)
LEMMA UndisturbedBut ==
    ASSUME NEW k, NEW r, Consistent(k), Consistent(r), NEW T, NEW q,
           \A p \in SleepQueues \ {q} : r.queue[p] = k.queue[p],
           \A t \in Tasks \ T : /\ r.status[t] = k.status[t]
                                /\ (r.waiting_on[t] = q) <=> (k.waiting_on[t] = q)
    PROVE  Undisturbed(k, r, T)
  <1> SUFFICES ASSUME NEW t \in Tasks \ T,
                      \/ k.waiting_on[t] \in SleepQueues
                      \/ r.waiting_on[t] \in SleepQueues
               PROVE  r.waiting_on[t] = k.waiting_on[t]
    BY DEF Undisturbed
  <1>1. \A p \in SleepQueues \ {q} : (r.waiting_on[t] = p) <=> (k.waiting_on[t] = p)
    BY StaysOn DEF SleepQueues
  <1> QED BY <1>1

(* The timer interrupt disturbs nobody.                                    *)
LEMMA TimerMove ==
    ASSUME NEW k, Consistent(k), NoTaskLost(k)
    PROVE  /\ Consistent(timer_irq(k)) /\ NoTaskLost(timer_irq(k))
           /\ Undisturbed(k, timer_irq(k), {})
           /\ \A p \in SleepQueues : timer_irq(k).queue[p] = k.queue[p]
  <1> DEFINE r == timer_irq(k)
  <1>1. /\ Consistent(r) /\ NoTaskLost(r) /\ r.status = k.status
        /\ \A p \in Queues \ {RunQueue, TimerQueue} : r.queue[p] = k.queue[p]
    BY TimerSafe
  <1> HIDE DEF r
  <1>2. \A p \in SleepQueues : r.queue[p] = k.queue[p]
    BY <1>1 DEF SleepQueues
  <1>3. \A t \in Tasks, p \in SleepQueues : (r.waiting_on[t] = p) <=> (k.waiting_on[t] = p)
    BY <1>1, <1>2, StaysOn DEF SleepQueues
  <1>4. Undisturbed(k, r, {})
    BY <1>1, <1>3 DEF Undisturbed
  <1> QED BY <1>1, <1>2, <1>4 DEF r

(* The elements of a sequence that grows by one.                           *)
LEMMA AppendElements ==
    ASSUME NEW s \in Seq(Tasks), NEW c \in Tasks
    PROVE  Elements(Append(s, c)) = Elements(s) \cup {c}
  <1> DEFINE a == Append(s, c)
  <1>1. /\ Len(a) = Len(s) + 1 /\ Len(s) \in Nat /\ a[Len(s) + 1] = c
        /\ \A i \in 1 .. Len(s) : a[i] = s[i]
    OBVIOUS
  <1> HIDE DEF a
  <1>2. \A i \in 1 .. Len(a) : i = Len(s) + 1 \/ i \in 1 .. Len(s)
    BY <1>1
  <1>3. Len(s) + 1 \in 1 .. Len(a) /\ \A i \in 1 .. Len(s) : i \in 1 .. Len(a)
    BY <1>1
  <1> QED BY <1>1, <1>2, <1>3 DEF Elements, a

(* wait_on(): only the caller falls asleep.                                *)
LEMMA SleepMove ==
    ASSUME NEW k, Consistent(k), NoTaskLost(k), k.current \in Tasks,
           NEW q \in SleepQueues
    PROVE  /\ Consistent(wait_on(k, q)) /\ NoTaskLost(wait_on(k, q))
           /\ Undisturbed(k, wait_on(k, q), {k.current})
           /\ wait_on(k, q).waiting_on[k.current] = q
           /\ wait_on(k, q).queue[q] # <<>>
           /\ \A p \in SleepQueues \ {q} : wait_on(k, q).queue[p] = k.queue[p]
  <1> DEFINE r == wait_on(k, q)
             c == k.current
  <1>1. q \in Queues \ {RunQueue} /\ q \in Queues /\ c \in Tasks
    BY DEF SleepQueues
  <1>2. Slept(k, q, r)
    BY <1>1, WaitOnSafe
  <1>3. k.queue[q] \in Seq(Tasks) /\ k.status \in [AllTasks -> Status]
    BY <1>1, Fields DEF Consistent
  <1> HIDE DEF r
  <1>4. /\ Consistent(r) /\ NoTaskLost(r)
        /\ r.queue[q] = Append(k.queue[q], c)
        /\ \A p \in SleepQueues \ {q} : r.queue[p] = k.queue[p]
        /\ \A t \in Tasks \ {c} : r.status[t] = k.status[t]
    BY <1>2, <1>3 DEF Slept, SleepQueues, AllTasks
  <1> HIDE DEF c
  <1>5. \A t \in Tasks : (r.waiting_on[t] = q) <=> (t = c \/ k.waiting_on[t] = q)
    <2> SUFFICES ASSUME NEW t \in Tasks
                 PROVE  (r.waiting_on[t] = q) <=> (t = c \/ k.waiting_on[t] = q)
      OBVIOUS
    <2>1. Elements(r.queue[q]) = Elements(k.queue[q]) \cup {c}
      BY <1>1, <1>3, <1>4, AppendElements
    <2>2. (r.waiting_on[t] = q) <=> (t \in Elements(r.queue[q]))
      BY <1>1, <1>4, OnQueue
    <2>3. (k.waiting_on[t] = q) <=> (t \in Elements(k.queue[q]))
      BY <1>1, OnQueue
    <2> QED BY <2>1, <2>2, <2>3
  <1>6. Undisturbed(k, r, {c})
    BY <1>4, <1>5, UndisturbedBut
  <1>7. r.queue[q] # <<>>
    BY <1>1, <1>3, <1>4
  <1> QED BY <1>1, <1>4, <1>5, <1>6, <1>7 DEF r, c

(* Between k and r the head of q was woken.                                *)
HeadWoken(k, q, st, r) ==
    /\ Head(k.queue[q]) \in Tasks /\ r \in SchedStates /\ r.current = k.current
    /\ r.flags = [k.flags EXCEPT ![Head(k.queue[q])] = tWAITING]
    /\ r.waiting_on = [k.waiting_on EXCEPT ![Head(k.queue[q])] = RunQueue]
    /\ r.status = [k.status EXCEPT ![Head(k.queue[q])] = st]
    /\ r.queue = [k.queue EXCEPT ![q] = Tail(k.queue[q]),
                                 ![RunQueue] = Append(k.queue[RunQueue], Head(k.queue[q]))]

(* wake_one() is its two halves, the dequeueing and the waking.            *)
LEMMA WakeOneFields ==
    ASSUME NEW k \in SchedStates, NEW q \in Queues \ {RunQueue},
           k.queue[q] # <<>>, NEW st \in Status
    PROVE  HeadWoken(k, q, st, wake_one(k, q, st))
  <1> DEFINE h == Head(k.queue[q])
             d == rsrc_dequeue(k, q)
             e == [d EXCEPT !.status[h] = st]
             r == rsrc_enqueue(e, RunQueue, h)
  <1>1. q \in Queues /\ RunQueue \in Queues /\ q # RunQueue
    BY SchedAssumption
  <1>2. /\ h \in Tasks /\ d \in SchedStates /\ d.current = k.current
        /\ d.flags = [k.flags EXCEPT ![h] = tREADY]
        /\ d.waiting_on = [k.waiting_on EXCEPT ![h] = NoQueue]
        /\ d.status = k.status
        /\ d.queue = [k.queue EXCEPT ![q] = Tail(k.queue[q])]
    BY SMTT(60), <1>1, DequeueFields
  <1>3. wake_one(k, q, st) = r
    BY DEF wake_one, task_wake
  <1> HIDE DEF d
  <1>4. [d.status EXCEPT ![h] = st] \in [AllTasks -> Status]
    BY <1>2, Fields
  <1>5. /\ e \in SchedStates /\ e.current = d.current /\ e.flags = d.flags
        /\ e.waiting_on = d.waiting_on /\ e.queue = d.queue
        /\ e.status = [d.status EXCEPT ![h] = st]
    BY <1>2, <1>4 DEF SchedStates
  <1> HIDE DEF e, h
  <1>6. /\ r \in SchedStates /\ r.current = e.current
        /\ r.flags = [e.flags EXCEPT ![h] = tWAITING]
        /\ r.waiting_on = [e.waiting_on EXCEPT ![h] = RunQueue]
        /\ r.status = e.status
        /\ r.queue = [e.queue EXCEPT ![RunQueue] = Append(e.queue[RunQueue], h)]
    <2>1. e \in SchedStates /\ RunQueue \in Queues /\ h \in Tasks
      BY <1>1, <1>2, <1>5
    <2> QED BY <2>1, EnqueueFields
  <1> HIDE DEF r
  <1>7. /\ k.flags \in [AllTasks -> Flags] /\ k.queue \in [Queues -> Seq(Tasks)]
        /\ k.waiting_on \in [AllTasks -> Queues \cup {NoQueue}] /\ h \in AllTasks
    BY <1>2, Fields DEF AllTasks
  <1>8. r.flags = [k.flags EXCEPT ![h] = tWAITING]
    BY <1>2, <1>5, <1>6, <1>7
  <1>9. r.waiting_on = [k.waiting_on EXCEPT ![h] = RunQueue]
    BY <1>2, <1>5, <1>6, <1>7
  <1>10. r.queue = [k.queue EXCEPT ![q] = Tail(k.queue[q]),
                                   ![RunQueue] = Append(k.queue[RunQueue], h)]
    <2>1. e.queue[RunQueue] = k.queue[RunQueue]
      BY <1>1, <1>2, <1>5, <1>7
    <2> QED BY <2>1, <1>2, <1>5, <1>6
  <1>11. r.current = k.current /\ r.status = [k.status EXCEPT ![h] = st]
    BY <1>2, <1>5, <1>6
  <1> QED BY <1>2, <1>3, <1>6, <1>8, <1>9, <1>10, <1>11 DEF h, HeadWoken

(* An update of a function, written as a function.                         *)
LEMMA UpdateAsFunction ==
    ASSUME NEW D, NEW R, NEW f \in [D -> R], NEW a \in D, NEW x
    PROVE  [f EXCEPT ![a] = x] = [t \in D |-> IF t = a THEN x ELSE f[t]]
  OBVIOUS

(* move_heads(), with the moved tasks named.                               *)
LEMMA HeadsDetached ==
    ASSUME NEW k \in SchedStates, NEW q \in Queues \ {RunQueue},
           NEW n \in 0 .. Len(k.queue[q])
    PROVE  LET m == move_heads(k, q, n)
               moved == {k.queue[q][i] : i \in 1 .. n}
           IN  /\ m \in SchedStates
               /\ m.current = k.current
               /\ m.flags = [t \in AllTasks |-> IF t \in moved THEN tWAITING ELSE k.flags[t]]
               /\ m.status = k.status
               /\ HeadsMoved(k, m, q, n, moved)
  <1> DEFINE m == move_heads(k, q, n)
             moved == {k.queue[q][i] : i \in 1 .. n}
  <1>1. /\ m \in SchedStates
        /\ m.current = k.current
        /\ m.flags = [t \in AllTasks |-> IF t \in moved THEN tWAITING ELSE k.flags[t]]
        /\ m.status = k.status
        /\ HeadsMoved(k, m, q, n, moved)
    BY MoveHeadsFields
  <1> QED BY <1>1

(* Between k and r the head of q was woken with st, and nobody else.       *)
OneWoken(k, q, st, r) ==
    LET h == Head(k.queue[q])
    IN  /\ Consistent(r) /\ r.current = k.current
        /\ NoTaskLost(k) => NoTaskLost(r)
        /\ h \in Tasks /\ Undisturbed(k, r, {h})
        /\ r.queue[q] = Tail(k.queue[q])
        /\ k.waiting_on[h] = q /\ r.waiting_on[h] = RunQueue /\ r.status[h] = st
        /\ \A p \in SleepQueues \ {q} : r.queue[p] = k.queue[p]

(* wake_one(): the head of the queue is woken and the caller goes on.      *)
LEMMA WakeOneMove ==
    ASSUME NEW k, Consistent(k), NEW q \in SleepQueues,
           k.queue[q] # <<>>, NEW st \in Status
    PROVE  OneWoken(k, q, st, wake_one(k, q, st))
  <1> DEFINE h == Head(k.queue[q])
             r == wake_one(k, q, st)
             m == move_heads(k, q, 1)
  <1>1. /\ q \in Queues \ {RunQueue} /\ q \in Queues /\ q # RunQueue
        /\ RunQueue \in Queues /\ RunQueue # NoQueue
        /\ k \in SchedStates /\ k.queue[q] \in Seq(Tasks)
    BY Fields, SchedAssumption DEF SleepQueues, Consistent
  <1>2. /\ h = k.queue[q][1] /\ h \in Tasks /\ h \in AllTasks
        /\ 1 \in 0 .. Len(k.queue[q]) /\ 1 \in 1 .. Len(k.queue[q])
    BY <1>1 DEF AllTasks
  <1>3. /\ h \in Tasks /\ r \in SchedStates /\ r.current = k.current
        /\ r.flags = [k.flags EXCEPT ![h] = tWAITING]
        /\ r.waiting_on = [k.waiting_on EXCEPT ![h] = RunQueue]
        /\ r.status = [k.status EXCEPT ![h] = st]
        /\ r.queue = [k.queue EXCEPT ![q] = Tail(k.queue[q]),
                                     ![RunQueue] = Append(k.queue[RunQueue], h)]
    <2>1. HeadWoken(k, q, st, r)
      BY <1>1, WakeOneFields
    <2> QED BY <2>1 DEF HeadWoken
  <1> HIDE DEF r
  <1>4. /\ Consistent(m) /\ m.current = k.current
        /\ NoTaskLost(k) => NoTaskLost(m)
        /\ \A p \in Queues \ {RunQueue, q} : m.queue[p] = k.queue[p]
    BY <1>1, <1>2, MoveHeadsSafe
  <1> DEFINE moved == {k.queue[q][i] : i \in 1 .. 1}
  <1>5. /\ m \in SchedStates
        /\ m.current = k.current
        /\ m.flags = [t \in AllTasks |-> IF t \in moved THEN tWAITING ELSE k.flags[t]]
        /\ m.status = k.status
        /\ HeadsMoved(k, m, q, 1, moved)
    BY <1>1, <1>2, HeadsDetached
  <1>6. moved = {h}
    BY <1>2
  <1> HIDE DEF m, moved, h
  <1>7. /\ k.waiting_on \in [AllTasks -> Queues \cup {NoQueue}]
        /\ k.flags \in [AllTasks -> Flags] /\ k.status \in [AllTasks -> Status]
        /\ k.queue \in [Queues -> Seq(Tasks)] /\ k.queue[RunQueue] \in Seq(Tasks)
    BY <1>1, Fields
  <1>8. /\ r.flags = m.flags /\ r.waiting_on = m.waiting_on
    <2>1. m.flags = [t \in AllTasks |-> IF t = h THEN tWAITING ELSE k.flags[t]]
      BY <1>5, <1>6
    <2>2. m.waiting_on = [t \in AllTasks |-> IF t \in moved THEN RunQueue ELSE k.waiting_on[t]]
      BY <1>5 DEF HeadsMoved
    <2>3. m.waiting_on = [t \in AllTasks |-> IF t = h THEN RunQueue ELSE k.waiting_on[t]]
      BY <2>2, <1>6
    <2>4. [k.flags EXCEPT ![h] = tWAITING]
              = [t \in AllTasks |-> IF t = h THEN tWAITING ELSE k.flags[t]]
      BY <1>2, <1>7, UpdateAsFunction
    <2>5. [k.waiting_on EXCEPT ![h] = RunQueue]
              = [t \in AllTasks |-> IF t = h THEN RunQueue ELSE k.waiting_on[t]]
      BY <1>2, <1>7, UpdateAsFunction
    <2>6. r.flags = m.flags
      BY <2>1, <2>4, <1>3
    <2>7. r.waiting_on = m.waiting_on
      BY <2>3, <2>5, <1>3
    <2> QED BY <2>6, <2>7
  <1>9. r.queue = m.queue
    <2>1. k.queue[RunQueue] \o SubSeq(k.queue[q], 1, 1) = Append(k.queue[RunQueue], h)
      BY <1>1, <1>2, <1>7
    <2>2. SubSeq(k.queue[q], 1 + 1, Len(k.queue[q])) = Tail(k.queue[q])
      BY <1>1, <1>2
    <2>3. m.queue = [k.queue EXCEPT
                        ![RunQueue] = k.queue[RunQueue] \o SubSeq(k.queue[q], 1, 1),
                        ![q] = SubSeq(k.queue[q], 1 + 1, Len(k.queue[q]))]
      BY <1>5 DEF HeadsMoved
    <2>4. m.queue = [k.queue EXCEPT ![RunQueue] = Append(k.queue[RunQueue], h),
                                    ![q] = Tail(k.queue[q])]
      BY <2>1, <2>2, <2>3
    <2>5. \A p \in Queues : r.queue[p] = m.queue[p]
      BY <2>4, <1>1, <1>3, <1>7
    <2>6. r.queue \in [Queues -> Seq(Tasks)] /\ m.queue \in [Queues -> Seq(Tasks)]
      BY <1>3, <1>5, Fields
    <2> QED BY <2>5, <2>6
  <1>10. /\ Consistent(r) /\ r.current = k.current
         /\ NoTaskLost(k) => NoTaskLost(r)
    <2>1. r.current = m.current
      BY <1>3, <1>4
    <2>2. QueuesAgree(m) /\ FlagsAgree(m) /\ (NoTaskLost(k) => NoTaskLost(m))
      BY <1>4 DEF Consistent
    <2>3. QueuesAgree(r)
      BY <2>2, <1>8, <1>9 DEF QueuesAgree
    <2>4. FlagsAgree(r) /\ (NoTaskLost(k) => NoTaskLost(r))
      BY <2>1, <2>2, <1>8 DEF FlagsAgree, NoTaskLost
    <2> QED BY <2>3, <2>4, <1>3 DEF Consistent
  <1>11. k.waiting_on[h] = q
    <2>1. h \in Elements(k.queue[q])
      BY <1>2 DEF Elements
    <2> QED BY <2>1, <1>1, <1>2, OnQueue
  <1>12. /\ r.waiting_on[h] = RunQueue
         /\ \A t \in Tasks \ {h} : r.waiting_on[t] = k.waiting_on[t]
    BY <1>2, <1>3, <1>7 DEF AllTasks
  <1>13. r.status[h] = st /\ \A t \in Tasks \ {h} : r.status[t] = k.status[t]
    BY <1>2, <1>3, <1>7 DEF AllTasks
  <1>14. \A p \in SleepQueues \ {q} : r.queue[p] = k.queue[p]
    BY <1>4, <1>9 DEF SleepQueues
  <1>16. r.queue[q] = Tail(k.queue[q])
    BY <1>1, <1>3, <1>7 DEF h
  <1>15. Undisturbed(k, r, {h})
    BY <1>12, <1>13 DEF Undisturbed
  <1> QED BY <1>2, <1>10, <1>11, <1>12, <1>13, <1>14, <1>15, <1>16 DEF OneWoken, r, h

Waiters(k, q) == {t \in Tasks : k.waiting_on[t] = q}

(* Between k and r all who wait on q were woken with st, and nobody else.  *)
AllWoken(k, q, st, r) ==
    /\ Consistent(r) /\ r.current = k.current
    /\ NoTaskLost(k) => NoTaskLost(r)
    /\ Undisturbed(k, r, Waiters(k, q))
    /\ \A t \in Waiters(k, q) : r.waiting_on[t] = RunQueue /\ r.status[t] = st
    /\ r.queue[q] = <<>>
    /\ \A p \in SleepQueues \ {q} : r.queue[p] = k.queue[p]

(* wake_all(): all who wait on the queue are woken.                        *)
LEMMA WakeAllMove ==
    ASSUME NEW k, Consistent(k), NEW q \in SleepQueues,
           NEW st \in Status
    PROVE  AllWoken(k, q, st, wake_all(k, q, st))
  <1> DEFINE n == Len(k.queue[q])
             r == wake_all(k, q, st)
             m == move_heads(k, q, n)
             s == [t \in AllTasks |-> IF t \in Elements(k.queue[q]) THEN st ELSE m.status[t]]
             T == Waiters(k, q)
  <1>1. /\ q \in Queues \ {RunQueue} /\ q \in Queues
        /\ k \in SchedStates /\ k.queue[q] \in Seq(Tasks)
        /\ k.status \in [AllTasks -> Status]
        /\ n \in 0 .. Len(k.queue[q])
    BY Fields DEF SleepQueues, Consistent
  <1>2. /\ Consistent(r) /\ r.current = k.current
        /\ NoTaskLost(k) => NoTaskLost(r)
        /\ \A p \in Queues \ {RunQueue, q} : r.queue[p] = k.queue[p]
        /\ r.queue[q] = <<>>
        /\ \A t \in Tasks : r.waiting_on[t] # k.waiting_on[t] => r.waiting_on[t] = RunQueue
    BY <1>1, WakeAllSafe
  <1>3. r = [m EXCEPT !.status = s]
    BY DEF wake_all
  <1> HIDE DEF r, n
  <1>4. Consistent(m) /\ m.status = k.status
    BY <1>1, MoveHeadsSafe
  <1> HIDE DEF m, T
  <1>5. r.status = s
    <2> HIDE DEF s
    <2> QED BY <1>3, <1>4 DEF Consistent, SchedStates
  <1>6. \A t \in Tasks : (t \in T) <=> (t \in Elements(k.queue[q]))
    BY <1>1, OnQueue DEF T, Waiters
  <1>7. \A t \in Tasks : r.status[t] = IF t \in T THEN st ELSE k.status[t]
    BY <1>4, <1>5, <1>6 DEF AllTasks
  <1>8. \A t \in Tasks : r.waiting_on[t] # q
    <2>1. Elements(r.queue[q]) = {}
      BY <1>2 DEF Elements
    <2>2. \A t \in Tasks : (r.waiting_on[t] = q) <=> (t \in Elements(r.queue[q]))
      BY <1>1, <1>2, OnQueue
    <2> QED BY <2>1, <2>2
  <1>9. \A t \in T : t \in Tasks /\ r.waiting_on[t] = RunQueue /\ r.status[t] = st
    BY <1>2, <1>7, <1>8 DEF T, Waiters
  <1>10. \A p \in SleepQueues \ {q} : r.queue[p] = k.queue[p]
    BY <1>2 DEF SleepQueues
  <1>11. Undisturbed(k, r, T)
    <2>1. \A t \in Tasks \ T : /\ r.status[t] = k.status[t]
                               /\ (r.waiting_on[t] = q) <=> (k.waiting_on[t] = q)
      BY <1>7, <1>8 DEF T, Waiters
    <2> QED BY <2>1, <1>2, <1>10, UndisturbedBut
  <1> QED BY <1>2, <1>9, <1>10, <1>11 DEF AllWoken, r, T

(* Between k and r the head of q got the processor with st, and no other   *)
(* sleeper noticed.                                                        *)
HeadRuns(k, q, st, r) ==
    LET h == Head(k.queue[q])
    IN  /\ HandedOver(k, q, st, r) /\ Undisturbed(k, r, {h})
        /\ h \in Tasks /\ k.waiting_on[h] = q /\ r.waiting_on[h] = NoQueue
        /\ r.status[h] = st

(* rsrc_dequeue() and preempt(): the head of the queue is the task that    *)
(* runs.                                                                   *)
LEMMA HandOverMove ==
    ASSUME NEW k, Consistent(k), NoTaskLost(k), k.current \in Tasks,
           NEW q \in SleepQueues, k.queue[q] # <<>>, NEW st \in Status
    PROVE  HeadRuns(k, q, st, hand_over(k, q, st))
  <1> DEFINE r == hand_over(k, q, st)
             h == Head(k.queue[q])
  <1>1. q \in Queues \ {RunQueue} /\ q \in Queues
    BY DEF SleepQueues
  <1>2. HandedOver(k, q, st, r)
    BY <1>1, HandOverSafe
  <1> HIDE DEF r
  <1>3. /\ Consistent(r) /\ NoTaskLost(r) /\ r.current = h
        /\ r.status = [k.status EXCEPT ![h] = st]
        /\ r.queue[q] = Tail(k.queue[q])
        /\ \A p \in SleepQueues \ {q} : r.queue[p] = k.queue[p]
        /\ \A t \in Tasks : r.waiting_on[t] # k.waiting_on[t] =>
                                r.waiting_on[t] \in {RunQueue, NoQueue}
    BY <1>2 DEF HandedOver, SleepQueues, h
  <1>4. k.queue[q] \in Seq(Tasks) /\ k.status \in [AllTasks -> Status]
    BY <1>1, Fields DEF Consistent
  <1>5. h \in Tasks /\ h = k.queue[q][1] /\ 1 \in 1 .. Len(k.queue[q])
    BY <1>4
  <1> HIDE DEF h
  <1>6. k.waiting_on[h] = q
    BY <1>1, <1>5, OnQueue DEF Elements
  <1>7. r.waiting_on[h] = NoQueue /\ q # NoQueue /\ q # RunQueue
    BY <1>1, <1>3, SchedAssumption DEF NoTaskLost
  <1>8. r.status[h] = st /\ \A t \in Tasks \ {h} : r.status[t] = k.status[t]
    BY <1>3, <1>4, <1>5 DEF AllTasks
  <1>9. ASSUME NEW t \in Tasks \ {h}, k.waiting_on[t] = q
        PROVE  r.waiting_on[t] = q
    <2>1. t \in Elements(k.queue[q])
      BY <1>1, <1>9, OnQueue
    <2>2. PICK i \in 1 .. Len(k.queue[q]) : k.queue[q][i] = t
      BY <2>1 DEF Elements
    <2>3. i # 1
      BY <2>2, <1>5, <1>9
    <2> DEFINE u == k.queue[q]
    <2>6. u \in Seq(Tasks) /\ i \in 1 .. Len(u) /\ i # 1 /\ u[i] = t
      BY <2>2, <2>3, <1>4
    <2> HIDE DEF u
    <2>7. i - 1 \in 1 .. Len(Tail(u)) /\ Tail(u)[i - 1] = t
      BY <2>6
    <2>4. i - 1 \in 1 .. Len(r.queue[q]) /\ r.queue[q][i - 1] = t
      BY <2>7, <1>3 DEF u
    <2>5. t \in Elements(r.queue[q])
      BY <2>4 DEF Elements
    <2> QED BY <2>5, <1>1, <1>3, OnQueue
  <1>10. Undisturbed(k, r, {h})
    <2>1. \A t \in Tasks \ {h} : (r.waiting_on[t] = q) <=> (k.waiting_on[t] = q)
      BY <1>3, <1>7, <1>9
    <2> DEFINE T == {h}
    <2>2. \A t \in Tasks \ T : /\ r.status[t] = k.status[t]
                               /\ (r.waiting_on[t] = q) <=> (k.waiting_on[t] = q)
      BY <2>1, <1>8
    <2>3. \A p \in SleepQueues \ {q} : r.queue[p] = k.queue[p]
      BY <1>3
    <2> HIDE DEF T
    <2>4. Undisturbed(k, r, T)
      <3>1. Consistent(k) /\ Consistent(r)
        BY <1>3
      <3> QED BY <2>2, <2>3, <3>1, UndisturbedBut
    <2> QED BY <2>4 DEF T
  <1> QED BY <1>2, <1>5, <1>6, <1>7, <1>8, <1>10 DEF HeadRuns, r, h
-----------------------------------------------------------------------------
(* What the scheduler does to those who take no part in a step.            *)

(* A task outside T keeps its flags while it sleeps on a resource, is free *)
(* or awaits an interrupt, and becomes neither free, nor dead, nor a       *)
(* sleeper in os_sleep_irq().                                              *)
FlagsKept(k, r, T) ==
    \A t \in Tasks \ T :
        /\ k.waiting_on[t] \in SleepQueues => r.flags[t] = k.flags[t]
        /\ k.flags[t] \in {tFREE, tSLEEP_IRQ} => r.flags[t] = k.flags[t]
        /\ r.flags[t] \in {tFREE, tSLEEP_IRQ, tDEAD} => r.flags[t] = k.flags[t]

Bystanders(k, r, T) == Undisturbed(k, r, T) /\ FlagsKept(k, r, T)

SameSleepers(k, r) == \A p \in SleepQueues : r.queue[p] = k.queue[p]

(* Who is a bystander of two steps is a bystander of both together.        *)
LEMMA BystandersTwice ==
    ASSUME NEW k, NEW r, NEW s, NEW T, NEW U,
           Bystanders(k, r, T), Bystanders(r, s, U)
    PROVE  Bystanders(k, s, T \cup U)
  <1>1. ASSUME NEW t \in Tasks \ (T \cup U)
        PROVE  /\ s.status[t] = k.status[t]
               /\ \/ k.waiting_on[t] \in SleepQueues
                  \/ s.waiting_on[t] \in SleepQueues
                  => s.waiting_on[t] = k.waiting_on[t]
    BY DEF Bystanders, Undisturbed
  <1>2. ASSUME NEW t \in Tasks \ (T \cup U)
        PROVE  /\ k.waiting_on[t] \in SleepQueues => s.flags[t] = k.flags[t]
               /\ k.flags[t] \in {tFREE, tSLEEP_IRQ} => s.flags[t] = k.flags[t]
               /\ s.flags[t] \in {tFREE, tSLEEP_IRQ, tDEAD} => s.flags[t] = k.flags[t]
    <2>1. /\ k.waiting_on[t] \in SleepQueues => r.waiting_on[t] = k.waiting_on[t]
          /\ k.waiting_on[t] \in SleepQueues => r.flags[t] = k.flags[t]
          /\ k.flags[t] \in {tFREE, tSLEEP_IRQ} => r.flags[t] = k.flags[t]
          /\ r.flags[t] \in {tFREE, tSLEEP_IRQ, tDEAD} => r.flags[t] = k.flags[t]
      BY DEF Bystanders, Undisturbed, FlagsKept
    <2>2. /\ r.waiting_on[t] \in SleepQueues => s.flags[t] = r.flags[t]
          /\ r.flags[t] \in {tFREE, tSLEEP_IRQ} => s.flags[t] = r.flags[t]
          /\ s.flags[t] \in {tFREE, tSLEEP_IRQ, tDEAD} => s.flags[t] = r.flags[t]
      BY DEF Bystanders, FlagsKept
    <2> QED BY <2>1, <2>2
  <1>3. Undisturbed(k, s, T \cup U)
    BY <1>1 DEF Undisturbed
  <1>4. FlagsKept(k, s, T \cup U)
    BY <1>2 DEF FlagsKept
  <1> QED BY <1>3, <1>4 DEF Bystanders

(* A step that changes neither waiting_on nor status outside T.            *)
LEMMA UndisturbedSame ==
    ASSUME NEW k, NEW r, NEW T,
           \A t \in Tasks \ T : /\ r.status[t] = k.status[t]
                                /\ r.waiting_on[t] = k.waiting_on[t]
    PROVE  Undisturbed(k, r, T)
  BY DEF Undisturbed

(* A switch that leaves the sleepers' queues alone disturbs nobody.        *)
LEMMA UndisturbedByQueues ==
    ASSUME NEW k, NEW r, Consistent(k), Consistent(r),
           SameSleepers(k, r), r.status = k.status
    PROVE  Undisturbed(k, r, {})
  <1>1. \A t \in Tasks, p \in SleepQueues : (r.waiting_on[t] = p) <=> (k.waiting_on[t] = p)
    BY StaysOn DEF SleepQueues, SameSleepers
  <1> QED BY <1>1 DEF Undisturbed

(* The dispatcher: kernel.c:206-229.                                       *)
LEMMA DispatchFlags ==
    ASSUME NEW k, Consistent(k)
    PROVE  /\ FlagsKept(k, dispatch(k), {})
           /\ IdleOnlyWhenNothingToRun(dispatch(k))
  <1> DEFINE r == dispatch(k)
             d == rsrc_dequeue(k, RunQueue)
  <1>0. /\ k \in SchedStates /\ QueuesAgree(k) /\ FlagsAgree(k) /\ RunQueue \in Queues
        /\ RunQueue # NoQueue /\ IdleTask \notin Tasks /\ k.flags \in [AllTasks -> Flags]
        /\ k.queue \in [Queues -> Seq(Tasks)]
    BY Fields, SchedAssumption DEF Consistent
  <1>1. CASE k.queue[RunQueue] = <<>>
    <2>1. r = [k EXCEPT !.current = IdleTask, !.flags[IdleTask] = tRUNNING]
      BY <1>1 DEF dispatch, rsrc_dequeue
    <2>2. r.flags = [k.flags EXCEPT ![IdleTask] = tRUNNING] /\ r.queue = k.queue
      BY <2>1, <1>0 DEF SchedStates
    <2>3. \A t \in Tasks : r.flags[t] = k.flags[t]
      BY <2>2, <1>0 DEF AllTasks
    <2> QED BY <2>2, <2>3, <1>1 DEF FlagsKept, IdleOnlyWhenNothingToRun
  <1>2. CASE k.queue[RunQueue] # <<>>
    <2>0. PICK h \in Tasks : h = Head(k.queue[RunQueue])
      BY <1>0, <1>2
    <2>1. d \in SchedStates /\ d.flags = [k.flags EXCEPT ![h] = tREADY]
      <3> DEFINE g == Head(k.queue[RunQueue])
      <3>1. /\ g \in Tasks
            /\ d \in SchedStates
            /\ d.current = k.current
            /\ d.flags = [k.flags EXCEPT ![g] = tREADY]
            /\ d.waiting_on = [k.waiting_on EXCEPT ![g] = NoQueue]
            /\ d.status = k.status
            /\ d.queue = [k.queue EXCEPT ![RunQueue] = Tail(k.queue[RunQueue])]
        BY <1>0, <1>2, DequeueFields
      <3> QED BY <3>1, <2>0
    <2>2. r = [d EXCEPT !.current = h, !.flags[h] = tRUNNING]
      BY <2>0, <1>2 DEF dispatch
    <2>3. r.flags = [d.flags EXCEPT ![h] = tRUNNING] /\ r.current = h
      BY <2>1, <2>2 DEF SchedStates
    <2>4. r.flags[h] = tRUNNING /\ \A t \in Tasks \ {h} : r.flags[t] = k.flags[t]
      BY <2>1, <2>3, <1>0 DEF AllTasks
    <2>5. k.waiting_on[h] = RunQueue
      <3>1. h \in Elements(k.queue[RunQueue])
        BY <2>0, <1>0, <1>2 DEF Elements
      <3> QED BY <3>1, <1>0, OnQueue
    <2>6. k.flags[h] \in {tWAITING, tDEAD}
      BY <2>5, <1>0 DEF FlagsAgree
    <2>7. FlagsKept(k, r, {})
      BY <2>4, <2>5, <2>6
         DEF FlagsKept, SleepQueues, tWAITING, tDEAD, tFREE, tSLEEP_IRQ, tRUNNING
    <2> QED BY <2>3, <2>7, <1>0 DEF IdleOnlyWhenNothingToRun
  <1> QED BY <1>1, <1>2

(* The current task goes to the run queue: kernel.c:181, 202.              *)
LEMMA RequeueFlags ==
    ASSUME NEW k, Consistent(k), NoTaskLost(k)
    PROVE  FlagsKept(k, requeue_current(k), {})
  <1> DEFINE r == requeue_current(k)
  <1>1. /\ \A t \in Tasks \ {k.current} : r.flags[t] = k.flags[t]
        /\ k.flags[k.current] = tRUNNING /\ k.waiting_on[k.current] = NoQueue
        /\ NoQueue \notin SleepQueues
    BY RequeueSafe, SchedAssumption DEF NoTaskLost, SleepQueues
  <1>2. CASE k.current \notin Tasks
    BY <1>1, <1>2 DEF FlagsKept
  <1>3. CASE k.current \in Tasks
    <2>1. r = rsrc_enqueue(k, RunQueue, k.current) /\ RunQueue \in Queues /\ k \in SchedStates
      BY <1>3, SchedAssumption DEF requeue_current, Consistent
    <2>2. r.flags = [k.flags EXCEPT ![k.current] = tWAITING]
      <3> DEFINE c == k.current
      <3>1. c \in Tasks /\ RunQueue \in Queues /\ k \in SchedStates
        BY <2>1, <1>3
      <3> HIDE DEF c
      <3> DEFINE e == rsrc_enqueue(k, RunQueue, c)
      <3>2. /\ e \in SchedStates
            /\ e.current = k.current
            /\ e.flags = [k.flags EXCEPT ![c] = tWAITING]
            /\ e.waiting_on = [k.waiting_on EXCEPT ![c] = RunQueue]
            /\ e.status = k.status
            /\ e.queue = [k.queue EXCEPT ![RunQueue] = Append(k.queue[RunQueue], c)]
        BY <3>1, EnqueueFields
      <3> QED BY <3>2, <2>1 DEF c
    <2>3. k.flags \in [AllTasks -> Flags]
      BY <2>1, Fields
    <2>4. r.flags[k.current] = tWAITING
      BY <2>2, <2>3, <1>3 DEF AllTasks
    <2> QED BY <2>4, <1>1
            DEF FlagsKept, tWAITING, tDEAD, tFREE, tSLEEP_IRQ, tRUNNING
  <1> QED BY <1>2, <1>3

(* Between k and r the processor may have been given to another task.      *)
Switched(k, r) ==
    /\ Consistent(r) /\ NoTaskLost(r) /\ IdleOnlyWhenNothingToRun(r)
    /\ Bystanders(k, r, {}) /\ SameSleepers(k, r)

(* swtch(): kernel.c:196.                                                  *)
LEMMA SwtchMove ==
    ASSUME NEW k, Consistent(k), Runnable(k) => k.waiting_on[k.current] = NoQueue
    PROVE  Switched(k, swtch(k))
  <1> DEFINE r == swtch(k)
  <1>1. Consistent(r) /\ NoTaskLost(r) /\ OthersUntouched(k, r)
    BY SwtchSafe
  <1>2. SameSleepers(k, r) /\ r.status = k.status
    BY <1>1 DEF OthersUntouched, SameSleepers, SleepQueues
  <1>3. Undisturbed(k, r, {})
    <2> HIDE DEF r
    <2> QED BY <1>1, <1>2, UndisturbedByQueues
  <1>4. FlagsKept(k, r, {}) /\ IdleOnlyWhenNothingToRun(r)
    <2>1. CASE ~Runnable(k)
      BY <2>1, DispatchFlags DEF swtch
    <2>2. CASE Runnable(k) /\ k.queue[RunQueue] = <<>>
      BY <2>2 DEF swtch, FlagsKept, IdleOnlyWhenNothingToRun
    <2>3. CASE Runnable(k) /\ k.queue[RunQueue] # <<>>
      <3> DEFINE m == requeue_current(k)
      <3>1. NoTaskLost(k)
        BY <2>3 DEF Consistent, NoTaskLost, Runnable
      <3>2. /\ Consistent(m) /\ OthersUntouched(k, m) /\ FlagsKept(k, m, {})
        BY <3>1, RequeueSafe, RequeueFlags
      <3>3. r = dispatch(m)
        BY <2>3 DEF swtch
      <3>4. FlagsKept(m, r, {}) /\ IdleOnlyWhenNothingToRun(r)
        BY <3>2, <3>3, DispatchFlags
      <3> HIDE DEF m, r
      <3>5. SameSleepers(k, m) /\ m.status = k.status
        BY <3>2 DEF OthersUntouched, SameSleepers, SleepQueues
      <3>6. Undisturbed(k, m, {})
        BY <3>2, <3>5, UndisturbedByQueues
      <3>7. SameSleepers(m, r) /\ r.status = m.status
        BY <3>5, <1>2 DEF SameSleepers
      <3>8. Undisturbed(m, r, {})
        BY <3>2, <3>7, <1>1, UndisturbedByQueues
      <3>9. Bystanders(k, r, {} \cup {})
        BY <3>2, <3>4, <3>6, <3>8, BystandersTwice DEF Bystanders
      <3> QED BY <3>4, <3>9 DEF Bystanders
    <2> QED BY <2>1, <2>2, <2>3
  <1> QED BY <1>1, <1>2, <1>3, <1>4 DEF Switched, Bystanders
(* Between k and e the current task was put on q, marked f.                *)
SelfQueued(k, q, f, e) ==
    /\ e \in SchedStates /\ e.current = k.current
    /\ e.flags = [k.flags EXCEPT ![k.current] = f]
    /\ e.waiting_on = [k.waiting_on EXCEPT ![k.current] = q]
    /\ \A t \in Tasks \ {k.current} : e.status[t] = k.status[t]
    /\ e.queue = [k.queue EXCEPT ![q] = Append(k.queue[q], k.current)]

(* What follows of that for e.                                             *)
SelfOff(k, q, f, e) ==
    /\ Consistent(e) /\ ~Runnable(e) /\ Bystanders(k, e, {k.current})
    /\ e.waiting_on[k.current] = q /\ e.flags[k.current] = f
    /\ e.queue[q] = Append(k.queue[q], k.current)
    /\ \A p \in Queues \ {q} : e.queue[p] = k.queue[p]

(* A task that puts itself on a queue cannot go on, and nobody else is     *)
(* concerned.                                                              *)
LEMMA SelfQueuedSafe ==
    ASSUME NEW k, Consistent(k), NoTaskLost(k), k.current \in Tasks,
           NEW q \in Queues \ {RunQueue}, NEW f \in {tWAITING, tDEAD},
           NEW e, SelfQueued(k, q, f, e)
    PROVE  SelfOff(k, q, f, e)
  <1>0. PICK c \in Tasks : c = k.current
    OBVIOUS
  <1>1. /\ k \in SchedStates /\ QueuesAgree(k) /\ FlagsAgree(k)
        /\ k.waiting_on[c] = NoQueue /\ k.flags[c] = tRUNNING
    BY <1>0 DEF Consistent, NoTaskLost
  <1>2. /\ e \in SchedStates /\ e.current = c
        /\ e.flags = [k.flags EXCEPT ![c] = f]
        /\ e.waiting_on = [k.waiting_on EXCEPT ![c] = q]
        /\ e.queue = [k.queue EXCEPT ![q] = Append(k.queue[q], c)]
        /\ \A t \in Tasks \ {c} : e.status[t] = k.status[t]
    BY <1>0 DEF SelfQueued
  <1>3. QueuesAgree(e)
    BY <1>1, <1>2, AppendAgree
  <1>4. /\ e.flags[c] = f /\ e.waiting_on[c] = q
        /\ \A t \in Tasks \ {c} : e.flags[t] = k.flags[t] /\ e.waiting_on[t] = k.waiting_on[t]
    BY <1>1, <1>2, Fields DEF AllTasks
  <1>5. FlagsAgree(e) /\ ~Runnable(e)
    BY <1>0, <1>1, <1>2, <1>4, SchedAssumption
       DEF FlagsAgree, Runnable, tWAITING, tRUNNING, tREADY, tDEAD
  <1>6. Bystanders(k, e, {c})
    BY <1>2, <1>4 DEF Bystanders, Undisturbed, FlagsKept
  <1>7. /\ e.queue[q] = Append(k.queue[q], c)
        /\ \A p \in Queues \ {q} : e.queue[p] = k.queue[p]
    BY <1>1, <1>2, Fields
  <1> QED BY <1>0, <1>2, <1>3, <1>4, <1>5, <1>6, <1>7 DEF Consistent, SelfOff

(* rsrc_enqueue_ordered() of the current task: resource.c:118.             *)
LEMMA EnqueueOrderedSelf ==
    ASSUME NEW k, Consistent(k), k.current \in Tasks,
           NEW q \in Queues \ {RunQueue}, NEW ticks \in Nat
    PROVE  SelfQueued(k, q, tWAITING, rsrc_enqueue_ordered(k, q, k.current, ticks))
  <1>0. PICK c \in Tasks : c = k.current
    OBVIOUS
  <1> DEFINE e == rsrc_enqueue(k, q, c)
             r == rsrc_enqueue_ordered(k, q, c, ticks)
  <1>1. k \in SchedStates /\ q \in Queues
    BY DEF Consistent
  <1>2. /\ e \in SchedStates
        /\ e.current = k.current
        /\ e.flags = [k.flags EXCEPT ![c] = tWAITING]
        /\ e.waiting_on = [k.waiting_on EXCEPT ![c] = q]
        /\ e.status = k.status
        /\ e.queue = [k.queue EXCEPT ![q] = Append(k.queue[q], c)]
    BY <1>1, EnqueueFields
  <1>3. r = [e EXCEPT !.wait_time[c] = ticks]
    BY DEF rsrc_enqueue_ordered
  <1> HIDE DEF e, r
  <1>4. [e.wait_time EXCEPT ![c] = ticks] \in [AllTasks -> Nat]
    BY <1>2, Fields
  <1>5. /\ r \in SchedStates /\ r.current = e.current /\ r.flags = e.flags
        /\ r.waiting_on = e.waiting_on /\ r.status = e.status /\ r.queue = e.queue
    BY <1>2, <1>3, <1>4 DEF SchedStates
  <1>6. SelfQueued(k, q, tWAITING, r)
    BY <1>0, <1>2, <1>5 DEF SelfQueued
  <1> QED BY <1>0, <1>6 DEF r

(* rsrc_enqueue() of the current task, by wait_on() or terminate().        *)
LEMMA EnqueueSelf ==
    ASSUME NEW k, Consistent(k), k.current \in Tasks,
           NEW q \in Queues \ {RunQueue}, NEW st \in [AllTasks -> Status],
           \A t \in Tasks \ {k.current} : st[t] = k.status[t]
    PROVE  SelfQueued(k, q, tWAITING,
                      rsrc_enqueue([k EXCEPT !.status = st], q, k.current))
  <1>0. PICK c \in Tasks : c = k.current
    OBVIOUS
  <1> DEFINE s == [k EXCEPT !.status = st]
             r == rsrc_enqueue(s, q, c)
  <1>1. k \in SchedStates /\ q \in Queues
    BY DEF Consistent
  <1>2. /\ s \in SchedStates /\ s.current = k.current /\ s.flags = k.flags
        /\ s.waiting_on = k.waiting_on /\ s.status = st /\ s.queue = k.queue
    BY <1>1 DEF SchedStates
  <1> HIDE DEF s
  <1>3. /\ r \in SchedStates
        /\ r.current = s.current
        /\ r.flags = [s.flags EXCEPT ![c] = tWAITING]
        /\ r.waiting_on = [s.waiting_on EXCEPT ![c] = q]
        /\ r.status = s.status
        /\ r.queue = [s.queue EXCEPT ![q] = Append(s.queue[q], c)]
    <2>1. s \in SchedStates /\ q \in Queues /\ c \in Tasks
      BY <1>1, <1>2
    <2> QED BY <2>1, EnqueueFields
  <1> HIDE DEF r
  <1>4. SelfQueued(k, q, tWAITING, r)
    BY <1>0, <1>2, <1>3 DEF SelfQueued
  <1> QED BY <1>0, <1>4 DEF r, s

(* The current task left the processor for q.                              *)
SelfParked(k, q, r) ==
    /\ Consistent(r) /\ NoTaskLost(r) /\ IdleOnlyWhenNothingToRun(r)
    /\ Bystanders(k, r, {k.current})
    /\ q \in SleepQueues => r.waiting_on[k.current] = q
    /\ r.flags[k.current] \notin {tFREE, tSLEEP_IRQ, tDEAD}
    /\ \A p \in SleepQueues : r.queue[p] = IF p = q THEN Append(k.queue[q], k.current)
                                                    ELSE k.queue[p]

(* A task that queues itself and switches is parked.                       *)
LEMMA ParkMove ==
    ASSUME NEW k, Consistent(k), NoTaskLost(k), k.current \in Tasks,
           NEW q \in Queues \ {RunQueue}, NEW e, SelfQueued(k, q, tWAITING, e)
    PROVE  SelfParked(k, q, swtch(e))
  <1>0. PICK c \in Tasks : c = k.current
    OBVIOUS
  <1>1. /\ Consistent(e) /\ ~Runnable(e) /\ Bystanders(k, e, {c})
        /\ e.waiting_on[c] = q /\ e.flags[c] = tWAITING
        /\ e.queue[q] = Append(k.queue[q], c)
        /\ \A p \in Queues \ {q} : e.queue[p] = k.queue[p]
    <2>1. tWAITING \in {tWAITING, tDEAD}
      OBVIOUS
    <2>2. SelfOff(k, q, tWAITING, e)
      BY <2>1, SelfQueuedSafe
    <2> QED BY <2>2, <1>0 DEF SelfOff
  <1>2. Switched(e, swtch(e))
    BY <1>1, SwtchMove
  <1> DEFINE r == swtch(e)
             T == {c}
  <1> HIDE DEF r
  <1>3. /\ Consistent(r) /\ NoTaskLost(r) /\ IdleOnlyWhenNothingToRun(r)
        /\ Bystanders(e, r, {}) /\ SameSleepers(e, r)
    BY <1>2 DEF Switched, r
  <1>4. Bystanders(k, r, T)
    <2>1. Bystanders(k, e, T)
      BY <1>1
    <2>2. T \cup {} = T
      OBVIOUS
    <2> HIDE DEF T
    <2>3. Bystanders(k, r, T \cup {})
      BY <2>1, <1>3, BystandersTwice
    <2> QED BY <2>2, <2>3
  <1>5. q \in SleepQueues => r.waiting_on[c] = q
    BY <1>1, <1>3 DEF Bystanders, Undisturbed
  <1>6. r.flags[c] \notin {tFREE, tSLEEP_IRQ, tDEAD}
    BY <1>1, <1>3 DEF Bystanders, FlagsKept, tWAITING, tFREE, tSLEEP_IRQ, tDEAD
  <1>7. \A p \in SleepQueues : r.queue[p] = IF p = q THEN Append(k.queue[q], c) ELSE k.queue[p]
    BY <1>1, <1>3 DEF SameSleepers, SleepQueues
  <1> QED BY <1>0, <1>3, <1>4, <1>5, <1>6, <1>7 DEF SelfParked, r

(* wait_on(): task.c:21.                                                   *)
LEMMA WaitOnMove ==
    ASSUME NEW k, Consistent(k), NoTaskLost(k), k.current \in Tasks,
           NEW q \in Queues \ {RunQueue}
    PROVE  SelfParked(k, q, wait_on(k, q))
  <1> DEFINE st == [k.status EXCEPT ![k.current] = ERR_NONE]
             e == rsrc_enqueue([k EXCEPT !.status = st], q, k.current)
  <1>1. k.status \in [AllTasks -> Status]
    BY Fields DEF Consistent
  <1>2. st \in [AllTasks -> Status] /\ \A t \in Tasks \ {k.current} : st[t] = k.status[t]
    BY <1>1 DEF Status, AllTasks
  <1>3. wait_on(k, q) = swtch(e)
    BY DEF wait_on
  <1> HIDE DEF st
  <1>4. SelfQueued(k, q, tWAITING, e)
    BY <1>2, EnqueueSelf
  <1> HIDE DEF e
  <1> QED BY <1>3, <1>4, ParkMove

(* A sleeper or a free task that stays put is a bystander.                 *)
LEMMA FlagsSame ==
    ASSUME NEW k, NEW r, NEW T, \A t \in Tasks \ T : r.flags[t] = k.flags[t]
    PROVE  FlagsKept(k, r, T)
  BY DEF FlagsKept

(* Between k and r a task that nobody used was put on the run queue.       *)
Started(k, u, r) ==
    /\ Consistent(r) /\ NoTaskLost(r) /\ r.current = k.current
    /\ Bystanders(k, r, {u}) /\ SameSleepers(k, r)
    /\ r.flags[u] = tWAITING /\ r.waiting_on[u] = RunQueue /\ k.waiting_on[u] = NoQueue

(* A new task is put on the run queue: task.c:161.                         *)
LEMMA StartMove ==
    ASSUME NEW k, Consistent(k), NoTaskLost(k), NEW u \in Tasks, k.flags[u] = tFREE
    PROVE  Started(k, u, rsrc_enqueue(k, RunQueue, u))
  <1> DEFINE r == rsrc_enqueue(k, RunQueue, u)
             T == {u}
  <1>1. /\ k \in SchedStates /\ QueuesAgree(k) /\ FlagsAgree(k) /\ RunQueue \in Queues
        /\ RunQueue # NoQueue /\ RunQueue \notin SleepQueues
    BY SchedAssumption DEF Consistent, SleepQueues
  <1>2. k.waiting_on[u] = NoQueue
    BY <1>1 DEF FlagsAgree, tFREE, tWAITING, tDEAD
  <1>3. /\ r \in SchedStates
        /\ r.current = k.current
        /\ r.flags = [k.flags EXCEPT ![u] = tWAITING]
        /\ r.waiting_on = [k.waiting_on EXCEPT ![u] = RunQueue]
        /\ r.status = k.status
        /\ r.queue = [k.queue EXCEPT ![RunQueue] = Append(k.queue[RunQueue], u)]
    BY <1>1, EnqueueFields
  <1> HIDE DEF r
  <1>4. QueuesAgree(r)
    BY <1>1, <1>2, <1>3, AppendAgree
  <1>5. /\ r.flags[u] = tWAITING /\ r.waiting_on[u] = RunQueue
        /\ \A t \in Tasks \ {u} : r.flags[t] = k.flags[t] /\ r.waiting_on[t] = k.waiting_on[t]
    BY <1>1, <1>3, Fields DEF AllTasks
  <1>6. FlagsAgree(r)
    BY <1>1, <1>3, <1>5 DEF FlagsAgree, tWAITING, tRUNNING, tREADY
  <1>7. k.current # u /\ k.current \in AllTasks
    BY <1>1, Fields DEF NoTaskLost, tFREE, tRUNNING
  <1>8. r.flags[k.current] = k.flags[k.current] /\ r.waiting_on[k.current] = k.waiting_on[k.current]
    BY <1>1, <1>3, <1>7, Fields
  <1>9. NoTaskLost(r)
    BY <1>3, <1>6, <1>8 DEF NoTaskLost
  <1>10. SameSleepers(k, r)
    BY <1>1, <1>3, Fields DEF SameSleepers, SleepQueues
  <1>11. \A t \in Tasks \ T : /\ r.status[t] = k.status[t] /\ r.flags[t] = k.flags[t]
                              /\ r.waiting_on[t] = k.waiting_on[t]
    BY <1>3, <1>5
  <1> HIDE DEF T
  <1>12. Bystanders(k, r, T)
    BY <1>11, FlagsSame, UndisturbedSame DEF Bystanders
  <1> QED BY <1>2, <1>3, <1>4, <1>5, <1>6, <1>9, <1>10, <1>12 DEF Started, Consistent, T, r

(* Between k and r the current task left the processor for os_sleep_irq(). *)
SleepsUntilIrq(k, r) ==
    /\ Consistent(r) /\ NoTaskLost(r) /\ IdleOnlyWhenNothingToRun(r)
    /\ Bystanders(k, r, {k.current}) /\ SameSleepers(k, r)
    /\ r.flags[k.current] = tSLEEP_IRQ /\ r.waiting_on[k.current] = NoQueue

(* os_sleep_irq(): syscall.c:110.                                          *)
LEMMA SleepIrqMove ==
    ASSUME NEW k, Consistent(k), NoTaskLost(k), k.current \in Tasks
    PROVE  SleepsUntilIrq(k, swtch([k EXCEPT !.flags[k.current] = tSLEEP_IRQ]))
  <1>0. PICK c \in Tasks : c = k.current
    OBVIOUS
  <1> DEFINE e == [k EXCEPT !.flags[c] = tSLEEP_IRQ]
             r == swtch(e)
             T == {c}
  <1>1. /\ k \in SchedStates /\ QueuesAgree(k) /\ FlagsAgree(k)
        /\ k.waiting_on[c] = NoQueue /\ k.flags \in [AllTasks -> Flags]
    BY <1>0, Fields DEF Consistent, NoTaskLost
  <1>2. [k.flags EXCEPT ![c] = tSLEEP_IRQ] \in [AllTasks -> Flags]
    BY <1>1 DEF Flags
  <1>3. /\ e \in SchedStates /\ e.current = c /\ e.waiting_on = k.waiting_on
        /\ e.flags = [k.flags EXCEPT ![c] = tSLEEP_IRQ]
        /\ e.status = k.status /\ e.queue = k.queue
    BY <1>0, <1>1, <1>2 DEF SchedStates
  <1> HIDE DEF e
  <1>4. e.flags[c] = tSLEEP_IRQ /\ \A t \in Tasks \ {c} : e.flags[t] = k.flags[t]
    BY <1>1, <1>3 DEF AllTasks
  <1>5. QueuesAgree(e)
    BY <1>1, <1>3 DEF QueuesAgree
  <1>6. FlagsAgree(e) /\ ~Runnable(e)
    BY <1>0, <1>1, <1>3, <1>4
       DEF FlagsAgree, Runnable, tSLEEP_IRQ, tWAITING, tRUNNING, tREADY, tDEAD
  <1>7. Consistent(e)
    BY <1>3, <1>5, <1>6 DEF Consistent
  <1>8. Switched(e, r)
    BY <1>6, <1>7, SwtchMove
  <1> HIDE DEF r
  <1>9. /\ Consistent(r) /\ NoTaskLost(r) /\ IdleOnlyWhenNothingToRun(r)
        /\ Bystanders(e, r, {}) /\ SameSleepers(e, r)
    BY <1>8 DEF Switched
  <1>10. Bystanders(k, r, T)
    <2>1. \A t \in Tasks \ T : /\ e.status[t] = k.status[t] /\ e.flags[t] = k.flags[t]
                               /\ e.waiting_on[t] = k.waiting_on[t]
      BY <1>3, <1>4
    <2>2. T \cup {} = T
      OBVIOUS
    <2> HIDE DEF T
    <2>3. Bystanders(k, e, T)
      BY <2>1, FlagsSame, UndisturbedSame DEF Bystanders
    <2>4. Bystanders(k, r, T \cup {})
      BY <2>3, <1>9, BystandersTwice
    <2> QED BY <2>2, <2>4
  <1>11. r.flags[c] = tSLEEP_IRQ
    BY <1>4, <1>9 DEF Bystanders, FlagsKept
  <1>12. r.waiting_on[c] = NoQueue
    BY <1>9, <1>11 DEF Consistent, FlagsAgree, tSLEEP_IRQ, tWAITING, tDEAD
  <1>13. SameSleepers(k, r)
    BY <1>3, <1>9 DEF SameSleepers
  <1> QED BY <1>0, <1>9, <1>10, <1>11, <1>12, <1>13 DEF SleepsUntilIrq, e, r

(* Between k and r task t got the processor, which the current task had to *)
(* give up.                                                                *)
Preempted(k, t, r) ==
    /\ Consistent(r) /\ NoTaskLost(r) /\ r.current = t
    /\ Bystanders(k, r, {t}) /\ SameSleepers(k, r)
    /\ r.flags[t] = tRUNNING /\ r.waiting_on[t] = NoQueue

(* preempt() by a task that awaits an interrupt: kernel.c:175.             *)
LEMMA PreemptMove ==
    ASSUME NEW k, Consistent(k), NoTaskLost(k), NEW t \in Tasks,
           k.flags[t] = tSLEEP_IRQ, NEW st \in Status
    PROVE  Preempted(k, t, preempt(k, t, st))
  <1> DEFINE e == requeue_current(k)
             r == preempt(k, t, st)
             T == {t}
  <1>1. /\ k \in SchedStates /\ QueuesAgree(k) /\ FlagsAgree(k)
        /\ k.current # t /\ k.waiting_on[t] = NoQueue
    BY DEF Consistent, NoTaskLost, FlagsAgree, tSLEEP_IRQ, tRUNNING, tWAITING, tDEAD
  <1>2. /\ Consistent(e)
        /\ \A u \in Tasks : e.flags[u] # tRUNNING
        /\ OthersUntouched(k, e)
        /\ e.flags[t] = k.flags[t] /\ e.waiting_on[t] = k.waiting_on[t]
        /\ FlagsKept(k, e, {})
    BY <1>1, RequeueSafe, RequeueFlags
  <1>3. r = [e EXCEPT !.current = t, !.status[t] = st, !.flags[t] = tRUNNING]
    BY DEF preempt
  <1> HIDE DEF e, r
  <1>4. /\ e \in SchedStates /\ QueuesAgree(e) /\ FlagsAgree(e) /\ t \in AllTasks
        /\ e.flags \in [AllTasks -> Flags] /\ e.status \in [AllTasks -> Status]
    BY <1>2, Fields DEF Consistent, AllTasks
  <1>5. /\ [e.flags EXCEPT ![t] = tRUNNING] \in [AllTasks -> Flags]
        /\ [e.status EXCEPT ![t] = st] \in [AllTasks -> Status]
    BY <1>4 DEF Flags
  <1>6. /\ r \in SchedStates /\ r.current = t
        /\ r.flags = [e.flags EXCEPT ![t] = tRUNNING]
        /\ r.status = [e.status EXCEPT ![t] = st]
        /\ r.waiting_on = e.waiting_on /\ r.queue = e.queue
    BY <1>3, <1>4, <1>5 DEF SchedStates
  <1>7. /\ r.flags[t] = tRUNNING
        /\ \A u \in Tasks \ {t} : r.flags[u] = e.flags[u] /\ r.status[u] = e.status[u]
    BY <1>4, <1>6 DEF AllTasks
  <1>8. QueuesAgree(r)
    BY <1>4, <1>6 DEF QueuesAgree
  <1>9. r.waiting_on[t] = NoQueue
    BY <1>1, <1>2, <1>6
  <1>10. FlagsAgree(r)
    BY <1>2, <1>4, <1>6, <1>7, <1>9 DEF FlagsAgree, tRUNNING, tWAITING, tREADY
  <1>11. SameSleepers(k, e) /\ e.status = k.status
    BY <1>2 DEF OthersUntouched, SameSleepers, SleepQueues
  <1>12. Bystanders(k, e, {})
    <2>1. Undisturbed(k, e, {})
      BY <1>2, <1>11, UndisturbedByQueues
    <2> QED BY <2>1, <1>2 DEF Bystanders
  <1>13. Bystanders(k, r, T)
    <2>1. \A u \in Tasks \ T : /\ r.status[u] = e.status[u] /\ r.flags[u] = e.flags[u]
                               /\ r.waiting_on[u] = e.waiting_on[u]
      BY <1>6, <1>7
    <2>2. {} \cup T = T
      OBVIOUS
    <2> HIDE DEF T
    <2>3. Bystanders(e, r, T)
      BY <2>1, FlagsSame, UndisturbedSame DEF Bystanders
    <2>4. Bystanders(k, r, {} \cup T)
      BY <2>3, <1>12, BystandersTwice
    <2> QED BY <2>2, <2>4
  <1>14. SameSleepers(k, r)
    BY <1>6, <1>11 DEF SameSleepers
  <1> QED BY <1>6, <1>7, <1>8, <1>9, <1>10, <1>13, <1>14
          DEF Preempted, Consistent, NoTaskLost, r

(* Between k and r the first n tasks of q were marked waiting, and nobody  *)
(* else.                                                                   *)
HeadsFlagged(k, q, n, r) ==
    LET moved == {k.queue[q][i] : i \in 1 .. n}
    IN  /\ FlagsKept(k, r, moved)
        /\ \A t \in Tasks \cap moved : r.flags[t] = tWAITING

(* Moving the heads of a queue.                                            *)
LEMMA MoveHeadsFlags ==
    ASSUME NEW k, Consistent(k), NEW q \in Queues \ {RunQueue},
           NEW n \in 0 .. Len(k.queue[q])
    PROVE  HeadsFlagged(k, q, n, move_heads(k, q, n))
  <1> DEFINE r == move_heads(k, q, n)
             moved == {k.queue[q][i] : i \in 1 .. n}
  <1>1. k \in SchedStates
    BY DEF Consistent
  <1>2. /\ r \in SchedStates
        /\ r.current = k.current
        /\ r.flags = [t \in AllTasks |-> IF t \in moved THEN tWAITING ELSE k.flags[t]]
        /\ r.status = k.status
        /\ HeadsMoved(k, r, q, n, moved)
    BY <1>1, HeadsDetached
  <1> HIDE DEF r, moved
  <1>3. \A t \in Tasks : r.flags[t] = IF t \in moved THEN tWAITING ELSE k.flags[t]
    BY <1>2 DEF AllTasks
  <1>4. FlagsKept(k, r, moved) /\ \A t \in Tasks \cap moved : r.flags[t] = tWAITING
    BY <1>3 DEF FlagsKept
  <1> QED BY <1>4 DEF HeadsFlagged, r, moved

(* Between k and r all who wait on q were marked waiting, and nobody else. *)
WaitersFlagged(k, q, r) ==
    /\ FlagsKept(k, r, Waiters(k, q))
    /\ \A t \in Waiters(k, q) : r.flags[t] = tWAITING

(* wake_all(): resource.c:108, syscall.c:44.                               *)
LEMMA WakeAllFlags ==
    ASSUME NEW k, Consistent(k), NEW q \in SleepQueues, NEW st \in Status
    PROVE  WaitersFlagged(k, q, wake_all(k, q, st))
  <1> DEFINE n == Len(k.queue[q])
             r == wake_all(k, q, st)
             m == move_heads(k, q, n)
             s == [t \in AllTasks |-> IF t \in Elements(k.queue[q]) THEN st ELSE m.status[t]]
             T == Waiters(k, q)
             E == {k.queue[q][i] : i \in 1 .. n}
  <1>1. /\ q \in Queues \ {RunQueue} /\ q \in Queues
        /\ k \in SchedStates /\ k.queue[q] \in Seq(Tasks)
        /\ n \in 0 .. Len(k.queue[q])
    BY Fields DEF SleepQueues, Consistent
  <1>2. E = T
    <2>1. E = Elements(k.queue[q])
      BY DEF Elements
    <2>2. \A t \in E : t \in Tasks
      BY <1>1
    <2>3. \A t \in Tasks : (k.waiting_on[t] = q) <=> (t \in Elements(k.queue[q]))
      BY <1>1, OnQueue
    <2> QED BY <2>1, <2>2, <2>3 DEF Waiters
  <1>3. r = [m EXCEPT !.status = s]
    BY DEF wake_all
  <1> HIDE DEF r, n, s
  <1>4. FlagsKept(k, m, E) /\ \A t \in Tasks \cap E : m.flags[t] = tWAITING
    <2>1. HeadsFlagged(k, q, n, m)
      BY <1>1, MoveHeadsFlags
    <2> QED BY <2>1 DEF HeadsFlagged
  <1>5. Consistent(m)
    BY <1>1, MoveHeadsSafe
  <1> HIDE DEF m, T, E
  <1>6. r.flags = m.flags
    BY <1>3, <1>5 DEF Consistent, SchedStates
  <1>7. \A t \in T : t \in Tasks
    BY DEF T, Waiters
  <1> QED BY <1>2, <1>4, <1>6, <1>7 DEF WaitersFlagged, FlagsKept, r, T

(* Between k and r the head of q was marked waiting, and nobody else.      *)
HeadFlagged(k, q, r) ==
    LET h == Head(k.queue[q])
    IN  r.flags[h] = tWAITING /\ FlagsKept(k, r, {h})

(* wake_one(): sem.c:94.                                                   *)
LEMMA WakeOneFlags ==
    ASSUME NEW k, Consistent(k), NEW q \in SleepQueues,
           k.queue[q] # <<>>, NEW st \in Status
    PROVE  HeadFlagged(k, q, wake_one(k, q, st))
  <1> DEFINE h == Head(k.queue[q])
             r == wake_one(k, q, st)
  <1>1. q \in Queues \ {RunQueue} /\ k \in SchedStates
    BY DEF SleepQueues, Consistent
  <1>2. HeadWoken(k, q, st, r)
    BY <1>1, WakeOneFields
  <1> HIDE DEF r
  <1>3. h \in Tasks /\ r.flags = [k.flags EXCEPT ![h] = tWAITING]
    BY <1>2 DEF HeadWoken
  <1> HIDE DEF h
  <1>4. r.flags[h] = tWAITING /\ \A t \in Tasks \ {h} : r.flags[t] = k.flags[t]
    BY <1>1, <1>3, Fields DEF AllTasks
  <1>5. FlagsKept(k, r, {h})
    BY <1>4 DEF FlagsKept
  <1> QED BY <1>4, <1>5 DEF HeadFlagged, r, h

(* timer_irq(): fault.c:187.                                               *)
LEMMA TimerSwitched ==
    ASSUME NEW k, Consistent(k), NoTaskLost(k)
    PROVE  Switched(k, timer_irq(k))
  <1> DEFINE c == Tick(k)
             w == wake_expired(c)
             r == timer_irq(k)
             moved == {c.queue[TimerQueue][i] : i \in 1 .. Due(c)}
  <1>0. k \in SchedStates /\ QueuesAgree(k) /\ FlagsAgree(k)
    BY DEF Consistent
  <1>1. [t \in AllTasks |-> IF k.waiting_on[t] = TimerQueue /\ k.wait_time[t] > 0
                            THEN k.wait_time[t] - 1 ELSE k.wait_time[t]] \in [AllTasks -> Nat]
    BY <1>0, Fields
  <1>2. c \in SchedStates
    BY <1>0, <1>1 DEF Tick, SchedStates
  <1>3. /\ c.current = k.current /\ c.flags = k.flags /\ c.waiting_on = k.waiting_on
        /\ c.status = k.status /\ c.queue = k.queue
    BY <1>0 DEF Tick, SchedStates
  <1>4. r = swtch(w)
    BY DEF timer_irq
  <1> HIDE DEF c
  <1>5. Consistent(c) /\ NoTaskLost(c)
    BY <1>0, <1>2, <1>3 DEF Consistent, NoTaskLost, QueuesAgree, FlagsAgree
  <1>6. /\ Due(c) \in 0 .. Len(c.queue[TimerQueue]) /\ TimerQueue \in Queues \ {RunQueue}
        /\ TimerQueue \in Queues
    BY <1>2, DueInQueue, SchedAssumption
  <1>7. /\ Consistent(w) /\ NoTaskLost(w)
        /\ FlagsKept(c, w, moved)
        /\ \A t \in Tasks \cap moved : w.flags[t] = tWAITING
    <2>1. Consistent(w) /\ NoTaskLost(w)
      BY <1>5, <1>6, MoveHeadsSafe DEF wake_expired
    <2>2. HeadsFlagged(c, TimerQueue, Due(c), move_heads(c, TimerQueue, Due(c)))
      BY <1>5, <1>6, MoveHeadsFlags
    <2> QED BY <2>1, <2>2 DEF HeadsFlagged, wake_expired
  <1>8. \A t \in Tasks \cap moved : k.waiting_on[t] = TimerQueue
    <2>1. moved \subseteq Elements(c.queue[TimerQueue])
      BY <1>6 DEF Elements
    <2> QED BY <2>1, <1>3, <1>5, <1>6, OnQueue
  <1> HIDE DEF w, moved
  <1>9. FlagsKept(k, w, {})
    <2>1. \A t \in Tasks \cap moved : k.flags[t] \in {tWAITING, tDEAD} /\ k.waiting_on[t] \notin SleepQueues
      BY <1>0, <1>8, SchedAssumption DEF FlagsAgree, SleepQueues
    <2>2. ASSUME NEW t \in Tasks \cap moved
          PROVE  /\ k.waiting_on[t] \in SleepQueues => w.flags[t] = k.flags[t]
                 /\ k.flags[t] \in {tFREE, tSLEEP_IRQ} => w.flags[t] = k.flags[t]
                 /\ w.flags[t] \in {tFREE, tSLEEP_IRQ, tDEAD} => w.flags[t] = k.flags[t]
      BY <2>1, <1>7 DEF tWAITING, tDEAD, tFREE, tSLEEP_IRQ
    <2> QED BY <2>2, <1>3, <1>7 DEF FlagsKept
  <1>10. Switched(w, r)
    BY <1>4, <1>7, SwtchMove DEF NoTaskLost
  <1>11. /\ Consistent(r) /\ NoTaskLost(r)
         /\ Undisturbed(k, r, {})
         /\ SameSleepers(k, r)
    BY TimerMove DEF SameSleepers
  <1> HIDE DEF r
  <1>12. FlagsKept(w, r, {}) /\ IdleOnlyWhenNothingToRun(r) /\ Undisturbed(w, r, {})
    BY <1>10 DEF Switched, Bystanders
  <1>13. Undisturbed(k, w, {})
    <2>1. /\ w.status = c.status
          /\ \A p \in Queues \ {RunQueue, TimerQueue} : w.queue[p] = c.queue[p]
      BY <1>5, <1>6, MoveHeadsSafe DEF wake_expired, w
    <2>2. SameSleepers(k, w) /\ w.status = k.status
      BY <2>1, <1>3 DEF SameSleepers, SleepQueues
    <2> QED BY <2>2, <1>7, UndisturbedByQueues
  <1>14. Bystanders(k, r, {} \cup {})
    BY <1>9, <1>12, <1>13, BystandersTwice DEF Bystanders
  <1>15. Bystanders(k, r, {})
    BY <1>14
  <1> QED BY <1>11, <1>12, <1>15 DEF Switched, r

(* Between k and e the current task ended: it is dead, on q, and the tasks *)
(* that waited for it are awake.                                           *)
Ended(k, q, r) ==
    LET c == k.current
    IN  /\ Consistent(r) /\ r.current = c
        /\ r.flags[c] = tDEAD /\ r.waiting_on[c] = q
        /\ Bystanders(k, r, {c} \cup Waiters(k, c))
        /\ \A t \in Waiters(k, c) : r.flags[t] = tWAITING /\ r.waiting_on[t] = RunQueue
        /\ r.queue[q] = Append(k.queue[q], c) /\ r.queue[c] = <<>>
        /\ \A p \in SleepQueues \ {q, c} : r.queue[p] = k.queue[p]

(* The first part of os_terminate(): syscall.c:41-48.                      *)
LEMMA EndMove ==
    ASSUME NEW k, Consistent(k), NoTaskLost(k), NEW c \in Tasks \cap SleepQueues,
           c = k.current, NEW q \in SleepQueues \ {c}, NEW st \in Status
    PROVE  Ended(k, q, wake_all([rsrc_enqueue(k, q, c) EXCEPT !.flags[c] = tDEAD], c, st))
  <1> DEFINE n == rsrc_enqueue(k, q, c)
             e == [n EXCEPT !.flags[c] = tDEAD]
             r == wake_all(e, c, st)
             S == {c}
             T == Waiters(k, c)
  <1>1. /\ k \in SchedStates /\ QueuesAgree(k) /\ FlagsAgree(k)
        /\ c \in Tasks /\ q \in Queues /\ q \in Queues \ {RunQueue} /\ q # c
        /\ k.waiting_on[c] = NoQueue /\ NoQueue # c /\ c \in SleepQueues
        /\ tDEAD \in {tWAITING, tDEAD} /\ c \in AllTasks
    BY SchedAssumption DEF Consistent, NoTaskLost, SleepQueues, AllTasks
  <1>2. /\ n \in SchedStates
        /\ n.current = k.current
        /\ n.flags = [k.flags EXCEPT ![c] = tWAITING]
        /\ n.waiting_on = [k.waiting_on EXCEPT ![c] = q]
        /\ n.status = k.status
        /\ n.queue = [k.queue EXCEPT ![q] = Append(k.queue[q], c)]
    BY <1>1, EnqueueFields
  <1> HIDE DEF n
  <1>3. k.flags \in [AllTasks -> Flags]
    BY <1>1, Fields
  <1>4. n.flags[c] = tWAITING /\ [n.flags EXCEPT ![c] = tDEAD] = [k.flags EXCEPT ![c] = tDEAD]
    BY <1>1, <1>2, <1>3
  <1>5. [n.flags EXCEPT ![c] = tDEAD] \in [AllTasks -> Flags]
    BY <1>1, <1>3, <1>4 DEF Flags
  <1>6. /\ e \in SchedStates /\ e.current = n.current
        /\ e.flags = [n.flags EXCEPT ![c] = tDEAD]
        /\ e.waiting_on = n.waiting_on /\ e.status = n.status /\ e.queue = n.queue
    BY <1>2, <1>5 DEF SchedStates
  <1> HIDE DEF e
  <1>7. SelfQueued(k, q, tDEAD, e)
    BY <1>1, <1>2, <1>4, <1>6 DEF SelfQueued
  <1>8. /\ Consistent(e) /\ Bystanders(k, e, S)
        /\ e.waiting_on[c] = q /\ e.flags[c] = tDEAD
        /\ e.queue[q] = Append(k.queue[q], c)
        /\ \A p \in Queues \ {q} : e.queue[p] = k.queue[p]
    <2>1. SelfOff(k, q, tDEAD, e)
      BY <1>1, <1>7, SelfQueuedSafe
    <2> QED BY <2>1 DEF SelfOff
  <1>9. Waiters(e, c) = T
    <2>1. \A t \in Tasks \ {c} : e.waiting_on[t] = k.waiting_on[t]
      BY <1>1, <1>2, <1>6, Fields DEF AllTasks
    <2> QED BY <2>1, <1>1, <1>8 DEF Waiters
  <1> HIDE DEF r
  <1>10. AllWoken(e, c, st, r) /\ WaitersFlagged(e, c, r)
    <2>1. AllWoken(e, c, st, wake_all(e, c, st))
      BY <1>1, <1>8, WakeAllMove
    <2>2. WaitersFlagged(e, c, wake_all(e, c, st))
      BY <1>1, <1>8, WakeAllFlags
    <2> QED BY <2>1, <2>2 DEF r
  <1> HIDE DEF T, S
  <1>11. /\ Consistent(r) /\ r.current = e.current
         /\ Bystanders(e, r, T)
         /\ \A t \in T : r.flags[t] = tWAITING /\ r.waiting_on[t] = RunQueue
         /\ r.queue[c] = <<>>
         /\ \A p \in SleepQueues \ {c} : r.queue[p] = e.queue[p]
    BY <1>9, <1>10 DEF AllWoken, WaitersFlagged, Bystanders
  <1>12. Bystanders(k, r, S \cup T)
    BY <1>8, <1>11, BystandersTwice
  <1>13. c \notin T
    BY <1>1 DEF T, Waiters
  <1>14. r.flags[c] = tDEAD /\ r.waiting_on[c] = q
    BY <1>1, <1>8, <1>11, <1>13 DEF Bystanders, Undisturbed, FlagsKept
  <1>15. /\ r.queue[q] = Append(k.queue[q], c) /\ r.queue[c] = <<>>
         /\ \A p \in SleepQueues \ {q, c} : r.queue[p] = k.queue[p]
    BY <1>1, <1>8, <1>11 DEF SleepQueues
  <1> QED BY <1>2, <1>6, <1>11, <1>12, <1>14, <1>15 DEF Ended, r, e, n, S, T

(* Scheduler states with the same fields are the same.                     *)
LEMMA SameFields ==
    ASSUME NEW r \in SchedStates, NEW s \in SchedStates,
           r.current = s.current, r.flags = s.flags, r.waiting_on = s.waiting_on,
           r.status = s.status, r.wait_time = s.wait_time, r.queue = s.queue
    PROVE  r = s
  BY DEF SchedStates

(* wake_all(), field by field.                                             *)
WokenFields(k, q, st, r) ==
    LET woken == Elements(k.queue[q])
        n == Len(k.queue[q])
    IN  /\ r \in SchedStates /\ r.current = k.current
        /\ r.flags = [t \in AllTasks |-> IF t \in woken THEN tWAITING ELSE k.flags[t]]
        /\ r.waiting_on = [t \in AllTasks |-> IF t \in woken THEN RunQueue ELSE k.waiting_on[t]]
        /\ r.status = [t \in AllTasks |-> IF t \in woken THEN st ELSE k.status[t]]
        /\ r.wait_time = [t \in AllTasks |-> IF t \in woken THEN 0 ELSE k.wait_time[t]]
        /\ r.queue = [k.queue EXCEPT
                          ![RunQueue] = k.queue[RunQueue] \o SubSeq(k.queue[q], 1, n),
                          ![q] = SubSeq(k.queue[q], n + 1, n)]

(* wake_all(): resource.c:108, syscall.c:44.                               *)
LEMMA WakeAllFields ==
    ASSUME NEW k \in SchedStates, NEW q \in Queues \ {RunQueue}, NEW st \in Status
    PROVE  WokenFields(k, q, st, wake_all(k, q, st))
  <1> DEFINE n == Len(k.queue[q])
             m == move_heads(k, q, n)
             moved == {k.queue[q][i] : i \in 1 .. n}
             woken == Elements(k.queue[q])
             s == [t \in AllTasks |-> IF t \in woken THEN st ELSE m.status[t]]
             r == wake_all(k, q, st)
  <1>1. n \in 0 .. Len(k.queue[q])
    BY Fields
  <1>2. moved = woken
    BY DEF Elements
  <1>3. /\ m \in SchedStates
        /\ m.current = k.current
        /\ m.flags = [t \in AllTasks |-> IF t \in moved THEN tWAITING ELSE k.flags[t]]
        /\ m.status = k.status
        /\ HeadsMoved(k, m, q, n, moved)
    BY <1>1, HeadsDetached
  <1>4. m.wait_time = [t \in AllTasks |-> IF t \in moved THEN 0 ELSE k.wait_time[t]]
    BY DEF move_heads, SchedStates
  <1>5. r = [m EXCEPT !.status = s]
    BY DEF wake_all
  <1> HIDE DEF r, m, n, moved
  <1>6. s \in [AllTasks -> Status]
    BY <1>3, Fields
  <1>7. s = [t \in AllTasks |-> IF t \in woken THEN st ELSE k.status[t]]
    BY <1>3
  <1> HIDE DEF s, woken
  <1>8. /\ r \in SchedStates /\ r.current = m.current /\ r.flags = m.flags
        /\ r.waiting_on = m.waiting_on /\ r.status = s /\ r.wait_time = m.wait_time
        /\ r.queue = m.queue
    BY <1>3, <1>5, <1>6 DEF SchedStates
  <1>9. /\ r.flags = [t \in AllTasks |-> IF t \in woken THEN tWAITING ELSE k.flags[t]]
        /\ r.wait_time = [t \in AllTasks |-> IF t \in woken THEN 0 ELSE k.wait_time[t]]
    BY <1>2, <1>3, <1>4, <1>8
  <1>10. /\ r.waiting_on = [t \in AllTasks |-> IF t \in woken THEN RunQueue ELSE k.waiting_on[t]]
         /\ r.queue = [k.queue EXCEPT
                           ![RunQueue] = k.queue[RunQueue] \o SubSeq(k.queue[q], 1, n),
                           ![q] = SubSeq(k.queue[q], n + 1, n)]
    BY <1>2, <1>3, <1>8 DEF HeadsMoved, n
  <1> QED BY <1>3, <1>7, <1>8, <1>9, <1>10 DEF WokenFields, r, n, woken

(* Waking the tasks of a queue does not touch the flags of another task.   *)
LEMMA FlagCommutesWithWaking ==
    ASSUME NEW k \in SchedStates, NEW t \in AllTasks, NEW q \in Queues \ {RunQueue},
           NEW st \in Status, NEW f \in Flags, t \notin Elements(k.queue[q])
    PROVE  [wake_all(k, q, st) EXCEPT !.flags[t] = f]
               = wake_all([k EXCEPT !.flags[t] = f], q, st)
  <1> DEFINE e == [k EXCEPT !.flags[t] = f]
             woken == Elements(k.queue[q])
             w == wake_all(k, q, st)
             r == [w EXCEPT !.flags[t] = f]
             s == wake_all(e, q, st)
  <1>1. k.flags \in [AllTasks -> Flags]
    BY Fields
  <1>2. /\ e \in SchedStates /\ e.current = k.current
        /\ e.flags = [k.flags EXCEPT ![t] = f] /\ e.queue = k.queue
        /\ e.wait_time = k.wait_time /\ e.waiting_on = k.waiting_on /\ e.status = k.status
    BY <1>1 DEF SchedStates
  <1> HIDE DEF e
  <1>3. WokenFields(k, q, st, w) /\ WokenFields(e, q, st, s)
    BY <1>2, WakeAllFields
  <1> HIDE DEF w, s
  <1>4. w \in SchedStates /\ w.flags \in [AllTasks -> Flags]
    BY <1>3, Fields DEF WokenFields
  <1>5. /\ r \in SchedStates /\ r.current = w.current
        /\ r.flags = [w.flags EXCEPT ![t] = f] /\ r.queue = w.queue
        /\ r.wait_time = w.wait_time /\ r.waiting_on = w.waiting_on /\ r.status = w.status
    BY <1>4 DEF SchedStates
  <1> HIDE DEF r
  <1>6. s \in SchedStates /\ s.current = w.current
    BY <1>2, <1>3 DEF WokenFields
  <1>7. s.flags = r.flags
    <2>1. w.flags = [x \in AllTasks |-> IF x \in woken THEN tWAITING ELSE k.flags[x]]
      BY <1>3 DEF WokenFields
    <2>2. s.flags = [x \in AllTasks |-> IF x \in woken THEN tWAITING ELSE e.flags[x]]
      BY <1>2, <1>3 DEF WokenFields
    <2> HIDE DEF woken
    <2>3. t \notin woken
      BY DEF woken
    <2>4. \A x \in AllTasks : s.flags[x] = r.flags[x]
      BY <2>1, <2>2, <2>3, <1>1, <1>2, <1>4, <1>5
    <2>5. s.flags \in [AllTasks -> Flags] /\ r.flags \in [AllTasks -> Flags]
      BY <1>5, <1>6, Fields
    <2> QED BY <2>4, <2>5
  <1>8. /\ s.waiting_on = w.waiting_on /\ s.status = w.status
        /\ s.wait_time = w.wait_time /\ s.queue = w.queue
    BY <1>2, <1>3 DEF WokenFields
  <1>9. r = s
    BY <1>5, <1>6, <1>7, <1>8, SameFields
  <1> QED BY <1>9 DEF r, s, w, e

(* Between k and r the task t, which waited at the head of q, was freed,   *)
(* and the tasks that waited for it are awake.                             *)
Reaped(k, q, t, r) ==
    /\ Consistent(r) /\ NoTaskLost(r) /\ r.current = k.current
    /\ k.waiting_on[t] = q /\ r.waiting_on[t] = NoQueue /\ r.flags[t] = tFREE
    /\ Bystanders(k, r, {t} \cup Waiters(k, t))
    /\ \A u \in Waiters(k, t) : r.flags[u] = tWAITING /\ r.waiting_on[u] = RunQueue
    /\ r.queue[q] = Tail(k.queue[q]) /\ r.queue[t] = <<>>
    /\ \A p \in SleepQueues \ {q, t} : r.queue[p] = k.queue[p]

(* The reaper takes the head of its queue and destroys it: kernel.c:85,    *)
(* task.c:127.                                                             *)
LEMMA ReapMove ==
    ASSUME NEW k, Consistent(k), NoTaskLost(k), NEW q \in SleepQueues,
           k.queue[q] # <<>>, NEW t, t = Head(k.queue[q]),
           t \in SleepQueues \ {q}, NEW st \in Status
    PROVE  Reaped(k, q, t, [wake_all(rsrc_dequeue(k, q), t, st) EXCEPT !.flags[t] = tFREE])
  <1> DEFINE d == rsrc_dequeue(k, q)
             e == [d EXCEPT !.flags[t] = tFREE]
             r == wake_all(e, t, st)
             S == {t}
             T == Waiters(k, t)
  <1>1. /\ k \in SchedStates /\ QueuesAgree(k) /\ FlagsAgree(k) /\ q \in Queues
        /\ t \in SleepQueues /\ t \in Queues \ {RunQueue} /\ t # q /\ t # NoQueue
        /\ k.flags \in [AllTasks -> Flags] /\ tFREE \in Flags
        /\ k.queue \in [Queues -> Seq(Tasks)]
        /\ k.waiting_on \in [AllTasks -> Queues \cup {NoQueue}]
    BY Fields, SchedAssumption DEF Consistent, SleepQueues, Flags
  <1>2. /\ t \in Tasks
        /\ d \in SchedStates
        /\ d.current = k.current
        /\ d.flags = [k.flags EXCEPT ![t] = tREADY]
        /\ d.waiting_on = [k.waiting_on EXCEPT ![t] = NoQueue]
        /\ d.status = k.status
        /\ d.queue = [k.queue EXCEPT ![q] = Tail(k.queue[q])]
    <2>1. k \in SchedStates /\ q \in Queues
      BY <1>1
    <2> QED BY <2>1, DequeueFields
  <1>3. t \in AllTasks /\ k.waiting_on[t] = q
    <2>1. t \in Elements(k.queue[q])
      BY <1>1 DEF Elements
    <2> QED BY <2>1, <1>1, <1>2, OnQueue DEF AllTasks
  <1> HIDE DEF d
  <1>4. d.flags \in [AllTasks -> Flags]
    BY <1>2, Fields
  <1>5. /\ e \in SchedStates /\ e.current = d.current
        /\ e.flags = [d.flags EXCEPT ![t] = tFREE]
        /\ e.waiting_on = d.waiting_on /\ e.status = d.status /\ e.queue = d.queue
    BY <1>1, <1>2, <1>4 DEF SchedStates
  <1> HIDE DEF e
  <1>6. /\ e.flags[t] = tFREE /\ e.waiting_on[t] = NoQueue
        /\ \A u \in Tasks \ {t} : e.flags[u] = k.flags[u] /\ e.waiting_on[u] = k.waiting_on[u]
    BY <1>1, <1>2, <1>3, <1>5 DEF AllTasks
  <1>7. QueuesAgree(e)
    BY <1>1, <1>2, <1>5, DetachHeadAgree
  <1>8. FlagsAgree(e)
    <2>1. e.current = k.current /\ FlagsAgree(k)
      BY <1>1, <1>2, <1>5
    <2> QED BY <2>1, <1>6 DEF FlagsAgree, tFREE, tWAITING, tRUNNING, tREADY
  <1>9. Consistent(e) /\ NoTaskLost(e)
    <2>1. k.current # t /\ k.current \in AllTasks
      BY <1>1, <1>3, Fields, SchedAssumption DEF NoTaskLost
    <2>2. /\ e.flags[k.current] = k.flags[k.current]
          /\ e.waiting_on[k.current] = k.waiting_on[k.current]
      BY <2>1, <1>1, <1>2, <1>3, <1>5
    <2> QED BY <2>2, <1>2, <1>5, <1>7, <1>8 DEF Consistent, NoTaskLost
  <1>10. Waiters(e, t) = T
    BY <1>1, <1>3, <1>6 DEF Waiters
  <1> HIDE DEF r
  <1>11. AllWoken(e, t, st, r) /\ WaitersFlagged(e, t, r)
    <2>1. AllWoken(e, t, st, wake_all(e, t, st))
      BY <1>1, <1>9, WakeAllMove
    <2>2. WaitersFlagged(e, t, wake_all(e, t, st))
      BY <1>1, <1>9, WakeAllFlags
    <2> QED BY <2>1, <2>2 DEF r
  <1>12. Bystanders(k, e, S)
    <2>1. \A u \in Tasks \ S : /\ e.status[u] = k.status[u] /\ e.flags[u] = k.flags[u]
                               /\ e.waiting_on[u] = k.waiting_on[u]
      BY <1>2, <1>5, <1>6
    <2> HIDE DEF S
    <2> QED BY <2>1, FlagsSame, UndisturbedSame DEF Bystanders
  <1> HIDE DEF S, T
  <1>13. /\ Consistent(r) /\ NoTaskLost(r) /\ r.current = e.current
         /\ Bystanders(e, r, T)
         /\ \A u \in T : r.flags[u] = tWAITING /\ r.waiting_on[u] = RunQueue
         /\ r.queue[t] = <<>>
         /\ \A p \in SleepQueues \ {t} : r.queue[p] = e.queue[p]
    BY <1>9, <1>10, <1>11 DEF AllWoken, WaitersFlagged, Bystanders
  <1>14. Bystanders(k, r, S \cup T)
    BY <1>12, <1>13, BystandersTwice
  <1>15. t \notin T
    BY <1>1, <1>3 DEF T, Waiters
  <1>16. r.flags[t] = tFREE
    BY <1>2, <1>6, <1>13, <1>15 DEF Bystanders, FlagsKept
  <1>17. r.waiting_on[t] = NoQueue
    BY <1>2, <1>13, <1>16, Fields DEF Consistent, FlagsAgree, tFREE, tWAITING, tDEAD
  <1>18. /\ r.queue[q] = Tail(k.queue[q]) /\ r.queue[t] = <<>>
         /\ \A p \in SleepQueues \ {q, t} : r.queue[p] = k.queue[p]
    BY <1>1, <1>2, <1>5, <1>13 DEF SleepQueues
  <1>19. t \notin Elements(d.queue[t])
    <2>1. d.queue[t] = k.queue[t]
      BY <1>1, <1>2
    <2>2. t \in Queues
      BY <1>1
    <2> QED BY <2>1, <2>2, <1>1, <1>2, <1>3, OnQueue
  <1>20. [wake_all(d, t, st) EXCEPT !.flags[t] = tFREE] = r
    <2>1. d \in SchedStates /\ t \in AllTasks /\ t \in Queues \ {RunQueue} /\ tFREE \in Flags
      BY <1>1, <1>2, <1>3
    <2>2. [wake_all(d, t, st) EXCEPT !.flags[t] = tFREE]
              = wake_all([d EXCEPT !.flags[t] = tFREE], t, st)
      BY SMTT(60), <2>1, <1>19, FlagCommutesWithWaking
    <2> QED BY <2>2 DEF r, e
  <1>21. r.current = k.current
    BY <1>2, <1>5, <1>13
  <1>22. Reaped(k, q, t, r)
    BY <1>3, <1>13, <1>14, <1>16, <1>17, <1>18, <1>21 DEF Reaped, S, T
  <1> QED BY <1>20, <1>22 DEF d
=============================================================================
