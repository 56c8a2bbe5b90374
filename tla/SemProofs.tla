----------------------------- MODULE SemProofs -----------------------------
(***************************************************************************)
(* The safety of the kernel's semaphores, for any number of tasks and      *)
(* semaphores: the invariants that the runs of Sem check on a few.         *)
(***************************************************************************)
EXTENDS Sem, SchedProofs

(* A semaphore that does not exist has no count, hence no waiters.         *)
NoCountWithoutSem == \A s \in Sems : ~sem[s].live => sem[s].count = 0

(* The invariant that is inductive: the count of a semaphore can only be   *)
(* trusted together with the queues, the queues together with waiting_on   *)
(* and flags, and the return from sem_acquire() together with the call the *)
(* task is in.                                                             *)
SemInv ==
    /\ SemTypeOK
    /\ TasksAccounted
    /\ CountMatchesWaiters
    /\ WaitersAreInAcquire
    /\ NoCountWithoutSem

(* What SemInv says of the scheduler alone.                                *)
LEMMA SemInvSched ==
    ASSUME SemInv
    PROVE  /\ Consistent(sched) /\ NoTaskLost(sched)
           /\ sched \in SchedStates
           /\ \A s \in Sems : s \in Queues \ {RunQueue} /\ s # TimerQueue /\ s # NoQueue
  BY SemAssumption, SchedAssumption
     DEF SemInv, SemTypeOK, TasksAccounted, NoTaskLost, Consistent

(* The boot state: no semaphore exists.                                    *)
LEMMA SemInvInit == SemInit => SemInv
  <1> SUFFICES ASSUME SemInit PROVE SemInv
    OBVIOUS
  <1>1. SemTypeOK
    BY InitSafe DEF SemInit, SemTypeOK, Consistent
  <1>2. TasksAccounted
    BY InitSafe DEF SemInit, TasksAccounted, Consistent
  <1>3. CountMatchesWaiters /\ NoCountWithoutSem
    BY InitSafe, SemAssumption DEF SemInit, CountMatchesWaiters, NoCountWithoutSem
  <1>4. WaitersAreInAcquire
    BY InitSafe, SemAssumption, SchedAssumption DEF SemInit, WaitersAreInAcquire
  <1> QED BY <1>1, <1>2, <1>3, <1>4 DEF SemInv

(* Every system call, every return from one and every timer interrupt      *)
(* keeps the invariant.                                                    *)
LEMMA SemInvStep == SemInv /\ [SemNext]_semVars => SemInv'
  <1> SUFFICES ASSUME SemInv, [SemNext]_semVars PROVE SemInv'
    OBVIOUS
  <1>0. /\ Consistent(sched) /\ NoTaskLost(sched) /\ sched \in SchedStates
        /\ \A s \in Sems : s \in Queues \ {RunQueue} /\ s # TimerQueue /\ s # NoQueue
    BY SemInvSched
  <1>1. /\ sem \in [Sems -> [live : BOOLEAN, count : Int]]
        /\ frame \in [Tasks -> Sems \cup {UserMode}]
    BY DEF SemInv, SemTypeOK
  <1>2. \A s \in Sems : Len(sched.queue[s]) = IF sem[s].count < 0 THEN -sem[s].count ELSE 0
    BY DEF SemInv, CountMatchesWaiters
  <1>3. \A t \in Tasks : sched.waiting_on[t] \in Sems => frame[t] = sched.waiting_on[t]
    BY DEF SemInv, WaitersAreInAcquire
  <1>4. \A s \in Sems : ~sem[s].live => sem[s].count = 0
    BY DEF SemInv, NoCountWithoutSem
  \* What is left to show once the scheduler's step is known to be safe.
  <1>5. ASSUME Consistent(sched'), NoTaskLost(sched'),
               sem' \in [Sems -> [live : BOOLEAN, count : Int]],
               frame' \in [Tasks -> Sems \cup {UserMode}],
               CountMatchesWaiters', WaitersAreInAcquire', NoCountWithoutSem'
        PROVE  SemInv'
    BY <1>5 DEF SemInv, SemTypeOK, TasksAccounted, Consistent
  <1>6. ASSUME NEW s \in Sems, NEW n \in Counts, sem_create(s, n)
        PROVE  SemInv'
    <2>1. /\ ~sem[s].live /\ sched' = sched /\ frame' = frame
          /\ sem' = [sem EXCEPT ![s] = [live |-> TRUE, count |-> n]]
      BY <1>6 DEF sem_create
    <2>2. n \in Int /\ n >= 0
      BY SemAssumption
    <2>3. sem' \in [Sems -> [live : BOOLEAN, count : Int]]
      BY <2>1, <2>2, <1>1
    <2>4. Len(sched.queue[s]) = 0
      BY <2>1, <1>2, <1>4
    <2>5. CountMatchesWaiters'
      BY <2>1, <2>2, <2>4, <1>1, <1>2 DEF CountMatchesWaiters
    <2>6. WaitersAreInAcquire' /\ NoCountWithoutSem'
      BY <2>1, <1>1, <1>3, <1>4 DEF WaitersAreInAcquire, NoCountWithoutSem
    <2> QED BY <2>1, <2>3, <2>5, <2>6, <1>0, <1>1, <1>5
  <1>7. ASSUME NEW s \in Sems, sem_destroy(s)
        PROVE  SemInv'
    <2>1. /\ sched' = wake_all(sched, s, ERR_RESOURCE) /\ frame' = frame
          /\ sem' = [sem EXCEPT ![s] = [live |-> FALSE, count |-> 0]]
      BY <1>7 DEF sem_destroy
    <2>2. /\ Consistent(sched') /\ NoTaskLost(sched')
          /\ \A p \in Queues \ {RunQueue, s} : sched'.queue[p] = sched.queue[p]
          /\ sched'.queue[s] = <<>>
          /\ \A t \in Tasks : sched'.waiting_on[t] # sched.waiting_on[t] =>
                                  sched'.waiting_on[t] = RunQueue
      BY ZenonT(60), <2>1, <1>0, WakeAllSafe DEF Status
    <2>3. sem' \in [Sems -> [live : BOOLEAN, count : Int]]
      BY <2>1, <1>1
    <2>4. CountMatchesWaiters'
      BY <2>1, <2>2, <1>0, <1>1, <1>2 DEF CountMatchesWaiters
    <2>5. WaitersAreInAcquire' /\ NoCountWithoutSem'
      BY <2>1, <2>2, <1>0, <1>1, <1>3, <1>4 DEF WaitersAreInAcquire, NoCountWithoutSem
    <2> QED BY <2>1, <2>2, <2>3, <2>4, <2>5, <1>1, <1>5
  <1>8. ASSUME NEW s \in Sems, sem_acquire(s)
        PROVE  SemInv'
    <2>1. /\ sched.current \in Tasks /\ frame[sched.current] = UserMode /\ sem[s].live
          /\ sem' = [sem EXCEPT ![s].count = @ - 1]
      BY <1>8 DEF sem_acquire, CanCall
    <2>2. sem' \in [Sems -> [live : BOOLEAN, count : Int]]
      BY <2>1, <1>1
    <2>3. /\ sem'[s].count = sem[s].count - 1 /\ sem'[s].live = sem[s].live
          /\ \A u \in Sems \ {s} : sem'[u] = sem[u]
          /\ sem[s].count \in Int
      BY <2>1, <1>1
    <2>4. NoCountWithoutSem'
      BY <2>1, <2>3, <1>4 DEF NoCountWithoutSem
    <2>5. CASE sem[s].count > 0
      <3>1. sched' = sched /\ frame' = frame
        BY <2>5, <1>8 DEF sem_acquire
      <3>2. CountMatchesWaiters'
        BY <3>1, <2>3, <2>5, <1>2 DEF CountMatchesWaiters
      <3>3. WaitersAreInAcquire'
        BY <3>1, <1>3 DEF WaitersAreInAcquire
      <3> QED BY <3>1, <3>2, <3>3, <2>2, <2>4, <1>0, <1>1, <1>5
    <2>6. CASE ~(sem[s].count > 0)
      <3>1. /\ sched' = wait_on(sched, s)
            /\ frame' = [frame EXCEPT ![sched.current] = s]
        BY <2>6, <1>8 DEF sem_acquire
      <3>2. s \in Queues \ {RunQueue}
        BY <1>0
      <3>3. /\ Consistent(sched') /\ NoTaskLost(sched')
            /\ sched'.queue[s] = Append(sched.queue[s], sched.current)
            /\ \A p \in Queues \ {RunQueue, s} : sched'.queue[p] = sched.queue[p]
            /\ \A t \in Tasks :
                  sched'.waiting_on[t] # sched.waiting_on[t] =>
                      \/ sched'.waiting_on[t] \in {RunQueue, NoQueue}
                      \/ t = sched.current /\ sched'.waiting_on[t] = s
        <4>1. /\ Consistent(sched) /\ NoTaskLost(sched) /\ sched.current \in Tasks
              /\ s \in Queues \ {RunQueue}
          BY <3>2, <2>1, <1>0
        <4>2. Slept(sched, s, sched')
          BY <4>1, <3>1, WaitOnSafe
        <4> QED BY <4>2 DEF Slept
      <3>4. Len(sched'.queue[s]) = Len(sched.queue[s]) + 1
        <4>1. sched.queue[s] \in Seq(Tasks)
          BY <1>0, Fields
        <4> QED BY <4>1, <3>3
      <3>5. Len(sched'.queue[s]) = -(sem[s].count - 1) /\ sem[s].count - 1 < 0
        BY <3>4, <2>3, <2>6, <1>2
      <3>6. CountMatchesWaiters'
        BY <3>3, <3>5, <2>3, <1>0, <1>2 DEF CountMatchesWaiters
      <3>7. frame' \in [Tasks -> Sems \cup {UserMode}]
        BY <3>1, <1>1
      <3>8. sched.waiting_on[sched.current] = NoQueue
        BY <1>0 DEF NoTaskLost
      <3>9. WaitersAreInAcquire'
        BY <3>1, <3>3, <3>8, <2>1, <1>0, <1>1, <1>3 DEF WaitersAreInAcquire
      <3> QED BY <3>3, <3>6, <3>7, <3>9, <2>2, <2>4, <1>5
    <2> QED BY <2>5, <2>6
  <1>9. ASSUME NEW s \in Sems, sem_release(s)
        PROVE  SemInv'
    <2>1. /\ sched.current \in Tasks /\ sem[s].live
          /\ sem' = [sem EXCEPT ![s].count = @ + 1]
          /\ sched' = IF sched.queue[s] = <<>> THEN sched
                                               ELSE hand_over(sched, s, ERR_NONE)
          /\ frame' = frame
      BY <1>9 DEF sem_release, CanCall, hand_over
    <2>2. sem' \in [Sems -> [live : BOOLEAN, count : Int]]
      BY <2>1, <1>1
    <2>3. /\ sem'[s].count = sem[s].count + 1 /\ sem'[s].live = sem[s].live
          /\ \A u \in Sems \ {s} : sem'[u] = sem[u]
          /\ sem[s].count \in Int
      BY <2>1, <1>1
    <2>4. NoCountWithoutSem'
      BY <2>1, <2>3, <1>4 DEF NoCountWithoutSem
    <2>5. sched.queue[s] \in Seq(Tasks)
      BY <1>0, Fields
    <2>6. CASE sched.queue[s] = <<>>
      <3>1. sched' = sched /\ Len(sched.queue[s]) = 0
        BY <2>1, <2>6
      <3>2. sem[s].count >= 0
        BY <3>1, <2>3, <1>2
      <3>3. CountMatchesWaiters'
        BY <3>1, <3>2, <2>3, <1>2 DEF CountMatchesWaiters
      <3>4. WaitersAreInAcquire'
        BY <3>1, <2>1, <1>3 DEF WaitersAreInAcquire
      <3> QED BY <3>1, <3>3, <3>4, <2>1, <2>2, <2>4, <1>0, <1>1, <1>5
    <2>7. CASE sched.queue[s] # <<>>
      <3>1. sched' = hand_over(sched, s, ERR_NONE) /\ s \in Queues \ {RunQueue} /\ ERR_NONE \in Status
        BY <2>1, <2>7, <1>0 DEF Status
      <3>2. /\ Consistent(sched') /\ NoTaskLost(sched')
            /\ sched'.queue[s] = Tail(sched.queue[s])
            /\ \A p \in Queues \ {RunQueue, s} : sched'.queue[p] = sched.queue[p]
            /\ \A t \in Tasks : sched'.waiting_on[t] # sched.waiting_on[t] =>
                                    sched'.waiting_on[t] \in {RunQueue, NoQueue}
        <4>1. /\ Consistent(sched) /\ NoTaskLost(sched) /\ sched.current \in Tasks
              /\ s \in Queues \ {RunQueue} /\ ERR_NONE \in Status
          BY <3>1, <2>1, <1>0
        <4>2. HandedOver(sched, s, ERR_NONE, sched')
          BY <4>1, <3>1, <2>7, HandOverSafe
        <4> QED BY <4>2 DEF HandedOver
      <3>3. Len(sched'.queue[s]) = Len(sched.queue[s]) - 1 /\ Len(sched.queue[s]) > 0
        BY <3>2, <2>5, <2>7
      <3>4. /\ sem[s].count < 0
            /\ Len(sched'.queue[s]) = -(sem[s].count + 1)
        BY SMTT(60), <3>3, <2>3, <1>2
      <3>5. CountMatchesWaiters'
        <4>1. Len(sched'.queue[s]) = IF sem'[s].count < 0 THEN -sem'[s].count ELSE 0
          BY <3>4, <2>3
        <4>2. \A u \in Sems \ {s} : sched'.queue[u] = sched.queue[u] /\ sem'[u] = sem[u]
          BY <3>2, <2>3, <1>0
        <4> QED BY <4>1, <4>2, <1>2 DEF CountMatchesWaiters
      <3>6. WaitersAreInAcquire'
        BY <3>2, <2>1, <1>0, <1>3 DEF WaitersAreInAcquire
      <3> QED BY <3>2, <3>5, <3>6, <2>1, <2>2, <2>4, <1>1, <1>5
    <2> QED BY <2>6, <2>7
  <1>10. CASE sem_acquire_return
    <2>1. /\ sched.current \in Tasks /\ sched' = sched /\ sem' = sem
          /\ frame' = [frame EXCEPT ![sched.current] = UserMode]
      BY <1>10 DEF sem_acquire_return
    <2>2. frame' \in [Tasks -> Sems \cup {UserMode}]
      BY <2>1, <1>1
    <2>3. sched.waiting_on[sched.current] = NoQueue
      BY <1>0 DEF NoTaskLost
    <2>4. WaitersAreInAcquire'
      BY <2>1, <2>3, <1>0, <1>1, <1>3 DEF WaitersAreInAcquire
    <2>5. CountMatchesWaiters' /\ NoCountWithoutSem'
      BY <2>1, <1>2, <1>4 DEF CountMatchesWaiters, NoCountWithoutSem
    <2> QED BY <2>1, <2>2, <2>4, <2>5, <1>0, <1>1, <1>5
  <1>11. CASE timer
    <2>1. sched' = timer_irq(sched) /\ sem' = sem /\ frame' = frame
      BY <1>11 DEF timer
    <2>2. /\ Consistent(sched') /\ NoTaskLost(sched')
          /\ \A p \in Queues \ {RunQueue, TimerQueue} : sched'.queue[p] = sched.queue[p]
          /\ \A t \in Tasks : sched'.waiting_on[t] # sched.waiting_on[t] =>
                                  sched'.waiting_on[t] \in {RunQueue, NoQueue}
      BY <2>1, <1>0, TimerSafe
    <2>3. CountMatchesWaiters' /\ NoCountWithoutSem'
      BY <2>1, <2>2, <1>0, <1>2, <1>4 DEF CountMatchesWaiters, NoCountWithoutSem
    <2>4. WaitersAreInAcquire'
      BY <2>1, <2>2, <1>0, <1>3 DEF WaitersAreInAcquire
    <2> QED BY <2>1, <2>2, <2>3, <2>4, <1>1, <1>5
  <1>12. CASE UNCHANGED semVars
    BY <1>12 DEF semVars, SemInv, SemTypeOK, TasksAccounted, CountMatchesWaiters,
                 WaitersAreInAcquire, NoCountWithoutSem
  <1> QED BY <1>6, <1>7, <1>8, <1>9, <1>10, <1>11, <1>12 DEF SemNext

-----------------------------------------------------------------------------
(* The invariant holds in every reachable state.                           *)
THEOREM SemInvariant == SemSpec => []SemInv
  BY SemInvInit, SemInvStep, PTL DEF SemSpec

(* Type correctness of the semaphores and the scheduler below them.        *)
THEOREM SemTypeCorrect == SemSpec => []SemTypeOK
  <1>1. SemInv => SemTypeOK
    BY DEF SemInv
  <1> QED BY <1>1, SemInvariant, PTL

(* No task is lost by any sequence of semaphore calls and timer            *)
(* interrupts: the checks at kernel.c:179 and 185 never fire.              *)
THEOREM SemTasksAccounted == SemSpec => []TasksAccounted
  <1>1. SemInv => TasksAccounted
    BY DEF SemInv
  <1> QED BY <1>1, SemInvariant, PTL

(* The count of a semaphore below zero is always the number of its waiters,*)
(* so that sem_release() finds a waiter exactly when it needs one          *)
(* (sem.c:54-60).                                                          *)
THEOREM SemCountMatches == SemSpec => []CountMatchesWaiters
  <1>1. SemInv => CountMatchesWaiters
    BY DEF SemInv
  <1> QED BY <1>1, SemInvariant, PTL

(* A task on a semaphore's queue is inside sem_acquire() on that semaphore.*)
THEOREM SemWaitersInAcquire == SemSpec => []WaitersAreInAcquire
  <1>1. SemInv => WaitersAreInAcquire
    BY DEF SemInv
  <1> QED BY <1>1, SemInvariant, PTL
-----------------------------------------------------------------------------
(* The kernel's semaphores keep the promise of Semaphore: what the promise *)
(* calls its state, here.                                                  *)
Live == {s \in Sems : sem[s].live}
Available == [s \in Sems |-> IF sem[s].count > 0 THEN sem[s].count ELSE 0]
Line == [s \in Sems |-> sched.queue[s]]
Returning(t, st) == frame[t] # UserMode /\ ~Waiting(t) /\ sched.status[t] = st
Granted == {t \in Tasks : Returning(t, ERR_NONE)}
Refused == {t \in Tasks : Returning(t, ERR_RESOURCE)}

(* What the scheduler leaves alone, the promise leaves alone.              *)
LEMMA ReturningKept ==
    ASSUME SemInv, NEW T, Undisturbed(sched, sched', T), NEW st
    PROVE  \A t \in Tasks \ T : frame'[t] = frame[t] =>
               (Returning(t, st)' <=> Returning(t, st))
  <1> SUFFICES ASSUME NEW t \in Tasks \ T, frame'[t] = frame[t]
               PROVE  Returning(t, st)' <=> Returning(t, st)
    OBVIOUS
  <1>1. /\ sched'.status[t] = sched.status[t]
        /\ \/ sched.waiting_on[t] \in SleepQueues
           \/ sched'.waiting_on[t] \in SleepQueues
           => sched'.waiting_on[t] = sched.waiting_on[t]
    BY DEF Undisturbed
  <1>2. Sems \subseteq SleepQueues
    BY SemAssumption DEF SleepQueues
  <1> QED BY <1>1, <1>2 DEF Returning, Waiting

(* A step of sem_create() is a Create.                                     *)
LEMMA CreateMaps ==
    ASSUME SemInv, NEW s \in Sems, NEW n \in Counts, sem_create(s, n)
    PROVE  /\ s \notin Live /\ Live' = Live \cup {s}
           /\ Available' = [Available EXCEPT ![s] = n]
           /\ UNCHANGED <<Line, Granted, Refused>>
  <1>1. /\ ~sem[s].live /\ sched' = sched /\ frame' = frame
        /\ sem' = [sem EXCEPT ![s] = [live |-> TRUE, count |-> n]]
    BY DEF sem_create
  <1>2. sem \in [Sems -> [live : BOOLEAN, count : Int]] /\ n \in Nat
    BY SemAssumption DEF SemInv, SemTypeOK
  <1>3. s \notin Live /\ Live' = Live \cup {s}
    BY <1>1, <1>2 DEF Live
  <1>4. Available' = [Available EXCEPT ![s] = n]
    <2>1. (IF n > 0 THEN n ELSE 0) = n
      BY <1>2
    <2>2. \A u \in Sems : sem'[u].count = IF u = s THEN n ELSE sem[u].count
      BY <1>1, <1>2
    <2> QED BY <2>1, <2>2 DEF Available
  <1>5. UNCHANGED <<Line, Granted, Refused>>
    BY <1>1 DEF Line, Granted, Refused, Returning, Waiting
  <1> QED BY <1>3, <1>4, <1>5

(* A step of sem_destroy() is a Destroy: all who are in line are refused.  *)
LEMMA DestroyMaps ==
    ASSUME SemInv, NEW s \in Sems, sem_destroy(s)
    PROVE  /\ s \in Live /\ Live' = Live \ {s}
           /\ Refused' = Refused \cup {Line[s][i] : i \in 1 .. Len(Line[s])}
           /\ Line' = [Line EXCEPT ![s] = <<>>]
           /\ Available' = [Available EXCEPT ![s] = 0]
           /\ UNCHANGED Granted
  <1> DEFINE W == Waiters(sched, s)
  <1>1. /\ sem[s].live /\ sched' = wake_all(sched, s, ERR_RESOURCE) /\ frame' = frame
        /\ sem' = [sem EXCEPT ![s] = [live |-> FALSE, count |-> 0]]
    BY DEF sem_destroy
  <1>2. sem \in [Sems -> [live : BOOLEAN, count : Int]]
    BY DEF SemInv, SemTypeOK
  <1>3. s \in SleepQueues /\ s \in Queues /\ Consistent(sched)
    BY SemInvSched DEF SleepQueues
  <1>4. AllWoken(sched, s, ERR_RESOURCE, sched')
    BY <1>1, <1>3, WakeAllMove DEF Status
  <1>5. Live' = Live \ {s} /\ s \in Live
    BY <1>1, <1>2 DEF Live
  <1>6. Available' = [Available EXCEPT ![s] = 0]
    BY <1>1, <1>2 DEF Available
  <1>7. Line' = [Line EXCEPT ![s] = <<>>]
    <2>1. \A u \in Sems \ {s} : sched'.queue[u] = sched.queue[u]
      BY <1>4, SemInvSched DEF AllWoken, SleepQueues
    <2> QED BY <2>1, <1>4 DEF Line, AllWoken
  <1>8. \A t \in Tasks : t \in W <=> t \in {Line[s][i] : i \in 1 .. Len(Line[s])}
    <2>1. \A t \in Tasks : t \in W <=> t \in Elements(sched.queue[s])
      BY <1>3, OnQueue DEF Waiters
    <2> QED BY <2>1 DEF Line, Elements
  <1>9. {Line[s][i] : i \in 1 .. Len(Line[s])} \subseteq Tasks
    <2>1. sched.queue[s] \in Seq(Tasks)
      BY <1>3, Fields DEF Consistent
    <2> QED BY <2>1 DEF Line
  <1>10. \A t \in W : /\ t \in Tasks /\ Waiting(t) /\ frame[t] # UserMode
                      /\ ~Waiting(t)' /\ sched'.status[t] = ERR_RESOURCE
    <2>1. \A t \in W : t \in Tasks /\ sched.waiting_on[t] = s
      BY DEF Waiters
    <2>2. \A t \in W : sched'.waiting_on[t] = RunQueue /\ sched'.status[t] = ERR_RESOURCE
      BY <1>4 DEF AllWoken
    <2> QED BY <2>1, <2>2, SemAssumption DEF SemInv, WaitersAreInAcquire, Waiting
  <1>11. \A t \in Tasks \ W : /\ Returning(t, ERR_NONE)' <=> Returning(t, ERR_NONE)
                              /\ Returning(t, ERR_RESOURCE)' <=> Returning(t, ERR_RESOURCE)
    BY <1>1, <1>4, ReturningKept DEF AllWoken
  <1> HIDE DEF W
  <1>12. \A t \in W : /\ ~Returning(t, ERR_NONE) /\ ~Returning(t, ERR_NONE)'
                      /\ Returning(t, ERR_RESOURCE)'
    BY <1>1, <1>10 DEF Returning, ERR_NONE, ERR_RESOURCE
  <1>13. Granted' = Granted
    BY <1>11, <1>12 DEF Granted
  <1>14. Refused' = Refused \cup {Line[s][i] : i \in 1 .. Len(Line[s])}
    BY <1>8, <1>9, <1>11, <1>12 DEF Refused
  <1> QED BY <1>5, <1>6, <1>7, <1>13, <1>14
(* A step of sem_acquire() takes a unit, or stands in line for one.        *)
LEMMA AcquireMaps ==
    ASSUME SemInv, NEW s \in Sems, sem_acquire(s)
    PROVE  \/ /\ s \in Live /\ Available[s] > 0
              /\ Available' = [Available EXCEPT ![s] = @ - 1]
              /\ UNCHANGED <<Live, Line, Granted, Refused>>
           \/ /\ s \in Live /\ Available[s] = 0
              /\ sched.current \in Tasks
              /\ ~\E u \in Sems : \E i \in 1 .. Len(Line[u]) : Line[u][i] = sched.current
              /\ sched.current \notin Granted \cup Refused
              /\ Line' = [Line EXCEPT ![s] = Append(@, sched.current)]
              /\ UNCHANGED <<Live, Available, Granted, Refused>>
  <1>0. PICK c \in Tasks : c = sched.current
    BY DEF sem_acquire, CanCall
  <1>1. /\ c \in Tasks /\ c = sched.current /\ frame[c] = UserMode /\ sem[s].live
        /\ sem' = [sem EXCEPT ![s].count = @ - 1]
    BY <1>0 DEF sem_acquire, CanCall
  <1>2. /\ sem \in [Sems -> [live : BOOLEAN, count : Int]]
        /\ frame \in [Tasks -> Sems \cup {UserMode}]
    BY DEF SemInv, SemTypeOK
  <1>3. /\ sem[s].count \in Int /\ sem'[s].count = sem[s].count - 1
        /\ \A u \in Sems \ {s} : sem'[u].count = sem[u].count
        /\ \A u \in Sems : sem'[u].live = sem[u].live
    BY <1>1, <1>2
  <1>4. Live' = Live /\ s \in Live
    BY <1>1, <1>3 DEF Live
  <1>5. CASE sem[s].count > 0
    <2>1. sched' = sched /\ frame' = frame
      BY <1>5 DEF sem_acquire
    <2>2. UNCHANGED <<Line, Granted, Refused>>
      BY <2>1 DEF Line, Granted, Refused, Returning, Waiting
    <2>3. Available[s] = sem[s].count
      BY <1>5 DEF Available
    <2>4. (IF sem[s].count - 1 > 0 THEN sem[s].count - 1 ELSE 0) = sem[s].count - 1
      BY <1>3, <1>5
    <2>5. Available' = [Available EXCEPT ![s] = sem[s].count - 1]
      BY <2>4, <1>3 DEF Available
    <2> QED BY <2>2, <2>3, <2>5, <1>4, <1>5
  <1>6. CASE ~(sem[s].count > 0)
    <2>1. sched' = wait_on(sched, s) /\ frame' = [frame EXCEPT ![c] = s]
      BY <1>1, <1>6 DEF sem_acquire
    <2>2. /\ Consistent(sched) /\ NoTaskLost(sched) /\ s \in SleepQueues
          /\ s \in Queues \ {RunQueue}
      BY SemInvSched DEF SleepQueues
    <2>3. Slept(sched, s, sched')
      BY <2>1, <2>2, <1>1, WaitOnSafe
    <2>4. Undisturbed(sched, sched', {c}) /\ sched'.waiting_on[c] = s
      BY <2>1, <2>2, <1>1, SleepMove
    <2>5. Available' = Available /\ Available[s] = 0
      <3>1. ~(sem[s].count - 1 > 0)
        BY <1>3, <1>6
      <3> QED BY <3>1, <1>3, <1>6 DEF Available
    <2>6. Line' = [Line EXCEPT ![s] = Append(@, c)]
      <3>1. sched'.queue[s] = Append(sched.queue[s], c)
        BY <1>1, <2>3 DEF Slept
      <3>2. \A u \in Sems \ {s} : sched'.queue[u] = sched.queue[u]
        BY <2>3, SemInvSched DEF Slept
      <3> QED BY <3>1, <3>2 DEF Line
    <2>7. ~\E u \in Sems : \E i \in 1 .. Len(Line[u]) : Line[u][i] = c
      <3> SUFFICES ASSUME NEW u \in Sems, NEW i \in 1 .. Len(Line[u]), Line[u][i] = c
                   PROVE  FALSE
        OBVIOUS
      <3>1. sched.waiting_on[c] = u
        BY <2>2, SemInvSched DEF Line, Consistent, QueuesAgree
      <3> QED BY <1>1, <3>1, <2>2, SemInvSched DEF NoTaskLost
    <2>8. \A st : ~Returning(c, st) /\ ~Returning(c, st)'
      <3>1. ~Returning(c, ERR_NONE) /\ \A st : ~Returning(c, st)
        BY <1>1 DEF Returning
      <3>2. (Waiting(c))'
        BY <2>4 DEF Waiting
      <3> QED BY <3>1, <3>2 DEF Returning
    <2>9. \A t \in Tasks \ {c}, st \in Status : Returning(t, st)' <=> Returning(t, st)
      <3>1. \A t \in Tasks \ {c} : frame'[t] = frame[t]
        BY <2>1, <1>2
      <3> QED BY <3>1, <2>4, ReturningKept
    <2>10. Granted' = Granted /\ Refused' = Refused
      BY <2>8, <2>9 DEF Granted, Refused, Status
    <2>11. c \notin Granted \cup Refused
      BY <2>8 DEF Granted, Refused
    <2> QED BY <2>5, <2>6, <2>7, <2>10, <2>11, <1>1, <1>4
  <1> QED BY <1>5, <1>6

(* A step of sem_release() is a Release, or hands the unit to the first in *)
(* line.                                                                   *)
LEMMA ReleaseMaps ==
    ASSUME SemInv, NEW s \in Sems, sem_release(s)
    PROVE  \/ /\ s \in Live /\ Line[s] = <<>>
              /\ Available' = [Available EXCEPT ![s] = @ + 1]
              /\ UNCHANGED <<Live, Line, Granted, Refused>>
           \/ /\ s \in Live /\ Line[s] # <<>>
              /\ Granted' = Granted \cup {Head(Line[s])}
              /\ Line' = [Line EXCEPT ![s] = Tail(@)]
              /\ UNCHANGED <<Live, Available, Refused>>
  <1>1. /\ sched.current \in Tasks /\ sem[s].live /\ frame' = frame
        /\ sem' = [sem EXCEPT ![s].count = @ + 1]
        /\ sched' = IF sched.queue[s] = <<>> THEN sched
                                             ELSE hand_over(sched, s, ERR_NONE)
    BY DEF sem_release, CanCall, hand_over
  <1>2. /\ sem \in [Sems -> [live : BOOLEAN, count : Int]]
        /\ Len(sched.queue[s]) = IF sem[s].count < 0 THEN -sem[s].count ELSE 0
    BY DEF SemInv, SemTypeOK, CountMatchesWaiters
  <1>3. /\ sem[s].count \in Int /\ sem'[s].count = sem[s].count + 1
        /\ \A u \in Sems \ {s} : sem'[u].count = sem[u].count
        /\ \A u \in Sems : sem'[u].live = sem[u].live
    BY <1>1, <1>2
  <1>4. Live' = Live /\ s \in Live
    BY <1>1, <1>3 DEF Live
  <1>5. /\ Consistent(sched) /\ NoTaskLost(sched) /\ s \in SleepQueues
        /\ sched.queue[s] \in Seq(Tasks)
    BY SemInvSched, Fields DEF SleepQueues
  <1>6. CASE sched.queue[s] = <<>>
    <2>1. sched' = sched
      BY <1>1, <1>6
    <2>2. UNCHANGED <<Line, Granted, Refused>>
      BY <1>1, <2>1 DEF Line, Granted, Refused, Returning, Waiting
    <2>3. sem[s].count >= 0
      BY <1>2, <1>3, <1>6
    <2>4. Available[s] = sem[s].count /\ Line[s] = <<>>
      BY <2>3, <1>3, <1>6 DEF Available, Line
    <2>5. (IF sem[s].count + 1 > 0 THEN sem[s].count + 1 ELSE 0) = sem[s].count + 1
      BY <2>3, <1>3
    <2>6. Available' = [Available EXCEPT ![s] = sem[s].count + 1]
      BY <2>5, <1>3 DEF Available
    <2> QED BY <2>2, <2>4, <2>6, <1>4
  <1>7. CASE sched.queue[s] # <<>>
    <2>0. PICK h \in Tasks : h = Head(sched.queue[s])
      BY <1>5, <1>7
    <2>1. sched' = hand_over(sched, s, ERR_NONE) /\ ERR_NONE \in Status
      BY <1>1, <1>7 DEF Status
    <2>2. /\ HandedOver(sched, s, ERR_NONE, sched') /\ Undisturbed(sched, sched', {h})
          /\ h \in Tasks /\ sched.waiting_on[h] = s /\ sched'.waiting_on[h] = NoQueue
          /\ sched'.status[h] = ERR_NONE
      <3>1. /\ Consistent(sched) /\ NoTaskLost(sched) /\ sched.current \in Tasks
            /\ s \in SleepQueues /\ sched.queue[s] # <<>> /\ ERR_NONE \in Status
        BY <2>1, <1>1, <1>5, <1>7
      <3>2. HeadRuns(sched, s, ERR_NONE, sched')
        BY <3>1, <2>1, HandOverMove
      <3> QED BY <3>2, <2>0 DEF HeadRuns
    <2>3. sem[s].count < 0
      BY <1>2, <1>3, <1>5, <1>7
    <2>4. Available' = Available
      <3>1. ~(sem[s].count > 0) /\ ~(sem[s].count + 1 > 0)
        BY <2>3, <1>3
      <3> QED BY <3>1, <1>3 DEF Available
    <2>5. Line' = [Line EXCEPT ![s] = Tail(@)] /\ Line[s] # <<>> /\ Head(Line[s]) = h
      <3>1. \A u \in Sems \ {s} : sched'.queue[u] = sched.queue[u]
        BY <2>2, SemInvSched DEF HandedOver
      <3>2. sched'.queue[s] = Tail(sched.queue[s])
        BY <2>2 DEF HandedOver
      <3> QED BY <2>0, <3>1, <3>2, <1>7 DEF Line
    <2>6. /\ Waiting(h) /\ ~Waiting(h)' /\ frame[h] # UserMode
      BY <2>2, SemAssumption, SchedAssumption DEF Waiting, SemInv, WaitersAreInAcquire
    <2>7. \A t \in Tasks \ {h}, st \in Status : Returning(t, st)' <=> Returning(t, st)
      <3>1. Undisturbed(sched, sched', {h})
        BY <2>2
      <3>2. \A t \in Tasks \ {h} : frame'[t] = frame[t]
        BY <1>1
      <3> QED BY <3>1, <3>2, ReturningKept
    <2>8. /\ Returning(h, ERR_NONE)' /\ ~Returning(h, ERR_RESOURCE)
          /\ ~Returning(h, ERR_RESOURCE)'
      BY <1>1, <2>2, <2>6 DEF Returning, ERR_NONE, ERR_RESOURCE
    <2>9. Granted' = Granted \cup {h}
      BY <2>7, <2>8 DEF Granted, Status
    <2>10. Refused' = Refused
      BY <2>7, <2>8 DEF Refused, Status
    <2> QED BY <2>4, <2>5, <2>9, <2>10, <1>4
  <1> QED BY <1>6, <1>7

(* A task returns from sem_acquire() with the status it was woken with.    *)
LEMMA ReturnMaps ==
    ASSUME SemInv, sem_acquire_return
    PROVE  /\ sched.current \in Tasks /\ sched.current \in Granted \cup Refused
           /\ Granted' = Granted \ {sched.current}
           /\ Refused' = Refused \ {sched.current}
           /\ UNCHANGED <<Live, Available, Line>>
  <1>1. PICK c \in Tasks : c = sched.current
    BY DEF sem_acquire_return
  <1>2. /\ frame[c] # UserMode /\ sched' = sched /\ sem' = sem
        /\ frame' = [frame EXCEPT ![c] = UserMode]
    BY <1>1 DEF sem_acquire_return
  <1>3. /\ frame \in [Tasks -> Sems \cup {UserMode}]
        /\ sched \in SchedStates /\ NoTaskLost(sched)
    BY SemInvSched DEF SemInv, SemTypeOK
  <1>4. ~Waiting(c)
    BY <1>1, <1>3, SemAssumption, SchedAssumption DEF Waiting, NoTaskLost
  <1>5. sched.status[c] \in {ERR_NONE, ERR_RESOURCE}
    BY <1>3, Fields DEF AllTasks, Status
  <1>6. c \in Granted \cup Refused
    BY <1>2, <1>4, <1>5 DEF Granted, Refused, Returning
  <1>7. frame'[c] = UserMode /\ \A t \in Tasks \ {c} : frame'[t] = frame[t]
    BY <1>2, <1>3
  <1>8. /\ \A st : ~Returning(c, st)'
        /\ \A t \in Tasks \ {c}, st \in Status : Returning(t, st)' <=> Returning(t, st)
    BY <1>2, <1>7 DEF Returning, Waiting
  <1>9. Granted' = Granted \ {c} /\ Refused' = Refused \ {c}
    BY <1>8 DEF Granted, Refused, Status
  <1>10. UNCHANGED <<Live, Available, Line>>
    BY <1>2 DEF Live, Available, Line
  <1> QED BY <1>1, <1>6, <1>9, <1>10

(* The promise does not notice the timer.                                  *)
LEMMA TimerMaps ==
    ASSUME SemInv, timer
    PROVE  UNCHANGED <<Live, Available, Line, Granted, Refused>>
  <1>1. sched' = timer_irq(sched) /\ sem' = sem /\ frame' = frame
    BY DEF timer
  <1>2. /\ Undisturbed(sched, sched', {})
        /\ \A p \in SleepQueues : sched'.queue[p] = sched.queue[p]
    BY <1>1, SemInvSched, TimerMove
  <1>3. \A t \in Tasks, st \in Status : Returning(t, st)' <=> Returning(t, st)
    <2>1. \A t \in Tasks \ {} : frame'[t] = frame[t]
      BY <1>1
    <2> QED BY <1>2, <2>1, ReturningKept
  <1>4. Granted' = Granted /\ Refused' = Refused
    BY <1>3 DEF Granted, Refused, Status
  <1>5. Line' = Line
    BY <1>2, SemInvSched DEF Line, SleepQueues
  <1> QED BY <1>1, <1>4, <1>5 DEF Live, Available

(* At boot there is no semaphore and nobody in a call.                     *)
LEMMA PromiseInit == SemInit => Promise!Init
  <1> SUFFICES ASSUME SemInit PROVE Promise!Init
    OBVIOUS
  <1>1. Live = {} /\ Available = [s \in Sems |-> 0]
    BY DEF SemInit, Live, Available
  <1>2. Line = [s \in Sems |-> <<>>]
    BY InitSafe, SemAssumption DEF SemInit, Line
  <1>3. Granted = {} /\ Refused = {}
    BY DEF SemInit, Granted, Refused, Returning
  <1> QED BY <1>1, <1>2, <1>3
          DEF Promise!Init, Live, Available, Line, Granted, Refused, Returning

(* Every step of the kernel is a step of the promise, or nothing it sees.  *)
LEMMA PromiseStep == SemInv /\ [SemNext]_semVars => [Promise!Next]_(Promise!vars)
  <1> SUFFICES ASSUME SemInv, [SemNext]_semVars
               PROVE  Promise!Next \/ UNCHANGED Promise!vars
    OBVIOUS
  <1>1. ASSUME NEW s \in Sems, NEW n \in Counts, sem_create(s, n)
        PROVE  Promise!Next
    <2>1. Promise!Create(s, n)
      BY <1>1, CreateMaps
         DEF Promise!Create, Live, Available, Line, Granted, Refused, Returning
    <2> QED BY <2>1 DEF Promise!Next
  <1>2. ASSUME NEW s \in Sems, sem_destroy(s)
        PROVE  Promise!Next
    <2>1. Promise!Destroy(s)
      BY <1>2, DestroyMaps
         DEF Promise!Destroy, Live, Available, Line, Granted, Refused, Returning
    <2> QED BY <2>1 DEF Promise!Next
  <1>3. ASSUME NEW s \in Sems, sem_acquire(s)
        PROVE  Promise!Next
    <2>0. PICK c \in Tasks : c = sched.current
      BY <1>3 DEF sem_acquire, CanCall
    <2>1. Promise!TakeAvailable(s) \/ Promise!StandInLine(s, c)
      BY <2>0, <1>3, AcquireMaps
         DEF Promise!TakeAvailable, Promise!StandInLine, Promise!Free, Promise!InLine,
             Live, Available, Line, Granted, Refused, Returning
    <2> QED BY <2>1 DEF Promise!Next
  <1>4. ASSUME NEW s \in Sems, sem_release(s)
        PROVE  Promise!Next
    <2>1. Promise!Release(s) \/ Promise!HandOver(s)
      BY ZenonT(60), <1>4, ReleaseMaps
         DEF Promise!Release, Promise!HandOver,
             Live, Available, Line, Granted, Refused, Returning
    <2> QED BY <2>1 DEF Promise!Next
  <1>5. CASE sem_acquire_return
    <2>0. PICK c \in Tasks : c = sched.current
      BY <1>5 DEF sem_acquire_return
    <2>1. Promise!Return(c)
      BY <2>0, <1>5, ReturnMaps
         DEF Promise!Return, Live, Available, Line, Granted, Refused, Returning
    <2> QED BY <2>1 DEF Promise!Next
  <1>6. CASE timer
    BY <1>6, TimerMaps
       DEF Promise!vars, Live, Available, Line, Granted, Refused, Returning
  <1>7. CASE UNCHANGED semVars
    BY <1>7 DEF semVars, Promise!vars, Waiting
  <1> QED BY <1>1, <1>2, <1>3, <1>4, <1>5, <1>6, <1>7 DEF SemNext

(* The semaphores of the kernel implement Semaphore: units go to waiters   *)
(* in the order they came, each to one, and destroying a semaphore refuses *)
(* exactly those who are in line (sem.c:25-62).                            *)
THEOREM SemKeepsPromise == SemSpec => KeepsPromise
  BY SemInvariant, PromiseInit, PromiseStep, PTL DEF SemSpec, KeepsPromise, Promise!Spec

=============================================================================
