--------------------------- MODULE ThreadsProofs ---------------------------
(***************************************************************************)
(* The safety of the life of a thread (Threads), for every set of tasks,   *)
(* teams and interrupts: no task is lost, the reaper finds every dead      *)
(* thread and frees it once, a team counts its threads, and nobody waits   *)
(* for a thread that is gone.                                              *)
(***************************************************************************)
EXTENDS Threads, SchedProofs, FiniteSetTheorems

(* The scheduler between two handlers.                                     *)
Settled(k) == Consistent(k) /\ NoTaskLost(k) /\ IdleOnlyWhenNothingToRun(k)

(* The reaper lives, and sleeps nowhere but on its semaphore, where nobody *)
(* else does.  Its count is negative exactly while it sleeps there.        *)
ReaperReady ==
    /\ sched.flags[Reaper] # tFREE
    /\ sched.waiting_on[Reaper] \notin SleepQueues \ {ReaperSem}
    /\ \A t \in Tasks : sched.waiting_on[t] = ReaperSem => t = Reaper
    /\ deaths >= -1
    /\ sched.waiting_on[Reaper] = ReaperSem <=> deaths = -1
    /\ deaths = -1 => reaping

(* The inductive invariant.                                                *)
ThreadsInv ==
    /\ TypeOK
    /\ Settled(sched)
    /\ DeadAwaitReaper
    /\ NoJoinerOfFreedThread
    /\ TeamCountsTasks
    /\ ReaperReady
    /\ DeathsCounted

-----------------------------------------------------------------------------
(* Steps in which nobody dies, is freed or is born.                        *)

(* The queues of this module are none of the scheduler's.                  *)
LEMMA OwnQueues ==
    /\ Tasks \cup {ReaperQueue, ReaperSem} \subseteq SleepQueues
    /\ ReaperQueue # ReaperSem /\ ReaperQueue \notin Tasks /\ ReaperSem \notin Tasks
    /\ NoQueue \notin SleepQueues /\ RunQueue \notin SleepQueues
    /\ TimerQueue \notin SleepQueues /\ RunQueue # NoQueue
    /\ Reaper \in Tasks /\ IdleTask \notin Tasks
  <1>1. Reaper \in Tasks
    BY ThreadsAssumption, SchedAssumption DEF Elements
  <1> QED BY <1>1, ThreadsAssumption, SchedAssumption DEF SleepQueues

(* Between k and r only the tasks of T moved, from where they were on no   *)
(* queue to where they are alive.                                          *)
HarmlessMove(k, r, T) ==
    /\ Settled(r) /\ Bystanders(k, r, T)
    /\ \A t \in Tasks \cap T :
          /\ k.waiting_on[t] = NoQueue
          /\ r.flags[t] \notin {tFREE, tDEAD}
          /\ r.waiting_on[t] # ReaperQueue

(* And they are not in the reaper's way.                                   *)
QuietMove(k, r, T) ==
    /\ HarmlessMove(k, r, T)
    /\ r.queue[ReaperQueue] = k.queue[ReaperQueue]
    /\ \A t \in Tasks \cap T :
          /\ r.waiting_on[t] # ReaperSem
          /\ t = Reaper => r.waiting_on[t] \notin SleepQueues

(* The action formulas of the two action properties.                       *)
JoinStep ==
    \A t, u \in Tasks :
        sched.waiting_on[t] = u /\ sched'.waiting_on[t] # u =>
            sched'.flags[u] \in {tDEAD, tFREE}
DeadStep ==
    \A t \in Tasks : sched.flags[t] = tDEAD => sched'.flags[t] \in {tDEAD, tFREE}

(* The dead stay where they are, with the reaper's queue.                  *)
LEMMA HarmlessDead ==
    ASSUME ThreadsInv, NEW T, HarmlessMove(sched, sched', T)
    PROVE  DeadAwaitReaper' /\ DeadStep
  <1>1. ASSUME NEW t \in Tasks \ T
        PROVE  /\ sched'.flags[t] = tDEAD <=> sched.flags[t] = tDEAD
               /\ sched'.waiting_on[t] = ReaperQueue <=> sched.waiting_on[t] = ReaperQueue
    <2>1. sched.flags[t] = tDEAD <=> sched.waiting_on[t] = ReaperQueue
      BY DEF ThreadsInv, DeadAwaitReaper
    <2>2. ReaperQueue \in SleepQueues
      BY OwnQueues
    <2>3. sched'.waiting_on[t] = ReaperQueue <=> sched.waiting_on[t] = ReaperQueue
      BY <2>2 DEF HarmlessMove, Bystanders, Undisturbed
    <2>4. /\ sched.waiting_on[t] \in SleepQueues => sched'.flags[t] = sched.flags[t]
          /\ sched'.flags[t] \in {tFREE, tSLEEP_IRQ, tDEAD} => sched'.flags[t] = sched.flags[t]
      BY DEF HarmlessMove, Bystanders, FlagsKept
    <2> QED BY <2>1, <2>2, <2>3, <2>4
  <1>2. ASSUME NEW t \in Tasks \cap T
        PROVE  /\ sched.flags[t] # tDEAD /\ sched'.flags[t] # tDEAD
               /\ sched'.waiting_on[t] # ReaperQueue
    <2>1. sched.waiting_on[t] # ReaperQueue
      BY OwnQueues DEF HarmlessMove
    <2> QED BY <2>1 DEF HarmlessMove, ThreadsInv, DeadAwaitReaper
  <1>3. \A t \in Tasks : sched.flags[t] = tDEAD <=> sched.waiting_on[t] = ReaperQueue
    BY DEF ThreadsInv, DeadAwaitReaper
  <1>4. DeadAwaitReaper'
    BY <1>1, <1>2, <1>3 DEF DeadAwaitReaper
  <1>5. DeadStep
    BY <1>1, <1>2 DEF DeadStep
  <1> QED BY <1>4, <1>5

(* Nobody who waits for a thread is woken.                                 *)
LEMMA HarmlessJoin ==
    ASSUME NEW T, HarmlessMove(sched, sched', T)
    PROVE  JoinStep
  <1> SUFFICES ASSUME NEW t \in Tasks, NEW u \in Tasks, sched.waiting_on[t] = u
               PROVE  sched'.waiting_on[t] = u
    BY DEF JoinStep
  <1>1. u \in SleepQueues /\ u # NoQueue
    BY OwnQueues
  <1>2. t \notin T
    BY <1>1 DEF HarmlessMove
  <1> QED BY <1>1, <1>2 DEF HarmlessMove, Bystanders, Undisturbed

(* The reaper stays where it is.                                           *)
LEMMA QuietReaper ==
    ASSUME ThreadsInv, NEW T, QuietMove(sched, sched', T), UNCHANGED <<deaths, reaping>>
    PROVE  ReaperReady' /\ DeathsCounted'
  <1>1. Reaper \in Tasks /\ ReaperSem \in SleepQueues /\ NoQueue # ReaperSem
    BY OwnQueues
  <1>2. \A t \in Tasks : sched'.waiting_on[t] = ReaperSem <=> sched.waiting_on[t] = ReaperSem
    BY <1>1 DEF QuietMove, HarmlessMove, Bystanders, Undisturbed
  <1>3. sched'.waiting_on[Reaper] \notin SleepQueues \ {ReaperSem}
    BY <1>1 DEF QuietMove, HarmlessMove, Bystanders, Undisturbed, ThreadsInv, ReaperReady
  <1>4. sched'.flags[Reaper] # tFREE
    BY <1>1 DEF QuietMove, HarmlessMove, Bystanders, FlagsKept, ThreadsInv, ReaperReady
  <1>5. ReaperReady'
    BY <1>1, <1>2, <1>3, <1>4 DEF ThreadsInv, ReaperReady
  <1>6. sched'.queue[ReaperQueue] = sched.queue[ReaperQueue]
    BY DEF QuietMove, HarmlessMove
  <1>7. DeathsCounted'
    BY <1>1, <1>2, <1>6 DEF ThreadsInv, DeathsCounted, Pending
  <1> QED BY <1>5, <1>7

(* A step that is quiet for some tasks.                                    *)
Calm == \E T : QuietMove(sched, sched', T)

(* What a quiet step keeps.                                                *)
LEMMA CalmKeeps ==
    ASSUME ThreadsInv, Calm, UNCHANGED <<deaths, reaping>>
    PROVE  DeadAwaitReaper' /\ ReaperReady' /\ DeathsCounted' /\ DeadStep /\ JoinStep
  <1>1. PICK T : QuietMove(sched, sched', T)
    BY DEF Calm
  <1>2. DeadAwaitReaper' /\ DeadStep
    BY <1>1, HarmlessDead DEF QuietMove
  <1>3. JoinStep
    BY <1>1, HarmlessJoin DEF QuietMove
  <1>4. ReaperReady' /\ DeathsCounted'
    BY <1>1, QuietReaper
  <1> QED BY <1>2, <1>3, <1>4

(* The tasks whose flags are f, those of T excepted, are the same.         *)
SameFlagged(k, r, f, T) == \A t \in Tasks \ T : r.flags[t] = f <=> k.flags[t] = f

(* Nobody is born or freed, or goes to sleep in os_sleep_irq() or wakes    *)
(* there, the tasks of T excepted.                                         *)
Steady(T) ==
    /\ SameFlagged(sched, sched', tFREE, T)
    /\ SameFlagged(sched, sched', tSLEEP_IRQ, T)

(* Bystanders are steady.                                                  *)
LEMMA BystandersSteady ==
    ASSUME NEW T, Bystanders(sched, sched', T)
    PROVE  Steady(T)
  BY DEF Bystanders, FlagsKept, Steady, SameFlagged

(* Who calls the kernel runs, and is on no queue.                          *)
LEMMA CallerRuns ==
    ASSUME ThreadsInv, CanCall
    PROVE  /\ Self \in Tasks \ {Reaper} /\ sched.current \in Tasks
           /\ Consistent(sched) /\ NoTaskLost(sched)
           /\ sched.flags[Self] = tRUNNING /\ sched.waiting_on[Self] = NoQueue
           /\ sched.current # IdleTask
  BY OwnQueues DEF ThreadsInv, Settled, CanCall, NoTaskLost, Self

-----------------------------------------------------------------------------
(* The scheduler's part of each operation.                                 *)

(* A context switch, or a timer interrupt.                                 *)
LEMMA SwitchedCalm ==
    ASSUME Switched(sched, sched')
    PROVE  Calm /\ Steady({}) /\ SameSleepers(sched, sched') /\ Settled(sched')
  <1>1. /\ Settled(sched') /\ Bystanders(sched, sched', {})
        /\ SameSleepers(sched, sched')
    BY DEF Switched, Settled
  <1>2. QuietMove(sched, sched', {})
    BY <1>1, OwnQueues DEF QuietMove, HarmlessMove, SameSleepers
  <1> QED BY <1>1, <1>2, BystandersSteady DEF Calm

(* A caller that goes to sleep in os_sleep() or thr_wait().                *)
LEMMA ParkedCalm ==
    ASSUME ThreadsInv, CanCall, NEW q \in Tasks \cup {TimerQueue},
           SelfParked(sched, q, sched')
    PROVE  /\ Calm /\ Steady({}) /\ Settled(sched')
           /\ \A p \in SleepQueues \ {q} : sched'.queue[p] = sched.queue[p]
  <1>0. PICK c \in Tasks \ {Reaper} : c = sched.current
    BY CallerRuns DEF Self
  <1>1. /\ Settled(sched') /\ Bystanders(sched, sched', {c})
        /\ q \in SleepQueues => sched'.waiting_on[c] = q
        /\ sched'.flags[c] \notin {tFREE, tSLEEP_IRQ, tDEAD}
        /\ \A p \in SleepQueues \ {q} : sched'.queue[p] = sched.queue[p]
    BY <1>0 DEF SelfParked, Settled
  <1>2. /\ Consistent(sched) /\ Consistent(sched')
        /\ sched.flags[c] = tRUNNING /\ sched.waiting_on[c] = NoQueue
    BY <1>0, <1>1, CallerRuns DEF Settled, Self
  <1>3. sched'.waiting_on[c] \notin {ReaperQueue, ReaperSem}
    <2>1. \A p \in {ReaperQueue, ReaperSem} : p \in SleepQueues \ {q} /\ p \in Queues /\ p # NoQueue
      BY OwnQueues DEF SleepQueues
    <2>2. \A p \in {ReaperQueue, ReaperSem} : sched'.waiting_on[c] = p <=> sched.waiting_on[c] = p
      BY <2>1, <1>1, <1>2, StaysOn
    <2> QED BY <2>1, <2>2, <1>2
  <1>4. sched'.queue[ReaperQueue] = sched.queue[ReaperQueue]
    BY <1>1, OwnQueues
  <1> DEFINE T == {c}
  <1>5. \A t \in T : t = c
    OBVIOUS
  <1>6. Bystanders(sched, sched', T)
    BY <1>1
  <1>9. c \in T
    OBVIOUS
  <1> HIDE DEF T
  <1>7. QuietMove(sched, sched', T)
    BY <1>0, <1>1, <1>2, <1>3, <1>4, <1>5, <1>6 DEF QuietMove, HarmlessMove
  <1>8. Steady({})
    <2>1. Steady(T)
      BY <1>6, BystandersSteady
    <2> QED BY <2>1, <1>1, <1>2, <1>5
            DEF Steady, SameFlagged, tFREE, tRUNNING, tSLEEP_IRQ
  <1> QED BY <1>1, <1>7, <1>8 DEF Calm

(* A new thread on the run queue.                                          *)
LEMMA StartedCalm ==
    ASSUME ThreadsInv, CanCall, NEW u \in Tasks, sched.flags[u] = tFREE,
           sched' = rsrc_enqueue(sched, RunQueue, u)
    PROVE  /\ Calm /\ Steady({u}) /\ Settled(sched') /\ SameSleepers(sched, sched')
           /\ sched'.flags[u] = tWAITING
  <1>1. /\ Consistent(sched') /\ NoTaskLost(sched') /\ sched'.current = sched.current
        /\ Bystanders(sched, sched', {u}) /\ SameSleepers(sched, sched')
        /\ sched'.flags[u] = tWAITING /\ sched'.waiting_on[u] = RunQueue
        /\ sched.waiting_on[u] = NoQueue
    <2>1. Consistent(sched) /\ NoTaskLost(sched)
      BY DEF ThreadsInv, Settled
    <2>2. Started(sched, u, sched')
      BY <2>1, StartMove
    <2> QED BY <2>2 DEF Started
  <1>2. Settled(sched')
    BY <1>1, CallerRuns DEF Settled, IdleOnlyWhenNothingToRun
  <1> DEFINE T == {u}
  <1>3. Bystanders(sched, sched', T) /\ (\A t \in T : t = u)
    BY <1>1
  <1> HIDE DEF T
  <1>4. QuietMove(sched, sched', T)
    BY <1>1, <1>2, <1>3, OwnQueues
       DEF QuietMove, HarmlessMove, SameSleepers, tWAITING, tFREE, tDEAD
  <1>5. Steady(T)
    BY <1>3, BystandersSteady
  <1> QED BY <1>1, <1>2, <1>4, <1>5 DEF Calm, T

(* A caller that goes to sleep until its interrupt.                        *)
LEMMA SleepIrqCalm ==
    ASSUME ThreadsInv, CanCall,
           sched' = swtch([sched EXCEPT !.flags[Self] = tSLEEP_IRQ])
    PROVE  /\ Calm /\ Settled(sched') /\ SameSleepers(sched, sched')
           /\ SameFlagged(sched, sched', tFREE, {})
           /\ SameFlagged(sched, sched', tSLEEP_IRQ, {Self})
           /\ sched'.flags[Self] = tSLEEP_IRQ
  <1>0. PICK c \in Tasks \ {Reaper} : c = sched.current
    BY CallerRuns DEF Self
  <1>1. /\ Settled(sched') /\ Bystanders(sched, sched', {c})
        /\ SameSleepers(sched, sched')
        /\ sched'.flags[c] = tSLEEP_IRQ /\ sched'.waiting_on[c] = NoQueue
    <2>1. SleepsUntilIrq(sched, swtch([sched EXCEPT !.flags[sched.current] = tSLEEP_IRQ]))
      BY CallerRuns, SleepIrqMove
    <2>2. SleepsUntilIrq(sched, sched')
      BY <2>1 DEF Self
    <2> QED BY <2>2, <1>0 DEF SleepsUntilIrq, Settled
  <1>2. sched.flags[c] = tRUNNING /\ sched.waiting_on[c] = NoQueue
    BY <1>0, CallerRuns DEF Self
  <1> DEFINE T == {c}
  <1>3. Bystanders(sched, sched', T) /\ (\A t \in T : t = c) /\ T = {Self}
    BY <1>0, <1>1 DEF Self
  <1> HIDE DEF T
  <1>4. QuietMove(sched, sched', T)
    BY <1>1, <1>2, <1>3, OwnQueues
       DEF QuietMove, HarmlessMove, SameSleepers, tSLEEP_IRQ, tFREE, tDEAD
  <1>5. Steady(T)
    BY <1>3, BystandersSteady
  <1>6. SameFlagged(sched, sched', tFREE, {})
    BY <1>1, <1>2, <1>3, <1>5 DEF Steady, SameFlagged, tSLEEP_IRQ, tFREE, tRUNNING
  <1>7. SameFlagged(sched, sched', tSLEEP_IRQ, {Self})
    BY <1>3, <1>5 DEF Steady
  <1>8. sched'.flags[Self] = tSLEEP_IRQ
    BY <1>0, <1>1 DEF Self
  <1> QED BY <1>1, <1>4, <1>6, <1>7, <1>8 DEF Calm

(* A task that an interrupt gives the processor to.                        *)
LEMMA PreemptCalm ==
    ASSUME ThreadsInv, NEW t \in Tasks, sched.flags[t] = tSLEEP_IRQ,
           sched' = preempt(sched, t, ERR_NONE)
    PROVE  /\ Calm /\ Settled(sched') /\ SameSleepers(sched, sched')
           /\ SameFlagged(sched, sched', tFREE, {})
           /\ SameFlagged(sched, sched', tSLEEP_IRQ, {t})
           /\ sched'.flags[t] = tRUNNING
  <1>1. /\ Consistent(sched) /\ NoTaskLost(sched) /\ FlagsAgree(sched)
    BY DEF ThreadsInv, Settled, Consistent
  <1>2. /\ Consistent(sched') /\ NoTaskLost(sched') /\ sched'.current = t
        /\ Bystanders(sched, sched', {t}) /\ SameSleepers(sched, sched')
        /\ sched'.flags[t] = tRUNNING /\ sched'.waiting_on[t] = NoQueue
    <2>1. ERR_NONE \in Status
      BY DEF Status
    <2>2. Preempted(sched, t, preempt(sched, t, ERR_NONE))
      BY <1>1, <2>1, PreemptMove
    <2> QED BY <2>2 DEF Preempted
  <1>3. sched.waiting_on[t] = NoQueue
    BY <1>1 DEF FlagsAgree, tSLEEP_IRQ, tWAITING, tDEAD
  <1>4. Settled(sched')
    BY <1>2, OwnQueues DEF Settled, IdleOnlyWhenNothingToRun
  <1> DEFINE T == {t}
  <1>5. Bystanders(sched, sched', T) /\ (\A u \in T : u = t)
    BY <1>2
  <1> HIDE DEF T
  <1>6. QuietMove(sched, sched', T)
    BY <1>2, <1>3, <1>4, <1>5, OwnQueues
       DEF QuietMove, HarmlessMove, SameSleepers, tRUNNING, tFREE, tDEAD
  <1>7. Steady(T)
    BY <1>5, BystandersSteady
  <1>8. SameFlagged(sched, sched', tFREE, {})
    BY <1>2, <1>5, <1>7 DEF Steady, SameFlagged, tSLEEP_IRQ, tFREE, tRUNNING
  <1>9. SameFlagged(sched, sched', tSLEEP_IRQ, T)
    BY <1>7 DEF Steady
  <1> QED BY <1>2, <1>4, <1>6, <1>8, <1>9 DEF Calm, T

-----------------------------------------------------------------------------
(* The threads of a team.                                                  *)

(* The task structures in use, of team m.                                  *)
ThreadsOf(m) == {t \in Tasks : team[t] = m /\ sched.flags[t] # tFREE}

(* A team counts its threads, and the kernel's team the idler too.         *)
LEMMA TeamsCount ==
    /\ TeamCountsTasks <=>
          \A m \in Teams : refcount[m] = Cardinality(ThreadsOf(m))
                                         + (IF m = KernelTeam THEN 1 ELSE 0)
    /\ \A m : IsFiniteSet(ThreadsOf(m)) /\ Cardinality(ThreadsOf(m)) \in Nat
  <1>1. ASSUME NEW m
        PROVE  IsFiniteSet(ThreadsOf(m)) /\ Cardinality(ThreadsOf(m)) \in Nat
    <2>1. ThreadsOf(m) \subseteq Tasks
      BY DEF ThreadsOf
    <2>2. IsFiniteSet(ThreadsOf(m))
      BY <2>1, ThreadsAssumption, FS_Subset
    <2> QED BY <2>2, FS_CardinalityType
  <1> QED BY <1>1 DEF TeamCountsTasks, ThreadsOf

(* Nobody is born or freed.                                                *)
LEMMA TeamsKept ==
    ASSUME ThreadsInv, SameFlagged(sched, sched', tFREE, {}), UNCHANGED <<team, refcount>>
    PROVE  TeamCountsTasks'
  <1>1. \A m \in Teams : {t \in Tasks : team'[t] = m /\ sched'.flags[t] # tFREE}
                            = {t \in Tasks : team[t] = m /\ sched.flags[t] # tFREE}
    BY DEF SameFlagged
  <1> QED BY <1>1 DEF ThreadsInv, TeamCountsTasks

(* A thread is born.                                                       *)
LEMMA TeamsGrow ==
    ASSUME ThreadsInv, NEW u \in Tasks, NEW m \in Teams,
           sched.flags[u] = tFREE, sched'.flags[u] # tFREE,
           SameFlagged(sched, sched', tFREE, {u}),
           team' = [team EXCEPT ![u] = m],
           refcount' = [refcount EXCEPT ![m] = @ + 1]
    PROVE  TeamCountsTasks' /\ refcount' \in [Teams -> Nat]
  <1>1. /\ team \in [Tasks -> Teams] /\ refcount \in [Teams -> Nat]
        /\ \A x \in Teams : refcount[x] = Cardinality(ThreadsOf(x))
                                          + (IF x = KernelTeam THEN 1 ELSE 0)
    BY TeamsCount DEF ThreadsInv, TypeOK
  <1>2. ThreadsOf(m)' = ThreadsOf(m) \cup {u} /\ u \notin ThreadsOf(m)
    BY <1>1 DEF SameFlagged, ThreadsOf
  <1>3. \A x \in Teams \ {m} : ThreadsOf(x)' = ThreadsOf(x)
    BY <1>1 DEF SameFlagged, ThreadsOf
  <1>4. Cardinality(ThreadsOf(m)') = Cardinality(ThreadsOf(m)) + 1
    <2>1. IsFiniteSet(ThreadsOf(m))
      BY TeamsCount
    <2> QED BY <2>1, <1>2, FS_AddElement
  <1>5. ASSUME NEW x \in Teams
        PROVE  /\ refcount'[x] = Cardinality(ThreadsOf(x)') + (IF x = KernelTeam THEN 1 ELSE 0)
               /\ refcount'[x] \in Nat
    <2>1. Cardinality(ThreadsOf(x)) \in Nat
      BY TeamsCount
    <2>2. CASE x = m
      BY <2>1, <2>2, <1>1, <1>4
    <2>3. CASE x # m
      BY <2>1, <2>3, <1>1, <1>3
    <2> QED BY <2>2, <2>3
  <1>6. TeamCountsTasks'
    BY <1>5 DEF TeamCountsTasks, ThreadsOf
  <1>7. refcount' \in [Teams -> Nat]
    BY <1>1, <1>5
  <1> QED BY <1>6, <1>7

(* A thread is freed.                                                      *)
LEMMA TeamsShrink ==
    ASSUME ThreadsInv, NEW u \in Tasks,
           sched.flags[u] # tFREE, sched'.flags[u] = tFREE,
           SameFlagged(sched, sched', tFREE, {u}),
           team' = team,
           refcount' = [refcount EXCEPT ![team[u]] = @ - 1]
    PROVE  TeamCountsTasks' /\ refcount' \in [Teams -> Nat]
  <1>1. /\ team \in [Tasks -> Teams] /\ refcount \in [Teams -> Nat]
        /\ \A x \in Teams : refcount[x] = Cardinality(ThreadsOf(x))
                                          + (IF x = KernelTeam THEN 1 ELSE 0)
    BY TeamsCount DEF ThreadsInv, TypeOK
  <1>2. PICK m \in Teams : m = team[u]
    BY <1>1
  <1>3. ThreadsOf(m)' = ThreadsOf(m) \ {u} /\ u \in ThreadsOf(m)
    BY <1>1, <1>2 DEF SameFlagged, ThreadsOf
  <1>4. \A x \in Teams \ {m} : ThreadsOf(x)' = ThreadsOf(x)
    BY <1>1, <1>2 DEF SameFlagged, ThreadsOf
  <1>5. Cardinality(ThreadsOf(m)') = Cardinality(ThreadsOf(m)) - 1
    <2>1. IsFiniteSet(ThreadsOf(m))
      BY TeamsCount
    <2> QED BY <2>1, <1>3, FS_RemoveElement
  <1>6. Cardinality(ThreadsOf(m)) > 0
    <2>1. IsFiniteSet(ThreadsOf(m)) /\ Cardinality(ThreadsOf(m)) \in Nat
      BY TeamsCount
    <2>2. ThreadsOf(m) # {}
      BY <1>3
    <2>3. Cardinality(ThreadsOf(m)) # 0
      BY <2>1, <2>2, FS_EmptySet
    <2> QED BY <2>1, <2>3
  <1>7. ASSUME NEW x \in Teams
        PROVE  /\ refcount'[x] = Cardinality(ThreadsOf(x)') + (IF x = KernelTeam THEN 1 ELSE 0)
               /\ refcount'[x] \in Nat
    <2>1. Cardinality(ThreadsOf(x)) \in Nat
      BY TeamsCount
    <2>2. CASE x = m
      BY <2>1, <2>2, <1>1, <1>2, <1>5, <1>6
    <2>3. CASE x # m
      BY <2>1, <2>3, <1>1, <1>2, <1>4
    <2> QED BY <2>2, <2>3
  <1>8. TeamCountsTasks'
    BY <1>7 DEF TeamCountsTasks, ThreadsOf
  <1>9. refcount' \in [Teams -> Nat]
    BY <1>1, <1>7
  <1> QED BY <1>8, <1>9

-----------------------------------------------------------------------------
(* Each operation keeps the invariant, lets no joiner of a living thread   *)
(* return, and leaves the dead dead.                                       *)
Kept == ThreadsInv' /\ JoinStep /\ DeadStep

(* Queues of tasks that do not change hold no joiner of a freed thread.    *)
LEMMA JoinersKept ==
    ASSUME ThreadsInv, NEW T,
           SameFlagged(sched, sched', tFREE, T),
           \A u \in Tasks : sched'.flags[u] = tFREE =>
               u \notin T /\ sched'.queue[u] = sched.queue[u]
    PROVE  NoJoinerOfFreedThread'
  BY DEF ThreadsInv, NoJoinerOfFreedThread, SameFlagged

(* A quiet step in which nobody is born or freed.                          *)
LEMMA CalmStep ==
    ASSUME ThreadsInv, Calm, Settled(sched'),
           SameFlagged(sched, sched', tFREE, {}),
           \A u \in Tasks : sched.flags[u] # tFREE \/ sched'.queue[u] = sched.queue[u],
           UNCHANGED life,
           irq' \in [Tasks -> Irqs \cup {NoIrq}],
           irq_task_map' \in [Irqs -> Tasks \cup {NoTask}],
           unmasked' \in SUBSET Irqs
    PROVE  Kept
  <1>1. UNCHANGED <<deaths, reaping>> /\ UNCHANGED <<team, refcount>>
    BY DEF life
  <1>2. DeadAwaitReaper' /\ ReaperReady' /\ DeathsCounted' /\ DeadStep /\ JoinStep
    BY <1>1, CalmKeeps
  <1>3. TeamCountsTasks'
    BY <1>1, TeamsKept
  <1>4. NoJoinerOfFreedThread'
    <2>1. \A u \in Tasks : sched'.flags[u] = tFREE =>
              u \notin {} /\ sched'.queue[u] = sched.queue[u]
      BY DEF SameFlagged
    <2> QED BY <2>1, JoinersKept
  <1>5. TypeOK'
    BY <1>1 DEF TypeOK, ThreadsInv, Settled, Consistent
  <1> QED BY <1>2, <1>3, <1>4, <1>5 DEF Kept, ThreadsInv

(* Nothing happened to the scheduler.                                      *)
LEMMA IdleStep ==
    ASSUME ThreadsInv, sched' = sched, UNCHANGED life,
           irq' \in [Tasks -> Irqs \cup {NoIrq}],
           irq_task_map' \in [Irqs -> Tasks \cup {NoTask}],
           unmasked' \in SUBSET Irqs
    PROVE  Kept
  BY DEF ThreadsInv, TypeOK, Settled, DeadAwaitReaper, NoJoinerOfFreedThread,
         TeamCountsTasks, ReaperReady, DeathsCounted, Pending, life, Kept,
         JoinStep, DeadStep

(* thr_create() and thr_spawn(): syscall.c:218, task.c:131, kernel.c:232.   *)
LEMMA CreateStep ==
    ASSUME ThreadsInv, CanCall, NEW u \in Tasks, NEW m \in Teams, new_thread(u, m)
    PROVE  Kept
  <1>1. /\ sched.flags[u] = tFREE
        /\ sched' = rsrc_enqueue(sched, RunQueue, u)
        /\ team' = [team EXCEPT ![u] = m]
        /\ refcount' = [refcount EXCEPT ![m] = @ + 1]
        /\ irq' = [irq EXCEPT ![u] = NoIrq]
        /\ UNCHANGED <<deaths, reaping>> /\ UNCHANGED <<irq_task_map, unmasked>>
    BY DEF new_thread
  <1> DEFINE T == {u}
  <1>2. /\ Calm /\ Steady(T) /\ Settled(sched') /\ SameSleepers(sched, sched')
        /\ sched'.flags[u] = tWAITING
    BY <1>1, StartedCalm
  <1>3. DeadAwaitReaper' /\ ReaperReady' /\ DeathsCounted' /\ DeadStep /\ JoinStep
    BY <1>1, <1>2, CalmKeeps
  <1>4. SameFlagged(sched, sched', tFREE, T) /\ sched'.flags[u] # tFREE
    BY <1>2 DEF Steady, tWAITING, tFREE
  <1>5. TeamCountsTasks' /\ refcount' \in [Teams -> Nat]
    BY <1>1, <1>4, TeamsGrow
  <1>6. \A x \in Tasks : sched'.flags[x] = tFREE =>
            x \notin T /\ sched'.queue[x] = sched.queue[x]
    BY <1>2, <1>4, OwnQueues DEF SameSleepers
  <1> HIDE DEF T
  <1>7. NoJoinerOfFreedThread'
    BY <1>4, <1>6, JoinersKept
  <1>8. team' \in [Tasks -> Teams] /\ irq' \in [Tasks -> Irqs \cup {NoIrq}]
    BY <1>1 DEF ThreadsInv, TypeOK
  <1>9. TypeOK'
    BY <1>1, <1>2, <1>5, <1>8 DEF TypeOK, ThreadsInv, Settled, Consistent
  <1> QED BY <1>2, <1>3, <1>5, <1>7, <1>9 DEF Kept, ThreadsInv

(* A context switch, or a timer interrupt.                                 *)
LEMMA SwitchStep ==
    ASSUME ThreadsInv, Switched(sched, sched'), UNCHANGED <<life, irqs>>
    PROVE  Kept
  <1>1. Calm /\ Steady({}) /\ SameSleepers(sched, sched') /\ Settled(sched')
    BY SwitchedCalm
  <1>2. \A u \in Tasks : sched'.queue[u] = sched.queue[u]
    BY <1>1, OwnQueues DEF SameSleepers
  <1>3. SameFlagged(sched, sched', tFREE, {})
    BY <1>1 DEF Steady
  <1>4. /\ irq' \in [Tasks -> Irqs \cup {NoIrq}]
        /\ irq_task_map' \in [Irqs -> Tasks \cup {NoTask}]
        /\ unmasked' \in SUBSET Irqs /\ UNCHANGED life
    BY DEF ThreadsInv, TypeOK, irqs
  <1> QED BY <1>1, <1>2, <1>3, <1>4, CalmStep

(* A yield or a timer interrupt leaves a settled scheduler.                *)
LEMMA YieldSwitched ==
    ASSUME ThreadsInv
    PROVE  Switched(sched, swtch(sched)) /\ Switched(sched, timer_irq(sched))
  BY SwtchMove, TimerSwitched DEF ThreadsInv, Settled, NoTaskLost

(* os_sleep(): syscall.c:55.                                               *)
LEMMA SleepStep ==
    ASSUME ThreadsInv, NEW ticks \in SleepTicks, sleep(ticks)
    PROVE  Kept /\ Steady({})
  <1>1. CanCall /\ UNCHANGED <<life, irqs>>
    BY DEF sleep
  <1>2. CASE ticks = 0
    <2>1. Switched(sched, sched')
      BY <1>2, YieldSwitched DEF sleep
    <2> QED BY <2>1, <1>1, SwitchStep, SwitchedCalm
  <1>3. CASE ticks # 0
    <2> DEFINE e == rsrc_enqueue_ordered(sched, TimerQueue, sched.current, ticks)
    <2>1. /\ Consistent(sched) /\ NoTaskLost(sched) /\ sched.current \in Tasks
          /\ TimerQueue \in Queues \ {RunQueue} /\ ticks \in Nat
      BY <1>1, CallerRuns, SchedAssumption, ThreadsAssumption
    <2>2. SelfQueued(sched, TimerQueue, tWAITING, e)
      BY <2>1, EnqueueOrderedSelf
    <2>3. sched' = swtch(e)
      BY <1>3 DEF sleep, Self
    <2> HIDE DEF e
    <2>4. SelfParked(sched, TimerQueue, sched')
      BY <2>1, <2>2, <2>3, ParkMove
    <2>5. /\ Calm /\ Steady({}) /\ Settled(sched')
          /\ \A p \in SleepQueues \ {TimerQueue} : sched'.queue[p] = sched.queue[p]
      BY <1>1, <2>4, ParkedCalm
    <2>6. \A u \in Tasks : sched'.queue[u] = sched.queue[u]
      BY <2>5, OwnQueues
    <2>7. SameFlagged(sched, sched', tFREE, {})
      BY <2>5 DEF Steady
    <2>8. /\ irq' \in [Tasks -> Irqs \cup {NoIrq}]
          /\ irq_task_map' \in [Irqs -> Tasks \cup {NoTask}]
          /\ unmasked' \in SUBSET Irqs /\ UNCHANGED life
      BY <1>1 DEF ThreadsInv, TypeOK, irqs
    <2> QED BY <2>5, <2>6, <2>7, <2>8, CalmStep
  <1> QED BY <1>2, <1>3

(* thr_wait(): task.c:119.                                                 *)
LEMMA JoinWaitStep ==
    ASSUME ThreadsInv, NEW u \in Tasks, thr_wait(u)
    PROVE  Kept /\ Steady({})
  <1>1. CanCall /\ sched.flags[u] # tFREE /\ UNCHANGED <<life, irqs>>
    BY DEF thr_wait
  <1>2. SelfParked(sched, u, sched')
    <2>1. /\ Consistent(sched) /\ NoTaskLost(sched) /\ sched.current \in Tasks
          /\ u \in Queues \ {RunQueue}
      BY <1>1, CallerRuns, ThreadsAssumption
    <2>2. SelfParked(sched, u, wait_on(sched, u))
      BY <2>1, WaitOnMove
    <2> QED BY <2>2 DEF thr_wait
  <1>3. /\ Calm /\ Steady({}) /\ Settled(sched')
        /\ \A p \in SleepQueues \ {u} : sched'.queue[p] = sched.queue[p]
    BY <1>1, <1>2, ParkedCalm
  <1>4. \A x \in Tasks : sched.flags[x] # tFREE \/ sched'.queue[x] = sched.queue[x]
    BY <1>1, <1>3, OwnQueues
  <1>5. SameFlagged(sched, sched', tFREE, {})
    BY <1>3 DEF Steady
  <1>6. /\ irq' \in [Tasks -> Irqs \cup {NoIrq}]
        /\ irq_task_map' \in [Irqs -> Tasks \cup {NoTask}]
        /\ unmasked' \in SUBSET Irqs /\ UNCHANGED life
    BY <1>1 DEF ThreadsInv, TypeOK, irqs
  <1> QED BY <1>3, <1>4, <1>5, <1>6, CalmStep

(* os_handle_irq(): syscall.c:97.                                          *)
LEMMA HandleIrqStep ==
    ASSUME ThreadsInv, NEW n \in Irqs, os_handle_irq(n)
    PROVE  Kept
  <1>1. Self \in Tasks
    BY CallerRuns DEF os_handle_irq
  <1>2. /\ irq' \in [Tasks -> Irqs \cup {NoIrq}]
        /\ irq_task_map' \in [Irqs -> Tasks \cup {NoTask}]
        /\ unmasked' \in SUBSET Irqs
    BY <1>1 DEF os_handle_irq, ThreadsInv, TypeOK
  <1>3. sched' = sched /\ UNCHANGED life
    BY DEF os_handle_irq
  <1> QED BY <1>2, <1>3, IdleStep

(* os_sleep_irq(): syscall.c:107.                                          *)
LEMMA SleepIrqStep ==
    ASSUME ThreadsInv, os_sleep_irq
    PROVE  Kept
  <1>1. CanCall /\ UNCHANGED <<life, irq, irq_task_map>> /\ Self \in Tasks
    BY CallerRuns DEF os_sleep_irq
  <1>2. CASE irq[Self] = NoIrq
    <2>1. Switched(sched, sched')
      BY <1>2, YieldSwitched DEF os_sleep_irq
    <2>2. UNCHANGED <<life, irqs>>
      BY <1>2 DEF os_sleep_irq, irqs
    <2> QED BY <2>1, <2>2, SwitchStep
  <1>3. CASE irq[Self] # NoIrq
    <2>1. /\ sched' = swtch([sched EXCEPT !.flags[Self] = tSLEEP_IRQ])
          /\ unmasked' = unmasked \cup {irq[Self]}
      BY <1>3 DEF os_sleep_irq
    <2>2. /\ Calm /\ Settled(sched') /\ SameSleepers(sched, sched')
          /\ SameFlagged(sched, sched', tFREE, {})
      BY <1>1, <2>1, SleepIrqCalm
    <2>3. \A u \in Tasks : sched'.queue[u] = sched.queue[u]
      BY <2>2, OwnQueues DEF SameSleepers
    <2>4. /\ irq' \in [Tasks -> Irqs \cup {NoIrq}]
          /\ irq_task_map' \in [Irqs -> Tasks \cup {NoTask}]
          /\ unmasked' \in SUBSET Irqs /\ UNCHANGED life
      BY <1>1, <1>3, <2>1 DEF ThreadsInv, TypeOK
    <2> QED BY <2>2, <2>3, <2>4, CalmStep
  <1> QED BY <1>2, <1>3

(* irq_dispatch(): fault.c:158.                                            *)
LEMMA DispatchStep ==
    ASSUME ThreadsInv, NEW n \in Irqs, irq_dispatch(n)
    PROVE  Kept
  <1>1. /\ irq' \in [Tasks -> Irqs \cup {NoIrq}]
        /\ irq_task_map' \in [Irqs -> Tasks \cup {NoTask}]
        /\ unmasked' \in SUBSET Irqs /\ UNCHANGED life
    BY DEF irq_dispatch, ThreadsInv, TypeOK
  <1>2. CASE ~SleepsInIrq(irq_task_map[n])
    <2>1. sched' = sched
      BY <1>2 DEF irq_dispatch
    <2> QED BY <2>1, <1>1, IdleStep
  <1>3. CASE SleepsInIrq(irq_task_map[n])
    <2>1. PICK t \in Tasks : t = irq_task_map[n] /\ sched.flags[t] = tSLEEP_IRQ
      BY <1>3 DEF SleepsInIrq
    <2>2. sched' = preempt(sched, t, ERR_NONE)
      BY <1>3, <2>1 DEF irq_dispatch
    <2>3. /\ Calm /\ Settled(sched') /\ SameSleepers(sched, sched')
          /\ SameFlagged(sched, sched', tFREE, {})
      BY <2>1, <2>2, PreemptCalm
    <2>4. \A u \in Tasks : sched'.queue[u] = sched.queue[u]
      BY <2>3, OwnQueues DEF SameSleepers
    <2> QED BY <1>1, <2>3, <2>4, CalmStep
  <1> QED BY <1>2, <1>3

-----------------------------------------------------------------------------
(* Death.                                                                  *)

(* A task that sleeps neither in a call of the kernel nor for an interrupt,*)
(* and is alive.                                                           *)
Awake(k, t) ==
    k.waiting_on[t] \notin SleepQueues /\ k.flags[t] \notin {tFREE, tSLEEP_IRQ, tDEAD}

(* It stays so when others move.                                           *)
LEMMA AwakeStays ==
    ASSUME NEW k, NEW r, NEW T, Bystanders(k, r, T), NEW t \in Tasks \ T, Awake(k, t)
    PROVE  Awake(r, t)
  BY DEF Bystanders, Undisturbed, FlagsKept, Awake

(* Between k and r the reaper was woken, if it slept on its semaphore.     *)
ReaperWoken(k, r) ==
    /\ Consistent(r) /\ r.current = k.current
    /\ \A t \in Tasks : r.waiting_on[t] # ReaperSem
    /\ \A p \in SleepQueues \ {ReaperSem} : r.queue[p] = k.queue[p]
    /\ \/ Bystanders(k, r, {})
       \/ /\ Bystanders(k, r, {Reaper}) /\ k.waiting_on[Reaper] = ReaperSem
          /\ Awake(r, Reaper)

(* wake_the_reaper(): syscall.c:28.                                        *)
LEMMA WakeTheReaper ==
    ASSUME NEW k, Consistent(k),
           \A t \in Tasks : k.waiting_on[t] = ReaperSem => t = Reaper
    PROVE  ReaperWoken(k, wake_the_reaper(k))
  <1> DEFINE r == wake_the_reaper(k)
  <1>0. /\ ReaperSem \in SleepQueues /\ ReaperSem \in Queues /\ ReaperSem # NoQueue
        /\ RunQueue # ReaperSem /\ ERR_NONE \in Status /\ Reaper \in Tasks
        /\ k.queue[ReaperSem] \in Seq(Tasks)
    BY OwnQueues, Fields DEF SleepQueues, Status, Consistent
  <1>1. CASE k.queue[ReaperSem] = <<>>
    <2>1. r = k
      BY <1>1 DEF wake_the_reaper, wake_one
    <2>2. \A t \in Tasks : k.waiting_on[t] # ReaperSem
      <3>1. Elements(k.queue[ReaperSem]) = {}
        BY <1>1 DEF Elements
      <3> QED BY ZenonT(60), <3>1, <1>0, OnQueue
    <2>3. Bystanders(k, k, {})
      BY DEF Bystanders, Undisturbed, FlagsKept
    <2> QED BY <2>1, <2>2, <2>3 DEF ReaperWoken
  <1>2. CASE k.queue[ReaperSem] # <<>>
    <2>1. OneWoken(k, ReaperSem, ERR_NONE, r) /\ HeadFlagged(k, ReaperSem, r)
      BY <1>0, <1>2, WakeOneMove, WakeOneFlags DEF wake_the_reaper
    <2> HIDE DEF r
    <2>2. Head(k.queue[ReaperSem]) = Reaper
      BY <2>1 DEF OneWoken
    <2>3. /\ Consistent(r) /\ r.current = k.current
          /\ Undisturbed(k, r, {Reaper}) /\ k.waiting_on[Reaper] = ReaperSem
          /\ r.waiting_on[Reaper] = RunQueue
          /\ \A p \in SleepQueues \ {ReaperSem} : r.queue[p] = k.queue[p]
      BY <2>1, <2>2 DEF OneWoken
    <2>4. r.flags[Reaper] = tWAITING /\ FlagsKept(k, r, {Reaper})
      BY <2>1, <2>2 DEF HeadFlagged
    <2>5. \A t \in Tasks : r.waiting_on[t] # ReaperSem
      BY <2>3, <1>0 DEF Undisturbed
    <2>6. Awake(r, Reaper)
      BY <2>3, <2>4, OwnQueues DEF Awake, tWAITING, tFREE, tSLEEP_IRQ, tDEAD
    <2> QED BY <2>3, <2>4, <2>5, <2>6 DEF ReaperWoken, Bystanders, r
  <1> QED BY <1>1, <1>2

(* Between k and r the task c died: who waited for it, or for a death, is  *)
(* awake.                                                                  *)
Died(k, c, r) ==
    /\ Settled(r)
    /\ r.flags[c] = tDEAD /\ r.waiting_on[c] = ReaperQueue
    /\ r.queue[ReaperQueue] = Append(k.queue[ReaperQueue], c) /\ r.queue[c] = <<>>
    /\ \A p \in Tasks \ {c} : r.queue[p] = k.queue[p]
    /\ \A t \in Tasks : r.waiting_on[t] # ReaperSem
    /\ \E T : /\ Bystanders(k, r, T)
              /\ \A t \in (Tasks \cap T) \ {c} :
                    k.waiting_on[t] \in {c, ReaperSem} /\ Awake(r, t)

(* os_terminate(): syscall.c:35.                                           *)
LEMMA Dies ==
    ASSUME ThreadsInv, terminate
    PROVE  Died(sched, Self, sched')
  <1>0. PICK c \in Tasks : c = sched.current /\ c # Reaper
    BY CallerRuns DEF terminate, Self
  <1> DEFINE k == sched
             j == wake_all([rsrc_enqueue(sched, ReaperQueue, c) EXCEPT !.flags[c] = tDEAD],
                           c, ERR_RESOURCE)
             w == wake_the_reaper(j)
             r == swtch(w)
             S == {c}
             W == Waiters(sched, c)
  <1>1. /\ Consistent(k) /\ NoTaskLost(k) /\ ReaperQueue \in SleepQueues \ {c}
        /\ c \in Tasks \cap SleepQueues /\ ERR_RESOURCE \in Status
        /\ ReaperSem \in SleepQueues \ {ReaperQueue, c} /\ ReaperQueue # ReaperSem
        /\ NoQueue # c /\ RunQueue \notin SleepQueues /\ NoQueue \notin SleepQueues
        /\ k.waiting_on[c] = NoQueue /\ Tasks \subseteq SleepQueues
        /\ ReaperQueue \notin Tasks /\ ReaperSem \notin Tasks /\ Reaper \in Tasks
        /\ k.flags[c] = tRUNNING
    <2>1. ERR_RESOURCE \in Status
      BY DEF Status
    <2> QED BY <2>1, <1>0, OwnQueues DEF ThreadsInv, Settled, NoTaskLost
  <1>2. sched' = r
    BY <1>0 DEF terminate, Self
  <1>3. Ended(k, ReaperQueue, j)
    BY <1>0, <1>1, EndMove
  <1> HIDE DEF j
  <1>4. /\ Consistent(j) /\ j.current = c
        /\ j.flags[c] = tDEAD /\ j.waiting_on[c] = ReaperQueue
        /\ Bystanders(k, j, S \cup W)
        /\ \A t \in W : j.flags[t] = tWAITING /\ j.waiting_on[t] = RunQueue
        /\ j.queue[ReaperQueue] = Append(k.queue[ReaperQueue], c) /\ j.queue[c] = <<>>
        /\ \A p \in SleepQueues \ {ReaperQueue, c} : j.queue[p] = k.queue[p]
    BY <1>0, <1>3 DEF Ended
  <1>5. /\ \A t \in W : t \in Tasks /\ k.waiting_on[t] = c
        /\ c \notin W
    BY <1>1 DEF Waiters
  <1> HIDE DEF W
  <1>6. \A t \in Tasks : j.waiting_on[t] = ReaperSem => k.waiting_on[t] = ReaperSem /\ t = Reaper
    <2>1. \A t \in Tasks : k.waiting_on[t] = ReaperSem => t = Reaper
      BY DEF ThreadsInv, ReaperReady
    <2>2. \A t \in Tasks : j.waiting_on[t] = ReaperSem => t \notin S \cup W
      BY <1>1, <1>4
    <2> QED BY <2>1, <2>2, <1>1, <1>4 DEF Bystanders, Undisturbed
  <1>7. ReaperWoken(j, w)
    BY <1>4, <1>6, WakeTheReaper
  <1> HIDE DEF w
  <1>8. /\ Consistent(w) /\ w.current = c
        /\ \A t \in Tasks : w.waiting_on[t] # ReaperSem
        /\ \A p \in SleepQueues \ {ReaperSem} : w.queue[p] = j.queue[p]
    BY <1>4, <1>7 DEF ReaperWoken
  <1>9. PICK T : /\ Bystanders(k, w, T)
                 /\ \A t \in (Tasks \cap T) \ {c} :
                      k.waiting_on[t] \in {c, ReaperSem} /\ Awake(w, t)
    <2> DEFINE U == S \cup W
               R == {Reaper}
    <2>1. \A t \in (Tasks \cap U) \ {c} : k.waiting_on[t] = c /\ Awake(j, t)
      BY <1>1, <1>4, <1>5 DEF Awake, tWAITING, tFREE, tSLEEP_IRQ, tDEAD
    <2>2. Bystanders(k, j, U)
      BY <1>4
    <2>3. U \cup {} = U /\ \A t \in R : t = Reaper
      OBVIOUS
    <2>4. Reaper \in R
      OBVIOUS
    <2> HIDE DEF U, R
    <2>5. CASE Bystanders(j, w, {})
      <3>1. Bystanders(k, w, U)
        <4>1. Bystanders(k, w, U \cup {})
          BY <2>2, <2>5, BystandersTwice
        <4> QED BY <4>1, <2>3
      <3>2. \A t \in (Tasks \cap U) \ {c} : k.waiting_on[t] \in {c, ReaperSem} /\ Awake(w, t)
        <4>1. \A t \in Tasks : Awake(j, t) => Awake(w, t)
          BY <2>5, AwakeStays
        <4> QED BY <4>1, <2>1
      <3> QED BY <3>1, <3>2
    <2>6. CASE /\ Bystanders(j, w, R) /\ j.waiting_on[Reaper] = ReaperSem
               /\ Awake(w, Reaper)
      <3>1. Bystanders(k, w, U \cup R)
        BY <2>2, <2>6, BystandersTwice
      <3>2. k.waiting_on[Reaper] = ReaperSem
        BY <1>1, <1>6, <2>6
      <3>3. \A t \in (Tasks \cap (U \cup R)) \ {c} :
                k.waiting_on[t] \in {c, ReaperSem} /\ Awake(w, t)
        BY <2>1, <2>3, <2>6, <3>2, AwakeStays
      <3> QED BY <3>1, <3>3
    <2> QED BY <2>5, <2>6, <1>7 DEF ReaperWoken, R
  <1>10. w.flags[c] = tDEAD /\ w.waiting_on[c] = ReaperQueue
    <2>1. /\ j.waiting_on[c] \in SleepQueues
          /\ Bystanders(j, w, {}) \/ Bystanders(j, w, {Reaper})
      BY <1>1, <1>4, <1>7 DEF ReaperWoken
    <2> QED BY <2>1, <1>0, <1>1, <1>4 DEF Bystanders, Undisturbed, FlagsKept
  <1>11. Switched(w, r)
    BY <1>8, <1>10, SwtchMove DEF Runnable, tDEAD, tRUNNING
  <1> HIDE DEF r
  <1>12. /\ Settled(r) /\ Bystanders(w, r, {})
         /\ \A p \in SleepQueues : r.queue[p] = w.queue[p]
    BY <1>11 DEF Switched, Settled, SameSleepers
  <1>13. /\ r.flags[c] = tDEAD /\ r.waiting_on[c] = ReaperQueue
         /\ \A t \in Tasks : r.waiting_on[t] # ReaperSem
    BY <1>1, <1>8, <1>10, <1>12 DEF Bystanders, Undisturbed, FlagsKept
  <1>14. /\ Bystanders(k, r, T)
         /\ \A t \in (Tasks \cap T) \ {c} : k.waiting_on[t] \in {c, ReaperSem} /\ Awake(r, t)
    <2>1. Bystanders(k, r, T \cup {})
      BY <1>9, <1>12, BystandersTwice
    <2>2. T \cup {} = T
      OBVIOUS
    <2>3. \A t \in Tasks : Awake(w, t) => Awake(r, t)
      BY <1>12, AwakeStays
    <2> QED BY <2>1, <2>2, <2>3, <1>9
  <1>15. /\ r.queue[ReaperQueue] = Append(k.queue[ReaperQueue], c) /\ r.queue[c] = <<>>
         /\ \A p \in Tasks \ {c} : r.queue[p] = k.queue[p]
    BY <1>1, <1>4, <1>8, <1>12
  <1>16. Died(k, c, r)
    BY <1>12, <1>13, <1>14, <1>15 DEF Died
  <1> QED BY <1>0, <1>2, <1>16 DEF Self

(* The rest of os_terminate().                                             *)
LEMMA TerminateStep ==
    ASSUME ThreadsInv, terminate
    PROVE  Kept /\ Steady({})
  <1>0. PICK c \in Tasks : c = sched.current /\ c # Reaper
    BY CallerRuns DEF terminate, Self
  <1>1. /\ Settled(sched')
        /\ sched'.flags[c] = tDEAD /\ sched'.waiting_on[c] = ReaperQueue
        /\ sched'.queue[ReaperQueue] = Append(sched.queue[ReaperQueue], c)
        /\ sched'.queue[c] = <<>>
        /\ \A p \in Tasks \ {c} : sched'.queue[p] = sched.queue[p]
        /\ \A t \in Tasks : sched'.waiting_on[t] # ReaperSem
    BY <1>0, Dies DEF Died, Self
  <1>2. PICK T : /\ Bystanders(sched, sched', T)
                 /\ \A t \in (Tasks \cap T) \ {c} :
                      sched.waiting_on[t] \in {c, ReaperSem} /\ Awake(sched', t)
    BY <1>0, Dies DEF Died, Self
  <1>3. /\ deaths' = deaths + 1 /\ UNCHANGED <<reaping, team, refcount>> /\ UNCHANGED irqs
    BY DEF terminate
  <1>4. /\ sched.flags[c] = tRUNNING /\ sched.waiting_on[c] = NoQueue
        /\ Consistent(sched) /\ FlagsAgree(sched)
    BY <1>0 DEF ThreadsInv, Settled, NoTaskLost
  <1>5. /\ Tasks \cup {ReaperQueue, ReaperSem} \subseteq SleepQueues
        /\ ReaperQueue # ReaperSem /\ ReaperQueue \notin Tasks /\ ReaperSem \notin Tasks
        /\ NoQueue \notin SleepQueues /\ Reaper \in Tasks
    BY OwnQueues
  <1>6. \A t \in Tasks : sched.flags[t] = tDEAD <=> sched.waiting_on[t] = ReaperQueue
    BY DEF ThreadsInv, DeadAwaitReaper
  <1>7. ASSUME NEW t \in (Tasks \cap T) \ {c}
        PROVE  /\ sched.waiting_on[t] \in {c, ReaperSem} /\ sched'.waiting_on[t] \notin SleepQueues
               /\ sched'.flags[t] \notin {tFREE, tSLEEP_IRQ, tDEAD}
               /\ sched.flags[t] \notin {tFREE, tSLEEP_IRQ, tDEAD}
    <2>1. sched.waiting_on[t] \in {c, ReaperSem} /\ Awake(sched', t)
      BY <1>2
    <2>2. sched.waiting_on[t] # NoQueue /\ sched.waiting_on[t] # ReaperQueue
      BY <2>1, <1>0, <1>5
    <2>3. sched.flags[t] = tWAITING
      BY <2>2, <1>4, <1>6 DEF FlagsAgree
    <2> QED BY <2>1, <2>3 DEF Awake, tWAITING, tFREE, tSLEEP_IRQ, tDEAD
  <1>8. ASSUME NEW t \in Tasks \ T
        PROVE  /\ \A p \in SleepQueues : sched'.waiting_on[t] = p <=> sched.waiting_on[t] = p
               /\ sched.waiting_on[t] \in SleepQueues => sched'.flags[t] = sched.flags[t]
               /\ sched'.flags[t] = tFREE <=> sched.flags[t] = tFREE
               /\ sched'.flags[t] = tSLEEP_IRQ <=> sched.flags[t] = tSLEEP_IRQ
               /\ sched'.flags[t] = tDEAD => sched.flags[t] = tDEAD
    BY <1>2 DEF Bystanders, Undisturbed, FlagsKept
  <1>9. Steady({})
    <2>1. ASSUME NEW t \in Tasks
          PROVE  /\ sched'.flags[t] = tFREE <=> sched.flags[t] = tFREE
                 /\ sched'.flags[t] = tSLEEP_IRQ <=> sched.flags[t] = tSLEEP_IRQ
      <3>1. CASE t = c
        BY <3>1, <1>1, <1>4 DEF tFREE, tSLEEP_IRQ, tDEAD, tRUNNING
      <3>2. CASE t \in T /\ t # c
        BY <3>2, <1>7
      <3>3. CASE t \notin T /\ t # c
        BY <3>3, <1>8
      <3> QED BY <3>1, <3>2, <3>3
    <2> QED BY <2>1 DEF Steady, SameFlagged
  <1>10. DeadAwaitReaper'
    <2>1. ASSUME NEW t \in Tasks
          PROVE  sched'.flags[t] = tDEAD <=> sched'.waiting_on[t] = ReaperQueue
      <3>1. CASE t = c
        BY <3>1, <1>1
      <3>2. CASE t \in T /\ t # c
        BY <3>2, <1>5, <1>7
      <3>3. CASE t \notin T /\ t # c
        BY <3>3, <1>5, <1>6, <1>8
      <3> QED BY <3>1, <3>2, <3>3
    <2> QED BY <2>1 DEF DeadAwaitReaper
  <1>11. DeadStep
    <2>1. ASSUME NEW t \in Tasks, sched.flags[t] = tDEAD
          PROVE  sched'.flags[t] = tDEAD
      <3>1. CASE t = c
        BY <3>1, <1>1
      <3>2. CASE t \in T /\ t # c
        BY <3>2, <2>1, <1>7
      <3>3. CASE t \notin T /\ t # c
        BY <3>3, <2>1, <1>5, <1>6, <1>8
      <3> QED BY <3>1, <3>2, <3>3
    <2> QED BY <2>1 DEF DeadStep
  <1>12. JoinStep
    <2>1. ASSUME NEW t \in Tasks, NEW u \in Tasks, sched.waiting_on[t] = u,
                 sched'.waiting_on[t] # u
          PROVE  sched'.flags[u] = tDEAD
      <3>1. CASE t = c
        BY <3>1, <2>1, <1>4, <1>5
      <3>2. CASE t \in T /\ t # c
        BY <3>2, <2>1, <1>1, <1>5, <1>7
      <3>3. CASE t \notin T /\ t # c
        BY <3>3, <2>1, <1>5, <1>8
      <3> QED BY <3>1, <3>2, <3>3
    <2> QED BY <2>1 DEF JoinStep
  <1>13. TeamCountsTasks'
    BY <1>3, <1>9, TeamsKept DEF Steady
  <1>14. NoJoinerOfFreedThread'
    <2>1. ASSUME NEW u \in Tasks, sched'.flags[u] = tFREE
          PROVE  u \notin {} /\ sched'.queue[u] = sched.queue[u]
      <3>1. u # c
        BY <2>1, <1>1 DEF tFREE, tDEAD
      <3> QED BY <3>1, <1>1
    <2>2. SameFlagged(sched, sched', tFREE, {})
      BY <1>9 DEF Steady
    <2> QED BY <2>1, <2>2, JoinersKept
  <1>15. ReaperReady'
    <2>1. /\ sched.flags[Reaper] # tFREE
          /\ sched.waiting_on[Reaper] \notin SleepQueues \ {ReaperSem}
          /\ deaths \in Int /\ deaths >= -1
      BY DEF ThreadsInv, ReaperReady, TypeOK
    <2>2. sched'.flags[Reaper] # tFREE
      BY <2>1, <1>5, <1>9 DEF Steady, SameFlagged
    <2>3. sched'.waiting_on[Reaper] \notin SleepQueues \ {ReaperSem}
      <3>1. CASE Reaper \in T
        BY <3>1, <1>0, <1>5, <1>7
      <3>2. CASE Reaper \notin T
        BY <3>2, <2>1, <1>5, <1>8
      <3> QED BY <3>1, <3>2
    <2> QED BY <2>1, <2>2, <2>3, <1>1, <1>3, <1>5 DEF ReaperReady
  <1>16. DeathsCounted'
    <2>1. sched.queue[ReaperQueue] \in Seq(Tasks)
      BY <1>4, <1>5, Fields DEF Consistent, SleepQueues
    <2>2. Len(sched'.queue[ReaperQueue]) = Len(sched.queue[ReaperQueue]) + 1
      BY <2>1, <1>0, <1>1
    <2>3. /\ deaths \in Int /\ deaths >= -1 /\ reaping \in BOOLEAN
          /\ sched.waiting_on[Reaper] = ReaperSem <=> deaths = -1
          /\ deaths = -1 => reaping
          /\ Len(sched.queue[ReaperQueue])
                = (IF reaping /\ sched.waiting_on[Reaper] # ReaperSem THEN 1 ELSE 0)
                  + (IF deaths > 0 THEN deaths ELSE 0)
      BY DEF ThreadsInv, ReaperReady, TypeOK, DeathsCounted, Pending
    <2>4. sched'.waiting_on[Reaper] # ReaperSem
      BY <1>1, <1>5
    <2>5. Len(sched'.queue[ReaperQueue])
              = (IF reaping' /\ sched'.waiting_on[Reaper] # ReaperSem THEN 1 ELSE 0)
                + (IF deaths' > 0 THEN deaths' ELSE 0)
      BY <2>2, <2>3, <2>4, <1>3
    <2> QED BY <2>5 DEF DeathsCounted, Pending
  <1>17. TypeOK'
    BY <1>1, <1>3 DEF TypeOK, ThreadsInv, Settled, Consistent, irqs
  <1> QED BY <1>1, <1>9, <1>10, <1>11, <1>12, <1>13, <1>14, <1>15, <1>16, <1>17
          DEF Kept, ThreadsInv

(* sem_acquire() of the reaper: kernel.c:83, sem.c:48.                     *)
LEMMA ReaperAcquireStep ==
    ASSUME ThreadsInv, reaper_acquire
    PROVE  Kept /\ Steady({})
  <1>1. /\ Self = Reaper /\ ~reaping /\ deaths' = deaths - 1 /\ reaping' = TRUE
        /\ UNCHANGED <<team, refcount>> /\ UNCHANGED irqs
    BY DEF reaper_acquire
  <1>2. /\ Tasks \cup {ReaperQueue, ReaperSem} \subseteq SleepQueues
        /\ ReaperQueue # ReaperSem /\ ReaperQueue \notin Tasks /\ ReaperSem \notin Tasks
        /\ NoQueue \notin SleepQueues /\ Reaper \in Tasks
    BY OwnQueues
  <1>3. /\ Consistent(sched) /\ NoTaskLost(sched) /\ sched.current = Reaper
        /\ sched.flags[Reaper] = tRUNNING /\ sched.waiting_on[Reaper] = NoQueue
    BY <1>1 DEF ThreadsInv, Settled, NoTaskLost, Self
  <1>4. /\ deaths \in Int /\ deaths >= 0
        /\ Len(sched.queue[ReaperQueue]) = IF deaths > 0 THEN deaths ELSE 0
        /\ sched.queue[ReaperQueue] \in Seq(Tasks)
    <2>1. deaths # -1
      BY <1>2, <1>3 DEF ThreadsInv, ReaperReady
    <2>2. sched.queue[ReaperQueue] \in Seq(Tasks)
      BY <1>2, <1>3, Fields DEF Consistent, SleepQueues
    <2> QED BY <2>1, <2>2, <1>1 DEF ThreadsInv, ReaperReady, TypeOK, DeathsCounted, Pending
  <1>5. CASE deaths > 0
    <2>1. sched' = sched
      BY <1>5 DEF reaper_acquire
    <2>2. DeathsCounted'
      BY <2>1, <1>1, <1>2, <1>3, <1>4, <1>5 DEF DeathsCounted, Pending
    <2>3. ReaperReady'
      BY <2>1, <1>1, <1>2, <1>3, <1>4, <1>5 DEF ThreadsInv, ReaperReady
    <2>4. /\ TypeOK' /\ Settled(sched') /\ DeadAwaitReaper' /\ NoJoinerOfFreedThread'
          /\ TeamCountsTasks'
      BY <2>1, <1>1, <1>4 DEF ThreadsInv, TypeOK, DeadAwaitReaper, NoJoinerOfFreedThread,
                              TeamCountsTasks, irqs
    <2>5. JoinStep /\ DeadStep /\ Steady({})
      BY <2>1 DEF JoinStep, DeadStep, Steady, SameFlagged
    <2> QED BY <2>2, <2>3, <2>4, <2>5 DEF Kept, ThreadsInv
  <1>6. CASE ~(deaths > 0)
    <2>1. SelfParked(sched, ReaperSem, sched')
      <3>1. ReaperSem \in Queues \ {RunQueue} /\ sched.current \in Tasks
        BY <1>2, <1>3 DEF SleepQueues
      <3>2. SelfParked(sched, ReaperSem, wait_on(sched, ReaperSem))
        BY <3>1, <1>3, WaitOnMove
      <3> QED BY <3>2, <1>6 DEF reaper_acquire
    <2> DEFINE T == {Reaper}
    <2>2. /\ Settled(sched') /\ Bystanders(sched, sched', T)
          /\ sched'.waiting_on[Reaper] = ReaperSem
          /\ sched'.flags[Reaper] \notin {tFREE, tSLEEP_IRQ, tDEAD}
          /\ \A p \in SleepQueues \ {ReaperSem} : sched'.queue[p] = sched.queue[p]
      BY <2>1, <1>2, <1>3 DEF SelfParked, Settled
    <2>3. \A t \in T : t = Reaper
      OBVIOUS
    <2> HIDE DEF T
    <2>4. HarmlessMove(sched, sched', T)
      BY <2>2, <2>3, <1>2, <1>3 DEF HarmlessMove
    <2>5. DeadAwaitReaper' /\ DeadStep /\ JoinStep
      BY <2>4, HarmlessDead, HarmlessJoin
    <2>6. Steady({})
      <3>1. Steady(T)
        BY <2>2, BystandersSteady
      <3> QED BY <3>1, <2>2, <2>3, <1>3
              DEF Steady, SameFlagged, tFREE, tRUNNING, tSLEEP_IRQ
    <2>7. TeamCountsTasks'
      BY <2>6, <1>1, TeamsKept DEF Steady
    <2>8. NoJoinerOfFreedThread'
      <3>1. \A u \in Tasks : sched'.flags[u] = tFREE =>
                u \notin {} /\ sched'.queue[u] = sched.queue[u]
        BY <2>2, <1>2
      <3>2. SameFlagged(sched, sched', tFREE, {})
        BY <2>6 DEF Steady
      <3> QED BY <3>1, <3>2, JoinersKept
    <2>9. deaths' = -1
      BY <1>1, <1>4, <1>6
    <2>10. ReaperReady'
      <3>1. ASSUME NEW t \in Tasks, sched'.waiting_on[t] = ReaperSem
            PROVE  t = Reaper
        <4>1. CASE t \in T
          BY <4>1, <2>3
        <4>2. CASE t \notin T
          <5>1. sched.waiting_on[t] = ReaperSem
            BY <4>2, <3>1, <2>2, <1>2 DEF Bystanders, Undisturbed
          <5> QED BY <5>1 DEF ThreadsInv, ReaperReady
        <4> QED BY <4>1, <4>2
      <3> QED BY <3>1, <2>2, <2>9, <1>1 DEF ReaperReady
    <2>11. DeathsCounted'
      <3>1. sched'.queue[ReaperQueue] = sched.queue[ReaperQueue]
        BY <2>2, <1>2
      <3> QED BY <3>1, <2>2, <2>9, <1>4, <1>6 DEF DeathsCounted, Pending
    <2>12. TypeOK'
      BY <2>2, <2>9, <1>1 DEF TypeOK, ThreadsInv, Settled, Consistent, irqs
    <2> QED BY <2>2, <2>5, <2>6, <2>7, <2>8, <2>10, <2>11, <2>12 DEF Kept, ThreadsInv
  <1> QED BY <1>5, <1>6

(* The reaper frees the thread that has been dead longest: kernel.c:84-86, *)
(* task.c:30.                                                              *)
LEMMA ReaperReapStep ==
    ASSUME ThreadsInv, reaper_reap
    PROVE  Kept /\ Steady({Head(sched.queue[ReaperQueue])})
               /\ sched.flags[Head(sched.queue[ReaperQueue])] = tDEAD
               /\ sched'.flags[Head(sched.queue[ReaperQueue])] = tFREE
  <1>1. /\ Self = Reaper /\ reaping /\ reaping' = FALSE
        /\ UNCHANGED <<deaths, team>> /\ UNCHANGED irqs
    BY DEF reaper_reap
  <1>2. /\ Tasks \cup {ReaperQueue, ReaperSem} \subseteq SleepQueues
        /\ ReaperQueue # ReaperSem /\ ReaperQueue \notin Tasks /\ ReaperSem \notin Tasks
        /\ NoQueue \notin SleepQueues /\ RunQueue \notin SleepQueues /\ Reaper \in Tasks
        /\ IdleTask \notin Tasks
    BY OwnQueues
  <1>3. /\ Consistent(sched) /\ NoTaskLost(sched) /\ sched.current = Reaper
        /\ sched.flags[Reaper] = tRUNNING /\ sched.waiting_on[Reaper] = NoQueue
        /\ FlagsAgree(sched)
    BY <1>1 DEF ThreadsInv, Settled, NoTaskLost, Self
  <1>4. /\ deaths \in Int /\ deaths >= 0
        /\ Len(sched.queue[ReaperQueue]) = 1 + (IF deaths > 0 THEN deaths ELSE 0)
        /\ sched.queue[ReaperQueue] \in Seq(Tasks)
    <2>1. deaths # -1
      BY <1>2, <1>3 DEF ThreadsInv, ReaperReady
    <2>2. sched.queue[ReaperQueue] \in Seq(Tasks)
      BY <1>2, <1>3, Fields DEF Consistent, SleepQueues
    <2> QED BY <2>1, <2>2, <1>1, <1>2, <1>3 DEF ThreadsInv, ReaperReady, TypeOK, DeathsCounted, Pending
  <1>5. sched.queue[ReaperQueue] # <<>>
    BY <1>4
  <1>6. PICK d \in Tasks : d = Head(sched.queue[ReaperQueue])
    BY <1>4, <1>5
  <1>7. Reaped(sched, ReaperQueue, d, sched')
    <2>1. /\ ReaperQueue \in SleepQueues /\ d \in SleepQueues \ {ReaperQueue}
          /\ ERR_RESOURCE \in Status
      BY <1>2, <1>6 DEF Status
    <2>2. Reaped(sched, ReaperQueue, d,
                 [wake_all(rsrc_dequeue(sched, ReaperQueue), d, ERR_RESOURCE)
                    EXCEPT !.flags[d] = tFREE])
      BY <2>1, <1>3, <1>5, <1>6, ReapMove
    <2> QED BY <2>2, <1>6 DEF reaper_reap
  <1> DEFINE S == {d}
             W == Waiters(sched, d)
  <1>8. /\ Consistent(sched') /\ NoTaskLost(sched') /\ sched'.current = Reaper
        /\ sched.waiting_on[d] = ReaperQueue
        /\ sched'.waiting_on[d] = NoQueue /\ sched'.flags[d] = tFREE
        /\ Bystanders(sched, sched', S \cup W)
        /\ \A u \in W : sched'.flags[u] = tWAITING /\ sched'.waiting_on[u] = RunQueue
        /\ sched'.queue[ReaperQueue] = Tail(sched.queue[ReaperQueue])
        /\ sched'.queue[d] = <<>>
        /\ \A p \in SleepQueues \ {ReaperQueue, d} : sched'.queue[p] = sched.queue[p]
    BY <1>3, <1>7 DEF Reaped
  <1>9. \A t \in Tasks : sched.flags[t] = tDEAD <=> sched.waiting_on[t] = ReaperQueue
    BY DEF ThreadsInv, DeadAwaitReaper
  <1>10. sched.flags[d] = tDEAD /\ d # Reaper
    BY <1>2, <1>3, <1>8, <1>9
  <1>11. ASSUME NEW t \in W
         PROVE  /\ t \in Tasks /\ t # d /\ t # Reaper /\ sched.waiting_on[t] = d
                /\ sched.flags[t] = tWAITING
    <2>1. t \in Tasks /\ sched.waiting_on[t] = d
      BY DEF Waiters
    <2> QED BY <2>1, <1>2, <1>3, <1>8, <1>9 DEF FlagsAgree
  <1>12. \A t \in Tasks : t = d \/ t \in W \/ t \notin S \cup W
    OBVIOUS
  <1> HIDE DEF S, W
  <1>13. ASSUME NEW t \in Tasks \ (S \cup W)
         PROVE  /\ \A p \in SleepQueues : sched'.waiting_on[t] = p <=> sched.waiting_on[t] = p
                /\ sched.waiting_on[t] \in SleepQueues => sched'.flags[t] = sched.flags[t]
                /\ sched'.flags[t] = tFREE <=> sched.flags[t] = tFREE
                /\ sched'.flags[t] = tSLEEP_IRQ <=> sched.flags[t] = tSLEEP_IRQ
                /\ sched'.flags[t] = tDEAD => sched.flags[t] = tDEAD
    BY <1>8 DEF Bystanders, Undisturbed, FlagsKept
  <1>14. Steady(S)
    <2>1. ASSUME NEW t \in Tasks \ S
          PROVE  /\ sched'.flags[t] = tFREE <=> sched.flags[t] = tFREE
                 /\ sched'.flags[t] = tSLEEP_IRQ <=> sched.flags[t] = tSLEEP_IRQ
      <3>1. CASE t \in W
        BY <3>1, <1>8, <1>11
      <3>2. CASE t \notin W
        BY <3>2, <1>13
      <3> QED BY <3>1, <3>2
    <2> QED BY <2>1 DEF Steady, SameFlagged
  <1>15. DeadAwaitReaper'
    <2>1. ASSUME NEW t \in Tasks
          PROVE  sched'.flags[t] = tDEAD <=> sched'.waiting_on[t] = ReaperQueue
      <3>1. CASE t = d
        BY <3>1, <1>2, <1>8 DEF tFREE, tDEAD
      <3>2. CASE t \in W
        BY <3>2, <1>2, <1>8 DEF tWAITING, tDEAD
      <3>3. CASE t \notin S \cup W
        BY <3>3, <1>2, <1>9, <1>13
      <3> QED BY <3>1, <3>2, <3>3, <1>12
    <2> QED BY <2>1 DEF DeadAwaitReaper
  <1>16. DeadStep
    <2>1. ASSUME NEW t \in Tasks, sched.flags[t] = tDEAD
          PROVE  sched'.flags[t] \in {tDEAD, tFREE}
      <3>1. CASE t = d
        BY <3>1, <1>8
      <3>2. CASE t \in W
        BY <3>2, <2>1, <1>11 DEF tWAITING, tDEAD
      <3>3. CASE t \notin S \cup W
        BY <3>3, <2>1, <1>2, <1>9, <1>13
      <3> QED BY <3>1, <3>2, <3>3, <1>12
    <2> QED BY <2>1 DEF DeadStep
  <1>17. JoinStep
    <2>1. ASSUME NEW t \in Tasks, NEW u \in Tasks, sched.waiting_on[t] = u,
                 sched'.waiting_on[t] # u
          PROVE  sched'.flags[u] = tFREE
      <3>1. CASE t = d
        BY <3>1, <2>1, <1>2, <1>8
      <3>2. CASE t \in W
        BY <3>2, <2>1, <1>8, <1>11
      <3>3. CASE t \notin S \cup W
        BY <3>3, <2>1, <1>2, <1>13
      <3> QED BY <3>1, <3>2, <3>3, <1>12
    <2> QED BY <2>1 DEF JoinStep
  <1>18. S = {d} /\ SameFlagged(sched, sched', tFREE, S)
    BY <1>14 DEF S, Steady
  <1>19. TeamCountsTasks' /\ refcount' \in [Teams -> Nat]
    <2>1. refcount' = [refcount EXCEPT ![team[d]] = @ - 1]
      BY <1>6 DEF reaper_reap
    <2>2. sched.flags[d] # tFREE
      BY <1>10 DEF tDEAD, tFREE
    <2> QED BY <2>1, <2>2, <1>1, <1>8, <1>18, TeamsShrink
  <1>20. NoJoinerOfFreedThread'
    <2>1. ASSUME NEW u \in Tasks, sched'.flags[u] = tFREE
          PROVE  sched'.queue[u] = <<>>
      <3>1. CASE u = d
        BY <3>1, <1>8
      <3>2. CASE u # d
        BY <3>2, <2>1, <1>2, <1>8, <1>18 DEF SameFlagged, ThreadsInv, NoJoinerOfFreedThread
      <3> QED BY <3>1, <3>2
    <2> QED BY <2>1 DEF NoJoinerOfFreedThread
  <1>21. sched'.flags[Reaper] # tFREE /\ \A t \in Tasks : sched'.waiting_on[t] # ReaperSem
    <2>1. sched'.flags[Reaper] # tFREE
      BY <1>2, <1>10, <1>18 DEF SameFlagged, ThreadsInv, ReaperReady
    <2>2. ASSUME NEW t \in Tasks
          PROVE  sched'.waiting_on[t] # ReaperSem
      <3>1. CASE t = d
        BY <3>1, <1>2, <1>8
      <3>2. CASE t \in W
        BY <3>2, <1>2, <1>8
      <3>3. CASE t \notin S \cup W
        <4>1. sched.waiting_on[t] # ReaperSem
          BY <1>2, <1>3 DEF ThreadsInv, ReaperReady
        <4> QED BY <4>1, <3>3, <1>2, <1>13
      <3> QED BY <3>1, <3>2, <3>3, <1>12
    <2> QED BY <2>1, <2>2
  <1>22. ReaperReady'
    <2>1. sched'.waiting_on[Reaper] = NoQueue
      BY <1>8 DEF NoTaskLost
    <2> QED BY <2>1, <1>1, <1>2, <1>4, <1>21 DEF ReaperReady
  <1>23. DeathsCounted'
    <2>1. Len(sched'.queue[ReaperQueue]) = Len(sched.queue[ReaperQueue]) - 1
      BY <1>4, <1>5, <1>8
    <2> QED BY <2>1, <1>1, <1>4 DEF DeathsCounted, Pending
  <1>24. Settled(sched')
    BY <1>2, <1>8 DEF Settled, IdleOnlyWhenNothingToRun
  <1>25. TypeOK'
    BY <1>1, <1>8, <1>19 DEF TypeOK, ThreadsInv, Consistent, irqs
  <1> QED BY <1>6, <1>8, <1>10, <1>14, <1>15, <1>16, <1>17, <1>18, <1>19, <1>20, <1>22,
             <1>23, <1>24, <1>25 DEF Kept, ThreadsInv

-----------------------------------------------------------------------------
(* The invariant holds at boot.                                            *)
LEMMA InitInv ==
    ASSUME Init
    PROVE  ThreadsInv
  <1>1. sched = SchedInit
    BY DEF Init
  <1>2. /\ Consistent(sched) /\ NoTaskLost(sched)
        /\ \A q \in Queues \ {RunQueue} : sched.queue[q] = <<>>
        /\ \A t \in Tasks : sched.waiting_on[t] \in {RunQueue, NoQueue}
    BY <1>1, InitSafe
  <1>3. /\ \A t \in Tasks : sched.flags[t] = IF t = Head(BootTasks) THEN tRUNNING
                            ELSE IF t \in Elements(BootTasks) THEN tWAITING ELSE tFREE
        /\ sched.current = Head(BootTasks)
    BY <1>1, SchedAssumption DEF SchedInit, AllTasks
  <1>4. /\ Head(BootTasks) \in Elements(BootTasks)
        /\ Elements(BootTasks) \subseteq Tasks
    BY SchedAssumption DEF Elements
  <1>5. /\ \A t \in Tasks : sched.flags[t] # tFREE <=> t \in Elements(BootTasks)
        /\ \A t \in Tasks : sched.flags[t] # tDEAD
    BY <1>3, <1>4 DEF tFREE, tRUNNING, tWAITING, tDEAD
  <1>6. Settled(sched)
    BY <1>2, <1>3, <1>4, SchedAssumption DEF Settled, IdleOnlyWhenNothingToRun
  <1>7. /\ ReaperQueue \in Queues \ {RunQueue} /\ ReaperSem \in Queues \ {RunQueue}
        /\ Tasks \subseteq Queues \ {RunQueue} /\ Reaper \in Elements(BootTasks)
        /\ NoQueue \notin Queues
    BY ThreadsAssumption, SchedAssumption
  <1>8. DeadAwaitReaper
    BY <1>2, <1>5, <1>7 DEF DeadAwaitReaper
  <1>9. NoJoinerOfFreedThread
    BY <1>2, <1>7 DEF NoJoinerOfFreedThread
  <1>10. /\ team = BootTeam /\ deaths = 0 /\ reaping = FALSE
         /\ irq = [t \in Tasks |-> NoIrq] /\ irq_task_map = [n \in Irqs |-> NoTask]
         /\ unmasked = {}
         /\ refcount = [m \in Teams |-> IF m = KernelTeam THEN Counted(m) + 1
                                                          ELSE Counted(m)]
    BY DEF Init
  <1>11. \A m \in Teams : Counted(m) = Cardinality(ThreadsOf(m)) /\ Counted(m) \in Nat
    <2>1. \A m \in Teams : {t \in Elements(BootTasks) : BootTeam[t] = m} = ThreadsOf(m)
      BY <1>4, <1>5, <1>10 DEF ThreadsOf
    <2> QED BY <2>1, TeamsCount DEF Counted
  <1>12. TeamCountsTasks /\ refcount \in [Teams -> Nat]
    BY <1>10, <1>11, TeamsCount
  <1>13. ReaperReady
    <2>1. sched.flags[Reaper] # tFREE /\ Reaper \in Tasks
      BY <1>4, <1>5, <1>7
    <2>2. sched.waiting_on[Reaper] \notin SleepQueues
      BY <1>2, <2>1, OwnQueues
    <2>3. \A t \in Tasks : sched.waiting_on[t] # ReaperSem
      BY <1>2, <1>7
    <2> QED BY <2>1, <2>2, <2>3, <1>10, OwnQueues DEF ReaperReady
  <1>14. DeathsCounted
    BY <1>2, <1>7, <1>10 DEF DeathsCounted, Pending
  <1>15. TypeOK
    <2>1. BootTeam \in [Tasks -> Teams]
      BY ThreadsAssumption
    <2>2. sched \in SchedStates /\ refcount \in [Teams -> Nat]
      BY <1>2, <1>12 DEF Consistent
    <2>3. /\ irq \in [Tasks -> Irqs \cup {NoIrq}]
          /\ irq_task_map \in [Irqs -> Tasks \cup {NoTask}]
      BY DEF Init
    <2>4. deaths \in Int /\ unmasked \in SUBSET Irqs
      BY DEF Init
    <2>5. team \in [Tasks -> Teams]
      BY <2>1 DEF Init
    <2>6. reaping \in BOOLEAN
      BY Zenon DEF Init
    <2> QED BY <2>2, <2>3, <2>4, <2>5, <2>6 DEF TypeOK
  <1> QED BY <1>6, <1>8, <1>9, <1>12, <1>13, <1>14, <1>15 DEF ThreadsInv

(* Every step keeps it, and takes no joiner away from a thread that lives, *)
(* nor a dead thread back to life.                                         *)
LEMMA StepKeeps ==
    ASSUME ThreadsInv, [Next]_vars
    PROVE  Kept
  <1>1. CASE \E u \in Tasks : thr_create(u)
    <2>1. PICK u \in Tasks : thr_create(u)
      BY <1>1
    <2>2. CanCall /\ new_thread(u, team[Self]) /\ team[Self] \in Teams
      BY <2>1 DEF thr_create, CanCall, ThreadsInv, TypeOK
    <2> QED BY <2>2, CreateStep
  <1>2. CASE \E u \in Tasks, m \in Teams : thr_spawn(u, m)
    BY <1>2, CreateStep DEF thr_spawn
  <1>3. CASE \E ticks \in SleepTicks : sleep(ticks)
    BY <1>3, SleepStep
  <1>4. CASE \E u \in Tasks : thr_wait(u)
    BY <1>4, JoinWaitStep
  <1>5. CASE \E n \in Irqs : os_handle_irq(n)
    BY <1>5, HandleIrqStep
  <1>6. CASE \E n \in Irqs : irq_dispatch(n)
    BY <1>6, DispatchStep
  <1>7. CASE os_sleep_irq
    BY <1>7, SleepIrqStep
  <1>8. CASE terminate
    BY <1>8, TerminateStep
  <1>9. CASE reaper_acquire
    BY <1>9, ReaperAcquireStep
  <1>10. CASE reaper_reap
    BY <1>10, ReaperReapStep
  <1>11. CASE timer
    BY <1>11, YieldSwitched, SwitchStep DEF timer
  <1>12. CASE UNCHANGED vars
    <2>1. sched' = sched /\ UNCHANGED life /\ UNCHANGED irqs
      BY <1>12 DEF vars, life, irqs
    <2> QED BY <2>1, IdleStep DEF ThreadsInv, TypeOK, irqs
  <1> QED BY <1>1, <1>2, <1>3, <1>4, <1>5, <1>6, <1>7, <1>8, <1>9, <1>10, <1>11,
             <1>12 DEF Next, reaper

(* ThreadsInv holds in every reachable state.                              *)
LEMMA ThreadsInvariant == Spec => []ThreadsInv
  <1>1. ThreadsInv /\ [Next]_vars => ThreadsInv'
    BY StepKeeps DEF Kept
  <1> QED BY <1>1, InitInv, PTL DEF Spec

(* Every state of the life of threads is well typed: TypeOK.               *)
THEOREM ThreadsTypes == Spec => []TypeOK
  <1>1. ThreadsInv => TypeOK
    BY DEF ThreadsInv
  <1> QED BY <1>1, ThreadsInvariant, PTL

(* The scheduler's queues and the tasks agree, and no task is lost, in any *)
(* interleaving of creation, sleep, joins, interrupts, death and reuse.    *)
THEOREM ThreadsAccounted == Spec => []TasksAccounted
  <1>1. ThreadsInv => TasksAccounted
    BY DEF ThreadsInv, Settled, Consistent, TasksAccounted
  <1> QED BY <1>1, ThreadsInvariant, PTL

(* The processor idles only when no task can run (kernel.c:158).           *)
THEOREM ThreadsIdle == Spec => []NoIdlingWithWork
  <1>1. ThreadsInv => NoIdlingWithWork
    BY DEF ThreadsInv, Settled, NoIdlingWithWork
  <1> QED BY <1>1, ThreadsInvariant, PTL

(* The dead wait for the reaper and nobody else does (syscall.c:35).       *)
THEOREM ThreadsDead == Spec => []DeadAwaitReaper
  <1>1. ThreadsInv => DeadAwaitReaper
    BY DEF ThreadsInv
  <1> QED BY <1>1, ThreadsInvariant, PTL

(* reaper_sem counts the dead, so that the reaper never takes a task from  *)
(* an empty reaper_queue (kernel.c:84).                                    *)
THEOREM ThreadsDeaths == Spec => []DeathsCounted
  <1>1. ThreadsInv => DeathsCounted
    BY DEF ThreadsInv
  <1> QED BY <1>1, ThreadsInvariant, PTL

(* A team counts its threads until they are freed (team.c:39).             *)
THEOREM ThreadsCounted == Spec => []TeamCountsTasks
  <1>1. ThreadsInv => TeamCountsTasks
    BY DEF ThreadsInv
  <1> QED BY <1>1, ThreadsInvariant, PTL

(* Nobody waits for a thread that has been freed (task.c:119).             *)
THEOREM ThreadsJoiners == Spec => []NoJoinerOfFreedThread
  <1>1. ThreadsInv => NoJoinerOfFreedThread
    BY DEF ThreadsInv
  <1> QED BY <1>1, ThreadsInvariant, PTL

(* thr_wait() returns only when the thread waited for is dead or freed.    *)
THEOREM ThreadsJoinDead == Spec => JoinOnlyTheDead
  <1>1. ThreadsInv /\ [Next]_vars => [JoinStep]_vars
    BY StepKeeps DEF Kept
  <1>2. Spec => [][JoinStep]_vars
    BY <1>1, ThreadsInvariant, PTL DEF Spec
  <1> QED BY <1>2 DEF JoinOnlyTheDead, JoinStep

(* A dead thread stays dead until it is freed.                             *)
THEOREM ThreadsDeadStay == Spec => DeadStayDead
  <1>1. ThreadsInv /\ [Next]_vars => [DeadStep]_vars
    BY StepKeeps DEF Kept
  <1>2. Spec => [][DeadStep]_vars
    BY <1>1, ThreadsInvariant, PTL DEF Spec
  <1> QED BY <1>2 DEF DeadStayDead, DeadStep

-----------------------------------------------------------------------------
(* Interrupts.                                                             *)

(* Who sleeps for an interrupt, as the flags tell it.                      *)
LEMMA SleepersFlagged ==
    ASSUME NEW T, SameFlagged(sched, sched', tSLEEP_IRQ, T)
    PROVE  \A t : t \notin T => (SleepsInIrq(t)' <=> SleepsInIrq(t))
  BY DEF SameFlagged, SleepsInIrq

(* The scheduler does not move.                                            *)
LEMMA SameFlags ==
    ASSUME sched' = sched
    PROVE  SameFlagged(sched, sched', tSLEEP_IRQ, {})
  BY DEF SameFlagged

(* Nobody falls asleep or wakes, and the interrupts stay as they are.      *)
Quiet == (\A t : SleepsInIrq(t)' <=> SleepsInIrq(t)) /\ UNCHANGED irqs

LEMMA QuietStep ==
    ASSUME NEW T, SameFlagged(sched, sched', tSLEEP_IRQ, T),
           \A t \in T : ~SleepsInIrq(t) /\ ~SleepsInIrq(t)',
           UNCHANGED irqs
    PROVE  Quiet
  <1>1. \A t : SleepsInIrq(t)' <=> SleepsInIrq(t)
    BY SleepersFlagged
  <1> QED BY <1>1 DEF Quiet

(* Only four actions concern the interrupts.                               *)
LEMMA QuietOrIrq ==
    ASSUME ThreadsInv, [Next]_vars
    PROVE  \/ Quiet
           \/ \E u \in Tasks : \E m : CanCall /\ new_thread(u, m)
           \/ \E n \in Irqs : os_handle_irq(n)
           \/ \E n \in Irqs : irq_dispatch(n)
           \/ os_sleep_irq
  <1>1. CASE \E u \in Tasks : thr_create(u)
    BY <1>1 DEF thr_create
  <1>2. CASE \E u \in Tasks, m \in Teams : thr_spawn(u, m)
    BY <1>2 DEF thr_spawn
  <1>3. CASE \E ticks \in SleepTicks : sleep(ticks)
    <2>1. PICK ticks \in SleepTicks : sleep(ticks)
      BY <1>3
    <2> QED BY <2>1, SleepStep, QuietStep DEF Steady, sleep
  <1>4. CASE \E u \in Tasks : thr_wait(u)
    <2>1. PICK u \in Tasks : thr_wait(u)
      BY <1>4
    <2> QED BY <2>1, JoinWaitStep, QuietStep DEF Steady, thr_wait
  <1>5. CASE \E n \in Irqs : os_handle_irq(n) \/ irq_dispatch(n)
    BY <1>5
  <1>6. CASE os_sleep_irq
    BY <1>6
  <1>7. CASE terminate
    BY <1>7, TerminateStep, QuietStep DEF Steady, terminate
  <1>8. CASE reaper_acquire
    BY <1>8, ReaperAcquireStep, QuietStep DEF Steady, reaper_acquire
  <1>9. CASE reaper_reap
    <2> DEFINE d == Head(sched.queue[ReaperQueue])
               T == {d}
    <2>1. /\ SameFlagged(sched, sched', tSLEEP_IRQ, T)
          /\ sched.flags[d] = tDEAD /\ sched'.flags[d] = tFREE
      BY <1>9, ReaperReapStep DEF Steady
    <2>2. \A t \in T : ~SleepsInIrq(t) /\ ~SleepsInIrq(t)'
      BY <2>1 DEF SleepsInIrq, tDEAD, tFREE, tSLEEP_IRQ
    <2>3. UNCHANGED irqs
      BY <1>9 DEF reaper_reap
    <2> HIDE DEF T
    <2> QED BY <2>1, <2>2, <2>3, QuietStep
  <1>10. CASE timer
    BY <1>10, YieldSwitched, SwitchedCalm, QuietStep DEF timer, Steady
  <1>11. CASE UNCHANGED vars
    BY <1>11, SameFlags, QuietStep DEF vars, irqs
  <1> QED BY <1>1, <1>2, <1>3, <1>4, <1>5, <1>6, <1>7, <1>8, <1>9, <1>10, <1>11
          DEF Next, reaper

(* A thread born has no interrupt, and is not asleep.                      *)
LEMMA CreateSleepers ==
    ASSUME ThreadsInv, CanCall, NEW u \in Tasks, NEW m, new_thread(u, m)
    PROVE  /\ ~SleepsInIrq(u) /\ ~SleepsInIrq(u)'
           /\ \A t : SleepsInIrq(t)' <=> SleepsInIrq(t)
           /\ irq'[u] = NoIrq /\ \A t \in Tasks \ {u} : irq'[t] = irq[t]
           /\ irq_task_map' = irq_task_map /\ unmasked' = unmasked
  <1>1. /\ sched.flags[u] = tFREE
        /\ sched' = rsrc_enqueue(sched, RunQueue, u)
        /\ irq' = [irq EXCEPT ![u] = NoIrq]
        /\ irq_task_map' = irq_task_map /\ unmasked' = unmasked
    BY DEF new_thread
  <1>2. SameFlagged(sched, sched', tSLEEP_IRQ, {u}) /\ sched'.flags[u] = tWAITING
    BY <1>1, StartedCalm DEF Steady
  <1>3. ~SleepsInIrq(u) /\ ~SleepsInIrq(u)'
    BY <1>1, <1>2 DEF SleepsInIrq, tFREE, tWAITING, tSLEEP_IRQ
  <1>4. \A t : SleepsInIrq(t)' <=> SleepsInIrq(t)
    BY <1>2, <1>3, SleepersFlagged
  <1>5. irq \in [Tasks -> Irqs \cup {NoIrq}]
    BY DEF ThreadsInv, TypeOK
  <1> QED BY <1>1, <1>3, <1>4, <1>5

(* os_handle_irq(): the caller is awake.                                   *)
LEMMA HandleSleepers ==
    ASSUME ThreadsInv, NEW n \in Irqs, os_handle_irq(n), NEW c \in Tasks, c = Self
    PROVE  /\ c \in HandledBy[n] /\ ~SleepsInIrq(c)
           /\ \A t : SleepsInIrq(t)' <=> SleepsInIrq(t)
           /\ unmasked' = unmasked
           /\ irq'[c] = n /\ \A t \in Tasks \ {c} : irq'[t] = irq[t]
           /\ irq_task_map'[n] = c
           /\ \A i \in Irqs \ {n} : irq_task_map'[i] = irq_task_map[i]
  <1>1. /\ c \in HandledBy[n] /\ ~SleepsInIrq(c)
        /\ sched' = sched /\ unmasked' = unmasked
        /\ irq' = [irq EXCEPT ![c] = n]
        /\ irq_task_map' = [irq_task_map EXCEPT ![n] = c]
    BY CallerRuns DEF os_handle_irq, SleepsInIrq, tRUNNING, tSLEEP_IRQ
  <1>2. /\ irq \in [Tasks -> Irqs \cup {NoIrq}]
        /\ irq_task_map \in [Irqs -> Tasks \cup {NoTask}]
    BY DEF ThreadsInv, TypeOK
  <1>3. \A t : SleepsInIrq(t)' <=> SleepsInIrq(t)
    BY <1>1 DEF SleepsInIrq
  <1> QED BY <1>1, <1>2, <1>3

(* os_sleep_irq(): the caller's line becomes enabled as he falls asleep,   *)
(* if he has one.                                                          *)
LEMMA FallsAsleep ==
    ASSUME ThreadsInv, os_sleep_irq, NEW c \in Tasks, c = Self
    PROVE  \/ Quiet
           \/ /\ irq[c] # NoIrq /\ unmasked' = unmasked \cup {irq[c]}
              /\ irq' = irq /\ irq_task_map' = irq_task_map
              /\ SleepsInIrq(c)' /\ \A t : t # c => (SleepsInIrq(t)' <=> SleepsInIrq(t))
  <1>1. CanCall /\ irq' = irq /\ irq_task_map' = irq_task_map
    BY DEF os_sleep_irq
  <1>2. CASE irq[Self] = NoIrq
    <2>1. sched' = swtch(sched) /\ UNCHANGED irqs
      BY <1>2 DEF os_sleep_irq, irqs
    <2>2. SameFlagged(sched, sched', tSLEEP_IRQ, {})
      BY <2>1, YieldSwitched, SwitchedCalm DEF Steady
    <2> QED BY <2>1, <2>2, QuietStep
  <1>3. CASE irq[Self] # NoIrq
    <2>1. /\ sched' = swtch([sched EXCEPT !.flags[Self] = tSLEEP_IRQ])
          /\ unmasked' = unmasked \cup {irq[c]}
      BY <1>3 DEF os_sleep_irq
    <2>2. /\ SameFlagged(sched, sched', tSLEEP_IRQ, {Self})
          /\ sched'.flags[Self] = tSLEEP_IRQ
      BY <1>1, <2>1, SleepIrqCalm
    <2>3. \A t : t # c => (SleepsInIrq(t)' <=> SleepsInIrq(t))
      <3> DEFINE T == {Self}
      <3>1. SameFlagged(sched, sched', tSLEEP_IRQ, T)
        BY <2>2
      <3>2. \A t : t # c => t \notin T
        OBVIOUS
      <3> HIDE DEF T
      <3> QED BY <3>1, <3>2, SleepersFlagged
    <2>4. SleepsInIrq(c)'
      BY <2>2 DEF SleepsInIrq
    <2> QED BY <1>1, <1>3, <2>1, <2>3, <2>4
  <1> QED BY <1>2, <1>3

(* irq_dispatch(): the line is masked, and whom it is mapped to is awake   *)
(* after it.                                                               *)
LEMMA DispatchSleepers ==
    ASSUME ThreadsInv, NEW n \in Irqs, irq_dispatch(n)
    PROVE  /\ n \in unmasked /\ unmasked' = unmasked \ {n}
           /\ irq' = irq /\ irq_task_map' = irq_task_map
           /\ ~SleepsInIrq(irq_task_map[n])'
           /\ \A t : t # irq_task_map[n] => (SleepsInIrq(t)' <=> SleepsInIrq(t))
  <1>1. /\ n \in unmasked /\ unmasked' = unmasked \ {n}
        /\ irq' = irq /\ irq_task_map' = irq_task_map
    BY DEF irq_dispatch
  <1>2. CASE SleepsInIrq(irq_task_map[n])
    <2>1. PICK h \in Tasks : h = irq_task_map[n] /\ sched.flags[h] = tSLEEP_IRQ
      BY <1>2 DEF SleepsInIrq
    <2>2. sched' = preempt(sched, h, ERR_NONE)
      BY <1>2, <2>1 DEF irq_dispatch
    <2>3. SameFlagged(sched, sched', tSLEEP_IRQ, {h}) /\ sched'.flags[h] = tRUNNING
      BY <2>1, <2>2, PreemptCalm
    <2>4. \A t : t # h => (SleepsInIrq(t)' <=> SleepsInIrq(t))
      <3> DEFINE T == {h}
      <3>1. SameFlagged(sched, sched', tSLEEP_IRQ, T)
        BY <2>3
      <3>2. \A t : t # h => t \notin T
        OBVIOUS
      <3> HIDE DEF T
      <3> QED BY <3>1, <3>2, SleepersFlagged
    <2>5. ~SleepsInIrq(h)'
      BY <2>3 DEF SleepsInIrq, tRUNNING, tSLEEP_IRQ
    <2>6. ~SleepsInIrq(irq_task_map[n])'
      BY <2>1, <2>5, <1>1 DEF SleepsInIrq
    <2> QED BY <1>1, <2>1, <2>4, <2>6
  <1>3. CASE ~SleepsInIrq(irq_task_map[n])
    <2>1. sched' = sched
      BY <1>3 DEF irq_dispatch
    <2>2. \A t : SleepsInIrq(t)' <=> SleepsInIrq(t)
      BY <2>1 DEF SleepsInIrq
    <2>3. ~SleepsInIrq(irq_task_map[n])'
      BY <2>1, <1>1, <1>3 DEF SleepsInIrq
    <2> QED BY <1>1, <2>2, <2>3
  <1> QED BY <1>2, <1>3

-----------------------------------------------------------------------------
(* Whatever lines are shared, a sleeper that its line is mapped to can be  *)
(* woken.                                                                  *)

SleepersRegistered == \A t \in Tasks : SleepsInIrq(t) => irq[t] \in Irqs
Wakeable == SleepersRegistered /\ MappedSleeperCanBeWoken

LEMMA WakeableStep ==
    ASSUME ThreadsInv, Wakeable, [Next]_vars
    PROVE  Wakeable'
  <1>1. /\ \A t \in Tasks : SleepsInIrq(t) => irq[t] \in Irqs
        /\ \A t \in Tasks : SleepsInIrq(t) /\ irq_task_map[irq[t]] = t => irq[t] \in unmasked
    BY DEF Wakeable, SleepersRegistered, MappedSleeperCanBeWoken
  <1>2. irq \in [Tasks -> Irqs \cup {NoIrq}]
    BY DEF ThreadsInv, TypeOK
  <1>3. SUFFICES ASSUME NEW t \in Tasks, SleepsInIrq(t)'
                 PROVE  irq'[t] \in Irqs /\ (irq_task_map'[irq'[t]] = t => irq'[t] \in unmasked')
    BY DEF Wakeable, SleepersRegistered, MappedSleeperCanBeWoken
  <1>4. CASE Quiet
    <2>1. SleepsInIrq(t) /\ irq' = irq /\ irq_task_map' = irq_task_map /\ unmasked' = unmasked
      BY <1>3, <1>4 DEF Quiet, irqs
    <2> QED BY <2>1, <1>1
  <1>5. CASE \E u \in Tasks : \E m : CanCall /\ new_thread(u, m)
    <2>1. PICK u \in Tasks : \E m : CanCall /\ new_thread(u, m)
      BY <1>5
    <2>2. PICK m : CanCall /\ new_thread(u, m)
      BY <2>1
    <2>3. /\ t # u /\ SleepsInIrq(t) /\ irq'[t] = irq[t]
          /\ irq_task_map' = irq_task_map /\ unmasked' = unmasked
      BY <2>2, <1>3, CreateSleepers
    <2> QED BY <2>3, <1>1
  <1>6. CASE \E n \in Irqs : os_handle_irq(n)
    <2>1. PICK n \in Irqs : os_handle_irq(n)
      BY <1>6
    <2>2. PICK c \in Tasks : c = Self
      BY <2>1, CallerRuns DEF os_handle_irq
    <2>3. /\ t # c /\ SleepsInIrq(t) /\ irq'[t] = irq[t] /\ unmasked' = unmasked
          /\ irq_task_map'[n] = c
          /\ \A i \in Irqs \ {n} : irq_task_map'[i] = irq_task_map[i]
      BY <2>1, <2>2, <1>3, HandleSleepers
    <2>4. CASE irq[t] = n
      BY <2>3, <2>4, <1>1
    <2>5. CASE irq[t] # n
      BY <2>3, <2>5, <1>1
    <2> QED BY <2>4, <2>5
  <1>7. CASE \E n \in Irqs : irq_dispatch(n)
    <2>1. PICK n \in Irqs : irq_dispatch(n)
      BY <1>7
    <2>2. /\ unmasked' = unmasked \ {n} /\ irq' = irq /\ irq_task_map' = irq_task_map
          /\ ~SleepsInIrq(irq_task_map[n])'
          /\ \A s : s # irq_task_map[n] => (SleepsInIrq(s)' <=> SleepsInIrq(s))
      BY <2>1, DispatchSleepers
    <2>3. t # irq_task_map[n]
      BY <2>2, <1>3 DEF SleepsInIrq
    <2>4. SleepsInIrq(t)
      BY <2>2, <2>3, <1>3
    <2> QED BY <2>2, <2>3, <2>4, <1>1
  <1>8. CASE os_sleep_irq
    <2>1. PICK c \in Tasks : c = Self
      BY <1>8, CallerRuns DEF os_sleep_irq
    <2>2. \/ Quiet
          \/ /\ irq[c] # NoIrq /\ unmasked' = unmasked \cup {irq[c]}
             /\ irq' = irq /\ irq_task_map' = irq_task_map
             /\ SleepsInIrq(c)' /\ \A s : s # c => (SleepsInIrq(s)' <=> SleepsInIrq(s))
      BY <2>1, <1>8, FallsAsleep
    <2>3. CASE ~Quiet /\ t = c
      BY <2>2, <2>3, <1>2
    <2>4. CASE ~Quiet /\ t # c
      BY <2>2, <2>4, <1>1, <1>3
    <2> QED BY <2>3, <2>4, <1>4
  <1> QED BY <1>4, <1>5, <1>6, <1>7, <1>8, QuietOrIrq

(* A task asleep on a line that is mapped to it can be woken, whoever else *)
(* asks for its line and whatever lines it asked for before (fault.c:158,  *)
(* syscall.c:97-114).                                                      *)
THEOREM ThreadsWakeable == Spec => []MappedSleeperCanBeWoken
  <1>1. Init => Wakeable
    BY InitInv DEF Init, Wakeable, SleepersRegistered, MappedSleeperCanBeWoken, ThreadsInv,
                   SleepsInIrq, SchedInit, AllTasks, tFREE, tRUNNING, tWAITING, tREADY,
                   tSLEEP_IRQ
  <1>2. ThreadsInv /\ Wakeable /\ [Next]_vars => Wakeable'
    BY WakeableStep
  <1>3. Wakeable => MappedSleeperCanBeWoken
    BY DEF Wakeable
  <1> QED BY <1>1, <1>2, <1>3, ThreadsInvariant, PTL DEF Spec

-----------------------------------------------------------------------------
(* When at most one task ever asks for an interrupt.                       *)

OneHandler == \A n \in Irqs : \A t, u \in HandledBy[n] : t = u

(* Who is registered for an interrupt may ask for it, and the kernel knows *)
(* him; who sleeps has his line enabled; and the enabled lines are those   *)
(* of the sleepers.                                                        *)
IrqsAgree ==
    /\ \A t \in Tasks : irq[t] # NoIrq =>
          t \in HandledBy[irq[t]] /\ irq_task_map[irq[t]] = t
    /\ \A t \in Tasks : SleepsInIrq(t) => irq[t] \in unmasked
    /\ \A n \in unmasked : SleepsInIrq(irq_task_map[n]) /\ irq[irq_task_map[n]] = n

(* The action formula of WokenByOwnIrq.                                    *)
WokenStep ==
    \A t \in Tasks : SleepsInIrq(t) /\ ~(SleepsInIrq(t))' =>
        irq[t] \in unmasked \ unmasked'

(* What a step keeps of the interrupts.                                    *)
IrqsKept == IrqsAgree' /\ WokenStep

LEMMA QuietIrqs ==
    ASSUME IrqsAgree, Quiet
    PROVE  IrqsKept
  <1>1. irq' = irq /\ irq_task_map' = irq_task_map /\ unmasked' = unmasked
    BY DEF Quiet, irqs
  <1> QED BY <1>1 DEF Quiet, IrqsKept, IrqsAgree, WokenStep

LEMMA CreateIrqs ==
    ASSUME ThreadsInv, IrqsAgree, CanCall, NEW u \in Tasks, NEW m, new_thread(u, m)
    PROVE  IrqsKept
  <1>1. /\ ~SleepsInIrq(u) /\ ~SleepsInIrq(u)'
        /\ \A t : SleepsInIrq(t)' <=> SleepsInIrq(t)
        /\ irq'[u] = NoIrq /\ \A t \in Tasks \ {u} : irq'[t] = irq[t]
        /\ irq_task_map' = irq_task_map /\ unmasked' = unmasked
    BY CreateSleepers
  <1>2. \A n \in unmasked : irq_task_map[n] \in Tasks \ {u}
    BY <1>1 DEF IrqsAgree, SleepsInIrq
  <1>3. IrqsAgree'
    BY <1>1, <1>2 DEF IrqsAgree
  <1> QED BY <1>1, <1>3 DEF IrqsKept, WokenStep

(* os_handle_irq(): the line is masked, or its handler would not run.      *)
LEMMA HandleIrqs ==
    ASSUME OneHandler, ThreadsInv, IrqsAgree, NEW n \in Irqs, os_handle_irq(n)
    PROVE  IrqsKept
  <1>1. PICK c \in Tasks : c = Self
    BY CallerRuns DEF os_handle_irq
  <1>2. /\ c \in HandledBy[n] /\ ~SleepsInIrq(c)
        /\ \A t : SleepsInIrq(t)' <=> SleepsInIrq(t)
        /\ unmasked' = unmasked
        /\ irq'[c] = n /\ \A t \in Tasks \ {c} : irq'[t] = irq[t]
        /\ irq_task_map'[n] = c
        /\ \A i \in Irqs \ {n} : irq_task_map'[i] = irq_task_map[i]
    BY <1>1, HandleSleepers
  <1>3. irq \in [Tasks -> Irqs \cup {NoIrq}] /\ unmasked \subseteq Irqs
    BY DEF ThreadsInv, TypeOK
  <1>4. n \notin unmasked
    <2>1. SUFFICES ASSUME n \in unmasked
                   PROVE  FALSE
      OBVIOUS
    <2>2. /\ SleepsInIrq(irq_task_map[n]) /\ irq[irq_task_map[n]] = n
          /\ irq_task_map[n] \in Tasks
      BY <2>1 DEF IrqsAgree, SleepsInIrq
    <2>3. irq_task_map[n] \in HandledBy[n]
      BY <2>2, ThreadsAssumption DEF IrqsAgree
    <2>4. irq_task_map[n] = c
      BY <2>3, <1>2 DEF OneHandler
    <2> QED BY <2>2, <2>4, <1>2
  <1>5. ASSUME NEW t \in Tasks, irq'[t] # NoIrq
        PROVE  t \in HandledBy[irq'[t]] /\ irq_task_map'[irq'[t]] = t
    <2>1. CASE t = c
      BY <2>1, <1>2
    <2>2. CASE t # c /\ irq[t] = n
      BY <2>2, <1>2, <1>5 DEF OneHandler, IrqsAgree
    <2>3. CASE t # c /\ irq[t] # n
      <3>1. irq'[t] = irq[t] /\ irq[t] \in Irqs \ {n}
        BY <2>3, <1>2, <1>3, <1>5
      <3> QED BY <3>1, <1>2, <1>5 DEF IrqsAgree
    <2> QED BY <2>1, <2>2, <2>3
  <1>6. \A t \in Tasks : SleepsInIrq(t)' => irq'[t] \in unmasked'
    BY <1>2 DEF IrqsAgree
  <1>7. ASSUME NEW i \in unmasked
        PROVE  (SleepsInIrq(irq_task_map[i]) /\ irq[irq_task_map[i]] = i)'
    <2>1. PICK h \in Tasks : h = irq_task_map[i] /\ SleepsInIrq(h) /\ irq[h] = i
      BY DEF IrqsAgree, SleepsInIrq
    <2>2. h # c /\ irq_task_map'[i] = h
      BY <2>1, <1>2, <1>3, <1>4
    <2> QED BY <2>1, <2>2, <1>2 DEF SleepsInIrq
  <1>8. IrqsAgree'
    BY <1>2, <1>5, <1>6, <1>7 DEF IrqsAgree
  <1> QED BY <1>2, <1>8 DEF IrqsKept, WokenStep

LEMMA SleepIrqs ==
    ASSUME ThreadsInv, IrqsAgree, os_sleep_irq
    PROVE  IrqsKept
  <1>1. PICK c \in Tasks : c = Self
    BY CallerRuns DEF os_sleep_irq
  <1>2. CASE Quiet
    BY <1>2, QuietIrqs
  <1>3. CASE /\ irq[c] # NoIrq /\ unmasked' = unmasked \cup {irq[c]}
             /\ irq' = irq /\ irq_task_map' = irq_task_map
             /\ SleepsInIrq(c)' /\ \A t : t # c => (SleepsInIrq(t)' <=> SleepsInIrq(t))
    <2>1. irq_task_map[irq[c]] = c
      BY <1>3 DEF IrqsAgree
    <2>2. \A t \in Tasks : SleepsInIrq(t)' => irq'[t] \in unmasked'
      BY <1>3 DEF IrqsAgree
    <2>3. ASSUME NEW n \in unmasked'
          PROVE  (SleepsInIrq(irq_task_map[n]) /\ irq[irq_task_map[n]] = n)'
      <3>1. CASE n = irq[c]
        BY <3>1, <2>1, <1>3 DEF SleepsInIrq
      <3>2. CASE n # irq[c]
        <4>1. n \in unmasked
          BY <3>2, <1>3
        <4>2. PICK h \in Tasks : h = irq_task_map[n] /\ SleepsInIrq(h) /\ irq[h] = n
          BY <4>1 DEF IrqsAgree, SleepsInIrq
        <4>3. SleepsInIrq(h)'
          BY <4>2, <1>3
        <4> QED BY <4>2, <4>3, <1>3 DEF SleepsInIrq
      <3> QED BY <3>1, <3>2
    <2>4. IrqsAgree'
      BY <1>3, <2>2, <2>3 DEF IrqsAgree
    <2> QED BY <1>3, <2>4 DEF IrqsKept, WokenStep
  <1> QED BY <1>1, <1>2, <1>3, FallsAsleep

(* irq_dispatch(): the line is masked as its sleeper wakes.                *)
LEMMA DispatchIrqs ==
    ASSUME ThreadsInv, IrqsAgree, NEW n \in Irqs, irq_dispatch(n)
    PROVE  IrqsKept
  <1>1. /\ n \in unmasked /\ unmasked' = unmasked \ {n}
        /\ irq' = irq /\ irq_task_map' = irq_task_map
        /\ ~SleepsInIrq(irq_task_map[n])'
        /\ \A t : t # irq_task_map[n] => (SleepsInIrq(t)' <=> SleepsInIrq(t))
    BY DispatchSleepers
  <1>2. PICK h \in Tasks : h = irq_task_map[n] /\ irq[h] = n
    BY <1>1 DEF IrqsAgree, SleepsInIrq
  <1>3. ~SleepsInIrq(h)' /\ \A t : t # h => (SleepsInIrq(t)' <=> SleepsInIrq(t))
    BY <1>1, <1>2 DEF SleepsInIrq
  <1>4. ASSUME NEW t \in Tasks, SleepsInIrq(t)'
        PROVE  irq[t] \in unmasked'
    <2>1. t # h /\ SleepsInIrq(t) /\ irq[t] \in unmasked
      BY <1>3, <1>4 DEF IrqsAgree
    <2>2. irq_task_map[irq[t]] = t
      BY <2>1, ThreadsAssumption DEF IrqsAgree, ThreadsInv, TypeOK
    <2> QED BY <2>1, <2>2, <1>1, <1>2
  <1>5. ASSUME NEW i \in unmasked'
        PROVE  (SleepsInIrq(irq_task_map[i]) /\ irq[irq_task_map[i]] = i)'
    <2>1. i # n /\ i \in unmasked
      BY <1>1
    <2>2. PICK t \in Tasks : t = irq_task_map[i] /\ SleepsInIrq(t) /\ irq[t] = i
      BY <2>1 DEF IrqsAgree, SleepsInIrq
    <2>3. SleepsInIrq(t)'
      BY <2>1, <2>2, <1>2, <1>3
    <2> QED BY <2>2, <2>3, <1>1 DEF SleepsInIrq
  <1>6. IrqsAgree'
    BY <1>1, <1>4, <1>5 DEF IrqsAgree
  <1> QED BY <1>1, <1>2, <1>3, <1>6 DEF IrqsKept, WokenStep

LEMMA IrqsStep ==
    ASSUME OneHandler, ThreadsInv, IrqsAgree, [Next]_vars
    PROVE  IrqsKept
  <1>1. CASE \E u \in Tasks : \E m : CanCall /\ new_thread(u, m)
    BY <1>1, CreateIrqs
  <1>2. CASE \E n \in Irqs : os_handle_irq(n)
    BY <1>2, HandleIrqs
  <1>3. CASE \E n \in Irqs : irq_dispatch(n)
    BY <1>3, DispatchIrqs
  <1> QED BY <1>1, <1>2, <1>3, QuietOrIrq, QuietIrqs, SleepIrqs

(* The interrupts agree.                                                   *)
LEMMA IrqsInvariant ==
    ASSUME OneHandler
    PROVE  Spec => []IrqsAgree
  <1>1. Init => IrqsAgree
    BY InitInv DEF Init, IrqsAgree, ThreadsInv, SleepsInIrq, SchedInit, AllTasks, tFREE,
                   tRUNNING, tWAITING, tREADY, tSLEEP_IRQ
  <1>2. ThreadsInv /\ IrqsAgree /\ [Next]_vars => IrqsAgree'
    BY IrqsStep DEF IrqsKept
  <1> QED BY <1>1, <1>2, ThreadsInvariant, PTL DEF Spec

(* A task in os_sleep_irq() sleeps until its own interrupt comes, although *)
(* irq_task_map keeps naming it for lines it handled before                *)
(* (fault.c:162), if no two tasks ever ask for the same line.              *)
THEOREM ThreadsOwnIrq ==
    ASSUME OneHandler
    PROVE  Spec => WokenByOwnIrq
  <1>1. ThreadsInv /\ IrqsAgree /\ [Next]_vars => [WokenStep]_vars
    BY IrqsStep DEF IrqsKept
  <1>2. Spec => [][WokenStep]_vars
    BY <1>1, IrqsInvariant, ThreadsInvariant, PTL DEF Spec
  <1> QED BY <1>2 DEF WokenByOwnIrq, WokenStep
=============================================================================
