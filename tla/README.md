# OpenBLT in TLA+

A specification of the OpenBLT microkernel and of its main servers (`src/blt`),
model-checked with TLC and in large part proved with TLAPS. Line numbers are those of
the repository; `PROJECT.json` maps every definition to the lines it stands for.

## 1. The system

OpenBLT is an i386 microkernel with user-level servers. The kernel offers
threads grouped in teams, semaphores, message ports, memory areas and interrupt
delivery; everything else (name service, file systems, network, windows,
consoles, disks) is a server reached through ports. The default build runs on
one processor, and the kernel runs with interrupts off: a system call or an
interrupt handler is one uninterrupted sequence of C statements up to the next
context switch (`swtch`, `preempt`). What is concurrent in the kernel is
therefore the order in which *tasks* come out of a context switch, and the
interrupts that are taken while a task is in user mode. In the servers it is the
order in which threads and clients run between their calls to ports and
semaphores.

| Component | State | Operations | Interacts with | Correct when | Module |
|---|---|---|---|---|---|
| Scheduler (`kernel.c`, `task.c`, `resource.c`, `list.c`, timer of `fault.c`) | `current`, flags and `waiting_on` of each task, one queue per resource | `swtch`, `preempt`, `wait_on`, `task_wake`, `rsrc_enqueue`, `rsrc_dequeue`, `timer_irq` | called by every blocking call | no task is lost or queued twice; the idler runs only when nothing else can | `Sched` |
| Semaphores (`sem.c`) | `count`, wait queue | create, destroy, acquire, release | scheduler | units go to waiters first come first served, exactly once | `Sem`, `Semaphore` |
| Threads (`syscall.c`, `task.c`, `kernel.c`, `team.c`, `fault.c`) | task structures, `reaper_queue`, `reaper_sem`, team `refcount`, `irq_task_map` | create, spawn, sleep, wait for a thread, interrupts, terminate, reap | scheduler, a semaphore | the dead stay dead and are freed; joiners return; sleepers run; a team outlives its threads | `Threads` |
| Ports (`port.c`) | message queue, two wait queues, `slaved`, `refcount`, `nowait`, `restrict` | create, destroy, options, send, recv | scheduler | the limit holds, nobody is forgotten asleep, masters outlive slaves | `Ports` |
| Resource table (`resource.c`) | `rmap`, free list of identifiers, owner lists | bind, release, find, set owner | everything that has an identifier | an identifier names one live resource, on the list of its owner | `Resources` |
| Teams (`team.c`) | owner lists, threads, address space | create, destroy | threads, ports, semaphores, areas | nothing of a dead team is left or freed twice | `Teams` |
| Areas (`aspace.c`), pages (`memory.c`) | page tables, page groups, chain of free pages | create, clone, resize, destroy; `getpage`, `putpage` | teams, threads | a page has one owner; a group lives as long as its clones; tables and areas agree | `Areas` |
| Hash table (`libblt/hash.c`) | slots, `used`, `dirty` | insert, lookup, remove, rebuild | vfs server | every search ends and finds what was inserted | `Hash` |
| Vfs server and `libposix` | connections, descriptors on both sides, name page | open, read, stat, close, opendir, closedir, mkdir | ports, hash table | each call gets its own replies, descriptors agree, calls return | `Vfs` |
| NE2000 server | ring of buffers, transmit slots, two semaphores, two ports, mappings of UDP ports | interrupts, send, commands | ports, semaphores, the card | no buffer is lost or in two places; what is to be sent is sent | `Ne2000` |
| Window server and `libwin` | tree of windows, clip and invalid regions, event ports | create, show, hide, raise, invalidate, remove, paint, quit | ports | each point shows the window in front; what is uncovered is painted; the server and a program do not wait for each other | `Region`, `Windows` |
| qsem (`libc/qsem.c`) | a kernel semaphore | acquire, release | semaphores | as a semaphore | `Sem` |
| Pager, namer, connections, network server, device servers, libc, linker, boot, debugger, SMP, rights | | | | | no: section 7 |

The behaviours that are hard: a task woken for one reason runs only after others
have changed what it was woken for; a structure or an identifier is freed and
used again while somebody keeps it; a wakeup is consumed by a task that makes no
use of it; the reaper runs late; an interrupt comes between any two steps; a
server waits for a client that waits for it; a buffer is passed on by three
threads and a card; what a window uncovers is computed while others are painting.
`PROJECT.json` lists each hazard at its line with the properties aimed at it.

## 2. Plan

1. **Done.** The kernel's concurrency: `Sched`, `Sem` over it with the abstract
   `Semaphore`, `Threads`, `Ports`, with proofs about each.
2. **Done.** The kernel's resources: `Resources`, `Areas` over it, `Teams` over both,
   with proofs.
3. **Done.** User level: `Hash` and `Vfs` over it, with proofs; `Ne2000`, with proofs;
   `Region`, `Windows` over it.
4. **Left.** The mouse thread of the window server, if a coarser tree makes room for
   it; a tick counter that wraps.

Modules by what they extend:

    Sched <- Sem (with Semaphore), Threads, Ports
    Resources <- Areas <- Teams
    Hash <- Vfs <- VfsProofs;  Hash <- MCHash <- HashProofs
    Ne2000
    Region <- Windows
    SchedProofs <- SemProofs, PortsProofs, ThreadsProofs;  TeamsProofs;  Ne2000Proofs
    VfsProofs instantiates HashProofs: the server's table is one that HashProofs is about

The user-level modules do not extend `Ports` and `Sem`: a port is a bounded queue
there and a semaphore a counter, which is what those modules promise.

## 3. Modules

**`Sched`** has no variables. A scheduler state is a record, and each kernel
routine is an operator from one to the next; the modules above compose them in
the order of the C code (`terminate`, for example, is `rsrc_enqueue`, the flag,
`wake_all`, `wake_the_reaper`, `swtch`). A queue is a sequence of tasks, where C
has a list threaded through `task->node`; `queue.count` is its length.
`wait_time` holds ticks *left* where C holds the absolute time; `Tick` decrements
the one where C increments `kernel_timer`, which bounds the state and leaves out
the wrap of the counter. `rsrc_queue_peek` returns nothing when the queue is
empty (`resource.c:162-167`): its value is then undefined in C, and the model
takes the outcome the callers rely on, the end of the loop. `live_tasks` is left
out: it counts the reaper, which never ends, so `swtch` never stops the machine.
Statistics (`scount`), stacks and page directories are left out. The pager
thread, which sleeps on its semaphore from boot on, is left out too.

**`Sem`** (state: `sched`, `sem`, `frame`): the four system calls, each up to its
context switch, and `sem_acquire_return`, the end of a call that slept.
`frame[t]` is the call on `t`'s kernel stack. `timer` may come whenever the
running task is in user mode. A call that fails at once changes nothing and is
no action. **`Semaphore`** is what a semaphore promises: a counter and a line.
`Sem!Promise` instantiates it: `available` is the count when positive, `line` the
wait queue, `granted` and `refused` the tasks that were woken with success or
with an error and have not returned.

**`Threads`** (state: `sched`, `deaths`, `reaping`, `team`, `refcount`, `irq`,
`irq_task_map`, `unmasked`): a task structure is also the resource its joiners
wait on, because `thr_wait` casts it. `tFREE` marks a structure that has been
given back; the next thread may get the same one, and `irq_task_map` keeps
pointing to it. `deaths` is the count of `reaper_sem`. The reaper's loop is two
actions, because `sem_acquire` may switch; it runs with interrupts off (`cli`,
`kernel.c:81`). The waits of a joiner or a sleeper need no return action: what
they return is not looked at.

**`Ports`** (state: `sched`, `port`, `call`): `port[p]` is the `port_t`, `call[t]` the
send or receive in which `t` sleeps, with the arguments it holds in its frame.
`send_loop` and `recv_loop` are the `while` loops with all that follows;
`port_send_resume` and `port_recv_resume` go round again when the task runs after
a wakeup. Message contents are the source and the destination. A freed port
keeps its contents until it is allocated again, as `kfreeP` leaves them; the
allocator may reuse it for something else sooner, which is why going on with a
freed port is a finding (`ResumedOnLivePort` in `ports_freed`). The other runs exclude
it with a guard on `port_destroy` that `port.c` does not have (`RacyDestroy = FALSE`), so
`ResumedOnLivePort` is not a property of theirs; they ask what holds of ports nobody
frees too early. Which ports are sent to, which are enslaved to
which, and the arguments of the options are bounded by the constants `MaySend`,
`MaySlave`, `Restricts`, `NoWaits` and `Sizes`.

**`Resources`**, **`Areas`**, **`Teams`** (state: `rsrc`, `mem`, `team`, `task`, `port`;
`booted` and `current` while the programs are started; `made` for a bound). The first two are operators on a state, as in `Sched`; `Teams` has the
actions: a system call of a thread, or `task_destroy`, which the reaper calls,
with the `team_destroy` that follows when it was the last thread. When threads run
is left to `Threads`: here any thread calls or dies at any time. Identifiers,
pages and page groups are the least that are free, where C takes the last one
freed; both reuse at once what was freed, and no outcome depends on which it is.
`team_destroy` takes one resource after the other off a list, and destroying one may
take others off it; the model does the same with a set, in no particular order.
A thread does not destroy the area of another thread's stack (`stack_area`,
`task.c:39`, would point to a freed structure); `area_destroy` has no such check, and
the model's guard stands for programs that do not ask for it. Entries past the end of
a page table are dropped, where `aspace_map` writes to what follows the table
(`aspace.c:88-89`); this is so only when `WithinTable` is `FALSE`.

`go_kernel` is one round of the loop that starts the programs of the boot image, and no
thread runs before the last (`Started`). `area_create` binds an area to the team of
`current` (`aspace.c:228`), in whose space it need not be: when `new_thread` makes a
program's stack, `current` is still the kernel's task, which has no team, or the thread
of the program before (`kernel.c:311-313`). So the first program's stack has no owner
and each later one's is on the list of the program before, from which `team_destroy`
takes it without destroying it: the area lives on in the other team's space.
`OnlyMastersOutliveTeams` therefore asks of an area that its space is that of a living
team and that its `owner` is not that of a dead one, and of everything else that the owner
lives. What belongs to the kernel's own team (its queues, the uberport and uberarea, the
idler, reaper and pager with their stacks, `kernel.c:293-306`, `338-354`) lives for ever
and is left out.

**`Hash`** is operators on a table, with `kept`, the function the table should be, in
`MCHash`. A loop over probes is the least number of probes at which it ends, when
there is one; `ProbesEnd` says that there is. When a table grows, the model puts its
keys without the check for another growth; `GrowHolds` proves that it would not
succeed. `Vfs` uses `Hash` for the server's
connections.

**`Vfs`** (state: the server, its port, and for each program its port, its
descriptors and the call it is in). `serve` is one turn of the server's loop, with
all that it does to connections and descriptors; `send` sends what it has to say
and waits while the port is full, so the server serves nobody else meanwhile.
`takes(n)` is a program that receives. What a program asked for is kept beside the
call, and `CallsAnswered` compares it with what is on its way.

**`Ne2000`** (state: the card, the driver's slots, the ring, two semaphores, two
ports, three threads, the clients). A thread's step ends where the card or another
thread can make a difference; `sem_ring` protects just the ring, so that taking
and freeing a buffer is one step. The card receives, overruns, sends, and gives up
after collisions at any time. A frame is its kind; a buffer is a number; whether
its length is too much for the driver is in `long`.

**`Region`** is the algebra on sequences of rectangles as `Region.cpp` has it, with the
order of pieces and the consolidation that follows each operation. **`Windows`** (state:
`server`, `inq`, `events`, `proc`, and `calls` for a bound): `serve` takes a command and does
all it does to the tree; `posts` sends an event and waits while the program's port
is full; `answers` replies to `OP_CREATE_WINDOW` and `OP_BEGIN_PAINT`. Each point of the screen that is
looked at remembers which window drew there last, and whether that was painting
or the background. A program makes its window and canvases, then calls at will,
and paints when an event tells a canvas to. `Quit()`'s event is not queued: the
program ends at once, and its port with it. Every call is made with the window's lock
held. In `libwin` only `EventLoop`, `RemoveChild` and `~Window` take it (`Window.cpp:42`,
`112`, `178`): around `AddChild`, `Show`, `Hide`, `MakeFocus` and the calls of a canvas it is
for the application to do so, as `bin/winapp/main.cpp:111` does. Without it the bytes of
two commands mix in the connection's buffer, which the model does not show.

Operators whose comment says *Mutant* are not part of the specification: each
states a plausible mistake in the definition that follows it, and shows that a
property notices it.

## 4. Runs

| Run | Instance | Shows |
|---|---|---|
| `sem` | 3 tasks, 2 semaphores, initial counts 0 and 1, at most 2 spare units (`MaxCount`) | counts match queues, no task is lost, `Sem` implements `Semaphore` |
| `threads` | 3 user threads and the reaper, 3 teams, 2 interrupts asked for by one thread, sleeps of 0 and 1 tick | accounting of tasks, deaths and teams through creation, death and reuse; interrupts wake only their sleeper, although `irq_task_map` keeps stale entries |
| `threads_live` | 2 user threads and the reaper, 1 interrupt either may ask for, sleeps of 1 and 2 ticks, fairness | the dead are freed, joiners return, sleepers run; who is mapped to a shared line can be woken |
| `ports` | 3 tasks, a service port and a private one that may be its slave, 2 messages a port (`MAX_MSGCOUNT`), blocking and not | the limit; no receiver or sender forgotten |
| `ports_slave` | 2 tasks of 2 teams, 3 ports, any may be the slave of any, invalid sizes, slaving during a send | a master outlives its slaves |
| `ports_live` | 3 tasks, 1 port, 1 message, fairness | blocked senders and receivers go on |
| `ports_freed` | `RacyDestroy = TRUE` | **violated**: a woken task goes on with a freed port (`port.c:138`, `214`) |
| `teams` | two programs from boot, each with stack, text and heap, 14 identifiers, 6 pages, tables of 5 entries, 7 page groups, 2 creating calls (`MaxMade`); clones of a first heap, a second stack and what follows (`Cloned`) | identifiers, pages and tables stay accounted for; a dead team leaves nothing but masters of slaves |
| `hash` | 7 keys, tables of 5, 7 and 13 slots, 4 removals before a rebuild (`MaxDirty`) | every search ends and finds what is there |
| `vfs` | 2 programs, one with every call and one that reads, 3 descriptors, files of 3 bytes in pieces of 2, 2 messages a port | replies belong to calls, descriptors agree, calls return |
| `ne2000` | 2 buffers (`RINGSIZE = 3`), 2 messages a port, 3 frames, 2 commands, 1 client | no buffer is lost or shared; packets leave |
| `windows` | 2 programs with a window each, two canvases in one and one in the other, overlapping on a screen of 8 by 4, 2 calls (`MaxCalls`), 2 messages a port | each point belongs to the window in front; no damage is forgotten; the server waits for room in a program's port only when that cannot be for ever |

*Why the bounds are enough.* In the kernel the hazards need at most three actors:
one that sleeps, one that is woken and has not run, and one that acts between.
Three tasks give that, and the reaper is a fourth. A queue of two messages tells
"room", "full" and "room for one of two woken senders" apart; the two wait queues
of a port then hold at most two tasks. A count of two spare units exceeds every
threshold of `sem.c` (positive, zero, negative). Sleeps of one and two ticks are the
least that can be in the wrong order. `MaxRefcount` bounds a count that grows without
limit, because destroying a slave does not decrement its master's (section 6).
Task identities matter through queue order and `BootTasks`, so no symmetry is declared.

In `teams` two programs are there from boot, with stacks that are not on their own
lists; two creating calls make a third team of clones and an area in it, or two ports of
which one is enslaved, and threads die in any order: the cases in which what is
destroyed is shared. `Cloned` names which areas are cloned, so that the run ends. The
first heap is a page instead of two, for the same reason. The smallest table of `hash` fills up to its load and is
rebuilt up and down, and 7 keys include pairs that collide in the hash, in the
rehash, and in both. Files of 3 bytes in pieces of 2 give a whole piece, a part of
one and the end of the file; one reading program is enough to have its replies
taken for another's. With two buffers, both of a frame and its answer are in use
when the next frame arrives, which then gets `p_discard`; three frames overrun a
card that holds two. On the screen each window overlaps the other and its canvas;
two calls suffice to hide and show a window again, or to uncover and damage one, while
others paint; with three the same properties hold, in 1.6 million states. Three windows
are one more than an event port holds messages, so that the server does wait for room.

*What the restrictions exclude.* Each is a constant, and section 6 says what happens
without it. `RacyDestroy` and `RacySlave` are two races of `port.c`: a port destroyed
while a woken task is about to go on with it, and a port that becomes a slave
while a sender sleeps on it. `Sizes` leaves out messages that do not fit in `ports`, and
`HandledBy` gives a line one handler in `threads`, whose program or whose structure's next
program may have another line. `WithinTable` leaves out requests for
areas that the page table has no room for, and `ResizeWhole` the resizing of areas
that are shared, foreign or of device memory, or by half pages downwards.
`ReadsToEnd` leaves out reads at the end of a file, and `ReuseIds` programs whose
port has the identifier of one that ended. `Deaf` lists clients that do not read,
`Frames` leaves out pings whose answer the driver refuses. `RaisesShown` leaves out
raising a window that is shown, `UsesDetached` using a window after one of its
canvases was removed, `Points` and `Frame` edges that are less than two points apart.

*Fairness.* `SF(timer)`: the timer interrupt recurs and stays pending while
interrupts are off, so it is taken if they are on infinitely often; it is
disabled only while the reaper or a resumed call is in the kernel. `WF(reaper)`
and `WF(resume)`: a task in the kernel is not interrupted and there is nothing
it waits for, so its next step is taken. No fairness is assumed of threads in
user mode: one that never calls the kernel is preempted by the timer, because
`swtch` puts it behind the others in the run queue. `ReceiversGoOn` and
`SendersGoOn` allow that somebody else takes the message or the room.

In `Vfs`, `WF(serve)`, `WF(send)` and `WF(takes(n))`: the server and a program that waits for a
reply are runnable threads, which `SleepersRun` and the scheduler's queue bring to
run. Nothing makes a program call again. In `Ne2000`, weak fairness of the three
threads for the same reason, of the card ending a transmission it has begun, and
of a client's reading, for those that are not `Deaf`. Nothing makes a frame arrive.
`Windows` needs none: its properties are invariants.

*Deadlock* is checked in the runs of the kernel's scheduler (`sem`, `threads`, `ports` and
their variants), where the timer may always come, and in `hash`. The others stop
when their bounds on calls are used up. `CallsReturn` and `PacketsLeave` say that `vfs` and
`ne2000` do not stop before that. In `windows` they may: the program with three windows
can fill its port (section 6). What does hold there is `ServerFindsRoom`.

*Reading a few properties.* `KeepsPromise` is the refinement: with `Sem!Promise` every
step of `Sem` is one of `Semaphore` or none. `NoReceiverForgotten` says that nobody sleeps
in `port_recv` on a port that has more messages than receivers already woken for
it; `NoSenderForgotten` is its mirror. `OnlyMastersOutliveTeams`: what a destroyed
team leaves are ports that still have slaves, which `port_destroy` refuses.
`DescriptorsServed`: a descriptor of a program is one of the server's, for the same
file, at the byte after those the program was given, and no two share one.
`NoDamageForgotten`: what a canvas has not painted is in its invalid region and the
program is told or about to ask, or it is in the region the program is drawing in.
With `EachPointHasItsWindow` this gives that everything is painted once nothing is left to
be said. `ServerFindsRoom`: since `fPaintMsgSent` leaves one event due for each window, the
server finds room in the port of a program with no more windows than `MAX_MSGCOUNT` (16
in `port.c:10`), and with one more whenever that program waits for the server's answer.

## 5. Proofs

The theorems hold for every set of tasks, semaphores, ports, queues and buffers, every
number of identifiers, pages and page groups, every boot sequence and every bound, from
the named assumptions on constants (`SchedAssumption`, `SemAssumption`,
`ThreadsAssumption`, `PortsAssumption`, `ResourcesAssumption`, `AreasAssumption`,
`TeamsAssumption`, `HashAssumption`, `MCHashAssumption`,
`VfsAssumption`, `RoomAssumption`, `Ne2000Assumption`) and what each theorem states.
Where an argument is an induction (a loop over a queue, `aspace_destroy` and
`team_destroy` over a list), it is made with the least element of a set of numbers
(`LeastNatural`), which needs no theorem with an operator as a parameter.

*The scheduler* (`SchedProofs`). `Consistent(k)` is the type of a scheduler state
with `QueuesAgree`: each task is on the queue its `waiting_on` names, once. It is
not enough for a context switch, which relies on more: the current task running
and on no queue, every other task waiting, dead or in `os_sleep_irq`
(`NoTaskLost`). In the middle of a system call `NoTaskLost` is false (the current
task may have just been queued), so the lemmas about the small operations
(`AppendAgree`, `DetachHeadAgree`, `MoveHeadsAgree`) speak of `Consistent` only, and
those about whole operations (`WaitOnSafe`, `WakeAllSafe`, `HandOverSafe`,
`TimerSafe`, `SwtchSafe`) of both. `DueInQueue` uses `LeastNatural` to show that the
loop of `timer_irq` ends within the queue.

*The semaphores* (`SemProofs`). `CountMatchesWaiters` is not inductive alone: that a
release finds a waiter when the count is negative needs the queue, that the
waiter can be preempted to needs `TasksAccounted`, that a destroyed semaphore
leaves nobody behind needs `NoCountWithoutSem`. `SemInv` is their conjunction with
the type and `WaitersAreInAcquire`; `SemInvStep` has one step per action. The
theorems `SemTypeCorrect`, `SemTasksAccounted`, `SemCountMatches` and
`SemWaitersInAcquire` state for every instance what the run `sem` checks on one.
`SemKeepsPromise` is the refinement: under `SemInv` each action of `Sem` is an action of
`Semaphore` or leaves what it shows unchanged (`PromiseStep`, one lemma for each
action). The steps that need the invariant are those with waiters: a negative count
must have a line to give to, and the first in the line must be in `sem_acquire` on
this semaphore, so that waking it grants to somebody who asked.

*The threads* (`ThreadsProofs`). `ThreadsInv` is the type with `Settled` (the queues and
the tasks agree, the scheduler is between two calls), `ReaperReady` (the reaper sleeps on
`reaper_sem` only, and nobody else does) and the properties themselves: none is inductive
alone. That a joiner is not forgotten needs
the queue of each structure that is free to be empty; that the reaper finds a dead
thread when `reaper_sem` lets it go needs `DeathsCounted`, which needs the dead to be
in `reaper_queue` and nowhere else (`DeadAwaitReaper`); that the structure it frees is
counted by its team needs `TeamCountsTasks`, whose step is about the cardinality of the
set of threads that one comes into or goes from. `StepKeeps` has one case for each
action, from the lemmas of `SchedProofs` about the operations it is composed of, and
also gives `JoinOnlyTheDead` and `DeadStayDead`, which are about single steps.
`ThreadsWakeable` says, however lines are shared, that a thread asleep on a line still mapped
to it has that line enabled (`MappedSleeperCanBeWoken`): only the sleeper enables a line,
and its interrupt, which disables it, wakes him. That a sleeper stays mapped
(`SleeperCanBeWoken`) is false when a second thread asks for its line, and is only model-checked, in
`threads`, where none does. `ThreadsOwnIrq` assumes `OneHandler`: each line is asked for by one
thread at most (`HandledBy`), which may ask for others too. `irq_task_map` still names it
for those, and `irq_dispatch` does not compare; what saves it is that a line is enabled
only while its handler sleeps on it (`IrqsAgree`). Section 6 shows that both fail with a
second handler. Each server of the boot configuration has a line of its own; the demonstration `fish` asks
for the keyboard's (`fish.c:974`), which the console has (`console2/console.c:226`).

*The ports* (`PortsProofs`). Four layers, each resting on the one before:

1. `PortTypes`, and `PortsWithinLimit`, need no restriction: they hold even when ports
   vanish under sleeping tasks, because the loops look at the queue again.
   `PortsKept` and `SameLinks` say what the two loops change and what they do not.
2. `PortsMastersLive` and `PortsMasters` (finite `Ports`): a live port's master is live,
   and its reference count exceeds the number of its slaves. The step is about the cardinality of
   the set of slaves, when one comes, goes, or comes to its own master.
3. `PortsTasksAccounted`, when `RacyDestroy = FALSE`. The lemmas
   `TimerMove`, `SleepMove`, `WakeOneMove` and `WakeAllMove` say of each scheduler operation which
   tasks it disturbs; all others keep their status and sleep queue
   (`Undisturbed`). `CallsInv` adds to the types that each task asleep is on the queue
   its call names, and that its port exists, while it sleeps or goes on with
   `ERR_NONE`. A port that does not exist has empty queues, hence one that is
   created again loses nobody.
4. `PortsNoReceiverForgotten` and `PortsNoSenderForgotten` (finite `Tasks`,
   `RacyDestroy = RacySlave = FALSE`; for senders, also `Sizes \subseteq {"fits"}`). The two are one
   statement, `Covered(op, p)`: if somebody sleeps in `op` on `p`, as many tasks are woken
   for it as there are messages, or places. `Counting` turns a step's effect on the
   set of the woken into one on its size, and there is one lemma for each kind of
   step (`SendLoopCovers`, `RecvLoopCovers`, `MoveCovers`, `SleepCovers`, `IdleCovers`). `SendersUnslaved`
   is the extra invariant for which slaving in mid-send must be excluded.

The restrictions are not the proof's: without each, the run or configuration that
section 6 names violates the property.

*The teams* (`TeamsProofs`). The operators of `Teams` take and give the kernel's tables as
one record, and so does the inductive invariant, `Sound(k)`, which holds between any two
of the steps of a call, in the middle of `thr_spawn` or of the death of a team too:

- `TableSound`: identifiers and the lists of owners, with types.
- `MemSound`: an area is in one space; a group counts the areas that map it and has the
  pages they map; a group that nobody maps is empty. With `ResizeWhole`, each page of RAM
  is free or once in one group (`RamSound`), and an entry of a page table is that of the
  one area over it (`TablesSound`).
- `TeamsSound`, `MembersSound`: a team has a space of its own and counts its threads;
  threads, semaphores and spaces belong to a team that lives; an area is in a space, and
  it belongs to a team that lives, which need not be the space's, or to none.
- `PortsSound`: a port has a queue of its own with the same owner, counts more than its
  slaves, and without a team it has some. `CountsSound`: `used_pages`.

`ResourcesAccounted` is not inductive without the rest: a call binds an identifier only if
the structure behind it is gone, a thread's stack is destroyed only if it is still in
its team's space, and a dead team's list may be emptied only because nothing else names
what is on it. There is one lemma for each operator (`AreaCreateSound`, `AreaCloneSound`,
`AreaDestroySound`, `AreaResizeSound` for memory; `TeamMadeSound`, `TaskMadeSound`,
`PortMadeSound`, `PortGoneSound` and so on for the tables). The death of a team is the
longest argument. `Torn(k, m, S, j)` says what the tables `j` are when the resources `S`
of the dying team `m` have been visited, whatever the order: what has gone, what is left
without an owner, and that what has not been visited may have gone too, with a port or
with the space. `OneMoreTorn` extends it by one resource, `AllTorn` is the induction over
the list, and `TeamGoneSound` concludes. Inside it `aspace_destroy` is another such
induction (`AreasGo`). `EmptySound` shows that the tables are sound before `go_kernel`, and
`ProgramSound` that starting a program keeps them so, with an area bound to another team
than that of its space (`NewAreaSound`). The invariant is `Sound(Tables) /\ BootSound`:
`BootSound` says which team `current` is in until the programs are started.

`TeamsResources`, `TeamsMasters` and `TeamsGroups` need no restriction. `TeamsPages` and
`TeamsTables` assume `ResizeWhole`: an area that is resized maps all of a group of RAM and
is in the caller's space. Without it `area_resize` extends an area by the group's size
and enters the pages in the caller's table (section 6), so that neither holds.

*The hash table* (`HashProofs`). `Holds(t, f, D)` says that table `t` holds just the
function `f`: each key of `f` is in one slot that is not marked, which a search comes
to over slots that are taken (`Reached`), and `used` counts the slots taken, at most
one more than three quarters of them (`Counted`). A search for a key visits every slot
once (`Probes`): the size is prime and the step smaller, which is Euclid's lemma. So it
comes to a slot that was never used (`FreeSlot`) and ends, and not before the key if
the key is there (`EndIs`). An insertion keeps `Holds` because a slot that is taken
stays so (`PlaceHolds`), and so does a removal, because it only marks the slot
(`MarkHolds`). A rebuild is an induction over the slots of the old table (`GrowHolds`,
`ShrinkHolds`): what is in the first `i` of them is what the new one holds. `HashInv` adds
that a table above the smallest is rebuilt when a quarter of it is marked. The last
size is then never overloaded if the keys fill at most half of it, as
`MCHashAssumption` asks; beyond the last size `hash.c` would read past `table_size`
(its last member is 566115259). `HashAssumption` is what the comment of `hash.c`
says of the sizes: they are prime, and each is larger than the one before.

*The vfs server* (`VfsProofs`). The programs and the server run in any order, and what
relates them is where a call has got to. `VfsInv` is

- `Types`;
- `PhaseOf(n)`: a program that waits either has its command in the server's port
  (`Mail(n)`), and then nothing is due to it and its descriptors are those of its
  connection (`Agrees`), or the command is done, and what is due to it, in its own port
  or still to be sent, is the reply to this call and leads to such descriptors when it is
  received (`Replied`);
- `OnePort`, `MailSound`, `Drained`: a port belongs to one program, each message to the
  server is what its program asks, once, and a port that nobody has is empty;
- `Charted`: the table leads from each port to its connection, and to no other.

`CallsAnswered` and `DescriptorsServed` are not inductive: the second is about programs
at rest, whose descriptors differ from the server's while a reply is on its way, and
the reply is the program's own only because it has one command out at a time and its
port is no one else's. There is one lemma for each command (`OpenAnswers`,
`CloseAnswers`, `ReadAnswers` and so on: what the server says answers it) and one for each
action (`CallStep`, `ServeStep`, `SendStep`, `ReplyStep`, `PieceStep`, `ExitStep`), which
also says that the other programs see nothing of it. A read is where the argument is longest: the pieces that
are still due add up to what the server counted at once. `Charted` is kept by
`hashtable_insert`, by the theorems of `HashProofs` in an instance; nothing is ever
removed from this table, so that none of its slots is marked. `RoomAssumption` is that
three quarters of the last size hold all ports: that size is 566115259 in `hash.c`.
All this assumes that no port identifier is used again (`ReuseIds`) and that nobody reads at
the end of a file (`ReadsToEnd`), and so do the lemmas that draw the two properties from
`VfsSound` (`AnswersBeforeEnd`, `DescriptorsOfNewIds`). They are not listed as results:
the kernel does reuse identifiers at once (`resource.c:116-118`), a loop that reads a
file to its end makes the read that is left out (`cat.c:51`), and then both properties are
false (`MCVfsStale.cfg`, `MCVfsEof.cfg`). What is proved is that nothing else breaks them.

*The NE2000 server* (`Ne2000Proofs`). `NeInv` is `Shape` (types), `Points` (what a thread
holds at each of its steps), `Driver` (the card transmits from the first slot, and
only when the slot, the driver and the interrupt thread agree that one is being
sent) and `Places`. The free list, `port_xmit` and six *hands* (the variables of the
threads and the slots of the driver) are the places a buffer can be in; `Places`
says that no buffer is in two of them, and, when no answer is too long for the
driver, that each is in one. All the actions move buffers in seven ways only,
proved once on sequences and sets (`TakeFree`, `PutFree`, `PutQueue`, `TakeQueue`, `PassOn`,
`NoBuffer`, `Forget`); one lemma then treats each group of actions (`IsrWithoutBuffers`,
`IsrWithBuffers`, `OthersWithoutBuffers`, `OthersWithBuffers`). `Driver` is what makes it
inductive: `nic_tx` frees the buffer of a slot, and only the agreement of card and
slot says that this is the one sent. `BuffersNeverShared` holds whatever arrives;
`BuffersNeverLost` needs `NoLongReply`, as section 6 shows.

*Only model-checked.* The safety properties of `Windows`, whose tree and regions are recursive operators, which the prover does not take;
the liveness properties (`DeadAreReaped`, `JoinersReturn`, `SleepersRun`, `ReceiversGoOn`,
`SendersGoOn`, `CallsReturn`, `PacketsLeave`), which are beyond it (fairness and ENABLED).

## 6. Findings

`ports_freed` is a run that shows a violation; `PROJECT.json` quotes what the code says.
The others below were met while modelling. Those with a configuration file are
reproduced by `tlc -config <file> <module>`; they are the reasons for the
restrictions of section 4.

| What happens | Where | Configuration, property |
|---|---|---|
| A sleeper is late behind one that sleeps longer: the handler stops at the first that is not due | `resource.c:138` | `MCThreadsOrder.cfg`, `SleepersWakeOnTime` |
| A second handler of an interrupt makes the first unreachable; when it handles another line after it, either line wakes it | `syscall.c:101`, `fault.c:162` | `MCThreadsIrq.cfg`, `SleeperCanBeWoken`, `WokenByOwnIrq` |
| A sender of a message that does not fit consumes a wakeup | `port.c:143` | `MCPortsSizes.cfg`, `NoSenderForgotten` |
| A slave that is destroyed is still counted by its master, which can never be destroyed | `port.c:44` | `MCPortsRefcount.cfg`, `RefcountExact` |
| A port enslaved while a sender sleeps on it: the message wakes the master's receiver and is in the slave's queue | `port.c:179` | `MCPortsMidSlave.cfg`, `NoReceiverForgotten` |
| A read at the end of a file sends a piece too many; every later reply is taken for the call after it | `vfs.c:636-641` | `MCVfsEof.cfg`, `CallsAnswered` |
| Connections are never removed: a later program with the same port identifier is served with the descriptors of the one that ended | `vfs.c:60` | `MCVfsStale.cfg`, `DescriptorsServed` |
| A frame that arrives while the interrupt is acknowledged is not read until another comes | `ne2000.c:613` | `MCNe2000Frames.cfg`, `AllFramesRead` |
| A packet that is too long is refused; its buffer is never freed, and the sender waits for ever | `ne2000.c:322` | `MCNe2000Long.cfg`, `BuffersAccounted` |
| A client that does not read its port stops the interrupt thread, which holds the card | `ne2k.c:339` | `MCNe2000Deaf.cfg`, `PacketsLeave` |
| After `MAX_LOAD` rounds the end of a transmission is cleared unseen, and the sender waits for ever | `ne2000.c:275` | `MCNe2000Load.cfg` (a load of 2), `PacketsLeave` |
| Raising a window that is shown wipes it: it does not see that it must repaint | `Window.cpp:124` | `MCWindowsRaised.cfg`, `NoDamageForgotten` |
| Removing a canvas forgets the *parent's* parent: the window can then not be hidden, and stays in the tree when it is freed | `Window.cpp:117` | `MCWindowsDetached.cfg`, `EachPointHasItsWindow` |
| The server waits for room in the event port of a program that waits for its reply, when that program has at least two windows more than the port holds messages, or for room in the server's port | `Window.cpp:270` | `MCWindowsFull.cfg` (ports of 1), `AllDoneAtRest` |
| Pieces of a region one pixel wide are dropped | `Region.cpp:82` | `MCWindowsThin.cfg`, `EachPointHasItsWindow` |
| A span cut short by the end of the page table is used as if it were long enough | `aspace.c:149` | `MCTeams.cfg` with `WithinTable = FALSE` and `AreasInTable` |

Without a configuration:

- Kernel: `ipcdocs:11` says of `restrict` "Only allow messages from port 'restrict' to be
  received"; the tests of it are commented out (`port.c:124`, `131`) and nothing reads
  the field. `os_brk` subtracts a page number from a byte address (`kernel.c:267`).
  `area_resize` takes the group's size for the area's and the caller's table for the
  area's (`aspace.c:416`). `rsrc_identify` dereferences the owner of a port that has
  outlived its team (`resource.c:59-63`). `memory_init` puts the first page of the page
  list itself in the chain of free pages (`memory.c:234-248`). Any team may delete any port.
- Vfs: `vfs_close` leaves the descriptor in the server's table (`vfs.c:310`), as does an
  `opendir` of a file that fails; when a program has no descriptor left, the one the
  server has opened stays. `mkdir` returns 0, which is not `VFS_OK`. The client
  library has no lock.
- NE2000: the second transmit slot is never used; `packets` is never incremented, so
  that `MAX_RX` bounds nothing; mappings of clients that are gone stay (`ne2k.c:340`).
- Windows: `OP_DRAW_STRING` falls through into `OP_DESTROY_WINDOW`, which eats part of the
  next command (modelled: text as the last drawing eats `OP_END_PAINT`); `fInRedraw` is
  not initialised (a nondeterministic choice); `Invalidate(Rect)` erases children too;
  `ChildAtPoint` finds hidden windows; the mouse thread reads the tree without a lock;
  a `Rect` reference in `Exclude` dangles when the array grows beyond 16.

## 7. Not modelled

*In the modelled components.* More than one processor (`__SMP__`); exceptions other
than as a call of `terminate`; `kernel_timer` wrapping; waiting for the idle task;
memory exhaustion, which panics; `kmalloc`, which never gives a page back; the
area made for the kernel at boot (`area_create_uber`) and the permissions of pages;
the 8k areas that come with each open of a file and are never filled, listings and
mounts; reading past the header of a packet that does not match, the card's
statistics and initialisation; the mouse thread, which only reads the window tree
(with it an instance with a canvas each had thirteen times the states), drawing outside of a paint event,
`OP_COPY_RECT`, commands split at 4096 bytes.

*Components.*

- The pager: no trap reaches `page_fault` in this commit, since vector 14 is
  `__faultE`; its thread sleeps from boot on.
- The namer, `Connection` and `Message`: one thread that serves a list, one request
  and one reply at a time, over ports that `Ports` models.
- The network server: not built (`srv/Makefile` does not list it). `mput` loses each
  buffer it is given (`mbuf.c:98-99`), so that there is nothing to preserve.
- qsem beyond the build that `make.conf` selects, in which each operation is one of a
  kernel semaphore.
- Rights: stubs. SMP: compiled with `__SMP__` only.
- Device servers: register-level I/O on top of the interrupts that `Threads` models.
  Boot, debugger and tracing: straight-line code at the console.
- `libc` (of which `malloc.c` is Doug Lea's), `libposix` but for its vfs calls, the dynamic
  linker: sequential library code without state shared with the kernel.

A large share of the repository's lines is of these kinds: the allocator, the
network boot loader (`netboot`), a second copy of the NE2000 driver in it and a third
in the network server, demonstrations (`srv/fish`, `bin`).
