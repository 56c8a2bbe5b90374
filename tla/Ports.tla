------------------------------- MODULE Ports -------------------------------
(***************************************************************************)
(* Message ports (port.c) on the scheduler: creation and destruction, the  *)
(* options that make a port nonblocking, restricted or the slave of        *)
(* another, and blocking send and receive.                                 *)
(*                                                                         *)
(* A task that must wait in port_send() or port_recv() sleeps with a       *)
(* pointer to the port in hand; when it is woken and runs, it goes round   *)
(* the loop again, on that pointer.  Between its wakeup and that moment    *)
(* any other task may run.                                                 *)
(*                                                                         *)
(* A port's identifier, its port_t and its send queue are one value of     *)
(* Ports: they are taken and given back together.  A freed port_t keeps    *)
(* its contents until it is allocated again (kfreeP links it and no more). *)
(* A call that returns an error at once changes nothing.                   *)
(***************************************************************************)
EXTENDS Sched, FiniteSets

CONSTANTS Ports,         \* the ports; also the queues of their receivers
          SendQueue,     \* SendQueue[p], the queue of p's blocked senders
          NoPort,        \* 0, the identifier of no port
          MAX_MSGCOUNT,  \* messages a port holds (16 in the code)
          Teams,         \* owners of ports
          TeamOf,        \* TeamOf[t], the team of task t
          MaySend,       \* pairs <<source, destination>> passed to port_send()
          MaySlave,      \* pairs <<port, master>> passed to port_slave()
          Restricts,     \* arguments of port_create() and port_set_restrict()
          NoWaits,       \* arguments of port_option(PORT_OPT_NOWAIT)
          Sizes,         \* sizes of messages sent: "fits" or "toobig"
          MaxRefcount,   \* bound on a port's refcount, which destroying
                         \* slaves never lowers
          RacyDestroy,   \* may a port be destroyed while a woken task is
                         \* about to go on with its pointer to the port?
          RacySlave      \* may a port become a slave while a task that wants
                         \* to send to it sleeps or is about to go on?

ASSUME PortsAssumption ==
    /\ Ports \subseteq Queues \ {RunQueue, TimerQueue}
    /\ SendQueue \in [Ports -> Queues \ (Ports \cup {RunQueue, TimerQueue})]
    /\ \A p, q \in Ports : SendQueue[p] = SendQueue[q] => p = q
    /\ NoPort \notin Ports
    /\ MAX_MSGCOUNT \in Nat \ {0}
    /\ TeamOf \in [Tasks -> Teams]
    /\ MaySend \subseteq Ports \X Ports
    /\ MaySlave \subseteq Ports \X (Ports \cup {NoPort})
    /\ Restricts \subseteq Ports \cup {NoPort}
    /\ NoWaits \subseteq BOOLEAN
    /\ Sizes \subseteq {"fits", "toobig"}
    /\ MaxRefcount \in Nat
    /\ RacyDestroy \in BOOLEAN
    /\ RacySlave \in BOOLEAN

VARIABLES sched,  \* the scheduler, see Sched
          port,   \* port[p], the port_t
          call    \* call[t], the call in which t sleeps, or from which it has
                  \* been woken and goes on when it runs

vars == <<sched, port, call>>

Messages == [from : Ports, to : Ports]
InUserMode == [op |-> "user"]
Sending(p, m, size) == [op |-> "send", port |-> p, msg |-> m, size |-> size]
Receiving(p) == [op |-> "recv", port |-> p]
Calls == {InUserMode}
         \cup {Sending(p, m, size) : p \in Ports, m \in Messages, size \in Sizes}
         \cup {Receiving(p) : p \in Ports}

Self == sched.current
CanCall == Self \in Tasks /\ call[Self] = InUserMode
InKernel == Self \in Tasks /\ call[Self] # InUserMode

UnusedPort == [live |-> FALSE, owner |-> CHOOSE m \in Teams : TRUE,
               msgs |-> <<>>, slaved |-> NoPort, refcount |-> 0,
               nowait |-> FALSE, restrict |-> NoPort]

Init ==
    /\ sched = SchedInit
    /\ port = [p \in Ports |-> UnusedPort]
    /\ call = [t \in Tasks |-> InUserMode]

-----------------------------------------------------------------------------
(* Ports come and go.                                                      *)

\* rsrc_bind() starts both queues empty.
port_create(p, r) ==
    /\ CanCall
    /\ ~port[p].live
    /\ port' = [port EXCEPT ![p] =
           [UnusedPort EXCEPT !.live = TRUE, !.owner = TeamOf[Self],
                              !.refcount = 1, !.restrict = r]]
    /\ sched' = [sched EXCEPT !.queue[p] = <<>>, !.queue[SendQueue[p]] = <<>>]
    /\ UNCHANGED call

\* The tasks that have been woken to go on with p and have not run yet.
Asleep(t) == sched.waiting_on[t] \in Queues \ {RunQueue, TimerQueue}
GoesOn(t) == call[t] # InUserMode /\ ~Asleep(t) /\ sched.status[t] = ERR_NONE
Woken(op, p) == {t \in Tasks : GoesOn(t) /\ call[t].op = op /\ call[t].port = p}

\* Mutant: slaves do not keep their master alive.
port_destroy_master(p) ==
    /\ CanCall
    /\ port[p].live
    /\ RacyDestroy \/ Woken("send", p) \cup Woken("recv", p) = {}
    /\ port' = [port EXCEPT ![p].live = FALSE]
    /\ sched' = wake_all(wake_all(sched, p, ERR_RESOURCE),
                         SendQueue[p], ERR_RESOURCE)
    /\ UNCHANGED call

\* Any task may destroy a port.  Its master, if it has one, keeps counting
\* it, and its messages are not freed.  The guard about the woken is not in
\* port.c: without RacyDestroy the destruction that ports_freed shows to go
\* wrong is left out.
port_destroy(p) ==
    /\ CanCall
    /\ port[p].live
    /\ port[p].refcount = 1
    /\ RacyDestroy \/ Woken("send", p) \cup Woken("recv", p) = {}
    /\ port' = [port EXCEPT ![p].live = FALSE]
    /\ sched' = wake_all(wake_all(sched, p, ERR_RESOURCE),
                         SendQueue[p], ERR_RESOURCE)
    /\ UNCHANGED call

-----------------------------------------------------------------------------
(* port_option().                                                          *)

MayOption(p) == CanCall /\ port[p].live /\ port[p].owner = TeamOf[Self]

\* Nothing reads restrict: the tests of it in port_send() are commented out.
set_restrict(p, r) ==
    /\ MayOption(p)
    /\ port' = [port EXCEPT ![p].restrict = r]
    /\ UNCHANGED <<sched, call>>

set_nowait(p, b) ==
    /\ MayOption(p)
    /\ port' = [port EXCEPT ![p].nowait = b]
    /\ UNCHANGED <<sched, call>>

\* Mutant: the new master does not count its slave.
port_slave_uncounted(p, master) ==
    /\ MayOption(p)
    /\ master # NoPort => /\ port[master].live
                          /\ port[master].owner = TeamOf[Self]
                          /\ port[master].refcount < MaxRefcount
    /\ RacySlave \/ \A t \in Tasks : call[t] # InUserMode /\ call[t].op = "send"
                                          => call[t].port # p
    /\ LET released == IF port[p].slaved = NoPort THEN port
                       ELSE [port EXCEPT ![port[p].slaved].refcount = @ - 1]
       IN port' = [released EXCEPT ![p].slaved = master]
    /\ UNCHANGED <<sched, call>>

\* The new master is counted before the old one is released, so that both
\* may be the same port; a port may be its own master, or a slave's slave.
\* The kernel panics when the old master does not exist.
port_slave(p, master) ==
    /\ MayOption(p)
    /\ master # NoPort => /\ port[master].live
                          /\ port[master].owner = TeamOf[Self]
                          /\ port[master].refcount < MaxRefcount
    /\ RacySlave \/ \A t \in Tasks : call[t] # InUserMode /\ call[t].op = "send"
                                          => call[t].port # p
    /\ LET counted  == IF master = NoPort THEN port
                       ELSE [port EXCEPT ![master].refcount = @ + 1]
           released == IF port[p].slaved = NoPort THEN counted
                       ELSE [counted EXCEPT ![port[p].slaved].refcount = @ - 1]
       IN port' = [released EXCEPT ![p].slaved = master]
    /\ UNCHANGED <<sched, call>>

-----------------------------------------------------------------------------
(* port_send().                                                            *)

Return == [call EXCEPT ![Self] = InUserMode]

\* Where a send to dst goes: dst, or its master, which must not be a slave.
Target(dst) == IF port[dst].slaved = NoPort THEN dst ELSE port[dst].slaved
Deliverable(dst) ==
    /\ port[dst].live
    /\ port[dst].slaved # NoPort => /\ port[port[dst].slaved].live
                                    /\ port[port[dst].slaved].slaved = NoPort

\* Mutants: a receiver is woken only by the first message; nobody is woken.
WakeFirstReceiver(k, p) ==
    IF Len(port[p].msgs) > 0 THEN k ELSE wake_one(k, p, ERR_NONE)
WakeNoReceiver(k, p) == k

\* The queue whose receiver is woken: when p has become a slave while the
\* sender slept, it is p's master's.
WakeReceiver(k, p) ==
    IF port[p].slaved = NoPort THEN wake_one(k, p, ERR_NONE)
    ELSE IF port[port[p].slaved].live
         THEN wake_one(k, port[p].slaved, ERR_NONE) ELSE k

\* The loop on msgcount and what follows it.  The size is looked at only
\* when there is room.
send_loop(p, m, size) ==
    IF Len(port[p].msgs) >= MAX_MSGCOUNT
    THEN IF port[p].nowait
         THEN call' = Return /\ UNCHANGED <<sched, port>>
         ELSE /\ sched' = wait_on(sched, SendQueue[p])
              /\ call' = [call EXCEPT ![Self] = Sending(p, m, size)]
              /\ UNCHANGED port
    ELSE /\ call' = Return
         /\ IF size = "toobig"
            THEN UNCHANGED <<sched, port>>
            ELSE /\ port' = [port EXCEPT ![p].msgs = Append(@, m)]
                 /\ sched' = WakeReceiver(sched, p)

port_send(src, dst, size) ==
    /\ CanCall
    /\ port[src].live
    /\ Deliverable(dst)
    /\ send_loop(Target(dst), [from |-> src, to |-> dst], size)

\* Mutant: the woken sender does not look again whether there is room.
port_send_resume_unchecked ==
    /\ InKernel
    /\ call[Self].op = "send"
    /\ call' = Return
    /\ IF sched.status[Self] # ERR_NONE
       THEN UNCHANGED <<sched, port>>
       ELSE /\ port' = [port EXCEPT ![call[Self].port].msgs = Append(@, call[Self].msg)]
            /\ sched' = WakeReceiver(sched, call[Self].port)

port_send_resume ==
    /\ InKernel
    /\ call[Self].op = "send"
    /\ IF sched.status[Self] # ERR_NONE
       THEN call' = Return /\ UNCHANGED <<sched, port>>
       ELSE send_loop(call[Self].port, call[Self].msg, call[Self].size)

-----------------------------------------------------------------------------
(* port_recv().                                                            *)

\* Mutant: a sender is woken only when the port was full.
recv_loop_wakes_when_full(p) ==
    IF port[p].msgs = <<>>
    THEN IF port[p].nowait
         THEN call' = Return /\ UNCHANGED <<sched, port>>
         ELSE /\ sched' = wait_on(sched, p)
              /\ call' = [call EXCEPT ![Self] = Receiving(p)]
              /\ UNCHANGED port
    ELSE /\ port' = [port EXCEPT ![p].msgs = Tail(@)]
         /\ sched' = IF Len(port[p].msgs) < MAX_MSGCOUNT THEN sched
                     ELSE wake_one(sched, SendQueue[p], ERR_NONE)
         /\ call' = Return

\* Mutant: nobody wakes a sender.
recv_loop_wakes_nobody(p) ==
    IF port[p].msgs = <<>>
    THEN IF port[p].nowait
         THEN call' = Return /\ UNCHANGED <<sched, port>>
         ELSE /\ sched' = wait_on(sched, p)
              /\ call' = [call EXCEPT ![Self] = Receiving(p)]
              /\ UNCHANGED port
    ELSE /\ port' = [port EXCEPT ![p].msgs = Tail(@)]
         /\ call' = Return
         /\ UNCHANGED sched

\* Taking a message wakes one sender.
recv_loop(p) ==
    IF port[p].msgs = <<>>
    THEN IF port[p].nowait
         THEN call' = Return /\ UNCHANGED <<sched, port>>
         ELSE /\ sched' = wait_on(sched, p)
              /\ call' = [call EXCEPT ![Self] = Receiving(p)]
              /\ UNCHANGED port
    ELSE /\ port' = [port EXCEPT ![p].msgs = Tail(@)]
         /\ sched' = wake_one(sched, SendQueue[p], ERR_NONE)
         /\ call' = Return

port_recv(p) == CanCall /\ port[p].live /\ recv_loop(p)

port_recv_resume ==
    /\ InKernel
    /\ call[Self].op = "recv"
    /\ IF sched.status[Self] # ERR_NONE
       THEN call' = Return /\ UNCHANGED <<sched, port>>
       ELSE recv_loop(call[Self].port)

-----------------------------------------------------------------------------
timer ==
    /\ ~InKernel
    /\ sched' = timer_irq(sched)
    /\ UNCHANGED <<port, call>>

resume == port_send_resume \/ port_recv_resume

Next ==
    \/ \E p \in Ports, r \in Restricts : port_create(p, r) \/ set_restrict(p, r)
    \/ \E p \in Ports : port_destroy(p) \/ port_recv(p)
    \/ \E p \in Ports, b \in NoWaits : set_nowait(p, b)
    \/ \E pm \in MaySlave : port_slave(pm[1], pm[2])
    \/ \E sd \in MaySend, size \in Sizes : port_send(sd[1], sd[2], size)
    \/ resume
    \/ timer

\* The timer interrupt is taken whenever interrupts are on again; a task in
\* the kernel is not interrupted and goes on.
Fairness == SF_vars(timer) /\ WF_vars(resume)

Spec == Init /\ [][Next]_vars
FairSpec == Spec /\ Fairness

-----------------------------------------------------------------------------
TypeOK ==
    /\ sched \in SchedStates
    /\ port \in [Ports -> [live : BOOLEAN, owner : Teams, msgs : Seq(Messages),
                           slaved : Ports \cup {NoPort}, refcount : Int,
                           nowait : BOOLEAN, restrict : Ports \cup {NoPort}]]
    /\ call \in [Tasks -> Calls]

(* The scheduler's queues and the tasks agree, and no task is lost in a    *)
(* send or a receive.                                                      *)
TasksAccounted == QueuesAgree(sched) /\ NoTaskLost(sched)

(* A port never holds more than MAX_MSGCOUNT messages, although a sender   *)
(* that was woken because there was room may find the room taken.          *)
WithinLimit == \A p \in Ports : Len(port[p].msgs) <= MAX_MSGCOUNT

(* Nobody sleeps in port_recv() on a port with messages, unless a receiver *)
(* that has been woken and has not run yet will take each of them          *)
(* (port.c:177: "If a thread is sleeping on the destination, wake it up"). *)
NoReceiverForgotten ==
    \A p \in Ports : port[p].live /\ sched.queue[p] # <<>> =>
        Len(port[p].msgs) <= Cardinality(Woken("recv", p))

(* Nobody sleeps in port_send() on a port with room, unless a sender that  *)
(* has been woken and has not run yet will fill each free place            *)
(* (port.c:141: a send of an invalid size is to be ignored).               *)
NoSenderForgotten ==
    \A p \in Ports : port[p].live /\ sched.queue[SendQueue[p]] # <<>> =>
        MAX_MSGCOUNT - Len(port[p].msgs) <= Cardinality(Woken("send", p))

Slaves(m) == {p \in Ports : port[p].live /\ port[p].slaved = m}

(* A master exists as long as it has slaves: port_option() does not panic  *)
(* on a master it cannot find (port.c:84), and a send to a slave finds it. *)
MastersLive ==
    \A p \in Ports : port[p].live /\ port[p].slaved # NoPort =>
        port[port[p].slaved].live

(* Why a master outlives its slaves: it counts each of them.               *)
MastersCountSlaves ==
    \A m \in Ports : port[m].live =>
        port[m].refcount >= 1 + Cardinality(Slaves(m))

(* The count is exact (port.h: it "counts owner and any slaved ports"), so *)
(* that a port whose slaves are all gone can be destroyed.                 *)
RefcountExact ==
    \A m \in Ports : port[m].live =>
        port[m].refcount = 1 + Cardinality(Slaves(m))

(* A task that goes on in a send or receive works on the port it checked   *)
(* for before it slept (port.c:122 and 200: "insure the port exists").     *)
(* Does not hold; RacyDestroy = FALSE assumes as much.                     *)
ResumedOnLivePort ==
    \A t \in Tasks : GoesOn(t) => port[call[t].port].live

(* A receiver that sleeps on a port with messages returns, or somebody     *)
(* else takes the messages.                                                *)
InRecv(p) == {t \in Tasks : call[t] = Receiving(p)}
ReceiversGoOn ==
    \A p \in Ports : port[p].msgs # <<>> /\ InRecv(p) # {} ~>
        port[p].msgs = <<>> \/ InRecv(p) = {}

(* A sender that sleeps on a port with room returns, or others fill it.    *)
InSend(p) == {t \in Tasks : call[t] # InUserMode /\ call[t].op = "send"
                                                 /\ call[t].port = p}
SendersGoOn ==
    \A p \in Ports : Len(port[p].msgs) < MAX_MSGCOUNT /\ InSend(p) # {} ~>
        Len(port[p].msgs) = MAX_MSGCOUNT \/ InSend(p) = {}
=============================================================================
