---------------------------- MODULE PortsProofs ----------------------------
(***************************************************************************)
(* The safety of the kernel's message ports, for any number of tasks and   *)
(* ports: the invariants that the runs of Ports check on a few.            *)
(*                                                                         *)
(* First what the ports alone say: the limit of their queues, and masters  *)
(* and slaves.  Then what ports and scheduler say together: no task is     *)
(* lost, none goes on with a port that is gone, no receiver and no sender  *)
(* is forgotten.                                                           *)
(***************************************************************************)
EXTENDS Ports, SchedProofs, FiniteSetTheorems

-----------------------------------------------------------------------------
(* The ports alone.                                                        *)

PortStates == [live : BOOLEAN, owner : Teams, msgs : Seq(Messages),
               slaved : Ports \cup {NoPort}, refcount : Int,
               nowait : BOOLEAN, restrict : Ports \cup {NoPort}]

PortTypes == port \in [Ports -> PortStates] /\ call \in [Tasks -> Calls]

(* The fields of a port.                                                   *)
LEMMA PortFields ==
    ASSUME NEW r \in PortStates
    PROVE  /\ r.live \in BOOLEAN /\ r.owner \in Teams /\ r.msgs \in Seq(Messages)
           /\ r.slaved \in Ports \cup {NoPort} /\ r.refcount \in Int
           /\ r.nowait \in BOOLEAN /\ r.restrict \in Ports \cup {NoPort}
  BY DEF PortStates

(* A freed port_t is a port_t: some team exists, that of a task at boot.   *)
LEMMA UnusedPortType ==
    /\ UnusedPort \in PortStates
    /\ UnusedPort.msgs = <<>> /\ UnusedPort.slaved = NoPort
  <1>1. BootTasks[1] \in Tasks
    BY SchedAssumption
  <1>2. \E m \in Teams : TRUE
    BY <1>1, PortsAssumption
  <1>3. (CHOOSE m \in Teams : TRUE) \in Teams
    BY <1>2
  <1>4. <<>> \in Seq(Messages)
    OBVIOUS
  <1> QED BY <1>3, <1>4 DEF UnusedPort, PortStates

(* A port as port_create() leaves it, from whatever the port_t held.       *)
Fresh(u, o, r) == [u EXCEPT !.live = TRUE, !.owner = o, !.refcount = 1, !.restrict = r]

(* It is a port_t, and nobody's master but for its own count.              *)
LEMMA FreshType ==
    ASSUME NEW u \in PortStates, NEW o \in Teams, NEW r \in Ports \cup {NoPort}
    PROVE  /\ Fresh(u, o, r) \in PortStates
           /\ Fresh(u, o, r).live /\ Fresh(u, o, r).refcount = 1
           /\ Fresh(u, o, r).msgs = u.msgs /\ Fresh(u, o, r).slaved = u.slaved
  <1> DEFINE a == [u EXCEPT !.live = TRUE]
             b == [a EXCEPT !.owner = o]
             c == [b EXCEPT !.refcount = 1]
             d == [c EXCEPT !.restrict = r]
  <1>1. a \in PortStates /\ a.live /\ a.msgs = u.msgs /\ a.slaved = u.slaved
    BY DEF PortStates
  <1> HIDE DEF a
  <1>2. b \in PortStates /\ b.live = a.live /\ b.msgs = a.msgs /\ b.slaved = a.slaved
    BY <1>1 DEF PortStates
  <1> HIDE DEF b
  <1>3. /\ c \in PortStates /\ c.live = b.live /\ c.msgs = b.msgs /\ c.slaved = b.slaved
        /\ c.refcount = 1
    BY <1>2 DEF PortStates
  <1> HIDE DEF c
  <1>4. /\ d \in PortStates /\ d.live = c.live /\ d.msgs = c.msgs /\ d.slaved = c.slaved
        /\ d.refcount = c.refcount
    BY <1>3 DEF PortStates
  <1> HIDE DEF d
  <1>5. Fresh(u, o, r) = d
    BY DEF Fresh, a, b, c, d
  <1> QED BY <1>1, <1>2, <1>3, <1>4, <1>5

(* The calls a task may be in.                                             *)
LEMMA CallFields ==
    ASSUME NEW c \in Calls, c # InUserMode
    PROVE  /\ c.op \in {"send", "recv"} /\ c.port \in Ports
           /\ c.op = "send" => /\ c.msg \in Messages /\ c.size \in Sizes
                               /\ c = Sending(c.port, c.msg, c.size)
           /\ c.op = "recv" => c = Receiving(c.port)
  BY DEF Calls, InUserMode, Sending, Receiving

(* Whether it exists, its master and its count.                            *)
SameLinks ==
    \A p \in Ports : /\ port'[p].live = port[p].live
                     /\ port'[p].slaved = port[p].slaved
                     /\ port'[p].refcount = port[p].refcount

\* What a step of port_send() or port_recv() leaves of the ports.
PortsKept == PortTypes' /\ SameLinks /\ (WithinLimit => WithinLimit')

(* The end of a call.                                                      *)
LEMMA ReturnType ==
    ASSUME PortTypes, Self \in Tasks
    PROVE  Return \in [Tasks -> Calls]
  <1>1. InUserMode \in Calls
    BY DEF Calls
  <1> QED BY <1>1 DEF PortTypes, Return

(* The loop of port_send() (port.c:135-190): a message is added only where *)
(* there is room.                                                          *)
LEMMA SendLoopKeeps ==
    ASSUME PortTypes, Self \in Tasks, NEW p \in Ports, NEW m \in Messages,
           NEW size \in Sizes, send_loop(p, m, size)
    PROVE  PortsKept
  <1>1. port \in [Ports -> PortStates] /\ call \in [Tasks -> Calls]
    BY DEF PortTypes
  <1>2. Sending(p, m, size) \in Calls
    BY DEF Calls
  <1>3. Return \in [Tasks -> Calls]
    BY ReturnType
  <1>4. CASE port' = port
    <2>1. call' \in [Tasks -> Calls]
      BY <1>1, <1>2, <1>3 DEF send_loop
    <2> QED BY <1>4, <1>1, <2>1 DEF PortsKept, PortTypes, SameLinks, WithinLimit
  <1>5. CASE port' # port
    <2>1. /\ Len(port[p].msgs) < MAX_MSGCOUNT
          /\ port' = [port EXCEPT ![p].msgs = Append(@, m)]
          /\ call' = Return
      <3>1. port[p].msgs \in Seq(Messages)
        BY <1>1, PortFields
      <3> QED BY <1>5, <3>1, PortsAssumption DEF send_loop
    <2>2. port[p] \in PortStates /\ port[p].msgs \in Seq(Messages)
      BY <1>1, PortFields
    <2>3. Append(port[p].msgs, m) \in Seq(Messages)
      BY <2>2
    <2>4. [port[p] EXCEPT !.msgs = Append(@, m)] \in PortStates
      BY <2>2, <2>3 DEF PortStates
    <2>5. port' = [port EXCEPT ![p] = [port[p] EXCEPT !.msgs = Append(@, m)]]
      BY <2>1
    <2>6. port' \in [Ports -> PortStates]
      BY <2>4, <2>5, <1>1
    <2>7. SameLinks
      BY <2>2, <2>5, <1>1 DEF SameLinks, PortStates
    <2>8. ASSUME WithinLimit PROVE WithinLimit'
      <3>1. Len(port'[p].msgs) = Len(port[p].msgs) + 1
        BY <2>2, <2>5, <1>1 DEF PortStates
      <3>2. \A q \in Ports \ {p} : port'[q] = port[q]
        BY <2>5, <1>1
      <3>3. Len(port'[p].msgs) <= MAX_MSGCOUNT
        BY <3>1, <2>1, <2>2, PortsAssumption
      <3> QED BY <2>8, <3>2, <3>3 DEF WithinLimit
    <2> QED BY <2>1, <2>6, <2>7, <2>8, <1>3 DEF PortsKept, PortTypes
  <1> QED BY <1>4, <1>5

(* The loop of port_recv() (port.c:210-242).                               *)
LEMMA RecvLoopKeeps ==
    ASSUME PortTypes, Self \in Tasks, NEW p \in Ports, recv_loop(p)
    PROVE  PortsKept
  <1>1. port \in [Ports -> PortStates] /\ call \in [Tasks -> Calls]
    BY DEF PortTypes
  <1>2. Receiving(p) \in Calls
    BY DEF Calls
  <1>3. Return \in [Tasks -> Calls]
    BY ReturnType
  <1>4. CASE port' = port
    <2>1. call' \in [Tasks -> Calls]
      BY <1>1, <1>2, <1>3 DEF recv_loop
    <2> QED BY <1>4, <1>1, <2>1 DEF PortsKept, PortTypes, SameLinks, WithinLimit
  <1>5. CASE port' # port
    <2>1. /\ port[p].msgs # <<>>
          /\ port' = [port EXCEPT ![p].msgs = Tail(@)]
          /\ call' = Return
      BY <1>5 DEF recv_loop
    <2>2. port[p] \in PortStates /\ port[p].msgs \in Seq(Messages)
      BY <1>1, PortFields
    <2>3. Tail(port[p].msgs) \in Seq(Messages)
      BY <2>1, <2>2
    <2>4. [port[p] EXCEPT !.msgs = Tail(@)] \in PortStates
      BY <2>2, <2>3 DEF PortStates
    <2>5. port' = [port EXCEPT ![p] = [port[p] EXCEPT !.msgs = Tail(@)]]
      BY <2>1
    <2>6. port' \in [Ports -> PortStates]
      BY <2>4, <2>5, <1>1
    <2>7. SameLinks
      BY <2>2, <2>5, <1>1 DEF SameLinks, PortStates
    <2>8. ASSUME WithinLimit PROVE WithinLimit'
      <3>1. Len(port'[p].msgs) = Len(port[p].msgs) - 1
        BY <2>1, <2>2, <2>5, <1>1 DEF PortStates
      <3>2. \A q \in Ports \ {p} : port'[q] = port[q]
        BY <2>5, <1>1
      <3>3. Len(port[p].msgs) <= MAX_MSGCOUNT
        BY <2>8 DEF WithinLimit
      <3>4. Len(port'[p].msgs) <= MAX_MSGCOUNT
        BY <3>1, <3>3, <2>2, PortsAssumption
      <3> QED BY <2>8, <3>2, <3>4 DEF WithinLimit
    <2> QED BY <2>1, <2>6, <2>7, <2>8, <1>3 DEF PortsKept, PortTypes
  <1> QED BY <1>4, <1>5

Sends == \/ \E sd \in MaySend, size \in Sizes : port_send(sd[1], sd[2], size)
         \/ \E p \in Ports : port_recv(p)
         \/ resume

(* Where a send goes exists (port.c:127-133).                              *)
LEMMA TargetLive ==
    ASSUME PortTypes, NEW dst \in Ports, Deliverable(dst)
    PROVE  /\ Target(dst) \in Ports /\ port[Target(dst)].live
           /\ port[Target(dst)].slaved = NoPort
  <1>1. port[dst] \in PortStates
    BY DEF PortTypes
  <1>2. port[dst].slaved \in Ports \cup {NoPort}
    BY <1>1, PortFields
  <1> QED BY <1>2 DEF Target, Deliverable

(* Sending, receiving, and going on with either.                           *)
LEMMA SendsKeep ==
    ASSUME PortTypes, Sends
    PROVE  PortsKept
  <1>1. port \in [Ports -> PortStates] /\ call \in [Tasks -> Calls]
    BY DEF PortTypes
  <1>2. ASSUME NEW sd \in MaySend, NEW size \in Sizes, port_send(sd[1], sd[2], size)
        PROVE  PortsKept
    <2>1. sd[1] \in Ports /\ sd[2] \in Ports
      BY PortsAssumption
    <2>2. /\ Self \in Tasks /\ Deliverable(sd[2])
          /\ send_loop(Target(sd[2]), [from |-> sd[1], to |-> sd[2]], size)
      BY <1>2 DEF port_send, CanCall
    <2>3. Target(sd[2]) \in Ports
      BY <2>1, <2>2, TargetLive
    <2>4. [from |-> sd[1], to |-> sd[2]] \in Messages
      BY <2>1 DEF Messages
    <2> QED BY <2>2, <2>3, <2>4, SendLoopKeeps
  <1>3. ASSUME NEW p \in Ports, port_recv(p)
        PROVE  PortsKept
    BY <1>3, RecvLoopKeeps DEF port_recv, CanCall
  <1>4. ASSUME resume
        PROVE  PortsKept
    <2>1. Self \in Tasks /\ call[Self] # InUserMode /\ call[Self] \in Calls
      BY <1>4, <1>1 DEF resume, port_send_resume, port_recv_resume, InKernel
    <2>2. CASE port' = port /\ call' = Return
      BY <2>2, <1>1, <2>1, ReturnType DEF PortsKept, PortTypes, SameLinks, WithinLimit
    <2>3. CASE /\ call[Self].op = "send"
               /\ send_loop(call[Self].port, call[Self].msg, call[Self].size)
      BY <2>1, <2>3, CallFields, SendLoopKeeps
    <2>4. CASE call[Self].op = "recv" /\ recv_loop(call[Self].port)
      BY <2>1, <2>4, CallFields, RecvLoopKeeps
    <2> QED BY <1>4, <2>2, <2>3, <2>4 DEF resume, port_send_resume, port_recv_resume
  <1> QED BY <1>2, <1>3, <1>4 DEF Sends

(* The calls that make, destroy and set ports keep the types, and none adds*)
(* a message.                                                              *)
LEMMA CreateKeeps ==
    ASSUME PortTypes, NEW p \in Ports, NEW r \in Restricts, port_create(p, r)
    PROVE  PortTypes' /\ (WithinLimit => WithinLimit')
  <1> DEFINE new == Fresh(UnusedPort, TeamOf[Self], r)
  <1>1. port' = [port EXCEPT ![p] = new] /\ call' = call /\ Self \in Tasks
    BY DEF port_create, CanCall, Fresh
  <1>2. UnusedPort \in PortStates /\ TeamOf[Self] \in Teams /\ r \in Ports \cup {NoPort}
    BY <1>1, UnusedPortType, PortsAssumption
  <1>3. new \in PortStates /\ new.msgs = <<>>
    BY <1>2, UnusedPortType, FreshType
  <1> HIDE DEF new
  <1>4. PortTypes'
    BY <1>1, <1>3 DEF PortTypes
  <1>5. ASSUME WithinLimit PROVE WithinLimit'
    <2>1. Len(port'[p].msgs) <= MAX_MSGCOUNT
      BY <1>1, <1>3, PortsAssumption DEF PortTypes
    <2> QED BY <1>1, <1>5, <2>1 DEF PortTypes, WithinLimit
  <1> QED BY <1>4, <1>5

(* port_destroy() (port.c:38-55) leaves the messages where they are.       *)
LEMMA DestroyKeeps ==
    ASSUME PortTypes, NEW p \in Ports, port_destroy(p)
    PROVE  PortTypes' /\ (WithinLimit => WithinLimit')
  <1>1. port' = [port EXCEPT ![p] = [port[p] EXCEPT !.live = FALSE]] /\ call' = call
    BY DEF port_destroy
  <1>2. port \in [Ports -> PortStates] /\ port[p] \in PortStates
    BY DEF PortTypes
  <1>3. /\ [port[p] EXCEPT !.live = FALSE] \in PortStates
        /\ [port[p] EXCEPT !.live = FALSE].msgs = port[p].msgs
    BY <1>2 DEF PortStates
  <1>4. PortTypes'
    BY <1>1, <1>2, <1>3 DEF PortTypes
  <1>5. \A q \in Ports : port'[q].msgs = port[q].msgs
    BY <1>1, <1>2, <1>3
  <1> QED BY <1>4, <1>5 DEF WithinLimit

(* The options restrict and nowait (port.c:65-99) touch no link.           *)
LEMMA OptionKeeps ==
    ASSUME PortTypes, NEW p \in Ports,
           \/ \E r \in Restricts : set_restrict(p, r)
           \/ \E b \in NoWaits : set_nowait(p, b)
    PROVE  PortTypes' /\ SameLinks /\ (WithinLimit => WithinLimit')
  <1>1. port \in [Ports -> PortStates] /\ port[p] \in PortStates
    BY DEF PortTypes
  <1>2. PICK new \in PortStates :
           /\ port' = [port EXCEPT ![p] = new] /\ call' = call
           /\ new.msgs = port[p].msgs /\ new.live = port[p].live
           /\ new.slaved = port[p].slaved /\ new.refcount = port[p].refcount
    <2>1. ASSUME NEW r \in Restricts, set_restrict(p, r)
          PROVE  \E new \in PortStates :
                    /\ port' = [port EXCEPT ![p] = new] /\ call' = call
                    /\ new.msgs = port[p].msgs /\ new.live = port[p].live
                    /\ new.slaved = port[p].slaved /\ new.refcount = port[p].refcount
      <3>1. r \in Ports \cup {NoPort}
        BY PortsAssumption
      <3>2. [port[p] EXCEPT !.restrict = r] \in PortStates
        BY <3>1, <1>1 DEF PortStates
      <3>3. port' = [port EXCEPT ![p] = [port[p] EXCEPT !.restrict = r]] /\ call' = call
        BY <2>1 DEF set_restrict
      <3> QED BY <3>2, <3>3, <1>1 DEF PortStates
    <2>2. ASSUME NEW b \in NoWaits, set_nowait(p, b)
          PROVE  \E new \in PortStates :
                    /\ port' = [port EXCEPT ![p] = new] /\ call' = call
                    /\ new.msgs = port[p].msgs /\ new.live = port[p].live
                    /\ new.slaved = port[p].slaved /\ new.refcount = port[p].refcount
      <3>1. b \in BOOLEAN
        BY PortsAssumption
      <3>2. [port[p] EXCEPT !.nowait = b] \in PortStates
        BY <3>1, <1>1 DEF PortStates
      <3>3. port' = [port EXCEPT ![p] = [port[p] EXCEPT !.nowait = b]] /\ call' = call
        BY <2>2 DEF set_nowait
      <3> QED BY <3>2, <3>3, <1>1 DEF PortStates
    <2> QED BY <2>1, <2>2
  <1>3. PortTypes'
    BY <1>1, <1>2 DEF PortTypes
  <1>4. \A q \in Ports : port'[q].msgs = port[q].msgs
    BY <1>1, <1>2
  <1>5. SameLinks
    BY <1>1, <1>2 DEF SameLinks
  <1> QED BY <1>3, <1>4, <1>5 DEF WithinLimit

(* port_slave() (port.c:69-91): the new master counts one more, the old    *)
(* one less, and they may be the same port.                                *)
Gains(q, master) == IF q = master THEN 1 ELSE 0

(* What it leaves in every port.                                           *)
LEMMA SlaveFields ==
    ASSUME PortTypes, NEW p \in Ports, NEW master \in Ports \cup {NoPort},
           port_slave(p, master)
    PROVE  /\ PortTypes' /\ port[p].live
           /\ master # NoPort => port[master].live
           /\ \A q \in Ports :
                 /\ port'[q].live = port[q].live /\ port'[q].msgs = port[q].msgs
                 /\ port'[q].slaved = IF q = p THEN master ELSE port[q].slaved
                 /\ port'[q].refcount = port[q].refcount + Gains(q, master)
                                            - Gains(q, port[p].slaved)
  <1> DEFINE old      == port[p].slaved
             up(q)    == [port[q] EXCEPT !.refcount = @ + 1]
             counted  == IF master = NoPort THEN port
                         ELSE [port EXCEPT ![master] = up(master)]
             down(q)  == [counted[q] EXCEPT !.refcount = @ - 1]
             released == IF old = NoPort THEN counted
                         ELSE [counted EXCEPT ![old] = down(old)]
             done     == [released EXCEPT ![p] = [released[p] EXCEPT !.slaved = master]]
  <1>1. /\ port \in [Ports -> PortStates] /\ NoPort \notin Ports
        /\ old \in Ports \cup {NoPort}
    BY PortFields, PortsAssumption DEF PortTypes
  <1>2. /\ port' = done /\ call' = call /\ port[p].live
        /\ master # NoPort => port[master].live
    BY DEF port_slave, MayOption
  <1>3. /\ counted \in [Ports -> PortStates]
        /\ \A q \in Ports :
              /\ counted[q].live = port[q].live /\ counted[q].msgs = port[q].msgs
              /\ counted[q].slaved = port[q].slaved
              /\ counted[q].refcount = port[q].refcount + Gains(q, master)
    <2>1. ASSUME NEW q \in Ports
          PROVE  /\ up(q) \in PortStates /\ up(q).live = port[q].live
                 /\ up(q).msgs = port[q].msgs /\ up(q).slaved = port[q].slaved
                 /\ up(q).refcount = port[q].refcount + 1 /\ port[q].refcount \in Int
      BY <1>1 DEF PortStates
    <2> HIDE DEF up
    <2> QED BY <1>1, <2>1 DEF Gains
  <1> HIDE DEF counted
  <1>4. /\ released \in [Ports -> PortStates]
        /\ \A q \in Ports :
              /\ released[q].live = counted[q].live /\ released[q].msgs = counted[q].msgs
              /\ released[q].slaved = counted[q].slaved
              /\ released[q].refcount = counted[q].refcount - Gains(q, old)
    <2>1. ASSUME NEW q \in Ports
          PROVE  /\ down(q) \in PortStates /\ down(q).live = counted[q].live
                 /\ down(q).msgs = counted[q].msgs /\ down(q).slaved = counted[q].slaved
                 /\ down(q).refcount = counted[q].refcount - 1 /\ counted[q].refcount \in Int
      <3>1. counted[q] \in PortStates
        BY <1>3
      <3> QED BY <3>1 DEF PortStates
    <2> HIDE DEF down
    <2> QED BY <1>1, <1>3, <2>1 DEF Gains
  <1> HIDE DEF released
  <1>5. /\ done \in [Ports -> PortStates]
        /\ \A q \in Ports :
              /\ done[q].live = released[q].live /\ done[q].msgs = released[q].msgs
              /\ done[q].slaved = IF q = p THEN master ELSE released[q].slaved
              /\ done[q].refcount = released[q].refcount
    <2> DEFINE r == [released[p] EXCEPT !.slaved = master]
    <2>1. /\ r \in PortStates /\ r.live = released[p].live /\ r.msgs = released[p].msgs
          /\ r.slaved = master /\ r.refcount = released[p].refcount
      BY <1>4 DEF PortStates
    <2> HIDE DEF r
    <2>2. done = [released EXCEPT ![p] = r]
      BY DEF r
    <2> QED BY <1>4, <2>1, <2>2
  <1> HIDE DEF done
  <1>6. PortTypes'
    BY <1>2, <1>5 DEF PortTypes
  <1>7. \A q \in Ports : /\ port'[q].live = port[q].live /\ port'[q].msgs = port[q].msgs
                          /\ port'[q].slaved = IF q = p THEN master ELSE port[q].slaved
    BY <1>2, <1>3, <1>4, <1>5
  <1>8. \A q \in Ports : port'[q].refcount = port[q].refcount + Gains(q, master) - Gains(q, old)
    <2>1. \A q \in Ports : port[q].refcount \in Int /\ Gains(q, master) \in Int /\ Gains(q, old) \in Int
      BY <1>1, PortFields DEF Gains
    <2> QED BY <2>1, <1>2, <1>3, <1>4, <1>5
  <1> QED BY <1>2, <1>6, <1>7, <1>8

(* What the ports alone are proved to be, step by step.                    *)
LEMMA PortsStep ==
    ASSUME PortTypes, [Next]_vars
    PROVE  PortTypes' /\ (WithinLimit => WithinLimit')
  <1>1. ASSUME NEW p \in Ports, NEW r \in Restricts, port_create(p, r)
        PROVE  PortTypes' /\ (WithinLimit => WithinLimit')
    BY <1>1, CreateKeeps
  <1>2. ASSUME NEW p \in Ports, port_destroy(p)
        PROVE  PortTypes' /\ (WithinLimit => WithinLimit')
    BY <1>2, DestroyKeeps
  <1>3. ASSUME NEW p \in Ports,
               \/ \E r \in Restricts : set_restrict(p, r)
               \/ \E b \in NoWaits : set_nowait(p, b)
        PROVE  PortTypes' /\ (WithinLimit => WithinLimit')
    BY <1>3, OptionKeeps
  <1>4. ASSUME NEW pm \in MaySlave, port_slave(pm[1], pm[2])
        PROVE  PortTypes' /\ (WithinLimit => WithinLimit')
    <2>1. pm[1] \in Ports /\ pm[2] \in Ports \cup {NoPort}
      BY PortsAssumption
    <2>2. PortTypes' /\ \A q \in Ports : port'[q].msgs = port[q].msgs
      BY <1>4, <2>1, SlaveFields
    <2> QED BY <2>2 DEF WithinLimit
  <1>5. ASSUME Sends
        PROVE  PortTypes' /\ (WithinLimit => WithinLimit')
    BY <1>5, SendsKeep DEF PortsKept
  <1>6. CASE UNCHANGED <<port, call>>
    BY <1>6 DEF PortTypes, WithinLimit
  <1> QED BY <1>1, <1>2, <1>3, <1>4, <1>5, <1>6 DEF Next, Sends, timer, vars

(* At boot no port exists.                                                 *)
LEMMA PortsInit == Init => PortTypes /\ WithinLimit
  <1> SUFFICES ASSUME Init PROVE PortTypes /\ WithinLimit
    OBVIOUS
  <1>1. InUserMode \in Calls
    BY DEF Calls
  <1>2. PortTypes
    BY <1>1, UnusedPortType DEF Init, PortTypes
  <1>3. \A p \in Ports : port[p].msgs = <<>>
    BY UnusedPortType DEF Init
  <1> QED BY <1>2, <1>3, PortsAssumption DEF WithinLimit

(* A port never holds more than MAX_MSGCOUNT messages (port.c:135), however*)
(* many senders were woken for the same place, and even when ports are     *)
(* destroyed while tasks are about to go on with them.                     *)
THEOREM PortsWithinLimit == Spec => []WithinLimit
  <1>1. PortTypes /\ WithinLimit /\ [Next]_vars => (PortTypes /\ WithinLimit)'
    BY PortsStep
  <1> QED BY <1>1, PortsInit, PTL DEF Spec

-----------------------------------------------------------------------------
(* Masters and slaves.                                                     *)

Masters == MastersLive /\ MastersCountSlaves

(* So there is no slave.                                                   *)
LEMMA MastersInit == Init => Masters
  <1> SUFFICES ASSUME Init PROVE Masters
    OBVIOUS
  <1>1. \A p \in Ports : ~port[p].live
    BY DEF Init, UnusedPort
  <1> QED BY <1>1 DEF Masters, MastersLive, MastersCountSlaves

(* Steps that do not touch the links.                                      *)
LEMMA LinksKept ==
    ASSUME SameLinks, PortTypes, Masters
    PROVE  Masters'
  <1>1. \A m \in Ports : Slaves(m)' = Slaves(m)
    BY DEF SameLinks, Slaves
  <1>2. \A p \in Ports : port[p].slaved \in Ports \cup {NoPort}
    BY PortFields DEF PortTypes
  <1> QED BY <1>1, <1>2 DEF SameLinks, Masters, MastersLive, MastersCountSlaves

(* A port that did not exist has no slaves (port.c:14-36).                 *)
LEMMA CreateMasters ==
    ASSUME PortTypes, Masters, NEW p \in Ports, NEW r \in Restricts, port_create(p, r)
    PROVE  Masters'
  <1> DEFINE new == Fresh(UnusedPort, TeamOf[Self], r)
  <1>1. port' = [port EXCEPT ![p] = new] /\ ~port[p].live /\ Self \in Tasks
    BY DEF port_create, CanCall, Fresh
  <1>2. new.live /\ new.slaved = NoPort /\ new.refcount = 1
    <2>1. UnusedPort \in PortStates /\ TeamOf[Self] \in Teams /\ r \in Ports \cup {NoPort}
      BY <1>1, UnusedPortType, PortsAssumption
    <2> QED BY <2>1, UnusedPortType, FreshType
  <1> HIDE DEF new
  <1>3. /\ port \in [Ports -> PortStates] /\ NoPort \notin Ports
        /\ \A q \in Ports : port[q].slaved \in Ports \cup {NoPort}
    BY PortFields, PortsAssumption DEF PortTypes
  <1>4. port'[p] = new /\ \A q \in Ports \ {p} : port'[q] = port[q]
    BY <1>1, <1>3
  <1>5. Slaves(p)' = {} /\ \A m \in Ports \ {p} : Slaves(m)' = Slaves(m)
    BY <1>1, <1>2, <1>3, <1>4 DEF Masters, MastersLive, Slaves
  <1>6. MastersLive'
    BY <1>1, <1>2, <1>3, <1>4 DEF Masters, MastersLive
  <1>7. MastersCountSlaves'
    BY <1>2, <1>4, <1>5, FS_EmptySet DEF Masters, MastersCountSlaves
  <1> QED BY <1>6, <1>7 DEF Masters

(* A port with slaves is counted more than once, and is not destroyed      *)
(* (port.c:44).                                                            *)
LEMMA DestroyMasters ==
    ASSUME IsFiniteSet(Ports), PortTypes, Masters, NEW p \in Ports, port_destroy(p)
    PROVE  Masters'
  <1>1. /\ port \in [Ports -> PortStates] /\ NoPort \notin Ports
        /\ \A q \in Ports : port[q].slaved \in Ports \cup {NoPort}
    BY PortFields, PortsAssumption DEF PortTypes
  <1>2. port[p].live /\ port[p].refcount = 1
    BY DEF port_destroy
  <1>3. /\ ~port'[p].live /\ port'[p].slaved = port[p].slaved
        /\ \A q \in Ports \ {p} : port'[q] = port[q]
    <2>1. port' = [port EXCEPT ![p] = [port[p] EXCEPT !.live = FALSE]]
      BY DEF port_destroy
    <2>2. /\ ~[port[p] EXCEPT !.live = FALSE].live
          /\ [port[p] EXCEPT !.live = FALSE].slaved = port[p].slaved
      BY <1>1 DEF PortStates
    <2> QED BY <1>1, <2>1, <2>2
  <1>4. \A m \in Ports : IsFiniteSet(Slaves(m)) /\ Cardinality(Slaves(m)) \in Nat
    <2>1. \A m \in Ports : Slaves(m) \in SUBSET Ports
      BY DEF Slaves
    <2> QED BY <2>1, FS_Subset, FS_CardinalityType
  <1>5. Slaves(p) = {}
    BY <1>2, <1>4, FS_EmptySet DEF Masters, MastersCountSlaves
  <1>6. MastersLive'
    BY <1>1, <1>3, <1>5 DEF Masters, MastersLive, Slaves
  <1>7. \A m \in Ports \ {p} : Slaves(m)' = Slaves(m) \ {p}
    BY <1>3 DEF Slaves
  <1>8. ASSUME NEW m \in Ports, port'[m].live
        PROVE  port'[m].refcount >= 1 + Cardinality(Slaves(m)')
    <2>1. m # p /\ port'[m] = port[m] /\ port[m].refcount >= 1 + Cardinality(Slaves(m))
      BY <1>3, <1>8 DEF Masters, MastersCountSlaves
    <2>2. /\ Cardinality(Slaves(m) \ {p}) <= Cardinality(Slaves(m))
          /\ Cardinality(Slaves(m) \ {p}) \in Nat
      <3>1. Slaves(m) \ {p} \in SUBSET Slaves(m) /\ IsFiniteSet(Slaves(m))
        BY <1>4
      <3> QED BY <3>1, FS_Subset, FS_CardinalityType
    <2>3. port[m].refcount \in Int
      BY <1>1, PortFields
    <2> QED BY <1>4, <1>7, <2>1, <2>2, <2>3
  <1> QED BY <1>6, <1>8 DEF Masters, MastersCountSlaves

(* The new master gains the slave it counts (port.c:69-91).                *)
LEMMA SlaveMasters ==
    ASSUME IsFiniteSet(Ports), PortTypes, Masters, NEW p \in Ports,
           NEW master \in Ports \cup {NoPort}, port_slave(p, master)
    PROVE  Masters'
  <1>1. /\ port[p].live
        /\ master # NoPort => port[master].live
        /\ \A q \in Ports :
              /\ port'[q].live <=> port[q].live
              /\ port'[q].slaved = IF q = p THEN master ELSE port[q].slaved
              /\ port'[q].refcount = port[q].refcount + Gains(q, master)
                                         - Gains(q, port[p].slaved)
              /\ port[q].refcount \in Int
    <2>1. \A q \in Ports : port[q].refcount \in Int
      BY PortFields DEF PortTypes
    <2> QED BY <2>1, SlaveFields
  <1>2. NoPort \notin Ports /\ \A q \in Ports : port[q].slaved \in Ports \cup {NoPort}
    BY PortFields, PortsAssumption DEF PortTypes
  <1>3. MastersLive'
    BY <1>1, <1>2 DEF Masters, MastersLive
  <1>4. ASSUME NEW m \in Ports, port'[m].live
        PROVE  port'[m].refcount >= 1 + Cardinality(Slaves(m)')
    <2>1. port[m].refcount >= 1 + Cardinality(Slaves(m))
      BY <1>1, <1>4 DEF Masters, MastersCountSlaves
    <2>2. IsFiniteSet(Slaves(m)) /\ Cardinality(Slaves(m)) \in Nat
      <3>1. Slaves(m) \in SUBSET Ports
        BY DEF Slaves
      <3> QED BY <3>1, FS_Subset, FS_CardinalityType
    <2>3. p \in Slaves(m) <=> port[p].slaved = m
      BY <1>1 DEF Slaves
    <2>4. CASE m = master
      <3>1. Slaves(m)' = Slaves(m) \cup {p}
        BY <1>1, <2>4 DEF Slaves
      <3>2. Cardinality(Slaves(m)') =
               IF p \in Slaves(m) THEN Cardinality(Slaves(m)) ELSE Cardinality(Slaves(m)) + 1
        BY <2>2, <3>1, FS_AddElement
      <3> QED BY <1>1, <2>1, <2>2, <2>3, <2>4, <3>2 DEF Gains
    <2>5. CASE m # master
      <3>1. Slaves(m)' = Slaves(m) \ {p}
        BY <1>1, <2>5 DEF Slaves
      <3>2. Cardinality(Slaves(m)') =
               IF p \in Slaves(m) THEN Cardinality(Slaves(m)) - 1 ELSE Cardinality(Slaves(m))
        BY <2>2, <3>1, FS_RemoveElement
      <3> QED BY <1>1, <2>1, <2>2, <2>3, <2>5, <3>2 DEF Gains
    <2> QED BY <2>4, <2>5
  <1> QED BY <1>3, <1>4 DEF Masters, MastersCountSlaves

(* Every step leaves the masters of slaves live, with a count for each.    *)
LEMMA MastersStep ==
    ASSUME IsFiniteSet(Ports), PortTypes, Masters, [Next]_vars
    PROVE  Masters'
  <1>1. ASSUME NEW p \in Ports, NEW r \in Restricts, port_create(p, r)
        PROVE  Masters'
    BY <1>1, CreateMasters
  <1>2. ASSUME NEW p \in Ports, port_destroy(p)
        PROVE  Masters'
    BY <1>2, DestroyMasters
  <1>3. ASSUME NEW p \in Ports,
               \/ \E r \in Restricts : set_restrict(p, r)
               \/ \E b \in NoWaits : set_nowait(p, b)
        PROVE  Masters'
    BY <1>3, OptionKeeps, LinksKept
  <1>4. ASSUME NEW pm \in MaySlave, port_slave(pm[1], pm[2])
        PROVE  Masters'
    <2>1. pm[1] \in Ports /\ pm[2] \in Ports \cup {NoPort}
      BY PortsAssumption
    <2> QED BY <1>4, <2>1, SlaveMasters
  <1>5. ASSUME Sends
        PROVE  Masters'
    BY <1>5, SendsKeep, LinksKept DEF PortsKept
  <1>6. CASE UNCHANGED port
    BY <1>6, LinksKept DEF SameLinks
  <1> QED BY <1>1, <1>2, <1>3, <1>4, <1>5, <1>6 DEF Next, Sends, timer, vars

(* A master is not destroyed before its slaves, because it counts each of  *)
(* them: a send to a slave finds its master, and port_option() does not    *)
(* panic (port.c:84).                                                      *)
THEOREM PortsMastersLive ==
    ASSUME IsFiniteSet(Ports)
    PROVE  Spec => []MastersLive
  <1>1. Init => PortTypes /\ Masters
    BY PortsInit, MastersInit
  <1>2. PortTypes /\ Masters /\ [Next]_vars => (PortTypes /\ Masters)'
    BY PortsStep, MastersStep
  <1>3. PortTypes /\ Masters => MastersLive
    BY DEF Masters
  <1> QED BY <1>1, <1>2, <1>3, PTL DEF Spec

(* Why: its count is exact, and a port that counts a slave is not          *)
(* destroyed (port.c:44, 79, 87).                                          *)
THEOREM PortsMasters ==
    ASSUME IsFiniteSet(Ports)
    PROVE  Spec => []MastersCountSlaves
  <1>1. Init => PortTypes /\ Masters
    BY PortsInit, MastersInit
  <1>2. PortTypes /\ Masters /\ [Next]_vars => (PortTypes /\ Masters)'
    BY PortsStep, MastersStep
  <1>3. PortTypes /\ Masters => MastersCountSlaves
    BY DEF Masters
  <1> QED BY <1>1, <1>2, <1>3, PTL DEF Spec

-----------------------------------------------------------------------------
(* Ports and scheduler together, when no port is destroyed under a task    *)
(* that is about to go on with it.                                         *)

WaitsAt(c) == IF c.op = "send" THEN SendQueue[c.port] ELSE c.port

(* A task asleep in a call is on the queue of the call's port, and neither *)
(* it nor one that goes on has lost the port.                              *)
SleepsRight(t) ==
    /\ Asleep(t) => call[t] # InUserMode /\ sched.waiting_on[t] = WaitsAt(call[t])
    /\ call[t] # InUserMode /\ (Asleep(t) \/ sched.status[t] = ERR_NONE) =>
           port[call[t].port].live

SchedKept == Consistent(sched) /\ NoTaskLost(sched)
CallsInv == PortTypes /\ SchedKept /\ \A t \in Tasks : SleepsRight(t)

(* Whom the scheduler leaves alone, and whose port stays, is still right.  *)
LEMMA OthersRight ==
    ASSUME CallsInv, NEW T, Undisturbed(sched, sched', T),
           \A t \in Tasks \ T : call'[t] = call[t],
           \A t \in Tasks \ T : SleepsRight(t) /\ call[t] # InUserMode
                                  /\ (Asleep(t) \/ sched.status[t] = ERR_NONE)
                                    => port'[call[t].port].live
    PROVE  \A t \in Tasks \ T : SleepsRight(t)'
  <1> SUFFICES ASSUME NEW t \in Tasks \ T
               PROVE  SleepsRight(t)'
    OBVIOUS
  <1>1. SleepsRight(t) /\ call'[t] = call[t]
    BY DEF CallsInv
  <1>2. /\ sched'.status[t] = sched.status[t]
        /\ sched.waiting_on[t] \in SleepQueues \/ sched'.waiting_on[t] \in SleepQueues =>
               sched'.waiting_on[t] = sched.waiting_on[t]
    BY DEF Undisturbed
  <1>3. /\ Asleep(t) <=> Asleep(t)'
        /\ Asleep(t) => sched'.waiting_on[t] = sched.waiting_on[t]
    BY <1>2 DEF Asleep, SleepQueues
  <1>4. WaitsAt(call'[t]) = WaitsAt(call[t])
    BY <1>1
  <1> QED BY <1>1, <1>2, <1>3, <1>4 DEF SleepsRight, WaitsAt, InUserMode

(* The running task is on no queue.                                        *)
LEMMA SelfAwake ==
    ASSUME SchedKept, Self \in Tasks
    PROVE  ~Asleep(Self)
  BY SchedAssumption DEF SchedKept, NoTaskLost, Asleep, Self

(* The queues of a port are queues of sleepers, and nobody else's.         *)
LEMMA PortQueues ==
    ASSUME NEW p \in Ports
    PROVE  /\ p \in SleepQueues /\ SendQueue[p] \in SleepQueues /\ SendQueue[p] # p
           /\ \A c \in Calls : c # InUserMode /\ WaitsAt(c) \in {p, SendQueue[p]}
                                   => c.port = p
  <1>1. /\ p \in SleepQueues /\ SendQueue[p] \in SleepQueues /\ SendQueue[p] # p
    BY PortsAssumption DEF SleepQueues
  <1>2. ASSUME NEW c \in Calls, c # InUserMode, WaitsAt(c) \in {p, SendQueue[p]}
        PROVE  c.port = p
    <2>1. c.port \in Ports
      BY <1>2, CallFields
    <2> QED BY <1>2, <2>1, PortsAssumption DEF WaitsAt
  <1> QED BY <1>1, <1>2

(* A call returns, having woken at most one task.                          *)
LEMMA ReturnRight ==
    ASSUME CallsInv, Self \in Tasks, call' = Return,
           \A p \in Ports : port'[p].live = port[p].live,
           \/ sched' = sched
           \/ \E q \in SleepQueues : sched' = wake_one(sched, q, ERR_NONE)
    PROVE  SchedKept' /\ \A t \in Tasks : SleepsRight(t)'
  <1>0. PICK c \in Tasks : c = Self
    OBVIOUS
  <1>1. /\ Consistent(sched) /\ NoTaskLost(sched) /\ ~Asleep(c)
        /\ call \in [Tasks -> Calls]
    <2>1. SchedKept /\ ~Asleep(Self)
      BY SelfAwake DEF CallsInv
    <2> QED BY <2>1, <1>0 DEF CallsInv, SchedKept, PortTypes
  <1>2. call'[c] = InUserMode /\ \A t \in Tasks \ {c} : call'[t] = call[t]
    BY <1>0, <1>1 DEF Return
  <1>3. \A t \in Tasks : SleepsRight(t) /\ call[t] # InUserMode
                           /\ (Asleep(t) \/ sched.status[t] = ERR_NONE)
                             => port'[call[t].port].live
    <2> SUFFICES ASSUME NEW t \in Tasks, SleepsRight(t), call[t] # InUserMode,
                        Asleep(t) \/ sched.status[t] = ERR_NONE
                 PROVE  port'[call[t].port].live
      OBVIOUS
    <2>1. port[call[t].port].live
      BY DEF SleepsRight
    <2>2. call[t].port \in Ports
      BY <1>1, CallFields
    <2> QED BY <2>1, <2>2
  <1>4. CASE sched' = sched
    <2>1. SchedKept'
      BY <1>1, <1>4 DEF SchedKept
    <2>2. Undisturbed(sched, sched', {c})
      BY <1>4 DEF Undisturbed
    <2>3. \A t \in Tasks \ {c} : SleepsRight(t)'
      BY <2>2, <1>2, <1>3, OthersRight
    <2>4. ~Asleep(c)'
      BY <1>1, <1>4 DEF Asleep
    <2>5. SleepsRight(c)'
      BY <2>4, <1>2 DEF SleepsRight
    <2> QED BY <2>1, <2>3, <2>5
  <1>5. ASSUME NEW q \in SleepQueues, sched' = wake_one(sched, q, ERR_NONE), sched' # sched
        PROVE  SchedKept' /\ \A t \in Tasks : SleepsRight(t)'
    <2>1. sched.queue[q] # <<>> /\ ERR_NONE \in Status
      BY <1>5 DEF wake_one, Status
    <2>2. PICK h \in Tasks :
          /\ Consistent(sched') /\ NoTaskLost(sched')
          /\ Undisturbed(sched, sched', {h})
          /\ sched.waiting_on[h] = q /\ sched'.waiting_on[h] = RunQueue
          /\ sched'.status[h] = ERR_NONE
      <3> DEFINE f == Head(sched.queue[q])
                 r == wake_one(sched, q, ERR_NONE)
      <3>1. OneWoken(sched, q, ERR_NONE, r)
        BY <1>1, <2>1, WakeOneMove
      <3> HIDE DEF f, r
      <3>2. sched' = r
        BY <1>5 DEF r
      <3>3. /\ Consistent(r) /\ NoTaskLost(r) /\ f \in Tasks /\ Undisturbed(sched, r, {f})
            /\ sched.waiting_on[f] = q /\ r.waiting_on[f] = RunQueue /\ r.status[f] = ERR_NONE
        BY <1>1, <3>1 DEF OneWoken, f
      <3> QED BY <3>2, <3>3
    <2>3. Asleep(h) /\ ~Asleep(h)' /\ h # c
      BY <2>2, <1>1 DEF Asleep, SleepQueues
    <2>4. Undisturbed(sched, sched', {h, c})
      BY <2>2 DEF Undisturbed
    <2>5. \A t \in Tasks \ {h, c} : SleepsRight(t)'
      BY <2>4, <1>2, <1>3, OthersRight
    <2>6. ~Asleep(c)'
      BY <2>2, <2>3, <1>1 DEF Undisturbed, Asleep, SleepQueues
    <2>7. SleepsRight(c)'
      BY <2>6, <1>2 DEF SleepsRight
    <2>8. SleepsRight(h)'
      <3>1. SleepsRight(h) /\ call'[h] = call[h]
        BY <2>2, <2>3, <1>2 DEF CallsInv
      <3>2. port'[call[h].port].live
        BY <3>1, <2>2, <2>3, <1>3 DEF SleepsRight
      <3> QED BY <3>1, <3>2, <2>3 DEF SleepsRight
    <2> QED BY <2>2, <2>5, <2>7, <2>8 DEF SchedKept
  <1> QED BY <1>4, <1>5

(* A task falls asleep in a call on a port that exists.                    *)
LEMMA SleepRight ==
    ASSUME CallsInv, Self \in Tasks, NEW cc \in Calls, cc # InUserMode,
           port[cc.port].live, port' = port,
           sched' = wait_on(sched, WaitsAt(cc)), call' = [call EXCEPT ![Self] = cc]
    PROVE  SchedKept' /\ \A t \in Tasks : SleepsRight(t)'
  <1>0. PICK c \in Tasks : c = Self
    OBVIOUS
  <1>1. /\ Consistent(sched) /\ NoTaskLost(sched) /\ call \in [Tasks -> Calls]
        /\ c = sched.current
    BY <1>0 DEF CallsInv, SchedKept, PortTypes, Self
  <1>2. call'[c] = cc /\ \A t \in Tasks \ {c} : call'[t] = call[t]
    BY <1>0, <1>1
  <1> DEFINE q == WaitsAt(cc)
  <1>3. q \in SleepQueues
    BY CallFields, PortQueues DEF WaitsAt
  <1> HIDE DEF q
  <1>4. /\ Consistent(sched') /\ NoTaskLost(sched')
        /\ Undisturbed(sched, sched', {c})
        /\ sched'.waiting_on[c] = q
    <2> DEFINE r == wait_on(sched, q)
    <2>1. /\ Consistent(r) /\ NoTaskLost(r)
          /\ Undisturbed(sched, r, {sched.current})
          /\ r.waiting_on[sched.current] = q
          /\ r.queue[q] # <<>>
          /\ \A p \in SleepQueues \ {q} : r.queue[p] = sched.queue[p]
      <3>1. sched.current \in Tasks
        BY <1>1
      <3> QED BY <3>1, <1>1, <1>3, SleepMove
    <2>2. sched' = r
      BY DEF q
    <2> HIDE DEF r
    <2> QED BY <2>1, <2>2, <1>1
  <1>5. \A t \in Tasks \ {c} : SleepsRight(t)'
    <2>1. \A t \in Tasks \ {c} : SleepsRight(t) /\ call[t] # InUserMode
                                  /\ (Asleep(t) \/ sched.status[t] = ERR_NONE)
                                    => port'[call[t].port].live
      BY DEF SleepsRight
    <2>2. Undisturbed(sched, sched', {c})
      BY <1>1, <1>4
    <2> QED BY <2>1, <2>2, <1>2, OthersRight
  <1>6. SleepsRight(c)'
    <2>1. sched'.waiting_on[c] = WaitsAt(call'[c])
      BY <1>1, <1>2, <1>4 DEF q
    <2> QED BY <2>1, <1>2 DEF SleepsRight, WaitsAt, InUserMode
  <1> QED BY <1>4, <1>5, <1>6 DEF SchedKept

(* Sending (port.c:135-190): the receiver woken is p's, or its master's.   *)
LEMMA SendLoopRight ==
    ASSUME CallsInv, Self \in Tasks, NEW p \in Ports, port[p].live,
           NEW m \in Messages, NEW size \in Sizes, send_loop(p, m, size), SameLinks
    PROVE  SchedKept' /\ \A t \in Tasks : SleepsRight(t)'
  <1>1. port[p] \in PortStates
    BY DEF CallsInv, PortTypes
  <1>2. /\ port[p].slaved \in Ports \cup {NoPort}
        /\ \A q \in Ports : q \in SleepQueues
    BY <1>1, PortFields, PortQueues
  <1>3. CASE call' = Return
    <2>1. \/ sched' = sched
          \/ \E q \in SleepQueues : sched' = wake_one(sched, q, ERR_NONE)
      <3>1. \/ sched' = sched
            \/ sched' = WakeReceiver(sched, p)
            \/ sched' = wait_on(sched, SendQueue[p]) /\ port' = port
                 /\ call' = [call EXCEPT ![Self] = Sending(p, m, size)]
        BY DEF send_loop
      <3>2. [call EXCEPT ![Self] = Sending(p, m, size)] # Return
        <4>1. Sending(p, m, size) # InUserMode
          BY DEF Sending, InUserMode
        <4> QED BY <4>1 DEF CallsInv, PortTypes, Return
      <3> QED BY <3>1, <3>2, <1>2, <1>3 DEF WakeReceiver
    <2> QED BY <1>3, <2>1, ReturnRight DEF SameLinks
  <1>4. CASE call' # Return
    <2> DEFINE cc == Sending(p, m, size)
    <2>1. /\ sched' = wait_on(sched, SendQueue[p]) /\ port' = port
          /\ call' = [call EXCEPT ![Self] = cc]
      BY <1>4 DEF send_loop
    <2>2. cc \in Calls /\ cc # InUserMode /\ cc.port = p /\ WaitsAt(cc) = SendQueue[p]
      BY DEF Calls, Sending, InUserMode, WaitsAt
    <2> HIDE DEF cc
    <2> QED BY <2>1, <2>2, SleepRight
  <1> QED BY <1>3, <1>4

(* Receiving (port.c:210-242).                                             *)
LEMMA RecvLoopRight ==
    ASSUME CallsInv, Self \in Tasks, NEW p \in Ports, port[p].live,
           recv_loop(p), SameLinks
    PROVE  SchedKept' /\ \A t \in Tasks : SleepsRight(t)'
  <1>1. CASE call' = Return
    <2>1. \/ sched' = sched
          \/ \E q \in SleepQueues : sched' = wake_one(sched, q, ERR_NONE)
      <3>1. \/ sched' = sched
            \/ sched' = wake_one(sched, SendQueue[p], ERR_NONE)
            \/ call' = [call EXCEPT ![Self] = Receiving(p)]
        BY DEF recv_loop
      <3>2. [call EXCEPT ![Self] = Receiving(p)] # Return
        <4>1. Receiving(p) # InUserMode
          BY DEF Receiving, InUserMode
        <4> QED BY <4>1 DEF CallsInv, PortTypes, Return
      <3> QED BY <3>1, <3>2, <1>1, PortQueues
    <2> QED BY <1>1, <2>1, ReturnRight DEF SameLinks
  <1>2. CASE call' # Return
    <2> DEFINE cc == Receiving(p)
    <2>1. /\ sched' = wait_on(sched, p) /\ port' = port
          /\ call' = [call EXCEPT ![Self] = cc]
      BY <1>2 DEF recv_loop
    <2>2. cc \in Calls /\ cc # InUserMode /\ cc.port = p /\ WaitsAt(cc) = p
      BY DEF Calls, Receiving, InUserMode, WaitsAt
    <2> HIDE DEF cc
    <2> QED BY <2>1, <2>2, SleepRight
  <1> QED BY <1>1, <1>2

(* A task that goes on finds its port: it was not destroyed meanwhile.     *)
LEMMA SendsRight ==
    ASSUME CallsInv, Sends
    PROVE  SchedKept' /\ \A t \in Tasks : SleepsRight(t)'
  <1>1. PortTypes /\ SameLinks /\ call \in [Tasks -> Calls]
    BY SendsKeep DEF CallsInv, PortsKept, PortTypes
  <1>2. ASSUME NEW sd \in MaySend, NEW size \in Sizes, port_send(sd[1], sd[2], size)
        PROVE  SchedKept' /\ \A t \in Tasks : SleepsRight(t)'
    <2>1. sd[1] \in Ports /\ sd[2] \in Ports
      BY PortsAssumption
    <2>2. /\ Self \in Tasks /\ Deliverable(sd[2])
          /\ send_loop(Target(sd[2]), [from |-> sd[1], to |-> sd[2]], size)
      BY <1>2 DEF port_send, CanCall
    <2>3. Target(sd[2]) \in Ports /\ port[Target(sd[2])].live
      BY <1>1, <2>1, <2>2, TargetLive
    <2>4. [from |-> sd[1], to |-> sd[2]] \in Messages
      BY <2>1 DEF Messages
    <2> QED BY <1>1, <2>2, <2>3, <2>4, SendLoopRight
  <1>3. ASSUME NEW p \in Ports, port_recv(p)
        PROVE  SchedKept' /\ \A t \in Tasks : SleepsRight(t)'
    BY <1>1, <1>3, RecvLoopRight DEF port_recv, CanCall
  <1>4. ASSUME resume
        PROVE  SchedKept' /\ \A t \in Tasks : SleepsRight(t)'
    <2>1. Self \in Tasks /\ call[Self] # InUserMode /\ call[Self] \in Calls
      BY <1>1, <1>4 DEF resume, port_send_resume, port_recv_resume, InKernel
    <2>2. CASE sched.status[Self] = ERR_NONE
      <3>1. port[call[Self].port].live
        BY <2>1, <2>2 DEF CallsInv, SleepsRight
      <3>2. CASE /\ call[Self].op = "send"
                 /\ send_loop(call[Self].port, call[Self].msg, call[Self].size)
        BY <1>1, <2>1, <3>1, <3>2, CallFields, SendLoopRight
      <3>3. CASE call[Self].op = "recv" /\ recv_loop(call[Self].port)
        BY <1>1, <2>1, <3>1, <3>3, CallFields, RecvLoopRight
      <3> QED BY <1>4, <2>2, <3>2, <3>3 DEF resume, port_send_resume, port_recv_resume
    <2>3. CASE sched.status[Self] # ERR_NONE
      <3>1. call' = Return /\ sched' = sched
        BY <1>4, <2>3 DEF resume, port_send_resume, port_recv_resume
      <3> QED BY <1>1, <2>1, <3>1, ReturnRight DEF SameLinks
    <2> QED BY <2>2, <2>3
  <1> QED BY <1>2, <1>3, <1>4 DEF Sends

(* The queues of a port that does not exist are empty, so that             *)
(* port_create() loses nobody when it starts them anew.                    *)
LEMMA DeadPortsEmpty ==
    ASSUME CallsInv, NEW p \in Ports, ~port[p].live, NEW q \in {p, SendQueue[p]}
    PROVE  sched.queue[q] = <<>>
  <1> SUFFICES ASSUME sched.queue[q] # <<>> PROVE FALSE
    OBVIOUS
  <1>1. /\ Consistent(sched) /\ call \in [Tasks -> Calls]
        /\ q \in SleepQueues /\ q \in Queues
    BY PortQueues DEF CallsInv, SchedKept, PortTypes, SleepQueues
  <1>2. sched.queue[q] \in Seq(Tasks)
    BY <1>1, Fields DEF Consistent
  <1>3. PICK t \in Tasks : t \in Elements(sched.queue[q])
    BY <1>2 DEF Elements
  <1>4. sched.waiting_on[t] = q
    BY <1>1, <1>3, OnQueue
  <1>5. Asleep(t) /\ SleepsRight(t)
    BY <1>1, <1>4 DEF Asleep, SleepQueues, CallsInv
  <1>6. /\ call[t] # InUserMode /\ call[t] \in Calls
        /\ WaitsAt(call[t]) = q /\ port[call[t].port].live
    BY <1>1, <1>4, <1>5 DEF SleepsRight
  <1> QED BY <1>6, PortQueues

(* A step that leaves the scheduler and the calls alone and destroys no    *)
(* port.                                                                   *)
LEMMA StillRight ==
    ASSUME CallsInv, call' = call, sched' = sched,
           \A p \in Ports : port[p].live => port'[p].live
    PROVE  SchedKept' /\ \A t \in Tasks : SleepsRight(t)'
  <1>1. SchedKept'
    BY DEF CallsInv, SchedKept
  <1>2. Undisturbed(sched, sched', {})
    BY DEF Undisturbed
  <1>3. \A t \in Tasks : call[t] # InUserMode => call[t].port \in Ports
    BY CallFields DEF CallsInv, PortTypes
  <1>4. \A t \in Tasks : SleepsRight(t) /\ call[t] # InUserMode
                           /\ (Asleep(t) \/ sched.status[t] = ERR_NONE)
                             => port'[call[t].port].live
    BY <1>3 DEF SleepsRight
  <1>5. \A t \in Tasks \ {} : SleepsRight(t)'
    BY <1>2, <1>4, OthersRight
  <1> QED BY <1>1, <1>5

(* port_create() (port.c:14-36): the queues it starts were empty.          *)
LEMMA CreateMove ==
    ASSUME CallsInv, NEW p \in Ports, NEW r \in Restricts, port_create(p, r)
    PROVE  /\ sched' = sched /\ call' = call
           /\ sched.queue[p] = <<>> /\ sched.queue[SendQueue[p]] = <<>>
           /\ port'[p].live /\ port'[p].slaved = NoPort
           /\ \A q \in Ports \ {p} : port'[q] = port[q]
  <1>1. /\ sched.queue[p] = <<>> /\ sched.queue[SendQueue[p]] = <<>>
        /\ p \in Queues /\ SendQueue[p] \in Queues /\ sched \in SchedStates
    BY DeadPortsEmpty, PortQueues DEF port_create, SleepQueues, CallsInv, SchedKept, Consistent
  <1> DEFINE a == [sched EXCEPT !.queue[p] = <<>>]
  <1>2. sched.queue \in [Queues -> Seq(Tasks)]
    BY <1>1, Fields
  <1>3. [sched.queue EXCEPT ![p] = <<>>] = sched.queue
    BY <1>1, <1>2
  <1>4. [sched.queue EXCEPT ![SendQueue[p]] = <<>>] = sched.queue
    BY <1>1, <1>2
  <1>5. a = sched
    BY <1>1, <1>3 DEF SchedStates
  <1>6. sched' = [a EXCEPT !.queue[SendQueue[p]] = <<>>]
    BY DEF port_create
  <1>7. sched' = sched
    BY <1>1, <1>4, <1>5, <1>6 DEF SchedStates
  <1>8. /\ call' = call /\ port'[p].live /\ port'[p].slaved = NoPort
        /\ \A q \in Ports \ {p} : port'[q] = port[q]
    <2>1. port' = [port EXCEPT ![p] = Fresh(UnusedPort, TeamOf[Self], r)]
      BY DEF port_create, Fresh
    <2>2. /\ Fresh(UnusedPort, TeamOf[Self], r).live
          /\ Fresh(UnusedPort, TeamOf[Self], r).slaved = NoPort
      <3>1. TeamOf[Self] \in Teams /\ r \in Ports \cup {NoPort}
        BY PortsAssumption DEF port_create, CanCall
      <3> QED BY <3>1, UnusedPortType, FreshType
    <2> QED BY <2>1, <2>2 DEF port_create, CallsInv, PortTypes
  <1> QED BY <1>1, <1>7, <1>8

(* port_create() (port.c:14-36) takes a port in which nobody sleeps.       *)
LEMMA CreateRight ==
    ASSUME CallsInv, NEW p \in Ports, NEW r \in Restricts, port_create(p, r)
    PROVE  SchedKept' /\ \A t \in Tasks : SleepsRight(t)'
  <1>1. \A q \in Ports : port[q].live => port'[q].live
    BY CreateMove
  <1> QED BY <1>1, CreateMove, StillRight

(* port_destroy() (port.c:38-55): whoever sleeps in a call on the port is  *)
(* told.                                                                   *)
LEMMA DestroyMove ==
    ASSUME CallsInv, NEW p \in Ports, port_destroy(p)
    PROVE  \E T \in SUBSET Tasks :
              /\ T = {t \in Tasks : sched.waiting_on[t] \in {p, SendQueue[p]}}
              /\ Consistent(sched') /\ NoTaskLost(sched')
              /\ Undisturbed(sched, sched', T)
              /\ \A t \in T : /\ sched'.status[t] = ERR_RESOURCE
                              /\ sched'.waiting_on[t] \notin SleepQueues
              /\ \A q \in SleepQueues \ {p, SendQueue[p]} : sched'.queue[q] = sched.queue[q]
              /\ call' = call /\ \A q \in Ports \ {p} : port'[q] = port[q]
              /\ ~port'[p].live
  <1> DEFINE k == sched
             a == wake_all(k, p, ERR_RESOURCE)
             b == wake_all(a, SendQueue[p], ERR_RESOURCE)
             A == Waiters(k, p)
             B == Waiters(a, SendQueue[p])
  <1>1. /\ sched' = b /\ call' = call
        /\ ~port'[p].live /\ \A q \in Ports \ {p} : port'[q] = port[q]
    <2>1. port[p] \in PortStates /\ port \in [Ports -> PortStates]
      BY DEF CallsInv, PortTypes
    <2>2. port' = [port EXCEPT ![p] = [port[p] EXCEPT !.live = FALSE]]
      BY DEF port_destroy
    <2> QED BY <2>1, <2>2 DEF port_destroy, PortStates
  <1>2. /\ Consistent(k) /\ NoTaskLost(k) /\ ERR_RESOURCE \in Status
        /\ p \in SleepQueues /\ SendQueue[p] \in SleepQueues /\ SendQueue[p] # p
        /\ call \in [Tasks -> Calls]
    BY PortQueues DEF CallsInv, SchedKept, PortTypes, Status
  <1>3. /\ Consistent(a) /\ NoTaskLost(a) /\ a.current = k.current
        /\ Undisturbed(k, a, A)
        /\ \A t \in A : a.waiting_on[t] = RunQueue /\ a.status[t] = ERR_RESOURCE
        /\ a.queue[p] = <<>>
        /\ \A q \in SleepQueues \ {p} : a.queue[q] = k.queue[q]
    BY <1>2, WakeAllMove DEF AllWoken
  <1>4. /\ Consistent(b) /\ NoTaskLost(b) /\ b.current = a.current
        /\ Undisturbed(a, b, B)
        /\ \A t \in B : b.waiting_on[t] = RunQueue /\ b.status[t] = ERR_RESOURCE
        /\ b.queue[SendQueue[p]] = <<>>
        /\ \A q \in SleepQueues \ {SendQueue[p]} : b.queue[q] = a.queue[q]
    <2> HIDE DEF a
    <2> QED BY <1>2, <1>3, WakeAllMove DEF AllWoken
  <1> HIDE DEF a, b
  <1>5. /\ A = {t \in Tasks : k.waiting_on[t] = p}
        /\ B = {t \in Tasks : a.waiting_on[t] = SendQueue[p]}
    BY DEF Waiters
  <1>6. B = {t \in Tasks : k.waiting_on[t] = SendQueue[p]}
    <2>1. \A t \in Tasks : (a.waiting_on[t] = SendQueue[p]) <=> (k.waiting_on[t] = SendQueue[p])
      BY <1>2, <1>3, StaysOn DEF SleepQueues
    <2> QED BY <1>5, <2>1
  <1>7. \A t \in A \cup B : b.status[t] = ERR_RESOURCE /\ b.waiting_on[t] \notin SleepQueues
    <2>1. \A t \in A : t \in Tasks \ B /\ a.waiting_on[t] = RunQueue /\ a.status[t] = ERR_RESOURCE
      BY <1>2, <1>3, <1>5, <1>6
    <2>2. \A t \in Tasks \ B : /\ b.status[t] = a.status[t]
                               /\ b.waiting_on[t] \in SleepQueues =>
                                      b.waiting_on[t] = a.waiting_on[t]
      BY <1>4 DEF Undisturbed
    <2>3. \A t \in A : b.status[t] = ERR_RESOURCE /\ b.waiting_on[t] \notin SleepQueues
      BY <2>1, <2>2 DEF SleepQueues
    <2>4. \A t \in B : b.status[t] = ERR_RESOURCE /\ b.waiting_on[t] \notin SleepQueues
      BY <1>4 DEF SleepQueues
    <2> QED BY <2>3, <2>4
  <1>8. Undisturbed(k, b, A \cup B)
    BY <1>3, <1>4 DEF Undisturbed
  <1>9. A \cup B = {t \in Tasks : sched.waiting_on[t] \in {p, SendQueue[p]}}
    BY <1>5, <1>6
  <1>10. \A q \in SleepQueues \ {p, SendQueue[p]} : b.queue[q] = k.queue[q]
    BY <1>3, <1>4
  <1>11. A \cup B \in SUBSET Tasks
    BY <1>5, <1>6
  <1> HIDE DEF A, B
  <1> QED BY <1>1, <1>4, <1>7, <1>8, <1>9, <1>10, <1>11

(* When nobody is about to go on with the port, nobody else knows it.      *)
LEMMA DestroyRight ==
    ASSUME RacyDestroy = FALSE, CallsInv, NEW p \in Ports, port_destroy(p)
    PROVE  SchedKept' /\ \A t \in Tasks : SleepsRight(t)'
  <1>1. PICK T \in SUBSET Tasks :
              /\ T = {t \in Tasks : sched.waiting_on[t] \in {p, SendQueue[p]}}
              /\ Consistent(sched') /\ NoTaskLost(sched')
              /\ Undisturbed(sched, sched', T)
              /\ \A t \in T : /\ sched'.status[t] = ERR_RESOURCE
                              /\ sched'.waiting_on[t] \notin SleepQueues
              /\ \A q \in SleepQueues \ {p, SendQueue[p]} : sched'.queue[q] = sched.queue[q]
              /\ call' = call /\ \A q \in Ports \ {p} : port'[q] = port[q]
              /\ ~port'[p].live
    BY DestroyMove
  <1>2. Woken("send", p) \cup Woken("recv", p) = {} /\ call \in [Tasks -> Calls]
    BY DEF port_destroy, CallsInv, PortTypes
  <1>3. \A t \in Tasks \ T : SleepsRight(t) /\ call[t] # InUserMode
                               /\ (Asleep(t) \/ sched.status[t] = ERR_NONE)
                                 => port'[call[t].port].live
    <2> SUFFICES ASSUME NEW t \in Tasks \ T, SleepsRight(t), call[t] # InUserMode,
                        Asleep(t) \/ sched.status[t] = ERR_NONE
                 PROVE  port'[call[t].port].live
      OBVIOUS
    <2>1. /\ call[t] \in Calls /\ call[t].port \in Ports /\ port[call[t].port].live
          /\ call[t].op \in {"send", "recv"}
      BY <1>2, CallFields DEF SleepsRight
    <2>2. call[t].port # p
      <3> SUFFICES ASSUME call[t].port = p PROVE FALSE
        OBVIOUS
      <3>1. CASE Asleep(t)
        <4>1. sched.waiting_on[t] \in {p, SendQueue[p]}
          BY <3>1 DEF SleepsRight, WaitsAt
        <4> QED BY <4>1, <1>1
      <3>2. CASE ~Asleep(t)
        <4>1. GoesOn(t)
          BY <3>2 DEF GoesOn
        <4>2. t \in Woken("send", p) \cup Woken("recv", p)
          BY <4>1, <2>1 DEF Woken
        <4> QED BY <4>2, <1>2
      <3> QED BY <3>1, <3>2
    <2> QED BY <1>1, <2>1, <2>2
  <1>4. \A t \in Tasks \ T : SleepsRight(t)'
    BY <1>1, <1>3, OthersRight
  <1>5. \A t \in T : SleepsRight(t)'
    BY <1>1 DEF SleepsRight, Asleep, SleepQueues, ERR_NONE, ERR_RESOURCE
  <1> QED BY <1>1, <1>4, <1>5 DEF SchedKept

(* The timer interrupt.                                                    *)
LEMMA TimerRight ==
    ASSUME CallsInv, timer
    PROVE  SchedKept' /\ \A t \in Tasks : SleepsRight(t)'
  <1>1. sched' = timer_irq(sched) /\ port' = port /\ call' = call
    BY DEF timer
  <1>2. /\ Consistent(sched') /\ NoTaskLost(sched')
        /\ Undisturbed(sched, sched', {})
    <2> DEFINE r == timer_irq(sched)
    <2>1. Consistent(sched) /\ NoTaskLost(sched)
      BY DEF CallsInv, SchedKept
    <2>2. /\ Consistent(r) /\ NoTaskLost(r)
          /\ Undisturbed(sched, r, {})
          /\ \A p \in SleepQueues : r.queue[p] = sched.queue[p]
      BY <2>1, TimerMove
    <2>3. sched' = r
      BY <1>1
    <2> HIDE DEF r
    <2> QED BY <2>2, <2>3
  <1>3. \A t \in Tasks : SleepsRight(t) /\ call[t] # InUserMode
                           /\ (Asleep(t) \/ sched.status[t] = ERR_NONE)
                             => port'[call[t].port].live
    BY <1>1 DEF SleepsRight
  <1>4. \A t \in Tasks \ {} : SleepsRight(t)'
    BY <1>1, <1>2, <1>3, OthersRight
  <1> QED BY <1>2, <1>4 DEF SchedKept

(* Every step keeps the sleepers where their calls say.                    *)
LEMMA CallsStep ==
    ASSUME RacyDestroy = FALSE, CallsInv, [Next]_vars
    PROVE  CallsInv'
  <1>0. PortTypes /\ PortTypes'
    BY PortsStep DEF CallsInv
  <1>1. ASSUME NEW p \in Ports, NEW r \in Restricts, port_create(p, r)
        PROVE  SchedKept' /\ \A t \in Tasks : SleepsRight(t)'
    BY <1>1, CreateRight
  <1>2. ASSUME NEW p \in Ports, port_destroy(p)
        PROVE  SchedKept' /\ \A t \in Tasks : SleepsRight(t)'
    BY <1>2, DestroyRight
  <1>3. ASSUME NEW p \in Ports,
               \/ \E r \in Restricts : set_restrict(p, r)
               \/ \E b \in NoWaits : set_nowait(p, b)
        PROVE  SchedKept' /\ \A t \in Tasks : SleepsRight(t)'
    <2>1. SameLinks
      BY <1>0, <1>3, OptionKeeps
    <2>2. call' = call /\ sched' = sched
      BY <1>3 DEF set_restrict, set_nowait
    <2> QED BY <2>1, <2>2, StillRight DEF SameLinks
  <1>4. ASSUME NEW pm \in MaySlave, port_slave(pm[1], pm[2])
        PROVE  SchedKept' /\ \A t \in Tasks : SleepsRight(t)'
    <2>1. pm[1] \in Ports /\ pm[2] \in Ports \cup {NoPort}
      BY PortsAssumption
    <2>2. \A q \in Ports : port'[q].live = port[q].live
      BY <1>0, <1>4, <2>1, SlaveFields
    <2>3. call' = call /\ sched' = sched
      BY <1>4 DEF port_slave
    <2> QED BY <2>2, <2>3, StillRight
  <1>5. ASSUME Sends
        PROVE  SchedKept' /\ \A t \in Tasks : SleepsRight(t)'
    BY <1>5, SendsRight
  <1>6. ASSUME timer
        PROVE  SchedKept' /\ \A t \in Tasks : SleepsRight(t)'
    BY <1>6, TimerRight
  <1>7. ASSUME UNCHANGED vars
        PROVE  SchedKept' /\ \A t \in Tasks : SleepsRight(t)'
    BY <1>7, StillRight DEF vars
  <1>8. SchedKept' /\ \A t \in Tasks : SleepsRight(t)'
    BY <1>1, <1>2, <1>3, <1>4, <1>5, <1>6, <1>7 DEF Next, Sends
  <1> QED BY <1>0, <1>8 DEF CallsInv

(* At boot nobody is in a call.                                            *)
LEMMA CallsInit == Init => CallsInv
  <1> SUFFICES ASSUME Init PROVE CallsInv
    OBVIOUS
  <1>1. PortTypes
    BY PortsInit
  <1>2. SchedKept /\ \A t \in Tasks : call[t] = InUserMode /\ ~Asleep(t)
    BY InitSafe, SchedAssumption DEF Init, SchedKept, Asleep
  <1> QED BY <1>1, <1>2 DEF CallsInv, SleepsRight

(* No task is lost in a send or a receive (port.c:137, 210): between two   *)
(* system calls or interrupts each is on the queue its waiting_on names, or*)
(* runs, or is dead or unused - as long as no port is destroyed under a    *)
(* task that is about to go on with it.                                    *)
THEOREM PortsTasksAccounted ==
    ASSUME RacyDestroy = FALSE
    PROVE  Spec => []TasksAccounted
  <1>1. Init => CallsInv
    BY CallsInit
  <1>2. CallsInv /\ [Next]_vars => CallsInv'
    BY CallsStep
  <1>3. CallsInv => TasksAccounted
    BY DEF CallsInv, SchedKept, Consistent, TasksAccounted
  <1> QED BY <1>1, <1>2, <1>3, PTL DEF Spec

-----------------------------------------------------------------------------
(* Nobody is forgotten.  Receivers want messages and senders want room; a  *)
(* queue of either may only be nonempty when as many tasks have been woken *)
(* for them as there are messages, or places.                              *)

Ops == {"send", "recv"}
QueueOf(op, p) == IF op = "send" THEN SendQueue[p] ELSE p
Offered(op, p) == IF op = "send" THEN MAX_MSGCOUNT - Len(port[p].msgs)
                                 ELSE Len(port[p].msgs)
Covered(op, p) ==
    port[p].live /\ sched.queue[QueueOf(op, p)] # <<>> =>
        Offered(op, p) <= Cardinality(Woken(op, p))

(* Counting tasks.                                                         *)
LEMMA Counting ==
    ASSUME IsFiniteSet(Tasks), NEW W \in SUBSET Tasks, NEW V \in SUBSET Tasks
    PROVE  /\ Cardinality(W) \in Nat /\ Cardinality(V) \in Nat
           /\ W \subseteq V => Cardinality(W) <= Cardinality(V)
           /\ \A c : W \ {c} \subseteq V => Cardinality(W) - 1 <= Cardinality(V)
           /\ \A h : h \notin W /\ W \cup {h} \subseteq V =>
                         Cardinality(W) + 1 <= Cardinality(V)
  <1>1. IsFiniteSet(W) /\ IsFiniteSet(V)
    BY FS_Subset
  <1>2. Cardinality(W) \in Nat /\ Cardinality(V) \in Nat
    BY <1>1, FS_CardinalityType
  <1>3. W \subseteq V => Cardinality(W) <= Cardinality(V)
    BY <1>1, FS_Subset
  <1>4. ASSUME NEW c, W \ {c} \subseteq V
        PROVE  Cardinality(W) - 1 <= Cardinality(V)
    <2>1. Cardinality(W \ {c}) = IF c \in W THEN Cardinality(W) - 1 ELSE Cardinality(W)
      BY <1>1, FS_RemoveElement
    <2>2. Cardinality(W \ {c}) <= Cardinality(V)
      BY <1>1, <1>4, FS_Subset
    <2> QED BY <1>2, <2>1, <2>2
  <1>5. ASSUME NEW h, h \notin W, W \cup {h} \subseteq V
        PROVE  Cardinality(W) + 1 <= Cardinality(V)
    <2>1. Cardinality(W \cup {h}) = Cardinality(W) + 1
      BY <1>1, <1>5, FS_AddElement
    <2>2. Cardinality(W \cup {h}) <= Cardinality(V)
      BY <1>1, <1>5, FS_Subset
    <2> QED BY <2>1, <2>2
  <1> QED BY <1>2, <1>3, <1>4, <1>5

(* Whom the scheduler leaves alone goes on as before.                      *)
LEMMA Lingers ==
    ASSUME NEW T, Undisturbed(sched, sched', T),
           \A t \in Tasks \ T : call'[t] = call[t],
           NEW op, NEW p, NEW t \in Tasks \ T, t \in Woken(op, p)
    PROVE  t \in Woken(op, p)'
  <1>1. /\ call[t] # InUserMode /\ ~Asleep(t) /\ sched.status[t] = ERR_NONE
        /\ call[t].op = op /\ call[t].port = p /\ call'[t] = call[t]
    BY DEF Woken, GoesOn
  <1>2. sched'.status[t] = ERR_NONE /\ ~Asleep(t)'
    BY <1>1 DEF Undisturbed, Asleep, SleepQueues
  <1> QED BY <1>1, <1>2 DEF Woken, GoesOn, InUserMode

(* What a port offers is a number.                                         *)
LEMMA OfferedType ==
    ASSUME PortTypes, NEW op \in Ops, NEW p \in Ports
    PROVE  Offered(op, p) \in Int /\ Len(port[p].msgs) \in Nat
  <1>1. port[p] \in PortStates
    BY DEF PortTypes
  <1>2. port[p].msgs \in Seq(Messages)
    BY <1>1, PortFields
  <1>3. Len(port[p].msgs) \in Nat
    BY <1>2
  <1> QED BY <1>3, PortsAssumption DEF Offered

(* A call that returns and moved nothing, or failed.                       *)
LEMMA IdleCovers ==
    ASSUME IsFiniteSet(Tasks), CallsInv, Self \in Tasks, call' = Return,
           sched' = sched, port' = port, NEW op \in Ops, NEW p \in Ports,
           Covered(op, p), Self \in Woken(op, p) => Offered(op, p) <= 0
    PROVE  Covered(op, p)'
  <1>1. PICK c \in Tasks : c = Self
    OBVIOUS
  <1>2. PICK W \in SUBSET Tasks : W = Woken(op, p)
    BY DEF Woken
  <1>3. PICK V \in SUBSET Tasks : V = Woken(op, p)'
    BY DEF Woken
  <1>4. PICK n \in Int : n = Offered(op, p)
    BY OfferedType DEF CallsInv
  <1>5. Offered(op, p)' = n
    BY <1>4 DEF Offered
  <1>6. W \ {c} \subseteq V
    <2>1. Undisturbed(sched, sched', {c})
      BY DEF Undisturbed
    <2>2. \A t \in Tasks \ {c} : call'[t] = call[t]
      BY <1>1 DEF Return, CallsInv, PortTypes
    <2>3. \A t \in Tasks \ {c} : t \in Woken(op, p) => t \in Woken(op, p)'
      BY <2>1, <2>2, Lingers
    <2> QED BY <1>2, <1>3, <2>3
  <1>7. Cardinality(W) \in Nat /\ Cardinality(V) \in Nat
        /\ (W \subseteq V => Cardinality(W) <= Cardinality(V))
    BY Counting
  <1>8. CASE c \in W
    BY <1>1, <1>2, <1>3, <1>4, <1>5, <1>7, <1>8 DEF Covered
  <1>9. CASE c \notin W
    <2>1. W \subseteq V
      BY <1>6, <1>9
    <2>2. port[p].live /\ sched.queue[QueueOf(op, p)] # <<>> => n <= Cardinality(W)
      BY <1>2, <1>4 DEF Covered
    <2>3. port'[p].live /\ sched'.queue[QueueOf(op, p)] # <<>> => n <= Cardinality(V)
      BY <2>1, <2>2, <1>4, <1>7
    <2> QED BY <2>3, <1>3, <1>5 DEF Covered, QueueOf
  <1> QED BY <1>8, <1>9

(* Two different queues of ports.                                          *)
LEMMA QueuesDiffer ==
    ASSUME NEW a \in Ops, NEW b \in Ops, NEW p \in Ports, NEW s \in Ports
    PROVE  /\ QueueOf(a, p) \in SleepQueues
           /\ QueueOf(a, p) = QueueOf(b, s) => a = b /\ p = s
  BY PortQueues, PortsAssumption DEF Ops, QueueOf

(* A call that falls asleep, because nothing is offered to it.             *)
LEMMA SleepCovers ==
    ASSUME IsFiniteSet(Tasks), CallsInv, Self \in Tasks, NEW cc,
           call' = [call EXCEPT ![Self] = cc], port' = port,
           NEW a \in Ops, NEW s \in Ports, Offered(a, s) <= 0,
           sched' = wait_on(sched, QueueOf(a, s)),
           NEW op \in Ops, NEW p \in Ports, Covered(op, p),
           Self \in Woken(op, p) => op = a /\ p = s
    PROVE  Covered(op, p)'
  <1>1. PICK c \in Tasks : c = Self
    OBVIOUS
  <1>2. PICK W \in SUBSET Tasks : W = Woken(op, p)
    BY DEF Woken
  <1>3. PICK V \in SUBSET Tasks : V = Woken(op, p)'
    BY DEF Woken
  <1>4. PICK n \in Int : n = Offered(op, p)
    BY OfferedType DEF CallsInv
  <1>5. Offered(op, p)' = n
    BY <1>4 DEF Offered
  <1> DEFINE q == QueueOf(a, s)
  <1>6. /\ Undisturbed(sched, sched', {c})
        /\ \A r \in SleepQueues \ {q} : sched'.queue[r] = sched.queue[r]
    <2> DEFINE k == wait_on(sched, q)
    <2>1. q \in SleepQueues
      BY QueuesDiffer
    <2> HIDE DEF q
    <2>2. /\ Consistent(k) /\ NoTaskLost(k)
          /\ Undisturbed(sched, k, {sched.current})
          /\ k.waiting_on[sched.current] = q
          /\ k.queue[q] # <<>>
          /\ \A r \in SleepQueues \ {q} : k.queue[r] = sched.queue[r]
      <3>1. sched.current \in Tasks /\ Consistent(sched) /\ NoTaskLost(sched)
        BY DEF Self, CallsInv, SchedKept
      <3> QED BY <2>1, <3>1, SleepMove
    <2>3. sched' = k
      BY DEF q
    <2> HIDE DEF k
    <2> QED BY <1>1, <2>2, <2>3 DEF Self
  <1>7. W \ {c} \subseteq V
    <2>1. \A t \in Tasks \ {c} : call'[t] = call[t]
      BY <1>1 DEF CallsInv, PortTypes
    <2>2. \A t \in Tasks \ {c} : t \in Woken(op, p) => t \in Woken(op, p)'
      BY <1>6, <2>1, Lingers
    <2> QED BY <1>2, <1>3, <2>2
  <1>8. Cardinality(W) \in Nat /\ Cardinality(V) \in Nat
        /\ (W \subseteq V => Cardinality(W) <= Cardinality(V))
    BY Counting
  <1>9. CASE op = a /\ p = s
    <2>1. n <= 0
      BY <1>4, <1>9
    <2>2. n <= Cardinality(V)
      BY <2>1, <1>8
    <2> QED BY <2>2, <1>3, <1>5 DEF Covered
  <1>10. CASE ~(op = a /\ p = s)
    <2>1. W \subseteq V
      BY <1>1, <1>2, <1>7, <1>10
    <2>2. sched'.queue[QueueOf(op, p)] = sched.queue[QueueOf(op, p)]
      <3>1. QueueOf(op, p) \in SleepQueues \ {q}
        BY <1>10, QueuesDiffer
      <3> QED BY <3>1, <1>6
    <2>3. port[p].live /\ sched.queue[QueueOf(op, p)] # <<>> => n <= Cardinality(W)
      BY <1>2, <1>4 DEF Covered
    <2>4. port'[p].live /\ sched'.queue[QueueOf(op, p)] # <<>> => n <= Cardinality(V)
      BY <2>1, <2>2, <2>3, <1>4, <1>8
    <2> QED BY <2>4, <1>3, <1>5 DEF Covered, QueueOf
  <1> QED BY <1>9, <1>10

(* Whom wake_one() wakes, if the queue holds a task.                       *)
LEMMA WokenOne ==
    ASSUME CallsInv, NEW c \in Tasks, c = Self, NEW b \in Ops, NEW s \in Ports,
           call' = Return, sched' = wake_one(sched, QueueOf(b, s), ERR_NONE),
           sched.queue[QueueOf(b, s)] # <<>>
    PROVE  \E h \in Tasks :
              /\ Undisturbed(sched, sched', {h, c}) /\ h # c
              /\ \A t \in Tasks \ {h, c} : call'[t] = call[t]
              /\ \A r \in SleepQueues \ {QueueOf(b, s)} : sched'.queue[r] = sched.queue[r]
              /\ \A op, p : h \notin Woken(op, p)
              /\ h \in Woken(b, s)'
  <1> DEFINE q == QueueOf(b, s)
             r == wake_one(sched, q, ERR_NONE)
             f == Head(sched.queue[q])
  <1>1. /\ Consistent(sched) /\ NoTaskLost(sched) /\ call \in [Tasks -> Calls]
        /\ q \in SleepQueues /\ ERR_NONE \in Status /\ sched.queue[q] # <<>>
    BY QueuesDiffer DEF CallsInv, SchedKept, PortTypes, Status
  <1> HIDE DEF q
  <1>0. OneWoken(sched, q, ERR_NONE, r)
    BY <1>1, WakeOneMove
  <1>3. sched' = r
    BY DEF q
  <1> HIDE DEF r
  <1>2. /\ f \in Tasks /\ Undisturbed(sched, r, {f})
        /\ sched.waiting_on[f] = q /\ r.waiting_on[f] = RunQueue /\ r.status[f] = ERR_NONE
        /\ \A p \in SleepQueues \ {q} : r.queue[p] = sched.queue[p]
    BY <1>0 DEF OneWoken
  <1> HIDE DEF f
  <1>4. PICK h \in Tasks : h = f
    BY <1>2
  <1>5. /\ Undisturbed(sched, sched', {h}) /\ sched.waiting_on[h] = q
        /\ sched'.waiting_on[h] = RunQueue /\ sched'.status[h] = ERR_NONE
        /\ \A p \in SleepQueues \ {q} : sched'.queue[p] = sched.queue[p]
    BY <1>2, <1>3, <1>4
  <1>6. Asleep(h) /\ ~Asleep(h)' /\ SleepsRight(h)
    BY <1>1, <1>5 DEF Asleep, SleepQueues, CallsInv
  <1>7. h # c
    <2>1. ~Asleep(Self)
      BY SelfAwake DEF CallsInv
    <2> QED BY <2>1, <1>6
  <1>8. \A t \in Tasks \ {c} : call'[t] = call[t]
    BY <1>1 DEF Return
  <1>9. call[h] # InUserMode /\ call[h].op = b /\ call[h].port = s
    <2>1. call[h] # InUserMode /\ WaitsAt(call[h]) = QueueOf(b, s)
      BY <1>5, <1>6 DEF SleepsRight, q
    <2>2. call[h].op \in Ops /\ call[h].port \in Ports
      BY <2>1, <1>1, CallFields DEF Ops
    <2>3. WaitsAt(call[h]) = QueueOf(call[h].op, call[h].port)
      BY DEF WaitsAt, QueueOf
    <2>4. PICK x \in Ops, y \in Ports : x = call[h].op /\ y = call[h].port
      BY <2>2
    <2>5. QueueOf(x, y) = QueueOf(b, s)
      BY <2>1, <2>3, <2>4
    <2>6. x = b /\ y = s
      BY <2>5, QueuesDiffer
    <2> QED BY <2>1, <2>4, <2>6
  <1>10. h \in Woken(b, s)'
    BY <1>5, <1>6, <1>7, <1>8, <1>9 DEF Woken, GoesOn, InUserMode
  <1>11. \A op, p : h \notin Woken(op, p)
    BY <1>6 DEF Woken, GoesOn
  <1>12. Undisturbed(sched, sched', {h, c})
    BY <1>5 DEF Undisturbed
  <1> QED BY <1>5, <1>7, <1>8, <1>10, <1>11, <1>12 DEF q

(* A call that moves a message: it takes one of what it was offered and    *)
(* offers one more to the other side, whom it wakes.                       *)
LEMMA MoveCovers ==
    ASSUME IsFiniteSet(Tasks), CallsInv, Self \in Tasks, call' = Return,
           NEW a \in Ops, NEW b \in Ops, a # b, NEW s \in Ports,
           sched' = wake_one(sched, QueueOf(b, s), ERR_NONE),
           \A r \in Ports : port'[r].live = port[r].live,
           NEW op \in Ops, NEW p \in Ports, Covered(op, p),
           Self \in Woken(op, p) => op = a /\ p = s,
           op = a /\ p = s => Offered(op, p)' = Offered(op, p) - 1,
           op = b /\ p = s => Offered(op, p)' = Offered(op, p) + 1,
           p # s => Offered(op, p)' = Offered(op, p)
    PROVE  Covered(op, p)'
  <1>1. PICK c \in Tasks : c = Self
    OBVIOUS
  <1>2. PICK W \in SUBSET Tasks : W = Woken(op, p)
    BY DEF Woken
  <1>3. PICK V \in SUBSET Tasks : V = Woken(op, p)'
    BY DEF Woken
  <1>4. PICK n \in Int : n = Offered(op, p)
    BY OfferedType DEF CallsInv
  <1>5. op = a \/ op = b
    BY DEF Ops
  <1>6. /\ Cardinality(W) \in Nat /\ Cardinality(V) \in Nat
        /\ W \subseteq V => Cardinality(W) <= Cardinality(V)
        /\ \A x : W \ {x} \subseteq V => Cardinality(W) - 1 <= Cardinality(V)
        /\ \A x : x \notin W /\ W \cup {x} \subseteq V => Cardinality(W) + 1 <= Cardinality(V)
    BY Counting
  <1>7. port[p].live /\ sched.queue[QueueOf(op, p)] # <<>> => n <= Cardinality(W)
    BY <1>2, <1>4 DEF Covered
  <1> DEFINE q == QueueOf(b, s)
             o == QueueOf(op, p)
  <1>8. q \in SleepQueues /\ o \in SleepQueues /\ (o = q => op = b /\ p = s)
    BY QueuesDiffer
  <1> HIDE DEF q, o
  <1>9. SUFFICES ASSUME port[p].live, sched'.queue[o] # <<>>
                 PROVE  Offered(op, p)' <= Cardinality(V)
    BY <1>3 DEF Covered, o, QueueOf
  <1>10. CASE sched.queue[q] = <<>>
    <2>1. sched' = sched
      BY <1>10 DEF wake_one, q
    <2>2. ~(op = b /\ p = s)
      <3>1. op = b /\ p = s => o = q
        BY DEF o, q
      <3> QED BY <3>1, <2>1, <1>9, <1>10
    <2>3. W \ {c} \subseteq V
      <3>1. Undisturbed(sched, sched', {c})
        BY <2>1 DEF Undisturbed
      <3>2. \A t \in Tasks \ {c} : call'[t] = call[t]
        BY <1>1 DEF Return, CallsInv, PortTypes
      <3>3. \A t \in Tasks \ {c} : t \in Woken(op, p) => t \in Woken(op, p)'
        BY <3>1, <3>2, Lingers
      <3> QED BY <3>3, <1>2, <1>3
    <2>4. n <= Cardinality(W)
      BY <2>1, <1>7, <1>9 DEF o
    <2>5. CASE op = a /\ p = s
      BY <2>3, <2>4, <2>5, <1>4, <1>6
    <2>6. CASE p # s
      <3>1. W \subseteq V
        BY <2>3, <2>6, <1>1, <1>2
      <3> QED BY <3>1, <2>4, <2>6, <1>4, <1>6
    <2> QED BY <2>2, <2>5, <2>6, <1>5
  <1>11. CASE sched.queue[q] # <<>>
    <2>1. PICK h \in Tasks :
              /\ Undisturbed(sched, sched', {h, c}) /\ h # c
              /\ \A t \in Tasks \ {h, c} : call'[t] = call[t]
              /\ \A r \in SleepQueues \ {q} : sched'.queue[r] = sched.queue[r]
              /\ \A x, y : h \notin Woken(x, y)
              /\ h \in Woken(b, s)'
      BY <1>1, <1>11, WokenOne DEF q
    <2>2. \A t \in Tasks \ {h, c} : t \in Woken(op, p) => t \in Woken(op, p)'
      BY <2>1, Lingers
    <2>3. h \notin W /\ W \ {c} \subseteq V
      BY <2>1, <2>2, <1>2, <1>3
    <2>4. n <= Cardinality(W)
      <3>1. sched.queue[o] # <<>>
        BY <2>1, <1>8, <1>9, <1>11
      <3> QED BY <3>1, <1>7, <1>9 DEF o
    <2>5. CASE op = a /\ p = s
      BY <2>3, <2>4, <2>5, <1>4, <1>6
    <2>6. CASE op = b /\ p = s
      <3>1. h \in V /\ W \subseteq V
        BY <2>1, <2>3, <2>6, <1>1, <1>2, <1>3
      <3>2. Cardinality(W) + 1 <= Cardinality(V)
        BY <3>1, <2>3, <1>6
      <3> QED BY <3>2, <2>4, <2>6, <1>4, <1>6
    <2>7. CASE p # s
      <3>1. W \subseteq V
        BY <2>3, <2>7, <1>1, <1>2
      <3> QED BY <3>1, <2>4, <2>7, <1>4, <1>6
    <2> QED BY <2>5, <2>6, <2>7, <1>5
  <1> QED BY <1>10, <1>11

(* A message sent: one place less, one message more (port.c:173-187).      *)
LEMMA SendLoopCovers ==
    ASSUME IsFiniteSet(Tasks), CallsInv, Self \in Tasks, NEW s \in Ports,
           port[s].slaved = NoPort, NEW m \in Messages, NEW size \in Sizes,
           send_loop(s, m, size), SameLinks, NEW op \in Ops, NEW p \in Ports,
           Covered(op, p), Self \in Woken(op, p) => op = "send" /\ p = s,
           op = "send" => size = "fits"
    PROVE  Covered(op, p)'
  <1>1. /\ port \in [Ports -> PortStates] /\ port[s] \in PortStates
        /\ port[s].msgs \in Seq(Messages) /\ Len(port[s].msgs) \in Nat
        /\ "send" \in Ops /\ "recv" \in Ops
    BY OfferedType, PortFields DEF CallsInv, PortTypes, Ops
  <1>2. CASE Len(port[s].msgs) >= MAX_MSGCOUNT
    <2>1. Offered("send", s) <= 0
      BY <1>1, <1>2, PortsAssumption DEF Offered
    <2>2. CASE port[s].nowait
      <3>1. call' = Return /\ sched' = sched /\ port' = port
        BY <1>2, <2>2 DEF send_loop
      <3>2. Self \in Woken(op, p) => Offered(op, p) <= 0
        BY <2>1
      <3> QED BY <3>1, <3>2, IdleCovers
    <2>3. CASE ~port[s].nowait
      <3>1. /\ sched' = wait_on(sched, QueueOf("send", s)) /\ port' = port
            /\ call' = [call EXCEPT ![Self] = Sending(s, m, size)]
        BY <1>2, <2>3 DEF send_loop, QueueOf
      <3> QED BY <3>1, <2>1, <1>1, SleepCovers
    <2> QED BY <2>2, <2>3
  <1>3. CASE Len(port[s].msgs) < MAX_MSGCOUNT /\ size = "toobig"
    <2>1. call' = Return /\ sched' = sched /\ port' = port
      BY <1>1, <1>3, PortsAssumption DEF send_loop
    <2>2. Self \notin Woken(op, p)
      BY <1>3
    <2> QED BY <2>1, <2>2, IdleCovers
  <1>4. CASE Len(port[s].msgs) < MAX_MSGCOUNT /\ size # "toobig"
    <2>1. /\ call' = Return
          /\ port' = [port EXCEPT ![s].msgs = Append(@, m)]
          /\ sched' = wake_one(sched, QueueOf("recv", s), ERR_NONE)
      BY <1>1, <1>4, PortsAssumption DEF send_loop, WakeReceiver, QueueOf
    <2>2. /\ Len(port'[s].msgs) = Len(port[s].msgs) + 1
          /\ \A r \in Ports \ {s} : port'[r] = port[r]
      BY <2>1, <1>1 DEF PortStates
    <2>3. /\ Offered("send", s)' = Offered("send", s) - 1
          /\ Offered("recv", s)' = Offered("recv", s) + 1
      BY <2>2, <1>1, PortsAssumption DEF Offered
    <2>4. p # s => Offered(op, p)' = Offered(op, p)
      BY <2>2 DEF Offered
    <2>5. /\ op = "send" /\ p = s => Offered(op, p)' = Offered(op, p) - 1
          /\ op = "recv" /\ p = s => Offered(op, p)' = Offered(op, p) + 1
      BY <2>3
    <2> QED BY <2>1, <2>4, <2>5, <1>1, MoveCovers DEF SameLinks
  <1> QED BY <1>1, <1>2, <1>3, <1>4, PortsAssumption

(* A message received: one message less, one place more (port.c:221-238).  *)
LEMMA RecvLoopCovers ==
    ASSUME IsFiniteSet(Tasks), CallsInv, Self \in Tasks, NEW s \in Ports,
           recv_loop(s), SameLinks, NEW op \in Ops, NEW p \in Ports,
           Covered(op, p), Self \in Woken(op, p) => op = "recv" /\ p = s
    PROVE  Covered(op, p)'
  <1>1. /\ port \in [Ports -> PortStates] /\ port[s] \in PortStates
        /\ port[s].msgs \in Seq(Messages) /\ Len(port[s].msgs) \in Nat
        /\ "send" \in Ops /\ "recv" \in Ops
    BY OfferedType, PortFields DEF CallsInv, PortTypes, Ops
  <1>2. CASE port[s].msgs = <<>>
    <2>1. Offered("recv", s) <= 0
      BY <1>2 DEF Offered
    <2>2. CASE port[s].nowait
      <3>1. call' = Return /\ sched' = sched /\ port' = port
        BY <1>2, <2>2 DEF recv_loop
      <3>2. Self \in Woken(op, p) => Offered(op, p) <= 0
        BY <2>1
      <3> QED BY <3>1, <3>2, IdleCovers
    <2>3. CASE ~port[s].nowait
      <3>1. /\ sched' = wait_on(sched, QueueOf("recv", s)) /\ port' = port
            /\ call' = [call EXCEPT ![Self] = Receiving(s)]
        BY <1>2, <2>3 DEF recv_loop, QueueOf
      <3> QED BY <3>1, <2>1, <1>1, SleepCovers
    <2> QED BY <2>2, <2>3
  <1>3. CASE port[s].msgs # <<>>
    <2>1. /\ call' = Return
          /\ port' = [port EXCEPT ![s].msgs = Tail(@)]
          /\ sched' = wake_one(sched, QueueOf("send", s), ERR_NONE)
      BY <1>3 DEF recv_loop, QueueOf
    <2>2. /\ Len(port'[s].msgs) = Len(port[s].msgs) - 1
          /\ \A r \in Ports \ {s} : port'[r] = port[r]
      BY <2>1, <1>1, <1>3 DEF PortStates
    <2>3. /\ Offered("recv", s)' = Offered("recv", s) - 1
          /\ Offered("send", s)' = Offered("send", s) + 1
      BY <2>2, <1>1, PortsAssumption DEF Offered
    <2>4. p # s => Offered(op, p)' = Offered(op, p)
      BY <2>2 DEF Offered
    <2>5. /\ op = "recv" /\ p = s => Offered(op, p)' = Offered(op, p) - 1
          /\ op = "send" /\ p = s => Offered(op, p)' = Offered(op, p) + 1
      BY <2>3
    <2> QED BY <2>1, <2>4, <2>5, <1>1, MoveCovers DEF SameLinks
  <1> QED BY <1>2, <1>3

(* The port a sender works on is nobody's slave, when none becomes one     *)
(* under it.                                                               *)
SendersUnslaved ==
    \A t \in Tasks : call[t] # InUserMode /\ call[t].op = "send" =>
        port[call[t].port].slaved = NoPort

\* The sizes sent fit, as far as the property about op needs it.
SizesFit(op) == op = "send" => Sizes \subseteq {"fits"}

(* Sends, receives and their resumption (port.c:104-243) forget nobody.    *)
LEMMA SendsCover ==
    ASSUME IsFiniteSet(Tasks), CallsInv, SendersUnslaved, Sends,
           NEW op \in Ops, NEW p \in Ports, Covered(op, p), SizesFit(op)
    PROVE  Covered(op, p)'
  <1>1. PortTypes /\ SameLinks /\ call \in [Tasks -> Calls]
    BY SendsKeep DEF CallsInv, PortsKept, PortTypes
  <1>2. \A size \in Sizes : op = "send" => size = "fits"
    BY DEF SizesFit
  <1>3. ASSUME NEW sd \in MaySend, NEW size \in Sizes, port_send(sd[1], sd[2], size)
        PROVE  Covered(op, p)'
    <2>1. sd[1] \in Ports /\ sd[2] \in Ports
      BY PortsAssumption
    <2>2. /\ Self \in Tasks /\ Deliverable(sd[2]) /\ call[Self] = InUserMode
          /\ send_loop(Target(sd[2]), [from |-> sd[1], to |-> sd[2]], size)
      BY <1>3 DEF port_send, CanCall
    <2>3. Target(sd[2]) \in Ports /\ port[Target(sd[2])].slaved = NoPort
      BY <1>1, <2>1, <2>2, TargetLive
    <2>4. [from |-> sd[1], to |-> sd[2]] \in Messages
      BY <2>1 DEF Messages
    <2>5. Self \notin Woken(op, p)
      BY <2>2 DEF Woken, GoesOn
    <2> QED BY <1>1, <1>2, <2>2, <2>3, <2>4, <2>5, SendLoopCovers
  <1>4. ASSUME NEW s \in Ports, port_recv(s)
        PROVE  Covered(op, p)'
    <2>1. Self \notin Woken(op, p) /\ Self \in Tasks /\ recv_loop(s)
      BY <1>4 DEF Woken, GoesOn, port_recv, CanCall
    <2> QED BY <1>1, <2>1, RecvLoopCovers
  <1>5. ASSUME resume
        PROVE  Covered(op, p)'
    <2>1. Self \in Tasks /\ call[Self] # InUserMode /\ call[Self] \in Calls
      BY <1>1, <1>5 DEF resume, port_send_resume, port_recv_resume, InKernel
    <2>2. Self \in Woken(op, p) => call[Self].op = op /\ call[Self].port = p
      BY DEF Woken
    <2>3. CASE sched.status[Self] # ERR_NONE
      <3>1. call' = Return /\ sched' = sched /\ port' = port
        BY <1>5, <2>3 DEF resume, port_send_resume, port_recv_resume
      <3>2. Self \notin Woken(op, p)
        BY <2>3 DEF Woken, GoesOn
      <3> QED BY <2>1, <3>1, <3>2, IdleCovers
    <2>4. CASE /\ call[Self].op = "send"
               /\ send_loop(call[Self].port, call[Self].msg, call[Self].size)
      <3>1. /\ call[Self].port \in Ports /\ call[Self].msg \in Messages
            /\ call[Self].size \in Sizes
        BY <2>1, <2>4, CallFields
      <3>2. port[call[Self].port].slaved = NoPort
        BY <2>1, <2>4 DEF SendersUnslaved
      <3>3. Self \in Woken(op, p) => op = "send" /\ p = call[Self].port
        BY <2>2, <2>4
      <3> QED BY <1>1, <1>2, <2>1, <2>4, <3>1, <3>2, <3>3, SendLoopCovers
    <2>5. CASE call[Self].op = "recv" /\ recv_loop(call[Self].port)
      <3>1. call[Self].port \in Ports
        BY <2>1, CallFields
      <3>2. Self \in Woken(op, p) => op = "recv" /\ p = call[Self].port
        BY <2>2, <2>5
      <3> QED BY <1>1, <2>1, <2>5, <3>1, <3>2, RecvLoopCovers
    <2> QED BY <1>5, <2>3, <2>4, <2>5 DEF resume, port_send_resume, port_recv_resume
  <1> QED BY <1>3, <1>4, <1>5 DEF Sends

(* The ports senders work on are nobody's slaves: port_send() goes to the  *)
(* master (port.c:129), which must not be a slave.                         *)
LEMMA UnslavedStep ==
    ASSUME RacySlave = FALSE, CallsInv, SendersUnslaved, [Next]_vars
    PROVE  SendersUnslaved'
  <1>0. /\ PortTypes /\ call \in [Tasks -> Calls]
        /\ \A t \in Tasks : call[t] # InUserMode => call[t].port \in Ports
    BY CallFields DEF CallsInv, PortTypes
  <1>1. CASE /\ call' = call
             /\ \A q \in Ports : port[q].slaved = NoPort => port'[q].slaved = NoPort
    BY <1>0, <1>1 DEF SendersUnslaved
  <1>2. ASSUME NEW p \in Ports, NEW r \in Restricts, port_create(p, r)
        PROVE  SendersUnslaved'
    BY <1>1, <1>2, CreateMove
  <1>3. ASSUME NEW p \in Ports, port_destroy(p)
        PROVE  SendersUnslaved'
    <2>1. port \in [Ports -> PortStates] /\ port[p] \in PortStates
      BY <1>0 DEF PortTypes
    <2>2. /\ port' = [port EXCEPT ![p] = [port[p] EXCEPT !.live = FALSE]]
          /\ call' = call
      BY <1>3 DEF port_destroy
    <2>3. \A q \in Ports : port'[q].slaved = port[q].slaved
      BY <2>1, <2>2 DEF PortStates
    <2> QED BY <2>2, <2>3, <1>1
  <1>4. ASSUME NEW p \in Ports,
               \/ \E r \in Restricts : set_restrict(p, r)
               \/ \E b \in NoWaits : set_nowait(p, b)
        PROVE  SendersUnslaved'
    <2>1. SameLinks
      BY <1>0, <1>4, OptionKeeps
    <2>2. call' = call
      BY <1>4 DEF set_restrict, set_nowait
    <2> QED BY <2>1, <2>2, <1>1 DEF SameLinks
  <1>5. ASSUME NEW pm \in MaySlave, port_slave(pm[1], pm[2])
        PROVE  SendersUnslaved'
    <2>1. pm[1] \in Ports /\ pm[2] \in Ports \cup {NoPort}
      BY PortsAssumption
    <2>2. \A q \in Ports \ {pm[1]} : port'[q].slaved = port[q].slaved
      BY <1>0, <1>5, <2>1, SlaveFields
    <2>3. /\ call' = call
          /\ \A t \in Tasks : call[t] # InUserMode /\ call[t].op = "send"
                                  => call[t].port # pm[1]
      BY <1>5 DEF port_slave
    <2> QED BY <1>0, <2>2, <2>3 DEF SendersUnslaved
  <1>6. ASSUME Sends
        PROVE  SendersUnslaved'
    <2>1. SameLinks
      BY <1>6, SendsKeep DEF CallsInv, PortsKept
    <2>2. PICK c \in Tasks : c = Self
      BY <1>6 DEF Sends, port_send, port_recv, resume, port_send_resume,
                  port_recv_resume, CanCall, InKernel
    <2>3. ASSUME NEW s \in Ports, NEW m, NEW size, send_loop(s, m, size), port[s].slaved = NoPort
          PROVE  SendersUnslaved'
      <3>1. \A t \in Tasks \ {c} : call'[t] = call[t]
        BY <2>2, <2>3, <1>0 DEF send_loop, Return
      <3>2. call'[c] = InUserMode \/ call'[c] = Sending(s, m, size)
        BY <2>2, <2>3, <1>0 DEF send_loop, Return
      <3> QED BY <2>1, <2>3, <3>1, <3>2, <1>0 DEF SameLinks, SendersUnslaved, Sending, InUserMode
    <2>4. ASSUME NEW s \in Ports, recv_loop(s)
          PROVE  SendersUnslaved'
      <3>1. \A t \in Tasks \ {c} : call'[t] = call[t]
        BY <2>2, <2>4, <1>0 DEF recv_loop, Return
      <3>2. call'[c] = InUserMode \/ call'[c] = Receiving(s)
        BY <2>2, <2>4, <1>0 DEF recv_loop, Return
      <3> QED BY <2>1, <3>1, <3>2, <1>0 DEF SameLinks, SendersUnslaved, Receiving, InUserMode
    <2>5. ASSUME NEW sd \in MaySend, NEW size \in Sizes, port_send(sd[1], sd[2], size)
          PROVE  SendersUnslaved'
      <3>1. sd[2] \in Ports /\ Deliverable(sd[2])
        BY <2>5, PortsAssumption DEF port_send
      <3>2. PICK s \in Ports : s = Target(sd[2]) /\ port[s].slaved = NoPort
        BY <1>0, <3>1, TargetLive
      <3> QED BY <2>3, <2>5, <3>2 DEF port_send
    <2>6. ASSUME resume
          PROVE  SendersUnslaved'
      <3>1. call[c] # InUserMode /\ call[c] \in Calls /\ call[c].port \in Ports
        BY <2>2, <2>6, <1>0 DEF resume, port_send_resume, port_recv_resume, InKernel
      <3>2. PICK s \in Ports : s = call[c].port
        BY <3>1
      <3>3. CASE call' = Return
        <4>1. call'[c] = InUserMode /\ \A t \in Tasks \ {c} : call'[t] = call[t]
          BY <2>2, <3>3, <1>0 DEF Return
        <4> QED BY <4>1, <2>1, <1>0 DEF SameLinks, SendersUnslaved
      <3>4. CASE call[c].op = "send" /\ send_loop(s, call[c].msg, call[c].size)
        BY <3>1, <3>2, <3>4, <2>3 DEF SendersUnslaved
      <3>5. CASE recv_loop(s)
        BY <3>5, <2>4
      <3> QED BY <2>2, <2>6, <3>2, <3>3, <3>4, <3>5
              DEF resume, port_send_resume, port_recv_resume
    <2> QED BY <1>6, <2>4, <2>5, <2>6 DEF Sends, port_recv
  <1>7. CASE UNCHANGED <<port, call>>
    BY <1>7, <1>1
  <1> QED BY <1>2, <1>3, <1>4, <1>5, <1>6, <1>7 DEF Next, Sends, timer, vars

(* A step that moves no message of p and wakes nobody to go on.            *)
LEMMA StillCovers ==
    ASSUME IsFiniteSet(Tasks), CallsInv, NEW T \in SUBSET Tasks,
           Undisturbed(sched, sched', T), \A t \in T : Asleep(t), call' = call,
           NEW op \in Ops, NEW p \in Ports, Covered(op, p),
           port'[p].live => port[p].live, port'[p].msgs = port[p].msgs,
           sched'.queue[QueueOf(op, p)] = sched.queue[QueueOf(op, p)]
    PROVE  Covered(op, p)'
  <1>1. PICK W \in SUBSET Tasks : W = Woken(op, p)
    BY DEF Woken
  <1>2. PICK V \in SUBSET Tasks : V = Woken(op, p)'
    BY DEF Woken
  <1>3. PICK n \in Int : n = Offered(op, p)
    BY OfferedType DEF CallsInv
  <1>4. Offered(op, p)' = n
    BY <1>3 DEF Offered
  <1>5. W \subseteq V
    <2>1. \A t \in T : t \notin Woken(op, p)
      BY DEF Woken, GoesOn
    <2>2. \A t \in Tasks \ T : t \in Woken(op, p) => t \in Woken(op, p)'
      BY Lingers
    <2> QED BY <2>1, <2>2, <1>1, <1>2
  <1>6. /\ Cardinality(W) \in Nat /\ Cardinality(V) \in Nat
        /\ Cardinality(W) <= Cardinality(V)
    BY <1>5, Counting
  <1>7. port[p].live /\ sched.queue[QueueOf(op, p)] # <<>> => n <= Cardinality(W)
    BY <1>1, <1>3 DEF Covered
  <1>8. port'[p].live /\ sched'.queue[QueueOf(op, p)] # <<>> => n <= Cardinality(V)
    BY <1>6, <1>7
  <1> QED BY <1>8, <1>2, <1>4 DEF Covered, QueueOf

(* So no step does.                                                        *)
LEMMA CoverStep ==
    ASSUME IsFiniteSet(Tasks), CallsInv, SendersUnslaved, [Next]_vars,
           NEW op \in Ops, NEW p \in Ports, Covered(op, p), SizesFit(op)
    PROVE  Covered(op, p)'
  <1>0. PortTypes /\ port \in [Ports -> PortStates] /\ QueueOf(op, p) \in {p, SendQueue[p]}
    BY DEF CallsInv, PortTypes, QueueOf
  <1>1. CASE /\ sched' = sched /\ call' = call
             /\ port'[p].live => port[p].live
             /\ port'[p].msgs = port[p].msgs
    <2>1. Undisturbed(sched, sched', {})
      BY <1>1 DEF Undisturbed
    <2> QED BY <1>1, <2>1, StillCovers
  <1>2. ASSUME NEW s \in Ports, NEW r \in Restricts, port_create(s, r)
        PROVE  Covered(op, p)'
    <2>1. CASE s = p
      <3>1. sched'.queue[QueueOf(op, p)] = <<>>
        BY <2>1, <1>0, <1>2, CreateMove
      <3> QED BY <3>1 DEF Covered, QueueOf
    <2>2. CASE s # p
      <3>1. sched' = sched /\ call' = call /\ port'[p] = port[p]
        BY <2>2, <1>2, CreateMove
      <3> QED BY <3>1, <1>1
    <2> QED BY <2>1, <2>2
  <1>3. ASSUME NEW s \in Ports, port_destroy(s)
        PROVE  Covered(op, p)'
    <2>1. PICK T \in SUBSET Tasks :
              /\ T = {t \in Tasks : sched.waiting_on[t] \in {s, SendQueue[s]}}
              /\ Consistent(sched') /\ NoTaskLost(sched')
              /\ Undisturbed(sched, sched', T)
              /\ \A t \in T : /\ sched'.status[t] = ERR_RESOURCE
                              /\ sched'.waiting_on[t] \notin SleepQueues
              /\ \A q \in SleepQueues \ {s, SendQueue[s]} : sched'.queue[q] = sched.queue[q]
              /\ call' = call /\ \A q \in Ports \ {s} : port'[q] = port[q]
              /\ ~port'[s].live
      BY <1>3, DestroyMove
    <2>2. CASE s = p
      BY <2>1, <2>2 DEF Covered
    <2>3. CASE s # p
      <3>1. \A t \in T : Asleep(t)
        BY <2>1, PortQueues DEF Asleep, SleepQueues
      <3>2. QueueOf(op, p) \in SleepQueues \ {s, SendQueue[s]}
        BY <2>3, QueuesDiffer, PortsAssumption DEF QueueOf
      <3>3. /\ sched'.queue[QueueOf(op, p)] = sched.queue[QueueOf(op, p)]
            /\ port'[p] = port[p]
        BY <2>1, <2>3, <3>2
      <3> QED BY <2>1, <3>1, <3>3, StillCovers
    <2> QED BY <2>2, <2>3
  <1>4. ASSUME NEW s \in Ports,
               \/ \E r \in Restricts : set_restrict(s, r)
               \/ \E b \in NoWaits : set_nowait(s, b)
        PROVE  Covered(op, p)'
    <2>1. port[s] \in PortStates
      BY <1>0
    <2>2. \A q \in Ports : port'[q].live = port[q].live /\ port'[q].msgs = port[q].msgs
      BY <2>1, <1>0, <1>4 DEF set_restrict, set_nowait, PortStates
    <2>3. call' = call /\ sched' = sched
      BY <1>4 DEF set_restrict, set_nowait
    <2> QED BY <2>2, <2>3, <1>1
  <1>5. ASSUME NEW pm \in MaySlave, port_slave(pm[1], pm[2])
        PROVE  Covered(op, p)'
    <2>1. pm[1] \in Ports /\ pm[2] \in Ports \cup {NoPort}
      BY PortsAssumption
    <2>2. \A q \in Ports : port'[q].live = port[q].live /\ port'[q].msgs = port[q].msgs
      BY <1>0, <1>5, <2>1, SlaveFields
    <2>3. call' = call /\ sched' = sched
      BY <1>5 DEF port_slave
    <2> QED BY <2>2, <2>3, <1>1
  <1>6. ASSUME Sends
        PROVE  Covered(op, p)'
    BY <1>6, SendsCover
  <1>7. ASSUME timer
        PROVE  Covered(op, p)'
    <2> DEFINE r == timer_irq(sched)
    <2>1. Consistent(sched) /\ NoTaskLost(sched) /\ QueueOf(op, p) \in SleepQueues
      BY QueuesDiffer DEF CallsInv, SchedKept
    <2>2. /\ Consistent(r) /\ NoTaskLost(r)
          /\ Undisturbed(sched, r, {})
          /\ \A q \in SleepQueues : r.queue[q] = sched.queue[q]
      BY <2>1, TimerMove
    <2>3. sched' = r /\ port' = port /\ call' = call
      BY <1>7 DEF timer
    <2> HIDE DEF r
    <2> QED BY <2>1, <2>2, <2>3, StillCovers
  <1>8. CASE UNCHANGED vars
    BY <1>8, <1>1 DEF vars
  <1> QED BY <1>2, <1>3, <1>4, <1>5, <1>6, <1>7, <1>8 DEF Next, Sends

NobodyForgotten(op) ==
    CallsInv /\ SendersUnslaved /\ \A p \in Ports : Covered(op, p)

(* At boot there is nobody to forget.                                      *)
LEMMA ForgottenInit ==
    ASSUME NEW op \in Ops, Init
    PROVE  NobodyForgotten(op)
  <1>1. CallsInv
    BY CallsInit
  <1>2. SendersUnslaved /\ \A p \in Ports : ~port[p].live
    BY DEF Init, SendersUnslaved, UnusedPort
  <1> QED BY <1>1, <1>2 DEF NobodyForgotten, Covered

(* The invariant behind the two theorems on forgotten sleepers.            *)
LEMMA ForgottenStep ==
    ASSUME IsFiniteSet(Tasks), RacyDestroy = FALSE, RacySlave = FALSE,
           NEW op \in Ops, SizesFit(op), NobodyForgotten(op), [Next]_vars
    PROVE  NobodyForgotten(op)'
  <1>1. CallsInv /\ CallsInv'
    BY CallsStep DEF NobodyForgotten
  <1>2. SendersUnslaved'
    BY UnslavedStep DEF NobodyForgotten
  <1>3. \A p \in Ports : Covered(op, p)'
    BY CoverStep DEF NobodyForgotten
  <1> QED BY <1>1, <1>2, <1>3 DEF NobodyForgotten

(* Nobody sleeps in port_recv() on a port with messages, unless as many    *)
(* receivers have been woken as there are messages (port.c:177), when no   *)
(* port is destroyed, and none becomes a slave, under a task that goes on. *)
THEOREM PortsNoReceiverForgotten ==
    ASSUME IsFiniteSet(Tasks), RacyDestroy = FALSE, RacySlave = FALSE
    PROVE  Spec => []NoReceiverForgotten
  <1>1. "recv" \in Ops /\ SizesFit("recv")
    BY DEF Ops, SizesFit
  <1>2. Init => NobodyForgotten("recv")
    BY <1>1, ForgottenInit
  <1>3. NobodyForgotten("recv") /\ [Next]_vars => NobodyForgotten("recv")'
    BY <1>1, ForgottenStep
  <1>4. NobodyForgotten("recv") => NoReceiverForgotten
    BY DEF NobodyForgotten, Covered, Offered, QueueOf, NoReceiverForgotten
  <1> QED BY <1>2, <1>3, <1>4, PTL DEF Spec

(* Nobody sleeps in port_send() on a port with room, unless as many senders*)
(* have been woken as there is room for (port.c:228), under the same       *)
(* restrictions and when every message fits: a woken sender of one that    *)
(* does not fit returns without waking another (port.c:143).               *)
THEOREM PortsNoSenderForgotten ==
    ASSUME IsFiniteSet(Tasks), RacyDestroy = FALSE, RacySlave = FALSE,
           Sizes \subseteq {"fits"}
    PROVE  Spec => []NoSenderForgotten
  <1>1. "send" \in Ops /\ SizesFit("send")
    BY DEF Ops, SizesFit
  <1>2. Init => NobodyForgotten("send")
    BY <1>1, ForgottenInit
  <1>3. NobodyForgotten("send") /\ [Next]_vars => NobodyForgotten("send")'
    BY <1>1, ForgottenStep
  <1>4. NobodyForgotten("send") => NoSenderForgotten
    BY DEF NobodyForgotten, Covered, Offered, QueueOf, NoSenderForgotten
  <1> QED BY <1>2, <1>3, <1>4, PTL DEF Spec
=============================================================================
