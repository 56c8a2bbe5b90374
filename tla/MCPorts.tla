------------------------------ MODULE MCPorts ------------------------------
(* Model checking of Ports: three tasks and two or three ports.            *)
EXTENDS Ports, TLC

CONSTANTS t1, t2, t3, p1, p2, p3, sq1, sq2, sq3, m1, m2, runq, timerq

MCBootTasks2 == <<t1, t2>>
MCBootTasks3 == <<t1, t2, t3>>
MCPorts1 == {p1}
MCPorts2 == {p1, p2}
MCPorts3 == {p1, p2, p3}
MCSendQueue1 == p1 :> sq1
MCSendQueue2 == (p1 :> sq1) @@ (p2 :> sq2)
MCSendQueue3 == MCSendQueue2 @@ (p3 :> sq3)
MCQueues1 == {p1, sq1, runq, timerq}
MCQueues2 == MCPorts2 \cup {sq1, sq2, runq, timerq}
MCQueues3 == MCQueues2 \cup {p3, sq3}
MCTeamOf == [t \in Tasks |-> m1]
MCTwoTeams == [t \in Tasks |-> IF t = t1 THEN m1 ELSE m2]

\* Messages go from p2, the client's port, to the service and back.
MCSendToBoth == {<<p2, p1>>, <<p2, p2>>}
\* From p1 to p2, which may have a master.
MCSendOne == {<<p1, p2>>}

\* One port only, and no masters.
MCSendSelf == {<<p1, p1>>}
MCNoSlaves == {}

\* p2 may be the slave of p1, as a private port of a server is.
MCSlavePrivate == {<<p2, p1>>, <<p2, NoPort>>}
\* Every port may be the slave of every port.
MCSlaveAny == Ports \X (Ports \cup {NoPort})
=============================================================================
