------------------------------ MODULE MCNe2000 ------------------------------
(***************************************************************************)
(* Model checking of Ne2000.                                               *)
(***************************************************************************)
EXTENDS Ne2000

\* The frames of every kind that is answered by a packet the driver takes.
MCFrames == [kind : {"ping"}, port : {0}] \cup [kind : {"udp"}, port : {1}]
               \cup [kind : {"other", "bad"}, port : {0}]

MCCommands == [cmd : {"NET_CONNECT", "NET_SEND", "NET_IP"}, port : {1}]

\* With the ones that are too long.
MCLongFrames == [kind : {"longping"}, port : {0}] \cup MCFrames
=============================================================================
