------------------------------- MODULE Ne2000 -------------------------------
(***************************************************************************)
(* The server of the NE2000 card (srv/ne2000: ne2k.c and the driver        *)
(* ne2000.c): a thread that serves the interrupts (ISR), one that sends    *)
(* (sender), one for the commands of clients (control), and the card.      *)
(*                                                                         *)
(* Packets are in RINGSIZE buffers.  ISR takes a buffer for each frame it  *)
(* receives, answers it or passes its data to clients, and frees it; an    *)
(* answer is a second buffer, sent to port_xmit, from where the sender     *)
(* gives it to the card.  The sender then waits for sem_xmit_done, which   *)
(* ISR releases with the buffer when the card has sent it.  One semaphore  *)
(* (mutex) keeps sender and ISR apart on the card.                         *)
(*                                                                         *)
(* A step is what a thread does between two points at which the card or    *)
(* another thread can make a difference; taking and freeing a buffer,      *)
(* under sem_ring, is one step.  Ports are queues of the kernel's length   *)
(* and semaphores are counters (Ports and Sem model the kernel's own).     *)
(* The interrupt is a level: ISR wakes when the card has a bit set, for it *)
(* sleeps only after it has seen or made them all clear.  Left out: the    *)
(* contents of packets, the card's statistics, and ICMP but for pings.     *)
(***************************************************************************)
EXTENDS Naturals, Sequences, Functions

CONSTANTS RINGSIZE,      \* buffers, 16, of which one is p_discard
          MAX_MSGCOUNT,  \* messages in a port, 16
          MAX_LOAD,      \* rounds of nic_isr for one interrupt, 12
          CardFrames,    \* frames the card can hold
          Frames,        \* the frames that may arrive: [kind, port]
          Clients,       \* programs with a port mapped to a UDP port
          Deaf,          \* those that never read their port
          Commands,      \* what they may ask for: [cmd, port]
          MaxFrames,     \* bound on the frames that arrive
          MaxCommands    \* bound on the commands

MAX_TX == 2  \* transmit slots of the driver

\* For us and answered ("arp", "ping"), answered by more than the driver
\* takes ("longping"), UDP, for nobody ("other") and damaged ("bad").
Kinds == {"arp", "ping", "longping", "udp", "other", "bad"}

ASSUME Ne2000Assumption ==
    /\ {RINGSIZE, MAX_MSGCOUNT, MAX_LOAD, CardFrames} \subseteq Nat \ {0}
    /\ {MaxFrames, MaxCommands} \subseteq Nat
    /\ Frames \subseteq [kind : Kinds, port : Nat]
    /\ Commands \subseteq [cmd : {"NET_CONNECT", "NET_SEND", "NET_IP"}, port : Nat]
    /\ Deaf \subseteq Clients

NULL == 0
p_discard == RINGSIZE
Buffers == 1 .. RINGSIZE - 1
Slots == 1 .. MAX_TX

VARIABLES card,    \* its frames, interrupt status, and whether it is
                   \* transmitting (tx) and started (on)
          nic,     \* the driver: tx_packet, send and sending
          ring,    \* p_next: the free buffers
          long,    \* the buffers with more than MAX_LENGTH bytes
          mutex, xmit_done,  \* semaphores
          xmitq, netq,       \* the messages in port_xmit and port_net
          pmaps,   \* UDP ports and the clients they are mapped to
          isr, snd, ctl,     \* the threads
          box,     \* the number of messages in each client's port
          alive,   \* clients whose port exists
          arrived, asked     \* frames and commands so far, for the bounds

vars == <<card, nic, ring, long, mutex, xmit_done, xmitq, netq, pmaps, isr,
          snd, ctl, box, alive, arrived, asked>>
bounds == <<arrived, asked>>
clients == <<box, alive>>

Init ==
    /\ card = [frames |-> <<>>, status |-> {}, tx |-> FALSE, on |-> TRUE]
    /\ nic = [tx_packet |-> [f \in Slots |-> NULL], send |-> 1, sending |-> FALSE]
    /\ ring = [i \in 1 .. RINGSIZE - 1 |-> RINGSIZE - i]
    /\ long = {}
    /\ mutex = 1 /\ xmit_done = 0
    /\ xmitq = <<>> /\ netq = <<>> /\ pmaps = <<>>
    /\ isr = [pc |-> "sleep", seen |-> {}, overload |-> 0, resend |-> FALSE,
              packet |-> NULL, reply |-> NULL, maps |-> <<>>]
    /\ snd = [pc |-> "recv", packet |-> NULL]
    /\ ctl = [pc |-> "recv", packet |-> NULL, src |-> NULL, maps |-> <<>>]
    /\ box = [c \in Clients |-> 0] /\ alive = Clients
    /\ arrived = 0 /\ asked = 0

-----------------------------------------------------------------------------
(* The card.                                                               *)

FrameArrives(frame) ==
    /\ card.on /\ arrived < MaxFrames
    /\ arrived' = arrived + 1
    /\ card' = IF Len(card.frames) < CardFrames
               THEN [card EXCEPT !.frames = Append(@, frame), !.status = @ \cup {"PRX"}]
               ELSE [card EXCEPT !.status = @ \cup {"OVW"}]
    /\ UNCHANGED <<nic, ring, long, mutex, xmit_done, xmitq, netq, pmaps, isr,
                   snd, ctl, clients, asked>>

\* A frame was sent, or given up after too many collisions.
Transmitted(end) ==
    /\ card.on /\ card.tx
    /\ card' = [card EXCEPT !.tx = FALSE, !.status = @ \cup {end}]
    /\ UNCHANGED <<nic, ring, long, mutex, xmit_done, xmitq, netq, pmaps, isr,
                   snd, ctl, clients, bounds>>

-----------------------------------------------------------------------------
(* Buffers and ports.                                                      *)

\* get_pbuf() gives p_discard when no buffer is free.
get_pbuf == IF ring = <<>> THEN p_discard ELSE Head(ring)
RingTaken == IF ring = <<>> THEN ring ELSE Tail(ring)

free_buffer_data(p) == ring' = <<p>> \o ring

free_buffer_silent(p) ==
    /\ ring' = <<p>> \o ring
    /\ xmit_done' = xmit_done

\* Frees a buffer that was sent, and lets the sender go on.
free_buffer(p) ==
    IF p = p_discard THEN UNCHANGED <<ring, xmit_done>>
    ELSE ring' = <<p>> \o ring /\ xmit_done' = xmit_done + 1

\* xmit() drops p_discard and waits while port_xmit is full.
xmit(p) ==
    IF p = p_discard THEN UNCHANGED xmitq
    ELSE Len(xmitq) < MAX_MSGCOUNT /\ xmitq' = Append(xmitq, p)

\* A message to a client; the sender waits while the port is full.
SendTo(c) ==
    IF c \notin alive THEN UNCHANGED box
    ELSE box[c] < MAX_MSGCOUNT /\ box' = [box EXCEPT ![c] = @ + 1]

Fill(p, isLong) == long' = IF isLong THEN long \cup {p} ELSE long \ {p}

-----------------------------------------------------------------------------
(* ISR.                                                                    *)

\* os_sleep_irq() returns.
isr_wake ==
    /\ isr.pc = "sleep" /\ card.status # {}
    /\ isr' = [isr EXCEPT !.pc = "lock"]
    /\ UNCHANGED <<card, nic, ring, long, mutex, xmit_done, xmitq, netq, pmaps,
                   snd, ctl, clients, bounds>>

isr_lock ==
    /\ isr.pc = "lock" /\ mutex > 0
    /\ mutex' = mutex - 1
    /\ isr' = [isr EXCEPT !.pc = "look", !.overload = MAX_LOAD + 1]
    /\ UNCHANGED <<card, nic, ring, long, xmit_done, xmitq, netq, pmaps, snd, ctl,
                   clients, bounds>>

\* nic_isr() returns when no bit is set, and after too many rounds, having
\* cleared them all.
isr_return ==
    /\ isr.pc = "look" /\ (card.status # {} => isr.overload = 1)
    /\ card' = [card EXCEPT !.status = {}]
    /\ mutex' = mutex + 1
    /\ isr' = [isr EXCEPT !.pc = "sleep", !.overload = 0]
    /\ UNCHANGED <<nic, ring, long, xmit_done, xmitq, netq, pmaps, snd, ctl,
                   clients, bounds>>

\* One round of nic_isr().
isr_round ==
    /\ isr.pc = "look" /\ card.status # {} /\ isr.overload > 1
    /\ isr' = [isr EXCEPT !.seen = card.status, !.overload = @ - 1,
                 !.pc = IF "OVW" \in card.status THEN "overrun"
                        ELSE IF "PRX" \in card.status THEN "rx" ELSE "tx"]
    /\ UNCHANGED <<card, nic, ring, long, mutex, xmit_done, xmitq, netq, pmaps,
                   snd, ctl, clients, bounds>>

\* nic_overrun() stops the card; a transmission is cut off, or ends while
\* the driver waits.  One that was cut off is to be sent again.
nic_overrun_without_resend ==
    /\ isr.pc = "overrun"
    /\ \E end \in IF card.tx THEN {{}, {"PTX"}, {"TXE"}} ELSE {{}} :
         card' = [card EXCEPT !.on = FALSE, !.tx = FALSE, !.status = @ \cup end]
    /\ isr' = [isr EXCEPT !.pc = "rx", !.resend = FALSE]
    /\ UNCHANGED <<nic, ring, long, mutex, xmit_done, xmitq, netq, pmaps, snd, ctl,
                   clients, bounds>>

nic_overrun ==
    /\ isr.pc = "overrun"
    /\ \E end \in IF card.tx THEN {{}, {"PTX"}, {"TXE"}} ELSE {{}} :
         /\ card' = [card EXCEPT !.on = FALSE, !.tx = FALSE, !.status = @ \cup end]
         /\ isr' = [isr EXCEPT !.pc = "rx",
                      !.resend = card.tx /\ {"PTX", "TXE"} \cap (card.status \cup end) = {}]
    /\ UNCHANGED <<nic, ring, long, mutex, xmit_done, xmitq, netq, pmaps, snd, ctl,
                   clients, bounds>>

\* nic_rx() takes the next frame, if its length and status are right and
\* there is a buffer for it, and else drops it.
nic_rx ==
    /\ isr.pc = "rx" /\ card.frames # <<>>
    /\ IF Head(card.frames).kind = "bad" \/ ring = <<>>
       THEN card' = [card EXCEPT !.frames = Tail(@)] /\ UNCHANGED <<ring, isr>>
       ELSE /\ ring' = Tail(ring)
            /\ isr' = [isr EXCEPT !.packet = Head(ring), !.pc = "receive"]
            /\ UNCHANGED card
    /\ UNCHANGED <<nic, long, mutex, xmit_done, xmitq, netq, pmaps, snd, ctl,
                   clients, bounds>>

\* handle_arp() and handle_icmp() answer in a second buffer.
receive ==
    /\ isr.pc = "receive" /\ card.frames # <<>>
    /\ LET frame == Head(card.frames) IN
       CASE frame.kind \in {"arp", "ping", "longping"} ->
              /\ isr' = [isr EXCEPT !.pc = "reply", !.reply = get_pbuf]
              /\ ring' = RingTaken
              /\ Fill(get_pbuf, frame.kind = "longping")
         [] frame.kind = "udp" ->
              /\ isr' = [isr EXCEPT !.pc = "handle_udp",
                           !.maps = SelectSeq(pmaps, LAMBDA m : m.udp_port = frame.port)]
              /\ UNCHANGED <<ring, long>>
         [] OTHER -> isr' = [isr EXCEPT !.pc = "free"] /\ UNCHANGED <<ring, long>>
    /\ UNCHANGED <<card, nic, mutex, xmit_done, xmitq, netq, pmaps, snd, ctl,
                   clients, bounds>>

isr_reply ==
    /\ isr.pc = "reply"
    /\ xmit(isr.reply)
    /\ isr' = [isr EXCEPT !.pc = "free", !.reply = NULL]
    /\ UNCHANGED <<card, nic, ring, long, mutex, xmit_done, netq, pmaps, snd, ctl,
                   clients, bounds>>

\* The data goes to every client of the UDP port, one after the other.
handle_udp ==
    /\ isr.pc = "handle_udp"
    /\ IF isr.maps = <<>>
       THEN isr' = [isr EXCEPT !.pc = "free"] /\ UNCHANGED box
       ELSE SendTo(Head(isr.maps).blt_port) /\ isr' = [isr EXCEPT !.maps = Tail(@)]
    /\ UNCHANGED <<card, nic, ring, long, mutex, xmit_done, xmitq, netq, pmaps,
                   snd, ctl, alive, bounds>>

\* receive() returns, and the card may use the frame's pages again.
nic_rx_done_kept ==
    /\ isr.pc = "free"
    /\ card' = [card EXCEPT !.frames = Tail(@)]
    /\ isr' = [isr EXCEPT !.pc = "rx", !.packet = NULL]
    /\ UNCHANGED <<nic, ring, long, mutex, xmit_done, xmitq, netq, pmaps, snd, ctl,
                   clients, bounds>>

nic_rx_done ==
    /\ isr.pc = "free" /\ card.frames # <<>>
    /\ free_buffer_data(isr.packet)
    /\ card' = [card EXCEPT !.frames = Tail(@)]
    /\ isr' = [isr EXCEPT !.pc = "rx", !.packet = NULL]
    /\ UNCHANGED <<nic, long, mutex, xmit_done, xmitq, netq, pmaps, snd, ctl,
                   clients, bounds>>

nic_rx_empty ==
    /\ isr.pc = "rx" /\ card.frames = <<>>
    /\ isr' = [isr EXCEPT !.pc = "ack"]
    /\ UNCHANGED <<card, nic, ring, long, mutex, xmit_done, xmitq, netq, pmaps, snd,
                   ctl, clients, bounds>>

\* nic_rx() has found all frames read and acknowledges the interrupt;
\* nic_overrun() then starts the card again.
nic_rx_ack ==
    /\ isr.pc = "ack"
    /\ card' = [card EXCEPT !.on = TRUE, !.tx = @ \/ isr.resend,
                  !.status = @ \ (IF "OVW" \in isr.seen THEN {"PRX", "OVW"} ELSE {"PRX"})]
    /\ isr' = [isr EXCEPT !.pc = "tx", !.resend = FALSE]
    /\ UNCHANGED <<nic, ring, long, mutex, xmit_done, xmitq, netq, pmaps, snd, ctl,
                   clients, bounds>>

\* nic_tx() frees the buffer that was sent and sends the one in the other
\* slot; without a buffer it does not even acknowledge the interrupt.
nic_tx(ack) ==
    LET p == nic.tx_packet[nic.send]
        rest == [nic.tx_packet EXCEPT ![nic.send] = NULL]
        full == {f \in Slots : rest[f] # NULL}
    IN IF p = NULL
       THEN /\ card' = [card EXCEPT !.status = @ \ ack]
            /\ UNCHANGED <<nic, ring, xmit_done>>
       ELSE /\ free_buffer(p)
            /\ nic' = [tx_packet |-> rest, sending |-> full # {},
                       send |-> IF full = {} THEN nic.send
                                ELSE CHOOSE f \in full : \A g \in full : f <= g]
            /\ card' = [card EXCEPT !.tx = @ \/ full # {},
                          !.status = @ \ (ack \cup {"PTX"})]

\* nic_tx_err() takes the command register for the transmit status; the bit
\* for disabled DMA in it reads as an underrun, so nic_tx() is always called.
isr_tx ==
    /\ isr.pc = "tx"
    /\ IF "PTX" \in isr.seen THEN nic_tx({})
       ELSE IF "TXE" \in isr.seen THEN nic_tx({"TXE"})
       ELSE UNCHANGED <<card, nic, ring, xmit_done>>
    /\ isr' = [isr EXCEPT !.pc = "look", !.seen = {}]
    /\ UNCHANGED <<long, mutex, xmitq, netq, pmaps, snd, ctl, clients, bounds>>

-----------------------------------------------------------------------------
(* sender.                                                                 *)

sender_recv ==
    /\ snd.pc = "recv" /\ xmitq # <<>>
    /\ snd' = [pc |-> "lock", packet |-> Head(xmitq)]
    /\ xmitq' = Tail(xmitq)
    /\ UNCHANGED <<card, nic, ring, long, mutex, xmit_done, netq, pmaps, isr, ctl,
                   clients, bounds>>

sender_lock ==
    /\ snd.pc = "lock" /\ mutex > 0
    /\ mutex' = mutex - 1
    /\ snd' = [snd EXCEPT !.pc = "send"]
    /\ UNCHANGED <<card, nic, ring, long, xmit_done, xmitq, netq, pmaps, isr, ctl,
                   clients, bounds>>

\* nic_send_packet() returns an error for a packet that is too long, and
\* when no slot becomes free in time; sender() ignores it.
nic_send_packet ==
    /\ snd.pc = "send"
    /\ LET free == {f \in Slots : nic.tx_packet[f] = NULL} IN
         IF snd.packet \in long \/ free = {}
         THEN UNCHANGED <<card, nic>>
         ELSE LET f == CHOOSE s \in free : \A g \in free : s <= g IN
              /\ nic' = [tx_packet |-> [nic.tx_packet EXCEPT ![f] = snd.packet],
                         send |-> IF nic.sending THEN nic.send ELSE f,
                         sending |-> TRUE]
              /\ card' = [card EXCEPT !.tx = @ \/ ~nic.sending]
    /\ mutex' = mutex + 1
    /\ snd' = [pc |-> "wait", packet |-> NULL]
    /\ UNCHANGED <<ring, long, xmit_done, xmitq, netq, pmaps, isr, ctl, clients,
                   bounds>>

sender_done ==
    /\ snd.pc = "wait" /\ xmit_done > 0
    /\ xmit_done' = xmit_done - 1
    /\ snd' = [snd EXCEPT !.pc = "recv"]
    /\ UNCHANGED <<card, nic, ring, long, mutex, xmitq, netq, pmaps, isr, ctl,
                   clients, bounds>>

-----------------------------------------------------------------------------
(* control.                                                                *)

\* Takes a command; NET_CONNECT is all done with it.
control_recv ==
    /\ ctl.pc = "recv" /\ netq # <<>>
    /\ netq' = Tail(netq)
    /\ LET msg == Head(netq)
           mine == SelectSeq(pmaps, LAMBDA m : m.blt_port = msg.src) IN
       \/ /\ msg.cmd = "NET_CONNECT"
          /\ pmaps' = <<[udp_port |-> msg.port, blt_port |-> msg.src]>> \o pmaps
          /\ UNCHANGED ctl
       \/ /\ msg.cmd = "NET_SEND"
          /\ ctl' = [ctl EXCEPT !.pc = "send_udp", !.maps = mine]
          /\ UNCHANGED pmaps
       \/ /\ msg.cmd = "NET_IP"
          /\ ctl' = [ctl EXCEPT !.pc = "ip", !.src = msg.src]
          /\ UNCHANGED pmaps
    /\ UNCHANGED <<card, nic, ring, long, mutex, xmit_done, xmitq, isr, snd, clients,
                   bounds>>

\* One packet for each mapping of the client.
send_udp ==
    /\ ctl.pc = "send_udp"
    /\ IF ctl.maps = <<>>
       THEN ctl' = [ctl EXCEPT !.pc = "recv"] /\ UNCHANGED <<ring, long>>
       ELSE /\ ctl' = [ctl EXCEPT !.pc = "xmit", !.maps = Tail(@),
                         !.packet = get_pbuf]
            /\ ring' = RingTaken
            /\ Fill(get_pbuf, FALSE)
    /\ UNCHANGED <<card, nic, mutex, xmit_done, xmitq, netq, pmaps, isr, snd, clients,
                   bounds>>

control_xmit ==
    /\ ctl.pc = "xmit"
    /\ xmit(ctl.packet)
    /\ ctl' = [ctl EXCEPT !.pc = "send_udp", !.packet = NULL]
    /\ UNCHANGED <<card, nic, ring, long, mutex, xmit_done, netq, pmaps, isr, snd,
                   clients, bounds>>

control_ip ==
    /\ ctl.pc = "ip"
    /\ SendTo(ctl.src)
    /\ ctl' = [ctl EXCEPT !.pc = "recv", !.src = NULL]
    /\ UNCHANGED <<card, nic, ring, long, mutex, xmit_done, xmitq, netq, pmaps, isr,
                   snd, alive, bounds>>

-----------------------------------------------------------------------------
(* Clients.                                                                *)

Ask(c, command) ==
    /\ c \in alive /\ asked < MaxCommands /\ Len(netq) < MAX_MSGCOUNT
    /\ netq' = Append(netq, [cmd |-> command.cmd, port |-> command.port, src |-> c])
    /\ asked' = asked + 1
    /\ UNCHANGED <<card, nic, ring, long, mutex, xmit_done, xmitq, pmaps, isr, snd,
                   ctl, clients, arrived>>

Read(c) ==
    /\ c \notin Deaf /\ box[c] > 0
    /\ box' = [box EXCEPT ![c] = @ - 1]
    /\ UNCHANGED <<card, nic, ring, long, mutex, xmit_done, xmitq, netq, pmaps, isr,
                   snd, ctl, alive, bounds>>

\* The port goes with its client; the mappings stay.
Leave(c) ==
    /\ c \in alive
    /\ alive' = alive \ {c}
    /\ box' = [box EXCEPT ![c] = 0]
    /\ UNCHANGED <<card, nic, ring, long, mutex, xmit_done, xmitq, netq, pmaps, isr,
                   snd, ctl, bounds>>

-----------------------------------------------------------------------------
ISR == \/ isr_wake \/ isr_lock \/ isr_return \/ isr_round \/ nic_overrun
       \/ nic_rx \/ receive \/ isr_reply \/ handle_udp \/ nic_rx_done
       \/ nic_rx_empty \/ nic_rx_ack \/ isr_tx

sender == sender_recv \/ sender_lock \/ nic_send_packet \/ sender_done

control == control_recv \/ send_udp \/ control_xmit \/ control_ip

CardEnds == \E end \in {"PTX", "TXE"} : Transmitted(end)

Next == \/ ISR \/ sender \/ control \/ CardEnds
        \/ \E frame \in Frames : FrameArrives(frame)
        \/ \E c \in Clients : Read(c) \/ Leave(c)
                              \/ \E command \in Commands : Ask(c, command)

\* The kernel runs every thread in turn, the card ends what it transmits and
\* clients, but for the deaf ones, read their ports.
Fairness == /\ WF_vars(ISR) /\ WF_vars(sender) /\ WF_vars(control)
            /\ WF_vars(CardEnds)
            /\ \A c \in Clients : WF_vars(Read(c))

Spec == Init /\ [][Next]_vars /\ Fairness

-----------------------------------------------------------------------------
(* Properties.                                                             *)

\* What the threads and the transmit slots hold.
InHand == <<isr.packet, isr.reply, ctl.packet, snd.packet,
            nic.tx_packet[1], nic.tx_packet[2]>>
Held == {InHand[h] : h \in 1 .. 6} \cap Buffers

\* A buffer is never in two places: twice in the free list, or free and in
\* use, or held by two threads, or filled again while the card sends it
\* (free_buffer, free_buffer_data and their callers).
NoneTwice ==
    /\ IsInjective(ring) /\ IsInjective(xmitq)
    /\ \A g, h \in 1 .. 6 : InHand[g] = InHand[h] /\ InHand[g] \in Buffers => g = h
    /\ Range(ring) \cap Range(xmitq) = {}
    /\ Held \cap (Range(ring) \cup Range(xmitq)) = {}

\* The card transmits only what is in the slot the driver takes for it.
TransmitsHeld ==
    card.tx \/ isr.resend => nic.sending /\ nic.tx_packet[nic.send] # NULL

\* No buffer is lost, freed twice or overwritten in use: each is free, in
\* port_xmit, in the hands of a thread or in a transmit slot, and only once;
\* and the card sends from a slot that is in use.
BuffersAccounted ==
    /\ NoneTwice
    /\ Range(ring) \cup Range(xmitq) \cup Held = Buffers
    /\ TransmitsHeld

\* A buffer that was taken is free again some time: what is queued is sent,
\* through collisions and receive overruns, whatever clients come and go,
\* and ISR, sender and control never wait on each other for ever.
PacketsLeave ==
    \A p \in Buffers : p \notin Range(ring) ~> p \in Range(ring)

\* "all frames read" (ne2000.c:550), then "ack int" (ne2000.c:613): when the
\* interrupt is acknowledged and ISR sleeps, the card holds no frame.
AllFramesRead ==
    isr.pc = "sleep" /\ card.status = {} => card.frames = <<>>
=============================================================================
