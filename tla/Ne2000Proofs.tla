---------------------------- MODULE Ne2000Proofs ----------------------------
(***************************************************************************)
(* The buffers of the NE2000 server, for any number of buffers, any load   *)
(* and any clients.                                                        *)
(***************************************************************************)
EXTENDS Ne2000, SequenceTheorems, TLAPS

-----------------------------------------------------------------------------
(* Sequences without repetitions: the free list and port_xmit.             *)

(* Taking the first element.                                               *)
LEMMA TakeFirst ==
    ASSUME NEW S, NEW s \in Seq(S), s # <<>>, IsInjective(s)
    PROVE  /\ Tail(s) \in Seq(S) /\ IsInjective(Tail(s))
           /\ Head(s) \in S /\ Head(s) \in Range(s)
           /\ Range(Tail(s)) = Range(s) \ {Head(s)}
  <1>1. /\ Len(s) \in Nat /\ Len(s) > 0 /\ Head(s) = s[1] /\ s[1] \in S
        /\ DOMAIN s = 1 .. Len(s)
    BY EmptySeq
  <1>2. /\ Tail(s) \in Seq(S) /\ Len(Tail(s)) = Len(s) - 1
        /\ DOMAIN Tail(s) = 1 .. Len(s) - 1
        /\ \A i \in 1 .. Len(s) - 1 : Tail(s)[i] = s[i + 1]
    BY <1>1
  <1>3. IsInjective(Tail(s))
    BY <1>1, <1>2 DEF IsInjective
  <1>4. Range(Tail(s)) \subseteq Range(s) \ {Head(s)}
    BY <1>1, <1>2 DEF Range, IsInjective
  <1>5. ASSUME NEW e \in Range(s) \ {Head(s)} PROVE e \in Range(Tail(s))
    <2>1. PICK i \in 1 .. Len(s) : s[i] = e
      BY <1>1 DEF Range
    <2>2. i # 1 /\ i - 1 \in 1 .. Len(s) - 1
      BY <2>1, <1>1
    <2>3. Tail(s)[i - 1] = s[(i - 1) + 1] /\ (i - 1) + 1 = i
      BY <2>2, <1>2
    <2> QED BY <2>1, <2>2, <2>3, <1>2 DEF Range
  <1> QED BY SMTT(60), <1>1, <1>2, <1>3, <1>4, <1>5 DEF Range

(* Adding a new element at the front.                                      *)
LEMMA AddFirst ==
    ASSUME NEW S, NEW s \in Seq(S), NEW e \in S, IsInjective(s), e \notin Range(s)
    PROVE  /\ <<e>> \o s \in Seq(S) /\ IsInjective(<<e>> \o s)
           /\ Range(<<e>> \o s) = Range(s) \cup {e}
  <1> DEFINE t == <<e>> \o s
  <1>1. /\ t \in Seq(S) /\ Len(s) \in Nat /\ Len(t) = Len(s) + 1
        /\ DOMAIN s = 1 .. Len(s) /\ DOMAIN t = 1 .. Len(s) + 1
        /\ t[1] = e /\ \A i \in 2 .. Len(s) + 1 : t[i] = s[i - 1]
    OBVIOUS
  <1> HIDE DEF t
  <1>2. ASSUME NEW i \in 1 .. Len(s) + 1, NEW j \in 1 .. Len(s) + 1, t[i] = t[j]
        PROVE  i = j
    <2>1. CASE i = 1 \/ j = 1
      BY <2>1, <1>1, <1>2 DEF Range
    <2>2. CASE i # 1 /\ j # 1
      <3>1. i - 1 \in 1 .. Len(s) /\ j - 1 \in 1 .. Len(s) /\ s[i - 1] = s[j - 1]
        BY <2>2, <1>1, <1>2
      <3> QED BY SMTT(60), <3>1, <1>1 DEF IsInjective
    <2> QED BY <2>1, <2>2
  <1>3. ASSUME NEW f \in Range(s) PROVE f \in Range(t)
    <2>1. PICK i \in 1 .. Len(s) : s[i] = f
      BY <1>1 DEF Range
    <2>2. i + 1 \in 2 .. Len(s) + 1 /\ i + 1 \in DOMAIN t /\ (i + 1) - 1 = i
      BY <1>1
    <2>3. t[i + 1] = f
      BY <2>1, <2>2, <1>1
    <2> QED BY <2>2, <2>3 DEF Range
  <1>4. Range(t) \subseteq Range(s) \cup {e} /\ e \in Range(t)
    BY <1>1 DEF Range
  <1> QED BY <1>1, <1>2, <1>3, <1>4 DEF IsInjective, t

(* Adding a new element at the end.                                        *)
LEMMA AddLast ==
    ASSUME NEW S, NEW s \in Seq(S), NEW e \in S, IsInjective(s), e \notin Range(s)
    PROVE  /\ Append(s, e) \in Seq(S) /\ IsInjective(Append(s, e))
           /\ Range(Append(s, e)) = Range(s) \cup {e}
  <1> DEFINE t == Append(s, e)
  <1>1. /\ t \in Seq(S) /\ Len(s) \in Nat
        /\ DOMAIN s = 1 .. Len(s) /\ DOMAIN t = 1 .. Len(s) + 1
        /\ t[Len(s) + 1] = e /\ \A i \in 1 .. Len(s) : t[i] = s[i]
    OBVIOUS
  <1> HIDE DEF t
  <1>2. IsInjective(t)
    BY <1>1 DEF IsInjective, Range
  <1>3. Range(t) \subseteq Range(s) \cup {e}
    BY <1>1 DEF Range
  <1>4. e \in Range(t)
    <2>1. Len(s) + 1 \in DOMAIN t
      BY <1>1
    <2> QED BY <2>1, <1>1 DEF Range
  <1>5. ASSUME NEW f \in Range(s) PROVE f \in Range(t)
    <2>1. PICK i \in 1 .. Len(s) : s[i] = f
      BY <1>1 DEF Range
    <2>2. i \in DOMAIN t /\ t[i] = f
      BY <2>1, <1>1
    <2> QED BY <2>2 DEF Range
  <1>6. t \in Seq(S) /\ IsInjective(t) /\ Range(t) = Range(s) \cup {e}
    BY <1>1, <1>2, <1>3, <1>4, <1>5
  <1> QED BY <1>6 DEF t

-----------------------------------------------------------------------------
(* Buffers move between the free list r, the port x and the hands h.       *)

Hands == [1 .. 6 -> Nat]
HeldIn(h) == {h[i] : i \in 1 .. 6} \cap Buffers
Everywhere(r, x, h) == Range(r) \cup Range(x) \cup HeldIn(h)

Apart(r, x, h) ==
    /\ r \in Seq(Buffers) /\ x \in Seq(Buffers) /\ h \in Hands
    /\ IsInjective(r) /\ IsInjective(x)
    /\ \A i, j \in 1 .. 6 : h[i] = h[j] /\ h[i] \in Buffers => i = j
    /\ Range(r) \cap Range(x) = {}
    /\ HeldIn(h) \cap (Range(r) \cup Range(x)) = {}

(* Hand k changes to v, the others stay.                                   *)
Changed(h, g, k, v) ==
    g \in Hands /\ g[k] = v /\ \A i \in 1 .. 6 : i # k => g[i] = h[i]

(* Buffers moved: none came or went, and none is in two places after it.   *)
Moved(r, x, h, q, y, g) ==
    Apart(q, y, g) /\ Everywhere(q, y, g) = Everywhere(r, x, h)

(* A free buffer is taken into an empty hand.                              *)
LEMMA TakeFree ==
    ASSUME NEW r, NEW x, NEW h, Apart(r, x, h), r # <<>>,
           NEW k \in 1 .. 6, h[k] \notin Buffers,
           NEW q, q = Tail(r), NEW g, Changed(h, g, k, Head(r))
    PROVE  Moved(r, x, h, q, x, g)
  <1>1. /\ Tail(r) \in Seq(Buffers) /\ IsInjective(Tail(r))
        /\ Head(r) \in Buffers /\ Head(r) \in Range(r)
        /\ Range(Tail(r)) = Range(r) \ {Head(r)}
    BY TakeFirst DEF Apart
  <1>2. g \in Hands /\ g[k] = Head(r) /\ \A i \in 1 .. 6 : i # k => g[i] = h[i]
    BY <1>1 DEF Changed, Apart, Hands, Buffers
  <1>3. HeldIn(g) = HeldIn(h) \cup {Head(r)}
    BY <1>1, <1>2 DEF HeldIn
  <1>4. \A i, j \in 1 .. 6 : g[i] = g[j] /\ g[i] \in Buffers => i = j
    BY <1>1, <1>2 DEF Apart, HeldIn
  <1>5. Apart(Tail(r), x, g)
    BY <1>1, <1>2, <1>3, <1>4 DEF Apart
  <1>6. Everywhere(Tail(r), x, g) = Everywhere(r, x, h)
    BY <1>1, <1>3 DEF Everywhere
  <1> QED BY <1>5, <1>6 DEF Moved

(* A buffer is freed.                                                      *)
LEMMA PutFree ==
    ASSUME NEW r, NEW x, NEW h, Apart(r, x, h),
           NEW k \in 1 .. 6, h[k] \in Buffers, NEW p, p = h[k],
           NEW q, q = <<p>> \o r, NEW g, Changed(h, g, k, NULL)
    PROVE  Moved(r, x, h, q, x, g)
  <1>1. h[k] \in HeldIn(h) /\ h[k] \notin Range(r) \cup Range(x)
    BY DEF HeldIn, Apart
  <1>2. /\ <<h[k]>> \o r \in Seq(Buffers) /\ IsInjective(<<h[k]>> \o r)
        /\ Range(<<h[k]>> \o r) = Range(r) \cup {h[k]}
    BY <1>1, AddFirst DEF Apart
  <1>3. /\ g \in Hands /\ g[k] = NULL /\ NULL \notin Buffers
        /\ \A i \in 1 .. 6 : i # k => g[i] = h[i]
    BY DEF Changed, Apart, Hands, NULL, Buffers
  <1>4. HeldIn(g) = HeldIn(h) \ {h[k]}
    BY <1>3 DEF HeldIn, Apart
  <1>5. \A i, j \in 1 .. 6 : g[i] = g[j] /\ g[i] \in Buffers => i = j
    BY <1>3 DEF Apart
  <1>6. Apart(<<h[k]>> \o r, x, g)
    BY <1>1, <1>2, <1>3, <1>4, <1>5 DEF Apart
  <1>7. Everywhere(<<h[k]>> \o r, x, g) = Everywhere(r, x, h)
    BY <1>1, <1>2, <1>4 DEF Everywhere
  <1> QED BY <1>6, <1>7 DEF Moved

(* A buffer is sent to port_xmit.                                          *)
LEMMA PutQueue ==
    ASSUME NEW r, NEW x, NEW h, Apart(r, x, h),
           NEW k \in 1 .. 6, h[k] \in Buffers, NEW p, p = h[k],
           NEW q, q = Append(x, p), NEW g, Changed(h, g, k, NULL)
    PROVE  Moved(r, x, h, r, q, g)
  <1>1. h[k] \in HeldIn(h) /\ h[k] \notin Range(r) \cup Range(x)
    BY DEF HeldIn, Apart
  <1>2. /\ Append(x, h[k]) \in Seq(Buffers) /\ IsInjective(Append(x, h[k]))
        /\ Range(Append(x, h[k])) = Range(x) \cup {h[k]}
    BY <1>1, AddLast DEF Apart
  <1>3. /\ g \in Hands /\ g[k] = NULL /\ NULL \notin Buffers
        /\ \A i \in 1 .. 6 : i # k => g[i] = h[i]
    BY DEF Changed, Apart, Hands, NULL, Buffers
  <1>4. HeldIn(g) = HeldIn(h) \ {h[k]}
    BY <1>3 DEF HeldIn, Apart
  <1>5. \A i, j \in 1 .. 6 : g[i] = g[j] /\ g[i] \in Buffers => i = j
    BY <1>3 DEF Apart
  <1>6. Apart(r, Append(x, h[k]), g)
    BY <1>1, <1>2, <1>3, <1>4, <1>5 DEF Apart
  <1>7. Everywhere(r, Append(x, h[k]), g) = Everywhere(r, x, h)
    BY <1>1, <1>2, <1>4 DEF Everywhere
  <1> QED BY <1>6, <1>7 DEF Moved

(* A buffer is received from port_xmit into an empty hand.                 *)
LEMMA TakeQueue ==
    ASSUME NEW r, NEW x, NEW h, Apart(r, x, h), x # <<>>,
           NEW k \in 1 .. 6, h[k] \notin Buffers,
           NEW q, q = Tail(x), NEW g, Changed(h, g, k, Head(x))
    PROVE  Moved(r, x, h, r, q, g)
  <1>1. /\ Tail(x) \in Seq(Buffers) /\ IsInjective(Tail(x))
        /\ Head(x) \in Buffers /\ Head(x) \in Range(x)
        /\ Range(Tail(x)) = Range(x) \ {Head(x)}
    BY TakeFirst DEF Apart
  <1>2. g \in Hands /\ g[k] = Head(x) /\ \A i \in 1 .. 6 : i # k => g[i] = h[i]
    BY <1>1 DEF Changed, Apart, Hands, Buffers
  <1>3. HeldIn(g) = HeldIn(h) \cup {Head(x)}
    BY <1>1, <1>2 DEF HeldIn
  <1>4. \A i, j \in 1 .. 6 : g[i] = g[j] /\ g[i] \in Buffers => i = j
    BY <1>1, <1>2 DEF Apart, HeldIn
  <1>5. Apart(r, Tail(x), g)
    BY <1>1, <1>2, <1>3, <1>4 DEF Apart
  <1>6. Everywhere(r, Tail(x), g) = Everywhere(r, x, h)
    BY <1>1, <1>3 DEF Everywhere
  <1> QED BY <1>5, <1>6 DEF Moved

(* Hand k gives what it holds to hand l.                                   *)
Passed(h, g, k, l) ==
    /\ g \in Hands /\ g[k] = NULL /\ g[l] = h[k]
    /\ \A i \in 1 .. 6 : i # k /\ i # l => g[i] = h[i]

(* A hand passes its buffer to an empty one.                               *)
LEMMA PassOn ==
    ASSUME NEW r, NEW x, NEW h, Apart(r, x, h), NEW k \in 1 .. 6, NEW l \in 1 .. 6,
           k # l, h[k] \in Buffers, h[l] \notin Buffers,
           NEW g, Passed(h, g, k, l)
    PROVE  Moved(r, x, h, r, x, g)
  <1>0. h \in [1 .. 6 -> Nat] /\ h[k] \in Nat /\ NULL \in Nat /\ NULL \notin Buffers
    BY DEF Apart, Hands, NULL, Buffers
  <1>1. /\ g \in Hands /\ g[k] = NULL /\ g[l] = h[k]
        /\ \A i \in 1 .. 6 : i # k /\ i # l => g[i] = h[i]
    BY DEF Passed
  <1>2. HeldIn(g) = HeldIn(h)
    BY <1>0, <1>1 DEF HeldIn
  <1>3. \A i, j \in 1 .. 6 : g[i] = g[j] /\ g[i] \in Buffers => i = j
    BY <1>0, <1>1 DEF Apart
  <1> QED BY <1>1, <1>2, <1>3 DEF Apart, Everywhere, Moved

(* A hand takes or lets go p_discard, which is no buffer.                  *)
LEMMA NoBuffer ==
    ASSUME NEW r, NEW x, NEW h, Apart(r, x, h), NEW k \in 1 .. 6,
           h[k] \notin Buffers, NEW v \in Nat, v \notin Buffers,
           NEW g, Changed(h, g, k, v)
    PROVE  Moved(r, x, h, r, x, g)
  <1>1. g \in Hands /\ g[k] = v /\ \A i \in 1 .. 6 : i # k => g[i] = h[i]
    BY DEF Changed, Apart, Hands
  <1>2. HeldIn(g) = HeldIn(h)
    BY <1>1 DEF HeldIn
  <1>3. \A i, j \in 1 .. 6 : g[i] = g[j] /\ g[i] \in Buffers => i = j
    BY <1>1 DEF Apart
  <1> QED BY <1>1, <1>2, <1>3 DEF Apart, Everywhere, Moved

(* A buffer that is forgotten is in no two places either.                  *)
LEMMA Forget ==
    ASSUME NEW r, NEW x, NEW h, Apart(r, x, h), NEW k \in 1 .. 6,
           NEW g, Changed(h, g, k, NULL)
    PROVE  Apart(r, x, g)
  <1>1. /\ g \in Hands /\ g[k] = NULL /\ NULL \notin Buffers
        /\ \A i \in 1 .. 6 : i # k => g[i] = h[i]
    BY DEF Changed, NULL, Buffers
  <1>2. HeldIn(g) \subseteq HeldIn(h)
    BY <1>1 DEF HeldIn
  <1>3. \A i, j \in 1 .. 6 : g[i] = g[j] /\ g[i] \in Buffers => i = j
    BY <1>1 DEF Apart
  <1> QED BY <1>1, <1>2, <1>3 DEF Apart

-----------------------------------------------------------------------------
(* The invariant that is inductive.                                        *)

(* What the variables are made of, where the proof depends on it.          *)
Shape ==
    /\ card = [frames |-> card.frames, status |-> card.status, tx |-> card.tx,
               on |-> card.on]
    /\ card.frames \in Seq(Frames) /\ card.tx \in BOOLEAN
    /\ nic = [tx_packet |-> nic.tx_packet, send |-> nic.send, sending |-> nic.sending]
    /\ nic.tx_packet \in [Slots -> Nat] /\ nic.sending \in BOOLEAN
    /\ isr = [pc |-> isr.pc, seen |-> isr.seen, overload |-> isr.overload,
              resend |-> isr.resend, packet |-> isr.packet, reply |-> isr.reply,
              maps |-> isr.maps]
    /\ isr.resend \in BOOLEAN
    /\ snd = [pc |-> snd.pc, packet |-> snd.packet]
    /\ ctl = [pc |-> ctl.pc, packet |-> ctl.packet, src |-> ctl.src, maps |-> ctl.maps]

(* What a thread holds at each point.                                      *)
Points ==
    /\ IF isr.pc \in {"receive", "handle_udp", "reply", "free"}
       THEN isr.packet \in Buffers ELSE isr.packet = NULL
    /\ IF isr.pc = "reply" THEN isr.reply \in Buffers \cup {p_discard} ELSE isr.reply = NULL
    /\ IF ctl.pc = "xmit" THEN ctl.packet \in Buffers \cup {p_discard} ELSE ctl.packet = NULL
    /\ IF snd.pc \in {"lock", "send"} THEN snd.packet \in Buffers ELSE snd.packet = NULL

(* The ends of a transmission among the bits the card has set.             *)
Ends(bits) == bits \cap {"PTX", "TXE"}

(* The driver and the card: the sender waits while a slot is in use, hence *)
(* only the first one ever is; the card transmits, is to transmit again or *)
(* has ended, for the buffer in it; and what ISR has seen is still there.  *)
Driver ==
    /\ nic.send = 1 /\ nic.tx_packet[2] = NULL
    /\ nic.tx_packet[1] \in Buffers \cup {NULL}
    /\ nic.sending <=> nic.tx_packet[1] # NULL
    /\ nic.tx_packet[1] # NULL => snd.pc = "wait" /\ xmit_done = 0
    /\ xmit_done \in {0, 1} /\ (xmit_done = 1 => snd.pc = "wait")
    /\ card.tx \/ isr.resend => nic.sending
    /\ ~(card.tx /\ isr.resend)
    /\ Ends(card.status) # {} => nic.sending /\ ~card.tx /\ ~isr.resend
    /\ ~({"PTX", "TXE"} \subseteq card.status)
    /\ Ends(isr.seen) \subseteq card.status
    /\ isr.pc \in {"sleep", "lock", "look"} => isr.seen = {}

(* No answer is longer than the driver takes.                              *)
NoLongReply == \A frame \in Frames : frame.kind # "longping"

Places ==
    /\ Apart(ring, xmitq, InHand)
    /\ NoLongReply => long = {} /\ Everywhere(ring, xmitq, InHand) = Buffers

NeInv == Shape /\ Points /\ Driver /\ Places

(* The variables that NeInv is about.                                      *)
LEMMA InvUnchanged ==
    ASSUME NeInv, UNCHANGED <<card, nic, ring, long, xmit_done, xmitq, isr, snd, ctl>>
    PROVE  NeInv'
  BY DEF NeInv, Shape, Points, Driver, Places, InHand, Apart, Everywhere, HeldIn,
         Hands, Ends, NoLongReply

(* The two numbers that are no buffers.                                    *)
LEMMA NotBuffers == NULL \in Nat /\ p_discard \in Nat
                    /\ NULL \notin Buffers /\ p_discard \notin Buffers
                    /\ Buffers \subseteq Nat /\ NULL # p_discard
  BY Ne2000Assumption DEF NULL, p_discard, Buffers

(* A step that moves no buffer keeps Places.                               *)
LEMMA PlacesKept ==
    ASSUME Places, InHand' = InHand, UNCHANGED <<ring, xmitq, long>>
    PROVE  Places'
  BY DEF Places, Apart, Everywhere, HeldIn, NoLongReply

(* A step that moves buffers and keeps them apart keeps Places.            *)
LEMMA PlacesMoved ==
    ASSUME Places, NoLongReply => long' = {},
           Moved(ring, xmitq, InHand, ring', xmitq', InHand')
    PROVE  Places'
  BY DEF Moved, Places, Apart, Everywhere, HeldIn, NoLongReply

(* A sequence of six is given by its six elements.                         *)
SixHands(h) == h = <<h[1], h[2], h[3], h[4], h[5], h[6]>>

(* One of the hands changes.                                               *)
LEMMA HandChanged ==
    ASSUME NEW h \in Hands, NEW k \in 1 .. 6, NEW v \in Nat, NEW g,
           SixHands(g),
           g[k] = v, \A i \in 1 .. 6 : i # k => g[i] = h[i]
    PROVE  Changed(h, g, k, v)
  <1>1. \A i \in 1 .. 6 : g[i] \in Nat
    BY DEF Hands
  <1> QED BY <1>1 DEF Changed, Hands, SixHands

(* InHand is such a sequence, whatever the threads hold.                   *)
LEMMA HandsInHand == SixHands(InHand')
  BY DEF InHand, SixHands

(* A thread takes a free buffer.                                           *)
LEMMA FreeTaken ==
    ASSUME Places, NoLongReply => long' = {}, NEW k \in 1 .. 6,
           InHand[k] \notin Buffers, ring # <<>>,
           ring' = Tail(ring), xmitq' = xmitq,
           Changed(InHand, InHand', k, Head(ring))
    PROVE  Places'
  <1>1. Apart(ring, xmitq, InHand)
    BY DEF Places
  <1>2. Moved(ring, xmitq, InHand, ring', xmitq', InHand')
    BY <1>1, TakeFree
  <1> QED BY <1>2, PlacesMoved

(* A thread frees a buffer.                                                *)
LEMMA FreePut ==
    ASSUME Places, NoLongReply => long' = {}, NEW k \in 1 .. 6,
           InHand[k] \in Buffers, NEW p, p = InHand[k],
           ring' = <<p>> \o ring, xmitq' = xmitq,
           Changed(InHand, InHand', k, NULL)
    PROVE  Places'
  <1>1. Apart(ring, xmitq, InHand)
    BY DEF Places
  <1>2. Moved(ring, xmitq, InHand, ring', xmitq', InHand')
    BY <1>1, PutFree
  <1> QED BY <1>2, PlacesMoved

(* A thread sends a buffer to port_xmit.                                   *)
LEMMA QueuePut ==
    ASSUME Places, NoLongReply => long' = {}, NEW k \in 1 .. 6,
           InHand[k] \in Buffers, NEW p, p = InHand[k],
           ring' = ring, xmitq' = Append(xmitq, p),
           Changed(InHand, InHand', k, NULL)
    PROVE  Places'
  <1>1. Apart(ring, xmitq, InHand)
    BY DEF Places
  <1>2. Moved(ring, xmitq, InHand, ring', xmitq', InHand')
    BY <1>1, PutQueue
  <1> QED BY <1>2, PlacesMoved

(* The sender receives a buffer from port_xmit.                            *)
LEMMA QueueTaken ==
    ASSUME Places, NoLongReply => long' = {}, NEW k \in 1 .. 6,
           InHand[k] \notin Buffers, xmitq # <<>>,
           ring' = ring, xmitq' = Tail(xmitq),
           Changed(InHand, InHand', k, Head(xmitq))
    PROVE  Places'
  <1>1. Apart(ring, xmitq, InHand)
    BY DEF Places
  <1>2. Moved(ring, xmitq, InHand, ring', xmitq', InHand')
    BY <1>1, TakeQueue
  <1> QED BY <1>2, PlacesMoved

(* A thread takes or drops p_discard.                                      *)
LEMMA DiscardHeld ==
    ASSUME Places, NoLongReply => long' = {}, NEW k \in 1 .. 6,
           InHand[k] \notin Buffers, NEW v \in Nat, v \notin Buffers,
           ring' = ring, xmitq' = xmitq,
           Changed(InHand, InHand', k, v)
    PROVE  Places'
  <1>1. Apart(ring, xmitq, InHand)
    BY DEF Places
  <1>2. Moved(ring, xmitq, InHand, ring', xmitq', InHand')
    BY <1>1, NoBuffer
  <1> QED BY <1>2, PlacesMoved

(* Before the first step every buffer is in the free list.                 *)
LEMMA NeInvInit == Init => NeInv
  <1> SUFFICES ASSUME Init PROVE NeInv
    OBVIOUS
  <1>1. Shape /\ Points /\ Driver
    BY NotBuffers DEF Init, Shape, Points, Driver, Ends, Slots, MAX_TX, NULL
  <1>2. InHand = <<NULL, NULL, NULL, NULL, NULL, NULL>>
    <2>1. nic.tx_packet[1] = NULL /\ nic.tx_packet[2] = NULL
      BY DEF Init, Slots, MAX_TX
    <2>2. isr.packet = NULL /\ isr.reply = NULL /\ ctl.packet = NULL /\ snd.packet = NULL
      BY DEF Init
    <2> QED BY <2>1, <2>2 DEF InHand
  <1>3. InHand \in Hands /\ \A i \in 1 .. 6 : InHand[i] = NULL
    BY <1>2, NotBuffers DEF Hands
  <1>4. HeldIn(InHand) = {}
    BY <1>3, NotBuffers DEF HeldIn
  <1>5. RINGSIZE - 1 \in Nat
    BY Ne2000Assumption
  <1>6. /\ ring \in Seq(Buffers) /\ DOMAIN ring = Buffers
        /\ \A i \in Buffers : ring[i] = RINGSIZE - i
    <2>1. ring = [i \in Buffers |-> RINGSIZE - i]
      BY DEF Init, Buffers
    <2>2. \A i \in Buffers : RINGSIZE - i \in Buffers
      BY <1>5, Ne2000Assumption DEF Buffers
    <2>3. ring \in [1 .. (RINGSIZE - 1) -> Buffers]
      BY <2>1, <2>2 DEF Buffers
    <2> QED BY <2>1, <2>3, <1>5, SeqDef
  <1>7. IsInjective(ring) /\ Range(ring) \subseteq Buffers
    BY SMTT(60), <1>5, <1>6, Ne2000Assumption DEF IsInjective, Range, Buffers
  <1>8. ASSUME NEW p \in Buffers PROVE p \in Range(ring)
    <2>1. RINGSIZE - p \in Buffers /\ RINGSIZE - (RINGSIZE - p) = p
      BY <1>5, Ne2000Assumption DEF Buffers
    <2> QED BY <2>1, <1>6 DEF Range
  <1>9. xmitq \in Seq(Buffers) /\ IsInjective(xmitq) /\ Range(xmitq) = {}
    BY DEF Init, IsInjective, Range
  <1>10. Apart(ring, xmitq, InHand)
    BY <1>3, <1>4, <1>6, <1>7, <1>9, NotBuffers DEF Apart
  <1>11. long = {} /\ Everywhere(ring, xmitq, InHand) = Buffers
    BY <1>4, <1>7, <1>8, <1>9 DEF Everywhere, Init
  <1> QED BY <1>1, <1>10, <1>11 DEF NeInv, Places

(* Frames that arrive, the card that ends a transmission, and the steps    *)
(* of ISR in which no buffer moves.                                        *)
LEMMA IsrWithoutBuffers ==
    ASSUME NeInv,
           \/ \E frame \in Frames : FrameArrives(frame)
           \/ CardEnds \/ isr_wake \/ isr_lock \/ isr_return \/ isr_round
           \/ nic_overrun \/ handle_udp \/ nic_rx_empty \/ nic_rx_ack
    PROVE  NeInv'
  <1>1. CASE \E frame \in Frames : FrameArrives(frame)
    <2>1. PICK frame \in Frames : FrameArrives(frame)
      BY <1>1
    <2>2. \E status : /\ status = {"PRX"} \/ status = {"OVW"}
                      /\ card' = [card EXCEPT !.frames = card'.frames,
                                              !.status = @ \cup status]
      BY <2>1 DEF FrameArrives, NeInv, Shape
    <2>3. card'.frames \in Seq(Frames)
      <3>1. Append(card.frames, frame) \in Seq(Frames) /\ card.frames \in Seq(Frames)
        BY DEF NeInv, Shape
      <3>2. card'.frames = card.frames \/ card'.frames = Append(card.frames, frame)
        BY <2>1 DEF FrameArrives, NeInv, Shape
      <3> QED BY <3>1, <3>2
    <2>4. /\ card' = [frames |-> card'.frames, status |-> card'.status, tx |-> card'.tx,
                     on |-> card'.on]
          /\ card'.tx = card.tx /\ Ends(card'.status) = Ends(card.status)
          /\ card.status \subseteq card'.status
      BY <2>2 DEF NeInv, Shape, Ends
    <2>5. UNCHANGED <<nic, ring, long, xmit_done, xmitq, isr, snd, ctl>>
      BY <2>1 DEF FrameArrives
    <2>6. Shape' /\ Points'
      BY <2>3, <2>4, <2>5 DEF NeInv, Shape, Points
    <2>7. Driver'
      BY <2>4, <2>5 DEF NeInv, Driver, Ends
    <2>8. InHand' = InHand
      BY <2>5 DEF InHand
    <2> QED BY <2>5, <2>6, <2>7, <2>8, PlacesKept DEF NeInv
  <1>2. CASE CardEnds
    <2>1. Shape' /\ Points'
      BY <1>2 DEF CardEnds, Transmitted, NeInv, Shape, Points, SendTo
    <2>2. Driver'
      BY <1>2 DEF CardEnds, Transmitted, NeInv, Shape, Driver, Ends
    <2>3. InHand' = InHand /\ UNCHANGED <<ring, xmitq, long>>
      BY <1>2 DEF CardEnds, Transmitted, NeInv, Shape, InHand
    <2> QED BY <2>1, <2>2, <2>3, PlacesKept DEF NeInv
  <1>3. CASE isr_wake
    <2>1. Shape' /\ Points'
      BY <1>3 DEF isr_wake, NeInv, Shape, Points, SendTo
    <2>2. Driver'
      BY <1>3 DEF isr_wake, NeInv, Shape, Driver, Ends
    <2>3. InHand' = InHand /\ UNCHANGED <<ring, xmitq, long>>
      BY <1>3 DEF isr_wake, NeInv, Shape, InHand
    <2> QED BY <2>1, <2>2, <2>3, PlacesKept DEF NeInv
  <1>4. CASE isr_lock
    <2>1. Shape' /\ Points'
      BY <1>4 DEF isr_lock, NeInv, Shape, Points, SendTo
    <2>2. Driver'
      BY <1>4 DEF isr_lock, NeInv, Shape, Driver, Ends
    <2>3. InHand' = InHand /\ UNCHANGED <<ring, xmitq, long>>
      BY <1>4 DEF isr_lock, NeInv, Shape, InHand
    <2> QED BY <2>1, <2>2, <2>3, PlacesKept DEF NeInv
  <1>5. CASE isr_return
    <2>1. Shape' /\ Points'
      BY <1>5 DEF isr_return, NeInv, Shape, Points, SendTo
    <2>2. Driver'
      BY <1>5 DEF isr_return, NeInv, Shape, Driver, Ends
    <2>3. InHand' = InHand /\ UNCHANGED <<ring, xmitq, long>>
      BY <1>5 DEF isr_return, NeInv, Shape, InHand
    <2> QED BY <2>1, <2>2, <2>3, PlacesKept DEF NeInv
  <1>6. CASE isr_round
    <2>1. Shape' /\ Points'
      BY <1>6 DEF isr_round, NeInv, Shape, Points, SendTo
    <2>2. Driver'
      BY <1>6 DEF isr_round, NeInv, Shape, Driver, Ends
    <2>3. InHand' = InHand /\ UNCHANGED <<ring, xmitq, long>>
      BY <1>6 DEF isr_round, NeInv, Shape, InHand
    <2> QED BY <2>1, <2>2, <2>3, PlacesKept DEF NeInv
  <1>7. CASE nic_overrun
    <2>1. PICK end \in {{}, {"PTX"}, {"TXE"}} :
            /\ card.tx \/ end = {}
            /\ card' = [card EXCEPT !.on = FALSE, !.tx = FALSE, !.status = @ \cup end]
            /\ isr' = [isr EXCEPT !.pc = "rx",
                         !.resend = card.tx /\ Ends(card.status \cup end) = {}]
      BY <1>7 DEF nic_overrun, Ends
    <2>2. /\ isr.pc = "overrun"
          /\ UNCHANGED <<nic, ring, long, xmit_done, xmitq, snd, ctl>>
      BY <1>7 DEF nic_overrun
    <2>3. Shape' /\ Points'
      BY <2>1, <2>2 DEF NeInv, Shape, Points
    <2>4. /\ card'.tx = FALSE /\ card'.status = card.status \cup end
          /\ isr'.pc = "rx" /\ isr'.seen = isr.seen
          /\ isr'.resend = (card.tx /\ Ends(card.status \cup end) = {})
      BY <2>1 DEF NeInv, Shape
    <2>5. card.tx => Ends(card.status) = {}
      BY DEF NeInv, Driver
    <2>6. Driver'
      <3>1. CASE card.tx
        BY <3>1, <2>2, <2>4, <2>5 DEF NeInv, Driver, Ends
      <3>2. CASE ~card.tx
        BY <3>2, <2>1, <2>2, <2>4 DEF NeInv, Driver, Ends
      <3> QED BY <3>1, <3>2
    <2>7. InHand' = InHand
      BY <2>1, <2>2 DEF NeInv, Shape, InHand
    <2> QED BY <2>2, <2>3, <2>6, <2>7, PlacesKept DEF NeInv
  <1>8. CASE handle_udp
    <2>1. Shape' /\ Points'
      BY <1>8 DEF handle_udp, NeInv, Shape, Points, SendTo
    <2>2. Driver'
      BY <1>8 DEF handle_udp, NeInv, Shape, Driver, Ends
    <2>3. InHand' = InHand /\ UNCHANGED <<ring, xmitq, long>>
      BY <1>8 DEF handle_udp, NeInv, Shape, InHand
    <2> QED BY <2>1, <2>2, <2>3, PlacesKept DEF NeInv
  <1>9. CASE nic_rx_empty
    <2>1. Shape' /\ Points'
      BY <1>9 DEF nic_rx_empty, NeInv, Shape, Points, SendTo
    <2>2. Driver'
      BY <1>9 DEF nic_rx_empty, NeInv, Shape, Driver, Ends
    <2>3. InHand' = InHand /\ UNCHANGED <<ring, xmitq, long>>
      BY <1>9 DEF nic_rx_empty, NeInv, Shape, InHand
    <2> QED BY <2>1, <2>2, <2>3, PlacesKept DEF NeInv
  <1>10. CASE nic_rx_ack
    <2>1. Shape' /\ Points'
      BY <1>10 DEF nic_rx_ack, NeInv, Shape, Points, SendTo
    <2>2. Driver'
      BY <1>10 DEF nic_rx_ack, NeInv, Shape, Driver, Ends
    <2>3. InHand' = InHand /\ UNCHANGED <<ring, xmitq, long>>
      BY <1>10 DEF nic_rx_ack, NeInv, Shape, InHand
    <2> QED BY <2>1, <2>2, <2>3, PlacesKept DEF NeInv
  <1> QED BY <1>1, <1>2, <1>3, <1>4, <1>5, <1>6, <1>7, <1>8, <1>9, <1>10

(* The steps of sender and control in which no buffer moves.               *)
LEMMA OthersWithoutBuffers ==
    ASSUME NeInv, sender_lock \/ sender_done \/ control_recv \/ control_ip
    PROVE  NeInv'
  <1>1. CASE sender_lock
    <2>1. Shape' /\ Points'
      BY <1>1 DEF sender_lock, NeInv, Shape, Points, SendTo
    <2>2. Driver'
      BY <1>1 DEF sender_lock, NeInv, Shape, Driver, Ends
    <2>3. InHand' = InHand /\ UNCHANGED <<ring, xmitq, long>>
      BY <1>1 DEF sender_lock, NeInv, Shape, InHand
    <2> QED BY <2>1, <2>2, <2>3, PlacesKept DEF NeInv
  <1>2. CASE sender_done
    <2>1. Shape' /\ Points'
      BY <1>2 DEF sender_done, NeInv, Shape, Points, SendTo
    <2>2. Driver'
      BY <1>2 DEF sender_done, NeInv, Shape, Driver, Ends
    <2>3. InHand' = InHand /\ UNCHANGED <<ring, xmitq, long>>
      BY <1>2 DEF sender_done, NeInv, Shape, InHand
    <2> QED BY <2>1, <2>2, <2>3, PlacesKept DEF NeInv
  <1>3. CASE control_recv
    <2>1. /\ ctl.pc = "recv" /\ UNCHANGED <<card, nic, ring, long, xmit_done, xmitq, isr, snd>>
      BY <1>3 DEF control_recv
    <2>2. /\ ctl' = [pc |-> ctl'.pc, packet |-> ctl'.packet, src |-> ctl'.src,
                    maps |-> ctl'.maps]
          /\ ctl'.packet = ctl.packet /\ ctl'.pc # "xmit"
      <3>1. CASE ctl' = ctl
        BY <3>1, <2>1 DEF NeInv, Shape
      <3>2. CASE \E maps : ctl' = [ctl EXCEPT !.pc = "send_udp", !.maps = maps]
        BY <3>2 DEF NeInv, Shape
      <3>3. CASE \E src : ctl' = [ctl EXCEPT !.pc = "ip", !.src = src]
        BY <3>3 DEF NeInv, Shape
      <3> QED BY <3>1, <3>2, <3>3, <1>3 DEF control_recv
    <2>3. Shape' /\ Points'
      BY <2>1, <2>2 DEF NeInv, Shape, Points
    <2>4. Driver'
      BY <2>1 DEF NeInv, Driver
    <2>5. InHand' = InHand
      BY <2>1, <2>2 DEF NeInv, Shape, InHand
    <2> QED BY <2>1, <2>3, <2>4, <2>5, PlacesKept DEF NeInv
  <1>4. CASE control_ip
    <2>1. Shape' /\ Points'
      BY <1>4 DEF control_ip, NeInv, Shape, Points, SendTo
    <2>2. Driver'
      BY <1>4 DEF control_ip, NeInv, Shape, Driver, Ends
    <2>3. InHand' = InHand /\ UNCHANGED <<ring, xmitq, long>>
      BY <1>4 DEF control_ip, NeInv, Shape, InHand
    <2> QED BY <2>1, <2>2, <2>3, PlacesKept DEF NeInv
  <1> QED BY <1>1, <1>2, <1>3, <1>4

(* nic_rx() and receive() take buffers, nic_rx() and nic_tx() free them.    *)
LEMMA IsrWithBuffers ==
    ASSUME NeInv, nic_rx \/ receive \/ isr_reply \/ nic_rx_done \/ isr_tx
    PROVE  NeInv'
  <1>0. Apart(ring, xmitq, InHand)
    BY DEF NeInv, Places
  <1>1. CASE nic_rx
    <2>1. /\ isr.pc = "rx" /\ card.frames # <<>> /\ isr.packet = NULL
          /\ UNCHANGED <<nic, long, xmit_done, xmitq, snd, ctl>>
      BY <1>1 DEF nic_rx, NeInv, Points
    <2>2. Tail(card.frames) \in Seq(Frames)
      BY <2>1 DEF NeInv, Shape
    <2>3. CASE UNCHANGED <<ring, isr>> /\ card' = [card EXCEPT !.frames = Tail(@)]
      <3>1. Shape' /\ Points'
        BY <2>1, <2>2, <2>3 DEF NeInv, Shape, Points
      <3>2. Driver'
        BY <2>1, <2>3 DEF NeInv, Shape, Driver
      <3>3. InHand' = InHand
        BY <2>1, <2>3 DEF InHand
      <3> QED BY <2>1, <2>3, <3>1, <3>2, <3>3, PlacesKept DEF NeInv
    <2>4. CASE /\ ring # <<>> /\ ring' = Tail(ring) /\ card' = card
               /\ isr' = [isr EXCEPT !.packet = Head(ring), !.pc = "receive"]
      <3>1. Head(ring) \in Buffers
        BY <1>0, <2>4, TakeFirst DEF Apart
      <3>2. Shape' /\ Points'
        BY <2>1, <2>4, <3>1 DEF NeInv, Shape, Points
      <3>3. Driver'
        BY <2>1, <2>4 DEF NeInv, Shape, Driver
      <3>4. InHand[1] \notin Buffers
        BY <2>1, NotBuffers DEF InHand
      <3>5. Changed(InHand, InHand', 1, Head(ring))
        <4>1. Head(ring) \in Nat
          BY <3>1, NotBuffers
        <4>2. InHand'[1] = Head(ring) /\ \A i \in 1 .. 6 : i # 1 => InHand'[i] = InHand[i]
          BY <2>1, <2>4 DEF NeInv, Shape, InHand
        <4> QED BY <1>0, <4>1, <4>2, HandsInHand, HandChanged DEF Apart
      <3>6. Places'
        BY <2>1, <2>4, <3>4, <3>5, FreeTaken DEF NeInv, Places
      <3> QED BY <3>2, <3>3, <3>6 DEF NeInv
    <2> QED BY <2>1, <2>3, <2>4, <1>1 DEF nic_rx
  <1>2. CASE receive
    <2>1. /\ isr.pc = "receive" /\ isr.packet \in Buffers /\ isr.reply = NULL
          /\ UNCHANGED <<card, nic, xmit_done, xmitq, snd, ctl>>
      BY <1>2 DEF receive, NeInv, Points
    <2>2. CASE /\ isr' = [isr EXCEPT !.pc = "reply", !.reply = get_pbuf]
               /\ ring' = RingTaken
               /\ Fill(get_pbuf, Head(card.frames).kind = "longping")
      <3>1. get_pbuf \in Buffers \cup {p_discard}
        BY <1>0, TakeFirst DEF Apart, get_pbuf
      <3>2. Shape' /\ Points'
        BY <2>1, <2>2, <3>1 DEF NeInv, Shape, Points
      <3>3. Driver'
        BY <2>1, <2>2 DEF NeInv, Shape, Driver
      <3>4. InHand[2] \notin Buffers
        BY <2>1, NotBuffers DEF InHand
      <3>5. Changed(InHand, InHand', 2, get_pbuf)
        <4>1. get_pbuf \in Nat
          BY <3>1, NotBuffers
        <4>2. InHand'[2] = get_pbuf /\ \A i \in 1 .. 6 : i # 2 => InHand'[i] = InHand[i]
          BY <2>1, <2>2 DEF NeInv, Shape, InHand
        <4> QED BY <1>0, <4>1, <4>2, HandsInHand, HandChanged DEF Apart
      <3>6. ASSUME NoLongReply PROVE long' = {}
        <4>1. Head(card.frames) \in Frames
          <5>1. card.frames # <<>>
            BY <1>2 DEF receive
          <5> QED BY <5>1 DEF NeInv, Shape
        <4> QED BY <2>2, <3>6, <4>1 DEF Fill, NoLongReply, NeInv, Places
      <3>7. Places'
        <4>1. CASE ring = <<>>
          BY <4>1, <2>1, <2>2, <3>4, <3>5, <3>6, NotBuffers, DiscardHeld
             DEF get_pbuf, RingTaken, NeInv
        <4>2. CASE ring # <<>>
          BY <4>2, <2>1, <2>2, <3>4, <3>5, <3>6, FreeTaken DEF get_pbuf, RingTaken, NeInv
        <4> QED BY <4>1, <4>2
      <3> QED BY <3>2, <3>3, <3>7 DEF NeInv
    <2>3. CASE /\ UNCHANGED <<ring, long>> /\ isr'.pc \in {"handle_udp", "free"}
               /\ isr' = [isr EXCEPT !.pc = isr'.pc, !.maps = isr'.maps]
      <3>1. Shape' /\ Points'
        BY <2>1, <2>3 DEF NeInv, Shape, Points
      <3>2. Driver'
        BY <2>1, <2>3 DEF NeInv, Shape, Driver
      <3>3. InHand' = InHand
        BY <2>1, <2>3 DEF NeInv, Shape, InHand
      <3> QED BY <2>1, <2>3, <3>1, <3>2, <3>3, PlacesKept DEF NeInv
    <2>4. CASE Head(card.frames).kind \in {"arp", "ping", "longping"}
      BY <2>2, <2>4, <1>2 DEF receive
    <2>5. CASE Head(card.frames).kind = "udp"
      <3>1. /\ UNCHANGED <<ring, long>> /\ isr'.pc = "handle_udp"
            /\ isr' = [isr EXCEPT !.pc = isr'.pc, !.maps = isr'.maps]
        BY <2>5, <1>2 DEF receive, NeInv, Shape
      <3> QED BY <2>3, <3>1
    <2>6. CASE Head(card.frames).kind \notin {"arp", "ping", "longping", "udp"}
      <3>1. UNCHANGED <<ring, long>> /\ isr' = [isr EXCEPT !.pc = "free"]
        BY <2>6, <1>2 DEF receive
      <3>2. isr'.pc = "free" /\ isr' = [isr EXCEPT !.pc = isr'.pc, !.maps = isr'.maps]
        BY <3>1 DEF NeInv, Shape
      <3> QED BY <2>3, <3>1, <3>2
    <2> QED BY <2>4, <2>5, <2>6
  <1>3. CASE isr_reply
    <2>1. /\ isr.pc = "reply" /\ isr.reply \in Buffers \cup {p_discard}
          /\ isr' = [isr EXCEPT !.pc = "free", !.reply = NULL]
          /\ UNCHANGED <<card, nic, ring, long, xmit_done, snd, ctl>>
      BY <1>3 DEF isr_reply, NeInv, Points
    <2>2. Shape' /\ Points'
      BY <2>1 DEF NeInv, Shape, Points
    <2>3. Driver'
      BY <2>1 DEF NeInv, Shape, Driver
    <2>4. Changed(InHand, InHand', 2, NULL) /\ InHand[2] = isr.reply
      <3>1. /\ InHand'[2] = NULL /\ \A i \in 1 .. 6 : i # 2 => InHand'[i] = InHand[i]
            /\ InHand[2] = isr.reply
        BY <2>1 DEF NeInv, Shape, InHand
      <3> QED BY <1>0, <3>1, HandsInHand, HandChanged, NotBuffers DEF Apart
    <2>5. CASE isr.reply = p_discard
      <3>1. xmitq' = xmitq
        BY <2>5, <1>3 DEF isr_reply, xmit
      <3>2. Places'
        BY <2>1, <2>4, <2>5, <3>1, NotBuffers, DiscardHeld DEF NeInv, Places
      <3> QED BY <2>2, <2>3, <3>2 DEF NeInv
    <2>6. CASE isr.reply \in Buffers
      <3>1. xmitq' = Append(xmitq, isr.reply)
        BY <2>6, <1>3, NotBuffers DEF isr_reply, xmit
      <3>2. Places'
        BY <2>1, <2>4, <2>6, <3>1, QueuePut DEF NeInv, Places
      <3> QED BY <2>2, <2>3, <3>2 DEF NeInv
    <2> QED BY <2>1, <2>5, <2>6
  <1>4. CASE nic_rx_done
    <2>1. /\ isr.pc = "free" /\ isr.packet \in Buffers /\ card.frames # <<>>
          /\ isr' = [isr EXCEPT !.pc = "rx", !.packet = NULL]
          /\ card' = [card EXCEPT !.frames = Tail(@)] /\ ring' = <<isr.packet>> \o ring
          /\ UNCHANGED <<nic, long, xmit_done, xmitq, snd, ctl>>
      BY <1>4 DEF nic_rx_done, free_buffer_data, NeInv, Points
    <2>2. Tail(card.frames) \in Seq(Frames)
      BY <2>1 DEF NeInv, Shape
    <2>3. Shape' /\ Points'
      BY <2>1, <2>2 DEF NeInv, Shape, Points
    <2>4. Driver'
      BY <2>1 DEF NeInv, Shape, Driver
    <2>5. Changed(InHand, InHand', 1, NULL) /\ InHand[1] = isr.packet
      <3>1. /\ InHand'[1] = NULL /\ \A i \in 1 .. 6 : i # 1 => InHand'[i] = InHand[i]
            /\ InHand[1] = isr.packet
        BY <2>1 DEF NeInv, Shape, InHand
      <3> QED BY <1>0, <3>1, HandsInHand, HandChanged, NotBuffers DEF Apart
    <2>6. Places'
      BY <2>1, <2>5, FreePut DEF NeInv, Places
    <2> QED BY <2>3, <2>4, <2>6 DEF NeInv
  <1>5. CASE isr_tx
    <2>1. /\ isr.pc = "tx" /\ isr' = [isr EXCEPT !.pc = "look", !.seen = {}]
          /\ UNCHANGED <<long, xmitq, snd, ctl>>
      BY <1>5 DEF isr_tx
    <2>2. CASE Ends(isr.seen) = {}
      <3>1. UNCHANGED <<card, nic, ring, xmit_done>>
        BY <2>2, <1>5 DEF isr_tx, Ends
      <3>2. Shape' /\ Points'
        BY <2>1, <3>1 DEF NeInv, Shape, Points
      <3>3. Driver'
        BY <2>1, <3>1 DEF NeInv, Shape, Driver, Ends
      <3>4. InHand' = InHand
        BY <2>1, <3>1 DEF NeInv, Shape, InHand
      <3> QED BY <2>1, <3>1, <3>2, <3>3, <3>4, PlacesKept DEF NeInv
    <2>3. CASE Ends(isr.seen) # {}
      <3> DEFINE p == nic.tx_packet[1]
                 rest == [nic.tx_packet EXCEPT ![1] = NULL]
      <3>1. /\ nic.sending /\ ~card.tx /\ ~isr.resend /\ p \in Buffers
            /\ nic.send = 1 /\ xmit_done = 0 /\ snd.pc = "wait"
            /\ Ends(card.status) = Ends(isr.seen)
        BY <2>3 DEF NeInv, Driver, Ends
      <3>2. /\ rest \in [Slots -> Nat] /\ rest[1] = NULL /\ rest[2] = NULL
            /\ {f \in Slots : rest[f] # NULL} = {}
        BY NotBuffers DEF NeInv, Shape, Driver, Slots, MAX_TX
      <3>3. \E ack \in {{}, {"TXE"}} :
              /\ nic_tx(ack)
              /\ "PTX" \notin isr.seen => ack = {"TXE"}
        BY <2>3, <1>5 DEF isr_tx, Ends
      <3>4. PICK ack \in {{}, {"TXE"}} :
              /\ ring' = <<p>> \o ring /\ xmit_done' = 1
              /\ nic' = [tx_packet |-> rest, sending |-> FALSE, send |-> 1]
              /\ card' = [card EXCEPT !.tx = FALSE, !.status = @ \ (ack \cup {"PTX"})]
              /\ "PTX" \notin isr.seen => ack = {"TXE"}
        <4>1. PICK ack \in {{}, {"TXE"}} : nic_tx(ack) /\ ("PTX" \notin isr.seen => ack = {"TXE"})
          BY <3>3
        <4>2. p # NULL /\ p # p_discard
          BY <3>1, NotBuffers
        <4>3. /\ ring' = <<p>> \o ring /\ xmit_done' = 1
          BY <4>1, <4>2, <3>1 DEF nic_tx, free_buffer
        <4>4. nic' = [tx_packet |-> rest, sending |-> FALSE, send |-> 1]
          BY ZenonT(60), <4>1, <4>2, <3>1, <3>2 DEF nic_tx
        <4>5. card' = [card EXCEPT !.tx = FALSE, !.status = @ \ (ack \cup {"PTX"})]
          BY ZenonT(60), <4>1, <4>2, <3>1, <3>2 DEF nic_tx
        <4> QED BY <4>1, <4>3, <4>4, <4>5
      <3>5. Ends(card.status \ (ack \cup {"PTX"})) = {}
        BY <3>1, <3>4 DEF NeInv, Driver, Ends
      <3>6. Shape' /\ Points'
        BY <2>1, <3>2, <3>4 DEF NeInv, Shape, Points
      <3>7. /\ card'.tx = FALSE /\ Ends(card'.status) = {} /\ isr'.seen = {}
            /\ isr'.resend = FALSE /\ nic'.tx_packet = rest /\ nic'.send = 1
            /\ nic'.sending = FALSE /\ snd' = snd
        BY <2>1, <3>1, <3>4, <3>5 DEF NeInv, Shape
      <3>8. Driver'
        BY <3>1, <3>2, <3>4, <3>7, NotBuffers DEF Driver, Ends
      <3>9. Changed(InHand, InHand', 5, NULL) /\ InHand[5] = p
        <4>1. InHand' = <<isr.packet, isr.reply, ctl.packet, snd.packet, NULL, NULL>>
          BY <2>1, <3>2, <3>7 DEF NeInv, Shape, InHand
        <4>2. InHand = <<isr.packet, isr.reply, ctl.packet, snd.packet, p, NULL>>
          BY DEF NeInv, Driver, InHand
        <4> HIDE DEF p
        <4>3. /\ InHand'[5] = NULL /\ \A i \in 1 .. 6 : i # 5 => InHand'[i] = InHand[i]
              /\ InHand[5] = p
          BY <4>1, <4>2
        <4> QED BY <1>0, <4>3, HandsInHand, HandChanged, NotBuffers DEF Apart
      <3> HIDE DEF p, rest
      <3>10. Places'
        BY <2>1, <3>1, <3>4, <3>9, FreePut DEF NeInv, Places
      <3> QED BY <3>6, <3>8, <3>10 DEF NeInv
    <2> QED BY <2>2, <2>3
  <1> QED BY <1>1, <1>2, <1>3, <1>4, <1>5

(* The sender and control receive, take and queue buffers.                 *)
LEMMA OthersWithBuffers ==
    ASSUME NeInv, sender_recv \/ nic_send_packet \/ send_udp \/ control_xmit
    PROVE  NeInv'
  <1>0. Apart(ring, xmitq, InHand) /\ InHand \in Hands /\ (NoLongReply => long = {})
    BY DEF NeInv, Places, Apart
  <1>1. CASE sender_recv
    <2>1. /\ snd.pc = "recv" /\ snd.packet = NULL /\ xmitq # <<>>
          /\ snd' = [pc |-> "lock", packet |-> Head(xmitq)] /\ xmitq' = Tail(xmitq)
          /\ UNCHANGED <<card, nic, ring, long, xmit_done, isr, ctl>>
      BY <1>1 DEF sender_recv, NeInv, Points
    <2>2. Head(xmitq) \in Buffers /\ Head(xmitq) \in Nat
      BY <1>0, <2>1, TakeFirst, NotBuffers DEF Apart
    <2>3. Shape' /\ Points'
      BY <2>1, <2>2 DEF NeInv, Shape, Points
    <2>4. Driver'
      BY <2>1 DEF NeInv, Driver
    <2>5. Changed(InHand, InHand', 4, Head(xmitq)) /\ InHand[4] \notin Buffers
      <3>1. /\ InHand'[4] = Head(xmitq)
            /\ \A i \in 1 .. 6 : i # 4 => InHand'[i] = InHand[i]
        BY <2>1 DEF InHand
      <3>2. InHand[4] = NULL
        BY <2>1 DEF InHand
      <3> QED BY <1>0, <2>2, <3>1, <3>2, HandsInHand, HandChanged, NotBuffers
    <2>6. Places'
      BY <1>0, <2>1, <2>5, QueueTaken DEF NeInv
    <2> QED BY <2>3, <2>4, <2>6 DEF NeInv
  <1>2. CASE nic_send_packet
    <2>1. /\ snd.pc = "send" /\ snd.packet \in Buffers /\ nic.sending = FALSE
          /\ nic.tx_packet[1] = NULL /\ nic.tx_packet[2] = NULL /\ nic.send = 1
          /\ xmit_done = 0 /\ ~card.tx /\ ~isr.resend /\ Ends(card.status) = {}
          /\ snd' = [pc |-> "wait", packet |-> NULL]
          /\ UNCHANGED <<ring, long, xmit_done, xmitq, isr, ctl>>
      BY <1>2 DEF nic_send_packet, NeInv, Points, Driver, Shape
    <2>2. InHand[4] = snd.packet /\ InHand[5] = NULL
      BY <2>1 DEF InHand
    <2>3. CASE snd.packet \in long
      <3>1. UNCHANGED <<card, nic>>
        BY <2>3, <1>2 DEF nic_send_packet
      <3>2. Shape' /\ Points'
        BY <2>1, <3>1 DEF NeInv, Shape, Points
      <3>3. Driver'
        BY <2>1, <3>1 DEF NeInv, Driver
      <3>4. Changed(InHand, InHand', 4, NULL)
        <4>1. InHand'[4] = NULL /\ \A i \in 1 .. 6 : i # 4 => InHand'[i] = InHand[i]
          BY <2>1, <3>1 DEF InHand
        <4> QED BY <1>0, <4>1, HandsInHand, HandChanged, NotBuffers
      <3>5. Apart(ring, xmitq, InHand')
        BY <1>0, <3>4, Forget
      <3>6. Places'
        BY <1>0, <2>1, <2>3, <3>5 DEF Places, Apart, HeldIn, NoLongReply
      <3> QED BY <3>2, <3>3, <3>6 DEF NeInv
    <2>4. CASE snd.packet \notin long
      <3> DEFINE free == {f \in Slots : nic.tx_packet[f] = NULL}
                 first == CHOOSE s \in free : \A g \in free : s <= g
      <3>1. free = {1, 2}
        BY <2>1 DEF Slots, MAX_TX
      <3>2. first = 1 /\ free # {}
        BY <3>1
      <3>3. /\ nic' = [tx_packet |-> [nic.tx_packet EXCEPT ![1] = snd.packet],
                       send |-> 1, sending |-> TRUE]
            /\ card' = [card EXCEPT !.tx = TRUE]
        <4>1. /\ nic' = [tx_packet |-> [nic.tx_packet EXCEPT ![first] = snd.packet],
                         send |-> IF nic.sending THEN nic.send ELSE first,
                         sending |-> TRUE]
              /\ card' = [card EXCEPT !.tx = @ \/ ~nic.sending]
          <5> HIDE DEF first
          <5> QED BY <1>2, <2>4, <3>2 DEF nic_send_packet, first
        <4> HIDE DEF first
        <4> QED BY <2>1, <3>2, <4>1
      <3>4. /\ nic'.tx_packet \in [Slots -> Nat] /\ nic'.tx_packet[1] = snd.packet
            /\ nic'.tx_packet[2] = NULL /\ nic'.send = 1 /\ nic'.sending = TRUE
        BY <2>1, <3>3, NotBuffers DEF NeInv, Shape, Slots, MAX_TX
      <3>5. /\ card'.tx = TRUE /\ card'.status = card.status
            /\ card'.frames = card.frames
        BY <3>3 DEF NeInv, Shape
      <3>6. Shape' /\ Points'
        BY <2>1, <3>3, <3>4, <3>5 DEF NeInv, Shape, Points
      <3>7. Driver'
        BY <2>1, <3>4, <3>5, NotBuffers DEF NeInv, Driver, Ends
      <3>8. Passed(InHand, InHand', 4, 5)
        <4>1. /\ InHand'[4] = NULL /\ InHand'[5] = InHand[4]
              /\ \A i \in 1 .. 6 : i # 4 /\ i # 5 => InHand'[i] = InHand[i]
          BY <2>1, <3>4 DEF InHand
        <4>2. \A i \in 1 .. 6 : InHand'[i] \in Nat
          BY <4>1, <1>0, NotBuffers DEF Hands
        <4>3. InHand' \in Hands
          BY <4>2, HandsInHand DEF Hands, SixHands
        <4> QED BY <4>1, <4>3 DEF Passed
      <3>9. Moved(ring, xmitq, InHand, ring', xmitq', InHand')
        BY <1>0, <2>1, <2>2, <3>8, PassOn, NotBuffers
      <3>10. Places'
        BY <1>0, <2>1, <3>9, PlacesMoved DEF NeInv
      <3> QED BY <3>6, <3>7, <3>10 DEF NeInv
    <2> QED BY <2>3, <2>4
  <1>3. CASE send_udp
    <2>1. /\ ctl.pc = "send_udp" /\ ctl.packet = NULL
          /\ UNCHANGED <<card, nic, xmit_done, xmitq, isr, snd>>
      BY <1>3 DEF send_udp, NeInv, Points
    <2>2. CASE ctl.maps = <<>>
      <3>1. ctl' = [ctl EXCEPT !.pc = "recv"] /\ UNCHANGED <<ring, long>>
        BY <2>2, <1>3 DEF send_udp
      <3>2. Shape' /\ Points'
        BY <2>1, <3>1 DEF NeInv, Shape, Points
      <3>3. Driver'
        BY <2>1, <3>1 DEF NeInv, Driver
      <3>4. InHand' = InHand
        BY <2>1, <3>1 DEF NeInv, Shape, InHand
      <3> QED BY <2>1, <3>1, <3>2, <3>3, <3>4, PlacesKept DEF NeInv
    <2>3. CASE ctl.maps # <<>>
      <3>1. /\ ctl' = [ctl EXCEPT !.pc = "xmit", !.maps = Tail(@), !.packet = get_pbuf]
            /\ ring' = RingTaken /\ long' = long \ {get_pbuf}
        BY <2>3, <1>3 DEF send_udp, Fill
      <3>2. get_pbuf \in Buffers \cup {p_discard} /\ get_pbuf \in Nat
        BY <1>0, TakeFirst, NotBuffers DEF Apart, get_pbuf
      <3>3. Shape' /\ Points'
        BY <2>1, <3>1, <3>2 DEF NeInv, Shape, Points
      <3>4. Driver'
        BY <2>1, <3>1 DEF NeInv, Driver
      <3>5. Changed(InHand, InHand', 3, get_pbuf) /\ InHand[3] \notin Buffers
        <4>1. /\ InHand'[3] = get_pbuf
              /\ \A i \in 1 .. 6 : i # 3 => InHand'[i] = InHand[i]
          BY <2>1, <3>1 DEF NeInv, Shape, InHand
        <4>2. InHand[3] = NULL
          BY <2>1 DEF InHand
        <4> QED BY <1>0, <3>2, <4>1, <4>2, HandsInHand, HandChanged, NotBuffers
      <3>6. NoLongReply => long' = {}
        BY <1>0, <3>1
      <3>7. CASE ring = <<>>
        <4>1. get_pbuf = p_discard /\ ring' = ring
          BY <3>1, <3>7 DEF get_pbuf, RingTaken
        <4>2. Places'
          BY <2>1, <3>5, <3>6, <4>1, DiscardHeld, NotBuffers DEF NeInv
        <4> QED BY <3>3, <3>4, <4>2 DEF NeInv
      <3>8. CASE ring # <<>>
        <4>1. get_pbuf = Head(ring) /\ ring' = Tail(ring)
          BY <3>1, <3>8 DEF get_pbuf, RingTaken
        <4>2. Places'
          BY <2>1, <3>5, <3>6, <3>8, <4>1, FreeTaken DEF NeInv
        <4> QED BY <3>3, <3>4, <4>2 DEF NeInv
      <3> QED BY <3>7, <3>8
    <2> QED BY <2>2, <2>3
  <1>4. CASE control_xmit
    <2>1. /\ ctl.pc = "xmit" /\ ctl.packet \in Buffers \cup {p_discard}
          /\ ctl' = [ctl EXCEPT !.pc = "send_udp", !.packet = NULL]
          /\ UNCHANGED <<card, nic, ring, long, xmit_done, isr, snd>>
      BY <1>4 DEF control_xmit, NeInv, Points
    <2>2. Shape' /\ Points'
      BY <2>1 DEF NeInv, Shape, Points
    <2>3. Driver'
      BY <2>1 DEF NeInv, Driver
    <2>4. Changed(InHand, InHand', 3, NULL) /\ InHand[3] = ctl.packet
      <3>1. /\ InHand'[3] = NULL /\ \A i \in 1 .. 6 : i # 3 => InHand'[i] = InHand[i]
            /\ InHand[3] = ctl.packet
        BY <2>1 DEF NeInv, Shape, InHand
      <3> QED BY <1>0, <3>1, HandsInHand, HandChanged, NotBuffers
    <2>5. CASE ctl.packet = p_discard
      <3>1. xmitq' = xmitq
        BY <2>5, <1>4 DEF control_xmit, xmit
      <3>2. Places'
        BY <1>0, <2>1, <2>4, <2>5, <3>1, NotBuffers, DiscardHeld DEF NeInv
      <3> QED BY <2>2, <2>3, <3>2 DEF NeInv
    <2>6. CASE ctl.packet \in Buffers
      <3>1. xmitq' = Append(xmitq, ctl.packet)
        BY <2>6, <1>4, NotBuffers DEF control_xmit, xmit
      <3>2. Places'
        BY <1>0, <2>1, <2>4, <2>6, <3>1, QueuePut DEF NeInv
      <3> QED BY <2>2, <2>3, <3>2 DEF NeInv
    <2> QED BY <2>1, <2>5, <2>6
  <1> QED BY <1>1, <1>2, <1>3, <1>4

(* Every step keeps the invariant.                                         *)
LEMMA NeInvStep == NeInv /\ [Next]_vars => NeInv'
  <1> SUFFICES ASSUME NeInv, [Next]_vars PROVE NeInv'
    OBVIOUS
  <1>1. CASE ISR
    BY <1>1, IsrWithoutBuffers, IsrWithBuffers DEF ISR
  <1>2. CASE sender \/ control
    BY <1>2, OthersWithoutBuffers, OthersWithBuffers DEF sender, control
  <1>3. CASE CardEnds \/ \E frame \in Frames : FrameArrives(frame)
    BY <1>3, IsrWithoutBuffers
  <1>4. CASE \E c \in Clients : Read(c) \/ Leave(c)
                              \/ \E command \in Commands : Ask(c, command)
    BY <1>4, InvUnchanged DEF Read, Leave, Ask
  <1>5. CASE UNCHANGED vars
    BY <1>5, InvUnchanged DEF vars
  <1> QED BY <1>1, <1>2, <1>3, <1>4, <1>5 DEF Next

-----------------------------------------------------------------------------
(* The theorems.                                                           *)

(* The invariant says where each buffer is.                                *)
LEMMA NeInvAccounts ==
    ASSUME NeInv
    PROVE  NoneTwice /\ TransmitsHeld /\ (NoLongReply => BuffersAccounted)
  <1>1. Held = HeldIn(InHand)
    BY DEF Held, HeldIn
  <1>2. NoneTwice
    BY <1>1 DEF NeInv, Places, Apart, NoneTwice
  <1>3. TransmitsHeld
    BY DEF NeInv, Driver, TransmitsHeld
  <1>4. NoLongReply => Range(ring) \cup Range(xmitq) \cup Held = Buffers
    BY <1>1 DEF NeInv, Places, Everywhere
  <1> QED BY <1>2, <1>3, <1>4 DEF BuffersAccounted

(* The invariant behind the buffers (ne2k.c, ne2000.c) holds throughout.   *)
THEOREM NeInvAlways == Spec => []NeInv
  BY NeInvInit, NeInvStep, PTL DEF Spec

(* Whatever frames arrive, free_buffer() and free_buffer_data() never free *)
(* a buffer twice, no two threads hold the same one, and the card sends    *)
(* only from a slot that is in use.                                        *)
THEOREM BuffersNeverShared == Spec => [](NoneTwice /\ TransmitsHeld)
  BY NeInvAlways, NeInvAccounts, PTL

(* When no answer is longer than nic_send_packet() takes, no buffer is     *)
(* lost either, with any number of buffers, frames and clients.            *)
THEOREM BuffersNeverLost == NoLongReply => (Spec => []BuffersAccounted)
  <1> SUFFICES ASSUME NoLongReply PROVE Spec => []BuffersAccounted
    OBVIOUS
  <1>1. NeInv => BuffersAccounted
    BY NeInvAccounts
  <1> QED BY <1>1, NeInvAlways, PTL
=============================================================================
