----------------------------- MODULE VfsProofs ------------------------------
(***************************************************************************)
(* Proofs about Vfs.  Of HashProofs only what it says of tables is used.   *)
(***************************************************************************)
EXTENDS Vfs, FiniteSetTheorems, SequenceTheorems, TLAPS

T == INSTANCE HashProofs WITH Keys <- {}, Absent <- {}, MaxDirty <- 0,
                              t <- conn, kept <- conn

-----------------------------------------------------------------------------
(* The table of connections.                                               *)

(* The operators of HashProofs are those of Hash: cardinality, ...         *)
LEMMA SameSets ==
    \A S : T!Cardinality(S) = Cardinality(S) /\ T!IsFiniteSet(S) = IsFiniteSet(S)
  <1>1. \A S : T!Cardinality(S) = Cardinality(S)
    BY Zenon DEF T!Cardinality, Cardinality
  <1>2. \A S : T!IsFiniteSet(S) = IsFiniteSet(S)
    BY Zenon DEF T!IsFiniteSet, IsFiniteSet
  <1> QED BY <1>1, <1>2

(* ... a lookup, ...                                                       *)
LEMMA Lookups == \A u, key : hashtable_lookup(u, key) = T!hashtable_lookup(u, key)
  BY ZenonT(60) DEF hashtable_lookup, T!hashtable_lookup, Found, T!Found, EndOf, T!EndOf,
               Probe, T!Probe, First, T!First, Stops, T!Stops, Size, T!Size, hash, T!hash,
               rehash, T!rehash, NodeAt, T!NodeAt

(* ... an insertion without a rebuild, ...                                 *)
LEMMA Places == \A u, key, d : place(u, key, d) = T!place(u, key, d)
  <1>1. \A u, key, n : /\ Probe(u, key, n) = T!Probe(u, key, n)
                       /\ NodeAt(u, key, n) = T!NodeAt(u, key, n)
                       /\ Size(u) = T!Size(u) /\ hash(u, key) = T!hash(u, key)
    BY Zenon DEF Probe, T!Probe, Size, T!Size, hash, T!hash, rehash, T!rehash,
                 NodeAt, T!NodeAt
  <1>2. \A u, key, r : First(u, key, r, Open) = T!First(u, key, r, T!Open)
    BY <1>1, ZenonT(60) DEF First, T!First, Open, T!Open
  <1>3. \A u, key : SlotFor(u, key) = T!SlotFor(u, key)
    BY <1>1, <1>2, Zenon DEF SlotFor, T!SlotFor
  <1> QED BY <1>3, Zenon DEF place, T!place

(* ... and one with it.                                                    *)
LEMMA Grows == \A u : grow(u) = T!grow(u)
  <1>1. SUFFICES ASSUME NEW u, NEW x
                 PROVE  refill(u, x, place) = T!refill(u, x, T!place)
    BY Zenon DEF grow, T!grow
  <1> DEFINE new == [size_index |-> x, used |-> 0, dirty |-> 0,
                     table |-> [i \in 0 .. TableSizes[x] - 1 |-> NoNode]]
             E(g) == [i \in 0 .. Size(u) |-> IF i = 0 THEN new
                        ELSE LET node == u.table[i - 1] IN
                             IF IsLive(node) THEN place(g[i - 1], node.key, node.data)
                             ELSE g[i - 1]]
             F(g) == [i \in 0 .. T!Size(u) |-> IF i = 0 THEN new
                        ELSE LET node == u.table[i - 1] IN
                             IF T!IsLive(node) THEN T!place(g[i - 1], node.key, node.data)
                             ELSE g[i - 1]]
  <1>2. T!NoNode = NoNode /\ Size(u) = T!Size(u)
    BY Zenon DEF NoNode, T!NoNode, Size, T!Size
  <1>3. \A node : IsLive(node) <=> T!IsLive(node)
    BY DEF IsLive, T!IsLive
  <1>4. \A g : E(g) = F(g)
    BY <1>2, <1>3, Places
  <1>5. (CHOOSE g : g = E(g)) = (CHOOSE g : g = F(g))
    <2> HIDE DEF E, F
    <2> QED BY <1>4, Zenon
  <1>6. refill(u, x, place) = (CHOOSE g : g = E(g))[Size(u)]
    BY Zenon DEF refill
  <1>7. T!refill(u, x, T!place) = (CHOOSE g : g = F(g))[T!Size(u)]
    BY <1>2, ZenonT(60) DEF T!refill
  <1> QED BY <1>2, <1>5, <1>6, <1>7

(* ... and an insertion that may rebuild the table.                        *)
LEMMA Inserts ==
    \A u, key, d : hashtable_insert(u, key, d) = T!hashtable_insert(u, key, d)
  <1>1. \A u : Overloaded(u) <=> T!Overloaded(u)
    BY Zenon DEF Overloaded, T!Overloaded, Size, T!Size
  <1> QED BY <1>1, Places, Grows, Zenon DEF hashtable_insert, T!hashtable_insert

(* What HashProofs asks of its constants.                                  *)
LEMMA TableFacts ==
    /\ T!HashAssumption /\ T!MCHashAssumption
    /\ Len(TableSizes) \in Nat \ {0, 1} /\ TableSizes[Len(TableSizes)] \in Nat
    /\ TableSizes[1] \in Nat /\ PortIds \subseteq Nat
  <1>1. T!HashAssumption
    BY HashAssumption, Zenon DEF HashAssumption, T!HashAssumption
  <1>2. Len(TableSizes) \in Nat \ {0, 1}
    BY HashAssumption, RoomAssumption
  <1>3. TableSizes[Len(TableSizes)] \in Nat /\ TableSizes[1] \in Nat
    BY <1>2, HashAssumption
  <1>4. IsFiniteSet({}) /\ Cardinality({}) = 0
    BY FS_EmptySet
  <1>5. T!MCHashAssumption
    <2>1. T!IsFiniteSet({}) /\ T!Cardinality({}) = 0
      BY <1>4, SameSets
    <2>2. 2 * (T!Cardinality({}) - 1) <= TableSizes[Len(TableSizes)]
      BY <2>1, <1>3
    <2>3. {} \cup {} \subseteq Nat /\ 0 \in Nat /\ Len(TableSizes) >= 2
      BY SMTT(60), <1>2
    <2> QED BY <2>1, <2>2, <2>3 DEF T!MCHashAssumption
  <1> QED BY <1>1, <1>2, <1>3, <1>5, VfsAssumption

(* A table u finds the connections of ports, chart[p] being that of p.     *)
Charts(u, chart) == T!Holds(u, chart, Nat) /\ u.dirty = 0 /\ DOMAIN chart \subseteq PortIds

(* A lookup finds the connection of a port that has one.                   *)
LEMMA LookedUp ==
    ASSUME NEW u, NEW chart, Charts(u, chart), NEW p \in DOMAIN chart
    PROVE  hashtable_lookup(u, p) = chart[p]
  BY T!LookupIs, Lookups, TableFacts DEF Charts

(* A new table has none.                                                   *)
LEMMA NewTable ==
    \A chart : DOMAIN chart = {} /\ chart = [p \in {} |-> chart[p]]
                  => Charts(hashtable_new, chart)
  <1>1. SUFFICES ASSUME NEW chart, DOMAIN chart = {}, chart = [p \in {} |-> chart[p]]
                 PROVE  Charts(hashtable_new, chart)
    OBVIOUS
  <1>2. hashtable_new = T!Empty(1)
    BY Zenon DEF hashtable_new, T!Empty, NoNode, T!NoNode
  <1>3. hashtable_new.dirty = 0
    BY DEF hashtable_new
  <1>4. NULL \in Nat /\ 1 \in 1 .. Len(TableSizes)
    BY VfsAssumption, TableFacts
  <1>5. T!Holds(T!Empty(1), chart, Nat)
    BY <1>1, <1>4, TableFacts, T!EmptyHolds
  <1> QED BY <1>1, <1>2, <1>3, <1>5 DEF Charts

(* A connection more: there is room, as each port has one at most.         *)
LEMMA OneMoreConn ==
    ASSUME NEW u, NEW chart, Charts(u, chart), NEW p \in PortIds, p \notin DOMAIN chart,
           NEW c \in Nat
    PROVE  Charts(hashtable_insert(u, p, c), T!With(chart, p, c))
  <1>1. T!Holds(u, chart, Nat) /\ u.dirty = 0 /\ NULL \in Nat /\ p \in Nat
    BY VfsAssumption, TableFacts DEF Charts
  <1>2. /\ IsFiniteSet(DOMAIN chart) /\ Cardinality(DOMAIN chart) \in Nat
        /\ Cardinality(T!LiveAt(u)) = Cardinality(DOMAIN chart)
    BY <1>1, TableFacts, SameSets, T!LiveCount
  <1>3. Cardinality(DOMAIN chart) + 1 <= Cardinality(PortIds) /\ Cardinality(PortIds) \in Nat
    <2>1. IsFiniteSet(PortIds) /\ DOMAIN chart \subseteq PortIds \ {p}
      BY RoomAssumption DEF Charts
    <2>2. /\ IsFiniteSet(PortIds \ {p}) /\ Cardinality(PortIds \ {p}) = Cardinality(PortIds) - 1
      BY <2>1, FS_RemoveElement
    <2>3. Cardinality(DOMAIN chart) <= Cardinality(PortIds \ {p})
      BY <2>1, <2>2, FS_Subset
    <2>4. Cardinality(PortIds) \in Nat
      BY <2>1, FS_CardinalityType
    <2> QED BY <2>2, <2>3, <2>4, <1>2
  <1>4. Cardinality(T!Taken(u)) = u.used /\ u.used \in Nat
    BY <1>1, SameSets DEF T!Holds, T!Counted, T!Typed
  <1>5. T!Taken(u) = T!LiveAt(u)
    <2>1. T!Typed(u, Nat) /\ T!Marked(u) /\ T!Counted(u)
      BY <1>1 DEF T!Holds
    <2>2. T!Removed(u) = {}
      <3>1. IsFiniteSet(T!Removed(u)) /\ Cardinality(T!Removed(u)) \in Nat
        BY <2>1, TableFacts, SameSets, T!SlotSets
      <3>2. Cardinality(T!Removed(u)) <= 0
        BY <2>1, <1>1, SameSets DEF T!Counted
      <3> QED BY <3>1, <3>2, FS_EmptySet
    <2> QED BY <2>2, Zenon DEF T!Removed, T!Taken, T!LiveAt, T!IsLive
  <1>6. T!Overloaded(u) => u.size_index # Len(TableSizes)
    <2>1. SUFFICES ASSUME u.size_index = Len(TableSizes)
                   PROVE  ~T!Overloaded(u)
      OBVIOUS
    <2>2. u.used + 1 <= Cardinality(PortIds)
      BY <1>2, <1>3, <1>4, <1>5
    <2>3. T!Size(u) = TableSizes[Len(TableSizes)]
      BY <2>1 DEF T!Size
    <2>4. PICK s \in Nat : s = TableSizes[Len(TableSizes)]
      BY TableFacts
    <2> QED BY <2>2, <2>3, <2>4, <1>3, <1>4, RoomAssumption DEF T!Overloaded
  <1>7. PICK v : /\ v = T!hashtable_insert(u, p, c)
                 /\ T!Holds(v, T!With(chart, p, c), Nat)
                 /\ v.dirty = 0 \/ (v.dirty = u.dirty /\ v.size_index = u.size_index)
    <2>1. T!HashAssumption /\ T!MCHashAssumption
      BY TableFacts
    <2>2. NULL \in Nat /\ p \in Nat /\ c \in Nat /\ p \notin DOMAIN chart
      BY <1>1
    <2>3. T!Holds(u, chart, Nat)
      BY <1>1
    <2> QED BY <2>1, <2>2, <2>3, <1>6, T!InsertHolds, SMTT(60)
  <1>8. DOMAIN T!With(chart, p, c) \subseteq PortIds
    BY DEF T!With, Charts
  <1> QED BY <1>1, <1>7, <1>8, Inserts DEF Charts

-----------------------------------------------------------------------------
(* The pieces of a read.                                                   *)

(* A quotient is known by the remainder it leaves.                         *)
LEMMA Quotient ==
    ASSUME NEW p \in Nat \ {0}, NEW q \in Int, NEW r \in 0 .. p - 1
    PROVE  (p * q + r) \div p = q
  <1>1. PICK a \in Int : a = p * q + r
    OBVIOUS
  <1>2. PICK d \in Int, x \in Int : d = a \div p /\ x = a % p /\ x \in 0 .. p - 1
    BY <1>1
  <1>3. a = p * d + x
    BY <1>1, <1>2
  <1>4. PICK c \in Int : c = d - q
    OBVIOUS
  <1>5. p * c = r - x
    <2>1. p * c = p * d - p * q
      BY <1>2, <1>4
    <2>2. PICK y \in Int, z \in Int : y = p * d /\ z = p * q
      BY <1>2
    <2> QED BY <2>1, <2>2, <1>1, <1>2, <1>3
  <1>6. c = 0
    <2>1. c >= 1 => p * c >= p
      BY <1>4
    <2>2. c <= -1 => p * c <= -p
      BY <1>4
    <2> QED BY <2>1, <2>2, <1>2, <1>4, <1>5
  <1> QED BY <1>1, <1>2, <1>4, <1>6

(* How many pieces n bytes make.                                           *)
Count(n) == (n + Page - 1) \div Page

(* How the number of pieces grows with the bytes that are left.            *)
LEMMA Counting ==
    ASSUME NEW n \in Nat
    PROVE  /\ Count(n) \in Nat
           /\ n = 0 => Count(n) = 0
           /\ n > 0 /\ n <= Page => Count(n) = 1
           /\ n > Page => Count(n) = Count(n - Page) + 1 /\ Count(n - Page) \in Nat \ {0}
  <1>1. PICK p \in Nat \ {0} : p = Page
    BY VfsAssumption
  <1>2. ASSUME NEW m \in Nat
        PROVE  Count(m) \in Nat /\ \E r \in 0 .. p - 1 : m + p - 1 = p * Count(m) + r
    <2>1. PICK a \in Int : a = m + p - 1
      OBVIOUS
    <2>2. PICK d \in Int, r \in Int : d = a \div p /\ r = a % p /\ r \in 0 .. p - 1
      BY <2>1
    <2>3. a = p * d + r
      BY <2>1, <2>2
    <2>4. d <= -1 => p * d <= -p
      BY <2>2
    <2>5. d \in Nat
      BY <2>1, <2>2, <2>3, <2>4
    <2>6. d = Count(m)
      BY <1>1, <2>1, <2>2 DEF Count
    <2> QED BY <2>1, <2>2, <2>3, <2>5, <2>6
  <1>3. ASSUME NEW m \in Int, NEW q \in Int, NEW r \in 0 .. p - 1, m + p - 1 = p * q + r
        PROVE  Count(m) = q
    BY <1>1, <1>3, Quotient DEF Count
  <1>4. ASSUME n = 0 PROVE Count(n) = 0
    <2>1. n + p - 1 = p * 0 + (p - 1)
      BY <1>4
    <2> QED BY <2>1, <1>3
  <1>5. ASSUME n > 0, n <= Page PROVE Count(n) = 1
    <2>1. n + p - 1 = p * 1 + (n - 1) /\ n - 1 \in 0 .. p - 1
      BY <1>1, <1>5
    <2> QED BY <2>1, <1>3
  <1>6. ASSUME n > Page
        PROVE  Count(n) = Count(n - Page) + 1 /\ Count(n - Page) \in Nat \ {0}
    <2>1. PICK m \in Nat \ {0} : m = n - p
      BY <1>1, <1>6
    <2>2. PICK c \in Nat, r \in 0 .. p - 1 : c = Count(m) /\ m + p - 1 = p * c + r
      BY <1>2, <2>1
    <2>3. p * (c + 1) = p * c + p
      BY <2>2
    <2>4. PICK y \in Int : y = p * c
      BY <2>2
    <2>5. n + p - 1 = p * (c + 1) + r /\ c + 1 \in Int
      BY <2>1, <2>2, <2>3, <2>4
    <2>6. Count(n) = c + 1
      <3>1. PICK k \in Int : k = c + 1
        BY <2>2
      <3>2. n + p - 1 = p * k + r
        BY <2>5, <3>1
      <3>3. (p * k + r) \div p = k
        BY Quotient
      <3> QED BY <3>1, <3>2, <3>3, <1>1 DEF Count
    <2>7. c # 0
      <3>1. SUFFICES ASSUME c = 0 PROVE FALSE
        OBVIOUS
      <3>2. m + p - 1 = r
        BY <2>2, <3>1
      <3> QED BY <3>2, <2>1, <2>2
    <2> QED BY <1>1, <2>1, <2>2, <2>6, <2>7
  <1> QED BY <1>2, <1>4, <1>5, <1>6

(* Types.                                                                  *)
Names   == Files \cup {Missing, BootDir, RootDir, NoName}
Msgs    == [kind : {"res", "data"}, ok : BOOLEAN, val : Int, file : Names, from : Int]

(* The n pieces of left bytes.                                             *)
InPieces(msgs, left, n) ==
    \A i \in 1 .. n :
        /\ msgs[i].kind = "data" /\ msgs[i].file = msgs[1].file
        /\ msgs[i].from = msgs[1].from + (i - 1) * Page
        /\ msgs[i].val = IF i < n THEN Page ELSE left - (i - 1) * Page

(* The number of pieces of a reply.                                        *)
LEMMA CutIs ==
    \A msgs, left : CutInto(msgs, left)
                       <=> (Len(msgs) = Count(left) /\ InPieces(msgs, left, Len(msgs)))
  BY Zenon DEF CutInto, Count, InPieces

(* Nothing is cut from nothing.                                            *)
LEMMA NothingCut == CutInto(<<>>, 0)
  <1>1. Count(0) = 0
    BY Counting
  <1> QED BY <1>1, CutIs DEF InPieces

(* Taking a piece leaves the pieces of what is left.                       *)
LEMMA Cut ==
    ASSUME NEW msgs \in Seq(Msgs), NEW left \in Nat, CutInto(msgs, left)
    PROVE  /\ left = 0 => msgs = <<>>
           /\ left > 0 => msgs # <<>> /\ Head(msgs).kind = "data"
           /\ left > 0 /\ left <= Page => Tail(msgs) = <<>>
           /\ left > Page => CutInto(Tail(msgs), left - Page)
  <1>1. PICK n \in Nat : n = Len(msgs) /\ n = Count(left)
    BY Counting, CutIs
  <1>2. Page \in Nat \ {0}
    BY VfsAssumption
  <1>3. \A i \in 1 .. n :
           /\ msgs[i].kind = "data" /\ msgs[i].file = msgs[1].file
           /\ msgs[i].from = msgs[1].from + (i - 1) * Page
           /\ msgs[i].val = IF i < n THEN Page ELSE left - (i - 1) * Page
    BY <1>1, CutIs DEF InPieces
  <1>9. msgs \in Seq(Msgs) /\ Len(msgs) = n
    BY <1>1
  <1>10. /\ left = 0 => n = 0
         /\ left > 0 /\ left <= Page => n = 1
    BY <1>1, Counting
  <1>4. left = 0 => msgs = <<>>
    BY <1>9, <1>10, EmptySeq
  <1>5. left > 0 => n >= 1
    BY <1>1, <1>2, Counting
  <1>6. left > 0 => msgs # <<>> /\ Head(msgs).kind = "data"
    <2>1. SUFFICES ASSUME left > 0 PROVE msgs # <<>> /\ msgs[1].kind = "data"
      BY <1>9
    <2>2. 1 \in 1 .. n
      BY <2>1, <1>5
    <2> QED BY <2>2, <1>3, <1>9
  <1>7. left > 0 /\ left <= Page => Tail(msgs) = <<>>
    <2>1. SUFFICES ASSUME left > 0, left <= Page PROVE Tail(msgs) = <<>>
      OBVIOUS
    <2>2. Tail(msgs) \in Seq(Msgs) /\ Len(Tail(msgs)) = n - 1
      BY <2>1, <1>6, <1>9, HeadTailProperties
    <2>3. Len(Tail(msgs)) = 0
      BY <2>1, <2>2, <1>10
    <2> QED BY <2>2, <2>3, EmptySeq
  <1>8. ASSUME left > Page PROVE CutInto(Tail(msgs), left - Page)
    <2>1. PICK rest \in Seq(Msgs) : rest = Tail(msgs)
      <3>1. msgs # <<>>
        BY <1>6, <1>8, <1>2
      <3> QED BY <3>1, <1>9, HeadTailProperties
    <2>2. PICK m \in Nat : m = left - Page
      BY <1>2, <1>8
    <2>3. n = Count(m) + 1 /\ Count(m) \in Nat \ {0}
      BY <1>1, <1>8, <2>2, Counting
    <2>7. n \in Nat /\ n >= 2 /\ Count(m) = n - 1
      BY <2>3
    <2>4. Len(rest) = Count(m)
      BY <2>1, <2>7, <1>9
    <2>5. \A i \in 1 .. n - 1 : rest[i] = msgs[i + 1]
      BY <2>1, <2>7, <1>9
    <2>6. ASSUME NEW i \in 1 .. n - 1
          PROVE  /\ rest[i].kind = "data" /\ rest[i].file = rest[1].file
                 /\ rest[i].from = rest[1].from + (i - 1) * Page
                 /\ rest[i].val = IF i < n - 1 THEN Page ELSE m - (i - 1) * Page
      <3>1. 1 \in 1 .. n - 1 /\ 2 \in 1 .. n /\ i + 1 \in 1 .. n
        BY <2>3
      <3>2. rest[i] = msgs[i + 1] /\ rest[1] = msgs[2]
        BY <2>5, <3>1
      <3>3. PICK y \in Int : y = (i - 1) * Page
        BY <1>2
      <3>4. ((i + 1) - 1) * Page = y + Page /\ (2 - 1) * Page = Page
        BY <1>2, <3>3
      <3>5. /\ msgs[i + 1].kind = "data" /\ msgs[i + 1].file = msgs[1].file
            /\ msgs[i + 1].from = msgs[1].from + (y + Page)
            /\ msgs[i + 1].val = IF i + 1 < n THEN Page ELSE left - (y + Page)
        BY <1>3, <3>1, <3>4
      <3>6. msgs[2].file = msgs[1].file /\ msgs[2].from = msgs[1].from + Page
        BY <1>3, <3>1, <3>4
      <3>7. msgs[1].from \in Int
        <4>1. msgs[1] \in Msgs
          BY <1>9, <2>7
        <4> QED BY <4>1 DEF Msgs
      <3>8. msgs[i + 1].from = msgs[2].from + y
        <4>1. PICK b \in Int, c \in Int : b = msgs[1].from /\ c = Page
          BY <3>7, <1>2
        <4>2. msgs[i + 1].from = b + (y + c) /\ msgs[2].from = b + c
          BY <3>5, <3>6, <4>1
        <4> QED BY <4>2
      <3>9. msgs[i + 1].val = IF i < n - 1 THEN Page ELSE m - y
        BY <3>3, <3>5, <2>2, <1>2, <1>1
      <3> QED BY <3>2, <3>3, <3>5, <3>6, <3>8, <3>9, Zenon
    <2>8. InPieces(rest, m, n - 1)
      BY <2>6 DEF InPieces
    <2> QED BY <2>1, <2>2, <2>3, <2>4, <2>7, <2>8, CutIs
  <1> QED BY <1>4, <1>6, <1>7, <1>8

(* What a read sends is cut as its reader expects.                         *)
LEMMA PiecesCut ==
    ASSUME NEW f \in Names, NEW from \in Nat, NEW len \in Nat \ {0}
    PROVE  pieces(f, from, len) \in Seq(Msgs) /\ CutInto(pieces(f, from, len), len)
  <1>1. PICK n \in Nat : n = Count(len)
    BY Counting
  <1>2. Page \in Nat \ {0}
    BY VfsAssumption
  <1>3. PICK s : s = [i \in 1 .. n |-> data(f, from + (i - 1) * Page,
                                  IF i < n THEN Page ELSE len - (n - 1) * Page)]
    OBVIOUS
  <1>4. pieces(f, from, len) = s
    <2>1. (IF len = 0 THEN 1 ELSE (len + Page - 1) \div Page) = n
      BY <1>1 DEF Count
    <2> QED BY <2>1, <1>3, Zenon DEF pieces
  <1>5. ASSUME NEW i \in 1 .. n
        PROVE  /\ s[i] \in Msgs /\ s[i].kind = "data" /\ s[i].file = f
               /\ s[i].from = from + (i - 1) * Page
               /\ s[i].val = IF i < n THEN Page ELSE len - (i - 1) * Page
    <2>1. PICK x \in Int, y \in Int : x = (i - 1) * Page /\ y = (n - 1) * Page
      BY <1>2
    <2>2. s[i] = data(f, from + x, IF i < n THEN Page ELSE len - y)
      BY <1>3, <2>1
    <2>3. ~(i < n) => x = y
      <3>1. ~(i < n) => i = n
        OBVIOUS
      <3> QED BY <3>1, <2>1
    <2> QED BY <2>1, <2>2, <2>3, <1>2 DEF data, Msgs
  <1>6. s \in Seq(Msgs) /\ Len(s) = n
    BY <1>3, <1>5
  <1>7. s # <<>> => s[1].from = from
    <2>1. s # <<>> => 1 \in 1 .. n
      BY <1>6
    <2>2. (1 - 1) * Page = 0
      BY <1>2
    <2> QED BY <2>1, <2>2, <1>5
  <1>8. \A i \in 1 .. n : s # <<>> /\ s[1].file = f
    BY <1>5, <1>6
  <1>9. InPieces(s, len, n)
    BY <1>5, <1>7, <1>8 DEF InPieces
  <1> QED BY <1>1, <1>4, <1>6, <1>9, CutIs

-----------------------------------------------------------------------------
(* The inductive invariant.                                                *)

(* Types.                                                                  *)
Ofiles   == [vnode : Names, o_pos : Nat]
Clients  == [in : PortIds, nameptr : Programs, ofile : [Fds -> Ofiles]]
Reqs     == [cmd : Cmds, fd : Fds, count : Nat]
Mails    == [src : PortIds, area : Programs, cmd : Cmds, fd : Fds, count : Nat]
Held    == [srv_fd : Fds, file : Names, got : Nat]
Procs    == [state : {"off", "idle", "wait", "data", "ended"}, port : Nat, req : Reqs,
             left : Nat, calls : Nat, fds : [OwnFds -> Held], dirs : SUBSET Fds]

Types ==
    /\ client \in Seq(Clients) /\ name \in [Programs -> Names] /\ inq \in Seq(Mails)
    /\ srv \in [dst : Nat, left : Seq(Msgs)] /\ outq \in [PortIds -> Seq(Msgs)]
    /\ proc \in [Programs -> Procs]

(* The connections of program n, and whether a command of it waits.        *)
Conns(n) == {client[c] : c \in {x \in 1 .. Len(client) : client[x].in = proc[n].port}}
Mail(n)  == \E i \in 1 .. Len(inq) : inq[i].src = proc[n].port

(* Connection C serves the descriptors of program P, when owed bytes of    *)
(* the file that is read are still to come, and gone are closed already.   *)
Agrees(P, C, owed, gone) ==
    /\ \A i \in OwnFds : P.fds[i] # NoFd =>
          /\ P.fds[i].file \in Files
          /\ C.ofile[P.fds[i].srv_fd].vnode = P.fds[i].file
          /\ C.ofile[P.fds[i].srv_fd].o_pos
                = P.fds[i].got + (IF P.fds[i].srv_fd = P.req.fd THEN owed ELSE 0)
          /\ \A j \in OwnFds \ {i} : P.fds[j] # NoFd => P.fds[j].srv_fd # P.fds[i].srv_fd
    /\ \A d \in P.dirs \ gone : C.ofile[d].vnode \in {BootDir, RootDir}

(* Commands that a program gives.                                          *)
Legal(P, nm) ==
    /\ P.req.cmd = "VFS_READ" =>
          /\ P.req.count \in Nat \ {0}
          /\ \E i \in OwnFds : /\ P.fds[i] # NoFd /\ P.fds[i].srv_fd = P.req.fd
                               /\ P.fds[i].got < FileSize
    /\ P.req.cmd = "VFS_CLOSEDIR" => P.req.fd \in P.dirs
    /\ P.req.cmd = "VFS_OPENDIR" => nm # NoName

Owed(P, r) == IF P.req.cmd = "VFS_READ" THEN r.val ELSE 0
Gone(P)    == IF P.req.cmd = "VFS_CLOSEDIR" THEN {P.req.fd} ELSE {}

(* What is due answers the command of P, and C is what it was answered by. *)
Replied(P, C, nm, due) ==
    /\ due # <<>> /\ Head(due).kind = "res" /\ Head(due).val \in Nat
    /\ CutInto(Tail(due), Owed(P, Head(due)))
    /\ Agrees(P, C, Owed(P, Head(due)), Gone(P))
    /\ P.req.cmd = "VFS_OPEN" /\ Head(due).ok =>
          /\ nm \in Files /\ Head(due).val \in Fds
          /\ C.ofile[Head(due).val] = [vnode |-> nm, o_pos |-> 0]
          /\ \A i \in OwnFds : P.fds[i] # NoFd => P.fds[i].srv_fd # Head(due).val
    /\ P.req.cmd = "VFS_OPENDIR" /\ Head(due).ok =>
          Head(due).val \in Fds /\ C.ofile[Head(due).val].vnode \in {BootDir, RootDir}

(* A program P with name nm, to which due is on its way, of which a        *)
(* command waits or not, and whose connections are CS.                     *)
Phase(P, nm, due, mail, CS) ==
    /\ P.state = "idle" => /\ ~mail /\ due = <<>> /\ CS # {}
                           /\ \A C \in CS : Agrees(P, C, 0, {})
    /\ P.state = "data" => /\ ~mail /\ P.left > 0 /\ CutInto(due, P.left) /\ CS # {}
                           /\ \A C \in CS : Agrees(P, C, P.left, {})
    /\ P.state = "wait" => /\ mail => due = <<>> /\ Legal(P, nm)
                           /\ mail /\ P.req.cmd = "VFS_OPENCONN" =>
                                 CS = {} /\ P.dirs = {} /\ \A i \in OwnFds : P.fds[i] = NoFd
                           /\ mail /\ P.req.cmd # "VFS_OPENCONN" =>
                                 CS # {} /\ \A C \in CS : Agrees(P, C, 0, {})
                           /\ ~mail => CS # {} /\ \A C \in CS : Replied(P, C, nm, due)
PhaseOf(n) == Running(n) => Phase(proc[n], name[n], Due(n), Mail(n), Conns(n))

(* Every port is of one program, from when it starts.                      *)
OnePort ==
    /\ \A n \in Programs : IF proc[n].state = "off" THEN proc[n] = Off
                           ELSE proc[n].port \in PortIds
    /\ \A m, n \in Programs : proc[m].state # "off" /\ proc[n].state # "off"
                                 /\ proc[m].port = proc[n].port => m = n
    /\ \A c \in 1 .. Len(client) : /\ proc[client[c].nameptr].state # "off"
                                   /\ proc[client[c].nameptr].port = client[c].in

(* The message that program n sent last.                                   *)
Asking(n) == [src |-> proc[n].port, area |-> n, cmd |-> proc[n].req.cmd,
              fd |-> proc[n].req.fd, count |-> proc[n].req.count]
MailSound ==
    /\ \A i \in 1 .. Len(inq) : \E n \in Programs : proc[n].state = "wait" /\ inq[i] = Asking(n)
    /\ \A i, j \in 1 .. Len(inq) : inq[i].src = inq[j].src => i = j
    /\ srv.left # <<>> => \E n \in Programs : Running(n) /\ proc[n].port = srv.dst


(* Nothing waits in a port that no program has.                            *)
Drained ==
    \A p \in PortIds : (\A n \in Programs : Running(n) => proc[n].port # p) => outq[p] = <<>>

(* The server's table leads from each port to its connection.              *)
Charted ==
    \E chart : /\ Charts(conn, chart)
               /\ DOMAIN chart = {client[c].in : c \in 1 .. Len(client)}
               /\ \A c \in 1 .. Len(client) : chart[client[c].in] = c

VfsInv == /\ Types /\ (\A n \in Programs : PhaseOf(n))
          /\ OnePort /\ MailSound /\ Drained /\ Charted

-----------------------------------------------------------------------------
(* What the server answers.                                                *)

(* The least of some naturals is one of them.                              *)
LEMMA LeastIs == \A S \in SUBSET Nat : S # {} => Least(S) \in S
  <1>1. SUFFICES ASSUME NEW S \in SUBSET Nat, S # {}
                 PROVE  Least(S) \in S
    OBVIOUS
  <1>2. \E x \in S : \A y \in S : x <= y
    BY <1>1, TableFacts, T!LeastNatural
  <1> QED BY <1>2 DEF Least

(* What the names and the sizes are.                                       *)
LEMMA Constants ==
    /\ FileSize \in Nat \ {0} /\ Page \in Nat \ {0} /\ MAX_FDS \in Nat \ {0}
    /\ 0 \in Fds /\ Fds \subseteq Nat /\ OwnFds \subseteq Nat /\ PortIds \subseteq Nat
    /\ NoName \notin Files /\ NoName # BootDir /\ NoName # RootDir /\ NoName # Missing
    /\ Missing \notin Files /\ BootDir \notin Files /\ RootDir \notin Files
    /\ Counts \subseteq Nat \ {0}
  BY VfsAssumption DEF Fds

(* A reply of one message.                                                 *)
LEMMA OneReply ==
    ASSUME NEW P \in Procs, NEW C \in Clients, NEW nm, NEW ok \in BOOLEAN, NEW val \in Nat,
           P.req.cmd = "VFS_READ" => val = 0, Agrees(P, C, 0, Gone(P)),
           P.req.cmd = "VFS_OPEN" /\ ok =>
              /\ nm \in Files /\ val \in Fds
              /\ C.ofile[val] = [vnode |-> nm, o_pos |-> 0]
              /\ \A i \in OwnFds : P.fds[i] # NoFd => P.fds[i].srv_fd # val,
           P.req.cmd = "VFS_OPENDIR" /\ ok =>
              val \in Fds /\ C.ofile[val].vnode \in {BootDir, RootDir}
    PROVE  <<res(ok, val)>> \in Seq(Msgs) /\ Replied(P, C, nm, <<res(ok, val)>>)
  <1>1. PICK r : r = res(ok, val)
    OBVIOUS
  <1>2. r \in Msgs /\ r.kind = "res" /\ r.ok = ok /\ r.val = val
    BY <1>1 DEF res, Msgs, Names
  <1>3. PICK s : s = <<r>>
    OBVIOUS
  <1>4. s \in Seq(Msgs) /\ s # <<>> /\ Head(s) = r /\ Tail(s) = <<>>
    BY <1>2, <1>3
  <1>5. Owed(P, r) = 0
    BY <1>2 DEF Owed
  <1>6. CutInto(Tail(s), Owed(P, Head(s))) /\ Agrees(P, C, Owed(P, Head(s)), Gone(P))
    BY <1>4, <1>5, NothingCut
  <1> QED BY <1>1, <1>2, <1>3, <1>4, <1>6 DEF Replied

(* What is closed may be forgotten.                                        *)
LEMMA AgreesLess ==
    ASSUME NEW P, NEW C, NEW owed, NEW gone, Agrees(P, C, owed, {})
    PROVE  Agrees(P, C, owed, gone)
  BY DEF Agrees

(* A failed reply, ...                                                     *)
LEMMA Failed ==
    ASSUME NEW P \in Procs, NEW C \in Clients, NEW nm, Agrees(P, C, 0, {})
    PROVE  <<res(FALSE, 0)>> \in Seq(Msgs) /\ Replied(P, C, nm, <<res(FALSE, 0)>>)
  <1>1. Agrees(P, C, 0, Gone(P))
    BY AgreesLess
  <1> QED BY <1>1, OneReply, Zenon

(* The answer a to the command of program P, which connection C gives.     *)
Answers(P, C, nm, a) ==
    /\ a.client \in Clients /\ a.client.in = C.in /\ a.client.nameptr = C.nameptr
    /\ a.msgs \in Seq(Msgs) /\ Replied(P, a.client, nm, a.msgs)

(* ... which leaves the connection as it was.                              *)
LEMMA FailAnswers ==
    ASSUME NEW P \in Procs, NEW C \in Clients, NEW nm, Agrees(P, C, 0, {})
    PROVE  Answers(P, C, nm, Fail(C))
  BY Failed DEF Answers, Fail, Answer

(* A descriptor that is taken was not that of a file that P has open.      *)
LEMMA Opened ==
    ASSUME NEW P \in Procs, NEW C \in Clients, Agrees(P, C, 0, {}), FreeFds(C) # {},
           NEW path \in Names
    PROVE  \E fd \in Fds, D \in Clients :
              /\ fd = Least(FreeFds(C)) /\ D = OpenAs(C, fd, path)
              /\ D.in = C.in /\ D.nameptr = C.nameptr
              /\ D.ofile[fd] = [vnode |-> path, o_pos |-> 0]
              /\ \A i \in OwnFds : P.fds[i] # NoFd => P.fds[i].srv_fd # fd
              /\ Agrees(P, D, 0, {})
  <1>1. PICK fd : fd = Least(FreeFds(C))
    OBVIOUS
  <1>2. fd \in Fds /\ C.ofile[fd] = NoOfile
    <2>1. FreeFds(C) \in SUBSET Nat
      BY Constants DEF FreeFds
    <2> QED BY <2>1, <1>1, LeastIs DEF FreeFds
  <1>3. C.ofile \in [Fds -> Ofiles] /\ C.in \in PortIds /\ C.nameptr \in Programs
    BY DEF Clients
  <1>4. PICK o : o = [C.ofile EXCEPT ![fd] = [vnode |-> path, o_pos |-> 0]]
    OBVIOUS
  <1>5. /\ o \in [Fds -> Ofiles] /\ o[fd] = [vnode |-> path, o_pos |-> 0]
        /\ \A e \in Fds \ {fd} : o[e] = C.ofile[e]
    BY <1>2, <1>3, <1>4 DEF Ofiles
  <1>6. PICK D : D = OpenAs(C, fd, path)
    OBVIOUS
  <1>7. D \in Clients /\ D.in = C.in /\ D.nameptr = C.nameptr /\ D.ofile = o
    BY <1>3, <1>4, <1>5, <1>6 DEF OpenAs, Clients
  <1>8. NoOfile.vnode = NoName
    BY DEF NoOfile
  <1>9. ASSUME NEW i \in OwnFds, P.fds[i] # NoFd
        PROVE  P.fds[i].srv_fd \in Fds \ {fd}
    <2>1. P.fds[i].srv_fd \in Fds
      BY DEF Procs, Held
    <2>2. C.ofile[P.fds[i].srv_fd].vnode \in Files
      BY <1>9 DEF Agrees
    <2> QED BY <2>1, <2>2, <1>2, <1>8, Constants
  <1>10. ASSUME NEW e \in P.dirs
         PROVE  e \in Fds \ {fd}
    <2>1. e \in Fds
      BY DEF Procs
    <2>2. C.ofile[e].vnode \in {BootDir, RootDir}
      BY DEF Agrees
    <2> QED BY <2>1, <2>2, <1>2, <1>8, Constants
  <1>11. Agrees(P, D, 0, {})
    BY <1>5, <1>7, <1>9, <1>10 DEF Agrees
  <1> QED BY <1>1, <1>2, <1>5, <1>6, <1>7, <1>9, <1>11

(* Program P asks with q for what connection C serves.                     *)
Asks(P, C, nm, q) ==
    /\ P \in Procs /\ C \in Clients /\ nm \in Names /\ nm = name[C.nameptr]
    /\ q.cmd = P.req.cmd /\ q.fd = P.req.fd /\ q.count = P.req.count
    /\ Legal(P, nm) /\ Agrees(P, C, 0, {})

(* What makes an answer of the connection D and the messages msgs.         *)
LEMMA GivesAnswer ==
    ASSUME NEW P, NEW C \in Clients, NEW nm, NEW D \in Clients, NEW msgs \in Seq(Msgs),
           D.in = C.in, D.nameptr = C.nameptr, Replied(P, D, nm, msgs)
    PROVE  Answers(P, C, nm, Answer(D, msgs))
  <1>1. PICK a : a = Answer(D, msgs)
    OBVIOUS
  <1>2. a.client = D /\ a.msgs = msgs
    BY <1>1 DEF Answer
  <1> QED BY <1>1, <1>2 DEF Answers

(* vfs.c:221-283: an open gives a descriptor for the name.                 *)
LEMMA OpenAnswers ==
    ASSUME NEW P, NEW C, NEW nm, NEW q, Asks(P, C, nm, q), q.cmd = "VFS_OPEN"
    PROVE  Answers(P, C, nm, vfs_open(C, q))
  <1>1. /\ P \in Procs /\ C \in Clients /\ nm \in Names /\ nm = name[C.nameptr]
        /\ Agrees(P, C, 0, {}) /\ P.req.cmd = "VFS_OPEN"
    BY DEF Asks
  <1>2. CASE FreeFds(C) = {} \/ ~Has(nm, "open") \/ ~Walks(nm)
    <2>1. vfs_open(C, q) = Fail(C)
      BY <1>1, <1>2, Zenon DEF vfs_open
    <2> QED BY <2>1, <1>1, FailAnswers
  <1>3. CASE ~(FreeFds(C) = {} \/ ~Has(nm, "open") \/ ~Walks(nm))
    <2>1. FreeFds(C) # {} /\ nm \in Files
      BY <1>3 DEF Walks
    <2>2. PICK fd \in Fds, D \in Clients :
             /\ fd = Least(FreeFds(C)) /\ D = OpenAs(C, fd, nm)
             /\ D.in = C.in /\ D.nameptr = C.nameptr
             /\ D.ofile[fd] = [vnode |-> nm, o_pos |-> 0]
             /\ \A i \in OwnFds : P.fds[i] # NoFd => P.fds[i].srv_fd # fd
             /\ Agrees(P, D, 0, {})
      BY <2>1, <1>1, Opened
    <2>3. vfs_open(C, q) = Answer(D, <<res(TRUE, fd)>>)
      BY <1>1, <1>3, <2>2, Zenon DEF vfs_open
    <2>4. <<res(TRUE, fd)>> \in Seq(Msgs) /\ Replied(P, D, nm, <<res(TRUE, fd)>>)
      <3>1. Agrees(P, D, 0, Gone(P)) /\ fd \in Nat
        BY <2>2, AgreesLess, Constants
      <3> QED BY <3>1, <2>1, <2>2, <1>1, OneReply
    <2> QED BY <2>2, <2>3, <2>4, <1>1, GivesAnswer
  <1> QED BY <1>2, <1>3

(* vfs.c:106-179: so does that of a directory, for what is one.            *)
LEMMA OpendirAnswers ==
    ASSUME NEW P, NEW C, NEW nm, NEW q, Asks(P, C, nm, q), q.cmd = "VFS_OPENDIR"
    PROVE  Answers(P, C, nm, vfs_opendir(C, q))
  <1>1. /\ P \in Procs /\ C \in Clients /\ nm \in Names /\ nm = name[C.nameptr]
        /\ Agrees(P, C, 0, {}) /\ P.req.cmd = "VFS_OPENDIR" /\ nm # NoName
    BY DEF Asks, Legal
  <1>2. CASE FreeFds(C) = {} \/ nm = Missing
    <2>1. vfs_opendir(C, q) = Fail(C)
      BY <1>1, <1>2, Zenon DEF vfs_opendir
    <2> QED BY <2>1, <1>1, FailAnswers
  <1>3. CASE ~(FreeFds(C) = {} \/ nm = Missing)
    <2>2. PICK fd \in Fds, D \in Clients :
             /\ fd = Least(FreeFds(C)) /\ D = OpenAs(C, fd, nm)
             /\ D.in = C.in /\ D.nameptr = C.nameptr
             /\ D.ofile[fd] = [vnode |-> nm, o_pos |-> 0]
             /\ \A i \in OwnFds : P.fds[i] # NoFd => P.fds[i].srv_fd # fd
             /\ Agrees(P, D, 0, {})
      BY <1>1, <1>3, Opened
    <2>3. PICK ok \in BOOLEAN : ok = (nm \notin Files)
      OBVIOUS
    <2>4. vfs_opendir(C, q) = Answer(D, <<res(ok, fd)>>)
      BY <1>1, <1>3, <2>2, <2>3, Zenon DEF vfs_opendir
    <2>5. ok => D.ofile[fd].vnode \in {BootDir, RootDir}
      <3>1. nm \notin Files => nm \in {BootDir, RootDir}
        BY <1>1, <1>3 DEF Names
      <3>2. D.ofile[fd].vnode = nm
        BY <2>2
      <3> QED BY <3>1, <3>2, <2>3
    <2>6. <<res(ok, fd)>> \in Seq(Msgs) /\ Replied(P, D, nm, <<res(ok, fd)>>)
      <3>1. Agrees(P, D, 0, Gone(P)) /\ fd \in Nat
        BY <2>2, AgreesLess, Constants
      <3> QED BY <3>1, <2>2, <2>5, <1>1, OneReply
    <2> QED BY <2>2, <2>4, <2>6, <1>1, GivesAnswer
  <1> QED BY <1>2, <1>3

(* vfs.c:181-219: a directory is closed on both sides.                     *)
LEMMA ClosedirAnswers ==
    ASSUME NEW P, NEW C, NEW nm, NEW q, Asks(P, C, nm, q), q.cmd = "VFS_CLOSEDIR"
    PROVE  Answers(P, C, nm, vfs_closedir(C, q))
  <1>1. /\ P \in Procs /\ C \in Clients /\ Agrees(P, C, 0, {})
        /\ P.req.cmd = "VFS_CLOSEDIR" /\ q.fd = P.req.fd /\ q.fd \in P.dirs
    BY DEF Asks, Legal
  <1>2. CASE C.ofile[q.fd] = NoOfile
    <2>1. vfs_closedir(C, q) = Fail(C)
      BY <1>2, Zenon DEF vfs_closedir
    <2> QED BY <2>1, <1>1, FailAnswers
  <1>3. CASE C.ofile[q.fd] # NoOfile
    <2>1. PICK fd \in Fds : fd = q.fd
      BY <1>1 DEF Procs
    <2>2. C.ofile \in [Fds -> Ofiles] /\ C.in \in PortIds /\ C.nameptr \in Programs
      BY <1>1 DEF Clients
    <2>3. PICK o : o = [C.ofile EXCEPT ![fd] = NoOfile]
      OBVIOUS
    <2>4. NoOfile \in Ofiles
      BY DEF NoOfile, Ofiles, Names
    <2>5. o \in [Fds -> Ofiles] /\ \A e \in Fds \ {fd} : o[e] = C.ofile[e]
      BY <2>1, <2>2, <2>3, <2>4
    <2>6. PICK D : D = [C EXCEPT !.ofile[q.fd] = NoOfile]
      OBVIOUS
    <2>7. D \in Clients /\ D.in = C.in /\ D.nameptr = C.nameptr /\ D.ofile = o
      BY <1>1, <2>1, <2>2, <2>3, <2>5, <2>6 DEF Clients
    <2>8. vfs_closedir(C, q) = Answer(D, <<res(TRUE, 0)>>)
      BY <1>3, <2>6, Zenon DEF vfs_closedir
    <2>9. C.ofile[fd].vnode \in {BootDir, RootDir}
      BY <1>1, <2>1 DEF Agrees
    <2>10. ASSUME NEW i \in OwnFds, P.fds[i] # NoFd
           PROVE  P.fds[i].srv_fd \in Fds \ {fd}
      <3>1. P.fds[i].srv_fd \in Fds
        BY <1>1 DEF Procs, Held
      <3>2. C.ofile[P.fds[i].srv_fd].vnode \in Files
        BY <1>1, <2>10 DEF Agrees
      <3> QED BY <3>1, <3>2, <2>9, Constants
    <2>11. P.dirs \in SUBSET Fds
      BY <1>1 DEF Procs
    <2>12. Agrees(P, D, 0, {fd})
      BY <1>1, <2>5, <2>7, <2>10, <2>11 DEF Agrees
    <2>13. Agrees(P, D, 0, Gone(P))
      BY <1>1, <2>1, <2>12 DEF Gone
    <2>14. <<res(TRUE, 0)>> \in Seq(Msgs) /\ Replied(P, D, nm, <<res(TRUE, 0)>>)
      BY <1>1, <2>7, <2>13, OneReply
    <2> QED BY <2>7, <2>8, <2>14, <1>1, GivesAnswer
  <1> QED BY <1>2, <1>3

(* vfs.c:285-318: a file is closed at the program's side only.             *)
LEMMA CloseAnswers ==
    ASSUME NEW P, NEW C, NEW nm, NEW q, Asks(P, C, nm, q), q.cmd = "VFS_CLOSE"
    PROVE  Answers(P, C, nm, vfs_close(C, q))
  <1>1. P \in Procs /\ C \in Clients /\ Agrees(P, C, 0, {}) /\ P.req.cmd = "VFS_CLOSE"
    BY DEF Asks
  <1>2. CASE C.ofile[q.fd] = NoOfile
    <2>1. vfs_close(C, q) = Fail(C)
      BY <1>2, Zenon DEF vfs_close
    <2> QED BY <2>1, <1>1, FailAnswers
  <1>3. CASE C.ofile[q.fd] # NoOfile
    <2>1. vfs_close(C, q) = Answer(C, <<res(TRUE, 0)>>)
      BY <1>3, Zenon DEF vfs_close
    <2>2. <<res(TRUE, 0)>> \in Seq(Msgs) /\ Replied(P, C, nm, <<res(TRUE, 0)>>)
      <3>1. Agrees(P, C, 0, Gone(P))
        BY <1>1, AgreesLess
      <3> QED BY <3>1, <1>1, OneReply
    <2> QED BY <2>1, <2>2, <1>1, GivesAnswer
  <1> QED BY <1>2, <1>3

(* vfs.c:359-403: a name is looked up.                                     *)
LEMMA RstatAnswers ==
    ASSUME NEW P, NEW C, NEW nm, NEW q, Asks(P, C, nm, q), q.cmd = "VFS_RSTAT"
    PROVE  Answers(P, C, nm, vfs_rstat(C, q))
  <1>1. /\ P \in Procs /\ C \in Clients /\ Agrees(P, C, 0, {}) /\ P.req.cmd = "VFS_RSTAT"
        /\ nm = name[C.nameptr]
    BY DEF Asks
  <1>2. PICK ok \in BOOLEAN : ok = (Has(nm, "rstat") /\ Walks(nm))
    OBVIOUS
  <1>3. vfs_rstat(C, q) = Answer(C, <<res(ok, 0)>>)
    BY <1>1, <1>2, Zenon DEF vfs_rstat
  <1>4. <<res(ok, 0)>> \in Seq(Msgs) /\ Replied(P, C, nm, <<res(ok, 0)>>)
    <2>1. Agrees(P, C, 0, Gone(P))
      BY <1>1, AgreesLess
    <2> QED BY <2>1, <1>1, OneReply
  <1> QED BY <1>1, <1>3, <1>4, GivesAnswer

(* vfs.c:83-104: none of its results is what libposix takes for success.   *)
LEMMA MkdirAnswers ==
    ASSUME NEW P, NEW C, NEW nm, NEW q, Asks(P, C, nm, q)
    PROVE  Answers(P, C, nm, vfs_mkdir(C, q))
  <1>1. P \in Procs /\ C \in Clients /\ Agrees(P, C, 0, {})
    BY DEF Asks
  <1> QED BY <1>1, FailAnswers DEF vfs_mkdir

(* A message before others.                                                *)
LEMMA Before ==
    ASSUME NEW S, NEW r \in S, NEW s \in Seq(S)
    PROVE  \E z \in Seq(S) : /\ z = <<r>> \o s /\ z # <<>> /\ Head(z) = r /\ Tail(z) = s
  <1>1. <<r>> \in Seq(S) /\ Len(<<r>>) = 1 /\ <<r>>[1] = r
    OBVIOUS
  <1>2. PICK z \in Seq(S) : z = <<r>> \o s
    BY <1>1, ConcatProperties
  <1>7. /\ Len(z) = Len(s) + 1 /\ Len(s) \in Nat
        /\ \A i \in 1 .. Len(s) + 1 : z[i] = IF i <= 1 THEN r ELSE s[i - 1]
    <2>1. /\ Len(z) = Len(<<r>>) + Len(s)
          /\ \A i \in 1 .. Len(<<r>>) + Len(s) :
                z[i] = IF i <= Len(<<r>>) THEN <<r>>[i] ELSE s[i - Len(<<r>>)]
      BY <1>1, <1>2, ConcatProperties
    <2>2. Len(s) \in Nat /\ 1 + Len(s) = Len(s) + 1
      BY LenProperties
    <2>3. \A i \in 1 .. 1 + Len(s) : i <= 1 => i = 1
      OBVIOUS
    <2> QED BY <2>1, <2>2, <2>3, <1>1
  <1>3. z # <<>> /\ Head(z) = r
    BY <1>7
  <1>4. Tail(z) \in Seq(S) /\ Len(Tail(z)) = Len(s)
        /\ \A i \in 1 .. Len(s) : Tail(z)[i] = z[i + 1]
    BY <1>7, <1>3, HeadTailProperties
  <1>5. \A i \in 1 .. Len(s) : Tail(z)[i] = s[i]
    BY <1>7, <1>4
  <1>6. Tail(z) = s
    BY <1>4, <1>5, SeqEqual
  <1> QED BY <1>2, <1>3, <1>6

(* bootfs_read() gives something before the end of the file.               *)
LEMMA ReadSome ==
    ASSUME NEW pos \in Nat, pos < FileSize, NEW count \in Nat \ {0}
    PROVE  bootfs_read(pos, count) \in Nat \ {0}
  BY Constants DEF bootfs_read

(* vfs.c:320-357: a read moves the position over what it sends.            *)
LEMMA ReadAnswers ==
    ASSUME NEW P, NEW C, NEW nm, NEW q, Asks(P, C, nm, q), q.cmd = "VFS_READ"
    PROVE  Answers(P, C, nm, vfs_read(C, q))
  <1>1. /\ P \in Procs /\ C \in Clients /\ Agrees(P, C, 0, {})
        /\ P.req.cmd = "VFS_READ" /\ q.fd = P.req.fd /\ q.count = P.req.count
        /\ q.count \in Nat \ {0}
    BY DEF Asks, Legal
  <1>2. PICK h \in OwnFds : P.fds[h] # NoFd /\ P.fds[h].srv_fd = q.fd /\ P.fds[h].got < FileSize
    BY DEF Asks, Legal
  <1>3. PICK fd \in Fds : fd = q.fd
    BY <1>1 DEF Procs, Reqs
  <1>4. C.ofile \in [Fds -> Ofiles] /\ C.in \in PortIds /\ C.nameptr \in Programs
    BY <1>1 DEF Clients
  <1>5. PICK o : o = C.ofile[fd]
    OBVIOUS
  <1>6. PICK f, pos : f = o.vnode /\ pos = o.o_pos
    OBVIOUS
  <1>7. o \in Ofiles /\ o = [vnode |-> f, o_pos |-> pos] /\ f \in Names /\ pos \in Nat
    BY <1>3, <1>4, <1>5, <1>6 DEF Ofiles
  <1>8. f \in Files /\ pos < FileSize
    <2>1. /\ f \in Files
          /\ pos = P.fds[h].got + (IF P.fds[h].srv_fd = P.req.fd THEN 0 ELSE 0)
      BY <1>1, <1>2, <1>3, <1>5, <1>6 DEF Agrees
    <2>2. P.fds[h].got \in Nat
      BY <1>1, <1>2 DEF Procs, Held
    <2> QED BY <2>1, <2>2, <1>2
  <1>9. o # NoOfile
    BY <1>6, <1>8, Constants DEF NoOfile
  <1>10. PICK len \in Nat \ {0} : len = bootfs_read(pos, q.count)
    BY <1>1, <1>7, <1>8, ReadSome
  <1>11. PICK w : w = [C.ofile EXCEPT ![fd] = [vnode |-> f, o_pos |-> pos + len]]
    OBVIOUS
  <1>12. /\ w \in [Fds -> Ofiles] /\ w[fd].vnode = f /\ w[fd].o_pos = pos + len
         /\ \A e \in Fds \ {fd} : w[e] = C.ofile[e]
    BY <1>3, <1>4, <1>7, <1>10, <1>11 DEF Ofiles
  <1>13. PICK D : D = [C EXCEPT !.ofile[q.fd].o_pos = @ + len]
    OBVIOUS
  <1>14. D \in Clients /\ D.in = C.in /\ D.nameptr = C.nameptr /\ D.ofile = w
    <2>1. [o EXCEPT !.o_pos = @ + len] = [vnode |-> f, o_pos |-> pos + len]
      BY <1>7
    <2>2. D = [C EXCEPT !.ofile = w]
      BY <1>1, <1>3, <1>4, <1>5, <1>11, <1>13, <2>1 DEF Clients
    <2> QED BY <2>2, <1>1, <1>4, <1>12 DEF Clients
  <1>15. PICK s \in Seq(Msgs) : s = pieces(f, pos, len) /\ CutInto(s, len)
    BY <1>7, <1>10, PiecesCut
  <1>22. PICK r : r = res(TRUE, len)
    OBVIOUS
  <1>16. r \in Msgs /\ r.kind = "res" /\ r.val = len
    <2>1. NoName \in Names /\ len \in Int /\ 0 \in Int
      BY <1>10 DEF Names
    <2> QED BY <2>1, <1>22 DEF res, Msgs
  <1>17. PICK z \in Seq(Msgs) : z = <<r>> \o s /\ z # <<>> /\ Head(z) = r /\ Tail(z) = s
    <2>1. s \in Seq(Msgs) /\ r \in Msgs
      BY <1>15, <1>16
    <2> HIDE DEF Msgs
    <2> QED BY <2>1, Before
  <1>18. vfs_read(C, q) = Answer(D, z)
    BY <1>3, <1>5, <1>6, <1>9, <1>10, <1>13, <1>15, <1>22, <1>17, Zenon DEF vfs_read
  <1>19. Agrees(P, D, len, {})
    <2>1. ASSUME NEW i \in OwnFds, P.fds[i] # NoFd
          PROVE  /\ P.fds[i].file \in Files /\ w[P.fds[i].srv_fd].vnode = P.fds[i].file
                 /\ w[P.fds[i].srv_fd].o_pos
                       = P.fds[i].got + (IF P.fds[i].srv_fd = P.req.fd THEN len ELSE 0)
                 /\ \A j \in OwnFds \ {i} :
                       P.fds[j] # NoFd => P.fds[j].srv_fd # P.fds[i].srv_fd
      <3>1. P.fds[i].srv_fd \in Fds /\ P.fds[i].got \in Nat
        BY <1>1 DEF Procs, Held
      <3>2. /\ P.fds[i].file \in Files /\ C.ofile[P.fds[i].srv_fd].vnode = P.fds[i].file
            /\ C.ofile[P.fds[i].srv_fd].o_pos = P.fds[i].got
            /\ \A j \in OwnFds \ {i} : P.fds[j] # NoFd => P.fds[j].srv_fd # P.fds[i].srv_fd
        BY <1>1, <2>1, <3>1 DEF Agrees
      <3>3. CASE P.fds[i].srv_fd = fd
        BY <3>1, <3>2, <3>3, <1>1, <1>3, <1>5, <1>6, <1>12
      <3>4. CASE P.fds[i].srv_fd # fd
        BY <3>1, <3>2, <3>4, <1>1, <1>3, <1>12
      <3> QED BY <3>3, <3>4
    <2>2. ASSUME NEW d \in P.dirs
          PROVE  w[d].vnode \in {BootDir, RootDir}
      <3>1. d \in Fds /\ C.ofile[d].vnode \in {BootDir, RootDir}
        BY <1>1 DEF Procs, Agrees
      <3> QED BY <3>1, <1>5, <1>6, <1>12
    <2> QED BY <2>1, <2>2, <1>14 DEF Agrees
  <1>20. Owed(P, r) = len /\ Gone(P) = {}
    BY <1>1, <1>16 DEF Owed, Gone
  <1>21. Replied(P, D, nm, z)
    BY <1>1, <1>10, <1>15, <1>16, <1>17, <1>19, <1>20 DEF Replied
  <1> QED BY <1>1, <1>14, <1>18, <1>21, GivesAnswer

(* vfs_main(), vfs.c:574-621: whatever the command.                        *)
LEMMA HandleAnswers ==
    ASSUME NEW P, NEW C, NEW nm, NEW q, Asks(P, C, nm, q), q.cmd # "VFS_OPENCONN"
    PROVE  Answers(P, C, nm, handle(C, q))
  <1>1. q.cmd \in Cmds \ {"VFS_OPENCONN"}
    BY DEF Asks, Procs, Reqs
  <1>2. CASE q.cmd = "VFS_OPEN"
    <2>1. handle(C, q) = vfs_open(C, q)
      BY <1>2 DEF handle
    <2> QED BY <2>1, <1>2, OpenAnswers
  <1>3. CASE q.cmd = "VFS_OPENDIR"
    <2>1. handle(C, q) = vfs_opendir(C, q)
      BY <1>3 DEF handle
    <2> QED BY <2>1, <1>3, OpendirAnswers
  <1>4. CASE q.cmd = "VFS_CLOSEDIR"
    <2>1. handle(C, q) = vfs_closedir(C, q)
      BY <1>4 DEF handle
    <2> QED BY <2>1, <1>4, ClosedirAnswers
  <1>5. CASE q.cmd = "VFS_CLOSE"
    <2>1. handle(C, q) = vfs_close(C, q)
      BY <1>5 DEF handle
    <2> QED BY <2>1, <1>5, CloseAnswers
  <1>6. CASE q.cmd = "VFS_READ"
    <2>1. handle(C, q) = vfs_read(C, q)
      BY <1>6 DEF handle
    <2> QED BY <2>1, <1>6, ReadAnswers
  <1>7. CASE q.cmd = "VFS_RSTAT"
    <2>1. handle(C, q) = vfs_rstat(C, q)
      BY <1>7 DEF handle
    <2> QED BY <2>1, <1>7, RstatAnswers
  <1>8. CASE q.cmd = "VFS_MKDIR"
    <2>1. handle(C, q) = vfs_mkdir(C, q)
      BY <1>8 DEF handle
    <2> QED BY <2>1, MkdirAnswers
  <1> QED BY <1>1, <1>2, <1>3, <1>4, <1>5, <1>6, <1>7, <1>8 DEF Cmds

-----------------------------------------------------------------------------
(* What a step leaves alone.                                               *)

(* A program whose part of the state is what it was.                       *)
Untouched(m) ==
    /\ proc'[m] = proc[m] /\ name'[m] = name[m]
    /\ Running(m) => Due(m)' = Due(m) /\ Mail(m)' = Mail(m) /\ Conns(m)' = Conns(m)

(* It stays in its phase.                                                  *)
LEMMA PhaseKept == \A m : PhaseOf(m) /\ Untouched(m) => PhaseOf(m)'
  BY Zenon DEF PhaseOf, Untouched, Running

(* The connections, when a step leaves them alone.                         *)
LEMMA ConnsKept ==
    ASSUME UNCHANGED <<conn, client>>
    PROVE  /\ Charted => Charted'
           /\ \A m : proc'[m].port = proc[m].port => Conns(m)' = Conns(m)
  <1>1. Charted => Charted'
    BY DEF Charted, Charts
  <1>2. ASSUME NEW m, proc'[m].port = proc[m].port
        PROVE  Conns(m)' = Conns(m)
    BY <1>2 DEF Conns
  <1> QED BY <1>1, <1>2

(* The programs start with nothing.                                        *)
LEMMA Start == Init => VfsInv
  <1> SUFFICES ASSUME Init PROVE VfsInv
    OBVIOUS
  <1>1. /\ conn = hashtable_new /\ client = <<>> /\ inq = <<>>
        /\ name = [n \in Programs |-> NoName] /\ srv = [dst |-> 0, left |-> <<>>]
        /\ outq = [p \in PortIds |-> <<>>] /\ proc = [n \in Programs |-> Off]
    BY DEF Init
  <1>2. \A n \in Programs : proc[n] = Off
    BY <1>1
  <1>3. Off.state = "off"
    BY DEF Off
  <1>4. Off \in Procs
    <2>1. NoFd \in Held /\ NoReq \in Reqs
      BY Constants DEF NoFd, NoReq, Held, Reqs, Names, Cmds
    <2>2. [i \in OwnFds |-> NoFd] \in [OwnFds -> Held]
      BY <2>1
    <2> QED BY <2>1, <2>2 DEF Off, Procs
  <1>5. Types
    <2>1. <<>> \in Seq(Clients) /\ <<>> \in Seq(Mails) /\ <<>> \in Seq(Msgs)
      BY EmptySeq
    <2>2. proc \in [Programs -> Procs]
      BY <1>1, <1>4
    <2>3. name \in [Programs -> Names]
      BY <1>1 DEF Names
    <2>4. outq \in [PortIds -> Seq(Msgs)] /\ srv \in [dst : Nat, left : Seq(Msgs)]
      BY <1>1, <2>1
    <2> QED BY <1>1, <2>1, <2>2, <2>3, <2>4 DEF Types
  <1>6. \A n \in Programs : ~Running(n)
    BY <1>2, <1>3 DEF Running
  <1>7. Len(client) = 0 /\ Len(inq) = 0
    BY <1>1
  <1>8. OnePort
    BY <1>2, <1>3, <1>7 DEF OnePort
  <1>9. MailSound
    BY <1>1, <1>7 DEF MailSound
  <1>10. Drained
    BY <1>1 DEF Drained
  <1>11. Charted
    <2>1. PICK chart : chart = [p \in {} |-> 0]
      OBVIOUS
    <2>2. DOMAIN chart = {} /\ chart = [p \in {} |-> chart[p]]
      BY <2>1
    <2>3. Charts(conn, chart)
      BY <2>2, <1>1, NewTable
    <2> QED BY SMTT(60), <2>2, <2>3, <1>7 DEF Charted
  <1> QED BY <1>5, <1>6, <1>8, <1>9, <1>10, <1>11 DEF VfsInv, PhaseOf

(* When nothing is owed, the command that is asked does not matter.        *)
LEMMA AgreesAsked ==
    ASSUME NEW P, NEW Q, NEW C, NEW gone, P.fds = Q.fds, P.dirs = Q.dirs,
           Agrees(P, C, 0, gone)
    PROVE  Agrees(Q, C, 0, gone)
  BY DEF Agrees

(* What is due to a program is what its port holds and the server sends.   *)
LEMMA DueIs ==
    ASSUME Types, NEW n \in Programs, proc[n].port \in PortIds
    PROVE  /\ outq[proc[n].port] \in Seq(Msgs) /\ srv.left \in Seq(Msgs)
           /\ Due(n) \in Seq(Msgs)
           /\ srv.left = <<>> => Due(n) = outq[proc[n].port]
           /\ srv.dst # proc[n].port => Due(n) = outq[proc[n].port]
           /\ srv.dst = proc[n].port => Due(n) = outq[proc[n].port] \o srv.left
           /\ Due(n) = <<>> => outq[proc[n].port] = <<>>
           /\ Due(n) = <<>> /\ srv.dst = proc[n].port => srv.left = <<>>
  <1>1. PICK o \in Seq(Msgs), l \in Seq(Msgs) : o = outq[proc[n].port] /\ l = srv.left
    BY DEF Types
  <1>2. o \o <<>> = o /\ o \o l \in Seq(Msgs) /\ <<>> \in Seq(Msgs)
    BY ConcatEmptySeq, ConcatProperties, EmptySeq
  <1>3. o \o l = <<>> => o = <<>> /\ l = <<>>
    BY ConcatSimplifications
  <1>4. CASE srv.dst = proc[n].port
    <2>1. Due(n) = o \o l
      BY <1>1, <1>4 DEF Due
    <2> QED BY <2>1, <1>1, <1>2, <1>3, <1>4
  <1>5. CASE srv.dst # proc[n].port
    <2>1. Due(n) = o
      BY <1>1, <1>2, <1>5 DEF Due
    <2> QED BY <2>1, <1>1, <1>2, <1>5
  <1> QED BY <1>4, <1>5

-----------------------------------------------------------------------------
(* A command is sent.                                                      *)

(* Program n, which starts or is between calls, sends req.                 *)
Sends(n, p, req) ==
    /\ call(n, p, req) /\ req \in Reqs /\ p \in PortIds
    /\ proc[n].state \in {"off", "idle"}
    /\ (req.cmd = "VFS_OPENCONN") <=> (proc[n].state = "off")
    /\ proc[n].state = "off" => \A m \in Programs : proc[m].port = p => proc[m].state = "off"
    /\ proc[n].state = "idle" => p = proc[n].port
    /\ name' \in [Programs -> Names] /\ \A m \in Programs \ {n} : name'[m] = name[m]
    /\ Legal(proc'[n], name'[n])

(* Each connection is a program's.                                         *)
LEMMA Owners ==
    ASSUME VfsInv, NEW c \in 1 .. Len(client)
    PROVE  /\ client[c] \in Clients /\ client[c].in \in PortIds
           /\ client[c].nameptr \in Programs
  <1>1. client \in Seq(Clients)
    BY DEF VfsInv, Types
  <1>2. client[c] \in Clients
    BY <1>1, ElementOfSeq
  <1> QED BY <1>2 DEF Clients

(* The command waits at the server.                                        *)
LEMMA CallStep ==
    ASSUME VfsInv, NEW n \in Programs, NEW p, NEW req, Sends(n, p, req)
    PROVE  VfsInv'
  <1>1. /\ Types /\ (\A m \in Programs : PhaseOf(m)) /\ OnePort /\ MailSound /\ Drained
        /\ Charted
    BY DEF VfsInv
  <1>2. /\ req \in Reqs /\ p \in PortIds /\ proc[n].state \in {"off", "idle"}
        /\ (req.cmd = "VFS_OPENCONN") <=> (proc[n].state = "off")
        /\ proc[n].state = "off" => \A m \in Programs : proc[m].port = p => proc[m].state = "off"
        /\ proc[n].state = "idle" => p = proc[n].port
        /\ name' \in [Programs -> Names] /\ \A m \in Programs \ {n} : name'[m] = name[m]
        /\ Legal(proc'[n], name'[n])
        /\ UNCHANGED <<conn, client, srv, outq>>
    BY DEF Sends, call
  <1>3. PICK msg : /\ msg = [src |-> p, area |-> n, cmd |-> req.cmd, fd |-> req.fd,
                             count |-> req.count]
                   /\ inq' = Append(inq, msg)
    BY DEF Sends, call
  <1>4. msg \in Mails /\ msg.src = p
    BY <1>2, <1>3 DEF Mails, Reqs
  <1>5. PICK Q : /\ Q = [proc[n] EXCEPT !.state = "wait", !.port = p, !.req = req,
                                        !.calls = @ + 1]
                 /\ proc' = [proc EXCEPT ![n] = Q]
    <2>1. proc \in [Programs -> Procs] /\ proc[n] \in Procs
      BY <1>1 DEF Types
    <2>2. proc' = [proc EXCEPT ![n].state = "wait", ![n].port = p, ![n].req = req,
                               ![n].calls = @ + 1]
      BY DEF Sends, call
    <2> QED BY <2>1, <2>2 DEF Procs
  <1>6. /\ proc \in [Programs -> Procs] /\ proc[n] \in Procs /\ proc'[n] = Q
        /\ \A m \in Programs \ {n} : proc'[m] = proc[m]
    BY <1>1, <1>5 DEF Types
  <1>7. /\ Q \in Procs /\ Q.state = "wait" /\ Q.port = p /\ Q.req = req
        /\ Q.fds = proc[n].fds /\ Q.dirs = proc[n].dirs
    <2>1. p \in Nat
      BY <1>2, Constants
    <2>2. PICK P : P = proc[n] /\ P \in Procs
      BY <1>6
    <2>3. PICK k \in Nat : k = P.calls + 1
      BY <2>2 DEF Procs
    <2>4. Q = [P EXCEPT !.state = "wait", !.port = p, !.req = req, !.calls = k]
      BY <2>2, <2>3, <1>5
    <2> QED BY <2>1, <2>2, <2>4, <1>2 DEF Procs
  <1>8. inq \in Seq(Mails) /\ Len(inq) \in Nat
    BY <1>1, LenProperties DEF Types
  <1>9. /\ inq' \in Seq(Mails) /\ Len(inq') = Len(inq) + 1 /\ inq'[Len(inq) + 1] = msg
        /\ \A i \in 1 .. Len(inq) : inq'[i] = inq[i]
    BY <1>3, <1>4, <1>8, AppendProperties
  <1>10. Types'
    <2>1. proc' \in [Programs -> Procs]
      BY <1>5, <1>6, <1>7
    <2> QED BY <2>1, <1>1, <1>2, <1>9 DEF Types
  <1>11. \A m \in Programs \ {n} : proc[m].state # "off" => proc[m].port # p
    BY <1>1, <1>2 DEF OnePort
  <1>12. ASSUME NEW m \in Programs \ {n}, Running(m)
         PROVE  Mail(m)' = Mail(m)
    <2>1. proc[m].port # p /\ proc'[m] = proc[m]
      BY <1>6, <1>11, <1>12 DEF Running
    <2>2. Mail(m) => Mail(m)'
      BY <2>1, <1>8, <1>9 DEF Mail
    <2>3. Mail(m)' => Mail(m)
      <3>1. SUFFICES ASSUME NEW i \in 1 .. Len(inq'), inq'[i].src = proc[m].port
                     PROVE  Mail(m)
        BY <2>1 DEF Mail
      <3>2. i # Len(inq) + 1
        BY <3>1, <2>1, <1>4, <1>9
      <3>3. i \in 1 .. Len(inq)
        BY <3>1, <3>2, <1>8, <1>9
      <3> QED BY <3>1, <3>3, <1>9 DEF Mail
    <2> QED BY <2>2, <2>3, Zenon DEF Mail
  <1>13. ASSUME NEW m \in Programs \ {n}
         PROVE  PhaseOf(m)'
    <2>1. proc'[m] = proc[m] /\ name'[m] = name[m]
      BY <1>2, <1>6
    <2>2. Due(m)' = Due(m)
      BY <2>1, <1>2 DEF Due
    <2>3. Conns(m)' = Conns(m)
      BY <2>1, <1>2, ConnsKept
    <2>4. Untouched(m)
      BY <2>1, <2>2, <2>3, <1>12 DEF Untouched
    <2> QED BY <2>4, <1>1, PhaseKept
  <1>14. Mail(n)' = TRUE
    <2>1. Len(inq) + 1 \in 1 .. Len(inq')
      BY <1>8, <1>9
    <2>2. Mail(n)'
      BY <2>1, <1>4, <1>6, <1>7, <1>9 DEF Mail
    <2> QED BY <2>2, Zenon DEF Mail
  <1>15. ASSUME proc[n].state = "off" PROVE PhaseOf(n)'
    <2>1. \A m \in Programs : Running(m) => proc[m].port # p
      BY <1>2, <1>15 DEF Running
    <2>2. outq[p] = <<>>
      BY <2>1, <1>1, <1>2 DEF Drained
    <2>3. srv.dst = p => srv.left = <<>>
      BY <2>1, <1>1 DEF MailSound
    <2>4. Due(n)' = <<>>
      <3>1. <<>> \o <<>> = <<>>
        BY EmptySeq, ConcatEmptySeq
      <3>2. Due(n)' = outq[p] \o (IF srv.dst = p THEN srv.left ELSE <<>>)
        BY <1>2, <1>6, <1>7 DEF Due
      <3> QED BY <3>1, <3>2, <2>2, <2>3
    <2>5. Conns(n)' = {}
      <3>1. ASSUME NEW c \in 1 .. Len(client)
            PROVE  client[c].in # p
        <4>1. PICK m \in Programs : m = client[c].nameptr
          BY Owners, Zenon
        <4>2. proc[m].state # "off" /\ proc[m].port = client[c].in
          BY <4>1, <1>1 DEF OnePort
        <4> QED BY <4>2, <1>2, <1>15
      <3> QED BY <3>1, <1>2, <1>6, <1>7 DEF Conns
    <2>6. Q.dirs = {} /\ \A i \in OwnFds : Q.fds[i] = NoFd
      BY <1>1, <1>7, <1>15 DEF OnePort, Off
    <2>7. Phase(Q, name'[n], <<>>, TRUE, {})
      BY <2>6, <1>2, <1>6, <1>7, <1>15 DEF Phase
    <2>8. Phase(proc'[n], name'[n], Due(n)', Mail(n)', Conns(n)')
      BY <2>4, <2>5, <2>7, <1>6, <1>14, Zenon
    <2> QED BY <2>8, Zenon DEF PhaseOf
  <1>16. ASSUME proc[n].state = "idle" PROVE PhaseOf(n)'
    <2>1. Running(n) /\ proc'[n].port = proc[n].port
      BY <1>2, <1>6, <1>7, <1>16 DEF Running
    <2>2. Due(n) = <<>> /\ Conns(n) # {} /\ \A C \in Conns(n) : Agrees(proc[n], C, 0, {})
      BY <2>1, <1>1, <1>16 DEF PhaseOf, Phase
    <2>3. Due(n)' = <<>>
      BY <2>1, <2>2, <1>2 DEF Due
    <2>4. Conns(n)' = Conns(n)
      BY <2>1, <1>2, ConnsKept
    <2>5. \A C \in Conns(n) : Agrees(Q, C, 0, {})
      BY <2>2, <1>7, AgreesAsked
    <2>6. Phase(Q, name'[n], <<>>, TRUE, Conns(n))
      BY <2>2, <2>5, <1>2, <1>6, <1>7, <1>16 DEF Phase
    <2>7. Phase(proc'[n], name'[n], Due(n)', Mail(n)', Conns(n)')
      BY <2>3, <2>4, <2>6, <1>6, <1>14, Zenon
    <2> QED BY <2>7, Zenon DEF PhaseOf
  <1>17. \A m \in Programs : PhaseOf(m)'
    BY <1>2, <1>13, <1>15, <1>16
  <1>18. OnePort'
    <2>1. ASSUME NEW m \in Programs
          PROVE  IF proc'[m].state = "off" THEN proc'[m] = Off ELSE proc'[m].port \in PortIds
      BY <1>1, <1>2, <1>6, <1>7 DEF OnePort
    <2>2. ASSUME NEW l \in Programs, NEW m \in Programs, proc'[l].state # "off",
                 proc'[m].state # "off", proc'[l].port = proc'[m].port
          PROVE  l = m
      <3>1. CASE l = n \/ m = n
        BY <2>2, <3>1, <1>6, <1>7, <1>11
      <3>2. CASE l # n /\ m # n
        BY <2>2, <3>2, <1>1, <1>6 DEF OnePort
      <3> QED BY <3>1, <3>2
    <2>3. ASSUME NEW c \in 1 .. Len(client)
          PROVE  /\ proc'[client[c].nameptr].state # "off"
                 /\ proc'[client[c].nameptr].port = client[c].in
      <3>1. PICK m \in Programs : m = client[c].nameptr
        BY Owners, Zenon
      <3>2. proc[m].state # "off" /\ proc[m].port = client[c].in
        BY <3>1, <1>1 DEF OnePort
      <3>3. CASE m = n
        BY <3>1, <3>2, <3>3, <1>2, <1>6, <1>7
      <3>4. CASE m # n
        BY <3>1, <3>2, <3>4, <1>6
      <3> QED BY <3>3, <3>4
    <2> QED BY <2>1, <2>2, <2>3, <1>2 DEF OnePort
  <1>19. MailSound'
    <2>1. Asking(n)' = msg /\ proc'[n].state = "wait"
      BY <1>3, <1>6, <1>7 DEF Asking
    <2>2. ASSUME NEW i \in 1 .. Len(inq)
          PROVE  \E m \in Programs \ {n} : /\ proc[m].state = "wait" /\ inq[i] = Asking(m)
                                           /\ inq[i].src = proc[m].port
      <3>1. PICK m \in Programs : proc[m].state = "wait" /\ inq[i] = Asking(m)
        BY <1>1 DEF MailSound
      <3>2. m # n
        BY <3>1, <1>2
      <3> QED BY <3>1, <3>2 DEF Asking
    <2>3. ASSUME NEW i \in 1 .. Len(inq')
          PROVE  \E m \in Programs : proc'[m].state = "wait" /\ inq'[i] = Asking(m)'
      <3>1. CASE i = Len(inq) + 1
        BY <3>1, <2>1, <1>9
      <3>2. CASE i # Len(inq) + 1
        <4>1. i \in 1 .. Len(inq)
          BY <3>2, <1>8, <1>9
        <4>2. PICK m \in Programs \ {n} : proc[m].state = "wait" /\ inq[i] = Asking(m)
          BY <4>1, <2>2
        <4>3. Asking(m)' = Asking(m)
          BY <1>6 DEF Asking
        <4> QED BY <4>1, <4>2, <4>3, <1>6, <1>9
      <3> QED BY <3>1, <3>2
    <2>4. \A i \in 1 .. Len(inq) : inq[i].src # p
      BY <2>2, <1>11
    <2>5. ASSUME NEW i \in 1 .. Len(inq'), NEW j \in 1 .. Len(inq'), inq'[i].src = inq'[j].src
          PROVE  i = j
      <3>1. CASE i = Len(inq) + 1 \/ j = Len(inq) + 1
        BY <2>4, <2>5, <3>1, <1>4, <1>8, <1>9
      <3>2. CASE i # Len(inq) + 1 /\ j # Len(inq) + 1
        <4>1. i \in 1 .. Len(inq) /\ j \in 1 .. Len(inq)
          BY <3>2, <1>8, <1>9
        <4> QED BY <4>1, <2>5, <1>1, <1>9 DEF MailSound
      <3> QED BY <3>1, <3>2
    <2>6. ASSUME srv.left # <<>>
          PROVE  \E m \in Programs : Running(m)' /\ proc'[m].port = srv.dst
      <3>1. PICK m \in Programs : Running(m) /\ proc[m].port = srv.dst
        BY <2>6, <1>1 DEF MailSound
      <3>2. Running(m)' /\ proc'[m].port = proc[m].port
        BY <3>1, <1>2, <1>6, <1>7 DEF Running
      <3> QED BY <3>1, <3>2
    <2> QED BY <2>3, <2>5, <2>6, <1>2 DEF MailSound
  <1>20. Drained'
    <2>1. ASSUME NEW m \in Programs, Running(m)
          PROVE  Running(m)' /\ proc'[m].port = proc[m].port
      BY <2>1, <1>2, <1>6, <1>7 DEF Running
    <2> QED BY <2>1, <1>1, <1>2 DEF Drained
  <1>21. Charted'
    BY <1>1, <1>2, ConnsKept
  <1> QED BY <1>10, <1>17, <1>18, <1>19, <1>20, <1>21 DEF VfsInv

-----------------------------------------------------------------------------
(* The calls.                                                              *)

(* What a call changes of the program that makes it.                       *)
LEMMA Called ==
    ASSUME VfsInv, NEW n \in Programs, NEW p, NEW req, call(n, p, req)
    PROVE  /\ proc[n] \in Procs /\ name \in [Programs -> Names]
           /\ proc[n].state # "off" => proc[n].port \in PortIds
           /\ proc'[n].req = req /\ proc'[n].fds = proc[n].fds /\ proc'[n].dirs = proc[n].dirs
  <1>1. /\ proc \in [Programs -> Procs] /\ proc[n] \in Procs
        /\ name \in [Programs -> Names]
    BY DEF VfsInv, Types
  <1>2. proc' = [proc EXCEPT ![n].state = "wait", ![n].port = p, ![n].req = req,
                             ![n].calls = @ + 1]
    BY DEF call
  <1>3. proc[n].state # "off" => proc[n].port \in PortIds
    BY DEF VfsInv, OnePort
  <1> QED BY <1>1, <1>2, <1>3 DEF Procs

(* A program starts, with a port that no other program has had.            *)
LEMMA Starts ==
    ASSUME VfsInv, ReuseIds = FALSE, NEW n \in Programs, NEW p, libc_init_vfs(n, p)
    PROVE  VfsInv'
  <1>1. PICK req : req = Request("VFS_OPENCONN", 0, 0)
    OBVIOUS
  <1>2. req \in Reqs /\ req.cmd = "VFS_OPENCONN"
    BY <1>1, Constants DEF Request, Reqs, Cmds
  <1>3. call(n, p, req) /\ proc[n].state = "off" /\ name' = name /\ p \in FreeIds
    BY <1>1 DEF libc_init_vfs
  <1>4. /\ name \in [Programs -> Names]
        /\ proc'[n].req = req
    BY <1>3, Called
  <1>5. Legal(proc'[n], name'[n])
    BY <1>2, <1>4 DEF Legal
  <1>6. p \in PortIds /\ \A m \in Programs : proc[m].port = p => proc[m].state = "off"
    BY <1>3 DEF FreeIds
  <1>7. Sends(n, p, req)
    BY <1>2, <1>3, <1>4, <1>5, <1>6 DEF Sends
  <1> QED BY <1>7, CallStep

(* A command of a program between calls.                                   *)
LEMMA Commands ==
    ASSUME VfsInv, NEW n \in Programs, NEW req \in Reqs, call(n, proc[n].port, req),
           proc[n].state = "idle", req.cmd # "VFS_OPENCONN",
           name' \in [Programs -> Names], \A m \in Programs \ {n} : name'[m] = name[m],
           Legal(proc'[n], name'[n])
    PROVE  VfsInv'
  <1>1. proc[n].port \in PortIds
    BY Called
  <1>2. Sends(n, proc[n].port, req)
    BY <1>1 DEF Sends
  <1> QED BY <1>2, CallStep

(* _open(), _opendir(), _stat() and _mkdir().                              *)
LEMMA NamedCommands ==
    ASSUME VfsInv, NEW n \in Programs, NEW path \in Role[n].names,
           NEW cmd \in {"VFS_OPEN", "VFS_OPENDIR", "VFS_RSTAT", "VFS_MKDIR"},
           call_named(n, cmd, path)
    PROVE  VfsInv'
  <1>1. PICK req : req = Request(cmd, 0, 0)
    OBVIOUS
  <1>2. req \in Reqs /\ req.cmd = cmd
    BY <1>1, Constants DEF Request, Reqs, Cmds
  <1>3. /\ call(n, proc[n].port, req) /\ proc[n].state = "idle"
        /\ name' = [name EXCEPT ![n] = path]
    BY <1>1 DEF call_named
  <1>4. path \in Files \cup {Missing, BootDir, RootDir}
    BY VfsAssumption
  <1>5. path \in Names /\ path # NoName
    BY <1>4, Constants DEF Names
  <1>6. /\ name \in [Programs -> Names]
        /\ proc'[n].req = req
    BY <1>3, Called
  <1>7. /\ name' \in [Programs -> Names] /\ name'[n] = path
        /\ \A m \in Programs \ {n} : name'[m] = name[m]
    BY <1>3, <1>5, <1>6
  <1>8. Legal(proc'[n], name'[n])
    BY <1>2, <1>5, <1>6, <1>7 DEF Legal
  <1> QED BY <1>2, <1>3, <1>7, <1>8, Commands

(* _vfs_read(), not at the end of the file.                                *)
LEMMA Reads ==
    ASSUME VfsInv, ReadsToEnd = FALSE, NEW n \in Programs, NEW i \in OwnFds,
           NEW count \in Counts, read(n, i, count)
    PROVE  VfsInv'
  <1>1. PICK req : req = Request("VFS_READ", proc[n].fds[i].srv_fd, count)
    OBVIOUS
  <1>2. /\ call(n, proc[n].port, req) /\ proc[n].state = "idle" /\ name' = name
        /\ proc[n].fds[i] # NoFd /\ proc[n].fds[i].got < FileSize
    BY <1>1 DEF read
  <1>3. /\ proc[n] \in Procs /\ name \in [Programs -> Names]
        /\ proc'[n].req = req /\ proc'[n].fds = proc[n].fds
    BY <1>2, Called
  <1>4. proc[n].fds[i].srv_fd \in Fds /\ count \in Nat \ {0}
    BY <1>3, Constants DEF Procs, Held
  <1>5. /\ req \in Reqs /\ req.cmd = "VFS_READ" /\ req.count = count
        /\ req.fd = proc[n].fds[i].srv_fd
    BY <1>1, <1>4 DEF Request, Reqs, Cmds
  <1>6. Legal(proc'[n], name'[n])
    BY <1>2, <1>3, <1>4, <1>5 DEF Legal
  <1> QED BY <1>2, <1>3, <1>5, <1>6, Commands

(* _vfs_close().                                                           *)
LEMMA Closes ==
    ASSUME VfsInv, NEW n \in Programs, NEW i \in OwnFds, close(n, i)
    PROVE  VfsInv'
  <1>1. PICK req : req = Request("VFS_CLOSE", proc[n].fds[i].srv_fd, 0)
    OBVIOUS
  <1>2. call(n, proc[n].port, req) /\ proc[n].state = "idle" /\ name' = name
    BY <1>1 DEF close
  <1>3. /\ proc[n] \in Procs /\ name \in [Programs -> Names]
        /\ proc'[n].req = req
    BY <1>2, Called
  <1>4. proc[n].fds[i].srv_fd \in Fds
    BY <1>3 DEF Procs, Held
  <1>5. req \in Reqs /\ req.cmd = "VFS_CLOSE"
    BY <1>1, <1>4 DEF Request, Reqs, Cmds
  <1>6. Legal(proc'[n], name'[n])
    BY <1>3, <1>5 DEF Legal
  <1> QED BY <1>2, <1>3, <1>5, <1>6, Commands

(* _closedir().                                                            *)
LEMMA DirCloses ==
    ASSUME VfsInv, NEW n \in Programs, NEW fd \in Fds, closedir(n, fd)
    PROVE  VfsInv'
  <1>1. PICK req : req = Request("VFS_CLOSEDIR", fd, 0)
    OBVIOUS
  <1>2. /\ call(n, proc[n].port, req) /\ proc[n].state = "idle" /\ name' = name
        /\ fd \in proc[n].dirs
    BY <1>1 DEF closedir
  <1>3. /\ name \in [Programs -> Names]
        /\ proc'[n].req = req /\ proc'[n].dirs = proc[n].dirs
    BY <1>2, Called
  <1>4. req \in Reqs /\ req.cmd = "VFS_CLOSEDIR" /\ req.fd = fd
    BY <1>1 DEF Request, Reqs, Cmds
  <1>5. Legal(proc'[n], name'[n])
    BY <1>2, <1>3, <1>4 DEF Legal
  <1> QED BY <1>2, <1>3, <1>4, <1>5, Commands

(* Any call.                                                               *)
LEMMA AllCalls ==
    ASSUME VfsInv, ReadsToEnd = FALSE, NEW n \in Programs, Calls(n)
    PROVE  VfsInv'
  BY NamedCommands, Reads, Closes, DirCloses, Zenon DEF Calls

-----------------------------------------------------------------------------
(* A command is served.                                                    *)

(* The first command at the server is that of program n, and is taken.     *)
Taken(n) ==
    /\ proc[n].state = "wait" /\ proc[n].port \in PortIds
    /\ inq # <<>> /\ inq' = Tail(inq) /\ Head(inq) = Asking(n)
    /\ inq' \in Seq(Mails) /\ Mail(n) = TRUE /\ Mail(n)' = FALSE
    /\ \A m \in Programs \ {n} : Running(m) => /\ proc[m].port # proc[n].port
                                               /\ Mail(m)' = Mail(m)
    /\ \A i \in 1 .. Len(inq') : \E m \in Programs : proc[m].state = "wait" /\ inq'[i] = Asking(m)
    /\ \A i, j \in 1 .. Len(inq') : inq'[i].src = inq'[j].src => i = j

(* It is of some program.                                                  *)
LEMMA OneTaken ==
    ASSUME VfsInv, inq # <<>>, inq' = Tail(inq), proc' = proc
    PROVE  \E n \in Programs : Taken(n)
  <1>1. /\ inq \in Seq(Mails) /\ OnePort
        /\ \A i \in 1 .. Len(inq) : \E n \in Programs : proc[n].state = "wait" /\ inq[i] = Asking(n)
        /\ \A i, j \in 1 .. Len(inq) : inq[i].src = inq[j].src => i = j
    BY DEF VfsInv, Types, MailSound
  <1>2. PICK k \in Nat \ {0} : k = Len(inq)
    <2>1. Len(inq) \in Nat /\ Len(inq) # 0
      BY <1>1, LenProperties, EmptySeq
    <2> QED BY <2>1
  <1>3. /\ Tail(inq) \in Seq(Mails) /\ Len(Tail(inq)) = k - 1
        /\ \A i \in 1 .. Len(Tail(inq)) : Tail(inq)[i] = inq[i + 1]
    BY <1>1, <1>2, HeadTailProperties
  <1>4. /\ inq' \in Seq(Mails) /\ Len(inq') = k - 1
        /\ \A i \in 1 .. k - 1 : inq'[i] = inq[i + 1]
    BY <1>3
  <1>5. PICK n \in Programs : proc[n].state = "wait" /\ inq[1] = Asking(n)
    BY <1>1, <1>2
  <1>6. proc[n].port \in PortIds /\ inq[1].src = proc[n].port
    BY <1>1, <1>5 DEF OnePort, Asking
  <1>7. Mail(n)
    BY <1>2, <1>6 DEF Mail
  <1>8. ~Mail(n)'
    <2>1. SUFFICES ASSUME NEW i \in 1 .. k - 1, inq'[i].src = proc[n].port
                   PROVE  FALSE
      BY <1>4 DEF Mail
    <2>2. i + 1 \in 1 .. k /\ 1 \in 1 .. k /\ i + 1 # 1
      BY <1>2
    <2>3. inq[i + 1].src = inq[1].src
      BY <2>1, <1>4, <1>6
    <2> QED BY <2>2, <2>3, <1>1, <1>2
  <1>9. ASSUME NEW m \in Programs \ {n}, Running(m)
        PROVE  proc[m].port # proc[n].port /\ Mail(m)' = Mail(m)
    <2>1. proc[m].port # proc[n].port
      BY <1>1, <1>5, <1>9 DEF Running, OnePort
    <2>2. ASSUME NEW i \in 1 .. k, inq[i].src = proc[m].port
          PROVE  Mail(m)'
      <3>1. i # 1
        BY <2>1, <2>2, <1>6
      <3>2. i - 1 \in 1 .. k - 1 /\ inq'[i - 1] = inq[i]
        <4>1. i - 1 \in 1 .. k - 1 /\ (i - 1) + 1 = i
          BY <3>1, <1>2
        <4> QED BY <4>1, <1>4
      <3> QED BY <3>2, <2>2, <1>4 DEF Mail
    <2>3. ASSUME NEW i \in 1 .. k - 1, inq'[i].src = proc[m].port
          PROVE  Mail(m)
      <3>1. i + 1 \in 1 .. k /\ inq[i + 1].src = proc[m].port
        BY <2>3, <1>2, <1>4
      <3> QED BY <3>1, <1>2 DEF Mail
    <2>4. Mail(m) => Mail(m)'
      BY <2>2, <1>2 DEF Mail
    <2>5. Mail(m)' => Mail(m)
      BY <2>3, <1>4 DEF Mail
    <2> QED BY <2>1, <2>4, <2>5, Zenon DEF Mail
  <1>10. ASSUME NEW i \in 1 .. Len(inq')
         PROVE  \E m \in Programs : proc[m].state = "wait" /\ inq'[i] = Asking(m)
    <2>1. i + 1 \in 1 .. k /\ inq'[i] = inq[i + 1]
      BY <1>2, <1>4
    <2> QED BY <2>1, <1>1, <1>2
  <1>11. ASSUME NEW i \in 1 .. Len(inq'), NEW j \in 1 .. Len(inq'), inq'[i].src = inq'[j].src
         PROVE  i = j
    <2>1. /\ i + 1 \in 1 .. k /\ inq'[i] = inq[i + 1]
          /\ j + 1 \in 1 .. k /\ inq'[j] = inq[j + 1]
      BY <1>2, <1>4
    <2>2. i + 1 = j + 1
      BY <2>1, <1>1, <1>2, <1>11
    <2> QED BY <2>2, <1>2, <1>4
  <1>12. Head(inq) = Asking(n)
    BY <1>1, <1>5
  <1>13. Mail(n) = TRUE /\ Mail(n)' = FALSE
    BY <1>7, <1>8, Zenon DEF Mail
  <1> QED BY <1>4, <1>5, <1>6, <1>9, <1>10, <1>11, <1>12, <1>13 DEF Taken

(* A command that is answered by msgs.                                     *)
LEMMA ServedStep ==
    ASSUME VfsInv, NEW n \in Programs, Taken(n), NEW msgs \in Seq(Msgs), srv.left = <<>>,
           UNCHANGED <<name, outq, proc>>, srv' = [dst |-> proc[n].port, left |-> msgs],
           client' \in Seq(Clients), Charted', Conns(n)' # {},
           \A C \in Conns(n)' : Replied(proc[n], C, name[n], msgs),
           \A m \in Programs \ {n} : Running(m) => Conns(m)' = Conns(m),
           \A c \in 1 .. Len(client') : /\ client'[c].nameptr \in Programs
                                        /\ proc[client'[c].nameptr].state # "off"
                                        /\ proc[client'[c].nameptr].port = client'[c].in
    PROVE  VfsInv'
  <1>1. /\ Types /\ (\A m \in Programs : PhaseOf(m)) /\ OnePort /\ MailSound /\ Drained
    BY DEF VfsInv
  <1>2. proc[n].state = "wait" /\ Running(n) /\ proc[n].port \in PortIds /\ proc[n].port \in Nat
    BY Constants DEF Taken, Running
  <1>3. Types'
    <2>1. inq' \in Seq(Mails)
      BY DEF Taken
    <2>2. srv' \in [dst : Nat, left : Seq(Msgs)]
      BY <1>2
    <2> QED BY <2>1, <2>2, <1>1 DEF Types
  <1>4. Due(n) = <<>>
    BY <1>1, <1>2, Zenon DEF PhaseOf, Phase, Taken
  <1>5. outq[proc[n].port] = <<>>
    BY <1>1, <1>2, <1>4, DueIs
  <1>6. Due(n)' = msgs
    <2>1. Due(n)' = outq[proc[n].port] \o msgs
      BY DEF Due
    <2>2. <<>> \o msgs = msgs
      BY ConcatEmptySeq
    <2> QED BY <2>1, <2>2, <1>5
  <1>7. ASSUME NEW m \in Programs \ {n}
        PROVE  PhaseOf(m)'
    <2>1. ASSUME Running(m)
          PROVE  Due(m)' = Due(m) /\ Mail(m)' = Mail(m) /\ Conns(m)' = Conns(m)
      <3>1. proc[m].port # proc[n].port /\ Mail(m)' = Mail(m)
        BY <2>1 DEF Taken
      <3>2. Conns(m)' = Conns(m)
        BY <2>1
      <3>3. proc[m].port \in PortIds
        BY <2>1, <1>1 DEF OnePort, Running
      <3>4. Due(m) = outq[proc[m].port] /\ outq[proc[m].port] \in Seq(Msgs)
        BY <3>3, <1>1, DueIs
      <3>5. Due(m)' = outq[proc[m].port] \o <<>>
        BY <3>1 DEF Due
      <3> QED BY <3>1, <3>2, <3>4, <3>5, ConcatEmptySeq
    <2>2. Untouched(m)
      BY <2>1 DEF Untouched
    <2> QED BY <2>2, <1>1, PhaseKept
  <1>8. PhaseOf(n)'
    <2>1. Phase(proc[n], name[n], msgs, FALSE, Conns(n)')
      BY <1>2 DEF Phase
    <2>2. Mail(n)' = FALSE
      BY DEF Taken
    <2>3. Phase(proc[n], name[n], Due(n)', Mail(n)', Conns(n)')
      BY <2>1, <2>2, <1>6
    <2>4. Phase(proc'[n], name'[n], Due(n)', Mail(n)', Conns(n)')
      BY <2>3
    <2> QED BY <2>4, Zenon DEF PhaseOf
  <1>9. OnePort'
    BY <1>1 DEF OnePort
  <1>10. MailSound'
    <2>1. \A m \in Programs : Asking(m)' = Asking(m)
      BY DEF Asking
    <2>2. \A i \in 1 .. Len(inq') : \E m \in Programs : proc[m].state = "wait" /\ inq'[i] = Asking(m)
      BY DEF Taken
    <2>3. \A i, j \in 1 .. Len(inq') : inq'[i].src = inq'[j].src => i = j
      BY DEF Taken
    <2>4. srv'.dst = proc[n].port
      OBVIOUS
    <2>5. Running(n)'
      BY <1>2 DEF Running
    <2> QED BY <2>1, <2>2, <2>3, <2>4, <2>5 DEF MailSound
  <1>11. Drained'
    BY <1>1 DEF Drained, Running
  <1> QED BY <1>3, <1>7, <1>8, <1>9, <1>10, <1>11 DEF VfsInv

(* vfs_main(), vfs.c:551-573: a connection more.                           *)
LEMMA ConnOpened ==
    ASSUME VfsInv, NEW n \in Programs, Taken(n), srv.left = <<>>,
           UNCHANGED <<name, outq, proc>>, vfs_openconn
    PROVE  VfsInv'
  <1>1. PICK p \in PortIds : p = proc[n].port
    BY DEF Taken
  <1>2. Head(inq) = Asking(n) /\ proc[n].state = "wait" /\ Mail(n) = TRUE
    BY DEF Taken
  <1>3. proc[n] \in Procs /\ client \in Seq(Clients) /\ OnePort
    BY DEF VfsInv, Types
  <1>4. /\ Asking(n).src = p /\ Asking(n).area = n /\ Asking(n).cmd = proc[n].req.cmd
        /\ proc[n].req.cmd = "VFS_OPENCONN"
    BY <1>1, <1>2 DEF Asking, vfs_openconn
  <1>5. /\ Conns(n) = {} /\ proc[n].dirs = {} /\ \A i \in OwnFds : proc[n].fds[i] = NoFd
    <2>1. Phase(proc[n], name[n], Due(n), Mail(n), Conns(n))
      BY <1>2 DEF VfsInv, PhaseOf, Running
    <2> QED BY <2>1, <1>2, <1>4 DEF Phase
  <1>6. PICK D : D = [in |-> p, nameptr |-> n, ofile |-> [i \in Fds |-> NoOfile]]
    OBVIOUS
  <1>7. D \in Clients /\ D.in = p /\ D.nameptr = n
    <2>1. NoOfile \in Ofiles
      BY DEF NoOfile, Ofiles, Names
    <2> QED BY <2>1, <1>6 DEF Clients
  <1>8. PICK msgs : msgs = <<res(TRUE, 0)>>
    OBVIOUS
  <1>9. msgs \in Seq(Msgs) /\ Replied(proc[n], D, name[n], msgs)
    <2>1. Agrees(proc[n], D, 0, Gone(proc[n]))
      BY <1>5 DEF Agrees
    <2> QED BY <2>1, <1>3, <1>4, <1>7, <1>8, OneReply
  <1>10. PICK k \in Nat : k = Len(client)
    BY <1>3, LenProperties
  <1>11. /\ client' = Append(client, D) /\ srv' = [dst |-> p, left |-> msgs]
         /\ conn' = hashtable_insert(conn, p, k + 1)
    BY <1>2, <1>4, <1>6, <1>8, <1>10 DEF vfs_openconn
  <1>12. /\ client' \in Seq(Clients) /\ Len(client') = k + 1 /\ client'[k + 1] = D
         /\ \A c \in 1 .. k : client'[c] = client[c]
    BY <1>3, <1>7, <1>10, <1>11, AppendProperties
  <1>13. \A c \in 1 .. k : client[c].in # p
    BY <1>1, <1>5, <1>10 DEF Conns
  <1>14. \A c \in 1 .. k + 1 : c \in 1 .. k \/ c = k + 1
    BY <1>10
  <1>15. 1 .. k \subseteq 1 .. k + 1 /\ k + 1 \in 1 .. k + 1
    BY <1>10
  <1>16. Conns(n)' = {D}
    <2>1. \A c \in 1 .. k + 1 : (client'[c].in = p) <=> (c = k + 1)
      BY <1>7, <1>12, <1>13, <1>14
    <2>2. \A C : C \in Conns(n)' <=> (\E c \in 1 .. k + 1 : client'[c].in = p /\ C = client'[c])
      BY <1>1, <1>12 DEF Conns
    <2> QED BY <2>1, <2>2, <1>12, <1>15
  <1>17. ASSUME NEW m \in Programs \ {n}, Running(m)
         PROVE  Conns(m)' = Conns(m)
    <2>1. proc[m].port # p
      BY <1>1, <1>17 DEF Taken
    <2>2. \A C : C \in Conns(m) <=> (\E c \in 1 .. k : client[c].in = proc[m].port /\ C = client[c])
      BY <1>10 DEF Conns
    <2>3. \A C : C \in Conns(m)' <=>
                 (\E c \in 1 .. k + 1 : client'[c].in = proc[m].port /\ C = client'[c])
      BY <1>12 DEF Conns
    <2>4. \A c \in 1 .. k : client[c].in = proc[m].port =>
             c \in 1 .. k + 1 /\ client'[c].in = proc[m].port /\ client'[c] = client[c]
      BY <1>12, <1>15
    <2>5. \A c \in 1 .. k + 1 : client'[c].in = proc[m].port =>
             c \in 1 .. k /\ client[c].in = proc[m].port /\ client'[c] = client[c]
      BY <2>1, <1>7, <1>12, <1>14
    <2>6. \A C : C \in Conns(m) => C \in Conns(m)'
      BY <2>2, <2>3, <2>4
    <2>7. \A C : C \in Conns(m)' => C \in Conns(m)
      BY <2>2, <2>3, <2>5
    <2> QED BY <2>6, <2>7 DEF Conns
  <1>18. ASSUME NEW c \in 1 .. Len(client')
         PROVE  /\ client'[c].nameptr \in Programs
                /\ proc[client'[c].nameptr].state # "off"
                /\ proc[client'[c].nameptr].port = client'[c].in
    <2>1. CASE c = k + 1
      BY <2>1, <1>1, <1>2, <1>7, <1>12
    <2>2. CASE c \in 1 .. k
      <3>1. client'[c] = client[c] /\ client[c].nameptr \in Programs
        BY <2>2, <1>10, <1>12, Owners
      <3> QED BY <3>1, <2>2, <1>3, <1>10 DEF OnePort
    <2> QED BY <2>1, <2>2, <1>12, <1>14
  <1>19. Charted'
    <2>1. PICK chart : /\ Charts(conn, chart)
                       /\ DOMAIN chart = {client[c].in : c \in 1 .. k}
                       /\ \A c \in 1 .. k : chart[client[c].in] = c
      BY <1>10 DEF VfsInv, Charted
    <2>2. p \notin DOMAIN chart
      BY <2>1, <1>13
    <2>3. PICK more : more = T!With(chart, p, k + 1)
      OBVIOUS
    <2>4. /\ DOMAIN more = DOMAIN chart \cup {p} /\ more[p] = k + 1
          /\ \A x \in DOMAIN chart : more[x] = chart[x]
      BY <2>2, <2>3 DEF T!With
    <2>5. Charts(hashtable_insert(conn, p, k + 1), more)
      BY <2>1, <2>2, <2>3, <1>10, OneMoreConn
    <2>6. Charts(conn', more)
      BY <2>5, <1>11
    <2>7. DOMAIN more = {client'[c].in : c \in 1 .. Len(client')}
      <3>1. \A x : x \in DOMAIN more <=> (x = p \/ \E c \in 1 .. k : x = client[c].in)
        BY <2>1, <2>4
      <3>2. \A x : x \in {client'[c].in : c \in 1 .. Len(client')} <=>
                   (\E c \in 1 .. k + 1 : x = client'[c].in)
        BY <1>12
      <3> QED BY ZenonT(60), <3>1, <3>2, <1>7, <1>12, <1>14, <1>15
    <2>8. \A c \in 1 .. Len(client') : more[client'[c].in] = c
      BY <2>1, <2>4, <1>7, <1>12, <1>14
    <2> QED BY <2>6, <2>7, <2>8 DEF Charted, Charts
  <1>20. /\ \A C \in Conns(n)' : Replied(proc[n], C, name[n], msgs)
         /\ Conns(n)' # {} /\ srv' = [dst |-> proc[n].port, left |-> msgs]
    BY <1>1, <1>9, <1>11, <1>16
  <1> QED BY <1>9, <1>12, <1>17, <1>18, <1>19, <1>20, ServedStep

(* vfs_main(), vfs.c:574-621: a command of a connection there is.          *)
LEMMA CommandServed ==
    ASSUME VfsInv, NEW n \in Programs, Taken(n), srv.left = <<>>,
           UNCHANGED <<name, outq, proc>>, serve_cmd
    PROVE  VfsInv'
  <1>1. PICK p, q : p \in PortIds /\ p = proc[n].port /\ q = Head(inq)
    BY DEF Taken
  <1>2. q = Asking(n) /\ proc[n].state = "wait" /\ Mail(n) = TRUE
    BY <1>1 DEF Taken
  <1>3. /\ proc[n] \in Procs /\ client \in Seq(Clients) /\ OnePort
        /\ name[n] \in Names
    BY DEF VfsInv, Types
  <1>4. /\ q.src = p /\ q.cmd = proc[n].req.cmd /\ q.fd = proc[n].req.fd
        /\ q.count = proc[n].req.count /\ q.cmd # "VFS_OPENCONN"
    BY <1>1, <1>2 DEF Asking, serve_cmd
  <1>5. /\ Legal(proc[n], name[n]) /\ Conns(n) # {}
        /\ \A C \in Conns(n) : Agrees(proc[n], C, 0, {})
    <2>1. Phase(proc[n], name[n], Due(n), Mail(n), Conns(n))
      BY <1>2 DEF VfsInv, PhaseOf, Running
    <2> QED BY <2>1, <1>2, <1>4 DEF Phase
  <1>6. PICK k \in Nat : k = Len(client)
    BY <1>3, LenProperties
  <1>7. PICK chart : /\ Charts(conn, chart)
                     /\ DOMAIN chart = {client[c].in : c \in 1 .. k}
                     /\ \A c \in 1 .. k : chart[client[c].in] = c
    BY <1>6 DEF VfsInv, Charted
  <1>8. PICK c \in 1 .. k : client[c].in = p
    BY <1>1, <1>5, <1>6 DEF Conns
  <1>9. hashtable_lookup(conn, p) = c
    <2>1. p \in DOMAIN chart /\ chart[p] = c
      BY <1>7, <1>8
    <2> QED BY <2>1, <1>7, LookedUp
  <1>10. \A x \in 1 .. k : client[x].in = p => x = c
    BY <1>7, <1>8
  <1>11. PICK C : C = client[c]
    OBVIOUS
  <1>12. C \in Clients /\ C.in = p /\ C.nameptr = n
    <2>1. C \in Clients /\ C.in = p /\ C.nameptr \in Programs
      BY <1>6, <1>8, <1>11, Owners
    <2>2. proc[C.nameptr].state # "off" /\ proc[C.nameptr].port = p
      BY <1>3, <1>6, <1>8, <1>11 DEF OnePort
    <2> QED BY <2>1, <2>2, <1>1, <1>2, <1>3 DEF OnePort
  <1>13. Agrees(proc[n], C, 0, {})
    <2>1. C \in Conns(n)
      BY <1>1, <1>6, <1>8, <1>11 DEF Conns
    <2> QED BY <2>1, <1>5
  <1>14. PICK a : a = handle(C, q)
    OBVIOUS
  <1>15. Answers(proc[n], C, name[n], a)
    <2>1. Asks(proc[n], C, name[n], q)
      BY <1>3, <1>4, <1>5, <1>12, <1>13 DEF Asks
    <2> QED BY <2>1, <1>4, <1>14, HandleAnswers
  <1>16. PICK D, msgs : D = a.client /\ msgs = a.msgs
    OBVIOUS
  <1>17. /\ D \in Clients /\ D.in = p /\ D.nameptr = n
         /\ msgs \in Seq(Msgs) /\ Replied(proc[n], D, name[n], msgs)
    BY <1>12, <1>15, <1>16 DEF Answers
  <1>18. /\ client' = [client EXCEPT ![c] = D] /\ srv' = [dst |-> p, left |-> msgs]
         /\ conn' = conn
    <2>1. /\ UNCHANGED conn
          /\ \E x \in {hashtable_lookup(conn, q.src)} :
                \E b \in {handle(client[x], q)} : answer(x, q, b)
      BY <1>1, Zenon DEF serve_cmd
    <2>2. answer(c, q, a)
      BY <2>1, <1>4, <1>9, <1>11, <1>14, Zenon
    <2> QED BY <2>1, <2>2, <1>4, <1>16 DEF answer
  <1>19. /\ client' \in Seq(Clients) /\ Len(client') = k /\ client'[c] = D
         /\ \A x \in 1 .. k \ {c} : client'[x] = client[x]
    BY <1>3, <1>6, <1>8, <1>17, <1>18, ExceptSeq
  <1>20. \A x \in 1 .. k : client'[x].in = client[x].in /\ client'[x].nameptr = client[x].nameptr
    BY <1>11, <1>12, <1>17, <1>19
  <1>21. Conns(n)' = {D}
    <2>1. \A E : E \in Conns(n)' <=> (\E x \in 1 .. k : client'[x].in = p /\ E = client'[x])
      BY <1>1, <1>19 DEF Conns
    <2> QED BY <2>1, <1>8, <1>10, <1>19, <1>20
  <1>22. ASSUME NEW m \in Programs \ {n}, Running(m)
         PROVE  Conns(m)' = Conns(m)
    <2>1. proc[m].port # p
      BY <1>1, <1>22 DEF Taken
    <2>2. \A E : E \in Conns(m) <=> (\E x \in 1 .. k : client[x].in = proc[m].port /\ E = client[x])
      BY <1>6 DEF Conns
    <2>3. \A E : E \in Conns(m)' <=>
                 (\E x \in 1 .. k : client'[x].in = proc[m].port /\ E = client'[x])
      BY <1>19 DEF Conns
    <2>4. \A x \in 1 .. k : client[x].in = proc[m].port => client'[x] = client[x]
      BY <2>1, <1>8, <1>19
    <2>5. \A E : E \in Conns(m) <=> E \in Conns(m)'
      BY <2>2, <2>3, <2>4, <1>20
    <2> QED BY <2>5 DEF Conns
  <1>23. ASSUME NEW x \in 1 .. Len(client')
         PROVE  /\ client'[x].nameptr \in Programs
                /\ proc[client'[x].nameptr].state # "off"
                /\ proc[client'[x].nameptr].port = client'[x].in
    <2>1. x \in 1 .. Len(client)
      BY <1>6, <1>19
    <2>2. client[x].nameptr \in Programs
      BY <2>1, Owners
    <2> QED BY <2>1, <2>2, <1>3, <1>6, <1>20 DEF OnePort
  <1>24. Charted'
    <2>1. Charts(conn', chart)
      BY <1>7, <1>18
    <2>2. DOMAIN chart = {client'[x].in : x \in 1 .. Len(client')}
      BY <1>7, <1>19, <1>20
    <2>3. \A x \in 1 .. Len(client') : chart[client'[x].in] = x
      BY <1>7, <1>19, <1>20
    <2> QED BY <2>1, <2>2, <2>3 DEF Charted, Charts
  <1>25. /\ \A E \in Conns(n)' : Replied(proc[n], E, name[n], msgs)
         /\ Conns(n)' # {} /\ srv' = [dst |-> proc[n].port, left |-> msgs]
    BY <1>1, <1>17, <1>18, <1>21
  <1> QED BY <1>17, <1>19, <1>22, <1>23, <1>24, <1>25, ServedStep

(* A command is taken from the port and served.                            *)
LEMMA ServeStep ==
    ASSUME VfsInv, serve
    PROVE  VfsInv'
  <1>1. /\ srv.left = <<>> /\ inq # <<>> /\ (vfs_openconn \/ serve_cmd)
        /\ inq' = Tail(inq) /\ UNCHANGED <<name, outq, proc>>
    BY DEF serve
  <1>2. PICK n \in Programs : Taken(n)
    BY <1>1, OneTaken
  <1> QED BY <1>1, <1>2, ConnOpened, CommandServed

-----------------------------------------------------------------------------
(* A message is sent.                                                      *)

(* The first message of what is left goes to the end of a port.            *)
LEMMA Moves ==
    ASSUME NEW o \in Seq(Msgs), NEW l \in Seq(Msgs), l # <<>>
    PROVE  /\ Append(o, Head(l)) \in Seq(Msgs) /\ Tail(l) \in Seq(Msgs)
           /\ Append(o, Head(l)) \o Tail(l) = o \o l
  <1>1. PICK h \in Msgs, t \in Seq(Msgs) : h = Head(l) /\ t = Tail(l)
    BY HeadTailProperties
  <1>2. <<h>> \in Seq(Msgs) /\ Append(o, h) = o \o <<h>> /\ Append(o, h) \in Seq(Msgs)
    BY AppendIsConcat, AppendProperties
  <1>3. <<h>> \o t = l
    <2>1. Len(<<h>>) = 1 /\ <<h>>[1] = h
      OBVIOUS
    <2>2. /\ Len(t) \in Nat /\ Len(l) = Len(t) + 1 /\ \A i \in 1 .. Len(t) : t[i] = l[i + 1]
      BY <1>1, LenProperties, HeadTailProperties
    <2>3. PICK s \in Seq(Msgs) : s = <<h>> \o t
      BY <1>2, ConcatProperties
    <2>4. Len(s) = 1 + Len(t) /\ \A i \in 1 .. 1 + Len(t) : s[i] = IF i <= 1 THEN h ELSE t[i - 1]
      BY <1>2, <2>1, <2>3, ConcatProperties
    <2>5. l[1] = h
      BY <1>1
    <2>8. s[1] = h /\ 1 \in 1 .. Len(s)
      BY <2>2, <2>4
    <2>6. ASSUME NEW i \in 1 .. Len(s)
          PROVE  s[i] = l[i]
      <3>1. CASE i = 1
        BY <3>1, <2>5, <2>8
      <3>2. CASE i # 1
        <4>1. i - 1 \in 1 .. Len(t) /\ (i - 1) + 1 = i /\ ~(i <= 1)
          BY <3>2, <2>2, <2>4
        <4> QED BY <4>1, <2>2, <2>4
      <3> QED BY <3>1, <3>2
    <2>7. s = l
      <3>1. Len(s) = Len(l)
        BY <2>2, <2>4
      <3> QED BY <3>1, <2>6, SeqEqual
    <2> QED BY <2>3, <2>7
  <1>4. (o \o <<h>>) \o t = o \o (<<h>> \o t)
    BY <1>1, <1>2, ConcatAssociative
  <1> QED BY <1>1, <1>2, <1>3, <1>4

(* The port of a program is open for what is sent to it.                   *)
LEMMA SendStep ==
    ASSUME VfsInv, send
    PROVE  VfsInv'
  <1>1. /\ Types /\ (\A m \in Programs : PhaseOf(m)) /\ OnePort /\ MailSound /\ Drained
        /\ Charted
    BY DEF VfsInv
  <1>2. /\ srv.left # <<>> /\ srv' = [srv EXCEPT !.left = Tail(@)]
        /\ UNCHANGED <<conn, client, name, inq, proc>>
    BY DEF send
  <1>3. PICK n \in Programs : Running(n) /\ proc[n].port = srv.dst
    BY <1>1, <1>2 DEF MailSound
  <1>4. PICK p \in PortIds : p = proc[n].port /\ p = srv.dst
    BY <1>1, <1>3 DEF OnePort, Running
  <1>5. IsOpen(p)
    BY <1>3, <1>4 DEF IsOpen, Running
  <1>19. outq[p] \in Seq(Msgs) /\ srv.left \in Seq(Msgs)
    BY <1>1 DEF Types
  <1>6. PICK o \in Seq(Msgs), l \in Seq(Msgs) : o = outq[p] /\ l = srv.left
    BY <1>19
  <1>7. PICK more \in Seq(Msgs), rest \in Seq(Msgs) :
           /\ more = Append(o, Head(l)) /\ rest = Tail(l) /\ more \o rest = o \o l
    <2>1. l # <<>>
      BY <1>2, <1>6
    <2> HIDE DEF Msgs
    <2>2. /\ Append(o, Head(l)) \in Seq(Msgs) /\ Tail(l) \in Seq(Msgs)
          /\ Append(o, Head(l)) \o Tail(l) = o \o l
      BY <2>1, Moves
    <2> QED BY <2>2, Zenon
  <1>8. outq' = [outq EXCEPT ![p] = more]
    <2>1. outq' = [outq EXCEPT ![p] = Append(@, Head(srv.left))]
      BY <1>4, <1>5 DEF send
    <2> QED BY <2>1, <1>6, <1>7
  <1>9. /\ outq' \in [PortIds -> Seq(Msgs)] /\ outq'[p] = more
        /\ \A x \in PortIds \ {p} : outq'[x] = outq[x]
    BY <1>1, <1>8 DEF Types
  <1>10. srv' \in [dst : Nat, left : Seq(Msgs)] /\ srv'.dst = p /\ srv'.left = rest
    BY <1>1, <1>2, <1>4, <1>6, <1>7 DEF Types
  <1>11. Types'
    BY <1>1, <1>2, <1>9, <1>10 DEF Types
  <1>12. Due(n)' = Due(n)
    <2>1. Due(n) = o \o l
      BY <1>4, <1>6 DEF Due
    <2>2. Due(n)' = more \o rest
      BY <1>2, <1>4, <1>9, <1>10 DEF Due
    <2> QED BY <2>1, <2>2, <1>7
  <1>13. ASSUME NEW m \in Programs \ {n}, Running(m)
         PROVE  Due(m)' = Due(m)
    <2>1. PICK r \in PortIds : r = proc[m].port /\ r # p
      BY <1>1, <1>3, <1>4, <1>13 DEF OnePort, Running
    <2>2. Due(m) = outq[r] \o <<>>
      BY <2>1, <1>4 DEF Due
    <2>3. Due(m)' = outq'[r] \o <<>>
      BY <2>1, <1>2, <1>10 DEF Due
    <2> QED BY <2>1, <2>2, <2>3, <1>9
  <1>14. ASSUME NEW m \in Programs
         PROVE  PhaseOf(m)'
    <2>1. Running(m) => Due(m)' = Due(m)
      BY <1>12, <1>13
    <2>2. Mail(m)' = Mail(m)
      BY <1>2 DEF Mail
    <2>3. Conns(m)' = Conns(m)
      BY <1>2, ConnsKept
    <2>4. Untouched(m)
      BY <2>1, <2>2, <2>3, <1>2 DEF Untouched
    <2> QED BY <2>4, <1>1, PhaseKept
  <1>15. OnePort'
    BY <1>1, <1>2 DEF OnePort
  <1>16. MailSound'
    <2>1. \A m \in Programs : Asking(m)' = Asking(m)
      BY <1>2 DEF Asking
    <2>2. Running(n)' /\ proc'[n].port = srv'.dst
      BY <1>2, <1>3, <1>4, <1>10 DEF Running
    <2> QED BY <2>1, <2>2, <1>1, <1>2 DEF MailSound
  <1>17. Drained'
    <2>1. ASSUME NEW x \in PortIds, \A m \in Programs : Running(m)' => proc'[m].port # x
          PROVE  outq'[x] = <<>>
      <3>1. \A m \in Programs : Running(m) => proc[m].port # x
        BY <2>1, <1>2 DEF Running
      <3>2. x # p
        BY <3>1, <1>3, <1>4
      <3> QED BY <3>1, <3>2, <1>1, <1>9 DEF Drained
    <2> QED BY <2>1 DEF Drained
  <1>18. Charted'
    BY <1>1, <1>2, ConnsKept
  <1> QED BY <1>11, <1>14, <1>15, <1>16, <1>17, <1>18 DEF VfsInv

-----------------------------------------------------------------------------
(* A program takes a message, or ends.                                     *)

(* A step of program n alone, which has no command at the server: it takes *)
(* messages from its port, and when it ends there are none.                *)
LEMMA OwnStep ==
    ASSUME VfsInv, NEW n \in Programs, Running(n), ~Mail(n),
           UNCHANGED <<conn, client, name, inq, srv>>,
           NEW Q \in Procs, Q.port = proc[n].port, Q.state # "off",
           proc' = [proc EXCEPT ![n] = Q],
           NEW s \in Seq(Msgs), outq' = [outq EXCEPT ![proc[n].port] = s],
           PhaseOf(n)', Q.state = "ended" => s = <<>>,
           Q.state = "ended" /\ srv.dst = proc[n].port => srv.left = <<>>
    PROVE  VfsInv'
  <1>1. /\ Types /\ (\A m \in Programs : PhaseOf(m)) /\ OnePort /\ MailSound /\ Drained
        /\ Charted
    BY DEF VfsInv
  <1>2. /\ proc'[n] = Q /\ \A m \in Programs \ {n} : proc'[m] = proc[m]
        /\ proc' \in [Programs -> Procs]
    BY <1>1 DEF Types
  <1>3. PICK p \in PortIds : p = proc[n].port
    BY <1>1 DEF OnePort, Running
  <1>4. /\ outq' \in [PortIds -> Seq(Msgs)] /\ outq'[p] = s
        /\ \A x \in PortIds \ {p} : outq'[x] = outq[x]
    BY <1>1, <1>3 DEF Types
  <1>5. Types'
    BY <1>1, <1>2, <1>4 DEF Types
  <1>6. \A m \in Programs : proc'[m].port = proc[m].port
    BY <1>2
  <1>7. ASSUME NEW m \in Programs \ {n}
        PROVE  PhaseOf(m)'
    <2>1. ASSUME Running(m)
          PROVE  Due(m)' = Due(m)
      <3>1. PICK r \in PortIds : r = proc[m].port /\ r # p
        BY <2>1, <1>1, <1>3 DEF OnePort, Running
      <3>2. outq'[r] = outq[r]
        BY <3>1, <1>4
      <3> QED BY <3>1, <3>2, <1>2 DEF Due
    <2>2. Mail(m)' = Mail(m)
      BY <1>6 DEF Mail
    <2>3. Conns(m)' = Conns(m)
      BY <1>6, ConnsKept
    <2>4. Untouched(m)
      BY <2>1, <2>2, <2>3, <1>2 DEF Untouched
    <2> QED BY <2>4, <1>1, PhaseKept
  <1>8. OnePort'
    <2>1. ASSUME NEW m \in Programs
          PROVE  IF proc'[m].state = "off" THEN proc'[m] = Off ELSE proc'[m].port \in PortIds
      BY <1>1, <1>2, <1>3 DEF OnePort
    <2>2. \A m \in Programs : (proc'[m].state = "off") <=> (proc[m].state = "off")
      BY <1>2 DEF Running
    <2>3. ASSUME NEW c \in 1 .. Len(client)
          PROVE  /\ proc'[client[c].nameptr].state # "off"
                 /\ proc'[client[c].nameptr].port = client[c].in
      <3>1. client[c].nameptr \in Programs
        BY Owners
      <3> QED BY <3>1, <2>2, <1>1, <1>6 DEF OnePort
    <2> QED BY <2>1, <2>2, <2>3, <1>1, <1>6 DEF OnePort
  <1>9. MailSound'
    <2>1. ASSUME NEW i \in 1 .. Len(inq)
          PROVE  \E m \in Programs : proc'[m].state = "wait" /\ inq[i] = Asking(m)'
      <3>1. PICK m \in Programs : proc[m].state = "wait" /\ inq[i] = Asking(m)
        BY <1>1 DEF MailSound
      <3>2. m # n
        BY <3>1 DEF Mail, Asking
      <3>3. Asking(m)' = Asking(m)
        BY <3>2, <1>2 DEF Asking
      <3> QED BY <3>1, <3>2, <3>3, <1>2
    <2>2. ASSUME srv.left # <<>>
          PROVE  \E m \in Programs : Running(m)' /\ proc'[m].port = srv.dst
      <3>1. PICK m \in Programs : Running(m) /\ proc[m].port = srv.dst
        BY <2>2, <1>1 DEF MailSound
      <3>2. CASE m = n
        <4>1. Q.state # "ended"
          BY <3>1, <3>2, <2>2
        <4>2. Running(n)'
          BY <4>1, <1>2 DEF Running, Procs
        <4> QED BY <4>2, <3>1, <3>2, <1>6
      <3>3. CASE m # n
        BY <3>1, <3>3, <1>2 DEF Running
      <3> QED BY <3>2, <3>3
    <2> QED BY <2>1, <2>2, <1>1 DEF MailSound
  <1>10. Drained'
    <2>1. ASSUME NEW x \in PortIds, \A m \in Programs : Running(m)' => proc'[m].port # x
          PROVE  outq'[x] = <<>>
      <3>1. CASE x = p
        <4>1. ~Running(n)'
          BY <2>1, <3>1, <1>3, <1>6
        <4>2. Q.state = "ended"
          BY <4>1, <1>2 DEF Running, Procs
        <4> QED BY <4>2, <3>1, <1>4
      <3>2. CASE x # p
        <4>1. ASSUME NEW m \in Programs, Running(m)
              PROVE  proc[m].port # x
          <5>1. CASE m = n
            BY <5>1, <3>2, <1>3
          <5>2. CASE m # n
            BY <5>2, <4>1, <2>1, <1>2 DEF Running
          <5> QED BY <5>1, <5>2
        <4> QED BY <4>1, <3>2, <1>1, <1>4 DEF Drained
      <3> QED BY <3>1, <3>2
    <2> QED BY <2>1 DEF Drained
  <1>11. Charted'
    BY <1>1, ConnsKept
  <1> QED BY <1>1, <1>5, <1>7, <1>8, <1>9, <1>10, <1>11 DEF VfsInv

(* The first of two sequences together.                                    *)
LEMMA FirstOf ==
    ASSUME NEW o \in Seq(Msgs), NEW l \in Seq(Msgs), o # <<>>
    PROVE  /\ o \o l \in Seq(Msgs) /\ o \o l # <<>>
           /\ Head(o \o l) = Head(o) /\ Tail(o \o l) = Tail(o) \o l
           /\ Head(o) \in Msgs /\ Tail(o) \in Seq(Msgs)
  <1>1. PICK s \in Seq(Msgs) : s = o \o l
    BY ConcatProperties
  <1>2. /\ Len(o) \in Nat \ {0} /\ Len(l) \in Nat
        /\ Len(s) = Len(o) + Len(l)
        /\ \A i \in 1 .. Len(o) + Len(l) : s[i] = IF i <= Len(o) THEN o[i] ELSE l[i - Len(o)]
    BY <1>1, ConcatProperties, LenProperties, EmptySeq
  <1>3. PICK h \in Msgs, t \in Seq(Msgs) : h = Head(o) /\ t = Tail(o)
    BY HeadTailProperties
  <1>4. /\ Len(t) = Len(o) - 1 /\ \A i \in 1 .. Len(t) : t[i] = o[i + 1]
    BY <1>3, HeadTailProperties
  <1>5. s # <<>> /\ Head(s) = h
    <2>1. Len(s) # 0 /\ s[1] = o[1]
      BY <1>2
    <2> QED BY <2>1, <1>1, <1>3
  <1>6. PICK u \in Seq(Msgs) : u = Tail(s)
    BY <1>5, HeadTailProperties
  <1>7. Len(u) = Len(s) - 1 /\ \A i \in 1 .. Len(u) : u[i] = s[i + 1]
    BY <1>5, <1>6, HeadTailProperties
  <1>8. PICK v \in Seq(Msgs) : v = t \o l
    BY ConcatProperties
  <1>9. /\ Len(v) = Len(t) + Len(l)
        /\ \A i \in 1 .. Len(t) + Len(l) : v[i] = IF i <= Len(t) THEN t[i] ELSE l[i - Len(t)]
    BY <1>8, ConcatProperties
  <1>10. Len(u) = Len(v)
    BY <1>2, <1>4, <1>7, <1>9
  <1>11. ASSUME NEW i \in 1 .. Len(u)
         PROVE  u[i] = v[i]
    <2>1. PICK a \in Nat \ {0}, b \in Nat : a = Len(o) /\ b = Len(l)
      BY <1>2
    <2>2. i \in 1 .. a - 1 + b /\ i + 1 \in 1 .. a + b
      BY <2>1, <1>2, <1>7
    <2>3. u[i] = IF i + 1 <= a THEN o[i + 1] ELSE l[(i + 1) - a]
      BY <2>1, <2>2, <1>2, <1>7
    <2>4. v[i] = IF i <= a - 1 THEN t[i] ELSE l[i - (a - 1)]
      BY <2>1, <2>2, <1>4, <1>9
    <2>5. (i + 1) - a = i - (a - 1) /\ (i + 1 <= a <=> i <= a - 1)
      BY <2>1, <2>2
    <2>6. i <= a - 1 => t[i] = o[i + 1]
      BY <2>1, <2>2, <1>4
    <2> QED BY <2>3, <2>4, <2>5, <2>6
  <1>12. u = v
    BY <1>10, <1>11, SeqEqual
  <1> QED BY <1>1, <1>3, <1>5, <1>6, <1>8, <1>12

(* A message is taken from the port of program n.                          *)
LEMMA Received ==
    ASSUME VfsInv, NEW n \in Programs, NEW kind, Running(n), recv(n, kind),
           NEW Q \in Procs, Q.port = proc[n].port, Q.state \in {"idle", "data"},
           proc' = [proc EXCEPT ![n] = Q], ~Mail(n),
           Phase(Q, name[n], Tail(Due(n)), FALSE, Conns(n))
    PROVE  VfsInv'
  <1>1. PICK p \in PortIds : p = proc[n].port
    BY DEF VfsInv, OnePort, Running
  <1>2. /\ outq[p] \in Seq(Msgs) /\ srv.left \in Seq(Msgs) /\ proc \in [Programs -> Procs]
        /\ outq \in [PortIds -> Seq(Msgs)] /\ outq[p] # <<>>
        /\ outq' = [outq EXCEPT ![p] = Tail(outq[p])]
        /\ UNCHANGED <<conn, client, name, inq, srv>>
    BY <1>1 DEF VfsInv, Types, recv
  <1>3. PICK o \in Seq(Msgs), l \in Seq(Msgs) :
           o = outq[p] /\ l = IF srv.dst = p THEN srv.left ELSE <<>>
    BY <1>2, EmptySeq
  <1>4. Tail(o) \in Seq(Msgs) /\ Tail(o \o l) = Tail(o) \o l
    BY <1>2, <1>3, FirstOf
  <1>5. proc'[n] = Q /\ outq'[p] = Tail(o)
    BY <1>2, <1>3
  <1>6. Due(n) = o \o l /\ Due(n)' = Tail(o) \o l
    BY <1>1, <1>2, <1>3, <1>5 DEF Due
  <1>7. Mail(n)' = FALSE
    <2>1. ~Mail(n)'
      BY <1>1, <1>2, <1>5 DEF Mail
    <2> QED BY <2>1, Zenon DEF Mail
  <1>8. Conns(n)' = Conns(n)
    BY <1>2, <1>5, ConnsKept
  <1>9. Phase(proc'[n], name'[n], Due(n)', Mail(n)', Conns(n)')
    <2>1. Due(n)' = Tail(Due(n)) /\ name'[n] = name[n]
      BY <1>2, <1>4, <1>6
    <2> QED BY <2>1, <1>5, <1>7, <1>8
  <1>10. PhaseOf(n)'
    BY <1>9, Zenon DEF PhaseOf
  <1> HIDE DEF Msgs
  <1> QED BY <1>1, <1>2, <1>3, <1>4, <1>10, OwnStep

(* What is due begins with what the port holds.                            *)
LEMMA FirstDue ==
    ASSUME VfsInv, NEW n \in Programs, NEW kind, Running(n), recv(n, kind)
    PROVE  /\ Due(n) \in Seq(Msgs) /\ Due(n) # <<>> /\ Tail(Due(n)) \in Seq(Msgs)
           /\ Head(Due(n)) = Head(outq[proc[n].port]) /\ Head(Due(n)).kind = kind
           /\ Head(Due(n)) \in Msgs
  <1>1. PICK p \in PortIds : p = proc[n].port
    BY DEF VfsInv, OnePort, Running
  <1>2. /\ outq[p] \in Seq(Msgs) /\ srv.left \in Seq(Msgs) /\ outq[p] # <<>>
        /\ Head(outq[p]).kind = kind
    BY <1>1 DEF VfsInv, Types, recv
  <1>3. PICK o \in Seq(Msgs), l \in Seq(Msgs) :
           o = outq[p] /\ l = IF srv.dst = p THEN srv.left ELSE <<>>
    BY <1>2, EmptySeq
  <1>4. Due(n) = o \o l
    BY <1>1, <1>3 DEF Due
  <1> HIDE DEF Msgs
  <1>5. /\ o \o l \in Seq(Msgs) /\ o \o l # <<>>
        /\ Head(o \o l) = Head(o) /\ Tail(o \o l) = Tail(o) \o l
        /\ Head(o) \in Msgs /\ Tail(o) \in Seq(Msgs)
    BY <1>2, <1>3, FirstOf
  <1>6. Tail(o) \o l \in Seq(Msgs)
    BY <1>5, ConcatProperties
  <1> QED BY <1>1, <1>2, <1>3, <1>4, <1>5, <1>6

(* Program P, with the answer r to its command, holds what C serves.       *)
LEMMA NowHolds ==
    ASSUME NEW n \in Programs, NEW P \in Procs, NEW C \in Clients, NEW r \in Msgs,
           r.val \in Nat, name[n] \in Names, Agrees(P, C, 0, Gone(P)),
           P.req.cmd = "VFS_OPEN" /\ r.ok =>
              /\ name[n] \in Files /\ r.val \in Fds
              /\ C.ofile[r.val] = [vnode |-> name[n], o_pos |-> 0]
              /\ \A i \in OwnFds : P.fds[i] # NoFd => P.fds[i].srv_fd # r.val,
           P.req.cmd = "VFS_OPENDIR" /\ r.ok =>
              r.val \in Fds /\ C.ofile[r.val].vnode \in {BootDir, RootDir}
    PROVE  /\ Holding(n, P, r) \in Procs /\ Holding(n, P, r).port = P.port
           /\ Agrees(Holding(n, P, r), C, 0, {})
  <1>1. /\ P.fds \in [OwnFds -> Held] /\ P.dirs \in SUBSET Fds /\ P.req \in Reqs
        /\ NoFd \in Held
    BY Constants DEF Procs, NoFd, Held, Names
  <1>2. CASE P.req.cmd = "VFS_OPEN" /\ r.ok /\ FreeOwn(P) # {}
    <2>1. PICK e : e = Least(FreeOwn(P))
      OBVIOUS
    <2>2. e \in OwnFds /\ P.fds[e] = NoFd
      <3>1. FreeOwn(P) \in SUBSET Nat
        BY Constants DEF FreeOwn
      <3> QED BY <3>1, <2>1, <1>2, LeastIs DEF FreeOwn
    <2>3. PICK h : h = [srv_fd |-> r.val, file |-> name[n], got |-> 0]
      OBVIOUS
    <2>4. h \in Held /\ h.srv_fd = r.val /\ h.file = name[n] /\ h.got = 0
      BY <2>3, <1>2 DEF Held
    <2>5. PICK f : f = [P.fds EXCEPT ![e] = h]
      OBVIOUS
    <2>6. f \in [OwnFds -> Held] /\ f[e] = h /\ \A i \in OwnFds \ {e} : f[i] = P.fds[i]
      BY <2>2, <2>4, <2>5, <1>1
    <2>7. PICK Q : Q = [P EXCEPT !.fds = f]
      OBVIOUS
    <2>8. Q \in Procs /\ Q.port = P.port /\ Q.fds = f /\ Q.dirs = P.dirs
      BY <2>6, <2>7 DEF Procs
    <2>9. Holding(n, P, r) = Q
      <3>1. Holding(n, P, r) = [P EXCEPT !.fds[Least(FreeOwn(P))] =
                                   [srv_fd |-> r.val, file |-> name[n], got |-> 0]]
        BY <1>2 DEF Holding
      <3> QED BY <3>1, <2>1, <2>3, <2>5, <2>7 DEF Procs
    <2>10. /\ name[n] \in Files /\ C.ofile[r.val].vnode = name[n] /\ C.ofile[r.val].o_pos = 0
           /\ \A i \in OwnFds : P.fds[i] # NoFd => P.fds[i].srv_fd # r.val
      BY <1>2
    <2>11. Gone(P) = {}
      BY <1>2 DEF Gone
    <2>12. ASSUME NEW i \in OwnFds, Q.fds[i] # NoFd
           PROVE  /\ Q.fds[i].file \in Files
                  /\ C.ofile[Q.fds[i].srv_fd].vnode = Q.fds[i].file
                  /\ C.ofile[Q.fds[i].srv_fd].o_pos = Q.fds[i].got + 0
                  /\ \A j \in OwnFds \ {i} : Q.fds[j] # NoFd => Q.fds[j].srv_fd # Q.fds[i].srv_fd
      <3>1. CASE i = e
        BY <3>1, <2>4, <2>6, <2>8, <2>10
      <3>2. CASE i # e
        <4>1. P.fds[i] # NoFd /\ Q.fds[i] = P.fds[i]
          BY <3>2, <2>6, <2>8, <2>12
        <4>2. /\ P.fds[i].file \in Files
              /\ C.ofile[P.fds[i].srv_fd].vnode = P.fds[i].file
              /\ C.ofile[P.fds[i].srv_fd].o_pos = P.fds[i].got + 0
              /\ \A j \in OwnFds \ {i} : P.fds[j] # NoFd => P.fds[j].srv_fd # P.fds[i].srv_fd
          BY <4>1 DEF Agrees
        <4> QED BY <4>1, <4>2, <2>4, <2>6, <2>8, <2>10
      <3> QED BY <3>1, <3>2
    <2>13. \A d \in Q.dirs : C.ofile[d].vnode \in {BootDir, RootDir}
      BY <2>8, <2>11 DEF Agrees
    <2>14. Agrees(Q, C, 0, {})
      BY <2>12, <2>13 DEF Agrees
    <2> QED BY <2>8, <2>9, <2>14
  <1>3. CASE P.req.cmd = "VFS_CLOSE"
    <2>1. PICK f : f = [i \in OwnFds |-> IF P.fds[i] # NoFd /\ P.fds[i].srv_fd = P.req.fd
                                         THEN NoFd ELSE P.fds[i]]
      OBVIOUS
    <2>2. f \in [OwnFds -> Held] /\ \A i \in OwnFds : f[i] = NoFd \/ f[i] = P.fds[i]
      BY <2>1, <1>1
    <2>3. PICK Q : Q = [P EXCEPT !.fds = f]
      OBVIOUS
    <2>4. Q \in Procs /\ Q.port = P.port /\ Q.fds = f /\ Q.dirs = P.dirs
      BY <2>2, <2>3 DEF Procs
    <2>5. Holding(n, P, r) = Q
      BY <1>3, <2>1, <2>3 DEF Holding, Procs
    <2>6. Gone(P) = {}
      BY <1>3 DEF Gone
    <2>7. Agrees(Q, C, 0, {})
      BY <2>2, <2>4, <2>6 DEF Agrees
    <2> QED BY <2>4, <2>5, <2>7
  <1>4. CASE P.req.cmd = "VFS_OPENDIR" /\ r.ok
    <2>1. PICK Q : Q = [P EXCEPT !.dirs = P.dirs \cup {r.val}]
      OBVIOUS
    <2>2. /\ Q \in Procs /\ Q.port = P.port /\ Q.fds = P.fds
          /\ Q.dirs = P.dirs \cup {r.val}
      BY <2>1, <1>1, <1>4 DEF Procs
    <2>3. Holding(n, P, r) = Q
      BY <1>4, <2>1 DEF Holding
    <2>4. Gone(P) = {}
      BY <1>4 DEF Gone
    <2>5. Agrees(Q, C, 0, {})
      BY <2>2, <2>4, <1>4 DEF Agrees
    <2> QED BY <2>2, <2>3, <2>5
  <1>5. CASE P.req.cmd = "VFS_CLOSEDIR"
    <2>1. PICK Q : Q = [P EXCEPT !.dirs = P.dirs \ {P.req.fd}]
      OBVIOUS
    <2>2. /\ Q \in Procs /\ Q.port = P.port /\ Q.fds = P.fds
          /\ Q.dirs = P.dirs \ {P.req.fd}
      BY <2>1, <1>1 DEF Procs
    <2>3. Holding(n, P, r) = Q
      BY <1>5, <2>1 DEF Holding
    <2>4. Gone(P) = {P.req.fd}
      BY <1>5 DEF Gone
    <2>5. Agrees(Q, C, 0, {})
      BY <2>2, <2>4 DEF Agrees
    <2> QED BY <2>2, <2>3, <2>5
  <1>6. CASE /\ ~(P.req.cmd = "VFS_OPEN" /\ r.ok /\ FreeOwn(P) # {})
             /\ P.req.cmd # "VFS_CLOSE" /\ ~(P.req.cmd = "VFS_OPENDIR" /\ r.ok)
             /\ P.req.cmd # "VFS_CLOSEDIR"
    <2>1. Holding(n, P, r) = P
      BY <1>6, Zenon DEF Holding
    <2>2. Gone(P) = {}
      BY <1>6 DEF Gone
    <2> QED BY <2>1, <2>2
  <1> QED BY <1>2, <1>3, <1>4, <1>5, <1>6

(* _vfs_read(), libposix vfs.c:240-265, and the other calls: a reply.      *)
LEMMA ReplyStep ==
    ASSUME VfsInv, NEW n \in Programs, take_reply(n)
    PROVE  VfsInv'
  <1>0. PICK P \in Procs : P = proc[n]
    BY DEF VfsInv, Types
  <1>1. PICK r : P = proc[n] /\ r = Head(outq[proc[n].port])
    BY <1>0
  <1>2. /\ P.state = "wait" /\ recv(n, "res") /\ Running(n)
        /\ proc' = [proc EXCEPT ![n] =
              IF P.req.cmd = "VFS_READ" /\ r.val # 0
              THEN [P EXCEPT !.state = "data", !.left = r.val]
              ELSE [Holding(n, P, r) EXCEPT !.state = "idle", !.req = NoReq]]
    BY <1>1 DEF take_reply, Running
  <1>3. PICK due \in Seq(Msgs) :
           /\ due = Due(n) /\ due # <<>> /\ Head(due) = r /\ r \in Msgs
           /\ Tail(due) \in Seq(Msgs)
    BY <1>1, <1>2, FirstDue
  <1>4. Phase(P, name[n], due, Mail(n), Conns(n))
    BY <1>1, <1>2, <1>3 DEF VfsInv, PhaseOf
  <1>5. /\ ~Mail(n) /\ Conns(n) # {}
        /\ \A C \in Conns(n) : Replied(P, C, name[n], due)
    BY <1>2, <1>3, <1>4 DEF Phase
  <1>6. ASSUME NEW C \in Conns(n)
        PROVE  /\ C \in Clients /\ r.val \in Nat /\ CutInto(Tail(due), Owed(P, r))
               /\ Agrees(P, C, Owed(P, r), Gone(P))
    <2>2. PICK c \in 1 .. Len(client) : C = client[c]
      BY <1>6 DEF Conns
    <2>1. C \in Clients
      BY <2>2, Owners
    <2> QED BY <2>1, <1>3, <1>5 DEF Replied
  <1>7. r.val \in Nat /\ CutInto(Tail(due), Owed(P, r))
    BY <1>5, <1>6
  <1>8. CASE P.req.cmd = "VFS_READ" /\ r.val # 0
    <2>1. PICK Q : Q = [P EXCEPT !.state = "data", !.left = r.val]
      OBVIOUS
    <2>2. /\ Q \in Procs /\ Q.port = P.port /\ Q.state = "data" /\ Q.left = r.val
          /\ Q.fds = P.fds /\ Q.dirs = P.dirs /\ Q.req = P.req
      BY <2>1, <1>7 DEF Procs
    <2>3. Owed(P, r) = r.val /\ Gone(P) = {}
      BY <1>8 DEF Owed, Gone
    <2>4. \A C \in Conns(n) : Agrees(Q, C, r.val, {})
      BY <2>2, <2>3, <1>6 DEF Agrees
    <2>5. Phase(Q, name[n], Tail(due), FALSE, Conns(n))
      BY <2>2, <2>3, <2>4, <1>5, <1>7, <1>8 DEF Phase
    <2>6. proc' = [proc EXCEPT ![n] = Q]
      BY <2>1, <1>2, <1>8
    <2> QED BY <2>2, <2>5, <2>6, <1>1, <1>2, <1>3, <1>5, Received
  <1>9. CASE ~(P.req.cmd = "VFS_READ" /\ r.val # 0)
    <2>1. Owed(P, r) = 0
      BY <1>9 DEF Owed
    <2>2. Tail(due) = <<>>
      <3>1. CutInto(Tail(due), 0) /\ Tail(due) \in Seq(Msgs) /\ 0 \in Nat
        BY <2>1, <1>3, <1>7
      <3> QED BY <3>1, Cut
    <2>3. PICK H, Q : H = Holding(n, P, r) /\ Q = [H EXCEPT !.state = "idle", !.req = NoReq]
      OBVIOUS
    <2>4. ASSUME NEW C \in Conns(n)
          PROVE  H \in Procs /\ H.port = P.port /\ Agrees(H, C, 0, {})
      <3>1. /\ P.req.cmd = "VFS_OPEN" /\ r.ok =>
                  /\ name[n] \in Files /\ r.val \in Fds
                  /\ C.ofile[r.val] = [vnode |-> name[n], o_pos |-> 0]
                  /\ \A i \in OwnFds : P.fds[i] # NoFd => P.fds[i].srv_fd # r.val
            /\ P.req.cmd = "VFS_OPENDIR" /\ r.ok =>
                  r.val \in Fds /\ C.ofile[r.val].vnode \in {BootDir, RootDir}
        BY <1>3, <1>5 DEF Replied
      <3>2. C \in Clients /\ Agrees(P, C, 0, Gone(P)) /\ name[n] \in Names
        BY <2>1, <1>6 DEF VfsInv, Types
      <3> QED BY <3>1, <3>2, <2>3, <1>3, <1>7, NowHolds
    <2>5. H \in Procs /\ H.port = P.port
      BY <2>4, <1>5
    <2>6. /\ Q \in Procs /\ Q.port = P.port /\ Q.state = "idle" /\ Q.fds = H.fds
          /\ Q.dirs = H.dirs
      <3>1. NoReq \in Reqs
        BY Constants DEF NoReq, Reqs, Cmds
      <3> QED BY <3>1, <2>3, <2>5 DEF Procs
    <2>7. \A C \in Conns(n) : Agrees(Q, C, 0, {})
      BY <2>4, <2>6, AgreesAsked
    <2>8. Phase(Q, name[n], Tail(due), FALSE, Conns(n))
      BY <2>2, <2>6, <2>7, <1>5 DEF Phase
    <2>9. proc' = [proc EXCEPT ![n] = Q]
      BY <2>3, <1>2, <1>9
    <2> QED BY <2>6, <2>8, <2>9, <1>1, <1>2, <1>3, <1>5, Received
  <1> QED BY <1>8, <1>9

(* _vfs_read(), libposix vfs.c:265-289: a piece of the data.               *)
LEMMA PieceStep ==
    ASSUME VfsInv, NEW n \in Programs, take_piece(n)
    PROVE  VfsInv'
  <1>1. PICK P \in Procs : P = proc[n]
    BY DEF VfsInv, Types
  <1>2. PICK took : took = IF P.left > Page THEN Page ELSE P.left
    OBVIOUS
  <1>3. PICK f : f = [i \in OwnFds |-> IF P.fds[i] # NoFd /\ P.fds[i].srv_fd = P.req.fd
                                       THEN [P.fds[i] EXCEPT !.got = @ + took] ELSE P.fds[i]]
    OBVIOUS
  <1>4. PICK more : more = [P EXCEPT !.left = @ - took, !.fds = f]
    OBVIOUS
  <1>5. /\ P.state = "data" /\ recv(n, "data") /\ Running(n)
        /\ proc' = [proc EXCEPT ![n] = IF more.left > 0 THEN more
                                       ELSE [more EXCEPT !.state = "idle", !.req = NoReq]]
    BY <1>1, <1>2, <1>3, <1>4, Zenon DEF take_piece, Running
  <1>6. PICK due \in Seq(Msgs) :
           due = Due(n) /\ due # <<>> /\ Tail(due) \in Seq(Msgs)
    BY <1>5, FirstDue
  <1>7. Phase(P, name[n], due, Mail(n), Conns(n))
    BY <1>1, <1>5, <1>6 DEF VfsInv, PhaseOf
  <1>8. /\ ~Mail(n) /\ Conns(n) # {} /\ CutInto(due, P.left)
        /\ \A C \in Conns(n) : Agrees(P, C, P.left, {})
        /\ P.left > 0
    BY <1>5, <1>7 DEF Phase
  <1>9. /\ P.left \in Nat \ {0} /\ Page \in Nat \ {0} /\ took \in Nat \ {0}
        /\ P.left - took \in Nat /\ (P.left > Page => took = Page)
        /\ (P.left <= Page => took = P.left)
    BY <1>2, <1>8, Constants DEF Procs
  <1>10. /\ P.fds \in [OwnFds -> Held] /\ f \in [OwnFds -> Held]
         /\ \A i \in OwnFds :
               /\ P.fds[i].got \in Nat
               /\ f[i] # NoFd => P.fds[i] # NoFd
               /\ f[i].srv_fd = P.fds[i].srv_fd /\ f[i].file = P.fds[i].file
               /\ f[i].got = P.fds[i].got +
                     (IF P.fds[i] # NoFd /\ P.fds[i].srv_fd = P.req.fd THEN took ELSE 0)
    <2>1. P.fds \in [OwnFds -> Held]
      BY DEF Procs
    <2>2. ASSUME NEW i \in OwnFds
          PROVE  /\ f[i] \in Held /\ P.fds[i].got \in Nat
                 /\ f[i] # NoFd => P.fds[i] # NoFd
                 /\ f[i].srv_fd = P.fds[i].srv_fd /\ f[i].file = P.fds[i].file
                 /\ f[i].got = P.fds[i].got +
                       (IF P.fds[i] # NoFd /\ P.fds[i].srv_fd = P.req.fd THEN took ELSE 0)
      <3>1. PICK h \in Held : h = P.fds[i]
        BY <2>1
      <3>2. h.got \in Nat /\ h.got + 0 = h.got /\ h.got + took \in Nat
        BY <1>9 DEF Held
      <3>3. CASE h # NoFd /\ h.srv_fd = P.req.fd
        <4>1. f[i] = [h EXCEPT !.got = @ + took]
          BY <3>1, <3>3, <1>3
        <4> QED BY <4>1, <3>1, <3>2, <3>3 DEF Held
      <3>4. CASE ~(h # NoFd /\ h.srv_fd = P.req.fd)
        <4>1. f[i] = h
          BY <3>1, <3>4, <1>3
        <4> QED BY <4>1, <3>1, <3>2, <3>4
      <3> QED BY <3>3, <3>4
    <2>3. f = [i \in OwnFds |-> f[i]]
      BY <1>3
    <2> QED BY <2>1, <2>2, <2>3
  <1>11. /\ more \in Procs /\ more.port = P.port /\ more.state = "data"
         /\ more.left = P.left - took /\ more.fds = f /\ more.dirs = P.dirs
         /\ more.req = P.req
    <2>1. PICK k \in Nat : k = P.left - took
      BY <1>9
    <2>2. more = [P EXCEPT !.left = k, !.fds = f]
      BY <2>1, <1>4
    <2>3. P.state \in {"off", "idle", "wait", "data", "ended"} /\ P.state = "data"
      BY <1>5
    <2>4. f \in [OwnFds -> Held]
      BY <1>10
    <2>5. /\ more \in Procs /\ more.port = P.port /\ more.state = P.state /\ more.left = k
          /\ more.fds = f /\ more.dirs = P.dirs /\ more.req = P.req
      BY <2>2, <2>4 DEF Procs
    <2> QED BY <2>1, <2>3, <2>5
  <1>12. ASSUME NEW C \in Conns(n)
         PROVE  Agrees(more, C, P.left - took, {})
    <2>1. ASSUME NEW i \in OwnFds, f[i] # NoFd
          PROVE  /\ f[i].file \in Files /\ C.ofile[f[i].srv_fd].vnode = f[i].file
                 /\ C.ofile[f[i].srv_fd].o_pos
                       = f[i].got + (IF f[i].srv_fd = P.req.fd THEN P.left - took ELSE 0)
                 /\ \A j \in OwnFds \ {i} : f[j] # NoFd => f[j].srv_fd # f[i].srv_fd
      <3>1. /\ P.fds[i].file \in Files
            /\ C.ofile[P.fds[i].srv_fd].vnode = P.fds[i].file
            /\ C.ofile[P.fds[i].srv_fd].o_pos
                  = P.fds[i].got + (IF P.fds[i].srv_fd = P.req.fd THEN P.left ELSE 0)
            /\ \A j \in OwnFds \ {i} : P.fds[j] # NoFd => P.fds[j].srv_fd # P.fds[i].srv_fd
        BY <2>1, <1>8, <1>10 DEF Agrees
      <3>2. P.fds[i] # NoFd /\ P.fds[i].got \in Nat
        BY <2>1, <1>10
      <3>3. C.ofile[f[i].srv_fd].o_pos
                = f[i].got + (IF f[i].srv_fd = P.req.fd THEN P.left - took ELSE 0)
        <4>1. PICK l \in Nat, t \in Nat, g \in Nat : l = P.left /\ t = took /\ g = P.fds[i].got
          BY <3>2, <1>9
        <4>2. /\ f[i].srv_fd = P.fds[i].srv_fd
              /\ f[i].got = g + (IF P.fds[i].srv_fd = P.req.fd THEN t ELSE 0)
          BY <3>2, <4>1, <1>10
        <4>3. C.ofile[P.fds[i].srv_fd].o_pos
                  = g + (IF P.fds[i].srv_fd = P.req.fd THEN l ELSE 0)
          BY <3>1, <4>1
        <4>4. CASE P.fds[i].srv_fd = P.req.fd
          BY SMTT(60), <4>1, <4>2, <4>3, <4>4
        <4>5. CASE P.fds[i].srv_fd # P.req.fd
          BY <4>1, <4>2, <4>3, <4>5
        <4> QED BY <4>4, <4>5
      <3> QED BY <3>1, <3>3, <1>10
    <2>2. \A d \in P.dirs : C.ofile[d].vnode \in {BootDir, RootDir}
      BY <1>8 DEF Agrees
    <2> QED BY <2>1, <2>2, <1>11 DEF Agrees
  <1>13. CASE more.left > 0
    <2>1. P.left > Page /\ more.left = P.left - Page
      BY <1>9, <1>11, <1>13
    <2>2. CutInto(Tail(due), more.left)
      <3>1. P.left \in Nat /\ CutInto(due, P.left) /\ P.left > Page
        BY <2>1, <1>8, <1>9
      <3> QED BY <3>1, <2>1, Cut
    <2>3. Phase(more, name[n], Tail(due), FALSE, Conns(n))
      BY <2>2, <1>8, <1>11, <1>12, <1>13 DEF Phase
    <2>4. proc' = [proc EXCEPT ![n] = more]
      BY <1>5, <1>13
    <2> QED BY <2>3, <2>4, <1>1, <1>5, <1>6, <1>8, <1>11, Received
  <1>14. CASE ~(more.left > 0)
    <2>1. P.left <= Page /\ P.left - took = 0
      <3>1. PICK a \in Nat, b \in Nat, t \in Nat : a = P.left /\ b = Page /\ t = took
        BY <1>9
      <3>2. ~(a - t > 0)
        BY <3>1, <1>11, <1>14
      <3>4. a - t \in Nat /\ (a > b => t = b) /\ b # 0
        BY <3>1, <1>9
      <3>5. a - t = 0
        BY <3>1, <3>2, <3>4
      <3>3. a <= b /\ a - t = 0
        BY <3>1, <3>4, <3>5, <1>8, <1>9
      <3> QED BY <3>1, <3>3
    <2>2. Tail(due) = <<>>
      <3>1. P.left \in Nat /\ CutInto(due, P.left) /\ P.left > 0
        BY <1>8, <1>9
      <3> QED BY <3>1, <2>1, Cut
    <2>3. PICK Q : Q = [more EXCEPT !.state = "idle", !.req = NoReq]
      OBVIOUS
    <2>4. /\ Q \in Procs /\ Q.port = P.port /\ Q.state = "idle" /\ Q.fds = more.fds
          /\ Q.dirs = more.dirs
      <3>1. NoReq \in Reqs
        BY Constants DEF NoReq, Reqs, Cmds
      <3> QED BY <3>1, <2>3, <1>11 DEF Procs
    <2>5. \A C \in Conns(n) : Agrees(Q, C, 0, {})
      BY <2>1, <2>4, <1>12, AgreesAsked
    <2>6. Phase(Q, name[n], Tail(due), FALSE, Conns(n))
      BY <2>2, <2>4, <2>5, <1>8 DEF Phase
    <2>7. proc' = [proc EXCEPT ![n] = Q]
      BY <2>3, <1>5, <1>14
    <2> QED BY <2>4, <2>6, <2>7, <1>1, <1>5, <1>6, <1>8, Received
  <1> QED BY <1>13, <1>14

(* A program ends between calls: nothing is due to it.                     *)
LEMMA ExitStep ==
    ASSUME VfsInv, NEW n \in Programs, exit(n)
    PROVE  VfsInv'
  <1>1. /\ proc[n].state = "idle" /\ Running(n)
        /\ proc' = [proc EXCEPT ![n] = [Off EXCEPT !.state = "ended", !.port = proc[n].port]]
        /\ outq' = [outq EXCEPT ![proc[n].port] = <<>>]
        /\ UNCHANGED <<conn, client, name, inq, srv>>
    BY DEF exit, Running
  <1>2. proc[n].port \in PortIds /\ Types
    BY <1>1 DEF VfsInv, OnePort
  <1>3. Due(n) = <<>> /\ ~Mail(n)
    BY <1>1 DEF VfsInv, PhaseOf, Phase
  <1>4. srv.dst = proc[n].port => srv.left = <<>>
    BY <1>2, <1>3, DueIs
  <1>5. PICK Q : Q = [Off EXCEPT !.state = "ended", !.port = proc[n].port]
    OBVIOUS
  <1>6. Q \in Procs /\ Q.state = "ended" /\ Q.port = proc[n].port
    <2>1. NoFd \in Held /\ NoReq \in Reqs /\ proc[n].port \in Nat
      BY <1>2, Constants DEF NoFd, NoReq, Held, Reqs, Names, Cmds
    <2>2. [i \in OwnFds |-> NoFd] \in [OwnFds -> Held]
      BY <2>1
    <2> QED BY <2>1, <2>2, <1>5 DEF Off, Procs
  <1>7. proc' = [proc EXCEPT ![n] = Q] /\ proc'[n] = Q
    BY <1>1, <1>2, <1>5 DEF Types
  <1>8. PhaseOf(n)'
    <2>1. ~Running(n)'
      BY <1>6, <1>7 DEF Running
    <2> QED BY <2>1 DEF PhaseOf
  <1>9. <<>> \in Seq(Msgs)
    BY EmptySeq
  <1> QED BY <1>1, <1>3, <1>4, <1>6, <1>7, <1>8, <1>9, OwnStep

-----------------------------------------------------------------------------
(* The theorems: no port is used again, and no program reads at the end of *)
(* a file.                                                                 *)

(* A step that changes nothing.                                            *)
LEMMA Stutter == VfsInv /\ UNCHANGED vars => VfsInv'
  <1> SUFFICES ASSUME VfsInv, UNCHANGED vars PROVE VfsInv'
    OBVIOUS
  <1>1. UNCHANGED <<conn, client, name, inq, srv, outq, proc>>
    BY DEF vars
  <1>2. \A n : /\ Due(n)' = Due(n) /\ Mail(n)' = Mail(n)
               /\ Asking(n)' = Asking(n) /\ (Running(n)' <=> Running(n))
    BY <1>1 DEF Due, Mail, Asking, Running
  <1>3. \A n : Conns(n)' = Conns(n)
    BY <1>1, ConnsKept
  <1>4. \A n \in Programs : PhaseOf(n)'
    BY <1>1, <1>2, <1>3, PhaseKept DEF VfsInv, Untouched
  <1>5. Types'
    BY <1>1 DEF VfsInv, Types
  <1>6. OnePort'
    BY <1>1 DEF VfsInv, OnePort
  <1>7. MailSound'
    BY <1>1, <1>2 DEF VfsInv, MailSound
  <1>8. Drained'
    BY <1>1, <1>2 DEF VfsInv, Drained
  <1>9. Charted'
    BY <1>1, ConnsKept DEF VfsInv
  <1> QED BY <1>4, <1>5, <1>6, <1>7, <1>8, <1>9 DEF VfsInv

(* The invariant is inductive.                                             *)
LEMMA VfsStep ==
    ASSUME ReuseIds = FALSE, ReadsToEnd = FALSE
    PROVE  VfsInv /\ [Next]_vars => VfsInv'
  <1> SUFFICES ASSUME VfsInv, [Next]_vars PROVE VfsInv'
    OBVIOUS
  <1>1. CASE serve
    BY <1>1, ServeStep
  <1>2. CASE send
    BY <1>2, SendStep
  <1>3. ASSUME NEW n \in Programs, NEW p \in PortIds, libc_init_vfs(n, p)
        PROVE  VfsInv'
    BY <1>3, Starts
  <1>4. ASSUME NEW n \in Programs, Calls(n)
        PROVE  VfsInv'
    BY <1>4, AllCalls
  <1>5. ASSUME NEW n \in Programs, takes(n)
        PROVE  VfsInv'
    BY <1>5, ReplyStep, PieceStep DEF takes
  <1>6. ASSUME NEW n \in Programs, exit(n)
        PROVE  VfsInv'
    BY <1>6, ExitStep
  <1>7. CASE UNCHANGED vars
    BY <1>7, Stutter
  <1> QED BY <1>1, <1>2, <1>3, <1>4, <1>5, <1>6, <1>7, Zenon DEF Next

(* The invariant holds.                                                    *)
THEOREM VfsSound ==
    ASSUME ReuseIds = FALSE, ReadsToEnd = FALSE
    PROVE  Spec => []VfsInv
  BY Start, VfsStep, PTL DEF Spec

(* A program that is running has its answer on the way or its command at   *)
(* the server, and nothing else.                                           *)
LEMMA InvAnswers == VfsInv => CallsAnswered
  <1> SUFFICES ASSUME VfsInv, NEW n \in Programs, Running(n)
               PROVE  CASE proc[n].state = "idle" -> Due(n) = <<>> /\ Asked(n) = {}
                        [] proc[n].state = "data" -> CutInto(Due(n), proc[n].left)
                                                     /\ Asked(n) = {}
                        [] OTHER ->
                             \/ Cardinality(Asked(n)) = 1 /\ Due(n) = <<>>
                             \/ /\ Asked(n) = {} /\ Due(n) # <<>>
                                /\ Head(Due(n)).kind = "res"
                                /\ CutInto(Tail(Due(n)),
                                           IF proc[n].req.cmd = "VFS_READ"
                                           THEN Head(Due(n)).val ELSE 0)
    BY Zenon DEF CallsAnswered
  <1>1. Phase(proc[n], name[n], Due(n), Mail(n), Conns(n))
    BY DEF VfsInv, PhaseOf
  <1>2. ~Mail(n) => Asked(n) = {}
    BY DEF Mail, Asked
  <1>3. ASSUME Mail(n)
        PROVE  Cardinality(Asked(n)) = 1
    <2>1. PICK i \in 1 .. Len(inq) : inq[i].src = proc[n].port
      BY <1>3 DEF Mail
    <2>2. Asked(n) = {i}
      BY <2>1 DEF VfsInv, MailSound, Asked
    <2> QED BY <2>2, FS_Singleton
  <1>4. CASE proc[n].state = "idle"
    BY <1>1, <1>2, <1>4 DEF Phase
  <1>5. CASE proc[n].state = "data"
    BY <1>1, <1>2, <1>5 DEF Phase
  <1>6. CASE proc[n].state = "wait"
    <2>1. Mail(n) => Due(n) = <<>>
      BY <1>1, <1>6 DEF Phase
    <2>2. ~Mail(n) => /\ Due(n) # <<>> /\ Head(Due(n)).kind = "res"
                      /\ CutInto(Tail(Due(n)), IF proc[n].req.cmd = "VFS_READ"
                                               THEN Head(Due(n)).val ELSE 0)
      BY <1>1, <1>6 DEF Phase, Replied, Owed
    <2> QED BY <2>1, <2>2, <1>2, <1>3, <1>6
  <1> QED BY <1>4, <1>5, <1>6 DEF Running

(* The server's descriptors are those of its programs.                     *)
LEMMA InvServes == VfsInv => DescriptorsServed
  <1> SUFFICES ASSUME VfsInv, NEW n \in Programs, proc[n].state = "idle"
               PROVE  /\ \A i \in OwnFds : proc[n].fds[i] # NoFd =>
                            LET f == proc[n].fds[i] IN
                            /\ ClientOf(n).ofile[f.srv_fd] = [vnode |-> f.file, o_pos |-> f.got]
                            /\ \A j \in OwnFds \ {i} : proc[n].fds[j] # NoFd =>
                                                          proc[n].fds[j].srv_fd # f.srv_fd
                      /\ \A d \in proc[n].dirs :
                            ClientOf(n).ofile[d].vnode \in {BootDir, RootDir}
    BY Zenon DEF DescriptorsServed
  <1>1. Conns(n) # {} /\ \A C \in Conns(n) : Agrees(proc[n], C, 0, {})
    <2>1. Phase(proc[n], name[n], Due(n), Mail(n), Conns(n))
      BY DEF VfsInv, PhaseOf, Running
    <2> QED BY <2>1 DEF Phase
  <1>2. PICK c \in 1 .. Len(client) : client[c].in = proc[n].port
    BY <1>1 DEF Conns
  <1>3. hashtable_lookup(conn, proc[n].port) = c
    <2>1. PICK chart : Charts(conn, chart) /\ proc[n].port \in DOMAIN chart
                       /\ chart[proc[n].port] = c
      BY <1>2 DEF VfsInv, Charted
    <2> QED BY <2>1, LookedUp
  <1>4. PICK C \in Clients : C = client[c] /\ ClientOf(n) = C
    BY <1>2, <1>3, Owners DEF ClientOf
  <1>5. Agrees(proc[n], C, 0, {})
    BY <1>1, <1>2, <1>4 DEF Conns
  <1>6. proc[n] \in Procs
    BY DEF VfsInv, Types
  <1>7. ASSUME NEW i \in OwnFds, proc[n].fds[i] # NoFd
        PROVE  /\ C.ofile[proc[n].fds[i].srv_fd]
                     = [vnode |-> proc[n].fds[i].file, o_pos |-> proc[n].fds[i].got]
               /\ \A j \in OwnFds \ {i} : proc[n].fds[j] # NoFd =>
                                             proc[n].fds[j].srv_fd # proc[n].fds[i].srv_fd
    <2>1. PICK h \in Held : h = proc[n].fds[i]
      BY <1>6 DEF Procs
    <2>2. /\ C.ofile[h.srv_fd].vnode = h.file /\ C.ofile[h.srv_fd].o_pos = h.got + 0
          /\ \A j \in OwnFds \ {i} : proc[n].fds[j] # NoFd => proc[n].fds[j].srv_fd # h.srv_fd
      BY <2>1, <1>5, <1>7 DEF Agrees
    <2>3. C.ofile[h.srv_fd] \in Ofiles /\ h.got \in Nat
      BY <2>1 DEF Clients, Held
    <2>4. C.ofile[h.srv_fd] = [vnode |-> h.file, o_pos |-> h.got]
      BY <2>2, <2>3 DEF Ofiles
    <2> QED BY <2>1, <2>2, <2>4
  <1>8. \A d \in proc[n].dirs : C.ofile[d].vnode \in {BootDir, RootDir}
    BY <1>5 DEF Agrees
  <1> QED BY <1>4, <1>7, <1>8

(* A program gets what it waits for and nothing else (vfs.c:625-656,       *)
(* libposix vfs.c:240-289), however the pieces of a read are cut, as long  *)
(* as no program reads at the end of a file, after which it is false       *)
(* (MCVfsEof.cfg), and none has the port identifier of one that ended.     *)
LEMMA AnswersBeforeEnd ==
    ASSUME ReuseIds = FALSE, ReadsToEnd = FALSE
    PROVE  Spec => []CallsAnswered
  BY VfsSound, InvAnswers, PTL

(* The descriptors of a program and those the server keeps for it agree    *)
(* (vfs.c:221-283, 320-357, fdl.c:67-138), under the same two restrictions:*)
(* the kernel does reuse identifiers (resource.c:116-118), and a program   *)
(* with that of one that ended is served what is left there (MCVfsStale).  *)
LEMMA DescriptorsOfNewIds ==
    ASSUME ReuseIds = FALSE, ReadsToEnd = FALSE
    PROVE  Spec => []DescriptorsServed
  BY VfsSound, InvServes, PTL

=============================================================================
