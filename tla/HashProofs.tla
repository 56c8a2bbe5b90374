----------------------------- MODULE HashProofs -----------------------------
(***************************************************************************)
(* Proofs about Hash and the table that MCHash drives.                     *)
(***************************************************************************)
EXTENDS MCHash, FiniteSetTheorems, FunctionTheorems, WellFoundedInduction, TLAPS

-----------------------------------------------------------------------------
(* Numbers.                                                                *)

(* A set of naturals that is not empty has a least element.                *)
LEMMA LeastNatural ==
    ASSUME NEW T \in SUBSET Nat, T # {}
    PROVE  \E x \in T : \A y \in T : x <= y
  <1> DEFINE R == OpToRel(<, Nat)
  <1>1. IsWellFoundedOn(R, Nat)
    BY NatLessThanWellFounded
  <1>2. \A x, y \in Nat : y < x => <<y, x>> \in R
    BY DEF OpToRel
  <1> HIDE DEF R
  <1>3. PICK x \in T : \A y \in T : ~(<<y, x>> \in R)
    BY <1>1, WFMin
  <1>4. \A y \in T : x \in Nat /\ y \in Nat /\ ~(y < x)
    BY <1>2, <1>3
  <1> QED BY <1>4

(* A set that holds 0 and with each number the next holds all of them.     *)
LEMMA Induction ==
    ASSUME NEW B, 0 \in B, \A n \in Nat : n \in B => n + 1 \in B
    PROVE  Nat \subseteq B
  <1> DEFINE T == Nat \ B
  <1>1. SUFFICES ASSUME T # {}
                 PROVE  FALSE
    OBVIOUS
  <1>2. PICK x \in T : \A y \in T : x <= y
    BY <1>1, LeastNatural
  <1>3. x # 0 /\ x - 1 \in Nat /\ x - 1 \notin T
    BY <1>2
  <1> QED BY <1>2, <1>3

(* Division with a remainder.                                              *)
LEMMA Divides ==
    ASSUME NEW a \in Int, NEW p \in Nat \ {0}
    PROVE  \E q \in Int, x \in 0 .. p - 1 : x = a % p /\ a = p * q + x
  <1>1. a % p \in 0 .. p - 1 /\ a \div p \in Int
    OBVIOUS
  <1>2. a = p * (a \div p) + (a % p)
    OBVIOUS
  <1> QED BY <1>1, <1>2

(* What HashAssumption asks of a size.                                     *)
Prime(p) == p \in Nat \ {0, 1} /\ \A d \in 2 .. p - 1 : p % d # 0

(* A prime divides no product of smaller numbers (Euclid).                 *)
LEMMA Euclid ==
    ASSUME NEW p, Prime(p), NEW r \in 1 .. p - 1, NEW n \in 1 .. p - 1, NEW c \in Int
    PROVE  n * r # p * c
  <1>1. p \in Nat \ {0, 1} /\ r \in Int
    BY DEF Prime
  <1> DEFINE T == {d \in 1 .. p : \E q \in Int : d * r = p * q}
  <1>2. T \in SUBSET Nat /\ p \in T
    BY <1>1
  <1>3. PICK d \in T : \A e \in T : d <= e
    BY <1>2, LeastNatural
  <1>4. PICK b \in Int : d * r = p * b
    BY <1>3
  <1>5. d \in 1 .. p /\ d \in Nat \ {0}
    BY <1>1, <1>3
  <1>6. PICK q \in Int, s \in 0 .. d - 1 : s = p % d /\ p = d * q + s
    BY <1>1, <1>5, Divides
  <1>7. s * r = p * (r - q * b)
    <2>1. s * r = (p - d * q) * r
      BY <1>1, <1>5, <1>6
    <2>2. (p - d * q) * r = p * r - q * (d * r)
      BY <1>1, <1>5, <1>6
    <2>3. q * (p * b) = p * (q * b)
      BY <1>1, <1>4, <1>6
    <2>4. p * (r - q * b) = p * r - p * (q * b)
      BY <1>1, <1>4, <1>6
    <2> QED BY <2>1, <2>2, <2>3, <2>4, <1>4
  <1>8. s = 0
    <2>1. PICK z \in Int : z = r - q * b
      BY <1>1, <1>4, <1>6
    <2>2. s # 0 => s \in T
      <3>1. s # 0 => s \in 1 .. p
        BY <1>1, <1>5, <1>6
      <3>2. s * r = p * z
        BY <2>1, <1>7
      <3> QED BY <3>1, <3>2
    <2>3. s \in T => d <= s
      BY <1>3
    <2> QED BY <2>2, <2>3, <1>5, <1>6
  <1>9. d \notin 2 .. p - 1
    BY <1>6, <1>8 DEF Prime
  <1>10. d # 1
    <2>1. SUFFICES ASSUME d = 1
                   PROVE  FALSE
      OBVIOUS
    <2>2. r = p * b
      BY <2>1, <1>1, <1>4
    <2>3. b >= 1 => p * b >= p
      BY <1>1, <1>4
    <2>4. b <= 0 => p * b <= 0
      BY <1>1, <1>4
    <2> QED BY <2>2, <2>3, <2>4, <1>1, <1>4
  <1>11. d = p
    BY <1>1, <1>5, <1>9, <1>10
  <1>12. n \notin T
    BY <1>1, <1>3, <1>11
  <1> QED BY <1>12, <1>1

(* So the first p probes of a key are at different places.                 *)
LEMMA ProbesDiffer ==
    ASSUME NEW p, Prime(p), NEW h \in Int, NEW r \in 1 .. p - 1,
           NEW m \in 0 .. p - 1, NEW n \in 0 .. p - 1,
           (h - m * r) % p = (h - n * r) % p, m < n
    PROVE  FALSE
  <1>1. p \in Nat \ {0, 1} /\ p \in Nat \ {0} /\ r \in Int /\ m \in Int /\ n \in Int
    BY DEF Prime
  <1>2. m * r \in Int /\ n * r \in Int /\ h - m * r \in Int /\ h - n * r \in Int
    BY <1>1
  <1>3. PICK a \in Int, x \in 0 .. p - 1 : x = (h - m * r) % p /\ h - m * r = p * a + x
    BY <1>1, <1>2, Divides
  <1>4. PICK b \in Int, y \in 0 .. p - 1 : y = (h - n * r) % p /\ h - n * r = p * b + y
    BY <1>1, <1>2, Divides
  <1>5. (n - m) * r = n * r - m * r
    BY <1>1
  <1>6. p * (a - b) = p * a - p * b /\ p * a \in Int /\ p * b \in Int
    BY <1>1, <1>3, <1>4
  <1>7. (n - m) * r = p * (a - b)
    BY <1>2, <1>3, <1>4, <1>5, <1>6
  <1>8. n - m \in 1 .. p - 1 /\ a - b \in Int
    BY <1>1, <1>3, <1>4
  <1> QED BY <1>7, <1>8, Euclid

-----------------------------------------------------------------------------
(* A table.                                                                *)

(* Every size is a prime, odd as it is not 2, and the next is larger.      *)
LEMMA Sizes ==
    /\ Len(TableSizes) \in Nat \ {0}
    /\ \A x \in 1 .. Len(TableSizes) :
          Prime(TableSizes[x]) /\ TableSizes[x] \in Nat /\ TableSizes[x] > 4
    /\ \A x \in 1 .. Len(TableSizes) - 1 : TableSizes[x] + 1 < TableSizes[x + 1]
  <1>1. Len(TableSizes) \in Nat \ {0}
    BY HashAssumption
  <1>2. ASSUME NEW x \in 1 .. Len(TableSizes)
        PROVE  Prime(TableSizes[x]) /\ TableSizes[x] \in Nat /\ TableSizes[x] > 4
    <2>1. TableSizes[x] \in Nat
      BY HashAssumption
    <2> QED BY <2>1, HashAssumption DEF Prime
  <1>3. ASSUME NEW x \in 1 .. Len(TableSizes)
        PROVE  TableSizes[x] % 2 # 0
    BY <1>2 DEF Prime
  <1>4. ASSUME NEW x \in 1 .. Len(TableSizes) - 1
        PROVE  TableSizes[x] + 1 < TableSizes[x + 1]
    <2>1. PICK p, q : p = TableSizes[x] /\ q = TableSizes[x + 1]
      OBVIOUS
    <2>2. x \in 1 .. Len(TableSizes) /\ x + 1 \in 1 .. Len(TableSizes)
      BY <1>1
    <2>3. p \in Nat /\ q \in Nat /\ p % 2 # 0 /\ q % 2 # 0 /\ p < q
      BY <1>2, <1>3, <2>1, <2>2, HashAssumption
    <2> QED BY <2>1, <2>3
  <1> QED BY <1>1, <1>2, <1>4

(* Its slots and their contents, with data from D.                         *)
Slots(t_) == 0 .. Size(t_) - 1
Nodes(D)  == [valid : BOOLEAN, dirty : BOOLEAN, key : Nat, data : D]
Typed(t_, D) ==
    /\ t_ = [size_index |-> t_.size_index, used |-> t_.used, dirty |-> t_.dirty,
             table |-> t_.table]
    /\ t_.size_index \in 1 .. Len(TableSizes) /\ t_.used \in Nat /\ t_.dirty \in Nat
    /\ t_.table \in [Slots(t_) -> Nodes(D)]

(* Where the probes of a key lead: to every slot, to each once.            *)
LEMMA Probes ==
    ASSUME NEW u, u.size_index \in 1 .. Len(TableSizes), NEW key \in Nat
    PROVE  /\ Size(u) \in Nat /\ Size(u) > 4 /\ IsFiniteSet(Slots(u))
           /\ Cardinality(Slots(u)) = Size(u)
           /\ \A n \in Nat : Probe(u, key, n) \in Slots(u)
           /\ Probe(u, key, 0) = hash(u, key) /\ Probe(u, key, Size(u)) = hash(u, key)
           /\ \A m, n \in Slots(u) : Probe(u, key, m) = Probe(u, key, n) => m = n
           /\ \A i \in Slots(u) : \E n \in Slots(u) : Probe(u, key, n) = i
  <1>1. PICK p : p = Size(u)
    OBVIOUS
  <1>2. Prime(p) /\ p \in Nat /\ p > 4
    BY <1>1, Sizes DEF Size
  <1>3. IsFiniteSet(Slots(u)) /\ Cardinality(Slots(u)) = p
    <2>1. Cardinality(0 .. p - 1) = (p - 1) - 0 + 1
      BY <1>2, FS_Interval
    <2>2. IsFiniteSet(0 .. p - 1)
      BY <1>2, FS_Interval
    <2> QED BY <2>1, <2>2, <1>1, <1>2 DEF Slots
  <1>4. PICK h \in 0 .. p - 1 : h = hash(u, key) /\ h = key % p
    BY <1>1, <1>2 DEF hash
  <1>5. PICK r \in 1 .. p - 1 : r = rehash(u, key)
    <2>1. key % (p - 2) \in 0 .. p - 3
      BY <1>2
    <2> QED BY <2>1, <1>1, <1>2 DEF rehash
  <1>6. \A n \in Nat : Probe(u, key, n) = (h - n * r) % p
    BY <1>1, <1>4, <1>5 DEF Probe
  <1>7. \A n \in Nat : Probe(u, key, n) \in 0 .. p - 1
    <2>1. ASSUME NEW n \in Nat
          PROVE  (h - n * r) % p \in 0 .. p - 1
      <3>1. PICK z \in Int : z = h - n * r
        BY <1>2, <1>4, <1>5
      <3>2. z % p \in 0 .. p - 1
        BY <1>2
      <3> QED BY <3>1, <3>2
    <2> QED BY <2>1, <1>6
  <1>8. Probe(u, key, 0) = h
    <2>1. h - 0 * r = h /\ h % p = h
      BY <1>2, <1>4, <1>5
    <2> QED BY <2>1, <1>6
  <1>9. Probe(u, key, p) = h
    <2>1. PICK a \in Int, x \in 0 .. p - 1 : x = (h - p * r) % p /\ h - p * r = p * a + x
      <3>1. h - p * r \in Int /\ p \in Nat \ {0}
        BY <1>2, <1>4, <1>5
      <3> QED BY <3>1, Divides
    <2>2. h - x = p * (a + r)
      <3>1. p * (a + r) = p * a + p * r
        BY <2>1, <1>2, <1>5
      <3>2. PICK y \in Int, z \in Int : y = p * a /\ z = p * r
        BY <2>1, <1>2, <1>5
      <3>3. h - z = y + x
        BY <3>2, <2>1
      <3>4. h - x = y + z
        <4>1. h \in Int /\ x \in Int
          BY <1>2, <1>4, <2>1
        <4> QED BY SMTT(60), <4>1, <3>2, <3>3
      <3> QED BY <3>1, <3>2, <3>4
    <2>3. PICK c \in Int : c = a + r
      BY <2>1, <1>2, <1>5
    <2>4. h - x \in -(p - 1) .. p - 1 /\ h - x = p * c
      BY SMTT(60), <2>1, <2>2, <2>3, <1>2, <1>4
    <2>5. c = 0
      <3>1. c >= 1 => p * c >= p
        BY <1>2
      <3>2. c <= -1 => p * c <= -p
        BY <1>2
      <3> QED BY <3>1, <3>2, <2>4, <1>2
    <2>6. h - x = 0
      BY <2>4, <2>5, <1>2
    <2> QED BY <2>1, <2>6, <1>2, <1>4, <1>6
  <1>10. ASSUME NEW m \in 0 .. p - 1, NEW n \in 0 .. p - 1,
                Probe(u, key, m) = Probe(u, key, n)
         PROVE  m = n
    <2>1. (h - m * r) % p = (h - n * r) % p
      BY <1>2, <1>6, <1>10
    <2>2. h \in Int
      BY <1>4
    <2>3. ~(m < n)
      BY <2>1, <2>2, <1>2, ProbesDiffer
    <2>4. ~(n < m)
      BY <2>1, <2>2, <1>2, ProbesDiffer
    <2> QED BY <2>3, <2>4, <1>2
  <1>11. ASSUME NEW i \in 0 .. p - 1
         PROVE  \E n \in 0 .. p - 1 : Probe(u, key, n) = i
    <2> DEFINE S == 0 .. p - 1
               g == [n \in S |-> Probe(u, key, n)]
    <2>1. g \in Injection(S, S)
      <3>1. S \subseteq Nat
        BY <1>2
      <3>2. \A n \in S : Probe(u, key, n) \in S
        BY <3>1, <1>7
      <3>3. g \in [S -> S]
        BY <3>2
      <3>4. \A a, b \in S : g[a] = g[b] => a = b
        BY <1>10
      <3> QED BY <3>3, <3>4, Fun_IsInj
    <2>2. IsFiniteSet(S)
      BY <1>2, FS_Interval
    <2>3. g \in Surjection(S, S)
      BY <2>1, <2>2, FS_Injection
    <2> QED BY <2>3 DEF Surjection
  <1> QED BY <1>1, <1>2, <1>3, <1>4, <1>7, <1>8, <1>9, <1>10, <1>11 DEF Slots

(* The slots that are taken, of which some are of removed keys and the     *)
(* others hold the keys of the table.                                      *)
Taken(t_)   == {i \in Slots(t_) : t_.table[i].valid}
Removed(t_) == {i \in Slots(t_) : t_.table[i].valid /\ t_.table[i].dirty}
LiveAt(t_)  == {i \in Slots(t_) : IsLive(t_.table[i])}

(* A search for key comes to slot i: the probes before it are taken.       *)
CanReach(t_, key, i) ==
    \E n \in Slots(t_) : /\ Probe(t_, key, n) = i
                         /\ \A k \in 0 .. n - 1 : t_.table[Probe(t_, key, k)].valid

(* The invariant of a table.                                               *)
Marked(t_)  == \A i \in Slots(t_) : t_.table[i].dirty => t_.table[i].valid
Reached(t_) == \A i \in LiveAt(t_) : CanReach(t_, t_.table[i].key, i)
Unique(t_)  == \A i, j \in LiveAt(t_) : t_.table[i].key = t_.table[j].key => i = j
Counted(t_) ==
    /\ Cardinality(Taken(t_)) = t_.used /\ 4 * t_.used <= 3 * Size(t_) + 4
    /\ Cardinality(Removed(t_)) <= t_.dirty
Same(t_, f) ==
    /\ \A i \in LiveAt(t_) : /\ t_.table[i].key \in DOMAIN f
                             /\ f[t_.table[i].key] = t_.table[i].data
    /\ \A key \in DOMAIN f : \E i \in LiveAt(t_) : t_.table[i].key = key

(* Table t_ holds the function f from keys to data in D.                   *)
Holds(t_, f, D) ==
    /\ Typed(t_, D) /\ Marked(t_) /\ Reached(t_) /\ Unique(t_) /\ Counted(t_)
    /\ f = [key \in DOMAIN f |-> f[key]] /\ DOMAIN f \subseteq Nat /\ Same(t_, f)

With(f, key, data) == [k \in DOMAIN f \cup {key} |-> IF k = key THEN data ELSE f[k]]
Without(f, key)    == [k \in DOMAIN f \ {key} |-> f[k]]

(* Where a key is probed depends on the size only.                         *)
LEMMA SameProbes ==
    ASSUME NEW u, NEW v, u.size_index = v.size_index
    PROVE  /\ Size(v) = Size(u) /\ Slots(v) = Slots(u)
           /\ \A key : hash(v, key) = hash(u, key)
           /\ \A key, n : Probe(v, key, n) = Probe(u, key, n)
  <1>1. Size(v) = Size(u)
    BY DEF Size
  <1>2. Slots(v) = Slots(u)
    BY <1>1 DEF Slots
  <1>3. \A key : hash(v, key) = hash(u, key)
    BY <1>1 DEF hash
  <1>4. \A key : rehash(v, key) = rehash(u, key)
    BY <1>1 DEF rehash
  <1>5. \A key, n : Probe(v, key, n) = Probe(u, key, n)
    BY <1>1, <1>3, <1>4, Zenon DEF Probe
  <1> QED BY <1>1, <1>2, <1>3, <1>5

(* What a slot holds.                                                      *)
LEMMA NodeIs ==
    ASSUME NEW u, NEW D, Typed(u, D), NEW i \in Slots(u)
    PROVE  u.table[i] \in Nodes(D) /\ u.table[i].valid \in BOOLEAN
           /\ u.table[i].dirty \in BOOLEAN /\ u.table[i].key \in Nat
           /\ u.table[i].data \in D
  <1>1. u.table[i] \in Nodes(D)
    BY DEF Typed
  <1> QED BY <1>1 DEF Nodes

(* The sets of slots are finite, and the live ones are those that are      *)
(* taken and not of a removed key.                                         *)
LEMMA SlotSets ==
    ASSUME NEW u, NEW D, Typed(u, D)
    PROVE  /\ IsFiniteSet(Taken(u)) /\ Cardinality(Taken(u)) \in Nat
           /\ IsFiniteSet(Removed(u)) /\ Cardinality(Removed(u)) \in Nat
           /\ IsFiniteSet(LiveAt(u)) /\ Cardinality(LiveAt(u)) \in Nat
           /\ Cardinality(Taken(u)) = Cardinality(LiveAt(u)) + Cardinality(Removed(u))
  <1>1. IsFiniteSet(Slots(u))
    <2>1. u.size_index \in 1 .. Len(TableSizes) /\ 0 \in Nat
      BY DEF Typed
    <2> QED BY <2>1, Probes
  <1>2. Taken(u) \in SUBSET Slots(u) /\ LiveAt(u) \in SUBSET Slots(u)
        /\ Removed(u) \in SUBSET Slots(u)
    BY DEF Taken, LiveAt, Removed
  <1>3. IsFiniteSet(Taken(u)) /\ IsFiniteSet(LiveAt(u)) /\ IsFiniteSet(Removed(u))
    BY <1>1, <1>2, FS_Subset
  <1>4. Cardinality(Taken(u)) \in Nat /\ Cardinality(LiveAt(u)) \in Nat
        /\ Cardinality(Removed(u)) \in Nat
    BY <1>3, FS_CardinalityType
  <1>5. Taken(u) = LiveAt(u) \cup Removed(u)
    BY NodeIs DEF Taken, LiveAt, Removed, IsLive
  <1>6. LiveAt(u) \cap Removed(u) = {}
    BY DEF LiveAt, Removed, IsLive
  <1>7. Cardinality(LiveAt(u) \cup Removed(u))
          = Cardinality(LiveAt(u)) + Cardinality(Removed(u))
            - Cardinality(LiveAt(u) \cap Removed(u))
    BY <1>3, FS_Union
  <1>8. Cardinality(LiveAt(u) \cap Removed(u)) = 0
    BY <1>6, FS_EmptySet
  <1> QED BY <1>3, <1>4, <1>5, <1>7, <1>8

(* As many keys as live slots.                                             *)
LEMMA LiveCount ==
    ASSUME NEW u, NEW f, NEW D, Holds(u, f, D)
    PROVE  /\ IsFiniteSet(DOMAIN f) /\ Cardinality(DOMAIN f) \in Nat
           /\ Cardinality(LiveAt(u)) = Cardinality(DOMAIN f)
           /\ u.used <= Cardinality(DOMAIN f) + u.dirty
           /\ Cardinality(DOMAIN f) <= u.used
  <1> DEFINE g == [i \in LiveAt(u) |-> u.table[i].key]
  <1>1. Typed(u, D) /\ Unique(u) /\ Same(u, f)
    BY DEF Holds
  <1>2. Cardinality(Taken(u)) = u.used /\ Cardinality(Removed(u)) <= u.dirty
        /\ u.used \in Nat /\ u.dirty \in Nat
    BY DEF Holds, Counted, Typed
  <1>3. g \in [LiveAt(u) -> DOMAIN f]
    BY <1>1 DEF Same
  <1>4. g \in Surjection(LiveAt(u), DOMAIN f)
    <2>1. \A key \in DOMAIN f : \E i \in LiveAt(u) : g[i] = key
      BY <1>1 DEF Same
    <2> QED BY <1>3, <2>1, Fun_IsSurj
  <1>5. g \in Injection(LiveAt(u), DOMAIN f)
    <2>1. \A i, j \in LiveAt(u) : g[i] = g[j] => i = j
      BY <1>1 DEF Unique
    <2> QED BY <1>3, <2>1, Fun_IsInj
  <1>6. IsFiniteSet(LiveAt(u))
    BY <1>1, SlotSets
  <1>7. IsFiniteSet(DOMAIN f) /\ Cardinality(DOMAIN f) = Cardinality(LiveAt(u))
    BY <1>4, <1>5, <1>6, FS_Surjection
  <1>8. Cardinality(DOMAIN f) \in Nat
    BY <1>7, FS_CardinalityType
  <1>9. Cardinality(Taken(u)) = Cardinality(LiveAt(u)) + Cardinality(Removed(u))
        /\ Cardinality(Removed(u)) \in Nat
    BY <1>1, SlotSets
  <1> QED BY <1>2, <1>7, <1>8, <1>9

(* There is always a slot that was never used, and every key comes to it.  *)
LEMMA FreeSlot ==
    ASSUME NEW u, NEW f, NEW D, Holds(u, f, D), NEW key \in Nat
    PROVE  \E n \in Slots(u) : ~NodeAt(u, key, n).valid
  <1>1. Typed(u, D) /\ u.size_index \in 1 .. Len(TableSizes)
        /\ 4 * Cardinality(Taken(u)) <= 3 * Size(u) + 4
    BY DEF Holds, Counted, Typed
  <1>2. Cardinality(Slots(u)) = Size(u) /\ Size(u) \in Nat /\ Size(u) > 4
        /\ Cardinality(Taken(u)) \in Nat
    BY <1>1, Probes, SlotSets
  <1>3. Taken(u) # Slots(u)
    BY <1>1, <1>2
  <1>4. PICK i \in Slots(u) : ~u.table[i].valid
    BY <1>3 DEF Taken
  <1>5. \A j \in Slots(u) : \E n \in Slots(u) : Probe(u, key, n) = j
    BY <1>1, Probes
  <1>6. PICK n \in Slots(u) : Probe(u, key, n) = i
    BY <1>5
  <1> QED BY <1>4, <1>6 DEF NodeAt

(* An insertion finds a free slot, that a search for its key comes to.     *)
LEMMA SlotIs ==
    ASSUME NEW u, NEW f, NEW D, Holds(u, f, D), NEW key \in Nat
    PROVE  \E i \in Slots(u) :
              i = SlotFor(u, key) /\ Open(u.table[i]) /\ CanReach(u, key, i)
  <1>1. u.size_index \in 1 .. Len(TableSizes) /\ Typed(u, D)
    BY DEF Holds, Typed
  <1>2. Size(u) \in Nat /\ Size(u) > 4
    BY <1>1, Probes
  <1>3. Probe(u, key, 0) = hash(u, key) /\ Probe(u, key, Size(u)) = hash(u, key)
    BY <1>1, Probes
  <1>4. \A n \in Nat : Probe(u, key, n) \in Slots(u)
    BY <1>1, Probes
  <1>5. 0 \in Slots(u) /\ Slots(u) \subseteq Nat
    BY <1>2 DEF Slots
  <1>6. CanReach(u, key, hash(u, key))
    <2>1. \A k \in 0 .. 0 - 1 : u.table[Probe(u, key, k)].valid
      OBVIOUS
    <2> QED BY <2>1, <1>3, <1>5 DEF CanReach
  <1>7. CASE ~u.table[hash(u, key)].valid
    <2>1. SlotFor(u, key) = hash(u, key)
      BY <1>7 DEF SlotFor
    <2>2. hash(u, key) \in Slots(u)
      BY <1>3, <1>4
    <2>3. Open(u.table[hash(u, key)])
      BY <1>7 DEF Open
    <2> QED BY <2>1, <2>2, <2>3, <1>6
  <1>8. CASE u.table[hash(u, key)].valid
    <2> DEFINE R == 1 .. Size(u)
               T == {n \in R : Open(NodeAt(u, key, n))}
    <2>1. PICK m \in Slots(u) : ~NodeAt(u, key, m).valid
      BY FreeSlot
    <2>2. m # 0
      BY <2>1, <1>3, <1>8 DEF NodeAt
    <2>3. m \in R
      BY <2>2, <1>2 DEF Slots
    <2>4. m \in T
      BY <2>1, <2>3 DEF Open
    <2>5. T \in SUBSET Nat
      BY <1>2
    <2>6. PICK z \in T : \A y \in T : z <= y
      BY <2>4, <2>5, LeastNatural
    <2>7. \A k \in R : k < z => ~Open(NodeAt(u, key, k))
      BY <2>6, <2>5, <1>2
    <2>8. PICK n \in R : /\ n = First(u, key, R, Open)
                         /\ Open(NodeAt(u, key, n))
                         /\ \A k \in R : k < n => ~Open(NodeAt(u, key, k))
      <3> HIDE DEF R
      <3>1. \E n \in R : /\ Open(NodeAt(u, key, n))
                         /\ \A k \in R : k < n => ~Open(NodeAt(u, key, k))
        BY <2>6, <2>7
      <3> QED BY <3>1, Zenon DEF First
    <2>9. SlotFor(u, key) = Probe(u, key, n)
      BY <1>8, <2>8 DEF SlotFor
    <2>10. n \in Nat /\ Probe(u, key, n) \in Slots(u)
      BY <1>2, <1>4
    <2>11. Open(u.table[Probe(u, key, n)])
      BY <2>8 DEF NodeAt
    <2>12. CanReach(u, key, Probe(u, key, n))
      <3>1. CASE n = Size(u)
        BY <3>1, <1>3, <1>6
      <3>2. CASE n # Size(u)
        <4>1. n \in Slots(u)
          BY <3>2, <1>2 DEF Slots
        <4>2. ASSUME NEW k \in 0 .. n - 1
              PROVE  u.table[Probe(u, key, k)].valid
          <5>1. CASE k = 0
            BY <5>1, <1>3, <1>8
          <5>2. CASE k # 0
            <6>1. k \in R /\ k < n
              BY <5>2, <1>2, <2>10
            <6>2. ~Open(NodeAt(u, key, k))
              BY <6>1, <2>8
            <6> QED BY <6>2 DEF Open, NodeAt
          <5> QED BY <5>1, <5>2
        <4> QED BY <4>1, <4>2 DEF CanReach
      <3> QED BY <3>1, <3>2
    <2> QED BY <2>9, <2>10, <2>11, <2>12
  <1> QED BY <1>7, <1>8

(* A key that is not there is added by an insertion, with its data.        *)
LEMMA PlaceHolds ==
    ASSUME NEW u, NEW f, NEW D, Holds(u, f, D), ~Overloaded(u),
           NEW key \in Nat, key \notin DOMAIN f, NEW data \in D
    PROVE  \E v : /\ v = place(u, key, data) /\ Holds(v, With(f, key, data), D)
                  /\ v.size_index = u.size_index /\ v.dirty = u.dirty
  <1> DEFINE g == With(f, key, data)
             node == [valid |-> TRUE, dirty |-> FALSE, key |-> key, data |-> data]
  <1>1. PICK i \in Slots(u) :
           i = SlotFor(u, key) /\ Open(u.table[i]) /\ CanReach(u, key, i)
    BY SlotIs
  <1>2. PICK d : d = u.table[i].dirty
    OBVIOUS
  <1>3. PICK v : v = place(u, key, data)
    OBVIOUS
  <1>4. Typed(u, D) /\ Marked(u) /\ Reached(u) /\ Unique(u) /\ Counted(u) /\ Same(u, f)
        /\ DOMAIN f \subseteq Nat
    BY DEF Holds
  <1>5. v = [u EXCEPT !.used = @ + (IF d THEN 0 ELSE 1), !.table[i] = node]
    BY <1>1, <1>2, <1>3 DEF place
  <1>6. v = [size_index |-> v.size_index, used |-> v.used, dirty |-> v.dirty,
             table |-> v.table]
        /\ v.size_index = u.size_index /\ v.dirty = u.dirty
        /\ v.used = u.used + (IF d THEN 0 ELSE 1)
        /\ v.table = [u.table EXCEPT ![i] = node]
    BY <1>4, <1>5 DEF Typed
  <1>7. Size(v) = Size(u) /\ Slots(v) = Slots(u)
        /\ \A k, n : Probe(v, k, n) = Probe(u, k, n)
    BY <1>6, SameProbes
  <1>8. node \in Nodes(D)
    BY DEF Nodes
  <1>9. Typed(v, D)
    <2>1. u.table \in [Slots(u) -> Nodes(D)]
      BY <1>4 DEF Typed
    <2>2. v.table \in [Slots(v) -> Nodes(D)]
      BY <2>1, <1>6, <1>7, <1>8
    <2>3. v.used \in Nat /\ v.dirty \in Nat /\ v.size_index \in 1 .. Len(TableSizes)
      BY <1>4, <1>6 DEF Typed
    <2> QED BY <2>2, <2>3, <1>6 DEF Typed
  <1>10. v.table[i] = node /\ \A j \in Slots(u) \ {i} : v.table[j] = u.table[j]
    BY <1>1, <1>4, <1>6 DEF Typed
  <1>11. d \in BOOLEAN /\ (d => u.table[i].valid) /\ ~IsLive(u.table[i])
         /\ (~d => ~u.table[i].valid)
    BY <1>1, <1>2, <1>4, NodeIs DEF Marked, Open, IsLive
  <1>12. \A j \in Slots(u) : u.table[j].valid => v.table[j].valid
    BY <1>10
  <1>13. \A k \in Nat, j \in Slots(u) : CanReach(u, k, j) => CanReach(v, k, j)
    <2>1. ASSUME NEW k \in Nat, NEW n \in Slots(u), NEW m \in 0 .. n - 1,
                 u.table[Probe(u, k, m)].valid
          PROVE  v.table[Probe(u, k, m)].valid
      <3>1. Size(u) \in Nat /\ \A x \in Nat : Probe(u, k, x) \in Slots(u)
        BY <1>4, Probes DEF Typed
      <3>2. m \in Nat
        BY <3>1 DEF Slots
      <3> QED BY <3>1, <3>2, <2>1, <1>12
    <2>2. ASSUME NEW k \in Nat, NEW j \in Slots(u), NEW n \in Slots(u),
                 Probe(u, k, n) = j,
                 \A m \in 0 .. n - 1 : u.table[Probe(u, k, m)].valid
          PROVE  CanReach(v, k, j)
      <3>1. \A m \in 0 .. n - 1 : v.table[Probe(v, k, m)].valid
        BY <2>1, <2>2, <1>7
      <3>2. n \in Slots(v) /\ Probe(v, k, n) = j
        BY <2>2, <1>7
      <3> QED BY <3>1, <3>2 DEF CanReach
    <2> QED BY <2>2 DEF CanReach
  <1>14. LiveAt(v) = LiveAt(u) \cup {i} /\ i \notin LiveAt(u)
    BY <1>1, <1>7, <1>10, <1>11 DEF LiveAt, IsLive
  <1>15. Taken(v) = Taken(u) \cup {i}
    BY <1>1, <1>7, <1>10 DEF Taken
  <1>16. Removed(v) \in SUBSET Removed(u)
    BY <1>7, <1>10 DEF Removed
  <1>17. Marked(v)
    BY <1>4, <1>7, <1>10 DEF Marked
  <1>18. \A j \in LiveAt(u) : j \in Slots(u) /\ v.table[j] = u.table[j]
    BY <1>10, <1>14 DEF LiveAt
  <1>19. Reached(v)
    <2>1. ASSUME NEW j \in LiveAt(u)
          PROVE  CanReach(v, v.table[j].key, j)
      <3>1. CanReach(u, u.table[j].key, j)
        BY <1>4 DEF Reached
      <3>2. u.table[j].key \in Nat /\ j \in Slots(u)
        BY <1>4, <1>18, NodeIs
      <3> QED BY <3>1, <3>2, <1>13, <1>18
    <2>2. CanReach(v, v.table[i].key, i)
      BY <1>1, <1>10, <1>13
    <2> QED BY <2>1, <2>2, <1>14 DEF Reached
  <1>20. \A j \in LiveAt(u) : v.table[j].key # key
    BY <1>4, <1>18 DEF Same
  <1>21. Unique(v)
    BY <1>4, <1>10, <1>14, <1>18, <1>20 DEF Unique
  <1>22. Counted(v)
    <2>1. Cardinality(Taken(u)) = u.used /\ u.used \in Nat /\ v.used \in Nat
          /\ Cardinality(Removed(u)) <= u.dirty /\ Size(u) \in Nat /\ u.dirty \in Nat
      <3>1. Size(u) \in Nat
        BY <1>4, Probes DEF Typed
      <3> QED BY <3>1, <1>4, <1>9 DEF Counted, Typed
    <2>2. IsFiniteSet(Taken(u)) /\ IsFiniteSet(Removed(u))
          /\ Cardinality(Removed(u)) \in Nat /\ Cardinality(Removed(v)) \in Nat
      BY <1>4, <1>9, SlotSets
    <2>3. Cardinality(Removed(v)) <= Cardinality(Removed(u))
      BY <2>2, <1>16, FS_Subset
    <2>4. Cardinality(Taken(v))
            = IF i \in Taken(u) THEN Cardinality(Taken(u)) ELSE Cardinality(Taken(u)) + 1
      BY <2>2, <1>15, FS_AddElement
    <2>5. (d => i \in Taken(u)) /\ (~d => i \notin Taken(u))
      BY <1>1, <1>11 DEF Taken
    <2>6. Cardinality(Taken(v)) = v.used /\ v.used <= u.used + 1
      BY <2>1, <2>4, <2>5, <1>6, <1>11
    <2>7. Cardinality(Removed(v)) <= v.dirty
      BY <2>1, <2>2, <2>3, <1>6
    <2>8. 4 * v.used <= 3 * Size(v) + 4
      <3>1. 4 * u.used <= 3 * Size(u)
        BY <2>1 DEF Overloaded
      <3> QED BY <3>1, <2>1, <2>6, <1>7
    <2> QED BY <2>6, <2>7, <2>8 DEF Counted
  <1>23. DOMAIN g = DOMAIN f \cup {key} /\ g[key] = data
         /\ \A k \in DOMAIN f : g[k] = f[k]
    BY DEF With
  <1>24. g = [k \in DOMAIN g |-> g[k]] /\ DOMAIN g \subseteq Nat
    <2>1. g = [k \in DOMAIN g |-> g[k]]
      BY DEF With
    <2> QED BY <2>1, <1>4, <1>23
  <1> HIDE DEF g
  <1>25. Same(v, g)
    <2>1. ASSUME NEW j \in LiveAt(u)
          PROVE  v.table[j].key \in DOMAIN g /\ g[v.table[j].key] = v.table[j].data
      BY <1>4, <1>18, <1>23 DEF Same
    <2>2. v.table[i].key \in DOMAIN g /\ g[v.table[i].key] = v.table[i].data
      BY <1>10, <1>23
    <2>3. ASSUME NEW k \in DOMAIN f
          PROVE  \E j \in LiveAt(v) : v.table[j].key = k
      <3>1. PICK j \in LiveAt(u) : u.table[j].key = k
        BY <1>4 DEF Same
      <3> QED BY <3>1, <1>14, <1>18
    <2>4. \E j \in LiveAt(v) : v.table[j].key = key
      BY <1>10, <1>14
    <2> QED BY <2>1, <2>2, <2>3, <2>4, <1>14, <1>23 DEF Same
  <1>26. Holds(v, g, D)
    BY <1>9, <1>17, <1>19, <1>21, <1>22, <1>24, <1>25 DEF Holds
  <1>27. v.size_index = u.size_index /\ v.dirty = u.dirty
    BY <1>6
  <1> QED BY <1>3, <1>26, <1>27 DEF g

(* Every search ends: at the key, when the table holds it, and else at a   *)
(* slot never used.                                                        *)
LEMMA EndIs ==
    ASSUME NEW u, NEW f, NEW D, Holds(u, f, D), NEW key \in Nat
    PROVE  /\ Ends(u, key)
           /\ \E i \in Slots(u) :
                 /\ i = EndOf(u, key)
                 /\ key \in DOMAIN f => i \in LiveAt(u) /\ u.table[i].key = key
                 /\ key \notin DOMAIN f => ~u.table[i].valid
  <1> DEFINE R == 0 .. Size(u) - 1
             T == {n \in R : Stops(key, NodeAt(u, key, n))}
             c == CHOOSE n \in R :
                     /\ Stops(key, NodeAt(u, key, n))
                     /\ \A k \in R : k < n => ~Stops(key, NodeAt(u, key, k))
  <1>1. Typed(u, D) /\ Marked(u) /\ Reached(u) /\ Same(u, f)
        /\ u.size_index \in 1 .. Len(TableSizes)
    BY DEF Holds, Typed
  <1>2. Size(u) \in Nat /\ Size(u) > 4 /\ \A n \in Nat : Probe(u, key, n) \in Slots(u)
    BY <1>1, Probes
  <1>3. R = Slots(u)
    BY DEF Slots
  <1>4. PICK m \in R : ~NodeAt(u, key, m).valid
    BY <1>3, FreeSlot
  <1>5. m \in T /\ T \in SUBSET Nat
    BY <1>2, <1>4 DEF Stops
  <1>6. Ends(u, key)
    BY <1>4 DEF Ends, Stops
  <1>7. PICK z \in T : \A y \in T : z <= y
    BY <1>5, LeastNatural
  <1>8. \A k \in R : k < z => ~Stops(key, NodeAt(u, key, k))
    BY <1>2, <1>5, <1>7
  <1>9. EndOf(u, key) = Probe(u, key, c)
    BY DEF EndOf, First
  <1>10. PICK n : n = c
    OBVIOUS
  <1>11. \E x \in R : /\ Stops(key, NodeAt(u, key, x))
                      /\ \A k \in R : k < x => ~Stops(key, NodeAt(u, key, k))
    BY <1>7, <1>8
  <1> HIDE DEF R
  <1>12. n \in R /\ Stops(key, NodeAt(u, key, n))
         /\ \A k \in R : k < n => ~Stops(key, NodeAt(u, key, k))
    BY <1>10, <1>11, Zenon
  <1> HIDE DEF c
  <1>13. PICK i : i = Probe(u, key, n)
    OBVIOUS
  <1>14. n \in Nat /\ i \in Slots(u) /\ i = EndOf(u, key)
    BY <1>2, <1>3, <1>9, <1>10, <1>12, <1>13 DEF Slots
  <1>15. u.table[i] = NodeAt(u, key, n)
    BY <1>13 DEF NodeAt
  <1>16. ASSUME u.table[i].valid
         PROVE  i \in LiveAt(u) /\ u.table[i].key = key
    BY <1>12, <1>14, <1>15, <1>16 DEF Stops, LiveAt, IsLive
  <1>17. ASSUME key \in DOMAIN f
         PROVE  u.table[i].valid
    <2>1. PICK j \in LiveAt(u) : u.table[j].key = key
      BY <1>1, <1>17 DEF Same
    <2>2. PICK l \in Slots(u) :
             /\ Probe(u, key, l) = j
             /\ \A k \in 0 .. l - 1 : u.table[Probe(u, key, k)].valid
      BY <2>1, <1>1 DEF Reached, CanReach
    <2>3. Stops(key, NodeAt(u, key, l))
      BY <2>1, <2>2 DEF Stops, NodeAt, LiveAt, IsLive
    <2>4. l \in R /\ l \in Nat
      BY <2>2, <1>2, <1>3 DEF Slots
    <2>5. ~(l < n)
      BY <2>3, <2>4, <1>12
    <2>6. CASE n = l
      BY <2>1, <2>2, <2>6, <1>13 DEF LiveAt, IsLive
    <2>7. CASE n # l
      <3>1. n \in 0 .. l - 1
        BY <2>4, <2>5, <2>7, <1>14
      <3> QED BY <3>1, <2>2, <1>13
    <2> QED BY <2>6, <2>7
  <1>18. ASSUME key \notin DOMAIN f
         PROVE  ~u.table[i].valid
    BY <1>1, <1>16, <1>18 DEF Same
  <1> QED BY <1>6, <1>14, <1>16, <1>17, <1>18

(* What a lookup finds.                                                    *)
LEMMA LookupIs ==
    ASSUME NEW u, NEW f, NEW D, Holds(u, f, D), NEW key \in Nat
    PROVE  hashtable_lookup(u, key) = IF key \in DOMAIN f THEN f[key] ELSE NULL
  <1>1. PICK i \in Slots(u) :
           /\ i = EndOf(u, key)
           /\ key \in DOMAIN f => i \in LiveAt(u) /\ u.table[i].key = key
           /\ key \notin DOMAIN f => ~u.table[i].valid
    BY EndIs
  <1>2. Found(u, key) = u.table[i]
    BY <1>1 DEF Found
  <1>3. CASE key \in DOMAIN f
    <2>1. u.table[i].valid /\ f[key] = u.table[i].data
      BY <1>1, <1>3 DEF Holds, Same, LiveAt, IsLive
    <2> QED BY <2>1, <1>2, <1>3 DEF hashtable_lookup
  <1>4. CASE key \notin DOMAIN f
    BY <1>1, <1>2, <1>4 DEF hashtable_lookup
  <1> QED BY <1>3, <1>4

(* A key that is there is gone when its slot is marked.                    *)
Mark(t_, i) == [t_ EXCEPT !.table[i].dirty = TRUE, !.dirty = @ + 1]

(* The slot of the removed key stays taken, so that others are reached.    *)
LEMMA MarkHolds ==
    ASSUME NEW u, NEW f, NEW D, Holds(u, f, D), NEW key \in DOMAIN f,
           NEW i \in LiveAt(u), u.table[i].key = key
    PROVE  \E v : /\ v = Mark(u, i) /\ Holds(v, Without(f, key), D)
                  /\ v.size_index = u.size_index /\ v.dirty = u.dirty + 1
                  /\ v.used = u.used
  <1> DEFINE g == Without(f, key)
  <1>1. PICK v : v = Mark(u, i)
    OBVIOUS
  <1>2. PICK node : node = [u.table[i] EXCEPT !.dirty = TRUE]
    OBVIOUS
  <1>3. Typed(u, D) /\ Marked(u) /\ Reached(u) /\ Unique(u) /\ Counted(u) /\ Same(u, f)
        /\ DOMAIN f \subseteq Nat /\ i \in Slots(u) /\ IsLive(u.table[i])
    BY DEF Holds, LiveAt
  <1>4. v = [size_index |-> v.size_index, used |-> v.used, dirty |-> v.dirty,
             table |-> v.table]
        /\ v.size_index = u.size_index /\ v.dirty = u.dirty + 1 /\ v.used = u.used
        /\ v.table = [u.table EXCEPT ![i] = node]
    BY <1>1, <1>2, <1>3 DEF Typed, Mark
  <1>5. Size(v) = Size(u) /\ Slots(v) = Slots(u)
        /\ \A k, n : Probe(v, k, n) = Probe(u, k, n)
    BY <1>4, SameProbes
  <1>6. u.table[i] \in Nodes(D)
    BY <1>3, NodeIs
  <1>7. node \in Nodes(D) /\ node.valid = u.table[i].valid /\ node.dirty = TRUE
        /\ node.key = key
    BY <1>2, <1>6 DEF Nodes
  <1>8. Typed(v, D)
    <2>1. u.table \in [Slots(u) -> Nodes(D)]
      BY <1>3 DEF Typed
    <2>2. v.table \in [Slots(v) -> Nodes(D)]
      BY <2>1, <1>4, <1>5, <1>7
    <2>3. v.used \in Nat /\ v.dirty \in Nat /\ v.size_index \in 1 .. Len(TableSizes)
      BY <1>3, <1>4 DEF Typed
    <2> QED BY <2>2, <2>3, <1>4 DEF Typed
  <1>9. v.table[i] = node /\ \A j \in Slots(u) \ {i} : v.table[j] = u.table[j]
    BY <1>3, <1>4 DEF Typed
  <1>10. u.table[i].valid /\ ~u.table[i].dirty
    BY <1>3 DEF IsLive
  <1>11. \A j \in Slots(u) : v.table[j].valid = u.table[j].valid
    BY <1>7, <1>9
  <1>12. \A k \in Nat, j \in Slots(u) : CanReach(u, k, j) => CanReach(v, k, j)
    <2>1. ASSUME NEW k \in Nat, NEW n \in Slots(u), NEW m \in 0 .. n - 1,
                 u.table[Probe(u, k, m)].valid
          PROVE  v.table[Probe(u, k, m)].valid
      <3>1. Size(u) \in Nat /\ \A x \in Nat : Probe(u, k, x) \in Slots(u)
        BY <1>3, Probes DEF Typed
      <3>2. m \in Nat
        BY <3>1 DEF Slots
      <3> QED BY <3>1, <3>2, <2>1, <1>11
    <2>2. ASSUME NEW k \in Nat, NEW j \in Slots(u), NEW n \in Slots(u),
                 Probe(u, k, n) = j,
                 \A m \in 0 .. n - 1 : u.table[Probe(u, k, m)].valid
          PROVE  CanReach(v, k, j)
      <3>1. \A m \in 0 .. n - 1 : v.table[Probe(v, k, m)].valid
        BY <2>1, <2>2, <1>5
      <3>2. n \in Slots(v) /\ Probe(v, k, n) = j
        BY <2>2, <1>5
      <3> QED BY <3>1, <3>2 DEF CanReach
    <2> QED BY <2>2 DEF CanReach
  <1>13. LiveAt(v) = LiveAt(u) \ {i}
    BY <1>3, <1>5, <1>7, <1>9 DEF LiveAt, IsLive
  <1>14. Taken(v) = Taken(u)
    BY <1>5, <1>11 DEF Taken
  <1>15. Removed(v) = Removed(u) \cup {i} /\ i \notin Removed(u)
    BY <1>3, <1>5, <1>7, <1>9, <1>10 DEF Removed
  <1>16. Marked(v)
    BY <1>3, <1>5, <1>7, <1>9, <1>10 DEF Marked
  <1>17. \A j \in LiveAt(v) : j \in LiveAt(u) /\ j \in Slots(u) /\ v.table[j] = u.table[j]
    BY <1>9, <1>13 DEF LiveAt
  <1>18. Reached(v)
    <2>1. ASSUME NEW j \in LiveAt(v)
          PROVE  CanReach(v, v.table[j].key, j)
      <3>1. CanReach(u, u.table[j].key, j)
        BY <1>3, <1>17 DEF Reached
      <3>2. u.table[j].key \in Nat /\ j \in Slots(u)
        BY <1>3, <1>17, NodeIs
      <3> QED BY <3>1, <3>2, <1>12, <1>17
    <2> QED BY <2>1 DEF Reached
  <1>19. Unique(v)
    BY <1>3, <1>17 DEF Unique
  <1>20. Counted(v)
    <2>1. Cardinality(Taken(v)) = v.used /\ 4 * v.used <= 3 * Size(v) + 4
      BY <1>3, <1>4, <1>5, <1>14 DEF Counted
    <2>2. IsFiniteSet(Removed(u)) /\ Cardinality(Removed(u)) \in Nat
      BY <1>3, SlotSets
    <2>3. Cardinality(Removed(u) \cup {i}) = Cardinality(Removed(u)) + 1
      BY <2>2, <1>15, FS_AddElement
    <2>4. Cardinality(Removed(u)) <= u.dirty /\ u.dirty \in Nat
      BY <1>3 DEF Counted, Typed
    <2>5. Cardinality(Removed(v)) <= v.dirty
      BY <2>2, <2>3, <2>4, <1>4, <1>15
    <2> QED BY <2>1, <2>5 DEF Counted
  <1>21. DOMAIN g = DOMAIN f \ {key} /\ \A k \in DOMAIN g : g[k] = f[k]
    BY DEF Without
  <1>22. g = [k \in DOMAIN g |-> g[k]] /\ DOMAIN g \subseteq Nat
    <2>1. g = [k \in DOMAIN g |-> g[k]]
      BY DEF Without
    <2> QED BY <2>1, <1>3, <1>21
  <1> HIDE DEF g
  <1>23. Same(v, g)
    <2>1. ASSUME NEW j \in LiveAt(v)
          PROVE  v.table[j].key \in DOMAIN g /\ g[v.table[j].key] = v.table[j].data
      <3>1. u.table[j].key \in DOMAIN f /\ f[u.table[j].key] = u.table[j].data
        BY <1>3, <1>17 DEF Same
      <3>2. u.table[j].key # key
        BY <1>3, <1>13 DEF Unique
      <3> QED BY <3>1, <3>2, <1>17, <1>21
    <2>2. ASSUME NEW k \in DOMAIN g
          PROVE  \E j \in LiveAt(v) : v.table[j].key = k
      <3>1. PICK j \in LiveAt(u) : u.table[j].key = k
        BY <1>3, <1>21 DEF Same
      <3>2. j # i
        BY <3>1, <1>21
      <3> QED BY <3>1, <3>2, <1>13, <1>17
    <2> QED BY <2>1, <2>2 DEF Same
  <1>24. Holds(v, g, D)
    BY <1>8, <1>16, <1>18, <1>19, <1>20, <1>22, <1>23 DEF Holds
  <1> QED BY <1>1, <1>4, <1>24 DEF g

-----------------------------------------------------------------------------
(* Rebuilding a table.                                                     *)

(* The table before the first key is put into it.                          *)
Empty(x) == [size_index |-> x, used |-> 0, dirty |-> 0,
             table |-> [i \in 0 .. TableSizes[x] - 1 |-> NoNode]]

(* It holds nothing.                                                       *)
LEMMA EmptyHolds ==
    ASSUME NEW x \in 1 .. Len(TableSizes), NEW D, NULL \in D, NEW f, DOMAIN f = {},
           f = [key \in DOMAIN f |-> f[key]]
    PROVE  Holds(Empty(x), f, D)
  <1>1. PICK v : v = Empty(x)
    OBVIOUS
  <1>2. v.size_index = x /\ v.used = 0 /\ v.dirty = 0
        /\ v.table = [i \in 0 .. TableSizes[x] - 1 |-> NoNode]
        /\ v = [size_index |-> v.size_index, used |-> v.used, dirty |-> v.dirty,
                table |-> v.table]
    BY <1>1 DEF Empty
  <1>3. Size(v) = TableSizes[x] /\ Slots(v) = 0 .. TableSizes[x] - 1
    BY <1>2 DEF Size, Slots
  <1>4. NoNode \in Nodes(D) /\ NoNode.valid = FALSE /\ NoNode.dirty = FALSE
    BY DEF NoNode, Nodes
  <1>5. v.table \in [Slots(v) -> Nodes(D)] /\ \A i \in Slots(v) : v.table[i] = NoNode
    BY <1>2, <1>3, <1>4
  <1>6. Typed(v, D)
    BY <1>2, <1>5 DEF Typed
  <1>7. Taken(v) = {} /\ Removed(v) = {} /\ LiveAt(v) = {}
    BY <1>4, <1>5 DEF Taken, Removed, LiveAt, IsLive
  <1>8. Marked(v) /\ Reached(v) /\ Unique(v)
    BY <1>4, <1>5, <1>7 DEF Marked, Reached, Unique
  <1>9. Same(v, f)
    BY <1>7 DEF Same
  <1>10. Counted(v)
    <2>1. Cardinality(Taken(v)) = 0 /\ Cardinality(Removed(v)) = 0
      BY <1>7, FS_EmptySet
    <2>2. Size(v) > 4 /\ Size(v) \in Nat
      BY <1>3, Sizes
    <2> QED BY <2>1, <2>2, <1>2 DEF Counted
  <1>11. Holds(v, f, D)
    BY <1>6, <1>8, <1>9, <1>10 DEF Holds
  <1> QED BY <1>1, <1>11

(* What old holds in its first i slots.                                    *)
LiveBelow(old, i) == {j \in LiveAt(old) : j < i}
KeysBelow(old, i) == {old.table[j].key : j \in LiveBelow(old, i)}
Below(old, f, i)  == [key \in KeysBelow(old, i) |-> f[key]]

(* It grows by the key of each live slot.                                  *)
LEMMA BelowIs ==
    ASSUME NEW old, NEW f, NEW D, Holds(old, f, D)
    PROVE  /\ KeysBelow(old, 0) = {} /\ Below(old, f, Size(old)) = f
           /\ \A i \in Nat : /\ KeysBelow(old, i) \subseteq DOMAIN f
                             /\ DOMAIN Below(old, f, i) = KeysBelow(old, i)
           /\ \A i \in Slots(old) :
                 IF IsLive(old.table[i])
                 THEN /\ old.table[i].key \in DOMAIN f \ KeysBelow(old, i)
                      /\ old.table[i].key \in Nat /\ old.table[i].data \in D
                      /\ Below(old, f, i + 1)
                            = With(Below(old, f, i), old.table[i].key, old.table[i].data)
                 ELSE Below(old, f, i + 1) = Below(old, f, i)
  <1>1. Typed(old, D) /\ Unique(old) /\ Same(old, f) /\ f = [key \in DOMAIN f |-> f[key]]
    BY DEF Holds
  <1>2. Slots(old) \subseteq Nat /\ Size(old) \in Nat
    <2>1. Size(old) \in Nat
      BY <1>1, Sizes DEF Typed, Size
    <2> QED BY <2>1 DEF Slots
  <1>3. LiveAt(old) \subseteq Slots(old)
    BY DEF LiveAt
  <1>4. KeysBelow(old, 0) = {}
    <2>1. LiveBelow(old, 0) = {}
      BY <1>2, <1>3 DEF LiveBelow
    <2> QED BY <2>1 DEF KeysBelow
  <1>5. Below(old, f, Size(old)) = f
    <2>1. LiveBelow(old, Size(old)) = LiveAt(old)
      BY <1>2, <1>3 DEF LiveBelow, Slots
    <2>2. KeysBelow(old, Size(old)) = DOMAIN f
      BY <2>1, <1>1 DEF KeysBelow, Same
    <2> QED BY <2>2, <1>1 DEF Below
  <1>6. \A i \in Nat : /\ KeysBelow(old, i) \subseteq DOMAIN f
                       /\ DOMAIN Below(old, f, i) = KeysBelow(old, i)
    BY <1>1 DEF KeysBelow, LiveBelow, Same, Below
  <1>7. ASSUME NEW i \in Slots(old), IsLive(old.table[i])
        PROVE  /\ old.table[i].key \in DOMAIN f \ KeysBelow(old, i)
               /\ old.table[i].key \in Nat /\ old.table[i].data \in D
               /\ Below(old, f, i + 1)
                     = With(Below(old, f, i), old.table[i].key, old.table[i].data)
    <2>1. PICK key, data : key = old.table[i].key /\ data = old.table[i].data
      OBVIOUS
    <2>2. i \in LiveAt(old) /\ i \in Nat
      BY <1>2, <1>7 DEF LiveAt
    <2>3. key \in DOMAIN f /\ f[key] = data /\ key \in Nat /\ data \in D
      BY <2>1, <2>2, <1>1, NodeIs DEF Same
    <2>4. key \notin KeysBelow(old, i)
      <3>1. SUFFICES ASSUME NEW j \in LiveBelow(old, i), key = old.table[j].key
                     PROVE  FALSE
        BY DEF KeysBelow
      <3>2. j \in LiveAt(old) /\ j < i
        BY <3>1 DEF LiveBelow
      <3>3. j = i
        BY <3>1, <3>2, <2>1, <2>2, <1>1 DEF Unique
      <3> QED BY <3>2, <3>3, <2>2
    <2>5. LiveBelow(old, i + 1) = LiveBelow(old, i) \cup {i}
      BY <2>2, <1>2, <1>3 DEF LiveBelow
    <2>6. KeysBelow(old, i + 1) = KeysBelow(old, i) \cup {key}
      BY <2>1, <2>5 DEF KeysBelow
    <2>7. Below(old, f, i + 1) = With(Below(old, f, i), key, data)
      <3>1. DOMAIN Below(old, f, i) = KeysBelow(old, i)
            /\ \A k \in KeysBelow(old, i) : Below(old, f, i)[k] = f[k]
        BY DEF Below
      <3>2. With(Below(old, f, i), key, data) = [k \in KeysBelow(old, i + 1) |-> f[k]]
        BY <3>1, <2>3, <2>4, <2>6 DEF With
      <3> QED BY <3>2 DEF Below
    <2> QED BY <2>1, <2>3, <2>4, <2>7
  <1>8. ASSUME NEW i \in Slots(old), ~IsLive(old.table[i])
        PROVE  Below(old, f, i + 1) = Below(old, f, i)
    <2>1. i \notin LiveAt(old) /\ i \in Nat
      BY <1>2, <1>8 DEF LiveAt
    <2>2. LiveBelow(old, i + 1) = LiveBelow(old, i)
      BY <2>1, <1>2, <1>3 DEF LiveBelow
    <2> QED BY <2>2 DEF Below, KeysBelow
  <1> QED BY <1>4, <1>5, <1>6, <1>7, <1>8

(* The slots before a live one hold fewer keys than there are.             *)
LEMMA BelowCount ==
    ASSUME NEW old, NEW f, NEW D, Holds(old, f, D), NEW i \in Slots(old),
           IsLive(old.table[i])
    PROVE  /\ Cardinality(DOMAIN Below(old, f, i)) \in Nat
           /\ Cardinality(DOMAIN Below(old, f, i)) + 1 <= Cardinality(DOMAIN f)
  <1>1. IsFiniteSet(DOMAIN f) /\ Cardinality(DOMAIN f) \in Nat
    BY LiveCount
  <1>2. i \in Nat
    BY Sizes DEF Holds, Typed, Size, Slots
  <1>3. PICK K : K = KeysBelow(old, i)
    OBVIOUS
  <1>4. K \in SUBSET (DOMAIN f \ {old.table[i].key}) /\ old.table[i].key \in DOMAIN f
        /\ DOMAIN Below(old, f, i) = K
    BY <1>2, <1>3, BelowIs
  <1>5. IsFiniteSet(DOMAIN f \ {old.table[i].key})
        /\ Cardinality(DOMAIN f \ {old.table[i].key}) = Cardinality(DOMAIN f) - 1
    BY <1>1, <1>4, FS_RemoveElement
  <1>6. IsFiniteSet(K) /\ Cardinality(K) <= Cardinality(DOMAIN f \ {old.table[i].key})
    BY <1>4, <1>5, FS_Subset
  <1>7. Cardinality(K) \in Nat
    BY <1>6, FS_CardinalityType
  <1> QED BY <1>1, <1>4, <1>5, <1>6, <1>7

(* refill() of grow() and of shrink(): the tables it goes through.         *)
Placed(old, x) ==
    CHOOSE upto : upto =
        [i \in 0 .. Size(old) |->
            IF i = 0 THEN Empty(x)
            ELSE LET node == old.table[i - 1] IN
                 IF IsLive(node) THEN place(upto[i - 1], node.key, node.data)
                 ELSE upto[i - 1]]
Inserted(old, x) ==
    CHOOSE upto : upto =
        [i \in 0 .. Size(old) |->
            IF i = 0 THEN Empty(x)
            ELSE LET node == old.table[i - 1] IN
                 IF IsLive(node) THEN hashtable_insert(upto[i - 1], node.key, node.data)
                 ELSE upto[i - 1]]

(* There is such a function: one for the first n slots extends to n + 1.   *)
LEMMA PlacedIs ==
    ASSUME NEW old, Size(old) \in Nat, NEW x
    PROVE  /\ Placed(old, x)[0] = Empty(x)
           /\ \A i \in Slots(old) :
                 Placed(old, x)[i + 1]
                     = IF IsLive(old.table[i])
                       THEN place(Placed(old, x)[i], old.table[i].key, old.table[i].data)
                       ELSE Placed(old, x)[i]
  <1> DEFINE Step(u, i) ==
                 IF i = 0 THEN Empty(x)
                 ELSE IF IsLive(old.table[i - 1])
                 THEN place(u[i - 1], old.table[i - 1].key, old.table[i - 1].data)
                 ELSE u[i - 1]
             B == {n \in Nat : \E u : u = [i \in 0 .. n |-> Step(u, i)]}
  <1>1. 0 \in B
    <2>1. \A i \in 0 .. 0 : i = 0
      OBVIOUS
    <2>2. [i \in 0 .. 0 |-> Empty(x)]
             = [i \in 0 .. 0 |-> Step([j \in 0 .. 0 |-> Empty(x)], i)]
      BY <2>1
    <2> QED BY <2>2
  <1>2. ASSUME NEW n \in Nat, n \in B
        PROVE  n + 1 \in B
    <2>1. PICK u : u = [i \in 0 .. n |-> Step(u, i)]
      BY <1>2
    <2>2. PICK v : v = [i \in 0 .. n + 1 |-> Step(u, i)]
      OBVIOUS
    <2>3. ASSUME NEW i \in 0 .. n + 1
          PROVE  Step(u, i) = Step(v, i)
      <3>1. CASE i = 0
        BY <3>1
      <3>2. CASE i # 0
        <4>1. PICK j : j = i - 1
          OBVIOUS
        <4>2. j \in 0 .. n /\ j \in 0 .. n + 1
          BY <2>3, <3>2, <4>1
        <4>3. v[j] = Step(u, j) /\ u[j] = Step(u, j)
          <5> HIDE DEF Step
          <5> QED BY <2>1, <2>2, <4>2
        <4>4. v[j] = u[j]
          BY <4>3
        <4> QED BY <4>1, <4>4
      <3> QED BY <3>1, <3>2
    <2> HIDE DEF Step
    <2>4. v = [i \in 0 .. n + 1 |-> Step(v, i)]
      BY <2>2, <2>3
    <2> QED BY <2>4
  <1>3. Nat \subseteq B
    <2> HIDE DEF B
    <2> QED BY <1>1, <1>2, Induction
  <1>4. PICK u : u = [i \in 0 .. Size(old) |-> Step(u, i)]
    BY <1>3
  <1>5. Placed(old, x) = [i \in 0 .. Size(old) |-> Step(Placed(old, x), i)]
    BY <1>4, Zenon DEF Placed
  <1>6. PICK v : v = Placed(old, x)
    OBVIOUS
  <1>7. \A i \in 0 .. Size(old) : v[i] = Step(v, i)
    <2> HIDE DEF Step
    <2> QED BY <1>5, <1>6
  <1>8. v[0] = Empty(x)
    BY <1>7
  <1>9. ASSUME NEW i \in Slots(old)
        PROVE  v[i + 1] = IF IsLive(old.table[i])
                          THEN place(v[i], old.table[i].key, old.table[i].data)
                          ELSE v[i]
    <2>1. PICK j : j = i + 1
      OBVIOUS
    <2>2. j \in 0 .. Size(old) /\ j # 0 /\ j - 1 = i
      BY <2>1 DEF Slots
    <2>3. v[j] = Step(v, j)
      BY <2>2, <1>7
    <2> QED BY <2>1, <2>2, <2>3
  <1> QED BY <1>6, <1>8, <1>9

(* And as much of the other.                                               *)
LEMMA InsertedIs ==
    ASSUME NEW old, Size(old) \in Nat, NEW x
    PROVE  /\ Inserted(old, x)[0] = Empty(x)
           /\ \A i \in Slots(old) :
                 Inserted(old, x)[i + 1]
                     = IF IsLive(old.table[i])
                       THEN hashtable_insert(Inserted(old, x)[i], old.table[i].key,
                                             old.table[i].data)
                       ELSE Inserted(old, x)[i]
  <1> DEFINE Step(u, i) ==
                 IF i = 0 THEN Empty(x)
                 ELSE IF IsLive(old.table[i - 1])
                 THEN hashtable_insert(u[i - 1], old.table[i - 1].key,
                                       old.table[i - 1].data)
                 ELSE u[i - 1]
             B == {n \in Nat : \E u : u = [i \in 0 .. n |-> Step(u, i)]}
  <1>1. 0 \in B
    <2>1. \A i \in 0 .. 0 : i = 0
      OBVIOUS
    <2>2. [i \in 0 .. 0 |-> Empty(x)]
             = [i \in 0 .. 0 |-> Step([j \in 0 .. 0 |-> Empty(x)], i)]
      BY <2>1
    <2> QED BY <2>2
  <1>2. ASSUME NEW n \in Nat, n \in B
        PROVE  n + 1 \in B
    <2>1. PICK u : u = [i \in 0 .. n |-> Step(u, i)]
      BY <1>2
    <2>2. PICK v : v = [i \in 0 .. n + 1 |-> Step(u, i)]
      OBVIOUS
    <2>3. ASSUME NEW i \in 0 .. n + 1
          PROVE  Step(u, i) = Step(v, i)
      <3>1. CASE i = 0
        BY <3>1
      <3>2. CASE i # 0
        <4>1. PICK j : j = i - 1
          OBVIOUS
        <4>2. j \in 0 .. n /\ j \in 0 .. n + 1
          BY <2>3, <3>2, <4>1
        <4>3. v[j] = Step(u, j) /\ u[j] = Step(u, j)
          <5> HIDE DEF Step
          <5> QED BY <2>1, <2>2, <4>2
        <4>4. v[j] = u[j]
          BY <4>3
        <4> QED BY <4>1, <4>4
      <3> QED BY <3>1, <3>2
    <2> HIDE DEF Step
    <2>4. v = [i \in 0 .. n + 1 |-> Step(v, i)]
      BY <2>2, <2>3
    <2> QED BY <2>4
  <1>3. Nat \subseteq B
    <2> HIDE DEF B
    <2> QED BY <1>1, <1>2, Induction
  <1>4. PICK u : u = [i \in 0 .. Size(old) |-> Step(u, i)]
    BY <1>3
  <1>5. Inserted(old, x) = [i \in 0 .. Size(old) |-> Step(Inserted(old, x), i)]
    BY <1>4, Zenon DEF Inserted
  <1>6. PICK v : v = Inserted(old, x)
    OBVIOUS
  <1>7. \A i \in 0 .. Size(old) : v[i] = Step(v, i)
    <2> HIDE DEF Step
    <2> QED BY <1>5, <1>6
  <1>8. v[0] = Empty(x)
    BY <1>7
  <1>9. ASSUME NEW i \in Slots(old)
        PROVE  v[i + 1] = IF IsLive(old.table[i])
                          THEN hashtable_insert(v[i], old.table[i].key, old.table[i].data)
                          ELSE v[i]
    <2>1. PICK j : j = i + 1
      OBVIOUS
    <2>2. j \in 0 .. Size(old) /\ j # 0 /\ j - 1 = i
      BY <2>1 DEF Slots
    <2>3. v[j] = Step(v, j)
      BY <2>2, <1>7
    <2> QED BY <2>1, <2>2, <2>3
  <1> QED BY <1>6, <1>8, <1>9

(* What grow() and shrink() come to.                                       *)
LEMMA RefillIs ==
    /\ \A old : grow(old) = Placed(old, old.size_index + 1)[Size(old)]
    /\ \A old : shrink(old) = Inserted(old, old.size_index - 1)[Size(old)]
  <1>1. ASSUME NEW old
        PROVE  grow(old) = Placed(old, old.size_index + 1)[Size(old)]
    BY Zenon DEF grow, refill, Placed, Empty
  <1>2. ASSUME NEW old
        PROVE  shrink(old) = Inserted(old, old.size_index - 1)[Size(old)]
    BY Zenon DEF shrink, refill, Inserted, Empty
  <1> QED BY <1>1, <1>2

(* Table v holds what is in the first i slots of old, and nothing else.    *)
Refilled(old, f, D, v, i) == Holds(v, Below(old, f, i), D) /\ v.dirty = 0

(* One slot, when the key in it is put into v.                             *)
LEMMA OneMore ==
    ASSUME NEW old, NEW f, NEW D, Holds(old, f, D), NEW i \in Slots(old), NEW u, NEW v,
           Refilled(old, f, D, u, i),
           IF IsLive(old.table[i])
           THEN v.dirty = 0 /\ Holds(v, With(Below(old, f, i), old.table[i].key,
                                           old.table[i].data), D)
           ELSE v = u
    PROVE  Refilled(old, f, D, v, i + 1)
  <1>1. CASE IsLive(old.table[i])
    <2>1. Below(old, f, i + 1)
            = With(Below(old, f, i), old.table[i].key, old.table[i].data)
      BY <1>1, BelowIs
    <2> QED BY <1>1, <2>1 DEF Refilled
  <1>2. CASE ~IsLive(old.table[i])
    <2>1. Below(old, f, i + 1) = Below(old, f, i)
      BY <1>2, BelowIs
    <2> QED BY <1>2, <2>1 DEF Refilled
  <1> QED BY <1>1, <1>2

(* hash.c:137-167: a table that grows keeps its keys, and is not           *)
(* overloaded again, neither then nor while it is filled: grow() may call  *)
(* place() where the code calls hashtable_insert().                        *)
LEMMA GrowHolds ==
    ASSUME NEW old, NEW f, NEW D, Holds(old, f, D), NULL \in D,
           old.size_index + 1 \in 1 .. Len(TableSizes)
    PROVE  /\ Holds(grow(old), f, D) /\ grow(old).dirty = 0
           /\ grow(old).size_index = old.size_index + 1
           /\ ~Overloaded(grow(old))
           /\ grow(old) = refill(old, old.size_index + 1, hashtable_insert)
  <1>1. PICK x : x = old.size_index + 1
    OBVIOUS
  <1>2. x \in 1 .. Len(TableSizes) /\ Typed(old, D) /\ Counted(old)
    BY <1>1 DEF Holds
  <1>3. Size(old) \in Nat /\ TableSizes[x] \in Nat /\ Size(old) + 1 < TableSizes[x]
    <2>1. old.size_index \in 1 .. Len(TableSizes) - 1
      BY <1>1, <1>2, Sizes DEF Typed
    <2> QED BY <2>1, <1>1, <1>2, Sizes DEF Size
  <1>4. PICK u : u = Placed(old, x)
    OBVIOUS
  <1>5. /\ u[0] = Empty(x)
        /\ \A i \in Slots(old) :
              u[i + 1] = IF IsLive(old.table[i])
                         THEN place(u[i], old.table[i].key, old.table[i].data) ELSE u[i]
    BY <1>3, <1>4, PlacedIs
  <1> DEFINE q == Inserted(old, x)
             B == {n \in Nat : n <= Size(old) => /\ Refilled(old, f, D, u[n], n)
                                                 /\ u[n].size_index = x /\ u[n] = q[n]}
  <1>6. /\ q[0] = Empty(x)
         /\ \A i \in Slots(old) :
               q[i + 1] = IF IsLive(old.table[i])
                          THEN hashtable_insert(q[i], old.table[i].key, old.table[i].data)
                          ELSE q[i]
    BY <1>3, InsertedIs
  <1> HIDE DEF q
  <1>7. 0 \in B
    <2>1. Below(old, f, 0) = [key \in {} |-> f[key]]
      BY BelowIs DEF Below
    <2>2. Holds(Empty(x), Below(old, f, 0), D)
      <3>1. PICK g : g = Below(old, f, 0)
        OBVIOUS
      <3>2. DOMAIN g = {} /\ g = [key \in DOMAIN g |-> g[key]]
        BY <2>1, <3>1
      <3> QED BY <3>1, <3>2, <1>2, EmptyHolds
    <2>3. Empty(x).dirty = 0 /\ Empty(x).size_index = x
      BY DEF Empty
    <2> QED BY <2>2, <2>3, <1>5, <1>6 DEF Refilled
  <1>8. ASSUME NEW i \in Nat, i \in B
        PROVE  i + 1 \in B
    <2>1. SUFFICES ASSUME i + 1 <= Size(old)
                   PROVE  /\ Refilled(old, f, D, u[i + 1], i + 1)
                          /\ u[i + 1].size_index = x /\ u[i + 1] = q[i + 1]
      OBVIOUS
    <2>2. i \in Slots(old) /\ i <= Size(old)
      BY <2>1, <1>3 DEF Slots
    <2>3. Refilled(old, f, D, u[i], i) /\ u[i].size_index = x /\ u[i] = q[i]
      BY <1>8, <2>2
    <2>4. PICK w : w = u[i]
      OBVIOUS
    <2>5. PICK g : g = Below(old, f, i)
      OBVIOUS
    <2>6. Holds(w, g, D) /\ w.dirty = 0 /\ w.size_index = x
      BY <2>3, <2>4, <2>5 DEF Refilled
    <2>7. CASE IsLive(old.table[i])
      <3>1. PICK key, data : key = old.table[i].key /\ data = old.table[i].data
        OBVIOUS
      <3>2. key \in Nat /\ key \notin DOMAIN g /\ data \in D
        BY <2>2, <2>5, <2>7, <3>1, BelowIs
      <3>3. ~Overloaded(w)
        <4>1. Cardinality(DOMAIN g) \in Nat
              /\ Cardinality(DOMAIN g) + 1 <= Cardinality(DOMAIN f)
          BY <2>2, <2>5, <2>7, BelowCount
        <4>2. w.used <= Cardinality(DOMAIN g) + w.dirty /\ w.used \in Nat
          BY <2>6, LiveCount DEF Holds, Typed
        <4>3. Cardinality(DOMAIN f) <= old.used /\ Cardinality(DOMAIN f) \in Nat
          BY LiveCount
        <4>4. 4 * old.used <= 3 * Size(old) + 4 /\ old.used \in Nat
          BY <1>2 DEF Counted, Typed
        <4>5. Size(w) = TableSizes[x]
          BY <2>6 DEF Size
        <4> QED BY SMTT(60), <4>1, <4>2, <4>3, <4>4, <4>5, <2>6, <1>3 DEF Overloaded
      <3>4. PICK v : /\ v = place(w, key, data) /\ Holds(v, With(g, key, data), D)
                     /\ v.size_index = w.size_index /\ v.dirty = w.dirty
        BY <2>6, <3>2, <3>3, PlaceHolds
      <3>5. u[i + 1] = v
        BY <1>5, <2>2, <2>4, <2>7, <3>1, <3>4
      <3>6. Refilled(old, f, D, v, i + 1)
        BY <2>2, <2>3, <2>5, <2>6, <2>7, <3>1, <3>4, OneMore
      <3>7. q[i + 1] = v
        <4>1. hashtable_insert(w, key, data) = place(w, key, data)
          BY <3>3 DEF hashtable_insert
        <4> QED BY <4>1, <1>6, <2>2, <2>3, <2>4, <2>7, <3>1, <3>4
      <3> QED BY <3>4, <3>5, <3>6, <3>7, <2>6
    <2>8. CASE ~IsLive(old.table[i])
      <3>1. u[i + 1] = u[i]
        BY <1>5, <2>2, <2>8
      <3>3. q[i + 1] = q[i]
        BY <1>6, <2>2, <2>8
      <3>2. Refilled(old, f, D, u[i], i + 1)
        BY <2>2, <2>3, <2>8, OneMore
      <3> QED BY <3>1, <3>2, <3>3, <2>3
    <2> QED BY <2>7, <2>8
  <1>9. Size(old) \in B
    <2> HIDE DEF B
    <2> QED BY <1>3, <1>7, <1>8, Induction
  <1>10. PICK v : v = grow(old)
    OBVIOUS
  <1>11. v = u[Size(old)]
    BY <1>1, <1>4, <1>10, RefillIs
  <1>12. Refilled(old, f, D, v, Size(old)) /\ v.size_index = x /\ v = q[Size(old)]
    BY <1>3, <1>9, <1>11
  <1>13. Holds(v, f, D) /\ v.dirty = 0
    BY <1>12, BelowIs DEF Refilled
  <1>14. 4 * v.used <= 3 * TableSizes[x]
    <2>1. v.used <= Cardinality(DOMAIN f) + v.dirty /\ v.used \in Nat
      BY <1>13, LiveCount DEF Holds, Typed
    <2>2. Cardinality(DOMAIN f) <= old.used /\ Cardinality(DOMAIN f) \in Nat
      BY LiveCount
    <2>3. 4 * old.used <= 3 * Size(old) + 4 /\ old.used \in Nat
      BY <1>2 DEF Counted, Typed
    <2> QED BY <2>1, <2>2, <2>3, <1>3, <1>13
  <1>15. ~Overloaded(v)
    <2>1. Size(v) = TableSizes[x] /\ v.used \in Nat
      BY <1>12, <1>13 DEF Size, Holds, Typed
    <2> QED BY <2>1, <1>3, <1>14 DEF Overloaded
  <1>16. refill(old, x, hashtable_insert) = q[Size(old)]
    BY Zenon DEF refill, Inserted, Empty, q
  <1> QED BY <1>1, <1>10, <1>12, <1>13, <1>15, <1>16

(* hashtable_insert(): hash.c:111-135.                                      *)
LEMMA InsertHolds ==
    ASSUME NEW u, NEW f, NEW D, Holds(u, f, D), NULL \in D,
           Overloaded(u) => u.size_index # Len(TableSizes),
           NEW key \in Nat, key \notin DOMAIN f, NEW data \in D
    PROVE  \E v : /\ v = hashtable_insert(u, key, data)
                  /\ Holds(v, With(f, key, data), D)
                  /\ v.dirty = 0 \/ (v.dirty = u.dirty /\ v.size_index = u.size_index)
  <1>1. Typed(u, D) /\ u.used \in Nat /\ u.dirty \in Nat /\ Size(u) \in Nat /\ Size(u) > 4
    BY Sizes DEF Holds, Typed, Size
  <1>2. CASE Overloaded(u)
    <2>1. u.size_index + 1 \in 1 .. Len(TableSizes)
      BY <1>1, <1>2, Sizes DEF Typed
    <2>2. PICK w : w = grow(u)
      OBVIOUS
    <2>3. Holds(w, f, D) /\ w.dirty = 0 /\ ~Overloaded(w)
      BY <2>1, <2>2, GrowHolds
    <2>5. PICK v : /\ v = place(w, key, data) /\ Holds(v, With(f, key, data), D)
                   /\ v.size_index = w.size_index /\ v.dirty = w.dirty
      BY <2>3, PlaceHolds
    <2>6. v = hashtable_insert(u, key, data)
      BY <2>2, <2>5, <1>2 DEF hashtable_insert
    <2> QED BY <2>3, <2>5, <2>6
  <1>3. CASE ~Overloaded(u)
    <2>2. PICK v : /\ v = place(u, key, data) /\ Holds(v, With(f, key, data), D)
                   /\ v.size_index = u.size_index /\ v.dirty = u.dirty
      BY <1>3, PlaceHolds
    <2>3. v = hashtable_insert(u, key, data)
      BY <2>2, <1>3 DEF hashtable_insert
    <2> QED BY <2>2, <2>3
  <1> QED BY <1>2, <1>3

(* hash.c:137-167: a table that is rebuilt a size smaller keeps its keys,    *)
(* with room for them in the last size.                                    *)
LEMMA ShrinkHolds ==
    ASSUME NEW old, NEW f, NEW D, Holds(old, f, D), NULL \in D,
           old.size_index - 1 \in 1 .. Len(TableSizes),
           4 * Cardinality(DOMAIN f) <= 3 * TableSizes[Len(TableSizes)]
    PROVE  Holds(shrink(old), f, D) /\ shrink(old).dirty = 0
  <1>1. PICK x : x = old.size_index - 1
    OBVIOUS
  <1>2. x \in 1 .. Len(TableSizes) /\ Typed(old, D)
    BY <1>1 DEF Holds
  <1>3. Size(old) \in Nat
    BY <1>2, Sizes DEF Typed, Size
  <1>4. PICK u : u = Inserted(old, x)
    OBVIOUS
  <1>5. /\ u[0] = Empty(x)
        /\ \A i \in Slots(old) :
              u[i + 1] = IF IsLive(old.table[i])
                         THEN hashtable_insert(u[i], old.table[i].key, old.table[i].data)
                         ELSE u[i]
    BY <1>3, <1>4, InsertedIs
  <1> DEFINE B == {n \in Nat : n <= Size(old) => Refilled(old, f, D, u[n], n)}
  <1>6. 0 \in B
    <2>1. Below(old, f, 0) = [key \in {} |-> f[key]]
      BY BelowIs DEF Below
    <2>2. Holds(Empty(x), Below(old, f, 0), D)
      <3>1. PICK g : g = Below(old, f, 0)
        OBVIOUS
      <3>2. DOMAIN g = {} /\ g = [key \in DOMAIN g |-> g[key]]
        BY <2>1, <3>1
      <3> QED BY <3>1, <3>2, <1>2, EmptyHolds
    <2>3. Empty(x).dirty = 0
      BY DEF Empty
    <2> QED BY <2>2, <2>3, <1>5 DEF Refilled
  <1>7. ASSUME NEW i \in Nat, i \in B
        PROVE  i + 1 \in B
    <2>1. SUFFICES ASSUME i + 1 <= Size(old)
                   PROVE  Refilled(old, f, D, u[i + 1], i + 1)
      OBVIOUS
    <2>2. i \in Slots(old) /\ i <= Size(old)
      BY <2>1, <1>3 DEF Slots
    <2>3. Refilled(old, f, D, u[i], i)
      BY <1>7, <2>2
    <2>4. PICK w : w = u[i]
      OBVIOUS
    <2>5. PICK g : g = Below(old, f, i)
      OBVIOUS
    <2>6. Holds(w, g, D) /\ w.dirty = 0
      BY <2>3, <2>4, <2>5 DEF Refilled
    <2>7. CASE IsLive(old.table[i])
      <3>1. PICK key, data : key = old.table[i].key /\ data = old.table[i].data
        OBVIOUS
      <3>2. key \in Nat /\ key \notin DOMAIN g /\ data \in D
        BY <2>2, <2>5, <2>7, <3>1, BelowIs
      <3>3. Overloaded(w) => w.size_index # Len(TableSizes)
        <4>1. SUFFICES ASSUME w.size_index = Len(TableSizes)
                       PROVE  4 * w.used <= 3 * Size(w)
          BY Sizes, <2>6 DEF Overloaded, Holds, Typed, Size
        <4>2. Cardinality(DOMAIN g) \in Nat
              /\ Cardinality(DOMAIN g) + 1 <= Cardinality(DOMAIN f)
          BY <2>2, <2>5, <2>7, BelowCount
        <4>3. w.used <= Cardinality(DOMAIN g) + w.dirty /\ w.used \in Nat
          BY <2>6, LiveCount DEF Holds, Typed
        <4>4. Cardinality(DOMAIN f) \in Nat
          BY LiveCount
        <4>5. Size(w) = TableSizes[Len(TableSizes)] /\ Size(w) \in Nat
          BY <4>1, Sizes DEF Size
        <4> QED BY <4>2, <4>3, <4>4, <4>5, <2>6
      <3>4. PICK v : /\ v = hashtable_insert(w, key, data)
                     /\ Holds(v, With(g, key, data), D)
                     /\ v.dirty = 0 \/ (v.dirty = w.dirty /\ v.size_index = w.size_index)
        BY <2>6, <3>2, <3>3, InsertHolds
      <3>5. u[i + 1] = v /\ v.dirty = 0
        BY <1>5, <2>2, <2>4, <2>6, <2>7, <3>1, <3>4
      <3>6. Refilled(old, f, D, v, i + 1)
        BY <2>2, <2>3, <2>5, <2>7, <3>1, <3>4, <3>5, OneMore
      <3> QED BY <3>5, <3>6
    <2>8. CASE ~IsLive(old.table[i])
      <3>1. u[i + 1] = u[i]
        BY <1>5, <2>2, <2>8
      <3>2. Refilled(old, f, D, u[i], i + 1)
        BY <2>2, <2>3, <2>8, OneMore
      <3> QED BY <3>1, <3>2
    <2> QED BY <2>7, <2>8
  <1>8. Size(old) \in B
    <2> HIDE DEF B
    <2> QED BY <1>3, <1>6, <1>7, Induction
  <1>9. PICK v : v = shrink(old)
    OBVIOUS
  <1>10. v = u[Size(old)]
    BY <1>1, <1>4, <1>9, RefillIs
  <1>11. Refilled(old, f, D, v, Size(old))
    BY <1>3, <1>8, <1>10
  <1>12. Holds(v, f, D) /\ v.dirty = 0
    BY <1>11, BelowIs DEF Refilled
  <1> QED BY <1>9, <1>12

-----------------------------------------------------------------------------
(* The table that MCHash drives.                                           *)

(* The invariant: the table holds just what was inserted and not removed,  *)
(* and a table above the smallest has few slots of removed keys.           *)
Data == Nat \cup {NULL}
HashInv ==
    /\ Holds(t, kept, Data) /\ DOMAIN kept \subseteq Keys
    /\ t.size_index > 1 => 4 * t.dirty <= Size(t)

(* The empty table.                                                        *)
LEMMA HashStart == Init => HashInv
  <1> SUFFICES ASSUME Init
               PROVE  HashInv
    OBVIOUS
  <1>1. 1 \in 1 .. Len(TableSizes) /\ NULL \in Data
    BY Sizes DEF Data
  <1>2. t = Empty(1)
    BY DEF Init, hashtable_new, Empty
  <1>3. DOMAIN kept = {} /\ kept = [key \in DOMAIN kept |-> kept[key]]
    BY DEF Init
  <1>4. Holds(t, kept, Data)
    BY <1>1, <1>2, <1>3, EmptyHolds
  <1>5. t.size_index = 1
    BY <1>2 DEF Empty
  <1> QED BY <1>3, <1>4, <1>5 DEF HashInv

(* An insertion: the last table is not overloaded, since what it holds is  *)
(* at most half of it and what was removed a quarter.                      *)
LEMMA HashInsert ==
    ASSUME HashInv, NEW key \in Keys, Insert(key)
    PROVE  HashInv'
  <1>1. /\ Holds(t, kept, Data) /\ DOMAIN kept \subseteq Keys /\ NULL \in Data
        /\ t.size_index > 1 => 4 * t.dirty <= Size(t)
    BY DEF HashInv, Data
  <1>2. key \in Nat /\ key + 1 \in Data /\ key \notin DOMAIN kept
    BY MCHashAssumption DEF Data, Insert
  <1>3. Typed(t, Data) /\ t.used \in Nat /\ t.dirty \in Nat /\ Size(t) \in Nat
    BY <1>1, Sizes DEF Holds, Typed, Size
  <1>4. Overloaded(t) => t.size_index # Len(TableSizes)
    <2>1. SUFFICES ASSUME t.size_index = Len(TableSizes)
                   PROVE  4 * t.used <= 3 * Size(t)
      BY <1>3 DEF Overloaded
    <2>2. 4 * t.dirty <= Size(t)
      BY <2>1, <1>1, MCHashAssumption, Sizes
    <2>3. t.used <= Cardinality(DOMAIN kept) + t.dirty /\ Cardinality(DOMAIN kept) \in Nat
      BY <1>1, LiveCount
    <2>4. Cardinality(DOMAIN kept) <= Cardinality(Keys) - 1
          /\ Cardinality(Keys) \in Nat
      <3>1. IsFiniteSet(Keys) /\ Cardinality(Keys) \in Nat
        BY MCHashAssumption, FS_CardinalityType
      <3>2. IsFiniteSet(Keys \ {key}) /\ Cardinality(Keys \ {key}) = Cardinality(Keys) - 1
        BY <3>1, FS_RemoveElement
      <3>3. DOMAIN kept \in SUBSET (Keys \ {key})
        BY <1>1, <1>2
      <3>4. Cardinality(DOMAIN kept) <= Cardinality(Keys \ {key})
        BY <3>2, <3>3, FS_Subset
      <3> QED BY <3>1, <3>2, <3>4
    <2>5. 2 * (Cardinality(Keys) - 1) <= Size(t)
      BY <2>1, MCHashAssumption DEF Size
    <2> QED BY <2>2, <2>3, <2>4, <2>5, <1>3
  <1>5. PICK v : /\ v = hashtable_insert(t, key, key + 1)
                 /\ Holds(v, With(kept, key, key + 1), Data)
                 /\ v.dirty = 0 \/ (v.dirty = t.dirty /\ v.size_index = t.size_index)
    BY <1>1, <1>2, <1>4, InsertHolds
  <1>6. t' = v /\ kept' = With(kept, key, key + 1)
    BY <1>5 DEF Insert, With
  <1>7. Holds(t', kept', Data)
    BY <1>5, <1>6
  <1>8. DOMAIN kept' \subseteq Keys
    BY <1>1, <1>6 DEF With
  <1>9. v.size_index > 1 => 4 * v.dirty <= Size(v)
    <2>1. Size(v) \in Nat
      BY <1>5, Sizes DEF Holds, Typed, Size
    <2>2. CASE v.dirty = 0
      BY <2>1, <2>2
    <2>3. CASE v.dirty = t.dirty /\ v.size_index = t.size_index
      BY <2>3, <1>1 DEF Size
    <2> QED BY <2>2, <2>3, <1>5
  <1>10. t'.size_index > 1 => 4 * t'.dirty <= TableSizes[t'.size_index]
    BY <1>6, <1>9 DEF Size
  <1> QED BY <1>7, <1>8, <1>10 DEF HashInv, Size, Data

(* A removal.                                                              *)
LEMMA HashRemove ==
    ASSUME HashInv, NEW key \in Keys, Remove(key)
    PROVE  HashInv'
  <1>1. Holds(t, kept, Data) /\ DOMAIN kept \subseteq Keys /\ NULL \in Data
    BY DEF HashInv, Data
  <1>2. key \in Nat /\ key \in DOMAIN kept
    BY MCHashAssumption DEF Remove
  <1>3. PICK i \in Slots(t) :
           i = EndOf(t, key) /\ i \in LiveAt(t) /\ t.table[i].key = key
    BY <1>1, <1>2, EndIs
  <1>4. PICK gone : /\ gone = Mark(t, i) /\ Holds(gone, Without(kept, key), Data)
                    /\ gone.size_index = t.size_index /\ gone.dirty = t.dirty + 1
                    /\ gone.used = t.used
    BY <1>1, <1>2, <1>3, MarkHolds
  <1>5. t.table[i].valid
    BY <1>3 DEF LiveAt, IsLive
  <1>6. PICK g : g = Without(kept, key)
    OBVIOUS
  <1>7. DOMAIN g \subseteq Keys /\ kept' = g
    BY <1>1, <1>6 DEF Without, Remove
  <1>8. hashtable_remove(t, key)
          = IF 4 * gone.dirty > Size(t) /\ t.size_index > 1 THEN shrink(gone) ELSE gone
    BY <1>3, <1>4, <1>5, Zenon DEF hashtable_remove, Mark
  <1>9. PICK v : v = hashtable_remove(t, key)
    OBVIOUS
  <1>10. t' = v
    BY <1>9 DEF Remove
  <1>11. t.size_index \in 1 .. Len(TableSizes) /\ Len(TableSizes) \in Nat
         /\ Size(t) \in Nat /\ gone.dirty \in Nat
    BY <1>1, <1>4, Sizes DEF Holds, Typed, Size
  <1>12. Holds(v, g, Data) /\ (v.size_index > 1 => 4 * v.dirty <= Size(v))
    <2>1. CASE 4 * gone.dirty > Size(t) /\ t.size_index > 1
      <3>1. gone.size_index - 1 \in 1 .. Len(TableSizes)
        BY <2>1, <1>4, <1>11
      <3>2. 4 * Cardinality(DOMAIN g) <= 3 * TableSizes[Len(TableSizes)]
        <4>1. IsFiniteSet(Keys) /\ Cardinality(Keys) \in Nat
          BY MCHashAssumption, FS_CardinalityType
        <4>2. IsFiniteSet(Keys \ {key})
              /\ Cardinality(Keys \ {key}) = Cardinality(Keys) - 1
          BY <4>1, FS_RemoveElement
        <4>3. DOMAIN g \in SUBSET (Keys \ {key})
          BY <1>1, <1>6 DEF Without
        <4>4. Cardinality(DOMAIN g) <= Cardinality(Keys \ {key})
          BY <4>2, <4>3, FS_Subset
        <4>5. Cardinality(DOMAIN g) \in Nat
          BY <1>4, <1>6, LiveCount
        <4>6. TableSizes[Len(TableSizes)] \in Nat
          BY Sizes
        <4>7. 2 * (Cardinality(Keys) - 1) <= TableSizes[Len(TableSizes)]
          BY MCHashAssumption
        <4> QED BY <4>1, <4>2, <4>4, <4>5, <4>6, <4>7
      <3>3. Holds(shrink(gone), g, Data) /\ shrink(gone).dirty = 0
        BY <3>1, <3>2, <1>1, <1>4, <1>6, ShrinkHolds
      <3>4. v = shrink(gone)
        BY <2>1, <1>8, <1>9
      <3>5. Size(v) \in Nat
        BY <3>3, <3>4, Sizes DEF Holds, Typed, Size
      <3> QED BY <3>3, <3>4, <3>5
    <2>2. CASE ~(4 * gone.dirty > Size(t) /\ t.size_index > 1)
      <3>1. v = gone
        BY <2>2, <1>8, <1>9
      <3>2. gone.size_index > 1 => 4 * gone.dirty <= Size(gone)
        BY <2>2, <1>4, <1>11 DEF Size
      <3> QED BY <3>1, <3>2, <1>4, <1>6
    <2> QED BY <2>1, <2>2
  <1>13. Holds(t', kept', Data)
    BY <1>7, <1>10, <1>12
  <1>14. t'.size_index > 1 => 4 * t'.dirty <= TableSizes[t'.size_index]
    BY <1>10, <1>12 DEF Size
  <1> QED BY <1>7, <1>13, <1>14 DEF HashInv, Size, Data

(* HashInv is an invariant.                                                *)
LEMMA HashSound == Spec => []HashInv
  <1>1. HashInv /\ [Next]_vars => HashInv'
    <2> SUFFICES ASSUME HashInv, [Next]_vars
                 PROVE  HashInv'
      OBVIOUS
    <2>1. CASE Next
      <3>1. PICK key \in Keys : Insert(key) \/ Remove(key)
        BY <2>1 DEF Next
      <3> QED BY <3>1, HashInsert, HashRemove
    <2>2. CASE UNCHANGED vars
      <3>1. t' = t /\ kept' = kept
        BY <2>2 DEF vars
      <3> QED BY <3>1 DEF HashInv, Size, Data
    <2> QED BY <2>1, <2>2
  <1> QED BY <1>1, HashStart, PTL DEF Spec

(* hash.c:169-220: every search ends, for keys that are there and for keys *)
(* that are not: a table is never so full that no slot is left unused.     *)
THEOREM HashProbesEnd == Spec => []ProbesEnd
  <1>1. HashInv => ProbesEnd
    <2> SUFFICES ASSUME HashInv, NEW key \in Keys \cup Absent
                 PROVE  Ends(t, key)
      BY DEF ProbesEnd
    <2>1. Holds(t, kept, Data) /\ key \in Nat
      BY MCHashAssumption DEF HashInv
    <2> QED BY <2>1, EndIs
  <1> QED BY <1>1, HashSound, PTL

(* hash.c:111-220: a lookup finds just the keys that were inserted and not *)
(* removed, with their data, whatever was removed on their way and however *)
(* often the table was rebuilt up or down.                                 *)
THEOREM HashReachable == Spec => []EveryKeyReachable
  <1>1. HashInv => EveryKeyReachable
    <2> SUFFICES ASSUME HashInv, NEW key \in Keys \cup Absent
                 PROVE  hashtable_lookup(t, key)
                           = IF key \in DOMAIN kept THEN kept[key] ELSE NULL
      BY DEF EveryKeyReachable
    <2>1. Holds(t, kept, Data) /\ key \in Nat
      BY MCHashAssumption DEF HashInv
    <2> QED BY <2>1, LookupIs
  <1> QED BY <1>1, HashSound, PTL
=============================================================================
