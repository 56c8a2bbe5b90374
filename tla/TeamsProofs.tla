---------------------------- MODULE TeamsProofs ----------------------------
(***************************************************************************)
(* Proofs about Teams.  Its operators take and give the tables of the      *)
(* kernel as one record; so do the lemmas, each of which says that an      *)
(* operator keeps what the tables have in common.                          *)
(***************************************************************************)
EXTENDS Teams, FiniteSetTheorems, SequenceTheorems, WellFoundedInduction, TLAPS

-----------------------------------------------------------------------------
(* Sets of numbers.                                                        *)

(* A set of naturals that is not empty has a least element.                *)
LEMMA LeastNatural ==
    ASSUME NEW T \in SUBSET Nat, T # {}
    PROVE  \E x \in T : \A y \in T : x <= y
  <1> DEFINE R == OpToRel(<, Nat)
  <1>1. IsWellFoundedOn(R, Nat)
    BY NatLessThanWellFounded
  <1>2. \A x, y \in Nat : y < x => <<y, x>> \in R
    BY DEF OpToRel
  <1> HIDE DEF R
  <1>3. PICK x \in T : \A y \in T : ~(<<y, x>> \in R)
    BY <1>1, WFMin
  <1>4. \A y \in T : x \in Nat /\ y \in Nat /\ ~(y < x)
    BY <1>2, <1>3
  <1> QED BY <1>4

(* A set that holds 0 and with each number the next holds all of them.     *)
LEMMA Induction ==
    ASSUME NEW B, 0 \in B, \A n \in Nat : n \in B => n + 1 \in B
    PROVE  Nat \subseteq B
  <1> DEFINE T == Nat \ B
  <1>1. SUFFICES ASSUME T # {}
                 PROVE  FALSE
    OBVIOUS
  <1>2. PICK x \in T : \A y \in T : x <= y
    BY <1>1, LeastNatural
  <1>3. x # 0 /\ x - 1 \in Nat /\ x - 1 \notin T
    BY <1>2
  <1> QED BY <1>2, <1>3

-----------------------------------------------------------------------------
(* The resource table.                                                     *)

RsrcStates ==
    [type      : [Ids -> Kinds \cup {RSRC_NONE}],
     owner     : [Ids -> Owners],
     resources : [Owners -> SUBSET Ids],
     rfree     : SUBSET Ids]

(* Identifiers and lists agree, and what is free has no owner.             *)
TableSound(r) ==
    /\ r \in RsrcStates
    /\ IdsAccountedIn(r) /\ OwnersAgreeIn(r)
    /\ \A i \in Ids : r.type[i] = RSRC_NONE => r.owner[i] = NoTeam

(* Between r and q identifier i alone has changed: it now names a resource *)
(* of this kind, which m owns.                                             *)
Named(r, q, i, kind, m) ==
    /\ q.type[i] = kind /\ q.owner[i] = m
    /\ \A j \in Ids \ {i} : q.type[j] = r.type[j] /\ q.owner[j] = r.owner[j]

(* Identifiers, kinds and owners.                                          *)
LEMMA Names ==
    /\ Ids \subseteq Nat /\ NoTeam \notin Ids /\ KernelTeam \notin Ids
    /\ KernelTeam # NoTeam /\ RSRC_NONE \notin Kinds
    /\ Owners = Ids \cup {KernelTeam, NoTeam}
    /\ IsFiniteSet(Ids) /\ Cardinality(Ids) = MaxRsrc
  <1>1. IsFiniteSet(Ids) /\ Cardinality(Ids) = MaxRsrc
    BY FS_Interval, ResourcesAssumption DEF Ids
  <1> QED BY <1>1, ResourcesAssumption DEF Ids, NoTeam, Owners, RSRC_NONE, Kinds

(* The identifier given next is a free one.                                *)
LEMMA NextIsFree ==
    ASSUME NEW r, TableSound(r), r.rfree # {}
    PROVE  NextIn(r) \in r.rfree /\ NextIn(r) \in Ids /\ r.type[NextIn(r)] = RSRC_NONE
  <1>1. r.rfree \in SUBSET Nat /\ r.rfree \subseteq Ids
    BY Names DEF TableSound, RsrcStates
  <1>2. \E i \in r.rfree : \A j \in r.rfree : i <= j
    BY <1>1, LeastNatural
  <1>3. NextIn(r) \in r.rfree
    BY <1>2 DEF NextIn
  <1> QED BY <1>1, <1>3 DEF TableSound, IdsAccountedIn, rsrc_find

(* What a list holds, one identifier at a time.                            *)
LEMMA ListsOwn ==
    ASSUME NEW r \in RsrcStates
    PROVE  OwnersAgreeIn(r) <=>
              \A p \in Owners \ {NoTeam}, j \in Ids :
                  j \in r.resources[p] <=> r.owner[j] = p
  <1>1. \A p \in Owners : r.resources[p] \subseteq Ids
    BY DEF RsrcStates
  <1>2. ASSUME NEW p \in Owners
        PROVE  r.resources[p] = {i \in Ids : r.owner[i] = p} <=>
                   \A j \in Ids : j \in r.resources[p] <=> r.owner[j] = p
    BY <1>1
  <1> QED BY <1>2 DEF OwnersAgreeIn

(* rsrc_bind(): resource.c:73.                                             *)
LEMMA BindSound ==
    ASSUME NEW r, TableSound(r), r.rfree # {}, NEW kind \in Kinds, NEW m \in Owners
    PROVE  /\ TableSound(rsrc_bind(r, kind, m))
           /\ Named(r, rsrc_bind(r, kind, m), NextIn(r), kind, m)
           /\ rsrc_bind(r, kind, m).rfree = r.rfree \ {NextIn(r)}
  <1>1. PICK i \in Ids : i = NextIn(r) /\ i \in r.rfree /\ r.type[i] = RSRC_NONE
    BY NextIsFree
  <1> DEFINE q == rsrc_bind(r, kind, m)
  <1>2. /\ r \in RsrcStates /\ OwnersAgreeIn(r) /\ IdsAccountedIn(r)
        /\ \A j \in Ids : r.type[j] = RSRC_NONE => r.owner[j] = NoTeam
    BY DEF TableSound
  <1>3. /\ q \in RsrcStates
        /\ q.rfree = r.rfree \ {i}
        /\ q.type = [r.type EXCEPT ![i] = kind]
        /\ q.owner = [r.owner EXCEPT ![i] = m]
        /\ q.resources = [r.resources EXCEPT ![m] = IF m = NoTeam THEN @ ELSE @ \cup {i}]
    BY <1>1, <1>2 DEF rsrc_bind, RsrcStates
  <1> HIDE DEF q
  <1>4. /\ Named(r, q, i, kind, m)
        /\ \A p \in Owners \ {m} : q.resources[p] = r.resources[p]
        /\ m # NoTeam => q.resources[m] = r.resources[m] \cup {i}
    BY <1>2, <1>3 DEF Named, RsrcStates
  <1>5. IdsAccountedIn(q)
    BY <1>2, <1>3, <1>4, Names DEF IdsAccountedIn, rsrc_find, Named, RsrcStates
  <1>6. OwnersAgreeIn(q)
    <2>1. \A p \in Owners \ {NoTeam}, j \in Ids :
              j \in r.resources[p] <=> r.owner[j] = p
      BY <1>2, ListsOwn
    <2>2. r.owner[i] = NoTeam
      BY <1>1, <1>2
    <2>3. \A p \in Owners \ {NoTeam}, j \in Ids :
              j \in q.resources[p] <=> q.owner[j] = p
      BY <2>1, <2>2, <1>4 DEF Named
    <2> QED BY <2>3, <1>3, ListsOwn
  <1>7. \A j \in Ids : q.type[j] = RSRC_NONE => q.owner[j] = NoTeam
    BY <1>2, <1>4, Names DEF Named
  <1>8. TableSound(q)
    BY <1>3, <1>5, <1>6, <1>7 DEF TableSound
  <1> QED BY <1>1, <1>3, <1>4, <1>8 DEF q

(* rsrc_set_owner(): resource.c:88.                                        *)
LEMMA SetOwnerSound ==
    ASSUME NEW r, TableSound(r), NEW i \in Ids, r.type[i] # RSRC_NONE, NEW m \in Owners
    PROVE  /\ TableSound(rsrc_set_owner(r, i, m))
           /\ Named(r, rsrc_set_owner(r, i, m), i, r.type[i], m)
           /\ rsrc_set_owner(r, i, m).rfree = r.rfree
  <1> DEFINE q == rsrc_set_owner(r, i, m)
  <1>1. /\ r \in RsrcStates /\ OwnersAgreeIn(r) /\ IdsAccountedIn(r)
        /\ \A j \in Ids : r.type[j] = RSRC_NONE => r.owner[j] = NoTeam
    BY DEF TableSound
  <1>2. PICK o \in Owners : o = r.owner[i]
    BY <1>1 DEF RsrcStates
  <1> DEFINE left == [r.resources EXCEPT ![o] = @ \ {i}]
  <1>3. left \in [Owners -> SUBSET Ids]
    BY <1>1 DEF RsrcStates
  <1>4. /\ q \in RsrcStates
        /\ q.rfree = r.rfree /\ q.type = r.type
        /\ q.owner = [r.owner EXCEPT ![i] = m]
        /\ q.resources = [left EXCEPT ![m] = IF m = NoTeam THEN @ ELSE @ \cup {i}]
    BY ZenonT(60), <1>1, <1>2 DEF rsrc_set_owner, RsrcStates
  <1> HIDE DEF q
  <1>5. Named(r, q, i, r.type[i], m)
    BY <1>1, <1>4 DEF Named, RsrcStates
  <1>6. \A p \in Owners \ {NoTeam} :
          q.resources[p] = IF p = m THEN r.resources[p] \cup {i} ELSE r.resources[p] \ {i}
    <2>1. ASSUME NEW p \in Owners \ {NoTeam}
          PROVE  q.resources[p] = IF p = m THEN r.resources[p] \cup {i}
                                  ELSE r.resources[p] \ {i}
      <3>1. p # o => r.resources[p] \ {i} = r.resources[p]
        BY <1>1, <1>2 DEF OwnersAgreeIn
      <3>2. left[p] = IF p = o THEN r.resources[p] \ {i} ELSE r.resources[p]
        BY <1>1 DEF RsrcStates
      <3>3. q.resources[p] = IF p = m THEN left[p] \cup {i} ELSE left[p]
        BY <1>3, <1>4
      <3> QED BY <3>1, <3>2, <3>3
    <2> QED BY <2>1
  <1>7. OwnersAgreeIn(q)
    <2>1. \A p \in Owners \ {NoTeam}, j \in Ids :
              j \in r.resources[p] <=> r.owner[j] = p
      BY <1>1, ListsOwn
    <2>2. \A p \in Owners \ {NoTeam}, j \in Ids :
              j \in q.resources[p] <=> q.owner[j] = p
      <3>1. ASSUME NEW p \in Owners \ {NoTeam}, NEW j \in Ids
            PROVE  j \in q.resources[p] <=> q.owner[j] = p
        <4>1. /\ j \in r.resources[p] <=> r.owner[j] = p
              /\ j # i => q.owner[j] = r.owner[j]
              /\ q.owner[i] = m
          BY <2>1, <1>5 DEF Named
        <4>2. q.resources[p] = IF p = m THEN r.resources[p] \cup {i}
                               ELSE r.resources[p] \ {i}
          BY <1>6
        <4>3. CASE p = m
          BY <4>1, <4>2, <4>3
        <4>4. CASE p # m
          BY <4>1, <4>2, <4>4
        <4> QED BY <4>3, <4>4
      <3> QED BY <3>1
    <2> QED BY <2>2, <1>4, ListsOwn
  <1>8. IdsAccountedIn(q)
    BY <1>1, <1>4 DEF IdsAccountedIn, rsrc_find
  <1>9. \A j \in Ids : q.type[j] = RSRC_NONE => q.owner[j] = NoTeam
    BY <1>1, <1>5 DEF Named
  <1>10. TableSound(q)
    BY <1>4, <1>7, <1>8, <1>9 DEF TableSound
  <1> QED BY <1>4, <1>5, <1>10 DEF q

(* rsrc_release(): resource.c:105.                                         *)
LEMMA ReleaseSound ==
    ASSUME NEW r, TableSound(r), NEW i \in Ids
    PROVE  /\ TableSound(rsrc_release(r, i))
           /\ Named(r, rsrc_release(r, i), i, RSRC_NONE, NoTeam)
  <1> DEFINE q == rsrc_release(r, i)
  <1>1. /\ r \in RsrcStates /\ OwnersAgreeIn(r) /\ IdsAccountedIn(r)
        /\ \A j \in Ids : r.type[j] = RSRC_NONE => r.owner[j] = NoTeam
    BY DEF TableSound
  <1>2. PICK o \in Owners : o = r.owner[i]
    BY <1>1 DEF RsrcStates
  <1>3. /\ q \in RsrcStates
        /\ q.rfree = r.rfree \cup {i}
        /\ q.type = [r.type EXCEPT ![i] = RSRC_NONE]
        /\ q.owner = [r.owner EXCEPT ![i] = NoTeam]
        /\ q.resources = [r.resources EXCEPT ![o] = @ \ {i}]
    BY <1>1, <1>2, Names DEF rsrc_release, RsrcStates
  <1> HIDE DEF q
  <1>4. Named(r, q, i, RSRC_NONE, NoTeam)
    BY <1>1, <1>3 DEF Named, RsrcStates
  <1>5. \A p \in Owners \ {NoTeam} : q.resources[p] = r.resources[p] \ {i}
    <2>1. \A p \in Owners \ {NoTeam} : p # o => r.resources[p] \ {i} = r.resources[p]
      BY <1>1, <1>2 DEF OwnersAgreeIn
    <2> QED BY <2>1, <1>1, <1>3 DEF RsrcStates
  <1>6. OwnersAgreeIn(q)
    <2>1. \A p \in Owners \ {NoTeam}, j \in Ids :
              j \in r.resources[p] <=> r.owner[j] = p
      BY <1>1, ListsOwn
    <2>2. \A p \in Owners \ {NoTeam}, j \in Ids :
              j \in q.resources[p] <=> q.owner[j] = p
      BY <2>1, <1>4, <1>5 DEF Named
    <2> QED BY <2>2, <1>3, ListsOwn
  <1>7. IdsAccountedIn(q)
    BY <1>1, <1>3, <1>4 DEF IdsAccountedIn, rsrc_find, Named
  <1>8. \A j \in Ids : q.type[j] = RSRC_NONE => q.owner[j] = NoTeam
    BY <1>1, <1>4 DEF Named
  <1>9. TableSound(q)
    BY <1>3, <1>6, <1>7, <1>8 DEF TableSound
  <1> QED BY <1>4, <1>9 DEF q

-----------------------------------------------------------------------------
(* Memory.                                                                 *)

PGroups  == [refcount : Int, physmap : BOOLEAN, pages : Seq(Nat \ {NoPage})]
AreaRecs == [pgroup : Nat, virt_addr : Nat, length : Nat]
MemStates ==
    [free   : SUBSET Pages,
     used   : Int,
     table  : [Ids -> [VPages -> Nat]],
     areas  : [Ids -> SUBSET Ids],
     area   : [Ids -> AreaRecs],
     pgroup : [Groups -> PGroups]]

(* The areas mapped in some space, and those that map group g.             *)
Mapped(m)   == {a \in Ids : \E s \in Ids : a \in m.areas[s]}
Users(m, g) == {a \in Mapped(m) : m.area[a].pgroup = g}

(* An area is in one space and maps pages that its group has; the pages of *)
(* a group that is not of a device are RAM; and a group that is free is    *)
(* empty.                                                                  *)
GroupsSound(m) ==
    /\ m \in MemStates
    /\ \A s, x \in Ids : \A a \in m.areas[s] : a \in m.areas[x] => s = x
    /\ \A a \in Mapped(m) :
          /\ m.area[a].pgroup \in Groups /\ m.area[a].virt_addr # 0
          /\ m.area[a].length <= Len(m.pgroup[m.area[a].pgroup].pages)
    /\ \A g \in Groups : m.pgroup[g].physmap \/ Members(m.pgroup[g].pages) \subseteq Pages
    /\ \A g \in Groups : m.pgroup[g].refcount = 0 => m.pgroup[g] = UnusedGroup

(* No page comes twice.                                                    *)
Once(ps) == \A i, j \in 1 .. Len(ps) : ps[i] = ps[j] => i = j

(* The pages of RAM: each is free or in one place in one group.            *)
RamSound(m) ==
    /\ \A g \in Groups : ~m.pgroup[g].physmap =>
          /\ Once(m.pgroup[g].pages)
          /\ Members(m.pgroup[g].pages) \cap m.free = {}
    /\ \A g, h \in Groups :
          ~m.pgroup[g].physmap /\ ~m.pgroup[h].physmap /\ g # h =>
             Members(m.pgroup[g].pages) \cap Members(m.pgroup[h].pages) = {}
    /\ \A p \in Pages \ m.free : \E g \in Groups :
          ~m.pgroup[g].physmap /\ p \in Members(m.pgroup[g].pages)

(* Does area a reach over entry v of a table, and with which page?         *)
Over(m, a, v) == /\ m.area[a].virt_addr <= v
                 /\ v < m.area[a].virt_addr + m.area[a].length
Held(m, a, v) == m.pgroup[m.area[a].pgroup].pages[v - m.area[a].virt_addr + 1]

(* An entry in use is that of the one area over it.                        *)
EntrySound(m, s, v) ==
    IF m.table[s][v] = NoPage THEN \A a \in m.areas[s] : ~Over(m, a, v)
    ELSE \E a \in m.areas[s] :
            /\ Over(m, a, v) /\ Held(m, a, v) = m.table[s][v]
            /\ \A b \in m.areas[s] : Over(m, b, v) => b = a
TablesSound(m) == \A s \in Ids, v \in VPages : EntrySound(m, s, v)

(* A group counts its areas.  The rest holds when only areas that map all  *)
(* of a group of RAM are resized.                                          *)
MemSound(m) ==
    /\ GroupsSound(m)
    /\ \A g \in Groups : m.pgroup[g].refcount = Cardinality(Users(m, g))
    /\ ResizeWhole => RamSound(m) /\ TablesSound(m)

(* What used_pages counts beside the pages of RAM that are not free.       *)
KernelPages(m) == m.used - Cardinality(Pages \ m.free)

(* From m to q memory stays sound, and A are the areas of the spaces.      *)
MemMoves(m, q, A) ==
    /\ MemSound(q) /\ q.areas = A
    /\ ResizeWhole => KernelPages(q) = KernelPages(m)

(* An entry over which nothing has changed.                                *)
LEMMA EntryKept ==
    ASSUME NEW m, NEW q, NEW s, NEW v, EntrySound(m, s, v),
           q.table[s][v] = m.table[s][v],
           \A a \in m.areas[s] : Over(m, a, v) => a \in q.areas[s] /\ Over(q, a, v),
           \A a \in q.areas[s] : Over(q, a, v) => a \in m.areas[s] /\ Over(m, a, v),
           \A a \in m.areas[s] : Over(m, a, v) => Held(q, a, v) = Held(m, a, v)
    PROVE  EntrySound(q, s, v)
  <1>1. CASE m.table[s][v] = NoPage
    BY <1>1 DEF EntrySound
  <1>2. CASE m.table[s][v] # NoPage
    <2>1. PICK a \in m.areas[s] : /\ Over(m, a, v) /\ Held(m, a, v) = m.table[s][v]
                                  /\ \A b \in m.areas[s] : Over(m, b, v) => b = a
      BY <1>2 DEF EntrySound
    <2>2. /\ a \in q.areas[s] /\ Over(q, a, v) /\ Held(q, a, v) = q.table[s][v]
          /\ \A b \in q.areas[s] : Over(q, b, v) => b = a
      BY <2>1
    <2> QED BY <2>2, <1>2 DEF EntrySound
  <1> QED BY <1>1, <1>2

(* The first n numbers of a finite set, in their order.                    *)
LEMMA FirstOfSet ==
    ASSUME NEW T \in SUBSET Nat, IsFiniteSet(T), NEW n \in Nat, n <= Cardinality(T)
    PROVE  \E ps \in [1 .. n -> T] :
              \A i \in 1 .. n : {p \in T : p < ps[i]} = {ps[j] : j \in 1 .. i - 1}
  <1> DEFINE First(k, ps) ==
                 /\ ps \in [1 .. k -> T]
                 /\ \A i \in 1 .. k : {p \in T : p < ps[i]} = {ps[j] : j \in 1 .. i - 1}
             B == {k \in Nat : k <= Cardinality(T) => \E ps : First(k, ps)}
  <1>1. 0 \in B
    <2>1. First(0, [i \in 1 .. 0 |-> 0])
      OBVIOUS
    <2> QED BY <2>1
  <1>2. ASSUME NEW k \in Nat, k \in B
        PROVE  k + 1 \in B
    <2>1. SUFFICES ASSUME k + 1 <= Cardinality(T)
                   PROVE  \E ps : First(k + 1, ps)
      OBVIOUS
    <2>2. Cardinality(T) \in Nat
      BY FS_CardinalityType
    <2>3. PICK ps : First(k, ps)
      BY <1>2, <2>1, <2>2
    <2> DEFINE M == {ps[j] : j \in 1 .. k}
    <2>4. T \ M # {}
      <3>1. SUFFICES ASSUME T \subseteq M
                     PROVE  FALSE
        OBVIOUS
      <3>2. ps \in Surjection(1 .. k, T)
        BY <2>3, <3>1 DEF Surjection
      <3>3. IsFiniteSet(1 .. k) /\ Cardinality(1 .. k) = k
        BY FS_Interval
      <3>4. Cardinality(T) <= k
        BY <3>2, <3>3, FS_Surjection
      <3> QED BY <3>4, <2>1, <2>2
    <2>5. PICK x \in T \ M : \A y \in T \ M : x <= y
      BY <2>4, LeastNatural
    <2> DEFINE qs == [i \in 1 .. k + 1 |-> IF i <= k THEN ps[i] ELSE x]
    <2>6. qs \in [1 .. k + 1 -> T]
      BY <2>3, <2>5
    <2>7. qs[k + 1] = x /\ \A i \in 1 .. k : qs[i] = ps[i]
      OBVIOUS
    <2>8. {p \in T : p < x} = M
      <3>1. x \in T /\ x \in Nat /\ x \notin M /\ \A y \in T : y \in Nat
        BY <2>5
      <3>2. ASSUME NEW p \in T, p < x
            PROVE  p \in M
        <4> HIDE DEF M
        <4> QED BY <2>5, <3>1, <3>2
      <3>3. ASSUME NEW i \in 1 .. k
            PROVE  ps[i] \in T /\ ps[i] < x
        <4>1. ps[i] \in T /\ ps[i] # x /\ ps[i] \in Nat
          BY <2>3, <3>1
        <4>2. x \notin {ps[j] : j \in 1 .. i - 1}
          BY <3>1
        <4>3. x \notin {p \in T : p < ps[i]}
          BY <4>2, <2>3
        <4> QED BY <4>1, <4>3, <3>1
      <3>4. ASSUME NEW p \in M
            PROVE  p \in T /\ p < x
        <4>1. PICK i \in 1 .. k : p = ps[i]
          OBVIOUS
        <4> QED BY <4>1, <3>3
      <3> HIDE DEF M
      <3>5. \A p \in T : p < x <=> p \in M
        BY <3>2, <3>4
      <3>6. M \subseteq T
        BY <3>4
      <3> QED BY <3>5, <3>6
    <2>9. ASSUME NEW i \in 1 .. k + 1
          PROVE  {p \in T : p < qs[i]} = {qs[j] : j \in 1 .. i - 1}
      <3>1. CASE i = k + 1
        <4>1. i - 1 = k /\ qs[i] = x
          BY <3>1, <2>7
        <4>2. {qs[j] : j \in 1 .. k} = M
          BY <2>7
        <4> QED BY <4>1, <4>2, <2>8
      <3>2. CASE i # k + 1
        <4>1. i \in 1 .. k /\ \A j \in 1 .. i - 1 : j \in 1 .. k
          BY <3>2
        <4>2. {qs[j] : j \in 1 .. i - 1} = {ps[j] : j \in 1 .. i - 1}
          BY <4>1, <2>7
        <4> QED BY <4>1, <4>2, <2>3, <2>7
      <3> QED BY <3>1, <3>2
    <2>10. First(k + 1, qs)
      BY <2>6, <2>9
    <2> QED BY <2>10
  <1>3. n \in B
    <2> HIDE DEF B
    <2> QED BY <1>1, <1>2, Induction
  <1> QED BY <1>3

(* The pages that come next are free, and each comes once.                 *)
LEMMA FirstFreeIs ==
    ASSUME NEW m \in MemStates, NEW n \in Nat, HasPages(m, n)
    PROVE  /\ FirstFree(m, n) \in Seq(m.free) /\ Len(FirstFree(m, n)) = n
           /\ \A i, j \in 1 .. n : FirstFree(m, n)[i] = FirstFree(m, n)[j] => i = j
  <1>1. /\ m.free \in SUBSET Nat /\ IsFiniteSet(m.free)
        /\ n <= Cardinality(m.free)
    <2>1. m.free \subseteq Pages /\ Pages \subseteq Nat /\ IsFiniteSet(Pages)
      BY AreasAssumption, FS_Interval DEF Pages, MemStates
    <2>2. IsFiniteSet(m.free)
      BY <2>1, FS_Subset
    <2> QED BY <2>1, <2>2, FS_CardinalityType DEF HasPages
  <1>2. \E ps \in [1 .. n -> m.free] :
            \A i \in 1 .. n : {p \in m.free : p < ps[i]} = {ps[j] : j \in 1 .. i - 1}
    BY <1>1, FirstOfSet
  <1> DEFINE f == FirstFree(m, n)
  <1>3. /\ f \in [1 .. n -> m.free]
        /\ \A i \in 1 .. n : {p \in m.free : p < f[i]} = {f[j] : j \in 1 .. i - 1}
    BY <1>2 DEF FirstFree
  <1> HIDE DEF f
  <1>4. \A i \in 1 .. n : \A j \in 1 .. i - 1 : f[j] # f[i]
    <2>1. ASSUME NEW i \in 1 .. n, NEW j \in 1 .. i - 1
          PROVE  f[j] # f[i]
      <3>1. f[j] \in {p \in m.free : p < f[i]} /\ f[i] \in Nat
        BY <1>1, <1>3
      <3> QED BY <3>1, <1>1
    <2> QED BY <2>1
  <1>5. \A i, j \in 1 .. n : f[i] = f[j] => i = j
    BY <1>4
  <1> QED BY <1>3, <1>5 DEF f

(* locate_span() finds entries that are free.                              *)
LEMMA SpanIs ==
    ASSUME NEW tab, NEW start, NEW len \in Nat
    PROVE  /\ locate_span(tab, start, len) \in 0 .. TabSize - 1
           /\ locate_span(tab, start, len) # 0 =>
                 \A w \in locate_span(tab, start, len) ..
                              locate_span(tab, start, len) + len - 1 :
                     w \in VPages => tab[w] = NoPage
  <1> DEFINE from  == IF start \in 1 .. TabSize - 1 THEN start ELSE DefaultStart
             spans == {v \in from .. TabSize - 1 :
                          \A w \in v .. v + len - 1 : w \in VPages => tab[w] = NoPage}
             l     == locate_span(tab, start, len)
  <1>1. /\ from \in 1 .. TabSize - 1 /\ TabSize \in Nat
        /\ spans \in SUBSET Nat
    BY AreasAssumption
  <1>2. l = IF len = 0 \/ spans = {} THEN 0
            ELSE CHOOSE v \in spans : \A w \in spans : v <= w
    BY DEF locate_span
  <1>3. CASE len = 0 \/ spans = {}
    <2>1. l = 0
      BY <1>2, <1>3
    <2> QED BY <2>1, <1>1
  <1>4. CASE ~(len = 0 \/ spans = {})
    <2>1. \E v \in spans : \A w \in spans : v <= w
      BY <1>1, <1>4, LeastNatural
    <2>2. l = CHOOSE v \in spans : \A w \in spans : v <= w
      BY <1>2, <1>4
    <2>3. l \in spans
      <3> HIDE DEF spans, l
      <3> QED BY <2>1, <2>2
    <2> HIDE DEF l
    <2>4. /\ l \in from .. TabSize - 1
          /\ \A w \in l .. l + len - 1 : w \in VPages => tab[w] = NoPage
      BY <2>3
    <2>5. l \in 0 .. TabSize - 1
      BY <2>4, <1>1
    <2> QED BY <2>4, <2>5 DEF l
  <1> QED BY <1>3, <1>4

(* Only the free pages differ, or the areas and what they map.             *)
LEMMA MapTyped ==
    ASSUME NEW tab \in [VPages -> Nat], NEW ps \in Seq(Nat), NEW at \in Nat
    PROVE  aspace_map(tab, ps, at) \in [VPages -> Nat]
  <1>1. ASSUME NEW v \in VPages, v \in at .. at + Len(ps) - 1
        PROVE  ps[v - at + 1] \in Nat
    <2>1. Len(ps) \in Nat /\ v \in Int /\ v - at + 1 \in 1 .. Len(ps)
      BY <1>1
    <2> QED BY <2>1
  <1> QED BY <1>1 DEF aspace_map

(* The first pages of a group.                                             *)
LEMMA Prefix ==
    ASSUME NEW S, NEW ps \in Seq(S), NEW len \in Nat, len <= Len(ps)
    PROVE  /\ SubSeq(ps, 1, len) \in Seq(S) /\ Len(SubSeq(ps, 1, len)) = len
           /\ \A i \in 1 .. len : SubSeq(ps, 1, len)[i] = ps[i]
  <1>1. 1 \in 1 .. Len(ps) + 1 /\ len \in 0 .. Len(ps) /\ Len(ps) \in Nat
    OBVIOUS
  <1>2. /\ SubSeq(ps, 1, len) \in Seq(S)
        /\ Len(SubSeq(ps, 1, len)) = IF len < 1 THEN 0 ELSE len
        /\ \A i \in 1 .. len : SubSeq(ps, 1, len)[i] = ps[i]
    BY <1>1, SubSeqProperties
  <1> QED BY <1>2

(* Between m and q area a has been linked into space s and to group g.     *)
Attaches(m, q, s, a, g, at, len) ==
    /\ q \in MemStates
    /\ q.free = m.free /\ q.used = m.used /\ q.pgroup = m.pgroup
    /\ q.areas = [m.areas EXCEPT ![s] = @ \cup {a}]
    /\ q.area = [m.area EXCEPT ![a] = [pgroup |-> g, virt_addr |-> at, length |-> len]]
    /\ q.table = [m.table EXCEPT ![s] =
                     aspace_map(m.table[s], SubSeq(m.pgroup[g].pages, 1, len), at)]

(* What attach() changes.                                                  *)
LEMMA AttachFields ==
    ASSUME NEW m \in MemStates, NEW s \in Ids, NEW a \in Ids, NEW g \in Groups,
           NEW at \in Nat, NEW len \in Nat, len <= Len(m.pgroup[g].pages)
    PROVE  Attaches(m, attach(m, s, a, g, at, len), s, a, g, at, len)
  <1>1. PICK ps \in Seq(Nat) : ps = SubSeq(m.pgroup[g].pages, 1, len)
    <2>1. m.pgroup[g].pages \in Seq(Nat)
      <3>1. m.pgroup[g].pages \in Seq(Nat \ {NoPage})
        BY DEF MemStates, PGroups
      <3> QED BY <3>1
    <2> QED BY <2>1, Prefix
  <1>2. PICK tab \in [VPages -> Nat] : tab = aspace_map(m.table[s], ps, at)
    <2>1. m.table[s] \in [VPages -> Nat]
      BY DEF MemStates
    <2>2. aspace_map(m.table[s], ps, at) \in [VPages -> Nat]
      BY <2>1, MapTyped
    <2> QED BY <2>2
  <1>3. [pgroup |-> g, virt_addr |-> at, length |-> len] \in AreaRecs
    BY AreasAssumption DEF AreaRecs, Groups
  <1>4. PICK rec \in AreaRecs : rec = [pgroup |-> g, virt_addr |-> at, length |-> len]
    BY <1>3
  <1>5. PICK A \in [Ids -> SUBSET Ids] : A = [m.areas EXCEPT ![s] = @ \cup {a}]
    <2>1. [m.areas EXCEPT ![s] = @ \cup {a}] \in [Ids -> SUBSET Ids]
      BY DEF MemStates
    <2> QED BY <2>1
  <1>6. PICK B \in [Ids -> AreaRecs] : B = [m.area EXCEPT ![a] = rec]
    BY DEF MemStates
  <1>7. PICK C \in [Ids -> [VPages -> Nat]] : C = [m.table EXCEPT ![s] = tab]
    BY DEF MemStates
  <1>8. attach(m, s, a, g, at, len) = [m EXCEPT !.areas = A, !.area = B, !.table = C]
    BY <1>1, <1>2, <1>4, <1>5, <1>6, <1>7 DEF attach, MemStates
  <1>9. [m EXCEPT !.areas = A, !.area = B, !.table = C] \in MemStates
    BY DEF MemStates
  <1>10. /\ attach(m, s, a, g, at, len).free = m.free
         /\ attach(m, s, a, g, at, len).used = m.used
         /\ attach(m, s, a, g, at, len).pgroup = m.pgroup
         /\ attach(m, s, a, g, at, len).areas = A
         /\ attach(m, s, a, g, at, len).area = B
         /\ attach(m, s, a, g, at, len).table = C
    BY <1>8 DEF MemStates
  <1> QED BY <1>1, <1>2, <1>4, <1>5, <1>6, <1>7, <1>8, <1>9, <1>10 DEF Attaches

(* The users of a group are finitely many.                                 *)
LEMMA UsersFinite ==
    ASSUME NEW m, NEW g
    PROVE  IsFiniteSet(Users(m, g)) /\ Cardinality(Users(m, g)) \in Nat
  <1>1. Users(m, g) \subseteq Ids
    BY DEF Users, Mapped
  <1>2. IsFiniteSet(Users(m, g))
    BY <1>1, Names, FS_Subset
  <1> QED BY <1>2, FS_CardinalityType

(* Linking an area to a group that counts it already.                      *)
LEMMA AttachSound ==
    ASSUME NEW m, GroupsSound(m), ResizeWhole => RamSound(m) /\ TablesSound(m),
           NEW s \in Ids, NEW a \in Ids, a \notin Mapped(m),
           NEW g \in Groups, NEW at \in Nat \ {0},
           NEW len \in Nat, len <= Len(m.pgroup[g].pages),
           \A w \in at .. at + len - 1 : w \in VPages => m.table[s][w] = NoPage,
           \A h \in Groups : m.pgroup[h].refcount
                                = Cardinality(Users(m, h)) + (IF h = g THEN 1 ELSE 0)
    PROVE  MemMoves(m, attach(m, s, a, g, at, len), [m.areas EXCEPT ![s] = @ \cup {a}])
  <1> DEFINE q == attach(m, s, a, g, at, len)
  <1>1. m \in MemStates
    BY DEF GroupsSound
  <1>2. /\ Attaches(m, q, s, a, g, at, len)
        /\ q \in MemStates
        /\ q.free = m.free /\ q.used = m.used /\ q.pgroup = m.pgroup
        /\ q.areas = [m.areas EXCEPT ![s] = @ \cup {a}]
        /\ q.area = [m.area EXCEPT ![a] = [pgroup |-> g, virt_addr |-> at, length |-> len]]
    <2>1. Attaches(m, q, s, a, g, at, len)
      BY <1>1, AttachFields
    <2> HIDE DEF q
    <2> QED BY <2>1 DEF Attaches
  <1> HIDE DEF q
  <1>3. /\ \A x \in Ids \ {s} : q.areas[x] = m.areas[x]
        /\ q.areas[s] = m.areas[s] \cup {a}
        /\ \A b \in Ids \ {a} : q.area[b] = m.area[b]
        /\ q.area[a].pgroup = g /\ q.area[a].length = len /\ q.area[a].virt_addr = at
        /\ \A x \in Ids : m.areas[x] \subseteq Ids
    BY <1>1, <1>2 DEF MemStates
  <1>4. \A b \in Ids : b \in Mapped(q) <=> b \in Mapped(m) \/ b = a
    BY <1>3 DEF Mapped
  <1>5. \A x \in Ids : a \notin m.areas[x]
    BY DEF Mapped
  <1>6. \A x, y \in Ids : \A b \in q.areas[x] : b \in q.areas[y] => x = y
    <2>1. \A x, y \in Ids : \A b \in m.areas[x] : b \in m.areas[y] => x = y
      BY DEF GroupsSound
    <2> QED BY <2>1, <1>3, <1>5
  <1>7. ASSUME NEW b \in Mapped(q)
        PROVE  /\ q.area[b].pgroup \in Groups /\ q.area[b].virt_addr # 0
               /\ q.area[b].length <= Len(q.pgroup[q.area[b].pgroup].pages)
    <2>1. CASE b = a
      BY <2>1, <1>2, <1>3
    <2>2. CASE b # a
      <3>1. b \in Mapped(m) /\ b \in Ids
        BY <2>2, <1>4 DEF Mapped
      <3> QED BY <3>1, <2>2, <1>2, <1>3 DEF GroupsSound
    <2> QED BY <2>1, <2>2
  <1>8. GroupsSound(q)
    BY <1>2, <1>6, <1>7 DEF GroupsSound
  <1>9. ASSUME NEW h \in Groups
        PROVE  q.pgroup[h].refcount = Cardinality(Users(q, h))
    <2>1. IsFiniteSet(Users(m, h)) /\ a \notin Users(m, h)
      BY ZenonT(60), UsersFinite DEF Users
    <2>2. CASE h = g
      <3>1. Users(q, h) = Users(m, h) \cup {a}
        BY <2>2, <1>3, <1>4 DEF Users, Mapped
      <3>2. Cardinality(Users(q, h)) = Cardinality(Users(m, h)) + 1
        BY <2>1, <3>1, FS_AddElement
      <3> QED BY <3>2, <2>2, <1>2
    <2>3. CASE h # g
      <3>1. Users(q, h) = Users(m, h)
        BY <2>3, <1>3, <1>4 DEF Users, Mapped
      <3> QED BY <3>1, <2>3, <1>2, UsersFinite
    <2> QED BY <2>2, <2>3
  <1>10. ASSUME ResizeWhole PROVE RamSound(q)
    BY <1>2, <1>10 DEF RamSound
  <1>11. ASSUME ResizeWhole, NEW x \in Ids, NEW v \in VPages
         PROVE  EntrySound(q, x, v)
    <2>1. EntrySound(m, x, v)
      BY <1>11 DEF TablesSound
    <2>2. \A b \in m.areas[x] : q.area[b] = m.area[b] /\ b # a /\ b \in Ids
      BY <1>3, <1>5
    <2>3. \A b \in m.areas[x] : /\ Over(q, b, v) => Over(m, b, v)
                                /\ Over(m, b, v) => Over(q, b, v)
                                /\ Held(q, b, v) = Held(m, b, v)
      BY <2>2, <1>2 DEF Over, Held
    <2>4. CASE x # s
      <3>1. q.table[x] = m.table[x] /\ q.areas[x] = m.areas[x]
        BY <2>4, <1>1, <1>2, <1>3 DEF Attaches, MemStates
      <3>2. /\ \A b \in m.areas[x] : Over(m, b, v) => b \in q.areas[x] /\ Over(q, b, v)
            /\ \A b \in q.areas[x] : Over(q, b, v) => b \in m.areas[x] /\ Over(m, b, v)
        BY <2>3, <3>1
      <3>3. q.table[x][v] = m.table[x][v]
        BY <3>1
      <3> QED BY <2>1, <2>3, <3>2, <3>3, EntryKept
    <2>5. CASE x = s
      <3> DEFINE ps == SubSeq(m.pgroup[g].pages, 1, len)
      <3>1. /\ ps \in Seq(Nat \ {NoPage}) /\ Len(ps) = len
            /\ \A i \in 1 .. len : ps[i] = m.pgroup[g].pages[i] /\ ps[i] # NoPage
        <4>1. m.pgroup[g].pages \in Seq(Nat \ {NoPage})
          BY <1>1 DEF MemStates, PGroups
        <4>2. /\ ps \in Seq(Nat \ {NoPage}) /\ Len(ps) = len
              /\ \A i \in 1 .. len : ps[i] = m.pgroup[g].pages[i]
          BY <4>1, Prefix
        <4> HIDE DEF ps
        <4> QED BY <4>2
      <3>2. q.table[s] = aspace_map(m.table[s], ps, at)
        BY <1>1, <1>2 DEF Attaches, MemStates
      <3> HIDE DEF ps
      <3>3. q.table[s][v] = IF v \in at .. at + len - 1 THEN ps[v - at + 1]
                            ELSE m.table[s][v]
        BY <3>1, <3>2 DEF aspace_map
      <3>4. Over(q, a, v) <=> v \in at .. at + len - 1
        <4>1. q.area[a].virt_addr = at /\ q.area[a].length = len /\ v \in Int
          BY <1>1, <1>2 DEF MemStates, VPages
        <4> QED BY <4>1 DEF Over
      <3>5. CASE v \in at .. at + len - 1
        <4>1. v - at + 1 \in 1 .. len
          BY <3>5
        <4>2. Held(q, a, v) = q.table[s][v] /\ q.table[s][v] # NoPage
          <5>1. q.area[a].virt_addr = at /\ q.area[a].pgroup = g
            BY <1>1, <1>2 DEF MemStates
          <5> QED BY <5>1, <4>1, <3>1, <3>3, <3>5, <1>2 DEF Held
        <4>3. m.table[s][v] = NoPage
          BY <3>5
        <4>4. \A b \in m.areas[s] : ~Over(q, b, v)
          BY <4>3, <2>1, <2>3, <2>5 DEF EntrySound
        <4>5. \A b \in q.areas[s] : Over(q, b, v) => b = a
          BY <4>4, <1>3
        <4>6. a \in q.areas[s] /\ Over(q, a, v)
          BY <1>3, <3>4, <3>5
        <4> QED BY <4>2, <4>5, <4>6, <2>5 DEF EntrySound
      <3>6. CASE v \notin at .. at + len - 1
        <4>1. /\ \A b \in m.areas[s] : Over(m, b, v) => b \in q.areas[s] /\ Over(q, b, v)
              /\ \A b \in q.areas[s] : Over(q, b, v) => b \in m.areas[s] /\ Over(m, b, v)
          <5>1. /\ ~Over(q, a, v) /\ a \notin m.areas[s]
                /\ \A b : b \in q.areas[s] <=> b \in m.areas[s] \/ b = a
            BY <3>4, <3>6, <1>3, <1>5
          <5> QED BY <5>1, <2>3, <2>5
        <4>2. q.table[s][v] = m.table[s][v]
          BY <3>3, <3>6
        <4> QED BY <4>1, <4>2, <2>1, <2>3, <2>5, EntryKept
      <3> QED BY <3>5, <3>6
    <2> QED BY <2>4, <2>5
  <1>12. MemSound(q)
    BY <1>8, <1>9, <1>10, <1>11 DEF MemSound, TablesSound
  <1> QED BY <1>2, <1>12 DEF q, MemMoves, KernelPages

(* A group that nobody uses.                                               *)
LEMMA NewGroupIs ==
    ASSUME NEW m, MemSound(m), Cardinality({g \in Groups : m.pgroup[g].refcount = 0}) >= 1
    PROVE  NewGroup(m) \in Groups /\ m.pgroup[NewGroup(m)].refcount = 0
  <1>1. {g \in Groups : m.pgroup[g].refcount = 0} # {}
    BY FS_EmptySet
  <1> QED BY <1>1 DEF NewGroup

(* getpages() and putpages() change what is free and the count.            *)
LEMMA GetFields ==
    ASSUME NEW m \in MemStates, NEW n \in Nat
    PROVE  /\ getpages(m, n) \in MemStates
           /\ getpages(m, n).free = m.free \ Members(FirstFree(m, n))
           /\ getpages(m, n).used = m.used + n
           /\ getpages(m, n).areas = m.areas /\ getpages(m, n).area = m.area
           /\ getpages(m, n).pgroup = m.pgroup /\ getpages(m, n).table = m.table
  <1>1. PICK F \in SUBSET Pages : F = m.free \ Members(FirstFree(m, n))
    BY DEF MemStates
  <1>2. PICK u \in Int : u = m.used + n
    BY DEF MemStates
  <1>3. getpages(m, n) = [m EXCEPT !.free = F, !.used = u]
    BY <1>1, <1>2 DEF getpages, MemStates
  <1> QED BY <1>1, <1>2, <1>3 DEF MemStates

(* A sequence without repetitions has as many members as its length.       *)
LEMMA MembersCount ==
    ASSUME NEW S, NEW ps \in Seq(S), Once(ps)
    PROVE  /\ IsFiniteSet(Members(ps)) /\ Cardinality(Members(ps)) = Len(ps)
           /\ Members(ps) \subseteq S
  <1>1. Len(ps) \in Nat /\ \A i \in 1 .. Len(ps) : ps[i] \in S
    OBVIOUS
  <1> DEFINE f == [i \in 1 .. Len(ps) |-> ps[i]]
  <1>2. f \in Bijection(1 .. Len(ps), Members(ps))
    <2>1. f \in [1 .. Len(ps) -> Members(ps)]
      BY DEF Members
    <2>2. f \in Injection(1 .. Len(ps), Members(ps))
      BY <2>1 DEF Once, Injection, IsInjective
    <2>3. f \in Surjection(1 .. Len(ps), Members(ps))
      BY <2>1 DEF Members, Surjection
    <2> QED BY <2>2, <2>3 DEF Bijection
  <1>3. IsFiniteSet(1 .. Len(ps)) /\ Cardinality(1 .. Len(ps)) = Len(ps)
    BY SMTT(60), <1>1, FS_Interval
  <1>4. IsFiniteSet(Members(ps)) /\ Cardinality(Members(ps)) = Cardinality(1 .. Len(ps))
    <2>1. ExistsBijection(1 .. Len(ps), Members(ps))
      BY <1>2 DEF ExistsBijection
    <2> QED BY <2>1, <1>3, FS_Bijection
  <1> QED BY <1>1, <1>3, <1>4 DEF Members

(* area_create(): aspace.c:337.                                            *)
LEMMA AreaCreateSound ==
    ASSUME NEW m, MemSound(m), NEW s \in Ids, NEW a \in Ids, a \notin Mapped(m),
           NEW size \in Nat, NEW virt,
           NEW phys \in {NoPage} \cup DevicePages,
           phys = NoPage => HasPages(m, size),
           Cardinality({g \in Groups : m.pgroup[g].refcount = 0}) >= 1,
           locate_span(m.table[s], virt, size) # 0
    PROVE  MemMoves(m, area_create(m, s, a, size, virt, phys),
                    [m.areas EXCEPT ![s] = @ \cup {a}])
  <1>1. GroupsSound(m) /\ m \in MemStates
    BY DEF MemSound, GroupsSound
  <1>2. PICK g \in Groups : g = NewGroup(m) /\ m.pgroup[g].refcount = 0
    BY NewGroupIs
  <1> DEFINE ps0 == IF phys = NoPage THEN FirstFree(m, size)
                    ELSE [i \in 1 .. size |-> phys + i - 1]
             took0 == IF phys = NoPage THEN getpages(m, size) ELSE m
  <1>3. PICK ps \in Seq(Nat \ {NoPage}) :
            /\ ps = ps0 /\ Len(ps) = size
            /\ phys = NoPage => Members(ps) \subseteq m.free /\ Once(ps)
    <2>1. CASE phys = NoPage
      <3>1. /\ FirstFree(m, size) \in Seq(m.free) /\ Len(FirstFree(m, size)) = size
            /\ Once(FirstFree(m, size)) /\ m.free \subseteq Nat \ {NoPage}
        <4>1. m.free \subseteq Pages /\ Pages \subseteq Nat \ {NoPage}
          BY <1>1, AreasAssumption DEF MemStates, Pages, NoPage
        <4>2. /\ FirstFree(m, size) \in Seq(m.free) /\ Len(FirstFree(m, size)) = size
              /\ \A i, j \in 1 .. size :
                    FirstFree(m, size)[i] = FirstFree(m, size)[j] => i = j
          BY <2>1, <1>1, FirstFreeIs
        <4> QED BY <4>1, <4>2 DEF Once
      <3>2. \A i \in 1 .. size : FirstFree(m, size)[i] \in m.free
        BY <3>1
      <3>3. FirstFree(m, size) \in Seq(Nat \ {NoPage})
        BY <3>1
      <3>4. Members(FirstFree(m, size)) \subseteq m.free
        BY <3>1, <3>2 DEF Members
      <3> QED BY <3>1, <3>3, <3>4, <2>1
    <2>2. CASE phys # NoPage
      <3>1. phys \in Nat \ {0}
        BY <2>2, AreasAssumption DEF NoPage
      <3>2. [i \in 1 .. size |-> phys + i - 1] \in [1 .. size -> Nat \ {NoPage}]
        BY <3>1 DEF NoPage
      <3>3. /\ [i \in 1 .. size |-> phys + i - 1] \in Seq(Nat \ {NoPage})
            /\ Len([i \in 1 .. size |-> phys + i - 1]) = size
        BY <3>2
      <3> QED BY <3>3, <2>2
    <2> QED BY <2>1, <2>2
  <1>4. PICK took \in MemStates :
            /\ took = took0
            /\ took.areas = m.areas /\ took.area = m.area
            /\ took.pgroup = m.pgroup /\ took.table = m.table
            /\ took.free = m.free \ (IF phys = NoPage THEN Members(ps) ELSE {})
            /\ took.used = m.used + (IF phys = NoPage THEN size ELSE 0)
    <2>1. CASE phys = NoPage
      <3>1. /\ getpages(m, size) \in MemStates
            /\ getpages(m, size).areas = m.areas /\ getpages(m, size).area = m.area
            /\ getpages(m, size).pgroup = m.pgroup /\ getpages(m, size).table = m.table
            /\ getpages(m, size).free = m.free \ Members(FirstFree(m, size))
            /\ getpages(m, size).used = m.used + size
        BY <1>1, GetFields
      <3>2. FirstFree(m, size) = ps /\ took0 = getpages(m, size)
        BY <1>3, <2>1
      <3> QED BY <3>1, <3>2, <2>1
    <2>2. CASE phys # NoPage
      <3>1. took0 = m /\ m.used \in Int
        BY <2>2, <1>1 DEF MemStates
      <3> QED BY <2>2, <3>1, <1>1
    <2> QED BY <2>1, <2>2
  <1>5. PICK at \in Nat \ {0} : at = locate_span(m.table[s], virt, size)
    BY SpanIs, AreasAssumption
  <1>6. PICK rec \in PGroups :
            rec = [refcount |-> 1, physmap |-> phys # NoPage, pages |-> ps]
    <2>1. PICK b \in BOOLEAN : b = (phys # NoPage)
      <3>1. (phys # NoPage) \in BOOLEAN
        OBVIOUS
      <3> QED BY <3>1
    <2>2. [refcount |-> 1, physmap |-> b, pages |-> ps] \in PGroups
      BY DEF PGroups
    <2> QED BY <2>1, <2>2
  <1>20. /\ rec.refcount = 1 /\ rec.pages = ps
         /\ rec.physmap => phys # NoPage
         /\ ~rec.physmap => phys = NoPage
    BY <1>6
  <1>7. PICK new \in MemStates : /\ new = [took EXCEPT !.pgroup[g] = rec]
                                 /\ new.areas = m.areas /\ new.area = m.area
                                 /\ new.table = m.table
                                 /\ new.free = took.free /\ new.used = took.used
                                 /\ new.pgroup = [m.pgroup EXCEPT ![g] = rec]
    <2>1. [m.pgroup EXCEPT ![g] = rec] \in [Groups -> PGroups]
      BY <1>1 DEF MemStates
    <2>2. PICK G \in [Groups -> PGroups] : G = [m.pgroup EXCEPT ![g] = rec]
      BY <2>1
    <2>3. [took EXCEPT !.pgroup[g] = rec] = [took EXCEPT !.pgroup = G]
      BY <1>4, <2>2 DEF MemStates
    <2>4. /\ [took EXCEPT !.pgroup = G] \in MemStates
          /\ [took EXCEPT !.pgroup = G].areas = took.areas
          /\ [took EXCEPT !.pgroup = G].area = took.area
          /\ [took EXCEPT !.pgroup = G].table = took.table
          /\ [took EXCEPT !.pgroup = G].free = took.free
          /\ [took EXCEPT !.pgroup = G].used = took.used
          /\ [took EXCEPT !.pgroup = G].pgroup = G
      BY DEF MemStates
    <2> QED BY <1>4, <2>2, <2>3, <2>4
  <1>8. area_create(m, s, a, size, virt, phys) = attach(new, s, a, g, at, size)
    BY <1>2, <1>3, <1>4, <1>5, <1>6, <1>7 DEF area_create
  <1>9. /\ Mapped(new) = Mapped(m) /\ \A h : Users(new, h) = Users(m, h)
        /\ new.pgroup[g] = rec /\ \A h \in Groups \ {g} : new.pgroup[h] = m.pgroup[h]
    BY <1>1, <1>7 DEF Mapped, Users, MemStates
  <1>10. Cardinality(Users(m, g)) = 0 /\ Users(m, g) = {}
    BY <1>2, UsersFinite, FS_EmptySet DEF MemSound
  <1>11. GroupsSound(new)
    <2>1. ASSUME NEW b \in Mapped(new)
          PROVE  /\ new.area[b].pgroup \in Groups /\ new.area[b].virt_addr # 0
                 /\ new.area[b].length <= Len(new.pgroup[new.area[b].pgroup].pages)
      <3>1. b \in Mapped(m) /\ new.area[b] = m.area[b] /\ m.area[b].pgroup # g
        BY <1>7, <1>9, <1>10 DEF Users
      <3> QED BY <3>1, <1>1, <1>9 DEF GroupsSound
    <2>2. ASSUME NEW h \in Groups
          PROVE  new.pgroup[h].physmap \/ Members(new.pgroup[h].pages) \subseteq Pages
      <3>1. CASE h = g
        <4>1. m.free \subseteq Pages
          BY <1>1 DEF MemStates
        <4>2. phys = NoPage => Members(ps) \subseteq Pages
          BY <4>1, <1>3
        <4>3. rec.pages = ps /\ rec.physmap = (phys # NoPage)
          BY <1>6
        <4> QED BY <4>2, <4>3, <3>1, <1>9
      <3>2. CASE h # g
        BY <3>2, <1>1, <1>9 DEF GroupsSound
      <3> QED BY <3>1, <3>2
    <2>3. ASSUME NEW h \in Groups, new.pgroup[h].refcount = 0
          PROVE  new.pgroup[h] = UnusedGroup
      <3>1. h # g
        BY <2>3, <1>20, <1>9
      <3> QED BY <3>1, <2>3, <1>1, <1>9 DEF GroupsSound
    <2>4. \A x, y \in Ids : \A b \in new.areas[x] : b \in new.areas[y] => x = y
      BY <1>1, <1>7 DEF GroupsSound
    <2> QED BY <2>1, <2>2, <2>3, <2>4 DEF GroupsSound
  <1>12. \A h \in Groups : new.pgroup[h].refcount
                              = Cardinality(Users(new, h)) + (IF h = g THEN 1 ELSE 0)
    <2>1. ASSUME NEW h \in Groups
          PROVE  new.pgroup[h].refcount
                    = Cardinality(Users(new, h)) + (IF h = g THEN 1 ELSE 0)
      <3>1. CASE h = g
        <4>1. rec.refcount = 1 /\ Cardinality(Users(new, g)) = 0
          <5>1. rec.refcount = 1
            BY <1>6
          <5>2. Users(new, g) = Users(m, g)
            BY <1>9
          <5> QED BY <5>1, <5>2, <1>10
        <4> QED BY <4>1, <3>1, <1>9
      <3>2. CASE h # g
        BY <3>2, <1>9, UsersFinite DEF MemSound
      <3> QED BY <3>1, <3>2
    <2> QED BY <2>1
  <1>13. size <= Len(new.pgroup[g].pages) /\ a \notin Mapped(new)
    BY <1>3, <1>6, <1>9
  <1>14. ASSUME ResizeWhole PROVE RamSound(new)
    <2>1. RamSound(m)
      BY <1>14 DEF MemSound
    <2>2. ASSUME NEW h \in Groups, ~new.pgroup[h].physmap
          PROVE  /\ Once(new.pgroup[h].pages)
                 /\ Members(new.pgroup[h].pages) \cap new.free = {}
      <3>1. CASE h = g
        <4>1. new.pgroup[h].pages = ps /\ phys = NoPage
          BY <3>1, <2>2, <1>20, <1>9
        <4> QED BY <4>1, <1>3, <1>4, <1>7
      <3>2. CASE h # g
        BY <3>2, <2>1, <2>2, <1>4, <1>7, <1>9 DEF RamSound
      <3> QED BY <3>1, <3>2
    <2>3. ASSUME NEW h \in Groups \ {g}, ~new.pgroup[h].physmap, ~new.pgroup[g].physmap
          PROVE  Members(new.pgroup[h].pages) \cap Members(new.pgroup[g].pages) = {}
      <3>1. /\ new.pgroup[g].pages = ps /\ phys = NoPage
            /\ new.pgroup[h] = m.pgroup[h]
        BY <2>3, <1>20, <1>9
      <3>2. Members(m.pgroup[h].pages) \cap m.free = {}
        BY <2>1, <2>3, <3>1 DEF RamSound
      <3> QED BY <3>1, <3>2, <1>3
    <2>4. ASSUME NEW h \in Groups, NEW x \in Groups, h # x,
                 ~new.pgroup[h].physmap, ~new.pgroup[x].physmap
          PROVE  Members(new.pgroup[h].pages) \cap Members(new.pgroup[x].pages) = {}
      <3>1. CASE h = g \/ x = g
        BY <3>1, <2>3, <2>4
      <3>2. CASE h # g /\ x # g
        BY <3>2, <2>1, <2>4, <1>9 DEF RamSound
      <3> QED BY <3>1, <3>2
    <2>5. ASSUME NEW p \in Pages \ new.free
          PROVE  \E h \in Groups : ~new.pgroup[h].physmap /\ p \in Members(new.pgroup[h].pages)
      <3>1. CASE p \in m.free
        <4>1. phys = NoPage /\ p \in Members(ps)
          BY <3>1, <2>5, <1>4, <1>7
        <4>2. ~new.pgroup[g].physmap /\ new.pgroup[g].pages = ps
          BY <4>1, <1>20, <1>9
        <4> QED BY <4>1, <4>2
      <3>2. CASE p \notin m.free
        <4>1. PICK h \in Groups : ~m.pgroup[h].physmap /\ p \in Members(m.pgroup[h].pages)
          BY <3>2, <2>1, <2>5 DEF RamSound
        <4>2. h # g
          <5>1. m.pgroup[g].pages = <<>>
            BY <1>1, <1>2 DEF GroupsSound, UnusedGroup
          <5> QED BY <5>1, <4>1 DEF Members
        <4> QED BY <4>1, <4>2, <1>9
      <3> QED BY <3>1, <3>2
    <2> QED BY <2>2, <2>4, <2>5 DEF RamSound
  <1>15. ASSUME ResizeWhole PROVE TablesSound(new)
    <2>1. ASSUME NEW x \in Ids, NEW v \in VPages
          PROVE  EntrySound(new, x, v)
      <3>1. EntrySound(m, x, v)
        BY <1>15 DEF MemSound, TablesSound
      <3>2. \A b : /\ Over(new, b, v) => Over(m, b, v)
                   /\ Over(m, b, v) => Over(new, b, v)
        BY <1>7 DEF Over
      <3>3. new.areas[x] = m.areas[x]
        BY <1>7
      <3>4. ASSUME NEW b \in m.areas[x]
            PROVE  Held(new, b, v) = Held(m, b, v)
        <4>1. b \in Mapped(m)
          BY <1>1 DEF Mapped, MemStates
        <4>2. m.area[b].pgroup \in Groups /\ m.area[b].pgroup # g
          BY <4>1, <1>1, <1>10 DEF GroupsSound, Users
        <4> QED BY <4>2, <1>7, <1>9 DEF Held
      <3>5. new.table[x][v] = m.table[x][v]
        BY <1>7
      <3> QED BY <3>1, <3>2, <3>3, <3>4, <3>5, EntryKept
    <2> QED BY <2>1 DEF TablesSound
  <1>16. \A w \in at .. at + size - 1 : w \in VPages => new.table[s][w] = NoPage
    <2>1. \A w \in locate_span(m.table[s], virt, size) ..
                      locate_span(m.table[s], virt, size) + size - 1 :
              w \in VPages => m.table[s][w] = NoPage
      BY SpanIs
    <2> QED BY <2>1, <1>5, <1>7
  <1>17. MemMoves(new, attach(new, s, a, g, at, size), [new.areas EXCEPT ![s] = @ \cup {a}])
    BY <1>11, <1>12, <1>13, <1>14, <1>15, <1>16, AttachSound
  <1>18. KernelPages(new) = KernelPages(m)
    <2>1. /\ IsFiniteSet(Pages) /\ m.free \subseteq Pages /\ IsFiniteSet(m.free)
          /\ m.used \in Int
      <3>1. IsFiniteSet(Pages) /\ m.free \subseteq Pages /\ m.used \in Int
        <4>1. IsFiniteSet(Pages)
          BY AreasAssumption, FS_Interval DEF Pages
        <4> QED BY <4>1, <1>1 DEF MemStates
      <3> QED BY <3>1, FS_Subset
    <2>2. CASE phys = NoPage
      <3>1. IsFiniteSet(Members(ps)) /\ Cardinality(Members(ps)) = size
        BY <2>2, <1>3, MembersCount
      <3>2. /\ new.free = m.free \ Members(ps) /\ new.used = m.used + size
            /\ Members(ps) \subseteq m.free
        BY <2>2, <1>3, <1>4, <1>7
      <3>3. /\ Pages \ new.free = (Pages \ m.free) \cup Members(ps)
            /\ (Pages \ m.free) \cap Members(ps) = {}
            /\ IsFiniteSet(Pages \ m.free)
        BY <3>2, <2>1, FS_Difference
      <3>4. Cardinality(Pages \ new.free) = Cardinality(Pages \ m.free) + size
        <4>1. Cardinality(Pages \ new.free) = Cardinality(Pages \ m.free)
                 + Cardinality(Members(ps)) - Cardinality({})
          BY <3>1, <3>3, FS_Union
        <4>2. Cardinality(Pages \ m.free) \in Nat /\ Cardinality({}) = 0 /\ size \in Nat
          BY <3>3, FS_CardinalityType, FS_EmptySet
        <4> QED BY <4>1, <4>2, <3>1
      <3>5. Cardinality(Pages \ m.free) \in Nat
        BY <3>3, FS_CardinalityType
      <3> QED BY <3>2, <3>4, <3>5, <2>1 DEF KernelPages
    <2>3. CASE phys # NoPage
      <3>1. new.free = m.free /\ new.used = m.used
        BY <2>1, <2>3, <1>4, <1>7
      <3> QED BY <3>1 DEF KernelPages
    <2> QED BY <2>2, <2>3
  <1>19. new.areas = m.areas
    BY <1>7
  <1> QED BY <1>8, <1>17, <1>18, <1>19 DEF MemMoves

(* Between m and q page group g alone has changed.                         *)
GroupSet(m, q, g, G) ==
    /\ q \in MemStates
    /\ q.free = m.free /\ q.used = m.used /\ q.table = m.table
    /\ q.areas = m.areas /\ q.area = m.area
    /\ q.pgroup = [m.pgroup EXCEPT ![g] = G]

(* Setting a group.                                                        *)
LEMMA SetGroupIs ==
    ASSUME NEW m \in MemStates, NEW g \in Groups, NEW G \in PGroups
    PROVE  GroupSet(m, [m EXCEPT !.pgroup[g] = G], g, G)
  <1>1. PICK P \in [Groups -> PGroups] : P = [m.pgroup EXCEPT ![g] = G]
    BY DEF MemStates
  <1>2. [m EXCEPT !.pgroup[g] = G] = [m EXCEPT !.pgroup = P]
    BY <1>1 DEF MemStates
  <1>3. /\ [m EXCEPT !.pgroup = P] \in MemStates
        /\ [m EXCEPT !.pgroup = P].areas = m.areas
        /\ [m EXCEPT !.pgroup = P].area = m.area
        /\ [m EXCEPT !.pgroup = P].table = m.table
        /\ [m EXCEPT !.pgroup = P].free = m.free
        /\ [m EXCEPT !.pgroup = P].used = m.used
        /\ [m EXCEPT !.pgroup = P].pgroup = P
    BY DEF MemStates
  <1> QED BY <1>1, <1>2, <1>3 DEF GroupSet

(* Between m and q the count of group g alone has changed.                 *)
Recounted(m, q, g, n) ==
    /\ q.pgroup[g].refcount = n
    /\ \A h \in Groups : /\ q.pgroup[h].pages = m.pgroup[h].pages
                         /\ q.pgroup[h].physmap = m.pgroup[h].physmap
    /\ \A h \in Groups \ {g} : q.pgroup[h] = m.pgroup[h]
    /\ RamSound(m) => RamSound(q)
    /\ TablesSound(m) /\ GroupsSound(m) => TablesSound(q)

(* Counting an area more, or less, changes nothing that the tables or the  *)
(* pages of RAM depend on.                                                 *)
LEMMA CountSound ==
    ASSUME NEW m, NEW q, NEW g \in Groups, NEW n \in Int,
           m \in MemStates, NEW G \in PGroups, GroupSet(m, q, g, G),
           G = [m.pgroup[g] EXCEPT !.refcount = n]
    PROVE  Recounted(m, q, g, n)
  <1>1. m.pgroup[g] \in PGroups
    BY DEF MemStates
  <1>3. G.pages = m.pgroup[g].pages /\ G.physmap = m.pgroup[g].physmap /\ G.refcount = n
    BY <1>1 DEF PGroups
  <1>4. /\ q.free = m.free /\ q.used = m.used /\ q.table = m.table
        /\ q.areas = m.areas /\ q.area = m.area
        /\ q.pgroup = [m.pgroup EXCEPT ![g] = G]
    BY DEF GroupSet
  <1>5. q.pgroup[g] = G /\ \A h \in Groups \ {g} : q.pgroup[h] = m.pgroup[h]
    BY <1>4 DEF MemStates
  <1>6. \A h \in Groups : /\ q.pgroup[h].pages = m.pgroup[h].pages
                          /\ q.pgroup[h].physmap = m.pgroup[h].physmap
    BY <1>3, <1>5
  <1>7. ASSUME RamSound(m) PROVE RamSound(q)
    BY SMTT(60), <1>4, <1>6, <1>7 DEF RamSound
  <1>8. ASSUME TablesSound(m), GroupsSound(m) PROVE TablesSound(q)
    <2>1. ASSUME NEW x \in Ids, NEW v \in VPages
          PROVE  EntrySound(q, x, v)
      <3>1. EntrySound(m, x, v) /\ q.table[x][v] = m.table[x][v] /\ q.areas[x] = m.areas[x]
        BY <1>4, <1>8 DEF TablesSound
      <3>2. \A b : /\ Over(q, b, v) => Over(m, b, v)
                   /\ Over(m, b, v) => Over(q, b, v)
        BY <1>4 DEF Over
      <3>3. ASSUME NEW b \in m.areas[x]
            PROVE  Held(q, b, v) = Held(m, b, v)
        <4>1. m.area[b].pgroup \in Groups
          BY <1>8 DEF GroupsSound, Mapped, MemStates
        <4> QED BY <4>1, <1>4, <1>6 DEF Held
      <3> QED BY <3>1, <3>2, <3>3, EntryKept
    <2> QED BY <2>1 DEF TablesSound
  <1> QED BY <1>3, <1>5, <1>6, <1>7, <1>8 DEF Recounted

(* area_clone(): aspace.c:404.                                             *)
LEMMA AreaCloneSound ==
    ASSUME NEW m, MemSound(m), NEW s \in Ids, NEW a0 \in Mapped(m),
           NEW a \in Ids, a \notin Mapped(m), NEW virt,
           locate_span(m.table[s], virt, m.area[a0].length) # 0
    PROVE  MemMoves(m, area_clone(m, s, a0, a, virt), [m.areas EXCEPT ![s] = @ \cup {a}])
  <1>1. GroupsSound(m) /\ m \in MemStates
    BY DEF MemSound, GroupsSound
  <1>2. PICK g \in Groups : g = m.area[a0].pgroup
    BY <1>1 DEF GroupsSound
  <1>3. PICK len \in Nat : len = m.area[a0].length /\ len <= Len(m.pgroup[g].pages)
    <2>1. a0 \in Ids /\ m.area[a0] \in AreaRecs
      BY <1>1 DEF Mapped, MemStates
    <2> QED BY <2>1, <1>1, <1>2 DEF GroupsSound, AreaRecs
  <1>4. PICK at \in Nat \ {0} : at = locate_span(m.table[s], virt, len)
    <2>1. locate_span(m.table[s], virt, len) # 0
      BY <1>3
    <2> QED BY <2>1, SpanIs, AreasAssumption
  <1>5. PICK n \in Int : n = m.pgroup[g].refcount + 1
    BY <1>1 DEF MemStates, PGroups
  <1>19. PICK G \in PGroups : G = [m.pgroup[g] EXCEPT !.refcount = n]
    <2>1. [m.pgroup[g] EXCEPT !.refcount = n] \in PGroups
      BY ZenonT(60), <1>1 DEF MemStates, PGroups
    <2> QED BY <2>1
  <1>6. PICK new \in MemStates : /\ new = [m EXCEPT !.pgroup[g].refcount = @ + 1]
                                 /\ GroupSet(m, new, g, G)
    <2>3. PICK q : q = [m EXCEPT !.pgroup[g] = G]
      OBVIOUS
    <2>4. GroupSet(m, q, g, G)
      BY <1>1, <2>3, SetGroupIs
    <2>5. q = [m EXCEPT !.pgroup[g].refcount = @ + 1]
      BY <1>1, <1>5, <1>19, <2>3 DEF MemStates
    <2> QED BY <2>4, <2>5 DEF GroupSet
  <1>7. area_clone(m, s, a0, a, virt) = attach(new, s, a, g, at, len)
    BY <1>2, <1>3, <1>4, <1>6 DEF area_clone
  <1>8. /\ new.pgroup[g].refcount = n
        /\ \A h \in Groups : /\ new.pgroup[h].pages = m.pgroup[h].pages
                             /\ new.pgroup[h].physmap = m.pgroup[h].physmap
        /\ \A h \in Groups \ {g} : new.pgroup[h] = m.pgroup[h]
        /\ RamSound(m) => RamSound(new)
        /\ TablesSound(m) /\ GroupsSound(m) => TablesSound(new)
    <2>1. Recounted(m, new, g, n)
      BY <1>1, <1>6, <1>19, CountSound
    <2> QED BY <2>1 DEF Recounted
  <1>9. /\ new.free = m.free /\ new.used = m.used /\ new.table = m.table
        /\ new.areas = m.areas /\ new.area = m.area
    BY <1>6 DEF GroupSet
  <1>10. Mapped(new) = Mapped(m) /\ \A h : Users(new, h) = Users(m, h)
    BY <1>9 DEF Mapped, Users
  <1>11. \A h \in Groups : m.pgroup[h].refcount = Cardinality(Users(m, h))
                           /\ Cardinality(Users(m, h)) \in Nat
    BY UsersFinite DEF MemSound
  <1>12. \A h \in Groups : new.pgroup[h].refcount
                              = Cardinality(Users(new, h)) + (IF h = g THEN 1 ELSE 0)
    BY <1>5, <1>8, <1>10, <1>11
  <1>13. GroupsSound(new)
    <2>1. \A b \in Mapped(new) :
             /\ new.area[b].pgroup \in Groups /\ new.area[b].virt_addr # 0
             /\ new.area[b].length <= Len(new.pgroup[new.area[b].pgroup].pages)
      BY <1>1, <1>8, <1>9, <1>10 DEF GroupsSound
    <2>2. \A h \in Groups :
             new.pgroup[h].physmap \/ Members(new.pgroup[h].pages) \subseteq Pages
      BY <1>1, <1>8 DEF GroupsSound
    <2>3. ASSUME NEW h \in Groups, new.pgroup[h].refcount = 0
          PROVE  new.pgroup[h] = UnusedGroup
      <3>1. h # g
        BY <2>3, <1>5, <1>8, <1>11
      <3> QED BY <3>1, <2>3, <1>1, <1>8 DEF GroupsSound
    <2>4. \A x, y \in Ids : \A b \in new.areas[x] : b \in new.areas[y] => x = y
      BY <1>1, <1>9 DEF GroupsSound
    <2> QED BY <2>1, <2>2, <2>3, <2>4 DEF GroupsSound
  <1>14. \A w \in at .. at + len - 1 : w \in VPages => new.table[s][w] = NoPage
    <2>1. \A w \in locate_span(m.table[s], virt, len) ..
                      locate_span(m.table[s], virt, len) + len - 1 :
              w \in VPages => m.table[s][w] = NoPage
      BY <1>3, SpanIs
    <2> QED BY <2>1, <1>4, <1>9
  <1>15. ResizeWhole => RamSound(new) /\ TablesSound(new)
    BY <1>1, <1>8 DEF MemSound
  <1>16. len <= Len(new.pgroup[g].pages) /\ a \notin Mapped(new)
    BY <1>3, <1>8, <1>10
  <1>17. MemMoves(new, attach(new, s, a, g, at, len), [new.areas EXCEPT ![s] = @ \cup {a}])
    BY <1>12, <1>13, <1>14, <1>15, <1>16, AttachSound
  <1>18. KernelPages(new) = KernelPages(m)
    BY <1>9 DEF KernelPages
  <1> QED BY <1>7, <1>9, <1>17, <1>18 DEF MemMoves

(* Between m and q area a has been taken out of space s.                   *)
Detaches(m, q, s, a) ==
    /\ q \in MemStates
    /\ q.free = m.free /\ q.used = m.used /\ q.pgroup = m.pgroup
    /\ q.areas = [m.areas EXCEPT ![s] = @ \ {a}]
    /\ q.area = [m.area EXCEPT ![a] = UnusedArea]
    /\ q.table = [m.table EXCEPT ![s] =
                     aspace_clr(m.table[s], m.area[a].virt_addr, m.area[a].length)]

(* The first step of area_destroy().                                       *)
Unmapped(m, s, a) ==
    [m EXCEPT !.areas[s] = @ \ {a},
              !.table[s] = aspace_clr(@, m.area[a].virt_addr, m.area[a].length),
              !.area[a]  = UnusedArea]

(* What the first step changes.                                            *)
LEMMA DetachFields ==
    ASSUME NEW m \in MemStates, NEW s \in Ids, NEW a \in Ids
    PROVE  Detaches(m, Unmapped(m, s, a), s, a)
  <1>1. PICK tab \in [VPages -> Nat] :
            tab = aspace_clr(m.table[s], m.area[a].virt_addr, m.area[a].length)
    <2>1. m.table[s] \in [VPages -> Nat]
      BY DEF MemStates
    <2>2. PICK T \in [VPages -> Nat] : T = m.table[s]
      BY <2>1
    <2>3. aspace_clr(T, m.area[a].virt_addr, m.area[a].length) \in [VPages -> Nat]
      BY DEF aspace_clr, NoPage
    <2> QED BY <2>2, <2>3
  <1>2. UnusedArea \in AreaRecs
    BY DEF UnusedArea, AreaRecs
  <1>3. PICK rec \in AreaRecs : rec = UnusedArea
    BY <1>2
  <1>4. PICK A \in [Ids -> SUBSET Ids] : A = [m.areas EXCEPT ![s] = @ \ {a}]
    BY DEF MemStates
  <1>5. PICK B \in [Ids -> AreaRecs] : B = [m.area EXCEPT ![a] = rec]
    BY DEF MemStates
  <1>6. PICK C \in [Ids -> [VPages -> Nat]] : C = [m.table EXCEPT ![s] = tab]
    BY DEF MemStates
  <1>7. Unmapped(m, s, a) = [m EXCEPT !.areas = A, !.area = B, !.table = C]
    BY <1>1, <1>3, <1>4, <1>5, <1>6 DEF Unmapped, MemStates
  <1>8. /\ [m EXCEPT !.areas = A, !.area = B, !.table = C] \in MemStates
        /\ [m EXCEPT !.areas = A, !.area = B, !.table = C].free = m.free
        /\ [m EXCEPT !.areas = A, !.area = B, !.table = C].used = m.used
        /\ [m EXCEPT !.areas = A, !.area = B, !.table = C].pgroup = m.pgroup
        /\ [m EXCEPT !.areas = A, !.area = B, !.table = C].areas = A
        /\ [m EXCEPT !.areas = A, !.area = B, !.table = C].area = B
        /\ [m EXCEPT !.areas = A, !.area = B, !.table = C].table = C
    BY DEF MemStates
  <1> QED BY <1>1, <1>3, <1>4, <1>5, <1>6, <1>7, <1>8 DEF Detaches

(* Memory is sound, but that group g counts an area that is not there.     *)
OneTooMany(q, g) ==
    /\ GroupsSound(q)
    /\ ResizeWhole => RamSound(q) /\ TablesSound(q)
    /\ \A h \in Groups : q.pgroup[h].refcount = Cardinality(Users(q, h))
                                                 + (IF h = g THEN 1 ELSE 0)

(* Unmapping leaves a group that counts one area too many.                 *)
LEMMA DetachSound ==
    ASSUME NEW m, MemSound(m), NEW s \in Ids, NEW a \in m.areas[s],
           NEW q, Detaches(m, q, s, a)
    PROVE  m.area[a].pgroup \in Groups /\ OneTooMany(q, m.area[a].pgroup)
  <1>1. GroupsSound(m) /\ m \in MemStates
    BY DEF MemSound, GroupsSound
  <1>2. a \in Ids /\ a \in Mapped(m) /\ m.area[a].pgroup \in Groups
    BY <1>1 DEF Mapped, MemStates, GroupsSound
  <1>3. /\ q \in MemStates /\ q.free = m.free /\ q.used = m.used /\ q.pgroup = m.pgroup
        /\ q.areas[s] = m.areas[s] \ {a}
        /\ \A x \in Ids \ {s} : q.areas[x] = m.areas[x] /\ q.table[x] = m.table[x]
        /\ \A b \in Ids \ {a} : q.area[b] = m.area[b]
        /\ q.table[s] = aspace_clr(m.table[s], m.area[a].virt_addr, m.area[a].length)
    BY <1>1, <1>2 DEF Detaches, MemStates
  <1>4. \A x \in Ids : a \in m.areas[x] => x = s
    BY <1>1 DEF GroupsSound
  <1>5. \A x \in Ids : \A b : b \in q.areas[x] <=> b \in m.areas[x] /\ b # a
    BY <1>3, <1>4
  <1>6. \A b \in Ids : b \in Mapped(q) <=> b \in Mapped(m) /\ b # a
    BY <1>5 DEF Mapped
  <1>7. GroupsSound(q)
    <2>1. \A b \in Mapped(q) :
             /\ q.area[b].pgroup \in Groups /\ q.area[b].virt_addr # 0
             /\ q.area[b].length <= Len(q.pgroup[q.area[b].pgroup].pages)
      <3>1. \A b \in Mapped(q) : b \in Mapped(m) /\ b # a /\ b \in Ids
        BY <1>6 DEF Mapped
      <3> QED BY <3>1, <1>1, <1>3 DEF GroupsSound
    <2>2. \A x, y \in Ids : \A b \in q.areas[x] : b \in q.areas[y] => x = y
      BY <1>1, <1>5 DEF GroupsSound
    <2> QED BY <2>1, <2>2, <1>1, <1>3 DEF GroupsSound
  <1>8. ASSUME ResizeWhole PROVE RamSound(q)
    BY <1>3, <1>8 DEF RamSound, MemSound
  <1>9. ASSUME ResizeWhole, NEW x \in Ids, NEW v \in VPages
        PROVE  EntrySound(q, x, v)
    <2>1. EntrySound(m, x, v)
      BY <1>9 DEF TablesSound, MemSound
    <2>2. \A b \in q.areas[x] : b \in m.areas[x] /\ b # a /\ b \in Ids
      BY <1>1, <1>5 DEF MemStates
    <2>3. \A b \in m.areas[x] : b \in Ids
      BY <1>1 DEF MemStates
    <2>4. \A b \in Ids \ {a} : /\ Over(q, b, v) => Over(m, b, v)
                               /\ Over(m, b, v) => Over(q, b, v)
                               /\ Held(q, b, v) = Held(m, b, v)
      BY <1>3 DEF Over, Held
    <2>5. CASE x = s /\ Over(m, a, v)
      <3>1. m.area[a].virt_addr \in Nat /\ m.area[a].length \in Nat /\ v \in Nat
        BY <1>1, <1>2, AreasAssumption DEF MemStates, AreaRecs, VPages
      <3>2. v \in m.area[a].virt_addr .. m.area[a].virt_addr + m.area[a].length - 1
        BY <2>5, <3>1 DEF Over
      <3>3. q.table[x][v] = NoPage
        BY <2>5, <3>2, <1>3 DEF aspace_clr
      <3>4. \A b \in m.areas[s] : Over(m, b, v) => b = a
        BY <2>1, <2>5 DEF EntrySound
      <3>5. \A b \in q.areas[x] : ~Over(q, b, v)
        BY <3>4, <2>2, <2>4, <2>5
      <3> QED BY <3>3, <3>5 DEF EntrySound
    <2>6. CASE ~(x = s /\ Over(m, a, v))
      <3>1. \A b \in m.areas[x] : Over(m, b, v) => b # a
        BY <2>6, <1>4
      <3>2. q.table[x][v] = m.table[x][v]
        <4>1. CASE x # s
          BY <4>1, <1>3
        <4>2. CASE x = s
          <5>1. m.area[a].virt_addr \in Nat /\ m.area[a].length \in Nat /\ v \in Nat
            BY <1>1, <1>2, AreasAssumption DEF MemStates, AreaRecs, VPages
          <5>2. v \notin m.area[a].virt_addr .. m.area[a].virt_addr + m.area[a].length - 1
            BY <2>6, <4>2, <5>1 DEF Over
          <5> QED BY <4>2, <5>2, <1>3 DEF aspace_clr
        <4> QED BY <4>1, <4>2
      <3>3. \A b \in m.areas[x] : Over(m, b, v) => b \in q.areas[x] /\ Over(q, b, v)
        BY <3>1, <2>3, <2>4, <1>5
      <3>4. \A b \in q.areas[x] : Over(q, b, v) => b \in m.areas[x] /\ Over(m, b, v)
        BY <2>2, <2>4
      <3>5. \A b \in m.areas[x] : Over(m, b, v) => Held(q, b, v) = Held(m, b, v)
        BY <3>1, <2>3, <2>4
      <3> QED BY <2>1, <3>2, <3>3, <3>4, <3>5, EntryKept
    <2> QED BY <2>5, <2>6
  <1>10. ASSUME NEW h \in Groups
         PROVE  q.pgroup[h].refcount = Cardinality(Users(q, h))
                                       + (IF h = m.area[a].pgroup THEN 1 ELSE 0)
    <2>1. m.pgroup[h].refcount = Cardinality(Users(m, h)) /\ q.pgroup = m.pgroup
      BY <1>3 DEF MemSound
    <2>2. \A b \in Ids : b \in Users(q, h) <=> b \in Users(m, h) /\ b # a
      BY <1>3, <1>6 DEF Users
    <2>3. Users(q, h) \subseteq Ids /\ Users(m, h) \subseteq Ids
      BY DEF Users, Mapped
    <2>4. CASE h = m.area[a].pgroup
      <3>1. a \in Users(m, h) /\ IsFiniteSet(Users(m, h))
        BY <2>4, <1>2, UsersFinite DEF Users
      <3>2. Users(q, h) = Users(m, h) \ {a}
        BY <2>2, <2>3
      <3>3. Cardinality(Users(q, h)) = Cardinality(Users(m, h)) - 1
        BY <3>1, <3>2, FS_RemoveElement
      <3> QED BY <3>3, <2>1, <2>4, UsersFinite
    <2>5. CASE h # m.area[a].pgroup
      <3>1. a \notin Users(m, h)
        BY <2>5 DEF Users
      <3>2. Users(q, h) = Users(m, h)
        BY <3>1, <2>2, <2>3
      <3> QED BY <3>2, <2>1, <2>5, UsersFinite
    <2> QED BY <2>4, <2>5
  <1> QED BY <1>2, <1>7, <1>8, <1>9, <1>10 DEF TablesSound, OneTooMany

(* The group has other areas.                                              *)
LEMMA UncountSound ==
    ASSUME NEW m, NEW g \in Groups, OneTooMany(m, g), m.pgroup[g].refcount > 1
    PROVE  MemMoves(m, [m EXCEPT !.pgroup[g].refcount = @ - 1], m.areas)
  <1>1. GroupsSound(m) /\ m \in MemStates
    BY DEF OneTooMany, GroupsSound
  <1>2. PICK n \in Int : n = m.pgroup[g].refcount - 1
    BY <1>1 DEF MemStates, PGroups
  <1>3. PICK G \in PGroups : G = [m.pgroup[g] EXCEPT !.refcount = n]
    <2>1. [m.pgroup[g] EXCEPT !.refcount = n] \in PGroups
      BY <1>1 DEF MemStates, PGroups
    <2> QED BY <2>1
  <1>4. PICK q : /\ q = [m EXCEPT !.pgroup[g].refcount = @ - 1]
                 /\ GroupSet(m, q, g, G)
    <2>1. PICK q : q = [m EXCEPT !.pgroup[g] = G]
      OBVIOUS
    <2>2. GroupSet(m, q, g, G)
      BY <1>1, <2>1, SetGroupIs
    <2>3. q = [m EXCEPT !.pgroup[g].refcount = @ - 1]
      BY <1>1, <1>2, <1>3, <2>1 DEF MemStates
    <2> QED BY <2>2, <2>3
  <1>5. /\ q \in MemStates /\ q.free = m.free /\ q.used = m.used
        /\ q.areas = m.areas /\ q.area = m.area
    BY <1>4 DEF GroupSet
  <1>6. /\ q.pgroup[g].refcount = n
        /\ \A h \in Groups : /\ q.pgroup[h].pages = m.pgroup[h].pages
                             /\ q.pgroup[h].physmap = m.pgroup[h].physmap
        /\ \A h \in Groups \ {g} : q.pgroup[h] = m.pgroup[h]
        /\ RamSound(m) => RamSound(q)
        /\ TablesSound(m) /\ GroupsSound(m) => TablesSound(q)
    <2>1. Recounted(m, q, g, n)
      BY <1>1, <1>3, <1>4, CountSound
    <2> QED BY <2>1 DEF Recounted
  <1>7. Mapped(q) = Mapped(m) /\ \A h : Users(q, h) = Users(m, h)
    BY <1>5 DEF Mapped, Users
  <1>8. \A h \in Groups : q.pgroup[h].refcount = Cardinality(Users(q, h))
    BY <1>1, <1>2, <1>6, <1>7, UsersFinite DEF OneTooMany
  <1>9. GroupsSound(q)
    <2>1. \A h \in Groups : q.pgroup[h].refcount = 0 => q.pgroup[h] = UnusedGroup
      <3>1. n # 0
        <4>1. m.pgroup[g].refcount \in Int
          BY <1>1 DEF MemStates, PGroups
        <4> QED BY <4>1, <1>2
      <3> QED BY <3>1, <1>1, <1>6 DEF GroupsSound
    <2> QED BY <2>1, <1>1, <1>5, <1>6, <1>7 DEF GroupsSound
  <1>10. MemSound(q)
    BY <1>1, <1>6, <1>8, <1>9 DEF MemSound, OneTooMany
  <1> QED BY <1>4, <1>5, <1>10 DEF MemMoves, KernelPages

(* What becomes of the pages of a group.                                   *)
Freed(m, g) ==
    [putpages(m, IF m.pgroup[g].physmap THEN <<>> ELSE m.pgroup[g].pages)
       EXCEPT !.pgroup[g] = UnusedGroup]
FreedPages(m, g) ==
    IF m.pgroup[g].physmap THEN {} ELSE Members(m.pgroup[g].pages)

(* Freeing a group whose pages are RAM, or a device's.                     *)
LEMMA FreeFields ==
    ASSUME NEW m, GroupsSound(m), NEW g \in Groups
    PROVE  /\ Freed(m, g) \in MemStates
           /\ Freed(m, g).free = m.free \cup FreedPages(m, g)
           /\ Freed(m, g).used = m.used
                 - (IF m.pgroup[g].physmap THEN 0 ELSE Len(m.pgroup[g].pages))
           /\ Freed(m, g).areas = m.areas /\ Freed(m, g).area = m.area
           /\ Freed(m, g).table = m.table
           /\ Freed(m, g).pgroup = [m.pgroup EXCEPT ![g] = UnusedGroup]
  <1>1. m \in MemStates
    BY DEF GroupsSound
  <1>2. /\ m.pgroup[g].pages \in Seq(Nat \ {NoPage}) /\ Len(m.pgroup[g].pages) \in Nat
        /\ m.pgroup[g].physmap \/ Members(m.pgroup[g].pages) \subseteq Pages
    <2>1. m.pgroup[g].pages \in Seq(Nat \ {NoPage})
      BY <1>1 DEF MemStates, PGroups
    <2> QED BY <2>1 DEF GroupsSound
  <1>3. PICK ps : ps = IF m.pgroup[g].physmap THEN <<>> ELSE m.pgroup[g].pages
    OBVIOUS
  <1>4. /\ Members(ps) = FreedPages(m, g) /\ FreedPages(m, g) \subseteq Pages
        /\ Len(ps) = IF m.pgroup[g].physmap THEN 0 ELSE Len(m.pgroup[g].pages)
        /\ Len(ps) \in Nat
    <2>1. CASE m.pgroup[g].physmap
      <3>1. ps = <<>> /\ Len(<<>>) = 0 /\ Members(<<>>) = {}
        BY <1>3, <2>1 DEF Members
      <3> QED BY <3>1, <2>1 DEF FreedPages
    <2>2. CASE ~m.pgroup[g].physmap
      BY <1>2, <1>3, <2>2 DEF FreedPages
    <2> QED BY <2>1, <2>2
  <1>5. PICK F \in SUBSET Pages : F = m.free \cup Members(ps)
    BY <1>1, <1>4 DEF MemStates
  <1>6. PICK u \in Int : u = m.used - Len(ps)
    BY <1>1, <1>4 DEF MemStates
  <1>7. PICK p \in MemStates : /\ p = putpages(m, ps) /\ p.free = F /\ p.used = u
                               /\ p.areas = m.areas /\ p.area = m.area
                               /\ p.table = m.table /\ p.pgroup = m.pgroup
    <2>1. putpages(m, ps) = [m EXCEPT !.free = F, !.used = u]
      BY <1>1, <1>5, <1>6 DEF putpages, MemStates
    <2>2. /\ [m EXCEPT !.free = F, !.used = u] \in MemStates
          /\ [m EXCEPT !.free = F, !.used = u].free = F
          /\ [m EXCEPT !.free = F, !.used = u].used = u
          /\ [m EXCEPT !.free = F, !.used = u].areas = m.areas
          /\ [m EXCEPT !.free = F, !.used = u].area = m.area
          /\ [m EXCEPT !.free = F, !.used = u].table = m.table
          /\ [m EXCEPT !.free = F, !.used = u].pgroup = m.pgroup
      BY <1>1 DEF MemStates
    <2> QED BY <2>1, <2>2
  <1>8. UnusedGroup \in PGroups
    BY DEF UnusedGroup, PGroups
  <1>9. GroupSet(p, [p EXCEPT !.pgroup[g] = UnusedGroup], g, UnusedGroup)
    BY <1>7, <1>8, SetGroupIs
  <1>10. Freed(m, g) = [p EXCEPT !.pgroup[g] = UnusedGroup]
    BY <1>3, <1>7 DEF Freed
  <1>11. GroupSet(p, Freed(m, g), g, UnusedGroup)
    BY <1>9, <1>10
  <1> QED BY <1>4, <1>5, <1>6, <1>7, <1>11 DEF GroupSet

(* The group has no other area.                                            *)
LEMMA FreeSound ==
    ASSUME NEW m, NEW g \in Groups, OneTooMany(m, g), ~(m.pgroup[g].refcount > 1)
    PROVE  MemMoves(m, Freed(m, g), m.areas)
  <1>1. GroupsSound(m) /\ m \in MemStates
    BY DEF OneTooMany, GroupsSound
  <1>2. PICK q \in MemStates :
            /\ q = Freed(m, g)
            /\ q.free = m.free \cup FreedPages(m, g)
            /\ q.used = m.used
                  - (IF m.pgroup[g].physmap THEN 0 ELSE Len(m.pgroup[g].pages))
            /\ q.areas = m.areas /\ q.area = m.area /\ q.table = m.table
            /\ q.pgroup = [m.pgroup EXCEPT ![g] = UnusedGroup]
    BY <1>1, FreeFields
  <1>3. q.pgroup[g] = UnusedGroup /\ \A h \in Groups \ {g} : q.pgroup[h] = m.pgroup[h]
    BY <1>1, <1>2 DEF MemStates
  <1>4. Mapped(q) = Mapped(m) /\ \A h : Users(q, h) = Users(m, h)
    BY <1>2 DEF Mapped, Users
  <1>5. \A h \in Groups : m.pgroup[h].refcount
                             = Cardinality(Users(m, h)) + (IF h = g THEN 1 ELSE 0)
                          /\ IsFiniteSet(Users(m, h)) /\ Cardinality(Users(m, h)) \in Nat
    BY UsersFinite DEF OneTooMany
  <1>6. Cardinality(Users(m, g)) = 0 /\ Users(m, g) = {}
    <2>1. Cardinality(Users(m, g)) = 0
      BY <1>5
    <2> QED BY <2>1, <1>5, FS_EmptySet
  <1>7. UnusedGroup.refcount = 0 /\ ~UnusedGroup.physmap /\ UnusedGroup.pages = <<>>
    BY DEF UnusedGroup
  <1>8. Members(<<>>) = {} /\ Once(<<>>)
    BY DEF Members, Once
  <1>9. \A h \in Groups : q.pgroup[h].refcount = Cardinality(Users(q, h))
    BY <1>3, <1>4, <1>5, <1>6, <1>7
  <1>10. \A b \in Mapped(m) : m.area[b].pgroup # g
    BY <1>6 DEF Users, Mapped
  <1>11. GroupsSound(q)
    <2>1. \A b \in Mapped(q) :
             /\ q.area[b].pgroup \in Groups /\ q.area[b].virt_addr # 0
             /\ q.area[b].length <= Len(q.pgroup[q.area[b].pgroup].pages)
      BY <1>1, <1>2, <1>3, <1>4, <1>10 DEF GroupsSound
    <2>2. \A h \in Groups : q.pgroup[h].physmap \/ Members(q.pgroup[h].pages) \subseteq Pages
      BY <1>1, <1>3, <1>7, <1>8 DEF GroupsSound
    <2>3. \A h \in Groups : q.pgroup[h].refcount = 0 => q.pgroup[h] = UnusedGroup
      BY <1>1, <1>3 DEF GroupsSound
    <2>4. \A x, y \in Ids : \A b \in q.areas[x] : b \in q.areas[y] => x = y
      BY <1>1, <1>2 DEF GroupsSound
    <2> QED BY <2>1, <2>2, <2>3, <2>4 DEF GroupsSound
  <1>12. ASSUME ResizeWhole PROVE RamSound(q)
    <2>1. RamSound(m)
      BY <1>12 DEF OneTooMany
    <2>2. ASSUME NEW h \in Groups, ~q.pgroup[h].physmap
          PROVE  Once(q.pgroup[h].pages) /\ Members(q.pgroup[h].pages) \cap q.free = {}
      <3>1. CASE h = g
        BY <3>1, <1>3, <1>7, <1>8
      <3>2. CASE h # g
        <4>1. /\ Once(m.pgroup[h].pages) /\ Members(m.pgroup[h].pages) \cap m.free = {}
              /\ q.pgroup[h] = m.pgroup[h]
          BY <3>2, <2>1, <2>2, <1>3 DEF RamSound
        <4>2. Members(m.pgroup[h].pages) \cap FreedPages(m, g) = {}
          BY <3>2, <2>1, <2>2, <4>1 DEF RamSound, FreedPages
        <4> QED BY <4>1, <4>2, <1>2
      <3> QED BY <3>1, <3>2
    <2>3. ASSUME NEW h \in Groups, NEW x \in Groups, h # x,
                 ~q.pgroup[h].physmap, ~q.pgroup[x].physmap
          PROVE  Members(q.pgroup[h].pages) \cap Members(q.pgroup[x].pages) = {}
      <3>1. CASE h = g \/ x = g
        BY <3>1, <1>3, <1>7, <1>8
      <3>2. CASE h # g /\ x # g
        BY <3>2, <2>1, <2>3, <1>3 DEF RamSound
      <3> QED BY <3>1, <3>2
    <2>4. ASSUME NEW p \in Pages \ q.free
          PROVE  \E h \in Groups : ~q.pgroup[h].physmap /\ p \in Members(q.pgroup[h].pages)
      <3>1. p \notin m.free /\ p \notin FreedPages(m, g)
        BY <2>4, <1>2
      <3>2. PICK h \in Groups : ~m.pgroup[h].physmap /\ p \in Members(m.pgroup[h].pages)
        BY <3>1, <2>1, <2>4 DEF RamSound
      <3>3. h # g
        BY <3>1, <3>2 DEF FreedPages
      <3> QED BY <3>2, <3>3, <1>3
    <2> QED BY <2>2, <2>3, <2>4 DEF RamSound
  <1>13. ASSUME ResizeWhole PROVE TablesSound(q)
    <2>1. ASSUME NEW x \in Ids, NEW v \in VPages
          PROVE  EntrySound(q, x, v)
      <3>1. EntrySound(m, x, v) /\ q.table[x][v] = m.table[x][v] /\ q.areas[x] = m.areas[x]
        BY <1>2, <1>13 DEF TablesSound, OneTooMany
      <3>2. \A b : /\ Over(q, b, v) => Over(m, b, v)
                   /\ Over(m, b, v) => Over(q, b, v)
        BY <1>2 DEF Over
      <3>3. ASSUME NEW b \in m.areas[x]
            PROVE  Held(q, b, v) = Held(m, b, v)
        <4>1. b \in Mapped(m)
          BY <1>1 DEF Mapped, MemStates
        <4>2. m.area[b].pgroup \in Groups /\ m.area[b].pgroup # g
          BY <4>1, <1>1, <1>10 DEF GroupsSound
        <4> QED BY <4>2, <1>2, <1>3 DEF Held
      <3> QED BY <3>1, <3>2, <3>3, EntryKept
    <2> QED BY <2>1 DEF TablesSound
  <1>14. ASSUME ResizeWhole PROVE KernelPages(q) = KernelPages(m)
    <2>1. /\ IsFiniteSet(Pages) /\ m.free \subseteq Pages /\ m.used \in Int
          /\ IsFiniteSet(Pages \ m.free)
      <3>1. IsFiniteSet(Pages)
        BY AreasAssumption, FS_Interval DEF Pages
      <3> QED BY <3>1, <1>1, FS_Difference DEF MemStates
    <2>2. CASE m.pgroup[g].physmap
      <3>1. q.free = m.free /\ q.used = m.used
        BY <2>1, <2>2, <1>2 DEF FreedPages
      <3> QED BY <3>1 DEF KernelPages
    <2>3. CASE ~m.pgroup[g].physmap
      <3> DEFINE ps == m.pgroup[g].pages
      <3>1. /\ ps \in Seq(Nat \ {NoPage}) /\ Once(ps) /\ Members(ps) \cap m.free = {}
            /\ Members(ps) \subseteq Pages
        BY <1>1, <1>14, <2>3 DEF MemStates, PGroups, OneTooMany, RamSound, GroupsSound
      <3>2. q.free = m.free \cup Members(ps) /\ q.used = m.used - Len(ps)
        BY <2>3, <1>2 DEF FreedPages
      <3> HIDE DEF ps
      <3>3. IsFiniteSet(Members(ps)) /\ Cardinality(Members(ps)) = Len(ps) /\ Len(ps) \in Nat
        BY <3>1, MembersCount
      <3>4. /\ Members(ps) \subseteq Pages \ m.free
            /\ Pages \ q.free = (Pages \ m.free) \ Members(ps)
            /\ (Pages \ m.free) \cap Members(ps) = Members(ps)
        BY <3>1, <3>2
      <3>5. Cardinality(Pages \ q.free)
               = Cardinality(Pages \ m.free) - Cardinality(Members(ps))
        BY <2>1, <3>4, FS_Difference
      <3>6. Cardinality(Pages \ m.free) \in Nat
        BY <2>1, FS_CardinalityType
      <3> QED BY <2>1, <3>2, <3>3, <3>5, <3>6 DEF KernelPages
    <2> QED BY <2>2, <2>3
  <1>15. MemSound(q)
    BY <1>9, <1>11, <1>12, <1>13 DEF MemSound
  <1> QED BY <1>2, <1>14, <1>15 DEF MemMoves

(* area_destroy(): aspace.c:355, of an area that is in the space.          *)
LEMMA AreaDestroySound ==
    ASSUME NEW m, MemSound(m), NEW s \in Ids, NEW a \in m.areas[s]
    PROVE  MemMoves(m, area_destroy(m, s, a), [m.areas EXCEPT ![s] = @ \ {a}])
  <1>1. m \in MemStates /\ a \in Ids
    BY DEF MemSound, GroupsSound, MemStates
  <1>2. PICK g : g = m.area[a].pgroup
    OBVIOUS
  <1>3. PICK n : n = Unmapped(m, s, a) /\ Detaches(m, n, s, a)
    BY <1>1, DetachFields
  <1>4. g \in Groups /\ OneTooMany(n, g)
    BY <1>2, <1>3, DetachSound
  <1>5. n.pgroup = m.pgroup /\ n.areas = [m.areas EXCEPT ![s] = @ \ {a}]
        /\ n.free = m.free /\ n.used = m.used
    BY <1>3 DEF Detaches
  <1>6. KernelPages(n) = KernelPages(m)
    BY <1>5 DEF KernelPages
  <1>7. CASE m.pgroup[g].refcount > 1
    <2>1. area_destroy(m, s, a) = [n EXCEPT !.pgroup[g].refcount = @ - 1]
      BY <1>2, <1>3, <1>7 DEF area_destroy, Unmapped
    <2>2. MemMoves(n, [n EXCEPT !.pgroup[g].refcount = @ - 1], n.areas)
      BY <1>4, <1>5, <1>7, UncountSound
    <2> QED BY <2>1, <2>2, <1>5, <1>6 DEF MemMoves
  <1>8. CASE ~(m.pgroup[g].refcount > 1)
    <2>1. area_destroy(m, s, a) = Freed(n, g)
      BY <1>2, <1>3, <1>5, <1>8 DEF area_destroy, Unmapped, Freed
    <2>2. MemMoves(n, Freed(n, g), n.areas)
      BY <1>4, <1>5, <1>8, FreeSound
    <2> QED BY <2>1, <2>2, <1>5, <1>6 DEF MemMoves
  <1> QED BY <1>7, <1>8

(* The kernel's own pages: memory.c:180.                                   *)
LEMMA UsedSound ==
    ASSUME NEW m, MemSound(m), NEW u \in Int
    PROVE  /\ MemSound([m EXCEPT !.used = u])
           /\ [m EXCEPT !.used = u].areas = m.areas
           /\ KernelPages([m EXCEPT !.used = u]) = KernelPages(m) + u - m.used
  <1>1. m \in MemStates /\ GroupsSound(m)
    BY DEF MemSound, GroupsSound
  <1>2. PICK q : q = [m EXCEPT !.used = u]
    OBVIOUS
  <1>3. /\ q \in MemStates /\ q.free = m.free /\ q.used = u
        /\ q.areas = m.areas /\ q.area = m.area /\ q.table = m.table
        /\ q.pgroup = m.pgroup
    BY <1>1, <1>2 DEF MemStates
  <1>4. Mapped(q) = Mapped(m) /\ \A h : Users(q, h) = Users(m, h)
    BY <1>3 DEF Mapped, Users
  <1>5. GroupsSound(q)
    BY <1>1, <1>3, <1>4 DEF GroupsSound
  <1>6. RamSound(m) => RamSound(q)
    BY <1>3 DEF RamSound
  <1>7. TablesSound(m) => TablesSound(q)
    <2>1. /\ \A a, v : Over(q, a, v) <=> Over(m, a, v)
          /\ \A a, v : Held(q, a, v) = Held(m, a, v)
      BY <1>3, Zenon DEF Over, Held
    <2>2. \A s, v : EntrySound(q, s, v) <=> EntrySound(m, s, v)
      BY ZenonT(60), <1>3, <2>1 DEF EntrySound
    <2> QED BY <2>2, Zenon DEF TablesSound
  <1>8. MemSound(q)
    BY <1>3, <1>4, <1>5, <1>6, <1>7 DEF MemSound
  <1>9. KernelPages(q) = KernelPages(m) + u - m.used
    <2>1. IsFiniteSet(Pages \ m.free) /\ m.used \in Int
      <3>1. IsFiniteSet(Pages)
        BY AreasAssumption, FS_Interval DEF Pages
      <3> QED BY <3>1, <1>1, FS_Difference DEF MemStates
    <2>2. Cardinality(Pages \ m.free) \in Nat
      BY <2>1, FS_CardinalityType
    <2> QED BY <2>1, <2>2, <1>3 DEF KernelPages
  <1> QED BY <1>2, <1>3, <1>8, <1>9

(* Pages of the kernel come and go.                                        *)
Counts(m, q, n) ==
    MemSound(q) /\ q.areas = m.areas /\ KernelPages(q) = KernelPages(m) + n

(* kgetpages() and kfreepages() take no page of RAM from the free chain.   *)
LEMMA KernelPagesSound ==
    ASSUME NEW m, MemSound(m), NEW n \in Nat
    PROVE  Counts(m, kgetpages(m, n), n) /\ Counts(m, kfreepages(m, n), -n)
  <1>1. m.used \in Int
    BY DEF MemSound, GroupsSound, MemStates
  <1>2. PICK u \in Int, w \in Int : u = m.used + n /\ w = m.used - n
    BY <1>1
  <1>3. kgetpages(m, n) = [m EXCEPT !.used = u] /\ kfreepages(m, n) = [m EXCEPT !.used = w]
    BY <1>2 DEF kgetpages, kfreepages, MemSound, GroupsSound, MemStates
  <1>4. KernelPages(m) \in Int
    <2>1. IsFiniteSet(Pages)
      BY AreasAssumption, FS_Interval DEF Pages
    <2>2. Cardinality(Pages \ m.free) \in Nat
      BY <2>1, FS_Difference, FS_CardinalityType
    <2> QED BY <1>1, <2>2 DEF KernelPages
  <1>5. /\ MemSound(kgetpages(m, n)) /\ kgetpages(m, n).areas = m.areas
        /\ KernelPages(kgetpages(m, n)) = KernelPages(m) + u - m.used
    BY <1>3, UsedSound
  <1>6. /\ MemSound(kfreepages(m, n)) /\ kfreepages(m, n).areas = m.areas
        /\ KernelPages(kfreepages(m, n)) = KernelPages(m) + w - m.used
    BY <1>3, UsedSound
  <1> QED BY <1>1, <1>2, <1>4, <1>5, <1>6 DEF Counts

(* Pages after pages.                                                      *)
LEMMA Appended ==
    ASSUME NEW S, NEW ps \in Seq(S), NEW qs \in Seq(S)
    PROVE  /\ ps \o qs \in Seq(S) /\ Len(ps \o qs) = Len(ps) + Len(qs)
           /\ \A i \in 1 .. Len(ps) : (ps \o qs)[i] = ps[i]
           /\ \A i \in 1 .. Len(qs) : (ps \o qs)[Len(ps) + i] = qs[i]
           /\ Members(ps \o qs) = Members(ps) \cup Members(qs)
           /\ Once(ps) /\ Once(qs) /\ Members(ps) \cap Members(qs) = {} => Once(ps \o qs)
  <1> DEFINE c == ps \o qs
  <1>1. /\ c \in Seq(S) /\ Len(c) = Len(ps) + Len(qs)
        /\ Len(ps) \in Nat /\ Len(qs) \in Nat
        /\ \A i \in 1 .. Len(ps) : c[i] = ps[i]
        /\ \A i \in 1 .. Len(qs) : c[Len(ps) + i] = qs[i]
    OBVIOUS
  <1> HIDE DEF c
  <1>2. \A i \in 1 .. Len(c) : \/ i \in 1 .. Len(ps) /\ c[i] = ps[i]
                               \/ /\ i - Len(ps) \in 1 .. Len(qs)
                                  /\ c[i] = qs[i - Len(ps)]
    <2>1. ASSUME NEW i \in 1 .. Len(c), i \notin 1 .. Len(ps)
          PROVE  i - Len(ps) \in 1 .. Len(qs) /\ i = Len(ps) + (i - Len(ps))
      BY <1>1, <2>1
    <2> QED BY <2>1, <1>1
  <1>3. \A i \in 1 .. Len(ps) : i \in 1 .. Len(c)
    BY <1>1
  <1>4. \A i \in 1 .. Len(qs) : Len(ps) + i \in 1 .. Len(c)
    BY <1>1
  <1>5. Members(c) = Members(ps) \cup Members(qs)
    <2>1. Members(c) \subseteq Members(ps) \cup Members(qs)
      BY <1>2 DEF Members
    <2>2. Members(ps) \subseteq Members(c)
      BY <1>1, <1>3 DEF Members
    <2>3. Members(qs) \subseteq Members(c)
      BY <1>1, <1>4 DEF Members
    <2> QED BY <2>1, <2>2, <2>3
  <1>6. ASSUME Once(ps), Once(qs), Members(ps) \cap Members(qs) = {},
               NEW i \in 1 .. Len(c), NEW j \in 1 .. Len(c), c[i] = c[j]
        PROVE  i = j
    <2>1. \A k \in 1 .. Len(ps), l \in 1 .. Len(qs) : ps[k] # qs[l]
      BY <1>6 DEF Members
    <2>2. CASE i \in 1 .. Len(ps) /\ c[i] = ps[i]
      <3>1. j \in 1 .. Len(ps) /\ c[j] = ps[j]
        BY <2>1, <2>2, <1>2, <1>6
      <3> QED BY <3>1, <2>2, <1>6 DEF Once
    <2>3. CASE i - Len(ps) \in 1 .. Len(qs) /\ c[i] = qs[i - Len(ps)]
      <3>1. j - Len(ps) \in 1 .. Len(qs) /\ c[j] = qs[j - Len(ps)]
        BY <2>1, <2>3, <1>2, <1>6
      <3>2. i - Len(ps) = j - Len(ps)
        BY <3>1, <2>3, <1>6 DEF Once
      <3> QED BY <3>2, <1>1
    <2> QED BY <2>2, <2>3, <1>2
  <1>7. Once(ps) /\ Once(qs) /\ Members(ps) \cap Members(qs) = {} => Once(c)
    BY <1>6 DEF Once
  <1> QED BY <1>1, <1>5, <1>7 DEF c

(* Between m and q group g and area a have grown by the pages ps, which    *)
(* are mapped in space s from entry at on.                                 *)
Grows(m, q, s, a, g, at, ps) ==
    /\ q \in MemStates
    /\ q.free = m.free \ Members(ps) /\ q.used = m.used + Len(ps)
    /\ q.areas = m.areas
    /\ \A b \in Ids : /\ q.area[b].pgroup = m.area[b].pgroup
                      /\ q.area[b].virt_addr = m.area[b].virt_addr
    /\ \A b \in Ids \ {a} : q.area[b] = m.area[b]
    /\ q.area[a].length = m.area[a].length + Len(ps)
    /\ \A h \in Groups : /\ q.pgroup[h].refcount = m.pgroup[h].refcount
                         /\ q.pgroup[h].physmap = m.pgroup[h].physmap
    /\ \A h \in Groups \ {g} : q.pgroup[h] = m.pgroup[h]
    /\ q.pgroup[g].pages = m.pgroup[g].pages \o ps
    /\ \A x \in Ids \ {s} : q.table[x] = m.table[x]
    /\ q.table[s] = aspace_map(m.table[s], ps, at)

(* What area_resize() changes.                                             *)
LEMMA ResizeFields ==
    ASSUME NEW m \in MemStates, NEW s \in Ids, NEW a \in Ids, NEW n \in Nat,
           m.area[a].pgroup \in Groups, HasPages(m, n)
    PROVE  /\ Grows(m, area_resize(m, s, a, n), s, a, m.area[a].pgroup, GrowsAt(m, a),
                    FirstFree(m, n))
           /\ FirstFree(m, n) \in Seq(Nat \ {NoPage}) /\ Len(FirstFree(m, n)) = n
           /\ Once(FirstFree(m, n)) /\ Members(FirstFree(m, n)) \subseteq m.free
           /\ GrowsAt(m, a) = m.area[a].virt_addr + Len(m.pgroup[m.area[a].pgroup].pages)
           /\ GrowsAt(m, a) \in Nat
  <1>1. PICK g \in Groups : g = m.area[a].pgroup
    OBVIOUS
  <1>2. PICK ps \in Seq(Nat \ {NoPage}) : /\ ps = FirstFree(m, n) /\ Len(ps) = n /\ Once(ps)
                                         /\ Members(ps) \subseteq m.free
    <2>1. m.free \subseteq Pages /\ Pages \subseteq Nat \ {NoPage}
      BY AreasAssumption DEF MemStates, Pages, NoPage
    <2>2. /\ FirstFree(m, n) \in Seq(m.free) /\ Len(FirstFree(m, n)) = n
          /\ \A i, j \in 1 .. n : FirstFree(m, n)[i] = FirstFree(m, n)[j] => i = j
      BY FirstFreeIs
    <2>3. Members(FirstFree(m, n)) \subseteq m.free
      BY <2>2 DEF Members
    <2>4. FirstFree(m, n) \in Seq(Nat \ {NoPage})
      <3>1. m.free \subseteq Nat \ {NoPage}
        BY <2>1
      <3> QED BY <3>1, <2>2
    <2> QED BY <2>2, <2>3, <2>4 DEF Once
  <1>3. /\ m.area[a] \in AreaRecs /\ m.pgroup[g] \in PGroups
        /\ m.pgroup[g].pages \in Seq(Nat \ {NoPage})
    BY DEF MemStates, PGroups
  <1>4. PICK at \in Nat : at = GrowsAt(m, a) /\ at = m.area[a].virt_addr
                                                   + Len(m.pgroup[g].pages)
    <2>1. m.area[a].virt_addr \in Nat
      BY <1>3 DEF AreaRecs
    <2>2. PICK old \in Seq(Nat \ {NoPage}) : old = m.pgroup[g].pages
      BY <1>3
    <2>3. Len(old) \in Nat
      OBVIOUS
    <2>4. GrowsAt(m, a) = m.area[a].virt_addr + Len(old)
      BY <2>2, <1>1 DEF GrowsAt
    <2>5. PICK v \in Nat, l \in Nat : v = m.area[a].virt_addr /\ l = Len(old)
      BY <2>1, <2>3
    <2>6. v + l \in Nat
      OBVIOUS
    <2>7. GrowsAt(m, a) = v + l
      BY <2>4, <2>5, Zenon
    <2>8. v + l = m.area[a].virt_addr + Len(m.pgroup[g].pages)
      BY <2>2, <2>5, Zenon
    <2> QED BY <2>6, <2>7, <2>8, Zenon
  <1>5. PICK c \in Seq(Nat \ {NoPage}) : c = m.pgroup[g].pages \o ps
    <2>1. PICK old \in Seq(Nat \ {NoPage}) : old = m.pgroup[g].pages
      BY <1>3
    <2>2. old \o ps \in Seq(Nat \ {NoPage})
      OBVIOUS
    <2> QED BY <2>1, <2>2
  <1>6. PICK G \in PGroups : /\ G = [m.pgroup[g] EXCEPT !.pages = @ \o ps]
                             /\ G.pages = c
                             /\ G.refcount = m.pgroup[g].refcount
                             /\ G.physmap = m.pgroup[g].physmap
    <2>1. [m.pgroup[g] EXCEPT !.pages = c] \in PGroups
      BY <1>3 DEF PGroups
    <2>2. PICK G \in PGroups : G = [m.pgroup[g] EXCEPT !.pages = c]
      BY <2>1
    <2> QED BY <2>2, <1>3, <1>5 DEF PGroups
  <1>7. PICK B \in AreaRecs : /\ B = [m.area[a] EXCEPT !.length = @ + n]
                              /\ B.length = m.area[a].length + n
                              /\ B.pgroup = m.area[a].pgroup
                              /\ B.virt_addr = m.area[a].virt_addr
    <2>1. [m.area[a] EXCEPT !.length = @ + n] \in AreaRecs
      BY SMTT(60), <1>3 DEF AreaRecs
    <2>2. PICK B \in AreaRecs : B = [m.area[a] EXCEPT !.length = @ + n]
      BY <2>1
    <2> QED BY <2>2, <1>3 DEF AreaRecs
  <1>8. PICK tab \in [VPages -> Nat] : tab = aspace_map(m.table[s], ps, at)
    <2>1. m.table[s] \in [VPages -> Nat] /\ ps \in Seq(Nat)
      BY <1>2 DEF MemStates
    <2>2. aspace_map(m.table[s], ps, at) \in [VPages -> Nat]
      BY <2>1, MapTyped
    <2> QED BY <2>2
  <1>9. PICK T \in [Ids -> [VPages -> Nat]] : T = [m.table EXCEPT ![s] = tab]
    BY DEF MemStates
  <1>10. PICK P \in [Groups -> PGroups] : P = [m.pgroup EXCEPT ![g] = G]
    BY DEF MemStates
  <1>11. PICK A \in [Ids -> AreaRecs] : A = [m.area EXCEPT ![a] = B]
    BY DEF MemStates
  <1>12. PICK k \in MemStates : /\ k = getpages(m, n)
                                /\ k.free = m.free \ Members(ps) /\ k.used = m.used + n
                                /\ k.areas = m.areas /\ k.area = m.area
                                /\ k.pgroup = m.pgroup /\ k.table = m.table
    BY <1>2, GetFields
  <1>13. PICK q : q = [k EXCEPT !.table = T, !.pgroup = P, !.area = A]
    OBVIOUS
  <1>14. area_resize(m, s, a, n) = q
    BY <1>1, <1>2, <1>4, <1>6, <1>7, <1>8, <1>9, <1>10, <1>11, <1>12, <1>13
       DEF area_resize, MemStates
  <1>15. /\ q \in MemStates /\ q.free = k.free /\ q.used = k.used /\ q.areas = k.areas
         /\ q.table = T /\ q.pgroup = P /\ q.area = A
    BY <1>13 DEF MemStates
  <1>16. Grows(m, q, s, a, g, at, ps)
    <2>1. /\ \A b \in Ids \ {a} : A[b] = m.area[b]
          /\ A[a] = B
          /\ \A h \in Groups \ {g} : P[h] = m.pgroup[h]
          /\ P[g] = G
          /\ \A x \in Ids \ {s} : T[x] = m.table[x]
          /\ T[s] = tab
      BY <1>9, <1>10, <1>11 DEF MemStates
    <2>2. /\ \A b \in Ids : /\ q.area[b].pgroup = m.area[b].pgroup
                            /\ q.area[b].virt_addr = m.area[b].virt_addr
          /\ \A h \in Groups : /\ q.pgroup[h].refcount = m.pgroup[h].refcount
                               /\ q.pgroup[h].physmap = m.pgroup[h].physmap
      BY <2>1, <1>6, <1>7, <1>15
    <2> QED BY <2>1, <2>2, <1>2, <1>5, <1>6, <1>7, <1>8, <1>12, <1>15 DEF Grows
  <1> QED BY <1>1, <1>2, <1>4, <1>14, <1>16

(* Where an entry lies under an area from at on, of len pages, that has     *)
(* grown by n.                                                             *)
LEMMA Within ==
    ASSUME NEW v \in Nat, NEW at \in Nat, NEW len \in Nat, NEW n \in Nat,
           at <= v, v < at + len, len <= n
    PROVE  v - at + 1 \in 1 .. n
  OBVIOUS

(* An entry among the n that are put behind an area.                       *)
LEMMA After ==
    ASSUME NEW v \in Nat, NEW at \in Nat, NEW len \in Nat, NEW n \in Nat, NEW end,
           end = at + len, v \in end .. end + n - 1
    PROVE  /\ at <= v /\ v < at + (len + n)
           /\ v - end + 1 \in 1 .. n /\ v - at + 1 = len + (v - end + 1)
           /\ end \in Nat
  OBVIOUS

(* An entry that is not among them.                                        *)
LEMMA NotAfter ==
    ASSUME NEW v \in Nat, NEW at \in Nat, NEW len \in Nat, NEW n \in Nat
    PROVE  /\ v < at + len => v < at + (len + n)
           /\ \A end : end = at + len /\ v \notin end .. end + n - 1 =>
                 (v < at + (len + n) => v < at + len)
  OBVIOUS

(* area_resize(): aspace.c:416.                                            *)
LEMMA AreaResizeSound ==
    ASSUME NEW m, MemSound(m), NEW s \in Ids, NEW a \in Mapped(m), NEW n \in Nat,
           HasPages(m, n), CanGrow(m, s, a, n),
           ResizeWhole => /\ a \in m.areas[s]
                          /\ ~m.pgroup[m.area[a].pgroup].physmap
                          /\ m.area[a].length = Len(m.pgroup[m.area[a].pgroup].pages)
    PROVE  MemMoves(m, area_resize(m, s, a, n), m.areas)
  <1>1. GroupsSound(m) /\ m \in MemStates /\ a \in Ids
    BY DEF MemSound, GroupsSound, Mapped
  <1>2. PICK g \in Groups : g = m.area[a].pgroup
    BY <1>1 DEF GroupsSound
  <1>3. PICK ps \in Seq(Nat \ {NoPage}), at \in Nat :
            /\ Grows(m, area_resize(m, s, a, n), s, a, g, at, ps)
            /\ Len(ps) = n /\ Once(ps) /\ Members(ps) \subseteq m.free
            /\ at = m.area[a].virt_addr + Len(m.pgroup[g].pages)
            /\ at = GrowsAt(m, a)
    BY <1>1, <1>2, ResizeFields
  <1>4. PICK q : q = area_resize(m, s, a, n)
    OBVIOUS
  <1>5. /\ q \in MemStates
        /\ q.free = m.free \ Members(ps) /\ q.used = m.used + n
        /\ q.areas = m.areas
        /\ \A b \in Ids : /\ q.area[b].pgroup = m.area[b].pgroup
                          /\ q.area[b].virt_addr = m.area[b].virt_addr
        /\ \A b \in Ids \ {a} : q.area[b] = m.area[b]
        /\ q.area[a].length = m.area[a].length + n
        /\ \A h \in Groups : /\ q.pgroup[h].refcount = m.pgroup[h].refcount
                             /\ q.pgroup[h].physmap = m.pgroup[h].physmap
        /\ \A h \in Groups \ {g} : q.pgroup[h] = m.pgroup[h]
        /\ q.pgroup[g].pages = m.pgroup[g].pages \o ps
        /\ \A x \in Ids \ {s} : q.table[x] = m.table[x]
        /\ q.table[s] = aspace_map(m.table[s], ps, at)
    BY <1>3, <1>4 DEF Grows
  <1>6. PICK old \in Seq(Nat \ {NoPage}), new \in Seq(Nat \ {NoPage}) :
            /\ old = m.pgroup[g].pages /\ new = q.pgroup[g].pages /\ new = old \o ps
    <2>1. m.pgroup[g].pages \in Seq(Nat \ {NoPage}) /\ q.pgroup[g].pages \in Seq(Nat \ {NoPage})
      BY <1>1, <1>5 DEF MemStates, PGroups
    <2> QED BY <2>1, <1>5
  <1>7. /\ Len(new) = Len(old) + n /\ Len(old) \in Nat
        /\ \A i \in 1 .. Len(old) : new[i] = old[i]
        /\ \A i \in 1 .. n : new[Len(old) + i] = ps[i]
        /\ Members(new) = Members(old) \cup Members(ps)
        /\ Once(old) /\ Once(ps) /\ Members(old) \cap Members(ps) = {} => Once(new)
    <2>1. /\ old \o ps \in Seq(Nat \ {NoPage}) /\ Len(old \o ps) = Len(old) + Len(ps)
          /\ \A i \in 1 .. Len(old) : (old \o ps)[i] = old[i]
          /\ \A i \in 1 .. Len(ps) : (old \o ps)[Len(old) + i] = ps[i]
          /\ Members(old \o ps) = Members(old) \cup Members(ps)
          /\ Once(old) /\ Once(ps) /\ Members(old) \cap Members(ps) = {} => Once(old \o ps)
      BY Appended
    <2>2. Len(old) \in Nat
      OBVIOUS
    <2> QED BY <2>1, <2>2, <1>3, <1>6
  <1>8. Mapped(q) = Mapped(m) /\ \A h : Users(q, h) = Users(m, h)
    <2>1. Mapped(q) = Mapped(m)
      BY <1>5 DEF Mapped
    <2> QED BY <2>1, <1>5 DEF Users, Mapped
  <1>9. \A h \in Groups : q.pgroup[h].refcount = Cardinality(Users(q, h))
    BY <1>5, <1>8 DEF MemSound
  <1>10. m.pgroup[g].refcount # 0
    <2>1. a \in Users(m, g) /\ IsFiniteSet(Users(m, g))
      BY <1>2, UsersFinite DEF Users
    <2>2. Cardinality(Users(m, g)) # 0
      BY <2>1, FS_EmptySet
    <2> QED BY <2>2 DEF MemSound
  <1>11. GroupsSound(q)
    <2>1. ASSUME NEW b \in Mapped(q)
          PROVE  /\ q.area[b].pgroup \in Groups /\ q.area[b].virt_addr # 0
                 /\ q.area[b].length <= Len(q.pgroup[q.area[b].pgroup].pages)
      <3>1. /\ b \in Mapped(m) /\ b \in Ids /\ m.area[b].pgroup \in Groups
            /\ m.area[b].virt_addr # 0
            /\ m.area[b].length <= Len(m.pgroup[m.area[b].pgroup].pages)
            /\ m.area[b].length \in Nat
        BY <1>1, <1>8 DEF GroupsSound, Mapped, MemStates, AreaRecs
      <3>5. /\ q.area[b].pgroup = m.area[b].pgroup
            /\ q.area[b].virt_addr = m.area[b].virt_addr
            /\ b # a => q.area[b].length = m.area[b].length
            /\ q.area[a].length = m.area[a].length + n
            /\ q.pgroup[g].pages = new /\ m.pgroup[g].pages = old
        BY <3>1, <1>5, <1>6
      <3>6. PICK l \in Nat : l = m.area[b].length
        BY <3>1
      <3>7. Len(new) = Len(old) + n /\ Len(old) \in Nat
        BY <1>7
      <3>2. CASE b = a
        <4>1. l <= Len(old) /\ q.area[b].length = l + n
          BY <3>1, <3>2, <3>5, <3>6, <1>2
        <4>2. l + n <= Len(new)
          BY <4>1, <3>7
        <4> QED BY <4>1, <4>2, <3>1, <3>2, <3>5, <1>2
      <3>3. CASE b # a /\ m.area[b].pgroup = g
        <4>1. l <= Len(old) /\ q.area[b].length = l
          BY <3>1, <3>3, <3>5, <3>6
        <4>2. l <= Len(new)
          BY <4>1, <3>7
        <4> QED BY <4>1, <4>2, <3>1, <3>3, <3>5
      <3>4. CASE b # a /\ m.area[b].pgroup # g
        BY ZenonT(60), <3>1, <3>4, <1>5
      <3> QED BY <3>2, <3>3, <3>4
    <2>2. ASSUME NEW h \in Groups
          PROVE  q.pgroup[h].physmap \/ Members(q.pgroup[h].pages) \subseteq Pages
      <3>1. m.free \subseteq Pages
        BY <1>1 DEF MemStates
      <3>2. CASE h = g
        BY <3>1, <3>2, <1>1, <1>3, <1>5, <1>6, <1>7 DEF GroupsSound
      <3>3. CASE h # g
        BY <3>3, <1>1, <1>5 DEF GroupsSound
      <3> QED BY <3>2, <3>3
    <2>3. ASSUME NEW h \in Groups, q.pgroup[h].refcount = 0
          PROVE  q.pgroup[h] = UnusedGroup
      BY ZenonT(60), <2>3, <1>1, <1>5, <1>10 DEF GroupsSound
    <2>4. \A x, y \in Ids : \A b \in q.areas[x] : b \in q.areas[y] => x = y
      BY <1>1, <1>5 DEF GroupsSound
    <2> QED BY <2>1, <2>2, <2>3, <2>4, <1>5 DEF GroupsSound
  <1>12. ASSUME ResizeWhole PROVE RamSound(q)
    <2>1. RamSound(m) /\ ~m.pgroup[g].physmap
      BY <1>2, <1>12 DEF MemSound
    <2>2. Once(old) /\ Members(old) \cap m.free = {}
      BY <2>1, <1>6 DEF RamSound
    <2>3. ASSUME NEW h \in Groups, ~q.pgroup[h].physmap
          PROVE  Once(q.pgroup[h].pages) /\ Members(q.pgroup[h].pages) \cap q.free = {}
      <3>1. CASE h = g
        BY <3>1, <2>2, <1>3, <1>5, <1>6, <1>7
      <3>2. CASE h # g
        BY <3>2, <2>1, <2>3, <1>5 DEF RamSound
      <3> QED BY <3>1, <3>2
    <2>4. ASSUME NEW h \in Groups \ {g}, ~q.pgroup[h].physmap
          PROVE  Members(q.pgroup[h].pages) \cap Members(q.pgroup[g].pages) = {}
      <3>1. q.pgroup[h] = m.pgroup[h]
        BY <1>5
      <3>2. /\ Members(m.pgroup[h].pages) \cap Members(old) = {}
            /\ Members(m.pgroup[h].pages) \cap m.free = {}
        BY <3>1, <2>1, <2>4, <1>6 DEF RamSound
      <3> QED BY <3>1, <3>2, <1>3, <1>6, <1>7
    <2>5. ASSUME NEW h \in Groups, NEW x \in Groups, h # x,
                 ~q.pgroup[h].physmap, ~q.pgroup[x].physmap
          PROVE  Members(q.pgroup[h].pages) \cap Members(q.pgroup[x].pages) = {}
      <3>1. CASE h = g \/ x = g
        BY <3>1, <2>4, <2>5
      <3>2. CASE h # g /\ x # g
        BY <3>2, <2>1, <2>5, <1>5 DEF RamSound
      <3> QED BY <3>1, <3>2
    <2>6. ASSUME NEW p \in Pages \ q.free
          PROVE  \E h \in Groups : ~q.pgroup[h].physmap /\ p \in Members(q.pgroup[h].pages)
      <3>1. CASE p \in m.free
        <4>1. p \in Members(new)
          BY <3>1, <2>6, <1>5, <1>7
        <4> QED BY <4>1, <2>1, <1>5, <1>6
      <3>2. CASE p \notin m.free
        <4>1. PICK h \in Groups : ~m.pgroup[h].physmap /\ p \in Members(m.pgroup[h].pages)
          BY <3>2, <2>1, <2>6 DEF RamSound
        <4>2. p \in Members(q.pgroup[h].pages)
          <5>1. CASE h = g
            BY <5>1, <4>1, <1>6, <1>7
          <5>2. CASE h # g
            BY <5>2, <4>1, <1>5
          <5> QED BY <5>1, <5>2
        <4> QED BY <4>1, <4>2, <1>5
      <3> QED BY <3>1, <3>2
    <2> QED BY <2>3, <2>5, <2>6 DEF RamSound
  <1>13. ASSUME ResizeWhole, NEW x \in Ids, NEW v \in VPages
         PROVE  EntrySound(q, x, v)
    <2>1. /\ EntrySound(m, x, v)
          /\ a \in m.areas[s] /\ m.area[a].length = Len(old)
      BY <1>2, <1>6, <1>13 DEF TablesSound, MemSound
    <2>2. /\ \A b \in m.areas[x] : b \in Ids /\ b \in Mapped(m)
          /\ a \in m.areas[x] => x = s
      BY <1>1, <2>1 DEF MemStates, Mapped, GroupsSound
    <2>3. v \in Nat /\ m.area[a].virt_addr \in Nat
      BY <1>1, AreasAssumption DEF VPages, MemStates, AreaRecs
    <2>4. \A b \in Ids \ {a} : /\ Over(q, b, v) => Over(m, b, v)
                               /\ Over(m, b, v) => Over(q, b, v)
      BY <1>5 DEF Over
    <2>5. ASSUME NEW b \in m.areas[x], Over(m, b, v)
          PROVE  Held(q, b, v) = Held(m, b, v)
      <3>1. /\ m.area[b].pgroup \in Groups /\ b \in Ids
            /\ m.area[b].length <= Len(m.pgroup[m.area[b].pgroup].pages)
            /\ m.area[b].virt_addr \in Nat /\ m.area[b].length \in Nat
        BY <2>2, <1>1 DEF GroupsSound, MemStates, AreaRecs
      <3>2. CASE m.area[b].pgroup = g
        <4>1. v - m.area[b].virt_addr + 1 \in 1 .. Len(old)
          <5>1. /\ m.area[b].virt_addr <= v
                /\ v < m.area[b].virt_addr + m.area[b].length
                /\ m.area[b].length <= Len(old)
            BY <3>1, <3>2, <2>5, <1>6 DEF Over
          <5>2. m.area[b].virt_addr \in Nat /\ m.area[b].length \in Nat /\ Len(old) \in Nat
            BY <3>1, <1>7
          <5> QED BY <5>1, <5>2, <2>3, Within
        <4>2. q.area[b].virt_addr = m.area[b].virt_addr /\ q.area[b].pgroup = g
          BY <3>1, <3>2, <1>5
        <4>3. new[v - m.area[b].virt_addr + 1] = old[v - m.area[b].virt_addr + 1]
          BY <4>1, <1>7
        <4> QED BY <4>2, <4>3, <3>2, <1>6 DEF Held
      <3>3. CASE m.area[b].pgroup # g
        BY ZenonT(60), <3>1, <3>3, <1>5 DEF Held
      <3> QED BY <3>2, <3>3
    <2>6. at = m.area[a].virt_addr + m.area[a].length
      BY <2>1, <1>3, <1>6
    <2>7. CASE x = s /\ v \in at .. at + n - 1
      <3>1. m.table[s][v] = NoPage
        <4>1. locate_span(m.table[s], at, n) = at /\ at # 0
          <5>1. locate_span(m.table[s], at, n) = at /\ n > 0
            BY <1>3 DEF CanGrow
          <5>2. at # 0
            <6>1. m.area[a].virt_addr # 0
              BY <1>1 DEF GroupsSound
            <6>2. PICK va \in Nat, ln \in Nat : va = m.area[a].virt_addr /\ ln = Len(old)
              BY <2>3, <1>7
            <6>3. at = va + ln
              BY <6>2, <2>6, <2>1
            <6> QED BY <6>1, <6>2, <6>3
          <5> QED BY <5>1, <5>2
        <4>2. \A w \in locate_span(m.table[s], at, n) ..
                          locate_span(m.table[s], at, n) + n - 1 :
                  w \in VPages => m.table[s][w] = NoPage
          BY <4>1, SpanIs
        <4> QED BY <4>1, <4>2, <2>7
      <3>2. \A b \in m.areas[s] : ~Over(m, b, v)
        BY <3>1, <2>1, <2>7 DEF EntrySound
      <3>3. Over(q, a, v)
        <4>1. /\ q.area[a].virt_addr = m.area[a].virt_addr
              /\ q.area[a].length = m.area[a].length + n
              /\ m.area[a].length \in Nat
          BY <1>1, <1>5 DEF MemStates, AreaRecs
        <4>2. /\ m.area[a].virt_addr <= v
              /\ v < m.area[a].virt_addr + (m.area[a].length + n)
          BY <4>1, <2>3, <2>6, <2>7, After
        <4> QED BY <4>1, <4>2 DEF Over
      <3>4. \A b \in q.areas[s] : Over(q, b, v) => b = a
        BY <3>2, <2>2, <2>4, <2>7, <1>5
      <3>5. v - at + 1 \in 1 .. n /\ v - m.area[a].virt_addr + 1 = Len(old) + (v - at + 1)
        <4>1. m.area[a].length \in Nat
          BY <2>1, <1>7
        <4>2. /\ v - at + 1 \in 1 .. n
              /\ v - m.area[a].virt_addr + 1 = m.area[a].length + (v - at + 1)
          <5>1. PICK va \in Nat, ln \in Nat : /\ va = m.area[a].virt_addr
                                              /\ ln = m.area[a].length
            BY <4>1, <2>3
          <5>2. at = va + ln /\ v \in at .. at + n - 1
            BY <5>1, <2>6, <2>7
          <5>3. v - at + 1 \in 1 .. n /\ v - va + 1 = ln + (v - at + 1)
            BY <5>2, <2>3
          <5> QED BY <5>1, <5>3
        <4> QED BY <4>2, <2>1
      <3>6. Held(q, a, v) = ps[v - at + 1]
        <4>1. q.area[a].virt_addr = m.area[a].virt_addr /\ q.area[a].pgroup = g
          BY <1>1, <1>2, <1>5
        <4>2. new[Len(old) + (v - at + 1)] = ps[v - at + 1]
          BY <3>5, <1>7
        <4> QED BY <4>1, <4>2, <3>5, <1>6 DEF Held
      <3>7. q.table[s][v] = ps[v - at + 1] /\ ps[v - at + 1] # NoPage
        <4>1. PICK tab : tab = m.table[s]
          OBVIOUS
        <4>2. q.table[s] = aspace_map(tab, ps, at) /\ Len(ps) = n
          BY <4>1, <1>3, <1>5
        <4>3. aspace_map(tab, ps, at)[v] = ps[v - at + 1]
          BY <4>2, <2>7, Zenon DEF aspace_map
        <4>4. ps[v - at + 1] \in Nat \ {NoPage}
          BY <3>5, <4>2
        <4> QED BY <4>2, <4>3, <4>4
      <3> QED BY <3>3, <3>4, <3>6, <3>7, <2>1, <2>7, <1>5 DEF EntrySound
    <2>8. CASE ~(x = s /\ v \in at .. at + n - 1)
      <3>1. q.table[x][v] = m.table[x][v]
        <4>1. CASE x = s
          BY <4>1, <2>8, <1>3, <1>5 DEF aspace_map
        <4>2. CASE x # s
          BY <4>2, <1>5
        <4> QED BY <4>1, <4>2
      <3>2. x = s => (Over(q, a, v) => Over(m, a, v)) /\ (Over(m, a, v) => Over(q, a, v))
        <4>1. CASE x = s
          <5>1. v \notin at .. at + n - 1
            BY <4>1, <2>8
          <5>2. /\ q.area[a].virt_addr = m.area[a].virt_addr
                /\ q.area[a].length = m.area[a].length + n
                /\ m.area[a].length \in Nat
            BY <1>1, <1>5 DEF MemStates, AreaRecs
          <5>3. m.area[a].virt_addr <= v /\ v < m.area[a].virt_addr + (m.area[a].length + n)
                   => v < m.area[a].virt_addr + m.area[a].length
            BY <5>1, <5>2, <2>3, <2>6, NotAfter
          <5>4. v < m.area[a].virt_addr + m.area[a].length
                   => v < m.area[a].virt_addr + (m.area[a].length + n)
            BY <5>2, <2>3, NotAfter
          <5> QED BY <5>2, <5>3, <5>4 DEF Over
        <4> QED BY <4>1
      <3>3. \A b \in m.areas[x] : /\ Over(q, b, v) => Over(m, b, v)
                                  /\ Over(m, b, v) => Over(q, b, v)
        BY <3>2, <2>2, <2>4
      <3>4. q.areas[x] = m.areas[x]
        BY <1>5
      <3> QED BY <3>1, <3>3, <3>4, <2>1, <2>5, EntryKept
    <2> QED BY <2>7, <2>8
  <1>14. KernelPages(q) = KernelPages(m)
    <2>1. /\ IsFiniteSet(Pages) /\ m.free \subseteq Pages /\ m.used \in Int
          /\ IsFiniteSet(Pages \ m.free)
      <3>1. IsFiniteSet(Pages)
        BY AreasAssumption, FS_Interval DEF Pages
      <3> QED BY <3>1, <1>1, FS_Difference DEF MemStates
    <2>2. IsFiniteSet(Members(ps)) /\ Cardinality(Members(ps)) = n
      BY <1>3, MembersCount
    <2>3. /\ Pages \ q.free = (Pages \ m.free) \cup Members(ps)
          /\ (Pages \ m.free) \cap Members(ps) = {}
      BY <2>1, <1>3, <1>5
    <2>4. Cardinality(Pages \ q.free) = Cardinality(Pages \ m.free)
             + Cardinality(Members(ps)) - Cardinality({})
      BY <2>1, <2>2, <2>3, FS_Union
    <2>5. Cardinality(Pages \ m.free) \in Nat /\ Cardinality({}) = 0
      BY <2>1, FS_CardinalityType, FS_EmptySet
    <2>6. PICK c \in Nat, u \in Int : c = Cardinality(Pages \ m.free) /\ u = m.used
      BY <2>1, <2>5
    <2>7. Cardinality(Pages \ q.free) = c + n
      BY <2>2, <2>4, <2>5, <2>6
    <2>8. KernelPages(m) = u - c /\ KernelPages(q) = (u + n) - (c + n)
      BY <2>6, <2>7, <1>5 DEF KernelPages
    <2> QED BY <2>8
  <1>15. MemSound(q)
    BY <1>9, <1>11, <1>12, <1>13 DEF MemSound, TablesSound
  <1> QED BY <1>4, <1>5, <1>14, <1>15 DEF MemMoves

-----------------------------------------------------------------------------
(* The tables together.                                                    *)

TeamRecs == [refcount : Int, aspace : Ids \cup {0}, heap_id : Ids \cup {NoArea}]
PortRecs == [slaved : Ids \cup {0}, refcount : Int, sendqueue : Ids \cup {0}]
TableStates ==
    [rsrc : RsrcStates,
     mem  : MemStates,
     team : [Ids -> TeamRecs],
     task : [Ids -> Ids \cup {NoArea}],
     port : [Ids -> PortRecs]]

Is(k, i, kind) == i \in Ids /\ k.rsrc.type[i] = kind

(* A team has a space of its own and counts its threads.                   *)
TasksOf(k, m) == {t \in Ids : k.rsrc.type[t] = "RSRC_TASK" /\ k.rsrc.owner[t] = m}
TeamSound(k, m) ==
    IF k.rsrc.type[m] = "RSRC_TEAM"
    THEN /\ k.rsrc.owner[m] = KernelTeam
         /\ Is(k, k.team[m].aspace, "RSRC_ASPACE")
         /\ k.rsrc.owner[k.team[m].aspace] = m
         /\ k.team[m].refcount = Cardinality(TasksOf(k, m))
    ELSE k.team[m] = NoTeamRecord
TeamsSound(k) == \A m \in Ids : TeamSound(k, m)

(* Threads, semaphores and spaces belong to a team that lives, and a space *)
(* is that of its team.  An area is in a space, and it belongs to a team   *)
(* that lives or, when it was made at boot, to none.                       *)
AnyTeam(k, o) == o = NoTeam \/ Is(k, o, "RSRC_TEAM")
MemberSound(k, i) ==
    /\ k.rsrc.type[i] \in {"RSRC_TASK", "RSRC_SEM", "RSRC_ASPACE"}
          => Is(k, k.rsrc.owner[i], "RSRC_TEAM")
    /\ k.rsrc.type[i] = "RSRC_ASPACE" => k.team[k.rsrc.owner[i]].aspace = i
    /\ k.rsrc.type[i] = "RSRC_AREA" => AnyTeam(k, k.rsrc.owner[i]) /\ i \in Mapped(k.mem)
AreasInSpaces(k) ==
    \A s \in Ids : \A a \in k.mem.areas[s] :
        k.rsrc.type[a] = "RSRC_AREA" /\ k.rsrc.type[s] = "RSRC_ASPACE"
MembersSound(k) == (\A i \in Ids : MemberSound(k, i)) /\ AreasInSpaces(k)

(* A port has a queue of its own, and counts more than its slaves; ports   *)
(* without a team are masters.                                             *)
Slaves(k, q) == {p \in Ids : k.port[p].slaved = q}
PortSound(k, p) ==
    IF k.rsrc.type[p] = "RSRC_PORT"
    THEN /\ Is(k, k.port[p].sendqueue, "RSRC_QUEUE")
         /\ k.rsrc.owner[k.port[p].sendqueue] = k.rsrc.owner[p]
         /\ \/ Is(k, k.rsrc.owner[p], "RSRC_TEAM")
            \/ k.rsrc.owner[p] = NoTeam /\ k.port[p].refcount > 1
         /\ k.port[p].refcount > Cardinality(Slaves(k, p))
         /\ k.port[p].slaved # 0 =>
               /\ Is(k, k.port[p].slaved, "RSRC_PORT")
               /\ k.rsrc.owner[k.port[p].slaved] = k.rsrc.owner[p]
    ELSE k.port[p] = NoPortRecord
PortsSound(k) ==
    /\ \A p \in Ids : PortSound(k, p)
    /\ \A p, q \in Ids :
          /\ k.rsrc.type[p] = "RSRC_PORT" /\ k.rsrc.type[q] = "RSRC_PORT"
          /\ k.port[p].sendqueue = k.port[q].sendqueue
          => p = q
    /\ \A i \in Ids : k.rsrc.type[i] = "RSRC_QUEUE" =>
          \E p \in Ids : k.rsrc.type[p] = "RSRC_PORT" /\ k.port[p].sendqueue = i

(* used_pages: two for each space, one for each thread.                    *)
Having(k, kind) == {i \in Ids : k.rsrc.type[i] = kind}
CountsSound(k) ==
    ResizeWhole => KernelPages(k.mem) = 2 * Cardinality(Having(k, "RSRC_ASPACE"))
                                        + Cardinality(Having(k, "RSRC_TASK"))

Sound(k) ==
    /\ k \in TableStates /\ TableSound(k.rsrc) /\ MemSound(k.mem)
    /\ TeamsSound(k) /\ MembersSound(k) /\ PortsSound(k) /\ CountsSound(k)

(* What a resource of a team is to it.                                     *)
LEMMA MemberOf ==
    ASSUME NEW k, MembersSound(k), NEW i \in Ids
    PROVE  /\ k.rsrc.type[i] \in {"RSRC_TASK", "RSRC_SEM", "RSRC_ASPACE"}
              => k.rsrc.owner[i] \in Ids /\ k.rsrc.type[k.rsrc.owner[i]] = "RSRC_TEAM"
           /\ k.rsrc.type[i] = "RSRC_ASPACE" => k.team[k.rsrc.owner[i]].aspace = i
           /\ k.rsrc.type[i] = "RSRC_AREA" =>
                 /\ i \in Mapped(k.mem)
                 /\ \/ k.rsrc.owner[i] = NoTeam
                    \/ k.rsrc.owner[i] \in Ids /\ k.rsrc.type[k.rsrc.owner[i]] = "RSRC_TEAM"
  <1>1. MemberSound(k, i)
    BY DEF MembersSound
  <1> QED BY <1>1, Zenon DEF MemberSound, AnyTeam, Is

(* An area in a space is one.                                              *)
LEMMA AreaIn ==
    ASSUME NEW k, MembersSound(k), NEW s \in Ids, NEW a \in k.mem.areas[s]
    PROVE  k.rsrc.type[a] = "RSRC_AREA" /\ k.rsrc.type[s] = "RSRC_ASPACE"
  BY DEF MembersSound, AreasInSpaces

(* A resource that stays with its owner while the teams stay.              *)
LEMMA MemberStays ==
    ASSUME NEW k, NEW q, MembersSound(k), NEW i \in Ids,
           q.rsrc.type[i] = k.rsrc.type[i], q.rsrc.owner[i] = k.rsrc.owner[i],
           \A n \in Ids : k.rsrc.type[n] = "RSRC_TEAM" =>
               q.rsrc.type[n] = "RSRC_TEAM" /\ q.team[n].aspace = k.team[n].aspace,
           i \in Mapped(k.mem) => i \in Mapped(q.mem)
    PROVE  MemberSound(q, i)
  <1>1. \A n : Is(k, n, "RSRC_TEAM") =>
            Is(q, n, "RSRC_TEAM") /\ q.team[n].aspace = k.team[n].aspace
    BY DEF Is
  <1>2. MemberSound(k, i)
    BY DEF MembersSound
  <1>3. q.rsrc.type[i] \in {"RSRC_TASK", "RSRC_SEM", "RSRC_ASPACE"}
          => Is(q, q.rsrc.owner[i], "RSRC_TEAM")
    BY <1>1, <1>2 DEF MemberSound
  <1>4. q.rsrc.type[i] = "RSRC_ASPACE" => q.team[q.rsrc.owner[i]].aspace = i
    BY <1>1, <1>2 DEF MemberSound
  <1>5. q.rsrc.type[i] = "RSRC_AREA" =>
            AnyTeam(q, q.rsrc.owner[i]) /\ i \in Mapped(q.mem)
    BY <1>1, <1>2 DEF MemberSound, AnyTeam
  <1> QED BY <1>3, <1>4, <1>5 DEF MemberSound

(* The space of a team is its own.                                         *)
LEMMA SpaceOfTeam ==
    ASSUME NEW k, TeamsSound(k), NEW m \in Ids, k.rsrc.type[m] = "RSRC_TEAM"
    PROVE  /\ k.team[m].aspace \in Ids /\ k.rsrc.type[k.team[m].aspace] = "RSRC_ASPACE"
           /\ k.rsrc.owner[k.team[m].aspace] = m
  <1>1. TeamSound(k, m)
    BY DEF TeamsSound
  <1> QED BY <1>1 DEF TeamSound, Is

(* The owners are kept, and so are the spaces of the teams.                *)
LEMMA MembersSame ==
    ASSUME NEW k, NEW q, MembersSound(k), q.rsrc = k.rsrc, q.mem.areas = k.mem.areas,
           \A n \in Ids : q.team[n].aspace = k.team[n].aspace
    PROVE  MembersSound(q)
  <1>1. Mapped(q.mem) = Mapped(k.mem)
    BY DEF Mapped
  <1>2. \A i \in Ids : MemberSound(q, i)
    BY <1>1, MemberStays
  <1>3. AreasInSpaces(q)
    BY Zenon DEF MembersSound, AreasInSpaces
  <1> QED BY <1>2, <1>3 DEF MembersSound

(* A team is sound when its record and the table are kept.                 *)
LEMMA TeamsSame ==
    ASSUME NEW k, NEW q, TeamsSound(k), q.rsrc = k.rsrc, q.team = k.team
    PROVE  TeamsSound(q)
  <1>1. \A i, kind : Is(q, i, kind) <=> Is(k, i, kind)
    BY Zenon DEF Is
  <1>2. \A n : TasksOf(q, n) = TasksOf(k, n)
    BY Zenon DEF TasksOf
  <1>3. ASSUME NEW n \in Ids
        PROVE  TeamSound(q, n)
    <2>1. TeamSound(k, n)
      BY DEF TeamsSound
    <2> QED BY <2>1, <1>1, <1>2, Zenon DEF TeamSound
  <1> QED BY <1>3 DEF TeamsSound

(* Teams, ports and counts that do not see a change.                       *)
LEMMA TeamsKept ==
    ASSUME NEW k, NEW q, NEW i \in Ids, NEW kind, NEW o, Named(k.rsrc, q.rsrc, i, kind, o),
           TeamsSound(k), q.team = k.team,
           k.rsrc.type[i] \notin {"RSRC_TEAM", "RSRC_ASPACE", "RSRC_TASK"},
           kind \notin {"RSRC_TEAM", "RSRC_ASPACE", "RSRC_TASK"}
    PROVE  TeamsSound(q)
  <1>1. ASSUME NEW m \in Ids
        PROVE  TeamSound(q, m)
    <2>1. TeamSound(k, m)
      BY DEF TeamsSound
    <2>2. /\ q.rsrc.type[i] = kind
          /\ \A j \in Ids \ {i} : /\ q.rsrc.type[j] = k.rsrc.type[j]
                                  /\ q.rsrc.owner[j] = k.rsrc.owner[j]
      BY DEF Named
    <2>3. CASE k.rsrc.type[m] = "RSRC_TEAM"
      <3>1. /\ m # i /\ k.team[m].aspace \in Ids /\ k.team[m].aspace # i
            /\ k.rsrc.owner[m] = KernelTeam /\ k.rsrc.owner[k.team[m].aspace] = m
            /\ k.rsrc.type[k.team[m].aspace] = "RSRC_ASPACE"
            /\ k.team[m].refcount = Cardinality(TasksOf(k, m))
        BY <2>1, <2>3 DEF TeamSound, Is
      <3>2. TasksOf(q, m) = TasksOf(k, m)
        BY <2>2 DEF TasksOf
      <3> QED BY <2>2, <2>3, <3>1, <3>2 DEF TeamSound, Is
    <2>4. CASE k.rsrc.type[m] # "RSRC_TEAM"
      <3>1. q.rsrc.type[m] # "RSRC_TEAM"
        BY <2>2, <2>4
      <3> QED BY <2>1, <2>4, <3>1 DEF TeamSound
    <2> QED BY <2>3, <2>4
  <1> QED BY <1>1 DEF TeamsSound

(* Ports do not see a change of something else.                            *)
LEMMA PortsKept ==
    ASSUME NEW k, NEW q, NEW i \in Ids, NEW kind, NEW o, Named(k.rsrc, q.rsrc, i, kind, o),
           PortsSound(k), q.port = k.port,
           k.rsrc.type[i] \notin {"RSRC_PORT", "RSRC_QUEUE", "RSRC_TEAM"},
           kind \notin {"RSRC_PORT", "RSRC_QUEUE"}
    PROVE  PortsSound(q)
  <1>1. /\ q.rsrc.type[i] = kind
        /\ \A j \in Ids \ {i} : /\ q.rsrc.type[j] = k.rsrc.type[j]
                                /\ q.rsrc.owner[j] = k.rsrc.owner[j]
    BY DEF Named
  <1>2. ASSUME NEW p \in Ids
        PROVE  PortSound(q, p)
    <2>1. PortSound(k, p)
      BY DEF PortsSound
    <2>2. CASE k.rsrc.type[p] = "RSRC_PORT"
      <3>1. p # i /\ Slaves(q, p) = Slaves(k, p)
        BY <2>2 DEF Slaves
      <3> QED BY <1>1, <2>1, <2>2, <3>1 DEF PortSound, Is
    <2>3. CASE k.rsrc.type[p] # "RSRC_PORT"
      <3>1. q.rsrc.type[p] # "RSRC_PORT"
        BY <1>1, <2>3
      <3> QED BY <2>1, <2>3, <3>1 DEF PortSound
    <2> QED BY <2>2, <2>3
  <1>3. \A p \in Ids : /\ q.rsrc.type[p] = "RSRC_PORT" <=> k.rsrc.type[p] = "RSRC_PORT"
                       /\ q.rsrc.type[p] = "RSRC_QUEUE" <=> k.rsrc.type[p] = "RSRC_QUEUE"
    BY <1>1
  <1> QED BY <1>2, <1>3 DEF PortsSound

(* Nor do the counts of spaces and threads.                                *)
LEMMA CountsKept ==
    ASSUME NEW k, NEW q, NEW i \in Ids, NEW kind, NEW o, Named(k.rsrc, q.rsrc, i, kind, o),
           CountsSound(k), ResizeWhole => KernelPages(q.mem) = KernelPages(k.mem),
           k.rsrc.type[i] \notin {"RSRC_ASPACE", "RSRC_TASK"},
           kind \notin {"RSRC_ASPACE", "RSRC_TASK"}
    PROVE  CountsSound(q)
  <1>1. /\ Having(q, "RSRC_ASPACE") = Having(k, "RSRC_ASPACE")
        /\ Having(q, "RSRC_TASK") = Having(k, "RSRC_TASK")
    BY DEF Named, Having
  <1> QED BY <1>1 DEF CountsSound

(* Nor do the members of teams, when the areas stay.                       *)
LEMMA MembersKept ==
    ASSUME NEW k, NEW q, NEW i \in Ids, NEW kind, NEW o, Named(k.rsrc, q.rsrc, i, kind, o),
           MembersSound(k), \A n \in Ids : q.team[n].aspace = k.team[n].aspace,
           q.mem.areas = k.mem.areas,
           k.mem.areas \in [Ids -> SUBSET Ids],
           k.rsrc.type[i] \in {RSRC_NONE, "RSRC_PORT", "RSRC_QUEUE", "RSRC_SEM", "RSRC_TASK"},
           \/ kind \in {RSRC_NONE, "RSRC_PORT", "RSRC_QUEUE"}
           \/ kind \in {"RSRC_SEM", "RSRC_TASK"} /\ Is(k, o, "RSRC_TEAM")
    PROVE  MembersSound(q)
  <1>1. /\ q.rsrc.type[i] = kind /\ q.rsrc.owner[i] = o
        /\ \A j \in Ids \ {i} : /\ q.rsrc.type[j] = k.rsrc.type[j]
                                /\ q.rsrc.owner[j] = k.rsrc.owner[j]
    BY DEF Named
  <1>2. /\ \A j \in Ids : k.rsrc.type[j] = "RSRC_TEAM" => q.rsrc.type[j] = "RSRC_TEAM"
        /\ k.rsrc.type[i] \notin {"RSRC_AREA", "RSRC_ASPACE"}
    BY <1>1 DEF RSRC_NONE
  <1>3. Mapped(q.mem) = Mapped(k.mem)
    BY DEF Mapped
  <1>4. MemberSound(q, i)
    <2>1. q.rsrc.type[i] \notin {"RSRC_AREA", "RSRC_ASPACE"}
      BY <1>1 DEF RSRC_NONE
    <2>2. q.rsrc.type[i] \in {"RSRC_TASK", "RSRC_SEM", "RSRC_ASPACE"} =>
              Is(k, o, "RSRC_TEAM")
      BY <1>1, <2>1 DEF RSRC_NONE
    <2> QED BY <2>1, <2>2, <1>1, <1>2 DEF MemberSound, Is
  <1>5. ASSUME NEW j \in Ids \ {i}
        PROVE  MemberSound(q, j)
    <2>1. q.rsrc.type[j] = k.rsrc.type[j] /\ q.rsrc.owner[j] = k.rsrc.owner[j]
      BY <1>1
    <2>2. \A n \in Ids : k.rsrc.type[n] = "RSRC_TEAM" =>
             q.rsrc.type[n] = "RSRC_TEAM" /\ q.team[n].aspace = k.team[n].aspace
      BY <1>2
    <2>3. j \in Mapped(k.mem) => j \in Mapped(q.mem)
      BY <1>3
    <2> QED BY <2>1, <2>2, <2>3, MemberStays
  <1>6. ASSUME NEW s \in Ids, NEW a \in q.mem.areas[s]
        PROVE  q.rsrc.type[a] = "RSRC_AREA" /\ q.rsrc.type[s] = "RSRC_ASPACE"
    <2>1. a \in Ids /\ k.rsrc.type[a] = "RSRC_AREA" /\ k.rsrc.type[s] = "RSRC_ASPACE"
      BY <1>6, AreaIn
    <2> QED BY <2>1, <1>1, <1>2
  <1> QED BY <1>4, <1>5, <1>6 DEF MembersSound, AreasInSpaces

-----------------------------------------------------------------------------
(* The operators on the tables, one change each.                           *)

Basic(k) == k \in TableStates /\ TableSound(k.rsrc) /\ MemSound(k.mem)

(* From k to q area a of space s has gone.                                 *)
AreaGone(k, q, s, a) ==
    /\ Basic(q) /\ Named(k.rsrc, q.rsrc, a, RSRC_NONE, NoTeam)
    /\ MemMoves(k.mem, q.mem, [k.mem.areas EXCEPT ![s] = @ \ {a}])
    /\ q.team = k.team /\ q.task = k.task /\ q.port = k.port

(* From k to q the space s has got the area a, which belongs to o.         *)
AreaMade(k, q, s, a, o) ==
    /\ Basic(q) /\ Named(k.rsrc, q.rsrc, a, "RSRC_AREA", o)
    /\ q.rsrc.rfree = k.rsrc.rfree \ {a}
    /\ MemMoves(k.mem, q.mem, [k.mem.areas EXCEPT ![s] = @ \cup {a}])
    /\ q.team = k.team /\ q.task = k.task /\ q.port = k.port

(* Setting the first two tables.                                           *)
With(k, q, R, M) ==
    /\ q \in TableStates /\ q.rsrc = R /\ q.mem = M
    /\ q.team = k.team /\ q.task = k.task /\ q.port = k.port

(* What an update of these two does.                                       *)
LEMMA SetTwo ==
    ASSUME NEW k, k \in TableStates, NEW R, R \in RsrcStates, NEW M, M \in MemStates,
           NEW q, q = [k EXCEPT !.rsrc = R, !.mem = M]
    PROVE  With(k, q, R, M)
  BY DEF TableStates, With

(* destroy_area() takes the area from its space and gives its identifier   *)
(* back.                                                                   *)
LEMMA AreaGoes ==
    ASSUME NEW k, Basic(k), NEW s \in Ids, NEW a \in k.mem.areas[s]
    PROVE  AreaGone(k, destroy_area(k, s, a), s, a)
  <1>1. /\ k \in TableStates /\ TableSound(k.rsrc) /\ MemSound(k.mem)
        /\ k.mem \in MemStates /\ a \in Ids
    BY DEF Basic, MemSound, GroupsSound, MemStates
  <1>2. PICK M : M = area_destroy(k.mem, s, a)
    OBVIOUS
  <1>3. MemMoves(k.mem, M, [k.mem.areas EXCEPT ![s] = @ \ {a}])
    BY <1>1, <1>2, AreaDestroySound
  <1>4. PICK R : R = rsrc_release(k.rsrc, a)
    OBVIOUS
  <1>5. TableSound(R) /\ Named(k.rsrc, R, a, RSRC_NONE, NoTeam)
    BY <1>1, <1>4, ReleaseSound
  <1>6. M \in MemStates /\ R \in RsrcStates /\ MemSound(M)
    BY <1>3, <1>5 DEF MemMoves, MemSound, GroupsSound, TableSound
  <1>7. PICK q : q = [k EXCEPT !.rsrc = R, !.mem = M]
    OBVIOUS
  <1>8. /\ q \in TableStates /\ q.rsrc = R /\ q.mem = M
        /\ q.team = k.team /\ q.task = k.task /\ q.port = k.port
    <2>1. With(k, q, R, M)
      BY <1>1, <1>6, <1>7, SetTwo
    <2> QED BY <2>1 DEF With
  <1>9. destroy_area(k, s, a) = q
    BY <1>1, <1>2, <1>4, <1>7 DEF destroy_area, TableStates
  <1>10. AreaGone(k, q, s, a)
    BY <1>3, <1>5, <1>6, <1>8 DEF AreaGone, Basic
  <1> QED BY <1>9, <1>10

(* new_area() puts an area with a new identifier into the space.           *)
LEMMA NewAreaIs ==
    ASSUME NEW k, Basic(k), NEW m \in Ids, NEW s \in Ids, s = k.team[m].aspace,
           k.rsrc.rfree # {}, NextId(k) \notin Mapped(k.mem), NEW o \in Owners,
           NEW size \in Nat, NEW virt, NEW phys \in {NoPage} \cup DevicePages,
           phys = NoPage => HasPages(k.mem, size),
           Cardinality({g \in Groups : k.mem.pgroup[g].refcount = 0}) >= 1,
           FindsSpan(k, m, size, virt)
    PROVE  /\ AreaMade(k, new_area(k, o, m, size, virt, phys), s, NextId(k), o)
           /\ NextId(k) \in Ids /\ k.rsrc.type[NextId(k)] = RSRC_NONE
  <1>1. /\ k \in TableStates /\ TableSound(k.rsrc) /\ MemSound(k.mem)
        /\ k.mem \in MemStates
    BY DEF Basic, MemSound, GroupsSound
  <1>2. PICK a \in Ids : a = NextId(k) /\ k.rsrc.type[a] = RSRC_NONE /\ a = NextIn(k.rsrc)
    BY <1>1, NextIsFree DEF NextId
  <1>3. PICK M : M = area_create(k.mem, s, a, size, virt, phys)
    OBVIOUS
  <1>4. MemMoves(k.mem, M, [k.mem.areas EXCEPT ![s] = @ \cup {a}])
    <2>1. locate_span(k.mem.table[s], virt, size) # 0 /\ a \notin Mapped(k.mem)
      BY <1>2 DEF FindsSpan
    <2> QED BY <2>1, <1>1, <1>3, AreaCreateSound
  <1>5. PICK R : R = rsrc_bind(k.rsrc, "RSRC_AREA", o)
    OBVIOUS
  <1>6. /\ TableSound(R) /\ Named(k.rsrc, R, a, "RSRC_AREA", o)
        /\ R.rfree = k.rsrc.rfree \ {a}
    <2>1. "RSRC_AREA" \in Kinds
      BY DEF Kinds
    <2> QED BY <2>1, <1>1, <1>2, <1>5, BindSound
  <1>7. M \in MemStates /\ R \in RsrcStates /\ MemSound(M)
    BY <1>4, <1>6 DEF MemMoves, MemSound, GroupsSound, TableSound
  <1>8. PICK q : q = [k EXCEPT !.rsrc = R, !.mem = M]
    OBVIOUS
  <1>9. /\ q \in TableStates /\ q.rsrc = R /\ q.mem = M
        /\ q.team = k.team /\ q.task = k.task /\ q.port = k.port
    <2>1. With(k, q, R, M)
      BY <1>1, <1>7, <1>8, SetTwo
    <2> QED BY <2>1 DEF With
  <1>10. new_area(k, o, m, size, virt, phys) = q
    BY <1>1, <1>2, <1>3, <1>5, <1>8 DEF new_area, Bound, TableStates
  <1>11. AreaMade(k, q, s, a, o)
    BY <1>4, <1>6, <1>7, <1>9 DEF AreaMade, Basic
  <1> QED BY <1>2, <1>10, <1>11

(* new_clone() does the same, or nothing.                                  *)
LEMMA NewCloneIs ==
    ASSUME NEW k, Basic(k), NEW m \in Ids, NEW s \in Ids, s = k.team[m].aspace,
           k.rsrc.rfree # {}, NextId(k) \notin Mapped(k.mem),
           NEW a0 \in Mapped(k.mem), NEW virt
    PROVE  \/ new_clone(k, m, a0, virt) = k
           \/ /\ AreaMade(k, new_clone(k, m, a0, virt), s, NextId(k), m)
              /\ NextId(k) \in Ids /\ k.rsrc.type[NextId(k)] = RSRC_NONE
  <1>1. /\ k \in TableStates /\ TableSound(k.rsrc) /\ MemSound(k.mem)
        /\ k.mem \in MemStates
    BY DEF Basic, MemSound, GroupsSound
  <1>2. PICK a \in Ids : a = NextId(k) /\ k.rsrc.type[a] = RSRC_NONE /\ a = NextIn(k.rsrc)
    BY <1>1, NextIsFree DEF NextId
  <1>3. CASE ~FindsSpan(k, m, k.mem.area[a0].length, virt)
    BY <1>3 DEF new_clone
  <1>4. CASE FindsSpan(k, m, k.mem.area[a0].length, virt)
    <2>1. PICK M : M = area_clone(k.mem, s, a0, a, virt)
      OBVIOUS
    <2>2. MemMoves(k.mem, M, [k.mem.areas EXCEPT ![s] = @ \cup {a}])
      <3>1. /\ locate_span(k.mem.table[s], virt, k.mem.area[a0].length) # 0
            /\ a \notin Mapped(k.mem)
        BY <1>2, <1>4 DEF FindsSpan
      <3> QED BY <3>1, <1>1, <2>1, AreaCloneSound
    <2>3. PICK R : R = rsrc_bind(k.rsrc, "RSRC_AREA", m)
      OBVIOUS
    <2>4. /\ TableSound(R) /\ Named(k.rsrc, R, a, "RSRC_AREA", m)
          /\ R.rfree = k.rsrc.rfree \ {a}
      <3>1. "RSRC_AREA" \in Kinds /\ m \in Owners \ {NoTeam}
        BY Names DEF Kinds
      <3> QED BY <3>1, <1>1, <1>2, <2>3, BindSound
    <2>5. M \in MemStates /\ R \in RsrcStates /\ MemSound(M)
      BY <2>2, <2>4 DEF MemMoves, MemSound, GroupsSound, TableSound
    <2>6. PICK q : q = [k EXCEPT !.rsrc = R, !.mem = M]
      OBVIOUS
    <2>7. /\ q \in TableStates /\ q.rsrc = R /\ q.mem = M
          /\ q.team = k.team /\ q.task = k.task /\ q.port = k.port
      <3>1. With(k, q, R, M)
        BY <1>1, <2>5, <2>6, SetTwo
      <3> QED BY <3>1 DEF With
    <2>8. new_clone(k, m, a0, virt) = q
      BY <1>1, <1>2, <1>4, <2>1, <2>3, <2>6 DEF new_clone, Bound, TableStates
    <2>9. AreaMade(k, q, s, a, m)
      BY <2>2, <2>4, <2>5, <2>7 DEF AreaMade, Basic
    <2> QED BY <1>2, <2>8, <2>9
  <1> QED BY <1>3, <1>4

(* An area that is made, or goes, leaves the tables sound.                 *)
LEMMA AreaMadeSound ==
    ASSUME NEW k, Sound(k), NEW m \in Ids, k.rsrc.type[m] = "RSRC_TEAM",
           NEW a \in Ids, k.rsrc.type[a] = RSRC_NONE,
           NEW o, AnyTeam(k, o), NEW q, AreaMade(k, q, k.team[m].aspace, a, o)
    PROVE  Sound(q)
  <1>1. PICK s \in Ids : /\ s = k.team[m].aspace /\ k.rsrc.type[s] = "RSRC_ASPACE"
    BY DEF Sound, TeamsSound, TeamSound, Is
  <1>2. /\ Named(k.rsrc, q.rsrc, a, "RSRC_AREA", o)
        /\ q.team = k.team /\ q.port = k.port
        /\ ResizeWhole => KernelPages(q.mem) = KernelPages(k.mem)
        /\ q.mem.areas = [k.mem.areas EXCEPT ![s] = @ \cup {a}]
        /\ Basic(q)
    BY <1>1 DEF AreaMade, MemMoves
  <1>3. /\ TeamsSound(k) /\ PortsSound(k) /\ CountsSound(k) /\ MembersSound(k)
        /\ k.mem.areas \in [Ids -> SUBSET Ids]
    BY DEF Sound, TableStates, MemStates
  <1>4. RSRC_NONE \notin {"RSRC_PORT", "RSRC_QUEUE", "RSRC_TEAM", "RSRC_ASPACE", "RSRC_TASK",
                          "RSRC_SEM", "RSRC_AREA"}
    BY DEF RSRC_NONE
  <1>9. /\ k.rsrc.type[a] \notin {"RSRC_TEAM", "RSRC_ASPACE", "RSRC_TASK"}
        /\ k.rsrc.type[a] \notin {"RSRC_PORT", "RSRC_QUEUE", "RSRC_TEAM"}
        /\ k.rsrc.type[a] \notin {"RSRC_ASPACE", "RSRC_TASK"}
        /\ "RSRC_AREA" \notin {"RSRC_TEAM", "RSRC_ASPACE", "RSRC_TASK"}
        /\ "RSRC_AREA" \notin {"RSRC_PORT", "RSRC_QUEUE"}
        /\ "RSRC_AREA" \notin {"RSRC_ASPACE", "RSRC_TASK"}
    BY DEF RSRC_NONE
  <1>5. TeamsSound(q)
    BY <1>2, <1>3, <1>9, TeamsKept
  <1>6. PortsSound(q)
    BY <1>2, <1>3, <1>9, PortsKept
  <1>7. CountsSound(q)
    BY <1>2, <1>3, <1>9, CountsKept
  <1>8. MembersSound(q)
    <2>1. /\ q.rsrc.type[a] = "RSRC_AREA" /\ q.rsrc.owner[a] = o
          /\ \A j \in Ids \ {a} : /\ q.rsrc.type[j] = k.rsrc.type[j]
                                  /\ q.rsrc.owner[j] = k.rsrc.owner[j]
          /\ \A x \in Ids \ {s} : q.mem.areas[x] = k.mem.areas[x]
          /\ q.mem.areas[s] = k.mem.areas[s] \cup {a}
          /\ s # a
      BY <1>1, <1>2, <1>3, <1>4 DEF Named
    <2>2. /\ \A n \in Ids : k.rsrc.type[n] = "RSRC_TEAM" => q.rsrc.type[n] = "RSRC_TEAM"
          /\ \A n \in Ids : q.team[n].aspace = k.team[n].aspace
      BY <2>1, <1>2, <1>4
    <2>3. /\ \A i \in Mapped(k.mem) : i \in Mapped(q.mem)
          /\ a \in Mapped(q.mem)
      BY <2>1 DEF Mapped
    <2>4. MemberSound(q, a)
      BY <2>1, <2>2, <2>3 DEF MemberSound, AnyTeam, Is
    <2>5. ASSUME NEW i \in Ids \ {a}
          PROVE  MemberSound(q, i)
      BY <2>1, <2>2, <2>3, <1>3, MemberStays
    <2>6. ASSUME NEW x \in Ids, NEW b \in q.mem.areas[x]
          PROVE  q.rsrc.type[b] = "RSRC_AREA" /\ q.rsrc.type[x] = "RSRC_ASPACE"
      <3>1. CASE b = a
        <4>1. a \notin k.mem.areas[x]
          BY <1>3, <1>4, AreaIn
        <4>2. x = s
          BY <4>1, <3>1, <2>1, <2>6
        <4> QED BY <4>2, <3>1, <2>1, <1>1
      <3>2. CASE b # a
        <4>1. b \in k.mem.areas[x] /\ b \in Ids
          BY <3>2, <2>1, <2>6, <1>3
        <4>2. k.rsrc.type[b] = "RSRC_AREA" /\ k.rsrc.type[x] = "RSRC_ASPACE"
          BY <4>1, <1>3, AreaIn
        <4>3. x # a
          BY <4>2, <1>4
        <4> QED BY <4>1, <4>2, <4>3, <3>2, <2>1
      <3> QED BY <3>1, <3>2
    <2> QED BY <2>4, <2>5, <2>6 DEF MembersSound, AreasInSpaces
  <1> QED BY <1>2, <1>5, <1>6, <1>7, <1>8 DEF Sound, Basic

(* The tables without an area.                                             *)
LEMMA AreaGoneSound ==
    ASSUME NEW k, Sound(k), NEW s \in Ids, NEW a \in k.mem.areas[s],
           NEW q, AreaGone(k, q, s, a)
    PROVE  Sound(q)
  <1>1. k.rsrc.type[s] = "RSRC_ASPACE" /\ k.rsrc.type[a] = "RSRC_AREA" /\ a \in Ids
    BY AreaIn DEF Sound, TableStates, MemStates
  <1>2. /\ Named(k.rsrc, q.rsrc, a, RSRC_NONE, NoTeam)
        /\ q.team = k.team /\ q.port = k.port
        /\ ResizeWhole => KernelPages(q.mem) = KernelPages(k.mem)
        /\ q.mem.areas = [k.mem.areas EXCEPT ![s] = @ \ {a}]
        /\ Basic(q)
    BY DEF AreaGone, MemMoves
  <1>3. /\ TeamsSound(k) /\ PortsSound(k) /\ CountsSound(k) /\ MembersSound(k)
        /\ k.mem.areas \in [Ids -> SUBSET Ids] /\ GroupsSound(k.mem)
    BY DEF Sound, TableStates, MemStates, MemSound
  <1>4. RSRC_NONE \notin {"RSRC_PORT", "RSRC_QUEUE", "RSRC_TEAM", "RSRC_ASPACE", "RSRC_TASK",
                          "RSRC_SEM", "RSRC_AREA"}
    BY DEF RSRC_NONE
  <1>9. /\ k.rsrc.type[a] \notin {"RSRC_TEAM", "RSRC_ASPACE", "RSRC_TASK"}
        /\ k.rsrc.type[a] \notin {"RSRC_PORT", "RSRC_QUEUE", "RSRC_TEAM"}
        /\ k.rsrc.type[a] \notin {"RSRC_ASPACE", "RSRC_TASK"}
        /\ RSRC_NONE \notin {"RSRC_TEAM", "RSRC_ASPACE", "RSRC_TASK"}
        /\ RSRC_NONE \notin {"RSRC_PORT", "RSRC_QUEUE"}
        /\ RSRC_NONE \notin {"RSRC_ASPACE", "RSRC_TASK"}
    BY <1>1 DEF RSRC_NONE
  <1>5. TeamsSound(q)
    BY <1>1, <1>2, <1>3, <1>9, TeamsKept
  <1>6. PortsSound(q)
    BY <1>1, <1>2, <1>3, <1>9, PortsKept
  <1>7. CountsSound(q)
    BY <1>1, <1>2, <1>3, <1>9, CountsKept
  <1>8. MembersSound(q)
    <2>1. /\ q.rsrc.type[a] = RSRC_NONE
          /\ \A j \in Ids \ {a} : /\ q.rsrc.type[j] = k.rsrc.type[j]
                                  /\ q.rsrc.owner[j] = k.rsrc.owner[j]
          /\ \A x \in Ids : \A b : b \in q.mem.areas[x] <=> b \in k.mem.areas[x] /\ b # a
      <3>1. \A x \in Ids : a \in k.mem.areas[x] => x = s
        BY <1>3 DEF GroupsSound
      <3> QED BY <3>1, <1>1, <1>2, <1>3 DEF Named
    <2>2. /\ \A n \in Ids : k.rsrc.type[n] = "RSRC_TEAM" => q.rsrc.type[n] = "RSRC_TEAM"
          /\ \A n \in Ids : q.team[n].aspace = k.team[n].aspace
      BY <2>1, <1>1, <1>2
    <2>3. \A i \in Ids \ {a} : i \in Mapped(k.mem) => i \in Mapped(q.mem)
      BY <2>1 DEF Mapped
    <2>4. MemberSound(q, a)
      BY <2>1, <1>4 DEF MemberSound
    <2>5. ASSUME NEW i \in Ids \ {a}
          PROVE  MemberSound(q, i)
      BY <2>1, <2>2, <2>3, <1>3, MemberStays
    <2>6. ASSUME NEW x \in Ids, NEW b \in q.mem.areas[x]
          PROVE  q.rsrc.type[b] = "RSRC_AREA" /\ q.rsrc.type[x] = "RSRC_ASPACE"
      <3>1. b \in k.mem.areas[x] /\ b # a /\ b \in Ids
        BY <2>1, <2>6, <1>3
      <3>2. k.rsrc.type[b] = "RSRC_AREA" /\ k.rsrc.type[x] = "RSRC_ASPACE"
        BY <3>1, <1>3, AreaIn
      <3>3. x # a
        BY <3>2, <1>1
      <3> QED BY <3>1, <3>2, <3>3, <2>1
    <2> QED BY <2>4, <2>5, <2>6 DEF MembersSound, AreasInSpaces
  <1> QED BY <1>2, <1>5, <1>6, <1>7, <1>8 DEF Sound, Basic

-----------------------------------------------------------------------------
(* The other operations, one change each.                                  *)

(* The fields of a state of the tables.                                    *)
LEMMA FieldsOf ==
    ASSUME NEW R \in RsrcStates, NEW M \in MemStates, NEW T \in [Ids -> TeamRecs],
           NEW S \in [Ids -> Ids \cup {NoArea}], NEW P \in [Ids -> PortRecs]
    PROVE  [rsrc |-> R, mem |-> M, team |-> T, task |-> S, port |-> P] \in TableStates
  BY DEF TableStates

(* task_create(): task.c.                                                  *)
LEMMA TaskMadeSound ==
    ASSUME NEW k, Sound(k), NEW m \in Ids, k.rsrc.type[m] = "RSRC_TEAM",
           k.rsrc.rfree # {}, NEW stack \in Ids \cup {NoArea}
    PROVE  /\ Sound(task_create(k, m, stack))
           /\ task_create(k, m, stack).rsrc.rfree = k.rsrc.rfree \ {NextId(k)}
           /\ Named(k.rsrc, task_create(k, m, stack).rsrc, NextId(k), "RSRC_TASK", m)
           /\ task_create(k, m, stack).mem.areas = k.mem.areas
  <1>1. /\ k \in TableStates /\ TableSound(k.rsrc) /\ MemSound(k.mem)
        /\ TeamsSound(k) /\ MembersSound(k) /\ PortsSound(k) /\ CountsSound(k)
        /\ k.mem.areas \in [Ids -> SUBSET Ids]
    BY DEF Sound, TableStates, MemStates
  <1>2. PICK i \in Ids : i = NextId(k) /\ k.rsrc.type[i] = RSRC_NONE /\ i = NextIn(k.rsrc)
    BY <1>1, NextIsFree DEF NextId
  <1>3. PICK R : R = rsrc_bind(k.rsrc, "RSRC_TASK", m)
    OBVIOUS
  <1>4. /\ TableSound(R) /\ Named(k.rsrc, R, i, "RSRC_TASK", m)
        /\ R.rfree = k.rsrc.rfree \ {i}
    <2>1. "RSRC_TASK" \in Kinds /\ m \in Owners \ {NoTeam}
      BY Names DEF Kinds
    <2> QED BY <2>1, <1>1, <1>2, <1>3, BindSound
  <1>5. PICK M : M = kgetpages(k.mem, 1)
    OBVIOUS
  <1>6. MemSound(M) /\ M.areas = k.mem.areas /\ KernelPages(M) = KernelPages(k.mem) + 1
    <2>1. Counts(k.mem, M, 1)
      BY <1>1, <1>5, KernelPagesSound
    <2> QED BY <2>1 DEF Counts
  <1>7. M \in MemStates /\ R \in RsrcStates
    BY <1>4, <1>6 DEF MemSound, GroupsSound, TableSound
  <1>8. PICK T : T = [k.team EXCEPT ![m].refcount = @ + 1]
    OBVIOUS
  <1>9. /\ T \in [Ids -> TeamRecs] /\ T[m].refcount = k.team[m].refcount + 1
        /\ T[m].aspace = k.team[m].aspace
        /\ \A n \in Ids \ {m} : T[n] = k.team[n]
    BY <1>1, <1>8 DEF TableStates, TeamRecs
  <1>10. PICK q : q = task_create(k, m, stack)
    OBVIOUS
  <1>11. q = [rsrc |-> R, mem |-> M, team |-> T, task |-> [k.task EXCEPT ![i] = stack],
              port |-> k.port]
    BY <1>1, <1>2, <1>3, <1>5, <1>8, <1>10 DEF task_create, Bound, TableStates
  <1>12. q \in TableStates
    <2>1. [k.task EXCEPT ![i] = stack] \in [Ids -> Ids \cup {NoArea}]
          /\ k.port \in [Ids -> PortRecs]
      BY <1>1 DEF TableStates
    <2> QED BY <2>1, <1>7, <1>9, <1>11, FieldsOf
  <1>13. /\ q.rsrc = R /\ q.mem = M /\ q.team = T /\ q.port = k.port
         /\ \A n \in Ids : q.team[n].aspace = k.team[n].aspace
    BY <1>9, <1>11
  <1>14. /\ R.type[i] = "RSRC_TASK" /\ R.owner[i] = m /\ m # i
         /\ \A j \in Ids \ {i} : R.type[j] = k.rsrc.type[j] /\ R.owner[j] = k.rsrc.owner[j]
    BY <1>2, <1>4 DEF Named, RSRC_NONE
  <1>15. TeamsSound(q)
    <2>1. ASSUME NEW n \in Ids
          PROVE  TeamSound(q, n)
      <3>1. TeamSound(k, n)
        BY <1>1 DEF TeamsSound
      <3>2. CASE k.rsrc.type[n] = "RSRC_TEAM"
        <4>1. /\ n # i /\ k.team[n].aspace \in Ids /\ k.team[n].aspace # i
              /\ k.rsrc.owner[n] = KernelTeam /\ k.rsrc.owner[k.team[n].aspace] = n
              /\ k.rsrc.type[k.team[n].aspace] = "RSRC_ASPACE"
              /\ k.team[n].refcount = Cardinality(TasksOf(k, n))
          BY <3>1, <3>2, <1>2 DEF TeamSound, Is, RSRC_NONE
        <4>2. q.team[n].refcount = Cardinality(TasksOf(q, n))
          <5>1. CASE n = m
            <6>1. TasksOf(q, m) = TasksOf(k, m) \cup {i} /\ i \notin TasksOf(k, m)
              BY <1>2, <1>13, <1>14 DEF TasksOf, RSRC_NONE
            <6>2. IsFiniteSet(TasksOf(k, m))
              BY Names, FS_Subset DEF TasksOf
            <6> QED BY <6>1, <6>2, <5>1, <4>1, <1>9, <1>13, FS_AddElement
          <5>2. CASE n # m
            <6>1. TasksOf(q, n) = TasksOf(k, n)
              BY <5>2, <1>2, <1>13, <1>14 DEF TasksOf, RSRC_NONE
            <6> QED BY <6>1, <5>2, <4>1, <1>9, <1>13
          <5> QED BY <5>1, <5>2
        <4> QED BY <4>1, <4>2, <3>2, <1>13, <1>14 DEF TeamSound, Is
      <3>3. CASE k.rsrc.type[n] # "RSRC_TEAM"
        <4>1. q.rsrc.type[n] # "RSRC_TEAM" /\ n # m
          BY <3>3, <1>13, <1>14
        <4> QED BY <4>1, <3>1, <3>3, <1>9, <1>13 DEF TeamSound
      <3> QED BY <3>2, <3>3
    <2> QED BY <2>1 DEF TeamsSound
  <1>16. PortsSound(q)
    <2>1. /\ k.rsrc.type[i] \notin {"RSRC_PORT", "RSRC_QUEUE", "RSRC_TEAM"}
          /\ "RSRC_TASK" \notin {"RSRC_PORT", "RSRC_QUEUE"}
      BY <1>2 DEF RSRC_NONE
    <2> QED BY <2>1, <1>1, <1>4, <1>13, PortsKept
  <1>17. MembersSound(q)
    <2>1. /\ k.rsrc.type[i] \in {RSRC_NONE, "RSRC_PORT", "RSRC_QUEUE", "RSRC_SEM", "RSRC_TASK"}
          /\ "RSRC_TASK" \in {"RSRC_SEM", "RSRC_TASK"} /\ Is(k, m, "RSRC_TEAM")
          /\ q.mem.areas = k.mem.areas
      BY <1>2, <1>6, <1>13 DEF Is
    <2> QED BY <2>1, <1>1, <1>4, <1>13, MembersKept
  <1>18. CountsSound(q)
    <2>1. /\ Having(q, "RSRC_ASPACE") = Having(k, "RSRC_ASPACE")
          /\ Having(q, "RSRC_TASK") = Having(k, "RSRC_TASK") \cup {i}
          /\ i \notin Having(k, "RSRC_TASK")
      BY <1>2, <1>13, <1>14 DEF Having, RSRC_NONE
    <2>2. /\ IsFiniteSet(Having(k, "RSRC_TASK")) /\ IsFiniteSet(Having(k, "RSRC_ASPACE"))
          /\ Cardinality(Having(k, "RSRC_TASK")) \in Nat
          /\ Cardinality(Having(k, "RSRC_ASPACE")) \in Nat
      BY Names, FS_Subset, FS_CardinalityType DEF Having
    <2>3. Cardinality(Having(q, "RSRC_TASK")) = Cardinality(Having(k, "RSRC_TASK")) + 1
      BY <2>1, <2>2, FS_AddElement
    <2> QED BY <2>1, <2>2, <2>3, <1>1, <1>6, <1>13 DEF CountsSound
  <1>19. Sound(q)
    BY <1>4, <1>6, <1>12, <1>13, <1>15, <1>16, <1>17, <1>18 DEF Sound
  <1> QED BY <1>2, <1>4, <1>6, <1>10, <1>13, <1>19

(* What is free is no area, and what is an area is mapped.                 *)
LEMMA AreasAreMapped ==
    ASSUME NEW k, Sound(k), NEW i \in Ids
    PROVE  /\ k.rsrc.type[i] = RSRC_NONE => i \notin Mapped(k.mem)
           /\ k.rsrc.type[i] = "RSRC_AREA" => i \in Mapped(k.mem)
  <1>1. MembersSound(k)
    BY DEF Sound
  <1>2. i \in Mapped(k.mem) => k.rsrc.type[i] = "RSRC_AREA"
    BY <1>1, AreaIn DEF Mapped
  <1> QED BY <1>1, <1>2, MemberOf DEF RSRC_NONE

(* Free identifiers that are left when one is taken.                       *)
LEMMA FreeIds ==
    ASSUME NEW r, TableSound(r), NEW n \in Nat, Cardinality(r.rfree) >= n + 1
    PROVE  /\ r.rfree # {} /\ NextIn(r) \in Ids /\ r.type[NextIn(r)] = RSRC_NONE
           /\ Cardinality(r.rfree \ {NextIn(r)}) >= n
  <1>1. IsFiniteSet(r.rfree) /\ Cardinality(r.rfree) \in Nat
    BY Names, FS_Subset, FS_CardinalityType DEF TableSound, RsrcStates
  <1>2. r.rfree # {}
    BY <1>1, FS_EmptySet
  <1>3. /\ NextIn(r) \in r.rfree /\ NextIn(r) \in Ids /\ r.type[NextIn(r)] = RSRC_NONE
    BY <1>2, NextIsFree
  <1>4. Cardinality(r.rfree \ {NextIn(r)}) = Cardinality(r.rfree) - 1
    BY <1>1, <1>3, FS_RemoveElement
  <1> QED BY <1>1, <1>2, <1>3, <1>4

(* A change of memory that leaves the areas in their spaces.               *)
LEMMA MemKept ==
    ASSUME NEW k, Sound(k), NEW M, MemMoves(k.mem, M, k.mem.areas),
           NEW q, q \in TableStates, q.rsrc = k.rsrc, q.mem = M, q.team = k.team,
           q.port = k.port
    PROVE  Sound(q)
  <1>1. /\ TableSound(k.rsrc) /\ TeamsSound(k) /\ MembersSound(k) /\ PortsSound(k)
        /\ CountsSound(k) /\ M.areas = k.mem.areas /\ MemSound(M)
        /\ ResizeWhole => KernelPages(M) = KernelPages(k.mem)
    BY DEF Sound, MemMoves
  <1>2. TeamsSound(q)
    BY <1>1 DEF TeamsSound, TeamSound, TasksOf, Is
  <1>3. MembersSound(q)
    BY <1>1, MembersSame
  <1>4. PortsSound(q)
    <2>1. ASSUME NEW p \in Ids
          PROVE  PortSound(q, p)
      <3>1. PortSound(k, p) /\ Slaves(q, p) = Slaves(k, p)
        BY <1>1 DEF PortsSound, Slaves
      <3> QED BY <3>1, <1>1 DEF PortSound, Is
    <2> QED BY <2>1, <1>1 DEF PortsSound
  <1>5. CountsSound(q)
    BY <1>1 DEF CountsSound, Having
  <1> QED BY <1>1, <1>2, <1>3, <1>4, <1>5 DEF Sound

(* sem_create() and sem_destroy(): sem.c.                                  *)
LEMMA SemMadeSound ==
    ASSUME NEW k, Sound(k), NEW m \in Ids, k.rsrc.type[m] = "RSRC_TEAM",
           k.rsrc.rfree # {}, NEW q, q = [k EXCEPT !.rsrc = rsrc_bind(@, "RSRC_SEM", m)]
    PROVE  Sound(q)
  <1>1. /\ k \in TableStates /\ TableSound(k.rsrc) /\ MemSound(k.mem)
        /\ TeamsSound(k) /\ MembersSound(k) /\ PortsSound(k) /\ CountsSound(k)
        /\ k.mem.areas \in [Ids -> SUBSET Ids]
    BY DEF Sound, TableStates, MemStates
  <1>2. PICK i \in Ids : k.rsrc.type[i] = RSRC_NONE /\ i = NextIn(k.rsrc)
    BY <1>1, NextIsFree
  <1>3. PICK R : R = rsrc_bind(k.rsrc, "RSRC_SEM", m)
    OBVIOUS
  <1>4. TableSound(R) /\ Named(k.rsrc, R, i, "RSRC_SEM", m)
    <2>1. "RSRC_SEM" \in Kinds /\ m \in Owners \ {NoTeam}
      BY Names DEF Kinds
    <2> QED BY <2>1, <1>1, <1>2, <1>3, BindSound
  <1>5. /\ q \in TableStates /\ q.rsrc = R /\ q.mem = k.mem /\ q.team = k.team
        /\ q.port = k.port
    BY <1>1, <1>3, <1>4 DEF TableStates, TableSound
  <1>6. /\ k.rsrc.type[i] \notin {"RSRC_TEAM", "RSRC_ASPACE", "RSRC_TASK"}
        /\ k.rsrc.type[i] \notin {"RSRC_PORT", "RSRC_QUEUE", "RSRC_TEAM"}
        /\ k.rsrc.type[i] \notin {"RSRC_ASPACE", "RSRC_TASK"}
        /\ k.rsrc.type[i] \in {RSRC_NONE, "RSRC_PORT", "RSRC_QUEUE", "RSRC_SEM", "RSRC_TASK"}
        /\ "RSRC_SEM" \notin {"RSRC_TEAM", "RSRC_ASPACE", "RSRC_TASK"}
        /\ "RSRC_SEM" \notin {"RSRC_PORT", "RSRC_QUEUE"}
        /\ "RSRC_SEM" \notin {"RSRC_ASPACE", "RSRC_TASK"}
        /\ "RSRC_SEM" \in {"RSRC_SEM", "RSRC_TASK"} /\ Is(k, m, "RSRC_TEAM")
    BY <1>2 DEF RSRC_NONE, Is
  <1>7. TeamsSound(q)
    BY <1>1, <1>4, <1>5, <1>6, TeamsKept
  <1>8. PortsSound(q)
    BY <1>1, <1>4, <1>5, <1>6, PortsKept
  <1>9. CountsSound(q)
    BY <1>1, <1>4, <1>5, <1>6, CountsKept
  <1>10. MembersSound(q)
    BY <1>1, <1>4, <1>5, <1>6, MembersKept
  <1> QED BY <1>1, <1>4, <1>5, <1>7, <1>8, <1>9, <1>10 DEF Sound

(* sem_destroy(): a semaphore is given back.                               *)
LEMMA SemGoneSound ==
    ASSUME NEW k, Sound(k), NEW i \in Ids, k.rsrc.type[i] = "RSRC_SEM"
    PROVE  Sound(sem_destroy(k, i))
  <1>1. /\ k \in TableStates /\ TableSound(k.rsrc) /\ MemSound(k.mem)
        /\ TeamsSound(k) /\ MembersSound(k) /\ PortsSound(k) /\ CountsSound(k)
        /\ k.mem.areas \in [Ids -> SUBSET Ids]
    BY DEF Sound, TableStates, MemStates
  <1>2. PICK R : R = rsrc_release(k.rsrc, i)
    OBVIOUS
  <1>3. TableSound(R) /\ Named(k.rsrc, R, i, RSRC_NONE, NoTeam)
    BY <1>1, <1>2, ReleaseSound
  <1>4. PICK q : q = sem_destroy(k, i)
    OBVIOUS
  <1>5. /\ q \in TableStates /\ q.rsrc = R /\ q.mem = k.mem /\ q.team = k.team
        /\ q.port = k.port
    BY <1>1, <1>2, <1>3, <1>4 DEF TableStates, TableSound, sem_destroy
  <1>6. /\ k.rsrc.type[i] \notin {"RSRC_TEAM", "RSRC_ASPACE", "RSRC_TASK"}
        /\ k.rsrc.type[i] \notin {"RSRC_PORT", "RSRC_QUEUE", "RSRC_TEAM"}
        /\ k.rsrc.type[i] \notin {"RSRC_ASPACE", "RSRC_TASK"}
        /\ k.rsrc.type[i] \in {RSRC_NONE, "RSRC_PORT", "RSRC_QUEUE", "RSRC_SEM", "RSRC_TASK"}
        /\ RSRC_NONE \notin {"RSRC_TEAM", "RSRC_ASPACE", "RSRC_TASK"}
        /\ RSRC_NONE \notin {"RSRC_PORT", "RSRC_QUEUE"}
        /\ RSRC_NONE \notin {"RSRC_ASPACE", "RSRC_TASK"}
        /\ RSRC_NONE \in {RSRC_NONE, "RSRC_PORT", "RSRC_QUEUE"}
    BY DEF RSRC_NONE
  <1>7. TeamsSound(q)
    BY <1>1, <1>3, <1>5, <1>6, TeamsKept
  <1>8. PortsSound(q)
    BY <1>1, <1>3, <1>5, <1>6, PortsKept
  <1>9. CountsSound(q)
    BY <1>1, <1>3, <1>5, <1>6, CountsKept
  <1>10. MembersSound(q)
    BY <1>1, <1>3, <1>5, <1>6, MembersKept
  <1> QED BY <1>1, <1>3, <1>4, <1>5, <1>7, <1>8, <1>9, <1>10 DEF Sound

(* port_create(): port.c.                                                  *)
LEMMA PortMadeSound ==
    ASSUME NEW k, Sound(k), NEW m \in Ids, k.rsrc.type[m] = "RSRC_TEAM",
           Cardinality(k.rsrc.rfree) >= 2,
           NEW B, B = rsrc_bind(k.rsrc, "RSRC_PORT", m),
           NEW q, q.rsrc = rsrc_bind(B, "RSRC_QUEUE", m),
           q.port = [k.port EXCEPT ![NextIn(k.rsrc)] =
                        [slaved |-> 0, refcount |-> 1, sendqueue |-> NextIn(B)]],
           q = [rsrc |-> q.rsrc, mem |-> k.mem, team |-> k.team, task |-> k.task,
                port |-> q.port]
    PROVE  Sound(q)
  <1>1. /\ k \in TableStates /\ TableSound(k.rsrc) /\ MemSound(k.mem)
        /\ TeamsSound(k) /\ MembersSound(k) /\ PortsSound(k) /\ CountsSound(k)
        /\ k.mem.areas \in [Ids -> SUBSET Ids] /\ k.mem \in MemStates
        /\ k.team \in [Ids -> TeamRecs] /\ k.task \in [Ids -> Ids \cup {NoArea}]
        /\ k.port \in [Ids -> PortRecs]
    BY DEF Sound, TableStates, MemStates
  <1>2. PICK p \in Ids : /\ k.rsrc.type[p] = RSRC_NONE /\ p = NextIn(k.rsrc)
                         /\ k.rsrc.rfree # {} /\ Cardinality(k.rsrc.rfree \ {p}) >= 1
    <2>1. Cardinality(k.rsrc.rfree) >= 1 + 1 /\ 1 \in Nat
      OBVIOUS
    <2> QED BY <2>1, <1>1, FreeIds
  <1>3. /\ TableSound(B) /\ Named(k.rsrc, B, p, "RSRC_PORT", m) /\ B.rfree = k.rsrc.rfree \ {p}
    <2>1. "RSRC_PORT" \in Kinds /\ m \in Owners \ {NoTeam}
      BY Names DEF Kinds
    <2> QED BY <2>1, <1>1, <1>2, BindSound
  <1>4. PICK u \in Ids : B.type[u] = RSRC_NONE /\ u = NextIn(B) /\ B.rfree # {}
    <2>1. Cardinality(B.rfree) >= 0 + 1
      BY SMTT(60), <1>2, <1>3
    <2> QED BY <2>1, <1>3, FreeIds
  <1>5. TableSound(q.rsrc) /\ Named(B, q.rsrc, u, "RSRC_QUEUE", m)
    <2>1. "RSRC_QUEUE" \in Kinds /\ m \in Owners \ {NoTeam}
      BY Names DEF Kinds
    <2> QED BY <2>1, <1>3, <1>4, BindSound
  <1>6. /\ p # u /\ k.rsrc.type[u] = RSRC_NONE
        /\ q.rsrc.type[p] = "RSRC_PORT" /\ q.rsrc.owner[p] = m
        /\ q.rsrc.type[u] = "RSRC_QUEUE" /\ q.rsrc.owner[u] = m
        /\ \A i \in Ids \ {p, u} : /\ q.rsrc.type[i] = k.rsrc.type[i]
                                   /\ q.rsrc.owner[i] = k.rsrc.owner[i]
    BY SMTT(60), <1>3, <1>4, <1>5 DEF Named, RSRC_NONE
  <1>7. /\ q.mem = k.mem /\ q.team = k.team /\ q.rsrc \in RsrcStates
        /\ \A n \in Ids : q.team[n].aspace = k.team[n].aspace
    BY <1>5 DEF TableSound
  <1>8. /\ q.port \in [Ids -> PortRecs]
        /\ q.port[p] = [slaved |-> 0, refcount |-> 1, sendqueue |-> u]
        /\ \A i \in Ids \ {p} : q.port[i] = k.port[i]
    BY <1>1, <1>2, <1>4 DEF PortRecs
  <1>9. q \in TableStates
    <2> DEFINE R == q.rsrc
               P == q.port
    <2>1. [rsrc |-> R, mem |-> k.mem, team |-> k.team, task |-> k.task, port |-> P]
             \in TableStates
      BY <1>1, <1>7, <1>8, FieldsOf
    <2> QED BY <2>1
  <1>10. PICK b : b = [k EXCEPT !.rsrc = B]
    OBVIOUS
  <1>17. b.rsrc = B /\ b.mem = k.mem /\ b.team = k.team
    BY <1>1, <1>10 DEF TableStates
  <1>11. /\ b.mem = k.mem /\ b.team = k.team
         /\ Named(k.rsrc, b.rsrc, p, "RSRC_PORT", m)
         /\ Named(b.rsrc, q.rsrc, u, "RSRC_QUEUE", m)
         /\ ResizeWhole => KernelPages(b.mem) = KernelPages(k.mem)
         /\ ResizeWhole => KernelPages(q.mem) = KernelPages(b.mem)
         /\ q.team = b.team
    BY <1>3, <1>5, <1>7, <1>17 DEF Named
  <1>12. /\ k.rsrc.type[p] \notin {"RSRC_TEAM", "RSRC_ASPACE", "RSRC_TASK"}
         /\ b.rsrc.type[u] \notin {"RSRC_TEAM", "RSRC_ASPACE", "RSRC_TASK"}
         /\ "RSRC_PORT" \notin {"RSRC_TEAM", "RSRC_ASPACE", "RSRC_TASK"}
         /\ "RSRC_QUEUE" \notin {"RSRC_TEAM", "RSRC_ASPACE", "RSRC_TASK"}
         /\ k.rsrc.type[p] \notin {"RSRC_ASPACE", "RSRC_TASK"}
         /\ b.rsrc.type[u] \notin {"RSRC_ASPACE", "RSRC_TASK"}
         /\ "RSRC_PORT" \notin {"RSRC_ASPACE", "RSRC_TASK"}
         /\ "RSRC_QUEUE" \notin {"RSRC_ASPACE", "RSRC_TASK"}
         /\ k.rsrc.type[p] \in {RSRC_NONE, "RSRC_PORT", "RSRC_QUEUE", "RSRC_SEM", "RSRC_TASK"}
         /\ b.rsrc.type[u] \in {RSRC_NONE, "RSRC_PORT", "RSRC_QUEUE", "RSRC_SEM", "RSRC_TASK"}
         /\ "RSRC_PORT" \in {RSRC_NONE, "RSRC_PORT", "RSRC_QUEUE"}
         /\ "RSRC_QUEUE" \in {RSRC_NONE, "RSRC_PORT", "RSRC_QUEUE"}
    BY <1>2, <1>4, <1>17 DEF RSRC_NONE
  <1>13. TeamsSound(q)
    <2>1. TeamsSound(b)
      BY <1>1, <1>11, <1>12, TeamsKept
    <2> QED BY <2>1, <1>11, <1>12, TeamsKept
  <1>14. CountsSound(q)
    <2>1. CountsSound(b)
      BY <1>1, <1>11, <1>12, CountsKept
    <2> QED BY <2>1, <1>11, <1>12, CountsKept
  <1>15. MembersSound(q)
    <2>1. \A n \in Ids : b.team[n].aspace = k.team[n].aspace
      BY <1>11
    <2>2. MembersSound(b)
      BY <2>1, <1>1, <1>11, <1>12, MembersKept
    <2>3. /\ \A n \in Ids : q.team[n].aspace = b.team[n].aspace
          /\ q.mem.areas = b.mem.areas /\ b.mem.areas \in [Ids -> SUBSET Ids]
      BY <1>1, <1>7, <1>11
    <2> QED BY <2>2, <2>3, <1>11, <1>12, MembersKept
  <1>16. PortsSound(q)
    <2>1. /\ \A n \in Ids : PortSound(k, n)
          /\ k.port[p] = NoPortRecord
      BY <1>1, <1>2 DEF PortsSound, PortSound, RSRC_NONE
    <2>2. \A n \in Ids : k.port[n].slaved # 0 =>
             /\ k.port[n].slaved \in Ids /\ k.rsrc.type[k.port[n].slaved] = "RSRC_PORT"
      BY <2>1 DEF PortSound, Is, NoPortRecord
    <2>3. \A n \in Ids \ {p} : Slaves(q, n) = Slaves(k, n)
      BY <2>1, <1>8 DEF Slaves, NoPortRecord, Ids
    <2>4. Slaves(q, p) = {}
      BY <2>2, <1>2, <1>8 DEF Slaves, RSRC_NONE, Ids
    <2>5. PortSound(q, p)
      <3>1. Cardinality(Slaves(q, p)) = 0
        BY <2>4, FS_EmptySet
      <3>2. m # p /\ m # u
        BY <1>2, <1>6 DEF RSRC_NONE
      <3> QED BY <3>1, <3>2, <1>6, <1>8 DEF PortSound, Is
    <2>6. ASSUME NEW n \in Ids \ {p}
          PROVE  PortSound(q, n)
      <3>1. PortSound(k, n) /\ Slaves(q, n) = Slaves(k, n) /\ q.port[n] = k.port[n]
        BY <2>1, <2>3, <2>6, <1>8
      <3>2. CASE k.rsrc.type[n] = "RSRC_PORT"
        <4>1. \A i \in Ids : k.rsrc.type[i] # RSRC_NONE =>
                 q.rsrc.type[i] = k.rsrc.type[i] /\ q.rsrc.owner[i] = k.rsrc.owner[i]
          BY <1>2, <1>6
        <4>2. ASSUME NEW i, NEW kind \in {"RSRC_PORT", "RSRC_QUEUE", "RSRC_TEAM"}, Is(k, i, kind)
              PROVE  Is(q, i, kind) /\ q.rsrc.owner[i] = k.rsrc.owner[i]
          BY <4>1, <4>2 DEF Is, RSRC_NONE
        <4>3. q.rsrc.type[n] = "RSRC_PORT" /\ q.rsrc.owner[n] = k.rsrc.owner[n]
          BY <4>1, <3>2 DEF RSRC_NONE
        <4>4. /\ Is(k, k.port[n].sendqueue, "RSRC_QUEUE")
              /\ k.rsrc.owner[k.port[n].sendqueue] = k.rsrc.owner[n]
              /\ \/ Is(k, k.rsrc.owner[n], "RSRC_TEAM")
                 \/ k.rsrc.owner[n] = NoTeam /\ k.port[n].refcount > 1
              /\ k.port[n].refcount > Cardinality(Slaves(k, n))
              /\ k.port[n].slaved # 0 =>
                    /\ Is(k, k.port[n].slaved, "RSRC_PORT")
                    /\ k.rsrc.owner[k.port[n].slaved] = k.rsrc.owner[n]
          BY <3>1, <3>2, Zenon DEF PortSound
        <4>5. /\ Is(q, k.port[n].sendqueue, "RSRC_QUEUE")
              /\ q.rsrc.owner[k.port[n].sendqueue] = q.rsrc.owner[n]
          BY <4>2, <4>3, <4>4
        <4>6. \/ Is(q, q.rsrc.owner[n], "RSRC_TEAM")
              \/ q.rsrc.owner[n] = NoTeam /\ k.port[n].refcount > 1
          BY <4>2, <4>3, <4>4
        <4>7. k.port[n].slaved # 0 =>
                 /\ Is(q, k.port[n].slaved, "RSRC_PORT")
                 /\ q.rsrc.owner[k.port[n].slaved] = q.rsrc.owner[n]
          BY <4>2, <4>3, <4>4
        <4>8. q.port[n] = k.port[n] /\ Slaves(q, n) = Slaves(k, n)
          BY <3>1
        <4> QED BY <4>3, <4>4, <4>5, <4>6, <4>7, <4>8, Zenon DEF PortSound
      <3>3. CASE k.rsrc.type[n] # "RSRC_PORT"
        <4>1. q.rsrc.type[n] # "RSRC_PORT"
          BY <3>3, <2>6, <1>6
        <4> QED BY <4>1, <3>1, <3>3 DEF PortSound
      <3> QED BY <3>2, <3>3
    <2>7. ASSUME NEW x \in Ids, NEW y \in Ids,
                 q.rsrc.type[x] = "RSRC_PORT", q.rsrc.type[y] = "RSRC_PORT",
                 q.port[x].sendqueue = q.port[y].sendqueue
          PROVE  x = y
      <3>1. \A n \in Ids \ {p} : q.rsrc.type[n] = "RSRC_PORT" =>
               /\ k.rsrc.type[n] = "RSRC_PORT" /\ q.port[n].sendqueue = k.port[n].sendqueue
               /\ k.port[n].sendqueue # u
        BY <2>1, <1>6, <1>8 DEF PortSound, Is, RSRC_NONE
      <3> QED BY <3>1, <2>7, <1>1, <1>8 DEF PortsSound
    <2>8. ASSUME NEW i \in Ids, q.rsrc.type[i] = "RSRC_QUEUE"
          PROVE  \E x \in Ids : q.rsrc.type[x] = "RSRC_PORT" /\ q.port[x].sendqueue = i
      <3>1. CASE i = u
        BY <3>1, <1>6, <1>8
      <3>2. CASE i # u
        <4>1. k.rsrc.type[i] = "RSRC_QUEUE"
          BY <3>2, <2>8, <1>6
        <4>2. PICK x \in Ids : k.rsrc.type[x] = "RSRC_PORT" /\ k.port[x].sendqueue = i
          BY <4>1, <1>1 DEF PortsSound
        <4>3. x # p /\ x # u
          BY <4>2, <1>2, <1>6 DEF RSRC_NONE
        <4> QED BY <4>2, <4>3, <1>6, <1>8
      <3> QED BY <3>1, <3>2
    <2> QED BY <2>5, <2>6, <2>7, <2>8 DEF PortsSound
  <1> QED BY <1>1, <1>5, <1>7, <1>9, <1>13, <1>14, <1>15, <1>16 DEF Sound

(* In ports P port p is the slave of w, which counts it.                   *)
Enslaved(ports, P, p, w) ==
    \A i \in Ids :
        /\ P[i] \in PortRecs
        /\ P[i].slaved = IF i = p THEN w ELSE ports[i].slaved
        /\ P[i].refcount = ports[i].refcount + (IF i = w THEN 1 ELSE 0)
                                             - (IF i = ports[p].slaved THEN 1 ELSE 0)
        /\ P[i].sendqueue = ports[i].sendqueue
        /\ i # p /\ i # w /\ i # ports[p].slaved => P[i] = ports[i]

(* What the new records are.                                               *)
LEMMA Enslaves ==
    ASSUME NEW ports \in [Ids -> PortRecs], NEW p \in Ids, NEW w \in Ids \cup {0}
    PROVE  Enslaved(ports,
               [i \in Ids |->
                   [ports[i] EXCEPT
                      !.slaved   = IF i = p THEN w ELSE @,
                      !.refcount = @ + (IF i = w THEN 1 ELSE 0)
                                     - (IF i = ports[p].slaved THEN 1 ELSE 0)]],
               p, w)
  <1>1. ASSUME NEW i \in Ids, NEW r,
               r = [ports[i] EXCEPT
                      !.slaved   = IF i = p THEN w ELSE @,
                      !.refcount = @ + (IF i = w THEN 1 ELSE 0)
                                     - (IF i = ports[p].slaved THEN 1 ELSE 0)]
        PROVE  /\ r \in PortRecs
               /\ r.slaved = IF i = p THEN w ELSE ports[i].slaved
               /\ r.refcount = ports[i].refcount + (IF i = w THEN 1 ELSE 0)
                                                 - (IF i = ports[p].slaved THEN 1 ELSE 0)
               /\ r.sendqueue = ports[i].sendqueue
               /\ i # p /\ i # w /\ i # ports[p].slaved => r = ports[i]
    <2>1. PICK sl \in Ids \cup {0}, rc \in Int, sq \in Ids \cup {0} :
              ports[i] = [slaved |-> sl, refcount |-> rc, sendqueue |-> sq]
      BY DEF PortRecs
    <2>2. PICK a : a = IF i = p THEN w ELSE sl
      OBVIOUS
    <2>3. PICK y : y = IF i = w THEN 1 ELSE 0
      OBVIOUS
    <2>4. PICK z : z = IF i = ports[p].slaved THEN 1 ELSE 0
      OBVIOUS
    <2>5. a \in Ids \cup {0} /\ y \in Int /\ z \in Int
      BY <2>2, <2>3, <2>4
    <2>6. r = [slaved |-> a, refcount |-> rc + y - z, sendqueue |-> sq]
      <3>1. ports[i].slaved = sl /\ ports[i].refcount = rc
        BY <2>1
      <3>2. a = IF i = p THEN w ELSE ports[i].slaved
        BY <2>2, <3>1
      <3>3. r = [ports[i] EXCEPT !.slaved = a, !.refcount = ports[i].refcount + y - z]
        BY ONLY <1>1, <3>2, <2>3, <2>4
      <3>4. PICK d : d = rc + y - z
        OBVIOUS
      <3>5. r = [ports[i] EXCEPT !.slaved = a, !.refcount = d]
        BY <3>1, <3>3, <3>4
      <3>6. r = [slaved |-> a, refcount |-> d, sendqueue |-> sq]
        <4>1. PICK x : x = ports[i]
          OBVIOUS
        <4>2. x \in PortRecs /\ x.sendqueue = sq /\ r = [x EXCEPT !.slaved = a, !.refcount = d]
          BY <2>1, <3>5, <4>1
        <4> QED BY ONLY <4>2 DEF PortRecs
      <3> QED BY <3>4, <3>6
    <2>7. r \in PortRecs
      BY <2>5, <2>6 DEF PortRecs
    <2>8. i # p /\ i # w /\ i # ports[p].slaved => a = sl /\ rc + y - z = rc
      BY <2>2, <2>3, <2>4
    <2>9. /\ r.slaved = a /\ r.refcount = rc + y - z /\ r.sendqueue = sq
          /\ ports[i].slaved = sl /\ ports[i].refcount = rc /\ ports[i].sendqueue = sq
      BY <2>1, <2>6
    <2> QED BY <2>1, <2>2, <2>3, <2>4, <2>6, <2>7, <2>8, <2>9
  <1> QED BY <1>1 DEF Enslaved

(* port_slave(): port.c.                                                   *)
LEMMA SlaveSound ==
    ASSUME NEW k, Sound(k), NEW p \in Ids, k.rsrc.type[p] = "RSRC_PORT",
           Is(k, k.rsrc.owner[p], "RSRC_TEAM"), NEW w \in Ids \cup {0},
           w # 0 => k.rsrc.type[w] = "RSRC_PORT" /\ k.rsrc.owner[w] = k.rsrc.owner[p],
           NEW q, q \in TableStates, q.rsrc = k.rsrc, q.mem = k.mem, q.team = k.team,
           Enslaved(k.port, q.port, p, w)
    PROVE  Sound(q)
  <1>1. /\ k \in TableStates /\ TableSound(k.rsrc) /\ MemSound(k.mem)
        /\ TeamsSound(k) /\ MembersSound(k) /\ PortsSound(k) /\ CountsSound(k)
        /\ k.port \in [Ids -> PortRecs]
    BY DEF Sound, TableStates
  <1>2. PICK old \in Ids \cup {0} : old = k.port[p].slaved
    BY <1>1 DEF PortRecs
  <1>3. PICK P : P = q.port
    OBVIOUS
  <1>4. ASSUME NEW i \in Ids
        PROVE  /\ P[i].slaved = IF i = p THEN w ELSE k.port[i].slaved
               /\ P[i].refcount = k.port[i].refcount + (IF i = w THEN 1 ELSE 0)
                                                     - (IF i = old THEN 1 ELSE 0)
               /\ P[i].sendqueue = k.port[i].sendqueue
               /\ i # p /\ i # w /\ i # old => P[i] = k.port[i]
    BY <1>2, <1>3 DEF Enslaved
  <1>7. TeamsSound(q)
    BY <1>1, TeamsSame
  <1>8. MembersSound(q)
    BY <1>1, MembersSame
  <1>9. CountsSound(q)
    BY <1>1 DEF CountsSound, Having
  <1>10. old # 0 => /\ k.rsrc.type[old] = "RSRC_PORT"
                    /\ k.rsrc.owner[old] = k.rsrc.owner[p]
    BY <1>1, <1>2 DEF PortsSound, PortSound, Is
  <1>11. ASSUME NEW i \in Ids
         PROVE  PortSound(q, i)
    <2>1. PortSound(k, i)
      BY <1>1 DEF PortsSound
    <2>2. CASE k.rsrc.type[i] # "RSRC_PORT"
      <3>1. i # p /\ i # w /\ i # old
        BY <2>2, <1>10, Names DEF NoTeam
      <3>2. P[i] = k.port[i]
        BY <3>1, <1>4
      <3> QED BY <3>2, <2>1, <2>2, <1>3 DEF PortSound
    <2>3. CASE k.rsrc.type[i] = "RSRC_PORT"
      <3>1. /\ Is(k, k.port[i].sendqueue, "RSRC_QUEUE")
            /\ k.rsrc.owner[k.port[i].sendqueue] = k.rsrc.owner[i]
            /\ \/ Is(k, k.rsrc.owner[i], "RSRC_TEAM")
               \/ k.rsrc.owner[i] = NoTeam /\ k.port[i].refcount > 1
            /\ k.port[i].refcount > Cardinality(Slaves(k, i))
            /\ k.port[i].slaved # 0 =>
                  /\ Is(k, k.port[i].slaved, "RSRC_PORT")
                  /\ k.rsrc.owner[k.port[i].slaved] = k.rsrc.owner[i]
        BY <2>1, <2>3 DEF PortSound
      <3>2. IsFiniteSet(Slaves(k, i)) /\ Cardinality(Slaves(k, i)) \in Nat
        BY Names, FS_Subset, FS_CardinalityType DEF Slaves
      <3>3. k.port[i].refcount \in Int
        BY <1>1 DEF PortRecs
      <3>4. P[i].refcount > Cardinality(Slaves(q, i))
        <4>1. CASE i = w /\ i # old
          <5>1. Slaves(q, i) = Slaves(k, i) \cup {p} /\ p \notin Slaves(k, i)
            BY <4>1, <1>2, <1>3, <1>4 DEF Slaves
          <5>2. Cardinality(Slaves(q, i)) = Cardinality(Slaves(k, i)) + 1
            BY <5>1, <3>2, FS_AddElement
          <5>3. P[i].refcount = k.port[i].refcount + 1
            BY <4>1, <3>3, <1>4
          <5> QED BY <5>2, <5>3, <3>1, <3>2, <3>3
        <4>2. CASE i = old /\ i # w
          <5>1. Slaves(q, i) = Slaves(k, i) \ {p} /\ p \in Slaves(k, i)
            <6>1. \A x \in Ids : q.port[x].slaved = i <=> k.port[x].slaved = i /\ x # p
              BY <4>2, <1>2, <1>3, <1>4
            <6> QED BY <6>1, <4>2, <1>2 DEF Slaves
          <5>2. Cardinality(Slaves(q, i)) = Cardinality(Slaves(k, i)) - 1
            <6>1. Cardinality(Slaves(k, i) \ {p}) = Cardinality(Slaves(k, i)) - 1
              BY <5>1, <3>2, FS_RemoveElement
            <6> QED BY <6>1, <5>1
          <5>3. P[i].refcount = k.port[i].refcount - 1
            BY <4>2, <3>3, <1>4
          <5> QED BY <5>2, <5>3, <3>1, <3>2, <3>3
        <4>3. CASE ~(i = w /\ i # old) /\ ~(i = old /\ i # w)
          <5>1. Slaves(q, i) = Slaves(k, i)
            BY <4>3, <1>2, <1>3, <1>4 DEF Slaves
          <5>2. P[i].refcount = k.port[i].refcount
            BY <4>3, <3>3, <1>4
          <5> QED BY <5>1, <5>2, <3>1
        <4> QED BY <4>1, <4>2, <4>3
      <3>5. \/ Is(k, k.rsrc.owner[i], "RSRC_TEAM")
            \/ k.rsrc.owner[i] = NoTeam /\ P[i].refcount > 1
        <4>1. CASE Is(k, k.rsrc.owner[i], "RSRC_TEAM")
          BY <4>1
        <4>2. CASE ~Is(k, k.rsrc.owner[i], "RSRC_TEAM")
          <5>1. i # w /\ i # old
            BY <4>2, <1>10, Names DEF NoTeam
          <5>2. P[i].refcount = k.port[i].refcount
            BY <5>1, <3>3, <1>4
          <5> QED BY <5>2, <4>2, <3>1
        <4> QED BY <4>1, <4>2
      <3>6. P[i].slaved # 0 => /\ Is(k, P[i].slaved, "RSRC_PORT")
                               /\ k.rsrc.owner[P[i].slaved] = k.rsrc.owner[i]
        <4>1. CASE i = p
          <5>1. P[i].slaved = w
            BY <4>1, <1>4
          <5> QED BY <5>1, <4>1 DEF Is
        <4>2. CASE i # p
          <5>1. P[i].slaved = k.port[i].slaved
            BY <4>2, <1>4
          <5> QED BY <5>1, <3>1
        <4> QED BY <4>1, <4>2
      <3>7. /\ Is(q, P[i].sendqueue, "RSRC_QUEUE")
            /\ q.rsrc.owner[P[i].sendqueue] = k.rsrc.owner[i]
        <4>1. P[i].sendqueue = k.port[i].sendqueue
          BY <1>4
        <4> QED BY <4>1, <3>1 DEF Is
      <3>8. \A j, kind : Is(q, j, kind) <=> Is(k, j, kind)
        BY Zenon DEF Is
      <3> QED BY <3>4, <3>5, <3>6, <3>7, <3>8, <2>3, <1>3, Zenon DEF PortSound
    <2> QED BY <2>2, <2>3
  <1>12. PortsSound(q)
    <2>1. \A i \in Ids : q.port[i].sendqueue = k.port[i].sendqueue
      BY <1>3, <1>4
    <2> QED BY <2>1, <1>1, <1>3, <1>11 DEF PortsSound
  <1> QED BY <1>1, <1>7, <1>8, <1>9, <1>12 DEF Sound

(* A port and its queue, given back.                                       *)
PortGone(k, q, p) ==
    /\ q \in TableStates /\ TableSound(q.rsrc)
    /\ q.mem = k.mem /\ q.team = k.team /\ q.task = k.task
    /\ q.port = [k.port EXCEPT ![p] = NoPortRecord]
    /\ \A i \in {p, k.port[p].sendqueue} : /\ q.rsrc.type[i] = RSRC_NONE
                                           /\ q.rsrc.owner[i] = NoTeam
    /\ \A i \in Ids \ {p, k.port[p].sendqueue} :
          q.rsrc.type[i] = k.rsrc.type[i] /\ q.rsrc.owner[i] = k.rsrc.owner[i]

(* port_destroy(): port.c, of a port that is not a master.                 *)
LEMMA PortGoes ==
    ASSUME NEW k \in TableStates, TableSound(k.rsrc), NEW p \in Ids,
           k.port[p].refcount = 1, NEW u \in Ids, u = k.port[p].sendqueue
    PROVE  PortGone(k, port_destroy(k, p), p)
  <1>1. PICK B : B = rsrc_release(k.rsrc, p)
    OBVIOUS
  <1>2. TableSound(B) /\ Named(k.rsrc, B, p, RSRC_NONE, NoTeam)
    BY <1>1, ReleaseSound
  <1>3. PICK R : R = rsrc_release(B, u)
    OBVIOUS
  <1>4. TableSound(R) /\ Named(B, R, u, RSRC_NONE, NoTeam)
    BY <1>2, <1>3, ReleaseSound
  <1>5. PICK q : q = port_destroy(k, p)
    OBVIOUS
  <1>6. q = [rsrc |-> R, mem |-> k.mem, team |-> k.team, task |-> k.task,
             port |-> [k.port EXCEPT ![p] = NoPortRecord]]
    BY <1>1, <1>3, <1>5 DEF port_destroy, TableStates
  <1>7. q \in TableStates
    <2>1. /\ R \in RsrcStates /\ k.mem \in MemStates
          /\ k.team \in [Ids -> TeamRecs] /\ k.task \in [Ids -> Ids \cup {NoArea}]
          /\ [k.port EXCEPT ![p] = NoPortRecord] \in [Ids -> PortRecs]
      BY <1>4 DEF TableStates, TableSound, PortRecs, NoPortRecord
    <2> QED BY <2>1, <1>6, FieldsOf
  <1>8. q.rsrc = R
    BY <1>6
  <1>9. /\ \A i \in {p, u} : q.rsrc.type[i] = RSRC_NONE /\ q.rsrc.owner[i] = NoTeam
        /\ \A i \in Ids \ {p, u} :
              q.rsrc.type[i] = k.rsrc.type[i] /\ q.rsrc.owner[i] = k.rsrc.owner[i]
    BY <1>2, <1>4, <1>8 DEF Named
  <1> QED BY <1>4, <1>5, <1>6, <1>7, <1>8, <1>9 DEF PortGone

(* The rest does not see a port that goes.                                 *)
LEMMA PortGoneSound ==
    ASSUME NEW k, Sound(k), NEW p \in Ids, k.rsrc.type[p] = "RSRC_PORT",
           k.port[p].refcount = 1, NEW q, PortGone(k, q, p)
    PROVE  Sound(q)
  <1>1. /\ k \in TableStates /\ MemSound(k.mem)
        /\ TeamsSound(k) /\ MembersSound(k) /\ PortsSound(k) /\ CountsSound(k)
        /\ k.mem.areas \in [Ids -> SUBSET Ids] /\ k.port \in [Ids -> PortRecs]
    BY DEF Sound, TableStates, MemStates
  <1>2. PICK u \in Ids : u = k.port[p].sendqueue /\ k.rsrc.type[u] = "RSRC_QUEUE"
    BY <1>1 DEF PortsSound, PortSound, Is
  <1>3. /\ q \in TableStates /\ TableSound(q.rsrc)
        /\ q.mem = k.mem /\ q.team = k.team
        /\ q.port[p] = NoPortRecord
        /\ \A i \in Ids \ {p} : q.port[i] = k.port[i]
        /\ q.rsrc.type[p] = RSRC_NONE /\ q.rsrc.type[u] = RSRC_NONE
        /\ \A i \in Ids \ {p, u} :
              q.rsrc.type[i] = k.rsrc.type[i] /\ q.rsrc.owner[i] = k.rsrc.owner[i]
    BY <1>1, <1>2 DEF PortGone
  <1>4. \A i \in Ids :
           /\ k.rsrc.type[i] \notin {"RSRC_PORT", "RSRC_QUEUE"} =>
                 q.rsrc.type[i] = k.rsrc.type[i] /\ q.rsrc.owner[i] = k.rsrc.owner[i]
           /\ q.rsrc.type[i] \notin {"RSRC_PORT", "RSRC_QUEUE", RSRC_NONE} =>
                 q.rsrc.type[i] = k.rsrc.type[i] /\ q.rsrc.owner[i] = k.rsrc.owner[i]
    BY <1>2, <1>3
  <1>5. TeamsSound(q)
    <2>1. ASSUME NEW m \in Ids
          PROVE  TeamSound(q, m)
      <3>1. TeamSound(k, m)
        BY <1>1 DEF TeamsSound
      <3>2. CASE k.rsrc.type[m] = "RSRC_TEAM"
        <4>1. TasksOf(q, m) = TasksOf(k, m)
          BY <1>4 DEF TasksOf, RSRC_NONE
        <4> QED BY <4>1, <3>1, <3>2, <1>3, <1>4 DEF TeamSound, Is
      <3>3. CASE k.rsrc.type[m] # "RSRC_TEAM"
        <4>1. q.rsrc.type[m] # "RSRC_TEAM"
          BY <3>3, <1>4 DEF RSRC_NONE
        <4> QED BY <4>1, <3>1, <3>3, <1>3 DEF TeamSound
      <3> QED BY <3>2, <3>3
    <2> QED BY <2>1 DEF TeamsSound
  <1>6. MembersSound(q)
    <2>1. ASSUME NEW i \in Ids, q.rsrc.type[i] # RSRC_NONE
          PROVE  q.rsrc.type[i] = k.rsrc.type[i] /\ q.rsrc.owner[i] = k.rsrc.owner[i]
      BY <2>1, <1>3
    <2>2. \A n \in Ids : k.rsrc.type[n] = "RSRC_TEAM" =>
             q.rsrc.type[n] = "RSRC_TEAM" /\ q.team[n].aspace = k.team[n].aspace
      BY <1>3, <1>4
    <2>3. Mapped(q.mem) = Mapped(k.mem)
      BY <1>3
    <2>4. ASSUME NEW i \in Ids
          PROVE  MemberSound(q, i)
      <3>1. CASE q.rsrc.type[i] = RSRC_NONE
        BY <3>1 DEF MemberSound, RSRC_NONE
      <3>2. CASE q.rsrc.type[i] # RSRC_NONE
        BY <3>2, <2>1, <2>2, <2>3, <1>1, MemberStays
      <3> QED BY <3>1, <3>2
    <2>5. ASSUME NEW x \in Ids, NEW a \in q.mem.areas[x]
          PROVE  q.rsrc.type[a] = "RSRC_AREA" /\ q.rsrc.type[x] = "RSRC_ASPACE"
      <3>1. a \in k.mem.areas[x] /\ a \in Ids
        BY <2>5, <1>1, <1>3
      <3>2. k.rsrc.type[a] = "RSRC_AREA" /\ k.rsrc.type[x] = "RSRC_ASPACE"
        BY <3>1, <1>1, AreaIn
      <3> QED BY <3>1, <3>2, <1>4
    <2> QED BY <2>4, <2>5 DEF MembersSound, AreasInSpaces
  <1>7. CountsSound(q)
    <2>1. /\ Having(q, "RSRC_ASPACE") = Having(k, "RSRC_ASPACE")
          /\ Having(q, "RSRC_TASK") = Having(k, "RSRC_TASK")
      BY <1>4 DEF Having, RSRC_NONE
    <2> QED BY <2>1, <1>1, <1>3 DEF CountsSound
  <1>8. PortsSound(q)
    <2>1. \A n \in Ids : PortSound(k, n)
      BY <1>1 DEF PortsSound
    <2>2. Slaves(k, p) = {}
      <3>1. k.port[p].refcount > Cardinality(Slaves(k, p))
        BY <2>1 DEF PortSound
      <3>2. IsFiniteSet(Slaves(k, p)) /\ Cardinality(Slaves(k, p)) \in Nat
        BY Names, FS_Subset, FS_CardinalityType DEF Slaves
      <3> QED BY <3>1, <3>2, FS_EmptySet
    <2>3. ASSUME NEW n \in Ids
          PROVE  PortSound(q, n)
      <3>1. CASE n = p
        BY <3>1, <1>3 DEF PortSound, RSRC_NONE
      <3>2. CASE n # p /\ k.rsrc.type[n] = "RSRC_PORT"
        <4>1. /\ PortSound(k, n) /\ q.port[n] = k.port[n] /\ n # u
          BY <2>1, <3>2, <1>2, <1>3
        <4>2. k.port[n].sendqueue # u
          BY <3>2, <1>1, <1>2 DEF PortsSound
        <4>3. Slaves(q, n) \subseteq Slaves(k, n)
          <5>1. n # 0
            BY DEF Ids
          <5> QED BY <5>1, <1>3 DEF Slaves, NoPortRecord
        <4>4. k.port[n].slaved # p
          BY <2>2 DEF Slaves
        <4>5. /\ Cardinality(Slaves(q, n)) <= Cardinality(Slaves(k, n))
              /\ Cardinality(Slaves(q, n)) \in Nat /\ Cardinality(Slaves(k, n)) \in Nat
          <5>1. IsFiniteSet(Slaves(k, n))
            BY Names, FS_Subset DEF Slaves
          <5> QED BY <5>1, <4>3, FS_Subset, FS_CardinalityType
        <4>6. /\ Is(k, k.port[n].sendqueue, "RSRC_QUEUE")
              /\ k.rsrc.owner[k.port[n].sendqueue] = k.rsrc.owner[n]
              /\ \/ Is(k, k.rsrc.owner[n], "RSRC_TEAM")
                 \/ k.rsrc.owner[n] = NoTeam /\ k.port[n].refcount > 1
              /\ k.port[n].refcount > Cardinality(Slaves(k, n))
              /\ k.port[n].slaved # 0 =>
                    /\ Is(k, k.port[n].slaved, "RSRC_PORT")
                    /\ k.rsrc.owner[k.port[n].slaved] = k.rsrc.owner[n]
          BY <4>1, <3>2 DEF PortSound
        <4>7. q.rsrc.type[n] = "RSRC_PORT" /\ q.rsrc.owner[n] = k.rsrc.owner[n]
          BY <3>2, <4>1, <1>3
        <4>8. /\ Is(q, q.port[n].sendqueue, "RSRC_QUEUE")
              /\ q.rsrc.owner[q.port[n].sendqueue] = q.rsrc.owner[n]
          <5>1. k.port[n].sendqueue \in Ids \ {p, u}
            BY <4>2, <4>6 DEF Is
          <5> QED BY <5>1, <4>1, <4>6, <4>7, <1>3 DEF Is
        <4>9. \/ Is(q, q.rsrc.owner[n], "RSRC_TEAM")
              \/ q.rsrc.owner[n] = NoTeam /\ q.port[n].refcount > 1
          BY <4>1, <4>6, <4>7, <1>4 DEF Is
        <4>10. q.port[n].slaved # 0 =>
                    /\ Is(q, q.port[n].slaved, "RSRC_PORT")
                    /\ q.rsrc.owner[q.port[n].slaved] = q.rsrc.owner[n]
          <5>1. k.port[n].slaved # 0 => k.port[n].slaved \in Ids \ {p, u}
            BY <4>4, <4>6, <1>2 DEF Is
          <5> QED BY <5>1, <4>1, <4>6, <4>7, <1>3 DEF Is
        <4>11. q.port[n].refcount > Cardinality(Slaves(q, n))
          <5>1. k.port[n].refcount \in Int
            BY <1>1 DEF PortRecs
          <5> QED BY <5>1, <4>1, <4>5, <4>6
        <4> QED BY <4>7, <4>8, <4>9, <4>10, <4>11 DEF PortSound
      <3>3. CASE n # p /\ k.rsrc.type[n] # "RSRC_PORT"
        <4>1. q.rsrc.type[n] # "RSRC_PORT" /\ q.port[n] = k.port[n]
          BY <3>3, <1>3 DEF RSRC_NONE
        <4> QED BY <4>1, <2>1, <3>3 DEF PortSound
      <3> QED BY <3>1, <3>2, <3>3
    <2>4. \A n \in Ids : q.rsrc.type[n] = "RSRC_PORT" =>
             k.rsrc.type[n] = "RSRC_PORT" /\ q.port[n] = k.port[n]
      BY <1>3 DEF RSRC_NONE
    <2>5. ASSUME NEW i \in Ids, q.rsrc.type[i] = "RSRC_QUEUE"
          PROVE  \E x \in Ids : q.rsrc.type[x] = "RSRC_PORT" /\ q.port[x].sendqueue = i
      <3>1. k.rsrc.type[i] = "RSRC_QUEUE" /\ i # u
        BY <2>5, <1>3 DEF RSRC_NONE
      <3>2. PICK x \in Ids : k.rsrc.type[x] = "RSRC_PORT" /\ k.port[x].sendqueue = i
        BY <3>1, <1>1 DEF PortsSound
      <3>3. x # p /\ x # u
        BY <3>1, <3>2, <1>2
      <3> QED BY <3>2, <3>3, <1>3
    <2> QED BY <2>3, <2>4, <2>5, <1>1 DEF PortsSound
  <1> QED BY <1>1, <1>3, <1>5, <1>6, <1>7, <1>8 DEF Sound

(* team_create(): team.c.                                                  *)
LEMMA TeamMadeSound ==
    ASSUME NEW k, Sound(k), Cardinality(k.rsrc.rfree) >= 2
    PROVE  \E m \in Ids :
              /\ Sound(team_create(k))
              /\ k.rsrc.type[m] = RSRC_NONE
              /\ team_create(k).rsrc.type[m] = "RSRC_TEAM"
              /\ team_create(k).team[m] # k.team[m]
              /\ \A n \in Ids \ {m} : /\ team_create(k).team[n] = k.team[n]
                                      /\ team_create(k).rsrc.type[n] = "RSRC_TEAM"
                                            => k.rsrc.type[n] = "RSRC_TEAM"
              /\ Cardinality(team_create(k).rsrc.rfree) >= Cardinality(k.rsrc.rfree) - 2
              /\ team_create(k).mem = aspace_create(k.mem)
              /\ \A i \in Ids : k.rsrc.type[i] # RSRC_NONE =>
                    team_create(k).rsrc.type[i] = k.rsrc.type[i]
  <1>1. /\ k \in TableStates /\ TableSound(k.rsrc) /\ MemSound(k.mem)
        /\ TeamsSound(k) /\ MembersSound(k) /\ PortsSound(k) /\ CountsSound(k)
        /\ k.mem.areas \in [Ids -> SUBSET Ids]
        /\ k.team \in [Ids -> TeamRecs] /\ k.task \in [Ids -> Ids \cup {NoArea}]
        /\ k.port \in [Ids -> PortRecs]
    BY DEF Sound, TableStates, MemStates
  <1>2. PICK c \in Nat : c = Cardinality(k.rsrc.rfree) - 2
    <2>1. Cardinality(k.rsrc.rfree) \in Nat
      BY <1>1, Names, FS_Subset, FS_CardinalityType DEF TableSound, RsrcStates
    <2> QED BY <2>1
  <1>3. PICK s \in Ids : /\ k.rsrc.type[s] = RSRC_NONE /\ s = NextIn(k.rsrc)
                         /\ k.rsrc.rfree # {} /\ Cardinality(k.rsrc.rfree \ {s}) >= c + 1
    <2>1. Cardinality(k.rsrc.rfree) >= (c + 1) + 1 /\ c + 1 \in Nat
      <3>1. Cardinality(k.rsrc.rfree) \in Nat
        BY <1>1, Names, FS_Subset, FS_CardinalityType DEF TableSound, RsrcStates
      <3> QED BY <1>2, <3>1
    <2> QED BY <2>1, <1>1, FreeIds
  <1>4. PICK B : B = rsrc_bind(k.rsrc, "RSRC_ASPACE", KernelTeam)
    OBVIOUS
  <1>5. /\ TableSound(B) /\ Named(k.rsrc, B, s, "RSRC_ASPACE", KernelTeam)
        /\ B.rfree = k.rsrc.rfree \ {s}
    <2>1. "RSRC_ASPACE" \in Kinds /\ KernelTeam \in Owners \ {NoTeam}
      BY Names DEF Kinds
    <2> QED BY <2>1, <1>1, <1>3, <1>4, BindSound
  <1>6. PICK m \in Ids : /\ B.type[m] = RSRC_NONE /\ m = NextIn(B)
                         /\ B.rfree # {} /\ Cardinality(B.rfree \ {m}) >= c
    BY <1>3, <1>5, FreeIds
  <1>7. PICK C : C = rsrc_bind(B, "RSRC_TEAM", KernelTeam)
    OBVIOUS
  <1>8. /\ TableSound(C) /\ Named(B, C, m, "RSRC_TEAM", KernelTeam)
        /\ C.rfree = B.rfree \ {m}
    <2>1. "RSRC_TEAM" \in Kinds /\ KernelTeam \in Owners \ {NoTeam}
      BY Names DEF Kinds
    <2> QED BY <2>1, <1>5, <1>6, <1>7, BindSound
  <1>9. s # m /\ k.rsrc.type[m] = RSRC_NONE /\ C.type[s] = "RSRC_ASPACE"
    BY <1>3, <1>5, <1>6, <1>8 DEF Named, RSRC_NONE
  <1>10. PICK R : R = rsrc_set_owner(C, s, m)
    OBVIOUS
  <1>11. TableSound(R) /\ Named(C, R, s, C.type[s], m) /\ R.rfree = C.rfree
    <2>1. C.type[s] # RSRC_NONE /\ m \in Owners
      BY <1>9, Names DEF RSRC_NONE
    <2> QED BY <2>1, <1>8, <1>10, SetOwnerSound
  <1>12. /\ R.type[s] = "RSRC_ASPACE" /\ R.owner[s] = m
         /\ R.type[m] = "RSRC_TEAM" /\ R.owner[m] = KernelTeam
         /\ \A i \in Ids \ {s, m} : R.type[i] = k.rsrc.type[i] /\ R.owner[i] = k.rsrc.owner[i]
    BY <1>5, <1>8, <1>9, <1>11 DEF Named
  <1>13. PICK M : M = aspace_create(k.mem)
    OBVIOUS
  <1>14. MemSound(M) /\ M.areas = k.mem.areas /\ KernelPages(M) = KernelPages(k.mem) + 2
    <2>1. Counts(k.mem, M, 2)
      BY <1>1, <1>13, KernelPagesSound DEF aspace_create
    <2> QED BY <2>1 DEF Counts
  <1>15. PICK T : T = [k.team EXCEPT ![m] = [NoTeamRecord EXCEPT !.aspace = s]]
    OBVIOUS
  <1>16. /\ T \in [Ids -> TeamRecs] /\ T[m] = [refcount |-> 0, aspace |-> s, heap_id |-> NoArea]
         /\ \A n \in Ids \ {m} : T[n] = k.team[n]
    BY <1>1, <1>15 DEF NoTeamRecord, TeamRecs
  <1>17. PICK q : q = team_create(k)
    OBVIOUS
  <1>18. q = [rsrc |-> R, mem |-> M, team |-> T, task |-> k.task, port |-> k.port]
    BY <1>1, <1>3, <1>4, <1>6, <1>7, <1>10, <1>13, <1>15, <1>17
    DEF team_create, NextId, TableStates
  <1>19. q \in TableStates
    <2>1. R \in RsrcStates /\ M \in MemStates
      BY <1>11, <1>14 DEF TableSound, MemSound, GroupsSound
    <2> QED BY <2>1, <1>1, <1>16, <1>18, FieldsOf
  <1>20. q.rsrc = R /\ q.mem = M /\ q.team = T /\ q.port = k.port
    BY <1>18
  <1>21. \A n \in Ids : TeamSound(k, n)
    BY <1>1 DEF TeamsSound
  <1>22. TeamsSound(q)
    <2>1. TeamSound(q, m)
      <3>1. ASSUME NEW t \in Ids
            PROVE  ~(q.rsrc.type[t] = "RSRC_TASK" /\ q.rsrc.owner[t] = m)
        <4>1. t \notin {s, m} /\ k.rsrc.type[t] = "RSRC_TASK" => Is(k, k.rsrc.owner[t], "RSRC_TEAM")
          BY <1>1, MemberOf DEF Is
        <4> QED BY <4>1, <1>9, <1>12, <1>20 DEF Is, RSRC_NONE
      <3>2. TasksOf(q, m) = {}
        BY <3>1 DEF TasksOf
      <3>3. Cardinality(TasksOf(q, m)) = 0
        BY <3>2, FS_EmptySet
      <3> QED BY <3>3, <1>12, <1>16, <1>20 DEF TeamSound, Is
    <2>2. ASSUME NEW n \in Ids \ {m}
          PROVE  TeamSound(q, n)
      <3>1. TeamSound(k, n) /\ q.team[n] = k.team[n]
        BY <2>2, <1>16, <1>20, <1>21
      <3>2. CASE k.rsrc.type[n] = "RSRC_TEAM"
        <4>1. TasksOf(q, n) = TasksOf(k, n)
          BY <1>3, <1>9, <1>12, <1>20 DEF TasksOf, RSRC_NONE
        <4> QED BY <4>1, <3>1, <3>2, <1>3, <1>9, <1>12, <1>20 DEF TeamSound, Is, RSRC_NONE
      <3>3. CASE k.rsrc.type[n] # "RSRC_TEAM"
        <4>1. q.rsrc.type[n] # "RSRC_TEAM"
          BY <2>2, <3>3, <1>12, <1>20
        <4> QED BY <4>1, <3>1, <3>3 DEF TeamSound
      <3> QED BY <3>2, <3>3
    <2> QED BY <2>1, <2>2 DEF TeamsSound
  <1>23. MembersSound(q)
    <2>1. \A n \in Ids : k.rsrc.type[n] = "RSRC_TEAM" =>
             q.rsrc.type[n] = "RSRC_TEAM" /\ q.team[n].aspace = k.team[n].aspace
      BY <1>3, <1>9, <1>12, <1>16, <1>20 DEF RSRC_NONE
    <2>2. Mapped(q.mem) = Mapped(k.mem)
      BY <1>14, <1>20 DEF Mapped
    <2>3. MemberSound(q, s) /\ MemberSound(q, m)
      BY <1>12, <1>16, <1>20 DEF MemberSound, Is
    <2>4. ASSUME NEW i \in Ids \ {s, m}
          PROVE  MemberSound(q, i)
      <3>1. q.rsrc.type[i] = k.rsrc.type[i] /\ q.rsrc.owner[i] = k.rsrc.owner[i]
        BY <2>4, <1>12, <1>20
      <3>2. i \in Mapped(k.mem) => i \in Mapped(q.mem)
        BY <2>2
      <3>3. MembersSound(k) /\ i \in Ids
        BY <1>1, <2>4
      <3> QED BY <2>1, <3>1, <3>2, <3>3, MemberStays
    <2>5. ASSUME NEW x \in Ids, NEW a \in q.mem.areas[x]
          PROVE  q.rsrc.type[a] = "RSRC_AREA" /\ q.rsrc.type[x] = "RSRC_ASPACE"
      <3>1. a \in k.mem.areas[x] /\ a \in Ids
        BY <2>5, <1>1, <1>14, <1>20
      <3>2. k.rsrc.type[a] = "RSRC_AREA" /\ k.rsrc.type[x] = "RSRC_ASPACE"
        BY <3>1, <1>1, AreaIn
      <3> QED BY <3>1, <3>2, <1>3, <1>9, <1>12, <1>20 DEF RSRC_NONE
    <2> QED BY <2>3, <2>4, <2>5 DEF MembersSound, AreasInSpaces
  <1>24. PortsSound(q)
    <2>1. ASSUME NEW n \in Ids
          PROVE  PortSound(q, n)
      <3>1. PortSound(k, n) /\ Slaves(q, n) = Slaves(k, n) /\ q.port[n] = k.port[n]
        BY <1>1, <1>20 DEF PortsSound, Slaves
      <3>2. CASE k.rsrc.type[n] = "RSRC_PORT"
        BY <3>1, <3>2, <1>3, <1>9, <1>12, <1>20 DEF PortSound, Is, RSRC_NONE
      <3>3. CASE k.rsrc.type[n] # "RSRC_PORT"
        <4>1. q.rsrc.type[n] # "RSRC_PORT"
          BY <3>3, <1>12, <1>20
        <4> QED BY <4>1, <3>1, <3>3 DEF PortSound
      <3> QED BY <3>2, <3>3
    <2>2. \A n \in Ids : /\ q.rsrc.type[n] = "RSRC_PORT" <=> k.rsrc.type[n] = "RSRC_PORT"
                         /\ q.rsrc.type[n] = "RSRC_QUEUE" <=> k.rsrc.type[n] = "RSRC_QUEUE"
      BY <1>3, <1>9, <1>12, <1>20 DEF RSRC_NONE
    <2> QED BY <2>1, <2>2, <1>1, <1>20 DEF PortsSound
  <1>25. CountsSound(q)
    <2>1. /\ Having(q, "RSRC_ASPACE") = Having(k, "RSRC_ASPACE") \cup {s}
          /\ Having(q, "RSRC_TASK") = Having(k, "RSRC_TASK")
          /\ s \notin Having(k, "RSRC_ASPACE")
      BY <1>3, <1>9, <1>12, <1>20 DEF Having, RSRC_NONE
    <2>2. /\ IsFiniteSet(Having(k, "RSRC_TASK")) /\ IsFiniteSet(Having(k, "RSRC_ASPACE"))
          /\ Cardinality(Having(k, "RSRC_TASK")) \in Nat
          /\ Cardinality(Having(k, "RSRC_ASPACE")) \in Nat
      BY Names, FS_Subset, FS_CardinalityType DEF Having
    <2>3. Cardinality(Having(q, "RSRC_ASPACE")) = Cardinality(Having(k, "RSRC_ASPACE")) + 1
      BY <2>1, <2>2, FS_AddElement
    <2> QED BY <2>1, <2>2, <2>3, <1>1, <1>14, <1>20 DEF CountsSound
  <1>26. Sound(q)
    BY <1>11, <1>14, <1>19, <1>20, <1>22, <1>23, <1>24, <1>25 DEF Sound
  <1>27. q.team[m] # k.team[m]
    <2>1. k.team[m] = NoTeamRecord
      BY <1>9, <1>21 DEF TeamSound, RSRC_NONE
    <2>2. s # 0
      BY DEF Ids
    <2> QED BY <2>1, <2>2, <1>16, <1>20 DEF NoTeamRecord
  <1>28. /\ \A n \in Ids \ {m} : /\ q.team[n] = k.team[n]
                                 /\ q.rsrc.type[n] = "RSRC_TEAM" => k.rsrc.type[n] = "RSRC_TEAM"
         /\ \A i \in Ids : k.rsrc.type[i] # RSRC_NONE => q.rsrc.type[i] = k.rsrc.type[i]
    BY <1>3, <1>9, <1>12, <1>16, <1>20
  <1>29. Cardinality(q.rsrc.rfree) >= Cardinality(k.rsrc.rfree) - 2
    BY <1>2, <1>6, <1>8, <1>11, <1>20
  <1> QED BY <1>9, <1>12, <1>13, <1>17, <1>20, <1>26, <1>27, <1>28, <1>29

-----------------------------------------------------------------------------
(* The destruction of spaces.                                              *)

(* aspace_destroy(): aspace.c, the states it goes through.                 *)
Unmap(k, s) ==
    CHOOSE unmap : unmap =
        [S \in SUBSET k.mem.areas[s] |->
            IF S = {} THEN k
            ELSE LET a == CHOOSE a \in S : TRUE
                 IN  destroy_area(unmap[S \ {a}], s, a)]

(* The member that is taken first.                                         *)
First(S) == CHOOSE a \in S : TRUE

(* A subset without its first member is one smaller.                       *)
LEMMA Smaller ==
    ASSUME NEW A, IsFiniteSet(A), NEW n \in Nat, NEW S \in SUBSET A, S # {},
           Cardinality(S) <= n + 1
    PROVE  /\ First(S) \in S /\ S \ {First(S)} \in SUBSET A
           /\ Cardinality(S \ {First(S)}) <= n
           /\ Cardinality(S \ {First(S)}) = Cardinality(S) - 1
  <1>1. First(S) \in S
    BY DEF First
  <1>2. IsFiniteSet(S) /\ Cardinality(S) \in Nat
    BY FS_Subset, FS_CardinalityType
  <1>3. Cardinality(S \ {First(S)}) = Cardinality(S) - 1
    BY <1>1, <1>2, FS_RemoveElement
  <1> QED BY <1>1, <1>2, <1>3

(* What such a function does for each subset of the areas.                 *)
Unmaps(k, s, u) ==
    \A S \in SUBSET k.mem.areas[s] :
        u[S] = IF S = {} THEN k ELSE destroy_area(u[S \ {First(S)}], s, First(S))

(* There is such a function: one for subsets of up to n areas extends to   *)
(* n + 1.                                                                  *)
LEMMA UnmapIs ==
    ASSUME NEW k, NEW s, NEW A, A = k.mem.areas[s], IsFiniteSet(A)
    PROVE  Unmaps(k, s, Unmap(k, s))
  <1> DEFINE Goes(f, S) == IF S = {} THEN k
                           ELSE destroy_area(f[S \ {First(S)}], s, First(S))
             Upto(n)    == {S \in SUBSET A : Cardinality(S) <= n}
             B          == {n \in Nat : \E f : f = [S \in Upto(n) |-> Goes(f, S)]}
  <1>1. 0 \in B
    <2>1. \A S \in Upto(0) : S = {}
      BY FS_Subset, FS_EmptySet, FS_CardinalityType
    <2>2. [S \in Upto(0) |-> k] = [S \in Upto(0) |-> Goes([T \in Upto(0) |-> k], S)]
      BY <2>1
    <2> QED BY <2>2
  <1>2. ASSUME NEW n \in Nat, n \in B
        PROVE  n + 1 \in B
    <2>1. PICK f : f = [S \in Upto(n) |-> Goes(f, S)]
      BY <1>2
    <2>2. PICK g : g = [S \in Upto(n + 1) |-> Goes(f, S)]
      OBVIOUS
    <2>3. ASSUME NEW S \in Upto(n + 1)
          PROVE  Goes(f, S) = Goes(g, S)
      <3>1. CASE S = {}
        BY <3>1
      <3>2. CASE S # {}
        <4>1. S \ {First(S)} \in Upto(n) /\ S \ {First(S)} \in Upto(n + 1)
          <5>1. /\ S \ {First(S)} \in SUBSET A /\ Cardinality(S \ {First(S)}) <= n
                /\ IsFiniteSet(S \ {First(S)})
            BY <2>3, <3>2, Smaller, FS_Subset
          <5>2. Cardinality(S \ {First(S)}) \in Nat
            BY <5>1, FS_CardinalityType
          <5> QED BY <5>1, <5>2
        <4>2. g[S \ {First(S)}] = f[S \ {First(S)}]
          <5>1. PICK T : T = S \ {First(S)}
            OBVIOUS
          <5>2. g[T] = Goes(f, T)
            BY <2>2, <4>1, <5>1
          <5>3. f[T] = Goes(f, T)
            BY <2>1, <4>1, <5>1
          <5> QED BY <5>1, <5>2, <5>3
        <4> QED BY <4>2
      <3> QED BY <3>1, <3>2
    <2>4. g = [S \in Upto(n + 1) |-> Goes(g, S)]
      <3> HIDE DEF Goes, Upto
      <3> QED BY <2>2, <2>3
    <2>5. \E h : h = [S \in Upto(n + 1) |-> Goes(h, S)]
      <3> HIDE DEF Goes, Upto
      <3> QED BY <2>4
    <2> HIDE DEF Goes, Upto
    <2> QED BY <2>5
  <1>3. Cardinality(A) \in B
    <2>1. Nat \subseteq B
      <3> HIDE DEF B
      <3> QED BY <1>1, <1>2, Induction
    <2> QED BY <2>1, FS_CardinalityType
  <1>4. Upto(Cardinality(A)) = SUBSET A
    BY FS_Subset
  <1>5. PICK f : f = [S \in SUBSET A |-> Goes(f, S)]
    BY <1>3, <1>4
  <1>6. Unmap(k, s) = [S \in SUBSET A |-> Goes(Unmap(k, s), S)]
    BY ZenonT(60), <1>5 DEF Unmap, First
  <1> QED BY <1>6 DEF Unmaps

(* From k to q areas S of space s have gone.                               *)
AreasGone(k, q, s, S) ==
    /\ Basic(q) /\ q.team = k.team /\ q.task = k.task /\ q.port = k.port
    /\ q.mem.areas = [k.mem.areas EXCEPT ![s] = @ \ S]
    /\ ResizeWhole => KernelPages(q.mem) = KernelPages(k.mem)
    /\ \A i \in S : q.rsrc.type[i] = RSRC_NONE /\ q.rsrc.owner[i] = NoTeam
    /\ \A i \in Ids \ S : /\ q.rsrc.type[i] = k.rsrc.type[i]
                          /\ q.rsrc.owner[i] = k.rsrc.owner[i]

(* One more area.                                                          *)
LEMMA OneMoreGone ==
    ASSUME NEW k, Basic(k), NEW s \in Ids, NEW T \in SUBSET k.mem.areas[s],
           NEW a \in k.mem.areas[s] \ T, NEW j, AreasGone(k, j, s, T)
    PROVE  AreasGone(k, destroy_area(j, s, a), s, T \cup {a})
  <1>1. /\ k.mem.areas \in [Ids -> SUBSET Ids] /\ a \in Ids
        /\ Basic(j) /\ j.team = k.team /\ j.task = k.task /\ j.port = k.port
        /\ j.mem.areas = [k.mem.areas EXCEPT ![s] = @ \ T]
        /\ ResizeWhole => KernelPages(j.mem) = KernelPages(k.mem)
        /\ \A i \in T : j.rsrc.type[i] = RSRC_NONE /\ j.rsrc.owner[i] = NoTeam
        /\ \A i \in Ids \ T : /\ j.rsrc.type[i] = k.rsrc.type[i]
                              /\ j.rsrc.owner[i] = k.rsrc.owner[i]
    BY DEF AreasGone, Basic, TableStates, MemStates
  <1>2. a \in j.mem.areas[s]
    BY <1>1
  <1>3. PICK q : q = destroy_area(j, s, a)
    OBVIOUS
  <1>4. AreaGone(j, q, s, a)
    BY <1>1, <1>2, <1>3, AreaGoes
  <1>5. /\ Basic(q) /\ q.team = k.team /\ q.task = k.task /\ q.port = k.port
        /\ ResizeWhole => KernelPages(q.mem) = KernelPages(k.mem)
        /\ q.mem.areas = [j.mem.areas EXCEPT ![s] = @ \ {a}]
        /\ q.rsrc.type[a] = RSRC_NONE /\ q.rsrc.owner[a] = NoTeam
        /\ \A i \in Ids \ {a} : /\ q.rsrc.type[i] = j.rsrc.type[i]
                                /\ q.rsrc.owner[i] = j.rsrc.owner[i]
    BY <1>1, <1>4 DEF AreaGone, MemMoves, Named
  <1>6. q.mem.areas = [k.mem.areas EXCEPT ![s] = @ \ (T \cup {a})]
    BY <1>1, <1>5
  <1>7. /\ \A i \in T \cup {a} : q.rsrc.type[i] = RSRC_NONE /\ q.rsrc.owner[i] = NoTeam
        /\ \A i \in Ids \ (T \cup {a}) : /\ q.rsrc.type[i] = k.rsrc.type[i]
                                         /\ q.rsrc.owner[i] = k.rsrc.owner[i]
    BY <1>1, <1>5
  <1>8. AreasGone(k, q, s, T \cup {a})
    BY <1>5, <1>6, <1>7 DEF AreasGone
  <1> QED BY <1>3, <1>8

(* The areas of a space, one after the other.                              *)
LEMMA AreasGo ==
    ASSUME NEW k, Basic(k), NEW s \in Ids
    PROVE  AreasGone(k, Unmap(k, s)[k.mem.areas[s]], s, k.mem.areas[s])
  <1> DEFINE A == k.mem.areas[s]
             B == {n \in Nat : \A S \in SUBSET A :
                      Cardinality(S) <= n => AreasGone(k, Unmap(k, s)[S], s, S)}
  <1>1. /\ k.mem.areas \in [Ids -> SUBSET Ids] /\ A \in SUBSET Ids /\ IsFiniteSet(A)
    <2>1. k.mem.areas \in [Ids -> SUBSET Ids]
      BY DEF Basic, TableStates, MemStates
    <2>2. A \in SUBSET Ids
      BY <2>1
    <2> QED BY <2>1, <2>2, Names, FS_Subset
  <1>2. \A S \in SUBSET A :
           Unmap(k, s)[S] = IF S = {} THEN k
                            ELSE destroy_area(Unmap(k, s)[S \ {First(S)}], s, First(S))
    <2>1. Unmaps(k, s, Unmap(k, s))
      BY <1>1, UnmapIs
    <2> QED BY <2>1 DEF Unmaps
  <1>3. AreasGone(k, Unmap(k, s)[{}], s, {})
    <2>1. Unmap(k, s)[{}] = k
      BY <1>2
    <2>2. AreasGone(k, k, s, {})
      BY <1>1 DEF AreasGone
    <2> QED BY <2>1, <2>2
  <1>4. 0 \in B
    <2>1. ASSUME NEW S \in SUBSET A, Cardinality(S) <= 0
          PROVE  AreasGone(k, Unmap(k, s)[S], s, S)
      <3>1. IsFiniteSet(S) /\ Cardinality(S) \in Nat
        BY <1>1, FS_Subset, FS_CardinalityType
      <3>2. S = {}
        BY <2>1, <3>1, FS_EmptySet
      <3> QED BY <3>2, <1>3
    <2> QED BY <2>1
  <1>5. ASSUME NEW n \in Nat, n \in B
        PROVE  n + 1 \in B
    <2>1. ASSUME NEW S \in SUBSET A, Cardinality(S) <= n + 1
          PROVE  AreasGone(k, Unmap(k, s)[S], s, S)
      <3>1. CASE S = {}
        BY <3>1, <1>3
      <3>2. CASE S # {}
        <4>1. PICK a, T : a = First(S) /\ T = S \ {First(S)}
          OBVIOUS
        <4>2. a \in S /\ T \in SUBSET A /\ Cardinality(T) <= n
          BY <1>1, <2>1, <3>2, <4>1, Smaller
        <4>3. AreasGone(k, Unmap(k, s)[T], s, T)
          BY <1>5, <4>2
        <4>4. Unmap(k, s)[S] = destroy_area(Unmap(k, s)[T], s, a)
          BY <1>2, <3>2, <4>1
        <4>5. a \in A \ T /\ T \cup {a} = S
          BY <4>1, <4>2
        <4>6. AreasGone(k, destroy_area(Unmap(k, s)[T], s, a), s, T \cup {a})
          BY <4>2, <4>3, <4>5, OneMoreGone
        <4> QED BY <4>4, <4>5, <4>6
      <3> QED BY <3>1, <3>2
    <2> QED BY <2>1
  <1>6. Nat \subseteq B
    <2> HIDE DEF B
    <2> QED BY <1>4, <1>5, Induction
  <1>7. Cardinality(A) \in B /\ Cardinality(A) \in Nat
    BY <1>1, <1>6, FS_CardinalityType
  <1> QED BY <1>7

(* From k to q space s has gone, with its areas.                           *)
SpaceGone(k, q, s) ==
    /\ Basic(q) /\ q.team = k.team /\ q.task = k.task /\ q.port = k.port
    /\ q.mem.areas = [k.mem.areas EXCEPT ![s] = {}]
    /\ ResizeWhole => KernelPages(q.mem) = KernelPages(k.mem) - 2
    /\ \A i \in {s} \cup k.mem.areas[s] :
          q.rsrc.type[i] = RSRC_NONE /\ q.rsrc.owner[i] = NoTeam
    /\ \A i \in Ids \ ({s} \cup k.mem.areas[s]) :
          q.rsrc.type[i] = k.rsrc.type[i] /\ q.rsrc.owner[i] = k.rsrc.owner[i]

(* aspace_destroy(): aspace.c.                                             *)
LEMMA SpaceGoes ==
    ASSUME NEW k, Basic(k), NEW s \in Ids
    PROVE  SpaceGone(k, destroy_space(k, s), s)
  <1>1. PICK b : b = Unmap(k, s)[k.mem.areas[s]]
    OBVIOUS
  <1>2. AreasGone(k, b, s, k.mem.areas[s])
    BY <1>1, AreasGo
  <1>3. /\ b \in TableStates /\ TableSound(b.rsrc) /\ MemSound(b.mem)
        /\ b.mem.areas = [k.mem.areas EXCEPT ![s] = @ \ k.mem.areas[s]]
    BY <1>2 DEF AreasGone, Basic
  <1>4. PICK R : R = rsrc_release(b.rsrc, s)
    OBVIOUS
  <1>5. TableSound(R) /\ Named(b.rsrc, R, s, RSRC_NONE, NoTeam)
    BY <1>3, <1>4, ReleaseSound
  <1>6. PICK M : M = aspace_destroy(b.mem)
    OBVIOUS
  <1>7. MemSound(M) /\ M.areas = b.mem.areas /\ KernelPages(M) = KernelPages(b.mem) + (-2)
    <2>1. Counts(b.mem, M, -2)
      BY <1>3, <1>6, KernelPagesSound DEF aspace_destroy
    <2> QED BY <2>1 DEF Counts
  <1>8. R \in RsrcStates /\ M \in MemStates
    BY <1>5, <1>7 DEF TableSound, MemSound, GroupsSound
  <1>9. PICK q : q = [b EXCEPT !.rsrc = R, !.mem = M]
    OBVIOUS
  <1>10. With(b, q, R, M)
    BY <1>3, <1>8, <1>9, SetTwo
  <1>11. destroy_space(k, s) = q
    <2>1. destroy_space(k, s) = [b EXCEPT !.rsrc = rsrc_release(@, s),
                                          !.mem  = aspace_destroy(@)]
      BY <1>1, Zenon DEF destroy_space, Unmap
    <2> QED BY <2>1, <1>3, <1>4, <1>6, <1>9 DEF TableStates
  <1>12. KernelPages(b.mem) \in Int
    <2>1. IsFiniteSet(Pages \ b.mem.free) /\ b.mem.used \in Int
      <3>1. IsFiniteSet(Pages)
        BY AreasAssumption, FS_Interval DEF Pages
      <3> QED BY <3>1, <1>3, FS_Difference DEF MemSound, GroupsSound, MemStates
    <2> QED BY <2>1, FS_CardinalityType DEF KernelPages
  <1>13. q.mem.areas = [k.mem.areas EXCEPT ![s] = {}]
    BY <1>3, <1>7, <1>10 DEF With
  <1>14. ResizeWhole => KernelPages(q.mem) = KernelPages(k.mem) - 2
    BY <1>2, <1>7, <1>10, <1>12 DEF With, AreasGone
  <1>15. /\ \A i \in {s} \cup k.mem.areas[s] :
               q.rsrc.type[i] = RSRC_NONE /\ q.rsrc.owner[i] = NoTeam
         /\ \A i \in Ids \ ({s} \cup k.mem.areas[s]) :
               q.rsrc.type[i] = k.rsrc.type[i] /\ q.rsrc.owner[i] = k.rsrc.owner[i]
    <2>1. k.mem.areas[s] \subseteq Ids
      BY DEF Basic, TableStates, MemStates
    <2> QED BY <2>1, <1>2, <1>5, <1>10 DEF With, Named, AreasGone
  <1>16. Basic(q) /\ q.team = k.team /\ q.task = k.task /\ q.port = k.port
    BY <1>2, <1>5, <1>7, <1>10 DEF With, Basic, AreasGone
  <1>17. SpaceGone(k, q, s)
    BY <1>13, <1>14, <1>15, <1>16 DEF SpaceGone
  <1> QED BY <1>11, <1>17

-----------------------------------------------------------------------------
(* The destruction of teams.                                               *)

(* team_destroy(): team.c:29, one step, and the states it goes through.    *)
Torn1(j, m, i) ==
    IF i \notin j.rsrc.resources[m] THEN j
    ELSE destroy_owned([j EXCEPT !.rsrc = rsrc_set_owner(@, i, NoTeam)], i)
Tear(k, m) ==
    CHOOSE tear : tear =
        [S \in SUBSET k.rsrc.resources[m] |->
            IF S = {} THEN k ELSE Torn1(tear[S \ {First(S)}], m, First(S))]

(* What such a function does for each subset of the list.                  *)
Tears(k, m, u) ==
    \A S \in SUBSET k.rsrc.resources[m] :
        u[S] = IF S = {} THEN k ELSE Torn1(u[S \ {First(S)}], m, First(S))

(* There is such a function, as for the areas of a space.                  *)
LEMMA TearIs ==
    ASSUME NEW k, NEW m, NEW A, A = k.rsrc.resources[m], IsFiniteSet(A)
    PROVE  Tears(k, m, Tear(k, m))
  <1> DEFINE Goes(f, S) == IF S = {} THEN k ELSE Torn1(f[S \ {First(S)}], m, First(S))
             Upto(n)    == {S \in SUBSET A : Cardinality(S) <= n}
             B          == {n \in Nat : \E f : f = [S \in Upto(n) |-> Goes(f, S)]}
  <1>1. 0 \in B
    <2>1. \A S \in Upto(0) : S = {}
      BY FS_Subset, FS_EmptySet, FS_CardinalityType
    <2>2. [S \in Upto(0) |-> k] = [S \in Upto(0) |-> Goes([T \in Upto(0) |-> k], S)]
      BY <2>1
    <2> QED BY <2>2
  <1>2. ASSUME NEW n \in Nat, n \in B
        PROVE  n + 1 \in B
    <2>1. PICK f : f = [S \in Upto(n) |-> Goes(f, S)]
      BY <1>2
    <2>2. PICK g : g = [S \in Upto(n + 1) |-> Goes(f, S)]
      OBVIOUS
    <2>3. ASSUME NEW S \in Upto(n + 1)
          PROVE  Goes(f, S) = Goes(g, S)
      <3>1. CASE S = {}
        BY <3>1
      <3>2. CASE S # {}
        <4>1. S \ {First(S)} \in Upto(n) /\ S \ {First(S)} \in Upto(n + 1)
          <5>1. /\ S \ {First(S)} \in SUBSET A /\ Cardinality(S \ {First(S)}) <= n
                /\ IsFiniteSet(S \ {First(S)})
            BY <2>3, <3>2, Smaller, FS_Subset
          <5>2. Cardinality(S \ {First(S)}) \in Nat
            BY <5>1, FS_CardinalityType
          <5> QED BY <5>1, <5>2
        <4>2. g[S \ {First(S)}] = f[S \ {First(S)}]
          <5>1. PICK T : T = S \ {First(S)}
            OBVIOUS
          <5>2. g[T] = Goes(f, T)
            BY <2>2, <4>1, <5>1
          <5>3. f[T] = Goes(f, T)
            BY <2>1, <4>1, <5>1
          <5> QED BY <5>1, <5>2, <5>3
        <4> QED BY <4>2
      <3> QED BY <3>1, <3>2
    <2>4. g = [S \in Upto(n + 1) |-> Goes(g, S)]
      <3> HIDE DEF Goes, Upto
      <3> QED BY <2>2, <2>3
    <2>5. \E h : h = [S \in Upto(n + 1) |-> Goes(h, S)]
      <3> HIDE DEF Goes, Upto
      <3> QED BY <2>4
    <2> HIDE DEF Goes, Upto
    <2> QED BY <2>5
  <1>3. Cardinality(A) \in B
    <2>1. Nat \subseteq B
      <3> HIDE DEF B
      <3> QED BY <1>1, <1>2, Induction
    <2> QED BY <2>1, FS_CardinalityType
  <1>4. Upto(Cardinality(A)) = SUBSET A
    BY FS_Subset
  <1>5. PICK f : f = [S \in SUBSET A |-> Goes(f, S)]
    BY <1>3, <1>4
  <1>6. Tear(k, m) = [S \in SUBSET A |-> Goes(Tear(k, m), S)]
    <2> HIDE DEF Upto, B
    <2> QED BY <1>5, Zenon DEF Tear
  <1> QED BY <1>6 DEF Tears

(* What has gone once the resources S of m's list have been taken off.     *)
Released(k, S, p) == p \in S /\ k.rsrc.type[p] = "RSRC_PORT" /\ k.port[p].refcount = 1
Gone(k, m, S, i) ==
    \/ i \in S /\ k.rsrc.type[i] \in {"RSRC_SEM", "RSRC_ASPACE"}
    \/ k.team[m].aspace \in S /\ i \in k.mem.areas[k.team[m].aspace]
    \/ Released(k, S, i)
    \/ \E p \in Ids : Released(k, S, p) /\ k.port[p].sendqueue = i

IdsTorn(k, m, S, j) ==
    \A i \in Ids :
        IF Gone(k, m, S, i) THEN j.rsrc.type[i] = RSRC_NONE /\ j.rsrc.owner[i] = NoTeam
        ELSE /\ j.rsrc.type[i] = k.rsrc.type[i]
             /\ j.rsrc.owner[i] = IF i \in S THEN NoTeam ELSE k.rsrc.owner[i]

Torn(k, m, S, j) ==
    /\ Basic(j) /\ j.team = k.team /\ j.task = k.task
    /\ j.mem.areas = [s \in Ids |-> IF s = k.team[m].aspace /\ s \in S THEN {}
                                    ELSE k.mem.areas[s]]
    /\ ResizeWhole => KernelPages(j.mem) = KernelPages(k.mem)
                                           - (IF k.team[m].aspace \in S THEN 2 ELSE 0)
    /\ \A p \in Ids : j.port[p] = IF Released(k, S, p) THEN NoPortRecord ELSE k.port[p]
    /\ IdsTorn(k, m, S, j)

(* From j to q the identifiers D were given back and i has no owner.       *)
Drops(j, q, i, D) ==
    /\ \A x \in D : q.rsrc.type[x] = RSRC_NONE /\ q.rsrc.owner[x] = NoTeam
    /\ \A x \in Ids \ D : /\ q.rsrc.type[x] = j.rsrc.type[x]
                          /\ q.rsrc.owner[x] = IF x = i THEN NoTeam ELSE j.rsrc.owner[x]

(* The table follows.                                                      *)
LEMMA IdsFollow ==
    ASSUME NEW k, NEW m, NEW T, NEW i \in Ids, NEW j, NEW q, NEW D,
           IdsTorn(k, m, T, j), Drops(j, q, i, D),
           \A x \in Ids : Gone(k, m, T \cup {i}, x) => Gone(k, m, T, x) \/ x \in D,
           \A x \in Ids : Gone(k, m, T, x) \/ x \in D => Gone(k, m, T \cup {i}, x)
    PROVE  IdsTorn(k, m, T \cup {i}, q)
  <1>1. ASSUME NEW x \in Ids, Gone(k, m, T \cup {i}, x)
        PROVE  q.rsrc.type[x] = RSRC_NONE /\ q.rsrc.owner[x] = NoTeam
    <2>1. CASE x \in D
      BY <2>1 DEF Drops
    <2>2. CASE x \notin D
      <3>1. Gone(k, m, T, x)
        BY <1>1, <2>2
      <3>2. j.rsrc.type[x] = RSRC_NONE /\ j.rsrc.owner[x] = NoTeam
        BY <3>1 DEF IdsTorn
      <3> QED BY <2>2, <3>2 DEF Drops
    <2> QED BY <2>1, <2>2
  <1>2. ASSUME NEW x \in Ids, ~Gone(k, m, T \cup {i}, x)
        PROVE  /\ q.rsrc.type[x] = k.rsrc.type[x]
               /\ q.rsrc.owner[x] = IF x \in T \cup {i} THEN NoTeam ELSE k.rsrc.owner[x]
    <2>1. x \notin D /\ ~Gone(k, m, T, x)
      BY <1>2
    <2>2. /\ j.rsrc.type[x] = k.rsrc.type[x]
          /\ j.rsrc.owner[x] = IF x \in T THEN NoTeam ELSE k.rsrc.owner[x]
      BY <2>1 DEF IdsTorn
    <2> QED BY <2>1, <2>2 DEF Drops
  <1> QED BY <1>1, <1>2 DEF IdsTorn

(* The same when nothing was given back.                                   *)
LEMMA IdsStay ==
    ASSUME NEW k, NEW m, NEW T, NEW i \in Ids, NEW j, NEW q,
           IdsTorn(k, m, T, j), Drops(j, q, i, {}),
           \A x \in Ids : Gone(k, m, T \cup {i}, x) <=> Gone(k, m, T, x)
    PROVE  IdsTorn(k, m, T \cup {i}, q)
  <1> DEFINE D == {}
  <1>1. /\ Drops(j, q, i, D)
        /\ \A x \in Ids : Gone(k, m, T \cup {i}, x) => Gone(k, m, T, x) \/ x \in D
        /\ \A x \in Ids : Gone(k, m, T, x) \/ x \in D => Gone(k, m, T \cup {i}, x)
    OBVIOUS
  <1> HIDE DEF D
  <1> QED BY <1>1, IdsFollow

(* The pages of RAM that are in use can be counted.                        *)
LEMMA PagesFinite ==
    \A M \in MemStates : M.used - Cardinality(Pages \ M.free) \in Int
  <1>1. ASSUME NEW M \in MemStates
        PROVE  M.used - Cardinality(Pages \ M.free) \in Int
    <2>1. IsFiniteSet(Pages)
      BY AreasAssumption, FS_Interval DEF Pages
    <2>2. IsFiniteSet(Pages \ M.free) /\ M.used \in Int
      BY <2>1, FS_Difference DEF MemStates
    <2> QED BY <2>2, FS_CardinalityType
  <1> QED BY <1>1

(* A team whose last thread has gone, and what it owns.                    *)
Dying(k, m) == /\ Sound(k) /\ m \in Ids /\ k.rsrc.type[m] = "RSRC_TEAM"
               /\ TasksOf(k, m) = {}
Owning(k, m, s) ==
    /\ s \in Ids /\ s = k.team[m].aspace /\ k.rsrc.type[s] = "RSRC_ASPACE"
    /\ k.rsrc.owner[s] = m
    /\ \A i \in Ids : k.rsrc.owner[i] = m =>
          /\ k.rsrc.type[i] \in {"RSRC_SEM", "RSRC_ASPACE", "RSRC_AREA", "RSRC_PORT",
                                 "RSRC_QUEUE"}
          /\ k.rsrc.type[i] = "RSRC_ASPACE" => i = s
          /\ k.rsrc.type[i] = "RSRC_PORT" =>
                /\ k.port[i].sendqueue \in Ids
                /\ k.rsrc.type[k.port[i].sendqueue] = "RSRC_QUEUE"
                /\ k.rsrc.owner[k.port[i].sendqueue] = m
    /\ \A a \in k.mem.areas[s] : a \in Ids /\ k.rsrc.type[a] = "RSRC_AREA"

(* The kinds a team without threads may own.                               *)
LEMMA DyingOwns ==
    ASSUME NEW k, NEW m, Dying(k, m)
    PROVE  \E s : Owning(k, m, s)
  <1>1. /\ m \in Ids /\ k.rsrc.type[m] = "RSRC_TEAM" /\ TasksOf(k, m) = {}
        /\ TeamsSound(k) /\ MembersSound(k) /\ PortsSound(k) /\ TableSound(k.rsrc)
        /\ k.rsrc \in RsrcStates /\ k.mem.areas \in [Ids -> SUBSET Ids]
    BY DEF Dying, Sound, TableSound, TableStates, MemStates
  <1>2. PICK s \in Ids : /\ s = k.team[m].aspace /\ k.rsrc.type[s] = "RSRC_ASPACE"
                         /\ k.rsrc.owner[s] = m
    BY <1>1 DEF TeamsSound, TeamSound, Is
  <1>3. ASSUME NEW i \in Ids, k.rsrc.owner[i] = m
        PROVE  /\ k.rsrc.type[i] \in {"RSRC_SEM", "RSRC_ASPACE", "RSRC_AREA", "RSRC_PORT",
                                      "RSRC_QUEUE"}
               /\ k.rsrc.type[i] = "RSRC_ASPACE" => i = s
               /\ k.rsrc.type[i] = "RSRC_PORT" =>
                     /\ k.port[i].sendqueue \in Ids
                     /\ k.rsrc.type[k.port[i].sendqueue] = "RSRC_QUEUE"
                     /\ k.rsrc.owner[k.port[i].sendqueue] = m
    <2>1. k.rsrc.type[i] \in Kinds \cup {RSRC_NONE}
      BY <1>1 DEF RsrcStates
    <2>2. k.rsrc.type[i] # RSRC_NONE
      BY <1>1, <1>3, Names DEF TableSound
    <2>3. k.rsrc.type[i] # "RSRC_TASK"
      BY <1>1, <1>3 DEF TasksOf
    <2>4. k.rsrc.type[i] # "RSRC_TEAM"
      BY <1>1, <1>3, Names DEF TeamsSound, TeamSound
    <2>5. k.rsrc.type[i] = "RSRC_ASPACE" => i = s
      BY <1>1, <1>2, <1>3, MemberOf
    <2>6. k.rsrc.type[i] = "RSRC_PORT" =>
             /\ k.port[i].sendqueue \in Ids
             /\ k.rsrc.type[k.port[i].sendqueue] = "RSRC_QUEUE"
             /\ k.rsrc.owner[k.port[i].sendqueue] = m
      BY <1>1, <1>3 DEF PortsSound, PortSound, Is
    <2> QED BY <2>1, <2>2, <2>3, <2>4, <2>5, <2>6 DEF Kinds
  <1>4. \A a \in k.mem.areas[s] : a \in Ids /\ k.rsrc.type[a] = "RSRC_AREA"
    BY <1>1, <1>2, AreaIn
  <1> QED BY <1>2, <1>3, <1>4 DEF Owning

(* One more of what it owns.                                               *)
LEMMA OneMoreTorn ==
    ASSUME NEW k, NEW m, Dying(k, m), NEW T \in SUBSET k.rsrc.resources[m],
           NEW i \in k.rsrc.resources[m] \ T, NEW j, Torn(k, m, T, j)
    PROVE  Torn(k, m, T \cup {i}, Torn1(j, m, i))
  <1>1. /\ m \in Ids /\ k.rsrc.type[m] = "RSRC_TEAM"
        /\ TableSound(k.rsrc) /\ k.mem.areas \in [Ids -> SUBSET Ids]
        /\ k.rsrc.resources[m] = {x \in Ids : k.rsrc.owner[x] = m}
    <2>1. /\ m \in Ids /\ k.rsrc.type[m] = "RSRC_TEAM"
          /\ TableSound(k.rsrc) /\ k.mem.areas \in [Ids -> SUBSET Ids]
      BY DEF Dying, Sound, TableStates, MemStates
    <2> QED BY <2>1, Names DEF TableSound, OwnersAgreeIn
  <1>2. PICK s : Owning(k, m, s)
    BY DyingOwns
  <1>3. /\ i \in Ids /\ k.rsrc.owner[i] = m /\ i \notin T
        /\ \A x \in T : x \in Ids /\ k.rsrc.owner[x] = m
        /\ s \in Ids /\ s = k.team[m].aspace /\ k.rsrc.type[s] = "RSRC_ASPACE"
    BY <1>1, <1>2 DEF Owning
  <1>4. /\ k.rsrc.type[i] \in {"RSRC_SEM", "RSRC_ASPACE", "RSRC_AREA", "RSRC_PORT",
                               "RSRC_QUEUE"}
        /\ k.rsrc.type[i] = "RSRC_ASPACE" => i = s
        /\ \A x \in Ids : k.rsrc.owner[x] = m /\ k.rsrc.type[x] = "RSRC_PORT" =>
              /\ k.port[x].sendqueue \in Ids
              /\ k.rsrc.type[k.port[x].sendqueue] = "RSRC_QUEUE"
        /\ \A a \in k.mem.areas[s] : a \in Ids /\ k.rsrc.type[a] = "RSRC_AREA"
    BY <1>2, <1>3 DEF Owning
  <1>5. /\ Basic(j) /\ j.team = k.team /\ j.task = k.task
        /\ j.mem.areas = [x \in Ids |-> IF x = s /\ x \in T THEN {} ELSE k.mem.areas[x]]
        /\ ResizeWhole => KernelPages(j.mem) = KernelPages(k.mem)
                                               - (IF s \in T THEN 2 ELSE 0)
        /\ \A p \in Ids : j.port[p] = IF Released(k, T, p) THEN NoPortRecord ELSE k.port[p]
        /\ IdsTorn(k, m, T, j)
        /\ j \in TableStates /\ TableSound(j.rsrc) /\ MemSound(j.mem)
    BY <1>3 DEF Torn, Basic
  <1>6. j.rsrc.resources[m] = {x \in Ids : j.rsrc.owner[x] = m}
    BY <1>1, <1>5, Names DEF TableSound, OwnersAgreeIn
  <1>7. CASE Gone(k, m, T, i)
    <2>1. Torn1(j, m, i) = j
      <3>1. j.rsrc.owner[i] = NoTeam
        BY <1>3, <1>5, <1>7 DEF IdsTorn
      <3>2. i \notin j.rsrc.resources[m]
        BY <3>1, <1>1, <1>6, Names
      <3> QED BY <3>2 DEF Torn1
    <2>2. k.rsrc.type[i] \in {"RSRC_AREA", "RSRC_QUEUE"}
      BY <1>3, <1>4, <1>7 DEF Gone, Released
    <2>3. \A p \in Ids : Released(k, T \cup {i}, p) <=> Released(k, T, p)
      BY <2>2 DEF Released
    <2>4. i # s
      BY <2>2, <1>3
    <2>5. \A x \in Ids : Gone(k, m, T \cup {i}, x) <=> Gone(k, m, T, x)
      BY <2>2, <2>3, <2>4, <1>3 DEF Gone
    <2>6. IdsTorn(k, m, T \cup {i}, j)
      BY <2>5, <1>5, <1>7 DEF IdsTorn
    <2>7. \A p \in Ids : j.port[p] = IF Released(k, T \cup {i}, p) THEN NoPortRecord
                                     ELSE k.port[p]
      BY <2>3, <1>5
    <2>8. s \in T \cup {i} <=> s \in T
      BY <2>4
    <2>9. Torn(k, m, T \cup {i}, j)
      <3>1. j.mem.areas = [x \in Ids |-> IF x = s /\ x \in T \cup {i} THEN {}
                                         ELSE k.mem.areas[x]]
        BY <2>8, <1>5
      <3>2. ResizeWhole => KernelPages(j.mem) = KernelPages(k.mem)
                                               - (IF s \in T \cup {i} THEN 2 ELSE 0)
        BY <2>8, <1>5
      <3>3. Basic(j) /\ j.team = k.team /\ j.task = k.task
        BY <1>5
      <3>4. s = k.team[m].aspace
        BY <1>3
      <3> QED BY <2>6, <2>7, <3>1, <3>2, <3>3, <3>4 DEF Torn
    <2> QED BY <2>1, <2>9
  <1>8. CASE ~Gone(k, m, T, i)
    <2>1. j.rsrc.type[i] = k.rsrc.type[i] /\ j.rsrc.owner[i] = m
      BY <1>3, <1>5, <1>8 DEF IdsTorn
    <2>2. PICK R : R = rsrc_set_owner(j.rsrc, i, NoTeam)
      OBVIOUS
    <2>3. TableSound(R) /\ Named(j.rsrc, R, i, j.rsrc.type[i], NoTeam)
      <3>1. j.rsrc.type[i] # RSRC_NONE /\ NoTeam \in Owners
        BY <2>1, <1>4, Names DEF RSRC_NONE
      <3> QED BY <3>1, <2>2, <1>3, <1>5, SetOwnerSound
    <2>4. PICK b : b = [j EXCEPT !.rsrc = R]
      OBVIOUS
    <2>5. /\ b \in TableStates /\ b.rsrc = R /\ b.mem = j.mem /\ b.team = k.team
          /\ b.task = k.task /\ b.port = j.port
      BY <2>3, <2>4, <1>5 DEF TableStates, TableSound
    <2>6. Basic(b)
      BY <2>3, <2>5, <1>5 DEF Basic
    <2>7. Torn1(j, m, i) = destroy_owned(b, i)
      BY <2>1, <2>2, <2>4, <2>5, <1>3, <1>5, <1>6 DEF Torn1, TableStates
    <2>8. /\ b.rsrc.type[i] = k.rsrc.type[i] /\ b.rsrc.owner[i] = NoTeam
          /\ \A x \in Ids \ {i} : /\ b.rsrc.type[x] = j.rsrc.type[x]
                                  /\ b.rsrc.owner[x] = j.rsrc.owner[x]
      BY <2>1, <2>3, <2>5 DEF Named
    <2>9. \A p \in Ids : Released(k, T \cup {i}, p) <=>
             (Released(k, T, p)
              \/ (p = i /\ k.rsrc.type[i] = "RSRC_PORT" /\ k.port[i].refcount = 1))
      BY DEF Released
    <2>10. ASSUME NEW q, Basic(q), q.team = k.team, q.task = k.task,
                  q.mem = j.mem, k.rsrc.type[i] # "RSRC_ASPACE",
                  \A p \in Ids : q.port[p] = IF Released(k, T \cup {i}, p)
                                             THEN NoPortRecord ELSE k.port[p],
                  IdsTorn(k, m, T \cup {i}, q)
           PROVE  Torn(k, m, T \cup {i}, q)
      <3>1. s = k.team[m].aspace /\ (s \in T \cup {i} <=> s \in T)
        BY <2>10, <1>3
      <3>2. q.mem.areas = [x \in Ids |-> IF x = s /\ x \in T \cup {i} THEN {}
                                        ELSE k.mem.areas[x]]
        BY <3>1, <2>10, <1>5
      <3>3. ResizeWhole => KernelPages(q.mem) = KernelPages(k.mem)
                             - (IF s \in T \cup {i} THEN 2 ELSE 0)
        BY <3>1, <2>10, <1>5
      <3> QED BY <3>1, <3>2, <3>3, <2>10 DEF Torn
    <2>11. CASE k.rsrc.type[i] = "RSRC_SEM"
      <3>1. PICK q : q = sem_destroy(b, i)
        OBVIOUS
      <3>2. TableSound(rsrc_release(R, i)) /\ Named(R, rsrc_release(R, i), i, RSRC_NONE, NoTeam)
        BY <2>3, <1>3, ReleaseSound
      <3>3. /\ q \in TableStates /\ q.rsrc = rsrc_release(R, i) /\ q.mem = j.mem
            /\ q.team = k.team /\ q.task = k.task /\ q.port = j.port
        BY <3>1, <3>2, <2>5 DEF sem_destroy, TableStates, TableSound
      <3>4. Drops(j, q, i, {i})
        BY <3>2, <3>3, <2>5, <2>8 DEF Drops, Named
      <3>5. \A x \in Ids : Gone(k, m, T \cup {i}, x) <=> (Gone(k, m, T, x) \/ x \in {i})
        BY <2>9, <2>11, <1>3 DEF Gone
      <3>6. IdsTorn(k, m, T \cup {i}, q)
        BY <3>4, <3>5, <1>3, <1>5, IdsFollow
      <3>7. Basic(q)
        BY <3>2, <3>3, <1>5 DEF Basic
      <3>8. \A p \in Ids : q.port[p] = IF Released(k, T \cup {i}, p) THEN NoPortRecord
                                       ELSE k.port[p]
        BY <3>3, <2>9, <2>11, <1>5
      <3>9. Torn(k, m, T \cup {i}, q)
        BY <3>3, <3>6, <3>7, <3>8, <2>10, <2>11
      <3>10. destroy_owned(b, i) = q
        BY <3>1, <2>8, <2>11 DEF destroy_owned
      <3> QED BY <3>9, <3>10, <2>7
    <2>12. CASE k.rsrc.type[i] \in {"RSRC_AREA", "RSRC_QUEUE"}
      <3>1. destroy_owned(b, i) = b
        BY <2>8, <2>12 DEF destroy_owned
      <3>2. Drops(j, b, i, {})
        BY <2>1, <2>8 DEF Drops
      <3>3. \A x \in Ids : Gone(k, m, T \cup {i}, x) <=> Gone(k, m, T, x)
        BY <2>9, <2>12, <1>3 DEF Gone
      <3>4. IdsTorn(k, m, T \cup {i}, b)
        BY <3>2, <3>3, <1>3, <1>5, IdsStay
      <3>5. \A p \in Ids : b.port[p] = IF Released(k, T \cup {i}, p) THEN NoPortRecord
                                       ELSE k.port[p]
        BY <2>5, <2>9, <2>12, <1>5
      <3>6. Torn(k, m, T \cup {i}, b)
        BY <3>4, <3>5, <2>5, <2>6, <2>10, <2>12
      <3> QED BY <3>1, <3>6, <2>7
    <2>13. CASE k.rsrc.type[i] = "RSRC_PORT" /\ k.port[i].refcount # 1
      <3>1. ~Released(k, T, i)
        BY <1>3 DEF Released
      <3>2. b.port[i].refcount # 1
        BY <3>1, <2>5, <2>13, <1>3, <1>5
      <3>3. destroy_owned(b, i) = b
        BY <3>2, <2>8, <2>13 DEF destroy_owned, port_destroy
      <3>4. Drops(j, b, i, {})
        BY <2>1, <2>8 DEF Drops
      <3>5. \A x \in Ids : Gone(k, m, T \cup {i}, x) <=> Gone(k, m, T, x)
        BY <2>9, <2>13, <1>3 DEF Gone
      <3>6. IdsTorn(k, m, T \cup {i}, b)
        BY <3>4, <3>5, <1>3, <1>5, IdsStay
      <3>7. \A p \in Ids : b.port[p] = IF Released(k, T \cup {i}, p) THEN NoPortRecord
                                       ELSE k.port[p]
        BY <2>5, <2>9, <2>13, <1>5
      <3>8. Torn(k, m, T \cup {i}, b)
        BY <3>6, <3>7, <2>5, <2>6, <2>10, <2>13
      <3> QED BY <3>3, <3>8, <2>7
    <2>14. CASE k.rsrc.type[i] = "RSRC_PORT" /\ k.port[i].refcount = 1
      <3>1. ~Released(k, T, i)
        BY <1>3 DEF Released
      <3>2. b.port[i] = k.port[i]
        BY <3>1, <2>5, <1>3, <1>5
      <3>3. PICK u \in Ids : u = k.port[i].sendqueue
        BY <2>14, <1>3, <1>4
      <3>4. PICK q : q = port_destroy(b, i)
        OBVIOUS
      <3>5. PortGone(b, q, i)
        <4>1. b \in TableStates /\ TableSound(b.rsrc)
          BY <2>3, <2>5
        <4>2. b.port[i].refcount = 1 /\ u = b.port[i].sendqueue
          BY <3>2, <3>3, <2>14
        <4> QED BY <4>1, <4>2, <3>4, <1>3, PortGoes
      <3>6. /\ q \in TableStates /\ TableSound(q.rsrc) /\ q.mem = j.mem
            /\ q.team = k.team /\ q.task = k.task
            /\ q.port = [j.port EXCEPT ![i] = NoPortRecord]
            /\ \A x \in {i, u} : q.rsrc.type[x] = RSRC_NONE /\ q.rsrc.owner[x] = NoTeam
            /\ \A x \in Ids \ {i, u} : /\ q.rsrc.type[x] = b.rsrc.type[x]
                                       /\ q.rsrc.owner[x] = b.rsrc.owner[x]
        BY <3>2, <3>3, <3>5, <2>5 DEF PortGone
      <3>7. Drops(j, q, i, {i, u})
        BY <3>6, <2>8 DEF Drops
      <3>8. \A x \in Ids : Gone(k, m, T \cup {i}, x) <=> (Gone(k, m, T, x) \/ x \in {i, u})
        BY <3>3, <2>9, <2>14, <1>3 DEF Gone
      <3>9. IdsTorn(k, m, T \cup {i}, q)
        BY <3>7, <3>8, <1>3, <1>5, IdsFollow
      <3>10. Basic(q)
        BY <3>6, <1>5 DEF Basic
      <3>11. \A p \in Ids : q.port[p] = IF Released(k, T \cup {i}, p) THEN NoPortRecord
                                        ELSE k.port[p]
        <4>1. DOMAIN j.port = Ids
          BY <1>5 DEF TableStates
        <4> QED BY ZenonT(60), <4>1, <3>6, <2>9, <2>14, <1>3, <1>5
      <3>12. Torn(k, m, T \cup {i}, q)
        BY <3>6, <3>9, <3>10, <3>11, <2>10, <2>14
      <3>13. destroy_owned(b, i) = q
        BY <3>4, <2>8, <2>14 DEF destroy_owned
      <3> QED BY <3>12, <3>13, <2>7
    <2>15. CASE k.rsrc.type[i] = "RSRC_ASPACE"
      <3>1. i = s /\ s \notin T
        BY <2>15, <1>3, <1>4
      <3>2. b.mem.areas[i] = k.mem.areas[s] /\ b.mem.areas = k.mem.areas
        <4>1. j.mem.areas = k.mem.areas
          BY <3>1, <1>1, <1>5
        <4> QED BY <4>1, <3>1, <2>5
      <3>3. PICK q : q = destroy_space(b, i)
        OBVIOUS
      <3>4. SpaceGone(b, q, i)
        BY <3>3, <2>6, <1>3, SpaceGoes
      <3>5. /\ Basic(q) /\ q.team = k.team /\ q.task = k.task /\ q.port = j.port
            /\ q.mem.areas = [k.mem.areas EXCEPT ![s] = {}]
            /\ ResizeWhole => KernelPages(q.mem) = KernelPages(j.mem) - 2
            /\ \A x \in {s} \cup k.mem.areas[s] :
                  q.rsrc.type[x] = RSRC_NONE /\ q.rsrc.owner[x] = NoTeam
            /\ \A x \in Ids \ ({s} \cup k.mem.areas[s]) :
                  q.rsrc.type[x] = b.rsrc.type[x] /\ q.rsrc.owner[x] = b.rsrc.owner[x]
        BY <3>1, <3>2, <3>4, <2>5 DEF SpaceGone
      <3>6. Drops(j, q, i, {s} \cup k.mem.areas[s])
        BY <3>1, <3>5, <2>8 DEF Drops
      <3>7. \A x \in Ids : Gone(k, m, T \cup {i}, x) <=>
                              (Gone(k, m, T, x) \/ x \in {s} \cup k.mem.areas[s])
        BY <3>1, <2>9, <2>15, <1>3, <1>4 DEF Gone
      <3>8. IdsTorn(k, m, T \cup {i}, q)
        BY <3>6, <3>7, <1>3, <1>5, IdsFollow
      <3>9. \A p \in Ids : q.port[p] = IF Released(k, T \cup {i}, p) THEN NoPortRecord
                                       ELSE k.port[p]
        BY <3>5, <2>9, <2>15, <1>5
      <3>10. q.mem.areas = [x \in Ids |-> IF x = k.team[m].aspace /\ x \in T \cup {i} THEN {}
                                          ELSE k.mem.areas[x]]
        BY ZenonT(60), <3>1, <3>5, <1>1, <1>3
      <3>11. ResizeWhole => KernelPages(q.mem) = KernelPages(k.mem)
                              - (IF k.team[m].aspace \in T \cup {i} THEN 2 ELSE 0)
        <4>1. KernelPages(j.mem) \in Int /\ KernelPages(k.mem) \in Int
          <5>1. \A M \in MemStates : KernelPages(M) \in Int
            BY PagesFinite DEF KernelPages
          <5>2. j.mem \in MemStates /\ k.mem \in MemStates
            BY <1>5 DEF TableStates, Dying, Sound
          <5> QED BY <5>1, <5>2
        <4> QED BY <4>1, <3>1, <3>5, <1>3, <1>5
      <3>12. Torn(k, m, T \cup {i}, q)
        BY <3>5, <3>8, <3>9, <3>10, <3>11 DEF Torn
      <3>13. destroy_owned(b, i) = q
        BY <3>3, <2>8, <2>15 DEF destroy_owned
      <3> QED BY <3>12, <3>13, <2>7
    <2> QED BY <2>11, <2>12, <2>13, <2>14, <2>15, <1>4
  <1> QED BY <1>7, <1>8

(* All of it.                                                              *)
LEMMA AllTorn ==
    ASSUME NEW k, NEW m, Dying(k, m), NEW A, A = k.rsrc.resources[m]
    PROVE  Torn(k, m, A, Tear(k, m)[A])
  <1> DEFINE B == {n \in Nat : \A S \in SUBSET A :
                      Cardinality(S) <= n => Torn(k, m, S, Tear(k, m)[S])}
  <1>1. /\ A \in SUBSET Ids /\ IsFiniteSet(A) /\ m \in Ids
        /\ Basic(k) /\ k.mem.areas \in [Ids -> SUBSET Ids]
    <2>1. /\ m \in Ids /\ m \in Owners /\ k.rsrc \in RsrcStates
          /\ Basic(k) /\ k.mem.areas \in [Ids -> SUBSET Ids]
      BY Names DEF Dying, Sound, TableSound, TableStates, MemStates, Basic
    <2>2. A \in SUBSET Ids
      BY <2>1 DEF RsrcStates
    <2> QED BY <2>1, <2>2, Names, FS_Subset
  <1>2. \A S \in SUBSET A :
           Tear(k, m)[S] = IF S = {} THEN k
                           ELSE Torn1(Tear(k, m)[S \ {First(S)}], m, First(S))
    <2>1. Tears(k, m, Tear(k, m))
      BY <1>1, TearIs
    <2> QED BY <2>1 DEF Tears
  <1>3. Torn(k, m, {}, Tear(k, m)[{}])
    <2>1. Tear(k, m)[{}] = k
      BY <1>2
    <2>2. \A i \in Ids : ~Released(k, {}, i)
      BY DEF Released
    <2>3. TeamSound(k, m) /\ k.rsrc.type[m] = "RSRC_TEAM" /\ k.mem \in MemStates
      BY <1>1 DEF Dying, Sound, TeamsSound, TableStates
    <2>4. PICK s \in Ids : s = k.team[m].aspace
      BY <2>3 DEF TeamSound, Is
    <2>6. \A i \in Ids : ~Gone(k, m, {}, i)
      BY <2>2 DEF Gone
    <2>7. IdsTorn(k, m, {}, k)
      BY <2>6 DEF IdsTorn
    <2>8. KernelPages(k.mem) \in Int
      BY <2>3, PagesFinite DEF KernelPages
    <2>9. k.mem.areas = [x \in Ids |-> IF x = s /\ x \in {} THEN {} ELSE k.mem.areas[x]]
      BY <1>1
    <2>10. Torn(k, m, {}, k)
      BY <2>2, <2>4, <2>7, <2>8, <2>9, <1>1 DEF Torn
    <2> QED BY <2>1, <2>10
  <1>4. 0 \in B
    <2>1. ASSUME NEW S \in SUBSET A, Cardinality(S) <= 0
          PROVE  Torn(k, m, S, Tear(k, m)[S])
      <3>1. IsFiniteSet(S) /\ Cardinality(S) \in Nat
        BY <1>1, FS_Subset, FS_CardinalityType
      <3>2. S = {}
        BY <2>1, <3>1, FS_EmptySet
      <3> QED BY <3>2, <1>3
    <2> QED BY <2>1
  <1>5. ASSUME NEW n \in Nat, n \in B
        PROVE  n + 1 \in B
    <2>1. ASSUME NEW S \in SUBSET A, Cardinality(S) <= n + 1
          PROVE  Torn(k, m, S, Tear(k, m)[S])
      <3>1. CASE S = {}
        BY <3>1, <1>3
      <3>2. CASE S # {}
        <4>1. PICK i, T : i = First(S) /\ T = S \ {First(S)}
          OBVIOUS
        <4>2. i \in S /\ T \in SUBSET A /\ Cardinality(T) <= n
          BY <1>1, <2>1, <3>2, <4>1, Smaller
        <4>3. Torn(k, m, T, Tear(k, m)[T])
          BY <1>5, <4>2
        <4>4. Tear(k, m)[S] = Torn1(Tear(k, m)[T], m, i)
          BY <1>2, <3>2, <4>1
        <4>5. i \in A \ T /\ T \cup {i} = S
          BY <4>1, <4>2
        <4>6. Torn(k, m, T \cup {i}, Torn1(Tear(k, m)[T], m, i))
          BY <4>2, <4>3, <4>5, OneMoreTorn
        <4> QED BY <4>4, <4>5, <4>6
      <3> QED BY <3>1, <3>2
    <2> QED BY <2>1
  <1>6. Nat \subseteq B
    <2> HIDE DEF B
    <2> QED BY <1>4, <1>5, Induction
  <1>7. Cardinality(A) \in B /\ Cardinality(A) \in Nat
    BY <1>1, <1>6, FS_CardinalityType
  <1> QED BY <1>7

(* What stays of m's list: masters with their queues, and areas in the     *)
(* spaces of others.                                                       *)
Stays(k, m, i) ==
    /\ k.rsrc.owner[i] = m
    /\ \/ \E p \in Ids : /\ k.rsrc.type[p] = "RSRC_PORT" /\ k.rsrc.owner[p] = m
                         /\ k.port[p].refcount # 1 /\ i \in {p, k.port[p].sendqueue}
       \/ /\ k.rsrc.type[i] = "RSRC_AREA"
          /\ i \notin k.mem.areas[k.team[m].aspace]
Lost(k, m, i) ==
    \/ i \in k.mem.areas[k.team[m].aspace]
    \/ k.rsrc.owner[i] = m /\ ~Stays(k, m, i)

(* From k to q team m has gone, with its space s.                          *)
TeamGone(k, q, m, s) ==
    /\ Basic(q)
    /\ q.team = [k.team EXCEPT ![m] = NoTeamRecord]
    /\ q.mem.areas = [k.mem.areas EXCEPT ![s] = {}]
    /\ ResizeWhole => KernelPages(q.mem) = KernelPages(k.mem) - 2
    /\ \A p \in Ids : q.port[p] = IF /\ k.rsrc.type[p] = "RSRC_PORT" /\ k.rsrc.owner[p] = m
                                     /\ k.port[p].refcount = 1
                                  THEN NoPortRecord ELSE k.port[p]
    /\ \A i \in Ids \ {m} :
          /\ Lost(k, m, i) => q.rsrc.type[i] = RSRC_NONE /\ q.rsrc.owner[i] = NoTeam
          /\ ~Lost(k, m, i) =>
                /\ q.rsrc.type[i] = k.rsrc.type[i]
                /\ q.rsrc.owner[i] = IF k.rsrc.owner[i] = m THEN NoTeam ELSE k.rsrc.owner[i]
    /\ q.rsrc.type[m] = RSRC_NONE /\ q.rsrc.owner[m] = NoTeam

(* What has gone when all is torn.                                         *)
LEMMA GoneOrStays ==
    ASSUME NEW k, NEW m, Dying(k, m), NEW A, A = {x \in Ids : k.rsrc.owner[x] = m},
           NEW i \in Ids
    PROVE  Gone(k, m, A, i) <=> Lost(k, m, i)
  <1>1. PICK s : Owning(k, m, s)
    BY DyingOwns
  <1>2. /\ s \in Ids /\ s = k.team[m].aspace /\ s \in A
        /\ \A x \in Ids : k.rsrc.owner[x] = m =>
              /\ k.rsrc.type[x] \in {"RSRC_SEM", "RSRC_ASPACE", "RSRC_AREA", "RSRC_PORT",
                                     "RSRC_QUEUE"}
              /\ k.rsrc.type[x] = "RSRC_PORT" =>
                    /\ k.port[x].sendqueue \in Ids
                    /\ k.rsrc.type[k.port[x].sendqueue] = "RSRC_QUEUE"
                    /\ k.rsrc.owner[k.port[x].sendqueue] = m
        /\ \A a \in k.mem.areas[s] : a \in Ids /\ k.rsrc.type[a] = "RSRC_AREA"
    BY <1>1 DEF Owning
  <1>3. PortsSound(k)
    BY DEF Dying, Sound
  <1>4. \A p \in Ids : Released(k, A, p) <=> (/\ k.rsrc.owner[p] = m
                                              /\ k.rsrc.type[p] = "RSRC_PORT"
                                              /\ k.port[p].refcount = 1)
    BY DEF Released
  <1>5. ASSUME i \in k.mem.areas[s]
        PROVE  Gone(k, m, A, i) /\ Lost(k, m, i)
    BY <1>2, <1>5 DEF Gone, Lost
  <1>6. ASSUME i \notin k.mem.areas[s], k.rsrc.owner[i] # m
        PROVE  ~Gone(k, m, A, i) /\ ~Lost(k, m, i)
    BY <1>2, <1>4, <1>6 DEF Gone, Lost
  <1>7. ASSUME i \notin k.mem.areas[s], k.rsrc.owner[i] = m, Stays(k, m, i)
        PROVE  ~Gone(k, m, A, i)
    <2>1. CASE k.rsrc.type[i] = "RSRC_AREA"
      BY <2>1, <1>2, <1>4, <1>7 DEF Gone
    <2>2. CASE k.rsrc.type[i] # "RSRC_AREA"
      <3>1. PICK p \in Ids : /\ k.rsrc.type[p] = "RSRC_PORT" /\ k.rsrc.owner[p] = m
                             /\ k.port[p].refcount # 1 /\ i \in {p, k.port[p].sendqueue}
        BY <2>2, <1>7 DEF Stays
      <3>2. k.rsrc.type[k.port[p].sendqueue] = "RSRC_QUEUE"
        BY <1>2, <3>1
      <3>3. \A x \in Ids : Released(k, A, x) =>
               x # p /\ k.port[x].sendqueue # k.port[p].sendqueue
        BY <1>3, <1>4, <3>1 DEF PortsSound
      <3>4. \A x \in Ids : Released(k, A, x) =>
               k.rsrc.type[x] = "RSRC_PORT" /\ k.rsrc.type[k.port[x].sendqueue] = "RSRC_QUEUE"
        BY <1>2, <1>4
      <3>5. CASE i = p
        <4>1. ~Released(k, A, i) /\ k.rsrc.type[i] = "RSRC_PORT"
          BY <3>1, <3>3, <3>5
        <4> QED BY <4>1, <3>4, <1>2, <1>7 DEF Gone
      <3>6. CASE i = k.port[p].sendqueue
        <4>1. k.rsrc.type[i] = "RSRC_QUEUE"
          BY <3>2, <3>6
        <4> QED BY <4>1, <3>3, <3>4, <3>6, <1>2, <1>7 DEF Gone
      <3> QED BY <3>1, <3>5, <3>6
    <2> QED BY <2>1, <2>2
  <1>8. ASSUME i \notin k.mem.areas[s], k.rsrc.owner[i] = m, ~Stays(k, m, i)
        PROVE  Gone(k, m, A, i)
    <2>1. CASE k.rsrc.type[i] \in {"RSRC_SEM", "RSRC_ASPACE"}
      BY <2>1, <1>2, <1>8 DEF Gone
    <2>2. CASE k.rsrc.type[i] = "RSRC_PORT"
      <3>1. k.port[i].refcount = 1
        BY <2>2, <1>8 DEF Stays
      <3> QED BY <3>1, <2>2, <1>4, <1>8 DEF Gone
    <2>3. CASE k.rsrc.type[i] = "RSRC_QUEUE"
      <3>1. PICK p \in Ids : k.rsrc.type[p] = "RSRC_PORT" /\ k.port[p].sendqueue = i
        BY <2>3, <1>3 DEF PortsSound
      <3>2. k.rsrc.owner[p] = m
        BY <3>1, <1>3, <1>8 DEF PortsSound, PortSound
      <3>3. k.port[p].refcount = 1
        BY <3>1, <3>2, <1>8 DEF Stays
      <3> QED BY <3>1, <3>2, <3>3, <1>4 DEF Gone
    <2>4. k.rsrc.type[i] # "RSRC_AREA"
      BY <1>2, <1>8 DEF Stays
    <2> QED BY <2>1, <2>2, <2>3, <2>4, <1>2, <1>8
  <1> QED BY <1>2, <1>5, <1>6, <1>7, <1>8 DEF Lost

(* team_destroy(): team.c:29.                                              *)
LEMMA TeamGoes ==
    ASSUME NEW k, NEW m, Dying(k, m), NEW s, Owning(k, m, s)
    PROVE  TeamGone(k, team_destroy(k, m), m, s)
  <1>1. /\ m \in Ids /\ k.rsrc.type[m] = "RSRC_TEAM" /\ TableSound(k.rsrc)
        /\ k \in TableStates /\ MemSound(k.mem) /\ TeamsSound(k)
        /\ k.mem.areas \in [Ids -> SUBSET Ids] /\ k.team \in [Ids -> TeamRecs]
        /\ s \in Ids /\ s = k.team[m].aspace /\ k.rsrc.owner[s] = m
    BY DEF Dying, Sound, TableStates, MemStates, Owning
  <1>2. PICK A : A = k.rsrc.resources[m]
    OBVIOUS
  <1>3. A = {x \in Ids : k.rsrc.owner[x] = m}
    BY <1>1, <1>2, Names DEF TableSound, OwnersAgreeIn
  <1>4. PICK b : b = Tear(k, m)[A]
    OBVIOUS
  <1>5. Torn(k, m, A, b)
    BY <1>2, <1>4, AllTorn
  <1>6. /\ Basic(b) /\ b.team = k.team /\ b.task = k.task
        /\ b.mem.areas = [x \in Ids |-> IF x = s /\ x \in A THEN {} ELSE k.mem.areas[x]]
        /\ ResizeWhole => KernelPages(b.mem) = KernelPages(k.mem) - (IF s \in A THEN 2 ELSE 0)
        /\ \A p \in Ids : b.port[p] = IF Released(k, A, p) THEN NoPortRecord ELSE k.port[p]
        /\ IdsTorn(k, m, A, b)
    BY <1>1, <1>5 DEF Torn
  <1>7. /\ b \in TableStates /\ TableSound(b.rsrc) /\ MemSound(b.mem)
    BY <1>6 DEF Basic
  <1>8. PICK R : R = rsrc_release(b.rsrc, m)
    OBVIOUS
  <1>9. TableSound(R) /\ Named(b.rsrc, R, m, RSRC_NONE, NoTeam)
    BY <1>1, <1>7, <1>8, ReleaseSound
  <1>10. PICK q : q = team_destroy(k, m)
    OBVIOUS
  <1>11. q = [b EXCEPT !.rsrc = rsrc_release(@, m), !.team[m] = NoTeamRecord]
    <2>1. team_destroy(k, m) = [Tear(k, m)[k.rsrc.resources[m]] EXCEPT
                                   !.rsrc = rsrc_release(@, m), !.team[m] = NoTeamRecord]
      BY Zenon DEF team_destroy, Tear, Torn1, First
    <2> QED BY <2>1, <1>2, <1>4, <1>10
  <1>12. q = [rsrc |-> R, mem |-> b.mem, team |-> [k.team EXCEPT ![m] = NoTeamRecord],
              task |-> b.task, port |-> b.port]
    BY <1>6, <1>7, <1>8, <1>11 DEF TableStates
  <1>13. q \in TableStates
    <2>1. [k.team EXCEPT ![m] = NoTeamRecord] \in [Ids -> TeamRecs]
      BY <1>1 DEF NoTeamRecord, TeamRecs
    <2>2. R \in RsrcStates /\ b.mem \in MemStates /\ b.task \in [Ids -> Ids \cup {NoArea}]
          /\ b.port \in [Ids -> PortRecs]
      BY <1>7, <1>9 DEF TableSound, TableStates
    <2> QED BY <2>1, <2>2, <1>12, FieldsOf
  <1>14. Basic(q)
    BY <1>7, <1>9, <1>12, <1>13 DEF Basic
  <1>15. s \in A
    BY <1>1, <1>3
  <1>16. q.mem.areas = [k.mem.areas EXCEPT ![s] = {}]
    BY <1>1, <1>6, <1>12, <1>15
  <1>17. ResizeWhole => KernelPages(q.mem) = KernelPages(k.mem) - 2
    BY <1>6, <1>12, <1>15
  <1>18. \A p \in Ids : q.port[p] = IF /\ k.rsrc.type[p] = "RSRC_PORT" /\ k.rsrc.owner[p] = m
                                       /\ k.port[p].refcount = 1
                                    THEN NoPortRecord ELSE k.port[p]
    BY <1>3, <1>6, <1>12 DEF Released
  <1>19. ASSUME NEW i \in Ids \ {m}
         PROVE  /\ Lost(k, m, i) => q.rsrc.type[i] = RSRC_NONE /\ q.rsrc.owner[i] = NoTeam
                /\ ~Lost(k, m, i) =>
                      /\ q.rsrc.type[i] = k.rsrc.type[i]
                      /\ q.rsrc.owner[i] = IF k.rsrc.owner[i] = m THEN NoTeam
                                           ELSE k.rsrc.owner[i]
    <2>1. q.rsrc.type[i] = b.rsrc.type[i] /\ q.rsrc.owner[i] = b.rsrc.owner[i]
      BY <1>9, <1>12 DEF Named
    <2>2. /\ Gone(k, m, A, i) => b.rsrc.type[i] = RSRC_NONE /\ b.rsrc.owner[i] = NoTeam
          /\ ~Gone(k, m, A, i) =>
                /\ b.rsrc.type[i] = k.rsrc.type[i]
                /\ b.rsrc.owner[i] = IF i \in A THEN NoTeam ELSE k.rsrc.owner[i]
      BY <1>6 DEF IdsTorn
    <2>3. Gone(k, m, A, i) <=> Lost(k, m, i)
      BY <1>3, GoneOrStays
    <2> QED BY <2>1, <2>2, <2>3, <1>3
  <1>20. q.rsrc.type[m] = RSRC_NONE /\ q.rsrc.owner[m] = NoTeam
    BY <1>9, <1>12 DEF Named
  <1>21. q.team = [k.team EXCEPT ![m] = NoTeamRecord]
    BY <1>12
  <1>22. TeamGone(k, q, m, s)
    BY <1>14, <1>16, <1>17, <1>18, <1>19, <1>20, <1>21 DEF TeamGone
  <1> QED BY <1>10, <1>22

(* What is left is sound.                                                  *)
LEMMA TeamGoneSound ==
    ASSUME NEW k, NEW m, Dying(k, m), NEW s, Owning(k, m, s), NEW q, TeamGone(k, q, m, s)
    PROVE  Sound(q)
  <1>1. /\ m \in Ids /\ k.rsrc.type[m] = "RSRC_TEAM" /\ TableSound(k.rsrc)
        /\ k \in TableStates /\ MemSound(k.mem)
        /\ TeamsSound(k) /\ MembersSound(k) /\ PortsSound(k) /\ CountsSound(k)
        /\ k.mem.areas \in [Ids -> SUBSET Ids] /\ k.team \in [Ids -> TeamRecs]
        /\ k.port \in [Ids -> PortRecs]
        /\ TasksOf(k, m) = {} /\ k.rsrc.owner[m] = KernelTeam
    BY DEF Dying, Sound, TableStates, MemStates, TeamsSound, TeamSound
  <1>2. /\ s \in Ids /\ s = k.team[m].aspace /\ k.rsrc.type[s] = "RSRC_ASPACE"
        /\ k.rsrc.owner[s] = m
        /\ \A i \in Ids : k.rsrc.owner[i] = m =>
              /\ k.rsrc.type[i] \in {"RSRC_SEM", "RSRC_ASPACE", "RSRC_AREA", "RSRC_PORT",
                                     "RSRC_QUEUE"}
              /\ k.rsrc.type[i] = "RSRC_ASPACE" => i = s
              /\ k.rsrc.type[i] = "RSRC_PORT" =>
                    /\ k.port[i].sendqueue \in Ids
                    /\ k.rsrc.type[k.port[i].sendqueue] = "RSRC_QUEUE"
                    /\ k.rsrc.owner[k.port[i].sendqueue] = m
        /\ \A a \in k.mem.areas[s] : a \in Ids /\ k.rsrc.type[a] = "RSRC_AREA"
    BY DEF Owning
  <1>3. /\ Basic(q)
        /\ q.team = [k.team EXCEPT ![m] = NoTeamRecord]
        /\ q.mem.areas = [k.mem.areas EXCEPT ![s] = {}]
        /\ ResizeWhole => KernelPages(q.mem) = KernelPages(k.mem) - 2
        /\ \A p \in Ids : q.port[p] = IF /\ k.rsrc.type[p] = "RSRC_PORT"
                                         /\ k.rsrc.owner[p] = m
                                         /\ k.port[p].refcount = 1
                                      THEN NoPortRecord ELSE k.port[p]
        /\ \A i \in Ids \ {m} :
              /\ Lost(k, m, i) => q.rsrc.type[i] = RSRC_NONE /\ q.rsrc.owner[i] = NoTeam
              /\ ~Lost(k, m, i) =>
                    /\ q.rsrc.type[i] = k.rsrc.type[i]
                    /\ q.rsrc.owner[i] = IF k.rsrc.owner[i] = m THEN NoTeam
                                         ELSE k.rsrc.owner[i]
        /\ q.rsrc.type[m] = RSRC_NONE /\ q.rsrc.owner[m] = NoTeam
    BY DEF TeamGone
  <1>4. q \in TableStates /\ TableSound(q.rsrc) /\ MemSound(q.mem)
    BY <1>3 DEF Basic
  <1>5. ASSUME NEW i \in Ids, Stays(k, m, i)
        PROVE  /\ k.rsrc.type[i] \in {"RSRC_PORT", "RSRC_QUEUE", "RSRC_AREA"}
               /\ k.rsrc.owner[i] = m /\ i # m /\ ~Lost(k, m, i)
    <2>1. k.rsrc.owner[i] = m
      BY <1>5 DEF Stays
    <2>2. CASE k.rsrc.type[i] = "RSRC_AREA" /\ i \notin k.mem.areas[s]
      BY <2>1, <2>2, <1>1, <1>2, <1>5 DEF Lost
    <2>3. CASE ~(k.rsrc.type[i] = "RSRC_AREA" /\ i \notin k.mem.areas[s])
      <3>1. PICK p \in Ids : /\ k.rsrc.type[p] = "RSRC_PORT" /\ k.rsrc.owner[p] = m
                             /\ i \in {p, k.port[p].sendqueue}
        BY <2>3, <1>2, <1>5 DEF Stays
      <3>2. k.rsrc.type[i] \in {"RSRC_PORT", "RSRC_QUEUE"}
        BY <3>1, <1>2
      <3> QED BY <3>2, <2>1, <1>1, <1>2, <1>5 DEF Lost
    <2> QED BY <2>2, <2>3
  (* What is no port, no queue and no area is as it was, or was m's or m.    *)
  <1>6. ASSUME NEW i \in Ids,
               q.rsrc.type[i] \notin {"RSRC_PORT", "RSRC_QUEUE", "RSRC_AREA", RSRC_NONE}
        PROVE  /\ i # m /\ k.rsrc.owner[i] # m
               /\ q.rsrc.type[i] = k.rsrc.type[i] /\ q.rsrc.owner[i] = k.rsrc.owner[i]
    <2>1. i # m /\ ~Lost(k, m, i)
      BY <1>3, <1>6
    <2>2. q.rsrc.type[i] = k.rsrc.type[i]
      BY <2>1, <1>3
    <2>3. ~Stays(k, m, i)
      BY <2>2, <1>5, <1>6
    <2>4. k.rsrc.owner[i] # m
      BY <2>1, <2>3 DEF Lost
    <2> QED BY <2>1, <2>4, <1>3
  <1>7. ASSUME NEW i \in Ids, i # m, k.rsrc.owner[i] # m, k.rsrc.type[i] # "RSRC_AREA"
        PROVE  q.rsrc.type[i] = k.rsrc.type[i] /\ q.rsrc.owner[i] = k.rsrc.owner[i]
    <2>1. ~Lost(k, m, i)
      BY <1>2, <1>7 DEF Lost
    <2> QED BY <2>1, <1>3, <1>7
  <1>8. m \in Ids /\ m # KernelTeam /\ q.team[m] = NoTeamRecord
        /\ \A n \in Ids \ {m} : q.team[n] = k.team[n]
    BY <1>1, <1>3, Names
  <1>9. TeamsSound(q)
    <2>1. ASSUME NEW n \in Ids
          PROVE  TeamSound(q, n)
      <3>1. TeamSound(k, n)
        BY <1>1 DEF TeamsSound
      <3>2. CASE n = m
        BY <3>2, <1>3, <1>8 DEF TeamSound, RSRC_NONE
      <3>3. CASE n # m /\ k.rsrc.type[n] = "RSRC_TEAM"
        <4>1. /\ k.rsrc.owner[n] = KernelTeam /\ k.team[n].aspace \in Ids
              /\ k.rsrc.type[k.team[n].aspace] = "RSRC_ASPACE"
              /\ k.rsrc.owner[k.team[n].aspace] = n
              /\ k.team[n].refcount = Cardinality(TasksOf(k, n))
          BY <3>1, <3>3 DEF TeamSound, Is
        <4>2. /\ q.rsrc.type[n] = "RSRC_TEAM" /\ q.rsrc.owner[n] = KernelTeam
          BY <4>1, <3>3, <1>7, <1>8
        <4>3. /\ q.rsrc.type[k.team[n].aspace] = "RSRC_ASPACE"
              /\ q.rsrc.owner[k.team[n].aspace] = n
          <5>1. k.team[n].aspace # m
            BY <4>1, <1>1
          <5> QED BY <5>1, <4>1, <3>3, <1>7
        <4>4. TasksOf(q, n) = TasksOf(k, n)
          <5>1. ASSUME NEW t \in Ids
                PROVE  q.rsrc.type[t] = "RSRC_TASK" /\ q.rsrc.owner[t] = n
                          <=> k.rsrc.type[t] = "RSRC_TASK" /\ k.rsrc.owner[t] = n
            <6>1. k.rsrc.type[t] = "RSRC_TASK" => t # m
              BY <1>1
            <6> QED BY <6>1, <3>3, <1>6, <1>7 DEF RSRC_NONE
          <5> QED BY <5>1 DEF TasksOf
        <4> QED BY <4>1, <4>2, <4>3, <4>4, <3>3, <1>8 DEF TeamSound, Is
      <3>4. CASE n # m /\ k.rsrc.type[n] # "RSRC_TEAM"
        <4>1. q.rsrc.type[n] # "RSRC_TEAM"
          BY <3>4, <1>6 DEF RSRC_NONE
        <4> QED BY <4>1, <3>1, <3>4, <1>8 DEF TeamSound
      <3> QED BY <3>2, <3>3, <3>4
    <2> QED BY <2>1 DEF TeamsSound
  <1>10. MembersSound(q)
    <2>1. ASSUME NEW o \in Ids, k.rsrc.type[o] = "RSRC_TEAM", o # m
          PROVE  q.rsrc.type[o] = "RSRC_TEAM" /\ q.team[o] = k.team[o]
      <3>1. k.rsrc.owner[o] = KernelTeam
        BY <2>1, <1>1 DEF TeamsSound, TeamSound
      <3> QED BY <3>1, <2>1, <1>7, <1>8
    <2>2. ASSUME NEW i \in Ids, q.rsrc.type[i] \in {"RSRC_TASK", "RSRC_SEM", "RSRC_ASPACE"}
          PROVE  MemberSound(q, i)
      <3>1. /\ k.rsrc.owner[i] # m
            /\ q.rsrc.type[i] = k.rsrc.type[i] /\ q.rsrc.owner[i] = k.rsrc.owner[i]
        BY <2>2, <1>6 DEF RSRC_NONE
      <3>2. PICK o \in Ids : /\ o = k.rsrc.owner[i] /\ k.rsrc.type[o] = "RSRC_TEAM"
                             /\ k.rsrc.type[i] = "RSRC_ASPACE" => k.team[o].aspace = i
        BY <2>2, <3>1, <1>1, MemberOf
      <3>3. q.rsrc.type[o] = "RSRC_TEAM" /\ q.team[o] = k.team[o]
        BY <3>1, <3>2, <2>1
      <3> QED BY <2>2, <3>1, <3>2, <3>3 DEF MemberSound, Is
    <2>3. ASSUME NEW i \in Ids, q.rsrc.type[i] = "RSRC_AREA"
          PROVE  MemberSound(q, i)
      <3>1. i # m /\ ~Lost(k, m, i) /\ k.rsrc.type[i] = "RSRC_AREA"
        BY <2>3, <1>3 DEF RSRC_NONE
      <3>2. i \in Mapped(k.mem) /\ i \notin k.mem.areas[s]
        BY <3>1, <1>1, <1>2, MemberOf DEF Lost
      <3>3. i \in Mapped(q.mem)
        <4>1. PICK y \in Ids : i \in k.mem.areas[y]
          BY <3>2 DEF Mapped
        <4>2. q.mem.areas[y] = k.mem.areas[y]
          BY <4>1, <3>2, <1>1, <1>3
        <4> QED BY <4>1, <4>2 DEF Mapped
      <3>4. AnyTeam(q, q.rsrc.owner[i])
        <4>1. CASE k.rsrc.owner[i] \in {m, NoTeam}
          BY <4>1, <3>1, <1>3 DEF AnyTeam
        <4>2. CASE k.rsrc.owner[i] \notin {m, NoTeam}
          <5>1. PICK o \in Ids : o = k.rsrc.owner[i] /\ k.rsrc.type[o] = "RSRC_TEAM"
            BY <4>2, <3>1, <1>1, MemberOf
          <5>2. q.rsrc.type[o] = "RSRC_TEAM" /\ q.rsrc.owner[i] = o
            BY <5>1, <4>2, <3>1, <2>1, <1>3
          <5> QED BY <5>2 DEF AnyTeam, Is
        <4> QED BY <4>1, <4>2
      <3> QED BY <2>3, <3>3, <3>4 DEF MemberSound
    <2>4. ASSUME NEW i \in Ids,
                 q.rsrc.type[i] \notin {"RSRC_TASK", "RSRC_SEM", "RSRC_ASPACE", "RSRC_AREA"}
          PROVE  MemberSound(q, i)
      BY <2>4 DEF MemberSound
    <2>5. ASSUME NEW x \in Ids, NEW a \in q.mem.areas[x]
          PROVE  q.rsrc.type[a] = "RSRC_AREA" /\ q.rsrc.type[x] = "RSRC_ASPACE"
      <3>1. x # s /\ a \in k.mem.areas[x]
        <4>1. q.mem.areas[x] = IF x = s THEN {} ELSE k.mem.areas[x]
          <5>1. q.mem.areas = [k.mem.areas EXCEPT ![s] = {}]
            BY <1>3
          <5> QED BY <5>1, <1>1, <1>2, Zenon
        <4> QED BY <4>1, <2>5
      <3>2. k.rsrc.type[a] = "RSRC_AREA" /\ k.rsrc.type[x] = "RSRC_ASPACE" /\ a \in Ids
        BY <3>1, <1>1, AreaIn
      <3>3. a \notin k.mem.areas[s]
        BY <3>1, <3>2, <1>1, <1>2 DEF MemSound, GroupsSound
      <3>4. q.rsrc.type[a] = "RSRC_AREA"
        <4>1. a # m
          BY <3>2, <1>1
        <4>2. ~Lost(k, m, a)
          BY <3>2, <3>3, <1>2 DEF Lost, Stays
        <4> QED BY <4>1, <4>2, <3>2, <1>3
      <3>5. q.rsrc.type[x] = "RSRC_ASPACE"
        <4>1. x # m /\ k.rsrc.owner[x] # m
          BY <3>1, <3>2, <1>1, <1>2
        <4> QED BY <4>1, <3>2, <1>7
      <3> QED BY <3>4, <3>5
    <2> QED BY <2>2, <2>3, <2>4, <2>5 DEF MembersSound, AreasInSpaces
  <1>11. CountsSound(q)
    <2>1. /\ Having(k, "RSRC_ASPACE") = Having(q, "RSRC_ASPACE") \cup {s}
          /\ s \notin Having(q, "RSRC_ASPACE")
      <3>1. ASSUME NEW i \in Ids
            PROVE  k.rsrc.type[i] = "RSRC_ASPACE" <=> (q.rsrc.type[i] = "RSRC_ASPACE" \/ i = s)
        <4>1. k.rsrc.type[i] = "RSRC_ASPACE" => i # m
          BY <1>1
        <4> QED BY <4>1, <1>2, <1>6, <1>7 DEF RSRC_NONE
      <3>2. q.rsrc.type[s] # "RSRC_ASPACE"
        BY <1>2, <1>6 DEF RSRC_NONE
      <3> QED BY <3>1, <3>2, <1>2 DEF Having
    <2>2. Having(q, "RSRC_TASK") = Having(k, "RSRC_TASK")
      <3>1. ASSUME NEW i \in Ids
            PROVE  k.rsrc.type[i] = "RSRC_TASK" <=> q.rsrc.type[i] = "RSRC_TASK"
        <4>1. k.rsrc.type[i] = "RSRC_TASK" => i # m /\ k.rsrc.owner[i] # m
          BY <1>1, <1>2
        <4> QED BY <4>1, <1>6, <1>7 DEF RSRC_NONE
      <3> QED BY <3>1 DEF Having
    <2>3. /\ IsFiniteSet(Having(q, "RSRC_ASPACE"))
          /\ Cardinality(Having(q, "RSRC_ASPACE")) \in Nat
          /\ Cardinality(Having(q, "RSRC_TASK")) \in Nat
      BY Names, FS_Subset, FS_CardinalityType DEF Having
    <2>4. Cardinality(Having(k, "RSRC_ASPACE")) = Cardinality(Having(q, "RSRC_ASPACE")) + 1
      BY <2>1, <2>3, FS_AddElement
    <2> QED BY <2>2, <2>3, <2>4, <1>1, <1>3 DEF CountsSound
  <1>12. \A p \in Ids : k.rsrc.type[p] = "RSRC_PORT" =>
            /\ PortSound(k, p) /\ p # m
            /\ k.port[p].sendqueue \in Ids \ {m} /\ k.port[p].sendqueue # p
            /\ k.rsrc.type[k.port[p].sendqueue] = "RSRC_QUEUE"
            /\ k.rsrc.owner[k.port[p].sendqueue] = k.rsrc.owner[p]
    BY <1>1 DEF PortsSound, PortSound, Is
  <1>13. ASSUME NEW n \in Ids
         PROVE  /\ IsFiniteSet(Slaves(k, n)) /\ Cardinality(Slaves(k, n)) \in Nat
                /\ k.port[n].refcount \in Int
    BY <1>1, Names, FS_Subset, FS_CardinalityType DEF Slaves, PortRecs
  (* A port with a slave is not given back.                                 *)
  <1>14. ASSUME NEW p \in Ids, NEW n \in Ids, k.rsrc.type[p] = "RSRC_PORT", n \in Slaves(k, p)
         PROVE  k.port[p].refcount > 1
    <2>1. k.port[p].refcount > Cardinality(Slaves(k, p))
      BY <1>12, <1>14 DEF PortSound
    <2>2. Cardinality(Slaves(k, p)) # 0
      BY <1>13, <1>14, FS_EmptySet
    <2> QED BY <2>1, <2>2, <1>13
  <1>15. ASSUME NEW p \in Ids, k.rsrc.type[p] = "RSRC_PORT", k.rsrc.owner[p] = m,
                k.port[p].refcount # 1
         PROVE  /\ q.rsrc.type[p] = "RSRC_PORT" /\ q.rsrc.owner[p] = NoTeam
                /\ q.port[p] = k.port[p]
                /\ q.rsrc.type[k.port[p].sendqueue] = "RSRC_QUEUE"
                /\ q.rsrc.owner[k.port[p].sendqueue] = NoTeam
    <2>1. Stays(k, m, p) /\ Stays(k, m, k.port[p].sendqueue)
      BY <1>12, <1>15 DEF Stays
    <2> QED BY <2>1, <1>3, <1>5, <1>12, <1>15
  <1>16. ASSUME NEW p \in Ids, k.rsrc.type[p] = "RSRC_PORT", k.rsrc.owner[p] # m
         PROVE  /\ q.rsrc.type[p] = "RSRC_PORT" /\ q.rsrc.owner[p] = k.rsrc.owner[p]
                /\ q.port[p] = k.port[p]
                /\ q.rsrc.type[k.port[p].sendqueue] = "RSRC_QUEUE"
                /\ q.rsrc.owner[k.port[p].sendqueue] = k.rsrc.owner[p]
    BY <1>3, <1>7, <1>12, <1>16
  <1>17. ASSUME NEW p \in Ids, k.rsrc.type[p] = "RSRC_PORT", k.rsrc.owner[p] = m,
                k.port[p].refcount = 1
         PROVE  q.rsrc.type[p] = RSRC_NONE /\ q.port[p] = NoPortRecord
    <2>1. ~Stays(k, m, p)
      BY <1>12, <1>17 DEF Stays
    <2>2. Lost(k, m, p)
      BY <2>1, <1>17 DEF Lost
    <2> QED BY <2>2, <1>3, <1>12, <1>17
  <1>18. ASSUME NEW n \in Ids, k.rsrc.type[n] # "RSRC_PORT"
         PROVE  q.rsrc.type[n] # "RSRC_PORT" /\ q.port[n] = k.port[n]
    BY <1>3, <1>18 DEF RSRC_NONE
  <1>19. ASSUME NEW n \in Ids
         PROVE  /\ Cardinality(Slaves(q, n)) <= Cardinality(Slaves(k, n))
                /\ Cardinality(Slaves(q, n)) \in Nat
    <2>1. n # 0
      BY DEF Ids
    <2>2. Slaves(q, n) \subseteq Slaves(k, n)
      BY <2>1, <1>3 DEF Slaves, NoPortRecord
    <2> QED BY <2>2, <1>13, FS_Subset, FS_CardinalityType
  <1>20. ASSUME NEW n \in Ids
         PROVE  PortSound(q, n)
    <2>1. CASE k.rsrc.type[n] = "RSRC_PORT"
      <3>1. /\ \/ Is(k, k.rsrc.owner[n], "RSRC_TEAM")
               \/ k.rsrc.owner[n] = NoTeam /\ k.port[n].refcount > 1
            /\ k.port[n].refcount > Cardinality(Slaves(k, n))
            /\ k.port[n].slaved # 0 =>
                  /\ Is(k, k.port[n].slaved, "RSRC_PORT")
                  /\ k.rsrc.owner[k.port[n].slaved] = k.rsrc.owner[n]
        BY <2>1, <1>12 DEF PortSound
      <3>2. k.port[n].refcount > Cardinality(Slaves(q, n))
        BY <3>1, <1>13, <1>19
      <3>3. ASSUME k.port[n].slaved # 0
            PROVE  /\ k.port[n].slaved \in Ids
                   /\ k.rsrc.type[k.port[n].slaved] = "RSRC_PORT"
                   /\ k.rsrc.owner[k.port[n].slaved] = k.rsrc.owner[n]
                   /\ k.port[k.port[n].slaved].refcount # 1
        <4>1. PICK w : w = k.port[n].slaved
          OBVIOUS
        <4>2. /\ w \in Ids /\ k.rsrc.type[w] = "RSRC_PORT"
              /\ k.rsrc.owner[w] = k.rsrc.owner[n]
          BY <3>1, <3>3, <4>1 DEF Is
        <4>3. n \in Slaves(k, w)
          BY <4>1 DEF Slaves
        <4>4. k.port[w].refcount > 1 /\ k.port[w].refcount \in Int
          BY <4>2, <4>3, <1>13, <1>14
        <4> QED BY <4>1, <4>2, <4>4
      <3>4. CASE k.rsrc.owner[n] # m
        <4>1. /\ q.rsrc.type[n] = "RSRC_PORT" /\ q.rsrc.owner[n] = k.rsrc.owner[n]
              /\ q.port[n] = k.port[n]
              /\ q.rsrc.type[k.port[n].sendqueue] = "RSRC_QUEUE"
              /\ q.rsrc.owner[k.port[n].sendqueue] = k.rsrc.owner[n]
          BY <2>1, <3>4, <1>16
        <4>2. \/ Is(q, q.rsrc.owner[n], "RSRC_TEAM")
              \/ q.rsrc.owner[n] = NoTeam /\ q.port[n].refcount > 1
          <5>1. CASE k.rsrc.owner[n] = NoTeam /\ k.port[n].refcount > 1
            BY <5>1, <4>1
          <5>2. CASE Is(k, k.rsrc.owner[n], "RSRC_TEAM")
            <6>1. k.rsrc.owner[k.rsrc.owner[n]] = KernelTeam
              BY <5>2, <1>1 DEF Is, TeamsSound, TeamSound
            <6> QED BY <6>1, <5>2, <4>1, <3>4, <1>7, <1>8 DEF Is
          <5> QED BY <3>1, <5>1, <5>2
        <4>3. q.port[n].slaved # 0 => /\ Is(q, q.port[n].slaved, "RSRC_PORT")
                                      /\ q.rsrc.owner[q.port[n].slaved] = q.rsrc.owner[n]
          <5>1. PICK w : w = k.port[n].slaved
            OBVIOUS
          <5>2. w # 0 => /\ w \in Ids /\ k.rsrc.type[w] = "RSRC_PORT"
                         /\ k.rsrc.owner[w] = k.rsrc.owner[n]
            BY <5>1, <3>3 DEF Is
          <5>3. w # 0 => q.rsrc.type[w] = "RSRC_PORT" /\ q.rsrc.owner[w] = k.rsrc.owner[w]
            BY <5>2, <3>4, <1>16
          <5> QED BY <5>1, <5>2, <5>3, <4>1 DEF Is
        <4> QED BY <4>1, <4>2, <4>3, <3>2, <2>1, <1>12 DEF PortSound, Is
      <3>5. CASE k.rsrc.owner[n] = m /\ k.port[n].refcount # 1
        <4>1. /\ q.rsrc.type[n] = "RSRC_PORT" /\ q.rsrc.owner[n] = NoTeam
              /\ q.port[n] = k.port[n]
              /\ q.rsrc.type[k.port[n].sendqueue] = "RSRC_QUEUE"
              /\ q.rsrc.owner[k.port[n].sendqueue] = NoTeam
          BY <2>1, <3>5, <1>15
        <4>2. q.rsrc.owner[n] = NoTeam /\ q.port[n].refcount > 1
          BY <4>1, <3>1, <3>5, <1>13
        <4>3. q.port[n].slaved # 0 => /\ Is(q, q.port[n].slaved, "RSRC_PORT")
                                      /\ q.rsrc.owner[q.port[n].slaved] = q.rsrc.owner[n]
          BY <3>3, <3>5, <4>1, <1>15 DEF Is
        <4> QED BY <4>1, <4>2, <4>3, <3>2, <2>1, <1>12 DEF PortSound, Is
      <3>6. CASE k.rsrc.owner[n] = m /\ k.port[n].refcount = 1
        BY <2>1, <3>6, <1>17 DEF PortSound, RSRC_NONE
      <3> QED BY <3>4, <3>5, <3>6
    <2>2. CASE k.rsrc.type[n] # "RSRC_PORT"
      BY <2>2, <1>1, <1>18 DEF PortSound, PortsSound
    <2> QED BY <2>1, <2>2
  <1>21. PortsSound(q)
    <2>1. ASSUME NEW n \in Ids, q.rsrc.type[n] = "RSRC_PORT"
          PROVE  k.rsrc.type[n] = "RSRC_PORT" /\ q.port[n].sendqueue = k.port[n].sendqueue
      BY <2>1, <1>15, <1>16, <1>17, <1>18 DEF RSRC_NONE
    <2>2. \A p, n \in Ids : /\ q.rsrc.type[p] = "RSRC_PORT" /\ q.rsrc.type[n] = "RSRC_PORT"
                            /\ q.port[p].sendqueue = q.port[n].sendqueue
                            => p = n
      BY <2>1, <1>1 DEF PortsSound
    <2>3. ASSUME NEW i \in Ids, q.rsrc.type[i] = "RSRC_QUEUE"
          PROVE  \E p \in Ids : q.rsrc.type[p] = "RSRC_PORT" /\ q.port[p].sendqueue = i
      <3>1. k.rsrc.type[i] = "RSRC_QUEUE" /\ i # m /\ (k.rsrc.owner[i] # m \/ Stays(k, m, i))
        BY <2>3, <1>3 DEF RSRC_NONE, Lost
      <3>2. CASE k.rsrc.owner[i] # m
        <4>1. PICK p \in Ids : k.rsrc.type[p] = "RSRC_PORT" /\ k.port[p].sendqueue = i
          BY <3>1, <1>1 DEF PortsSound
        <4> QED BY <4>1, <3>2, <1>12, <1>16
      <3>3. CASE Stays(k, m, i)
        <4>1. PICK p \in Ids : /\ k.rsrc.type[p] = "RSRC_PORT" /\ k.rsrc.owner[p] = m
                               /\ k.port[p].refcount # 1 /\ i \in {p, k.port[p].sendqueue}
          BY <3>1, <3>3 DEF Stays
        <4>2. k.port[p].sendqueue = i
          BY <3>1, <4>1
        <4> QED BY <4>1, <4>2, <1>15
      <3> QED BY <3>1, <3>2, <3>3
    <2> QED BY <2>2, <2>3, <1>20 DEF PortsSound
  <1> QED BY <1>4, <1>9, <1>10, <1>11, <1>21 DEF Sound

-----------------------------------------------------------------------------
(* The end of a thread.                                                    *)

(* What is left of the thread when its stack's area has gone.              *)
Unbound(k, t, m) ==
    [k EXCEPT !.mem     = kfreepages(@, 1),
              !.rsrc    = rsrc_release(@, t),
              !.task[t] = NoArea,
              !.team[m].refcount = @ - 1]

(* Its team counts one thread less, and has none when that was the last.   *)
LEMMA TaskGoneSound ==
    ASSUME NEW k, Sound(k), NEW t \in Ids, k.rsrc.type[t] = "RSRC_TASK",
           NEW m, m = k.rsrc.owner[t]
    PROVE  /\ Sound(Unbound(k, t, m))
           /\ Unbound(k, t, m).team[m].refcount = 0 => Dying(Unbound(k, t, m), m)
  <1>1. /\ k \in TableStates /\ TableSound(k.rsrc) /\ MemSound(k.mem)
        /\ TeamsSound(k) /\ MembersSound(k) /\ PortsSound(k) /\ CountsSound(k)
        /\ k.mem.areas \in [Ids -> SUBSET Ids]
    BY DEF Sound, TableStates, MemStates
  <1>2. m \in Ids /\ k.rsrc.type[m] = "RSRC_TEAM" /\ m # t
    BY <1>1, MemberOf
  <1>3. PICK R : R = rsrc_release(k.rsrc, t)
    OBVIOUS
  <1>4. TableSound(R) /\ Named(k.rsrc, R, t, RSRC_NONE, NoTeam)
    BY <1>1, <1>3, ReleaseSound
  <1>5. PICK M : M = kfreepages(k.mem, 1)
    OBVIOUS
  <1>6. MemSound(M) /\ M.areas = k.mem.areas /\ KernelPages(M) = KernelPages(k.mem) + (-1)
    <2>1. Counts(k.mem, M, -1)
      BY <1>1, <1>5, KernelPagesSound
    <2> QED BY <2>1 DEF Counts
  <1>7. M \in MemStates /\ R \in RsrcStates
    BY <1>4, <1>6 DEF MemSound, GroupsSound, TableSound
  <1>8. PICK T : T = [k.team EXCEPT ![m].refcount = @ - 1]
    OBVIOUS
  <1>9. /\ T \in [Ids -> TeamRecs] /\ T[m].refcount = k.team[m].refcount - 1
        /\ T[m].aspace = k.team[m].aspace
        /\ \A n \in Ids \ {m} : T[n] = k.team[n]
    <2>1. k.team \in [Ids -> TeamRecs] /\ m \in Ids
      BY <1>1, <1>2 DEF TableStates
    <2>2. PICK r \in TeamRecs : r = k.team[m]
      BY <2>1
    <2>3. [r EXCEPT !.refcount = @ - 1] \in TeamRecs
      BY <2>2 DEF TeamRecs
    <2>4. T = [k.team EXCEPT ![m] = [r EXCEPT !.refcount = @ - 1]]
      BY <1>8, <2>2
    <2> QED BY <2>1, <2>2, <2>3, <2>4 DEF TeamRecs
  <1>10. PICK q : q = Unbound(k, t, m)
    OBVIOUS
  <1>11. q = [rsrc |-> R, mem |-> M, team |-> T, task |-> [k.task EXCEPT ![t] = NoArea],
              port |-> k.port]
    BY <1>1, <1>3, <1>5, <1>8, <1>10 DEF Unbound, TableStates
  <1>12. q \in TableStates
    <2>1. [k.task EXCEPT ![t] = NoArea] \in [Ids -> Ids \cup {NoArea}]
          /\ k.port \in [Ids -> PortRecs]
      BY <1>1 DEF TableStates
    <2> QED BY <2>1, <1>7, <1>9, <1>11, FieldsOf
  <1>13. /\ q.rsrc = R /\ q.mem = M /\ q.team = T /\ q.port = k.port
         /\ \A n \in Ids : q.team[n].aspace = k.team[n].aspace
    BY <1>9, <1>11
  <1>14. /\ R.type[t] = RSRC_NONE
         /\ \A j \in Ids \ {t} : R.type[j] = k.rsrc.type[j] /\ R.owner[j] = k.rsrc.owner[j]
    BY <1>4 DEF Named
  <1>15. TasksOf(k, m) = TasksOf(q, m) \cup {t} /\ t \notin TasksOf(q, m)
    BY <1>13, <1>14 DEF TasksOf, RSRC_NONE
  <1>16. /\ IsFiniteSet(TasksOf(q, m)) /\ Cardinality(TasksOf(q, m)) \in Nat
         /\ Cardinality(TasksOf(k, m)) = Cardinality(TasksOf(q, m)) + 1
    <2>1. IsFiniteSet(TasksOf(q, m)) /\ Cardinality(TasksOf(q, m)) \in Nat
      BY Names, FS_Subset, FS_CardinalityType DEF TasksOf
    <2>2. Cardinality(TasksOf(q, m) \cup {t}) = Cardinality(TasksOf(q, m)) + 1
      BY <2>1, <1>15, FS_AddElement
    <2> QED BY <2>1, <2>2, <1>15
  <1>17. TeamsSound(q)
    <2>1. ASSUME NEW n \in Ids
          PROVE  TeamSound(q, n)
      <3>1. TeamSound(k, n)
        BY <1>1 DEF TeamsSound
      <3>2. CASE k.rsrc.type[n] = "RSRC_TEAM"
        <4>1. /\ n # t /\ k.team[n].aspace \in Ids /\ k.team[n].aspace # t
              /\ k.rsrc.owner[n] = KernelTeam /\ k.rsrc.owner[k.team[n].aspace] = n
              /\ k.rsrc.type[k.team[n].aspace] = "RSRC_ASPACE"
              /\ k.team[n].refcount = Cardinality(TasksOf(k, n))
          BY <3>1, <3>2 DEF TeamSound, Is
        <4>2. q.team[n].refcount = Cardinality(TasksOf(q, n))
          <5>1. CASE n = m
            <6>1. PICK c \in Nat : c = Cardinality(TasksOf(q, m))
              BY <1>16
            <6>2. k.team[m].refcount = c + 1
              BY <5>1, <6>1, <4>1, <1>16
            <6>3. q.team[m].refcount = k.team[m].refcount - 1
              BY <1>9, <1>13
            <6>4. q.team[m].refcount = c
              BY <6>2, <6>3
            <6> QED BY <5>1, <6>1, <6>4
          <5>2. CASE n # m
            <6>1. TasksOf(q, n) = TasksOf(k, n)
              BY <5>2, <1>13, <1>14 DEF TasksOf, RSRC_NONE
            <6> QED BY <6>1, <5>2, <4>1, <1>9, <1>13
          <5> QED BY <5>1, <5>2
        <4> QED BY <4>1, <4>2, <3>2, <1>13, <1>14 DEF TeamSound, Is
      <3>3. CASE k.rsrc.type[n] # "RSRC_TEAM"
        <4>1. q.rsrc.type[n] # "RSRC_TEAM" /\ n # m
          BY <3>3, <1>2, <1>13, <1>14 DEF RSRC_NONE
        <4> QED BY <4>1, <3>1, <3>3, <1>9, <1>13 DEF TeamSound
      <3> QED BY <3>2, <3>3
    <2> QED BY <2>1 DEF TeamsSound
  <1>18. PortsSound(q)
    <2>1. RSRC_NONE \notin {"RSRC_PORT", "RSRC_QUEUE"}
      BY DEF RSRC_NONE
    <2> QED BY <2>1, <1>1, <1>4, <1>13, PortsKept
  <1>19. MembersSound(q)
    BY <1>1, <1>4, <1>6, <1>13, MembersKept
  <1>20. CountsSound(q)
    <2>1. /\ Having(q, "RSRC_ASPACE") = Having(k, "RSRC_ASPACE")
          /\ Having(k, "RSRC_TASK") = Having(q, "RSRC_TASK") \cup {t}
          /\ t \notin Having(q, "RSRC_TASK")
      BY <1>13, <1>14 DEF Having, RSRC_NONE
    <2>2. /\ IsFiniteSet(Having(q, "RSRC_TASK"))
          /\ Cardinality(Having(q, "RSRC_TASK")) \in Nat
          /\ Cardinality(Having(k, "RSRC_ASPACE")) \in Nat
      BY Names, FS_Subset, FS_CardinalityType DEF Having
    <2>3. Cardinality(Having(k, "RSRC_TASK")) = Cardinality(Having(q, "RSRC_TASK")) + 1
      BY <2>1, <2>2, FS_AddElement
    <2> QED BY <2>1, <2>2, <2>3, <1>1, <1>6, <1>13 DEF CountsSound
  <1>21. Sound(q)
    BY <1>4, <1>6, <1>12, <1>13, <1>17, <1>18, <1>19, <1>20 DEF Sound
  <1>22. ASSUME q.team[m].refcount = 0
         PROVE  Dying(q, m)
    <2>1. q.rsrc.type[m] = "RSRC_TEAM"
      BY <1>2, <1>13, <1>14
    <2>2. q.team[m].refcount = Cardinality(TasksOf(q, m))
      BY <2>1, <1>2, <1>17 DEF TeamsSound, TeamSound
    <2>3. TasksOf(q, m) = {}
      BY <2>2, <1>16, <1>22, FS_EmptySet
    <2> QED BY <2>1, <2>3, <1>2, <1>21 DEF Dying
  <1> QED BY <1>10, <1>21, <1>22

(* task_destroy(): task.c, with the team when that was its last thread.    *)
LEMMA ReapSound ==
    ASSUME NEW k, Sound(k), NEW t \in Ids, k.rsrc.type[t] = "RSRC_TASK"
    PROVE  Sound(task_destroy(k, t))
  <1>1. PICK m : m = k.rsrc.owner[t]
    OBVIOUS
  <1>2. PICK s : s = k.team[m].aspace
    OBVIOUS
  <1>3. m \in Ids /\ k.rsrc.type[m] = "RSRC_TEAM" /\ s \in Ids
    <2>1. m \in Ids /\ k.rsrc.type[m] = "RSRC_TEAM"
      BY <1>1, MemberOf DEF Sound
    <2> QED BY <2>1, <1>2 DEF Sound, TeamsSound, TeamSound, Is
  <1>4. PICK b : b = IF k.task[t] # NoArea /\ Attached(k.mem, s, k.task[t])
                     THEN destroy_area(k, s, k.task[t]) ELSE k
    OBVIOUS
  <1>5. /\ Sound(b) /\ b.rsrc.type[t] = "RSRC_TASK" /\ b.rsrc.owner[t] = m
    <2>1. CASE k.task[t] # NoArea /\ Attached(k.mem, s, k.task[t])
      <3>1. PICK a : a = k.task[t]
        OBVIOUS
      <3>2. a \in k.mem.areas[s] /\ b = destroy_area(k, s, a)
        BY <2>1, <3>1, <1>4 DEF Attached
      <3>3. Basic(k)
        BY DEF Basic, Sound
      <3>4. AreaGone(k, b, s, a)
        BY <3>2, <3>3, <1>3, AreaGoes
      <3>5. Sound(b)
        BY <3>2, <3>4, <1>3, AreaGoneSound
      <3>6. a \in Ids /\ k.rsrc.type[a] = "RSRC_AREA"
        BY <3>2, <1>3, AreaIn DEF Sound, TableStates, MemStates
      <3>7. Named(k.rsrc, b.rsrc, a, RSRC_NONE, NoTeam)
        BY <3>4 DEF AreaGone
      <3> QED BY <3>5, <3>6, <3>7, <1>1 DEF Named
    <2>2. CASE ~(k.task[t] # NoArea /\ Attached(k.mem, s, k.task[t]))
      BY <2>2, <1>1, <1>4
    <2> QED BY <2>1, <2>2
  <1>6. PICK g : g = Unbound(b, t, m)
    OBVIOUS
  <1>7. Sound(g) /\ (g.team[m].refcount = 0 => Dying(g, m))
    BY <1>5, <1>6, TaskGoneSound
  <1>8. task_destroy(k, t) = IF g.team[m].refcount = 0 THEN team_destroy(g, m) ELSE g
    <2> DEFINE o == k.rsrc.owner[t]
               c == IF k.task[t] # NoArea /\ Attached(k.mem, k.team[o].aspace, k.task[t])
                    THEN destroy_area(k, k.team[o].aspace, k.task[t]) ELSE k
               h == Unbound(c, t, o)
    <2>1. task_destroy(k, t) = IF h.team[o].refcount = 0 THEN team_destroy(h, o) ELSE h
      BY Zenon DEF task_destroy, Unbound
    <2>2. o = m /\ c = b /\ h = g
      BY <1>1, <1>2, <1>4, <1>6
    <2> HIDE DEF c, h, o
    <2> QED BY <2>1, <2>2
  <1>9. ASSUME Dying(g, m)
        PROVE  Sound(team_destroy(g, m))
    <2>1. PICK x : Owning(g, m, x)
      BY <1>9, DyingOwns
    <2>2. TeamGone(g, team_destroy(g, m), m, x)
      BY <1>9, <2>1, TeamGoes
    <2> QED BY <1>9, <2>1, <2>2, TeamGoneSound
  <1> QED BY <1>7, <1>8, <1>9

-----------------------------------------------------------------------------
(* The actions.                                                            *)

(* A new area, with a span of its size to be found.                        *)
LEMMA NewAreaSound ==
    ASSUME NEW k, Sound(k), NEW m \in Ids, k.rsrc.type[m] = "RSRC_TEAM",
           NEW o, AnyTeam(k, o),
           k.rsrc.rfree # {}, NEW size \in Nat, NEW virt,
           NEW phys \in {NoPage} \cup DevicePages,
           phys = NoPage => HasPages(k.mem, size),
           Cardinality({g \in Groups : k.mem.pgroup[g].refcount = 0}) >= 1,
           FindsSpan(k, m, size, virt)
    PROVE  /\ Sound(new_area(k, o, m, size, virt, phys))
           /\ Named(k.rsrc, new_area(k, o, m, size, virt, phys).rsrc, NextId(k), "RSRC_AREA", o)
           /\ new_area(k, o, m, size, virt, phys).rsrc.rfree = k.rsrc.rfree \ {NextId(k)}
           /\ new_area(k, o, m, size, virt, phys).team = k.team
           /\ NextId(k) \in Ids /\ k.rsrc.type[NextId(k)] = RSRC_NONE
  <1>1. PICK s \in Ids : s = k.team[m].aspace
    BY DEF Sound, TeamsSound, TeamSound, Is
  <1>2. NextId(k) \in Ids /\ k.rsrc.type[NextId(k)] = RSRC_NONE
    BY NextIsFree DEF NextId, Sound
  <1>3. NextId(k) \notin Mapped(k.mem)
    BY <1>2, AreasAreMapped
  <1>4. AreaMade(k, new_area(k, o, m, size, virt, phys), s, NextId(k), o)
    <2>1. o \in Owners
      BY Names DEF AnyTeam, Is
    <2> QED BY <2>1, <1>1, <1>3, NewAreaIs DEF Basic, Sound
  <1>5. Sound(new_area(k, o, m, size, virt, phys))
    BY <1>1, <1>2, <1>4, AreaMadeSound
  <1> QED BY <1>2, <1>4, <1>5 DEF AreaMade

(* From k to q at most one identifier was taken, and no team changed.      *)
OneTaken(k, q) ==
    /\ Sound(q) /\ q.team = k.team
    /\ \A i \in Ids : k.rsrc.type[i] # RSRC_NONE => q.rsrc.type[i] = k.rsrc.type[i]
    /\ Cardinality(q.rsrc.rfree) >= Cardinality(k.rsrc.rfree) - 1

(* A clone, or none.                                                       *)
LEMMA CloneSound ==
    ASSUME NEW k, Sound(k), NEW m \in Ids, k.rsrc.type[m] = "RSRC_TEAM",
           k.rsrc.rfree # {}, NEW a \in Ids, k.rsrc.type[a] = "RSRC_AREA", NEW virt
    PROVE  OneTaken(k, new_clone(k, m, a, virt))
  <1>1. PICK s \in Ids : s = k.team[m].aspace
    BY DEF Sound, TeamsSound, TeamSound, Is
  <1>2. NextId(k) \in Ids /\ k.rsrc.type[NextId(k)] = RSRC_NONE
    BY NextIsFree DEF NextId, Sound
  <1>3. NextId(k) \notin Mapped(k.mem) /\ a \in Mapped(k.mem)
    BY <1>2, AreasAreMapped
  <1>4. PICK q : q = new_clone(k, m, a, virt)
    OBVIOUS
  <1>5. IsFiniteSet(k.rsrc.rfree) /\ Cardinality(k.rsrc.rfree) \in Nat
    BY Names, FS_Subset, FS_CardinalityType DEF Sound, TableSound, RsrcStates
  <1>6. q = k \/ AreaMade(k, q, s, NextId(k), m)
    BY <1>1, <1>3, <1>4, NewCloneIs DEF Basic, Sound
  <1>7. CASE q = k
    BY <1>4, <1>5, <1>7 DEF OneTaken
  <1>8. CASE AreaMade(k, q, s, NextId(k), m)
    <2>1. Sound(q)
      <3>1. AnyTeam(k, m)
        BY DEF AnyTeam, Is
      <3> QED BY <3>1, <1>1, <1>2, <1>8, AreaMadeSound
    <2>2. Cardinality(k.rsrc.rfree \ {NextId(k)}) >= Cardinality(k.rsrc.rfree) - 1
      <3>1. NextId(k) \in k.rsrc.rfree
        BY NextIsFree DEF NextId, Sound
      <3>2. Cardinality(k.rsrc.rfree \ {NextId(k)}) = Cardinality(k.rsrc.rfree) - 1
        BY <3>1, <1>5, FS_RemoveElement
      <3> QED BY <3>2, <1>5
    <2> QED BY <2>1, <2>2, <1>2, <1>4, <1>8 DEF OneTaken, AreaMade, Named
  <1> QED BY <1>6, <1>7, <1>8

(* new_thread(): kernel.c, with the thread's stack if it finds its span.   *)
LEMMA NewThreadSound ==
    ASSUME NEW k, Sound(k), NEW m \in Ids, k.rsrc.type[m] = "RSRC_TEAM",
           NEW o, AnyTeam(k, o),
           Cardinality(k.rsrc.rfree) >= 2, HasPages(k.mem, 1),
           Cardinality({g \in Groups : k.mem.pgroup[g].refcount = 0}) >= 1
    PROVE  Sound(new_thread(k, o, m)) /\ new_thread(k, o, m).rsrc.type[m] = "RSRC_TEAM"
  <1>1. /\ k.rsrc.rfree # {} /\ NextId(k) \in Ids /\ k.rsrc.type[NextId(k)] = RSRC_NONE
        /\ Cardinality(k.rsrc.rfree \ {NextId(k)}) >= 1
    <2>1. Cardinality(k.rsrc.rfree) >= 1 + 1 /\ 1 \in Nat
      OBVIOUS
    <2> QED BY <2>1, FreeIds DEF NextId, Sound
  <1>2. PICK top : top = StackPage(k.mem.table[k.team[m].aspace])
    OBVIOUS
  <1>3. ASSUME NEW b, Sound(b), b.rsrc.type[m] = "RSRC_TEAM", b.rsrc.rfree # {},
               NEW a \in Ids \cup {NoArea}
        PROVE  Sound(task_create(b, m, a)) /\ task_create(b, m, a).rsrc.type[m] = "RSRC_TEAM"
    <2>1. PICK q : q = task_create(b, m, a)
      OBVIOUS
    <2>2. Sound(q) /\ Named(b.rsrc, q.rsrc, NextId(b), "RSRC_TASK", m)
      BY <1>3, <2>1, TaskMadeSound
    <2>3. NextId(b) # m
      <3>1. b.rsrc.type[NextId(b)] = RSRC_NONE
        BY <1>3, NextIsFree DEF NextId, Sound
      <3> QED BY <3>1, <1>3 DEF RSRC_NONE
    <2>4. q.rsrc.type[m] = "RSRC_TEAM"
      BY <2>2, <2>3, <1>3 DEF Named
    <2> QED BY <2>1, <2>2, <2>4
  <1>4. CASE FindsSpan(k, m, 1, top)
    <2>1. PICK b : b = new_area(k, o, m, 1, top, NoPage)
      OBVIOUS
    <2>2. /\ Sound(b) /\ Named(k.rsrc, b.rsrc, NextId(k), "RSRC_AREA", o)
          /\ b.rsrc.rfree = k.rsrc.rfree \ {NextId(k)}
      BY <1>1, <1>4, <2>1, NewAreaSound
    <2>3. b.rsrc.type[m] = "RSRC_TEAM"
      BY <1>1, <2>2 DEF Named, RSRC_NONE
    <2>4. b.rsrc.rfree # {}
      BY <1>1, <2>2, FS_EmptySet
    <2>5. /\ Sound(task_create(b, m, NextId(k)))
          /\ task_create(b, m, NextId(k)).rsrc.type[m] = "RSRC_TEAM"
      BY <1>1, <2>2, <2>3, <2>4, <1>3
    <2>6. new_thread(k, o, m) = task_create(b, m, NextId(k))
      BY <1>2, <1>4, <2>1 DEF new_thread
    <2> QED BY <2>5, <2>6
  <1>5. CASE ~FindsSpan(k, m, 1, top)
    <2>1. /\ Sound(task_create(k, m, NoArea))
          /\ task_create(k, m, NoArea).rsrc.type[m] = "RSRC_TEAM"
      BY <1>1, <1>3
    <2>2. new_thread(k, o, m) = task_create(k, m, NoArea)
      BY <1>2, <1>5 DEF new_thread
    <2> QED BY <2>1, <2>2
  <1> QED BY <1>4, <1>5

(* A team whose record changes in neither its space nor its count.         *)
LEMMA HeapKept ==
    ASSUME NEW k, Sound(k), NEW m \in Ids, k.rsrc.type[m] = "RSRC_TEAM",
           NEW q, q \in TableStates, q.rsrc = k.rsrc, q.mem = k.mem, q.port = k.port,
           \A n \in Ids : /\ q.team[n].aspace = k.team[n].aspace
                          /\ q.team[n].refcount = k.team[n].refcount
                          /\ n # m => q.team[n] = k.team[n]
    PROVE  Sound(q)
  <1>1. /\ TableSound(k.rsrc) /\ MemSound(k.mem)
        /\ TeamsSound(k) /\ MembersSound(k) /\ PortsSound(k) /\ CountsSound(k)
    BY DEF Sound
  <1>2. TeamsSound(q)
    <2>1. ASSUME NEW n \in Ids
          PROVE  TeamSound(q, n)
      <3>1. TeamSound(k, n) /\ TasksOf(q, n) = TasksOf(k, n)
        BY <1>1 DEF TeamsSound, TasksOf
      <3> QED BY <3>1 DEF TeamSound, Is
    <2> QED BY <2>1 DEF TeamsSound
  <1>3. MembersSound(q)
    <2>1. q.mem.areas = k.mem.areas /\ \A n \in Ids : q.team[n].aspace = k.team[n].aspace
      OBVIOUS
    <2> QED BY <2>1, <1>1, MembersSame
  <1>4. PortsSound(q)
    <2>1. ASSUME NEW p \in Ids
          PROVE  PortSound(q, p)
      <3>1. PortSound(k, p) /\ Slaves(q, p) = Slaves(k, p)
        BY <1>1 DEF PortsSound, Slaves
      <3> QED BY <3>1 DEF PortSound, Is
    <2> QED BY <2>1, <1>1 DEF PortsSound
  <1>5. CountsSound(q)
    BY <1>1 DEF CountsSound, Having
  <1> QED BY <1>1, <1>2, <1>3, <1>4, <1>5 DEF Sound

(* The heap of a team is noted.                                            *)
LEMMA HeapSound ==
    ASSUME NEW k, Sound(k), NEW m \in Ids, NEW a \in Ids \cup {NoArea},
           k.rsrc.type[m] = "RSRC_TEAM", NEW q, q = [k EXCEPT !.team[m].heap_id = a]
    PROVE  Sound(q) /\ q.rsrc = k.rsrc
  <1>1. k \in TableStates
    BY DEF Sound
  <1>2. PICK T : T = [k.team EXCEPT ![m].heap_id = a]
    OBVIOUS
  <1>3. /\ T \in [Ids -> TeamRecs] /\ T[m].refcount = k.team[m].refcount
        /\ T[m].aspace = k.team[m].aspace /\ \A n \in Ids \ {m} : T[n] = k.team[n]
    BY <1>1, <1>2 DEF TableStates, TeamRecs
  <1>4. q = [rsrc |-> k.rsrc, mem |-> k.mem, team |-> T, task |-> k.task, port |-> k.port]
    BY <1>1, <1>2 DEF TableStates
  <1>5. q \in TableStates
    BY <1>1, <1>3, <1>4 DEF TableStates
  <1>6. /\ q.rsrc = k.rsrc /\ q.mem = k.mem /\ q.port = k.port
        /\ \A n \in Ids : /\ q.team[n].aspace = k.team[n].aspace
                          /\ q.team[n].refcount = k.team[n].refcount
                          /\ n # m => q.team[n] = k.team[n]
    BY <1>3, <1>4
  <1> QED BY <1>5, <1>6, HeapKept

(* What an action makes of the tables.                                     *)
LEMMA BecomeIs ==
    ASSUME NEW q \in TableStates, Become(q)
    PROVE  Tables' = q
  BY DEF Become, Tables, TableStates

(* A running thread, its team and that team's space.                       *)
LEMMA TeamLives ==
    ASSUME NEW k, Sound(k), NEW t \in Ids, k.rsrc.type[t] = "RSRC_TASK",
           NEW m, m = k.rsrc.owner[t]
    PROVE  /\ m \in Ids /\ k.rsrc.type[m] = "RSRC_TEAM" /\ k.team[m].aspace \in Ids
           /\ k.rsrc.type[k.team[m].aspace] = "RSRC_ASPACE"
           /\ k.rsrc.owner[k.team[m].aspace] = m
  <1>1. TeamsSound(k) /\ MembersSound(k)
    BY DEF Sound
  <1>2. m \in Ids /\ k.rsrc.type[m] = "RSRC_TEAM"
    BY <1>1, MemberOf
  <1>3. TeamSound(k, m)
    BY <1>1, <1>2 DEF TeamsSound
  <1>4. Is(k, k.team[m].aspace, "RSRC_ASPACE") /\ k.rsrc.owner[k.team[m].aspace] = m
    BY <1>2, <1>3 DEF TeamSound
  <1> QED BY <1>2, <1>4 DEF Is

(* The identifiers and groups that Room() asks for.                        *)
LEMMA RoomGives ==
    ASSUME NEW ids, NEW pages, NEW groups, Room(ids, pages, groups), Sound(Tables)
    PROVE  /\ Cardinality(Tables.rsrc.rfree) >= ids
           /\ HasPages(Tables.mem, pages)
           /\ Cardinality({g \in Groups : Tables.mem.pgroup[g].refcount = 0}) >= groups
           /\ Cardinality(Tables.rsrc.rfree) \in Nat
           /\ (ids = 1 => Tables.rsrc.rfree # {})
  <1>1. IsFiniteSet(Tables.rsrc.rfree) /\ Cardinality(Tables.rsrc.rfree) \in Nat
    BY Names, FS_Subset, FS_CardinalityType DEF Sound, TableSound, RsrcStates
  <1>2. Tables.rsrc = rsrc /\ Tables.mem = mem
    BY DEF Tables
  <1> QED BY <1>1, <1>2, FS_EmptySet DEF Room, RoomIn

(* thr_spawn(): kernel.c, the clones included.                             *)
LEMMA SpawnSound ==
    ASSUME Sound(Tables), NEW t, NEW a0 \in Ids, NEW virt0, NEW a1 \in Ids, NEW virt1,
           Tables.rsrc.type[a0] = "RSRC_AREA", Tables.rsrc.type[a1] = "RSRC_AREA",
           thr_spawn(t, a0, virt0, a1, virt1)
    PROVE  Sound(Tables')
  <1>1. PICK k : k = Tables
    OBVIOUS
  <1>2. /\ Sound(k) /\ Cardinality(k.rsrc.rfree) >= 5 /\ Cardinality(k.rsrc.rfree) \in Nat
        /\ k.team = team
    <2>1. Room(5, 0, 0)
      BY Zenon DEF thr_spawn
    <2>2. Cardinality(k.rsrc.rfree) >= 5 /\ Cardinality(k.rsrc.rfree) \in Nat
      BY <1>1, <2>1, RoomGives
    <2> QED BY <1>1, <2>2 DEF Tables
  <1>3. PICK f : f = team_create(k)
    OBVIOUS
  <1>4. PICK m \in Ids :
              /\ Sound(f) /\ f.rsrc.type[m] = "RSRC_TEAM" /\ f.team[m] # k.team[m]
              /\ \A n \in Ids \ {m} : f.team[n] = k.team[n]
              /\ Cardinality(f.rsrc.rfree) >= Cardinality(k.rsrc.rfree) - 2
              /\ \A i \in Ids : k.rsrc.type[i] # RSRC_NONE =>
                    f.rsrc.type[i] = k.rsrc.type[i]
    <2>1. Cardinality(k.rsrc.rfree) >= 2
      BY <1>2
    <2> QED BY <2>1, <1>2, <1>3, TeamMadeSound
  <1>5. m = CHOOSE i \in Ids : f.team[i] # team[i]
    BY <1>2, <1>4
  <1>6. f.rsrc.type[a0] = "RSRC_AREA" /\ f.rsrc.type[a1] = "RSRC_AREA"
    BY <1>1, <1>4 DEF RSRC_NONE
  <1>7. IsFiniteSet(f.rsrc.rfree) /\ Cardinality(f.rsrc.rfree) \in Nat
        /\ Cardinality(f.rsrc.rfree) >= 3
    BY <1>2, <1>4, Names, FS_Subset, FS_CardinalityType DEF Sound, TableSound, RsrcStates
  <1>8. PICK c : c = task_create(f, m, NoArea)
    OBVIOUS
  <1>9. /\ Sound(c) /\ c.rsrc.type[m] = "RSRC_TEAM" /\ c.rsrc.type[a0] = "RSRC_AREA"
        /\ c.rsrc.type[a1] = "RSRC_AREA" /\ Cardinality(c.rsrc.rfree) >= 2
    <2>1. /\ f.rsrc.rfree # {} /\ NextId(f) \in Ids /\ f.rsrc.type[NextId(f)] = RSRC_NONE
          /\ Cardinality(f.rsrc.rfree \ {NextId(f)}) >= 2
      <3>1. Cardinality(f.rsrc.rfree) >= 2 + 1 /\ 2 \in Nat
        BY <1>7
      <3> QED BY <3>1, <1>4, FreeIds DEF NextId, Sound
    <2>2. /\ Sound(c) /\ c.rsrc.rfree = f.rsrc.rfree \ {NextId(f)}
          /\ Named(f.rsrc, c.rsrc, NextId(f), "RSRC_TASK", m)
      BY <2>1, <1>4, <1>8, TaskMadeSound
    <2> QED BY <2>1, <2>2, <1>4, <1>6 DEF Named, RSRC_NONE
  <1>10. PICK o : o = new_clone(c, m, a0, virt0)
    OBVIOUS
  <1>11. /\ Sound(o) /\ o.rsrc.type[m] = "RSRC_TEAM" /\ o.rsrc.type[a1] = "RSRC_AREA"
         /\ o.rsrc.rfree # {}
    <2>1. Cardinality(c.rsrc.rfree) \in Nat /\ c.rsrc.rfree # {}
      BY <1>9, Names, FS_Subset, FS_CardinalityType, FS_EmptySet
      DEF Sound, TableSound, RsrcStates
    <2>2. OneTaken(c, o)
      BY <2>1, <1>9, <1>10, CloneSound
    <2>3. Cardinality(o.rsrc.rfree) >= 1
      <3>1. Cardinality(o.rsrc.rfree) \in Nat
        BY <2>2, Names, FS_Subset, FS_CardinalityType
        DEF OneTaken, Sound, TableSound, RsrcStates
      <3> QED BY <3>1, <2>1, <2>2, <1>9 DEF OneTaken
    <2>4. o.rsrc.rfree # {}
      BY <2>3, FS_EmptySet
    <2>5. c.rsrc.type[m] # RSRC_NONE /\ c.rsrc.type[a1] # RSRC_NONE
      BY <1>9 DEF RSRC_NONE
    <2> QED BY <2>2, <2>4, <2>5, <1>9 DEF OneTaken
  <1>12. PICK h : h = IF o = c THEN NoArea ELSE NextId(c)
    OBVIOUS
  <1>13. h \in Ids \cup {NoArea}
    <2>1. c.rsrc.rfree # {}
      BY <1>9, FS_EmptySet
    <2> QED BY <2>1, <1>9, <1>12, NextIsFree DEF NextId, Sound
  <1>14. PICK w : w = [o EXCEPT !.team[m].heap_id = h]
    OBVIOUS
  <1>15. Sound(w) /\ w.rsrc = o.rsrc
    BY <1>11, <1>13, <1>14, HeapSound
  <1>16. PICK q : q = new_clone(w, m, a1, virt1)
    OBVIOUS
  <1>17. OneTaken(w, q)
    BY <1>11, <1>15, <1>16, CloneSound
  <1>18. Become(q)
    <2> DEFINE D == CHOOSE i \in Ids : team_create(Tables).team[i] # team[i]
               C == task_create(team_create(Tables), D, NoArea)
               O == new_clone(C, D, a0, virt0)
               H == IF O = C THEN NoArea ELSE NextId(C)
    <2>1. Become(new_clone([O EXCEPT !.team[D].heap_id = H], D, a1, virt1))
      BY Zenon DEF thr_spawn
    <2>2. D = m
      BY <1>1, <1>3, <1>5
    <2>3. C = c
      BY <2>2, <1>1, <1>3, <1>8
    <2>4. O = o
      <3>1. O = new_clone(c, m, a0, virt0)
        <4> HIDE DEF C, D
        <4> QED BY <2>2, <2>3
      <3> HIDE DEF O
      <3> QED BY <3>1, <1>10
    <2>5. H = h
      <3> HIDE DEF C, O
      <3> QED BY <2>3, <2>4, <1>12
    <2> HIDE DEF D, C, O, H
    <2> QED BY <2>1, <2>2, <2>4, <2>5, <1>14, <1>16
  <1>19. Sound(q) /\ q \in TableStates
    BY <1>17 DEF OneTaken, Sound
  <1> QED BY <1>18, <1>19, BecomeIs

(* The calls that create something.                                        *)
LEMMA CreatesSound ==
    ASSUME Sound(Tables), NEW t \in rsrc_find(rsrc, "RSRC_TASK"), Creates(t)
    PROVE  Sound(Tables')
  <1>1. PICK k : k = Tables
    OBVIOUS
  <1>2. /\ Sound(k) /\ k \in TableStates /\ k.rsrc = rsrc /\ k.mem = mem /\ k.team = team
        /\ k.task = task /\ k.port = port
        /\ k = [rsrc |-> rsrc, mem |-> mem, team |-> team, task |-> task, port |-> port]
    <2>1. k.rsrc = rsrc /\ k.mem = mem /\ k.team = team /\ k.task = task /\ k.port = port
      BY <1>1 DEF Tables
    <2>2. Sound(k) /\ k \in TableStates
      BY <1>1 DEF Sound
    <2> QED BY <2>1, <2>2, <1>1 DEF Tables
  <1>3. t \in Ids /\ k.rsrc.type[t] = "RSRC_TASK"
    BY <1>2 DEF rsrc_find
  <1>4. PICK m : m = TeamOf(t)
    OBVIOUS
  <1>5. /\ m \in Ids /\ k.rsrc.type[m] = "RSRC_TEAM" /\ m = k.rsrc.owner[t]
        /\ k.team[m].aspace \in Ids /\ AnyTeam(k, m)
    <2>1. m = k.rsrc.owner[t]
      BY <1>2, <1>4 DEF TeamOf
    <2> QED BY <2>1, <1>2, <1>3, TeamLives DEF AnyTeam, Is
  <1>6. \A a \in rsrc_find(rsrc, "RSRC_AREA") : a \in Ids /\ k.rsrc.type[a] = "RSRC_AREA"
    BY <1>2 DEF rsrc_find
  <1>7. ASSUME NEW q, Sound(q), Become(q)
        PROVE  Sound(Tables')
    BY <1>7, BecomeIs DEF Sound
  <1>8. ASSUME NEW size \in Sizes, NEW virt \in Virts, NEW phys \in {NoPage} \cup DevicePages,
               os_area_create(t, size, virt, phys)
        PROVE  Sound(Tables')
    <2>1. /\ Room(1, IF phys = NoPage THEN size ELSE 0, 1)
          /\ FindsSpan(Tables, TeamOf(t), size, virt)
          /\ Become(new_area(Tables, TeamOf(t), TeamOf(t), size, virt, phys))
      BY <1>8 DEF os_area_create
    <2>2. size \in Nat
      BY TeamsAssumption
    <2>3. /\ k.rsrc.rfree # {} /\ HasPages(k.mem, IF phys = NoPage THEN size ELSE 0)
          /\ Cardinality({g \in Groups : k.mem.pgroup[g].refcount = 0}) >= 1
      BY <2>1, <1>1, RoomGives
    <2>4. PICK q : q = new_area(k, m, m, size, virt, phys)
      OBVIOUS
    <2>5. Sound(q)
      <3>1. phys = NoPage => HasPages(k.mem, size)
        BY <2>3
      <3> QED BY <3>1, <2>1, <2>2, <2>3, <2>4, <1>1, <1>2, <1>4, <1>5, NewAreaSound
    <2> QED BY <2>1, <2>4, <2>5, <1>1, <1>4, <1>7
  <1>9. ASSUME NEW a \in rsrc_find(rsrc, "RSRC_AREA"), NEW virt, os_area_clone(t, a, virt)
        PROVE  Sound(Tables')
    <2>1. Room(1, 0, 0) /\ Become(new_clone(Tables, TeamOf(t), a, virt))
      BY <1>9 DEF os_area_clone
    <2>2. k.rsrc.rfree # {}
      BY <2>1, <1>1, RoomGives
    <2>3. PICK q : q = new_clone(k, m, a, virt)
      OBVIOUS
    <2>4. OneTaken(k, q)
      BY <2>2, <2>3, <1>2, <1>5, <1>6, CloneSound
    <2> QED BY <2>1, <2>3, <2>4, <1>1, <1>4, <1>7 DEF OneTaken
  <1>10. ASSUME NEW a \in rsrc_find(rsrc, "RSRC_AREA"), NEW b \in rsrc_find(rsrc, "RSRC_AREA"),
                NEW virt0, NEW virt1, thr_spawn(t, a, virt0, b, virt1)
         PROVE  Sound(Tables')
    <2>1. /\ a \in Ids /\ b \in Ids /\ Tables.rsrc.type[a] = "RSRC_AREA"
          /\ Tables.rsrc.type[b] = "RSRC_AREA"
      BY <1>1, <1>6
    <2> QED BY <2>1, <1>10, SpawnSound
  <1>11. ASSUME thr_create(t)
         PROVE  Sound(Tables')
    <2>1. Room(2, 1, 1) /\ Become(new_thread(Tables, TeamOf(t), TeamOf(t)))
      BY <1>11 DEF thr_create
    <2>2. /\ Cardinality(k.rsrc.rfree) >= 2 /\ HasPages(k.mem, 1)
          /\ Cardinality({g \in Groups : k.mem.pgroup[g].refcount = 0}) >= 1
      BY <2>1, <1>1, RoomGives
    <2>3. PICK q : q = new_thread(k, m, m)
      OBVIOUS
    <2>4. Sound(q)
      BY <2>2, <2>3, <1>2, <1>5, NewThreadSound
    <2> QED BY <2>1, <2>3, <2>4, <1>1, <1>4, <1>7
  <1>12. ASSUME port_create(t)
         PROVE  Sound(Tables')
    <2>1. PICK B : B = rsrc_bind(rsrc, "RSRC_PORT", TeamOf(t))
      OBVIOUS
    <2>2. /\ Room(2, 0, 0)
          /\ port' = [port EXCEPT ![NextIn(rsrc)] =
                 [slaved |-> 0, refcount |-> 1, sendqueue |-> NextIn(B)]]
          /\ rsrc' = rsrc_bind(B, "RSRC_QUEUE", TeamOf(t))
          /\ mem' = mem /\ team' = team /\ task' = task
      BY <2>1, <1>12 DEF port_create
    <2>3. Cardinality(k.rsrc.rfree) >= 2
      BY <2>2, <1>1, RoomGives
    <2>4. PICK q : q = Tables'
      OBVIOUS
    <2>5. /\ q.rsrc = rsrc_bind(B, "RSRC_QUEUE", m)
          /\ q.port = [k.port EXCEPT ![NextIn(k.rsrc)] =
                          [slaved |-> 0, refcount |-> 1, sendqueue |-> NextIn(B)]]
          /\ q = [rsrc |-> q.rsrc, mem |-> k.mem, team |-> k.team, task |-> k.task,
                  port |-> q.port]
      BY <2>2, <2>4, <1>2, <1>4 DEF Tables
    <2>6. B = rsrc_bind(k.rsrc, "RSRC_PORT", m)
      BY <2>1, <1>2, <1>4
    <2>7. Sound(k) /\ m \in Ids /\ k.rsrc.type[m] = "RSRC_TEAM"
      BY <1>2, <1>5
    <2>8. Sound(q)
      BY <2>3, <2>5, <2>6, <2>7, PortMadeSound
    <2> QED BY <2>4, <2>8
  <1>13. ASSUME sem_create(t)
         PROVE  Sound(Tables')
    <2>1. /\ Room(1, 0, 0) /\ rsrc' = rsrc_bind(rsrc, "RSRC_SEM", TeamOf(t))
          /\ mem' = mem /\ team' = team /\ task' = task /\ port' = port
      BY <1>13 DEF sem_create
    <2>2. k.rsrc.rfree # {}
      BY <2>1, <1>1, RoomGives
    <2>3. PICK q : q = Tables'
      OBVIOUS
    <2>4. q = [k EXCEPT !.rsrc = rsrc_bind(@, "RSRC_SEM", m)]
      BY <2>1, <2>3, <1>2, <1>4 DEF Tables
    <2>5. Sound(q)
      BY <2>2, <2>4, <1>2, <1>5, SemMadeSound
    <2> QED BY <2>3, <2>5
  <1> QED BY <1>8, <1>9, <1>10, <1>11, <1>12, <1>13 DEF Creates

(* The calls that destroy something, and the reaper.                       *)
LEMMA DestroysSound ==
    ASSUME Sound(Tables), NEW t \in rsrc_find(rsrc, "RSRC_TASK"), Destroys(t)
    PROVE  Sound(Tables')
  <1>1. PICK k : k = Tables
    OBVIOUS
  <1>2. /\ Sound(k) /\ k \in TableStates /\ k.rsrc = rsrc /\ k.mem = mem /\ k.team = team
        /\ k.port = port
    <2>1. k.rsrc = rsrc /\ k.mem = mem /\ k.team = team /\ k.port = port
      BY <1>1 DEF Tables
    <2> QED BY <2>1, <1>1 DEF Sound
  <1>3. t \in Ids /\ k.rsrc.type[t] = "RSRC_TASK"
    BY <1>2 DEF rsrc_find
  <1>4. PICK s : s = SpaceOf(t)
    OBVIOUS
  <1>5. s \in Ids
    BY <1>2, <1>3, <1>4, TeamLives DEF SpaceOf, TeamOf
  <1>6. ASSUME NEW q, Sound(q), Become(q)
        PROVE  Sound(Tables')
    BY <1>6, BecomeIs DEF Sound
  <1>7. ASSUME NEW a, os_area_destroy(t, a)
        PROVE  Sound(Tables')
    <2>1. a \in k.mem.areas[s] /\ Become(destroy_area(k, s, a))
      BY <1>1, <1>2, <1>4, <1>7 DEF os_area_destroy, Attached
    <2>2. AreaGone(k, destroy_area(k, s, a), s, a)
      BY <2>1, <1>2, <1>5, AreaGoes DEF Basic, Sound
    <2>3. Sound(destroy_area(k, s, a))
      BY <2>1, <2>2, <1>2, <1>5, AreaGoneSound
    <2> QED BY <2>1, <2>3, <1>6
  <1>8. ASSUME NEW p \in rsrc_find(rsrc, "RSRC_PORT"), os_port_destroy(t, p)
        PROVE  Sound(Tables')
    <2>1. k.port[p].refcount = 1 /\ Become(port_destroy(k, p))
      BY <1>1, <1>2, <1>8 DEF os_port_destroy
    <2>2. p \in Ids /\ k.rsrc.type[p] = "RSRC_PORT"
      BY <1>2 DEF rsrc_find
    <2>3. PICK u \in Ids : u = k.port[p].sendqueue
      BY <2>2, <1>2 DEF Sound, PortsSound, PortSound, Is
    <2>4. k \in TableStates /\ TableSound(k.rsrc)
      BY <1>2 DEF Sound
    <2>5. PortGone(k, port_destroy(k, p), p)
      BY <2>1, <2>2, <2>3, <2>4, PortGoes
    <2>6. Sound(port_destroy(k, p))
      BY <2>1, <2>2, <2>5, <1>2, PortGoneSound
    <2> QED BY <2>1, <2>6, <1>6
  <1>9. ASSUME NEW i \in rsrc_find(rsrc, "RSRC_SEM"), Become(sem_destroy(Tables, i))
        PROVE  Sound(Tables')
    <2>1. i \in Ids /\ k.rsrc.type[i] = "RSRC_SEM"
      BY <1>2 DEF rsrc_find
    <2>2. Sound(sem_destroy(k, i))
      BY <2>1, <1>2, SemGoneSound
    <2> QED BY <2>2, <1>1, <1>6, <1>9
  <1>10. ASSUME reap(t)
         PROVE  Sound(Tables')
    <2>1. Become(task_destroy(k, t))
      BY <1>1, <1>10 DEF reap
    <2>2. Sound(task_destroy(k, t))
      BY <1>2, <1>3, ReapSound
    <2> QED BY <2>1, <2>2, <1>6
  <1> QED BY <1>7, <1>8, <1>9, <1>10 DEF Destroys

(* A break past the pages that are there, in half pages, asks for more.     *)
LEMMA WholePages ==
    ASSUME NEW h \in Nat, NEW l \in Nat
    PROVE  (IF h <= 2 * l THEN 0 ELSE h \div 2 - l) \in Nat
  OBVIOUS

(* area_resize(): aspace.c, and os_brk(), which calls it.                  *)
LEMMA ResizeSound ==
    ASSUME Sound(Tables), NEW t \in rsrc_find(rsrc, "RSRC_TASK"),
           NEW a \in rsrc_find(rsrc, "RSRC_AREA"), NEW halves \in Nat,
           os_area_resize(t, a, halves)
    PROVE  Sound(Tables')
  <1>1. PICK k : k = Tables
    OBVIOUS
  <1>2. /\ Sound(k) /\ k \in TableStates /\ MemSound(k.mem)
        /\ k.rsrc = rsrc /\ k.mem = mem /\ k.team = team
        /\ k.task = task /\ k.port = port
    <2>1. /\ k.rsrc = rsrc /\ k.mem = mem /\ k.team = team /\ k.task = task
          /\ k.port = port
      BY <1>1 DEF Tables
    <2> QED BY <2>1, <1>1 DEF Sound
  <1>3. t \in Ids /\ k.rsrc.type[t] = "RSRC_TASK" /\ a \in Ids /\ k.rsrc.type[a] = "RSRC_AREA"
    BY <1>2 DEF rsrc_find
  <1>4. PICK s : s = SpaceOf(t)
    OBVIOUS
  <1>5. s \in Ids
    BY <1>2, <1>3, <1>4, TeamLives DEF SpaceOf, TeamOf
  <1>6. a \in Mapped(k.mem)
    BY <1>2, <1>3, AreasAreMapped
  <1>7. PICK n : n = PagesToAdd(mem, a, halves)
    OBVIOUS
  <1>8. /\ HasPages(k.mem, n)
        /\ ResizeWhole => MapsWholeGroup(t, a)
        /\ CanGrow(k.mem, s, a, n) /\ mem' = area_resize(k.mem, s, a, n)
        /\ rsrc' = rsrc /\ team' = team /\ task' = task /\ port' = port
    BY <1>2, <1>4, <1>7 DEF os_area_resize
  <1>9. n \in Nat
    <2>1. PICK l \in Nat : l = Len(k.mem.pgroup[k.mem.area[a].pgroup].pages)
      <3>1. k.mem.area[a].pgroup \in Groups
        BY <1>2, <1>6 DEF MemSound, GroupsSound
      <3>2. k.mem.pgroup[k.mem.area[a].pgroup].pages \in Seq(Nat)
        BY <3>1, <1>2 DEF MemSound, GroupsSound, MemStates, PGroups
      <3> QED BY <3>2, LenProperties
    <2>2. n = IF halves <= 2 * l THEN 0 ELSE halves \div 2 - l
      BY <2>1, <1>2, <1>7 DEF PagesToAdd
    <2> QED BY <2>1, <2>2, WholePages
  <1>10. ResizeWhole => /\ a \in k.mem.areas[s]
                        /\ ~k.mem.pgroup[k.mem.area[a].pgroup].physmap
                        /\ k.mem.area[a].length = Len(k.mem.pgroup[k.mem.area[a].pgroup].pages)
    BY <1>2, <1>4, <1>8 DEF MapsWholeGroup, Attached
  <1>11. MemMoves(k.mem, area_resize(k.mem, s, a, n), k.mem.areas)
    BY <1>2, <1>5, <1>6, <1>8, <1>9, <1>10, AreaResizeSound
  <1>12. PICK M : M = area_resize(k.mem, s, a, n)
    OBVIOUS
  <1>13. PICK q : q = Tables'
    OBVIOUS
  <1>14. q = [rsrc |-> k.rsrc, mem |-> M, team |-> k.team, task |-> k.task, port |-> k.port]
    BY <1>2, <1>8, <1>12, <1>13 DEF Tables
  <1>15. MemMoves(k.mem, M, k.mem.areas) /\ M \in MemStates
    BY <1>11, <1>12 DEF MemMoves, MemSound, GroupsSound
  <1>16. q \in TableStates
    BY <1>2, <1>14, <1>15 DEF TableStates
  <1>17. Sound(q)
    BY <1>2, <1>14, <1>15, <1>16, MemKept
  <1> QED BY <1>13, <1>17

(* os_area_resize(), os_brk() and port_slave().                            *)
LEMMA ChangesSound ==
    ASSUME Sound(Tables), NEW t \in rsrc_find(rsrc, "RSRC_TASK"), Changes(t)
    PROVE  Sound(Tables')
  <1>1. ASSUME NEW a \in rsrc_find(rsrc, "RSRC_AREA"), NEW halves \in GrowTo,
               os_area_resize(t, a, halves)
        PROVE  Sound(Tables')
    BY <1>1, ResizeSound, TeamsAssumption
  <1>2. ASSUME NEW page \in Breaks, brk(t, page)
        PROVE  Sound(Tables')
    <2>1. PICK a \in rsrc_find(rsrc, "RSRC_AREA") : os_area_resize(t, a, 2 * page)
      BY <1>2 DEF brk
    <2>2. 2 * page \in Nat
      BY TeamsAssumption
    <2> QED BY <2>1, <2>2, ResizeSound
  <1>3. ASSUME NEW p \in rsrc_find(rsrc, "RSRC_PORT"),
               NEW w \in rsrc_find(rsrc, "RSRC_PORT") \cup {0}, port_slave(t, p, w)
        PROVE  Sound(Tables')
    <2>1. PICK k : k = Tables
      OBVIOUS
    <2>2. k.rsrc = rsrc /\ k.mem = mem /\ k.team = team /\ k.task = task /\ k.port = port
      BY <2>1 DEF Tables
    <2>3. Sound(k) /\ k \in TableStates /\ k.port \in [Ids -> PortRecs]
      BY <2>1 DEF Sound, TableStates
    <2>4. /\ t \in Ids /\ k.rsrc.type[t] = "RSRC_TASK"
          /\ p \in Ids /\ k.rsrc.type[p] = "RSRC_PORT" /\ w \in Ids \cup {0}
          /\ w # 0 => k.rsrc.type[w] = "RSRC_PORT"
      BY <2>2 DEF rsrc_find
    <2>5. /\ k.rsrc.owner[p] = k.rsrc.owner[t]
          /\ w # 0 => k.rsrc.owner[w] = k.rsrc.owner[t]
          /\ port' = [i \in Ids |->
                 [k.port[i] EXCEPT
                    !.slaved   = IF i = p THEN w ELSE @,
                    !.refcount = @ + (IF i = w THEN 1 ELSE 0)
                                   - (IF i = k.port[p].slaved THEN 1 ELSE 0)]]
          /\ rsrc' = rsrc /\ mem' = mem /\ team' = team /\ task' = task
      BY <1>3, <2>2 DEF port_slave, TeamOf
    <2>6. Is(k, k.rsrc.owner[p], "RSRC_TEAM")
      <3>1. k.rsrc.owner[t] \in Ids /\ k.rsrc.type[k.rsrc.owner[t]] = "RSRC_TEAM"
        BY <2>3, <2>4, TeamLives
      <3> QED BY <3>1, <2>5 DEF Is
    <2>7. Enslaved(k.port, port', p, w)
      BY <2>3, <2>4, <2>5, Enslaves
    <2>8. PICK q : q = Tables'
      OBVIOUS
    <2>9. /\ q = [rsrc |-> k.rsrc, mem |-> k.mem, team |-> k.team, task |-> k.task,
                  port |-> port']
      BY <2>2, <2>5, <2>8 DEF Tables
    <2>10. port' \in [Ids -> PortRecs]
      <3>1. \A i \in Ids : port'[i] \in PortRecs
        BY <2>7 DEF Enslaved
      <3>2. \E f : port' = [i \in Ids |-> f[i]]
        <4>1. PICK f : f = [i \in Ids |->
                 [k.port[i] EXCEPT
                    !.slaved   = IF i = p THEN w ELSE @,
                    !.refcount = @ + (IF i = w THEN 1 ELSE 0)
                                   - (IF i = k.port[p].slaved THEN 1 ELSE 0)]]
          OBVIOUS
        <4>2. port' = f /\ f = [i \in Ids |-> f[i]]
          BY <4>1, <2>5
        <4> QED BY <4>2
      <3> QED BY <3>1, <3>2
    <2>11. q \in TableStates
      BY <2>3, <2>9, <2>10 DEF TableStates
    <2>12. /\ q.rsrc = k.rsrc /\ q.mem = k.mem /\ q.team = k.team
           /\ Enslaved(k.port, q.port, p, w)
      BY <2>7, <2>9
    <2>13. w # 0 => k.rsrc.type[w] = "RSRC_PORT" /\ k.rsrc.owner[w] = k.rsrc.owner[p]
      BY <2>4, <2>5
    <2>14. Sound(q)
      BY <2>3, <2>4, <2>6, <2>11, <2>12, <2>13, SlaveSound
    <2> QED BY <2>8, <2>14
  <1> QED BY <1>1, <1>2, <1>3 DEF Changes

(* The last program that was started has a team while others are started. *)
BootSound ==
    /\ booted \in 0 .. Len(Images) /\ current \in Ids \cup {NoTeam}
    /\ ~Started => AnyTeam(Tables, current)

(* go_kernel(): kernel.c, one program.                                     *)
LEMMA ProgramSound ==
    ASSUME Sound(Tables), BootSound, go_kernel
    PROVE  Sound(Tables') /\ BootSound'
  <1> DEFINE E == team_create(Tables)
             M == CHOOSE i \in Ids : E.team[i] # team[i]
             B == new_thread(E, current, M)
             X == new_area(B, M, M, TextPages, 1, Images[booted + 1])
             Y == new_area(X, M, M, HeapPages, 1 + TextPages, NoPage)
             Z == [Y EXCEPT !.team[M].heap_id = NextId(X)]
  <1>1. /\ ~Started /\ Room(2, 0, 0) /\ RoomIn(E, 2, 1, 1) /\ RoomIn(B, 1, 0, 1)
        /\ RoomIn(X, 1, HeapPages, 1) /\ FindsSpan(B, M, TextPages, 1)
        /\ FindsSpan(X, M, HeapPages, 1 + TextPages)
        /\ Become(Z) /\ booted' = booted + 1 /\ current' = M
    BY Zenon DEF go_kernel
  <1>2. PICK k : k = Tables
    OBVIOUS
  <1>3. Sound(k) /\ Cardinality(k.rsrc.rfree) >= 2 /\ k.team = team
    <2> HIDE DEF E, M, B, X, Y, Z
    <2> QED BY <1>1, <1>2, RoomGives DEF Tables
  <1>4. PICK f : f = E
    OBVIOUS
  <1>5. PICK m \in Ids :
              /\ Sound(f) /\ f.rsrc.type[m] = "RSRC_TEAM" /\ f.team[m] # k.team[m]
              /\ \A n \in Ids \ {m} : f.team[n] = k.team[n]
              /\ \A i \in Ids : k.rsrc.type[i] # RSRC_NONE =>
                    f.rsrc.type[i] = k.rsrc.type[i]
    <2>1. f = team_create(k)
      BY <1>2, <1>4
    <2> HIDE DEF E, M, B, X, Y, Z
    <2> QED BY <2>1, <1>3, TeamMadeSound
  <1>6. M = m
    <2>1. M = CHOOSE i \in Ids : f.team[i] # team[i]
      BY <1>4
    <2> HIDE DEF E, M, B, X, Y, Z
    <2> QED BY <2>1, <1>3, <1>5
  <1>7. /\ B = new_thread(f, current, m)
        /\ Z = [Y EXCEPT !.team[m].heap_id = NextId(X)]
    <2>1. B = new_thread(E, current, M) /\ Z = [Y EXCEPT !.team[M].heap_id = NextId(X)]
      OBVIOUS
    <2> HIDE DEF E, M, B, X, Y, Z
    <2> QED BY <2>1, <1>4, <1>6
  <1>8. X = new_area(B, m, m, TextPages, 1, Images[booted + 1])
    <2>1. X = new_area(B, M, M, TextPages, 1, Images[booted + 1])
      OBVIOUS
    <2> HIDE DEF E, M, B, X, Y, Z
    <2> QED BY <2>1, <1>6
  <1>9. Y = new_area(X, m, m, HeapPages, 1 + TextPages, NoPage)
    <2>1. Y = new_area(X, M, M, HeapPages, 1 + TextPages, NoPage)
      OBVIOUS
    <2> HIDE DEF E, M, B, X, Y, Z
    <2> QED BY <2>1, <1>6
  <1>10. /\ RoomIn(f, 2, 1, 1) /\ FindsSpan(B, m, TextPages, 1)
         /\ FindsSpan(X, m, HeapPages, 1 + TextPages) /\ current' = m
    <2> HIDE DEF E, M, B, X, Y, Z
    <2> QED BY <1>1, <1>4, <1>6
  <1> HIDE DEF E, M, B, X, Y, Z
  <1>11. Sound(B) /\ B.rsrc.type[m] = "RSRC_TEAM"
    <2>1. AnyTeam(f, current)
      <3>1. AnyTeam(k, current)
        BY <1>1, <1>2 DEF BootSound
      <3>2. \A n : Is(k, n, "RSRC_TEAM") => Is(f, n, "RSRC_TEAM")
        BY <1>5 DEF Is, RSRC_NONE
      <3> QED BY <3>1, <3>2 DEF AnyTeam
    <2>2. /\ Cardinality(f.rsrc.rfree) >= 2 /\ HasPages(f.mem, 1)
          /\ Cardinality({g \in Groups : f.mem.pgroup[g].refcount = 0}) >= 1
      BY <1>10 DEF RoomIn
    <2> QED BY <2>1, <2>2, <1>5, <1>7, NewThreadSound
  <1>12. ASSUME NEW b, Sound(b), b.rsrc.type[m] = "RSRC_TEAM",
                NEW pages, NEW size \in Nat, NEW virt, NEW phys \in {NoPage} \cup DevicePages,
                RoomIn(b, 1, pages, 1), phys = NoPage => pages = size,
                FindsSpan(b, m, size, virt)
         PROVE  /\ Sound(new_area(b, m, m, size, virt, phys))
                /\ new_area(b, m, m, size, virt, phys).rsrc.type[m] = "RSRC_TEAM"
                /\ NextId(b) \in Ids
    <2>1. PICK q : q = new_area(b, m, m, size, virt, phys)
      OBVIOUS
    <2>2. /\ Cardinality(b.rsrc.rfree) >= 1 /\ HasPages(b.mem, pages)
          /\ Cardinality({g \in Groups : b.mem.pgroup[g].refcount = 0}) >= 1
      BY <1>12 DEF RoomIn
    <2>3. b.rsrc.rfree # {}
      <3>1. SUFFICES ASSUME b.rsrc.rfree = {}
                     PROVE  FALSE
        OBVIOUS
      <3>2. Cardinality(b.rsrc.rfree) = 0
        BY <3>1, FS_EmptySet
      <3> QED BY <3>2, <2>2
    <2>4. AnyTeam(b, m)
      BY <1>12 DEF AnyTeam, Is
    <2>5. phys = NoPage => HasPages(b.mem, size)
      BY <2>2, <1>12
    <2>6. /\ Sound(q) /\ Named(b.rsrc, q.rsrc, NextId(b), "RSRC_AREA", m)
          /\ NextId(b) \in Ids /\ b.rsrc.type[NextId(b)] = RSRC_NONE
      BY <2>1, <2>2, <2>3, <2>4, <2>5, <1>12, NewAreaSound
    <2>7. q.rsrc.type[m] = "RSRC_TEAM"
      BY <2>6, <1>12 DEF Named, RSRC_NONE
    <2> QED BY <2>1, <2>6, <2>7
  <1>13. /\ TextPages \in Nat /\ HeapPages \in Nat /\ NoPage \notin DevicePages
         /\ booted + 1 \in 1 .. Len(Images) /\ Images[booted + 1] \in DevicePages
    <2>1. booted \in 0 .. Len(Images) /\ booted # Len(Images) /\ Len(Images) \in Nat
      BY <1>1, TeamsAssumption DEF BootSound, Started
    <2> QED BY <2>1, TeamsAssumption, AreasAssumption DEF NoPage
  <1>14. Sound(X) /\ X.rsrc.type[m] = "RSRC_TEAM"
    BY <1>1, <1>8, <1>10, <1>11, <1>12, <1>13
  <1>15. Sound(Y) /\ Y.rsrc.type[m] = "RSRC_TEAM" /\ NextId(X) \in Ids
    BY <1>1, <1>9, <1>10, <1>12, <1>13, <1>14
  <1>16. Sound(Z) /\ Z.rsrc = Y.rsrc
    BY <1>7, <1>15, HeapSound
  <1>17. Tables' = Z
    BY <1>1, <1>16, BecomeIs DEF Sound
  <1>18. BootSound'
    <2>1. booted' \in 0 .. Len(Images)
      BY <1>1, <1>13
    <2>2. AnyTeam(Tables', current')
      BY <1>10, <1>15, <1>16, <1>17 DEF AnyTeam, Is
    <2> QED BY <2>1, <2>2, <1>10 DEF BootSound
  <1> QED BY <1>16, <1>17, <1>18

(* Every step keeps the tables sound.                                      *)
LEMMA NextSound ==
    ASSUME Sound(Tables), BootSound, [Next]_vars
    PROVE  Sound(Tables') /\ BootSound'
  <1>1. CASE UNCHANGED vars
    <2>1. Tables' = Tables
      BY <1>1 DEF vars, Tables
    <2>2. booted' = booted /\ current' = current
      BY <1>1 DEF vars, boot
    <2> QED BY <2>1, <2>2 DEF BootSound, Started
  <1>2. CASE go_kernel
    BY <1>2, ProgramSound
  <1>3. ASSUME NEW t \in rsrc_find(rsrc, "RSRC_TASK"), Started, UNCHANGED boot,
               Creates(t) \/ Destroys(t) \/ Changes(t)
        PROVE  Sound(Tables') /\ BootSound'
    <2>1. Sound(Tables')
      BY <1>3, CreatesSound, DestroysSound, ChangesSound
    <2>2. BootSound'
      BY <1>3 DEF BootSound, Started, boot
    <2> QED BY <2>1, <2>2
  <1> QED BY <1>1, <1>2, <1>3 DEF Next

-----------------------------------------------------------------------------
(* Nothing is there before go_kernel().                                    *)

(* rsrc_init(): resource.c:73.                                             *)
LEMMA RsrcInitSound == TableSound(rsrc_init)
  <1>1. rsrc_init \in RsrcStates
    BY Names DEF rsrc_init, RsrcStates
  <1>2. IdsAccountedIn(rsrc_init)
    BY DEF rsrc_init, IdsAccountedIn, rsrc_find
  <1>3. OwnersAgreeIn(rsrc_init)
    BY Names DEF rsrc_init, OwnersAgreeIn
  <1> QED BY <1>1, <1>2, <1>3 DEF TableSound, rsrc_init

(* memory_init(): memory.c.                                                *)
LEMMA MemoryInitSound ==
    /\ MemSound(memory_init) /\ KernelPages(memory_init) = 0
    /\ \A s \in Ids : memory_init.areas[s] = {}
  <1>1. UnusedGroup \in PGroups /\ UnusedArea \in AreaRecs /\ EmptyTable \in [VPages -> Nat]
    <2>1. <<>> \in Seq(Nat \ {NoPage})
      OBVIOUS
    <2> QED BY <2>1 DEF UnusedGroup, UnusedArea, EmptyTable, PGroups, AreaRecs, NoPage
  <1>2. PICK m : m = memory_init
    OBVIOUS
  <1>3. /\ m.free = Pages /\ m.used = 0
        /\ m.table = [s \in Ids |-> EmptyTable] /\ m.areas = [s \in Ids |-> {}]
        /\ m.area = [a \in Ids |-> UnusedArea] /\ m.pgroup = [g \in Groups |-> UnusedGroup]
        /\ m = [free |-> m.free, used |-> m.used, table |-> m.table, areas |-> m.areas,
                area |-> m.area, pgroup |-> m.pgroup]
    BY <1>2 DEF memory_init
  <1>4. m \in MemStates
    <2>1. /\ m.free \in SUBSET Pages /\ m.used \in Int /\ m.table \in [Ids -> [VPages -> Nat]]
          /\ m.areas \in [Ids -> SUBSET Ids] /\ m.area \in [Ids -> AreaRecs]
          /\ m.pgroup \in [Groups -> PGroups]
      BY <1>1, <1>3
    <2> QED BY <2>1, <1>3 DEF MemStates
  <1>5. Mapped(m) = {} /\ \A g : Users(m, g) = {}
    BY <1>3 DEF Mapped, Users
  <1>6. \A g \in Groups : /\ m.pgroup[g] = UnusedGroup /\ m.pgroup[g].refcount = 0
                          /\ Members(m.pgroup[g].pages) = {}
    BY <1>3 DEF UnusedGroup, Members
  <1>7. GroupsSound(m)
    BY <1>3, <1>4, <1>5, <1>6 DEF GroupsSound
  <1>8. \A g \in Groups : m.pgroup[g].refcount = Cardinality(Users(m, g))
    BY <1>5, <1>6, FS_EmptySet
  <1>9. RamSound(m)
    <2>1. \A g \in Groups : Once(m.pgroup[g].pages)
      BY <1>6 DEF Once, UnusedGroup
    <2> QED BY <2>1, <1>3, <1>6 DEF RamSound
  <1>10. \A s \in Ids, v \in VPages : m.table[s][v] = NoPage
    BY <1>3 DEF EmptyTable
  <1>11. TablesSound(m)
    BY <1>3, <1>10 DEF TablesSound, EntrySound
  <1>12. MemSound(m)
    BY <1>7, <1>8, <1>9, <1>11 DEF MemSound
  <1>13. KernelPages(m) = 0
    <2>1. Pages \ m.free = {}
      BY <1>3
    <2> QED BY <2>1, <1>3, FS_EmptySet DEF KernelPages
  <1> QED BY <1>2, <1>3, <1>12, <1>13

(* The tables before go_kernel().                                          *)
Empty == [rsrc |-> rsrc_init, mem |-> memory_init,
          team |-> [m \in Ids |-> NoTeamRecord], task |-> [t \in Ids |-> NoArea],
          port |-> [p \in Ids |-> NoPortRecord]]

(* Nothing is owned yet.                                                   *)
LEMMA EmptySound == Sound(Empty) /\ Empty.rsrc = rsrc_init /\ Empty.mem = memory_init
  <1>1. PICK k : k = Empty
    OBVIOUS
  <1>2. /\ k.rsrc = rsrc_init /\ k.mem = memory_init /\ k.team = [m \in Ids |-> NoTeamRecord]
        /\ k.task = [t \in Ids |-> NoArea] /\ k.port = [p \in Ids |-> NoPortRecord]
        /\ k = [rsrc |-> k.rsrc, mem |-> k.mem, team |-> k.team, task |-> k.task,
                port |-> k.port]
    BY <1>1 DEF Empty
  <1>3. TableSound(k.rsrc) /\ MemSound(k.mem) /\ KernelPages(k.mem) = 0
    BY <1>2, RsrcInitSound, MemoryInitSound
  <1>4. k \in TableStates
    <2>1. k.rsrc \in RsrcStates /\ k.mem \in MemStates
      BY <1>3 DEF TableSound, MemSound, GroupsSound
    <2>2. /\ k.team \in [Ids -> TeamRecs] /\ k.task \in [Ids -> Ids \cup {NoArea}]
          /\ k.port \in [Ids -> PortRecs]
      BY <1>2 DEF NoTeamRecord, NoPortRecord, TeamRecs, PortRecs
    <2> QED BY <2>1, <2>2, <1>2 DEF TableStates
  <1>5. \A i \in Ids : k.rsrc.type[i] \notin {"RSRC_TASK", "RSRC_SEM", "RSRC_ASPACE", "RSRC_AREA",
                                              "RSRC_PORT", "RSRC_QUEUE", "RSRC_TEAM"}
    BY <1>2 DEF rsrc_init, RSRC_NONE
  <1>6. TeamsSound(k)
    BY <1>2, <1>5 DEF TeamsSound, TeamSound
  <1>7. MembersSound(k)
    <2>1. \A s \in Ids : k.mem.areas[s] = {}
      BY <1>2, MemoryInitSound
    <2> QED BY <2>1, <1>5 DEF MembersSound, MemberSound, AreasInSpaces
  <1>8. PortsSound(k)
    BY <1>2, <1>5 DEF PortsSound, PortSound
  <1>9. CountsSound(k)
    <2>1. Having(k, "RSRC_ASPACE") = {} /\ Having(k, "RSRC_TASK") = {}
      BY <1>5 DEF Having
    <2> QED BY <2>1, <1>3, FS_EmptySet DEF CountsSound
  <1> QED BY <1>1, <1>2, <1>3, <1>4, <1>6, <1>7, <1>8, <1>9 DEF Sound

(* The inductive invariant.                                                *)
THEOREM TeamsSoundAlways == Spec => [](Sound(Tables) /\ BootSound)
  <1>1. ASSUME Init
        PROVE  Sound(Tables) /\ BootSound
    <2>1. Tables = Empty
      BY <1>1 DEF Init, Tables, Empty
    <2>2. booted \in 0 .. Len(Images) /\ current = NoTeam
      <3>1. Len(Images) \in Nat
        BY TeamsAssumption
      <3> QED BY <3>1, <1>1 DEF Init
    <2> QED BY <2>1, <2>2, EmptySound DEF BootSound, AnyTeam
  <1>2. Sound(Tables) /\ BootSound /\ [Next]_vars => Sound(Tables)' /\ BootSound'
    BY NextSound
  <1> QED BY <1>1, <1>2, PTL DEF Spec

-----------------------------------------------------------------------------
(* What the invariant says.                                                *)

(* A page group counts the areas that live and map it.                     *)
GroupsCounted ==
    \A g \in Groups : mem.pgroup[g].refcount =
        Cardinality({a \in Live("RSRC_AREA") : mem.area[a].pgroup = g})

(* The parts of the invariant that a property needs.                       *)
LEMMA SoundGives ==
    ASSUME Sound(Tables)
    PROVE  /\ TableSound(rsrc) /\ MemSound(mem) /\ MembersSound(Tables)
           /\ TeamsSound(Tables) /\ PortsSound(Tables) /\ CountsSound(Tables)
           /\ Tables.rsrc = rsrc /\ Tables.mem = mem /\ Tables.team = team
           /\ Tables.task = task /\ Tables.port = port
           /\ rsrc \in RsrcStates /\ mem \in MemStates
           /\ team \in [Ids -> TeamRecs] /\ task \in [Ids -> Ids \cup {NoArea}]
           /\ port \in [Ids -> PortRecs]
           /\ \A kind : Live(kind) = Having(Tables, kind)
           /\ Live("RSRC_AREA") = Mapped(mem)
  <1>1. /\ Tables.rsrc = rsrc /\ Tables.mem = mem /\ Tables.team = team
        /\ Tables.task = task /\ Tables.port = port
    BY DEF Tables
  <1>2. \A kind : Live(kind) = Having(Tables, kind)
    BY <1>1 DEF Live, rsrc_find, Having
  <1>3. Live("RSRC_AREA") = Mapped(mem)
    <2>1. \A i \in Ids : rsrc.type[i] = "RSRC_AREA" <=> (i \in Mapped(mem))
      <3>1. ASSUME NEW i \in Ids
            PROVE  rsrc.type[i] = "RSRC_AREA" <=> (i \in Mapped(mem))
        <4>1. rsrc.type[i] = "RSRC_AREA" => i \in Mapped(mem)
          BY <1>1, AreasAreMapped
        <4>2. i \in Mapped(mem) => rsrc.type[i] = "RSRC_AREA"
          BY <1>1, AreaIn DEF Sound, Mapped
        <4> QED BY <4>1, <4>2
      <3> QED BY <3>1
    <2> QED BY <2>1 DEF Live, rsrc_find, Mapped
  <1>4. /\ rsrc \in RsrcStates /\ mem \in MemStates
        /\ team \in [Ids -> TeamRecs] /\ task \in [Ids -> Ids \cup {NoArea}]
        /\ port \in [Ids -> PortRecs]
    BY <1>1 DEF Sound, TableStates
  <1> QED BY <1>1, <1>2, <1>3, <1>4 DEF Sound

(* Every identifier is free or names one resource, and what a team's list  *)
(* holds is what it owns (resource.c:73-119).                              *)
THEOREM TeamsResources == Spec => []ResourcesAccounted
  <1>1. Sound(Tables) => ResourcesAccounted
    BY SoundGives DEF TableSound, ResourcesAccounted
  <1> QED BY <1>1, TeamsSoundAlways, PTL

(* Counts of threads and of slaves are never negative.                     *)
THEOREM TeamsTypes == Spec => []TypeOK
  <1>1. ASSUME Sound(Tables), BootSound
        PROVE  TypeOK
    <2>1. /\ rsrc \in RsrcStates /\ task \in [Ids -> Ids \cup {NoArea}]
          /\ team \in [Ids -> TeamRecs] /\ port \in [Ids -> PortRecs]
          /\ TeamsSound(Tables) /\ PortsSound(Tables)
          /\ Tables.team = team /\ Tables.port = port
      BY <1>1, SoundGives
    <2>2. \A S : S \subseteq Ids => IsFiniteSet(S) /\ Cardinality(S) \in Nat
      BY Names, FS_Subset, FS_CardinalityType
    <2>3. ASSUME NEW m \in Ids
          PROVE  team[m].refcount \in Nat
      <3>1. Cardinality(TasksOf(Tables, m)) \in Nat
        BY <2>2 DEF TasksOf
      <3>2. TeamSound(Tables, m)
        BY <2>1 DEF TeamsSound
      <3>3. team[m].refcount = Cardinality(TasksOf(Tables, m)) \/ team[m] = NoTeamRecord
        BY <2>1, <3>2 DEF TeamSound
      <3> QED BY <3>1, <3>3 DEF NoTeamRecord
    <2>4. ASSUME NEW p \in Ids
          PROVE  port[p].refcount \in Nat
      <3>1. Cardinality(Slaves(Tables, p)) \in Nat
        BY <2>2 DEF Slaves
      <3>2. PortSound(Tables, p)
        BY <2>1 DEF PortsSound
      <3>3. port[p].refcount > Cardinality(Slaves(Tables, p)) \/ port[p] = NoPortRecord
        BY <2>1, <3>2 DEF PortSound
      <3>4. port[p].refcount \in Int
        BY <2>1 DEF PortRecs
      <3> QED BY <3>1, <3>3, <3>4 DEF NoPortRecord
    <2>5. team \in [Ids -> [refcount : Nat, aspace : Ids \cup {0},
                            heap_id : Ids \cup {NoArea}]]
      BY <2>1, <2>3 DEF TeamRecs
    <2>6. port \in [Ids -> [slaved : Ids \cup {0}, refcount : Nat,
                            sendqueue : Ids \cup {0}]]
      BY <2>1, <2>4 DEF PortRecs
    <2> QED BY <1>1, <2>1, <2>5, <2>6 DEF TypeOK, RsrcStates, BootSound
  <1> QED BY <1>1, TeamsSoundAlways, PTL

(* A dead team leaves ports that still count slaves, with their queues,    *)
(* and nothing else of its own (team.c:29-59).  Every area is in the space *)
(* of a living team, also when the team it is bound to has died.           *)
THEOREM TeamsMasters == Spec => []OnlyMastersOutliveTeams
  <1>1. ASSUME Sound(Tables)
        PROVE  OnlyMastersOutliveTeams
    <2>1. /\ rsrc \in RsrcStates /\ MembersSound(Tables) /\ TeamsSound(Tables)
          /\ PortsSound(Tables) /\ Tables.rsrc = rsrc /\ Tables.port = port
          /\ Tables.mem = mem /\ Tables.team = team
      BY <1>1, SoundGives
    <2>2. \A i : Is(Tables, i, "RSRC_TEAM") <=> (i \in Live("RSRC_TEAM"))
      BY <2>1 DEF Is, Live, rsrc_find
    <2>3. ASSUME NEW p \in Ids, rsrc.type[p] = "RSRC_PORT"
          PROVE  /\ port[p].sendqueue \in Ids
                 /\ rsrc.owner[port[p].sendqueue] = rsrc.owner[p]
                 /\ rsrc.owner[p] \in Live("RSRC_TEAM") \/ port[p].refcount > 1
                 /\ p \in Live("RSRC_PORT")
      <3>1. PortSound(Tables, p)
        BY <2>1 DEF PortsSound
      <3> QED BY <3>1, <2>1, <2>2, <2>3 DEF PortSound, Is, Live, rsrc_find
    <2>4. ASSUME NEW i \in Ids, rsrc.type[i] \notin {RSRC_NONE, "RSRC_AREA"}
          PROVE  Owned(i)
      <3>1. CASE rsrc.type[i] \in {"RSRC_TASK", "RSRC_SEM", "RSRC_ASPACE"}
        <4>1. rsrc.owner[i] \in Ids /\ rsrc.type[rsrc.owner[i]] = "RSRC_TEAM"
          BY <3>1, <2>1, MemberOf
        <4> QED BY <4>1 DEF Owned, Live, rsrc_find
      <3>2. CASE rsrc.type[i] = "RSRC_TEAM"
        <4>1. TeamSound(Tables, i)
          BY <2>1 DEF TeamsSound
        <4> QED BY <4>1, <3>2, <2>1 DEF TeamSound, Owned
      <3>3. CASE rsrc.type[i] = "RSRC_PORT"
        BY <3>3, <2>3 DEF Owned
      <3>4. CASE rsrc.type[i] = "RSRC_QUEUE"
        <4>1. PICK p \in Ids : rsrc.type[p] = "RSRC_PORT" /\ port[p].sendqueue = i
          BY <3>4, <2>1 DEF PortsSound
        <4> QED BY <4>1, <2>3 DEF Owned
      <3>5. rsrc.type[i] \in Kinds
        BY <2>1, <2>4 DEF RsrcStates
      <3> QED BY <3>1, <3>2, <3>3, <3>4, <3>5, <2>4 DEF Kinds
    <2>5. ASSUME NEW a \in Ids, rsrc.type[a] = "RSRC_AREA"
          PROVE  InLivingSpace(a)
      <3>1. a \in Mapped(mem) /\ rsrc.owner[a] \in Live("RSRC_TEAM") \cup {NoTeam}
        BY <2>1, <2>5, MemberOf DEF Live, rsrc_find
      <3>2. PICK s \in Ids : a \in mem.areas[s]
        BY <3>1 DEF Mapped
      <3>3. rsrc.type[s] = "RSRC_ASPACE"
        BY <3>2, <2>1, AreaIn
      <3>4. PICK m \in Ids : rsrc.type[m] = "RSRC_TEAM" /\ team[m].aspace = s
        BY <3>3, <2>1, MemberOf
      <3> QED BY <3>1, <3>2, <3>4 DEF InLivingSpace, Live, rsrc_find, Attached
    <2> QED BY <2>4, <2>5 DEF OnlyMastersOutliveTeams, RSRC_NONE
  <1> QED BY <1>1, TeamsSoundAlways, PTL

(* A page group lives as long as it has areas, also when areas are resized *)
(* that share one (aspace.c:368-386).                                      *)
THEOREM TeamsGroups == Spec => []GroupsCounted
  <1>1. ASSUME Sound(Tables)
        PROVE  GroupsCounted
    <2>1. MemSound(mem) /\ Live("RSRC_AREA") = Mapped(mem)
      BY <1>1, SoundGives
    <2> QED BY <2>1 DEF MemSound, Users, GroupsCounted
  <1> QED BY <1>1, TeamsSoundAlways, PTL

(* Each page of RAM is free or in one place in one group, and used_pages   *)
(* counts the others (memory.c:128-150), while only areas that map all of  *)
(* a group of RAM are resized.                                             *)
THEOREM TeamsPages ==
    ASSUME ResizeWhole
    PROVE  Spec => []PagesAccounted
  <1>1. ASSUME Sound(Tables)
        PROVE  PagesAccounted
    <2>1. /\ MemSound(mem) /\ RamSound(mem) /\ mem \in MemStates /\ CountsSound(Tables)
          /\ Tables.mem = mem /\ Live("RSRC_AREA") = Mapped(mem)
          /\ \A kind : Live(kind) = Having(Tables, kind)
      BY <1>1, SoundGives DEF MemSound
    <2>2. ASSUME NEW p \in Pages
          PROVE  Cardinality(Holders(p)) = 1
      <3>1. \A x : Cardinality({x}) = 1
        BY FS_Singleton
      <3>2. CASE p \in mem.free
        <4>1. \A g \in Groups : ~(~mem.pgroup[g].physmap /\ p \in Members(mem.pgroup[g].pages))
          BY <3>2, <2>1 DEF RamSound
        <4>2. Holders(p) = {<<"free", 0>>}
          BY <4>1, <3>2 DEF Holders
        <4> QED BY <4>2, <3>1
      <3>3. CASE p \notin mem.free
        <4>1. PICK g \in Groups : ~mem.pgroup[g].physmap /\ p \in Members(mem.pgroup[g].pages)
          BY <3>3, <2>1 DEF RamSound
        <4>2. \A h \in Groups : ~mem.pgroup[h].physmap /\ p \in Members(mem.pgroup[h].pages)
                                  => h = g
          BY <4>1, <2>1 DEF RamSound
        <4>3. Holders(p) = {<<"group", g>>}
          BY <4>1, <4>2, <3>3 DEF Holders
        <4> QED BY <4>3, <3>1
      <3> QED BY <3>2, <3>3
    <2>3. mem.used = Cardinality(Pages \ mem.free)
                     + 2 * Cardinality(Live("RSRC_ASPACE"))
                     + Cardinality(Live("RSRC_TASK"))
      <3>1. \A kind : Cardinality(Having(Tables, kind)) \in Nat
        BY Names, FS_Subset, FS_CardinalityType DEF Having
      <3>2. Cardinality(Pages \ mem.free) \in Nat
        <4>1. IsFiniteSet(Pages)
          BY AreasAssumption, FS_Interval DEF Pages
        <4> QED BY <4>1, FS_Difference, FS_CardinalityType
      <3>3. mem.used - Cardinality(Pages \ mem.free) =
               2 * Cardinality(Having(Tables, "RSRC_ASPACE"))
               + Cardinality(Having(Tables, "RSRC_TASK"))
        BY <2>1 DEF CountsSound, KernelPages
      <3>4. mem.used \in Int
        BY <2>1 DEF MemStates
      <3> QED BY <3>1, <3>2, <3>3, <3>4, <2>1
    <2>4. \A g \in Groups : mem.pgroup[g].refcount =
              Cardinality({a \in Live("RSRC_AREA") : mem.area[a].pgroup = g})
      BY <2>1 DEF MemSound, Users
    <2> QED BY <2>2, <2>3, <2>4 DEF PagesAccounted
  <1> QED BY <1>1, TeamsSoundAlways, PTL

(* An entry of a page table is that of the one area over it, and there is  *)
(* none where no area is (aspace.c:85-150), on the same condition.         *)
THEOREM TeamsTables ==
    ASSUME ResizeWhole
    PROVE  Spec => []TableMatchesAreas
  <1>1. ASSUME Sound(Tables)
        PROVE  TableMatchesAreas
    <2>1. /\ TablesSound(mem) /\ mem \in MemStates /\ Live("RSRC_AREA") = Mapped(mem)
      BY <1>1, SoundGives DEF MemSound
    <2>2. ASSUME NEW s \in Live("RSRC_ASPACE"), NEW v \in VPages
          PROVE  IF mem.table[s][v] = NoPage THEN AreasOver(s, v) = {}
                 ELSE \E a \in Ids : /\ AreasOver(s, v) = {a}
                                     /\ mem.pgroup[mem.area[a].pgroup].pages
                                            [v - mem.area[a].virt_addr + 1] = mem.table[s][v]
      <3>1. s \in Ids /\ mem.areas[s] \subseteq Ids
        BY <2>1 DEF Live, rsrc_find, MemStates
      <3>2. AreasOver(s, v) = {a \in mem.areas[s] : Over(mem, a, v)}
        BY <3>1, <2>1 DEF AreasOver, Over, Attached, Mapped
      <3>3. EntrySound(mem, s, v)
        BY <3>1, <2>1 DEF TablesSound
      <3>4. CASE mem.table[s][v] = NoPage
        BY <3>2, <3>3, <3>4 DEF EntrySound
      <3>5. CASE mem.table[s][v] # NoPage
        <4>1. PICK a \in mem.areas[s] :
                 /\ Over(mem, a, v) /\ Held(mem, a, v) = mem.table[s][v]
                 /\ \A b \in mem.areas[s] : Over(mem, b, v) => b = a
          BY <3>3, <3>5 DEF EntrySound
        <4>2. a \in Ids /\ AreasOver(s, v) = {a}
          BY <4>1, <3>1, <3>2
        <4> QED BY <4>1, <4>2, <3>5 DEF Held
      <3> QED BY <3>4, <3>5
    <2> QED BY <2>2 DEF TableMatchesAreas
  <1> QED BY <1>1, TeamsSoundAlways, PTL
=============================================================================
