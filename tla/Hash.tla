-------------------------------- MODULE Hash --------------------------------
(***************************************************************************)
(* The hash table of libblt (hash.c): open addressing with double hashing, *)
(* slots marked dirty when their key is removed, and a table rebuilt one   *)
(* size up or down.                                                        *)
(*                                                                         *)
(* A table t is a record:                                                  *)
(*   size_index  which of TableSizes is its size                           *)
(*   used        slots taken since the last rebuild                        *)
(*   dirty       removals since the last rebuild                           *)
(*   table       table[i], the hashnode_t at i                             *)
(* max_load is 0.75, as in every call of hashtable_new().  Keys are        *)
(* natural numbers, as C's conversion to unsigned makes them.  A loop over *)
(* probes is given by the least number of probes at which it ends.  Sizes  *)
(* are prime, so that Size(t) probes visit every slot: a loop that has not *)
(* ended by then never does.                                               *)
(***************************************************************************)
EXTENDS Integers, Sequences

CONSTANTS TableSizes,  \* table_size: 7, 19, 43, ...
          NULL         \* returned by a lookup that finds nothing

ASSUME HashAssumption ==
    /\ TableSizes \in Seq(Nat) /\ TableSizes # <<>>
    /\ \A x \in 1 .. Len(TableSizes) :
           /\ TableSizes[x] > 4
           /\ \A d \in 2 .. TableSizes[x] - 1 : TableSizes[x] % d # 0
    /\ \A x \in 1 .. Len(TableSizes) - 1 : TableSizes[x] < TableSizes[x + 1]

NoNode  == [valid |-> FALSE, dirty |-> FALSE, key |-> 0, data |-> NULL]
Size(t) == TableSizes[t.size_index]

hashtable_new ==
    [size_index |-> 1, used |-> 0, dirty |-> 0,
     table |-> [i \in 0 .. TableSizes[1] - 1 |-> NoNode]]

hash(t, key)   == key % Size(t)
rehash(t, key) == 1 + (key % (Size(t) - 2))

\* The slot of a key's n-th probe.
Probe(t, key, n) == (hash(t, key) - n * rehash(t, key)) % Size(t)

\* The first probe in range at which P holds.
NodeAt(t, key, n) == t.table[Probe(t, key, n)]
First(t, key, range, P(_)) ==
    CHOOSE n \in range : /\ P(NodeAt(t, key, n))
                         /\ \A k \in range : k < n => ~P(NodeAt(t, key, k))

\* An insertion takes a first slot that was never used, or else the first
\* free one after it; the last probe is the first slot again.
Open(node) == ~node.valid \/ node.dirty
SlotFor(t, key) ==
    IF ~t.table[hash(t, key)].valid THEN hash(t, key)
    ELSE Probe(t, key, First(t, key, 1 .. Size(t), Open))

place(t, key, data) ==
    LET i == SlotFor(t, key) IN
    [t EXCEPT !.used = @ + (IF t.table[i].dirty THEN 0 ELSE 1),
              !.table[i] = [valid |-> TRUE, dirty |-> FALSE, key |-> key,
                            data |-> data]]

IsLive(node) == node.valid /\ ~node.dirty

\* An empty table of size x, into which old is put by put(_, _, _).
refill(old, x, put(_, _, _)) ==
    LET new == [size_index |-> x, used |-> 0, dirty |-> 0,
                table |-> [i \in 0 .. TableSizes[x] - 1 |-> NoNode]]
        upto[i \in 0 .. Size(old)] ==
            IF i = 0 THEN new
            ELSE LET node == old.table[i - 1] IN
                 IF IsLive(node) THEN put(upto[i - 1], node.key, node.data)
                 ELSE upto[i - 1]
    IN  upto[Size(old)]

\* hashtable_rebuild() up, in which no insertion rebuilds again.
grow(t) == refill(t, t.size_index + 1, place)

Overloaded(t) == 4 * t.used > 3 * Size(t)

\* Mutant: the table is not rebuilt before it is full.
hashtable_insert_unchecked(t, key, data) == place(t, key, data)

hashtable_insert(t, key, data) ==
    place(IF Overloaded(t) THEN grow(t) ELSE t, key, data)

\* hashtable_rebuild() down, which may find the smaller table too small and
\* go back up.
shrink(t) == refill(t, t.size_index - 1, hashtable_insert)

\* A search for key ends at the key, or at a slot never used.
Stops(key, node) == ~node.valid \/ (node.key = key /\ ~node.dirty)
Ends(t, key) == \E n \in 0 .. Size(t) - 1 : Stops(key, NodeAt(t, key, n))
EndOf(t, key) ==
    Probe(t, key, First(t, key, 0 .. Size(t) - 1, LAMBDA node : Stops(key, node)))

Found(t, key) == t.table[EndOf(t, key)]

hashtable_lookup(t, key) ==
    IF Found(t, key).valid THEN Found(t, key).data ELSE NULL

\* Mutant: the slot of a removed key is as if it had never been used.
hashtable_remove_emptied(t, key) ==
    LET i == EndOf(t, key)
    IN  IF ~t.table[i].valid THEN t ELSE [t EXCEPT !.table[i].valid = FALSE]

hashtable_remove(t, key) ==
    LET i    == EndOf(t, key)
        gone == [t EXCEPT !.table[i].dirty = TRUE, !.dirty = @ + 1]
    IN  IF ~t.table[i].valid THEN t
        ELSE IF 4 * gone.dirty > Size(t) /\ t.size_index > 1 THEN shrink(gone)
        ELSE gone
=============================================================================
