------------------------------ MODULE MCHash -------------------------------
(***************************************************************************)
(* Model checking of Hash: a table and the keys it should hold, through    *)
(* insertions and removals in any order.  Keys are unique, as hash.c asks. *)
(***************************************************************************)
EXTENDS Hash, FiniteSets

CONSTANTS Keys,     \* keys inserted and removed
          Absent,   \* keys that are only looked up
          MaxDirty  \* bound on t.dirty, which the smallest table never resets

\* Smaller primes than those of table_size, so that few keys fill a table;
\* like those, each is two more than a prime.
SmallSizes == <<5, 7, 13>>

\* The keys that are there at once do not fill a table of the last size, for
\* which hash.c has no larger one, and whose slots it cleans by going down.
ASSUME MCHashAssumption ==
    /\ Keys \cup Absent \subseteq Nat /\ MaxDirty \in Nat /\ IsFiniteSet(Keys)
    /\ Len(TableSizes) >= 2
    /\ 2 * (Cardinality(Keys) - 1) <= TableSizes[Len(TableSizes)]

VARIABLES t,    \* the table
          kept  \* what it should hold: a function from keys to data

vars == <<t, kept>>

Init == t = hashtable_new /\ kept = [key \in {} |-> NULL]

\* The data of a key is key + 1, so that it is never NULL.
Insert(key) ==
    /\ key \notin DOMAIN kept
    /\ t' = hashtable_insert(t, key, key + 1)
    /\ kept' = [k \in DOMAIN kept \cup {key} |->
                   IF k = key THEN key + 1 ELSE kept[k]]

Remove(key) ==
    /\ key \in DOMAIN kept
    /\ t.dirty < MaxDirty
    /\ t' = hashtable_remove(t, key)
    /\ kept' = [k \in DOMAIN kept \ {key} |-> kept[k]]

Next == \E key \in Keys : Insert(key) \/ Remove(key)
Spec == Init /\ [][Next]_vars

\* Every search ends (hash.c:174, 198): whatever was inserted and removed, the
\* probes of every key, present or not, meet the key or a slot never used.
ProbesEnd == \A key \in Keys \cup Absent : Ends(t, key)

\* hash.c:111-220: a lookup finds just the keys that were inserted and not
\* removed, with their data, whatever was removed on their way and however
\* often the table was rebuilt.
EveryKeyReachable ==
    \A key \in Keys \cup Absent :
        hashtable_lookup(t, key) = IF key \in DOMAIN kept THEN kept[key] ELSE NULL
=============================================================================
