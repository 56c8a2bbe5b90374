----------------------------- MODULE Semaphore -----------------------------
(***************************************************************************)
(* What a kernel semaphore promises its users, without a scheduler: a      *)
(* counter of available units and a first-come first-served line of tasks. *)
(* A unit released while somebody is in line goes to the first in line and *)
(* is never available to a task that comes later.  A task in line leaves   *)
(* it with a unit, or because the semaphore was destroyed.                 *)
(***************************************************************************)
EXTENDS Integers, Sequences

CONSTANTS Sems, Tasks,
          Counts           \* the initial counts a semaphore may be given

VARIABLES live,       \* the semaphores that exist
          available,  \* available[s], the units nobody has taken
          line,       \* line[s], the tasks waiting for a unit, oldest first
          granted,    \* the tasks that left a line with a unit
          refused     \* the tasks that left a line because it was destroyed

vars == <<live, available, line, granted, refused>>

Init ==
    /\ live = {}
    /\ available = [s \in Sems |-> 0]
    /\ line = [s \in Sems |-> <<>>]
    /\ granted = {}
    /\ refused = {}

InLine(t) == \E s \in Sems : \E i \in 1 .. Len(line[s]) : line[s][i] = t

\* t has no acquire() in progress
Free(t) == ~InLine(t) /\ t \notin granted \cup refused

Create(s, n) ==
    /\ s \notin live
    /\ live' = live \cup {s}
    /\ available' = [available EXCEPT ![s] = n]
    /\ UNCHANGED <<line, granted, refused>>

Destroy(s) ==
    /\ s \in live
    /\ live' = live \ {s}
    /\ refused' = refused \cup {line[s][i] : i \in 1 .. Len(line[s])}
    /\ line' = [line EXCEPT ![s] = <<>>]
    /\ available' = [available EXCEPT ![s] = 0]
    /\ UNCHANGED granted

TakeAvailable(s) ==
    /\ s \in live
    /\ available[s] > 0
    /\ available' = [available EXCEPT ![s] = @ - 1]
    /\ UNCHANGED <<live, line, granted, refused>>

StandInLine(s, t) ==
    /\ s \in live
    /\ available[s] = 0
    /\ Free(t)
    /\ line' = [line EXCEPT ![s] = Append(@, t)]
    /\ UNCHANGED <<live, available, granted, refused>>

Release(s) ==
    /\ s \in live
    /\ line[s] = <<>>
    /\ available' = [available EXCEPT ![s] = @ + 1]
    /\ UNCHANGED <<live, line, granted, refused>>

HandOver(s) ==
    /\ s \in live
    /\ line[s] # <<>>
    /\ granted' = granted \cup {Head(line[s])}
    /\ line' = [line EXCEPT ![s] = Tail(@)]
    /\ UNCHANGED <<live, available, refused>>

Return(t) ==
    /\ t \in granted \cup refused
    /\ granted' = granted \ {t}
    /\ refused' = refused \ {t}
    /\ UNCHANGED <<live, available, line>>

Next ==
    \/ \E s \in Sems, n \in Counts : Create(s, n)
    \/ \E s \in Sems : \/ Destroy(s) \/ TakeAvailable(s)
                       \/ Release(s) \/ HandOver(s)
    \/ \E s \in Sems, t \in Tasks : StandInLine(s, t)
    \/ \E t \in Tasks : Return(t)

Spec == Init /\ [][Next]_vars

\* There is never both a unit to take and somebody in line for one.
NoUnitWhileWaiting ==
    \A s \in Sems : available[s] > 0 => line[s] = <<>>
=============================================================================
