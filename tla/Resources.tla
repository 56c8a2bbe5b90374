----------------------------- MODULE Resources -----------------------------
(***************************************************************************)
(* The kernel's resource table (resource.c): identifiers, which of them    *)
(* are free, and the list of what each team owns.                          *)
(*                                                                         *)
(* Like Sched this module has no variables; a state r of the table is a    *)
(* record:                                                                 *)
(*   type       type[i], what identifier i names, RSRC_NONE for nothing    *)
(*   owner      owner[i], the team that owns it, NoTeam for NULL           *)
(*   resources  resources[m], what is on the list of team m, a set: no     *)
(*              outcome depends on the order in which a team is torn down  *)
(*   rfree      the free identifiers; the code chains them, last freed     *)
(*              first, and the model gives the least of them, so that one  *)
(*              that was freed is used again as soon as it can be          *)
(*                                                                         *)
(* A resource is known by its identifier.  The names, the rights and the   *)
(* global resource_list, which only the debugger reads, are left out; the  *)
(* wait queues are in Sched.                                               *)
(***************************************************************************)
EXTENDS Integers

CONSTANTS MaxRsrc,     \* rmax - 1: identifiers are 1 .. MaxRsrc
          KernelTeam   \* kernel_team, which is never destroyed

Ids    == 1 .. MaxRsrc
NoTeam == 0

ASSUME ResourcesAssumption ==
    /\ MaxRsrc \in Nat \ {0}
    /\ KernelTeam \in Nat \ (Ids \cup {NoTeam})

RSRC_NONE == "RSRC_NONE"
Kinds == {"RSRC_TASK", "RSRC_ASPACE", "RSRC_PORT", "RSRC_SEM", "RSRC_AREA",
          "RSRC_QUEUE", "RSRC_TEAM"}
Owners == Ids \cup {KernelTeam, NoTeam}

rsrc_init ==
    [type      |-> [i \in Ids |-> RSRC_NONE],
     owner     |-> [i \in Ids |-> NoTeam],
     resources |-> [m \in Owners |-> {}],
     rfree     |-> Ids]

rsrc_find(r, kind) == {i \in Ids : r.type[i] = kind}

\* The identifier that the next rsrc_bind() gives.  The code panics when
\* none is left; here the caller sees to it.
NextIn(r) == CHOOSE i \in r.rfree : \A j \in r.rfree : i <= j

rsrc_bind(r, kind, m) ==
    LET id == NextIn(r) IN
    [r EXCEPT !.rfree        = @ \ {id},
              !.type[id]     = kind,
              !.owner[id]    = m,
              !.resources[m] = IF m = NoTeam THEN @ ELSE @ \cup {id}]

rsrc_set_owner(r, id, m) ==
    LET left == [r EXCEPT !.resources[r.owner[id]] = @ \ {id}] IN
    [left EXCEPT !.owner[id]     = m,
                 !.resources[m] = IF m = NoTeam THEN @ ELSE @ \cup {id}]

\* Mutant: a resource is given back and stays on its owner's list.
rsrc_release_listed(r, id) ==
    [r EXCEPT !.owner[id] = NoTeam,
              !.type[id]  = RSRC_NONE,
              !.rfree     = @ \cup {id}]

rsrc_release(r, id) ==
    [r EXCEPT !.resources[r.owner[id]] = @ \ {id},
              !.owner[id] = NoTeam,
              !.type[id]  = RSRC_NONE,
              !.rfree     = @ \cup {id}]

-----------------------------------------------------------------------------
(* Properties of a state of the table.                                     *)

\* An identifier is free when, and only when, it names nothing.
IdsAccountedIn(r) == r.rfree = rsrc_find(r, RSRC_NONE)

\* A team's list holds just the resources whose owner field names the team.
OwnersAgreeIn(r) ==
    \A m \in Owners \ {NoTeam} : r.resources[m] = {i \in Ids : r.owner[i] = m}
=============================================================================
