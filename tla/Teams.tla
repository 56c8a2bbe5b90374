------------------------------- MODULE Teams -------------------------------
(***************************************************************************)
(* Teams and what they own (team.c, and the calls of task.c, kernel.c,     *)
(* port.c and sem.c that create and destroy resources): threads with their *)
(* stacks, address spaces with their areas, ports and semaphores, from the *)
(* programs started at boot to the destruction of each team with its last  *)
(* thread.                                                                 *)
(*                                                                         *)
(* A system call is one action of thread t.  When threads run, and what    *)
(* waits on what, is in Sched, Threads and Ports: here a thread may make   *)
(* any call at any time, and may die at any time; task_destroy() is what   *)
(* the reaper does then.  A call that returns an error changes nothing and *)
(* is no action.  The kernel panics when identifiers, pages or page groups *)
(* run out; the actions are then disabled, which bounds the model.         *)
(*                                                                         *)
(* area_create() binds an area to the team of the task that makes it,      *)
(* whose space it may not be in: while go_kernel() starts the programs,    *)
(* current is the kernel's task, which has no team, and then the thread of *)
(* the program before.                                                     *)
(*                                                                         *)
(* A thread does not destroy the area of a thread's stack: stack_area then *)
(* points to a freed structure.  area_destroy() has no such check.         *)
(***************************************************************************)
EXTENDS Areas

CONSTANTS Sizes,        \* sizes passed to area_create(), in pages
          GrowTo,       \* sizes passed to area_resize(), in half pages
          Breaks,       \* page numbers passed to os_brk()
          Virts,        \* page hints passed to area_create() and area_clone()
          Cloned,       \* identifiers passed to area_clone() and thr_spawn()
          Images,       \* the programs of the boot image: the first page of each
          TextPages,    \* pages of a program's text, its be_size
          HeapPages,    \* pages of its first heap (two in the code)
          MayOwnPorts,  \* may threads create ports and semaphores?
          MaxMade,      \* bound on the calls that create something
          WithinTable,  \* do all calls ask for spans the table has room for?
          ResizeWhole   \* is an area resized only in its own space, when it
                        \* maps its whole group, and when it is of RAM?

ASSUME TeamsAssumption ==
    /\ Sizes \subseteq Nat \ {0} /\ GrowTo \subseteq Nat /\ Breaks \subseteq Nat
    /\ Virts \subseteq Nat /\ MaxMade \in Nat
    /\ {MayOwnPorts, WithinTable, ResizeWhole} \subseteq BOOLEAN
    /\ Images \in Seq(DevicePages) /\ {TextPages, HeapPages} \subseteq Nat \ {0}

VARIABLES rsrc,  \* the resource table, see Resources
          mem,   \* memory, see Areas
          team,  \* team[m], the team_t with identifier m
          task,  \* task[t], the stack_area of the task_t, NoArea for none
          port,  \* port[p], the port_t
          booted,  \* the programs that go_kernel() has started
          current, \* meanwhile, the team of current: NoTeam, then the last one
          made     \* calls so far that created something, for MaxMade

boot == <<booted, current>>
vars == <<rsrc, mem, team, task, port, boot, made>>

NoArea == 0
NoTeamRecord == [refcount |-> 0, aspace |-> 0, heap_id |-> NoArea]
NoPortRecord == [slaved |-> 0, refcount |-> 0, sendqueue |-> 0]

\* The tables as one record, for the operators that change several.
Tables == [rsrc |-> rsrc, mem |-> mem, team |-> team, task |-> task,
           port |-> port]
Become(k) == /\ rsrc' = k.rsrc
             /\ mem'  = k.mem
             /\ team' = k.team
             /\ task' = k.task
             /\ port' = k.port

NextId(k) == NextIn(k.rsrc)
Bound(k, kind, m) == [k EXCEPT !.rsrc = rsrc_bind(@, kind, m)]
RoomIn(k, ids, pages, groups) ==
    /\ Cardinality(k.rsrc.rfree) >= ids
    /\ HasPages(k.mem, pages)
    /\ Cardinality({g \in Groups : k.mem.pgroup[g].refcount = 0}) >= groups
Room(ids, pages, groups) == RoomIn(Tables, ids, pages, groups)

-----------------------------------------------------------------------------
(* Creation.                                                               *)

\* The space takes the first identifier, the team the second.
team_create(k) ==
    LET s == NextId(k)
        m == NextIn(rsrc_bind(k.rsrc, "RSRC_ASPACE", KernelTeam))
        r == rsrc_bind(rsrc_bind(k.rsrc, "RSRC_ASPACE", KernelTeam),
                       "RSRC_TEAM", KernelTeam)
    IN  [k EXCEPT !.rsrc    = rsrc_set_owner(r, s, m),
                  !.mem     = aspace_create(@),
                  !.team[m] = [NoTeamRecord EXCEPT !.aspace = s]]

task_create(k, m, stack) ==
    [Bound(k, "RSRC_TASK", m) EXCEPT
       !.mem  = kgetpages(@, 1),
       !.task = [@ EXCEPT ![NextId(k)] = stack],
       !.team[m].refcount = @ + 1]

\* Does a new area of size pages find a place in team m's space?
FindsSpan(k, m, size, virt) ==
    locate_span(k.mem.table[k.team[m].aspace], virt, size) # 0

\* It is bound to o, the team of current.
new_area(k, o, m, size, virt, phys) ==
    [Bound(k, "RSRC_AREA", o) EXCEPT
       !.mem = area_create(@, k.team[m].aspace, NextId(k), size, virt, phys)]

\* A clone that finds no span is not made; the callers go on without it.
new_clone(k, m, a, virt) ==
    IF FindsSpan(k, m, k.mem.area[a].length, virt)
    THEN [Bound(k, "RSRC_AREA", m) EXCEPT
            !.mem = area_clone(@, k.team[m].aspace, a, NextId(k), virt)]
    ELSE k

\* The stack is mapped at the highest free page of the table.
StackPage(tab) ==
    LET open == {v \in VPages \ {0} : tab[v] = NoPage}
    IN  IF open = {} THEN 0 ELSE CHOOSE v \in open : \A w \in open : w <= v

new_thread(k, o, m) ==
    LET top == StackPage(k.mem.table[k.team[m].aspace]) IN
    IF FindsSpan(k, m, 1, top)
    THEN task_create(new_area(k, o, m, 1, top, NoPage), m, NextId(k))
    ELSE task_create(k, m, NoArea)

Init ==
    /\ rsrc = rsrc_init
    /\ mem  = memory_init
    /\ team = [m \in Ids |-> NoTeamRecord]
    /\ task = [t \in Ids |-> NoArea]
    /\ port = [p \in Ids |-> NoPortRecord]
    /\ booted = 0 /\ current = NoTeam
    /\ made = 0

Started == booted = Len(Images)

\* One round of the loop of go_kernel(): a team, its thread with its stack,
\* which is made while current is still the task of before, then as that
\* thread its text, mapped where the image lies, and its heap behind it.
\* A program that its page table has no room for is not modelled.
go_kernel ==
    LET empty == team_create(Tables)
        m     == CHOOSE i \in Ids : empty.team[i] # team[i]
        begun == new_thread(empty, current, m)
        text  == new_area(begun, m, m, TextPages, 1, Images[booted + 1])
    IN  /\ ~Started
        /\ Room(2, 0, 0) /\ RoomIn(empty, 2, 1, 1)
        /\ RoomIn(begun, 1, 0, 1) /\ RoomIn(text, 1, HeapPages, 1)
        /\ 1 + TextPages + HeapPages < TabSize
        /\ FindsSpan(begun, m, TextPages, 1)
        /\ FindsSpan(text, m, HeapPages, 1 + TextPages)
        /\ Become([new_area(text, m, m, HeapPages, 1 + TextPages, NoPage)
                     EXCEPT !.team[m].heap_id = NextId(text)])
        /\ booted' = booted + 1 /\ current' = m
        /\ UNCHANGED made

-----------------------------------------------------------------------------
(* System calls of thread t.                                               *)

TeamOf(t)  == rsrc.owner[t]
SpaceOf(t) == team[TeamOf(t)].aspace
Asks(t, virt, len) ==
    WithinTable => Fits(mem.table[SpaceOf(t)], virt, len)

os_area_create(t, size, virt, phys) ==
    /\ Room(1, IF phys = NoPage THEN size ELSE 0, 1)
    /\ FindsSpan(Tables, TeamOf(t), size, virt)
    /\ Asks(t, virt, size)
    /\ Become(new_area(Tables, TeamOf(t), TeamOf(t), size, virt, phys))

os_area_clone(t, a, virt) ==
    /\ Room(1, 0, 0)
    /\ FindsSpan(Tables, TeamOf(t), mem.area[a].length, virt)
    /\ Asks(t, virt, mem.area[a].length)
    /\ Become(new_clone(Tables, TeamOf(t), a, virt))

\* What area_destroy() does once the area is found in the space.
destroy_area(k, s, a) ==
    [k EXCEPT !.mem = area_destroy(@, s, a), !.rsrc = rsrc_release(@, a)]

\* Mutant: a foreign area is destroyed like an own one.
os_area_destroy_foreign(t, a) ==
    /\ \A u \in rsrc_find(rsrc, "RSRC_TASK") : task[u] # a
    /\ Become(destroy_area(Tables, SpaceOf(t), a))

os_area_destroy(t, a) ==
    /\ Attached(mem, SpaceOf(t), a)
    /\ \A u \in rsrc_find(rsrc, "RSRC_TASK") : task[u] # a
    /\ Become(destroy_area(Tables, SpaceOf(t), a))

MapsWholeGroup(t, a) ==
    /\ Attached(mem, SpaceOf(t), a)
    /\ ~mem.pgroup[mem.area[a].pgroup].physmap
    /\ mem.area[a].length = Len(mem.pgroup[mem.area[a].pgroup].pages)

os_area_resize(t, a, halves) ==
    LET n == PagesToAdd(mem, a, halves) IN
    /\ HasPages(mem, n)
    /\ ResizeWhole => MapsWholeGroup(t, a)
    /\ CanGrow(mem, SpaceOf(t), a, n)
    /\ mem' = area_resize(mem, SpaceOf(t), a, n)
    /\ UNCHANGED <<rsrc, team, task, port>>

\* The break is a byte address, virt_addr a page number: their difference,
\* rounded, is the break's page, as if the heap began at page 0.
brk(t, page) ==
    /\ team[TeamOf(t)].heap_id \in rsrc_find(rsrc, "RSRC_AREA")
    /\ os_area_resize(t, team[TeamOf(t)].heap_id, 2 * page)

thr_create(t) ==
    /\ Room(2, 1, 1)
    /\ Become(new_thread(Tables, TeamOf(t), TeamOf(t)))

\* The new team is given clones of two areas.  They are bound to the
\* caller's team first and then handed over.
thr_spawn(t, a0, virt0, a1, virt1) ==
    LET fresh == team_create(Tables)
        m     == CHOOSE i \in Ids : fresh.team[i] # team[i]
        child == task_create(fresh, m, NoArea)
        one   == new_clone(child, m, a0, virt0)
        heap  == IF one = child THEN NoArea ELSE NextId(child)
    IN  /\ Room(5, 0, 0)
        /\ WithinTable => \* both find their span
               /\ Fits(EmptyTable, virt0, mem.area[a0].length)
               /\ Fits(one.mem.table[fresh.team[m].aspace], virt1,
                       mem.area[a1].length)
        /\ Become(new_clone([one EXCEPT !.team[m].heap_id = heap], m, a1, virt1))

\* A port takes a second identifier, for the queue of its senders.
port_create(t) ==
    /\ Room(2, 0, 0)
    /\ LET bound == rsrc_bind(rsrc, "RSRC_PORT", TeamOf(t)) IN
       /\ port' = [port EXCEPT ![NextIn(rsrc)] =
              [slaved |-> 0, refcount |-> 1, sendqueue |-> NextIn(bound)]]
       /\ rsrc' = rsrc_bind(bound, "RSRC_QUEUE", TeamOf(t))
    /\ UNCHANGED <<mem, team, task>>

\* p becomes the slave of q, or of nobody when q is 0.  Both are the team's.
port_slave(t, p, q) ==
    /\ rsrc.owner[p] = TeamOf(t)
    /\ q # 0 => rsrc.owner[q] = TeamOf(t)
    /\ port' = [i \in Ids |->
           [port[i] EXCEPT
              !.slaved   = IF i = p THEN q ELSE @,
              !.refcount = @ + (IF i = q THEN 1 ELSE 0)
                             - (IF i = port[p].slaved THEN 1 ELSE 0)]]
    /\ UNCHANGED <<rsrc, mem, team, task>>

\* Mutant: the queue of the senders is forgotten.
port_destroy_only(k, p) ==
    IF k.port[p].refcount # 1 THEN k
    ELSE [k EXCEPT !.rsrc    = rsrc_release(@, p),
                   !.port[p] = NoPortRecord]

\* A master is refused.  A slave leaves its master's count as it is.
port_destroy(k, p) ==
    IF k.port[p].refcount # 1 THEN k
    ELSE [k EXCEPT !.rsrc    = rsrc_release(rsrc_release(@, p),
                                            k.port[p].sendqueue),
                   !.port[p] = NoPortRecord]

os_port_destroy(t, p) ==
    /\ port[p].refcount = 1
    /\ Become(port_destroy(Tables, p))

sem_create(t) ==
    /\ Room(1, 0, 0)
    /\ rsrc' = rsrc_bind(rsrc, "RSRC_SEM", TeamOf(t))
    /\ UNCHANGED <<mem, team, task, port>>

sem_destroy(k, i) == [k EXCEPT !.rsrc = rsrc_release(@, i)]

-----------------------------------------------------------------------------
(* Destruction.                                                            *)

\* aspace_destroy(): all areas of s, then s itself.
destroy_space(k, s) ==
    LET unmap[S \in SUBSET k.mem.areas[s]] ==
            IF S = {} THEN k
            ELSE LET a == CHOOSE a \in S : TRUE
                 IN  destroy_area(unmap[S \ {a}], s, a)
    IN  [unmap[k.mem.areas[s]] EXCEPT !.rsrc = rsrc_release(@, s),
                                      !.mem  = aspace_destroy(@)]

destroy_owned(k, i) ==
    CASE k.rsrc.type[i] = "RSRC_PORT"   -> port_destroy(k, i)
      [] k.rsrc.type[i] = "RSRC_SEM"    -> sem_destroy(k, i)
      [] k.rsrc.type[i] = "RSRC_ASPACE" -> destroy_space(k, i)
      [] OTHER -> k

\* Each resource is taken off the list and destroyed; destroying one may
\* take others off the list.  Masters of slaves stay, without an owner.
team_destroy(k, m) ==
    LET own == k.rsrc.resources[m]
        tear[S \in SUBSET own] ==
            IF S = {} THEN k
            ELSE LET i == CHOOSE i \in S : TRUE
                     j == tear[S \ {i}]
                 IN  IF i \notin j.rsrc.resources[m] THEN j
                     ELSE destroy_owned([j EXCEPT !.rsrc =
                                            rsrc_set_owner(@, i, NoTeam)], i)
    IN  [tear[own] EXCEPT !.rsrc    = rsrc_release(@, m),
                          !.team[m] = NoTeamRecord]

task_destroy(k, t) ==
    LET m     == k.rsrc.owner[t]
        s     == k.team[m].aspace
        stack == k.task[t]
        bare  == IF stack # NoArea /\ Attached(k.mem, s, stack)
                 THEN destroy_area(k, s, stack) ELSE k
        gone  == [bare EXCEPT !.mem     = kfreepages(@, 1),
                              !.rsrc    = rsrc_release(@, t),
                              !.task[t] = NoArea,
                              !.team[m].refcount = @ - 1]
    IN  IF gone.team[m].refcount = 0 THEN team_destroy(gone, m) ELSE gone

\* Thread t has ended and the reaper destroys it.
reap(t) == Become(task_destroy(Tables, t))

Creates(t) ==
    \/ \E size \in Sizes, virt \in Virts, phys \in {NoPage} \cup DevicePages :
           os_area_create(t, size, virt, phys)
    \/ \E a \in rsrc_find(rsrc, "RSRC_AREA") \cap Cloned, virt \in Virts :
           os_area_clone(t, a, virt)
    \/ \E a, b \in rsrc_find(rsrc, "RSRC_AREA") \cap Cloned, virt0, virt1 \in Virts :
           thr_spawn(t, a, virt0, b, virt1)
    \/ thr_create(t)
    \/ MayOwnPorts /\ port_create(t)
    \/ MayOwnPorts /\ sem_create(t)

Destroys(t) ==
    \/ \E a \in rsrc_find(rsrc, "RSRC_AREA") : os_area_destroy(t, a)
    \/ \E p \in rsrc_find(rsrc, "RSRC_PORT") : os_port_destroy(t, p)
    \/ \E i \in rsrc_find(rsrc, "RSRC_SEM") : Become(sem_destroy(Tables, i))
    \/ reap(t)

Changes(t) ==
    \/ \E a \in rsrc_find(rsrc, "RSRC_AREA"), halves \in GrowTo :
           os_area_resize(t, a, halves)
    \/ \E page \in Breaks : brk(t, page)
    \/ \E p \in rsrc_find(rsrc, "RSRC_PORT"),
          q \in rsrc_find(rsrc, "RSRC_PORT") \cup {0} : port_slave(t, p, q)

\* The scheduler starts when all programs are there.
Next ==
    \/ go_kernel
    \/ \E t \in rsrc_find(rsrc, "RSRC_TASK") :
        /\ Started /\ UNCHANGED boot
        /\ \/ made < MaxMade /\ made' = made + 1 /\ Creates(t)
           \/ (Destroys(t) \/ Changes(t)) /\ UNCHANGED made

Spec == Init /\ [][Next]_vars

-----------------------------------------------------------------------------
(* Properties.                                                             *)

Live(kind) == rsrc_find(rsrc, kind)

TypeOK ==
    /\ rsrc \in [type : [Ids -> Kinds \cup {RSRC_NONE}], owner : [Ids -> Owners],
                 resources : [Owners -> SUBSET Ids], rfree : SUBSET Ids]
    /\ team \in [Ids -> [refcount : Nat, aspace : Ids \cup {0},
                         heap_id : Ids \cup {NoArea}]]
    /\ task \in [Ids -> Ids \cup {NoArea}]
    /\ port \in [Ids -> [slaved : Ids \cup {0}, refcount : Nat,
                         sendqueue : Ids \cup {0}]]
    /\ booted \in 0 .. Len(Images) /\ current \in Ids \cup {NoTeam}

\* Identifiers and ownership (resource.c:73-119): every identifier is free,
\* once, or names one resource; and what a team's list holds is what it owns,
\* so that no list keeps an identifier that was given back and used again.
ResourcesAccounted == IdsAccountedIn(rsrc) /\ OwnersAgreeIn(rsrc)

\* The places that hold page p, the free chain or a group of RAM.
Holders(p) ==
    {<<"free", 0>> : x \in {p} \cap mem.free}
    \cup {<<"group", g>> : g \in {g \in Groups : /\ ~mem.pgroup[g].physmap
                                               /\ p \in Members(mem.pgroup[g].pages)}}

\* Physical memory (memory.c:128-150, aspace.c:368-386): through clones,
\* resizes and the deaths of teams in any order, each page is in one place,
\* used_pages counts those that are not free, and a page group lives as long
\* as it has areas.
PagesAccounted ==
    /\ \A p \in Pages : Cardinality(Holders(p)) = 1
    /\ mem.used = Cardinality(Pages \ mem.free)
                  + 2 * Cardinality(Live("RSRC_ASPACE"))
                  + Cardinality(Live("RSRC_TASK"))
    /\ \A g \in Groups : mem.pgroup[g].refcount =
           Cardinality({a \in Live("RSRC_AREA") : mem.area[a].pgroup = g})

\* The page tables (aspace.c:85-111, 130-150): an entry maps what the area
\* over it holds there, and nothing where there is no area; so areas of one
\* space do not overlap, and no freed page stays mapped.
AreasOver(s, v) ==
    {a \in Live("RSRC_AREA") : /\ Attached(mem, s, a)
                               /\ mem.area[a].virt_addr <= v
                               /\ v < mem.area[a].virt_addr + mem.area[a].length}
TableMatchesAreas ==
    \A s \in Live("RSRC_ASPACE"), v \in VPages :
        IF mem.table[s][v] = NoPage THEN AreasOver(s, v) = {}
        ELSE \E a \in Ids : /\ AreasOver(s, v) = {a}
                            /\ mem.pgroup[mem.area[a].pgroup].pages
                                   [v - mem.area[a].virt_addr + 1] = mem.table[s][v]

\* What a dead team leaves (team.c:29-59): a port that still counts slaves,
\* with its queue, and nothing else of its own; everything else has a living
\* owner.  An area lives as long as the space it is in, also when the team it
\* is bound to goes before or never was (aspace.c:113-127, 228), and then
\* its owner field does not keep the address of the team that is gone.
InLivingSpace(a) ==
    /\ \E m \in Live("RSRC_TEAM") : Attached(mem, team[m].aspace, a)
    /\ rsrc.owner[a] \in Live("RSRC_TEAM") \cup {NoTeam}
Owned(i) ==
    \/ rsrc.owner[i] = KernelTeam
    \/ rsrc.owner[i] \in Live("RSRC_TEAM")
    \/ \E p \in Live("RSRC_PORT") : i \in {p, port[p].sendqueue}
                                    /\ port[p].refcount > 1
OnlyMastersOutliveTeams ==
    \A i \in Ids : rsrc.type[i] # RSRC_NONE =>
        IF rsrc.type[i] = "RSRC_AREA" THEN InLivingSpace(i) ELSE Owned(i)

\* aspace.c:129 "find a span of contig virtual pages": every area lies in
\* its page table.  Does not hold: locate_span() returns the start of a span
\* that the end of the table cuts short.
AreasInTable ==
    \A a \in Live("RSRC_AREA") :
        mem.area[a].virt_addr + mem.area[a].length <= TabSize
=============================================================================
