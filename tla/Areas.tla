------------------------------- MODULE Areas -------------------------------
(***************************************************************************)
(* Physical pages and areas (memory.c, aspace.c): the chain of free pages, *)
(* address spaces with their page table, and the areas mapped in them,     *)
(* which share page groups when they are clones.                           *)
(*                                                                         *)
(* A state m of memory is a record:                                        *)
(*   free    the free pages; the code chains them, and the model gives the *)
(*           least of them                                                 *)
(*   used    used_pages, which counts the kernel's own pages too (page     *)
(*           directories and tables, kernel stacks); which pages these are *)
(*           is left out, and they are not among Pages                     *)
(*   table   table[s], the page at each virtual page of s, 0 for none      *)
(*   areas   areas[s], the areas mapped in s                               *)
(*   area    area[a], the area_t                                           *)
(*   pgroup  pgroup[g], the pagegroup_t; refcount 0 when it is freed       *)
(*                                                                         *)
(* Spaces and areas are known by their identifiers, which Teams gives      *)
(* them.  The page group keeps its pages in one sequence, where C chains   *)
(* structures of six; its size is the length of the sequence.  Sizes are   *)
(* in pages.  kmalloc(), which never gives its pages back, is left out.    *)
(***************************************************************************)
EXTENDS Resources, Sequences, FiniteSets

CONSTANTS BottomPage,    \* bottom_page of memory_init()
          TopPage,       \* top_page once the page list has been set aside
          DevicePages,   \* page numbers that are not RAM
          TabSize,       \* entries of a page table (1024 in the code)
          DefaultStart,  \* where a search begins by default (512)
          MaxGroups      \* bound on the page groups at any time

Members(ps) == {ps[i] : i \in 1 .. Len(ps)}

Pages  == BottomPage .. TopPage
VPages == 0 .. TabSize - 1
Groups == 1 .. MaxGroups
NoPage == 0

ASSUME AreasAssumption ==
    /\ BottomPage \in Nat \ {0} /\ TopPage \in Nat /\ BottomPage <= TopPage
    /\ DevicePages \subseteq Nat \ ({NoPage} \cup Pages)
    /\ TabSize \in Nat /\ DefaultStart \in 1 .. TabSize - 1
    /\ MaxGroups \in Nat \ {0}

UnusedGroup == [refcount |-> 0, physmap |-> FALSE, pages |-> <<>>]
UnusedArea  == [pgroup |-> 0, virt_addr |-> 0, length |-> 0]
EmptyTable  == [v \in VPages |-> NoPage]

\* The loop goes down from top_page itself, which is the first page of the
\* page list and is so chained as free.
memory_init ==
    [free   |-> Pages,
     used   |-> 0,
     table  |-> [s \in Ids |-> EmptyTable],
     areas  |-> [s \in Ids |-> {}],
     area   |-> [a \in Ids |-> UnusedArea],
     pgroup |-> [g \in Groups |-> UnusedGroup]]

-----------------------------------------------------------------------------
(* Pages.  The code panics when none is left; here the caller sees to it.  *)

HasPages(m, n) == Cardinality(m.free) >= n

\* The n pages that come next, in their order.
FirstFree(m, n) ==
    CHOOSE ps \in [1 .. n -> m.free] :
        \A i \in 1 .. n : {p \in m.free : p < ps[i]} = {ps[j] : j \in 1 .. i - 1}

getpages(m, n) ==
    [m EXCEPT !.free = @ \ Members(FirstFree(m, n)), !.used = @ + n]

putpages(m, ps) ==
    [m EXCEPT !.free = @ \cup Members(ps), !.used = @ - Len(ps)]

-----------------------------------------------------------------------------
(* Address spaces.                                                         *)

\* kgetpage() and kfreepage(), n times: pages of the kernel.
kgetpages(m, n) == [m EXCEPT !.used = @ + n]
kfreepages(m, n) == [m EXCEPT !.used = @ - n]

\* The page directory and the page table.
aspace_create(m) == kgetpages(m, 2)

\* What lies past the end of the table is dropped: C writes it all the same,
\* into whatever follows.  No call does so when WithinTable (see Teams) holds.
aspace_map(tab, ps, at) ==
    [v \in VPages |-> IF v \in at .. at + Len(ps) - 1
                      THEN ps[v - at + 1] ELSE tab[v]]

aspace_clr(tab, at, len) ==
    [v \in VPages |-> IF v \in at .. at + len - 1 THEN NoPage ELSE tab[v]]

\* The first free span from start on, of len pages or up to the table's end;
\* 0 when the last entry is in use, or when no page is asked for.
locate_span(tab, start, len) ==
    LET from  == IF start \in 1 .. TabSize - 1 THEN start ELSE DefaultStart
        spans == {v \in from .. TabSize - 1 :
                      \A w \in v .. v + len - 1 : w \in VPages => tab[w] = NoPage}
    IN  IF len = 0 \/ spans = {} THEN 0
        ELSE CHOOSE v \in spans : \A w \in spans : v <= w

\* Does a span of len pages from the place found lie in the table?
Fits(tab, start, len) == locate_span(tab, start, len) + len <= TabSize

-----------------------------------------------------------------------------
(* Areas.  Each operation is applied when its search has found a place.    *)

NewGroup(m) == CHOOSE g \in Groups : m.pgroup[g].refcount = 0

\* Link area a into the space and the group, and map the group's pages.
attach(m, s, a, g, at, len) ==
    [m EXCEPT !.areas[s] = @ \cup {a},
              !.area[a]  = [pgroup |-> g, virt_addr |-> at, length |-> len],
              !.table[s] = aspace_map(@, SubSeq(m.pgroup[g].pages, 1, len), at)]

\* phys is the first page of a physical mapping, NoPage for an area of RAM.
area_create(m, s, a, size, virt, phys) ==
    LET g    == NewGroup(m)
        ps   == IF phys = NoPage THEN FirstFree(m, size)
                ELSE [i \in 1 .. size |-> phys + i - 1]
        took == IF phys = NoPage THEN getpages(m, size) ELSE m
        new  == [took EXCEPT !.pgroup[g] =
                    [refcount |-> 1, physmap |-> phys # NoPage, pages |-> ps]]
    IN  attach(new, s, a, g, locate_span(m.table[s], virt, size), size)

\* Mutant: the group is not told of its new area.
area_clone_uncounted(m, s, a0, a, virt) ==
    attach(m, s, a, m.area[a0].pgroup,
           locate_span(m.table[s], virt, m.area[a0].length), m.area[a0].length)

area_clone(m, s, a0, a, virt) ==
    attach([m EXCEPT !.pgroup[m.area[a0].pgroup].refcount = @ + 1],
           s, a, m.area[a0].pgroup,
           locate_span(m.table[s], virt, m.area[a0].length), m.area[a0].length)

\* Is a mapped in s?  If not, nothing is destroyed: it is foreign.
Attached(m, s, a) == a \in m.areas[s]

\* The pages of a physical mapping are not given back, whatever they are.
area_destroy(m, s, a) ==
    LET ar   == m.area[a]
        pg   == m.pgroup[ar.pgroup]
        gone == [m EXCEPT !.areas[s] = @ \ {a},
                          !.table[s] = aspace_clr(@, ar.virt_addr, ar.length),
                          !.area[a]  = UnusedArea]
    IN  IF pg.refcount > 1
        THEN [gone EXCEPT !.pgroup[ar.pgroup].refcount = @ - 1]
        ELSE [putpages(gone, IF pg.physmap THEN <<>> ELSE pg.pages)
                EXCEPT !.pgroup[ar.pgroup] = UnusedGroup]

\* Pages to add for a size given in half pages: the division rounds down.
PagesToAdd(m, a, halves) ==
    IF halves <= 2 * Len(m.pgroup[m.area[a].pgroup].pages) THEN 0
    ELSE halves \div 2 - Len(m.pgroup[m.area[a].pgroup].pages)

\* Where the area would grow; the group's size is taken for the area's.
GrowsAt(m, a) == m.area[a].virt_addr + Len(m.pgroup[m.area[a].pgroup].pages)

\* The table is the caller's, whoever's space the area is in.
CanGrow(m, s, a, n) ==
    n > 0 /\ locate_span(m.table[s], GrowsAt(m, a), n) = GrowsAt(m, a)

area_resize(m, s, a, n) ==
    [getpages(m, n) EXCEPT
       !.table[s] = aspace_map(@, FirstFree(m, n), GrowsAt(m, a)),
       !.pgroup[m.area[a].pgroup].pages = @ \o FirstFree(m, n),
       !.area[a].length = @ + n]

\* The directory and the table, when no area is left.
aspace_destroy(m) == kfreepages(m, 2)
=============================================================================
