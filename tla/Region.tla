------------------------------- MODULE Region -------------------------------
(***************************************************************************)
(* Rectangles (Rect.h) and regions (Region.cpp) of the window server.  A   *)
(* rectangle contains its four edges.  A region is a sequence of           *)
(* rectangles that should not overlap.                                     *)
(*                                                                         *)
(* Each operation here is the outermost call: it consolidates its result   *)
(* once, as EndOperation() does when it leaves the last level.             *)
(***************************************************************************)
EXTENDS Integers, Sequences

LOCAL INSTANCE SequencesExt

CONSTANT COORD_MAX  \* beyond every coordinate in use
ASSUME RegionAssumption == COORD_MAX \in Nat

LOCAL Least(a, b) == IF a < b THEN a ELSE b
LOCAL Most(a, b)  == IF a > b THEN a ELSE b

Rect(l, t, r, b) == [left |-> l, top |-> t, right |-> r, bottom |-> b]

HasPoint(r, p) == /\ r.left <= p[1] /\ p[1] <= r.right
                  /\ r.top <= p[2] /\ p[2] <= r.bottom
Valid(r) == r.right >= r.left /\ r.bottom >= r.top
OffsetBy(r, h, v) == Rect(r.left + h, r.top + v, r.right + h, r.bottom + v)
Meet(r, s) == Rect(Most(r.left, s.left), Most(r.top, s.top),
                   Least(r.right, s.right), Least(r.bottom, s.bottom))
Intersects(r, s) == Valid(Meet(r, s))

-----------------------------------------------------------------------------
Hull(r, s) == Rect(Least(r.left, s.left), Least(r.top, s.top),
                   Most(r.right, s.right), Most(r.bottom, s.bottom))

\* Do two rectangles make one?
Adjoin(r, s) ==
    \/ /\ r.top = s.top /\ r.bottom = s.bottom
       /\ r.right + 1 = s.left \/ s.right + 1 = r.left
    \/ /\ r.left = s.left /\ r.right = s.right
       /\ r.bottom + 1 = s.top \/ s.bottom + 1 = r.top

\* Rectangle i takes in those after it, the last one first.
LOCAL absorb(region, i) ==
    IF i > Len(region) THEN region
    ELSE FoldRight(LAMBDA j, rs : IF j > i /\ Adjoin(rs[i], rs[j])
                   THEN RemoveAt([rs EXCEPT ![i] = Hull(@, rs[j])], j)
                   ELSE rs,
                   [j \in 1 .. Len(region) |-> j], region)

Consolidate(region) ==
    FoldLeft(absorb, region, [i \in 1 .. Len(region) |-> i])

\* SPLIT_TEST: is the piece more than one pixel wide and high?
SPLIT_TEST(r, s) == LET m == Meet(r, s) IN m.left < m.right /\ m.top < m.bottom

\* The pieces of r around x, row by row.
Pieces(r, x) ==
    LET rows  == << <<r.top, x.top - 1>>, <<x.top, x.bottom>>,
                    <<x.bottom + 1, r.bottom>> >>
        cols  == << <<r.left, x.left - 1>>, <<x.left, x.right>>,
                    <<x.right + 1, r.right>> >>
        quads == [k \in 1 .. 8 |->   \* all but the one in the middle
                     LET n == IF k < 5 THEN k - 1 ELSE k
                         c == cols[(n % 3) + 1]
                         w == rows[(n \div 3) + 1]
                     IN Rect(c[1], w[1], c[2], w[2])]
        kept  == SelectSeq(quads, LAMBDA q : SPLIT_TEST(r, q))
    IN [k \in DOMAIN kept |-> Meet(kept[k], r)]

Exclude(region, x) ==
    LET hit  == SelectSeq(region, LAMBDA r : Intersects(x, r))
        kept == SelectSeq(region, LAMBDA r : ~Intersects(x, r))
    IN Consolidate(kept \o FlattenSeq([i \in DOMAIN hit |-> Pieces(hit[i], x)]))

LOCAL included(region, x) == region \o FoldLeft(Exclude, <<x>>, region)
Include(region, x) == Consolidate(included(region, x))
IncludeAll(region, s) == Consolidate(FoldLeft(included, region, s))

ConstrainTo(region, x) ==
    LET cut == [i \in DOMAIN region |-> Meet(x, region[i])]
    IN Consolidate(SelectSeq(cut, Valid))

LOCAL meets(region, s) ==
    FlattenSeq([i \in DOMAIN region |->
        LET hit == SelectSeq(s, LAMBDA r : Intersects(region[i], r))
        IN [j \in DOMAIN hit |-> Meet(region[i], hit[j])]])
Intersect(region, s) == Consolidate(meets(region, s))

Invert(region) ==
    Consolidate(FoldLeft(Exclude,
        <<Rect(-COORD_MAX, -COORD_MAX, COORD_MAX, COORD_MAX)>>, region))

\* FindRect(): the rectangles that may be found at a point.
RectsAt(region, p) == SelectSeq(region, LAMBDA r : HasPoint(r, p))

Covers(region, p) == RectsAt(region, p) # <<>>
Disjoint(region) ==
    \A i, j \in DOMAIN region : i # j => ~Intersects(region[i], region[j])
=============================================================================
