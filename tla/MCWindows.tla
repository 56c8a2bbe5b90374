----------------------------- MODULE MCWindows ------------------------------
(* Model checking of Windows: two programs, each with a window and a canvas *)
(* in it, that overlap on a screen of eight by four.  All edges lie between *)
(* cells of two by two points, of which one is looked at.                   *)
EXTENDS Windows

CONSTANTS n1, n2, w1, w2, c1, c2, c3

MCPrograms == {n1, n2}
MCWindowSet == {w1, w2, c1, c2, c3}
MCScreen == Rect(0, 0, 7, 3)
MCPoints == {0, 2, 4, 6} \X {0, 2}
MCOwner == (w1 :> n1) @@ (c1 :> n1) @@ (c3 :> n1) @@ (c2 :> n2) @@ (w2 :> n2)
MCUnder == (w1 :> Root) @@ (c1 :> w1) @@ (c3 :> w1) @@ (c2 :> w2) @@ (w2 :> Root)
MCFrame == (w1 :> Rect(0, 0, 5, 3)) @@ (c1 :> Rect(2, 0, 5, 1))
           @@ (c3 :> Rect(2, 2, 5, 3)) @@ (c2 :> Rect(2, 0, 5, 1)) @@ (w2 :> Rect(2, 0, 7, 3))
\* A frame that leaves a strip of one point of what is behind it.
MCThinFrame == [MCFrame EXCEPT ![w2] = Rect(1, 0, 7, 3)]
MCAllPoints == (0 .. 7) \X (0 .. 3)

MCFirst == {0, 4} \X {0}
=============================================================================
