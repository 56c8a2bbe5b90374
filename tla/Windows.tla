------------------------------ MODULE Windows -------------------------------
(***************************************************************************)
(* The window server (srv/window: WindowManager.cpp, Window.cpp) and the   *)
(* library of its programs (libwin: Window.cpp, Canvas.cpp,                *)
(* Connection.cpp).                                                        *)
(*                                                                         *)
(* The server keeps a tree of windows, the children of each from front to  *)
(* back, and for each window the region it may draw in.  A program makes   *)
(* one window and canvases in it.  Only the canvases paint: told by an     *)
(* event, they ask where (OP_BEGIN_PAINT), draw, and end.                  *)
(*                                                                         *)
(* A program holds its window's lock in every call and while it handles an *)
(* event.  The library takes it in EventLoop(), RemoveChild() and ~Window()*)
(* only; around the other calls the program does (bin/winapp/main.cpp:111),*)
(* else the commands of two threads mix in one connection.                 *)
(*                                                                         *)
(* The dispatch thread is three actions: serve takes a command and does    *)
(* all it does to the windows, posts sends an event, which waits for room  *)
(* in the port of the program, and answers replies.  Nothing else changes  *)
(* the windows.  Left out: the mouse thread, which only reads them, drawing *)
(* outside of a paint event, OP_COPY_RECT, colours, and the levels of      *)
(* Show() and Hide() beyond the first.                                     *)
(***************************************************************************)
EXTENDS Region, FiniteSets, TLC

LOCAL INSTANCE SequencesExt

CONSTANTS Programs,      \* each with one window
          Windows,       \* the windows and canvases that may be made
          Root,          \* the window that is the screen
          None,          \* no window
          Screen,        \* the bounds of the screen, a rectangle
          Points,        \* the points of the screen that are looked at
          Owner,         \* Owner[w], the program that makes w
          Under,         \* Under[w], the window in which w is made
          Frame,         \* Frame[w], a rectangle, from the corner of Under[w]
          Late,          \* the canvases that are not made with their window
          First,         \* the points a program draws with its first message
          Strings,       \* the canvases that end their painting with text
          MAX_MSGCOUNT,  \* messages an event port holds
          MaxPending,    \* commands the service port holds, MAX_MSGCOUNT or less
          MaxCalls,      \* bound on the calls after the windows are open
          RaisesShown,   \* do programs raise a window that is shown?
          UsesDetached   \* does a program that removed a canvas go on to
                         \* show, hide or destroy its window?

All == Windows \cup {Root}
IsCanvas(w) == w \in Windows /\ Under[w] # Root

ASSUME WindowsAssumption ==
    /\ Root \notin Windows /\ None \notin All
    /\ Owner \in [Windows -> Programs] /\ Under \in [Windows -> All]
    /\ Screen.left = 0 /\ Screen.top = 0 /\ First \subseteq Points
    /\ Points \subseteq (0 .. Screen.right) \X (0 .. Screen.bottom)
    /\ Strings \cup Late \subseteq Windows
    /\ {MAX_MSGCOUNT, MaxPending} \subseteq Nat \ {0} /\ MaxCalls \in Nat
    /\ {RaisesShown, UsesDetached} \subseteq BOOLEAN

VARIABLES server,  \* [win, screen, posts]: the windows, what each point of the
                   \* screen shows, and what is still to be sent
          inq,     \* the commands in the service port
          events,  \* events[n], the event port of program n
          proc,    \* proc[n], program n
          calls    \* how many calls there were

vars == <<server, inq, events, proc, calls>>

NoWindow == [live |-> FALSE, fParent |-> None, fChildList |-> <<>>,
             fFrame |-> Screen, fIsVisible |-> FALSE,
             fVisibleRegion |-> <<>>, fClipRegion |-> <<>>,
             fInvalidRegion |-> <<>>, fCurrentRedrawRegion |-> <<>>,
             fInRedraw |-> FALSE, fPaintMsgSent |-> FALSE, gc |-> <<>>]

RootWindow == [NoWindow EXCEPT !.live = TRUE, !.fVisibleRegion = <<Screen>>,
                               !.fClipRegion = <<Screen>>, !.gc = <<Screen>>]

Event(what, w) == [what |-> what, win |-> w]

Init ==
    /\ server = [win    |-> [w \in All |-> IF w = Root THEN RootWindow ELSE NoWindow],
                 screen |-> [p \in Points |-> [win |-> Root, painted |-> FALSE]],
                 posts  |-> <<>>]
    /\ inq = <<>>
    /\ events = [n \in Programs |-> <<>>]
    /\ proc = [n \in Programs |-> [todo |-> <<>>, waits |-> FALSE, made |-> {},
                  gone |-> {}, shown |-> {}, ended |-> FALSE]]
    /\ calls = 0

-----------------------------------------------------------------------------
\* The operations of a window, on s, a state of the server.

RECURSIVE LocalToScreen(_, _, _)
LocalToScreen(s, w, r) ==
    IF w = None THEN r
    ELSE LET win == s.win[w]
         IN LocalToScreen(s, win.fParent,
                          OffsetBy(r, win.fFrame.left, win.fFrame.top))
Bounds(s, w) == LET f == s.win[w].fFrame IN OffsetBy(f, -f.left, -f.top)

FillRects(s, w, region) ==
    [s EXCEPT !.screen = [p \in Points |->
        IF Covers(region, p) THEN [win |-> w, painted |-> FALSE] ELSE @[p]]]

\* Mutant: each damage is told.
Damage_each(s, w, region) ==
    [s EXCEPT !.win[w].fInvalidRegion = IncludeAll(@, region),
              !.win[w].fPaintMsgSent = TRUE,
              !.posts = IF w = Root THEN @ ELSE Append(@, Event("PAINT", w))]

\* The part common to both Invalidate(): the root has no event port.
Damage(s, w, region) ==
    [s EXCEPT !.win[w].fInvalidRegion = IncludeAll(@, region),
              !.win[w].fPaintMsgSent = TRUE,
              !.posts = IF s.win[w].fPaintMsgSent \/ w = Root THEN @
                        ELSE Append(@, Event("PAINT", w))]
Invalidate(s, w, region) == Damage(FillRects(s, w, region), w, region)
InvalidateRect(s, w, rect) ==
    LET r == LocalToScreen(s, w, rect)
    IN Damage(FillRects(s, w, Intersect(s.win[w].fVisibleRegion, <<r>>)), w, <<r>>)

RECURSIVE UpdateClipRegion(_, _)

SetGC(s, w, win) ==
    [s EXCEPT !.win[w].gc =
        IF win.fInRedraw
        THEN Intersect(win.fCurrentRedrawRegion, win.fClipRegion)
        ELSE win.fClipRegion]
UpdateGC(s, w) == SetGC(s, w, s.win[w])
SetVisibleRegion(s, w, region) ==
    UpdateGC(UpdateClipRegion([s EXCEPT !.win[w].fVisibleRegion = region], w), w)

\* Mutant: a hidden window keeps its region.
Obscure_by_the_shown(acc, c, frame) ==
    IF acc.s.win[c].fIsVisible
    THEN [s    |-> SetVisibleRegion(acc.s, c, ConstrainTo(acc.rest, frame)),
          rest |-> Exclude(acc.rest, frame)]
    ELSE acc

\* The window's children, front to back, and what each leaves of it.
Obscure(acc, c, frame) ==
    IF acc.s.win[c].fIsVisible
    THEN [s    |-> SetVisibleRegion(acc.s, c, ConstrainTo(acc.rest, frame)),
          rest |-> Exclude(acc.rest, frame)]
    ELSE [acc EXCEPT !.s = SetVisibleRegion(@, c, <<>>)]
Below(s, w) ==
    FoldLeft(LAMBDA acc, c : Obscure(acc, c, LocalToScreen(s, w, s.win[c].fFrame)),
             [s |-> s, rest |-> s.win[w].fVisibleRegion], s.win[w].fChildList)

SetClipRegion(s, w, region) ==
    [s EXCEPT !.win[w].fClipRegion = region, !.win[w].gc = region]
Expose(s, w, exposed) ==
    IF exposed = <<>> THEN s ELSE Invalidate(s, w, exposed)

\* What comes to be seen of the window is damage.
Uncover(s, w, rest) ==
    SetClipRegion(Expose(s, w, Intersect(Invert(s.win[w].fClipRegion), rest)),
                  w, rest)
Reclip(below, w) == Uncover(below.s, w, below.rest)
UpdateClipRegion(s, w) == Reclip(Below(s, w), w)

AddChild(s, w, c, frame) ==
    LET t == [s EXCEPT !.win[c].fFrame = frame, !.win[c].fParent = w,
                       !.win[w].fChildList = <<c>> \o @]
    IN IF s.win[c].fIsVisible THEN UpdateClipRegion(t, w) ELSE t

\* The parent that is forgotten is the window's own, not that of the child.
RemoveChild(s, w, c) ==
    UpdateClipRegion([s EXCEPT !.win[w].fChildList = Remove(@, c),
                               !.win[w].fParent = None], w)

MoveToFront(s, w) ==
    LET up == s.win[w].fParent
    IN UpdateClipRegion(AddChild(RemoveChild(s, up, w), up, w, s.win[w].fFrame), w)

\* Show() and Hide().
SetVisible(s, w, b) ==
    LET t == [s EXCEPT !.win[w].fIsVisible = b] IN
    IF s.win[w].fIsVisible = b \/ s.win[w].fParent = None THEN t
    ELSE UpdateClipRegion(t, s.win[w].fParent)

\* Mutant: the next damage is not told.
BeginPaint_once(s, w) ==
    LET win == s.win[w] IN
    [s EXCEPT !.win[w] =
        [win EXCEPT !.fInRedraw = TRUE,
                    !.fCurrentRedrawRegion = win.fInvalidRegion,
                    !.fInvalidRegion = <<>>,
                    !.gc = Intersect(win.fInvalidRegion, win.fClipRegion)]]

BeginPaint(s, w) ==
    LET win == s.win[w] IN
    [s EXCEPT !.win[w] =
        [win EXCEPT !.fPaintMsgSent = FALSE, !.fInRedraw = TRUE,
                    !.fCurrentRedrawRegion = win.fInvalidRegion,
                    !.fInvalidRegion = <<>>,
                    !.gc = Intersect(win.fInvalidRegion, win.fClipRegion)]]

\* The program draws on all points in ps that its clip region holds.
Draw(s, w, ps) ==
    [s EXCEPT !.screen = [p \in Points |->
        IF p \in ps /\ Covers(s.win[w].gc, p)
        THEN [win |-> w, painted |-> TRUE] ELSE @[p]]]

CreateWindow(s, w, garbage) ==
    AddChild([s EXCEPT !.win[w] = [NoWindow EXCEPT !.live = TRUE,
                                                   !.fInRedraw = garbage]],
             Under[w], w, Frame[w])

DestroyWindow(s, w) ==
    LET up == s.win[w].fParent
        t  == IF up = None THEN s ELSE RemoveChild(s, up, w)
    IN [t EXCEPT !.win[w] = NoWindow]

-----------------------------------------------------------------------------
\* The dispatch thread.

\* What the server does for command m.  The code of OP_DRAW_STRING goes on
\* into that of OP_DESTROY_WINDOW, which takes four of the five bytes of the
\* OP_END_PAINT that follows for the number of a window, and finds none.
Does(m, garbage) ==
    LET s == server
        w == m.win
    IN CASE m.op = "CREATE"     -> CreateWindow(s, w, garbage)
         [] ~s.win[w].live      -> s
         [] m.op = "DESTROY"    -> DestroyWindow(s, w)
         [] m.op = "SHOW"       -> SetVisible(s, w, TRUE)
         [] m.op = "HIDE"       -> SetVisible(s, w, FALSE)
         [] m.op = "FOCUS"      -> MoveToFront(s, w)
         [] m.op = "INVALIDATE" -> InvalidateRect(s, w, Bounds(s, w))
         [] m.op = "BEGIN"      -> BeginPaint(s, w)
         [] m.op = "DRAW"       -> Draw(s, w, First)
         [] m.op = "TEXT"       -> Draw(s, w, Points \ First)
         [] m.op = "END"        -> [Draw(s, w, Points \ First) EXCEPT
                                        !.win[w].fInRedraw = FALSE]

Answered == {"CREATE", "BEGIN"}

\* fInRedraw of a new window, which only a canvas ever uses.
Uninitialised(m) ==
    IF m.op = "CREATE" /\ IsCanvas(m.win) THEN BOOLEAN ELSE {FALSE}

serve ==
    /\ inq # <<>> /\ server.posts = <<>>
    /\ inq' = Tail(inq)
    /\ \E garbage \in Uninitialised(Head(inq)) :
         server' = LET s == Does(Head(inq), garbage)
                   IN IF Head(inq).op \in Answered
                      THEN [s EXCEPT !.posts = Append(@, Event("REPLY", Head(inq)))]
                      ELSE s
    /\ UNCHANGED <<events, proc, calls>>

\* old_port_send() to the event port of e's window; the port of a program
\* that ended is gone.
Sent(e) ==
    LET n == Owner[e.win] IN
    IF proc[n].ended THEN UNCHANGED events
    ELSE /\ Len(events[n]) < MAX_MSGCOUNT
         /\ events' = [events EXCEPT ![n] = Append(@, e)]

posts ==
    /\ server.posts # <<>> /\ Head(server.posts).what # "REPLY"
    /\ Sent(Head(server.posts))
    /\ server' = [server EXCEPT !.posts = Tail(@)]
    /\ UNCHANGED <<inq, proc, calls>>

Cmd(op, w) == [op |-> op, win |-> w]

\* What a program sends when it has the reply to m.
Continue(m) ==
    CASE m.op = "BEGIN" -> <<Cmd("DRAW", m.win),
                             Cmd(IF m.win \in Strings THEN "TEXT" ELSE "END", m.win)>>
      [] m.op = "CREATE" -> IF IsCanvas(m.win) THEN <<Cmd("SHOW", m.win)>> ELSE <<>>

\* Respond(): the reply port is empty, the program waits at it.
answers ==
    /\ server.posts # <<>> /\ Head(server.posts).what = "REPLY"
    /\ LET m == Head(server.posts).win IN
       proc' = [proc EXCEPT ![Owner[m.win]].waits = FALSE,
                            ![Owner[m.win]].todo = Continue(m) \o @]
    /\ server' = [server EXCEPT !.posts = Tail(@)]
    /\ UNCHANGED <<inq, events, calls>>

-----------------------------------------------------------------------------
\* The programs.

\* Flush()
sends(n) ==
    /\ proc[n].todo # <<>> /\ ~proc[n].waits
    /\ Len(inq) < MaxPending
    /\ inq' = Append(inq, Head(proc[n].todo))
    /\ proc' = [proc EXCEPT ![n].todo = Tail(@),
                            ![n].waits = Head(proc[n].todo).op \in Answered]
    /\ UNCHANGED <<server, events, calls>>

Unlocked(n) == proc[n].todo = <<>> /\ ~proc[n].waits /\ ~proc[n].ended
Canvases(n) == {w \in proc[n].made : IsCanvas(w)}

\* EventLoop(): the window itself handles no event.
takes(n) ==
    /\ Unlocked(n) /\ events[n] # <<>>
    /\ LET e == Head(events[n]) IN
       proc' = IF e.what = "PAINT" /\ e.win \in Canvases(n)
               THEN [proc EXCEPT ![n].todo = <<Cmd("BEGIN", e.win)>>] ELSE proc
    /\ events' = [events EXCEPT ![n] = Tail(@)]
    /\ UNCHANGED <<server, inq, calls>>

\* Program n makes a call, which sends cmds; p is what it knows afterwards.
Call(n, cmds, p) ==
    /\ Unlocked(n)
    /\ proc' = [proc EXCEPT ![n] = [p EXCEPT !.todo = cmds]]
    /\ UNCHANGED <<server, inq, events>>

\* A call after the first, of which there are not too many.
Later(n, cmds, p) ==
    /\ calls < MaxCalls /\ calls' = calls + 1
    /\ Call(n, cmds, p)

\* A program makes its window, shows it, and adds its first canvases.
opens(n, w) ==
    /\ Owner[w] = n /\ ~IsCanvas(w)
    /\ proc[n].made \cup proc[n].gone = {}
    /\ LET cs == {c \in Windows \ Late : Under[c] = w}
           ws == SetToSeq(cs)
       IN Call(n, <<Cmd("CREATE", w), Cmd("SHOW", w)>>
                    \o [i \in DOMAIN ws |-> Cmd("CREATE", ws[i])],
               [proc[n] EXCEPT !.made = {w} \cup cs, !.shown = {w} \cup cs])
    /\ UNCHANGED calls

\* AddChild()
adds(n, w) ==
    /\ IsCanvas(w) /\ w \notin proc[n].made \cup proc[n].gone
    /\ Under[w] \in proc[n].made
    /\ Later(n, <<Cmd("CREATE", w)>>,
             [proc[n] EXCEPT !.made = @ \cup {w}, !.shown = @ \cup {w}])

\* May the program still use window w?
MayUse(n, w) ==
    /\ w \in proc[n].made
    /\ UsesDetached \/ \A c \in proc[n].gone : Under[c] # w

shows(n, w) ==
    /\ MayUse(n, w) /\ w \notin proc[n].shown
    /\ Later(n, <<Cmd("SHOW", w)>>, [proc[n] EXCEPT !.shown = @ \cup {w}])

hides(n, w) ==
    /\ MayUse(n, w) /\ w \in proc[n].shown
    /\ Later(n, <<Cmd("HIDE", w)>>, [proc[n] EXCEPT !.shown = @ \ {w}])

\* MakeFocus(): the server reads through the null parent of a window that
\* has lost a canvas.
raises(n, w) ==
    /\ w \in proc[n].made /\ ~IsCanvas(w)
    /\ \A c \in proc[n].gone : Under[c] # w
    /\ RaisesShown \/ w \notin proc[n].shown
    /\ Later(n, <<Cmd("FOCUS", w)>>, proc[n])

\* Canvas::Invalidate() of the whole of a canvas without canvases in it.
invalidates(n, w) ==
    /\ w \in Canvases(n) /\ \A c \in proc[n].made : Under[c] # w
    /\ Later(n, <<Cmd("INVALIDATE", w)>>, proc[n])

removes(n, w) ==
    /\ w \in Canvases(n) /\ \A c \in proc[n].made : Under[c] # w
    /\ Later(n, <<Cmd("DESTROY", w)>>,
             [proc[n] EXCEPT !.made = @ \ {w}, !.gone = @ \cup {w}])

\* ~Window(): the canvases go first.
quits(n) ==
    /\ proc[n].made # {}
    /\ UsesDetached \/ (Canvases(n) = {} /\ proc[n].gone = {})
    /\ LET ws == SetToSeq(Canvases(n)) \o SetToSeq(proc[n].made \ Canvases(n))
       IN Later(n, [i \in DOMAIN ws |-> Cmd("DESTROY", ws[i])],
                [proc[n] EXCEPT !.ended = TRUE, !.gone = @ \cup proc[n].made,
                                !.made = {}])

-----------------------------------------------------------------------------
Steps(n) ==
    \/ sends(n) \/ takes(n)
    \/ \E w \in Windows :
         \/ opens(n, w) \/ adds(n, w) \/ shows(n, w) \/ hides(n, w)
         \/ raises(n, w) \/ invalidates(n, w) \/ removes(n, w)
    \/ quits(n)

Next ==
    \/ serve \/ posts \/ answers
    \/ \E n \in Programs : Steps(n)

Spec == Init /\ [][Next]_vars

-----------------------------------------------------------------------------
\* The window in front at p, by the tree alone.
RECURSIVE TopUnder(_, _)
TopUnder(w, p) ==
    LET at == SelectSeq(server.win[w].fChildList,
                 LAMBDA c : /\ server.win[c].fIsVisible
                            /\ HasPoint(LocalToScreen(server, w,
                                            server.win[c].fFrame), p))
    IN IF at = <<>> THEN w ELSE TopUnder(Head(at), p)
TopAt(p) == TopUnder(Root, p)

(* Each point of the screen shows the window in front there, that window   *)
(* alone may draw there, and its regions hold no point twice: after the    *)
(* steps of UpdateClipRegion() through the tree (Window.cpp:48), whatever  *)
(* is added, shown, hidden or removed, when only hidden windows are raised *)
(* and a window that has lost a canvas is left as it is.                   *)
EachPointHasItsWindow ==
    \A p \in Points : \E top \in {TopAt(p)} :
        /\ server.screen[p].win = top
        /\ \A w \in All :
             /\ Len(RectsAt(server.win[w].fClipRegion, p)) = IF w = top THEN 1 ELSE 0
             /\ Covers(server.win[w].gc, p) => w = top

\* The program paints w: its answer is due or it has more to draw.
Will(w, ops) ==
    LET n == Owner[w]
        said(m) == m.win = w /\ m.op \in ops
    IN \/ \E i \in DOMAIN proc[n].todo : said(proc[n].todo[i])
       \/ \E i \in DOMAIN inq : said(inq[i])
Drawing(w) ==
    \/ Will(w, {"TEXT", "END"})
    \/ \E i \in DOMAIN server.posts : server.posts[i] = Event("REPLY", Cmd("BEGIN", w))
Told(w) ==
    \/ \E i \in DOMAIN server.posts : server.posts[i] = Event("PAINT", w)
    \/ \E i \in DOMAIN events[Owner[w]] : events[Owner[w]][i] = Event("PAINT", w)
    \/ Will(w, {"BEGIN"})

(* What a canvas has not painted is damage that the server knows and the   *)
(* program is told of, or it is being painted: what a window uncovers      *)
(* before, between and after the messages of another one's painting is not *)
(* forgotten (Window.cpp:162, 210).                                        *)
NoDamageForgotten ==
    \A p \in Points :
        LET w == server.screen[p].win IN
        IsCanvas(w) /\ ~server.screen[p].painted /\ w \in proc[Owner[w]].made =>
            \/ Covers(server.win[w].fInvalidRegion, p) /\ Told(w)
            \/ Covers(server.win[w].gc, p) /\ Drawing(w)

\* The server waits for room in the port of a program.
WaitsForRoom ==
    /\ server.posts # <<>>
    /\ LET e == Head(server.posts) IN
       /\ e.what = "PAINT" /\ ~proc[Owner[e.win]].ended
       /\ Len(events[Owner[e.win]]) >= MAX_MSGCOUNT

\* The windows of n of which an event may be due: not one that n is about to
\* make, nor one that it was told of and is about to paint.
MayBeTold(n) ==
    {w \in proc[n].made \cup proc[n].gone : ~Will(w, {"CREATE", "BEGIN"})}

(* The server never waits for room in the port of a program that has made  *)
(* no more windows than the port holds messages, nor, when it has one      *)
(* more, while it is on its way to the answer to OP_CREATE_WINDOW or       *)
(* OP_BEGIN_PAINT: fPaintMsgSent leaves at most one event due for each     *)
(* window, in the server or in the port, and none for the one to be        *)
(* painted (Window.cpp:171, 210, 270, Canvas.cpp:127).                     *)
ServerFindsRoom ==
    WaitsForRoom =>
        Cardinality(MayBeTold(Owner[Head(server.posts).win])) > MAX_MSGCOUNT

\* Can a thread go on?
CanGo ==
    \/ server.posts = <<>> /\ inq # <<>>
    \/ server.posts # <<>> /\ ~WaitsForRoom
    \/ \E n \in Programs :
         \/ proc[n].todo # <<>> /\ ~proc[n].waits /\ Len(inq) < MaxPending
         \/ Unlocked(n) /\ events[n] # <<>>

(* When no thread of the server or a program can go on, all commands are   *)
(* done and answered.  Does not hold of a program with many more windows   *)
(* than its port holds messages: the server waits for room there while the *)
(* program waits for its answer, or for room in its port (Window.cpp:270). *)
AllDoneAtRest ==
    CanGo \/ /\ server.posts = <<>>
             /\ \A n \in Programs : proc[n].todo = <<>> /\ ~proc[n].waits
=============================================================================
