------------------------------ MODULE Windows ------------------------------
(***************************************************************************)
(* The window manager of services/window/window_manager_cached.c with the  *)
(* move cache of services/window/cache: stacking, input, damage, the       *)
(* outline of a drag, and the one retained image that lets a moved window  *)
(* be pasted back row by row instead of being drawn again.                 *)
(*                                                                         *)
(* The bitmap is a grid of cells.  A cell shows a pixel, named by the      *)
(* window it belongs to and its place in that window, so that "the screen  *)
(* shows what the windows contain" is a statement about two functions.     *)
(* When the contents of a window change, every pixel of its former         *)
(* contents, on the screen or in the retained image, becomes Stale.        *)
(* The title is the first row of a window, and the close and resize boxes  *)
(* are one cell each.                                                      *)
(***************************************************************************)
EXTENDS Integers, FiniteSets

CONSTANTS
    Columns, Rows,          \* the size of the bitmap
    MaxWindows,             \* UDEKS_WINDOW_MAX
    Shapes,                 \* the <<width, height>> windows are created with
    MinWidth, MinHeight,    \* MINIMUM_WIDTH, MINIMUM_HEIGHT
    Capacity,               \* cells the retained image can hold
    Budget,                 \* rows a poll may copy
    MaxSmeared              \* bound: cells that may bear a trail at a time

Handles == 1 .. MaxWindows
NoWindow == 0
Erase == 255                \* skip_handle of an erase without any window
Cells == (0 .. Columns - 1) \X (0 .. Rows - 1)

ASSUME WindowsAssumption ==
    /\ Columns \in Nat \ {0} /\ Rows \in Nat \ {0}
    /\ MaxWindows \in Nat /\ MaxWindows < Erase
    /\ Shapes \subseteq (Nat \ {0}) \X (Nat \ {0})
    /\ MinWidth \in Nat \ {0} /\ MinHeight \in Nat \ {0}
    /\ Capacity \in Nat /\ Budget \in Nat /\ MaxSmeared \in Nat

VARIABLES
    window,     \* windows: the rectangle, the rank in the stack and whether a callback
                \* draws it; a window that is not active has rank 0
    activeCount,
    focused,    \* focused_handle
    click,      \* click_handle and pending_click
    pressed,    \* previous_buttons
    drag,       \* dragging_handle, drag_mode and the rectangle of the outline
    screen,     \* cell -> pixel: the shadow bitmap
    inverted,   \* the cells where the outline's exclusive-or, made in the VIC's own
                \* bitmap, sets that apart from the shadow
    cache,      \* the lease of the retained image and the image
    accepted,   \* cache_accept_state = $80
    lost,       \* history: windows whose accepted contents were not drawn
    smeared     \* history: cells composed while the outline crossed them

vars == <<window, activeCount, focused, click, pressed, drag, screen, inverted, cache,
          accepted, lost, smeared>>

----------------------------------------------------------------------------
(* Rectangles and pixels.                                                  *)

Unused == [x |-> 0, y |-> 0, w |-> 0, h |-> 0, z |-> 0, retained |-> FALSE]
Area(r) == {c \in Cells : /\ r.x <= c[1] /\ c[1] < r.x + r.w
                          /\ r.y <= c[2] /\ c[2] < r.y + r.h}
Client(r) == {c \in Area(r) : c[2] > r.y}
Outline(r) ==
    {c \in Area(r) : c[1] \in {r.x, r.x + r.w - 1} \/ c[2] \in {r.y, r.y + r.h - 1}}

Larger(a, b) == IF a > b THEN a ELSE b
Smaller(a, b) == IF a < b THEN a ELSE b

(* The rectangle from <<left, top>> up to <<right, bottom>>, empty when one*)
(* side passes the other.                                                  *)
Between(left, top, right, bottom) ==
    [x |-> left, y |-> top, w |-> Larger(right - left, 0),
     h |-> Larger(bottom - top, 0)]

Rectangle(r) == Between(r.x, r.y, r.x + r.w, r.y + r.h)
Nowhere == Rectangle(Unused)

Hull(r, s) ==
    Between(Smaller(r.x, s.x), Smaller(r.y, s.y),
            Larger(r.x + r.w, s.x + s.w), Larger(r.y + r.h, s.y + s.h))

Intersection(r, s) ==
    Between(Larger(r.x, s.x), Larger(r.y, s.y),
            Smaller(r.x + r.w, s.x + s.w), Smaller(r.y + r.h, s.y + s.h))

Background == <<0, 0, 0>>
Stale == <<0, 0, 1>>        \* former contents of some window

Pixel(w, h, c) == <<h, c[1] - w[h].x, c[2] - w[h].y>>

----------------------------------------------------------------------------
(* The stack.                                                              *)

Active(w) == {h \in Handles : w[h].z > 0}

Top(n, w) == IF n = 0 THEN NoWindow ELSE CHOOSE h \in Handles : w[h].z = n

(* The windows above h move down by one.                                   *)
Lowered(w, h) ==
    [g \in Handles |-> IF w[g].z > w[h].z THEN [w[g] EXCEPT !.z = @ - 1] ELSE w[g]]

Raised(w, h) == [Lowered(w, h) EXCEPT ![h].z = activeCount]

Removed(w, h) == [Lowered(w, h) EXCEPT ![h] = Unused]

(* The highest of the windows S at a cell.                                 *)
TopOf(S, w, c) ==
    LET under == {h \in S : c \in Area(w[h])}
    IN  IF under = {} THEN NoWindow
        ELSE CHOOSE h \in under : \A g \in under : w[g].z <= w[h].z

TopAt(w, c) == TopOf(Active(w), w, c)

Visible(S, w, c) ==
    LET h == TopOf(S, w, c) IN IF h = NoWindow THEN Background ELSE Pixel(w, h, c)

----------------------------------------------------------------------------
(* What an operation does to the pixels is a function from views to views. *)

NoImage == [c \in Cells |-> Stale]
Empty == [phase |-> "empty", owner |-> NoWindow, row |-> 0, end |-> 0, width |-> 0,
          image |-> NoImage]

NoDrag == [handle |-> NoWindow, mode |-> "none", cached |-> FALSE, dx |-> 0, dy |-> 0,
           rect |-> Nowhere]
NoClick == [handle |-> NoWindow, x |-> 0, y |-> 0]

View == [screen |-> screen, inverted |-> inverted, smeared |-> smeared, cache |-> cache]

Show(v) ==
    /\ screen' = v.screen
    /\ inverted' = v.inverted
    /\ smeared' = v.smeared
    /\ cache' = v.cache

Invalidated(v) == [v EXCEPT !.cache = Empty]

Toggled(v, r) == [v EXCEPT !.inverted = (@ \ Outline(r)) \union (Outline(r) \ @)]

(* What h shows from a row on has changed, and its old pixels are nobody's *)
(* now.  The title, row 0, is not contents, which begin in row 1.          *)
Spoiled(v, h, row) ==
    LET Old(p) == p[1] = h /\ p[3] >= row
    IN  [v EXCEPT !.screen = [c \in Cells |-> IF Old(@[c]) THEN Stale ELSE @[c]],
                  !.cache.image = [c \in Cells |-> IF Old(@[c]) THEN Stale ELSE @[c]]]

(* The windows S, drawn into the shadow from the bottom to the top with    *)
(* the clip set, and committed to the VIC's bitmap.                        *)
Drawn(v, S, w, d, area) ==
    [v EXCEPT !.screen = [c \in Cells |-> IF c \in area THEN Visible(S, w, c) ELSE @[c]],
              !.inverted = @ \ area,
              !.smeared = (@ \ area) \union (area \intersect Outline(d.rect))]

Shown(w, skip) == IF skip = Erase THEN {} ELSE Active(w) \ {skip}

ComposedTorn(v, w, d, damage, skip) ==
    LET keeps == d.cached /\ skip \in {v.cache.owner, Erase}
    IN  Drawn(IF keeps THEN v ELSE Invalidated(v), Shown(w, skip), w, d, Area(damage))

(* compose_damage.  Only the repair of a cached move, which leaves out the *)
(* cached window, keeps the image; everything else gives it up, and with a *)
(* paste half done repairs the whole of the window it was pasted into.     *)
Composed(v, w, d, damage, skip) ==
    LET keeps == d.cached /\ skip \in {v.cache.owner, Erase}
        torn == ~keeps /\ v.cache.phase = "pasting" /\ v.cache.owner \in Active(w)
        area == Area(IF torn THEN Hull(damage, w[v.cache.owner]) ELSE damage)
    IN  Drawn(IF keeps THEN v ELSE Invalidated(v), Shown(w, skip), w, d, area)

(* cache_paint_image: the background is repaired without the cached window *)
(* h, whose damaged rows are then left to the paste.                       *)
ImagePainted(v, w, h, damage) ==
    LET repaired == Composed(v, w, [NoDrag EXCEPT !.cached = TRUE], damage, h)
        part == Intersection(damage, w[h])
        first == part.y - w[h].y
    IN  IF Area(part) = {} THEN repaired
        ELSE IF repaired.cache.phase = "ready" /\ repaired.cache.owner = h
        THEN [repaired EXCEPT !.cache.phase = "pasting", !.cache.row = first,
                              !.cache.end = first + part.h,
                              !.cache.width = part.x + part.w - w[h].x]
        ELSE Composed(repaired, w, NoDrag, damage, NoWindow)

(* A batch of rows: at most n, fewer where the phase ends.  They go from   *)
(* the shadow into the image, or back and then to the VIC.                 *)
RowsCaptured(v, w, n) ==
    LET k == v.cache
        r == w[k.owner]
        next == Smaller(k.row + n, r.h)
    IN  [v EXCEPT !.cache.image = [c \in Cells |->
                      IF c[2] \in k.row .. next - 1 /\ c[1] < r.w
                      THEN v.screen[<<r.x + c[1], r.y + c[2]>>] ELSE @[c]],
                  !.cache.row = next,
                  !.cache.phase = IF next = r.h THEN "ready" ELSE @]

RowsPasted(v, w, n) ==
    LET k == v.cache
        r == w[k.owner]
        next == Smaller(k.row + n, k.end)
        rows == {c \in Area(r) : c[2] - r.y \in k.row .. next - 1 /\ c[1] < r.x + k.width}
    IN  [v EXCEPT !.screen = [c \in Cells |->
                      IF c \in rows THEN k.image[<<c[1] - r.x, c[2] - r.y>>] ELSE @[c]],
                  !.inverted = @ \ rows,
                  !.smeared = @ \ rows,
                  !.cache.row = next,
                  !.cache.phase = IF next = k.end THEN "ready" ELSE @]

RowsCopied(v, w, n) ==
    IF v.cache.phase = "capturing" THEN RowsCaptured(v, w, n) ELSE RowsPasted(v, w, n)

----------------------------------------------------------------------------
Busy == drag.handle # NoWindow \/ cache.phase \in {"capturing", "pasting"}

Init ==
    /\ window = [h \in Handles |-> Unused]
    /\ activeCount = 0
    /\ focused = NoWindow
    /\ click = NoClick
    /\ pressed = FALSE
    /\ drag = NoDrag
    /\ screen = [c \in Cells |-> Background]
    /\ inverted = {}
    /\ cache = Empty
    /\ accepted = FALSE
    /\ lost = {}
    /\ smeared = {}

(* udeks_window_create, with or without a callback that draws on request.  *)
Create(r) ==
    /\ \E h \in Handles \ Active(window) :
          /\ \A g \in Handles \ Active(window) : h <= g
          /\ window' = [window EXCEPT ![h] = [r EXCEPT !.z = activeCount + 1]]
          /\ focused' = h
    /\ activeCount' = activeCount + 1
    /\ Show(Composed(View, window', drag, r, NoWindow))
    /\ Cardinality(smeared') <= MaxSmeared
    /\ UNCHANGED <<click, pressed, drag, accepted, lost>>

RefocusedOnly(n, w) == focused' = Top(n, w) /\ UNCHANGED click

Refocused(n, w) == focused' = Top(n, w) /\ click' = NoClick

(* udeks_window_destroy, in the stack w.                                   *)
Closed(v, w, h) ==
    LET dragged == drag.handle = h
        rest == Removed(w, h)
        d == IF dragged THEN NoDrag ELSE drag
        bare == IF dragged THEN Toggled(v, drag.rect) ELSE v
    IN  /\ window' = rest
        /\ activeCount' = activeCount - 1
        /\ Refocused(activeCount - 1, rest)
        /\ drag' = d
        /\ lost' = lost \ {h}
        /\ Show(Composed(Spoiled(bare, h, 0), rest, d, w[h], NoWindow))

Destroy(h) ==
    /\ h \in Active(window)
    /\ Closed(View, window, h)
    /\ Cardinality(smeared') <= MaxSmeared
    /\ UNCHANGED <<pressed, accepted>>

PaintedUnderImage(v, h) ==
    [Spoiled(v, h, 1) EXCEPT
        !.screen = [c \in Cells |-> IF c \in Client(window[h]) THEN Pixel(window, h, c)
                                    ELSE @[c]]]

(* begin_paint, drawing and end_paint: a window that keeps no callback for *)
(* its contents draws them itself, and only on top.                        *)
Painted(v, h) ==
    [Spoiled(Invalidated(v), h, 1) EXCEPT
        !.screen = [c \in Cells |-> IF c \in Client(window[h]) THEN Pixel(window, h, c)
                                    ELSE @[c]]]

MayPaint(h) == h = Top(activeCount, window) /\ ~Busy

Draw(h) ==
    /\ h \in Active(window)
    /\ ~window[h].retained
    /\ MayPaint(h)
    /\ Show(Painted(View, h))
    /\ UNCHANGED <<window, activeCount, focused, click, pressed, drag, accepted, lost>>

(* udeks_window_image_complete: the capture of a finished window.          *)
ImageComplete(h) ==
    /\ h \in Active(window)
    /\ ~window[h].retained
    /\ drag.handle = NoWindow
    /\ h = Top(activeCount, window)
    /\ accepted
    /\ cache.phase = "empty"
    /\ window[h].w * window[h].h <= Capacity
    /\ cache' = [Empty EXCEPT !.phase = "capturing", !.owner = h]
    /\ UNCHANGED <<window, activeCount, focused, click, pressed, drag, screen, inverted,
                   accepted, lost, smeared>>

(* udeks_window_repaint once it is not put off: a window below the cached  *)
(* one is repaired around the image, which is pasted back over it unless   *)
(* the damage lies above or under the image altogether.                    *)
Repainted(v, h) ==
    LET r == window[h]
        top == window[v.cache.owner]
        nested == /\ r.x >= top.x
                  /\ r.x + r.w <= top.x + top.w
                  /\ r.y + r.h <= top.y + top.h
        strip == Between(r.x, r.y, r.x + r.w, Smaller(r.y + r.h, top.y))
    IN  IF v.cache.phase # "ready" \/ h = v.cache.owner
        THEN Composed(v, window, NoDrag, r, NoWindow)
        ELSE IF ~nested THEN ImagePainted(v, window, v.cache.owner, r)
        ELSE IF Area(strip) = {} THEN v
        ELSE Composed(v, window, [NoDrag EXCEPT !.cached = TRUE], strip, v.cache.owner)

(* PRESENT and PATHS: the contents change and a repaint is asked for, which*)
(* the manager does not make while it is busy.  COMMIT is the same but     *)
(* refused while it is busy.                                               *)
Present(h) ==
    /\ h \in Active(window)
    /\ window[h].retained
    /\ LET v == Spoiled(View, h, 1) IN Show(IF Busy THEN v ELSE Repainted(v, h))
    /\ lost' = IF Busy THEN lost \union {h} ELSE lost \ {h}
    /\ UNCHANGED <<window, activeCount, focused, click, pressed, drag, accepted>>

(* PRESENT_DELTA: refused while busy, drawn directly on top, repainted     *)
(* elsewhere.  The delta is against contents the screen has: of a lost     *)
(* image it draws nothing but itself.                                      *)
Delta(h) ==
    /\ h \in Active(window)
    /\ window[h].retained
    /\ ~Busy
    /\ Show(IF ~MayPaint(h) THEN Repainted(Spoiled(View, h, 1), h)
            ELSE IF h \in lost THEN Spoiled(Invalidated(View), h, 1)
            ELSE Painted(View, h))
    /\ lost' = IF MayPaint(h) THEN lost ELSE lost \ {h}
    /\ UNCHANGED <<window, activeCount, focused, click, pressed, drag, accepted>>

TakeClick(h) ==
    /\ click.handle = h
    /\ focused = h
    /\ drag.handle = NoWindow
    /\ click' = NoClick
    /\ UNCHANGED <<window, activeCount, focused, pressed, drag, screen, inverted, cache,
                   accepted, lost, smeared>>

----------------------------------------------------------------------------
(* The poll: rows first, then the pointer.                                 *)

CloseHit(r, p) == p = <<r.x + r.w - 1, r.y>>
ResizeHit(r, p) == p = <<r.x + r.w - 1, r.y + r.h - 1>>
TitleHit(r, p) == p[2] = r.y

Within(low, n, high) == Larger(low, Smaller(n, high))

(* move_drag and resize_drag: the rectangle the outline takes for p.       *)
Followed(d, p) ==
    IF d.mode = "move"
    THEN [d.rect EXCEPT !.x = Within(0, p[1] - d.dx, Columns - d.rect.w),
                        !.y = Within(0, p[2] - d.dy, Rows - d.rect.h)]
    ELSE [d.rect EXCEPT
            !.w = Smaller(Larger(p[1] - d.rect.x + 1, MinWidth), Columns - d.rect.x),
            !.h = Smaller(Larger(p[2] - d.rect.y + 1, MinHeight), Rows - d.rect.y)]

Follow(v, d, p) ==
    LET r == Followed(d, p)
    IN  /\ drag' = [d EXCEPT !.rect = r]
        /\ Show(IF r = d.rect THEN v ELSE Toggled(Toggled(v, d.rect), r))

(* begin_drag: the contents are erased and an outline drawn in their place.*)
BeginDrag(v, w, h, p, mode) ==
    LET r == Rectangle(w[h])
        cached == mode = "move" /\ v.cache.phase = "ready" /\ v.cache.owner = h
        d == [handle |-> h, mode |-> mode, cached |-> cached, dx |-> p[1] - r.x,
              dy |-> p[2] - r.y, rect |-> r]
        bare == Composed(IF cached THEN v ELSE Invalidated(v), w,
                         [d EXCEPT !.rect = Nowhere], r, Erase)
    IN  Follow(Toggled(bare, r), d, p)

(* A button goes down: the window under the pointer is focused and raised, *)
(* and closed, resized, moved or clicked.                                  *)
Press(v, p) ==
    LET h == TopAt(window, p)
        r == window[h]
        w == Raised(window, h)
    IN  /\ ~pressed
        /\ pressed' = TRUE
        /\ IF h = NoWindow
           THEN /\ focused' = NoWindow
                /\ click' = NoClick
                /\ Show(v)
                /\ UNCHANGED <<window, activeCount, drag, lost>>
           ELSE IF CloseHit(r, p) THEN Closed(v, w, h)
           ELSE /\ focused' = h
                /\ window' = w
                /\ UNCHANGED <<activeCount, lost>>
                /\ IF ResizeHit(r, p) \/ TitleHit(r, p)
                   THEN /\ click' = NoClick
                        /\ BeginDrag(v, w, h, p, IF ResizeHit(r, p) THEN "resize" ELSE "move")
                   ELSE /\ click' = [handle |-> h, x |-> p[1] - r.x, y |-> p[2] - r.y]
                        /\ Show(IF r.z = activeCount THEN v
                                ELSE Composed(v, w, NoDrag, r, NoWindow))
                        /\ UNCHANGED drag

(* finish_drag: the window takes the outline's place.  A resized picture   *)
(* is another picture.                                                     *)
Release(v) ==
    LET h == drag.handle
        w == [window EXCEPT ![h].x = drag.rect.x, ![h].y = drag.rect.y,
                            ![h].w = drag.rect.w, ![h].h = drag.rect.h]
        bare == Toggled(v, drag.rect)
        damage == Hull(window[h], drag.rect)
    IN  /\ h # NoWindow
        /\ window' = w
        /\ drag' = NoDrag
        /\ pressed' = FALSE
        /\ Show(IF drag.cached THEN ImagePainted(bare, w, h, damage)
                ELSE Composed(IF drag.mode = "resize" THEN Spoiled(bare, h, 0) ELSE bare,
                              w, NoDrag, damage, NoWindow))
        /\ UNCHANGED <<activeCount, focused, click, lost>>

Motion(v, p) ==
    /\ drag.handle # NoWindow
    /\ pressed' = TRUE
    /\ Follow(v, drag, p)
    /\ UNCHANGED <<window, activeCount, focused, click, lost>>

Quiet(v, down) ==
    /\ drag.handle = NoWindow
    /\ down => pressed
    /\ pressed' = down
    /\ Show(v)
    /\ UNCHANGED <<window, activeCount, focused, click, drag, lost>>

(* What the row steps of one poll leave: after a failed one the image is   *)
(* given up and its window composed.                                       *)
Stepped ==
    IF drag.handle # NoWindow \/ cache.phase \notin {"capturing", "pasting"} THEN {View}
    ELSE LET Failed(v) == Composed(v, window, NoDrag, window[cache.owner], NoWindow)
         IN  {RowsCopied(View, window, n) : n \in 1 .. Budget}
             \union {Failed(RowsCopied(View, window, n)) : n \in 0 .. Budget - 1}

Poll ==
    /\ accepted' \in {accepted, TRUE}
    /\ \E v \in Stepped :
          IF v.cache.phase = "pasting"
          THEN /\ Show(v)
               /\ UNCHANGED <<window, activeCount, focused, click, pressed, drag, lost>>
          ELSE \/ \E p \in Cells : Press(v, p) \/ Motion(v, p)
               \/ Release(v)
               \/ \E down \in BOOLEAN : Quiet(v, down)

Placements ==
    {[x |-> c[1], y |-> c[2], w |-> s[1], h |-> s[2], z |-> 0, retained |-> b] :
        c \in Cells, s \in Shapes, b \in BOOLEAN}

Next ==
    \/ \E r \in Placements :
          r.x + r.w <= Columns /\ r.y + r.h <= Rows /\ Create(r)
    \/ \E h \in Handles :
          \/ Destroy(h) \/ Draw(h) \/ ImageComplete(h)
          \/ Present(h) \/ Delta(h) \/ TakeClick(h)
    \/ Poll

Spec == Init /\ [][Next]_vars

----------------------------------------------------------------------------
(* Properties.                                                             *)

(* The cells the manager still has to repair, and knows it: what a drag    *)
(* has erased, and what a paste has not reached.                           *)
Unrepaired ==
    {c \in Cells :
        \/ drag.handle # NoWindow /\ c \in Area(window[drag.handle])
        \/ /\ cache.phase = "pasting"
           /\ LET r == window[cache.owner]
              IN  /\ c \in Area(r)
                  /\ c[1] < r.x + cache.width
                  /\ c[2] - r.y \in cache.row .. cache.end - 1}

Excused(c) == screen[c] = Stale /\ TopAt(window, c) \in lost

(* Whatever the interleaving of clients, drags, captures and pastes, every *)
(* cell outside the area under repair shows the topmost window's current   *)
(* contents (compose_damage, the repaint around the image, the paste and   *)
(* its failure).  Excused are the contents of a window whose repaint was   *)
(* skipped while the manager was busy, and the trails of an outline over   *)
(* which another window was composed.                                      *)
ScreenShowsTheWindows ==
    /\ \A c \in Cells \ Unrepaired : screen[c] = Visible(Active(window), window, c) \/ Excused(c)
    /\ inverted \subseteq smeared \union Outline(drag.rect)

(* The retained image is the picture its owner would draw now, and its     *)
(* owner is on top: no drawing, resize, repaint or reuse of the handle     *)
(* leaves an old picture that a later move would paste.                    *)
ImageIsCurrent ==
    cache.phase # "empty" =>
        /\ cache.owner = Top(activeCount, window)
        /\ \A c \in Cells :
              LET r == window[cache.owner]
              IN  /\ c[1] < r.w
                  /\ c[2] < IF cache.phase = "capturing" THEN cache.row ELSE r.h
                  => cache.image[c] = <<cache.owner, c[1], c[2]>>

(* A click waits for a live window and lies in its contents as they are    *)
(* when it is taken: neither a resize nor a handle given to another window *)
(* in between hands a program a click that was not meant for it.           *)
ClicksFitTheirWindow ==
    click.handle # NoWindow =>
        /\ click.handle \in Active(window)
        /\ <<click.x, click.y>> \in Client([window[click.handle] EXCEPT !.x = 0, !.y = 0])

(* Contents a program was told are accepted are on the screen as soon as   *)
(* the manager has nothing left to repair.                                 *)
AcceptedContentsAreShown ==
    drag.handle = NoWindow /\ cache.phase \in {"empty", "ready"} =>
        \A c \in Cells : screen[c] # Stale
=============================================================================
