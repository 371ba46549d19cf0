--------------------------- MODULE WindowsProofs ---------------------------
(***************************************************************************)
(* The screen shows the windows, for every bitmap, every number of windows *)
(* and every order of the clients, the pointer and the rows of a move.     *)
(* The invariant is a predicate of a view, a stack, a drag and the windows *)
(* whose repaint was skipped, so that what a painting operation repairs is *)
(* a lemma about views, and an action the composition of a few of them.    *)
(***************************************************************************)
EXTENDS Windows, WellFoundedInduction, TLAPS

InBitmap(r) ==
    /\ r.x \in Nat /\ r.y \in Nat /\ r.w \in Nat \ {0} /\ r.h \in Nat \ {0}
    /\ r.x + r.w <= Columns /\ r.y + r.h <= Rows

Pixels == Nat \X Int \X Int
Slots == [x : Nat, y : Nat, w : Nat, h : Nat, z : Nat, retained : BOOLEAN]
Rectangles == [x : Int, y : Int, w : Int, h : Int]
Drags == [handle : Nat, mode : {"none", "move", "resize"}, cached : BOOLEAN, dx : Int,
          dy : Int, rect : Rectangles]
Images == [phase : {"empty", "capturing", "ready", "pasting"}, owner : Nat, row : Int,
           end : Int, width : Int, image : [Cells -> Pixels]]
Views == [screen : [Cells -> Pixels], inverted : SUBSET Cells, smeared : SUBSET Cells,
          cache : Images]

(* The ranks of the active windows are 1 .. n, one each.                   *)
StackIsSound(n, w) ==
    /\ n \in Nat
    /\ w \in [Handles -> Slots]
    /\ \A h \in Handles : w[h].z > 0 => w[h].z <= n /\ InBitmap(w[h])
    /\ \A h \in Handles : w[h].z = 0 => w[h] = Unused
    /\ \A g, h \in Handles : w[g].z > 0 /\ w[g].z = w[h].z => g = h
    /\ \A k \in 1 .. n : \E h \in Handles : w[h].z = k

DragIsSound(d, w) ==
    /\ d \in Drags
    /\ \/ d = NoDrag
       \/ /\ d.handle \in Active(w)
          /\ InBitmap(d.rect)
          /\ d.mode \in {"move", "resize"}
          /\ d.cached => d.mode = "move"
          /\ d.mode = "move" => d.rect.w = w[d.handle].w /\ d.rect.h = w[d.handle].h

ImageIsSound(v, n, w, d) ==
    LET k == v.cache
        r == w[k.owner]
    IN  \/ k = Empty
        \/ /\ k.phase # "empty"
           /\ k.owner \in Active(w) /\ r.z = n /\ ~r.retained
           /\ d.handle # NoWindow => d.cached /\ d.handle = k.owner /\ k.phase = "ready"
           /\ k.phase = "capturing" => k.row \in 0 .. r.h - 1
           /\ k.phase = "pasting" => /\ k.row \in 0 .. k.end - 1 /\ k.end <= r.h
                                     /\ k.width <= r.w
           /\ \A c \in Cells :
                 c[1] < r.w /\ c[2] < (IF k.phase = "capturing" THEN k.row ELSE r.h)
                 => k.image[c] = <<k.owner, c[1], c[2]>>

Repairing(v, w, d, c) ==
    \/ d.handle # NoWindow /\ c \in Area(w[d.handle])
    \/ /\ v.cache.phase = "pasting"
       /\ c \in Area(w[v.cache.owner])
       /\ c[1] < w[v.cache.owner].x + v.cache.width
       /\ c[2] - w[v.cache.owner].y \in v.cache.row .. v.cache.end - 1

IsShown(v, w, l, c) ==
    \/ v.screen[c] = Visible(Active(w), w, c)
    \/ v.screen[c] = Stale /\ TopAt(w, c) \in l

ScreenIsSound(v, w, d, l) == \A c \in Cells : Repairing(v, w, d, c) \/ IsShown(v, w, l, c)

TrailsAreKnown(v, d) ==
    (v.inverted \ Outline(d.rect)) \union (Outline(d.rect) \ v.inverted) \subseteq v.smeared

LostAreRetained(l, w) == l \subseteq {h \in Active(w) : w[h].retained}

ClickIsSound(k, w, d, p) ==
    /\ k \in [handle : Nat, x : Int, y : Int]
    /\ d.handle # NoWindow => p /\ k.handle = NoWindow
    /\ k.handle # NoWindow => /\ k.handle \in Active(w)
                              /\ k.x \in 0 .. w[k.handle].w - 1
                              /\ k.y \in 1 .. w[k.handle].h - 1

Sound(v, n, w, d, l) ==
    /\ v \in Views
    /\ StackIsSound(n, w) /\ DragIsSound(d, w) /\ LostAreRetained(l, w)
    /\ ImageIsSound(v, n, w, d) /\ ScreenIsSound(v, w, d, l) /\ TrailsAreKnown(v, d)

WindowsInv ==
    /\ Sound(View, activeCount, window, drag, lost)
    /\ ClickIsSound(click, window, drag, pressed)

-----------------------------------------------------------------------------
(* Rectangles.                                                             *)

Sized(r) == r.x \in Int /\ r.y \in Int /\ r.w \in Int /\ r.h \in Int

LEMMA CellsAreAPlane ==
    /\ \A c \in Cells : c[1] \in 0 .. Columns - 1 /\ c[2] \in 0 .. Rows - 1
    /\ \A x \in 0 .. Columns - 1, y \in 0 .. Rows - 1 : <<x, y>> \in Cells
    /\ \A r : Area(r) \subseteq Cells /\ Client(r) \subseteq Area(r)
    /\ \A r : Outline(r) \subseteq Area(r)
BY DEF Cells, Area, Client, Outline

LEMMA HullCovers ==
    ASSUME NEW r, NEW s, Sized(r), Sized(s)
    PROVE  /\ Sized(Hull(r, s))
           /\ Area(r) \subseteq Area(Hull(r, s))
           /\ Area(s) \subseteq Area(Hull(r, s))
<1> DEFINE q == Hull(r, s)
<1>1. /\ Sized(q) /\ q.x <= r.x /\ q.x <= s.x /\ q.y <= r.y /\ q.y <= s.y
      /\ r.x + r.w <= q.x + q.w /\ s.x + s.w <= q.x + q.w
      /\ r.y + r.h <= q.y + q.h /\ s.y + s.h <= q.y + q.h
  BY DEF Hull, Between, Larger, Smaller, Sized
<1> HIDE DEF q
<1>2. ASSUME NEW c \in Cells
      PROVE  c \in Area(r) \/ c \in Area(s) => c \in Area(q)
  <2>1. c[1] \in Int /\ c[2] \in Int
    BY CellsAreAPlane, WindowsAssumption
  <2> QED BY <1>1, <2>1 DEF Area, Sized
<1>3. Area(r) \subseteq Area(q) /\ Area(s) \subseteq Area(q)
  BY <1>2, CellsAreAPlane
<1> QED BY <1>1, <1>3 DEF q

LEMMA IntersectionIsBoth ==
    ASSUME NEW r, NEW s, Sized(r), Sized(s)
    PROVE  /\ Sized(Intersection(r, s))
           /\ Area(Intersection(r, s)) = Area(r) \cap Area(s)
<1> DEFINE q == Intersection(r, s)
<1>1. /\ Sized(q)
      /\ q.x = (IF r.x > s.x THEN r.x ELSE s.x)
      /\ q.y = (IF r.y > s.y THEN r.y ELSE s.y)
      /\ \/ q.x + q.w = (IF r.x + r.w > s.x + s.w THEN s.x + s.w ELSE r.x + r.w)
         \/ /\ q.w = 0
            /\ q.x >= (IF r.x + r.w > s.x + s.w THEN s.x + s.w ELSE r.x + r.w)
      /\ \/ q.y + q.h = (IF r.y + r.h > s.y + s.h THEN s.y + s.h ELSE r.y + r.h)
         \/ /\ q.h = 0
            /\ q.y >= (IF r.y + r.h > s.y + s.h THEN s.y + s.h ELSE r.y + r.h)
  BY DEF Intersection, Between, Larger, Smaller, Sized
<1> HIDE DEF q
<1>2. ASSUME NEW c \in Cells
      PROVE  c \in Area(q) <=> c \in Area(r) /\ c \in Area(s)
  <2>1. c[1] \in Int /\ c[2] \in Int
    BY CellsAreAPlane, WindowsAssumption
  <2> QED BY <1>1, <2>1 DEF Area, Sized
<1>3. Area(q) = Area(r) \cap Area(s)
  BY <1>2, CellsAreAPlane
<1> QED BY <1>1, <1>3 DEF q

LEMMA RectanglesKeepTheirArea ==
    /\ \A r : r.x \in Int /\ r.y \in Int /\ r.w \in Nat /\ r.h \in Nat
              => /\ Area(Rectangle(r)) = Area(r)
                 /\ Rectangle(r) \in Rectangles
                 /\ Rectangle(r).x = r.x /\ Rectangle(r).y = r.y
                 /\ Rectangle(r).w = r.w /\ Rectangle(r).h = r.h
    /\ Area(Unused) = {}
    /\ Area(Nowhere) = {} /\ Outline(Nowhere) = {} /\ Nowhere \in Rectangles
<1>1. ASSUME NEW r, r.x \in Int /\ r.y \in Int /\ r.w \in Nat /\ r.h \in Nat
      PROVE  Rectangle(r) = [x |-> r.x, y |-> r.y, w |-> r.w, h |-> r.h]
  BY <1>1 DEF Rectangle, Between, Larger
<1>2. ASSUME NEW c \in Cells PROVE c \notin Area(Unused)
  <2>1. c[1] \in Int /\ c[2] \in Int
    BY CellsAreAPlane, WindowsAssumption
  <2> QED BY <2>1 DEF Area, Unused
<1>3. Area(Unused) = {}
  BY <1>2, CellsAreAPlane
<1>4. Nowhere = [x |-> 0, y |-> 0, w |-> 0, h |-> 0]
  BY <1>1 DEF Nowhere, Unused
<1>5. Area(Nowhere) = Area(Unused)
  BY <1>4 DEF Area, Unused
<1> QED BY <1>1, <1>3, <1>4, <1>5, CellsAreAPlane DEF Area, Rectangles

(* The origin of a cell in a rectangle of the bitmap, and back.            *)
LEMMA PlacesInTheBitmap ==
    ASSUME NEW r, InBitmap(r)
    PROVE  /\ Sized(r)
           /\ \A c \in Area(r) : /\ c[1] - r.x \in 0 .. r.w - 1 /\ c[2] - r.y \in 0 .. r.h - 1
                                 /\ <<c[1] - r.x, c[2] - r.y>> \in Cells
           /\ \A c \in Cells : c[1] < r.w /\ c[2] < r.h =>
                 /\ <<r.x + c[1], r.y + c[2]>> \in Area(r)
<1>1. Sized(r)
  BY DEF InBitmap, Sized
<1>2. ASSUME NEW c \in Area(r)
      PROVE  /\ c[1] - r.x \in 0 .. r.w - 1 /\ c[2] - r.y \in 0 .. r.h - 1
             /\ <<c[1] - r.x, c[2] - r.y>> \in Cells
  <2>1. c \in Cells /\ c[1] \in Int /\ c[2] \in Int
    BY CellsAreAPlane, WindowsAssumption
  <2>2. c[1] - r.x \in 0 .. r.w - 1 /\ c[2] - r.y \in 0 .. r.h - 1
    BY <2>1 DEF Area, InBitmap
  <2>3. r.w <= Columns /\ r.h <= Rows
    BY WindowsAssumption DEF InBitmap
  <2>4. c[1] - r.x \in 0 .. Columns - 1 /\ c[2] - r.y \in 0 .. Rows - 1
    BY <2>2, <2>3, WindowsAssumption DEF InBitmap
  <2> QED BY <2>2, <2>4, CellsAreAPlane
<1>3. ASSUME NEW c \in Cells, c[1] < r.w, c[2] < r.h
      PROVE  <<r.x + c[1], r.y + c[2]>> \in Area(r)
  <2>1. c[1] \in Nat /\ c[2] \in Nat
    BY CellsAreAPlane, WindowsAssumption
  <2>2. r.x + c[1] \in 0 .. Columns - 1 /\ r.y + c[2] \in 0 .. Rows - 1
    BY <1>3, <2>1, WindowsAssumption DEF InBitmap
  <2>3. <<r.x + c[1], r.y + c[2]>> \in Cells
    BY <2>2, CellsAreAPlane
  <2> QED BY <1>3, <2>1, <2>3 DEF Area, InBitmap
<1> QED BY <1>1, <1>2, <1>3

-----------------------------------------------------------------------------
(* The stack.  OpToRel makes a relation of an order, and the library's     *)
(* theorem gives every set of numbers its least member.                    *)

LEMMA LeastExists ==
    ASSUME NEW S \in SUBSET Nat, S # {}
    PROVE  \E m \in S : \A n \in S : m <= n
<1> DEFINE R == OpToRel(<, Nat)
<1>1. IsWellFoundedOn(R, Nat)
  BY NatLessThanWellFounded
<1>2. R = {ss \in Nat \X Nat : ss[1] < ss[2]}
  BY DEF OpToRel
<1> HIDE DEF R
<1>3. PICK m \in S : \A n \in S : <<n, m>> \notin R
  BY <1>1, WFMin
<1>4. \A n \in S : ~(n < m)
  BY <1>2, <1>3
<1> QED BY <1>3, <1>4

LEMMA StackFacts ==
    ASSUME NEW n, NEW w, StackIsSound(n, w)
    PROVE  /\ n \in Nat
           /\ \A h \in Handles : /\ w[h] \in Slots /\ w[h].z \in Nat
                                 /\ w[h].x \in Nat /\ w[h].y \in Nat
                                 /\ w[h].w \in Nat /\ w[h].h \in Nat
                                 /\ Sized(w[h])
           /\ \A h \in Handles : h \in Active(w) <=> w[h].z > 0
           /\ \A h \in Active(w) : /\ h \in Handles /\ InBitmap(w[h])
                                   /\ w[h].z \in 1 .. n
           /\ \A h \in Handles \ Active(w) : w[h] = Unused /\ Area(w[h]) = {}
           /\ \A g, h \in Active(w) : w[g].z = w[h].z => g = h
           /\ NoWindow \notin Handles
<1>1. n \in Nat /\ w \in [Handles -> Slots]
  BY DEF StackIsSound
<1>2. \A h \in Handles : /\ w[h] \in Slots /\ w[h].z \in Nat
                         /\ w[h].x \in Nat /\ w[h].y \in Nat
                         /\ w[h].w \in Nat /\ w[h].h \in Nat
  BY <1>1 DEF Slots
<1>3. \A h \in Handles : Sized(w[h])
  BY <1>2 DEF Sized
<1>4. \A h \in Active(w) : h \in Handles /\ InBitmap(w[h]) /\ w[h].z \in 1 .. n
  BY <1>1, <1>2 DEF StackIsSound, Active
<1>5. \A h \in Handles \ Active(w) : w[h] = Unused
  BY <1>2 DEF StackIsSound, Active
<1>6. \A g, h \in Active(w) : w[g].z = w[h].z => g = h
  BY DEF StackIsSound, Active
<1>7. NoWindow \notin Handles
  BY DEF NoWindow, Handles
<1> QED BY <1>1, <1>2, <1>3, <1>4, <1>5, <1>6, <1>7, RectanglesKeepTheirArea DEF Active

IsTop(h, S, w, c) ==
    \/ h = NoWindow /\ \A g \in S : c \notin Area(w[g])
    \/ /\ h \in S /\ c \in Area(w[h])
       /\ \A g \in S : c \in Area(w[g]) => w[g].z <= w[h].z

LEMMA TopOfIsTop ==
    ASSUME NEW n, NEW w, StackIsSound(n, w), NEW S \in SUBSET Active(w), NEW c
    PROVE  /\ IsTop(TopOf(S, w, c), S, w, c)
           /\ \A h : IsTop(h, S, w, c) => h = TopOf(S, w, c)
<1> DEFINE under == {h \in S : c \in Area(w[h])}
           ranks == {n - w[h].z : h \in under}
<1>1. TopOf(S, w, c) = IF under = {} THEN NoWindow
                       ELSE CHOOSE h \in under : \A g \in under : w[g].z <= w[h].z
  BY DEF TopOf
<1>2. \A h \in S : h \in Handles /\ w[h].z \in 1 .. n
  BY StackFacts
<1>3. ASSUME under # {}
      PROVE  \E h \in under : \A g \in under : w[g].z <= w[h].z
  <2>1. ranks \in SUBSET Nat
    BY <1>2, StackFacts
  <2>2. ranks # {}
    BY <1>3
  <2>3. PICK m \in ranks : \A k \in ranks : m <= k
    BY <2>1, <2>2, LeastExists
  <2>4. PICK h \in under : m = n - w[h].z
    BY <2>3
  <2>5. \A g \in under : n - w[h].z <= n - w[g].z
    BY <2>3, <2>4
  <2> QED BY <1>2, <2>5, StackFacts
<1>4. IsTop(TopOf(S, w, c), S, w, c)
  <2>1. CASE under = {}
    BY <1>1, <2>1 DEF IsTop
  <2>2. CASE under # {}
    <3>1. /\ TopOf(S, w, c) \in under
          /\ \A g \in under : w[g].z <= w[TopOf(S, w, c)].z
      BY <1>1, <1>3, <2>2
    <3> QED BY <3>1 DEF IsTop
  <2> QED BY <2>1, <2>2
<1>5. ASSUME NEW h, IsTop(h, S, w, c)
      PROVE  h = TopOf(S, w, c)
  <2> DEFINE t == TopOf(S, w, c)
  <2>1. IsTop(t, S, w, c)
    BY <1>4
  <2> HIDE DEF t
  <2>2. NoWindow \notin S
    BY <1>2, StackFacts
  <2>3. t = NoWindow \/ h = NoWindow => t = h
    BY <1>5, <2>1, <2>2 DEF IsTop
  <2>4. CASE t # NoWindow /\ h # NoWindow
    <3>1. /\ t \in S /\ h \in S
          /\ w[t].z <= w[h].z /\ w[h].z <= w[t].z
      BY <1>5, <2>1, <2>4 DEF IsTop
    <3>2. w[t].z = w[h].z
      BY <1>2, <3>1
    <3> QED BY <3>1, <3>2, StackFacts DEF t
  <2> QED BY <2>3, <2>4 DEF t
<1> QED BY <1>4, <1>5

(* A cell of which the same windows show as many pixels as before.         *)
Alike(S, w, T, u, c) ==
    /\ \A g \in S : c \in Area(w[g]) => g \in T /\ c \in Area(u[g])
    /\ \A g \in T : c \in Area(u[g]) => /\ g \in S /\ c \in Area(w[g])
                                        /\ u[g].x = w[g].x /\ u[g].y = w[g].y
    /\ \A f, g \in S : c \in Area(w[f]) /\ c \in Area(w[g]) /\ w[f].z <= w[g].z
                       => u[f].z <= u[g].z

LEMMA AlikeShowsTheSame ==
    ASSUME NEW n, NEW w, StackIsSound(n, w), NEW S \in SUBSET Active(w),
           NEW m, NEW u, StackIsSound(m, u), NEW T \in SUBSET Active(u),
           NEW c, Alike(S, w, T, u, c)
    PROVE  /\ TopOf(T, u, c) = TopOf(S, w, c)
           /\ Visible(T, u, c) = Visible(S, w, c)
<1> DEFINE h == TopOf(S, w, c)
<1>1. IsTop(h, S, w, c)
  BY TopOfIsTop
<1> HIDE DEF h
<1>2. IsTop(h, T, u, c)
  BY <1>1 DEF IsTop, Alike
<1>3. h = TopOf(T, u, c)
  BY <1>2, TopOfIsTop
<1>4. h # NoWindow => h \in T /\ c \in Area(u[h])
  BY <1>2 DEF IsTop
<1>5. h # NoWindow => Pixel(u, h, c) = Pixel(w, h, c)
  BY <1>4 DEF Alike, Pixel
<1> QED BY <1>3, <1>5 DEF h, Visible

(* Only h changes, and is left out of the count where it does not reach.   *)
OthersStay(w, u, h) ==
    \A g \in Handles \ {h} :
        /\ w[g].z > 0 <=> u[g].z > 0
        /\ u[g].x = w[g].x /\ u[g].y = w[g].y /\ u[g].w = w[g].w /\ u[g].h = w[g].h
        /\ u[g].retained = w[g].retained
        /\ \A f \in Handles \ {h} : w[f].z <= w[g].z => u[f].z <= u[g].z

LEMMA OthersAreShown ==
    ASSUME NEW n, NEW w, StackIsSound(n, w), NEW m, NEW u, StackIsSound(m, u),
           NEW h \in Handles, OthersStay(w, u, h),
           NEW c, h \in Active(w) => c \notin Area(w[h]), h \in Active(u) => c \notin Area(u[h])
    PROVE  /\ TopAt(u, c) = TopAt(w, c) /\ TopAt(w, c) # h
           /\ Visible(Active(u), u, c) = Visible(Active(w), w, c)
<1>1. \A g \in Handles \ {h} : Area(w[g]) = Area(u[g])
  BY DEF OthersStay, Area
<1>2. \A g \in Active(w) : c \in Area(w[g]) => g \in Active(u) /\ g # h
  BY StackFacts DEF OthersStay
<1>3. \A g \in Active(u) : c \in Area(u[g]) => g \in Active(w) /\ g # h
  BY StackFacts DEF OthersStay
<1>4. Alike(Active(w), w, Active(u), u, c)
  BY <1>1, <1>2, <1>3, StackFacts DEF Alike, OthersStay
<1>5. IsTop(TopAt(w, c), Active(w), w, c)
  BY TopOfIsTop DEF TopAt
<1>6. TopAt(w, c) # h
  BY <1>2, <1>5, StackFacts DEF IsTop
<1> QED BY <1>4, <1>6, AlikeShowsTheSame DEF TopAt

(* What the operations make of the stack.                                  *)
LEMMA CreatedStack ==
    ASSUME NEW n, NEW w, StackIsSound(n, w), NEW h \in Handles \ Active(w),
           NEW r \in Slots, InBitmap(r), r.z = n + 1,
           NEW u \in [Handles -> Slots], u[h] = r, \A g \in Handles \ {h} : u[g] = w[g]
    PROVE  /\ StackIsSound(n + 1, u) /\ OthersStay(w, u, h)
           /\ Active(u) = Active(w) \cup {h} /\ Area(u[h]) = Area(r)
<1>1. /\ u \in [Handles -> Slots]
      /\ u[h] = r /\ u[h].z = n + 1
      /\ \A g \in Handles \ {h} : u[g] = w[g]
      /\ u[h].x = r.x /\ u[h].y = r.y /\ u[h].w = r.w /\ u[h].h = r.h
  OBVIOUS
<1>2. InBitmap(u[h]) /\ Area(u[h]) = Area(r)
  BY <1>1 DEF InBitmap, Area
<1>3. w[h].z = 0
  BY StackFacts
<1>4. Active(u) = Active(w) \cup {h}
  BY <1>1, StackFacts DEF Active
<1>5. OthersStay(w, u, h)
  BY <1>1, StackFacts DEF OthersStay
<1>6. \A k \in 1 .. n + 1 : \E g \in Handles : u[g].z = k
  <2> TAKE k \in 1 .. n + 1
  <2>1. CASE k = n + 1
    BY <1>1, <2>1
  <2>2. CASE k # n + 1
    <3>1. k \in 1 .. n
      BY <2>2, StackFacts
    <3>2. PICK g \in Handles : w[g].z = k
      BY <3>1 DEF StackIsSound
    <3>3. g # h
      BY <1>3, <3>1, <3>2
    <3> QED BY <1>1, <3>2, <3>3
  <2> QED BY <2>1, <2>2
<1>7. \A g \in Handles : u[g].z > 0 => u[g].z <= n + 1 /\ InBitmap(u[g])
  <2>1. n \in Nat /\ \A g \in Handles : w[g].z \in Nat
    BY StackFacts
  <2>2. \A g \in Handles \ {h} : u[g].z > 0 => u[g].z <= n + 1 /\ InBitmap(u[g])
    BY <1>1, <2>1 DEF StackIsSound
  <2> QED BY <1>1, <1>2, <2>1, <2>2
<1>8. \A g \in Handles : u[g].z = 0 => u[g] = Unused
  BY <1>1, StackFacts DEF StackIsSound
<1>9. \A f, g \in Handles : u[f].z > 0 /\ u[f].z = u[g].z => f = g
  <2>1. \A g \in Handles \ {h} : u[g].z # n + 1
    BY <1>1, StackFacts
  <2> QED BY <1>1, <2>1 DEF StackIsSound
<1>10. n + 1 \in Nat
  BY StackFacts
<1> QED BY <1>1, <1>2, <1>4, <1>5, <1>6, <1>7, <1>8, <1>9, <1>10 DEF StackIsSound

LEMMA LoweredFacts ==
    ASSUME NEW n, NEW w, StackIsSound(n, w), NEW h \in Active(w),
           NEW u, u = Lowered(w, h)
    PROVE  /\ u \in [Handles -> Slots]
           /\ \A g \in Handles :
                 /\ u[g].z = IF w[g].z > w[h].z THEN w[g].z - 1 ELSE w[g].z
                 /\ w[g].z <= w[h].z => u[g] = w[g]
                 /\ u[g].x = w[g].x /\ u[g].y = w[g].y /\ u[g].w = w[g].w
                 /\ u[g].h = w[g].h /\ u[g].retained = w[g].retained
                 /\ u[g].z > 0 <=> w[g].z > 0
                 /\ w[g].z > 0 => InBitmap(u[g])
                 /\ \A f \in Handles : w[f].z <= w[g].z => u[f].z <= u[g].z
<1>1. \A g \in Handles : u[g] = IF w[g].z > w[h].z THEN [w[g] EXCEPT !.z = @ - 1] ELSE w[g]
  BY DEF Lowered
<1>2. w[h].z \in Nat /\ w[h].z > 0
  BY StackFacts
<1>3. \A g \in Handles :
         /\ u[g] \in Slots
         /\ u[g].z = IF w[g].z > w[h].z THEN w[g].z - 1 ELSE w[g].z
         /\ w[g].z <= w[h].z => u[g] = w[g]
         /\ u[g].x = w[g].x /\ u[g].y = w[g].y /\ u[g].w = w[g].w
         /\ u[g].h = w[g].h /\ u[g].retained = w[g].retained
         /\ u[g].z > 0 <=> w[g].z > 0
  <2> TAKE g \in Handles
  <2>1. w[g] \in Slots /\ w[g].z \in Nat
    BY StackFacts
  <2>2. CASE w[g].z > w[h].z
    <3>1. u[g] = [w[g] EXCEPT !.z = w[g].z - 1]
      BY <1>1, <2>2
    <3>2. w[g].z - 1 \in Nat /\ w[g].z - 1 > 0
      BY <1>2, <2>1, <2>2
    <3> QED BY <1>2, <2>1, <2>2, <3>1, <3>2 DEF Slots
  <2>3. CASE ~(w[g].z > w[h].z)
    BY <1>1, <1>2, <2>1, <2>3
  <2> QED BY <2>2, <2>3
<1>4. \A g \in Handles : w[g].z > 0 => InBitmap(u[g])
  BY <1>3 DEF StackIsSound, InBitmap
<1>5. \A f, g \in Handles : w[f].z <= w[g].z => u[f].z <= u[g].z
  BY <1>2, <1>3, StackFacts
<1>6. u \in [Handles -> Slots]
  BY <1>3 DEF Lowered
<1> QED BY <1>3, <1>4, <1>5, <1>6

LEMMA RemovedStack ==
    ASSUME NEW n, NEW w, StackIsSound(n, w), NEW h \in Active(w),
           NEW u, u = Removed(w, h)
    PROVE  /\ StackIsSound(n - 1, u) /\ OthersStay(w, u, h)
           /\ Active(u) = Active(w) \ {h} /\ Area(u[h]) = {}
<1> DEFINE v == Lowered(w, h)
<1>1. u = [v EXCEPT ![h] = Unused]
  BY DEF Removed
<1>2. /\ v \in [Handles -> Slots]
      /\ \A g \in Handles :
            /\ v[g].z = IF w[g].z > w[h].z THEN w[g].z - 1 ELSE w[g].z
            /\ w[g].z <= w[h].z => v[g] = w[g]
            /\ v[g].x = w[g].x /\ v[g].y = w[g].y /\ v[g].w = w[g].w
            /\ v[g].h = w[g].h /\ v[g].retained = w[g].retained
            /\ v[g].z > 0 <=> w[g].z > 0
            /\ w[g].z > 0 => InBitmap(v[g])
            /\ \A f \in Handles : w[f].z <= w[g].z => v[f].z <= v[g].z
  BY LoweredFacts
<1> HIDE DEF v
<1>3. /\ h \in Handles /\ n \in Nat
      /\ w[h].z \in 1 .. n
      /\ \A g \in Handles : w[g].z \in Nat /\ w[g].z <= n
  BY StackFacts DEF StackIsSound
<1>4. Unused \in Slots /\ Unused.z = 0
  BY DEF Unused, Slots
<1>5. /\ u \in [Handles -> Slots] /\ u[h] = Unused /\ u[h].z = 0
      /\ \A g \in Handles \ {h} : u[g] = v[g]
  BY <1>1, <1>2, <1>3, <1>4
<1>6. \A g \in Handles \ {h} : w[g].z > 0 => w[g].z # w[h].z
  BY <1>3 DEF StackIsSound
<1>7. Active(u) = Active(w) \ {h}
  BY <1>2, <1>3, <1>5, StackFacts DEF Active
<1>8. OthersStay(w, u, h)
  BY <1>2, <1>5 DEF OthersStay
<1>9. \A k \in 1 .. n - 1 : \E g \in Handles : u[g].z = k
  <2> TAKE k \in 1 .. n - 1
  <2>1. CASE k < w[h].z
    <3>1. PICK g \in Handles : w[g].z = k
      BY <1>3 DEF StackIsSound
    <3>2. g # h /\ u[g].z = k
      BY <1>2, <1>3, <1>5, <2>1, <3>1
    <3> QED BY <3>2
  <2>2. CASE k >= w[h].z
    <3>1. k + 1 \in 1 .. n /\ k + 1 > w[h].z
      BY <1>3, <2>2
    <3>2. PICK g \in Handles : w[g].z = k + 1
      BY <3>1 DEF StackIsSound
    <3>3. g # h /\ u[g].z = k
      BY <1>2, <1>3, <1>5, <3>1, <3>2
    <3> QED BY <3>3
  <2> QED BY <1>3, <2>1, <2>2
<1>10. \A g \in Handles : u[g].z > 0 => u[g].z <= n - 1 /\ InBitmap(u[g])
  BY <1>2, <1>3, <1>5, <1>6
<1>11. \A g \in Handles : u[g].z = 0 => u[g] = Unused
  <2> SUFFICES ASSUME NEW g \in Handles \ {h}, v[g].z = 0 PROVE v[g] = Unused
    BY <1>5
  <2>1. w[g].z = 0
    BY <1>2, <1>3
  <2> QED BY <1>2, <1>3, <2>1 DEF StackIsSound
<1>12. \A f, g \in Handles : u[f].z > 0 /\ u[f].z = u[g].z => f = g
  <2> SUFFICES ASSUME NEW f \in Handles \ {h}, NEW g \in Handles \ {h},
                      v[f].z > 0, v[f].z = v[g].z
               PROVE  w[f].z > 0 /\ w[f].z = w[g].z
    BY <1>5 DEF StackIsSound
  <2> QED BY <1>2, <1>3, <1>6
<1>13. n - 1 \in Nat
  BY <1>3
<1>14. Area(u[h]) = {}
  BY <1>5, RectanglesKeepTheirArea
<1> QED BY <1>5, <1>7, <1>8, <1>9, <1>10, <1>11, <1>12, <1>13, <1>14 DEF StackIsSound

LEMMA RaisedStack ==
    ASSUME NEW w, StackIsSound(activeCount, w), NEW h \in Active(w),
           NEW u, u = Raised(w, h)
    PROVE  /\ StackIsSound(activeCount, u) /\ OthersStay(w, u, h)
           /\ Active(u) = Active(w) /\ u[h].z = activeCount
           /\ u[h].x = w[h].x /\ u[h].y = w[h].y /\ u[h].w = w[h].w /\ u[h].h = w[h].h
           /\ u[h].retained = w[h].retained
           /\ w[h].z = activeCount => u = w
<1> DEFINE v == Lowered(w, h)
           n == activeCount
<1>1. u = [v EXCEPT ![h].z = n]
  BY DEF Raised
<1>2. /\ v \in [Handles -> Slots]
      /\ \A g \in Handles :
            /\ v[g].z = IF w[g].z > w[h].z THEN w[g].z - 1 ELSE w[g].z
            /\ w[g].z <= w[h].z => v[g] = w[g]
            /\ v[g].x = w[g].x /\ v[g].y = w[g].y /\ v[g].w = w[g].w
            /\ v[g].h = w[g].h /\ v[g].retained = w[g].retained
            /\ v[g].z > 0 <=> w[g].z > 0
            /\ w[g].z > 0 => InBitmap(v[g])
            /\ \A f \in Handles : w[f].z <= w[g].z => v[f].z <= v[g].z
  BY LoweredFacts
<1>3. /\ h \in Handles /\ n \in Nat
      /\ w[h].z \in 1 .. n
      /\ \A g \in Handles : w[g].z \in Nat /\ w[g].z <= n
  BY StackFacts DEF StackIsSound
<1> HIDE DEF v, n
<1>4. v[h] = w[h] /\ v[h] \in Slots
  BY <1>2, <1>3
<1>5. u[h] = [w[h] EXCEPT !.z = n]
  BY <1>1, <1>2, <1>3, <1>4
<1>6. /\ u \in [Handles -> Slots]
      /\ u[h].z = n
      /\ u[h].x = w[h].x /\ u[h].y = w[h].y /\ u[h].w = w[h].w /\ u[h].h = w[h].h
      /\ u[h].retained = w[h].retained
      /\ \A g \in Handles \ {h} : u[g] = v[g]
  BY <1>1, <1>2, <1>3, <1>4, <1>5 DEF Slots
<1>7. InBitmap(u[h])
  BY <1>3, <1>6 DEF StackIsSound, InBitmap
<1>8. \A g \in Handles \ {h} : w[g].z > 0 => w[g].z # w[h].z
  BY <1>3 DEF StackIsSound
<1>9. \A g \in Handles \ {h} : u[g].z > 0 => u[g].z <= n - 1
  BY <1>2, <1>3, <1>6, <1>8
<1>10. Active(u) = Active(w)
  BY <1>2, <1>3, <1>6, StackFacts DEF Active
<1>11. OthersStay(w, u, h)
  BY <1>2, <1>6 DEF OthersStay
<1>12. \A k \in 1 .. n : \E g \in Handles : u[g].z = k
  <2> TAKE k \in 1 .. n
  <2>1. CASE k = n
    BY <1>3, <1>6, <2>1
  <2>2. CASE k < w[h].z /\ k # n
    <3>1. PICK g \in Handles : w[g].z = k
      BY DEF StackIsSound, n
    <3>2. g # h /\ u[g].z = k
      BY <1>2, <1>3, <1>6, <2>2, <3>1
    <3> QED BY <3>2
  <2>3. CASE k >= w[h].z /\ k # n
    <3>1. k + 1 \in 1 .. n /\ k + 1 > w[h].z
      BY <1>3, <2>3
    <3>2. PICK g \in Handles : w[g].z = k + 1
      BY <3>1 DEF StackIsSound, n
    <3>3. g # h /\ u[g].z = k
      BY <1>2, <1>3, <1>6, <3>1, <3>2
    <3> QED BY <3>3
  <2> QED BY <1>3, <2>1, <2>2, <2>3
<1>13. \A g \in Handles : u[g].z > 0 => u[g].z <= n /\ InBitmap(u[g])
  BY <1>2, <1>3, <1>6, <1>7, <1>9
<1>14. \A g \in Handles : u[g].z = 0 => u[g] = Unused
  <2> SUFFICES ASSUME NEW g \in Handles \ {h}, v[g].z = 0 PROVE v[g] = Unused
    BY <1>3, <1>6
  <2>1. w[g].z = 0
    BY <1>2, <1>3
  <2> QED BY <1>2, <1>3, <2>1 DEF StackIsSound
<1>15. \A f, g \in Handles : u[f].z > 0 /\ u[f].z = u[g].z => f = g
  <2> SUFFICES ASSUME NEW f \in Handles \ {h}, NEW g \in Handles \ {h},
                      v[f].z > 0, v[f].z = v[g].z
               PROVE  w[f].z > 0 /\ w[f].z = w[g].z
    BY <1>3, <1>6, <1>9 DEF StackIsSound
  <2> QED BY <1>2, <1>3, <1>8
<1>16. w[h].z = n => u = w
  <2> SUFFICES ASSUME w[h].z = n PROVE u = w
    OBVIOUS
  <2>1. \A g \in Handles : v[g] = w[g]
    BY <1>2, <1>3
  <2>2. u[h] = w[h]
    <3>1. [w[h] EXCEPT !.z = w[h].z] = w[h]
      BY <1>4 DEF Slots
    <3> QED BY <1>5, <3>1
  <2>3. \A g \in Handles : u[g] = w[g]
    BY <1>6, <2>1, <2>2
  <2> QED BY <1>6, <2>3 DEF StackIsSound
<1> QED BY <1>3, <1>6, <1>10, <1>11, <1>12, <1>13, <1>14, <1>15, <1>16 DEF StackIsSound, n

LEMMA MovedStack ==
    ASSUME NEW n, NEW w, StackIsSound(n, w), NEW h \in Active(w),
           NEW q, InBitmap(q), NEW u \in [Handles -> Slots],
           u[h].x = q.x, u[h].y = q.y, u[h].w = q.w, u[h].h = q.h,
           u[h].z = w[h].z, u[h].retained = w[h].retained,
           \A g \in Handles \ {h} : u[g] = w[g]
    PROVE  /\ StackIsSound(n, u) /\ OthersStay(w, u, h)
           /\ Active(u) = Active(w) /\ Area(u[h]) = Area(q)
<1>1. h \in Handles
  BY StackFacts
<1>2. /\ u \in [Handles -> Slots]
      /\ u[h].x = q.x /\ u[h].y = q.y /\ u[h].w = q.w /\ u[h].h = q.h
      /\ u[h].z = w[h].z /\ u[h].retained = w[h].retained
      /\ \A g \in Handles \ {h} : u[g] = w[g]
  OBVIOUS
<1>3. InBitmap(u[h]) /\ Area(u[h]) = Area(q)
  BY <1>2 DEF InBitmap, Area
<1>4. \A g \in Handles : u[g].z = w[g].z
  BY <1>2
<1>5. Active(u) = Active(w)
  BY <1>4 DEF Active
<1>6. OthersStay(w, u, h)
  BY <1>2, <1>4 DEF OthersStay
<1>7. \A g \in Handles : u[g].z > 0 => u[g].z <= n /\ InBitmap(u[g])
  BY <1>2, <1>3, <1>4 DEF StackIsSound
<1>8. ASSUME NEW g \in Handles, u[g].z = 0
      PROVE  u[g] = Unused
  <2>1. w[h].z > 0 /\ w[h].z \in Nat
    BY StackFacts
  <2>2. w[g].z = 0 /\ g # h
    BY <1>4, <1>8, <2>1
  <2>3. w[g] = Unused
    BY <2>2 DEF StackIsSound
  <2> QED BY <1>2, <2>2, <2>3
<1>9. \A k \in 1 .. n : \E g \in Handles : u[g].z = k
  BY <1>4 DEF StackIsSound
<1>10. \A f, g \in Handles : u[f].z > 0 /\ u[f].z = u[g].z => f = g
  BY <1>4 DEF StackIsSound
<1>11. n \in Nat
  BY StackFacts
<1>12. StackIsSound(n, u)
  BY <1>2, <1>7, <1>8, <1>9, <1>10, <1>11 DEF StackIsSound
<1> QED BY <1>2, <1>3, <1>5, <1>6, <1>12

-----------------------------------------------------------------------------
(* What the painting operations make of a view.                            *)

LEMMA PixelFacts ==
    /\ Background \in Pixels /\ Stale \in Pixels
    /\ Background[1] = 0 /\ Stale[1] = 0
    /\ NoImage \in [Cells -> Pixels] /\ Empty \in Images
    /\ Empty.phase = "empty" /\ Empty.owner = NoWindow /\ Empty.image = NoImage
<1>1. Background \in Pixels /\ Stale \in Pixels /\ Background[1] = 0 /\ Stale[1] = 0
  BY DEF Background, Stale, Pixels
<1>2. NoImage \in [Cells -> Pixels]
  BY <1>1 DEF NoImage
<1> QED BY <1>1, <1>2 DEF Empty, Images, NoWindow

LEMMA VisibleFacts ==
    ASSUME NEW n, NEW w, StackIsSound(n, w), NEW S \in SUBSET Active(w), NEW c \in Cells
    PROVE  /\ Visible(S, w, c) \in Pixels
           /\ Visible(S, w, c)[1] = TopOf(S, w, c)
           /\ TopOf(S, w, c) # NoWindow =>
                 /\ TopOf(S, w, c) \in S /\ c \in Area(w[TopOf(S, w, c)])
                 /\ Visible(S, w, c) = Pixel(w, TopOf(S, w, c), c)
<1> DEFINE h == TopOf(S, w, c)
<1>1. h # NoWindow => h \in S /\ c \in Area(w[h])
  BY TopOfIsTop DEF IsTop
<1>2. Visible(S, w, c) = IF h = NoWindow THEN Background ELSE Pixel(w, h, c)
  BY DEF Visible
<1> HIDE DEF h
<1>3. ASSUME h # NoWindow
      PROVE  Pixel(w, h, c) \in Pixels /\ Pixel(w, h, c)[1] = h
  <2>1. h \in Handles /\ w[h].x \in Int /\ w[h].y \in Int
    BY <1>1, <1>3, StackFacts
  <2>2. c[1] \in Int /\ c[2] \in Int
    BY CellsAreAPlane, WindowsAssumption
  <2>3. h \in Nat
    BY <2>1, WindowsAssumption DEF Handles
  <2> QED BY <2>1, <2>2, <2>3 DEF Pixel, Pixels
<1> QED BY <1>1, <1>2, <1>3, PixelFacts DEF h, NoWindow

LEMMA ViewFields ==
    ASSUME NEW v \in Views
    PROVE  /\ v.screen \in [Cells -> Pixels] /\ v.inverted \subseteq Cells
           /\ v.smeared \subseteq Cells /\ v.cache \in Images
           /\ v.cache.image \in [Cells -> Pixels]
           /\ v.cache.phase \in {"empty", "capturing", "ready", "pasting"}
           /\ v.cache.owner \in Nat
           /\ v.cache.row \in Int /\ v.cache.end \in Int /\ v.cache.width \in Int
BY DEF Views, Images

LEMMA InvalidatedView ==
    ASSUME NEW v \in Views, NEW r, r = Invalidated(v)
    PROVE  /\ r \in Views /\ r.screen = v.screen /\ r.inverted = v.inverted
           /\ r.smeared = v.smeared /\ r.cache = Empty
BY PixelFacts DEF Views, Invalidated

LEMMA ToggledView ==
    ASSUME NEW v \in Views, NEW q, NEW r, r = Toggled(v, q)
    PROVE  /\ r \in Views /\ r.screen = v.screen /\ r.cache = v.cache
           /\ r.smeared = v.smeared
           /\ r.inverted = (v.inverted \ Outline(q)) \cup (Outline(q) \ v.inverted)
<1>1. Outline(q) \subseteq Cells
  BY CellsAreAPlane
<1> QED BY <1>1 DEF Views, Toggled

(* Toggling an outline takes it from the bitmap or puts it there.          *)
LEMMA ToggledTrails ==
    ASSUME NEW v \in Views, NEW d, NEW e, Outline(e.rect) = {},
           NEW r, r = Toggled(v, d.rect)
    PROVE  /\ TrailsAreKnown(v, d) => TrailsAreKnown(r, e)
           /\ TrailsAreKnown(v, e) => TrailsAreKnown(r, d)
<1>1. /\ r.smeared = v.smeared
      /\ r.inverted = (v.inverted \ Outline(d.rect)) \cup (Outline(d.rect) \ v.inverted)
  BY ToggledView
<1> QED BY <1>1, ViewFields DEF TrailsAreKnown

LEMMA DrawnView ==
    ASSUME NEW v \in Views, NEW n, NEW w, StackIsSound(n, w), NEW S \in SUBSET Active(w),
           NEW d, NEW area \in SUBSET Cells, NEW r, r = Drawn(v, S, w, d, area)
    PROVE  /\ r \in Views /\ r.cache = v.cache
           /\ \A c \in Cells : r.screen[c] = IF c \in area THEN Visible(S, w, c)
                                                           ELSE v.screen[c]
           /\ TrailsAreKnown(v, d) => TrailsAreKnown(r, d)
<1> DEFINE s == [c \in Cells |-> IF c \in area THEN Visible(S, w, c) ELSE v.screen[c]]
           i == v.inverted \ area
           m == (v.smeared \ area) \cup (area \cap Outline(d.rect))
<1>1. r = [v EXCEPT !.screen = s, !.inverted = i, !.smeared = m]
  BY DEF Drawn
<1>2. s \in [Cells -> Pixels]
  BY VisibleFacts, ViewFields
<1>3. i \subseteq Cells /\ m \subseteq Cells
  BY ViewFields, CellsAreAPlane
<1> HIDE DEF s, i, m
<1>4. /\ r \in Views /\ r.cache = v.cache
      /\ r.screen = s /\ r.inverted = i /\ r.smeared = m
  BY <1>1, <1>2, <1>3 DEF Views
<1>5. TrailsAreKnown(v, d) => TrailsAreKnown(r, d)
  BY <1>4 DEF TrailsAreKnown, i, m
<1> QED BY <1>4, <1>5 DEF s

LEMMA SpoiledView ==
    ASSUME NEW v \in Views, NEW h \in Handles, NEW row \in Int,
           NEW r, r = Spoiled(v, h, row)
    PROVE  /\ r \in Views /\ r.inverted = v.inverted /\ r.smeared = v.smeared
           /\ r.cache.phase = v.cache.phase /\ r.cache.owner = v.cache.owner
           /\ r.cache.row = v.cache.row /\ r.cache.end = v.cache.end
           /\ r.cache.width = v.cache.width
           /\ v.cache = Empty => r.cache = Empty
           /\ \A c \in Cells :
                 /\ \/ r.screen[c] = v.screen[c]
                    \/ r.screen[c] = Stale /\ v.screen[c][1] = h
                 /\ v.screen[c][1] = h /\ v.screen[c][3] >= row => r.screen[c] = Stale
                 /\ v.screen[c][3] < row => r.screen[c] = v.screen[c]
                 /\ v.cache.image[c][1] # h => r.cache.image[c] = v.cache.image[c]
<1> DEFINE Old(p) == p[1] = h /\ p[3] >= row
           s == [c \in Cells |-> IF Old(v.screen[c]) THEN Stale ELSE v.screen[c]]
           i == [c \in Cells |-> IF Old(v.cache.image[c]) THEN Stale ELSE v.cache.image[c]]
           k == [v.cache EXCEPT !.image = i]
<1>1. r = [v EXCEPT !.screen = s, !.cache.image = i]
  BY DEF Spoiled
<1>2. s \in [Cells -> Pixels] /\ i \in [Cells -> Pixels]
  BY ViewFields, PixelFacts
<1>3. \A c \in Cells : v.screen[c][3] \in Int
  BY ViewFields DEF Pixels
<1>4. v.cache = Empty => i = v.cache.image
  <2>1. h # 0
    BY DEF Handles
  <2>2. v.cache = Empty => \A c \in Cells : v.cache.image[c] = Stale
    BY PixelFacts DEF NoImage
  <2>3. v.cache = Empty => \A c \in Cells : i[c] = v.cache.image[c]
    BY <2>1, <2>2, PixelFacts
  <2> QED BY <1>2, <2>3, ViewFields
<1>5. /\ \A c \in Cells :
            /\ s[c] = v.screen[c] \/ (s[c] = Stale /\ v.screen[c][1] = h)
            /\ v.screen[c][1] = h /\ v.screen[c][3] >= row => s[c] = Stale
            /\ v.screen[c][3] < row => s[c] = v.screen[c]
            /\ v.cache.image[c][1] # h => i[c] = v.cache.image[c]
  BY <1>3
<1> HIDE DEF Old, s, i
<1>6. /\ k \in Images /\ k.image = i
      /\ k.phase = v.cache.phase /\ k.owner = v.cache.owner
      /\ k.row = v.cache.row /\ k.end = v.cache.end /\ k.width = v.cache.width
      /\ i = v.cache.image => k = v.cache
  BY <1>2, ViewFields DEF Images
<1>7. r = [v EXCEPT !.screen = s, !.cache = k]
  BY <1>1 DEF Views
<1> HIDE DEF k
<1>8. /\ r \in Views /\ r.inverted = v.inverted /\ r.smeared = v.smeared
      /\ r.screen = s /\ r.cache = k
  BY <1>2, <1>6, <1>7 DEF Views
<1> QED BY <1>4, <1>5, <1>6, <1>8

(* Composing every window, which gives up the image, repairs the damage and*)
(* the window a paste has left half done.                                  *)
LEMMA ComposedRepairs ==
    ASSUME NEW v \in Views, NEW n, NEW w, StackIsSound(n, w), NEW d, DragIsSound(d, w),
           NEW l, LostAreRetained(l, w), NEW damage, Sized(damage), TrailsAreKnown(v, d),
           v.cache = Empty \/ v.cache.owner \in Handles,
           \A c \in Cells :
              \/ c \in Area(damage)
              \/ d.handle # NoWindow /\ c \in Area(w[d.handle])
              \/ /\ v.cache.phase = "pasting" /\ v.cache.owner \in Active(w)
                 /\ c \in Area(w[v.cache.owner])
              \/ IsShown(v, w, l, c),
           NEW r, r = Composed(v, w, d, damage, NoWindow)
    PROVE  Sound(r, n, w, d, l)
<1> DEFINE keeps == d.cached /\ NoWindow \in {v.cache.owner, Erase}
           torn == /\ ~keeps /\ v.cache.phase = "pasting"
                   /\ v.cache.owner \in Active(w)
           area == Area(IF torn THEN Hull(damage, w[v.cache.owner]) ELSE damage)
           x == IF keeps THEN v ELSE Invalidated(v)
<1>1. Shown(w, NoWindow) = Active(w)
  BY StackFacts DEF Shown, NoWindow, Erase
<1>2. r = Drawn(x, Active(w), w, d, area)
  BY <1>1 DEF Composed
<1>3. keeps => v.cache = Empty
  BY StackFacts DEF NoWindow, Erase
<1>4. /\ Area(damage) \subseteq area
      /\ torn => Area(w[v.cache.owner]) \subseteq area
      /\ area \subseteq Cells
  <2>1. torn => Sized(w[v.cache.owner])
    BY StackFacts
  <2> QED BY <2>1, HullCovers, CellsAreAPlane
<1>5. v.cache.phase = "pasting" /\ v.cache.owner \in Active(w) => torn
  BY <1>3, PixelFacts
<1>6. /\ x \in Views /\ x.screen = v.screen /\ x.cache = Empty /\ TrailsAreKnown(x, d)
  BY <1>3, InvalidatedView DEF TrailsAreKnown
<1> HIDE DEF area, x, torn, keeps
<1>7. /\ r \in Views /\ r.cache = Empty /\ TrailsAreKnown(r, d)
      /\ \A c \in Cells : r.screen[c] = IF c \in area THEN Visible(Active(w), w, c)
                                                      ELSE v.screen[c]
  BY <1>2, <1>4, <1>6, DrawnView
<1>8. ScreenIsSound(r, w, d, l)
  <2> SUFFICES ASSUME NEW c \in Cells PROVE Repairing(r, w, d, c) \/ IsShown(r, w, l, c)
    BY DEF ScreenIsSound
  <2>1. CASE c \in area
    BY <1>7, <2>1 DEF IsShown
  <2>2. CASE c \notin area
    <3>1. \/ d.handle # NoWindow /\ c \in Area(w[d.handle])
          \/ IsShown(v, w, l, c)
      BY <1>4, <1>5, <2>2
    <3> QED BY <1>7, <2>2, <3>1 DEF Repairing, IsShown
  <2> QED BY <2>1, <2>2
<1>9. ImageIsSound(r, n, w, d)
  BY <1>7 DEF ImageIsSound
<1> QED BY <1>7, <1>8, <1>9 DEF Sound

(* The windows but one, which does not reach the cell.                     *)
LEMMA VisibleWithout ==
    ASSUME NEW n, NEW w, StackIsSound(n, w), NEW h, NEW c, c \notin Area(w[h])
    PROVE  Visible(Active(w) \ {h}, w, c) = Visible(Active(w), w, c)
<1>1. Alike(Active(w), w, Active(w) \ {h}, w, c)
  BY DEF Alike
<1> QED BY <1>1, AlikeShowsTheSame

(* The repair of a cached move leaves the image and its window alone.      *)
LEMMA ComposedAround ==
    ASSUME NEW v \in Views, NEW n, NEW w, StackIsSound(n, w),
           NEW h \in Active(w), v.cache.owner = h, NEW damage, Sized(damage),
           TrailsAreKnown(v, NoDrag),
           NEW d, d.cached, d.rect = NoDrag.rect,
           NEW r, r = Composed(v, w, d, damage, h)
    PROVE  /\ r \in Views /\ r.cache = v.cache /\ TrailsAreKnown(r, NoDrag)
           /\ \A c \in Cells \ Area(damage) : r.screen[c] = v.screen[c]
           /\ \A c \in Area(damage) \ Area(w[h]) :
                 r.screen[c] = Visible(Active(w), w, c)
<1> DEFINE S == Active(w) \ {h}
           area == Area(damage)
<1>1. h # Erase
  BY StackFacts, WindowsAssumption DEF Handles, Erase
<1>2. S \in SUBSET Active(w) /\ area \in SUBSET Cells
  BY CellsAreAPlane
<1>3. Shown(w, h) = S
  BY <1>1 DEF Shown
<1>4. r = Drawn(v, S, w, d, area)
  BY <1>3 DEF Composed
<1>5. \A c \in Cells : c \notin Area(w[h]) => Visible(S, w, c) = Visible(Active(w), w, c)
  BY VisibleWithout
<1> HIDE DEF S, area
<1>6. TrailsAreKnown(v, d)
  BY DEF TrailsAreKnown
<1>7. /\ r \in Views /\ r.cache = v.cache /\ TrailsAreKnown(r, d)
      /\ \A c \in Cells : r.screen[c] = IF c \in area THEN Visible(S, w, c)
                                                      ELSE v.screen[c]
  <2>1. r \in Views
    BY <1>2, <1>4, DrawnView
  <2>2. r.cache = v.cache
    BY <1>2, <1>4, DrawnView
  <2>3. TrailsAreKnown(r, d)
    BY <1>2, <1>4, <1>6, DrawnView
  <2>4. \A c \in Cells : r.screen[c] = IF c \in area THEN Visible(S, w, c)
                                                           ELSE v.screen[c]
    BY <1>2, <1>4, DrawnView
  <2> QED BY <2>1, <2>2, <2>3, <2>4
<1>8. TrailsAreKnown(r, NoDrag)
  BY <1>7 DEF TrailsAreKnown
<1> QED BY <1>2, <1>5, <1>7, <1>8 DEF area

LEMMA NoDragIsSound ==
    /\ \A w : DragIsSound(NoDrag, w)
    /\ NoDrag.handle = NoWindow /\ ~NoDrag.cached /\ Outline(NoDrag.rect) = {}
BY RectanglesKeepTheirArea DEF DragIsSound, NoDrag, Drags, NoWindow

(* The part of a damage that a paste is to restore.                        *)
LEMMA PasteCoversThePart ==
    ASSUME NEW r, InBitmap(r), NEW damage, Sized(damage),
           NEW part, part = Intersection(damage, r), Area(part) # {},
           NEW row, row = part.y - r.y, NEW end, end = row + part.h,
           NEW width, width = part.x + part.w - r.x
    PROVE  /\ row \in 0 .. end - 1 /\ end \in Int /\ end <= r.h
           /\ width \in Int /\ width <= r.w
           /\ \A c \in Area(damage) : c \in Area(r) =>
                 c[1] < r.x + width /\ c[2] - r.y \in row .. end - 1
<1>1. Sized(r)
  BY PlacesInTheBitmap
<1>2. Sized(part) /\ Area(part) = Area(damage) \cap Area(r)
  BY <1>1, IntersectionIsBoth
<1>3. PICK c \in Area(part) : TRUE
  OBVIOUS
<1>4. c \in Cells /\ c[1] \in Int /\ c[2] \in Int
  BY CellsAreAPlane, WindowsAssumption
<1>5. part.w > 0 /\ part.h > 0
  BY <1>2, <1>4 DEF Area, Sized
<1>6. /\ part.y >= r.y /\ part.y + part.h <= r.y + r.h
      /\ part.x + part.w <= r.x + r.w
  BY <1>1, <1>5 DEF Intersection, Between, Larger, Smaller, Sized
<1>7. row \in Int /\ end \in Int /\ width \in Int
  BY <1>1, <1>2 DEF Sized
<1>8. /\ row \in 0 .. end - 1 /\ end <= r.h /\ width <= r.w
  BY <1>1, <1>2, <1>5, <1>6 DEF Sized
<1>9. ASSUME NEW e \in Area(damage), e \in Area(r)
      PROVE  e[1] < r.x + width /\ e[2] - r.y \in row .. end - 1
  <2>1. e \in Area(part) /\ e[1] \in Int /\ e[2] \in Int
    BY <1>2, <1>9, CellsAreAPlane, WindowsAssumption
  <2> QED BY <1>1, <1>2, <2>1 DEF Area, Sized
<1> QED BY <1>7, <1>8, <1>9

(* A moved window: its background is repaired, its rows are to be pasted.  *)
LEMMA ImageRepairs ==
    ASSUME NEW v \in Views, NEW n, NEW w, StackIsSound(n, w),
           NEW l, LostAreRetained(l, w), NEW damage, Sized(damage),
           TrailsAreKnown(v, NoDrag), ImageIsSound(v, n, w, NoDrag),
           NEW h \in Active(w),
           \/ v.cache = Empty /\ Area(w[h]) \subseteq Area(damage)
           \/ v.cache.phase = "ready" /\ v.cache.owner = h,
           \A c \in Cells : c \in Area(damage) \/ IsShown(v, w, l, c),
           NEW r, r = ImagePainted(v, w, h, damage)
    PROVE  Sound(r, n, w, NoDrag, l)
<1> DEFINE cd == [NoDrag EXCEPT !.cached = TRUE]
           x == Composed(v, w, cd, damage, h)
           part == Intersection(damage, w[h])
           first == part.y - w[h].y
           k == [x.cache EXCEPT !.phase = "pasting", !.row = first, !.end = first + part.h,
                                !.width = part.x + part.w - w[h].x]
<1>1. r = IF Area(part) = {} THEN x
          ELSE IF x.cache.phase = "ready" /\ x.cache.owner = h THEN [x EXCEPT !.cache = k]
          ELSE Composed(x, w, NoDrag, damage, NoWindow)
  <2>1. r = IF Area(part) = {} THEN x
          ELSE IF x.cache.phase = "ready" /\ x.cache.owner = h
          THEN [x EXCEPT !.cache.phase = "pasting", !.cache.row = first,
                         !.cache.end = first + part.h,
                         !.cache.width = part.x + part.w - w[h].x]
          ELSE Composed(x, w, NoDrag, damage, NoWindow)
    BY DEF ImagePainted
  <2> HIDE DEF x, first, part
  <2> QED BY <2>1
<1>2. h \in Handles /\ InBitmap(w[h]) /\ h # NoWindow /\ h # Erase /\ Sized(w[h])
  BY StackFacts, WindowsAssumption DEF Handles
<1> HIDE DEF x, first, part
<1>3. CASE v.cache = Empty
  <2> DEFINE i == Invalidated(v)
             S == Active(w) \ {h}
             area == Area(damage)
  <2>1. x = Drawn(i, S, w, cd, area)
    BY <1>2, <1>3, PixelFacts DEF x, Composed, Shown
  <2>0. S \in SUBSET Active(w) /\ area \in SUBSET Cells
    BY CellsAreAPlane
  <2>2. /\ i \in Views /\ i.screen = v.screen /\ i.cache = Empty
        /\ TrailsAreKnown(i, cd)
    <3>1. cd.rect = NoDrag.rect
      BY DEF NoDrag
    <3> QED BY <3>1, InvalidatedView DEF TrailsAreKnown
  <2> HIDE DEF i, cd, S, area
  <2>3. /\ x \in Views /\ x.cache = Empty /\ TrailsAreKnown(x, cd)
        /\ \A c \in Cells : x.screen[c] = IF c \in area THEN Visible(S, w, c)
                                                        ELSE i.screen[c]
    BY <2>0, <2>1, <2>2, DrawnView
  <2>4. TrailsAreKnown(x, NoDrag)
    <3>1. cd.rect = NoDrag.rect
      BY DEF NoDrag, cd
    <3> QED BY <2>3, <3>1 DEF TrailsAreKnown
  <2>5. Area(part) # {}
    <3>1. <<0, 0>> \in Cells
      BY CellsAreAPlane, WindowsAssumption
    <3>2. <<w[h].x + 0, w[h].y + 0>> \in Area(w[h])
      BY <1>2, <3>1, PlacesInTheBitmap DEF InBitmap
    <3>3. Area(part) = Area(damage) \cap Area(w[h])
      BY <1>2, IntersectionIsBoth DEF part
    <3>4. Area(w[h]) \subseteq Area(damage)
      BY <1>3, PixelFacts
    <3> QED BY <3>2, <3>3, <3>4
  <2>6. r = Composed(x, w, NoDrag, damage, NoWindow)
    BY <1>1, <2>3, <2>5, PixelFacts
  <2>7. \A c \in Cells : c \in Area(damage) \/ IsShown(x, w, l, c)
    BY <2>2, <2>3 DEF IsShown, area
  <2> QED BY <2>3, <2>4, <2>6, <2>7, ComposedRepairs, NoDragIsSound
<1>4. CASE v.cache.phase = "ready" /\ v.cache.owner = h
  <2>1. /\ x \in Views /\ x.cache = v.cache /\ TrailsAreKnown(x, NoDrag)
        /\ \A c \in Cells \ Area(damage) : x.screen[c] = v.screen[c]
        /\ \A c \in Area(damage) \ Area(w[h]) : x.screen[c] = Visible(Active(w), w, c)
    <3>1. cd.cached /\ cd.rect = NoDrag.rect
      BY DEF NoDrag
    <3> HIDE DEF cd
    <3> QED BY <1>4, <3>1, ComposedAround DEF x
  <2>2. \A c \in Cells : c \in Area(damage) \cap Area(w[h]) \/ IsShown(x, w, l, c)
    BY <2>1 DEF IsShown
  <2>3. /\ w[h].z = n /\ ~w[h].retained
        /\ \A c \in Cells : c[1] < w[h].w /\ c[2] < w[h].h => v.cache.image[c] = <<h, c[1], c[2]>>
    BY <1>4, PixelFacts DEF ImageIsSound
  <2>4. CASE Area(part) = {}
    <3>1. r = x
      BY <1>1, <2>4
    <3>2. Area(damage) \cap Area(w[h]) = {}
      BY <1>2, <2>4, IntersectionIsBoth DEF part
    <3>3. ScreenIsSound(x, w, NoDrag, l)
      BY <2>2, <3>2 DEF ScreenIsSound
    <3>4. ImageIsSound(x, n, w, NoDrag)
      BY <2>1 DEF ImageIsSound
    <3> QED BY <2>1, <3>1, <3>3, <3>4, NoDragIsSound DEF Sound
  <2>5. CASE Area(part) # {}
    <3>1. r = [x EXCEPT !.cache = k]
      BY <1>1, <1>4, <2>1, <2>5
    <3> DEFINE end == first + part.h
               width == part.x + part.w - w[h].x
    <3>2. /\ first \in 0 .. end - 1 /\ end \in Int /\ end <= w[h].h
          /\ width \in Int /\ width <= w[h].w
          /\ \A c \in Area(damage) : c \in Area(w[h]) =>
                c[1] < w[h].x + width /\ c[2] - w[h].y \in first .. end - 1
      BY <1>2, <2>5, PasteCoversThePart DEF part, first
    <3>3. k = [x.cache EXCEPT !.phase = "pasting", !.row = first, !.end = end,
                              !.width = width]
      OBVIOUS
    <3> HIDE DEF end, width, k
    <3>4. first \in Int
      BY <3>2
    <3>5. /\ k \in Images /\ k.phase = "pasting" /\ k.row = first /\ k.end = end
          /\ k.width = width /\ k.image = v.cache.image /\ k.owner = h
      BY <1>4, <2>1, <3>2, <3>3, <3>4, ViewFields DEF Images
    <3>6. /\ r \in Views /\ r.cache = k /\ r.screen = x.screen
          /\ r.inverted = x.inverted /\ r.smeared = x.smeared
      BY <2>1, <3>1, <3>5 DEF Views
    <3>7. TrailsAreKnown(r, NoDrag)
      BY <2>1, <3>6 DEF TrailsAreKnown
    <3>8. ImageIsSound(r, n, w, NoDrag)
      BY <2>3, <3>2, <3>5, <3>6, NoDragIsSound DEF ImageIsSound
    <3>9. ScreenIsSound(r, w, NoDrag, l)
      <4> SUFFICES ASSUME NEW c \in Cells
                   PROVE  Repairing(r, w, NoDrag, c) \/ IsShown(r, w, l, c)
        BY DEF ScreenIsSound
      <4>1. CASE c \in Area(damage) \cap Area(w[h])
        BY <3>2, <3>5, <3>6, <4>1 DEF Repairing
      <4>2. CASE IsShown(x, w, l, c)
        BY <3>6, <4>2 DEF IsShown
      <4> QED BY <2>2, <4>1, <4>2
    <3> QED BY <3>6, <3>7, <3>8, <3>9, NoDragIsSound DEF Sound
  <2> QED BY <2>4, <2>5
<1> QED BY <1>3, <1>4

-----------------------------------------------------------------------------
(* The top of the stack.                                                   *)

LEMMA TopIsHighest ==
    ASSUME NEW n, NEW w, StackIsSound(n, w), NEW h \in Active(w)
    PROVE  h = Top(n, w) <=> w[h].z = n
<1>1. w[h].z \in 1 .. n /\ n \in Nat
  BY StackFacts
<1>2. \E g \in Handles : w[g].z = n
  BY <1>1 DEF StackIsSound
<1>3. /\ Top(n, w) \in Handles
      /\ w[Top(n, w)].z = n
  BY <1>1, <1>2 DEF Top
<1>4. Top(n, w) \in Active(w)
  BY <1>1, <1>3 DEF Active
<1> QED BY <1>3, <1>4, StackFacts

LEMMA TopWindowIsShown ==
    ASSUME NEW n, NEW w, StackIsSound(n, w), NEW h \in Active(w), w[h].z = n,
           NEW c \in Area(w[h])
    PROVE  /\ TopAt(w, c) = h
           /\ Visible(Active(w), w, c) = Pixel(w, h, c)
<1>1. IsTop(h, Active(w), w, c)
  BY StackFacts DEF IsTop
<1>2. TopAt(w, c) = h /\ TopOf(Active(w), w, c) = h
  BY <1>1, TopOfIsTop DEF TopAt
<1>3. h # NoWindow
  BY StackFacts
<1> QED BY <1>2, <1>3 DEF Visible

LEMMA TopAtFacts ==
    ASSUME NEW n, NEW w, StackIsSound(n, w), NEW c \in Cells
    PROVE  /\ TopAt(w, c) # NoWindow =>
                 /\ TopAt(w, c) \in Active(w) /\ c \in Area(w[TopAt(w, c)])
                 /\ Visible(Active(w), w, c) = Pixel(w, TopAt(w, c), c)
           /\ Visible(Active(w), w, c) \in Pixels
           /\ Visible(Active(w), w, c)[1] = TopAt(w, c)
BY VisibleFacts DEF TopAt

-----------------------------------------------------------------------------
(* Contents that change.                                                   *)

LEMMA SpoiledIsShown ==
    ASSUME NEW v \in Views, NEW n, NEW w, StackIsSound(n, w), NEW h \in Handles,
           NEW row \in Int, NEW r, r = Spoiled(v, h, row),
           NEW l, NEW c \in Cells, IsShown(v, w, l, c)
    PROVE  /\ TopAt(w, c) # h => \A m : l \ {h} \subseteq m => IsShown(r, w, m, c)
           /\ \A m : l \cup {h} \subseteq m => IsShown(r, w, m, c)
<1> DEFINE t == TopAt(w, c)
           s == Visible(Active(w), w, c)
<1>1. s[1] = t
  BY TopAtFacts
<1>2. /\ \/ r.screen[c] = v.screen[c]
         \/ r.screen[c] = Stale /\ v.screen[c][1] = h
      /\ h # 0 /\ Stale[1] = 0
  BY SpoiledView, PixelFacts DEF Handles
<1>3. v.screen[c] = s \/ (v.screen[c] = Stale /\ t \in l)
  BY DEF IsShown
<1> HIDE DEF s, t
<1>4. t # h => r.screen[c] = v.screen[c]
  BY <1>1, <1>2, <1>3
<1>5. r.screen[c] = s \/ (r.screen[c] = Stale /\ t \in l \cup {h})
  BY <1>1, <1>2, <1>3
<1> QED BY <1>3, <1>4, <1>5 DEF IsShown, s, t

LEMMA SpoiledImage ==
    ASSUME NEW v \in Views, NEW n, NEW w, NEW d, ImageIsSound(v, n, w, d),
           NEW h \in Handles, NEW row \in Int, NEW r, r = Spoiled(v, h, row),
           v.cache # Empty => v.cache.owner # h
    PROVE  ImageIsSound(r, n, w, d)
<1>1. /\ r.cache.phase = v.cache.phase /\ r.cache.owner = v.cache.owner
      /\ r.cache.row = v.cache.row /\ r.cache.end = v.cache.end
      /\ r.cache.width = v.cache.width
      /\ v.cache = Empty => r.cache = Empty
      /\ \A c \in Cells : v.cache.image[c][1] # h => r.cache.image[c] = v.cache.image[c]
  BY SpoiledView
<1>2. CASE v.cache = Empty
  BY <1>1, <1>2 DEF ImageIsSound
<1>3. CASE v.cache # Empty
  <2> DEFINE u == w[v.cache.owner]
             rows == IF v.cache.phase = "capturing" THEN v.cache.row ELSE u.h
  <2>1. \A c \in Cells : c[1] < u.w /\ c[2] < rows
                         => v.cache.image[c] = <<v.cache.owner, c[1], c[2]>>
    BY <1>3 DEF ImageIsSound
  <2>2. \A c \in Cells : c[1] < u.w /\ c[2] < rows
                         => r.cache.image[c] = <<v.cache.owner, c[1], c[2]>>
    BY <1>1, <1>3, <2>1
  <2> QED BY <1>1, <1>3, <2>2 DEF ImageIsSound
<1> QED BY <1>2, <1>3

LEMMA IdleIsNoDrag ==
    ASSUME NEW d, NEW w, NEW n, StackIsSound(n, w), DragIsSound(d, w), d.handle = NoWindow
    PROVE  d = NoDrag
BY StackFacts DEF DragIsSound

LEMMA SpoiledScreen ==
    ASSUME NEW v \in Views, NEW n, NEW w, StackIsSound(n, w), NEW d, NEW l,
           ScreenIsSound(v, w, d, l), NEW h \in Handles, NEW row \in Int
    PROVE  ScreenIsSound(Spoiled(v, h, row), w, d, l \cup {h})
<1> DEFINE r == Spoiled(v, h, row)
<1>1. /\ r.cache.phase = v.cache.phase /\ r.cache.owner = v.cache.owner
      /\ r.cache.row = v.cache.row /\ r.cache.end = v.cache.end
      /\ r.cache.width = v.cache.width
  BY SpoiledView
<1>2. \A c \in Cells : IsShown(v, w, l, c) => IsShown(r, w, l \cup {h}, c)
  BY SpoiledIsShown
<1> HIDE DEF r
<1>3. \A c \in Cells : Repairing(v, w, d, c) => Repairing(r, w, d, c)
  BY <1>1 DEF Repairing
<1> QED BY <1>2, <1>3 DEF ScreenIsSound, r

(* PRESENT and PATHS while the manager is busy.                            *)
LEMMA PresentedIsSound ==
    ASSUME NEW v, NEW n, NEW w, NEW d, NEW l, Sound(v, n, w, d, l),
           NEW h \in Active(w), w[h].retained
    PROVE  Sound(Spoiled(v, h, 1), n, w, d, l \cup {h})
<1> DEFINE r == Spoiled(v, h, 1)
<1>1. /\ v \in Views /\ StackIsSound(n, w) /\ DragIsSound(d, w) /\ LostAreRetained(l, w)
      /\ ImageIsSound(v, n, w, d) /\ ScreenIsSound(v, w, d, l) /\ TrailsAreKnown(v, d)
  BY DEF Sound
<1>2. h \in Handles
  BY <1>1, StackFacts
<1>3. v.cache # Empty => v.cache.owner # h
  BY <1>1 DEF ImageIsSound
<1>4. r \in Views /\ r.inverted = v.inverted /\ r.smeared = v.smeared
  BY <1>1, <1>2, SpoiledView
<1>5. ImageIsSound(r, n, w, d)
  BY <1>1, <1>2, <1>3, SpoiledImage
<1>6. ScreenIsSound(r, w, d, l \cup {h})
  BY <1>1, <1>2, SpoiledScreen
<1> HIDE DEF r
<1>7. TrailsAreKnown(r, d)
  BY <1>1, <1>4 DEF TrailsAreKnown
<1>8. LostAreRetained(l \cup {h}, w)
  BY <1>1 DEF LostAreRetained
<1> QED BY <1>1, <1>4, <1>5, <1>6, <1>7, <1>8 DEF Sound, r

(* A window drawn by its program, on top of a manager with nothing to do.  *)
LEMMA PaintedIsSound ==
    ASSUME NEW v, NEW l, Sound(v, activeCount, window, NoDrag, l),
           v.cache.phase # "pasting",
           NEW h \in Active(window), window[h].z = activeCount, h \notin l
    PROVE  Sound(Painted(v, h), activeCount, window, NoDrag, l)
<1> DEFINE n == activeCount
           w == window
           x == Invalidated(v)
           y == Spoiled(x, h, 1)
           s == [c \in Cells |-> IF c \in Client(w[h]) THEN Pixel(w, h, c) ELSE y.screen[c]]
           r == [y EXCEPT !.screen = s]
<1>1. /\ v \in Views /\ StackIsSound(n, w) /\ LostAreRetained(l, w)
      /\ ScreenIsSound(v, w, NoDrag, l) /\ TrailsAreKnown(v, NoDrag)
  BY DEF Sound
<1>2. Painted(v, h) = r
  BY DEF Painted
<1>3. h \in Handles
  BY <1>1, StackFacts
<1>4. /\ x \in Views /\ x.screen = v.screen /\ x.inverted = v.inverted
      /\ x.smeared = v.smeared /\ x.cache = Empty
  BY <1>1, InvalidatedView
<1>5. /\ y \in Views /\ y.inverted = v.inverted /\ y.smeared = v.smeared
      /\ y.cache = Empty
      /\ \A c \in Cells : x.screen[c][3] < 1 => y.screen[c] = x.screen[c]
  <2> HIDE DEF x
  <2>1. y \in Views
    BY <1>3, <1>4, SpoiledView
  <2>2. y.inverted = x.inverted /\ y.smeared = x.smeared
    BY <1>3, <1>4, SpoiledView
  <2>3. y.cache = Empty
    BY <1>3, <1>4, SpoiledView
  <2>4. \A c \in Cells : x.screen[c][3] < 1 => y.screen[c] = x.screen[c]
    BY <1>3, <1>4, SpoiledView
  <2> QED BY <1>4, <2>1, <2>2, <2>3, <2>4
<1>6. \A c \in Cells : IsShown(v, w, l, c)
  BY <1>1, NoDragIsSound DEF ScreenIsSound, Repairing
<1>7. \A c \in Cells : IsShown(x, w, l, c)
  BY <1>4, <1>6 DEF IsShown
<1>8. \A c \in Cells : TopAt(w, c) # h => IsShown(y, w, l, c)
  BY <1>1, <1>3, <1>4, <1>7, SpoiledIsShown
<1>9. \A c \in Client(w[h]) : /\ c \in Cells /\ c \in Area(w[h])
                              /\ Visible(Active(w), w, c) = Pixel(w, h, c)
                              /\ Pixel(w, h, c) \in Pixels
  BY <1>1, CellsAreAPlane, TopWindowIsShown, TopAtFacts
<1> HIDE DEF x, y
<1>10. s \in [Cells -> Pixels]
  BY <1>5, <1>9, ViewFields
<1> HIDE DEF s
<1>11. /\ r \in Views /\ r.screen = s /\ r.inverted = v.inverted
       /\ r.smeared = v.smeared /\ r.cache = Empty
  BY <1>5, <1>10 DEF Views
<1>12. ASSUME NEW c \in Cells
       PROVE  IsShown(r, w, l, c)
  <2>1. CASE c \in Client(w[h])
    BY <1>9, <1>11, <2>1 DEF IsShown, s
  <2>2. CASE c \notin Client(w[h]) /\ TopAt(w, c) # h
    BY <1>8, <1>11, <2>2 DEF IsShown, s
  <2>3. CASE c \notin Client(w[h]) /\ TopAt(w, c) = h
    <3>1. /\ c \in Area(w[h])
          /\ Visible(Active(w), w, c) = Pixel(w, h, c)
      BY <1>1, <1>3, <2>3, StackFacts, TopAtFacts
    <3>2. c[2] \in Int /\ w[h].y \in Int
      BY <1>1, <1>3, StackFacts, CellsAreAPlane, WindowsAssumption
    <3>3. c[2] = w[h].y
      BY <2>3, <3>1, <3>2 DEF Client, Area
    <3>4. x.screen[c] = Pixel(w, h, c)
      BY <1>7, <2>3, <3>1 DEF IsShown
    <3>5. x.screen[c][3] < 1
      BY <3>2, <3>3, <3>4 DEF Pixel
    <3>6. s[c] = Pixel(w, h, c)
      BY <1>5, <2>3, <3>4, <3>5 DEF s
    <3> QED BY <1>11, <3>1, <3>6 DEF IsShown
  <2> QED BY <2>1, <2>2, <2>3
<1>13. ScreenIsSound(r, w, NoDrag, l)
  BY <1>12 DEF ScreenIsSound
<1>14. TrailsAreKnown(r, NoDrag) /\ ImageIsSound(r, n, w, NoDrag)
  BY <1>1, <1>11 DEF TrailsAreKnown, ImageIsSound
<1> QED BY <1>1, <1>2, <1>11, <1>13, <1>14, NoDragIsSound DEF Sound

(* A repaint of a window whose cells alone may be out of date.             *)
LEMMA RepaintedIsSound ==
    ASSUME NEW v \in Views, StackIsSound(activeCount, window),
           NEW h \in Active(window), window[h].retained,
           NEW l, LostAreRetained(l, window), TrailsAreKnown(v, NoDrag),
           ImageIsSound(v, activeCount, window, NoDrag),
           v.cache.phase \in {"empty", "ready"},
           \A c \in Cells : TopAt(window, c) = h \/ IsShown(v, window, l, c)
    PROVE  Sound(Repainted(v, h), activeCount, window, NoDrag, l)
<1> DEFINE n == activeCount
           w == window
           o == v.cache.owner
           q == w[h]
           top == w[o]
           nested == /\ q.x >= top.x
                     /\ q.x + q.w <= top.x + top.w
                     /\ q.y + q.h <= top.y + top.h
           strip == Between(q.x, q.y, q.x + q.w, Smaller(q.y + q.h, top.y))
           cd == [NoDrag EXCEPT !.cached = TRUE]
           r == Repainted(v, h)
<1>1. r = IF v.cache.phase # "ready" \/ h = o THEN Composed(v, w, NoDrag, q, NoWindow)
          ELSE IF ~nested THEN ImagePainted(v, w, o, q)
          ELSE IF Area(strip) = {} THEN v
          ELSE Composed(v, w, cd, strip, o)
  BY DEF Repainted
<1>2. /\ h \in Handles /\ h # NoWindow /\ InBitmap(q) /\ Sized(q)
      /\ \A c \in Cells : TopAt(w, c) = h => c \in Area(q)
  BY StackFacts, TopAtFacts
<1>3. \A c \in Cells : c \in Area(q) \/ IsShown(v, w, l, c)
  BY <1>2
<1>4. v.cache = Empty \/ (v.cache.phase = "ready" /\ o \in Active(w) /\ top.z = n)
  BY DEF ImageIsSound
<1>5. CASE v.cache.phase # "ready" \/ h = o
  <2>1. r = Composed(v, w, NoDrag, q, NoWindow)
    BY <1>1, <1>5
  <2>2. v.cache = Empty \/ o \in Handles
    BY <1>4, StackFacts
  <2> QED BY <1>2, <1>3, <2>1, <2>2, ComposedRepairs, NoDragIsSound
<1>6. CASE v.cache.phase = "ready" /\ h # o /\ ~nested
  <2>1. r = ImagePainted(v, w, o, q)
    BY <1>1, <1>6
  <2>2. o \in Active(w)
    BY <1>4, <1>6, PixelFacts
  <2> QED BY <1>2, <1>3, <1>6, <2>1, <2>2, ImageRepairs
<1>7. CASE v.cache.phase = "ready" /\ h # o /\ nested
  <2>1. o \in Active(w) /\ top.z = n /\ Sized(top)
    BY <1>4, <1>7, PixelFacts, StackFacts
  <2>2. Sized(strip)
    BY <1>2, <2>1 DEF Sized, Between, Larger, Smaller
  <2>3. ASSUME NEW c \in Cells, TopAt(w, c) = h
        PROVE  c \in Area(strip)
    <3>1. c \in Area(q) /\ c[1] \in Int /\ c[2] \in Int
      BY <1>2, <2>3, CellsAreAPlane, WindowsAssumption
    <3>2. c \notin Area(top)
      BY <1>7, <2>1, <2>3, TopWindowIsShown
    <3> QED BY <1>2, <1>7, <2>1, <3>1, <3>2
            DEF Area, Sized, Between, Larger, Smaller
  <2>4. ASSUME NEW c \in Area(strip)
        PROVE  c \notin Area(top)
    <3>1. c \in Cells /\ c[1] \in Int /\ c[2] \in Int
      BY CellsAreAPlane, WindowsAssumption
    <3> QED BY <1>2, <2>1, <2>4, <3>1 DEF Area, Sized, Between, Larger, Smaller
  <2>5. CASE Area(strip) = {}
    <3>1. r = v
      BY <1>1, <1>7, <2>5
    <3>2. ScreenIsSound(v, w, NoDrag, l)
      BY <2>3, <2>5 DEF ScreenIsSound
    <3> QED BY <3>1, <3>2, NoDragIsSound DEF Sound
  <2>6. CASE Area(strip) # {}
    <3>1. r = Composed(v, w, cd, strip, o)
      BY <1>1, <1>7, <2>6
    <3>2. cd.cached /\ cd.rect = NoDrag.rect
      BY DEF NoDrag
    <3> HIDE DEF cd, r
    <3>3. /\ r \in Views /\ r.cache = v.cache /\ TrailsAreKnown(r, NoDrag)
          /\ \A c \in Cells \ Area(strip) : r.screen[c] = v.screen[c]
          /\ \A c \in Area(strip) \ Area(w[o]) : r.screen[c] = Visible(Active(w), w, c)
      BY <2>1, <2>2, <3>1, <3>2, ComposedAround
    <3>4. \A c \in Cells : IsShown(r, w, l, c)
      BY <2>3, <2>4, <3>3 DEF IsShown
    <3>5. ScreenIsSound(r, w, NoDrag, l)
      BY <3>4 DEF ScreenIsSound
    <3>6. ImageIsSound(r, n, w, NoDrag)
      BY <3>3 DEF ImageIsSound
    <3> QED BY <3>3, <3>5, <3>6, NoDragIsSound DEF Sound, r
  <2> QED BY <2>5, <2>6
<1> QED BY <1>5, <1>6, <1>7

-----------------------------------------------------------------------------
(* The rows of a capture and of a paste.                                   *)

LEMMA CapturedRowsAreSound ==
    ASSUME NEW v, NEW n, NEW w, NEW l, Sound(v, n, w, NoDrag, l),
           v.cache.phase = "capturing", NEW rows \in Nat
    PROVE  Sound(RowsCaptured(v, w, rows), n, w, NoDrag, l)
<1> DEFINE k == v.cache
           q == w[k.owner]
           next == Smaller(k.row + rows, q.h)
           i == [c \in Cells |-> IF c[2] \in k.row .. next - 1 /\ c[1] < q.w
                                 THEN v.screen[<<q.x + c[1], q.y + c[2]>>] ELSE k.image[c]]
           p == IF next = q.h THEN "ready" ELSE "capturing"
           m == [k EXCEPT !.image = i, !.row = next, !.phase = p]
           r == RowsCaptured(v, w, rows)
<1>1. /\ v \in Views /\ StackIsSound(n, w) /\ LostAreRetained(l, w)
      /\ ScreenIsSound(v, w, NoDrag, l) /\ TrailsAreKnown(v, NoDrag)
      /\ ImageIsSound(v, n, w, NoDrag)
  BY DEF Sound
<1>2. r = [v EXCEPT !.cache = m]
  <2>1. r = [v EXCEPT !.cache.image = i, !.cache.row = next, !.cache.phase = p]
    BY DEF RowsCaptured
  <2> HIDE DEF i, next, p, r
  <2> QED BY <1>1, <2>1 DEF Views
<1>3. /\ k.owner \in Active(w) /\ q.z = n /\ ~q.retained
      /\ k.row \in 0 .. q.h - 1
      /\ \A c \in Cells : c[1] < q.w /\ c[2] < k.row => k.image[c] = <<k.owner, c[1], c[2]>>
  BY <1>1, PixelFacts DEF ImageIsSound
<1>4. InBitmap(q) /\ q.h \in Nat /\ k.owner \in Handles
  BY <1>1, <1>3, StackFacts
<1>5. next \in Nat /\ next <= q.h /\ k.row <= next
  BY <1>3, <1>4 DEF Smaller
<1>6. ASSUME NEW c \in Cells, c[1] < q.w, c[2] < q.h
      PROVE  v.screen[<<q.x + c[1], q.y + c[2]>>] = <<k.owner, c[1], c[2]>>
  <2> DEFINE e == <<q.x + c[1], q.y + c[2]>>
  <2>1. e \in Area(q) /\ e \in Cells
    BY <1>4, <1>6, PlacesInTheBitmap, CellsAreAPlane
  <2>2. /\ TopAt(w, e) = k.owner
        /\ Visible(Active(w), w, e) = Pixel(w, k.owner, e)
    BY <1>1, <1>3, <2>1, TopWindowIsShown
  <2>3. k.owner \notin l
    BY <1>1, <1>3 DEF LostAreRetained
  <2>4. ~Repairing(v, w, NoDrag, e)
    BY NoDragIsSound DEF Repairing
  <2>5. IsShown(v, w, l, e)
    BY <1>1, <2>1, <2>4 DEF ScreenIsSound
  <2>6. v.screen[e] = Pixel(w, k.owner, e)
    BY <2>2, <2>3, <2>5 DEF IsShown
  <2>7. /\ c[1] \in Int /\ c[2] \in Int /\ q.x \in Int /\ q.y \in Int
    BY <1>4, CellsAreAPlane, WindowsAssumption DEF InBitmap
  <2>8. e[1] - q.x = c[1] /\ e[2] - q.y = c[2]
    BY <2>7
  <2> QED BY <2>6, <2>8 DEF Pixel
<1>7. ASSUME NEW c \in Cells, c[2] \in k.row .. next - 1, c[1] < q.w
      PROVE  v.screen[<<q.x + c[1], q.y + c[2]>>] \in Pixels
  <2>1. c[2] < q.h
    BY <1>3, <1>4, <1>5, <1>7
  <2>2. <<q.x + c[1], q.y + c[2]>> \in Cells
    BY <1>4, <1>7, <2>1, PlacesInTheBitmap, CellsAreAPlane
  <2> QED BY <1>1, <2>2, ViewFields
<1>8. i \in [Cells -> Pixels]
  BY <1>1, <1>7, ViewFields
<1>9. \A c \in Cells : c[1] < q.w /\ c[2] < next => i[c] = <<k.owner, c[1], c[2]>>
  <2> TAKE c \in Cells
  <2> HAVE c[1] < q.w /\ c[2] < next
  <2>1. c[2] \in Int
    BY CellsAreAPlane, WindowsAssumption
  <2>2. CASE c[2] < k.row
    BY <1>3, <2>1, <2>2
  <2>3. CASE ~(c[2] < k.row)
    <3>1. c[2] < q.h /\ c[2] \in k.row .. next - 1
      BY <1>3, <1>4, <1>5, <2>1, <2>3
    <3> QED BY <1>6, <3>1
  <2> QED BY <2>2, <2>3
<1> HIDE DEF i, next, r
<1>10. /\ m \in Images /\ m.image = i /\ m.row = next /\ m.phase = p
       /\ m.owner = k.owner
  <2>1. k \in Images /\ next \in Int
    BY <1>1, <1>5, ViewFields
  <2>2. p \in {"empty", "capturing", "ready", "pasting"}
    OBVIOUS
  <2> HIDE DEF k, p
  <2> QED BY <1>8, <2>1, <2>2 DEF Images
<1> HIDE DEF m
<1>11. /\ r \in Views /\ r.cache = m /\ r.screen = v.screen
       /\ r.inverted = v.inverted /\ r.smeared = v.smeared
  BY <1>1, <1>2, <1>10 DEF Views
<1>12. ScreenIsSound(r, w, NoDrag, l)
  <2>1. \A c \in Cells : ~Repairing(v, w, NoDrag, c)
    BY NoDragIsSound DEF Repairing
  <2> QED BY <1>1, <1>11, <2>1 DEF ScreenIsSound, IsShown
<1>13. TrailsAreKnown(r, NoDrag)
  BY <1>1, <1>11 DEF TrailsAreKnown
<1>14. ImageIsSound(r, n, w, NoDrag)
  <2>1. m.phase = "capturing" => m.row \in 0 .. q.h - 1
    BY <1>4, <1>5, <1>10
  <2>2. m.phase # "capturing" => next = q.h
    BY <1>10
  <2>3. m.phase \in {"capturing", "ready"}
    BY <1>10
  <2> HIDE DEF p
  <2> QED BY <1>3, <1>9, <1>10, <1>11, <2>1, <2>2, <2>3, NoDragIsSound DEF ImageIsSound
<1> QED BY <1>1, <1>11, <1>12, <1>13, <1>14, NoDragIsSound DEF Sound, r

LEMMA PastedRowsAreSound ==
    ASSUME NEW v, NEW n, NEW w, NEW l, Sound(v, n, w, NoDrag, l),
           v.cache.phase = "pasting", NEW rows \in Nat
    PROVE  Sound(RowsPasted(v, w, rows), n, w, NoDrag, l)
<1> DEFINE k == v.cache
           q == w[k.owner]
           next == Smaller(k.row + rows, k.end)
           pasted == {c \in Area(q) : c[2] - q.y \in k.row .. next - 1 /\ c[1] < q.x + k.width}
           s == [c \in Cells |-> IF c \in pasted THEN k.image[<<c[1] - q.x, c[2] - q.y>>]
                                                 ELSE v.screen[c]]
           p == IF next = k.end THEN "ready" ELSE "pasting"
           m == [k EXCEPT !.row = next, !.phase = p]
           j == v.inverted \ pasted
           t == v.smeared \ pasted
           r == RowsPasted(v, w, rows)
<1>1. /\ v \in Views /\ StackIsSound(n, w) /\ LostAreRetained(l, w)
      /\ ScreenIsSound(v, w, NoDrag, l) /\ TrailsAreKnown(v, NoDrag)
      /\ ImageIsSound(v, n, w, NoDrag)
  BY DEF Sound
<1>2. r = [v EXCEPT !.screen = s, !.inverted = j, !.smeared = t, !.cache = m]
  <2>1. r = [v EXCEPT !.screen = s, !.inverted = j, !.smeared = t, !.cache.row = next,
                      !.cache.phase = p]
    BY DEF RowsPasted
  <2> HIDE DEF s, j, t, next, p, r
  <2> QED BY <1>1, <2>1 DEF Views
<1>3. /\ k.owner \in Active(w) /\ q.z = n /\ ~q.retained
      /\ k.row \in 0 .. k.end - 1 /\ k.end <= q.h /\ k.width <= q.w
      /\ \A c \in Cells : c[1] < q.w /\ c[2] < q.h => k.image[c] = <<k.owner, c[1], c[2]>>
  BY <1>1, PixelFacts DEF ImageIsSound
<1>4. InBitmap(q) /\ q.h \in Nat /\ k.owner \in Handles /\ k.end \in Int
  BY <1>1, <1>3, StackFacts, ViewFields
<1>5. next \in Nat /\ next <= k.end /\ k.row <= next
  BY <1>3, <1>4 DEF Smaller
<1>6. ASSUME NEW c \in pasted
      PROVE  /\ c \in Cells /\ c \in Area(q)
             /\ s[c] = Visible(Active(w), w, c) /\ s[c] \in Pixels
  <2> DEFINE e == <<c[1] - q.x, c[2] - q.y>>
  <2>1. c \in Area(q) /\ c \in Cells
    BY CellsAreAPlane
  <2>2. /\ e \in Cells /\ e[1] = c[1] - q.x /\ e[2] = c[2] - q.y
        /\ e[1] < q.w /\ e[2] < q.h
    BY <1>4, <2>1, PlacesInTheBitmap DEF InBitmap
  <2>3. k.image[e] = <<k.owner, c[1] - q.x, c[2] - q.y>>
    BY <1>3, <2>2
  <2>4. Visible(Active(w), w, c) = Pixel(w, k.owner, c)
    BY <1>1, <1>3, <2>1, TopWindowIsShown
  <2>5. s[c] = k.image[e]
    BY <2>1
  <2>6. Visible(Active(w), w, c) \in Pixels
    BY <1>1, <2>1, TopAtFacts
  <2> HIDE DEF s
  <2> QED BY <2>1, <2>3, <2>4, <2>5, <2>6 DEF Pixel
<1>7. \A c \in Cells \ pasted : s[c] = v.screen[c]
  OBVIOUS
<1>8. s \in [Cells -> Pixels]
  <2>1. \A c \in Cells : s[c] \in Pixels
    BY <1>1, <1>6, <1>7, ViewFields
  <2> QED BY <2>1
<1>9. ASSUME NEW c \in Cells, c \notin pasted, Repairing(v, w, NoDrag, c)
      PROVE  /\ next # k.end /\ c \in Area(q) /\ c[1] < q.x + k.width
             /\ c[2] - q.y \in next .. k.end - 1
  <2>1. /\ c \in Area(q) /\ c[1] < q.x + k.width /\ c[2] - q.y \in k.row .. k.end - 1
    BY <1>9, NoDragIsSound DEF Repairing
  <2>2. ~(c[2] - q.y \in k.row .. next - 1)
    BY <1>9, <2>1
  <2> QED BY <1>3, <1>4, <1>5, <2>1, <2>2
<1> HIDE DEF s, next, r, pasted
<1>10. /\ m \in Images /\ m.image = k.image /\ m.row = next /\ m.phase = p
       /\ m.owner = k.owner /\ m.end = k.end /\ m.width = k.width
  <2>1. k \in Images /\ next \in Int
    BY <1>1, <1>5, ViewFields
  <2>2. p \in {"empty", "capturing", "ready", "pasting"}
    OBVIOUS
  <2> HIDE DEF k, p
  <2> QED BY <2>1, <2>2 DEF Images
<1>11. j \subseteq Cells /\ t \subseteq Cells
  BY <1>1, ViewFields
<1> HIDE DEF m, j, t
<1>12. /\ r \in Views /\ r.cache = m /\ r.screen = s
       /\ r.inverted = j /\ r.smeared = t
  BY <1>1, <1>2, <1>8, <1>10, <1>11 DEF Views
<1>13. ScreenIsSound(r, w, NoDrag, l)
  <2> SUFFICES ASSUME NEW c \in Cells
               PROVE  Repairing(r, w, NoDrag, c) \/ IsShown(r, w, l, c)
    BY DEF ScreenIsSound
  <2>1. CASE c \in pasted
    BY <1>6, <1>12, <2>1 DEF IsShown
  <2>2. CASE c \notin pasted /\ Repairing(v, w, NoDrag, c)
    BY <1>9, <1>10, <1>12, <2>2 DEF Repairing
  <2>3. CASE c \notin pasted /\ IsShown(v, w, l, c)
    BY <1>7, <1>12, <2>3 DEF IsShown
  <2> QED BY <1>1, <2>1, <2>2, <2>3 DEF ScreenIsSound
<1>14. TrailsAreKnown(r, NoDrag)
  BY <1>1, <1>12, NoDragIsSound DEF TrailsAreKnown, j, t
<1>15. ImageIsSound(r, n, w, NoDrag)
  <2>1. m.phase = "pasting" => m.row \in 0 .. m.end - 1
    BY <1>4, <1>5, <1>10
  <2>2. m.phase \in {"ready", "pasting"}
    BY <1>10
  <2> HIDE DEF p
  <2> QED BY <1>3, <1>10, <1>12, <2>1, <2>2, NoDragIsSound DEF ImageIsSound
<1> QED BY <1>1, <1>12, <1>13, <1>14, <1>15, NoDragIsSound DEF Sound, r

-----------------------------------------------------------------------------
(* The outline of a drag.                                                  *)

LEMMA FollowedFits ==
    ASSUME NEW d, NEW n, NEW w, StackIsSound(n, w), DragIsSound(d, w), d.handle # NoWindow,
           NEW p \in Cells, NEW e, e = [d EXCEPT !.rect = Followed(d, p)]
    PROVE  /\ DragIsSound(e, w) /\ e.rect = Followed(d, p)
           /\ e.handle = d.handle /\ e.cached = d.cached
<1> DEFINE q == d.rect
           f == Followed(d, p)
<1>1. /\ d \in Drags /\ d.handle \in Active(w) /\ InBitmap(q)
      /\ d.mode \in {"move", "resize"} /\ q \in Rectangles
      /\ d.cached => d.mode = "move"
      /\ d.mode = "move" => q.w = w[d.handle].w /\ q.h = w[d.handle].h
  BY NoDragIsSound DEF DragIsSound, Drags
<1>2. /\ p[1] \in Int /\ p[2] \in Int /\ d.dx \in Int /\ d.dy \in Int
      /\ q.x \in Nat /\ q.y \in Nat /\ q.w \in Nat \ {0} /\ q.h \in Nat \ {0}
      /\ q.x + q.w <= Columns /\ q.y + q.h <= Rows
      /\ Columns \in Nat /\ Rows \in Nat
  BY <1>1, CellsAreAPlane, WindowsAssumption DEF InBitmap, Drags
<1>3. CASE d.mode = "move"
  <2> DEFINE a == Within(0, p[1] - d.dx, Columns - q.w)
             b == Within(0, p[2] - d.dy, Rows - q.h)
  <2>1. f = [q EXCEPT !.x = a, !.y = b]
    BY <1>3 DEF Followed
  <2>2. a \in 0 .. Columns - q.w /\ b \in 0 .. Rows - q.h
    BY <1>2 DEF Within, Larger, Smaller
  <2> HIDE DEF a, b, f
  <2>3. /\ f \in Rectangles /\ f.x = a /\ f.y = b /\ f.w = q.w /\ f.h = q.h
    <3> HIDE DEF q
    <3>1. a \in Int /\ b \in Int
      BY <1>2, <2>2
    <3> QED BY <1>1, <2>1, <3>1 DEF Rectangles
  <2>4. InBitmap(f)
    BY <1>2, <2>2, <2>3 DEF InBitmap
  <2>5. /\ e \in Drags /\ e.rect = f /\ e.handle = d.handle /\ e.mode = d.mode
        /\ e.cached = d.cached
    BY <1>1, <2>3 DEF Drags, f
  <2> QED BY <1>1, <2>3, <2>4, <2>5 DEF DragIsSound, f
<1>4. CASE d.mode = "resize"
  <2> DEFINE a == Smaller(Larger(p[1] - q.x + 1, MinWidth), Columns - q.x)
             b == Smaller(Larger(p[2] - q.y + 1, MinHeight), Rows - q.y)
  <2>1. f = [q EXCEPT !.w = a, !.h = b]
    BY <1>4 DEF Followed
  <2>2. a \in 1 .. Columns - q.x /\ b \in 1 .. Rows - q.y
    BY <1>2, WindowsAssumption DEF Larger, Smaller
  <2> HIDE DEF a, b, f
  <2>3. /\ f \in Rectangles /\ f.x = q.x /\ f.y = q.y /\ f.w = a /\ f.h = b
    <3> HIDE DEF q
    <3>1. a \in Int /\ b \in Int
      BY <1>2, <2>2
    <3> QED BY <1>1, <2>1, <3>1 DEF Rectangles
  <2>4. InBitmap(f)
    BY <1>2, <2>2, <2>3 DEF InBitmap
  <2>5. /\ e \in Drags /\ e.rect = f /\ e.handle = d.handle /\ e.mode = d.mode
        /\ e.cached = d.cached
    BY <1>1, <2>3 DEF Drags, f
  <2> QED BY <1>1, <1>4, <2>4, <2>5 DEF DragIsSound, f
<1> QED BY <1>1, <1>3, <1>4

(* The view when the outline has followed the pointer.                     *)
Outlined(v, d, p) ==
    LET r == Followed(d, p)
    IN  IF r = d.rect THEN v ELSE Toggled(Toggled(v, d.rect), r)

LEMMA FollowIsSound ==
    ASSUME NEW v, NEW n, NEW w, NEW d, NEW l, Sound(v, n, w, d, l), d.handle # NoWindow,
           NEW p \in Cells, NEW e, e = [d EXCEPT !.rect = Followed(d, p)]
    PROVE  Sound(Outlined(v, d, p), n, w, e, l) /\ e.handle = d.handle
<1> DEFINE q == Followed(d, p)
           x == Toggled(v, d.rect)
           y == Toggled(x, q)
           r == Outlined(v, d, p)
<1>1. /\ v \in Views /\ StackIsSound(n, w) /\ LostAreRetained(l, w) /\ DragIsSound(d, w)
      /\ ScreenIsSound(v, w, d, l) /\ TrailsAreKnown(v, d) /\ ImageIsSound(v, n, w, d)
  BY DEF Sound
<1>2. /\ DragIsSound(e, w) /\ e.rect = q /\ e.handle = d.handle /\ e.cached = d.cached
  BY <1>1, FollowedFits
<1>3. r = IF q = d.rect THEN v ELSE y
  BY DEF Outlined
<1> HIDE DEF q, r
<1>4. /\ x \in Views /\ x.screen = v.screen /\ x.cache = v.cache /\ TrailsAreKnown(x, NoDrag)
  BY <1>1, ToggledView, ToggledTrails, NoDragIsSound
<1>5. /\ y \in Views /\ y.screen = x.screen /\ y.cache = x.cache /\ TrailsAreKnown(y, e)
  <2> HIDE DEF x
  <2>1. y \in Views /\ y.screen = x.screen /\ y.cache = x.cache
    BY <1>4, ToggledView
  <2>2. Outline(NoDrag.rect) = {}
    BY NoDragIsSound
  <2>3. x.inverted \subseteq x.smeared
    BY <1>4, <2>2 DEF TrailsAreKnown
  <2>4. /\ y.smeared = x.smeared
        /\ y.inverted = (x.inverted \ Outline(q)) \cup (Outline(q) \ x.inverted)
    BY <1>4, ToggledView
  <2> HIDE DEF y
  <2>5. TrailsAreKnown(y, e)
    BY <1>2, <2>3, <2>4 DEF TrailsAreKnown
  <2> QED BY <2>1, <2>5
<1> HIDE DEF x, y
<1>6. /\ r \in Views /\ r.screen = v.screen /\ r.cache = v.cache /\ TrailsAreKnown(r, e)
  <2>1. CASE q = d.rect
    BY <1>1, <1>2, <1>3, <2>1 DEF TrailsAreKnown
  <2>2. CASE q # d.rect
    BY <1>3, <1>4, <1>5, <2>2
  <2> QED BY <2>1, <2>2
<1>7. ImageIsSound(r, n, w, e)
  BY <1>1, <1>2, <1>6 DEF ImageIsSound
<1>8. ScreenIsSound(r, w, e, l)
  BY <1>1, <1>2, <1>6 DEF ScreenIsSound, Repairing, IsShown
<1> QED BY <1>1, <1>2, <1>6, <1>7, <1>8 DEF Sound, r

(* A window that others pass, or that leaves, is the only one that can be  *)
(* shown otherwise, and only where it was or is.                           *)
LEMMA OthersStayShown ==
    ASSUME NEW n, NEW w, StackIsSound(n, w), NEW m, NEW u, StackIsSound(m, u),
           NEW h \in Handles, OthersStay(w, u, h), NEW v, NEW l,
           NEW c, c \notin Area(w[h]), c \notin Area(u[h])
    PROVE  /\ IsShown(v, w, l, c) => IsShown(v, u, l, c)
           /\ TopAt(u, c) # h
BY OthersAreShown DEF IsShown

(* The press of a button that begins a drag, of the raised window h.       *)
LEMMA BeginDragIsSound ==
    ASSUME NEW v \in Views, NEW n, NEW w, StackIsSound(n, w),
           NEW l, LostAreRetained(l, w), TrailsAreKnown(v, NoDrag),
           NEW h \in Active(w), NEW p \in Cells, NEW mode \in {"move", "resize"},
           NEW cached, cached \in BOOLEAN, cached => mode = "move" /\ v.cache.phase = "ready"
                                                     /\ v.cache.owner = h
                                                     /\ ImageIsSound(v, n, w, NoDrag),
           \A c \in Cells : c \in Area(w[h]) \/ IsShown(v, w, l, c),
           NEW q, q = Rectangle(w[h]),
           NEW d, d = [handle |-> h, mode |-> mode, cached |-> cached, dx |-> p[1] - q.x,
                       dy |-> p[2] - q.y, rect |-> q],
           NEW x, x = Composed(IF cached THEN v ELSE Invalidated(v), w,
                               [d EXCEPT !.rect = Nowhere], q, Erase)
    PROVE  Sound(Toggled(x, q), n, w, d, l)
<1> DEFINE b == [d EXCEPT !.rect = Nowhere]
           y == IF cached THEN v ELSE Invalidated(v)
           area == Area(q)
           S == {}
           r == Toggled(x, q)
<1>1. /\ h \in Handles /\ h # NoWindow /\ h \in Nat /\ InBitmap(w[h])
      /\ q \in Rectangles /\ area = Area(w[h]) /\ area \subseteq Cells
      /\ q.x = w[h].x /\ q.y = w[h].y /\ q.w = w[h].w /\ q.h = w[h].h
  BY StackFacts, CellsAreAPlane, RectanglesKeepTheirArea DEF Handles
<1>2. /\ p[1] - q.x \in Int /\ p[2] - q.y \in Int
  BY <1>1, CellsAreAPlane, WindowsAssumption DEF InBitmap
<1>3. d \in Drags /\ d.handle = h /\ d.rect = q /\ d.mode = mode /\ d.cached = cached
  BY <1>1, <1>2 DEF Drags
<1>4. DragIsSound(d, w)
  <2>1. InBitmap(q)
    BY <1>1 DEF InBitmap
  <2> HIDE DEF area
  <2> QED BY <1>1, <1>3, <2>1 DEF DragIsSound
<1>5. b.rect = Nowhere /\ b.cached = cached
  BY <1>3
<1>6. /\ y \in Views /\ y.screen = v.screen /\ TrailsAreKnown(y, b)
      /\ cached => y = v
      /\ ~cached => y.cache = Empty
  BY <1>5, InvalidatedView, NoDragIsSound, RectanglesKeepTheirArea DEF TrailsAreKnown
<1>7. x = Drawn(y, S, w, b, area)
  <2>1. Shown(w, Erase) = S
    BY DEF Shown
  <2>2. ~b.cached => y.cache.phase # "pasting"
    BY <1>5, <1>6, PixelFacts
  <2>3. ~b.cached => y.cache = Empty /\ Invalidated(y) = y
    BY <1>5, <1>6 DEF Invalidated, Views
  <2> HIDE DEF y, b, area, S
  <2> QED BY <2>1, <2>2, <2>3 DEF Composed, y, b, area
<1> HIDE DEF y, b, area, S, r
<1>8. x \in Views /\ x.cache = y.cache /\ TrailsAreKnown(x, b)
  BY <1>1, <1>6, <1>7, DrawnView DEF S
<1>9. \A c \in Cells \ area : x.screen[c] = y.screen[c]
  BY <1>1, <1>6, <1>7, DrawnView DEF S
<1>10. /\ r \in Views /\ r.screen = x.screen /\ r.cache = x.cache /\ TrailsAreKnown(r, d)
  BY <1>3, <1>5, <1>8, ToggledView, ToggledTrails, RectanglesKeepTheirArea DEF r
<1>11. ScreenIsSound(r, w, d, l)
  BY <1>1, <1>3, <1>6, <1>9, <1>10 DEF ScreenIsSound, Repairing, IsShown
<1>12. ImageIsSound(r, n, w, d)
  <2>1. CASE ~cached
    BY <1>6, <1>8, <1>10, <2>1 DEF ImageIsSound
  <2>2. CASE cached
    <3>1. r.cache = v.cache
      BY <1>6, <1>8, <1>10, <2>2
    <3> QED BY <1>3, <2>2, <3>1, PixelFacts DEF ImageIsSound
  <2> QED BY <2>1, <2>2
<1> QED BY <1>4, <1>10, <1>11, <1>12 DEF Sound, r

-----------------------------------------------------------------------------
(* A change of one window, and the repair that follows it.                 *)

LEMMA NobodyChanges ==
    ASSUME NEW w, NEW h
    PROVE  OthersStay(w, w, h)
BY DEF OthersStay

LEMMA OthersKeepTheirPlace ==
    ASSUME NEW n, NEW w, StackIsSound(n, w), NEW m, NEW u, StackIsSound(m, u),
           NEW h \in Handles, OthersStay(w, u, h)
    PROVE  /\ \A d : DragIsSound(d, w) /\ d.handle # h => DragIsSound(d, u)
           /\ \A l : LostAreRetained(l, w) => LostAreRetained(l \ {h}, u)
           /\ \A k, d, p : ClickIsSound(k, w, d, p) /\ k.handle # h => ClickIsSound(k, u, d, p)
           /\ \A g \in Handles \ {h} : Area(u[g]) = Area(w[g])
           /\ \A g \in Active(w) \ {h} : g \in Active(u)
<1>1. \A g \in Handles \ {h} :
         /\ w[g].z > 0 <=> u[g].z > 0
         /\ u[g].x = w[g].x /\ u[g].y = w[g].y /\ u[g].w = w[g].w /\ u[g].h = w[g].h
         /\ u[g].retained = w[g].retained
  BY DEF OthersStay
<1>2. \A g \in Active(w) \ {h} : g \in Active(u) /\ g \in Handles
  BY <1>1, StackFacts DEF Active
<1>3. \A d : DragIsSound(d, w) /\ d.handle # h => DragIsSound(d, u)
  BY <1>1, <1>2 DEF DragIsSound
<1>4. \A l : LostAreRetained(l, w) => LostAreRetained(l \ {h}, u)
  BY <1>1, <1>2 DEF LostAreRetained
<1>5. \A k, d, p : ClickIsSound(k, w, d, p) /\ k.handle # h => ClickIsSound(k, u, d, p)
  BY <1>1, <1>2 DEF ClickIsSound
<1>6. \A g \in Handles \ {h} : Area(u[g]) = Area(w[g])
  BY <1>1 DEF Area
<1> QED BY <1>2, <1>3, <1>4, <1>5, <1>6

(* Where h is neither seen nor repaired, nothing has changed.              *)
LEMMA OthersStaySound ==
    ASSUME NEW v, NEW n, NEW w, StackIsSound(n, w), NEW m, NEW u, StackIsSound(m, u),
           NEW h \in Handles, OthersStay(w, u, h), NEW e, DragIsSound(e, w),
           NEW l, NEW k, l \ {h} \subseteq k,
           NEW c \in Cells, c \notin Area(w[h]), c \notin Area(u[h]),
           Repairing(v, w, e, c) \/ IsShown(v, w, l, c)
    PROVE  \/ e.handle # h /\ e.handle # NoWindow /\ c \in Area(u[e.handle])
           \/ /\ v.cache.phase = "pasting" /\ v.cache.owner # h
              /\ c \in Area(w[v.cache.owner])
           \/ IsShown(v, u, k, c)
<1>1. CASE IsShown(v, w, l, c)
  <2>1. IsShown(v, u, l, c) /\ TopAt(u, c) # h
    BY <1>1, OthersStayShown
  <2> QED BY <2>1 DEF IsShown
<1>2. CASE e.handle # NoWindow /\ c \in Area(w[e.handle])
  <2>1. e.handle \in Handles
    BY <1>2, StackFacts, NoDragIsSound DEF DragIsSound
  <2> QED BY <1>2, <2>1, OthersKeepTheirPlace
<1>3. CASE /\ v.cache.phase = "pasting"
           /\ c \in Area(w[v.cache.owner])
  BY <1>3
<1> QED BY <1>1, <1>2, <1>3 DEF Repairing

LEMMA ChangedIsSound ==
    ASSUME NEW v \in Views, NEW n, NEW w, StackIsSound(n, w), NEW m, NEW u,
           StackIsSound(m, u), NEW h \in Handles, OthersStay(w, u, h),
           NEW e, DragIsSound(e, w), NEW d, DragIsSound(d, u),
           d.handle = e.handle \/ e.handle = h,
           NEW l, NEW k, l \ {h} \subseteq k, LostAreRetained(k, u),
           TrailsAreKnown(v, d), v.cache = Empty \/ v.cache.owner \in Handles,
           ScreenIsSound(v, w, e, l),
           NEW damage, Sized(damage),
           Area(w[h]) \subseteq Area(damage), Area(u[h]) \subseteq Area(damage)
    PROVE  Sound(Composed(v, u, d, damage, NoWindow), m, u, d, k)
<1>1. ASSUME NEW c \in Cells, c \notin Area(damage)
      PROVE  \/ d.handle # NoWindow /\ c \in Area(u[d.handle])
             \/ /\ v.cache.phase = "pasting" /\ v.cache.owner \in Active(u)
                /\ c \in Area(u[v.cache.owner])
             \/ IsShown(v, u, k, c)
  <2>1. c \notin Area(w[h]) /\ c \notin Area(u[h])
    BY <1>1
  <2>2. Repairing(v, w, e, c) \/ IsShown(v, w, l, c)
    BY DEF ScreenIsSound
  <2>3. \/ e.handle # h /\ e.handle # NoWindow /\ c \in Area(u[e.handle])
        \/ /\ v.cache.phase = "pasting" /\ v.cache.owner # h
           /\ c \in Area(w[v.cache.owner])
        \/ IsShown(v, u, k, c)
    BY <2>1, <2>2, OthersStaySound
  <2>4. ASSUME /\ v.cache.phase = "pasting" /\ v.cache.owner # h
               /\ c \in Area(w[v.cache.owner])
        PROVE  v.cache.owner \in Active(u) /\ c \in Area(u[v.cache.owner])
    <3>1. v.cache.owner \in Handles
      BY <2>4, PixelFacts
    <3>2. v.cache.owner \in Active(w)
      BY <2>4, <3>1, StackFacts
    <3> QED BY <2>4, <3>1, <3>2, OthersKeepTheirPlace
  <2> QED BY <2>3, <2>4
<1>2. \A c \in Cells :
         \/ c \in Area(damage)
         \/ d.handle # NoWindow /\ c \in Area(u[d.handle])
         \/ /\ v.cache.phase = "pasting" /\ v.cache.owner \in Active(u)
            /\ c \in Area(u[v.cache.owner])
         \/ IsShown(v, u, k, c)
  BY <1>1
<1> QED BY <1>2, ComposedRepairs

-----------------------------------------------------------------------------
(* The actions.                                                            *)

LEMMA ShownIsTheView ==
    ASSUME NEW v, v \in Views, Show(v), NEW n, NEW w, NEW d, NEW l, Sound(v, n, w, d, l),
           n = activeCount', w = window', d = drag', l = lost',
           ClickIsSound(click', w, d, pressed')
    PROVE  WindowsInv'
<1>1. View' = v
  BY DEF Show, View, Views
<1>2. Sound(View', activeCount', window', drag', lost')
  BY <1>1
<1>3. Sound(View, activeCount, window, drag, lost)'
  BY <1>2
<1> QED BY <1>3 DEF WindowsInv

LEMMA InvFacts ==
    ASSUME WindowsInv
    PROVE  /\ Sound(View, activeCount, window, drag, lost)
           /\ View \in Views /\ View.cache = cache /\ View.screen = screen
           /\ StackIsSound(activeCount, window) /\ DragIsSound(drag, window)
           /\ LostAreRetained(lost, window) /\ ImageIsSound(View, activeCount, window, drag)
           /\ ScreenIsSound(View, window, drag, lost) /\ TrailsAreKnown(View, drag)
           /\ cache = Empty \/ cache.owner \in Handles
           /\ drag.handle = NoWindow => drag = NoDrag
           /\ ClickIsSound(click, window, drag, pressed)
           /\ drag.handle # NoWindow => cache.phase \in {"empty", "ready"}
<1>1. Sound(View, activeCount, window, drag, lost)
  BY DEF WindowsInv
<1>2. /\ View \in Views
      /\ StackIsSound(activeCount, window) /\ DragIsSound(drag, window)
      /\ LostAreRetained(lost, window) /\ ImageIsSound(View, activeCount, window, drag)
      /\ ScreenIsSound(View, window, drag, lost) /\ TrailsAreKnown(View, drag)
  BY <1>1 DEF Sound
<1>3. View.cache = cache /\ View.screen = screen
  BY DEF View
<1>4. cache = Empty \/ cache.owner \in Handles
  BY <1>2, <1>3, StackFacts DEF ImageIsSound
<1>5. drag.handle = NoWindow => drag = NoDrag
  BY <1>2, IdleIsNoDrag
<1>6. drag.handle # NoWindow => cache.phase \in {"empty", "ready"}
  BY <1>2, <1>3, PixelFacts DEF ImageIsSound
<1> QED BY <1>1, <1>2, <1>3, <1>4, <1>5, <1>6 DEF WindowsInv

LEMMA NoClickIsSound ==
    ASSUME NEW w, NEW d, NEW p, d.handle # NoWindow => p
    PROVE  ClickIsSound(NoClick, w, d, p)
BY DEF ClickIsSound, NoClick, NoWindow

LEMMA InitIsSound == Init => WindowsInv
<1> SUFFICES ASSUME Init PROVE WindowsInv
  OBVIOUS
<1> USE DEF Init
<1>1. View \in Views
  BY PixelFacts DEF View, Views
<1>2. StackIsSound(activeCount, window)
  BY DEF StackIsSound, Slots, Unused
<1>3. LostAreRetained(lost, window)
  BY DEF LostAreRetained
<1>4. ImageIsSound(View, activeCount, window, drag) /\ TrailsAreKnown(View, drag)
  BY NoDragIsSound DEF ImageIsSound, TrailsAreKnown, View
<1>5. ScreenIsSound(View, window, drag, lost)
  <2> SUFFICES ASSUME NEW c \in Cells PROVE IsShown(View, window, lost, c)
    BY DEF ScreenIsSound
  <2>1. Active(window) = {}
    BY DEF Active, Unused
  <2>2. Visible(Active(window), window, c) = Background
    BY <2>1 DEF Visible, TopOf
  <2> QED BY <2>2 DEF IsShown, View
<1>6. DragIsSound(drag, window)
  BY NoDragIsSound
<1>7. ClickIsSound(click, window, drag, pressed)
  BY NoClickIsSound, NoDragIsSound
<1> QED BY <1>1, <1>2, <1>3, <1>4, <1>5, <1>6, <1>7 DEF WindowsInv, Sound

LEMMA CreateIsSound ==
    ASSUME WindowsInv, NEW r \in Placements, r.x + r.w <= Columns, r.y + r.h <= Rows,
           Create(r)
    PROVE  WindowsInv'
<1> DEFINE n == activeCount
           u == window'
           q == [r EXCEPT !.z = n + 1]
           v == Composed(View, u, drag, r, NoWindow)
<1>1. /\ View \in Views /\ View.cache = cache
      /\ StackIsSound(n, window) /\ DragIsSound(drag, window)
      /\ LostAreRetained(lost, window) /\ ScreenIsSound(View, window, drag, lost)
      /\ TrailsAreKnown(View, drag) /\ (cache = Empty \/ cache.owner \in Handles)
      /\ ClickIsSound(click, window, drag, pressed)
  BY InvFacts
<1>2. /\ r \in Slots /\ Sized(r)
      /\ q \in Slots /\ InBitmap(q) /\ q.z = n + 1 /\ Area(q) = Area(r)
  <2>1. PICK c \in Cells, s \in Shapes, b \in BOOLEAN :
           r = [x |-> c[1], y |-> c[2], w |-> s[1], h |-> s[2], z |-> 0, retained |-> b]
    BY DEF Placements
  <2>2. c[1] \in Nat /\ c[2] \in Nat
    BY CellsAreAPlane, WindowsAssumption
  <2>3. s[1] \in Nat \ {0} /\ s[2] \in Nat \ {0}
    BY WindowsAssumption
  <2>4. r \in Slots /\ Sized(r)
    BY <2>1, <2>2, <2>3 DEF Slots, Sized
  <2>5. n + 1 \in Nat
    BY <1>1, StackFacts
  <2>6. /\ q \in Slots /\ q.z = n + 1
        /\ q.x = r.x /\ q.y = r.y /\ q.w = r.w /\ q.h = r.h
    BY <2>4, <2>5 DEF Slots
  <2>7. InBitmap(q)
    BY <2>1, <2>2, <2>3, <2>6 DEF InBitmap
  <2> HIDE DEF q
  <2> QED BY <2>4, <2>6, <2>7 DEF Area
<1>3. PICK h \in Handles \ Active(window) : u = [window EXCEPT ![h] = q]
  BY DEF Create
<1>4. /\ StackIsSound(n + 1, u) /\ OthersStay(window, u, h)
      /\ Active(u) = Active(window) \cup {h} /\ Area(u[h]) = Area(r)
  <2>1. /\ u \in [Handles -> Slots] /\ u[h] = q
        /\ \A g \in Handles \ {h} : u[g] = window[g]
    <3> HIDE DEF u, q
    <3> QED BY <1>1, <1>2, <1>3 DEF StackIsSound
  <2> HIDE DEF u, q
  <2> QED BY <1>1, <1>2, <2>1, CreatedStack
<1>5. /\ activeCount' = n + 1 /\ Show(v) /\ drag' = drag /\ lost' = lost
      /\ click' = click /\ pressed' = pressed
  BY DEF Create
<1> HIDE DEF u, q, v
<1>6. /\ h \in Handles /\ h # NoWindow
      /\ Area(window[h]) = {} /\ h \notin lost
  BY <1>1, StackFacts DEF LostAreRetained
<1>7. drag.handle # h
  BY <1>1, <1>3, <1>6, NoDragIsSound DEF DragIsSound
<1>8. DragIsSound(drag, u) /\ LostAreRetained(lost \ {h}, u)
  BY <1>1, <1>4, <1>6, <1>7, OthersKeepTheirPlace
<1>9. LostAreRetained(lost, u)
  <2>1. lost \ {h} = lost
    BY <1>6
  <2> QED BY <1>8, <2>1
<1>10. Sound(v, n + 1, u, drag, lost)
  <2>1. Area(window[h]) \subseteq Area(r) /\ Area(u[h]) \subseteq Area(r)
    BY <1>4, <1>6
  <2>2. lost \ {h} \subseteq lost
    OBVIOUS
  <2> QED BY <1>1, <1>2, <1>4, <1>6, <1>8, <1>9, <2>1, <2>2, ChangedIsSound DEF v
<1>11. click.handle # h
  BY <1>1, <1>3, <1>6 DEF ClickIsSound
<1>12. ClickIsSound(click, u, drag, pressed)
  BY <1>1, <1>4, <1>6, <1>11, OthersKeepTheirPlace
<1>13. v \in Views
  BY <1>10 DEF Sound
<1> QED BY <1>5, <1>10, <1>12, <1>13, ShownIsTheView DEF u

LEMMA ClosedIsSound ==
    ASSUME NEW v, Sound(v, activeCount, window, drag, lost),
           NEW w, StackIsSound(activeCount, w), NEW h \in Active(w),
           OthersStay(window, w, h), Area(w[h]) = Area(window[h]),
           Closed(v, w, h), drag.handle # NoWindow /\ drag.handle # h => pressed'
    PROVE  WindowsInv'
<1> DEFINE n == activeCount
           rest == Removed(w, h)
           dragged == drag.handle = h
           d == IF dragged THEN NoDrag ELSE drag
           bare == IF dragged THEN Toggled(v, drag.rect) ELSE v
           y == Spoiled(bare, h, 0)
           x == Composed(y, rest, d, w[h], NoWindow)
           k == lost \ {h}
           l == lost \cup {h}
<1>1. /\ v \in Views /\ StackIsSound(n, window) /\ DragIsSound(drag, window)
      /\ LostAreRetained(lost, window) /\ ImageIsSound(v, n, window, drag)
      /\ ScreenIsSound(v, window, drag, lost) /\ TrailsAreKnown(v, drag)
  BY DEF Sound
<1>2. /\ window' = rest /\ activeCount' = n - 1 /\ drag' = d /\ lost' = k
      /\ click' = NoClick /\ Show(x)
  BY DEF Closed, Refocused
<1>3. /\ StackIsSound(n - 1, rest) /\ OthersStay(w, rest, h) /\ Area(rest[h]) = {}
  BY RemovedStack
<1>4. h \in Handles /\ Sized(w[h]) /\ 0 \in Int
  BY StackFacts
<1> HIDE DEF rest
<1>5. OthersStay(window, rest, h)
  BY <1>3 DEF OthersStay
<1>6. /\ bare \in Views /\ bare.screen = v.screen /\ bare.cache = v.cache
      /\ TrailsAreKnown(bare, d)
  <2>1. CASE dragged
    BY <1>1, <2>1, ToggledView, ToggledTrails, NoDragIsSound
  <2>2. CASE ~dragged
    BY <1>1, <2>2
  <2> QED BY <2>1, <2>2
<1>7. DragIsSound(d, rest)
  BY <1>1, <1>3, <1>4, <1>5, OthersKeepTheirPlace, NoDragIsSound
<1>8. LostAreRetained(k, rest)
  BY <1>1, <1>3, <1>4, <1>5, OthersKeepTheirPlace
<1> HIDE DEF bare
<1>9. ScreenIsSound(bare, window, drag, lost)
  BY <1>1, <1>6 DEF ScreenIsSound, Repairing, IsShown
<1>10. ScreenIsSound(y, window, drag, l)
  BY <1>1, <1>4, <1>6, <1>9, SpoiledScreen
<1>11. /\ y \in Views /\ y.inverted = bare.inverted /\ y.smeared = bare.smeared
       /\ y.cache.owner = bare.cache.owner
       /\ bare.cache = Empty => y.cache = Empty
  BY <1>4, <1>6, SpoiledView
<1> HIDE DEF y
<1>12. TrailsAreKnown(y, d)
  BY <1>6, <1>11 DEF TrailsAreKnown
<1>13. y.cache = Empty \/ y.cache.owner \in Handles
  BY <1>1, <1>6, <1>11, StackFacts DEF ImageIsSound
<1>14. d.handle = drag.handle \/ drag.handle = h
  OBVIOUS
<1> HIDE DEF d
<1>15. Sound(x, n - 1, rest, d, k)
  <2>1. l \ {h} \subseteq k
    OBVIOUS
  <2>2. /\ Area(window[h]) \subseteq Area(w[h])
        /\ Area(rest[h]) \subseteq Area(w[h])
    BY <1>3
  <2> HIDE DEF k, l
  <2> QED BY <1>1, <1>3, <1>4, <1>5, <1>7, <1>8, <1>10, <1>11, <1>12, <1>13, <1>14,
             <2>1, <2>2, ChangedIsSound
<1>16. ClickIsSound(NoClick, rest, d, pressed')
  <2>1. d.handle # NoWindow => pressed'
    BY NoDragIsSound DEF d
  <2> QED BY <2>1, NoClickIsSound
<1>17. x \in Views
  BY <1>15 DEF Sound
<1> HIDE DEF k, x
<1> QED BY <1>2, <1>15, <1>16, <1>17, ShownIsTheView

LEMMA DestroyIsSound ==
    ASSUME WindowsInv, NEW h \in Handles, Destroy(h)
    PROVE  WindowsInv'
<1>1. /\ Sound(View, activeCount, window, drag, lost)
      /\ StackIsSound(activeCount, window) /\ ClickIsSound(click, window, drag, pressed)
  BY InvFacts
<1>2. h \in Active(window) /\ Closed(View, window, h) /\ pressed' = pressed
  BY DEF Destroy
<1>3. drag.handle # NoWindow => pressed'
  BY <1>1, <1>2 DEF ClickIsSound
<1> QED BY <1>1, <1>2, <1>3, ClosedIsSound, NobodyChanges

(* What leaves the stack, the drag and the click as they are.              *)
LEMMA RepaintIsSound ==
    ASSUME WindowsInv, NEW v, NEW l, Sound(v, activeCount, window, drag, l), Show(v),
           lost' = l, UNCHANGED <<window, activeCount, click, pressed, drag>>
    PROVE  WindowsInv'
<1>1. ClickIsSound(click, window, drag, pressed)
  BY InvFacts
<1>2. v \in Views
  BY DEF Sound
<1>3. ClickIsSound(click', window', drag', pressed')
  BY <1>1
<1>4. Sound(v, activeCount', window', drag', lost')
  OBVIOUS
<1> QED BY <1>2, <1>3, <1>4, ShownIsTheView

LEMMA DrawIsSound ==
    ASSUME WindowsInv, NEW h \in Handles, Draw(h)
    PROVE  WindowsInv'
<1>1. /\ h \in Active(window) /\ ~window[h].retained /\ h = Top(activeCount, window)
      /\ drag.handle = NoWindow /\ cache.phase \notin {"capturing", "pasting"}
      /\ Show(Painted(View, h)) /\ lost' = lost
      /\ UNCHANGED <<window, activeCount, click, pressed, drag>>
  BY DEF Draw, MayPaint, Busy
<1>2. /\ Sound(View, activeCount, window, drag, lost) /\ View.cache = cache
      /\ drag = NoDrag /\ StackIsSound(activeCount, window)
      /\ LostAreRetained(lost, window)
  BY <1>1, InvFacts
<1>3. window[h].z = activeCount /\ h \notin lost
  BY <1>1, <1>2, TopIsHighest DEF LostAreRetained
<1>4. Sound(Painted(View, h), activeCount, window, drag, lost)
  BY <1>1, <1>2, <1>3, PaintedIsSound
<1> QED BY <1>1, <1>4, RepaintIsSound

LEMMA ImageCompleteIsSound ==
    ASSUME WindowsInv, NEW h \in Handles, ImageComplete(h)
    PROVE  WindowsInv'
<1> DEFINE k == [Empty EXCEPT !.phase = "capturing", !.owner = h]
           v == [View EXCEPT !.cache = k]
<1>1. /\ h \in Active(window) /\ ~window[h].retained /\ h = Top(activeCount, window)
      /\ drag.handle = NoWindow /\ cache.phase = "empty" /\ cache' = k
      /\ lost' = lost
      /\ UNCHANGED <<window, activeCount, click, pressed, drag, screen, inverted, smeared>>
  BY DEF ImageComplete
<1>2. /\ Sound(View, activeCount, window, drag, lost) /\ View.cache = cache
      /\ drag = NoDrag /\ StackIsSound(activeCount, window) /\ View \in Views
  BY <1>1, InvFacts
<1>3. window[h].z = activeCount /\ InBitmap(window[h]) /\ h \in Nat
  BY <1>1, <1>2, TopIsHighest, StackFacts DEF Handles
<1>4. /\ k \in Images /\ k.phase = "capturing" /\ k.owner = h /\ k.row = 0
  BY <1>3, PixelFacts DEF Images, Empty
<1> HIDE DEF k
<1>5. /\ v \in Views /\ v.cache = k /\ v.screen = View.screen
      /\ v.inverted = View.inverted /\ v.smeared = View.smeared
  BY <1>2, <1>4 DEF Views
<1> HIDE DEF v
<1>6. Show(v)
  BY <1>1, <1>5 DEF Show, View
<1>7. /\ LostAreRetained(lost, window) /\ ScreenIsSound(View, window, drag, lost)
      /\ TrailsAreKnown(View, drag)
  BY <1>2 DEF Sound
<1>8. ScreenIsSound(v, window, drag, lost)
  <2>1. \A c \in Cells : IsShown(View, window, lost, c)
    BY <1>1, <1>2, <1>7, NoDragIsSound DEF ScreenIsSound, Repairing
  <2> QED BY <1>5, <2>1 DEF ScreenIsSound, IsShown
<1>9. TrailsAreKnown(v, drag)
  BY <1>5, <1>7 DEF TrailsAreKnown
<1>10. ImageIsSound(v, activeCount, window, drag)
  <2>1. \A c \in Cells : ~(c[2] < 0) /\ c[2] \in Int
    BY CellsAreAPlane, WindowsAssumption
  <2>2. 0 \in 0 .. window[h].h - 1
    BY <1>3 DEF InBitmap
  <2> QED BY <1>1, <1>2, <1>3, <1>4, <1>5, <2>1, <2>2 DEF ImageIsSound
<1>11. Sound(v, activeCount, window, drag, lost)
  BY <1>2, <1>5, <1>7, <1>8, <1>9, <1>10, NoDragIsSound DEF Sound
<1> QED BY <1>1, <1>6, <1>11, RepaintIsSound

(* The repaint of new contents by a manager with nothing to do.            *)
LEMMA SpoiledAndRepainted ==
    ASSUME WindowsInv, NEW h \in Active(window), window[h].retained, ~Busy
    PROVE  Sound(Repainted(Spoiled(View, h, 1), h), activeCount, window, drag, lost \ {h})
<1> DEFINE v == Spoiled(View, h, 1)
           k == lost \ {h}
<1>1. /\ drag = NoDrag /\ cache.phase \notin {"capturing", "pasting"}
      /\ View \in Views /\ View.cache = cache /\ StackIsSound(activeCount, window)
      /\ LostAreRetained(lost, window) /\ ImageIsSound(View, activeCount, window, drag)
      /\ ScreenIsSound(View, window, drag, lost) /\ TrailsAreKnown(View, drag)
  BY InvFacts DEF Busy
<1>2. h \in Handles /\ 1 \in Int
  BY <1>1, StackFacts
<1>3. /\ v \in Views /\ v.inverted = View.inverted /\ v.smeared = View.smeared
      /\ v.cache.phase = cache.phase
  BY <1>1, <1>2, SpoiledView
<1>4. cache # Empty => cache.owner # h
  BY <1>1 DEF ImageIsSound
<1>5. ImageIsSound(v, activeCount, window, NoDrag)
  BY <1>1, <1>2, <1>4, SpoiledImage
<1>6. \A c \in Cells : IsShown(View, window, lost, c)
  BY <1>1, NoDragIsSound DEF ScreenIsSound, Repairing
<1>7. \A c \in Cells : TopAt(window, c) = h \/ IsShown(v, window, k, c)
  <2> TAKE c \in Cells
  <2>1. IsShown(View, window, lost, c) /\ lost \ {h} \subseteq k
    BY <1>6
  <2> QED BY <1>1, <1>2, <2>1, SpoiledIsShown
<1> HIDE DEF v
<1>8. TrailsAreKnown(v, NoDrag)
  BY <1>1, <1>3 DEF TrailsAreKnown
<1>9. LostAreRetained(k, window)
  BY <1>1 DEF LostAreRetained
<1>10. v.cache.phase \in {"empty", "ready"}
  BY <1>1, <1>3, ViewFields
<1> HIDE DEF k
<1> QED BY <1>1, <1>3, <1>5, <1>7, <1>8, <1>9, <1>10, RepaintedIsSound DEF v, k

LEMMA PresentIsSound ==
    ASSUME WindowsInv, NEW h \in Handles, Present(h)
    PROVE  WindowsInv'
<1>1. /\ h \in Active(window) /\ window[h].retained
      /\ UNCHANGED <<window, activeCount, click, pressed, drag>>
  BY DEF Present
<1>2. CASE Busy
  <2>1. Show(Spoiled(View, h, 1)) /\ lost' = lost \cup {h}
    BY <1>2 DEF Present
  <2>2. Sound(Spoiled(View, h, 1), activeCount, window, drag, lost \cup {h})
    BY <1>1, InvFacts, PresentedIsSound
  <2> QED BY <1>1, <2>1, <2>2, RepaintIsSound
<1>3. CASE ~Busy
  <2>1. Show(Repainted(Spoiled(View, h, 1), h)) /\ lost' = lost \ {h}
    BY <1>3 DEF Present
  <2>2. Sound(Repainted(Spoiled(View, h, 1), h), activeCount, window, drag, lost \ {h})
    BY <1>1, <1>3, SpoiledAndRepainted
  <2> QED BY <1>1, <2>1, <2>2, RepaintIsSound
<1> QED BY <1>2, <1>3

LEMMA InvalidatedIsSound ==
    ASSUME NEW v, NEW n, NEW w, NEW l, Sound(v, n, w, NoDrag, l), v.cache.phase # "pasting"
    PROVE  Sound(Invalidated(v), n, w, NoDrag, l)
<1> DEFINE r == Invalidated(v)
<1>1. /\ v \in Views /\ StackIsSound(n, w) /\ LostAreRetained(l, w)
      /\ ScreenIsSound(v, w, NoDrag, l) /\ TrailsAreKnown(v, NoDrag)
  BY DEF Sound
<1>2. /\ r \in Views /\ r.screen = v.screen /\ r.inverted = v.inverted
      /\ r.smeared = v.smeared /\ r.cache = Empty
  BY <1>1, InvalidatedView
<1> HIDE DEF r
<1>3. \A c \in Cells : IsShown(v, w, l, c)
  BY <1>1, NoDragIsSound DEF ScreenIsSound, Repairing
<1>4. ScreenIsSound(r, w, NoDrag, l)
  BY <1>2, <1>3 DEF ScreenIsSound, IsShown
<1>5. TrailsAreKnown(r, NoDrag) /\ ImageIsSound(r, n, w, NoDrag)
  BY <1>1, <1>2 DEF TrailsAreKnown, ImageIsSound
<1> QED BY <1>1, <1>2, <1>4, <1>5, NoDragIsSound DEF Sound, r

LEMMA DeltaIsSound ==
    ASSUME WindowsInv, NEW h \in Handles, Delta(h)
    PROVE  WindowsInv'
<1>1. /\ h \in Active(window) /\ window[h].retained /\ ~Busy
      /\ UNCHANGED <<window, activeCount, click, pressed, drag>>
  BY DEF Delta
<1>2. /\ Sound(View, activeCount, window, drag, lost) /\ View.cache = cache
      /\ drag = NoDrag /\ StackIsSound(activeCount, window)
      /\ cache.phase \notin {"capturing", "pasting"}
  BY <1>1, InvFacts DEF Busy
<1>3. CASE ~MayPaint(h)
  <2>1. Show(Repainted(Spoiled(View, h, 1), h)) /\ lost' = lost \ {h}
    BY <1>3 DEF Delta
  <2>2. Sound(Repainted(Spoiled(View, h, 1), h), activeCount, window, drag, lost \ {h})
    BY <1>1, SpoiledAndRepainted
  <2> QED BY <1>1, <2>1, <2>2, RepaintIsSound
<1>4. CASE MayPaint(h) /\ h \in lost
  <2>1. Show(Spoiled(Invalidated(View), h, 1)) /\ lost' = lost
    BY <1>4 DEF Delta
  <2>2. Sound(Invalidated(View), activeCount, window, drag, lost)
    BY <1>2, InvalidatedIsSound
  <2>3. Sound(Spoiled(Invalidated(View), h, 1), activeCount, window, drag, lost \cup {h})
    BY <1>1, <2>2, PresentedIsSound
  <2>4. lost \cup {h} = lost
    BY <1>4
  <2> QED BY <1>1, <2>1, <2>3, <2>4, RepaintIsSound
<1>5. CASE MayPaint(h) /\ h \notin lost
  <2>1. Show(Painted(View, h)) /\ lost' = lost
    BY <1>5 DEF Delta
  <2>2. window[h].z = activeCount
    BY <1>1, <1>2, <1>5, TopIsHighest DEF MayPaint
  <2>3. Sound(Painted(View, h), activeCount, window, drag, lost)
    BY <1>1, <1>2, <1>5, <2>2, PaintedIsSound
  <2> QED BY <1>1, <2>1, <2>3, RepaintIsSound
<1> QED BY <1>3, <1>4, <1>5

LEMMA TakeClickIsSound ==
    ASSUME WindowsInv, NEW h \in Handles, TakeClick(h)
    PROVE  WindowsInv'
<1>1. /\ click' = NoClick /\ drag.handle = NoWindow
      /\ UNCHANGED <<window, activeCount, pressed, drag, screen, inverted, cache, lost,
                     smeared>>
  BY DEF TakeClick
<1>2. Sound(View, activeCount, window, drag, lost) /\ View \in Views
  BY InvFacts
<1>3. Show(View)
  BY <1>1 DEF Show, View
<1>4. ClickIsSound(NoClick, window, drag, pressed')
  BY <1>1, NoClickIsSound
<1>5. Sound(View, activeCount', window', drag', lost')
  BY <1>1, <1>2
<1> QED BY <1>1, <1>2, <1>3, <1>4, <1>5, ShownIsTheView

-----------------------------------------------------------------------------
(* The poll.                                                               *)

LEMMA SteppedIsSound ==
    ASSUME WindowsInv, NEW v \in Stepped
    PROVE  /\ Sound(v, activeCount, window, drag, lost)
           /\ drag.handle # NoWindow => v = View
<1> DEFINE n == activeCount
           w == window
           o == cache.owner
           Failed(x) == Composed(x, w, NoDrag, w[o], NoWindow)
           Copied(m) == RowsCopied(View, w, m)
<1>1. /\ Sound(View, n, w, drag, lost) /\ View.cache = cache
      /\ StackIsSound(n, w) /\ ImageIsSound(View, n, w, drag)
      /\ drag.handle = NoWindow => drag = NoDrag
  BY InvFacts
<1>2. CASE drag.handle # NoWindow \/ cache.phase \notin {"capturing", "pasting"}
  BY <1>1, <1>2 DEF Stepped
<1>3. CASE drag.handle = NoWindow /\ cache.phase \in {"capturing", "pasting"}
  <2>1. drag = NoDrag
    BY <1>1, <1>3
  <2>2. \A m \in Nat : Sound(Copied(m), n, w, NoDrag, lost)
    BY <1>1, <1>3, <2>1, CapturedRowsAreSound, PastedRowsAreSound DEF RowsCopied
  <2>3. \/ \E m \in 1 .. Budget : v = Copied(m)
        \/ \E m \in 0 .. Budget - 1 : v = Failed(Copied(m))
    BY <1>3 DEF Stepped
  <2>4. PICK m \in Nat : v = Copied(m) \/ v = Failed(Copied(m))
    BY <2>3, WindowsAssumption
  <2> DEFINE x == Copied(m)
  <2>5. Sound(x, n, w, NoDrag, lost)
    BY <2>2
  <2> HIDE DEF Copied
  <2>6. CASE v = x
    BY <1>3, <2>1, <2>5, <2>6
  <2>7. CASE v = Failed(x)
    <3> HIDE DEF x
    <3>1. /\ x \in Views /\ LostAreRetained(lost, w) /\ TrailsAreKnown(x, NoDrag)
          /\ ScreenIsSound(x, w, NoDrag, lost) /\ ImageIsSound(x, n, w, NoDrag)
      BY <2>5 DEF Sound
    <3>2. x.cache = Empty \/ x.cache.owner \in Active(w)
      BY <3>1 DEF ImageIsSound
    <3>3. Sized(w[o])
      BY <1>1, <1>3, StackFacts, PixelFacts DEF ImageIsSound
    <3>4. \A c \in Cells :
             \/ /\ x.cache.phase = "pasting" /\ x.cache.owner \in Active(w)
                /\ c \in Area(w[x.cache.owner])
             \/ IsShown(x, w, lost, c)
      BY <3>1, <3>2, NoDragIsSound, PixelFacts DEF ScreenIsSound, Repairing
    <3>5. x.cache = Empty \/ x.cache.owner \in Handles
      BY <1>1, <3>2, StackFacts
    <3>6. Sound(v, n, w, NoDrag, lost)
      BY <1>1, <2>7, <3>1, <3>3, <3>4, <3>5, ComposedRepairs, NoDragIsSound
    <3> QED BY <1>3, <2>1, <3>6
  <2> QED BY <2>4, <2>6, <2>7
<1> QED BY <1>2, <1>3

LEMMA FollowKeepsInv ==
    ASSUME NEW v, NEW n, NEW w, NEW d, NEW l, Sound(v, n, w, d, l), d.handle # NoWindow,
           NEW p \in Cells, Follow(v, d, p),
           activeCount' = n, window' = w, lost' = l, click'.handle = NoWindow, pressed',
           click' \in [handle : Nat, x : Int, y : Int]
    PROVE  WindowsInv'
<1> DEFINE e == [d EXCEPT !.rect = Followed(d, p)]
           x == Outlined(v, d, p)
<1>1. drag' = e /\ Show(x)
  BY DEF Follow, Outlined
<1>2. Sound(x, n, w, e, l)
  BY FollowIsSound
<1>3. x \in Views
  BY <1>2 DEF Sound
<1> HIDE DEF e, x
<1>4. ClickIsSound(click', w, e, pressed')
  BY DEF ClickIsSound
<1> QED BY <1>1, <1>2, <1>3, <1>4, ShownIsTheView

LEMMA MotionIsSound ==
    ASSUME WindowsInv, NEW v \in Stepped, NEW p \in Cells, Motion(v, p)
    PROVE  WindowsInv'
<1>1. /\ drag.handle # NoWindow /\ pressed' = TRUE /\ Follow(v, drag, p)
      /\ UNCHANGED <<window, activeCount, click, lost>>
  BY DEF Motion
<1>2. Sound(v, activeCount, window, drag, lost)
  BY SteppedIsSound
<1>3. /\ click.handle = NoWindow
      /\ click \in [handle : Nat, x : Int, y : Int]
  BY <1>1, InvFacts DEF ClickIsSound
<1> QED BY <1>1, <1>2, <1>3, FollowKeepsInv

LEMMA QuietIsSound ==
    ASSUME WindowsInv, NEW v \in Stepped, NEW down \in BOOLEAN, Quiet(v, down)
    PROVE  WindowsInv'
<1>1. /\ drag.handle = NoWindow /\ Show(v)
      /\ UNCHANGED <<window, activeCount, click, drag, lost>>
  BY DEF Quiet
<1>2. Sound(v, activeCount, window, drag, lost) /\ ClickIsSound(click, window, drag, pressed)
  BY SteppedIsSound, InvFacts
<1>3. ClickIsSound(click, window, drag, pressed')
  BY <1>1, <1>2 DEF ClickIsSound
<1>4. ClickIsSound(click', window', drag', pressed')
  BY <1>1, <1>3
<1>5. Sound(v, activeCount', window', drag', lost') /\ v \in Views
  BY <1>1, <1>2 DEF Sound
<1> QED BY <1>1, <1>4, <1>5, ShownIsTheView

(* The rectangle of a drag takes the place of its window.                  *)
LEMMA ReleaseIsSound ==
    ASSUME WindowsInv, NEW v \in Stepped, Release(v)
    PROVE  WindowsInv'
<1> DEFINE n == activeCount
           h == drag.handle
           q == drag.rect
           u == [window EXCEPT ![h].x = q.x, ![h].y = q.y, ![h].w = q.w, ![h].h = q.h]
           bare == Toggled(v, q)
           damage == Hull(window[h], q)
           fresh == IF drag.mode = "resize" THEN Spoiled(bare, h, 0) ELSE bare
           x == IF drag.cached THEN ImagePainted(bare, u, h, damage)
                ELSE Composed(fresh, u, NoDrag, damage, NoWindow)
           l == lost \cup {h}
<1>1. /\ h # NoWindow /\ window' = u /\ drag' = NoDrag /\ Show(x)
      /\ UNCHANGED <<activeCount, click, lost>>
  BY DEF Release
<1>2. /\ v = View /\ StackIsSound(n, window) /\ DragIsSound(drag, window)
      /\ v \in Views /\ v.cache = cache
      /\ LostAreRetained(lost, window) /\ ImageIsSound(v, n, window, drag)
      /\ ScreenIsSound(v, window, drag, lost) /\ TrailsAreKnown(v, drag)
      /\ ClickIsSound(click, window, drag, pressed)
  BY <1>1, InvFacts, SteppedIsSound
<1>3. /\ h \in Active(window) /\ h \in Handles /\ InBitmap(q) /\ Sized(q)
      /\ Sized(window[h]) /\ 0 \in Int
      /\ drag.mode = "move" => q.w = window[h].w /\ q.h = window[h].h
      /\ drag.cached => drag.mode = "move"
  BY <1>1, <1>2, StackFacts, PlacesInTheBitmap, NoDragIsSound DEF DragIsSound
<1>4. /\ u \in [Handles -> Slots]
      /\ u[h].x = q.x /\ u[h].y = q.y /\ u[h].w = q.w /\ u[h].h = q.h
      /\ u[h].z = window[h].z /\ u[h].retained = window[h].retained
      /\ \A g \in Handles \ {h} : u[g] = window[g]
  <2>1. window \in [Handles -> Slots] /\ window[h] \in Slots
    BY <1>2, <1>3, StackFacts DEF StackIsSound
  <2>2. q.x \in Nat /\ q.y \in Nat /\ q.w \in Nat /\ q.h \in Nat
    BY <1>3 DEF InBitmap
  <2> HIDE DEF h, q
  <2> QED BY <1>3, <2>1, <2>2 DEF Slots
<1> HIDE DEF u, q, h
<1>5. /\ StackIsSound(n, u) /\ OthersStay(window, u, h)
      /\ Active(u) = Active(window) /\ Area(u[h]) = Area(q)
  BY <1>2, <1>3, <1>4, MovedStack
<1>6. /\ bare \in Views /\ bare.screen = v.screen /\ bare.cache = v.cache
      /\ TrailsAreKnown(bare, NoDrag)
  <2>1. bare = Toggled(v, drag.rect)
    BY DEF q
  <2> HIDE DEF bare
  <2>2. bare \in Views /\ bare.screen = v.screen /\ bare.cache = v.cache
    BY <1>2, <2>1, ToggledView
  <2>3. TrailsAreKnown(bare, NoDrag)
    BY <1>2, <2>1, ToggledTrails, NoDragIsSound
  <2> QED BY <2>2, <2>3
<1>7. /\ Sized(damage) /\ Area(window[h]) \subseteq Area(damage)
      /\ Area(u[h]) \subseteq Area(damage)
  BY <1>3, <1>5, HullCovers
<1>8. LostAreRetained(lost, u)
  <2>1. \A g \in Active(window) : u[g].retained = window[g].retained
    BY <1>2, <1>4, StackFacts
  <2> QED BY <1>2, <1>5, <2>1 DEF LostAreRetained
<1> HIDE DEF bare, damage
<1>9. ScreenIsSound(bare, window, drag, lost)
  BY <1>2, <1>6 DEF ScreenIsSound, Repairing, IsShown
<1>10. bare.cache = Empty \/ bare.cache.owner \in Handles
  BY <1>2, <1>6, StackFacts DEF ImageIsSound
<1>11. ASSUME drag.cached PROVE Sound(x, n, u, NoDrag, lost)
  <2>1. x = ImagePainted(bare, u, h, damage)
    BY <1>11
  <2>2. \/ cache = Empty
        \/ /\ cache.phase = "ready" /\ cache.owner = h
           /\ \A c \in Cells : c[1] < window[h].w /\ c[2] < window[h].h
                               => cache.image[c] = <<h, c[1], c[2]>>
           /\ window[h].z = n /\ ~window[h].retained
    BY <1>1, <1>2, PixelFacts DEF ImageIsSound, h
  <2>3. ImageIsSound(bare, n, u, NoDrag)
    BY <1>2, <1>3, <1>4, <1>5, <1>6, <1>11, <2>2, NoDragIsSound DEF ImageIsSound
  <2>4. ASSUME NEW c \in Cells, c \notin Area(damage)
        PROVE  IsShown(bare, u, lost, c)
    <3>1. c \notin Area(window[h]) /\ c \notin Area(u[h])
      BY <1>7, <2>4
    <3>2. cache.phase # "pasting"
      BY <2>2, PixelFacts
    <3>3. ~Repairing(bare, window, drag, c)
      BY <1>2, <1>6, <3>1, <3>2 DEF Repairing, h
    <3>4. IsShown(bare, window, lost, c)
      BY <1>9, <3>3 DEF ScreenIsSound
    <3> QED BY <1>2, <1>3, <1>5, <3>1, <3>4, OthersStayShown
  <2>5. \/ bare.cache = Empty /\ Area(u[h]) \subseteq Area(damage)
        \/ bare.cache.phase = "ready" /\ bare.cache.owner = h
    BY <1>2, <1>6, <1>7, <2>2
  <2>6. \A c \in Cells : c \in Area(damage) \/ IsShown(bare, u, lost, c)
    BY <2>4
  <2>7. h \in Active(u)
    BY <1>3, <1>5
  <2> HIDE DEF x
  <2>8. Sound(x, n, u, NoDrag, lost)
    BY <1>5, <1>6, <1>7, <1>8, <2>1, <2>3, <2>5, <2>6, <2>7, ImageRepairs
  <2> QED BY <2>8
<1>12. ASSUME ~drag.cached PROVE Sound(x, n, u, NoDrag, lost)
  <2>1. x = Composed(fresh, u, NoDrag, damage, NoWindow)
    BY <1>12
  <2>2. /\ fresh \in Views /\ TrailsAreKnown(fresh, NoDrag)
        /\ ScreenIsSound(fresh, window, drag, l)
        /\ fresh.cache = Empty \/ fresh.cache.owner \in Handles
    <3>1. CASE drag.mode = "resize"
      <4> DEFINE y == Spoiled(bare, h, 0)
      <4>1. /\ y \in Views /\ y.inverted = bare.inverted /\ y.smeared = bare.smeared
            /\ y.cache.owner = bare.cache.owner
            /\ bare.cache = Empty => y.cache = Empty
        BY <1>3, <1>6, SpoiledView
      <4>2. ScreenIsSound(y, window, drag, l)
        BY <1>2, <1>3, <1>6, <1>9, SpoiledScreen
      <4> HIDE DEF y
      <4>3. TrailsAreKnown(y, NoDrag)
        BY <1>6, <4>1 DEF TrailsAreKnown
      <4>4. y.cache = Empty \/ y.cache.owner \in Handles
        BY <1>10, <4>1
      <4>5. fresh = y
        BY <3>1 DEF y
      <4> HIDE DEF fresh
      <4> QED BY <4>1, <4>2, <4>3, <4>4, <4>5
    <3>2. CASE drag.mode # "resize"
      <4>1. fresh = bare
        BY <3>2
      <4>2. ScreenIsSound(bare, window, drag, l)
        BY <1>9 DEF ScreenIsSound, IsShown
      <4> QED BY <1>6, <1>10, <4>1, <4>2
    <3> QED BY <3>1, <3>2
  <2>3. l \ {h} \subseteq lost
    OBVIOUS
  <2>4. NoDrag.handle = drag.handle \/ drag.handle = h
    BY DEF h
  <2>5. DragIsSound(NoDrag, u)
    BY NoDragIsSound
  <2> HIDE DEF fresh, l, x
  <2>6. Sound(x, n, u, NoDrag, lost)
    BY <1>2, <1>3, <1>5, <1>7, <1>8, <2>1, <2>2, <2>3, <2>4, <2>5, ChangedIsSound
  <2> QED BY <2>6
<1>13. Sound(x, n, u, NoDrag, lost)
  <2> HIDE DEF x
  <2> QED BY <1>11, <1>12
<1>14. ClickIsSound(click, u, NoDrag, pressed')
  <2>1. click.handle = NoWindow /\ click \in [handle : Nat, x : Int, y : Int]
    BY <1>1, <1>2 DEF ClickIsSound, h
  <2> QED BY <2>1, NoDragIsSound DEF ClickIsSound
<1>15. x \in Views
  BY <1>13 DEF Sound
<1> HIDE DEF x
<1> QED BY <1>1, <1>13, <1>14, <1>15, ShownIsTheView

(* A press on the title or on the resize box.                              *)
LEMMA DragStartIsSound ==
    ASSUME NEW v, Sound(v, activeCount, window, NoDrag, lost), v.cache.phase # "pasting",
           NEW h \in Active(window), NEW w, w = Raised(window, h), NEW p \in Cells,
           NEW mode \in {"move", "resize"}, BeginDrag(v, w, h, p, mode),
           window' = w, click' = NoClick, pressed', UNCHANGED <<activeCount, lost>>
    PROVE  WindowsInv'
<1> DEFINE n == activeCount
           q == Rectangle(w[h])
           cached == mode = "move" /\ v.cache.phase = "ready" /\ v.cache.owner = h
           d == [handle |-> h, mode |-> mode, cached |-> cached, dx |-> p[1] - q.x,
                 dy |-> p[2] - q.y, rect |-> q]
           x == Composed(IF cached THEN v ELSE Invalidated(v), w,
                         [d EXCEPT !.rect = Nowhere], q, Erase)
           y == Toggled(x, q)
<1>1. Follow(y, d, p)
  BY DEF BeginDrag
<1>2. /\ v \in Views /\ StackIsSound(n, window) /\ LostAreRetained(lost, window)
      /\ ImageIsSound(v, n, window, NoDrag) /\ ScreenIsSound(v, window, NoDrag, lost)
      /\ TrailsAreKnown(v, NoDrag)
  BY DEF Sound
<1>3. /\ StackIsSound(n, w) /\ OthersStay(window, w, h) /\ Active(w) = Active(window)
      /\ w[h].x = window[h].x /\ w[h].y = window[h].y
      /\ w[h].w = window[h].w /\ w[h].h = window[h].h
      /\ w[h].retained = window[h].retained
      /\ window[h].z = n => w = window
  BY <1>2, RaisedStack
<1>4. h \in Handles /\ h \in Nat /\ h # NoWindow /\ Area(w[h]) = Area(window[h])
  BY <1>2, <1>3, StackFacts DEF Area, Handles
<1>5. LostAreRetained(lost, w)
  <2>1. ASSUME NEW g \in Active(window) PROVE w[g].retained = window[g].retained
    <3>1. g \in Handles
      BY <1>2, <1>3, StackFacts
    <3> QED BY <1>2, <1>3, <3>1 DEF OthersStay
  <2> QED BY <1>2, <1>3, <2>1 DEF LostAreRetained
<1>6. \A c \in Cells : c \in Area(w[h]) \/ IsShown(v, w, lost, c)
  <2> TAKE c \in Cells
  <2>1. IsShown(v, window, lost, c)
    BY <1>2, NoDragIsSound DEF ScreenIsSound, Repairing
  <2> QED BY <1>2, <1>3, <1>4, <2>1, OthersStayShown
<1>7. cached => ImageIsSound(v, n, w, NoDrag)
  <2>1. cached => window[h].z = n
    BY <1>2, PixelFacts DEF ImageIsSound
  <2> QED BY <1>2, <1>3, <2>1
<1>8. cached \in BOOLEAN /\ (cached => mode = "move" /\ v.cache.phase = "ready"
                                       /\ v.cache.owner = h)
  OBVIOUS
<1>9. d.handle = h
  OBVIOUS
<1>10. h \in Active(w)
  BY <1>3
<1> HIDE DEF cached
<1>11. Sound(y, n, w, d, lost)
  <2> HIDE DEF y, x, d, q
  <2>1. /\ q = Rectangle(w[h])
        /\ d = [handle |-> h, mode |-> mode, cached |-> cached, dx |-> p[1] - q.x,
                dy |-> p[2] - q.y, rect |-> q]
        /\ x = Composed(IF cached THEN v ELSE Invalidated(v), w,
                        [d EXCEPT !.rect = Nowhere], q, Erase)
    BY DEF q, d, x
  <2>2. Sound(Toggled(x, q), n, w, d, lost)
    BY <1>2, <1>3, <1>5, <1>6, <1>7, <1>8, <1>10, <2>1, BeginDragIsSound
  <2> QED BY <2>2 DEF y
<1> HIDE DEF x, y, d, q
<1>12. /\ click'.handle = NoWindow
       /\ click' \in [handle : Nat, x : Int, y : Int]
  BY DEF NoClick, NoWindow
<1> QED BY <1>1, <1>4, <1>9, <1>11, <1>12, FollowKeepsInv

(* A press on the contents: the window is raised and told of the click.    *)
LEMMA ClickedIsSound ==
    ASSUME NEW v, Sound(v, activeCount, window, NoDrag, lost), v.cache.phase # "pasting",
           NEW h \in Active(window), NEW w, w = Raised(window, h),
           NEW r, r = window[h], NEW p \in Area(r), ~TitleHit(r, p),
           Show(IF r.z = activeCount THEN v ELSE Composed(v, w, NoDrag, r, NoWindow)),
           click' = [handle |-> h, x |-> p[1] - r.x, y |-> p[2] - r.y],
           window' = w, drag' = NoDrag, UNCHANGED <<activeCount, lost>>
    PROVE  WindowsInv'
<1> DEFINE n == activeCount
           x == IF r.z = n THEN v ELSE Composed(v, w, NoDrag, r, NoWindow)
<1>1. /\ v \in Views /\ StackIsSound(n, window) /\ LostAreRetained(lost, window)
      /\ ImageIsSound(v, n, window, NoDrag) /\ ScreenIsSound(v, window, NoDrag, lost)
      /\ TrailsAreKnown(v, NoDrag)
  BY DEF Sound
<1>2. /\ StackIsSound(n, w) /\ OthersStay(window, w, h) /\ Active(w) = Active(window)
      /\ w[h].x = r.x /\ w[h].y = r.y /\ w[h].w = r.w /\ w[h].h = r.h
      /\ w[h].retained = r.retained
      /\ r.z = n => w = window
  BY <1>1, RaisedStack
<1>3. /\ h \in Handles /\ h \in Nat /\ h # NoWindow /\ Area(w[h]) = Area(r)
      /\ InBitmap(r) /\ Sized(r)
  BY <1>1, <1>2, StackFacts DEF Area, Handles
<1>4. LostAreRetained(lost, w)
  <2>1. ASSUME NEW g \in Active(window) PROVE w[g].retained = window[g].retained
    <3>1. g \in Handles
      BY <1>1, <1>2, StackFacts
    <3> QED BY <1>1, <1>2, <3>1 DEF OthersStay
  <2> QED BY <1>1, <1>2, <2>1 DEF LostAreRetained
<1>5. Sound(x, n, w, NoDrag, lost)
  <2>1. CASE r.z = n
    BY <1>2, <2>1
  <2>2. CASE r.z # n
    <3>1. x = Composed(v, w, NoDrag, r, NoWindow)
      BY <2>2
    <3>2. /\ v.cache = Empty \/ v.cache.owner \in Handles
          /\ lost \ {h} \subseteq lost
      BY <1>1, StackFacts DEF ImageIsSound
    <3>3. DragIsSound(NoDrag, window) /\ DragIsSound(NoDrag, w)
      BY NoDragIsSound
    <3> HIDE DEF x
    <3> QED BY <1>1, <1>2, <1>3, <1>4, <3>1, <3>2, <3>3, ChangedIsSound
  <2> QED BY <2>1, <2>2
<1>6. ClickIsSound(click', w, NoDrag, pressed')
  <2>1. p[1] - r.x \in 0 .. r.w - 1 /\ p[2] - r.y \in 0 .. r.h - 1
    BY <1>3, PlacesInTheBitmap
  <2>2. p[2] - r.y # 0
    <3>1. p[2] \in Int /\ r.y \in Int
      BY <1>3, CellsAreAPlane DEF Sized
    <3> QED BY <3>1 DEF TitleHit
  <2>3. p[2] - r.y \in 1 .. r.h - 1 /\ r.w \in Int /\ r.h \in Int
    BY <1>3, <2>1, <2>2 DEF Sized
  <2> DEFINE a == p[1] - r.x
             b == p[2] - r.y
  <2>4. a \in 0 .. w[h].w - 1 /\ b \in 1 .. w[h].h - 1
    BY <1>2, <2>1, <2>3
  <2>5. a \in Int /\ b \in Int
    BY <1>2, <1>3, <2>4 DEF Sized
  <2>6. click' = [handle |-> h, x |-> a, y |-> b]
    OBVIOUS
  <2> HIDE DEF a, b
  <2>7. h \in Active(w)
    BY <1>2
  <2> QED BY <1>3, <2>4, <2>5, <2>6, <2>7, NoDragIsSound DEF ClickIsSound
<1>7. x \in Views /\ Show(x)
  BY <1>5 DEF Sound
<1> HIDE DEF x
<1> QED BY <1>5, <1>6, <1>7, ShownIsTheView

LEMMA PressIsSound ==
    ASSUME WindowsInv, NEW v \in Stepped, v.cache.phase # "pasting", NEW p \in Cells,
           Press(v, p)
    PROVE  WindowsInv'
<1> DEFINE h == TopAt(window, p)
           r == window[h]
           w == Raised(window, h)
<1>1. ~pressed /\ pressed' = TRUE
  BY DEF Press
<1>2. /\ drag.handle = NoWindow /\ drag = NoDrag
  BY <1>1, InvFacts DEF ClickIsSound
<1>3. /\ Sound(v, activeCount, window, NoDrag, lost) /\ StackIsSound(activeCount, window)
      /\ v \in Views
  BY <1>2, SteppedIsSound DEF Sound
<1>4. CASE h = NoWindow
  <2>1. /\ Show(v) /\ click' = NoClick
        /\ UNCHANGED <<window, activeCount, drag, lost>>
    BY <1>4 DEF Press
  <2>2. ClickIsSound(NoClick, window, drag, pressed')
    BY <1>2, NoClickIsSound
  <2>3. /\ Sound(v, activeCount', window', drag', lost')
        /\ ClickIsSound(click', window', drag', pressed')
    BY <1>2, <1>3, <2>1, <2>2
  <2> QED BY <1>3, <2>1, <2>3, ShownIsTheView
<1>5. ASSUME h # NoWindow
      PROVE  /\ h \in Active(window) /\ p \in Area(r)
             /\ StackIsSound(activeCount, w) /\ OthersStay(window, w, h)
             /\ h \in Active(w) /\ Area(w[h]) = Area(r)
  <2>1. h \in Active(window) /\ p \in Area(r)
    BY <1>3, <1>5, TopAtFacts
  <2> HIDE DEF h
  <2>2. /\ StackIsSound(activeCount, w) /\ OthersStay(window, w, h)
        /\ Active(w) = Active(window)
        /\ w[h].x = r.x /\ w[h].y = r.y /\ w[h].w = r.w /\ w[h].h = r.h
    BY <1>3, <2>1, RaisedStack
  <2> QED BY <2>1, <2>2 DEF Area
<1>6. CASE h # NoWindow /\ CloseHit(r, p)
  <2>1. Closed(v, w, h)
    BY <1>6 DEF Press
  <2> HIDE DEF h, w
  <2> QED BY <1>1, <1>2, <1>3, <1>5, <1>6, <2>1, ClosedIsSound
<1>7. CASE h # NoWindow /\ ~CloseHit(r, p) /\ (ResizeHit(r, p) \/ TitleHit(r, p))
  <2> DEFINE mode == IF ResizeHit(r, p) THEN "resize" ELSE "move"
  <2>1. /\ window' = w /\ UNCHANGED <<activeCount, lost>> /\ click' = NoClick
        /\ BeginDrag(v, w, h, p, mode)
    BY <1>7 DEF Press
  <2>2. mode \in {"move", "resize"} /\ w = Raised(window, h) /\ h \in Active(window)
    BY <1>5, <1>7
  <2> HIDE DEF h, w, mode
  <2> QED BY <1>1, <1>3, <2>1, <2>2, DragStartIsSound
<1>8. CASE h # NoWindow /\ ~CloseHit(r, p) /\ ~(ResizeHit(r, p) \/ TitleHit(r, p))
  <2>1. /\ window' = w /\ UNCHANGED <<activeCount, lost, drag>>
        /\ click' = [handle |-> h, x |-> p[1] - r.x, y |-> p[2] - r.y]
        /\ Show(IF r.z = activeCount THEN v ELSE Composed(v, w, NoDrag, r, NoWindow))
    BY <1>8 DEF Press
  <2>2. w = Raised(window, h) /\ h \in Active(window) /\ p \in Area(r) /\ r = window[h]
        /\ ~TitleHit(r, p) /\ drag' = NoDrag
    BY <1>2, <1>5, <1>8, <2>1
  <2> HIDE DEF h, w, r
  <2> QED BY <1>1, <1>3, <2>1, <2>2, ClickedIsSound
<1> QED BY <1>4, <1>6, <1>7, <1>8

LEMMA PollIsSound ==
    ASSUME WindowsInv, Poll
    PROVE  WindowsInv'
<1>1. PICK v \in Stepped :
         IF v.cache.phase = "pasting"
         THEN /\ Show(v)
              /\ UNCHANGED <<window, activeCount, focused, click, pressed, drag, lost>>
         ELSE \/ \E p \in Cells : Press(v, p) \/ Motion(v, p)
              \/ Release(v)
              \/ \E down \in BOOLEAN : Quiet(v, down)
  BY DEF Poll
<1>2. CASE v.cache.phase = "pasting"
  <2>1. Show(v) /\ UNCHANGED <<window, activeCount, click, pressed, drag, lost>>
    BY <1>1, <1>2
  <2>2. Sound(v, activeCount, window, drag, lost)
    BY SteppedIsSound
  <2> QED BY <2>1, <2>2, RepaintIsSound
<1>3. CASE v.cache.phase # "pasting"
  BY <1>1, <1>3, PressIsSound, MotionIsSound, ReleaseIsSound, QuietIsSound
<1> QED BY <1>2, <1>3

-----------------------------------------------------------------------------
(* The theorems.                                                           *)

LEMMA StepIsSound == WindowsInv /\ [Next]_vars => WindowsInv'
<1> SUFFICES ASSUME WindowsInv, [Next]_vars
             PROVE  WindowsInv'
  OBVIOUS
<1>1. CASE UNCHANGED vars
  BY <1>1 DEF vars, WindowsInv, View
<1>2. ASSUME NEW r \in Placements, r.x + r.w <= Columns, r.y + r.h <= Rows, Create(r)
      PROVE  WindowsInv'
  BY <1>2, CreateIsSound
<1>3. ASSUME NEW h \in Handles,
             \/ Destroy(h) \/ Draw(h) \/ ImageComplete(h)
             \/ Present(h) \/ Delta(h) \/ TakeClick(h)
      PROVE  WindowsInv'
  BY <1>3, DestroyIsSound, DrawIsSound, ImageCompleteIsSound, PresentIsSound, DeltaIsSound,
     TakeClickIsSound
<1>4. CASE Poll
  BY <1>4, PollIsSound
<1> QED BY <1>1, <1>2, <1>3, <1>4 DEF Next

(* The manager's own invariant, from which the three below follow.         *)
THEOREM WindowsStaySound == Spec => []WindowsInv
<1>1. WindowsInv /\ [Next]_vars => WindowsInv'
  BY StepIsSound
<1> QED BY <1>1, InitIsSound, PTL DEF Spec

(* Outside what a drag has erased and a paste has not reached, every cell  *)
(* shows the topmost window's current contents, whatever the order of      *)
(* clients, pointer and row steps; a cell of the VIC's bitmap that differs *)
(* from the shadow lies on the outline or on a trail it has left.          *)
THEOREM ScreenIsTrue == Spec => []ScreenShowsTheWindows
<1>1. WindowsInv => ScreenShowsTheWindows
  <2> SUFFICES ASSUME WindowsInv
               PROVE  ScreenShowsTheWindows
    OBVIOUS
  <2>1. ASSUME NEW c \in Cells \ Unrepaired
        PROVE  screen[c] = Visible(Active(window), window, c) \/ Excused(c)
    <3>1. ~Repairing(View, window, drag, c)
      BY DEF Unrepaired, Repairing, View
    <3>2. IsShown(View, window, lost, c) /\ View.screen = screen
      BY <3>1, InvFacts DEF ScreenIsSound
    <3> QED BY <3>2 DEF IsShown, Excused
  <2>2. inverted \subseteq smeared \cup Outline(drag.rect)
    BY InvFacts DEF TrailsAreKnown, View
  <2> QED BY <2>1, <2>2 DEF ScreenShowsTheWindows
<1> QED BY <1>1, WindowsStaySound, PTL

(* The retained image is the picture its owner would draw now, and its     *)
(* owner is on top: what a move pastes back is never an old picture.       *)
THEOREM ImageIsTrue == Spec => []ImageIsCurrent
<1>1. WindowsInv => ImageIsCurrent
  <2> SUFFICES ASSUME WindowsInv, cache.phase # "empty"
               PROVE  /\ cache.owner = Top(activeCount, window)
                      /\ \A c \in Cells :
                            /\ c[1] < window[cache.owner].w
                            /\ c[2] < IF cache.phase = "capturing" THEN cache.row
                                      ELSE window[cache.owner].h
                            => cache.image[c] = <<cache.owner, c[1], c[2]>>
    BY DEF ImageIsCurrent
  <2>1. /\ cache.owner \in Active(window) /\ window[cache.owner].z = activeCount
        /\ \A c \in Cells :
              /\ c[1] < window[cache.owner].w
              /\ c[2] < (IF cache.phase = "capturing" THEN cache.row
                         ELSE window[cache.owner].h)
              => cache.image[c] = <<cache.owner, c[1], c[2]>>
    BY InvFacts, PixelFacts DEF ImageIsSound
  <2> QED BY <2>1, InvFacts, TopIsHighest
<1> QED BY <1>1, WindowsStaySound, PTL

(* A click that waits lies in the contents of a live window as they are    *)
(* when it is taken.                                                       *)
THEOREM ClicksFit == Spec => []ClicksFitTheirWindow
<1>1. WindowsInv => ClicksFitTheirWindow
  <2> SUFFICES ASSUME WindowsInv, click.handle # NoWindow
               PROVE  /\ click.handle \in Active(window)
                      /\ <<click.x, click.y>> \in
                            Client([window[click.handle] EXCEPT !.x = 0, !.y = 0])
    BY DEF ClicksFitTheirWindow
  <2> DEFINE r == window[click.handle]
             s == [r EXCEPT !.x = 0, !.y = 0]
  <2>1. /\ click.handle \in Active(window)
        /\ click.x \in 0 .. r.w - 1 /\ click.y \in 1 .. r.h - 1
    BY InvFacts DEF ClickIsSound
  <2>2. InBitmap(r) /\ r \in Slots
    BY <2>1, InvFacts, StackFacts
  <2>3. s.x = 0 /\ s.y = 0 /\ s.w = r.w /\ s.h = r.h
    BY <2>2 DEF Slots
  <2> HIDE DEF s, r
  <2> DEFINE a == click.x
             b == click.y
  <2>4. a \in 0 .. Columns - 1 /\ b \in 0 .. Rows - 1
        /\ 0 <= a /\ a < r.w /\ 0 < b /\ b < r.h
    BY <2>1, <2>2, WindowsAssumption DEF InBitmap, r
  <2> HIDE DEF a, b
  <2>5. <<a, b>> \in Client(s)
    <3> DEFINE c == <<a, b>>
    <3>1. c \in Cells /\ c[1] = a /\ c[2] = b
      BY <2>4, CellsAreAPlane
    <3>2. a \in Int /\ b \in Int /\ r.w \in Int /\ r.h \in Int
      BY <2>2, <2>4, WindowsAssumption DEF InBitmap
    <3> HIDE DEF c
    <3>3. c \in Area(s) /\ c[2] > s.y
      BY <2>3, <2>4, <3>1, <3>2 DEF Area
    <3> QED BY <3>3 DEF Client, c
  <2> QED BY <2>1, <2>5 DEF a, b, s, r
<1> QED BY <1>1, WindowsStaySound, PTL
=============================================================================
