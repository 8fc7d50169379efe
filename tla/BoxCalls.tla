------------------------------ MODULE BoxCalls ------------------------------
(***************************************************************************)
(* A program that builds boxes: two box2<T> variables, made from corners   *)
(* and grown by unions with each other and with points, and what the       *)
(* queries of math/box2.h say of them as sets of points.                   *)
(***************************************************************************)
EXTENDS Box2

CONSTANTS Coords,     \* the coordinates the program uses
          NarrowHalf  \* 2^(w-1) for the width w of a narrower type

ASSUME CoordsAssumption == Coords \subseteq Scalars
ASSUME NarrowAssumption == NarrowHalf \in Nat /\ NarrowHalf > 1 /\ NarrowHalf <= Half

(* The same functions for the narrower type.                               *)
Narrow == INSTANCE Box2 WITH Half <- NarrowHalf

Points == [x : Coords, y : Coords]

VARIABLES a, b
vars == <<a, b>>

Init == a = default /\ b = default

Construct == \E p, q \in Points : a' = box2(p, q) /\ UNCHANGED b
Union == a' = make_union(a, b) /\ UNCHANGED b
UnionPoint == \E p \in Points : a' = make_union_point(a, p) /\ UNCHANGED b

(* a passes through a variable of the narrower type and comes back.        *)
NarrowAndBack == a' = convert_box(Narrow!convert_box(a)) /\ UNCHANGED b
Swap == a' = b /\ b' = a

Next == Construct \/ Union \/ UnionPoint \/ NarrowAndBack \/ Swap

Spec == Init /\ [][Next]_vars
-----------------------------------------------------------------------------
(* The points of T's plane that are in a box.                              *)
Region(box) == {p \in Vectors : contains_point(box, p)}

Ordered(box) == box.min.x <= box.max.x /\ box.min.y <= box.max.y

(* Boxes of T whose corners are in order, but for what narrowing leaves.   *)
Narrowed(box) ==
  {box.min.x, box.min.y, box.max.x, box.max.y} \subseteq Narrow!Scalars

TypeOK == /\ a \in Boxes /\ (Ordered(a) \/ Narrowed(a))
          /\ b \in Boxes /\ (Ordered(b) \/ Narrowed(b))

(* empty says there is no point in the box.                                *)
EmptyHasNoPoint == empty(a) <=> Region(a) = {}

(* contains is set inclusion, of non-empty boxes only.                     *)
ContainsIsInclusion ==
  contains(a, b) <=> Region(b) # {} /\ Region(b) \subseteq Region(a)

(* intersects says the two boxes share a point.                            *)
IntersectsIsOverlap == intersects(a, b) <=> Region(a) \cap Region(b) # {}

(* Unions lose no point of the boxes, though the added point itself is     *)
(* gained only if it lies below the box's upper corner; and the union of   *)
(* two non-empty boxes is the least box around both: it is contained in    *)
(* every box that contains both.                                           *)
UnionIsLeastBox ==
  LET c == make_union(a, b) IN
  /\ Region(a) \cup Region(b) \subseteq Region(c)
  /\ \A p \in Points :
       /\ Region(a) \subseteq Region(make_union_point(a, p))
       /\ contains_point(make_union_point(a, p), p) <=> p.x < a.max.x /\ p.y < a.max.y
  /\ ~empty(a) /\ ~empty(b) =>
       \A p, q \in Points : LET d == box2(p, q) IN
         contains(d, a) /\ contains(d, b) => contains(d, c)

(* The centre of a non-empty box is in the box, if the size of the box is  *)
(* representable: no further overflow, and rounding never leaves it.       *)
CenterInside ==
  ~empty(a) /\ a.max.x - a.min.x < OpHalf /\ a.max.y - a.min.y < OpHalf =>
    \A c \in center(a) : contains_point(a, c)

(* Corners count also where a box holds no point: unions stretch to them,  *)
(* so what bounds come to must not depend on the order they are grown in,  *)
(* of boxes that are in order, empty ones and the default box among them.  *)
(* That one is no neutral element: bounds begun with it come out right     *)
(* only where the corners have the origin between them.                    *)
BoundsInAnyOrder == Ordered(a) /\ Ordered(b) =>
  /\ make_union(a, b) = make_union(b, a)
  /\ \A p \in Points : make_union_point(make_union(a, b), p)
                         = make_union(make_union_point(a, p), b)
  /\ make_union(default, a) = a <=>
       a.min.x <= 0 /\ a.min.y <= 0 /\ 0 <= a.max.x /\ 0 <= a.max.y

(* Narrowing a box makes up no point: what is in the result, which may be  *)
(* out of order and empty, is what a point of the box converts to.         *)
NarrowingAddsNoPoint ==
  \A p \in Vectors : contains_point(Narrow!convert_box(a), p) =>
    \E q \in Region(a) : p = Narrow!convert(q)

(* "Make a box which is the union of box a and point p" (box2.h).          *)
UnionHasPoint == \A p \in Points : contains_point(make_union_point(a, p), p)

(* "Get the center point of the box" (box2.h).                             *)
CenterOfAnyBox == ~empty(a) => \A c \in center(a) : contains_point(a, c)
=============================================================================
