-------------------------------- MODULE Box2 --------------------------------
(* box2<T> (math/box2.h): the half-open box [min, max) of two vec2<T>.     *)
EXTENDS Vec2

Boxes == [min : Vectors, max : Vectors]

(* box2 that trusts its arguments to be the lower and the upper corner     *)
CornersAsGiven(a, b) == [min |-> a, max |-> b]
box2(a, b) == [min |-> min(a, b), max |-> max(a, b)]
default == [min |-> zero, max |-> zero]

(* convert_box that puts the wrapped corners back in order                 *)
ConvertReorders(b) == box2(convert(b.min), convert(b.max))

(* A box2 of another type: each corner for itself, in whatever order.      *)
convert_box(b) == [min |-> convert(b.min), max |-> convert(b.max)]

(* empty that asks for both sides                                          *)
EmptyBothSides(b) == b.min.x >= b.max.x /\ b.min.y >= b.max.y
empty(b) == b.min.x >= b.max.x \/ b.min.y >= b.max.y

(* center as (min + max) / 2                                               *)
CenterOfSum(b) == UNION {Over(s, 2) : s \in Plus(b.min, b.max)}
center(b) ==
  UNION {Plus(b.min, h) : h \in UNION {Over(d, 2) : d \in Minus(b.max, b.min)}}

(* contains that compares as if the boxes were open                        *)
ContainsOpen(a, b) ==
  /\ ~empty(b)
  /\ a.min.x < b.min.x /\ a.min.y < b.min.y
  /\ b.max.x < a.max.x /\ b.max.y < a.max.y
contains(a, b) ==
  /\ ~empty(b)
  /\ a.min.x <= b.min.x /\ a.min.y <= b.min.y
  /\ b.max.x <= a.max.x /\ b.max.y <= a.max.y

(* intersects that counts boxes which only touch                           *)
IntersectsTouching(a, b) ==
  /\ ~empty(a) /\ ~empty(b)
  /\ a.min.x <= b.max.x /\ a.min.y <= b.max.y
  /\ a.max.x >= b.min.x /\ a.max.y >= b.min.y
intersects(a, b) ==
  /\ ~empty(a) /\ ~empty(b)
  /\ a.min.x < b.max.x /\ a.min.y < b.max.y
  /\ a.max.x > b.min.x /\ a.max.y > b.min.y

contains_point(b, p) ==
  /\ b.min.x <= p.x /\ b.min.y <= p.y
  /\ p.x < b.max.x /\ p.y < b.max.y

(* make_union that keeps the first box's upper corner                      *)
UnionKeepsMax(a, b) == box2(min(a.min, b.min), a.max)
make_union(a, b) == box2(min(a.min, b.min), max(a.max, b.max))

(* make_union with the point as the lower corner                           *)
PointIsMin(a, p) == box2(p, max(a.max, p))
make_union_point(a, p) == box2(min(a.min, p), max(a.max, p))
=============================================================================
