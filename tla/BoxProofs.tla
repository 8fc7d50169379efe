------------------------------ MODULE BoxProofs ------------------------------
(* box2's queries and unions, for every width of T and every two boxes.    *)
EXTENDS BoxCalls, IntegerLemmas

USE WidthAssumption, CoordsAssumption, NarrowAssumption DEF Vectors, Scalars, Signed, vec2

(* A component-wise minimum or maximum is a vector and bounds both.        *)
LEMMA MinMax ==
  ASSUME NEW p \in Vectors, NEW q \in Vectors
  PROVE  /\ min(p, q) \in Vectors /\ max(p, q) \in Vectors
         /\ min(p, q).x <= p.x /\ min(p, q).x <= q.x
         /\ min(p, q).y <= p.y /\ min(p, q).y <= q.y
         /\ p.x <= max(p, q).x /\ q.x <= max(p, q).x
         /\ p.y <= max(p, q).y /\ q.y <= max(p, q).y
         /\ min(p, q).x \in {p.x, q.x} /\ min(p, q).y \in {p.y, q.y}
         /\ max(p, q).x \in {p.x, q.x} /\ max(p, q).y \in {p.y, q.y}
BY DEF min, max, Lesser, Greater

(* Two corners in any order make an ordered box.                           *)
LEMMA BoxOfCorners ==
  ASSUME NEW p \in Vectors, NEW q \in Vectors
  PROVE  box2(p, q) \in Boxes /\ Ordered(box2(p, q))
<1>1. \A n \in Int, m \in Int : n <= m \/ m <= n
  OBVIOUS
<1> QED BY <1>1, MinMax DEF box2, Boxes, Ordered

(* The conversions between the two widths: T's own values are kept, and    *)
(* the narrower type's are among them.                                     *)
LEMMA Conversions ==
  /\ \A v : Narrow!convert(v) = [x |-> Narrow!Wrap(v.x), y |-> Narrow!Wrap(v.y)]
  /\ \A n \in Int : Narrow!Wrap(n) \in Narrow!Scalars
  /\ \A n \in Scalars : Wrap(n) = n
  /\ Narrow!Vectors \subseteq Vectors
<1>1. \A n \in Int : (n + NarrowHalf) % (2 * NarrowHalf) \in 0 .. 2 * NarrowHalf - 1
  OBVIOUS
<1>2. \A n \in Int : Narrow!Wrap(n) \in Narrow!Scalars
  BY <1>1 DEF Narrow!Wrap, Narrow!Scalars, Narrow!Signed
<1>3. \A n \in Scalars : n + Half \in 0 .. 2 * Half - 1
  OBVIOUS
<1>4. \A n \in Scalars : (n + Half) % (2 * Half) = n + Half
  BY <1>3
<1>5. \A n \in Scalars : Wrap(n) = n
  BY <1>4 DEF Wrap
<1> QED BY <1>2, <1>5 DEF Narrow!convert, Narrow!vec2, Narrow!Vectors, Narrow!Scalars, Narrow!Signed

(* A box that has been narrowed keeps to the narrower type's values.       *)
LEMMA BoxThroughNarrow ==
  ASSUME NEW box \in Boxes
  PROVE  LET c == Narrow!convert_box(box) IN
         Narrowed(c) /\ c \in Boxes /\ convert_box(c) = c
<1> DEFINE c == Narrow!convert_box(box)
<1>1. c.min \in Narrow!Vectors /\ c.max \in Narrow!Vectors
  BY Conversions DEF Narrow!convert_box, Narrow!Vectors, Boxes
<1>2. c \in Boxes
  BY <1>1, Conversions DEF Narrow!convert_box, Boxes
<1>3. \A v \in Vectors : convert(v) = v
  BY Conversions DEF convert
<1>4. convert_box(c) = c
  BY <1>2, <1>3 DEF convert_box, Boxes
<1>5. Narrowed(c)
  BY <1>1 DEF Narrowed, Narrow!Vectors
<1> QED BY <1>2, <1>4, <1>5

(* The boxes the calls make have their corners in order, but for those     *)
(* that come from the narrower type.                                       *)
THEOREM TypeCorrect == Spec => []TypeOK
<1>1. Init => TypeOK
  BY DEF Init, TypeOK, default, zero, Boxes, Ordered
<1>2. TypeOK /\ [Next]_vars => TypeOK'
  <2> SUFFICES ASSUME TypeOK, [Next]_vars PROVE TypeOK'
    OBVIOUS
  <2>1. CASE Construct
    <3>1. \A p \in Points : p \in Vectors
      BY DEF Points
    <3> QED BY <2>1, <3>1, BoxOfCorners DEF Construct, TypeOK
  <2>2. CASE Union
    <3>1. min(a.min, b.min) \in Vectors /\ max(a.max, b.max) \in Vectors
      BY MinMax DEF TypeOK, Boxes
    <3> QED BY <2>2, <3>1, BoxOfCorners DEF Union, make_union, TypeOK
  <2>3. CASE UnionPoint
    <3>1. PICK p \in Points : a' = make_union_point(a, p) /\ b' = b
      BY <2>3 DEF UnionPoint
    <3>2. p \in Vectors
      BY DEF Points
    <3>3. min(a.min, p) \in Vectors /\ max(a.max, p) \in Vectors
      BY <3>2, MinMax DEF TypeOK, Boxes
    <3> QED BY <3>1, <3>3, BoxOfCorners DEF make_union_point, TypeOK
  <2>4. CASE Swap
    BY <2>4 DEF Swap, TypeOK
  <2>5. CASE NarrowAndBack
    BY <2>5, BoxThroughNarrow DEF NarrowAndBack, TypeOK
  <2>6. CASE UNCHANGED vars
    BY <2>6 DEF vars, TypeOK
  <2> QED BY <2>1, <2>2, <2>3, <2>4, <2>5, <2>6 DEF Next
<1> QED BY <1>1, <1>2, PTL DEF Spec
-----------------------------------------------------------------------------
(* The corners of a box that is not empty: its least and its last point.   *)
Last(box) == vec2(box.max.x - 1, box.max.y - 1)

LEMMA CornersInside ==
  ASSUME NEW box \in Boxes, ~empty(box)
  PROVE  /\ box.min \in Region(box) /\ Last(box) \in Region(box)
BY DEF Boxes, empty, Region, contains_point, Last

LEMMA EmptyRegion ==
  ASSUME NEW box \in Boxes
  PROVE  empty(box) <=> Region(box) = {}
<1>1. CASE empty(box)
  BY <1>1 DEF Boxes, empty, Region, contains_point
<1>2. CASE ~empty(box)
  BY <1>2, CornersInside
<1> QED BY <1>1, <1>2

LEMMA InclusionOfRegions ==
  ASSUME NEW c \in Boxes, NEW d \in Boxes
  PROVE  contains(c, d) <=> Region(d) # {} /\ Region(d) \subseteq Region(c)
<1>1. ASSUME contains(c, d)
      PROVE  Region(d) # {} /\ Region(d) \subseteq Region(c)
  <2>1. Region(d) # {}
    BY <1>1, EmptyRegion DEF contains
  <2>2. Region(d) \subseteq Region(c)
    BY <1>1 DEF contains, Region, contains_point, Boxes
  <2> QED BY <2>1, <2>2
<1>2. ASSUME Region(d) # {}, Region(d) \subseteq Region(c)
      PROVE  contains(c, d)
  <2>1. ~empty(d)
    BY <1>2, EmptyRegion
  <2>2. d.min \in Region(c) /\ Last(d) \in Region(c)
    BY <1>2, <2>1, CornersInside
  <2> QED BY <2>1, <2>2 DEF contains, Region, contains_point, Last, Boxes
<1> QED BY <1>1, <1>2

LEMMA OverlapOfRegions ==
  ASSUME NEW c \in Boxes, NEW d \in Boxes
  PROVE  intersects(c, d) <=> Region(c) \cap Region(d) # {}
<1>1. ASSUME intersects(c, d)
      PROVE  Region(c) \cap Region(d) # {}
  <2>1. c.min \in Vectors /\ d.min \in Vectors
    BY DEF Boxes
  <2>2. max(c.min, d.min) \in Vectors
    BY <2>1, MinMax
  <2>3. max(c.min, d.min) \in Region(c)
    BY <1>1, <2>1, <2>2, MinMax DEF intersects, empty, Region, contains_point, Boxes
  <2>4. max(c.min, d.min) \in Region(d)
    BY <1>1, <2>1, <2>2, MinMax DEF intersects, empty, Region, contains_point, Boxes
  <2> QED BY <2>3, <2>4
<1>2. ASSUME NEW p \in Region(c) \cap Region(d)
      PROVE  intersects(c, d)
  BY <1>2 DEF intersects, empty, Region, contains_point, Boxes
<1> QED BY <1>1, <1>2

(* make_union takes the outer corners if one of the boxes has a point.     *)
LEMMA UnionCorners ==
  ASSUME NEW c \in Boxes, NEW d \in Boxes, ~empty(c) \/ ~empty(d)
  PROVE  /\ make_union(c, d) \in Boxes
         /\ make_union(c, d).min = min(c.min, d.min)
         /\ make_union(c, d).max = max(c.max, d.max)
BY DEF make_union, box2, min, max, Lesser, Greater, empty, Boxes

(* In one coordinate: what lies between the narrowed ends of an interval   *)
(* is the narrowed image of something in the interval.                     *)
LEMMA NarrowInterval ==
  ASSUME NEW m \in Scalars, NEW n \in Scalars, m <= n,
         NEW p \in Narrow!Scalars, Narrow!Wrap(m) <= p, p < Narrow!Wrap(n)
  PROVE  \E q \in Scalars : m <= q /\ q < n /\ Narrow!Wrap(q) = p
<1> DEFINE h == NarrowHalf
           D == 2 * h
           j == (m + h) \div D
           k == (n + h) \div D
           q == p + D * j
<1>1. D \in Int /\ D > 0 /\ h \in Int /\ p \in -h .. h - 1
  BY DEF Narrow!Scalars, Narrow!Signed
<1>2. /\ j \in Int /\ m + h = D * j + ((m + h) % D)
      /\ k \in Int /\ n + h = D * k + ((n + h) % D)
  <2>1. m + h \in Int /\ n + h \in Int
    BY <1>1
  <2> HIDE DEF D, h
  <2> QED BY <1>1, <2>1, Division
<1>3. D * j <= D * k
  <2>1. m + h \in Int /\ n + h \in Int /\ m + h <= n + h
    BY <1>1
  <2> HIDE DEF D, h
  <2> QED BY <1>1, <2>1, QuotientMonotonic
<1>4. /\ Narrow!Wrap(m) = ((m + h) % D) - h /\ Narrow!Wrap(n) = ((n + h) % D) - h
      /\ Narrow!Wrap(q) = ((q + h) % D) - h
  BY DEF Narrow!Wrap
<1>5. (m + h) % D \in Int /\ (n + h) % D \in Int
  BY <1>1
<1>6. D * j \in Int /\ D * k \in Int
  BY <1>1, <1>2
<1>7. (q + h) % D = p + h
  <2>1. p + h \in 0 .. D - 1 /\ q + h = (p + h) + D * j
    BY <1>1, <1>6
  <2> HIDE DEF D, h, j, q
  <2>2. ((p + h) + D * j) % D = p + h
    BY <1>1, <1>2, <2>1, RemainderUnique
  <2> QED BY <2>1, <2>2
<1> HIDE DEF D, j, k
<1>8. q \in Scalars /\ m <= q /\ q < n
  BY <1>1, <1>2, <1>3, <1>4, <1>5, <1>6
<1> HIDE DEF h, q
<1>9. Narrow!Wrap(q) = p
  BY <1>1, <1>4, <1>7
<1> QED BY <1>8, <1>9
-----------------------------------------------------------------------------
(* empty() is true exactly of the boxes without a point.                   *)
THEOREM Emptiness == Spec => []EmptyHasNoPoint
<1>1. TypeOK => EmptyHasNoPoint
  BY EmptyRegion DEF TypeOK, EmptyHasNoPoint
<1> QED BY <1>1, TypeCorrect, PTL

(* contains() is inclusion of a non-empty set of points.                   *)
THEOREM Containment == Spec => []ContainsIsInclusion
<1>1. TypeOK => ContainsIsInclusion
  BY InclusionOfRegions DEF TypeOK, ContainsIsInclusion
<1> QED BY <1>1, TypeCorrect, PTL

(* intersects() is having a point in common.                               *)
THEOREM Intersection == Spec => []IntersectsIsOverlap
<1>1. TypeOK => IntersectsIsOverlap
  BY OverlapOfRegions DEF TypeOK, IntersectsIsOverlap
<1> QED BY <1>1, TypeCorrect, PTL

(* make_union() with a point keeps every point of the box.                 *)
LEMMA PointUnionGrows ==
  ASSUME NEW c \in Boxes, NEW p \in Vectors
  PROVE  /\ Region(c) \subseteq Region(make_union_point(c, p))
         /\ contains_point(make_union_point(c, p), p) <=> p.x < c.max.x /\ p.y < c.max.y
<1>1. /\ make_union_point(c, p).min = min(c.min, p)
      /\ make_union_point(c, p).max = max(c.max, p)
  BY DEF make_union_point, box2, min, max, Lesser, Greater, Boxes
<1>2. Region(c) \subseteq Region(make_union_point(c, p))
  BY <1>1, MinMax DEF Region, contains_point, Boxes
<1>3. contains_point(make_union_point(c, p), p) <=> p.x < c.max.x /\ p.y < c.max.y
  BY <1>1 DEF contains_point, min, max, Lesser, Greater, Boxes
<1> QED BY <1>2, <1>3

(* Unions lose no point, gain the added one only below the upper corner,   *)
(* and make_union() of two non-empty boxes is the least box that has both. *)
THEOREM LeastUnion == Spec => []UnionIsLeastBox
<1>1. ASSUME TypeOK PROVE UnionIsLeastBox
  <2> DEFINE c == make_union(a, b)
  <2>1. a \in Boxes /\ b \in Boxes
    BY <1>1 DEF TypeOK
  <2>2. ASSUME ~empty(a) \/ ~empty(b)
        PROVE  /\ c \in Boxes /\ c.min = min(a.min, b.min) /\ c.max = max(a.max, b.max)
               /\ Region(a) \cup Region(b) \subseteq Region(c)
    <3>1. c \in Boxes /\ c.min = min(a.min, b.min) /\ c.max = max(a.max, b.max)
      BY <2>1, <2>2, UnionCorners
    <3>2. Region(a) \cup Region(b) \subseteq Region(c)
      BY <2>1, <3>1, MinMax DEF Region, contains_point, Boxes
    <3> QED BY <3>1, <3>2
  <2>3. Region(a) \cup Region(b) \subseteq Region(c)
    BY <2>1, <2>2, EmptyRegion
  <2>4. ASSUME ~empty(a), NEW p \in Points, NEW q \in Points,
               contains(box2(p, q), a), contains(box2(p, q), b)
        PROVE  contains(box2(p, q), c)
    <3>1. ~empty(c)
      BY <2>1, <2>2, <2>4, EmptyRegion
    <3> QED BY <2>1, <2>2, <2>4, <3>1, MinMax DEF contains, Boxes
  <2>5. ASSUME NEW p \in Points
        PROVE  /\ Region(a) \subseteq Region(make_union_point(a, p))
               /\ contains_point(make_union_point(a, p), p)
                    <=> p.x < a.max.x /\ p.y < a.max.y
    BY <2>1, PointUnionGrows DEF Points
  <2> QED BY <2>3, <2>4, <2>5 DEF UnionIsLeastBox
<1> QED BY <1>1, TypeCorrect, PTL

(* Bounds of ordered boxes do not depend on the order they are grown in,   *)
(* though growing them from the default box may add to them.               *)
THEOREM AnyOrder == Spec => []BoundsInAnyOrder
<1> USE DEF min, max, Lesser, Greater
<1>1. ASSUME NEW c \in Boxes, NEW d \in Boxes, Ordered(c), Ordered(d)
      PROVE  make_union(c, d) = [min |-> min(c.min, d.min), max |-> max(c.max, d.max)]
  BY <1>1 DEF make_union, box2, Ordered, Boxes
<1>2. ASSUME NEW c \in Boxes, NEW p \in Vectors
      PROVE  make_union_point(c, p) = [min |-> min(c.min, p), max |-> max(c.max, p)]
  BY <1>2 DEF make_union_point, box2, Boxes
<1>3. ASSUME TypeOK, Ordered(a), Ordered(b), NEW p \in Points
      PROVE  make_union_point(make_union(a, b), p) = make_union(make_union_point(a, p), b)
  <2>1. a \in Boxes /\ b \in Boxes /\ p \in Vectors
    BY <1>3 DEF TypeOK, Points
  <2> DEFINE c == make_union(a, b)
             d == make_union_point(a, p)
  <2>2. c = [min |-> min(a.min, b.min), max |-> max(a.max, b.max)] /\ c \in Boxes
    BY <1>1, <1>3, <2>1 DEF Boxes
  <2>3. /\ d = [min |-> min(a.min, p), max |-> max(a.max, p)]
        /\ d \in Boxes /\ Ordered(d)
    BY <1>2, <1>3, <2>1 DEF Boxes, Ordered
  <2>4. make_union_point(c, p) = [min |-> min(min(a.min, b.min), p), max |-> max(max(a.max, b.max), p)]
    <3> HIDE DEF c, min, max
    <3> QED BY <1>2, <2>1, <2>2
  <2>5. make_union(d, b) = [min |-> min(min(a.min, p), b.min), max |-> max(max(a.max, p), b.max)]
    <3> HIDE DEF d, min, max
    <3> QED BY <1>1, <1>3, <2>1, <2>3
  <2>6. /\ min(min(a.min, b.min), p) = min(min(a.min, p), b.min)
        /\ max(max(a.max, b.max), p) = max(max(a.max, p), b.max)
    BY <2>1 DEF Boxes
  <2> QED BY <2>4, <2>5, <2>6
<1>4. ASSUME TypeOK, Ordered(a), Ordered(b)
      PROVE  make_union(a, b) = make_union(b, a)
  BY <1>1, <1>4 DEF TypeOK, Boxes
<1>5. ASSUME TypeOK, Ordered(a)
      PROVE  make_union(default, a) = a <=>
               a.min.x <= 0 /\ a.min.y <= 0 /\ 0 <= a.max.x /\ 0 <= a.max.y
  <2>1. default \in Boxes /\ Ordered(default) /\ default = [min |-> zero, max |-> zero]
    BY DEF default, zero, Boxes, Ordered
  <2>2. a \in Boxes /\ a = [min |-> a.min, max |-> a.max]
    BY <1>5 DEF TypeOK, Boxes
  <2>3. make_union(default, a) = [min |-> min(zero, a.min), max |-> max(zero, a.max)]
    <3> HIDE DEF min, max
    <3> QED BY <1>1, <1>5, <2>1, <2>2
  <2>4. min(zero, a.min) = a.min <=> a.min.x <= 0 /\ a.min.y <= 0
    BY <2>2 DEF zero, Boxes
  <2>5. max(zero, a.max) = a.max <=> 0 <= a.max.x /\ 0 <= a.max.y
    BY <2>2 DEF zero, Boxes
  <2> HIDE DEF min, max
  <2> QED BY <2>2, <2>3, <2>4, <2>5
<1>6. TypeOK => BoundsInAnyOrder
  <2> HIDE DEF min, max
  <2> QED BY <1>3, <1>4, <1>5 DEF BoundsInAnyOrder
<1> QED BY <1>6, TypeCorrect, PTL

(* Narrowing a box makes up no point.                                      *)
THEOREM NarrowedPoints == Spec => []NarrowingAddsNoPoint
<1>1. ASSUME TypeOK, NEW p \in Vectors,
             contains_point(Narrow!convert_box(a), p)
      PROVE  \E q \in Region(a) : p = Narrow!convert(q)
  <2>1. /\ a \in Boxes
        /\ a.min.x \in Scalars /\ a.max.x \in Scalars
        /\ a.min.y \in Scalars /\ a.max.y \in Scalars
    BY <1>1 DEF TypeOK, Boxes
  <2>2. p.x \in Scalars /\ p.y \in Scalars /\ p = vec2(p.x, p.y)
    OBVIOUS
  <2>3. /\ Narrow!Wrap(a.min.x) <= p.x /\ p.x < Narrow!Wrap(a.max.x)
        /\ Narrow!Wrap(a.min.y) <= p.y /\ p.y < Narrow!Wrap(a.max.y)
    BY <1>1, <2>1, Conversions DEF Narrow!convert_box, contains_point
  <2>4. p.x \in Narrow!Scalars /\ p.y \in Narrow!Scalars
    <3>1. /\ Narrow!Wrap(a.min.x) \in Narrow!Scalars /\ Narrow!Wrap(a.max.x) \in Narrow!Scalars
          /\ Narrow!Wrap(a.min.y) \in Narrow!Scalars /\ Narrow!Wrap(a.max.y) \in Narrow!Scalars
      BY <2>1, Conversions
    <3> QED BY <2>2, <2>3, <3>1 DEF Narrow!Scalars, Narrow!Signed
  <2>5. CASE Ordered(a)
    <3>1. PICK x \in Scalars : a.min.x <= x /\ x < a.max.x /\ Narrow!Wrap(x) = p.x
      BY <2>1, <2>3, <2>4, <2>5, NarrowInterval DEF Ordered
    <3>2. PICK y \in Scalars : a.min.y <= y /\ y < a.max.y /\ Narrow!Wrap(y) = p.y
      BY <2>1, <2>3, <2>4, <2>5, NarrowInterval DEF Ordered
    <3>3. vec2(x, y) \in Region(a)
      BY <3>1, <3>2 DEF Region, contains_point
    <3>4. Narrow!convert(vec2(x, y)) = p
      BY <2>2, <3>1, <3>2, Conversions
    <3> QED BY <3>3, <3>4
  <2>6. CASE Narrowed(a)
    <3>1. \A n \in Narrow!Scalars : Narrow!Wrap(n) = n
      <4>1. \A n \in Narrow!Scalars : n + NarrowHalf \in 0 .. 2 * NarrowHalf - 1
        BY DEF Narrow!Scalars, Narrow!Signed
      <4>2. \A n \in Narrow!Scalars : (n + NarrowHalf) % (2 * NarrowHalf) = n + NarrowHalf
        BY <4>1
      <4> QED BY <4>1, <4>2 DEF Narrow!Wrap, Narrow!Scalars, Narrow!Signed
    <3>2. /\ a.min.x \in Narrow!Scalars /\ a.max.x \in Narrow!Scalars
          /\ a.min.y \in Narrow!Scalars /\ a.max.y \in Narrow!Scalars
      BY <2>6 DEF Narrowed
    <3>3. p \in Region(a)
      BY <2>3, <3>1, <3>2 DEF Region, contains_point
    <3>4. Narrow!convert(p) = p
      BY <2>2, <2>4, <3>1, Conversions
    <3> QED BY <3>3, <3>4
  <2> QED BY <1>1, <2>5, <2>6 DEF TypeOK
<1>2. TypeOK => NarrowingAddsNoPoint
  BY <1>1 DEF NarrowingAddsNoPoint
<1> QED BY <1>2, TypeCorrect, PTL
-----------------------------------------------------------------------------
(* Where T is the type the arithmetic is done in: one coordinate of the    *)
(* centre, when the size does not overflow.                                *)
LEMMA Middle ==
  ASSUME OpHalf = Half, NEW m \in Scalars, NEW n \in Scalars, m < n, n - m < OpHalf,
         NEW d \in Cast(n - m), NEW h \in Ratio(d, 2), NEW c \in Cast(m + h)
  PROVE  m <= c /\ c < n
<1>1. \A i \in Scalars : Cast(i) = {i}
  BY Conversions DEF Cast
<1>2. n - m \in Scalars /\ n - m > 0
  OBVIOUS
<1>3. d = n - m
  BY <1>1, <1>2
<1>4. Quotient(d, 2) = d \div 2
  BY <1>2, <1>3 DEF Quotient, Abs
<1>5. d \div 2 \in Int /\ 0 <= d \div 2 /\ d \div 2 < d
  BY <1>2, <1>3
<1>6. h = d \div 2
  <2>1. d \div 2 \in Scalars
    BY <1>2, <1>3, <1>5
  <2> QED BY <1>1, <1>4, <2>1 DEF Ratio
<1>7. m + h \in Scalars /\ m <= m + h /\ m + h < n
  BY <1>2, <1>3, <1>5, <1>6
<1> QED BY <1>1, <1>7

(* The centre of a box of ints is in the box, if it has a point and a size *)
(* that is an int.                                                         *)
THEOREM CentreInBox ==
  ASSUME OpHalf = Half
  PROVE  Spec => []CenterInside
<1>1. ASSUME TypeOK PROVE CenterInside
  <2> SUFFICES ASSUME ~empty(a), a.max.x - a.min.x < OpHalf, a.max.y - a.min.y < OpHalf,
                      NEW d \in Minus(a.max, a.min), NEW h \in Over(d, 2),
                      NEW c \in Plus(a.min, h)
               PROVE  contains_point(a, c)
    BY DEF CenterInside, center
  <2>1. /\ a.min.x \in Scalars /\ a.min.y \in Scalars /\ a.max.x \in Scalars
        /\ a.max.y \in Scalars /\ a.min.x < a.max.x /\ a.min.y < a.max.y
    BY <1>1 DEF TypeOK, Boxes, empty
  <2>2. d.x \in Cast(a.max.x - a.min.x) /\ d.y \in Cast(a.max.y - a.min.y)
    BY DEF Minus
  <2>3. h.x \in Ratio(d.x, 2) /\ h.y \in Ratio(d.y, 2)
    BY DEF Over
  <2>4. c.x \in Cast(a.min.x + h.x) /\ c.y \in Cast(a.min.y + h.y)
    BY DEF Plus
  <2>5. a.min.x <= c.x /\ c.x < a.max.x /\ a.min.y <= c.y /\ c.y < a.max.y
    BY <2>1, <2>2, <2>3, <2>4, Middle
  <2> QED BY <2>5 DEF contains_point
<1> QED BY <1>1, TypeCorrect, PTL
=============================================================================
