--------------------------- MODULE FloatBoxProofs ---------------------------
(* Boxes of a floating-point T, for any numbers, infinities and NaN.       *)
EXTENDS FloatBox, TLAPS

USE FloatAssumption

(* A comparison holds of numbers only, and orders them.                    *)
LEMMA Comparisons ==
  /\ \A m, n \in Scalars : Less(m, n) => m \in Numbers /\ n \in Numbers
  /\ \A m, n \in Scalars : AtMost(m, n) => m \in Numbers /\ n \in Numbers
  /\ \A m, n \in Numbers : /\ Less(m, n) <=> m < n
                           /\ AtMost(m, n) <=> m <= n
BY DEF Less, AtMost, Scalars, Numbers

(* One axis of what min and max make of well-formed arguments.             *)
LEMMA AxisOfCorners ==
  ASSUME NEW m \in Scalars, NEW n \in Scalars
  PROVE  /\ Lesser(m, n) \in Scalars /\ Greater(m, n) \in Scalars
         /\ WellFormed(Lesser(m, n), Greater(m, n))
         /\ Lesser(m, n) = NaN <=> m = NaN
         /\ Greater(m, n) = NaN <=> m = NaN
<1>1. CASE m = NaN \/ n = NaN
  BY <1>1 DEF Lesser, Greater, Less, WellFormed, Scalars, Numbers
<1>2. CASE m # NaN /\ n # NaN
  <2>1. m \in Int /\ n \in Int /\ m \in Numbers /\ n \in Numbers
    BY <1>2 DEF Scalars, Numbers
  <2> QED BY <1>2, <2>1 DEF Lesser, Greater, Less, WellFormed, Scalars, Numbers
<1> QED BY <1>1, <1>2

(* One axis of a union: it keeps what lies between its first arguments.    *)
LEMMA AxisGrows ==
  ASSUME NEW low \in Scalars, NEW high \in Scalars, NEW m \in Scalars, NEW n \in Scalars,
         NEW p \in Scalars, AtMost(low, p), Less(p, high)
  PROVE  /\ AtMost(Lesser(Lesser(low, m), Greater(high, n)), p)
         /\ Less(p, Greater(Lesser(low, m), Greater(high, n)))
<1>1. low \in Numbers /\ high \in Numbers /\ p \in Numbers /\ low <= p /\ p < high
  BY Comparisons
<1> DEFINE l == Lesser(low, m)
           h == Greater(high, n)
<1>2. l \in Numbers /\ l <= low
  <2>1. CASE m \in Numbers
    BY <1>1, <2>1, Comparisons DEF Lesser, Numbers
  <2>2. CASE m = NaN
    BY <1>1, <2>2 DEF Lesser, Less, Numbers
  <2> QED BY <2>1, <2>2 DEF Scalars
<1>3. h \in Numbers /\ high <= h
  <2>1. CASE n \in Numbers
    BY <1>1, <2>1, Comparisons DEF Greater, Numbers
  <2>2. CASE n = NaN
    BY <1>1, <2>2 DEF Greater, Less, Numbers
  <2> QED BY <2>1, <2>2 DEF Scalars
<1> HIDE DEF l, h
<1>4. l <= p /\ p < h /\ l < h
  BY <1>1, <1>2, <1>3 DEF Numbers
<1>5. Lesser(l, h) = l /\ Greater(l, h) = h
  BY <1>2, <1>3, <1>4, Comparisons DEF Lesser, Greater, Numbers
<1> QED BY <1>1, <1>2, <1>3, <1>4, <1>5, Comparisons DEF l, h

LEMMA VectorParts ==
  /\ \A v \in Vectors : v.x \in Scalars /\ v.y \in Scalars /\ v = vec2(v.x, v.y)
  /\ \A x, y \in Scalars : vec2(x, y) \in Vectors
  /\ \A x, y : vec2(x, y).x = x /\ vec2(x, y).y = y
BY DEF Vectors, vec2

LEMMA BoxParts ==
  /\ \A box \in Boxes : box.min \in Vectors /\ box.max \in Vectors
  /\ \A p, q : box2(p, q).min = min(p, q) /\ box2(p, q).max = max(p, q)
BY DEF Boxes, box2

(* A box of the library's making, axis by axis.                            *)
Sound(box) == /\ box \in Boxes
              /\ WellFormed(box.min.x, box.max.x)
              /\ WellFormed(box.min.y, box.max.y)

LEMMA BoxOfCorners ==
  ASSUME NEW p \in Vectors, NEW q \in Vectors
  PROVE  /\ Sound(box2(p, q))
         /\ min(p, q) \in Vectors /\ max(p, q) \in Vectors
<1>1. p.x \in Scalars /\ p.y \in Scalars /\ q.x \in Scalars /\ q.y \in Scalars
  BY VectorParts
<1>2. min(p, q) \in Vectors /\ max(p, q) \in Vectors
  BY <1>1, VectorParts, AxisOfCorners DEF min, max
<1>3. box2(p, q) \in Boxes
  BY <1>2 DEF box2, Boxes
<1>4. /\ WellFormed(box2(p, q).min.x, box2(p, q).max.x)
      /\ WellFormed(box2(p, q).min.y, box2(p, q).max.y)
  <2>1. /\ box2(p, q).min.x = Lesser(p.x, q.x) /\ box2(p, q).max.x = Greater(p.x, q.x)
        /\ box2(p, q).min.y = Lesser(p.y, q.y) /\ box2(p, q).max.y = Greater(p.y, q.y)
    BY BoxParts, VectorParts DEF min, max
  <2> QED BY <1>1, <2>1, AxisOfCorners
<1> QED BY <1>2, <1>3, <1>4 DEF Sound

(* What normalised gives, of any vector of numbers.                        *)
LEMMA InputsAreVectors == Inputs \subseteq Vectors
<1>1. \A n \in Numbers, l \in {0, 1, Top} : Quotients(n, l) \subseteq Scalars
  BY DEF Quotients, Numbers, Scalars
<1>2. Points \subseteq [x : Numbers, y : Numbers]
  <2>1. \A n \in Coords : n \in Numbers
    BY DEF Numbers
  <2> QED BY <2>1 DEF Points
<1>3. ASSUME NEW v \in Points PROVE normalised(v) \subseteq Vectors
  <2>1. v.x \in Numbers /\ v.y \in Numbers
    BY <1>2
  <2>2. Lengths(v) \subseteq {0, 1, Top}
    BY DEF Lengths
  <2>3. NaN \notin {v.x, v.y}
    BY <2>1 DEF Numbers
  <2>4. normalised(v) = UNION {{vec2(x, y) : x \in Quotients(v.x, l), y \in Quotients(v.y, l)} :
                             l \in Lengths(v)}
    BY <2>3 DEF normalised
  <2>5. ASSUME NEW w \in normalised(v) PROVE w \in Vectors
    <3>1. PICK l \in Lengths(v) :
            w \in {vec2(x, y) : x \in Quotients(v.x, l), y \in Quotients(v.y, l)}
      BY <2>4, <2>5
    <3>2. PICK x \in Quotients(v.x, l), y \in Quotients(v.y, l) : w = vec2(x, y)
      BY <3>1
    <3>3. x \in Scalars /\ y \in Scalars
      BY <1>1, <2>1, <2>2
    <3> QED BY <3>2, <3>3, VectorParts
  <2> QED BY <2>5
<1>4. Points \subseteq Vectors
  BY <1>2 DEF Vectors, Scalars
<1> QED BY <1>3, <1>4 DEF Inputs

(* Boxes have NaN in both corners of an axis or in none, and their corners *)
(* in order, whatever they were made of.                                   *)
THEOREM TypeCorrect == Spec => []TypeOK
<1> DEFINE Inv == Sound(a) /\ Sound(b)
<1>1. Init => Inv
  <2>1. zero \in Vectors
    BY VectorParts DEF zero, Scalars, Numbers
  <2> QED BY <2>1, BoxOfCorners DEF Init
<1>2. Inv /\ [Next]_vars => Inv'
  <2> SUFFICES ASSUME Inv, [Next]_vars PROVE Inv'
    OBVIOUS
  <2>1. a.min \in Vectors /\ a.max \in Vectors /\ b.min \in Vectors /\ b.max \in Vectors
    BY BoxParts DEF Sound
  <2>2. CASE Construct
    <3>1. PICK p, q \in Inputs : a' = box2(p, q) /\ b' = b
      BY <2>2 DEF Construct
    <3> QED BY <3>1, InputsAreVectors, BoxOfCorners
  <2>3. CASE Union
    BY <2>1, <2>3, BoxOfCorners DEF Union, make_union
  <2>4. CASE UnionPoint
    <3>1. PICK p \in Inputs : a' = make_union_point(a, p) /\ b' = b
      BY <2>4 DEF UnionPoint
    <3>2. p \in Vectors
      BY InputsAreVectors
    <3> QED BY <2>1, <3>1, <3>2, BoxOfCorners DEF make_union_point
  <2>5. CASE Swap
    BY <2>5 DEF Swap
  <2>6. CASE UNCHANGED vars
    BY <2>6 DEF vars
  <2> QED BY <2>2, <2>3, <2>4, <2>5, <2>6 DEF Next
<1>3. Inv => TypeOK
  BY DEF Sound, TypeOK
<1> QED BY <1>1, <1>2, <1>3, PTL DEF Spec

(* A union has the NaN of its first argument and all of its points.        *)
LEMMA Grown ==
  ASSUME NEW box \in Boxes, NEW p \in Vectors, NEW q \in Vectors
  PROVE  LET c == box2(min(box.min, p), max(box.max, q)) IN
         /\ c.min.x = NaN <=> box.min.x = NaN
         /\ c.min.y = NaN <=> box.min.y = NaN
         /\ Region(box) \subseteq Region(c)
<1> DEFINE c == box2(min(box.min, p), max(box.max, q))
<1>1. /\ box.min.x \in Scalars /\ box.min.y \in Scalars
      /\ box.max.x \in Scalars /\ box.max.y \in Scalars
      /\ p.x \in Scalars /\ p.y \in Scalars /\ q.x \in Scalars /\ q.y \in Scalars
  BY BoxParts, VectorParts
<1>2. /\ c.min.x = Lesser(Lesser(box.min.x, p.x), Greater(box.max.x, q.x))
      /\ c.min.y = Lesser(Lesser(box.min.y, p.y), Greater(box.max.y, q.y))
      /\ c.max.x = Greater(Lesser(box.min.x, p.x), Greater(box.max.x, q.x))
      /\ c.max.y = Greater(Lesser(box.min.y, p.y), Greater(box.max.y, q.y))
  BY BoxParts, VectorParts DEF min, max
<1> HIDE DEF c
<1>3. (c.min.x = NaN <=> box.min.x = NaN) /\ (c.min.y = NaN <=> box.min.y = NaN)
  BY <1>1, <1>2, AxisOfCorners
<1>4. Region(box) \subseteq Region(c)
  <2> SUFFICES ASSUME NEW r \in Region(box) PROVE r \in Region(c)
    OBVIOUS
  <2>1. r \in Vectors /\ r.x \in Scalars /\ r.y \in Scalars
    BY VectorParts DEF Region
  <2>2. /\ AtMost(box.min.x, r.x) /\ Less(r.x, box.max.x)
        /\ AtMost(box.min.y, r.y) /\ Less(r.y, box.max.y)
    BY DEF Region, contains_point
  <2>3. AtMost(c.min.x, r.x) /\ Less(r.x, c.max.x)
    <3>1. /\ AtMost(Lesser(Lesser(box.min.x, p.x), Greater(box.max.x, q.x)), r.x)
          /\ Less(r.x, Greater(Lesser(box.min.x, p.x), Greater(box.max.x, q.x)))
      BY <1>1, <2>1, <2>2, AxisGrows
    <3> QED BY <1>2, <3>1
  <2>4. AtMost(c.min.y, r.y) /\ Less(r.y, c.max.y)
    <3>1. /\ AtMost(Lesser(Lesser(box.min.y, p.y), Greater(box.max.y, q.y)), r.y)
          /\ Less(r.y, Greater(Lesser(box.min.y, p.y), Greater(box.max.y, q.y)))
      BY <1>1, <2>1, <2>2, AxisGrows
    <3> QED BY <1>2, <3>1
  <2> QED BY <2>1, <2>3, <2>4 DEF Region, contains_point
<1> QED BY <1>3, <1>4 DEF c

(* A NaN comes into a box with its own corners only and nothing is lost.   *)
THEOREM FirstKeeps == Spec => []NaNIsOfFirst
<1>1. ASSUME TypeOK PROVE NaNIsOfFirst
  <2>1. a \in Boxes /\ b.min \in Vectors /\ b.max \in Vectors
    BY <1>1, BoxParts DEF TypeOK
  <2>2. Inputs \subseteq Vectors
    BY InputsAreVectors
  <2> QED BY <2>1, <2>2, Grown DEF NaNIsOfFirst, make_union, make_union_point
<1> QED BY <1>1, TypeCorrect, PTL
-----------------------------------------------------------------------------
(* A box with a point has numbers for corners, in order.                   *)
Last(box) == vec2(box.max.x - 1, box.max.y - 1)
Proper(box) ==
  /\ box.min.x \in Numbers /\ box.min.y \in Numbers
  /\ box.max.x \in Numbers /\ box.max.y \in Numbers
  /\ box.min.x < box.max.x /\ box.min.y < box.max.y

LEMMA ProperBoxes ==
  ASSUME NEW box \in Boxes
  PROVE  /\ Region(box) # {} => Proper(box)
         /\ Proper(box) => /\ ~empty(box)
                           /\ box.min \in Region(box) /\ Last(box) \in Region(box)
<1>1. /\ box.min \in Vectors
      /\ box.min.x \in Scalars /\ box.min.y \in Scalars
      /\ box.max.x \in Scalars /\ box.max.y \in Scalars
  BY BoxParts, VectorParts
<1>2. ASSUME NEW p \in Region(box) PROVE Proper(box)
  <2>1. /\ p.x \in Scalars /\ p.y \in Scalars
        /\ AtMost(box.min.x, p.x) /\ Less(p.x, box.max.x)
        /\ AtMost(box.min.y, p.y) /\ Less(p.y, box.max.y)
    BY VectorParts DEF Region, contains_point
  <2>2. /\ box.min.x \in Numbers /\ p.x \in Numbers /\ box.max.x \in Numbers
        /\ box.min.y \in Numbers /\ p.y \in Numbers /\ box.max.y \in Numbers
    BY <1>1, <2>1, Comparisons
  <2>3. box.min.x <= p.x /\ p.x < box.max.x /\ box.min.y <= p.y /\ p.y < box.max.y
    BY <2>1, <2>2, Comparisons
  <2> QED BY <2>2, <2>3 DEF Proper, Numbers
<1>3. ASSUME Proper(box)
      PROVE  ~empty(box) /\ box.min \in Region(box) /\ Last(box) \in Region(box)
  <2>1. ~empty(box)
    BY <1>3, Comparisons DEF Proper, empty, Numbers
  <2>2. box.min \in Region(box)
    BY <1>1, <1>3, Comparisons DEF Proper, Region, contains_point, Numbers
  <2>3. /\ box.max.x - 1 \in Numbers /\ box.min.x <= box.max.x - 1 /\ box.max.x - 1 < box.max.x
        /\ box.max.y - 1 \in Numbers /\ box.min.y <= box.max.y - 1 /\ box.max.y - 1 < box.max.y
    BY <1>3 DEF Proper, Numbers
  <2>4. Last(box) \in Vectors
    BY <2>3, VectorParts DEF Last, Scalars
  <2>5. /\ AtMost(box.min.x, box.max.x - 1) /\ Less(box.max.x - 1, box.max.x)
        /\ AtMost(box.min.y, box.max.y - 1) /\ Less(box.max.y - 1, box.max.y)
    BY <1>3, <2>3, Comparisons DEF Proper
  <2>6. Last(box) \in Region(box)
    BY <2>4, <2>5, VectorParts DEF Region, contains_point, Last
  <2> QED BY <2>1, <2>2, <2>6
<1> QED BY <1>2, <1>3

LEMMA InclusionOfRegions ==
  ASSUME NEW c \in Boxes, NEW d \in Boxes
  PROVE  contains(c, d) <=> Region(d) # {} /\ Region(d) \subseteq Region(c)
<1>0. /\ c.min.x \in Scalars /\ c.min.y \in Scalars /\ c.max.x \in Scalars /\ c.max.y \in Scalars
      /\ d.min.x \in Scalars /\ d.min.y \in Scalars /\ d.max.x \in Scalars /\ d.max.y \in Scalars
  BY BoxParts, VectorParts
<1>1. ASSUME contains(c, d)
      PROVE  Region(d) # {} /\ Region(d) \subseteq Region(c)
  <2>1. /\ c.min.x \in Numbers /\ c.min.y \in Numbers /\ c.max.x \in Numbers /\ c.max.y \in Numbers
        /\ d.min.x \in Numbers /\ d.min.y \in Numbers /\ d.max.x \in Numbers /\ d.max.y \in Numbers
    BY <1>0, <1>1, Comparisons DEF contains
  <2>2. /\ c.min.x <= d.min.x /\ c.min.y <= d.min.y /\ d.max.x <= c.max.x /\ d.max.y <= c.max.y
        /\ ~(d.max.x <= d.min.x) /\ ~(d.max.y <= d.min.y)
    BY <1>1, <2>1, Comparisons DEF contains, empty
  <2>3. Proper(d)
    BY <2>1, <2>2 DEF Proper, Numbers
  <2>4. ASSUME NEW p \in Region(d) PROVE p \in Region(c)
    <3>1. /\ p \in Vectors /\ p.x \in Scalars /\ p.y \in Scalars
          /\ AtMost(d.min.x, p.x) /\ Less(p.x, d.max.x)
          /\ AtMost(d.min.y, p.y) /\ Less(p.y, d.max.y)
      BY VectorParts DEF Region, contains_point
    <3>2. p.x \in Numbers /\ p.y \in Numbers
      BY <1>0, <3>1, Comparisons
    <3>3. d.min.x <= p.x /\ p.x < d.max.x /\ d.min.y <= p.y /\ p.y < d.max.y
      BY <2>1, <3>1, <3>2, Comparisons
    <3>4. c.min.x <= p.x /\ p.x < c.max.x /\ c.min.y <= p.y /\ p.y < c.max.y
      BY <2>1, <2>2, <3>2, <3>3 DEF Numbers
    <3> QED BY <2>1, <3>1, <3>2, <3>4, Comparisons DEF Region, contains_point
  <2> QED BY <2>3, <2>4, ProperBoxes
<1>2. ASSUME Region(d) # {}, Region(d) \subseteq Region(c)
      PROVE  contains(c, d)
  <2>1. Proper(d) /\ Proper(c) /\ ~empty(d)
    BY <1>2, ProperBoxes
  <2>2. d.min \in Region(c) /\ Last(d) \in Region(c)
    BY <1>2, <2>1, ProperBoxes
  <2>3. /\ AtMost(c.min.x, d.min.x) /\ AtMost(c.min.y, d.min.y)
        /\ Less(d.max.x - 1, c.max.x) /\ Less(d.max.y - 1, c.max.y)
    BY <2>2, VectorParts DEF Region, contains_point, Last
  <2>4. d.max.x - 1 \in Numbers /\ d.max.y - 1 \in Numbers
    BY <2>1 DEF Proper, Numbers
  <2>5. d.max.x - 1 < c.max.x /\ d.max.y - 1 < c.max.y
    BY <2>1, <2>3, <2>4, Comparisons DEF Proper
  <2>6. d.max.x <= c.max.x /\ d.max.y <= c.max.y
    BY <2>1, <2>5 DEF Proper, Numbers
  <2>7. AtMost(d.max.x, c.max.x) /\ AtMost(d.max.y, c.max.y)
    BY <2>1, <2>6, Comparisons DEF Proper
  <2> QED BY <2>1, <2>3, <2>7 DEF contains
<1> QED BY <1>1, <1>2

LEMMA OverlapOfRegions ==
  ASSUME NEW c \in Boxes, NEW d \in Boxes
  PROVE  intersects(c, d) <=> Region(c) \cap Region(d) # {}
<1>0. /\ c.min.x \in Scalars /\ c.min.y \in Scalars /\ c.max.x \in Scalars /\ c.max.y \in Scalars
      /\ d.min.x \in Scalars /\ d.min.y \in Scalars /\ d.max.x \in Scalars /\ d.max.y \in Scalars
  BY BoxParts, VectorParts
<1>1. ASSUME intersects(c, d)
      PROVE  Region(c) \cap Region(d) # {}
  <2>1. /\ c.min.x \in Numbers /\ c.min.y \in Numbers /\ c.max.x \in Numbers /\ c.max.y \in Numbers
        /\ d.min.x \in Numbers /\ d.min.y \in Numbers /\ d.max.x \in Numbers /\ d.max.y \in Numbers
    BY <1>0, <1>1, Comparisons DEF intersects
  <2>2. /\ c.min.x < d.max.x /\ c.min.y < d.max.y /\ d.min.x < c.max.x /\ d.min.y < c.max.y
        /\ ~(d.max.x <= d.min.x) /\ ~(d.max.y <= d.min.y)
        /\ ~(c.max.x <= c.min.x) /\ ~(c.max.y <= c.min.y)
    BY <1>1, <2>1, Comparisons DEF intersects, empty
  <2>3. PICK x \in Numbers : c.min.x <= x /\ d.min.x <= x /\ x < c.max.x /\ x < d.max.x
    <3>1. CASE c.min.x <= d.min.x
      BY <2>1, <2>2, <3>1 DEF Numbers
    <3>2. CASE d.min.x <= c.min.x
      BY <2>1, <2>2, <3>2 DEF Numbers
    <3> QED BY <2>1, <3>1, <3>2 DEF Numbers
  <2>4. PICK y \in Numbers : c.min.y <= y /\ d.min.y <= y /\ y < c.max.y /\ y < d.max.y
    <3>1. CASE c.min.y <= d.min.y
      BY <2>1, <2>2, <3>1 DEF Numbers
    <3>2. CASE d.min.y <= c.min.y
      BY <2>1, <2>2, <3>2 DEF Numbers
    <3> QED BY <2>1, <3>1, <3>2 DEF Numbers
  <2>5. vec2(x, y) \in Vectors
    BY VectorParts DEF Scalars
  <2>6. vec2(x, y) \in Region(c) \cap Region(d)
    BY <2>1, <2>3, <2>4, <2>5, VectorParts, Comparisons DEF Region, contains_point
  <2> QED BY <2>6
<1>2. ASSUME NEW p \in Region(c) \cap Region(d)
      PROVE  intersects(c, d)
  <2>1. Proper(c) /\ Proper(d) /\ ~empty(c) /\ ~empty(d)
    BY <1>2, ProperBoxes
  <2>2. /\ p.x \in Scalars /\ p.y \in Scalars
        /\ AtMost(c.min.x, p.x) /\ Less(p.x, c.max.x) /\ AtMost(c.min.y, p.y) /\ Less(p.y, c.max.y)
        /\ AtMost(d.min.x, p.x) /\ Less(p.x, d.max.x) /\ AtMost(d.min.y, p.y) /\ Less(p.y, d.max.y)
    BY <1>2, VectorParts DEF Region, contains_point
  <2>3. p.x \in Numbers /\ p.y \in Numbers
    BY <1>0, <2>2, Comparisons
  <2>4. /\ c.min.x <= p.x /\ p.x < c.max.x /\ c.min.y <= p.y /\ p.y < c.max.y
        /\ d.min.x <= p.x /\ p.x < d.max.x /\ d.min.y <= p.y /\ p.y < d.max.y
    BY <2>1, <2>2, <2>3, Comparisons DEF Proper
  <2>5. /\ c.min.x < d.max.x /\ c.min.y < d.max.y /\ d.min.x < c.max.x /\ d.min.y < c.max.y
    BY <2>1, <2>3, <2>4 DEF Proper, Numbers
  <2> QED BY <2>1, <2>5, Comparisons DEF intersects, Proper
<1> QED BY <1>1, <1>2

(* contains() and intersects() answer for the points of every box the      *)
(* functions make, with infinities and NaN for corners.                    *)
THEOREM Queries == Spec => []QueriesDespiteNaN
<1>1. TypeOK => QueriesDespiteNaN
  BY InclusionOfRegions, OverlapOfRegions DEF TypeOK, QueriesDespiteNaN
<1> QED BY <1>1, TypeCorrect, PTL
=============================================================================
