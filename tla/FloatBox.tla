------------------------------ MODULE FloatBox ------------------------------
(***************************************************************************)
(* box2<T> (math/box2.h) for a floating-point T: what infinities and NaN   *)
(* do to its comparisons.  The numbers are T's other values in their       *)
(* order, finite ones between the infinities -Top and Top.  The points a   *)
(* program uses are its own and their normalised() directions, which for   *)
(* the zero vector is 0/0.                                                 *)
(***************************************************************************)
EXTENDS Integers

CONSTANTS NaN,
          Top,     \* infinity
          Coords   \* the coordinates the program itself uses

ASSUME FloatAssumption == /\ Top \in Nat /\ Top > 1 /\ NaN \notin -Top .. Top
                          /\ Coords \subseteq 1 - Top .. Top - 1

Numbers == -Top .. Top
Scalars == Numbers \cup {NaN}
Vectors == [x : Scalars, y : Scalars]
vec2(x, y) == [x |-> x, y |-> y]
zero == vec2(0, 0)

(* Every comparison with NaN is false.                                     *)
Less(m, n) == NaN \notin {m, n} /\ m < n
AtMost(m, n) == NaN \notin {m, n} /\ m <= n

(* std::min with its arguments the other way round                         *)
LesserSwapped(m, n) == IF Less(m, n) THEN m ELSE n
Lesser(m, n) == IF Less(n, m) THEN n ELSE m
Greater(m, n) == IF Less(m, n) THEN n ELSE m
min(a, b) == vec2(Lesser(a.x, b.x), Lesser(a.y, b.y))
max(a, b) == vec2(Greater(a.x, b.x), Greater(a.y, b.y))

(* The kinds of length a vector of numbers can have: 0, also by underflow  *)
(* of the squares, Top, also by their overflow, and 1 for all between.     *)
Lengths(v) == CASE v = zero -> {0}
                [] {v.x, v.y} \cap {-Top, Top} # {} -> {Top}
                [] OTHER -> {0, 1, Top}

(* n / l, of the sign of n.                                                *)
Quotients(n, l) ==
  LET ofSign(S) == {q \in S : (n >= 0 => q >= 0) /\ (n <= 0 => q <= 0)}
  IN  CASE l = 0 -> IF n = 0 THEN {NaN} ELSE ofSign({-Top, Top})
        [] l = 1 -> IF n = 0 THEN {0} ELSE ofSign(Numbers \ {-Top, Top})
        [] l = Top -> IF n \in {-Top, Top} THEN {NaN} ELSE {0}

normalised(v) == IF NaN \in {v.x, v.y} THEN {vec2(NaN, NaN)}
                 ELSE UNION {{vec2(x, y) : x \in Quotients(v.x, l), y \in Quotients(v.y, l)} :
                             l \in Lengths(v)}

Boxes == [min : Vectors, max : Vectors]
(* box2 that trusts its arguments to be the lower and the upper corner     *)
CornersAsGiven(a, b) == [min |-> a, max |-> b]
box2(a, b) == [min |-> min(a, b), max |-> max(a, b)]
empty(b) == AtMost(b.max.x, b.min.x) \/ AtMost(b.max.y, b.min.y)

(* contains that asks whether some side of b is outside                    *)
ContainsByNegation(a, b) ==
  /\ ~empty(b)
  /\ ~(Less(b.min.x, a.min.x) \/ Less(b.min.y, a.min.y))
  /\ ~(Less(a.max.x, b.max.x) \/ Less(a.max.y, b.max.y))
contains(a, b) ==
  /\ ~empty(b)
  /\ AtMost(a.min.x, b.min.x) /\ AtMost(a.min.y, b.min.y)
  /\ AtMost(b.max.x, a.max.x) /\ AtMost(b.max.y, a.max.y)

intersects(a, b) ==
  /\ ~empty(a) /\ ~empty(b)
  /\ Less(a.min.x, b.max.x) /\ Less(a.min.y, b.max.y)
  /\ Less(b.min.x, a.max.x) /\ Less(b.min.y, a.max.y)

contains_point(b, p) ==
  /\ AtMost(b.min.x, p.x) /\ AtMost(b.min.y, p.y)
  /\ Less(p.x, b.max.x) /\ Less(p.y, b.max.y)

make_union(a, b) == box2(min(a.min, b.min), max(a.max, b.max))
make_union_point(a, p) == box2(min(a.min, p), max(a.max, p))
-----------------------------------------------------------------------------
VARIABLES a, b
vars == <<a, b>>

Points == [x : Coords, y : Coords]
Inputs == Points \cup UNION {normalised(p) : p \in Points}

Init == a = box2(zero, zero) /\ b = box2(zero, zero)

Construct == \E p, q \in Inputs : a' = box2(p, q) /\ UNCHANGED b
Union == a' = make_union(a, b) /\ UNCHANGED b
UnionPoint == \E p \in Inputs : a' = make_union_point(a, p) /\ UNCHANGED b
Swap == a' = b /\ b' = a

Next == Construct \/ Union \/ UnionPoint \/ Swap

Spec == Init /\ [][Next]_vars
-----------------------------------------------------------------------------
Region(box) == {p \in Vectors : contains_point(box, p)}

(* One axis of a box: in order, or not a number at both ends.              *)
WellFormed(low, high) == (low = NaN) = (high = NaN) /\ ~Less(high, low)
TypeOK == \A box \in {a, b} : /\ box \in Boxes
                              /\ WellFormed(box.min.x, box.max.x)
                              /\ WellFormed(box.min.y, box.max.y)

(* contains and intersects compare every corner in a way that NaN fails:   *)
(* they answer for the points that are in the boxes, NaN or not, although  *)
(* the empty() they ask first does not see a NaN.                          *)
QueriesDespiteNaN ==
  /\ contains(a, b) <=> Region(b) # {} /\ Region(b) \subseteq Region(a)
  /\ intersects(a, b) <=> Region(a) \cap Region(b) # {}

(* What a box is grown by brings no NaN into it and takes none from it; so *)
(* one NaN among what is added is lost, and one to begin with stays.       *)
NaNIsOfFirst ==
  LET grown == {make_union(a, b)} \cup {make_union_point(a, p) : p \in Inputs}
  IN  \A c \in grown : /\ c.min.x = NaN <=> a.min.x = NaN
                       /\ c.min.y = NaN <=> a.min.y = NaN
                       /\ Region(a) \subseteq Region(c)

(* "Is the box empty?" (box2.h), of any box the functions make.            *)
EmptySeesNaN == Region(a) = {} => empty(a)
=============================================================================
