------------------------------ MODULE VecCalls ------------------------------
(***************************************************************************)
(* A program that computes with two vec2<T> variables, one call of         *)
(* math/vec2.h after another; an undefined result is any value of T.       *)
(***************************************************************************)
EXTENDS Vec2Length

(* The same functions for a T that is not promoted: int, and wider ones.   *)
Unpromoted == INSTANCE Vec2 WITH OpHalf <- Half

VARIABLES u, v
vars == <<u, v>>

Init == u = zero /\ v = zero

Construct == \E x, y \in Scalars : u' = vec2(x, y) /\ UNCHANGED v
Negate == u' \in Neg(u) /\ UNCHANGED v
Add == u' \in Plus(u, v) /\ UNCHANGED v
Subtract == u' \in Minus(u, v) /\ UNCHANGED v
Scale == (\E s \in Scalars : u' \in Times(u, s)) /\ UNCHANGED v
Divide == (\E s \in Scalars : u' \in Over(u, s)) /\ UNCHANGED v
Minimum == u' = min(u, v) /\ UNCHANGED v
Maximum == u' = max(u, v) /\ UNCHANGED v
Swap == u' = v /\ v' = u

Next == \/ Construct \/ Negate \/ Add \/ Subtract \/ Scale \/ Divide
        \/ Minimum \/ Maximum \/ Swap

Spec == Init /\ [][Next]_vars
-----------------------------------------------------------------------------
TypeOK == u \in Vectors /\ v \in Vectors

(* The wedge product of any two vectors is exact: it fits scalar_result    *)
(* whenever that is twice as wide as T (vec2.h, cross).                    *)
CrossIsExact == cross(u, v) = {u.x * v.y - u.y * v.x}

Lowest == vec2(-Half, -Half)
SquaredDistance(a, b) == (a.x - b.x) * (a.x - b.x) + (a.y - b.y) * (a.y - b.y)

(* So is the dot product, but for one pair of arguments: the sum is one    *)
(* more than the greatest scalar_result when every component is T's least. *)
DotIsExact ==
  dot(u, v) = {u.x * v.x + u.y * v.y} <=> ~(u = Lowest /\ v = Lowest)

(* The difference is taken in T before it is widened.  In a T narrower     *)
(* than int it may wrap: the squared distance is then exact as long as     *)
(* neither component is more than half of T's range apart, and never       *)
(* beyond.  Right or wrong, the distance is the same both ways.            *)
DistanceExactIfNear ==
  LET exact == SquaredDistance(u, v) IN
  /\ distancesqr(u, v) = {exact} <=>
       Abs(u.x - v.x) <= Half /\ Abs(u.y - v.y) <= Half /\ exact < ResultHalf
  /\ distance(u, v) = distance(v, u)

(* The integral length is the root rounded down while the square is below  *)
(* half of what a double counts exactly; beyond, where 2^52 lies for the   *)
(* real ones, it may be one too much, never less and never more.           *)
LengthIsFloor ==
  u # Lowest => \A n \in lensqr(u), l \in len(u) :
    /\ n < (l + 1) * (l + 1) /\ (l > 0 => (l - 1) * (l - 1) <= n)
    /\ n < Exact \div 2 => l * l <= n

(* Where T is narrower than int, + and - undo each other and so do two     *)
(* negations, wrapping or not.                                             *)
RoundTrips ==
  /\ UNION {Minus(w, v) : w \in Plus(u, v)} = {u}
  /\ UNION {Neg(w) : w \in Neg(u)} = {u}

(* Division loses less than one divisor: what is left of u after taking    *)
(* (u / s) * s away is smaller than s and has the sign of u.  That holds   *)
(* also where the quotient, of the least value by -1, wraps; if T is not   *)
(* narrower than int that division is undefined, as by zero all are, and   *)
(* every other gives the same.                                             *)
DivisionRemainder ==
  \A s \in Scalars :
    LET tooGreat == s = -1 /\ -Half \in {u.x, u.y} IN
    /\ (\E q \in Vectors : Over(u, s) = {q}) <=> s # 0
    /\ (\E q \in Vectors : Unpromoted!Over(u, s) = {q}) <=> s # 0 /\ ~tooGreat
    /\ s # 0 /\ ~tooGreat => Unpromoted!Over(u, s) = Over(u, s)
    /\ s # 0 => \A q \in Over(u, s), r \in Vectors :
         (\E m \in Times(q, s) : r \in Minus(u, m)) =>
           /\ Abs(r.x) < Abs(s) /\ (r.x # 0 => (r.x < 0) = (u.x < 0))
           /\ Abs(r.y) < Abs(s) /\ (r.y # 0 => (r.y < 0) = (u.y < 0))

(* "Get the distance squared between a and b" (vec2.h): whenever the sum   *)
(* of the squares of the components' differences fits scalar_result, that  *)
(* is what is returned.                                                    *)
DistanceIsExact ==
  LET exact == SquaredDistance(u, v) IN
  exact \in Signed(ResultHalf) => distancesqr(u, v) = {exact}
=============================================================================
