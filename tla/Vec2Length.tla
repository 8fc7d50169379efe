----------------------------- MODULE Vec2Length -----------------------------
(***************************************************************************)
(* vec2<T>::len and distance for an integral T: the square, a              *)
(* scalar_result, becomes a double, its root a double again, and what is   *)
(* left of that without its fraction a scalar_result.  Both steps to a     *)
(* double round to the nearest.                                            *)
(***************************************************************************)
EXTENDS Vec2

CONSTANT Exact   \* 2^p for the p bits of a double's significand

(* The least power of two that is n or more.                               *)
PowerAbove[n \in Nat] == IF n <= 1 THEN 1 ELSE 2 * PowerAbove[(n + 1) \div 2]

ASSUME ExactAssumption == Exact \in Nat /\ Exact > 1 /\ PowerAbove[Exact] = Exact

(* The double nearest to n, of even significand if there are two.          *)
Double(n) ==
  LET ulp == IF n < Exact THEN 1 ELSE PowerAbove[n + 1] \div Exact
      q == n \div ulp
      r == n % ulp
  IN  IF 2 * r > ulp \/ (2 * r = ulp /\ q % 2 = 1) THEN (q + 1) * ulp ELSE q * ulp

Floor(n) == CHOOSE k \in 0 .. n : k * k <= n /\ n < (k + 1) * (k + 1)

(* The root lies half an ulp or less below the next integer, k + 1.        *)
RoundsUp(n, k) ==
  LET below == 2 * Exact * (k + 1) - PowerAbove[k + 1]
  IN  (2 * Exact) * (2 * Exact) * n >= below * below

(* static_cast<scalar_result>(std::sqrt(n)): of a square that overflowed   *)
(* to less than zero it is the conversion of a NaN, and undefined.         *)
Root(n) ==
  IF n < 0 THEN Signed(ResultHalf)
  ELSE LET m == Double(n)  k == Floor(m) IN {IF RoundsUp(m, k) THEN k + 1 ELSE k}

(* len whose result is a T                                                 *)
LenInT(v) == {Wrap(l) : l \in UNION {Root(n) : n \in lensqr(v)}}
len(v) == UNION {Root(n) : n \in lensqr(v)}

distance(a, b) == UNION {len(d) : d \in Minus(b, a)}
=============================================================================
