------------------------------ MODULE VecProofs ------------------------------
(* vec2's arithmetic, for every width of T.                                *)
EXTENDS VecCalls, IntegerLemmas

USE WidthAssumption DEF Vectors, Scalars, Signed, vec2

(* A conversion gives a value of T, whatever it is given.                  *)
LEMMA CastInT == ASSUME NEW n \in Int PROVE Cast(n) \subseteq Scalars
<1>1. (n + Half) % (2 * Half) \in 0 .. 2 * Half - 1
  OBVIOUS
<1> QED BY <1>1 DEF Cast, Wrap

LEMMA RatioInT ==
  ASSUME NEW n \in Scalars, NEW s \in Scalars
  PROVE  Ratio(n, s) \subseteq Scalars
<1>1. CASE s = 0
  BY <1>1 DEF Ratio
<1>2. CASE s # 0
  <2>1. Abs(n) \in Int /\ Abs(s) \in Int /\ Abs(s) > 0
    BY <1>2 DEF Abs
  <2>2. Abs(n) \div Abs(s) \in Int
    BY <2>1
  <2>3. Quotient(n, s) \in Int
    BY <2>2 DEF Quotient
  <2> QED BY <1>2, <2>3, CastInT DEF Ratio
<1> QED BY <1>1, <1>2

(* Whatever is computed, the variables hold vectors of T.                  *)
THEOREM TypeCorrect == Spec => []TypeOK
<1>1. Init => TypeOK
  BY DEF Init, TypeOK, zero
<1>2. TypeOK /\ [Next]_vars => TypeOK'
  <2> SUFFICES ASSUME TypeOK, [Next]_vars PROVE TypeOK'
    OBVIOUS
  <2> USE DEF TypeOK
  <2>1. CASE Construct
    BY <2>1 DEF Construct
  <2>2. CASE Negate
    <3>1. Cast(-u.x) \subseteq Scalars /\ Cast(-u.y) \subseteq Scalars
      BY CastInT
    <3> QED BY <2>2, <3>1 DEF Negate, Neg
  <2>3. CASE Add
    <3>1. Cast(u.x + v.x) \subseteq Scalars /\ Cast(u.y + v.y) \subseteq Scalars
      BY CastInT
    <3> QED BY <2>3, <3>1 DEF Add, Plus
  <2>4. CASE Subtract
    <3>1. Cast(u.x - v.x) \subseteq Scalars /\ Cast(u.y - v.y) \subseteq Scalars
      BY CastInT
    <3> QED BY <2>4, <3>1 DEF Subtract, Minus
  <2>5. CASE Scale
    <3>1. PICK s \in Scalars : u' \in Times(u, s) /\ v' = v
      BY <2>5 DEF Scale
    <3>2. u.x * s \in Int /\ u.y * s \in Int
      OBVIOUS
    <3>3. Cast(u.x * s) \subseteq Scalars /\ Cast(u.y * s) \subseteq Scalars
      BY <3>2, CastInT
    <3> QED BY <3>1, <3>3 DEF Times
  <2>6. CASE Divide
    <3>1. PICK s \in Scalars : u' \in Over(u, s) /\ v' = v
      BY <2>6 DEF Divide
    <3>2. Ratio(u.x, s) \subseteq Scalars /\ Ratio(u.y, s) \subseteq Scalars
      BY RatioInT
    <3> QED BY <3>1, <3>2 DEF Over
  <2>7. CASE Minimum \/ Maximum
    BY <2>7 DEF Minimum, Maximum, min, max, Lesser, Greater
  <2>8. CASE Swap
    BY <2>8 DEF Swap
  <2>9. CASE UNCHANGED vars
    BY <2>9 DEF vars
  <2> QED BY <2>1, <2>2, <2>3, <2>4, <2>5, <2>6, <2>7, <2>8, <2>9 DEF Next
<1> QED BY <1>1, <1>2, PTL DEF Spec
-----------------------------------------------------------------------------
(* The products of two values of T lie between -(Half-1)Half and Half^2.   *)
LEMMA ProductBound ==
  ASSUME NEW m \in Scalars, NEW n \in Scalars
  PROVE  /\ m * n \in Int
         /\ m * n <= Half * Half /\ -(Half * (Half - 1)) <= m * n
         /\ m * n = Half * Half => m = -Half /\ n = -Half
<1>1. CASE m >= 0 /\ n >= 0
  BY <1>1
<1>2. CASE m < 0 /\ n < 0
  BY <1>2
<1>3. CASE m < 0 /\ n >= 0
  BY <1>3
<1>4. CASE m >= 0 /\ n < 0
  BY <1>4
<1> QED BY <1>1, <1>2, <1>3, <1>4

(* With a scalar_result of twice T's width cross never overflows.          *)
THEOREM CrossExact ==
  ASSUME ResultHalf >= 2 * Half * Half
  PROVE  Spec => []CrossIsExact
<1>1. ASSUME TypeOK PROVE CrossIsExact
  <2>1. u.x \in Scalars /\ u.y \in Scalars /\ v.x \in Scalars /\ v.y \in Scalars
    BY <1>1 DEF TypeOK
  <2>2. /\ u.x * v.y \in Int /\ u.y * v.x \in Int
        /\ u.x * v.y <= Half * Half /\ -(Half * (Half - 1)) <= u.x * v.y
        /\ u.y * v.x <= Half * Half /\ -(Half * (Half - 1)) <= u.y * v.x
    BY <2>1, ProductBound
  <2>3. Half * Half \in Int /\ Half * (Half - 1) = Half * Half - Half
    OBVIOUS
  <2> QED BY <2>2, <2>3 DEF CrossIsExact, cross, Result
<1> QED BY <1>1, TypeCorrect, PTL

(* ... and dot overflows for one pair of vectors only, if the width of     *)
(* scalar_result is exactly twice that of T.                               *)
THEOREM DotExact ==
  ASSUME ResultHalf = 2 * Half * Half
  PROVE  Spec => []DotIsExact
<1>1. ASSUME TypeOK PROVE DotIsExact
  <2>1. u.x \in Scalars /\ u.y \in Scalars /\ v.x \in Scalars /\ v.y \in Scalars
    BY <1>1 DEF TypeOK
  <2> DEFINE p == u.x * v.x
             q == u.y * v.y
  <2>2. /\ p \in Int /\ q \in Int
        /\ p <= Half * Half /\ -(Half * (Half - 1)) <= p
        /\ q <= Half * Half /\ -(Half * (Half - 1)) <= q
        /\ p = Half * Half => u.x = -Half /\ v.x = -Half
        /\ q = Half * Half => u.y = -Half /\ v.y = -Half
    BY <2>1, ProductBound
  <2>3. Half * Half \in Int /\ Half * (Half - 1) = Half * Half - Half
    OBVIOUS
  <2>4. CASE u = Lowest /\ v = Lowest
    <3>1. p = Half * Half /\ q = Half * Half
      BY <2>4 DEF Lowest
    <3>2. p + q = ResultHalf
      BY <3>1, <2>3
    <3>3. dot(u, v) = Signed(ResultHalf)
      BY <3>2 DEF dot, Result
    <3>4. ResultHalf \notin Signed(ResultHalf) /\ ResultHalf \in {p + q}
      BY <3>2
    <3>5. dot(u, v) # {p + q}
      BY <3>3, <3>4
    <3> QED BY <2>4, <3>5 DEF DotIsExact
  <2>5. CASE ~(u = Lowest /\ v = Lowest)
    <3>1. p + q < 2 * (Half * Half)
      <4>1. u = vec2(u.x, u.y) /\ v = vec2(v.x, v.y)
        BY <1>1 DEF TypeOK
      <4>2. ~(p = Half * Half /\ q = Half * Half)
        BY <2>2, <2>5, <4>1 DEF Lowest
      <4> QED BY <2>2, <2>3, <4>2
    <3>2. {p, q, p + q} \subseteq Signed(ResultHalf)
      BY <2>2, <2>3, <3>1
    <3>3. dot(u, v) = {p + q}
      BY <3>2 DEF dot, Result
    <3> QED BY <2>5, <3>3 DEF DotIsExact
  <2> QED BY <2>4, <2>5
<1> QED BY <1>1, TypeCorrect, PTL
-----------------------------------------------------------------------------
(* One wrap at most is due to a number less than three halves of the range *)
(* away from zero.                                                         *)
LEMMA WrapNear ==
  ASSUME NEW n \in Int
  PROVE  /\ n \in Scalars => Wrap(n) = n
         /\ Half <= n /\ n < 3 * Half => Wrap(n) = n - 2 * Half
         /\ -(3 * Half) <= n /\ n < -Half => Wrap(n) = n + 2 * Half
<1> DEFINE D == 2 * Half
<1>1. D \in Int /\ D > 0 /\ \A r \in Int : r + D * 1 = r + D /\ r + D * (-1) = r - D
                                       /\ r + D * 0 = r
  OBVIOUS
<1>2. \A m \in Int : Wrap(m) = ((m + Half) % D) - Half
  BY DEF Wrap
<1> HIDE DEF D
<1>3. ASSUME NEW r \in 0 .. D - 1
      PROVE  r % D = r /\ (r + D) % D = r /\ (r - D) % D = r
  <2>1. \A k \in Int : (r + D * k) % D = r
    BY <1>1, RemainderUnique
  <2>2. (r + D * 0) % D = r /\ (r + D * 1) % D = r /\ (r + D * (-1)) % D = r
    BY <2>1
  <2> QED BY <1>1, <2>2
<1>4. ASSUME n \in Scalars PROVE Wrap(n) = n
  <2>1. n + Half \in 0 .. D - 1
    BY <1>4 DEF D
  <2> QED BY <1>2, <1>3, <2>1
<1>5. ASSUME Half <= n, n < 3 * Half PROVE Wrap(n) = n - 2 * Half
  <2>1. n + Half - D \in 0 .. D - 1 /\ (n + Half - D) + D = n + Half
    BY <1>5 DEF D
  <2>2. (n + Half) % D = n + Half - D
    BY <1>3, <2>1
  <2>3. Wrap(n) = (n + Half - D) - Half
    BY <1>2, <2>2
  <2> QED BY <2>3 DEF D
<1>6. ASSUME -(3 * Half) <= n, n < -Half PROVE Wrap(n) = n + 2 * Half
  <2>1. n + Half + D \in 0 .. D - 1 /\ (n + Half + D) - D = n + Half
    BY <1>6 DEF D
  <2>2. (n + Half) % D = n + Half + D
    BY <1>3, <2>1
  <2>3. Wrap(n) = (n + Half + D) - Half
    BY <1>2, <2>2
  <2> QED BY <2>3 DEF D
<1> QED BY <1>4, <1>5, <1>6

(* T narrower than int: no sum, difference or negation of its values       *)
(* overflows the type they are computed in, so that each is the wrapped    *)
(* one.                                                                    *)
LEMMA PromotedSums ==
  ASSUME OpHalf >= 2 * Half, NEW m \in Scalars, NEW n \in Scalars
  PROVE  /\ Cast(m + n) = {Wrap(m + n)} /\ Cast(m - n) = {Wrap(m - n)}
         /\ Cast(-m) = {Wrap(-m)}
BY DEF Cast

LEMMA WrapInT == ASSUME NEW n \in Int PROVE Wrap(n) \in Scalars
<1>1. (n + Half) % (2 * Half) \in 0 .. 2 * Half - 1
  OBVIOUS
<1> QED BY <1>1 DEF Wrap

(* One coordinate: what wraps one way wraps back the other way.            *)
LEMMA WrapsBack ==
  ASSUME NEW m \in Scalars, NEW n \in Scalars
  PROVE  Wrap(Wrap(m + n) - n) = m /\ Wrap(-Wrap(-m)) = m
<1>1. Wrap(Wrap(m + n) - n) = m
  <2>1. CASE m + n \in Scalars
    BY <2>1, WrapNear
  <2>2. CASE m + n >= Half
    <3>1. Wrap(m + n) = m + n - 2 * Half
      BY <2>2, WrapNear
    <3>2. Wrap(m - 2 * Half) = m
      BY WrapNear
    <3> QED BY <3>1, <3>2
  <2>3. CASE m + n < -Half
    <3>1. Wrap(m + n) = m + n + 2 * Half
      BY <2>3, WrapNear
    <3>2. Wrap(m + 2 * Half) = m
      BY WrapNear
    <3> QED BY <3>1, <3>2
  <2> QED BY <2>1, <2>2, <2>3
<1>2. Wrap(-Wrap(-m)) = m
  <2>1. CASE m = -Half
    <3>1. Wrap(-m) = -Half
      BY <2>1, WrapNear
    <3> QED BY <2>1, <3>1
  <2>2. CASE m # -Half
    BY <2>2, WrapNear
  <2> QED BY <2>1, <2>2
<1> QED BY <1>1, <1>2

(* In a T narrower than int + and -, and two negations, undo each other.   *)
THEOREM Undoes ==
  ASSUME OpHalf >= 2 * Half
  PROVE  Spec => []RoundTrips
<1>1. ASSUME TypeOK PROVE RoundTrips
  <2>1. /\ u.x \in Scalars /\ u.y \in Scalars /\ v.x \in Scalars /\ v.y \in Scalars
        /\ u = vec2(u.x, u.y)
    BY <1>1 DEF TypeOK
  <2> DEFINE w == vec2(Wrap(u.x + v.x), Wrap(u.y + v.y))
             n == vec2(Wrap(-u.x), Wrap(-u.y))
  <2>2. w.x \in Scalars /\ w.y \in Scalars /\ n.x \in Scalars /\ n.y \in Scalars
    <3>1. u.x + v.x \in Int /\ u.y + v.y \in Int /\ -u.x \in Int /\ -u.y \in Int
      BY <2>1
    <3> QED BY <3>1, WrapInT
  <2>3. Plus(u, v) = {w} /\ Neg(u) = {n}
    BY <2>1, PromotedSums DEF Plus, Neg
  <2>4. Minus(w, v) = {u}
    <3>1. Cast(w.x - v.x) = {Wrap(w.x - v.x)} /\ Cast(w.y - v.y) = {Wrap(w.y - v.y)}
      BY <2>1, <2>2, PromotedSums
    <3>2. Wrap(w.x - v.x) = u.x /\ Wrap(w.y - v.y) = u.y
      BY <2>1, WrapsBack
    <3> QED BY <2>1, <3>1, <3>2 DEF Minus
  <2>5. Neg(n) = {u}
    <3>1. Cast(-n.x) = {Wrap(-n.x)} /\ Cast(-n.y) = {Wrap(-n.y)}
      BY <2>2, PromotedSums
    <3>2. Wrap(-n.x) = u.x /\ Wrap(-n.y) = u.y
      BY <2>1, WrapsBack
    <3> QED BY <2>1, <3>1, <3>2 DEF Neg
  <2> HIDE DEF w, n
  <2> QED BY <2>3, <2>4, <2>5 DEF RoundTrips
<1> QED BY <1>1, TypeCorrect, PTL
-----------------------------------------------------------------------------
(* Differences the two ways round have the same square, wrapped or not.    *)
LEMMA SameSquare ==
  ASSUME NEW m \in Scalars, NEW n \in Scalars
  PROVE  Wrap(m - n) * Wrap(m - n) = Wrap(n - m) * Wrap(n - m)
<1>1. \A i \in Int : (-i) * (-i) = i * i
  OBVIOUS
<1>2. m - n \in Int /\ n - m \in Int /\ n - m = -(m - n)
  OBVIOUS
<1>3. Wrap(m - n) \in Int /\ Wrap(n - m) \in Int
  BY <1>2, WrapInT
<1>4. Wrap(n - m) = -Wrap(m - n) \/ Wrap(n - m) = Wrap(m - n)
  <2>1. CASE m - n \in -(Half - 1) .. Half - 1
    BY <2>1, WrapNear
  <2>2. CASE m - n = Half \/ m - n = -Half
    BY <2>2, WrapNear
  <2>3. CASE m - n > Half
    BY <2>3, WrapNear
  <2>4. CASE m - n < -Half
    BY <2>4, WrapNear
  <2> QED BY <2>1, <2>2, <2>3, <2>4
<1> HIDE DEF Scalars
<1> QED BY <1>1, <1>3, <1>4

(* A difference that wraps has a smaller square, unless it wraps to its    *)
(* opposite.                                                               *)
LEMMA WrappedSquare ==
  ASSUME NEW m \in Scalars, NEW n \in Scalars
  PROVE  LET d == m - n  w == Wrap(d) IN
         /\ d * d \in Nat /\ w * w \in Nat /\ w * w <= d * d
         /\ w * w = d * d <=> Abs(d) <= Half
<1> DEFINE d == m - n
           w == Wrap(d)
<1>1. \A i \in Int : i * i \in Nat
  OBVIOUS
<1>2. d \in Int /\ w \in Int /\ d * d \in Nat /\ w * w \in Nat
  <2>1. d \in Int
    OBVIOUS
  <2>2. w \in Int
    BY <2>1, WrapInT
  <2> HIDE DEF d, w
  <2> QED BY <1>1, <2>1, <2>2
<1>3. ASSUME d \in Scalars PROVE w * w = d * d /\ Abs(d) <= Half
  <2>1. w = d
    BY <1>3, WrapNear
  <2>2. Abs(d) <= Half
    BY <1>3 DEF Abs
  <2> QED BY <2>1, <2>2
<1>4. ASSUME d = Half PROVE w * w = d * d /\ Abs(d) <= Half
  <2>1. w = -Half
    BY <1>4, WrapNear
  <2>2. w * w = d * d /\ Abs(d) <= Half
    BY <1>4, <2>1 DEF Abs
  <2> QED BY <2>2
<1>5. ASSUME d > Half PROVE w * w < d * d /\ Abs(d) > Half
  <2>1. w = d - 2 * Half
    BY <1>5, WrapNear
  <2>2. Abs(d) > Half
    BY <1>5 DEF Abs
  <2> DEFINE e == d - Half
  <2>3. e \in Nat /\ e > 0 /\ d = e + Half /\ w = e - Half
    BY <1>2, <1>5, <2>1
  <2> HIDE DEF d, w, e
  <2>4. d * d = e * e + 2 * (e * Half) + Half * Half
    BY <2>3
  <2>5. w * w = e * e - 2 * (e * Half) + Half * Half
    BY <2>3
  <2>6. 1 * 1 <= e * Half /\ e * Half \in Nat /\ e * e \in Nat /\ Half * Half \in Nat
    BY <2>3, ProductsGrow
  <2>7. w * w < d * d
    BY <2>4, <2>5, <2>6
  <2> QED BY <1>2, <2>2, <2>7 DEF d, w
<1>6. ASSUME d < -Half PROVE w * w < d * d /\ Abs(d) > Half
  <2>1. w = d + 2 * Half
    BY <1>6, WrapNear
  <2>2. Abs(d) > Half
    BY <1>6 DEF Abs
  <2> DEFINE e == -Half - d
  <2>3. e \in Nat /\ e > 0 /\ d = -(e + Half) /\ w = Half - e
    BY <1>2, <1>6, <2>1
  <2> HIDE DEF d, w, e
  <2>4. d * d = e * e + 2 * (e * Half) + Half * Half
    BY <2>3
  <2>5. w * w = e * e - 2 * (e * Half) + Half * Half
    BY <2>3
  <2>6. 1 * 1 <= e * Half /\ e * Half \in Nat /\ e * e \in Nat /\ Half * Half \in Nat
    BY <2>3, ProductsGrow
  <2>7. w * w < d * d
    BY <2>4, <2>5, <2>6
  <2> QED BY <1>2, <2>2, <2>7 DEF d, w
<1>7. d * d \in Nat /\ w * w \in Nat /\ w * w <= d * d /\ (w * w = d * d <=> Abs(d) <= Half)
  <2>1. Abs(d) \in Int /\ (d \in Scalars \/ d = Half \/ d > Half \/ d < -Half)
    BY <1>2 DEF Abs
  <2> HIDE DEF d, w
  <2> QED BY <1>2, <1>3, <1>4, <1>5, <1>6, <2>1
<1> HIDE DEF d, w
<1> QED BY <1>7 DEF d, w

(* Squared distances in a T narrower than int are exact as long as no      *)
(* component is more than half of T's range apart and the sum fits, and    *)
(* only then; right or wrong, distances are the same both ways.            *)
THEOREM DistanceNear ==
  ASSUME OpHalf >= 2 * Half
  PROVE  Spec => []DistanceExactIfNear
<1>1. ASSUME TypeOK PROVE DistanceExactIfNear
  <2>1. u.x \in Scalars /\ u.y \in Scalars /\ v.x \in Scalars /\ v.y \in Scalars
    BY <1>1 DEF TypeOK
  <2> DEFINE d == vec2(Wrap(v.x - u.x), Wrap(v.y - u.y))
             e == vec2(Wrap(u.x - v.x), Wrap(u.y - v.y))
             p == (u.x - v.x) * (u.x - v.x)
             q == (u.y - v.y) * (u.y - v.y)
             i == e.x * e.x
             j == e.y * e.y
             near == Abs(u.x - v.x) <= Half /\ Abs(u.y - v.y) <= Half
  <2>2. Minus(v, u) = {d} /\ Minus(u, v) = {e}
    BY <2>1, PromotedSums DEF Minus
  <2>3. d.x * d.x = i /\ d.y * d.y = j
    BY <2>1, SameSquare
  <2>4. /\ p \in Nat /\ q \in Nat /\ i \in Nat /\ j \in Nat /\ i <= p /\ j <= q
        /\ i = p /\ j = q <=> near
    <3>1. /\ p \in Nat /\ i \in Nat /\ i <= p
          /\ i = p <=> Abs(u.x - v.x) <= Half
      BY <2>1, WrappedSquare
    <3>2. /\ q \in Nat /\ j \in Nat /\ j <= q
          /\ j = q <=> Abs(u.y - v.y) <= Half
      BY <2>1, WrappedSquare
    <3> HIDE DEF i, j, p, q
    <3> QED BY <3>1, <3>2
  <2> HIDE DEF d, e
  <2>5. lensqr(d) = Result(i + j, {i, j}) /\ lensqr(e) = Result(i + j, {i, j})
    BY <2>3 DEF lensqr, dot
  <2>6. distancesqr(u, v) = lensqr(d) /\ SquaredDistance(u, v) = p + q
    BY <2>2 DEF distancesqr, SquaredDistance
  <2>7. distance(u, v) = distance(v, u)
    <3>1. len(d) = len(e)
      BY <2>5 DEF len
    <3> QED BY <2>2, <3>1 DEF distance
  <2> HIDE DEF i, j, p, q, near
  <2>8. Result(i + j, {i, j}) = {p + q} <=> near /\ p + q < ResultHalf
    <3>1. CASE i + j < ResultHalf
      <4>1. Result(i + j, {i, j}) = {i + j}
        BY <2>4, <3>1 DEF Result
      <4>2. i + j = p + q <=> i = p /\ j = q
        BY <2>4
      <4> QED BY <2>4, <3>1, <4>1, <4>2
    <3>2. CASE ~(i + j < ResultHalf)
      <4>1. Result(i + j, {i, j}) = -ResultHalf .. ResultHalf - 1
        BY <2>4, <3>2 DEF Result
      <4>2. 0 \in Result(i + j, {i, j}) /\ 1 \in Result(i + j, {i, j})
        BY <4>1
      <4>3. Result(i + j, {i, j}) # {p + q}
        BY <4>2
      <4>4. ~(p + q < ResultHalf)
        BY <2>4, <3>2
      <4> QED BY <4>3, <4>4
    <3> QED BY <3>1, <3>2
  <2> QED BY <2>5, <2>6, <2>7, <2>8 DEF DistanceExactIfNear, near
<1> QED BY <1>1, TypeCorrect, PTL
-----------------------------------------------------------------------------
(* Rounding towards zero leaves less than the divisor, of the dividend's   *)
(* sign.                                                                   *)
LEMMA QuotientLeaves ==
  ASSUME NEW n \in Scalars, NEW s \in Scalars, s # 0
  PROVE  LET Q == Quotient(n, s)  r == n - Q * s IN
         /\ Q \in Int /\ Q * s \in Int /\ -Half <= Q /\ Q <= Half
         /\ Q = Half => n = -Half /\ s = -1
         /\ -Half <= Q * s /\ Q * s < Half
         /\ Abs(r) < Abs(s) /\ (r # 0 => (r < 0) = (n < 0))
<1> DEFINE a == Abs(n)
           b == Abs(s)
           k == a \div b
           e == a % b
           Q == Quotient(n, s)
           r == n - Q * s
<1>1. a \in 0 .. Half /\ b \in 1 .. Half
  BY DEF Abs
<1>2. e \in 0 .. b - 1 /\ k \in Int /\ a = b * k + e
  <2> HIDE DEF a, b
  <2> QED BY <1>1, Division
<1>3. b * k \in Int /\ b * (-k) = -(b * k) /\ (-b) * k = -(b * k) /\ (-b) * (-k) = b * k
      /\ b * k = k * b /\ (-b) * k = k * (-b) /\ b * (-k) = (-k) * b /\ (-b) * (-k) = (-k) * (-b)
  <2> HIDE DEF a, b, k
  <2> QED BY <1>1, <1>2
<1>4. k >= 0 /\ (k > 0 => k <= b * k) /\ (k > 0 /\ b >= 2 => 2 * k <= b * k)
  <2> HIDE DEF a, b, k, e
  <2>1. ~(k < 0)
    BY <1>1, <1>2, MultipleBound
  <2> QED BY <1>1, <1>2, <2>1
<1>5. Q = IF (n < 0) = (s < 0) THEN k ELSE -k
  BY DEF Quotient
<1>6. (n < 0 => n = -a) /\ (n >= 0 => n = a) /\ (s < 0 => s = -b) /\ (s >= 0 => s = b)
  BY DEF Abs
<1>7. n \in Int /\ s \in Int /\ n < Half
  OBVIOUS
<1> HIDE DEF a, b, k, e, Q
<1>8. Q * s = IF n < 0 THEN -(b * k) ELSE b * k
  <2>1. CASE n < 0 /\ s < 0
    BY <1>3, <1>5, <1>6, <2>1
  <2>2. CASE n < 0 /\ s >= 0
    BY <1>3, <1>5, <1>6, <2>2
  <2>3. CASE n >= 0 /\ s < 0
    BY <1>3, <1>5, <1>6, <2>3
  <2>4. CASE n >= 0 /\ s >= 0
    BY <1>3, <1>5, <1>6, <2>4
  <2> QED BY <1>7, <2>1, <2>2, <2>3, <2>4
<1>9. 0 <= b * k /\ b * k <= a /\ k <= a
  <2>1. k = 0 => b * k = 0
    BY <1>1
  <2> QED BY <1>1, <1>2, <1>3, <1>4, <2>1
<1>10. r = IF n < 0 THEN -e ELSE e
  BY <1>1, <1>2, <1>3, <1>6, <1>7, <1>8
<1> HIDE DEF r
<1>11. Abs(r) < Abs(s) /\ (r # 0 => (r < 0) = (n < 0))
  <2>1. Abs(r) = e
    BY <1>1, <1>2, <1>10 DEF Abs
  <2> QED BY <1>1, <1>2, <1>7, <1>10, <2>1 DEF b
<1>12. Q \in Int /\ -Half <= Q /\ Q <= Half
  BY <1>1, <1>2, <1>4, <1>5, <1>9
<1>13. Q * s \in Int /\ -Half <= Q * s /\ Q * s < Half
  BY <1>1, <1>3, <1>6, <1>7, <1>8, <1>9
<1>14. Q = Half => n = -Half /\ s = -1
  <2> SUFFICES ASSUME Q = Half PROVE n = -Half /\ s = -1
    OBVIOUS
  <2>1. k = Half /\ a = Half
    BY <1>1, <1>2, <1>4, <1>5, <1>9
  <2>2. b = 1
    BY <1>1, <1>2, <1>3, <1>4, <1>9, <2>1
  <2> QED BY <1>1, <1>5, <1>6, <1>7, <2>1, <2>2
<1> QED BY <1>11, <1>12, <1>13, <1>14 DEF Q, r

(* One coordinate of (u / s) * s and of what it leaves of u.               *)
LEMMA RatioLeaves ==
  ASSUME OpHalf >= 2 * Half, NEW n \in Scalars, NEW s \in Scalars, s # 0,
         NEW q \in Ratio(n, s), NEW m \in Cast(q * s), NEW r \in Cast(n - m)
  PROVE  Abs(r) < Abs(s) /\ (r # 0 => (r < 0) = (n < 0))
<1> DEFINE Q == Quotient(n, s)
<1>1. /\ Q \in Int /\ Q * s \in Int /\ -Half <= Q /\ Q <= Half
      /\ Q = Half => n = -Half /\ s = -1
      /\ -Half <= Q * s /\ Q * s < Half
      /\ Abs(n - Q * s) < Abs(s) /\ (n - Q * s # 0 => (n - Q * s < 0) = (n < 0))
  BY QuotientLeaves
<1> HIDE DEF Q
<1>2. Ratio(n, s) = Cast(Q)
  BY DEF Ratio, Q
<1>3. q = Wrap(Q)
  BY <1>1, <1>2 DEF Cast
<1>4. CASE Q < Half
  <2>1. q = Q
    BY <1>1, <1>3, <1>4, WrapNear
  <2>2. Q * s \in Scalars
    BY <1>1
  <2>3. m = Q * s
    <3>1. Cast(Q * s) = {Wrap(Q * s)}
      BY <2>2 DEF Cast
    <3> QED BY <2>1, <2>2, <3>1, WrapNear
  <2>4. m \in Scalars /\ n - m = n - Q * s
    BY <2>2, <2>3
  <2>5. n - m \in Scalars
    <3>1. Abs(n - m) < Abs(s)
      BY <1>1, <2>4
    <3>2. n - m \in Int /\ Abs(s) \in Int /\ Abs(s) <= Half
      BY <2>4 DEF Abs
    <3>3. \A i \in Int : Abs(i) < Abs(s) => -Half < i /\ i < Half
      BY <3>2 DEF Abs
    <3> QED BY <3>1, <3>2, <3>3
  <2>6. r = n - m
    <3>1. Cast(n - m) = {Wrap(n - m)}
      BY <2>5 DEF Cast
    <3> QED BY <2>5, <3>1, WrapNear
  <2> QED BY <1>1, <2>4, <2>6
<1>5. CASE Q = Half
  <2>1. n = -Half /\ s = -1 /\ q = -Half
    BY <1>1, <1>3, <1>5, WrapNear
  <2>2. q * s = Half
    BY <2>1
  <2>3. m = -Half
    <3>1. Cast(Half) = {Wrap(Half)}
      BY DEF Cast
    <3> QED BY <2>2, <3>1, WrapNear
  <2>4. r = 0
    <3>1. n - m = 0 /\ 0 \in Scalars
      BY <2>1, <2>3
    <3>2. Cast(0) = {Wrap(0)}
      BY DEF Cast
    <3> QED BY <3>1, <3>2, WrapNear
  <2> QED BY <2>1, <2>4 DEF Abs
<1> QED BY <1>1, <1>4, <1>5

(* One coordinate of u / s, promoted and not: the same single quotient,    *)
(* but for the least value by -1.                                          *)
LEMMA RatioDefined ==
  ASSUME OpHalf >= 2 * Half, NEW n \in Scalars, NEW s \in Scalars, s # 0
  PROVE  /\ \E q \in Scalars : Ratio(n, s) = {q}
         /\ ~(n = -Half /\ s = -1) => Unpromoted!Ratio(n, s) = Ratio(n, s)
         /\ n = -Half /\ s = -1 => Unpromoted!Ratio(n, s) = Scalars
<1> DEFINE Q == Quotient(n, s)
<1>1. /\ Q \in Int /\ -Half <= Q /\ Q <= Half
      /\ Q = Half => n = -Half /\ s = -1
  BY QuotientLeaves
<1>2. n = -Half /\ s = -1 => Q = Half
  <2>1. Half \div 1 = Half
    OBVIOUS
  <2> QED BY <2>1 DEF Quotient, Abs
<1>3. Unpromoted!Quotient(n, s) = Q
  BY DEF Unpromoted!Quotient, Unpromoted!Abs, Quotient, Abs
<1>4. Unpromoted!Wrap(Q) = Wrap(Q)
  BY DEF Unpromoted!Wrap, Wrap
<1> HIDE DEF Q
<1>5. Ratio(n, s) = {Wrap(Q)} /\ Wrap(Q) \in Scalars
  <2>1. Ratio(n, s) = Cast(Q)
    BY DEF Ratio, Q
  <2>2. Q \in Signed(OpHalf)
    BY <1>1
  <2>3. Cast(Q) = {Wrap(Q)}
    BY <2>2 DEF Cast
  <2> QED BY <1>1, <2>1, <2>3, WrapInT
<1>6. Unpromoted!Ratio(n, s) = IF Q \in Scalars THEN {Wrap(Q)} ELSE Scalars
  BY <1>3, <1>4 DEF Unpromoted!Ratio, Unpromoted!Cast, Unpromoted!Signed, Unpromoted!Scalars
<1>7. Q \in Scalars <=> ~(n = -Half /\ s = -1)
  BY <1>1, <1>2
<1> QED BY <1>5, <1>6, <1>7

(* The vectors of two sets of coordinates.                                 *)
Pairs(X, Y) == {vec2(x, y) : x \in X, y \in Y}

(* All values of T for one coordinate make more than one vector.           *)
LEMMA NotSingle ==
  ASSUME NEW Y, NEW k \in Y, NEW q
  PROVE  /\ Pairs(Scalars, Y) # {q}
         /\ Pairs(Y, Scalars) # {q}
<1>1. 0 \in Scalars /\ 1 \in Scalars
  OBVIOUS
<1>2. vec2(0, k) # vec2(1, k) /\ vec2(k, 0) # vec2(k, 1)
  <2>1. /\ vec2(0, k).x = 0 /\ vec2(1, k).x = 1
        /\ vec2(k, 0).y = 0 /\ vec2(k, 1).y = 1
    OBVIOUS
  <2> HIDE DEF vec2
  <2> QED BY <2>1
<1> HIDE DEF vec2, Scalars
<1>3. /\ vec2(0, k) \in Pairs(Scalars, Y)
      /\ vec2(1, k) \in Pairs(Scalars, Y)
      /\ vec2(k, 0) \in Pairs(Y, Scalars)
      /\ vec2(k, 1) \in Pairs(Y, Scalars)
  BY <1>1 DEF Pairs
<1>4. ASSUME NEW S, NEW e \in S, NEW f \in S, e # f PROVE S # {q}
  BY <1>4
<1> QED BY <1>2, <1>3, <1>4

(* Division in a T narrower than int loses less than one divisor, and      *)
(* never to the other side of zero, the quotient that wraps included; that *)
(* one alone, and division by zero, is undefined in a T that is not.       *)
THEOREM DivisionLoses ==
  ASSUME OpHalf >= 2 * Half
  PROVE  Spec => []DivisionRemainder
<1>1. 0 \in Scalars
  OBVIOUS
<1>2. ASSUME TypeOK, NEW s \in Scalars, s # 0
      PROVE  LET tooGreat == s = -1 /\ -Half \in {u.x, u.y} IN
             /\ \E q \in Vectors : Over(u, s) = {q}
             /\ (\E q \in Vectors : Unpromoted!Over(u, s) = {q}) <=> ~tooGreat
             /\ ~tooGreat => Unpromoted!Over(u, s) = Over(u, s)
  <2>1. u.x \in Scalars /\ u.y \in Scalars
    BY <1>2 DEF TypeOK
  <2>2. PICK p \in Scalars : Ratio(u.x, s) = {p}
    BY <1>2, <2>1, RatioDefined
  <2>3. PICK q \in Scalars : Ratio(u.y, s) = {q}
    BY <1>2, <2>1, RatioDefined
  <2>4. Over(u, s) = {vec2(p, q)} /\ vec2(p, q) \in Vectors
    BY <2>2, <2>3 DEF Over
  <2>5. Unpromoted!Over(u, s) = Pairs(Unpromoted!Ratio(u.x, s), Unpromoted!Ratio(u.y, s))
    BY DEF Unpromoted!Over, Unpromoted!vec2, Pairs
  <2>6. CASE ~(s = -1 /\ -Half \in {u.x, u.y})
    <3>1. /\ Unpromoted!Ratio(u.x, s) = Ratio(u.x, s)
          /\ Unpromoted!Ratio(u.y, s) = Ratio(u.y, s)
      BY <1>2, <2>1, <2>6, RatioDefined
    <3>2. Unpromoted!Over(u, s) = Over(u, s)
      BY <2>5, <3>1 DEF Over, Pairs
    <3> QED BY <2>4, <2>6, <3>2
  <2>7. CASE s = -1 /\ -Half \in {u.x, u.y}
    <3>1. /\ u.x = -Half => Unpromoted!Ratio(u.x, s) = Scalars
          /\ u.x # -Half => Unpromoted!Ratio(u.x, s) = {p}
          /\ u.y = -Half => Unpromoted!Ratio(u.y, s) = Scalars
          /\ u.y # -Half => Unpromoted!Ratio(u.y, s) = {q}
      BY <1>2, <2>1, <2>2, <2>3, <2>7, RatioDefined
    <3> HIDE DEF Scalars, Vectors, vec2
    <3>2. \/ /\ Unpromoted!Ratio(u.x, s) = Scalars
             /\ Unpromoted!Ratio(u.y, s) = Scalars \/ Unpromoted!Ratio(u.y, s) = {q}
          \/ Unpromoted!Ratio(u.y, s) = Scalars /\ Unpromoted!Ratio(u.x, s) = {p}
      BY <2>7, <3>1
    <3>3. ~\E r \in Vectors : Unpromoted!Over(u, s) = {r}
      <4>1. 0 \in Scalars /\ p \in {p} /\ q \in {q}
        BY <1>1
      <4> QED BY <2>5, <3>2, <4>1, NotSingle
    <3> QED BY <2>4, <2>7, <3>3
  <2> QED BY <2>6, <2>7
<1>3. ASSUME TypeOK
      PROVE  /\ ~\E q \in Vectors : Over(u, 0) = {q}
             /\ ~\E q \in Vectors : Unpromoted!Over(u, 0) = {q}
  <2>1. Over(u, 0) = Pairs(Scalars, Scalars)
    BY DEF Over, Ratio, Pairs
  <2>2. Unpromoted!Over(u, 0) = Pairs(Scalars, Scalars)
    BY DEF Unpromoted!Over, Unpromoted!Ratio, Unpromoted!Scalars, Unpromoted!Signed,
           Unpromoted!vec2, Pairs
  <2> HIDE DEF Scalars, Vectors, vec2
  <2> QED BY <1>1, <2>1, <2>2, NotSingle
<1>4. ASSUME TypeOK, NEW s \in Scalars, s # 0, NEW q \in Over(u, s), NEW r \in Vectors,
             NEW m \in Times(q, s), r \in Minus(u, m)
      PROVE  /\ Abs(r.x) < Abs(s) /\ (r.x # 0 => (r.x < 0) = (u.x < 0))
             /\ Abs(r.y) < Abs(s) /\ (r.y # 0 => (r.y < 0) = (u.y < 0))
  <2>1. u.x \in Scalars /\ u.y \in Scalars /\ s \in Scalars /\ s # 0
    BY <1>4 DEF TypeOK
  <2>2. q.x \in Ratio(u.x, s) /\ q.y \in Ratio(u.y, s)
    BY DEF Over
  <2>3. m.x \in Cast(q.x * s) /\ m.y \in Cast(q.y * s)
    BY DEF Times
  <2>4. r.x \in Cast(u.x - m.x) /\ r.y \in Cast(u.y - m.y)
    BY <1>4 DEF Minus
  <2> QED BY <2>1, <2>2, <2>3, <2>4, RatioLeaves
<1>5. TypeOK => DivisionRemainder
  <2> SUFFICES ASSUME TypeOK, NEW s \in Scalars
               PROVE  LET tooGreat == s = -1 /\ -Half \in {u.x, u.y} IN
                /\ (\E q \in Vectors : Over(u, s) = {q}) <=> s # 0
                /\ (\E q \in Vectors : Unpromoted!Over(u, s) = {q}) <=> s # 0 /\ ~tooGreat
                /\ s # 0 /\ ~tooGreat => Unpromoted!Over(u, s) = Over(u, s)
                /\ s # 0 => \A q \in Over(u, s), r \in Vectors :
                     (\E m \in Times(q, s) : r \in Minus(u, m)) =>
                       /\ Abs(r.x) < Abs(s) /\ (r.x # 0 => (r.x < 0) = (u.x < 0))
                       /\ Abs(r.y) < Abs(s) /\ (r.y # 0 => (r.y < 0) = (u.y < 0))
    BY DEF DivisionRemainder
  <2> HIDE DEF Scalars, Vectors, vec2
  <2>1. CASE s = 0
    BY <1>3, <2>1
  <2>2. CASE s # 0
    BY <1>2, <1>4, <2>2
  <2> QED BY <2>1, <2>2
<1> QED BY <1>5, TypeCorrect, PTL
-----------------------------------------------------------------------------
(* PowerAbove finds the least power of two that is n or more.              *)
LEMMA PowerAboveLeast ==
  ASSUME NEW n \in Nat
  PROVE  LET m == PowerAbove[n] IN m \in Powers /\ n <= m /\ \A k \in Powers : n <= k => m <= k
<1> DEFINE Solves(f) == f = [i \in Nat |-> IF i <= 1 THEN 1 ELSE 2 * f[(i + 1) \div 2]]
           g == [i \in Nat |-> LeastPower(i)]
<1>1. Solves(g)
  <2>1. ASSUME NEW i \in Nat PROVE g[i] = IF i <= 1 THEN 1 ELSE 2 * g[(i + 1) \div 2]
    <3>1. (i + 1) \div 2 \in Nat
      OBVIOUS
    <3> QED BY <3>1, LeastPowerRecursive
  <2>2. g = [i \in Nat |-> g[i]]
    OBVIOUS
  <2> HIDE DEF g
  <2> QED BY <2>1, <2>2
<1>2. Solves(PowerAbove)
  <2>1. PowerAbove = CHOOSE f : Solves(f)
    BY DEF PowerAbove
  <2>2. \E f : Solves(f)
    BY <1>1
  <2> HIDE DEF Solves
  <2> QED BY <2>1, <2>2
<1>3. \A i \in Nat : PowerAbove[i] = IF i <= 1 THEN 1 ELSE 2 * PowerAbove[(i + 1) \div 2]
  BY <1>2
<1> DEFINE T == {i \in Nat : PowerAbove[i] # LeastPower(i)}
<1>4. T = {}
  <2> SUFFICES ASSUME T # {} PROVE FALSE
    OBVIOUS
  <2>1. T \subseteq Nat
    OBVIOUS
  <2>2. PICK i \in T : \A j \in T : i <= j
    <3> HIDE DEF T
    <3> QED BY <2>1, LeastNatural
  <2>3. i \in Nat /\ i > 1
    BY <1>3, LeastPowerRecursive
  <2> DEFINE h == (i + 1) \div 2
  <2>4. h \in Nat /\ h < i
    BY <2>3
  <2> HIDE DEF h
  <2>5. PowerAbove[h] = LeastPower(h)
    BY <2>2, <2>3, <2>4
  <2>6. PowerAbove[i] = LeastPower(i)
    BY <1>3, <2>3, <2>5, LeastPowerRecursive DEF h
  <2> QED BY <2>6
<1>5. PowerAbove[n] = LeastPower(n)
  BY <1>4
<1> QED BY <1>5, LeastPowerIs

USE ExactAssumption

(* So is Exact, and it is not the first.                                   *)
LEMMA ExactPower ==
  Exact \in Powers /\ \E h \in Powers : Exact = 2 * h
<1>1. Exact \in Powers
  BY PowerAboveLeast
<1> QED BY <1>1, PowersHalve

(* A double is exact below 2^p.  From there on it is the nearest multiple  *)
(* of the distance of doubles, a power of two, and on the same side as n   *)
(* of the powers of two: between half of the next one and that one.        *)
LEMMA DoubleIs ==
  ASSUME NEW n \in Nat
  PROVE  /\ n < Exact => Double(n) = n
         /\ n >= Exact => \E ulp \in Powers :
              /\ Double(n) \in Nat
              /\ 2 * (Double(n) - n) <= ulp /\ 2 * (n - Double(n)) <= ulp
              /\ Exact * ulp \in Powers /\ Exact * ulp <= 2 * n
              /\ Exact * ulp <= 2 * Double(n) /\ Double(n) <= Exact * ulp
<1>1. ASSUME n < Exact PROVE Double(n) = n
  <2>1. n \div 1 = n /\ n % 1 = 0 /\ n * 1 = n
    OBVIOUS
  <2> QED BY <1>1, <2>1 DEF Double
<1>2. ASSUME n >= Exact
      PROVE  \E ulp \in Powers :
              /\ Double(n) \in Nat
              /\ 2 * (Double(n) - n) <= ulp /\ 2 * (n - Double(n)) <= ulp
              /\ Exact * ulp \in Powers /\ Exact * ulp <= 2 * n
              /\ Exact * ulp <= 2 * Double(n) /\ Double(n) <= Exact * ulp
  <2> DEFINE P == PowerAbove[n + 1]
  <2>1. P \in Powers /\ P \in Nat /\ n + 1 <= P /\ \A k \in Powers : n + 1 <= k => P <= k
    BY PowerAboveLeast, PowersDouble
  <2> HIDE DEF P
  <2>2. PICK ulp \in Powers : P = Exact * ulp
    BY <1>2, <2>1, ExactPower, PowersDivide
  <2>3. PICK half \in Powers : Exact = 2 * half
    BY ExactPower
  <2>4. ulp \in Nat /\ ulp >= 1 /\ half \in Nat /\ half >= 1 /\ half * ulp \in Powers
        /\ half * ulp \in Nat
    BY PowersDouble, PowersMultiply
  <2>5. P = 2 * (half * ulp)
    BY <2>2, <2>3, <2>4
  <2>6. half * ulp <= n
    BY <2>1, <2>4, <2>5
  <2>7. P \div Exact = ulp
    <3>1. P = ulp * Exact /\ Exact > 0
      BY <2>2, <2>4
    <3>2. P = Exact * (P \div Exact) + (P % Exact) /\ P % Exact \in 0 .. Exact - 1
          /\ P \div Exact \in Int
      BY <2>1, Division
    <3>3. (0 + Exact * ulp) % Exact = 0
      BY <2>4, RemainderUnique
    <3>4. P % Exact = 0
      BY <2>2, <2>4, <3>3
    <3> DEFINE d == (P \div Exact) - ulp
    <3>5. Exact * d = 0 /\ d \in Int
      BY <2>2, <2>4, <3>2, <3>4
    <3> HIDE DEF d
    <3>6. d = 0
      BY <3>5, MultipleBound
    <3> QED BY <2>4, <3>2, <3>6 DEF d
  <2> DEFINE q == n \div ulp
             r == n % ulp
  <2>8. q \in Int /\ r \in 0 .. ulp - 1 /\ n = ulp * q + r
    BY <2>4, Division
  <2>9. Double(n) = IF 2 * r > ulp \/ (2 * r = ulp /\ q % 2 = 1) THEN (q + 1) * ulp ELSE q * ulp
    BY <1>2, <2>7 DEF Double, P
  <2> HIDE DEF q, r
  <2>10. q * ulp = ulp * q /\ (q + 1) * ulp = ulp * q + ulp /\ ulp * q \in Int
    BY <2>4, <2>8
  <2>11. half <= q
    <3>1. ulp * (q - half) = ulp * q - half * ulp /\ q - half \in Int
      BY <2>4, <2>8
    <3>2. ulp * (q - half) > -ulp
      BY <2>4, <2>6, <2>8, <2>10, <3>1
    <3>3. ~(q - half < 0)
      BY <2>4, <3>1, <3>2, MultipleBound
    <3> QED BY <2>4, <2>8, <3>3
  <2>12. q + 1 <= Exact
    <3>1. ulp * (Exact - q) = Exact * ulp - ulp * q /\ Exact - q \in Int
      BY <2>4, <2>8
    <3>2. ulp * (Exact - q) > 0
      BY <2>1, <2>2, <2>4, <2>8, <2>10, <3>1
    <3>3. ~(Exact - q < 0) /\ (Exact - q = 0 => ulp * (Exact - q) = 0)
      BY <2>4, <3>1, <3>2, MultipleBound
    <3> QED BY <2>8, <3>2, <3>3
  <2>13. half * ulp <= q * ulp /\ (q + 1) * ulp <= Exact * ulp
    <3>1. ulp * (q - half) = q * ulp - half * ulp /\ q - half \in Int
          /\ ulp * (Exact - (q + 1)) = Exact * ulp - (q + 1) * ulp /\ Exact - (q + 1) \in Int
          /\ q * ulp \in Int /\ (q + 1) * ulp \in Int /\ Exact * ulp \in Int
      BY <2>4, <2>8
    <3>2. \A k \in Int : k >= 0 => ulp * k >= 0
      BY <2>4
    <3>3. ulp * (q - half) >= 0 /\ ulp * (Exact - (q + 1)) >= 0
      BY <2>4, <2>8, <2>11, <2>12, <3>1, <3>2
    <3> QED BY <2>4, <3>1, <3>3
  <2>14. Double(n) \in Int /\ half * ulp <= Double(n) /\ Double(n) <= Exact * ulp
         /\ 2 * (Double(n) - n) <= ulp /\ 2 * (n - Double(n)) <= ulp
    <3>1. Exact * ulp \in Int
      BY <2>4
    <3>2. CASE 2 * r > ulp \/ (2 * r = ulp /\ q % 2 = 1)
      <4>1. Double(n) = ulp * q + ulp /\ 2 * r >= ulp
        BY <2>4, <2>8, <2>9, <2>10, <3>2
      <4> QED BY <2>4, <2>8, <2>10, <2>13, <3>1, <4>1
    <3>3. CASE ~(2 * r > ulp \/ (2 * r = ulp /\ q % 2 = 1))
      <4>1. Double(n) = ulp * q /\ 2 * r <= ulp
        BY <2>4, <2>8, <2>9, <2>10, <3>3
      <4> QED BY <2>4, <2>8, <2>10, <2>13, <3>1, <4>1
    <3> QED BY <3>2, <3>3
  <2>15. Exact * ulp = 2 * (half * ulp) /\ Exact * ulp \in Powers
    BY <2>1, <2>2, <2>5
  <2>16. Double(n) \in Nat
    BY <2>4, <2>14
  <2> QED BY <2>4, <2>6, <2>14, <2>15, <2>16
<1> QED BY <1>1, <1>2

LEMMA FloorIs ==
  ASSUME NEW n \in Nat
  PROVE  LET k == Floor(n) IN k \in 0 .. n /\ k * k <= n /\ n < (k + 1) * (k + 1)
<1> DEFINE T == {j \in Nat : n < (j + 1) * (j + 1)}
<1>1. n < (n + 1) * (n + 1)
  <2>1. (n + 1) * (n + 1) = n * n + 2 * n + 1 /\ n * n >= 0 /\ n * n \in Int
    OBVIOUS
  <2> QED BY <2>1
<1>2. T \subseteq Nat /\ T # {}
  BY <1>1
<1>3. PICK k \in T : \A j \in T : k <= j
  <2> HIDE DEF T
  <2> QED BY <1>2, LeastNatural
<1>4. k \in 0 .. n
  BY <1>1, <1>3
<1>5. k * k <= n
  <2>1. CASE k = 0
    BY <2>1
  <2>2. CASE k # 0
    <3>1. k - 1 \in Nat /\ k - 1 \notin T
      BY <1>3, <2>2
    <3>2. ~(n < ((k - 1) + 1) * ((k - 1) + 1)) /\ (k - 1) + 1 = k
      BY <3>1
    <3>3. ~(n < k * k) /\ k * k \in Int
      BY <3>1, <3>2
    <3> QED BY <3>3
  <2> QED BY <2>1, <2>2
<1>6. \E i \in 0 .. n : i * i <= n /\ n < (i + 1) * (i + 1)
  BY <1>3, <1>4, <1>5
<1> QED BY <1>6 DEF Floor

(* How close to (k + 1)^2 a number lets its root round up to k + 1.        *)
LEMMA RoundsUpIff ==
  ASSUME NEW m \in Nat, NEW k \in Nat
  PROVE  LET D == 2 * Exact  c == k + 1  Q == PowerAbove[k + 1] IN
         RoundsUp(m, k) <=> D * (D * (c * c - m)) <= 2 * (D * (c * Q)) - Q * Q
<1> DEFINE D == 2 * Exact
           c == k + 1
           Q == PowerAbove[k + 1]
<1>1. D \in Int /\ c \in Int /\ Q \in Int /\ m \in Int
  BY PowerAboveLeast, PowersDouble
<1>2. RoundsUp(m, k) <=> D * D * m >= (D * c - Q) * (D * c - Q)
  BY DEF RoundsUp
<1> HIDE DEF D, c, Q
<1>3. (D * c - Q) * (D * c - Q) = D * (D * (c * c)) - 2 * (D * (c * Q)) + Q * Q
  BY <1>1
<1>4. D * (D * (c * c - m)) = D * (D * (c * c)) - D * D * m
  BY <1>1
<1>5. /\ D * D * m \in Int /\ D * (D * (c * c)) \in Int
      /\ D * (c * Q) \in Int /\ Q * Q \in Int
  <2>1. c * c \in Int /\ c * Q \in Int /\ D * D \in Int /\ Q * Q \in Int
    BY <1>1
  <2>2. D * (c * c) \in Int /\ D * D * m \in Int /\ D * (c * Q) \in Int
    BY <1>1, <2>1
  <2>3. D * (D * (c * c)) \in Int
    BY <1>1, <2>2
  <2> QED BY <2>1, <2>2, <2>3
<1> QED BY <1>2, <1>3, <1>4, <1>5 DEF D, c, Q

(* Up to 2^(p-1), roots of numbers that are not squares never come within  *)
(* rounding of the next integer.                                           *)
LEMMA SmallRootExact ==
  ASSUME NEW n \in Nat, n < Exact \div 2, NEW k \in Nat, k * k <= n, n < (k + 1) * (k + 1)
  PROVE  ~RoundsUp(n, k)
<1> DEFINE D == 2 * Exact
           c == k + 1
           Q == PowerAbove[k + 1]
<1>1. /\ c \in Nat /\ Q \in Powers /\ Q \in Nat /\ Q >= 1 /\ c <= Q
      /\ \A i \in Powers : c <= i => Q <= i
  BY PowerAboveLeast, PowersDouble
<1>2. 2 * n < Exact
  OBVIOUS
<1>3. k * k \in Nat /\ c * c \in Nat /\ c * c - n >= 1 /\ c * c - n \in Nat
  OBVIOUS
<1> HIDE DEF Q
<1>4. Q * Q <= Exact
  <2>1. CASE Q = 1
    BY <2>1
  <2>2. CASE Q # 1
    <3>1. PICK h \in Powers : Q = 2 * h
      BY <1>1, <2>2, PowersHalve
    <3>2. h \in Nat /\ h >= 1
      BY PowersDouble
    <3>3. h <= k
      BY <1>1, <3>1, <3>2
    <3>4. h * h <= k * k /\ h * h \in Nat
      BY <3>2, <3>3, ProductsGrow
    <3>5. Q * Q = 4 * (h * h)
      BY <3>1, <3>2
    <3>6. Q * Q < 2 * Exact
      BY <1>2, <1>3, <3>4, <3>5
    <3>7. Q * Q \in Powers /\ 2 * Exact \in Powers
      BY <1>1, ExactPower, PowersMultiply, PowersDouble
    <3>8. 2 * (Q * Q) <= 2 * Exact
      BY <3>6, <3>7, PowersDivide
    <3> QED BY <3>4, <3>5, <3>8
  <2> QED BY <2>1, <2>2
<1>5. c * Q <= Exact /\ c * Q \in Nat
  <2>1. c * Q <= Q * Q /\ c * Q \in Nat /\ Q * Q \in Nat
    BY <1>1, ProductsGrow
  <2> QED BY <1>4, <2>1
<1>6. Q * Q > 0 /\ Q * Q \in Nat
  <2>1. 1 * 1 <= Q * Q /\ Q * Q \in Nat
    BY <1>1, ProductsGrow
  <2> QED BY <2>1
<1>7. D \in Nat
  OBVIOUS
<1> DEFINE i == c * Q
           j == c * c - n
<1>8. i \in Nat /\ j \in Nat /\ i <= Exact /\ 1 <= j
  BY <1>3, <1>5
<1> HIDE DEF i, j
<1>9. D * i <= D * Exact /\ D * i \in Nat /\ D * Exact \in Nat
  BY <1>7, <1>8, ProductsGrow
<1>10. D * 1 <= D * j /\ D * j \in Nat
  BY <1>7, <1>8, ProductsGrow
<1>11. D * D <= D * (D * j) /\ D * (D * j) \in Nat /\ D * D \in Nat
  <2>1. D <= D * j
    BY <1>7, <1>10
  <2> HIDE DEF D
  <2> QED BY <1>7, <1>10, <2>1, ProductsGrow
<1>12. D * D = 2 * (D * Exact)
  OBVIOUS
<1> DEFINE I == D * i
           J == D * (D * j)
           QQ == Q * Q
<1>13. ~(J <= 2 * I - QQ)
  <2>1. I \in Nat /\ J \in Nat /\ QQ \in Nat /\ QQ > 0 /\ 2 * I <= J
    BY <1>6, <1>9, <1>11, <1>12
  <2> HIDE DEF I, J, QQ
  <2> QED BY <2>1
<1>14. RoundsUp(n, k) <=> J <= 2 * I - QQ
  BY RoundsUpIff DEF i, j, Q
<1> QED BY <1>13, <1>14

(* Below half of Exact's square there are fewer roots than a double has    *)
(* whole values, and PowerAbove[k + 1] is between k + 1 and twice that.    *)
LEMMA RootsBelow ==
  ASSUME NEW m \in Nat, 2 * m <= Exact * Exact, NEW k \in Nat, k * k <= m
  PROVE  /\ k + 1 <= Exact
         /\ LET Q == PowerAbove[k + 1] IN
              /\ Q \in Powers /\ Q \in Nat /\ k + 1 <= Q /\ Q <= Exact /\ Q + 1 <= 2 * (k + 1)
<1> DEFINE Q == PowerAbove[k + 1]
<1>1. Q \in Powers /\ Q \in Nat /\ k + 1 <= Q /\ \A i \in Powers : k + 1 <= i => Q <= i
  BY PowerAboveLeast, PowersDouble
<1>2. k + 1 <= Exact
  <2> SUFFICES ASSUME Exact <= k PROVE FALSE
    OBVIOUS
  <2>1. Exact * Exact <= k * k /\ k * k \in Nat /\ Exact * Exact \in Nat
    BY ProductsGrow
  <2>2. 1 * 1 <= Exact * Exact
    BY ProductsGrow
  <2> QED BY <2>1, <2>2
<1>3. Q <= Exact
  BY <1>1, <1>2, ExactPower
<1>4. Q + 1 <= 2 * (k + 1)
  <2>1. CASE Q = 1
    BY <2>1
  <2>2. CASE Q # 1
    <3>1. PICK h \in Powers : Q = 2 * h
      BY <1>1, <2>2, PowersHalve
    <3>2. h \in Nat /\ h >= 1
      BY PowersDouble
    <3>3. ~(k + 1 <= h)
      BY <1>1, <3>1, <3>2
    <3> QED BY <3>1, <3>2, <3>3
  <2> QED BY <2>1, <2>2
<1> QED BY <1>1, <1>2, <1>3, <1>4

(* Rounding up needs m to be nearer than k + 2 to the next square.         *)
LEMMA UpIsNear ==
  ASSUME NEW m \in Nat, 2 * m <= Exact * Exact, NEW k \in Nat, k * k <= m,
         RoundsUp(m, k)
  PROVE  k * k + k <= m
<1> DEFINE D == 2 * Exact
           c == k + 1
           Q == PowerAbove[k + 1]
           x == c * c - m
<1> SUFFICES ASSUME m < k * k + k PROVE FALSE
  OBVIOUS
<1>1. Q \in Nat /\ Q <= Exact
  BY RootsBelow
<1>2. x \in Nat /\ c + 1 <= x
  <2>1. c * c = k * k + 2 * k + 1 /\ k * k \in Nat
    OBVIOUS
  <2> QED BY <2>1
<1>3. D * (D * x) <= 2 * (D * (c * Q)) - Q * Q
  BY RoundsUpIff
<1>4. D \in Nat /\ D > 0 /\ c \in Nat /\ D = 2 * Exact
  OBVIOUS
<1> HIDE DEF D, c, Q, x
<1>5. c * Q \in Nat /\ c * Exact \in Nat /\ c * Q <= c * Exact
  BY <1>1, <1>4, ProductsGrow
<1>6. D * (c * Q) \in Nat /\ D * (c * Exact) \in Nat /\ D * (c * Q) <= D * (c * Exact)
  BY <1>4, <1>5, ProductsGrow
<1>7. 2 * (D * (c * Exact)) = D * (D * c)
  BY <1>4
<1>8. D * (c + 1) \in Nat /\ D * x \in Nat /\ D * (c + 1) <= D * x
  BY <1>2, <1>4, ProductsGrow
<1>9. D * (D * (c + 1)) \in Nat /\ D * (D * x) \in Nat /\ D * (D * (c + 1)) <= D * (D * x)
  BY <1>4, <1>8, ProductsGrow
<1>10. D * (D * (c + 1)) = D * (D * c) + D * D /\ D * (D * c) \in Nat /\ D * D \in Nat
  BY <1>4
<1>11. 1 * 1 <= D * D
  BY <1>4, ProductsGrow
<1>12. Q * Q \in Nat
  BY <1>1
<1> QED BY <1>3, <1>6, <1>7, <1>9, <1>10, <1>11, <1>12

(* Half a distance of doubles below a square, rounding is up.              *)
LEMMA NearIsUp ==
  ASSUME NEW m \in Nat, 2 * m <= Exact * Exact, NEW k \in Nat, k * k <= m,
         m < (k + 1) * (k + 1), NEW ulp \in Powers,
         Exact * ulp <= 2 * m, 2 * ((k + 1) * (k + 1) - m) <= ulp
  PROVE  RoundsUp(m, k)
<1> DEFINE D == 2 * Exact
           c == k + 1
           Q == PowerAbove[k + 1]
           x == c * c - m
           P == Exact * ulp
<1>1. Q \in Powers /\ Q \in Nat /\ c <= Q /\ Q <= Exact /\ Q + 1 <= 2 * c
  BY RootsBelow
<1>2. ulp \in Nat /\ ulp >= 1 /\ P \in Powers /\ P \in Nat
  BY ExactPower, PowersMultiply, PowersDouble
<1>3. x \in Nat /\ 2 * x <= ulp /\ c * c \in Nat /\ m < c * c
  OBVIOUS
<1>4. RoundsUp(m, k) <=> D * (D * x) <= 2 * (D * (c * Q)) - Q * Q
  BY RoundsUpIff
<1>5. D \in Nat /\ D > 0 /\ c \in Nat /\ D = 2 * Exact /\ P = Exact * ulp /\ P <= 2 * m
  OBVIOUS
<1> HIDE DEF D, c, Q, x, P
<1>6. P <= Q * Q
  <2>1. Q * Q \in Powers /\ Q * Q \in Nat
    BY <1>1, PowersMultiply
  <2>2. c * c <= Q * Q
    BY <1>1, <1>5, ProductsGrow
  <2>3. ~(2 * (Q * Q) <= P)
    BY <1>2, <1>3, <1>5, <2>1, <2>2
  <2>4. Q * Q < P => 2 * (Q * Q) <= P
    BY <1>2, <2>1, PowersDivide
  <2> QED BY <1>2, <2>1, <2>3, <2>4
<1>7. D * (D * x) \in Nat /\ D * (D * x) <= D * P
  <2>1. D * (2 * x) \in Nat /\ D * ulp \in Nat /\ D * (2 * x) <= D * ulp
    BY <1>2, <1>3, <1>5, ProductsGrow
  <2>2. D * ulp = 2 * P
    BY <1>2, <1>5
  <2>3. D * (2 * x) = 2 * (D * x) /\ D * x \in Nat
    BY <1>3, <1>5
  <2>4. D * x <= P
    BY <1>2, <2>1, <2>2, <2>3
  <2> QED BY <1>2, <1>5, <2>3, <2>4, ProductsGrow
<1>8. D * P <= D * (Q * Q) /\ D * P \in Nat /\ D * (Q * Q) \in Nat
  <2>1. Q * Q \in Nat
    BY <1>1
  <2> QED BY <1>2, <1>5, <1>6, <2>1, ProductsGrow
<1>9. D * (Q * Q) <= 2 * (D * (c * Q)) - Q * Q
  <2>1. (Q + 1) * Q \in Nat /\ (2 * c) * Q \in Nat /\ (Q + 1) * Q <= (2 * c) * Q
    BY <1>1, <1>5, ProductsGrow
  <2>2. D * ((Q + 1) * Q) \in Nat /\ D * ((2 * c) * Q) \in Nat
        /\ D * ((Q + 1) * Q) <= D * ((2 * c) * Q)
    BY <1>5, <2>1, ProductsGrow
  <2>3. D * ((Q + 1) * Q) = D * (Q * Q) + D * Q
    BY <1>1, <1>5
  <2>4. D * ((2 * c) * Q) = 2 * (D * (c * Q))
    BY <1>1, <1>5
  <2>5. Q * Q \in Nat /\ D * Q \in Nat /\ Q * Q <= D * Q
    BY <1>1, <1>5, ProductsGrow
  <2>6. D * (c * Q) \in Nat
    BY <1>1, <1>5
  <2> QED BY <1>8, <2>2, <2>3, <2>4, <2>5, <2>6
<1>10. D * (c * Q) \in Nat /\ Q * Q \in Nat
  BY <1>1, <1>5
<1> QED BY <1>4, <1>7, <1>8, <1>9, <1>10

(* The double of a number below half of Exact's square is at most that,    *)
(* and no further from it than its root.                                   *)
LEMMA DoubleNear ==
  ASSUME NEW n \in Nat, 2 * n < Exact * Exact, n >= Exact
  PROVE  LET m == Double(n)  k == Floor(m) IN
         /\ m \in Nat /\ 2 * m <= Exact * Exact
         /\ m - k <= n /\ n <= m + k
         /\ \E ulp \in Powers : ulp \in Nat /\ Exact * ulp <= 2 * m /\ 2 * (n - m) <= ulp
<1> DEFINE m == Double(n)
           k == Floor(m)
           E == Exact * Exact
<1>1. PICK ulp \in Powers :
              /\ m \in Nat
              /\ 2 * (m - n) <= ulp /\ 2 * (n - m) <= ulp
              /\ Exact * ulp \in Powers /\ Exact * ulp <= 2 * n
              /\ Exact * ulp <= 2 * m /\ m <= Exact * ulp
  BY DoubleIs
<1> HIDE DEF m
<1>2. k \in Nat /\ k * k <= m /\ m < (k + 1) * (k + 1)
  BY <1>1, FloorIs
<1>3. E \in Powers /\ E \in Nat /\ 2 * n < E
  BY ExactPower, PowersMultiply, PowersDouble
<1>4. ulp \in Nat /\ ulp >= 1 /\ Exact * ulp \in Nat
  BY <1>1, PowersDouble
<1>5. 2 * (Exact * ulp) <= E
  <2>1. Exact * ulp < E
    BY <1>1, <1>3, <1>4
  <2> QED BY <1>1, <1>3, <2>1, PowersDivide
<1>6. 2 * m <= E
  BY <1>1, <1>3, <1>4, <1>5
<1> HIDE DEF k
<1>7. ulp < 2 * (k + 1)
  <2> SUFFICES ASSUME 2 * (k + 1) <= ulp PROVE FALSE
    BY <1>2, <1>4
  <2>1. ulp < Exact
    <3> SUFFICES ASSUME Exact <= ulp PROVE FALSE
      BY <1>4
    <3>1. Exact * Exact <= Exact * ulp
      BY <1>4, ProductsGrow
    <3> QED BY <1>1, <1>3, <1>4, <3>1
  <2>2. ulp * ulp <= Exact * ulp /\ ulp * ulp \in Nat
    BY <1>4, <2>1, ProductsGrow
  <2>3. (2 * (k + 1)) * (2 * (k + 1)) <= ulp * ulp
    BY <1>2, <1>4, ProductsGrow
  <2>4. (2 * (k + 1)) * (2 * (k + 1)) = 4 * ((k + 1) * (k + 1)) /\ (k + 1) * (k + 1) \in Nat
    BY <1>2
  <2> QED BY <1>1, <1>2, <1>4, <2>2, <2>3, <2>4
<1>8. m - k <= n /\ n <= m + k
  BY <1>1, <1>2, <1>4, <1>7
<1> QED BY <1>1, <1>4, <1>6, <1>8 DEF m, k

(* What is cast is the root rounded down, or one more than that, and the   *)
(* former for all small numbers.                                           *)
LEMMA RootIs ==
  ASSUME NEW n \in Nat, 2 * n < Exact * Exact, NEW l \in Root(n)
  PROVE  /\ n < (l + 1) * (l + 1) /\ (l > 0 => (l - 1) * (l - 1) <= n)
         /\ n < Exact \div 2 => l * l <= n
<1> DEFINE m == Double(n)
           k == Floor(m)
<1>1. l = IF RoundsUp(m, k) THEN k + 1 ELSE k
  BY DEF Root
<1>2. CASE n < Exact
  <2>1. m = n
    BY <1>2, DoubleIs
  <2>2. k \in Nat /\ k * k <= n /\ n < (k + 1) * (k + 1)
    BY <2>1, FloorIs
  <2>3. n < Exact \div 2 => ~RoundsUp(m, k)
    BY <2>1, <2>2, SmallRootExact
  <2> HIDE DEF m, k
  <2>4. k * k \in Nat /\ (k + 1) * (k + 1) = k * k + 2 * k + 1
        /\ ((k + 1) + 1) * ((k + 1) + 1) = k * k + 4 * k + 4
        /\ (k - 1) * (k - 1) = k * k - 2 * k + 1
        /\ (k + 1) - 1 = k
    BY <2>2
  <2>5. CASE l = k
    BY <2>2, <2>4, <2>5
  <2>6. CASE l = k + 1 /\ RoundsUp(m, k)
    BY <2>2, <2>3, <2>4, <2>6
  <2> QED BY <1>1, <2>5, <2>6
<1>3. CASE n >= Exact
  <2>1. /\ m \in Nat /\ 2 * m <= Exact * Exact
        /\ m - k <= n /\ n <= m + k
        /\ \E ulp \in Powers : ulp \in Nat /\ Exact * ulp <= 2 * m /\ 2 * (n - m) <= ulp
    BY <1>3, DoubleNear
  <2> HIDE DEF m
  <2>2. k \in Nat /\ k * k <= m /\ m < (k + 1) * (k + 1)
    BY <2>1, FloorIs
  <2>3. ~(n < Exact \div 2)
    BY <1>3
  <2> HIDE DEF k
  <2>4. k * k \in Nat /\ (k + 1) * (k + 1) = k * k + 2 * k + 1
        /\ ((k + 1) + 1) * ((k + 1) + 1) = k * k + 4 * k + 4
        /\ (k - 1) * (k - 1) = k * k - 2 * k + 1
        /\ (k + 1) - 1 = k
    BY <2>2
  <2>5. CASE RoundsUp(m, k)
    <3>1. k * k + k <= m
      BY <2>1, <2>2, <2>5, UpIsNear
    <3>2. l = k + 1
      BY <1>1, <2>5
    <3> QED BY <2>1, <2>2, <2>3, <2>4, <3>1, <3>2
  <2>6. CASE ~RoundsUp(m, k)
    <3>1. l = k
      BY <1>1, <2>6
    <3>2. n < (k + 1) * (k + 1)
      <4> SUFFICES ASSUME (k + 1) * (k + 1) <= n PROVE FALSE
        BY <2>2
      <4>1. PICK ulp \in Powers : ulp \in Nat /\ Exact * ulp <= 2 * m /\ 2 * (n - m) <= ulp
        BY <2>1
      <4>2. 2 * ((k + 1) * (k + 1) - m) <= ulp
        BY <2>1, <2>2, <2>4, <4>1
      <4> QED BY <2>1, <2>2, <2>6, <4>1, <4>2, NearIsUp
    <3>3. k > 0 => (k - 1) * (k - 1) <= n
      BY <2>1, <2>2, <2>4
    <3> QED BY <2>3, <3>1, <3>2, <3>3
  <2> QED BY <2>5, <2>6
<1> QED BY <1>2, <1>3
-----------------------------------------------------------------------------
(* The integral length is never wrong by more than one, and never too      *)
(* great while the square is below half of what a double counts, provided  *)
(* that scalar_result has twice T's width, or more, and that a double has  *)
(* every value of T.                                                       *)
THEOREM LengthFloor ==
  ASSUME ResultHalf >= 2 * Half * Half, Exact >= 2 * Half
  PROVE  Spec => []LengthIsFloor
<1>1. ASSUME TypeOK PROVE LengthIsFloor
  <2> SUFFICES ASSUME u # Lowest, NEW n \in lensqr(u), NEW l \in len(u)
               PROVE  /\ n < (l + 1) * (l + 1) /\ (l > 0 => (l - 1) * (l - 1) <= n)
                      /\ n < Exact \div 2 => l * l <= n
    BY DEF LengthIsFloor
  <2>1. u.x \in Scalars /\ u.y \in Scalars /\ u = vec2(u.x, u.y)
    BY <1>1 DEF TypeOK
  <2> DEFINE p == u.x * u.x
             q == u.y * u.y
  <2>2. /\ p \in Int /\ q \in Int /\ 0 <= p /\ 0 <= q
        /\ p <= Half * Half /\ q <= Half * Half
        /\ p = Half * Half => u.x = -Half
        /\ q = Half * Half => u.y = -Half
    <3>1. \A i \in Int : i * i >= 0
      OBVIOUS
    <3> QED BY <2>1, <3>1, ProductBound
  <2>3. Half * Half \in Int /\ (2 * Half) * (2 * Half) = 4 * (Half * Half)
        /\ 2 * Half * Half = 2 * (Half * Half)
    OBVIOUS
  <2>4. ~(p = Half * Half /\ q = Half * Half)
    BY <2>1, <2>2 DEF Lowest
  <2> HIDE DEF p, q
  <2>5. p + q \in Nat /\ p + q < 2 * (Half * Half)
    BY <2>2, <2>3, <2>4
  <2>6. {p, q, p + q} \subseteq Signed(ResultHalf)
    BY <2>2, <2>3, <2>5
  <2>7. lensqr(u) = {p + q}
    BY <2>6 DEF lensqr, dot, Result, p, q
  <2>8. len(u) = Root(p + q)
    BY <2>7 DEF len
  <2>9. 2 * (p + q) < Exact * Exact
    <3>1. (2 * Half) * (2 * Half) <= Exact * Exact /\ Exact * Exact \in Nat
      BY ProductsGrow
    <3> QED BY <2>3, <2>5, <3>1
  <2> QED BY <2>5, <2>7, <2>8, <2>9, RootIs
<1> QED BY <1>1, TypeCorrect, PTL
=============================================================================
