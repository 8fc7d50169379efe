-------------------------------- MODULE Vec2 --------------------------------
(***************************************************************************)
(* vec2<T> (math/vec2.h) for a signed integral T.  T's operands are        *)
(* promoted to the type Op the arithmetic is done in (int, or T if that is *)
(* wider), whose overflow is undefined: an operator returns the SET of     *)
(* results a build can give, one when the behaviour is defined.  Converting *)
(* back to T wraps.  Products are done in scalar_result, std::int64_t.     *)
(***************************************************************************)
EXTENDS Integers

CONSTANTS Half,        \* 2^(w-1) for the width w of T
          OpHalf,      \* ... of the promoted T
          ResultHalf   \* ... of scalar_result

ASSUME WidthAssumption == /\ Half \in Nat /\ Half > 1
                          /\ OpHalf \in Nat /\ OpHalf >= Half
                          /\ ResultHalf \in Nat /\ ResultHalf >= Half

Signed(h) == -h .. h - 1
Scalars == Signed(Half)
Vectors == [x : Scalars, y : Scalars]
vec2(x, y) == [x |-> x, y |-> y]
zero == vec2(0, 0)

Wrap(n) == ((n + Half) % (2 * Half)) - Half

(* Cast that saturates instead of wrapping                                 *)
CastSaturates(n) == {IF n < -Half THEN -Half ELSE IF n >= Half THEN Half - 1 ELSE n}

(* static_cast<T>(n), n computed in Op.                                    *)
Cast(n) == IF n \in Signed(OpHalf) THEN {Wrap(n)} ELSE Scalars

(* convert that saturates instead of wrapping                              *)
ConvertSaturates(a) == LET fit(n) == CHOOSE m \in CastSaturates(n) : TRUE
                       IN  vec2(fit(a.x), fit(a.y))

(* A vec2 of another integral type as a vec2<T>: no arithmetic, only the   *)
(* conversion.                                                             *)
convert(a) == vec2(Wrap(a.x), Wrap(a.y))

Neg(a) == {vec2(x, y) : x \in Cast(-a.x), y \in Cast(-a.y)}
Plus(a, b) == {vec2(x, y) : x \in Cast(a.x + b.x), y \in Cast(a.y + b.y)}

(* Minus with a slip in its second component                               *)
MinusSlip(a, b) == {vec2(x, y) : x \in Cast(a.x - b.x), y \in Cast(a.y - b.x)}
Minus(a, b) == {vec2(x, y) : x \in Cast(a.x - b.x), y \in Cast(a.y - b.y)}
Times(v, s) == {vec2(x, y) : x \in Cast(v.x * s), y \in Cast(v.y * s)}

Abs(n) == IF n < 0 THEN -n ELSE n

(* Quotient that rounds down                                               *)
QuotientFloor(n, s) == IF s > 0 THEN n \div s ELSE (-n) \div (-s)

(* n / s rounds towards zero; dividing by zero is undefined.               *)
Quotient(n, s) == IF (n < 0) = (s < 0) THEN Abs(n) \div Abs(s)
                                       ELSE -(Abs(n) \div Abs(s))
Ratio(n, s) == IF s = 0 THEN Scalars ELSE Cast(Quotient(n, s))
Over(v, s) == {vec2(x, y) : x \in Ratio(v.x, s), y \in Ratio(v.y, s)}

(* n, computed in scalar_result by way of the given intermediate values.   *)
Result(n, parts) ==
  IF parts \cup {n} \subseteq Signed(ResultHalf) THEN {n} ELSE Signed(ResultHalf)

(* dot whose factors are converted after the multiplication                *)
DotLateCast(a, b) ==
  UNION {Result(p + q, {p, q}) : p \in Cast(a.x * b.x), q \in Cast(a.y * b.y)}
dot(a, b) == Result(a.x * b.x + a.y * b.y, {a.x * b.x, a.y * b.y})

(* cross whose factors are converted after the multiplication              *)
CrossLateCast(a, b) ==
  UNION {Result(p - q, {p, q}) : p \in Cast(a.x * b.y), q \in Cast(a.y * b.x)}
cross(a, b) == Result(a.x * b.y - a.y * b.x, {a.x * b.y, a.y * b.x})

lensqr(v) == dot(v, v)

distancesqr(a, b) == UNION {lensqr(d) : d \in Minus(b, a)}

Lesser(m, n) == IF m < n THEN m ELSE n
Greater(m, n) == IF m < n THEN n ELSE m
min(a, b) == vec2(Lesser(a.x, b.x), Lesser(a.y, b.y))
max(a, b) == vec2(Greater(a.x, b.x), Greater(a.y, b.y))
=============================================================================
