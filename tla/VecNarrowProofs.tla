--------------------------- MODULE VecNarrowProofs ---------------------------
(* Narrowing a vector commutes with its arithmetic, for any two widths of  *)
(* which one is a multiple of the other.                                   *)
EXTENDS VecNarrow, IntegerLemmas

USE NarrowAssumption

(* The values of the two types, spelled out.                               *)
LEMMA Types ==
  /\ Wide!Scalars = -WideHalf .. WideHalf - 1 /\ Narrow!Scalars = -Half .. Half - 1
  /\ Wide!Vectors = [x : Wide!Scalars, y : Wide!Scalars]
  /\ Narrow!Vectors = [x : Narrow!Scalars, y : Narrow!Scalars]
  /\ \A x, y : Wide!vec2(x, y) = [x |-> x, y |-> y]
  /\ \A v : Narrow!convert(v) = [x |-> Narrow!Wrap(v.x), y |-> Narrow!Wrap(v.y)]
BY DEF Wide!Scalars, Wide!Signed, Narrow!Scalars, Narrow!Signed, Wide!Vectors,
       Narrow!Vectors, Wide!vec2, Narrow!vec2, Narrow!convert

(* A wrapped number is a value of the type, a multiple of its size away.   *)
LEMMA WrapRange ==
  ASSUME NEW n \in Int
  PROVE  Narrow!Wrap(n) \in Narrow!Scalars /\ Wide!Wrap(n) \in Wide!Scalars
<1>1. /\ (n + Half) % (2 * Half) \in 0 .. 2 * Half - 1
      /\ (n + WideHalf) % (2 * WideHalf) \in 0 .. 2 * WideHalf - 1
  OBVIOUS
<1> QED BY <1>1, Types DEF Narrow!Wrap, Wide!Wrap

LEMMA WrapShift ==
  ASSUME NEW n \in Int, NEW k \in Int
  PROVE  Narrow!Wrap(n + (2 * Half) * k) = Narrow!Wrap(n)
<1> DEFINE D == 2 * Half
<1>1. D \in Int /\ D > 0 /\ Half \in Int
  OBVIOUS
<1> HIDE DEF D
<1>2. D * k \in Int
  BY <1>1, MultipleBound
<1>3. (n + Half) \in Int /\ (n + D * k) + Half = (n + Half) + D * k
  BY <1>1, <1>2
<1>4. ((n + Half) + D * k) % D = (n + Half) % D
  BY <1>1, <1>3, RemainderShift
<1>5. ((n + D * k) + Half) % D = (n + Half) % D
  BY <1>3, <1>4
<1> QED BY <1>5 DEF Narrow!Wrap, D

LEMMA WrapParts ==
  ASSUME NEW n \in Int
  PROVE  /\ \E k \in Int : Narrow!Wrap(n) = n + (2 * Half) * k
         /\ \E k \in Int : Wide!Wrap(n) = n + (2 * Half) * k
<1> DEFINE D == 2 * Half
           E == 2 * WideHalf
           j == (n + Half) \div D
           k == (n + WideHalf) \div E
           c == WideHalf \div Half
<1>1. /\ D \in Int /\ D > 0 /\ E \in Int /\ E > 0
      /\ n + Half \in Int /\ n + WideHalf \in Int
  OBVIOUS
<1>2. c \in Int /\ WideHalf = Half * c
  <2>1. WideHalf = Half * c + (WideHalf % Half) /\ c \in Int
    BY Division
  <2> QED BY <2>1
<1>3. /\ j \in Int /\ n + Half = D * j + ((n + Half) % D)
      /\ k \in Int /\ n + WideHalf = E * k + ((n + WideHalf) % E)
      /\ (n + Half) % D \in Int /\ (n + WideHalf) % E \in Int
  <2> HIDE DEF D, E
  <2> QED BY <1>1, Division
<1>4. Narrow!Wrap(n) = ((n + Half) % D) - Half /\ Wide!Wrap(n) = ((n + WideHalf) % E) - WideHalf
  BY DEF Narrow!Wrap, Wide!Wrap
<1>5. D * (-j) = -(D * j) /\ D * j \in Int
  <2> HIDE DEF D, j
  <2> QED BY <1>1, <1>3
<1>6. D * (-(c * k)) = -(E * k) /\ c * k \in Int /\ E * k \in Int
  <2> HIDE DEF c, k
  <2>1. c * k \in Int /\ E * k \in Int
    BY <1>1, <1>2, <1>3
  <2>2. E * k = (2 * (Half * c)) * k
    BY <1>2
  <2>3. (2 * (Half * c)) * k = (2 * Half) * (c * k)
    BY <1>2, <1>3
  <2>4. (2 * Half) * (-(c * k)) = -((2 * Half) * (c * k))
    BY <2>1
  <2> QED BY <2>1, <2>2, <2>3, <2>4
<1> HIDE DEF j, k, c, D, E
<1>7. Narrow!Wrap(n) = n + D * (-j)
  BY <1>1, <1>3, <1>4, <1>5
<1>8. Wide!Wrap(n) = n + D * (-(c * k))
  BY <1>1, <1>3, <1>4, <1>6
<1>9. -j \in Int /\ -(c * k) \in Int
  BY <1>3, <1>6
<1> QED BY <1>7, <1>8, <1>9 DEF D

(* Values of the wide type, each with what its narrow copy holds.          *)
LEMMA WrapAgain ==
  ASSUME NEW n \in Int
  PROVE  Narrow!Wrap(Wide!Wrap(n)) = Narrow!Wrap(n)
<1>1. PICK k \in Int : Wide!Wrap(n) = n + (2 * Half) * k
  BY WrapParts
<1> QED BY <1>1, WrapShift

LEMMA WrapSums ==
  ASSUME NEW m \in Int, NEW n \in Int
  PROVE  /\ Narrow!Wrap(Narrow!Wrap(m) + Narrow!Wrap(n)) = Narrow!Wrap(m + n)
         /\ Narrow!Wrap(Narrow!Wrap(m) - Narrow!Wrap(n)) = Narrow!Wrap(m - n)
         /\ Narrow!Wrap(-Narrow!Wrap(m)) = Narrow!Wrap(-m)
<1> DEFINE D == 2 * Half
<1>1. PICK j \in Int : Narrow!Wrap(m) = m + D * j
  BY WrapParts
<1>2. PICK k \in Int : Narrow!Wrap(n) = n + D * k
  BY WrapParts
<1>3. /\ D * (j + k) = D * j + D * k /\ D * (j - k) = D * j - D * k
      /\ D * (-j) = -(D * j)
      /\ D * j \in Int /\ D * k \in Int
      /\ j + k \in Int /\ j - k \in Int /\ -j \in Int
  OBVIOUS
<1>4. /\ Narrow!Wrap((m + n) + D * (j + k)) = Narrow!Wrap(m + n)
      /\ Narrow!Wrap((m - n) + D * (j - k)) = Narrow!Wrap(m - n)
      /\ Narrow!Wrap((-m) + D * (-j)) = Narrow!Wrap(-m)
  <2>1. m + n \in Int /\ m - n \in Int /\ -m \in Int
    OBVIOUS
  <2>2. Narrow!Wrap((m + n) + D * (j + k)) = Narrow!Wrap(m + n)
    BY <1>3, <2>1, WrapShift
  <2>3. Narrow!Wrap((m - n) + D * (j - k)) = Narrow!Wrap(m - n)
    BY <1>3, <2>1, WrapShift
  <2>4. Narrow!Wrap((-m) + D * (-j)) = Narrow!Wrap(-m)
    BY <1>3, <2>1, WrapShift
  <2> QED BY <2>2, <2>3, <2>4
<1> HIDE DEF D
<1>5. /\ (m + D * j) + (n + D * k) = (m + n) + D * (j + k)
      /\ (m + D * j) - (n + D * k) = (m - n) + D * (j - k)
      /\ -(m + D * j) = (-m) + D * (-j)
  BY <1>3
<1> QED BY <1>1, <1>2, <1>4, <1>5

LEMMA ProductShift ==
  ASSUME NEW m \in Int, NEW n \in Int, NEW j \in Int, NEW k \in Int, NEW D \in Int
  PROVE  (m + D * j) * (n + D * k) = m * n + D * (m * k + j * n + j * (D * k))
OBVIOUS

LEMMA WrapProducts ==
  ASSUME NEW m \in Int, NEW n \in Int
  PROVE  Narrow!Wrap(Narrow!Wrap(m) * Narrow!Wrap(n)) = Narrow!Wrap(m * n)
<1> DEFINE D == 2 * Half
<1>1. PICK j \in Int : Narrow!Wrap(m) = m + D * j
  BY WrapParts
<1>2. PICK k \in Int : Narrow!Wrap(n) = n + D * k
  BY WrapParts
<1> DEFINE i == m * k + j * n + j * (D * k)
<1>3. m * n \in Int /\ i \in Int
  OBVIOUS
<1>4. Narrow!Wrap(m * n + D * i) = Narrow!Wrap(m * n)
  <2> HIDE DEF i
  <2> QED BY <1>3, WrapShift
<1>5. (m + D * j) * (n + D * k) = m * n + D * i
  BY ProductShift
<1> QED BY <1>1, <1>2, <1>4, <1>5
-----------------------------------------------------------------------------
(* Nothing the program computes overflows int: the operators give the one  *)
(* wrapped result.                                                         *)
LEMMA IntNeverOverflows ==
  ASSUME NEW n \in Int, -(WideHalf * WideHalf) <= n, n <= WideHalf * WideHalf
  PROVE  Wide!Cast(n) = {Wide!Wrap(n)} /\ Narrow!Cast(n) = {Narrow!Wrap(n)}
<1>1. WideHalf * WideHalf \in Nat /\ WideHalf * WideHalf > 0
  OBVIOUS
<1>2. OpHalf >= 2 * (WideHalf * WideHalf)
  OBVIOUS
<1>3. n \in -OpHalf .. OpHalf - 1
  BY <1>1, <1>2
<1> QED BY <1>3 DEF Wide!Cast, Narrow!Cast, Wide!Signed, Narrow!Signed

LEMMA Bounds ==
  ASSUME NEW m \in Wide!Scalars, NEW n \in Wide!Scalars
  PROVE  /\ m \in Int /\ n \in Int
         /\ m + n \in Int /\ -(WideHalf * WideHalf) <= m + n /\ m + n <= WideHalf * WideHalf
         /\ m - n \in Int /\ -(WideHalf * WideHalf) <= m - n /\ m - n <= WideHalf * WideHalf
         /\ -m \in Int /\ -(WideHalf * WideHalf) <= -m /\ -m <= WideHalf * WideHalf
         /\ m * n \in Int /\ -(WideHalf * WideHalf) <= m * n /\ m * n <= WideHalf * WideHalf
<1>1. m \in -WideHalf .. WideHalf - 1 /\ n \in -WideHalf .. WideHalf - 1
  BY Types
<1>2. WideHalf \in Nat /\ 2 * WideHalf <= WideHalf * WideHalf
  <2>1. WideHalf \in Nat /\ WideHalf >= 2
    OBVIOUS
  <2> QED BY <2>1
<1>3. m * n \in Int /\ -(WideHalf * WideHalf) <= m * n /\ m * n <= WideHalf * WideHalf
  <2>1. CASE m >= 0 /\ n >= 0
    BY <1>1, <2>1
  <2>2. CASE m >= 0 /\ n < 0
    BY <1>1, <2>2
  <2>3. CASE m < 0 /\ n >= 0
    BY <1>1, <2>3
  <2>4. CASE m < 0 /\ n < 0
    BY <1>1, <2>4
  <2> QED BY <1>1, <2>1, <2>2, <2>3, <2>4
<1> QED BY <1>1, <1>2, <1>3

(* One coordinate of an operation, wide and on the converted operands.     *)
LEMMA Coordinate ==
  ASSUME NEW m \in Wide!Scalars, NEW n \in Wide!Scalars
  PROVE  /\ Wide!Cast(m + n) = {Wide!Wrap(m + n)}
         /\ Narrow!Cast(Narrow!Wrap(m) + Narrow!Wrap(n)) = {Narrow!Wrap(Wide!Wrap(m + n))}
         /\ Wide!Cast(m - n) = {Wide!Wrap(m - n)}
         /\ Narrow!Cast(Narrow!Wrap(m) - Narrow!Wrap(n)) = {Narrow!Wrap(Wide!Wrap(m - n))}
         /\ Wide!Cast(-m) = {Wide!Wrap(-m)}
         /\ Narrow!Cast(-Narrow!Wrap(m)) = {Narrow!Wrap(Wide!Wrap(-m))}
         /\ Wide!Cast(m * n) = {Wide!Wrap(m * n)}
         /\ Narrow!Cast(Narrow!Wrap(m) * Narrow!Wrap(n)) = {Narrow!Wrap(Wide!Wrap(m * n))}
<1> DEFINE i == Narrow!Wrap(m)
           j == Narrow!Wrap(n)
<1>1. /\ m \in Int /\ n \in Int
      /\ m + n \in Int /\ m - n \in Int /\ -m \in Int /\ m * n \in Int
  BY Bounds
<1>2. i \in Wide!Scalars /\ j \in Wide!Scalars
  <2>1. i \in Narrow!Scalars /\ j \in Narrow!Scalars
    BY <1>1, WrapRange
  <2> QED BY <2>1, Types
<1>3. /\ Narrow!Wrap(i + j) = Narrow!Wrap(Wide!Wrap(m + n))
      /\ Narrow!Wrap(i - j) = Narrow!Wrap(Wide!Wrap(m - n))
      /\ Narrow!Wrap(-i) = Narrow!Wrap(Wide!Wrap(-m))
  BY <1>1, WrapSums, WrapAgain
<1>4. Narrow!Wrap(i * j) = Narrow!Wrap(Wide!Wrap(m * n))
  BY <1>1, WrapProducts, WrapAgain
<1> HIDE DEF i, j
<1>5. /\ Wide!Cast(m + n) = {Wide!Wrap(m + n)} /\ Wide!Cast(m - n) = {Wide!Wrap(m - n)}
      /\ Wide!Cast(-m) = {Wide!Wrap(-m)} /\ Wide!Cast(m * n) = {Wide!Wrap(m * n)}
  BY Bounds, IntNeverOverflows
<1>6. /\ Narrow!Cast(i + j) = {Narrow!Wrap(i + j)} /\ Narrow!Cast(i - j) = {Narrow!Wrap(i - j)}
      /\ Narrow!Cast(-i) = {Narrow!Wrap(-i)} /\ Narrow!Cast(i * j) = {Narrow!Wrap(i * j)}
  BY <1>2, Bounds, IntNeverOverflows
<1> QED BY <1>3, <1>4, <1>5, <1>6 DEF i, j

(* The wide vector holds values of its type, and the narrow one is its     *)
(* conversion whatever has wrapped.                                        *)
LEMMA Invariant == Spec => [](TypeOK /\ NarrowTracksWide)
<1> DEFINE Inv == wide \in Wide!Vectors /\ NarrowTracksWide
<1>0. \A n \in Int : /\ Narrow!Wrap(n) \in Narrow!Scalars
                     /\ Wide!Wrap(n) \in Wide!Scalars
  BY WrapRange
<1>1. Init => Inv
  <2>1. (0 + Half) % (2 * Half) = Half
    OBVIOUS
  <2>2. Narrow!Wrap(0) = 0
    BY <2>1 DEF Narrow!Wrap
  <2> QED BY <2>2, Types DEF Init, Wide!zero, Narrow!zero, Wide!vec2, Narrow!vec2, NarrowTracksWide
<1>2. Inv /\ [Next]_vars => Inv'
  <2> SUFFICES ASSUME Inv, [Next]_vars PROVE Inv'
    OBVIOUS
  <2>1. /\ wide.x \in Wide!Scalars /\ wide.y \in Wide!Scalars
        /\ narrow.x = Narrow!Wrap(wide.x) /\ narrow.y = Narrow!Wrap(wide.y)
    BY Types DEF NarrowTracksWide
  <2>2. \A x, y \in Operands : /\ x \in Wide!Scalars /\ y \in Wide!Scalars
    OBVIOUS
  <2>3. CASE Load
    BY <2>2, <2>3, Types DEF Load, NarrowTracksWide
  <2>4. CASE Add
    <3>1. PICK x \in Operands, y \in Operands :
            /\ wide' \in Wide!Plus(wide, Wide!vec2(x, y))
            /\ narrow' \in Narrow!Plus(narrow, Narrow!convert(Wide!vec2(x, y)))
      BY <2>4 DEF Add
    <3>2. wide' = [x |-> Wide!Wrap(wide.x + x), y |-> Wide!Wrap(wide.y + y)]
      BY <2>1, <2>2, <3>1, Coordinate DEF Wide!Plus, Wide!vec2
    <3>3. narrow' = [x |-> Narrow!Wrap(wide'.x), y |-> Narrow!Wrap(wide'.y)]
      BY <2>1, <2>2, <3>1, <3>2, Coordinate, Types DEF Narrow!Plus, Narrow!vec2
    <3>4. wide.x + x \in Int /\ wide.y + y \in Int
      BY <2>1, <2>2, Bounds
    <3> QED BY <1>0, <3>2, <3>3, <3>4, Types DEF NarrowTracksWide
  <2>5. CASE Subtract
    <3>1. PICK x \in Operands, y \in Operands :
            /\ wide' \in Wide!Minus(wide, Wide!vec2(x, y))
            /\ narrow' \in Narrow!Minus(narrow, Narrow!convert(Wide!vec2(x, y)))
      BY <2>5 DEF Subtract
    <3>2. wide' = [x |-> Wide!Wrap(wide.x - x), y |-> Wide!Wrap(wide.y - y)]
      BY <2>1, <2>2, <3>1, Coordinate DEF Wide!Minus, Wide!vec2
    <3>3. narrow' = [x |-> Narrow!Wrap(wide'.x), y |-> Narrow!Wrap(wide'.y)]
      BY <2>1, <2>2, <3>1, <3>2, Coordinate, Types DEF Narrow!Minus, Narrow!vec2
    <3>4. wide.x - x \in Int /\ wide.y - y \in Int
      BY <2>1, <2>2, Bounds
    <3> QED BY <1>0, <3>2, <3>3, <3>4, Types DEF NarrowTracksWide
  <2>6. CASE Negate
    <3>1. wide' = [x |-> Wide!Wrap(-wide.x), y |-> Wide!Wrap(-wide.y)]
      BY <2>1, <2>6, Coordinate DEF Negate, Wide!Neg, Wide!vec2
    <3>2. narrow' = [x |-> Narrow!Wrap(wide'.x), y |-> Narrow!Wrap(wide'.y)]
      BY <2>1, <2>6, <3>1, Coordinate DEF Negate, Narrow!Neg, Narrow!vec2
    <3>3. -wide.x \in Int /\ -wide.y \in Int
      BY <2>1, Bounds
    <3> QED BY <1>0, <3>1, <3>2, <3>3, Types DEF NarrowTracksWide
  <2>7. CASE Scale
    <3>1. PICK s \in Operands : /\ wide' \in Wide!Times(wide, s)
                               /\ narrow' \in Narrow!Times(narrow, Narrow!Wrap(s))
      BY <2>7 DEF Scale
    <3>2. wide' = [x |-> Wide!Wrap(wide.x * s), y |-> Wide!Wrap(wide.y * s)]
      BY <2>1, <2>2, <3>1, Coordinate DEF Wide!Times, Wide!vec2
    <3>3. narrow' = [x |-> Narrow!Wrap(wide'.x), y |-> Narrow!Wrap(wide'.y)]
      BY <2>1, <2>2, <3>1, <3>2, Coordinate DEF Narrow!Times, Narrow!vec2
    <3>4. wide.x * s \in Int /\ wide.y * s \in Int
      BY <2>1, <2>2, Bounds
    <3> QED BY <1>0, <3>2, <3>3, <3>4, Types DEF NarrowTracksWide
  <2>8. CASE UNCHANGED vars
    BY <2>8 DEF vars, NarrowTracksWide
  <2> QED BY <2>3, <2>4, <2>5, <2>6, <2>7, <2>8 DEF Next
<1>3. Inv => TypeOK /\ NarrowTracksWide
  <2>1. ASSUME Inv PROVE narrow \in Narrow!Vectors
    <3>1. wide.x \in Int /\ wide.y \in Int
      BY <2>1, Types, Bounds
    <3> QED BY <1>0, <2>1, <3>1, Types DEF NarrowTracksWide
  <2> QED BY <2>1 DEF TypeOK
<1> QED BY <1>1, <1>2, <1>3, PTL DEF Spec

(* Both vectors hold values of their types.                                *)
THEOREM TypeCorrect == Spec => []TypeOK
BY Invariant, PTL

(* Narrowing commutes with any sequence of sums, differences and multiples.*)
THEOREM Tracks == Spec => []NarrowTracksWide
BY Invariant, PTL
=============================================================================
