--------------------------- MODULE IntegerLemmas ---------------------------
(* Integers modulo D, as wrapping arithmetic of D values computes, what    *)
(* induction says of sets of numbers and of functions on them, and the     *)
(* powers of two.                                                          *)
EXTENDS Integers, WellFoundedInduction, TLAPS

(* A positive multiple of D is at least D, a negative one at most -D.      *)
LEMMA MultipleBound ==
  ASSUME NEW D \in Int, D > 0, NEW k \in Int
  PROVE  /\ D * k \in Int
         /\ k > 0 => D * k >= D
         /\ k < 0 => D * k <= -D
<1>1. CASE k > 0
  BY <1>1
<1>2. CASE k < 0
  BY <1>2
<1>3. CASE k = 0
  BY <1>3
<1> QED BY <1>1, <1>2, <1>3

(* What division leaves, with its quotient.                                *)
LEMMA Division ==
  ASSUME NEW D \in Int, D > 0, NEW n \in Int
  PROVE  /\ n % D \in 0 .. D - 1 /\ n \div D \in Int
         /\ n = D * (n \div D) + (n % D)
OBVIOUS

(* The remainder is the one number of 0 .. D-1 that n is a multiple of D   *)
(* away from.                                                              *)
LEMMA RemainderUnique ==
  ASSUME NEW D \in Int, D > 0, NEW r \in 0 .. D - 1, NEW k \in Int
  PROVE  (r + D * k) % D = r
<1> DEFINE n == r + D * k
           j == n \div D
<1>1. D * k \in Int /\ n \in Int
  BY MultipleBound
<1>2. n % D \in 0 .. D - 1 /\ j \in Int /\ n = D * j + (n % D)
  BY <1>1, Division
<1>3. D * (k - j) = D * k - D * j /\ D * j \in Int
  BY <1>2
<1>4. D * (k - j) = (n % D) - r
  BY <1>1, <1>2, <1>3
<1> HIDE DEF j
<1>5. k - j = 0
  BY <1>2, <1>4, MultipleBound
<1>6. D * (k - j) = 0
  BY <1>2, <1>5
<1> QED BY <1>2, <1>4, <1>6

(* Numbers a multiple of D apart leave the same remainder.                 *)
LEMMA RemainderShift ==
  ASSUME NEW D \in Int, D > 0, NEW n \in Int, NEW k \in Int
  PROVE  (n + D * k) % D = n % D
<1> DEFINE r == n % D
           j == n \div D
<1>1. r \in 0 .. D - 1 /\ j \in Int /\ n = D * j + r
  BY Division
<1>2. n + D * k = r + D * (j + k) /\ j + k \in Int
  BY <1>1
<1> HIDE DEF r, j
<1>3. (r + D * (j + k)) % D = r
  BY <1>1, <1>2, RemainderUnique
<1> QED BY <1>2, <1>3 DEF r

(* Quotients are monotonic.                                                *)
LEMMA QuotientMonotonic ==
  ASSUME NEW D \in Int, D > 0, NEW m \in Int, NEW n \in Int, m <= n
  PROVE  D * (m \div D) <= D * (n \div D)
<1> DEFINE j == m \div D
           k == n \div D
<1>1. /\ m % D \in 0 .. D - 1 /\ j \in Int /\ m = D * j + (m % D)
      /\ n % D \in 0 .. D - 1 /\ k \in Int /\ n = D * k + (n % D)
  BY Division
<1>2. D * (k - j) = D * k - D * j /\ D * j \in Int /\ D * k \in Int
  BY <1>1
<1> HIDE DEF j, k
<1>3. D * (k - j) > -D
  BY <1>1, <1>2
<1>4. ~(k - j < 0)
  BY <1>1, <1>3, MultipleBound
<1>5. k - j > 0 => D * (k - j) >= D
  BY <1>1, MultipleBound
<1>6. k - j = 0 => D * (k - j) = 0
  BY <1>1
<1>7. D * (k - j) >= 0
  BY <1>1, <1>4, <1>5, <1>6
<1> QED BY <1>2, <1>7 DEF j, k
-----------------------------------------------------------------------------
(* A set of natural numbers has a least one.                               *)
LEMMA LeastNatural ==
  ASSUME NEW T, T \subseteq Nat, T # {}
  PROVE  \E m \in T : \A n \in T : m <= n
<1> DEFINE R == OpToRel(<, Nat)
<1>1. IsWellFoundedOn(R, Nat)
  BY NatLessThanWellFounded, Zenon
<1>2. \A m, n \in Nat : m < n => <<m, n>> \in R
  BY DEF OpToRel
<1> HIDE DEF R
<1>3. PICK m \in T : \A n \in T : <<n, m>> \notin R
  BY <1>1, WFMin, Zenon
<1>4. \A n \in T : n \in Nat /\ m \in Nat /\ ~(n < m)
  BY <1>2, <1>3
<1>5. \A n \in T : m <= n
  BY <1>4
<1> QED BY <1>5

(* Induction along an interval: for sets, and so for any property that     *)
(* defines one.                                                            *)
LEMMA IntervalInduction ==
  ASSUME NEW n \in Nat, NEW T, 0 \in T, \A i \in 1 .. n : i - 1 \in T => i \in T
  PROVE  0 .. n \subseteq T
<1> DEFINE U == {i \in 0 .. n : i \notin T}
<1>1. SUFFICES ASSUME U # {} PROVE FALSE
  OBVIOUS
<1>2. PICK m \in U : \A i \in U : m <= i
  <2>1. U \subseteq Nat
    OBVIOUS
  <2> HIDE DEF U
  <2> QED BY <1>1, <2>1, LeastNatural
<1>3. m \in 1 .. n /\ m - 1 \in 0 .. n /\ m - 1 \notin U
  BY <1>2
<1> QED BY <1>2, <1>3

(* A value each of S to start with and a step each from S to S make one    *)
(* function on an interval.                                                *)
Recursions(S, p, n, step) ==
  {g \in [0 .. n -> S] : g[0] = p /\ \A i \in 1 .. n : g[i] = step[i][g[i - 1]]}

LEMMA IntervalRecursion ==
  ASSUME NEW S, NEW p \in S, NEW n \in Nat, NEW step \in [1 .. n -> [S -> S]]
  PROVE  Recursions(S, p, n, step) # {}
<1> DEFINE Solves(m, g) == g[0] = p /\ \A i \in 1 .. m : g[i] = step[i][g[i - 1]]
           T == {m \in 0 .. n : \E g \in [0 .. m -> S] : Solves(m, g)}
<1>1. 0 \in T
  <2>1. [i \in 0 .. 0 |-> p] \in [0 .. 0 -> S] /\ Solves(0, [i \in 0 .. 0 |-> p])
    OBVIOUS
  <2> HIDE DEF Solves
  <2> QED BY <2>1
<1>2. ASSUME NEW m \in 1 .. n, m - 1 \in T
      PROVE  m \in T
  <2>1. PICK g \in [0 .. m - 1 -> S] : Solves(m - 1, g)
    BY <1>2
  <2> DEFINE h == [i \in 0 .. m |-> IF i = m THEN step[m][g[m - 1]] ELSE g[i]]
  <2>2. g[m - 1] \in S /\ step[m] \in [S -> S]
    OBVIOUS
  <2>3. step[m][g[m - 1]] \in S
    BY <2>2
  <2>4. h \in [0 .. m -> S]
    BY <2>3
  <2>5. /\ h[m] = step[m][h[m - 1]]
        /\ \A i \in 0 .. m - 1 : h[i] = g[i]
    OBVIOUS
  <2>6. h[0] = p
    BY <2>1, <2>5
  <2>7. \A i \in 1 .. m : h[i] = step[i][h[i - 1]]
    <3> HIDE DEF h
    <3> TAKE i \in 1 .. m
    <3>1. CASE i = m
      BY <2>5, <3>1
    <3>2. CASE i # m
      <4>1. i \in 1 .. m - 1 /\ i \in 0 .. m - 1 /\ i - 1 \in 0 .. m - 1
        BY <3>2
      <4> QED BY <2>1, <2>5, <4>1
    <3> QED BY <3>1, <3>2
  <2>8. Solves(m, h)
    BY <2>6, <2>7
  <2> HIDE DEF Solves, h
  <2>9. m \in 0 .. n
    OBVIOUS
  <2> QED BY <2>4, <2>8, <2>9
<1> HIDE DEF T
<1>3. 0 .. n \subseteq T
  BY <1>1, <1>2, IntervalInduction
<1>4. n \in T
  BY <1>3
<1> QED BY <1>4 DEF T, Recursions

LEMMA IntervalSum ==
  ASSUME NEW n \in Nat, NEW d \in [1 .. n -> Int]
  PROVE  \E g \in [0 .. n -> Int] :
           g[0] = 0 /\ \A i \in 1 .. n : g[i] = g[i - 1] + d[i]
<1> DEFINE start == 0
           S == Int
           step == [i \in 1 .. n |-> [k \in S |-> k + d[i]]]
<1>1. start \in S /\ step \in [1 .. n -> [S -> S]]
  OBVIOUS
<1>2. \A i \in 1 .. n : \A k \in S : step[i][k] = k + d[i]
  OBVIOUS
<1> HIDE DEF start, S, step
<1>3. PICK g \in [0 .. n -> S] : g[0] = start /\ \A i \in 1 .. n : g[i] = step[i][g[i - 1]]
  <2>1. Recursions(S, start, n, step) # {}
    BY <1>1, IntervalRecursion
  <2> QED BY <2>1 DEF Recursions
<1>4. \A i \in 1 .. n : g[i - 1] \in S
  OBVIOUS
<1>5. \A i \in 1 .. n : g[i] = g[i - 1] + d[i]
  BY <1>2, <1>3, <1>4
<1> QED BY <1>3, <1>5 DEF start, S
-----------------------------------------------------------------------------
(* Products of natural numbers grow with their factors.                    *)
LEMMA ProductsGrow ==
  ASSUME NEW a \in Nat, NEW b \in Nat, NEW c \in Nat, NEW d \in Nat, a <= c, b <= d
  PROVE  a * b \in Nat /\ c * d \in Nat /\ a * b <= c * d
<1>1. a * b \in Nat /\ c * b \in Nat /\ c * d \in Nat
  OBVIOUS
<1>2. (c - a) * b = c * b - a * b /\ (c - a) * b >= 0
  OBVIOUS
<1>3. c * (d - b) = c * d - c * b /\ c * (d - b) >= 0
  OBVIOUS
<1> QED BY <1>1, <1>2, <1>3

(* The powers of two: what doubling reaches from one.                      *)
Powers ==
  {m \in Nat : \A S \in SUBSET Nat : 1 \in S /\ (\A k \in S : 2 * k \in S) => m \in S}

LEMMA PowerInduction ==
  ASSUME NEW S \in SUBSET Nat, 1 \in S, \A k \in S : 2 * k \in S
  PROVE  Powers \subseteq S
BY DEF Powers

LEMMA PowersDouble == 1 \in Powers /\ \A k \in Powers : k \in Nat /\ k >= 1 /\ 2 * k \in Powers
<1>1. 1 \in Powers
  BY DEF Powers
<1>2. ASSUME NEW k \in Powers PROVE k \in Nat /\ 2 * k \in Powers
  BY DEF Powers
<1>3. Powers \subseteq Nat \ {0}
  <2>1. 1 \in Nat \ {0} /\ \A k \in Nat \ {0} : 2 * k \in Nat \ {0}
    OBVIOUS
  <2> QED BY <2>1, PowerInduction
<1> QED BY <1>1, <1>2, <1>3

LEMMA PowersHalve == \A k \in Powers : k = 1 \/ \E j \in Powers : k = 2 * j
<1> DEFINE S == {k \in Powers : k = 1 \/ \E j \in Powers : k = 2 * j}
<1>1. 1 \in S /\ \A k \in S : 2 * k \in S
  BY PowersDouble
<1>2. S \in SUBSET Nat
  BY PowersDouble
<1> HIDE DEF S
<1>3. Powers \subseteq S
  BY <1>1, <1>2, PowerInduction
<1> QED BY <1>3 DEF S

LEMMA PowersMultiply == \A j, k \in Powers : j * k \in Powers
<1> SUFFICES ASSUME NEW j \in Powers PROVE \A k \in Powers : j * k \in Powers
  OBVIOUS
<1> DEFINE S == {k \in Powers : j * k \in Powers}
<1>1. 1 \in S
  <2>1. j \in Nat
    BY PowersDouble
  <2>2. j * 1 = j
    BY <2>1
  <2> QED BY <2>2, PowersDouble
<1>2. ASSUME NEW k \in S PROVE 2 * k \in S
  <2>1. j \in Nat /\ k \in Nat /\ k \in Powers /\ j * k \in Powers
    BY PowersDouble
  <2>2. j * (2 * k) = 2 * (j * k)
    BY <2>1
  <2> QED BY <2>1, <2>2, PowersDouble
<1>3. S \in SUBSET Nat
  BY PowersDouble
<1> HIDE DEF S
<1>4. Powers \subseteq S
  BY <1>1, <1>2, <1>3, PowerInduction
<1> QED BY <1>4 DEF S

(* A power of two divides every greater one.                               *)
LEMMA PowersDivide ==
  \A j, k \in Powers : /\ j <= k => \E i \in Powers : k = j * i
                       /\ j < k => 2 * j <= k
<1> DEFINE Divides(j) == \A k \in Powers : j <= k => \E i \in Powers : k = j * i
           S == {j \in Powers : Divides(j)}
<1>1. 1 \in S
  BY PowersDouble
<1>2. ASSUME NEW j \in S PROVE 2 * j \in S
  <2>1. j \in Powers /\ 2 * j \in Powers /\ j \in Nat /\ j >= 1
    BY PowersDouble
  <2>2. ASSUME NEW k \in Powers, 2 * j <= k PROVE \E i \in Powers : k = (2 * j) * i
    <3>1. k # 1 /\ k \in Nat
      BY <2>1, <2>2, PowersDouble
    <3>2. PICK h \in Powers : k = 2 * h
      BY <3>1, PowersHalve
    <3>3. h \in Nat /\ j <= h
      BY <2>1, <2>2, <3>2, PowersDouble
    <3>4. PICK i \in Powers : h = j * i
      BY <3>3
    <3>5. k = (2 * j) * i
      BY <2>1, <3>2, <3>4, PowersDouble
    <3> QED BY <3>5
  <2> QED BY <2>1, <2>2
<1>3. S \in SUBSET Nat
  BY PowersDouble
<1> HIDE DEF S
<1>4. Powers \subseteq S
  BY <1>1, <1>2, <1>3, PowerInduction
<1> SUFFICES ASSUME NEW j \in Powers, NEW k \in Powers
             PROVE  /\ j <= k => \E i \in Powers : k = j * i
                    /\ j < k => 2 * j <= k
  OBVIOUS
<1>5. j <= k => \E i \in Powers : k = j * i
  BY <1>4 DEF S
<1>6. ASSUME j < k PROVE 2 * j <= k
  <2>1. j \in Nat /\ k \in Nat
    BY PowersDouble
  <2>2. PICK i \in Powers : k = j * i
    BY <1>5, <1>6, <2>1
  <2>3. i \in Nat /\ i # 1
    BY <1>6, <2>1, <2>2, PowersDouble
  <2>4. PICK h \in Powers : i = 2 * h
    BY <2>3, PowersHalve
  <2>5. h \in Nat /\ h >= 1
    BY PowersDouble
  <2>6. k = (2 * j) * h
    BY <2>1, <2>2, <2>4, <2>5
  <2>7. (2 * j) * h >= 2 * j
    BY <2>1, <2>5
  <2> QED BY <2>6, <2>7
<1> QED BY <1>5, <1>6

(* There is a least power of two from any number on: the half of it is     *)
(* that of the number's half.                                              *)
LeastPower(n) == CHOOSE m \in Powers : n <= m /\ \A k \in Powers : n <= k => m <= k

LEMMA PowersUnbounded == \A n \in Nat : \E m \in Powers : n <= m
<1> DEFINE T == {n \in Nat : \A m \in Powers : ~(n <= m)}
<1> SUFFICES ASSUME T # {} PROVE FALSE
  OBVIOUS
<1>1. T \subseteq Nat
  OBVIOUS
<1>2. PICK n \in T : \A i \in T : n <= i
  <2> HIDE DEF T
  <2> QED BY <1>1, LeastNatural
<1>3. n > 1
  BY PowersDouble
<1>4. n - 1 \in Nat /\ n - 1 \notin T
  BY <1>2, <1>3
<1>5. PICK m \in Powers : n - 1 <= m
  BY <1>4
<1>6. m \in Nat /\ m >= 1 /\ 2 * m \in Powers /\ n <= 2 * m
  BY <1>3, <1>5, PowersDouble
<1> QED BY <1>6

LEMMA LeastPowerIs ==
  ASSUME NEW n \in Nat
  PROVE  LET m == LeastPower(n) IN m \in Powers /\ n <= m /\ \A k \in Powers : n <= k => m <= k
<1> DEFINE T == {m \in Powers : n <= m}
<1>1. T \subseteq Nat /\ T # {}
  BY PowersDouble, PowersUnbounded
<1> HIDE DEF T
<1>2. PICK m \in T : \A k \in T : m <= k
  BY <1>1, LeastNatural
<1>3. m \in Powers /\ n <= m /\ \A k \in Powers : n <= k => m <= k
  BY <1>2 DEF T
<1> QED BY <1>3 DEF LeastPower

LEMMA LeastPowerUnique ==
  ASSUME NEW n \in Nat, NEW m \in Powers, n <= m, \A k \in Powers : n <= k => m <= k
  PROVE  m = LeastPower(n)
<1>1. LeastPower(n) \in Powers /\ LeastPower(n) <= m /\ m <= LeastPower(n)
  BY LeastPowerIs
<1>2. m \in Nat /\ LeastPower(n) \in Nat
  BY <1>1, PowersDouble
<1> QED BY <1>1, <1>2

LEMMA LeastPowerRecursive ==
  ASSUME NEW n \in Nat
  PROVE  LeastPower(n) = IF n <= 1 THEN 1 ELSE 2 * LeastPower((n + 1) \div 2)
<1>1. CASE n <= 1
  <2>1. 1 \in Powers /\ \A k \in Powers : 1 <= k
    BY PowersDouble
  <2> QED BY <1>1, <2>1, LeastPowerUnique
<1>2. CASE n > 1
  <2> DEFINE h == (n + 1) \div 2
             m == LeastPower(h)
  <2>1. h \in Nat /\ n <= 2 * h /\ \A k \in Nat : n <= 2 * k => h <= k
    BY <1>2
  <2> HIDE DEF h
  <2>2. m \in Powers /\ h <= m /\ \A k \in Powers : h <= k => m <= k
    BY <2>1, LeastPowerIs
  <2> HIDE DEF m
  <2>3. m \in Nat /\ 2 * m \in Powers /\ n <= 2 * m
    BY <2>1, <2>2, PowersDouble
  <2>4. ASSUME NEW k \in Powers, n <= k PROVE 2 * m <= k
    <3>1. PICK j \in Powers : k = 2 * j
      BY <1>2, <2>4, PowersHalve, PowersDouble
    <3>2. j \in Nat /\ n <= 2 * j
      BY <2>4, <3>1, PowersDouble
    <3>3. m <= j
      BY <2>1, <2>2, <3>2
    <3> QED BY <2>3, <3>1, <3>2, <3>3
  <2>5. 2 * m = LeastPower(n)
    BY <2>3, <2>4, LeastPowerUnique
  <2> QED BY <1>2, <2>5 DEF m, h
<1> QED BY <1>1, <1>2
=============================================================================
