------------------------------ MODULE MatProofs ------------------------------
(* The matrices' algebra, for all integer entries, and what it says of     *)
(* views of any number of factors.                                         *)
EXTENDS MatCalls, SequenceTheorems, IntegerLemmas

USE FactorAssumption DEF Unit

(* What a record of integers is made of.                                   *)
LEMMA VectorParts ==
  /\ \A v \in Vectors : v.x \in Int /\ v.y \in Int /\ v = vec2(v.x, v.y)
  /\ \A x, y \in Int : vec2(x, y) \in Vectors
  /\ \A x, y : vec2(x, y).x = x /\ vec2(x, y).y = y
BY DEF Vectors, vec2

LEMMA MatrixParts ==
  /\ \A m \in Matrices : /\ m.columnx \in Vectors /\ m.columny \in Vectors
                         /\ m = mat22(m.columnx, m.columny)
  /\ \A x, y \in Vectors : mat22(x, y) \in Matrices
  /\ \A x, y : mat22(x, y).columnx = x /\ mat22(x, y).columny = y
BY DEF Matrices, mat22

LEMMA IntMul == \A m, n \in Int : m * n \in Int
OBVIOUS

(* The arithmetic of vectors and matrices is closed.                       *)
LEMMA VectorClosed ==
  ASSUME NEW a \in Vectors, NEW b \in Vectors, NEW s \in Int
  PROVE  /\ Plus(a, b) \in Vectors /\ Minus(a, b) \in Vectors
         /\ Times(a, s) \in Vectors /\ cross(a, b) \in Int
<1>1. /\ a.x + b.x \in Int /\ a.y + b.y \in Int
      /\ a.x - b.x \in Int /\ a.y - b.y \in Int
  BY VectorParts
<1>2. /\ a.x * s \in Int /\ a.y * s \in Int
      /\ a.x * b.y \in Int /\ a.y * b.x \in Int
  BY VectorParts, IntMul
<1> QED BY <1>1, <1>2, VectorParts DEF Plus, Minus, Times, cross

LEMMA MatrixClosed ==
  ASSUME NEW a \in Matrices, NEW b \in Matrices
  PROVE  /\ \A v \in Vectors : Apply(a, v) \in Vectors
         /\ Compose(a, b) \in Matrices
         /\ determinant(a) \in Int /\ inverse(a) \in Matrices
         /\ transpose(a) \in Matrices
<1>1. \A w \in Vectors : Apply(a, w) \in Vectors
  BY MatrixParts, VectorParts, VectorClosed DEF Apply
<1>2. Compose(a, b) \in Matrices
  BY <1>1, MatrixParts DEF Compose
<1>3. determinant(a) \in Int
  BY MatrixParts, VectorClosed DEF determinant
<1>4. inverse(a) \in Matrices
  <2>1. /\ a.columnx.x \in Int /\ a.columnx.y \in Int
        /\ a.columny.x \in Int /\ a.columny.y \in Int
    BY MatrixParts, VectorParts
  <2>2. /\ a.columny.y * determinant(a) \in Int
        /\ -a.columnx.y * determinant(a) \in Int
        /\ -a.columny.x * determinant(a) \in Int
        /\ a.columnx.x * determinant(a) \in Int
    BY <1>3, <2>1
  <2> QED BY <2>2, MatrixParts, VectorParts DEF inverse
<1>5. transpose(a) \in Matrices
  BY MatrixParts, VectorParts DEF transpose
<1> QED BY <1>1, <1>2, <1>3, <1>4, <1>5

(* The products behind them, entry by entry.                               *)
LEMMA ComposeEntry ==
  ASSUME NEW a \in Int, NEW b \in Int, NEW c \in Int, NEW d \in Int,
         NEW e \in Int, NEW f \in Int, NEW s \in Int, NEW t \in Int
  PROVE  (a * c + b * d) * s + (a * e + b * f) * t
            = a * (c * s + e * t) + b * (d * s + f * t)
OBVIOUS

LEMMA DeterminantEntry ==
  ASSUME NEW a \in Int, NEW b \in Int, NEW c \in Int, NEW d \in Int,
         NEW e \in Int, NEW f \in Int, NEW g \in Int, NEW h \in Int
  PROVE  (a * e + c * f) * (b * g + d * h) - (b * e + d * f) * (a * g + c * h)
            = (a * d - b * c) * (e * h - f * g)
OBVIOUS

LEMMA InverseEntry ==
  ASSUME NEW p \in Int, NEW q \in Int, NEW r \in Int, NEW s \in Int, NEW d \in Int
  PROVE  /\ p * (s * d) + r * (-q * d) = (p * s - q * r) * d
         /\ q * (s * d) + s * (-q * d) = 0
         /\ p * (-r * d) + r * (p * d) = 0
         /\ q * (-r * d) + s * (p * d) = (p * s - q * r) * d
         /\ (s * d) * p + (-r * d) * q = (p * s - q * r) * d
         /\ (-q * d) * p + (p * d) * q = 0
         /\ (s * d) * r + (-r * d) * s = 0
         /\ (-q * d) * r + (p * d) * s = (p * s - q * r) * d
         /\ (s * d) * (p * d) - (-q * d) * (-r * d) = (p * s - q * r) * d * d
OBVIOUS

(* A product acts as its factors do in turn, on points and on matrices.    *)
LEMMA ComposeApplies ==
  ASSUME NEW a \in Matrices, NEW b \in Matrices, NEW v \in Vectors
  PROVE  Apply(Compose(a, b), v) = Apply(a, Apply(b, v))
<1>1. \A m \in Matrices : /\ m.columnx.x \in Int /\ m.columnx.y \in Int
                          /\ m.columny.x \in Int /\ m.columny.y \in Int
  BY MatrixParts, VectorParts
<1>2. v.x \in Int /\ v.y \in Int
  BY VectorParts
<1> DEFINE left(p, q) ==
      (p * b.columnx.x + q * b.columnx.y) * v.x + (p * b.columny.x + q * b.columny.y) * v.y
    right(p, q) ==
      p * (b.columnx.x * v.x + b.columny.x * v.y) + q * (b.columnx.y * v.x + b.columny.y * v.y)
<1>3. /\ left(a.columnx.x, a.columny.x) = right(a.columnx.x, a.columny.x)
      /\ left(a.columnx.y, a.columny.y) = right(a.columnx.y, a.columny.y)
  BY <1>1, <1>2, ComposeEntry
<1>4. Apply(Compose(a, b), v)
        = vec2(left(a.columnx.x, a.columny.x), left(a.columnx.y, a.columny.y))
  BY DEF Apply, Compose, Plus, Times, vec2, mat22
<1>5. Apply(a, Apply(b, v))
        = vec2(right(a.columnx.x, a.columny.x), right(a.columnx.y, a.columny.y))
  BY DEF Apply, Plus, Times, vec2
<1> QED BY <1>3, <1>4, <1>5

(* Determinants multiply.                                                  *)
LEMMA DeterminantMultiplies ==
  ASSUME NEW a \in Matrices, NEW b \in Matrices
  PROVE  determinant(Compose(a, b)) = determinant(a) * determinant(b)
<1>1. \A m \in Matrices : /\ m.columnx.x \in Int /\ m.columnx.y \in Int
                          /\ m.columny.x \in Int /\ m.columny.y \in Int
  BY MatrixParts, VectorParts
<1> DEFINE p == a.columnx.x  q == a.columnx.y  r == a.columny.x  s == a.columny.y
           e == b.columnx.x  f == b.columnx.y  g == b.columny.x  h == b.columny.y
<1>2. (p * e + r * f) * (q * g + s * h) - (q * e + s * f) * (p * g + r * h)
        = (p * s - q * r) * (e * h - f * g)
  BY <1>1, DeterminantEntry
<1>3. determinant(Compose(a, b))
        = (p * e + r * f) * (q * g + s * h) - (q * e + s * f) * (p * g + r * h)
  BY DEF determinant, cross, Compose, Apply, Plus, Times, vec2, mat22
<1> QED BY <1>2, <1>3 DEF determinant, cross

UnitMatrices == {m \in Matrices : determinant(m) \in Unit}

LEMMA UnitTimesUnit == \A d, e \in Unit : d * e \in Unit /\ d * d = 1
OBVIOUS

(* The matrices of determinant 1 or -1 are closed under what view is made  *)
(* of.                                                                     *)
LEMMA UnitCompose ==
  ASSUME NEW a \in UnitMatrices, NEW b \in UnitMatrices
  PROVE  Compose(a, b) \in UnitMatrices
<1>1. a \in Matrices /\ b \in Matrices /\ determinant(a) \in Unit /\ determinant(b) \in Unit
  BY DEF UnitMatrices
<1>2. determinant(Compose(a, b)) \in Unit
  BY <1>1, DeterminantMultiplies, UnitTimesUnit
<1>3. Compose(a, b) \in Matrices
  BY <1>1, MatrixClosed
<1> QED BY <1>2, <1>3 DEF UnitMatrices

LEMMA UnitIdentity == identity \in UnitMatrices
<1>1. vec2(1, 0) \in Vectors /\ vec2(0, 1) \in Vectors
  BY VectorParts
<1>2. determinant(identity) = 1
  BY DEF determinant, cross, identity, vec2, mat22
<1> QED BY <1>1, <1>2, MatrixParts DEF identity, UnitMatrices

LEMMA UnitRotation == ASSUME NEW q \in Int PROVE make_rot(q) \in UnitMatrices
<1> DEFINE s == Sin(q)
           c == Cos(q)
<1>1. s \in Int /\ c \in Int /\ c * c - s * (-s) = 1
  <2>1. CASE q % 4 = 0
    <3>1. c = 1 /\ s = 0
      BY <2>1 DEF Sin, Cos
    <3> QED BY <3>1
  <2>2. CASE q % 4 = 1
    <3>1. c = 0 /\ s = 1
      BY <2>2 DEF Sin, Cos
    <3> QED BY <3>1
  <2>3. CASE q % 4 = 2
    <3>1. c = -1 /\ s = 0
      BY <2>3 DEF Sin, Cos
    <3> QED BY <3>1
  <2>4. CASE q % 4 = 3
    <3>1. c = 0 /\ s = -1
      BY <2>4 DEF Sin, Cos
    <3> QED BY <3>1
  <2> QED BY <2>1, <2>2, <2>3, <2>4
<1>2. make_rot(q) = mat22(vec2(c, s), vec2(-s, c))
  BY DEF make_rot
<1>3. vec2(c, s) \in Vectors /\ vec2(-s, c) \in Vectors
  BY <1>1, VectorParts
<1>4. determinant(make_rot(q)) = c * c - s * (-s)
  BY <1>2 DEF determinant, cross, mat22, vec2
<1> QED BY <1>1, <1>2, <1>3, <1>4, MatrixParts DEF UnitMatrices

LEMMA UnitInverse ==
  ASSUME NEW m \in UnitMatrices
  PROVE  /\ inverse(m) \in UnitMatrices
         /\ Compose(m, inverse(m)) = identity /\ Compose(inverse(m), m) = identity
<1> DEFINE p == m.columnx.x  q == m.columnx.y  r == m.columny.x  s == m.columny.y
           d == determinant(m)
<1>1. /\ m \in Matrices /\ d \in Unit /\ d = p * s - q * r
      /\ p \in Int /\ q \in Int /\ r \in Int /\ s \in Int
  BY MatrixParts, VectorParts DEF UnitMatrices, determinant, cross
<1>2. inverse(m) = mat22(vec2(s * d, -q * d), vec2(-r * d, p * d))
  BY DEF inverse
<1>3. d \in Int /\ (p * s - q * r) * d = 1 /\ d * d * d = d
  BY <1>1
<1>4. /\ p * (s * d) + r * (-q * d) = 1 /\ q * (s * d) + s * (-q * d) = 0
      /\ p * (-r * d) + r * (p * d) = 0 /\ q * (-r * d) + s * (p * d) = 1
      /\ (s * d) * p + (-r * d) * q = 1 /\ (-q * d) * p + (p * d) * q = 0
      /\ (s * d) * r + (-r * d) * s = 0 /\ (-q * d) * r + (p * d) * s = 1
  <2>1. p \in Int /\ q \in Int /\ r \in Int /\ s \in Int /\ d \in Int
    BY <1>1, <1>3
  <2>. HIDE DEF p, q, r, s, d
  <2>2. /\ p * (s * d) + r * (-q * d) = (p * s - q * r) * d
        /\ q * (s * d) + s * (-q * d) = 0
        /\ p * (-r * d) + r * (p * d) = 0
        /\ q * (-r * d) + s * (p * d) = (p * s - q * r) * d
    BY <2>1, InverseEntry
  <2>3. /\ (s * d) * p + (-r * d) * q = (p * s - q * r) * d
        /\ (-q * d) * p + (p * d) * q = 0
        /\ (s * d) * r + (-r * d) * s = 0
        /\ (-q * d) * r + (p * d) * s = (p * s - q * r) * d
    BY <2>1, InverseEntry
  <2> QED BY <1>3, <2>2, <2>3
<1>5. Compose(m, inverse(m)) = identity
  BY <1>2, <1>4 DEF Compose, Apply, Plus, Times, identity, mat22, vec2
<1>6. Compose(inverse(m), m) = identity
  BY <1>2, <1>4 DEF Compose, Apply, Plus, Times, identity, mat22, vec2
<1>7. determinant(inverse(m)) \in Unit
  <2>1. determinant(inverse(m)) = (s * d) * (p * d) - (-q * d) * (-r * d)
    BY <1>2 DEF determinant, cross, mat22, vec2
  <2>2. determinant(inverse(m)) = (p * s - q * r) * d * d
    BY <1>1, <2>1, InverseEntry
  <2> QED BY <1>1, <1>3, <2>2
<1>8. inverse(m) \in Matrices
  BY <1>1, MatrixClosed
<1> QED BY <1>5, <1>6, <1>7, <1>8 DEF UnitMatrices
-----------------------------------------------------------------------------
(* Points go to points.                                                    *)
LEMMA Apply23Closed ==
  ASSUME NEW m \in Transforms, NEW v \in Vectors PROVE Apply23(m, v) \in Vectors
BY MatrixClosed, VectorClosed DEF Apply23, Transforms

Factors == {mat23(r, NoMove) : r \in Turns} \cup {make_translation(t) : t \in Moves}

(* Each product of two transforms has determinant 1 or -1 if they have.    *)
LEMMA UnitProducts ==
  ASSUME NEW m \in UnitTransforms, NEW f \in UnitTransforms
  PROVE  /\ Compose23(m, f) \in UnitTransforms
         /\ Compose22With23(m.rot, f) \in UnitTransforms
         /\ Compose23With22(m, f.rot) \in UnitTransforms
<1>1. /\ m.rot \in UnitMatrices /\ m.trans \in Vectors /\ m \in Transforms
      /\ f.rot \in UnitMatrices /\ f.trans \in Vectors
  BY DEF UnitTransforms, Transforms, UnitMatrices
<1>2. Compose(m.rot, f.rot) \in UnitMatrices
  BY <1>1, UnitCompose
<1>3. Apply23(m, f.trans) \in Vectors /\ Apply(m.rot, f.trans) \in Vectors
  BY <1>1, Apply23Closed, MatrixClosed DEF UnitMatrices
<1> QED
  BY <1>1, <1>2, <1>3
  DEF Compose23, Compose22With23, Compose23With22, mat23,
      UnitTransforms, Transforms, UnitMatrices

LEMMA UnitFactors ==
  /\ \A r \in UnitMatrices, t \in Vectors : mat23(r, t) \in UnitTransforms
  /\ \A t \in Vectors : make_translation(t) \in UnitTransforms
  /\ Factors \subseteq UnitTransforms
  /\ NoMove \in Vectors
<1>1. \A r \in UnitMatrices, t \in Vectors : mat23(r, t) \in UnitTransforms
  BY DEF mat23, UnitMatrices, UnitTransforms, Transforms
<1>2. \A r \in Turns : r \in UnitMatrices
  BY UnitRotation DEF Turns, Rotations, UnitMatrices
<1>3. NoMove \in Vectors
  BY VectorParts DEF NoMove
<1> QED BY <1>1, <1>2, <1>3, UnitIdentity DEF Factors, make_translation

(* view and steps keep their shape, and no composition of invertible       *)
(* factors becomes singular: mat22::inverse never divides by zero.         *)
THEOREM TypeCorrect == Spec => []TypeOK
<1> USE DEF Factors
<1>1. Init => TypeOK
  BY UnitFactors, UnitIdentity DEF Init, TypeOK
<1>2. TypeOK /\ [Next]_vars => TypeOK'
  <2> SUFFICES ASSUME TypeOK, [Next]_vars PROVE TypeOK'
    OBVIOUS
  <2>0. view \in UnitTransforms /\ steps \in Seq(Factors)
    BY DEF TypeOK
  <2>1. CASE Move
    <3>1. PICK t \in Moves : /\ view' = Compose23(make_translation(t), view)
                             /\ steps' = Append(steps, make_translation(t))
      BY <2>1 DEF Move
    <3>2. make_translation(t) \in UnitTransforms /\ make_translation(t) \in Factors
      BY UnitFactors
    <3>3. view' \in UnitTransforms
      BY <2>0, <3>1, <3>2, UnitProducts
    <3> QED BY <2>0, <3>1, <3>2, <3>3 DEF TypeOK
  <2>2. CASE MoveFirst
    <3>1. PICK t \in Moves : /\ view' = Compose23(view, make_translation(t))
                             /\ steps' = <<make_translation(t)>> \o steps
      BY <2>2 DEF MoveFirst
    <3>2. make_translation(t) \in UnitTransforms /\ make_translation(t) \in Factors
      BY UnitFactors
    <3>3. view' \in UnitTransforms
      BY <2>0, <3>1, <3>2, UnitProducts
    <3> QED BY <2>0, <3>1, <3>2, <3>3 DEF TypeOK
  <2>3. CASE Turn
    <3>1. PICK r \in Turns : /\ view' = Compose22With23(r, view)
                             /\ steps' = Append(steps, mat23(r, NoMove))
      BY <2>3 DEF Turn
    <3>2. mat23(r, NoMove) \in UnitTransforms /\ mat23(r, NoMove) \in Factors
      BY UnitFactors
    <3>3. view' = Compose22With23(mat23(r, NoMove).rot, view)
      BY <3>1 DEF mat23
    <3>4. view' \in UnitTransforms
      BY <2>0, <3>2, <3>3, UnitProducts
    <3> QED BY <2>0, <3>1, <3>2, <3>4 DEF TypeOK
  <2>4. CASE TurnFirst
    <3>1. PICK r \in Turns : /\ view' = Compose23With22(view, r)
                             /\ steps' = <<mat23(r, NoMove)>> \o steps
      BY <2>4 DEF TurnFirst
    <3>2. mat23(r, NoMove) \in UnitTransforms /\ mat23(r, NoMove) \in Factors
      BY UnitFactors
    <3>3. view' = Compose23With22(view, mat23(r, NoMove).rot)
      BY <3>1 DEF mat23
    <3>4. view' \in UnitTransforms
      BY <2>0, <3>2, <3>3, UnitProducts
    <3> QED BY <2>0, <3>1, <3>2, <3>4 DEF TypeOK
  <2>5. ASSUME steps # <<>>
        PROVE  /\ SubSeq(steps, 1, Len(steps) - 1) \in Seq(Factors)
               /\ steps[Len(steps)] \in UnitTransforms
    <3>1. Len(steps) \in 1 .. Len(steps)
      BY <2>0, <2>5
    <3>2. steps[Len(steps)] \in Factors
      BY <2>0, <3>1
    <3>3. SubSeq(steps, 1, Len(steps) - 1) \in Seq(Factors)
      BY <2>0, <2>5
    <3> QED BY <3>2, <3>3, UnitFactors
  <2>6. CASE UndoMove
    <3> DEFINE last == steps[Len(steps)]
               back == make_translation(Minus(NoMove, last.trans))
    <3>1. /\ steps # <<>> /\ view' = Compose23(back, view)
          /\ steps' = SubSeq(steps, 1, Len(steps) - 1)
      BY <2>6 DEF UndoMove
    <3>2. last.trans \in Vectors
      BY <2>5, <3>1 DEF UnitTransforms, Transforms
    <3>3. back \in UnitTransforms
      BY <3>2, UnitFactors, VectorClosed
    <3>4. view' \in UnitTransforms
      BY <2>0, <3>1, <3>3, UnitProducts
    <3> QED BY <2>5, <3>1, <3>4 DEF TypeOK
  <2>7. CASE UndoTurn
    <3> DEFINE last == steps[Len(steps)]
               back == mat23(inverse(last.rot), NoMove)
    <3>1. /\ steps # <<>> /\ view' = Compose22With23(inverse(last.rot), view)
          /\ steps' = SubSeq(steps, 1, Len(steps) - 1)
      BY <2>7 DEF UndoTurn
    <3>2. last.rot \in UnitMatrices
      BY <2>5, <3>1 DEF UnitTransforms, Transforms, UnitMatrices
    <3>3. back \in UnitTransforms
      BY <3>2, UnitFactors, UnitInverse
    <3>4. view' = Compose22With23(back.rot, view)
      BY <3>1 DEF mat23
    <3>5. view' \in UnitTransforms
      BY <2>0, <3>3, <3>4, UnitProducts
    <3> QED BY <2>5, <3>1, <3>5 DEF TypeOK
  <2>8. CASE UNCHANGED vars
    BY <2>8 DEF TypeOK, vars
  <2> QED BY <2>1, <2>2, <2>3, <2>4, <2>6, <2>7, <2>8 DEF Next
<1> QED BY <1>1, <1>2, PTL DEF Spec

(* mat22::inverse inverts every view, from either side.                    *)
THEOREM Inverts == Spec => []InverseUndoes
<1>1. TypeOK => InverseUndoes
  BY UnitInverse DEF TypeOK, InverseUndoes, UnitTransforms, Transforms, UnitMatrices
<1> QED BY <1>1, TypeCorrect, PTL

(* Transposing reverses products and keeps determinants.                   *)
LEMMA TransposeProduct ==
  ASSUME NEW a \in Matrices, NEW b \in Matrices
  PROVE  /\ transpose(Compose(a, b)) = Compose(transpose(b), transpose(a))
         /\ determinant(transpose(a)) = determinant(a)
<1>1. \A m \in Matrices : /\ m.columnx.x \in Int /\ m.columnx.y \in Int
                          /\ m.columny.x \in Int /\ m.columny.y \in Int
  BY MatrixParts, VectorParts
<1>2. transpose(Compose(a, b)) = Compose(transpose(b), transpose(a))
  BY <1>1 DEF transpose, Compose, Apply, Plus, Times, vec2, mat22
<1>3. determinant(transpose(a)) = determinant(a)
  BY <1>1 DEF transpose, determinant, cross, vec2, mat22
<1> QED BY <1>2, <1>3

THEOREM Transposes == Spec => []TransposeReverses
<1>1. TypeOK => TransposeReverses
  <2>1. \A r \in Turns : r \in Matrices
    BY UnitRotation DEF Turns, Rotations, UnitMatrices
  <2> QED BY <2>1, TransposeProduct DEF TypeOK, TransposeReverses, UnitTransforms, Transforms
<1> QED BY <1>1, TypeCorrect, PTL
-----------------------------------------------------------------------------
LEMMA LinearEntry ==
  ASSUME NEW a \in Int, NEW b \in Int, NEW c \in Int, NEW d \in Int,
         NEW s \in Int, NEW t \in Int
  PROVE  /\ (a + c) * s + (b + d) * t = (a * s + b * t) + (c * s + d * t)
         /\ (a - c) * s + (b - d) * t = (a * s + b * t) - (c * s + d * t)
         /\ (a * c) * s + (b * c) * t = (a * s + b * t) * c
         /\ a * (s + c) + b * (t + d) = (a * s + b * t) + (a * c + b * d)
OBVIOUS

LEMMA MatrixLinear ==
  ASSUME NEW a \in Matrices, NEW b \in Matrices, NEW v \in Vectors,
         NEW w \in Vectors, NEW s \in Int
  PROVE  /\ Apply(Sum(a, b), v) = Plus(Apply(a, v), Apply(b, v))
         /\ Apply(Difference(a, b), v) = Minus(Apply(a, v), Apply(b, v))
         /\ Apply(Scale(a, s), v) = Times(Apply(a, v), s)
         /\ Apply(a, Plus(v, w)) = Plus(Apply(a, v), Apply(a, w))
<1>1. \A m \in Matrices : /\ m.columnx.x \in Int /\ m.columnx.y \in Int
                          /\ m.columny.x \in Int /\ m.columny.y \in Int
  BY MatrixParts, VectorParts
<1>2. v.x \in Int /\ v.y \in Int /\ w.x \in Int /\ w.y \in Int
  BY VectorParts
<1> USE DEF Apply, Plus, Times, vec2, mat22
<1>3. Apply(Sum(a, b), v) = Plus(Apply(a, v), Apply(b, v))
  BY <1>1, <1>2, LinearEntry DEF Sum
<1>4. Apply(Difference(a, b), v) = Minus(Apply(a, v), Apply(b, v))
  BY <1>1, <1>2, LinearEntry DEF Difference, Minus
<1>5. Apply(Scale(a, s), v) = Times(Apply(a, v), s)
  BY <1>1, <1>2, LinearEntry DEF Scale
<1>6. Apply(a, Plus(v, w)) = Plus(Apply(a, v), Apply(a, w))
  BY <1>1, <1>2, LinearEntry
<1> QED BY <1>3, <1>4, <1>5, <1>6

(* Sums, differences and multiples of matrices act as such on every point. *)
THEOREM Linear == Spec => []ActsLinearly
<1>1. TypeOK => ActsLinearly
  <2>1. \A r \in Turns : r \in Matrices
    BY UnitRotation DEF Turns, Rotations, UnitMatrices
  <2>2. \A q \in Points : q \in Vectors /\ q.x \in Int
    BY VectorParts
  <2> QED BY <2>1, <2>2, MatrixLinear DEF TypeOK, ActsLinearly, UnitTransforms, Transforms
<1> QED BY <1>1, TypeCorrect, PTL

LEMMA PlusAssociates ==
  ASSUME NEW a \in Vectors, NEW b \in Vectors, NEW c \in Vectors
  PROVE  Plus(Plus(a, b), c) = Plus(a, Plus(b, c))
BY VectorParts DEF Plus, vec2

(* What each product adds to a view, for any transforms and points: it     *)
(* acts as its factors in turn (the step that AppliesStepsInTurn repeats). *)
THEOREM ProductsActInTurn ==
  ASSUME NEW a \in Transforms, NEW b \in Transforms, NEW v \in Vectors
  PROVE  /\ Apply23(Compose23(a, b), v) = Apply23(a, Apply23(b, v))
         /\ Apply23(Compose22With23(a.rot, b), v) = Apply(a.rot, Apply23(b, v))
         /\ Apply23(Compose23With22(a, b.rot), v) = Apply23(a, Apply(b.rot, v))
<1>1. a.rot \in Matrices /\ a.trans \in Vectors /\ b.rot \in Matrices /\ b.trans \in Vectors
  BY DEF Transforms
<1>2. Apply(b.rot, v) \in Vectors /\ \A w \in Vectors : Apply(a.rot, w) \in Vectors
  BY <1>1, MatrixClosed
<1>3. Apply(Compose(a.rot, b.rot), v) = Apply(a.rot, Apply(b.rot, v))
  BY <1>1, ComposeApplies
<1>4. Apply(a.rot, Apply23(b, v))
        = Plus(Apply(a.rot, Apply(b.rot, v)), Apply(a.rot, b.trans))
  BY <1>1, <1>2, MatrixLinear DEF Apply23
<1>5. Apply23(Compose23(a, b), v) = Apply23(a, Apply23(b, v))
  BY <1>1, <1>2, <1>3, <1>4, PlusAssociates DEF Apply23, Compose23, mat23
<1>6. Apply23(Compose22With23(a.rot, b), v) = Apply(a.rot, Apply23(b, v))
  BY <1>3, <1>4 DEF Apply23, Compose22With23, mat23
<1>7. Apply23(Compose23With22(a, b.rot), v) = Apply23(a, Apply(b.rot, v))
  BY <1>3 DEF Apply23, Compose23With22, mat23
<1> QED BY <1>5, <1>6, <1>7
-----------------------------------------------------------------------------
(* g is where the steps s take the point p, one after the other.           *)
Follows(s, p, g) == /\ g \in [0 .. Len(s) -> Vectors] /\ g[0] = p
                    /\ \A i \in 1 .. Len(s) : g[i] = Apply23(s[i], g[i - 1])

(* The steps take every point along one way at least.                      *)
LEMMA FollowsSome ==
  ASSUME NEW s \in Seq(Transforms), NEW p \in Vectors
  PROVE  \E g : Follows(s, p, g)
<1> DEFINE n == Len(s)
           step == [i \in 1 .. n |-> [v \in Vectors |-> Apply23(s[i], v)]]
<1>1. n \in Nat
  OBVIOUS
<1>2. \A i \in 1 .. n : s[i] \in Transforms
  OBVIOUS
<1> HIDE DEF n
<1>3. step \in [1 .. n -> [Vectors -> Vectors]]
  BY <1>2, Apply23Closed
<1> HIDE DEF step
<1>4. PICK g \in [0 .. n -> Vectors] :
        g[0] = p /\ \A i \in 1 .. n : g[i] = step[i][g[i - 1]]
  <2>1. Recursions(Vectors, p, n, step) # {}
    BY <1>1, <1>3, IntervalRecursion
  <2> QED BY <2>1 DEF Recursions
<1>5. \A i \in 1 .. n : g[i - 1] \in Vectors
  BY <1>1, <1>4
<1>6. \A i \in 1 .. n : g[i] = Apply23(s[i], g[i - 1])
  BY <1>4, <1>5 DEF step
<1> QED BY <1>4, <1>6 DEF Follows, n

(* One step more at the end, or one less; one more at the start.           *)
LEMMA FollowsAppend ==
  ASSUME NEW s \in Seq(Transforms), NEW f \in Transforms, NEW p \in Vectors, NEW g,
         Follows(Append(s, f), p, g)
  PROVE  /\ Follows(s, p, [i \in 0 .. Len(s) |-> g[i]])
         /\ g[Len(s) + 1] = Apply23(f, g[Len(s)])
<1> DEFINE t == Append(s, f)
           n == Len(s)
           h == [i \in 0 .. n |-> g[i]]
<1>1. /\ n \in Nat /\ Len(t) = n + 1 /\ t[n + 1] = f
      /\ \A i \in 1 .. n : t[i] = s[i]
  OBVIOUS
<1>2. /\ g \in [0 .. n + 1 -> Vectors] /\ g[0] = p
      /\ \A i \in 1 .. n + 1 : g[i] = Apply23(t[i], g[i - 1])
  BY <1>1 DEF Follows
<1> HIDE DEF t, n
<1>3. \A i \in 0 .. n : g[i] \in Vectors /\ h[i] = g[i]
  BY <1>1, <1>2
<1>4. h \in [0 .. n -> Vectors] /\ h[0] = p
  BY <1>1, <1>2, <1>3
<1>5. ASSUME NEW i \in 1 .. n PROVE h[i] = Apply23(s[i], h[i - 1])
  <2>1. i \in 0 .. n /\ i - 1 \in 0 .. n /\ i \in 1 .. n + 1
    BY <1>1
  <2> QED BY <1>1, <1>2, <1>3, <2>1
<1>6. g[n + 1] = Apply23(f, g[n])
  <2>1. n + 1 \in 1 .. n + 1 /\ (n + 1) - 1 = n
    BY <1>1
  <2> QED BY <1>1, <1>2, <2>1
<1> HIDE DEF h
<1>7. Follows(s, p, h)
  BY <1>4, <1>5 DEF Follows, n
<1> QED BY <1>6, <1>7 DEF h, n

LEMMA FollowsPrepend ==
  ASSUME NEW s \in Seq(Transforms), NEW f \in Transforms, NEW p \in Vectors, NEW g,
         Follows(<<f>> \o s, p, g)
  PROVE  /\ Follows(s, Apply23(f, p), [i \in 0 .. Len(s) |-> g[i + 1]])
         /\ g[Len(s) + 1] = [i \in 0 .. Len(s) |-> g[i + 1]][Len(s)]
<1> DEFINE t == <<f>> \o s
           n == Len(s)
           h == [i \in 0 .. n |-> g[i + 1]]
<1>1. /\ n \in Nat /\ Len(t) = n + 1 /\ t[1] = f
      /\ \A i \in 1 .. n : t[i + 1] = s[i]
  OBVIOUS
<1>2. /\ g \in [0 .. n + 1 -> Vectors] /\ g[0] = p
      /\ \A i \in 1 .. n + 1 : g[i] = Apply23(t[i], g[i - 1])
  BY <1>1 DEF Follows
<1> HIDE DEF t, n
<1>3. \A i \in 0 .. n : g[i + 1] \in Vectors /\ h[i] = g[i + 1]
  BY <1>1, <1>2
<1>4. h \in [0 .. n -> Vectors] /\ h[n] = g[n + 1]
  BY <1>1, <1>3
<1>5. h[0] = Apply23(f, p)
  <2>1. 1 \in 1 .. n + 1 /\ 1 - 1 = 0 /\ 0 \in 0 .. n /\ 0 + 1 = 1
    BY <1>1
  <2> QED BY <1>1, <1>2, <1>3, <2>1
<1>6. ASSUME NEW i \in 1 .. n PROVE h[i] = Apply23(s[i], h[i - 1])
  <2>1. i \in 0 .. n /\ i - 1 \in 0 .. n /\ i + 1 \in 1 .. n + 1
        /\ (i + 1) - 1 = i /\ (i - 1) + 1 = i
    BY <1>1
  <2> QED BY <1>1, <1>2, <1>3, <2>1
<1> HIDE DEF h
<1>7. Follows(s, Apply23(f, p), h)
  BY <1>4, <1>5, <1>6 DEF Follows, n
<1> QED BY <1>4, <1>7 DEF h, n

(* What is left of a sequence without its last element.                    *)
LEMMA Shorter ==
  ASSUME NEW S, NEW s \in Seq(S), s # <<>>
  PROVE  /\ Len(s) \in Nat /\ Len(s) >= 1 /\ s[Len(s)] \in S
         /\ Len(SubSeq(s, 1, Len(s) - 1)) = Len(s) - 1
         /\ \A i \in 1 .. Len(s) - 1 : SubSeq(s, 1, Len(s) - 1)[i] = s[i]
<1> DEFINE n == Len(s)
           t == SubSeq(s, 1, n - 1)
<1>1. n \in Nat /\ n >= 1
  OBVIOUS
<1>2. s[n] \in S
  BY <1>1
<1>3. \A i \in 1 .. n - 1 : s[i] \in S
  <2>1. \A i \in 1 .. n : s[i] \in S
    OBVIOUS
  <2> QED BY <1>1, <2>1
<1>4. /\ Len(t) = IF 1 <= n - 1 THEN (n - 1) - 1 + 1 ELSE 0
      /\ \A i \in 1 .. (n - 1) - 1 + 1 : t[i] = s[1 + i - 1]
  <2>1. 1 \in Int /\ n - 1 \in Int
    BY <1>1
  <2> QED BY <1>3, <2>1, SubSeqProperties
<1>5. Len(t) = n - 1 /\ \A i \in 1 .. n - 1 : t[i] = s[i]
  <2> HIDE DEF t, n
  <2>1. Len(t) = n - 1
    BY <1>1, <1>4
  <2>2. \A i \in 1 .. n - 1 : i \in 1 .. (n - 1) - 1 + 1 /\ 1 + i - 1 = i
    BY <1>1
  <2> QED BY <1>4, <2>1, <2>2
<1> QED BY <1>1, <1>2, <1>5

LEMMA FollowsDrop ==
  ASSUME NEW s \in Seq(Transforms), s # <<>>, NEW p \in Vectors, NEW g,
         Follows(SubSeq(s, 1, Len(s) - 1), p, g)
  PROVE  \E h : /\ Follows(s, p, h)
                /\ h[Len(s)] = Apply23(s[Len(s)], g[Len(s) - 1])
                /\ g[Len(s) - 1] \in Vectors
<1> DEFINE t == SubSeq(s, 1, Len(s) - 1)
           n == Len(s)
           h == [i \in 0 .. n |-> IF i = n THEN Apply23(s[n], g[n - 1]) ELSE g[i]]
<1>1. /\ n \in Nat /\ n >= 1 /\ Len(t) = n - 1 /\ s[n] \in Transforms
      /\ \A i \in 1 .. n - 1 : t[i] = s[i]
  BY Shorter
<1>2. /\ g \in [0 .. n - 1 -> Vectors] /\ g[0] = p
      /\ \A i \in 1 .. n - 1 : g[i] = Apply23(t[i], g[i - 1])
  BY <1>1 DEF Follows
<1> HIDE DEF t, n
<1>3. /\ \A i \in 0 .. n - 1 : g[i] \in Vectors /\ h[i] = g[i]
      /\ h[n] = Apply23(s[n], g[n - 1])
      /\ n - 1 \in 0 .. n - 1 /\ 0 \in 0 .. n - 1
  BY <1>1, <1>2
<1>4. h[n] \in Vectors
  BY <1>1, <1>3, Apply23Closed
<1>5. \A i \in 0 .. n : h[i] \in Vectors
  <2> TAKE i \in 0 .. n
  <2>1. i = n \/ i \in 0 .. n - 1
    BY <1>1
  <2> HIDE DEF h
  <2> QED BY <1>3, <1>4, <2>1
<1>6. ASSUME NEW i \in 1 .. n PROVE h[i] = Apply23(s[i], h[i - 1])
  <2>1. i - 1 \in 0 .. n - 1 /\ (i = n \/ i \in 1 .. n - 1)
        /\ (i \in 1 .. n - 1 => i \in 0 .. n - 1)
    BY <1>1
  <2> HIDE DEF h
  <2> QED BY <1>1, <1>2, <1>3, <2>1
<1>7. h \in [0 .. n -> Vectors] /\ h[0] = p
  BY <1>2, <1>3, <1>5
<1> HIDE DEF h
<1>8. Follows(s, p, h)
  BY <1>6, <1>7 DEF Follows, n
<1> QED BY <1>3, <1>8 DEF n

(* Transform m moves every point as the steps s do.                        *)
Ends(s, m) == \A p \in Vectors : \A g : Follows(s, p, g) => Apply23(m, p) = g[Len(s)]

(* A product with one transform more, on either side or undone, moves      *)
(* every point as one step more, or less, does.                            *)
LEMMA EndsAppend ==
  ASSUME NEW s \in Seq(Transforms), NEW f \in Transforms, NEW m, NEW w, Ends(s, m),
         \A p \in Vectors : Apply23(w, p) = Apply23(f, Apply23(m, p))
  PROVE  Ends(Append(s, f), w)
<1> SUFFICES ASSUME NEW p \in Vectors, NEW g, Follows(Append(s, f), p, g)
             PROVE  Apply23(w, p) = g[Len(Append(s, f))]
  BY DEF Ends
<1> DEFINE h == [i \in 0 .. Len(s) |-> g[i]]
<1>1. Len(s) \in Nat /\ Len(Append(s, f)) = Len(s) + 1
  OBVIOUS
<1>2. Follows(s, p, h) /\ g[Len(s) + 1] = Apply23(f, g[Len(s)])
  BY FollowsAppend
<1>3. h[Len(s)] = g[Len(s)]
  BY <1>1
<1> HIDE DEF h
<1>4. Apply23(m, p) = h[Len(s)]
  BY <1>2 DEF Ends
<1> QED BY <1>1, <1>2, <1>3, <1>4

LEMMA EndsPrepend ==
  ASSUME NEW s \in Seq(Transforms), NEW f \in Transforms, NEW m, NEW w, Ends(s, m),
         \A p \in Vectors : Apply23(w, p) = Apply23(m, Apply23(f, p))
  PROVE  Ends(<<f>> \o s, w)
<1> SUFFICES ASSUME NEW p \in Vectors, NEW g, Follows(<<f>> \o s, p, g)
             PROVE  Apply23(w, p) = g[Len(<<f>> \o s)]
  BY DEF Ends
<1> DEFINE h == [i \in 0 .. Len(s) |-> g[i + 1]]
<1>1. Len(<<f>> \o s) = Len(s) + 1
  OBVIOUS
<1>2. Follows(s, Apply23(f, p), h) /\ g[Len(s) + 1] = h[Len(s)]
  BY FollowsPrepend
<1> HIDE DEF h
<1>3. Apply23(m, Apply23(f, p)) = h[Len(s)]
  BY <1>2, Apply23Closed DEF Ends
<1> QED BY <1>1, <1>2, <1>3

LEMMA EndsDrop ==
  ASSUME NEW s \in Seq(Transforms), s # <<>>, NEW m, NEW w, Ends(s, m),
         \A p, v \in Vectors : Apply23(m, p) = Apply23(s[Len(s)], v) => Apply23(w, p) = v
  PROVE  Ends(SubSeq(s, 1, Len(s) - 1), w)
<1> SUFFICES ASSUME NEW p \in Vectors, NEW g, Follows(SubSeq(s, 1, Len(s) - 1), p, g)
             PROVE  Apply23(w, p) = g[Len(SubSeq(s, 1, Len(s) - 1))]
  BY DEF Ends
<1>1. Len(SubSeq(s, 1, Len(s) - 1)) = Len(s) - 1
  BY Shorter
<1>2. PICK h : /\ Follows(s, p, h)
               /\ h[Len(s)] = Apply23(s[Len(s)], g[Len(s) - 1])
               /\ g[Len(s) - 1] \in Vectors
  BY FollowsDrop
<1>3. Apply23(m, p) = Apply23(s[Len(s)], g[Len(s) - 1])
  BY <1>2 DEF Ends
<1> QED BY <1>1, <1>2, <1>3

(* How the factors act.                                                    *)
LEMMA FactorsAct ==
  ASSUME NEW v \in Vectors
  PROVE  /\ Apply(identity, v) = v
         /\ \A r \in Matrices : Apply23(mat23(r, NoMove), v) = Apply(r, v)
         /\ \A t \in Vectors : Apply23(make_translation(t), v) = Plus(v, t)
         /\ \A t \in Vectors : Plus(Plus(v, t), Minus(NoMove, t)) = v
<1>1. v.x \in Int /\ v.y \in Int /\ v = vec2(v.x, v.y)
  BY VectorParts
<1>2. \A m, n \in Int : 1 * m + 0 * n = m /\ 0 * m + 1 * n = n
  OBVIOUS
<1>3. Apply(identity, v) = vec2(1 * v.x + 0 * v.y, 0 * v.x + 1 * v.y)
  BY DEF Apply, identity, Plus, Times, mat22, vec2
<1>4. Apply(identity, v) = v
  BY <1>1, <1>2, <1>3
<1>5. \A w \in Vectors : Plus(w, NoMove) = w
  <2> SUFFICES ASSUME NEW w \in Vectors PROVE Plus(w, NoMove) = w
    OBVIOUS
  <2>1. w.x \in Int /\ w.y \in Int /\ w = vec2(w.x, w.y)
    BY VectorParts
  <2>2. w.x + 0 = w.x /\ w.y + 0 = w.y
    BY <2>1
  <2>3. Plus(w, NoMove) = vec2(w.x + 0, w.y + 0)
    BY DEF Plus, NoMove, vec2
  <2> QED BY <2>1, <2>2, <2>3
<1>6. ASSUME NEW r \in Matrices PROVE Apply23(mat23(r, NoMove), v) = Apply(r, v)
  <2>1. Apply(r, v) \in Vectors
    BY MatrixClosed
  <2> QED BY <1>5, <2>1 DEF Apply23, mat23
<1>7. ASSUME NEW t \in Vectors
      PROVE  /\ Apply23(make_translation(t), v) = Plus(v, t)
             /\ Plus(Plus(v, t), Minus(NoMove, t)) = v
  <2>1. t.x \in Int /\ t.y \in Int
    BY VectorParts
  <2>2. v.x + t.x + (0 - t.x) = v.x /\ v.y + t.y + (0 - t.y) = v.y
    BY <1>1, <2>1
  <2>3. Plus(Plus(v, t), Minus(NoMove, t))
          = vec2(v.x + t.x + (0 - t.x), v.y + t.y + (0 - t.y))
    BY DEF Plus, Minus, NoMove, vec2
  <2> QED BY <1>1, <1>4, <2>2, <2>3 DEF Apply23, make_translation, mat23
<1> QED BY <1>4, <1>6, <1>7

(* From every point the steps end where view puts it: the points the       *)
(* property compares are not enough, for a step put before the others      *)
(* moves the point they start from.                                        *)
ViewFollows == Ends(steps, view)

(* ViewFollows is inductive, given the type of view and steps.             *)
LEMMA ViewAlwaysFollows == Spec => []ViewFollows
<1> USE DEF Factors
<1>1. Init => ViewFollows
  <2> SUFFICES ASSUME Init, NEW p \in Vectors, NEW g, Follows(<<>>, p, g)
               PROVE  Apply23(view, p) = g[Len(<<>>)]
    BY DEF Init, ViewFollows, Ends
  <2>1. g[Len(<<>>)] = p
    BY DEF Follows
  <2>2. Apply23(view, p) = p
    BY FactorsAct, UnitIdentity DEF Init, UnitMatrices
  <2> QED BY <2>1, <2>2
<1>2. TypeOK /\ ViewFollows /\ [Next]_vars => ViewFollows'
  <2> SUFFICES ASSUME TypeOK, ViewFollows, [Next]_vars PROVE Ends(steps', view')
    BY DEF ViewFollows
  <2>1. /\ view \in UnitTransforms /\ view \in Transforms /\ steps \in Seq(Factors)
        /\ Ends(steps, view)
    BY DEF TypeOK, ViewFollows, UnitTransforms
  <2>2. Factors \subseteq UnitTransforms /\ UnitTransforms \subseteq Transforms
    BY UnitFactors DEF UnitTransforms
  <2>3. steps \in Seq(Transforms)
    <3> HIDE DEF Factors
    <3> QED BY <2>1, <2>2
  <2>4. \A t \in Moves : make_translation(t) \in Transforms
    BY <2>2
  <2>5. \A r \in Turns : /\ mat23(r, NoMove) \in Transforms /\ mat23(r, NoMove).rot = r
                         /\ r \in Matrices
    <3>1. \A r \in Turns : mat23(r, NoMove) \in Factors /\ mat23(r, NoMove).rot = r
      BY DEF mat23
    <3> QED BY <2>2, <3>1 DEF Transforms
  <2>6. \A q \in Vectors : Apply23(view, q) \in Vectors
    BY <2>1, Apply23Closed
  <2>7. CASE Move
    <3>1. PICK t \in Moves : /\ view' = Compose23(make_translation(t), view)
                             /\ steps' = Append(steps, make_translation(t))
      BY <2>7 DEF Move
    <3>2. \A p \in Vectors : Apply23(view', p) = Apply23(make_translation(t), Apply23(view, p))
      BY <2>1, <2>4, <3>1, ProductsActInTurn
    <3> QED BY <2>1, <2>3, <2>4, <3>1, <3>2, EndsAppend
  <2>8. CASE MoveFirst
    <3>1. PICK t \in Moves : /\ view' = Compose23(view, make_translation(t))
                             /\ steps' = <<make_translation(t)>> \o steps
      BY <2>8 DEF MoveFirst
    <3>2. \A p \in Vectors : Apply23(view', p) = Apply23(view, Apply23(make_translation(t), p))
      BY <2>1, <2>4, <3>1, ProductsActInTurn
    <3> QED BY <2>1, <2>3, <2>4, <3>1, <3>2, EndsPrepend
  <2>9. CASE Turn
    <3>1. PICK r \in Turns : /\ view' = Compose22With23(r, view)
                             /\ steps' = Append(steps, mat23(r, NoMove))
      BY <2>9 DEF Turn
    <3>2. ASSUME NEW p \in Vectors
          PROVE  Apply23(view', p) = Apply23(mat23(r, NoMove), Apply23(view, p))
      <4>1. Apply23(view', p) = Apply(r, Apply23(view, p))
        BY <2>1, <2>5, <3>1, ProductsActInTurn
      <4> QED BY <2>5, <2>6, <4>1, FactorsAct
    <3> QED BY <2>1, <2>3, <2>5, <3>1, <3>2, EndsAppend
  <2>10. CASE TurnFirst
    <3>1. PICK r \in Turns : /\ view' = Compose23With22(view, r)
                             /\ steps' = <<mat23(r, NoMove)>> \o steps
      BY <2>10 DEF TurnFirst
    <3>2. ASSUME NEW p \in Vectors
          PROVE  Apply23(view', p) = Apply23(view, Apply23(mat23(r, NoMove), p))
      <4>1. Apply23(view', p) = Apply23(view, Apply(r, p))
        BY <2>1, <2>5, <3>1, ProductsActInTurn
      <4> QED BY <2>5, <4>1, FactorsAct
    <3> QED BY <2>1, <2>3, <2>5, <3>1, <3>2, EndsPrepend
  <2> DEFINE last == steps[Len(steps)]
  <2>11. ASSUME steps # <<>>
         PROVE  last \in UnitTransforms /\ last = mat23(last.rot, last.trans)
                /\ last.rot \in UnitMatrices /\ last.trans \in Vectors
    <3>1. Len(steps) \in 1 .. Len(steps)
      BY <2>3, <2>11
    <3>2. last \in Factors
      <4> HIDE DEF Factors
      <4> QED BY <2>1, <3>1
    <3>3. last \in UnitTransforms
      BY <2>2, <3>2
    <3> QED BY <3>3 DEF UnitTransforms, Transforms, UnitMatrices, mat23
  <2>12. CASE UndoMove
    <3> DEFINE back == make_translation(Minus(NoMove, last.trans))
    <3>1. /\ steps # <<>> /\ last.rot = identity /\ view' = Compose23(back, view)
          /\ steps' = SubSeq(steps, 1, Len(steps) - 1)
      BY <2>12 DEF UndoMove
    <3>2. Minus(NoMove, last.trans) \in Vectors /\ last = make_translation(last.trans)
      BY <2>11, <3>1, UnitFactors, VectorClosed DEF make_translation
    <3>3. back \in Transforms
      BY <2>2, <3>2, UnitFactors
    <3>4. \A p \in Vectors : Apply23(view', p) = Apply23(back, Apply23(view, p))
      BY <2>1, <3>1, <3>3, ProductsActInTurn
    <3>5. ASSUME NEW v \in Vectors PROVE Apply23(back, Apply23(last, v)) = v
      <4>1. Apply23(last, v) = Plus(v, last.trans) /\ Plus(v, last.trans) \in Vectors
        <5>1. last.trans \in Vectors
          BY <2>11, <3>1
        <5>2. Apply23(make_translation(last.trans), v) = Plus(v, last.trans)
          BY <5>1, FactorsAct
        <5> HIDE DEF last
        <5> QED BY <3>2, <5>1, <5>2, VectorClosed
      <4>2. Apply23(back, Plus(v, last.trans))
              = Plus(Plus(v, last.trans), Minus(NoMove, last.trans))
        BY <3>2, <4>1, FactorsAct
      <4> QED BY <2>11, <3>1, <4>1, <4>2, FactorsAct
    <3> HIDE DEF back, Factors
    <3>6. \A p, v \in Vectors : Apply23(view, p) = Apply23(last, v) => Apply23(view', p) = v
      BY <3>4, <3>5
    <3>7. Ends(SubSeq(steps, 1, Len(steps) - 1), view')
      BY <2>1, <2>3, <3>1, <3>6, EndsDrop
    <3> QED BY <3>1, <3>7
  <2>13. CASE UndoTurn
    <3> DEFINE back == mat23(inverse(last.rot), NoMove)
    <3>1. /\ steps # <<>> /\ last.trans = NoMove
          /\ view' = Compose22With23(inverse(last.rot), view)
          /\ steps' = SubSeq(steps, 1, Len(steps) - 1)
      BY <2>13 DEF UndoTurn
    <3>2. /\ last.rot \in Matrices /\ inverse(last.rot) \in Matrices
          /\ Compose(inverse(last.rot), last.rot) = identity
      BY <2>11, <3>1, UnitInverse DEF UnitMatrices
    <3>3. /\ back \in Transforms /\ back.rot = inverse(last.rot)
          /\ last = mat23(last.rot, NoMove)
      BY <2>11, <3>1, <3>2, UnitFactors DEF Transforms, mat23
    <3>4. ASSUME NEW p \in Vectors
          PROVE  Apply23(view', p) = Apply23(back, Apply23(view, p))
      <4>1. Apply23(view', p) = Apply(inverse(last.rot), Apply23(view, p))
        BY <2>1, <3>1, <3>3, ProductsActInTurn
      <4> QED BY <2>6, <3>2, <4>1, FactorsAct
    <3>5. ASSUME NEW v \in Vectors PROVE Apply23(back, Apply23(last, v)) = v
      <4>1. Apply23(last, v) = Apply(last.rot, v) /\ Apply(last.rot, v) \in Vectors
        BY <3>2, <3>3, FactorsAct, MatrixClosed
      <4>2. Apply23(back, Apply(last.rot, v)) = Apply(inverse(last.rot), Apply(last.rot, v))
        BY <3>2, <4>1, FactorsAct
      <4>3. Apply(inverse(last.rot), Apply(last.rot, v)) = Apply(identity, v)
        BY <3>2, ComposeApplies
      <4> QED BY <4>1, <4>2, <4>3, FactorsAct
    <3> HIDE DEF back, Factors
    <3>6. \A p, v \in Vectors : Apply23(view, p) = Apply23(last, v) => Apply23(view', p) = v
      BY <3>4, <3>5
    <3>7. Ends(SubSeq(steps, 1, Len(steps) - 1), view')
      BY <2>1, <2>3, <3>1, <3>6, EndsDrop
    <3> QED BY <3>1, <3>7
  <2>14. CASE UNCHANGED vars
    BY <2>1, <2>14 DEF vars
  <2> QED BY <2>7, <2>8, <2>9, <2>10, <2>12, <2>13, <2>14 DEF Next
<1> QED BY <1>1, <1>2, TypeCorrect, PTL DEF Spec

(* However it was composed and undone, view moves a point as its steps do, *)
(* one after the other.                                                    *)
THEOREM StepsInTurn == Spec => []AppliesStepsInTurn
<1>1. ASSUME TypeOK, ViewFollows PROVE AppliesStepsInTurn
  <2> SUFFICES ASSUME NEW p \in Points
      PROVE LET moved[i \in 0 .. Len(steps)] ==
                  IF i = 0 THEN p ELSE Apply23(steps[i], moved[i - 1])
            IN  Apply23(view, p) = moved[Len(steps)]
    BY DEF AppliesStepsInTurn
  <2> DEFINE Solves(g) ==
        g = [i \in 0 .. Len(steps) |-> IF i = 0 THEN p ELSE Apply23(steps[i], g[i - 1])]
      moved == CHOOSE g : Solves(g)
  <2>1. p \in Vectors /\ steps \in Seq(Transforms)
    <3>1. Factors \subseteq Transforms
      BY UnitFactors DEF UnitTransforms
    <3>2. steps \in Seq(Factors)
      BY <1>1 DEF TypeOK, Factors
    <3> QED BY <3>1, <3>2
  <2>2. ASSUME NEW g, Follows(steps, p, g) PROVE Solves(g)
    BY <2>1, <2>2 DEF Follows
  <2>3. \E g : Solves(g)
    BY <2>1, <2>2, FollowsSome
  <2>4. Solves(moved)
    <3> HIDE DEF Solves
    <3> QED BY <2>3
  <2> HIDE DEF moved
  <2>5. Follows(steps, p, moved)
    <3> DEFINE n == Len(steps)
               T == {i \in 0 .. n : moved[i] \in Vectors}
    <3>1. n \in Nat /\ \A i \in 1 .. n : steps[i] \in Transforms
      BY <2>1
    <3>2. moved[0] = p /\ \A i \in 1 .. n : moved[i] = Apply23(steps[i], moved[i - 1])
      BY <2>4, <3>1
    <3>3. moved = [i \in 0 .. n |-> moved[i]]
      BY <2>4
    <3> HIDE DEF n, Solves
    <3>4. 0 \in T
      BY <2>1, <3>1, <3>2
    <3>5. ASSUME NEW i \in 1 .. n, i - 1 \in T PROVE i \in T
      BY <3>1, <3>2, <3>5, Apply23Closed
    <3>6. 0 .. n \subseteq T
      <4> HIDE DEF T
      <4> QED BY <3>1, <3>4, <3>5, IntervalInduction
    <3>7. moved \in [0 .. n -> Vectors]
      BY <3>3, <3>6
    <3> QED BY <3>2, <3>7 DEF Follows, n
  <2>6. Apply23(view, p) = moved[Len(steps)]
    BY <1>1, <2>1, <2>5 DEF ViewFollows, Ends
  <2> QED BY <2>6 DEF moved
<1> QED BY <1>1, TypeCorrect, ViewAlwaysFollows, PTL
-----------------------------------------------------------------------------
(* The sine and cosine of quarter turns.                                   *)
LEMMA QuarterTurns ==
  ASSUME NEW q \in Int
  PROVE  /\ q % 4 \in 0 .. 3
         /\ q % 4 = 0 => Cos(q) = 1 /\ Sin(q) = 0
         /\ q % 4 = 1 => Cos(q) = 0 /\ Sin(q) = 1
         /\ q % 4 = 2 => Cos(q) = -1 /\ Sin(q) = 0
         /\ q % 4 = 3 => Cos(q) = 0 /\ Sin(q) = -1
         /\ Cos(q) \in Int /\ Sin(q) \in Int
<1>1. q % 4 \in 0 .. 3
  OBVIOUS
<1>2. CASE q % 4 = 0
  <2>1. (q - 1) % 4 = 3
    BY <1>2
  <2> QED BY <1>2, <2>1 DEF Sin, Cos
<1>3. CASE q % 4 = 1
  <2>1. (q - 1) % 4 = 0
    BY <1>3
  <2> QED BY <1>3, <2>1 DEF Sin, Cos
<1>4. CASE q % 4 = 2
  <2>1. (q - 1) % 4 = 1
    BY <1>4
  <2> QED BY <1>4, <2>1 DEF Sin, Cos
<1>5. CASE q % 4 = 3
  <2>1. (q - 1) % 4 = 2
    BY <1>5
  <2> QED BY <1>5, <2>1 DEF Sin, Cos
<1> QED BY <1>1, <1>2, <1>3, <1>4, <1>5

LEMMA AngleSums ==
  ASSUME NEW a \in Int, NEW b \in Int
  PROVE  /\ Cos(a + b) = Cos(a) * Cos(b) - Sin(a) * Sin(b)
         /\ Sin(a + b) = Sin(a) * Cos(b) + Cos(a) * Sin(b)
         /\ Cos(-a) = Cos(a) /\ Sin(-a) = -Sin(a)
<1>1. a % 4 \in 0 .. 3 /\ b % 4 \in 0 .. 3 /\ a + b \in Int /\ -a \in Int
  OBVIOUS
<1>2. /\ (a + b) % 4 = IF (a % 4) + (b % 4) < 4 THEN (a % 4) + (b % 4)
                       ELSE (a % 4) + (b % 4) - 4
      /\ (-a) % 4 = IF a % 4 = 0 THEN 0 ELSE 4 - (a % 4)
  OBVIOUS
<1>3. Cos(-a) = Cos(a) /\ Sin(-a) = -Sin(a)
  BY <1>1, <1>2, QuarterTurns
<1> DEFINE Table(q) == /\ q % 4 = 0 => Cos(q) = 1 /\ Sin(q) = 0
                       /\ q % 4 = 1 => Cos(q) = 0 /\ Sin(q) = 1
                       /\ q % 4 = 2 => Cos(q) = -1 /\ Sin(q) = 0
                       /\ q % 4 = 3 => Cos(q) = 0 /\ Sin(q) = -1
<1>4. Table(a) /\ Table(b) /\ Table(a + b) /\ Cos(b) \in Int /\ Sin(b) \in Int
  BY <1>1, QuarterTurns
<1>5. ASSUME NEW i \in 0 .. 3, NEW j \in 0 .. 3, a % 4 = i, b % 4 = j
      PROVE  /\ Cos(a + b) = Cos(a) * Cos(b) - Sin(a) * Sin(b)
             /\ Sin(a + b) = Sin(a) * Cos(b) + Cos(a) * Sin(b)
  <2>1. CASE i = 0
    <3>1. Cos(a) = 1 /\ Sin(a) = 0
      BY <1>4, <1>5, <2>1
    <3>2. Cos(a + b) = Cos(b) /\ Sin(a + b) = Sin(b)
      BY <1>2, <1>4, <1>5, <2>1
    <3> QED BY <1>4, <3>1, <3>2
  <2>2. CASE i = 1
    <3>1. Cos(a) = 0 /\ Sin(a) = 1
      BY <1>4, <1>5, <2>2
    <3>2. Cos(a + b) = -Sin(b) /\ Sin(a + b) = Cos(b)
      BY <1>2, <1>4, <1>5, <2>2
    <3> QED BY <1>4, <3>1, <3>2
  <2>3. CASE i = 2
    <3>1. Cos(a) = -1 /\ Sin(a) = 0
      BY <1>4, <1>5, <2>3
    <3>2. Cos(a + b) = -Cos(b) /\ Sin(a + b) = -Sin(b)
      BY <1>2, <1>4, <1>5, <2>3
    <3> QED BY <1>4, <3>1, <3>2
  <2>4. CASE i = 3
    <3>1. Cos(a) = 0 /\ Sin(a) = -1
      BY <1>4, <1>5, <2>4
    <3>2. Cos(a + b) = Sin(b) /\ Sin(a + b) = -Cos(b)
      BY <1>2, <1>4, <1>5, <2>4
    <3> QED BY <1>4, <3>1, <3>2
  <2> QED BY <2>1, <2>2, <2>3, <2>4
<1> QED BY <1>1, <1>3, <1>5

(* Rotations compose by the sum of their angles, are rigid, and turn what  *)
(* make_sincos gives backwards.                                            *)
LEMMA RotationsCompose ==
  ASSUME NEW a \in Int, NEW b \in Int
  PROVE  /\ Compose(make_rot(a), make_rot(b)) = make_rot(a + b)
         /\ Apply(make_rot(a), make_sincos(b)) = make_sincos(b - a)
<1> DEFINE c == Cos(a)  s == Sin(a)  d == Cos(b)  t == Sin(b)
<1>1. c \in Int /\ s \in Int /\ d \in Int /\ t \in Int
  BY QuarterTurns
<1>2. Cos(a + b) = c * d - s * t /\ Sin(a + b) = s * d + c * t
  BY AngleSums
<1>3. Cos(b - a) = d * c + t * s /\ Sin(b - a) = t * c - d * s
  <2>1. -a \in Int /\ b - a = b + (-a)
    OBVIOUS
  <2>2. /\ Cos(b + (-a)) = d * Cos(-a) - t * Sin(-a)
        /\ Sin(b + (-a)) = t * Cos(-a) + d * Sin(-a)
        /\ Cos(-a) = c /\ Sin(-a) = -s
    BY <2>1, AngleSums
  <2> HIDE DEF c, s, d, t
  <2>3. t * (-s) = -(t * s) /\ d * (-s) = -(d * s)
    BY <1>1
  <2>4. t * s \in Int /\ d * s \in Int /\ d * c \in Int /\ t * c \in Int
    BY <1>1, IntMul
  <2> QED BY <2>1, <2>2, <2>3, <2>4
<1>4. Compose(make_rot(a), make_rot(b))
        = mat22(vec2(c * d + (-s) * t, s * d + c * t),
                vec2(c * (-t) + (-s) * d, s * (-t) + c * d))
  BY DEF Compose, Apply, Plus, Times, make_rot, mat22, vec2
<1>5. Apply(make_rot(a), make_sincos(b)) = vec2(c * t + (-s) * d, s * t + c * d)
  BY DEF Apply, Plus, Times, make_rot, make_sincos, mat22, vec2
<1>6. make_rot(a + b) = mat22(vec2(c * d - s * t, s * d + c * t),
                              vec2(-(s * d + c * t), c * d - s * t))
  BY <1>2 DEF make_rot
<1>7. make_sincos(b - a) = vec2(t * c - d * s, d * c + t * s)
  BY <1>3 DEF make_sincos
<1> HIDE DEF c, s, d, t
<1>8. /\ c * d + (-s) * t = c * d - s * t
      /\ c * (-t) + (-s) * d = -(s * d + c * t) /\ s * (-t) + c * d = c * d - s * t
      /\ c * t + (-s) * d = t * c - d * s /\ s * t + c * d = d * c + t * s
  BY <1>1
<1> QED BY <1>4, <1>5, <1>6, <1>7, <1>8

LEMMA RotationsRigid ==
  ASSUME NEW q \in Int
  PROVE  /\ transpose(make_rot(q)) = inverse(make_rot(q)) /\ determinant(make_rot(q)) = 1
         /\ q % 4 \in 0 .. 3 /\ make_rot(q % 4) = make_rot(q)
<1> DEFINE c == Cos(q)
           s == Sin(q)
<1>1. c \in Int /\ s \in Int /\ c * c - s * (-s) = 1
  <2>1. (c = 0 \/ c = 1 \/ c = -1) /\ (s = 0 \/ s = 1 \/ s = -1) /\ (c = 0) # (s = 0)
    BY QuarterTurns
  <2> HIDE DEF c, s
  <2> QED BY <2>1
<1>2. make_rot(q) = mat22(vec2(c, s), vec2(-s, c))
  BY DEF make_rot
<1>3. determinant(make_rot(q)) = 1
  BY <1>1, <1>2 DEF determinant, cross, mat22, vec2
<1>4. transpose(make_rot(q)) = mat22(vec2(c, -s), vec2(s, c))
  BY <1>2 DEF transpose, mat22, vec2
<1>5. inverse(make_rot(q)) = mat22(vec2(c * 1, -s * 1), vec2(-(-s) * 1, c * 1))
  BY <1>2, <1>3 DEF inverse, mat22, vec2
<1>6. c * 1 = c /\ -s * 1 = -s /\ -(-s) * 1 = s
  <2> HIDE DEF c, s
  <2> QED BY <1>1
<1>7. q % 4 \in 0 .. 3 /\ make_rot(q % 4) = make_rot(q)
  <2>1. q % 4 \in 0 .. 3 /\ q % 4 \in Int /\ (q % 4) % 4 = q % 4
    OBVIOUS
  <2>2. Cos(q % 4) = Cos(q) /\ Sin(q % 4) = Sin(q)
    BY <2>1, QuarterTurns
  <2> QED BY <2>1, <2>2 DEF make_rot
<1> QED BY <1>3, <1>4, <1>5, <1>6, <1>7

(* The angle of a rotation, in quarter turns.                              *)
Angle(m) == CHOOSE q \in 0 .. 3 : make_rot(q) = m

(* Every rotation has one.                                                 *)
LEMMA AngleOfRotation ==
  ASSUME NEW r \in Rotations \cup {identity}
  PROVE  Angle(r) \in 0 .. 3 /\ make_rot(Angle(r)) = r
<1>1. \E q \in 0 .. 3 : make_rot(q) = r
  <2>1. CASE r = identity
    <3>1. 0 % 4 = 0
      OBVIOUS
    <3>2. Cos(0) = 1 /\ Sin(0) = 0
      BY <3>1, QuarterTurns
    <3>3. make_rot(0) = identity
      BY <3>2 DEF make_rot, identity
    <3> QED BY <2>1, <3>3
  <2>2. CASE r \in Rotations
    <3>1. PICK q \in Quarters : r = make_rot(q)
      BY <2>2 DEF Rotations
    <3> QED BY <3>1, RotationsRigid
  <2> QED BY <2>1, <2>2
<1> QED BY <1>1 DEF Angle

(* Two points stay as far apart as the matrix takes their difference, so   *)
(* the images of all points settle a matrix.                               *)
LEMMA ImagesApart ==
  ASSUME NEW m \in Transforms, NEW v \in Vectors, NEW w \in Vectors
  PROVE  Minus(Apply23(m, v), Apply23(m, w)) = Apply(m.rot, Minus(v, w))
<1> DEFINE r == m.rot
<1>1. r \in Matrices /\ m.trans \in Vectors
  BY DEF Transforms
<1>2. /\ r.columnx.x \in Int /\ r.columnx.y \in Int /\ r.columny.x \in Int
      /\ r.columny.y \in Int /\ m.trans.x \in Int /\ m.trans.y \in Int
      /\ v.x \in Int /\ v.y \in Int /\ w.x \in Int /\ w.y \in Int
  BY <1>1, MatrixParts, VectorParts
<1> DEFINE left(a, b, t) == ((a * v.x + b * v.y) + t) - ((a * w.x + b * w.y) + t)
           right(a, b) == a * (v.x - w.x) + b * (v.y - w.y)
<1>3. \A a, b, t, i, j, k, l \in Int :
        ((a * i + b * j) + t) - ((a * k + b * l) + t) = a * (i - k) + b * (j - l)
  OBVIOUS
<1>4. /\ left(r.columnx.x, r.columny.x, m.trans.x) = right(r.columnx.x, r.columny.x)
      /\ left(r.columnx.y, r.columny.y, m.trans.y) = right(r.columnx.y, r.columny.y)
  BY <1>2, <1>3
<1>5. Minus(Apply23(m, v), Apply23(m, w))
        = vec2(left(r.columnx.x, r.columny.x, m.trans.x),
               left(r.columnx.y, r.columny.y, m.trans.y))
  BY DEF Minus, Apply23, Apply, Plus, Times, vec2
<1>6. Apply(m.rot, Minus(v, w)) = vec2(right(r.columnx.x, r.columny.x), right(r.columnx.y, r.columny.y))
  BY DEF Minus, Apply, Plus, Times, vec2
<1> QED BY <1>4, <1>5, <1>6

LEMMA SameImages ==
  ASSUME NEW a \in Matrices, NEW b \in Matrices, \A v \in Vectors : Apply(a, v) = Apply(b, v)
  PROVE  a = b
<1>1. vec2(1, 0) \in Vectors /\ vec2(0, 1) \in Vectors
  BY VectorParts
<1>2. ASSUME NEW m \in Matrices
      PROVE  Apply(m, vec2(1, 0)) = m.columnx /\ Apply(m, vec2(0, 1)) = m.columny
  <2>1. /\ m.columnx.x \in Int /\ m.columnx.y \in Int
        /\ m.columny.x \in Int /\ m.columny.y \in Int
        /\ m.columnx = vec2(m.columnx.x, m.columnx.y)
        /\ m.columny = vec2(m.columny.x, m.columny.y)
    BY MatrixParts, VectorParts
  <2>2. \A i, j \in Int : i * 1 + j * 0 = i /\ i * 0 + j * 1 = j
    OBVIOUS
  <2>3. /\ Apply(m, vec2(1, 0)) = vec2(m.columnx.x * 1 + m.columny.x * 0,
                                       m.columnx.y * 1 + m.columny.y * 0)
        /\ Apply(m, vec2(0, 1)) = vec2(m.columnx.x * 0 + m.columny.x * 1,
                                       m.columnx.y * 0 + m.columny.y * 1)
    BY DEF Apply, Plus, Times, vec2
  <2> QED BY <2>1, <2>2, <2>3
<1>3. a.columnx = b.columnx /\ a.columny = b.columny
  BY <1>1, <1>2
<1> QED BY <1>3, MatrixParts

LEMMA MinusNoMove == ASSUME NEW p \in Vectors PROVE Minus(p, NoMove) = p
<1>1. p.x \in Int /\ p.y \in Int /\ p = vec2(p.x, p.y)
  BY VectorParts
<1>2. p.x - 0 = p.x /\ p.y - 0 = p.y
  BY <1>1
<1>3. Minus(p, NoMove) = vec2(p.x - 0, p.y - 0)
  BY DEF Minus, NoMove, vec2
<1> QED BY <1>1, <1>2, <1>3

(* Where every step's matrix is a rotation, the steps turn the line        *)
(* between any two points by the sum of their angles.                      *)
LEMMA AnglesAddUp ==
  ASSUME NEW s \in Seq(Transforms), NEW a \in [0 .. Len(s) -> Int], a[0] = 0,
         \A i \in 1 .. Len(s) : /\ Angle(s[i].rot) \in 0 .. 3
                                /\ make_rot(Angle(s[i].rot)) = s[i].rot
                                /\ a[i] = a[i - 1] + Angle(s[i].rot),
         NEW p \in Vectors, NEW g, Follows(s, p, g), NEW h, Follows(s, NoMove, h)
  PROVE  Minus(g[Len(s)], h[Len(s)]) = Apply(make_rot(a[Len(s)]), p)
<1> DEFINE n == Len(s)
           T == {i \in 0 .. n : Minus(g[i], h[i]) = Apply(make_rot(a[i]), p)}
<1>1. n \in Nat /\ \A i \in 1 .. n : s[i] \in Transforms
  OBVIOUS
<1>2. /\ g[0] = p /\ h[0] = NoMove
      /\ \A i \in 0 .. n : g[i] \in Vectors /\ h[i] \in Vectors /\ a[i] \in Int
      /\ \A i \in 1 .. n : g[i] = Apply23(s[i], g[i - 1]) /\ h[i] = Apply23(s[i], h[i - 1])
  BY DEF Follows
<1>3. \A i \in 1 .. n : /\ Angle(s[i].rot) \in Int
                        /\ make_rot(Angle(s[i].rot)) = s[i].rot
                        /\ a[i] = Angle(s[i].rot) + a[i - 1]
                        /\ i - 1 \in 0 .. n /\ a[i - 1] \in Int
  BY <1>1, <1>2
<1>4. make_rot(0) = identity
  <2>1. 0 % 4 = 0
    OBVIOUS
  <2>2. Cos(0) = 1 /\ Sin(0) = 0
    BY <2>1, QuarterTurns
  <2> QED BY <2>2 DEF make_rot, identity
<1>5. \A i \in Int : make_rot(i) \in Matrices
  BY UnitRotation DEF UnitMatrices
<1> HIDE DEF n
<1>6. 0 \in T
  <2>1. Minus(p, NoMove) = p
    BY MinusNoMove
  <2>2. 0 \in 0 .. n
    BY <1>1
  <2> QED BY <1>2, <1>4, <2>1, <2>2, FactorsAct
<1>7. ASSUME NEW i \in 1 .. n, i - 1 \in T PROVE i \in T
  <2> DEFINE q == Angle(s[i].rot)
  <2>1. /\ i \in 0 .. n /\ i - 1 \in 0 .. n /\ s[i] \in Transforms /\ s[i].rot = make_rot(q)
        /\ q \in Int /\ a[i - 1] \in Int /\ a[i] = q + a[i - 1]
        /\ g[i - 1] \in Vectors /\ h[i - 1] \in Vectors
    BY <1>1, <1>2, <1>3
  <2>2. Minus(g[i], h[i]) = Apply(make_rot(q), Minus(g[i - 1], h[i - 1]))
    BY <1>2, <2>1, ImagesApart
  <2>3. Minus(g[i - 1], h[i - 1]) = Apply(make_rot(a[i - 1]), p)
    BY <1>7
  <2> HIDE DEF q
  <2>4. Apply(make_rot(q), Apply(make_rot(a[i - 1]), p))
          = Apply(Compose(make_rot(q), make_rot(a[i - 1])), p)
    BY <1>5, <2>1, ComposeApplies
  <2>5. Compose(make_rot(q), make_rot(a[i - 1])) = make_rot(a[i])
    BY <2>1, RotationsCompose
  <2> QED BY <2>1, <2>2, <2>3, <2>4, <2>5
<1> HIDE DEF T
<1>8. 0 .. n \subseteq T
  BY <1>1, <1>6, <1>7, IntervalInduction
<1>9. n \in T
  BY <1>1, <1>8
<1> QED BY <1>9 DEF T, n

(* A view made of rotations and moves alone is the rotation by the sum of  *)
(* their angles, and rigid; it takes that sum away from the angles         *)
(* make_sincos measures.                                                   *)
THEOREM RotationsAddUp == Spec => []TurnsAddUp
<1>1. ASSUME TypeOK, ViewFollows PROVE TurnsAddUp
  <2> DEFINE n == Len(steps)
             Solves(a) ==
               a = [i \in 0 .. n |->
                      IF i = 0 THEN 0
                      ELSE a[i - 1] + Angle(steps[i].rot)]
             turned == CHOOSE a : Solves(a)
             Wanted(total) ==
               /\ view.rot = make_rot(total)
               /\ transpose(view.rot) = inverse(view.rot) /\ determinant(view.rot) = 1
               /\ \A q \in 0 .. 3 : Apply(view.rot, make_sincos(q)) = make_sincos(q - total)
  <2>1. ASSUME \A i \in DOMAIN steps : steps[i].rot \in Rotations \cup {identity}
        PROVE  Wanted(turned[n])
    <3>1. steps \in Seq(Transforms) /\ n \in Nat /\ view \in Transforms
      <4>1. Factors \subseteq Transforms
        BY UnitFactors DEF UnitTransforms
      <4>2. steps \in Seq(Factors) /\ view \in Transforms
        BY <1>1 DEF TypeOK, Factors, UnitTransforms
      <4> HIDE DEF n
      <4>3. steps \in Seq(Transforms)
        BY <4>1, <4>2
      <4> QED BY <4>2, <4>3 DEF n
    <3>2. \A i \in 1 .. n : /\ Angle(steps[i].rot) \in 0 .. 3
                            /\ make_rot(Angle(steps[i].rot)) = steps[i].rot
      <4>1. \A i \in 1 .. n : steps[i].rot \in Rotations \cup {identity}
        BY <2>1, <3>1
      <4> QED BY <4>1, AngleOfRotation
    <3> HIDE DEF n
    <3>3. \E a : Solves(a)
      <4> DEFINE d == [i \in 1 .. n |-> Angle(steps[i].rot)]
      <4>1. d \in [1 .. n -> Int]
        BY <3>2
      <4>2. \A i \in 1 .. n : d[i] = Angle(steps[i].rot)
        OBVIOUS
      <4> HIDE DEF d
      <4>3. PICK a \in [0 .. n -> Int] : a[0] = 0 /\ \A i \in 1 .. n : a[i] = a[i - 1] + d[i]
        BY <3>1, <4>1, IntervalSum
      <4>4. Solves(a)
        BY <3>1, <4>2, <4>3
      <4> HIDE DEF Solves
      <4> QED BY <4>4
    <3>4. Solves(turned)
      <4> HIDE DEF Solves
      <4> QED BY <3>3
    <3> HIDE DEF turned
    <3>5. /\ turned[0] = 0 /\ turned = [i \in 0 .. n |-> turned[i]]
          /\ \A i \in 1 .. n : turned[i] = turned[i - 1] + Angle(steps[i].rot)
      <4>1. 0 \in 0 .. n /\ \A i \in 1 .. n : i \in 0 .. n /\ i # 0
        BY <3>1
      <4>2. \A i \in 0 .. n : turned[i] = IF i = 0 THEN 0 ELSE turned[i - 1] + Angle(steps[i].rot)
        BY <3>4
      <4>3. turned = [i \in 0 .. n |-> turned[i]]
        BY <3>4
      <4> HIDE DEF Solves
      <4> QED BY <4>1, <4>2, <4>3
    <3>6. turned \in [0 .. n -> Int]
      <4> DEFINE T == {i \in 0 .. n : turned[i] \in Int}
      <4> HIDE DEF Solves
      <4>1. 0 \in T
        BY <3>1, <3>5
      <4>2. ASSUME NEW i \in 1 .. n, i - 1 \in T PROVE i \in T
        <5>1. Angle(steps[i].rot) \in Int /\ turned[i - 1] \in Int /\ i \in 0 .. n
          BY <3>1, <3>2, <4>2
        <5>2. turned[i] = turned[i - 1] + Angle(steps[i].rot)
          BY <3>5
        <5> QED BY <5>1, <5>2
      <4>3. 0 .. n \subseteq T
        <5> HIDE DEF T
        <5> QED BY <3>1, <4>1, <4>2, IntervalInduction
      <4> QED BY <3>5, <4>3
    <3> DEFINE total == turned[n]
    <3>7. total \in Int
      BY <3>1, <3>6
    <3>8. NoMove \in Vectors
      BY UnitFactors
    <3>9. ASSUME NEW p \in Vectors PROVE Apply(view.rot, p) = Apply(make_rot(total), p)
      <4>1. PICK g : Follows(steps, p, g)
        BY <3>1, FollowsSome
      <4>2. PICK h : Follows(steps, NoMove, h)
        BY <3>1, <3>8, FollowsSome
      <4>3. Minus(g[n], h[n]) = Apply(make_rot(total), p)
        BY <3>1, <3>2, <3>5, <3>6, <4>1, <4>2, AnglesAddUp
      <4>4. Apply23(view, p) = g[n] /\ Apply23(view, NoMove) = h[n]
        BY <1>1, <3>8, <4>1, <4>2 DEF ViewFollows, Ends, n
      <4>5. Minus(Apply23(view, p), Apply23(view, NoMove)) = Apply(view.rot, Minus(p, NoMove))
        BY <3>1, <3>8, ImagesApart
      <4>6. Minus(p, NoMove) = p
        BY MinusNoMove
      <4> QED BY <4>3, <4>4, <4>5, <4>6
    <3>10. view.rot = make_rot(total)
      <4>1. view.rot \in Matrices /\ make_rot(total) \in Matrices
        BY <3>1, <3>7, UnitRotation DEF Transforms, UnitMatrices
      <4> QED BY <3>9, <4>1, SameImages
    <3> HIDE DEF total
    <3>11. \A q \in 0 .. 3 : Apply(view.rot, make_sincos(q)) = make_sincos(q - total)
      BY <3>7, <3>10, RotationsCompose
    <3>12. Wanted(total)
      BY <3>7, <3>10, <3>11, RotationsRigid
    <3> HIDE DEF Wanted
    <3> QED BY <3>12 DEF total
  <2> HIDE DEF Wanted
  <2>2. (\A i \in DOMAIN steps : steps[i].rot \in Rotations \cup {identity})
          => Wanted(turned[n])
    BY <2>1
  <2> QED BY <2>2 DEF TurnsAddUp, Wanted, Angle
<1> QED BY <1>1, TypeCorrect, ViewAlwaysFollows, PTL
=============================================================================
