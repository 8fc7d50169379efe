------------------------------- MODULE Mat22 -------------------------------
(***************************************************************************)
(* mat22<T> and mat23<T> (math/mat22.h, math/mat23.h) without rounding: T  *)
(* is a floating-point type whose values stay among the integers it holds  *)
(* exactly.  A mat22 has two columns, a mat23 a mat22 and a translation.   *)
(***************************************************************************)
EXTENDS Integers

vec2(x, y) == [x |-> x, y |-> y]
Vectors == [x : Int, y : Int]
Plus(a, b) == vec2(a.x + b.x, a.y + b.y)
Minus(a, b) == vec2(a.x - b.x, a.y - b.y)
Times(v, s) == vec2(v.x * s, v.y * s)
cross(a, b) == a.x * b.y - a.y * b.x

mat22(x, y) == [columnx |-> x, columny |-> y]
Matrices == [columnx : Vectors, columny : Vectors]
identity == mat22(vec2(1, 0), vec2(0, 1))

(* A rotation by q quarter turns, whose sine and cosine are exact.         *)
Cos(q) == CASE q % 4 = 0 -> 1 [] q % 4 = 2 -> -1 [] OTHER -> 0
Sin(q) == Cos(q - 1)

(* make_sincos with its components the other way round                     *)
CosSin(q) == vec2(Cos(q), Sin(q))
make_sincos(q) == vec2(Sin(q), Cos(q))

(* make_rot with a sign forgotten                                          *)
RotMirrors(q) == mat22(vec2(Cos(q), Sin(q)), vec2(Sin(q), Cos(q)))
make_rot(q) == LET s == Sin(q)  c == Cos(q)
               IN  mat22(vec2(c, s), vec2(-s, c))

Sum(a, b) == mat22(Plus(a.columnx, b.columnx), Plus(a.columny, b.columny))
Difference(a, b) == mat22(Minus(a.columnx, b.columnx), Minus(a.columny, b.columny))

(* Scale that leaves the second column as it was                           *)
ScaleColumnx(m, s) == mat22(Times(m.columnx, s), m.columny)
Scale(m, s) == mat22(Times(m.columnx, s), Times(m.columny, s))

(* Apply to the rows instead of the columns                                *)
ApplyRows(m, v) == vec2(m.columnx.x * v.x + m.columnx.y * v.y,
                        m.columny.x * v.x + m.columny.y * v.y)
Apply(m, v) == Plus(Times(m.columnx, v.x), Times(m.columny, v.y))

(* Compose that takes its second column from the wrong operand             *)
ComposeSlip(a, b) == mat22(Apply(a, b.columnx), Apply(a, a.columny))
Compose(a, b) == mat22(Apply(a, b.columnx), Apply(a, b.columny))

determinant(m) == cross(m.columnx, m.columny)

(* transpose that exchanges nothing                                        *)
TransposeNot(m) == m
transpose(m) == mat22(vec2(m.columnx.x, m.columny.x), vec2(m.columnx.y, m.columny.y))

(* inverse that forgets to divide by the determinant                       *)
Adjugate(m) == mat22(vec2(m.columny.y, -m.columnx.y), vec2(-m.columny.x, m.columnx.x))

(* For determinants 1 and -1, which are their own reciprocals.             *)
Unit == {1, -1}
inverse(m) ==
  LET d == determinant(m)
  IN  mat22(vec2(m.columny.y * d, -m.columnx.y * d),
            vec2(-m.columny.x * d, m.columnx.x * d))
-----------------------------------------------------------------------------
mat23(m, t) == [rot |-> m, trans |-> t]
Transforms == [rot : Matrices, trans : Vectors]
make_translation(t) == mat23(identity, t)

Apply23(m, v) == Plus(Apply(m.rot, v), m.trans)

(* Compose23 that adds the translations                                    *)
ComposeAdds(a, b) == mat23(Compose(a.rot, b.rot), Plus(a.trans, b.trans))
Compose23(a, b) == mat23(Compose(a.rot, b.rot), Apply23(a, b.trans))

(* mat22 * mat23 that leaves the translation alone                         *)
Compose22KeepsTrans(a, b) == mat23(Compose(a, b.rot), b.trans)
Compose22With23(a, b) == mat23(Compose(a, b.rot), Apply(a, b.trans))

Compose23With22(a, b) == mat23(Compose(a.rot, b), a.trans)
=============================================================================
