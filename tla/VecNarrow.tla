------------------------------ MODULE VecNarrow ------------------------------
(***************************************************************************)
(* A program that keeps a vector twice, as a vec2 of a wide type and as    *)
(* its conversion to a narrow one, and does to both what it does to one.   *)
(* Both types are narrower than int, so that nothing is undefined.         *)
(***************************************************************************)
EXTENDS Integers

CONSTANTS Half,       \* half the number of values of the narrow type
          WideHalf,   \* ... of the wide type
          OpHalf,     \* ... of int
          ResultHalf, \* ... of scalar_result
          Operands    \* the wide vectors and scalars the program adds and scales by

Wide == INSTANCE Vec2 WITH Half <- WideHalf
Narrow == INSTANCE Vec2

ASSUME NarrowAssumption ==
  /\ Half \in Nat /\ Half > 1
  /\ WideHalf \in Nat /\ WideHalf >= Half /\ WideHalf % Half = 0
  /\ OpHalf \in Nat /\ OpHalf >= 2 * WideHalf * WideHalf
  /\ ResultHalf \in Nat /\ ResultHalf >= OpHalf
  /\ Operands \subseteq Wide!Scalars

VARIABLES wide, narrow
vars == <<wide, narrow>>

Init == wide = Wide!zero /\ narrow = Narrow!zero

Load == \E x, y \in Operands :
  wide' = Wide!vec2(x, y) /\ narrow' = Narrow!convert(wide')

(* A vector op(narrow, w), where w may have to be converted first.         *)
Add == \E x, y \in Operands : LET w == Wide!vec2(x, y) IN
  wide' \in Wide!Plus(wide, w) /\ narrow' \in Narrow!Plus(narrow, Narrow!convert(w))

Subtract == \E x, y \in Operands : LET w == Wide!vec2(x, y) IN
  wide' \in Wide!Minus(wide, w) /\ narrow' \in Narrow!Minus(narrow, Narrow!convert(w))

Negate == wide' \in Wide!Neg(wide) /\ narrow' \in Narrow!Neg(narrow)

Scale == \E s \in Operands :
  wide' \in Wide!Times(wide, s) /\ narrow' \in Narrow!Times(narrow, Narrow!Wrap(s))

Next == Load \/ Add \/ Subtract \/ Negate \/ Scale

Spec == Init /\ [][Next]_vars
-----------------------------------------------------------------------------
TypeOK == wide \in Wide!Vectors /\ narrow \in Narrow!Vectors

(* Sums, differences and multiples may be taken before or after narrowing: *)
(* over any number of them the narrow vector stays the conversion of the   *)
(* wide one, whichever of them has wrapped.                                *)
NarrowTracksWide == narrow = Narrow!convert(wide)
=============================================================================
