------------------------------ MODULE MatCalls ------------------------------
(***************************************************************************)
(* A program that builds one transform, view, from turns (mat22) and moves *)
(* (translations, mat23), composed before or after what is there, and      *)
(* undoes what it added last.  steps is what a point goes through.         *)
(***************************************************************************)
EXTENDS Mat22, Sequences

CONSTANTS Bases,      \* matrices used beside the rotations
          Moves,      \* translations
          Quarters,   \* rotations, in quarter turns
          Points,     \* the points whose images are compared
          MaxSteps    \* the most factors view is composed of

ASSUME FactorAssumption ==
  /\ Bases \subseteq {m \in Matrices : determinant(m) \in Unit}
  /\ Moves \subseteq Vectors /\ Points \subseteq Vectors
  /\ Quarters \subseteq Int /\ MaxSteps \in Nat

VARIABLES view, steps
vars == <<view, steps>>

Rotations == {make_rot(q) : q \in Quarters}
Turns == Rotations \cup Bases
NoMove == vec2(0, 0)

Init == view = mat23(identity, NoMove) /\ steps = <<>>

Move == \E t \in Moves :
  /\ Len(steps) < MaxSteps
  /\ view' = Compose23(make_translation(t), view)
  /\ steps' = Append(steps, make_translation(t))

MoveFirst == \E t \in Moves :
  /\ Len(steps) < MaxSteps
  /\ view' = Compose23(view, make_translation(t))
  /\ steps' = <<make_translation(t)>> \o steps

Turn == \E r \in Turns :
  /\ Len(steps) < MaxSteps
  /\ view' = Compose22With23(r, view)
  /\ steps' = Append(steps, mat23(r, NoMove))

TurnFirst == \E r \in Turns :
  /\ Len(steps) < MaxSteps
  /\ view' = Compose23With22(view, r)
  /\ steps' = <<mat23(r, NoMove)>> \o steps

UndoMove ==
  /\ steps # <<>> /\ steps[Len(steps)].rot = identity
  /\ view' = Compose23(make_translation(Minus(NoMove, steps[Len(steps)].trans)), view)
  /\ steps' = SubSeq(steps, 1, Len(steps) - 1)

UndoTurn ==
  /\ steps # <<>> /\ steps[Len(steps)].trans = NoMove
  /\ view' = Compose22With23(inverse(steps[Len(steps)].rot), view)
  /\ steps' = SubSeq(steps, 1, Len(steps) - 1)

Next == Move \/ MoveFirst \/ Turn \/ TurnFirst \/ UndoMove \/ UndoTurn

Spec == Init /\ [][Next]_vars
-----------------------------------------------------------------------------
UnitTransforms == {m \in Transforms : determinant(m.rot) \in Unit}

(* No composition of invertible factors becomes singular or changes areas, *)
(* so that mat22::inverse, which does not check, never divides by zero.    *)
TypeOK == /\ view \in UnitTransforms
          /\ steps \in Seq({mat23(r, NoMove) : r \in Turns}
                           \cup {make_translation(t) : t \in Moves})

(* However it was composed and undone (mat23 * mat23, mat22 * mat23,       *)
(* mat23 * mat22, inverse), view moves a point as its steps do in turn.    *)
AppliesStepsInTurn ==
  \A p \in Points :
    LET moved[i \in 0 .. Len(steps)] ==
          IF i = 0 THEN p ELSE Apply23(steps[i], moved[i - 1])
    IN  Apply23(view, p) = moved[Len(steps)]

(* mat22::inverse is the inverse on both sides.                            *)
InverseUndoes == /\ Compose(view.rot, inverse(view.rot)) = identity
                 /\ Compose(inverse(view.rot), view.rot) = identity

(* A view made of rotations and moves alone is the rotation by their sum,  *)
(* in whatever order they come, and so rigid; and as make_sincos measures  *)
(* angles from the y axis towards x and make_rot turns from x towards y, a *)
(* view subtracts from them what it turns by.                              *)
TurnsAddUp ==
  LET turned[i \in 0 .. Len(steps)] ==
        IF i = 0 THEN 0
        ELSE turned[i - 1] + CHOOSE q \in 0 .. 3 : make_rot(q) = steps[i].rot
      total == turned[Len(steps)]
  IN  (\A i \in DOMAIN steps : steps[i].rot \in Rotations \cup {identity}) =>
        /\ view.rot = make_rot(total)
        /\ transpose(view.rot) = inverse(view.rot) /\ determinant(view.rot) = 1
        /\ \A q \in 0 .. 3 : Apply(view.rot, make_sincos(q)) = make_sincos(q - total)

(* Transposing reverses a product and keeps its determinant.               *)
TransposeReverses == \A r \in Turns :
  /\ transpose(Compose(view.rot, r)) = Compose(transpose(r), transpose(view.rot))
  /\ determinant(transpose(view.rot)) = determinant(view.rot)

(* The sum, the difference and a multiple of matrices move a point to the  *)
(* sum, the difference and the multiple of its images.                     *)
ActsLinearly == \A r \in Turns, p \in Points :
  /\ Apply(Sum(view.rot, r), p) = Plus(Apply(view.rot, p), Apply(r, p))
  /\ Apply(Difference(view.rot, r), p) = Minus(Apply(view.rot, p), Apply(r, p))
  /\ Apply(Scale(r, p.x), p) = Times(Apply(r, p), p.x)
=============================================================================
