---------------------------- MODULE MC_MatCalls ----------------------------
(* Model checking MatCalls with a shear and a mirror beside the rotations; *)
(* the images of three points that are not on a line settle an affine map. *)
EXTENDS MatCalls

MCBases == {mat22(vec2(1, 0), vec2(1, 1)), mat22(vec2(-1, 0), vec2(0, 1))}
MCMoves == {vec2(1, 0), vec2(-1, 2)}
MCPoints == {vec2(0, 0), vec2(1, 0), vec2(2, 1)}
=============================================================================
