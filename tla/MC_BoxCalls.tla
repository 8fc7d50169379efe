---------------------------- MODULE MC_BoxCalls ----------------------------
(* Model checking BoxCalls with T an int of three bits and coordinates at  *)
(* both ends of its range and between; narrowed to two bits, 3 becomes -1. *)
EXTENDS BoxCalls

MCCoords == {-4, 0, 3}
=============================================================================
