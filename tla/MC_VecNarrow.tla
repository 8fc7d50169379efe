---------------------------- MODULE MC_VecNarrow ----------------------------
(* Model checking VecNarrow with types of five and three bits and operands *)
(* at both ends of their ranges.                                           *)
EXTENDS VecNarrow

MCOperands == {-16, -5, -1, 0, 2, 3, 15}
=============================================================================
