---------------------------- MODULE MC_FloatBox ----------------------------
(* Model checking FloatBox with the coordinates 0 and 1 and the infinities *)
(* and NaN that normalising them can give.                                 *)
EXTENDS FloatBox
=============================================================================
