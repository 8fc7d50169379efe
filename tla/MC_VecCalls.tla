---------------------------- MODULE MC_VecCalls ----------------------------
(* Model checking VecCalls with T of three bits, promoted to six, and a    *)
(* scalar_result of six: like 16 bits, promoted to an int of 32.  A double *)
(* has three significant bits, so that squares and roots are rounded.      *)
EXTENDS VecCalls
=============================================================================
