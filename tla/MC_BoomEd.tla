----------------------------- MODULE MC_BoomEd -----------------------------
(* Model checking BoomEd: drivers of OpenGL 2.1, 3.3 and 4.6, two objects  *)
(* a window can be, and three blocks of memory for two commands.           *)
EXTENDS BoomEd

MCVersions == {21, 33, 46}
=============================================================================
