--------------------------- MODULE MC_CmdFactory ---------------------------
(* Model checking CmdFactory: four blocks (two named commands fill them),  *)
(* two pools and two handles; the values are model values of the cfg.      *)
EXTENDS CmdFactory
=============================================================================
