--------------------------- MODULE MCScipConnect ---------------------------
(***************************************************************************)
(* Instances of ScipConnect for TLC.                                       *)
(***************************************************************************)
EXTENDS ScipConnect

BothTypes == {"URG_SERIAL", "URG_ETHERNET"}
AllModes  == {"idle", "scip11", "adjust", "measure"}
=============================================================================
