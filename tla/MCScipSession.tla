---------------------------- MODULE MCScipSession ----------------------------
(***************************************************************************)
(* Instances of ScipSession for TLC: the sets of API calls of the runs.    *)
(***************************************************************************)
EXTENDS ScipSession

Measuring    == {"start", "get", "stop", "info", "close"}
=============================================================================
