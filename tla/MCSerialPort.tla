---------------------------- MODULE MCSerialPort ----------------------------
(***************************************************************************)
(* Instances of SerialPort for TLC, over a line end and one other          *)
(* character.                                                              *)
(***************************************************************************)
EXTENDS SerialPort

Characters == {"a", "lf"}
LineEnds   == {"lf"}
=============================================================================
