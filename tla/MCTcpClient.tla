---------------------------- MODULE MCTcpClient ----------------------------
(***************************************************************************)
(* Instances of TcpClient for TLC.  Words over a line end and one other    *)
(* character tell every loss, repetition and change of order apart.        *)
(***************************************************************************)
EXTENDS TcpClient

Characters == {"a", "lf"}
LineEnds   == {"lf"}
=============================================================================
