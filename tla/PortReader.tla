----------------------------- MODULE PortReader -----------------------------
(***************************************************************************)
(* What a serial port promises its reader on top of LineReader: it can be  *)
(* closed, opened again and set to another baud rate, and nothing that was *)
(* on its way before is read afterwards; unless it keeps what has come at  *)
(* the old rate, as the Windows port does.                                 *)
(***************************************************************************)
EXTENDS LineReader

VARIABLES opened,
          keeps    \* TRUE: a new baud rate throws nothing away

portVars == <<vars, opened, keeps>>

\* Reads go on as LineReader has them; only a read of a closed port, which has
\* nothing left but what was pushed back, never reports an empty line.
Read == Reads /\ (opened \/ result'.code # 0) /\ UNCHANGED opened

ReadOfClosed ==
  /\ ~opened /\ pending = <<>>
  /\ Gives("read", -1, <<>>, <<>>)
  /\ UNCHANGED opened

\* A new baud rate throws away what has come at the old one, or does not
NewRate     == /\ Gives("set_baudrate", 0, <<>>, IF keeps THEN pending ELSE <<>>)
               /\ UNCHANGED opened
RefusedRate == Gives("set_baudrate", -1, <<>>, pending) /\ UNCHANGED opened

\* An open that fails for want of the device leaves the port closed, one that
\* fails for the baud rate does not.
Open == /\ ~opened
        /\ opened' \in BOOLEAN
        /\ \E code \in {0, -1} : /\ code = 0 => opened'
                                 /\ Gives("open", code, <<>>, <<>>)

\* Of what was on its way only a pushed back character may be left
Close == /\ opened' = FALSE
         /\ \E k \in {0, 1} : k <= Len(pending) /\ Gives("close", 0, <<>>, Front(k))

PortInit == Init /\ opened = TRUE /\ keeps \in BOOLEAN

PortNext == /\ \/ Read \/ ReadOfClosed \/ NewRate \/ RefusedRate \/ Open \/ Close
               \/ opened /\ UNCHANGED opened /\ \E b \in Byte : Arrive(b)
            /\ UNCHANGED keeps

PortSpec == PortInit /\ [][PortNext]_portVars
=============================================================================
