----------------------------- MODULE TcpClient -----------------------------
(***************************************************************************)
(* Reading from a sensor over TCP (src/current/src/urg_tcpclient.c): the   *)
(* ring buffer, the one character tcpclient_readline pushes back, and the  *)
(* receive queue of the socket, which fills while the calls run.  Each     *)
(* recv is one step.  A sensor that closes the connection and one that is  *)
(* silent look the same to the code: recv gives nothing.                   *)
(***************************************************************************)
EXTENDS RingBuffer, Integers

CONSTANTS
  Linefeeds,   \* the bytes CR and LF
  NoByte,      \* pushed_back = -1
  BufSizes,    \* values of buf_size in calls of tcpclient_readline
  ReadSizes,   \* values of req_size in calls of tcpclient_read
  RawAnytime,  \* TRUE: such a call may also follow a line that did not fit
  MaxSent      \* bound: bytes the sensor sends

\* SCIP is text: no byte is 0, which the code could not push back.
ASSUME ByteAssumption == Linefeeds \subseteq Byte /\ NoByte \notin Byte
ASSUME CallAssumption == /\ BufSizes \subseteq Nat \ {0, 1}
                         /\ ReadSizes \subseteq Nat \ {0}
                         /\ RawAnytime \in BOOLEAN
                         /\ MaxSent \in Nat

BUFSIZE == Size - 1

VARIABLES
  rb, pushed_back,   \* fields of urg_tcpclient_t
  socket,            \* received by the kernel and not yet by the code
  pc,                \* "idle", or the part of tcpclient_read that is next
  op, limit,         \* the call being made, and its buf_size or req_size
  userbuf,           \* what it has put into the caller's buffer so far
  result,            \* what the last finished call gave
  sent               \* bytes the sensor has sent

call == <<op, limit>>
vars == <<rb, pushed_back, socket, pc, call, userbuf, result, sent>>

\* tcpclient_readline reads one byte at a time
rem_size == IF op = "readline" THEN 1 ELSE limit - Len(userbuf)

Returns(code, text) ==
  /\ pc' = "idle"
  /\ userbuf' = <<>>
  /\ result' = [op |-> op, code |-> code, text |-> text]

(***************************************************************************)
(* What the callers make of the bytes of a tcpclient_read that is over.    *)
(***************************************************************************)
\* Two wrong forms of LineGets: the last character is not pushed back; the
\* buffer is filled to its last place
LineNoPushback(bytes) ==
  LET line == userbuf \o bytes IN
  IF bytes = <<>>
  THEN /\ Returns(IF userbuf = <<>> THEN -1 ELSE Len(userbuf), userbuf)
       /\ UNCHANGED pushed_back
  ELSE IF bytes[1] \in Linefeeds
  THEN Returns(Len(userbuf), userbuf) /\ UNCHANGED pushed_back
  ELSE IF Len(line) >= limit
  THEN Returns(limit - 1, SubSeq(line, 1, limit - 1)) /\ UNCHANGED pushed_back
  ELSE pc' = "buffer" /\ userbuf' = line /\ UNCHANGED <<pushed_back, result>>

LineOverfills(bytes) ==
  LET line == userbuf \o bytes IN
  IF bytes = <<>>
  THEN /\ Returns(IF userbuf = <<>> THEN -1 ELSE Len(userbuf), userbuf)
       /\ UNCHANGED pushed_back
  ELSE IF bytes[1] \in Linefeeds
  THEN Returns(Len(userbuf), userbuf) /\ UNCHANGED pushed_back
  ELSE IF Len(line) > limit
  THEN Returns(limit, SubSeq(line, 1, limit)) /\ pushed_back' = line[Len(line)]
  ELSE pc' = "buffer" /\ userbuf' = line /\ UNCHANGED <<pushed_back, result>>

\* The loop of tcpclient_readline after one more byte, or none
LineGets(bytes) ==
  LET line == userbuf \o bytes IN
  IF bytes = <<>>
  THEN /\ Returns(IF userbuf = <<>> THEN -1 ELSE Len(userbuf), userbuf)
       /\ UNCHANGED pushed_back
  ELSE IF bytes[1] \in Linefeeds
  THEN Returns(Len(userbuf), userbuf) /\ UNCHANGED pushed_back
  ELSE IF Len(line) >= limit
  THEN Returns(limit - 1, SubSeq(line, 1, limit - 1)) /\ pushed_back' = line[limit]
  ELSE pc' = "buffer" /\ userbuf' = line /\ UNCHANGED <<pushed_back, result>>

Obtained(bytes) ==
  IF op = "readline" THEN LineGets(bytes)
  ELSE Returns(Len(userbuf \o bytes), userbuf \o bytes) /\ UNCHANGED pushed_back

\* A wrong form of the next definition: each part fills the buffer from its start
PartOverwrites(bytes, next) ==
  IF Len(bytes) = rem_size THEN Obtained(bytes)
  ELSE /\ pc' = next
       /\ userbuf' = IF op = "read" THEN bytes ELSE userbuf
       /\ UNCHANGED <<pushed_back, result>>

\* One part of tcpclient_read got these bytes: done, or on to the next part
Part(bytes, next) ==
  IF Len(bytes) = rem_size THEN Obtained(bytes)
  ELSE /\ pc' = next
       /\ userbuf' = userbuf \o bytes
       /\ UNCHANGED <<pushed_back, result>>

(***************************************************************************)
(* The calls and the three parts of tcpclient_read.                        *)
(***************************************************************************)
tcpclient_readline(max) ==
  /\ pc = "idle"
  /\ pc' = "buffer" /\ op' = "readline" /\ limit' = max
  /\ userbuf' = IF pushed_back = NoByte THEN <<>> ELSE <<pushed_back>>
  /\ pushed_back' = NoByte
  /\ UNCHANGED <<rb, socket, result, sent>>

tcpclient_read(n) ==
  /\ pc = "idle"
  /\ pushed_back # NoByte => RawAnytime
  /\ pc' = "buffer" /\ op' = "read" /\ limit' = n
  /\ UNCHANGED <<rb, pushed_back, socket, userbuf, result, sent>>

\* What the ring buffer holds
FromBuffer ==
  /\ pc = "buffer"
  /\ rb' = Read(rb, rem_size)
  /\ Part(Popped(rb, rem_size), "recv")
  /\ UNCHANGED <<socket, call, sent>>

\* recv with MSG_DONTWAIT moves what has come into the ring buffer
FromSocket ==
  LET n      == AtMost(Len(socket), BUFSIZE - ring_size(rb))
      filled == Written(rb, SubSeq(socket, 1, n))
  IN
  /\ pc = "recv"
  /\ socket' = SubSeq(socket, n + 1, Len(socket))
  /\ rb' = Read(filled, rem_size)
  /\ Part(Popped(filled, rem_size), "block")
  /\ UNCHANGED <<call, sent>>

\* recv with a timeout, straight into the caller's buffer: what is there when
\* the first byte has come, or nothing when the time is over before
Blocking ==
  LET n == AtMost(Len(socket), rem_size) IN
  /\ pc = "block"
  /\ socket' = SubSeq(socket, n + 1, Len(socket))
  /\ Obtained(SubSeq(socket, 1, n))
  /\ UNCHANGED <<rb, call, sent>>

\* The sensor and the network
Arrive(b) ==
  /\ sent < MaxSent /\ sent' = sent + 1
  /\ socket' = Append(socket, b)
  /\ UNCHANGED <<rb, pushed_back, pc, call, userbuf, result>>

\* tcpclient_open, once the connection stands
Init ==
  /\ rb \in Ring /\ rb = Cleared(rb)
  /\ pushed_back = NoByte
  /\ socket = <<>> /\ sent = 0
  /\ pc = "idle" /\ op = "none" /\ limit = 0 /\ userbuf = <<>>
  /\ result = [op |-> "none", code |-> 0, text |-> <<>>]

Client == FromBuffer \/ FromSocket \/ Blocking

Next == \/ \E max \in BufSizes : tcpclient_readline(max)
        \/ \E n \in ReadSizes : tcpclient_read(n)
        \/ Client
        \/ \E b \in Byte : Arrive(b)

Spec == Init /\ [][Next]_vars

(***************************************************************************)
(* Properties.                                                             *)
(***************************************************************************)
Results == [op : {"none", "readline", "read"}, code : Int, text : Seq(Byte)]

\* The fields keep their types, and a call never fills more than its buffer.
TypeOK ==
  /\ rb \in Ring /\ pushed_back \in Byte \cup {NoByte}
  /\ socket \in Seq(Byte) /\ sent \in 0 .. MaxSent
  /\ pc \in {"idle", "buffer", "recv", "block"}
  /\ op \in {"none", "readline", "read"}
  /\ pc # "idle" => \/ op = "readline" /\ limit \in BufSizes
                    \/ op = "read" /\ limit \in ReadSizes
  /\ userbuf \in Seq(Byte) /\ result \in Results
  /\ IF pc = "idle" THEN userbuf = <<>> ELSE Len(userbuf) < limit

\* Bytes on their way to the reader, the oldest first
PushedBack == IF pushed_back = NoByte THEN <<>> ELSE <<pushed_back>>
Unread     == Contents(rb) \o socket
InFlight   == userbuf \o (PushedBack \o Unread)

\* Through the ring buffer, the socket and the pushed back character the reader
\* gets the bytes of the sensor in their order, and each read gives what
\* urg_connection.h promises: lines cut at their ends, or at max_size - 1; only a raw
\* read of nothing gives 0, not the timeout it promises (lines 211 and 228).
Reader == INSTANCE LineReader WITH pending <- InFlight
ReadsInOrder == Reader!Spec
=============================================================================
