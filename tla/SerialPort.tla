----------------------------- MODULE SerialPort -----------------------------
(***************************************************************************)
(* Reading from a sensor over a serial line (src/current/src/urg_serial.c, *)
(* urg_serial_linux.c, urg_serial_windows.c): the ring buffer, the one     *)
(* character serial_readline pushes back, and the queue of the terminal,   *)
(* which fills while the calls run.  Each select with its read, and each   *)
(* ReadFile, is one step.  A line that is silent and a read that fails     *)
(* look the same to the code: nothing is got.                              *)
(***************************************************************************)
EXTENDS RingBuffer, Integers

CONSTANTS
  Linefeeds,   \* the bytes CR and LF
  NoByte,      \* has_last_ch = False
  BufSizes,    \* values of max_size in calls of serial_readline
  ReadSizes,   \* values of max_size in calls of serial_read
  MaxSent,     \* bound: bytes the sensor sends
  MaxOpens     \* bound: calls of serial_open and serial_set_baudrate

ASSUME ByteAssumption == Linefeeds \subseteq Byte /\ NoByte \notin Byte
ASSUME CallAssumption == /\ BufSizes \subseteq Nat \ {0, 1}
                         /\ ReadSizes \subseteq Nat \ {0}
                         /\ MaxSent \in Nat /\ MaxOpens \in Nat

VARIABLES
  platform,    \* which of the two implementations is built in
  opened,      \* fd # INVALID_FD, hCom # INVALID_HANDLE_VALUE
  ring,        \* the ring buffer
  last_ch,     \* the character pushed back, or NoByte
  tty,         \* received by the terminal and not yet by the code
  pc,          \* "idle", or the part of serial_read that is next
  op, limit,   \* the call being made and its max_size
  data,        \* what it has put into the caller's buffer so far
  buffer,      \* the local buffer of serial_read, on its way to the ring
  result,      \* what the last finished call gave
  sent, opens  \* bytes the sensor has sent; calls counted by MaxOpens

call == <<op, limit>>
vars == <<platform, opened, ring, last_ch, tty, pc, call, data, buffer, result, sent, opens>>

\* serial_readline reads one byte at a time
required == IF op = "readline" THEN 1 ELSE limit - Len(data)

Result(o, code, text) == result' = [op |-> o, code |-> code, text |-> text]

Returns(code, text) == pc' = "idle" /\ data' = <<>> /\ Result(op, code, text)

(***************************************************************************)
(* What the callers make of the bytes of a serial_read that is over.  Once *)
(* it has begun no character is pushed back.                               *)
(***************************************************************************)
\* A wrong form of LineGets: the buffer is filled to its last place
LineOverfills(bytes) ==
  LET line == data \o bytes
      over == Len(line) > limit
  IN IF bytes = <<>>
     THEN Returns(IF data = <<>> THEN -1 ELSE Len(data), data) /\ last_ch' = NoByte
     ELSE IF bytes[1] \in Linefeeds
     THEN Returns(Len(data), data) /\ last_ch' = NoByte
     ELSE IF over
     THEN Returns(limit, SubSeq(line, 1, limit)) /\ last_ch' = line[Len(line)]
     ELSE pc' = "begin" /\ data' = line /\ last_ch' = NoByte /\ UNCHANGED result

\* The loop of serial_readline after one more byte, or none
LineGets(bytes) ==
  LET line == data \o bytes IN
  IF bytes = <<>>
  THEN Returns(IF data = <<>> THEN -1 ELSE Len(data), data) /\ last_ch' = NoByte
  ELSE IF bytes[1] \in Linefeeds
  THEN Returns(Len(data), data) /\ last_ch' = NoByte
  ELSE IF Len(line) >= limit
  THEN Returns(limit - 1, SubSeq(line, 1, limit - 1)) /\ last_ch' = line[limit]
  ELSE pc' = "begin" /\ data' = line /\ last_ch' = NoByte /\ UNCHANGED result

Obtained(bytes) ==
  LET text == data \o bytes IN
  IF op = "readline" THEN LineGets(bytes)
  ELSE /\ Returns(IF text = <<>> /\ ~opened THEN -1 ELSE Len(text), text)
       /\ last_ch' = NoByte

\* One part of serial_read got these bytes: done, or on to the next part
Part(bytes, next) ==
  IF Len(bytes) = required THEN Obtained(bytes)
  ELSE /\ pc' = next /\ data' = data \o bytes
       /\ last_ch' = NoByte /\ UNCHANGED result

(***************************************************************************)
(* The calls and the parts of serial_read.                                 *)
(***************************************************************************)
Starts(o, n) == /\ pc = "idle"
                /\ pc' = "begin" /\ op' = o /\ limit' = n
                /\ UNCHANGED <<platform, opened, ring, last_ch, tty, data, buffer, result, sent, opens>>

serial_readline(max) == Starts("readline", max)
serial_read(n)       == Starts("read", n)

\* The pushed back character, and whether the ring buffer has the rest
Begin ==
  LET got == IF last_ch = NoByte THEN <<>> ELSE <<last_ch>> IN
  /\ pc = "begin"
  /\ IF opened
     THEN Part(got, IF ring_size(ring) < required - Len(got) THEN "poll" ELSE "take")
     ELSE Obtained(got)
  /\ UNCHANGED <<platform, opened, ring, tty, call, buffer, sent, opens>>

\* internal_receive with no timeout: one select and read, as long as there is
\* something to read and the ring has room for it
Poll ==
  LET n == AtMost(Len(tty), ring_capacity - ring_size(ring) - Len(buffer)) IN
  /\ pc = "poll" /\ platform = "linux"
  /\ pc' = IF n = 0 THEN "take" ELSE "poll"
  /\ buffer' = buffer \o SubSeq(tty, 1, n)
  /\ tty' = SubSeq(tty, n + 1, Len(tty))
  /\ UNCHANGED <<platform, opened, ring, last_ch, call, data, result, sent, opens>>

\* On Windows one ReadFile, which gives what is there
WindowsPoll ==
  LET n == AtMost(Len(tty), ring_capacity - ring_size(ring)) IN
  /\ pc = "poll" /\ platform = "windows"
  /\ pc' = "take"
  /\ buffer' = SubSeq(tty, 1, n)
  /\ tty' = SubSeq(tty, n + 1, Len(tty))
  /\ UNCHANGED <<platform, opened, ring, last_ch, call, data, result, sent, opens>>

\* A wrong form of the next definition: what was polled goes straight to the caller
TakeAround ==
  LET bytes == SubSeq(buffer \o Popped(ring, required), 1,
                      AtMost(Len(buffer) + ring_size(ring), required)) IN
  /\ pc = "take"
  /\ ring' = Read(Written(ring, buffer), required)
  /\ buffer' = <<>>
  /\ Part(bytes, "block")
  /\ UNCHANGED <<platform, opened, tty, call, sent, opens>>

\* ring_write of what was polled, ring_read of what is asked for
Take ==
  LET filled == Written(ring, buffer) IN
  /\ pc = "take"
  /\ ring' = Read(filled, required)
  /\ buffer' = <<>>
  /\ Part(Popped(filled, required), "block")
  /\ UNCHANGED <<platform, opened, tty, call, sent, opens>>

\* internal_receive with the timeout, straight into the caller's buffer: one
\* select and read, until the buffer is full or the time is over
Block ==
  LET n == AtMost(Len(tty), required) IN
  /\ pc = "block" /\ platform = "linux"
  /\ tty' = SubSeq(tty, n + 1, Len(tty))
  /\ IF n = 0 THEN Obtained(<<>>) ELSE Part(SubSeq(tty, 1, n), "block")
  /\ UNCHANGED <<platform, opened, ring, call, buffer, sent, opens>>

\* On Windows one ReadFile, over when the buffer is full or the time is
WindowsBlock ==
  LET n == AtMost(Len(tty), required) IN
  /\ pc = "block" /\ platform = "windows"
  /\ tty' = SubSeq(tty, n + 1, Len(tty))
  /\ Obtained(SubSeq(tty, 1, n))
  /\ UNCHANGED <<platform, opened, ring, call, buffer, sent, opens>>

(***************************************************************************)
(* Opening, closing, the baud rate.                                        *)
(***************************************************************************)
Between == pc = "idle" /\ UNCHANGED <<platform, pc, call, data, buffer, sent>>

Counted == opens < MaxOpens /\ opens' = opens + 1

\* A wrong form of the next definition: the pushed back character stays
ClearKeepsLast == ring' = Cleared(ring) /\ tty' = <<>> /\ UNCHANGED last_ch

\* tcflush, ring_clear, has_last_ch = False
serial_clear == ring' = Cleared(ring) /\ tty' = <<>> /\ last_ch' = NoByte

\* The rate is in the list of the switch or not
serial_set_baudrate(known) ==
  /\ platform = "linux"
  /\ Between /\ opened /\ Counted
  /\ Result("set_baudrate", IF known THEN 0 ELSE -1, <<>>)
  /\ IF known THEN serial_clear ELSE UNCHANGED <<ring, last_ch, tty>>
  /\ UNCHANGED opened

\* On Windows any rate will do, and nothing is thrown away
WindowsSetBaudrate ==
  /\ platform = "windows"
  /\ Between /\ opened /\ Counted
  /\ Result("set_baudrate", 0, <<>>)
  /\ UNCHANGED <<opened, ring, last_ch, tty>>

\* The device is there or not, and the rate is known or not.  The terminal of
\* a port that was closed has kept nothing.
serial_open(there, known) ==
  /\ platform = "linux"
  /\ Between /\ ~opened /\ Counted
  /\ opened' = there
  /\ serial_clear
  /\ Result("open", IF there /\ known THEN 0 ELSE -1, <<>>)

\* On Windows serial_initialize empties the ring, serial_open forgets the character
WindowsOpen(there) ==
  /\ platform = "windows"
  /\ Between /\ ~opened /\ Counted
  /\ opened' = there
  /\ ring' = Cleared(ring) /\ last_ch' = NoByte /\ tty' = <<>>
  /\ Result("open", IF there THEN 0 ELSE -1, <<>>)

serial_close ==
  /\ Between /\ opened
  /\ opened' = FALSE /\ tty' = <<>>
  /\ Result("close", 0, <<>>)
  /\ UNCHANGED <<ring, last_ch, opens>>

\* The sensor and the terminal
Arrive(b) ==
  /\ opened /\ sent < MaxSent /\ sent' = sent + 1
  /\ tty' = Append(tty, b)
  /\ UNCHANGED <<platform, opened, ring, last_ch, pc, call, data, buffer, result, opens>>

\* serial_open has succeeded
Init ==
  /\ platform \in {"linux", "windows"}
  /\ opened = TRUE
  /\ ring \in Ring /\ ring = Cleared(ring)
  /\ last_ch = NoByte
  /\ tty = <<>> /\ sent = 0 /\ opens = 0
  /\ pc = "idle" /\ op = "none" /\ limit = 0 /\ data = <<>> /\ buffer = <<>>
  /\ result = [op |-> "none", code |-> 0, text |-> <<>>]

Port == Begin \/ Poll \/ WindowsPoll \/ Take \/ Block \/ WindowsBlock

Next == \/ \E max \in BufSizes : serial_readline(max)
        \/ \E n \in ReadSizes : serial_read(n)
        \/ Port
        \/ \E known \in BOOLEAN : serial_set_baudrate(known)
        \/ WindowsSetBaudrate
        \/ \E there, known \in BOOLEAN : serial_open(there, known)
        \/ \E there \in BOOLEAN : WindowsOpen(there)
        \/ serial_close
        \/ \E b \in Byte : Arrive(b)

Spec == Init /\ [][Next]_vars

(***************************************************************************)
(* Properties.                                                             *)
(***************************************************************************)
Results == [op : {"none", "readline", "read", "set_baudrate", "open", "close"},
            code : Int, text : Seq(Byte)]

\* The fields keep their types, a call never fills more than its buffer, and
\* serial_read never polls more than the ring can take.
TypeOK ==
  /\ platform \in {"linux", "windows"}
  /\ opened \in BOOLEAN /\ ring \in Ring /\ last_ch \in Byte \cup {NoByte}
  /\ tty \in Seq(Byte) /\ sent \in 0 .. MaxSent /\ opens \in 0 .. MaxOpens
  /\ pc \in {"idle", "begin", "poll", "take", "block"}
  /\ op \in {"none", "readline", "read"}
  /\ pc # "idle" => \/ op = "readline" /\ limit \in BufSizes
                    \/ op = "read" /\ limit \in ReadSizes
  /\ data \in Seq(Byte) /\ result \in Results
  /\ IF pc = "idle" THEN data = <<>> ELSE Len(data) < limit
  /\ buffer \in Seq(Byte) /\ Len(buffer) <= Free(ring)
  /\ buffer # <<>> => pc \in {"poll", "take"}

\* Bytes on their way to the reader, the oldest first.  Of a port that is closed
\* only the pushed back character can still be read.
PushedBack == IF last_ch = NoByte THEN <<>> ELSE <<last_ch>>
Unread     == IF opened THEN Contents(ring) \o buffer \o tty ELSE <<>>
InFlight   == data \o PushedBack \o Unread

\* Through the ring buffer, the local buffer, the terminal and the pushed back
\* character the reader gets the bytes of the sensor in their order, raw reads
\* included, and nothing that came before a new open or, on Linux, a new baud rate.
\* (A raw read of an open port that gets nothing gives 0, as the code does and
\* PortReader says; urg_connection.h:211 and 228 promise the timeout, -1.)
Reader == INSTANCE PortReader WITH pending <- InFlight, keeps <- (platform = "windows")
ReadsInOrder == Reader!PortSpec
=============================================================================
