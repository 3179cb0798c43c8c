----------------------------- MODULE LineReader -----------------------------
(***************************************************************************)
(* What a connection promises its reader (src/current/include/c/           *)
(* urg_connection.h): the bytes come in the order in which the sensor sent *)
(* them, none lost and none twice.  A read of a line gives the bytes up to *)
(* a line end, which it removes; or all but one place of the buffer, when  *)
(* no line end comes sooner; or, when the time is over, all that has come. *)
(***************************************************************************)
EXTENDS Integers, Sequences

CONSTANTS Byte, Linefeeds,
          BufSizes,    \* sizes of the buffers it reads lines into
          ReadSizes    \* numbers of bytes it asks for otherwise

VARIABLES pending,   \* sent by the sensor and not yet given to the reader
          result     \* what the last finished read gave

vars == <<pending, result>>

Arrive(b) == pending' = Append(pending, b) /\ UNCHANGED result

Gives(o, code, text, left) ==
  /\ result' = [op |-> o, code |-> code, text |-> text]
  /\ pending' = left

NoEnd(n) == \A i \in 1 .. n : pending[i] \notin Linefeeds

Front(n) == SubSeq(pending, 1, n)
Rest(n)  == SubSeq(pending, n + 1, Len(pending))

\* k bytes and a line end
Whole(max) ==
  \E k \in 0 .. max - 1 :
    /\ Len(pending) > k /\ NoEnd(k) /\ pending[k + 1] \in Linefeeds
    /\ Gives("readline", k, Front(k), Rest(k + 1))

\* max - 1 bytes of a longer line
Full(max) ==
  /\ Len(pending) >= max /\ NoEnd(max)
  /\ Gives("readline", max - 1, Front(max - 1), Rest(max - 1))

\* The time is over: -1 when nothing came
Partial(max) ==
  /\ Len(pending) < max /\ NoEnd(Len(pending))
  /\ Gives("readline", IF pending = <<>> THEN -1 ELSE Len(pending), pending, <<>>)

\* What has come of n bytes; that may be none, and then the code is 0, where the
\* header names the timeout's
Taken(n) ==
  \E k \in 0 .. n :
    /\ k <= Len(pending) /\ (k < n => k = Len(pending))
    /\ Gives("read", k, Front(k), Rest(k))

Init == pending = <<>> /\ result = [op |-> "none", code |-> 0, text |-> <<>>]

Reads == \/ \E max \in BufSizes : Whole(max) \/ Full(max) \/ Partial(max)
         \/ \E n \in ReadSizes : Taken(n)

Next == (\E b \in Byte : Arrive(b)) \/ Reads

Spec == Init /\ [][Next]_vars
=============================================================================
