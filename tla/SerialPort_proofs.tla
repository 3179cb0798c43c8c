------------------------- MODULE SerialPort_proofs -------------------------
(***************************************************************************)
(* serial_readline and serial_read give the bytes of the sensor in order,  *)
(* for every size of the ring buffer, of line buffers and of requests, on  *)
(* Linux and on Windows: the port is the abstract PortReader.  Raw reads   *)
(* may come anywhere, after a line that did not fit too: serial_read takes *)
(* the pushed back character first.                                        *)
(***************************************************************************)
EXTENDS SerialPort, RingBuffer_proofs

(***************************************************************************)
(* The invariant: what is in the line buffer holds no line end; a          *)
(* character is pushed back only until the next part of serial_read is     *)
(* over; the terminal is read straight into the caller's buffer only when  *)
(* the ring is empty; a port that is closed polls nothing; and on Windows  *)
(* the one ReadFile of the poll finds the local buffer empty.              *)
(***************************************************************************)
LineSound == /\ op = "readline" => \A i \in 1 .. Len(data) : data[i] \notin Linefeeds
             /\ last_ch \notin Linefeeds
             /\ data # <<>> => last_ch = NoByte

PartSound == /\ pc \in {"poll", "take", "block"} => opened /\ last_ch = NoByte
             /\ pc = "block" => Contents(ring) = <<>>
             /\ platform = "windows" /\ pc = "poll" => buffer = <<>>

Inv == TypeOK /\ LineSound /\ PartSound

\* The part of it that the loop of serial_readline writes.
LineOK == /\ data \in Seq(Byte) /\ last_ch \in Byte \cup {NoByte}
          /\ result \in Results
          /\ IF pc = "idle" THEN data = <<>> ELSE Len(data) < limit
          /\ \A i \in 1 .. Len(data) : data[i] \notin Linefeeds
          /\ last_ch \notin Linefeeds
          /\ data # <<>> => last_ch = NoByte

\* What a step of a read may show of the abstract port.
ReadShows == \/ InFlight' = InFlight /\ result' = result
             \/ Reader!Reads /\ (opened \/ result'.code # 0)
             \/ ~opened /\ InFlight = <<>> /\ Reader!Gives("read", -1, <<>>, <<>>)

\* A step of the abstract port, or one that shows nothing.
PortStep == [Reader!PortNext]_<<<<InFlight, result>>, opened, platform = "windows">>

\* Bytes that are in the line buffer, or taken off first, come before the others.
LEMMA Regroup ==
  ASSUME NEW S, NEW a \in Seq(S), NEW b \in Seq(S), NEW c \in Seq(S)
  PROVE  /\ a \o b \in Seq(S) /\ b \o c \in Seq(S)
         /\ (a \o b) \o c = a \o (b \o c) /\ (a \o b) \o c \in Seq(S)
         /\ a \o <<>> = a /\ <<>> \o a = a
BY ConcatAssociative, ConcatProperties, ConcatEmptySeq

\* The border between two parts moved over what lies between.
LEMMA MoveBorder ==
  ASSUME NEW S
  PROVE  \A a, b, c, d \in Seq(S) : (a \o (b \o c)) \o d = (a \o b) \o (c \o d)
<1>1. \A s, t, u \in Seq(S) : (s \o t) \o u = s \o (t \o u) BY ConcatAssociative
<1> TAKE a, b, c, d \in Seq(S)
<1>2. a \o b \in Seq(S) BY ConcatProperties
<1>3. (a \o b) \o c = a \o (b \o c) BY ONLY <1>1, Zenon
<1>4. ((a \o b) \o c) \o d = (a \o b) \o (c \o d) BY ONLY <1>1, <1>2, Zenon
<1> QED BY ONLY <1>3, <1>4, Zenon

\* What is on its way, in the three forms the steps need.
LEMMA FlightForms ==
  ASSUME Inv
  PROVE  /\ PushedBack \in Seq(Byte) /\ Unread \in Seq(Byte) /\ InFlight \in Seq(Byte)
         /\ InFlight = data \o (PushedBack \o Unread)
         /\ last_ch = NoByte => InFlight = data \o Unread
         /\ data = <<>> => InFlight = PushedBack \o Unread
         /\ ~opened => Unread = <<>>
<1>1. /\ ring \in Ring /\ buffer \in Seq(Byte) /\ tty \in Seq(Byte) /\ data \in Seq(Byte)
      /\ PushedBack \in Seq(Byte)
  BY DEF Inv, TypeOK, PushedBack
<1>2. Unread \in Seq(Byte)
  <2>1. Contents(ring) \in Seq(Byte) BY <1>1, ContentsType
  <2>2. (Contents(ring) \o buffer) \o tty \in Seq(Byte) BY ONLY <1>1, <2>1, Regroup
  <2> QED BY <2>2 DEF Unread
<1>3. /\ InFlight \in Seq(Byte) /\ InFlight = data \o (PushedBack \o Unread)
  BY <1>1, <1>2, Regroup DEF InFlight
<1>4. last_ch = NoByte => InFlight = data \o Unread
  BY <1>1, <1>2, <1>3, Regroup DEF PushedBack
<1>5. data = <<>> => InFlight = PushedBack \o Unread
  <2>1. PushedBack \o Unread \in Seq(Byte) BY <1>1, <1>2, Regroup
  <2> QED BY <1>3, <2>1, Regroup
<1> QED BY <1>1, <1>2, <1>3, <1>4, <1>5 DEF Unread

\* One turn of the loop of serial_readline, given the next byte, or none when
\* there is none: the line goes on, or the reader gets what it is promised.
LEMMA LineStep ==
  ASSUME data \in Seq(Byte), limit \in BufSizes, Len(data) < limit,
         \A i \in 1 .. Len(data) : data[i] \notin Linefeeds,
         op = "readline", limit' = limit,
         NEW bytes \in Seq(Byte), Len(bytes) <= 1,
         NEW rest \in Seq(Byte), bytes = <<>> => rest = <<>>,
         opened \/ bytes = <<>> \/ bytes[1] \notin Linefeeds,
         InFlight = data \o (bytes \o rest), Unread' = rest,
         result \in Results, LineGets(bytes)
  PROVE  LineOK' /\ pc' \in {"idle", "begin"} /\ ReadShows
<1> DEFINE line == data \o bytes
           k == Len(data)
<1>1. limit \in Nat /\ limit > 1 /\ k \in Nat /\ k < limit BY CallAssumption
<1>2. NoByte \notin Byte /\ Linefeeds \subseteq Byte /\ NoByte \notin Linefeeds
  BY ByteAssumption
<1>3. <<>> \o <<>> = <<>> /\ <<>> \o rest = rest /\ <<>> \o (<<>> \o rest) = rest
  BY ConcatEmptySeq
<1>4. line \in Seq(Byte) /\ InFlight = line \o rest /\ InFlight \in Seq(Byte)
  <2>1. data \in Seq(Byte) /\ bytes \in Seq(Byte) /\ rest \in Seq(Byte) OBVIOUS
  <2>2. /\ data \o bytes \in Seq(Byte) /\ (data \o bytes) \o rest \in Seq(Byte)
        /\ (data \o bytes) \o rest = data \o (bytes \o rest)
    BY ONLY <2>1, Regroup
  <2> QED BY <2>2
<1>5. /\ Len(line) = k + Len(bytes)
      /\ \A i \in 1 .. k + Len(bytes) : line[i] = IF i <= k THEN data[i] ELSE bytes[i - k]
  BY ConcatProperties
<1>6. CASE bytes = <<>>
  <2>1. InFlight = data
    BY <1>6, ConcatEmptySeq
  <2>2. /\ pc' = "idle" /\ data' = <<>> /\ last_ch' = NoByte
        /\ result' = [op |-> "readline", code |-> IF data = <<>> THEN -1 ELSE k,
                      text |-> data]
    BY <1>6 DEF LineGets, Returns, Result
  <2>3. InFlight' = <<>>
    BY <1>3, <1>6, <2>2 DEF InFlight, PushedBack
  <2>4. LineOK'
    <3>1. result' \in Results
      <4>1. (IF data = <<>> THEN -1 ELSE k) \in Int BY <1>1
      <4> QED BY <2>2, <4>1 DEF Results
    <3> QED BY <1>2, <2>2, <3>1 DEF LineOK
  <2>5. Reader!Partial(limit)
    <3>1. Len(InFlight) < limit /\ Reader!NoEnd(Len(InFlight))
      BY <1>1, <2>1 DEF Reader!NoEnd
    <3>2. Reader!Gives("readline", IF InFlight = <<>> THEN -1 ELSE Len(InFlight), InFlight, <<>>)
      BY <2>1, <2>2, <2>3 DEF Reader!Gives
    <3> QED BY <3>1, <3>2 DEF Reader!Partial
  <2>6. result'.code # 0
    <3>1. data # <<>> => k # 0 BY EmptySeq
    <3> QED BY <2>2, <3>1
  <2> QED BY <2>2, <2>4, <2>5, <2>6 DEF Reader!Reads, ReadShows
<1>7. CASE bytes # <<>>
  <2>1. Len(bytes) = 1 /\ bytes[1] \in Byte
    BY <1>7, OneByte
  <2>2. Len(line) = k + 1 /\ line[k + 1] = bytes[1] /\ (\A i \in 1 .. k : line[i] = data[i])
    BY <1>1, <1>5, <2>1
  <2>3. /\ Len(InFlight) = Len(line) + Len(rest)
        /\ \A i \in 1 .. Len(line) : InFlight[i] = line[i]
    BY <1>4, ConcatProperties
  <2>4. /\ SubSeq(InFlight, 1, k + 1) = line
        /\ SubSeq(InFlight, k + 2, Len(InFlight)) = rest
    <3>1. SubSeq(line \o rest, 1, Len(line)) = line
          /\ SubSeq(line \o rest, Len(line) + 1, Len(line \o rest)) = rest
      BY <1>4, CutWhole
    <3>2. Len(line) = k + 1 /\ Len(line) + 1 = k + 2 BY <1>1, <2>2
    <3> HIDE DEF line, k
    <3> QED BY <1>4, <3>1, <3>2
  <2>5. /\ SubSeq(InFlight, 1, k) = data
        /\ SubSeq(InFlight, k + 1, Len(InFlight)) = bytes \o rest
    BY CutWhole, ConcatProperties
  <2> HIDE DEF line, k
  <2>6. CASE bytes[1] \in Linefeeds
    <3>1. /\ pc' = "idle" /\ data' = <<>> /\ last_ch' = NoByte
          /\ result' = [op |-> "readline", code |-> k, text |-> data]
      BY <1>7, <2>6 DEF LineGets, Returns, Result, k
    <3>2. InFlight' = rest
      BY <1>3, <3>1 DEF InFlight, PushedBack
    <3>3. LineOK' BY <1>1, <1>2, <3>1 DEF LineOK, Results
    <3>4. Reader!Whole(limit)
      <4>1. k \in 0 .. limit - 1 /\ Len(InFlight) > k BY <1>1, <2>2, <2>3
      <4>2. Reader!NoEnd(k) /\ InFlight[k + 1] \in Linefeeds
        <5>1. k + 1 \in 1 .. Len(line) /\ \A i \in 1 .. k : i \in 1 .. Len(line)
          BY <1>1, <2>2
        <5>2. InFlight[k + 1] = bytes[1] BY <2>2, <2>3, <5>1
        <5>3. \A i \in 1 .. k : InFlight[i] = data[i] BY <2>2, <2>3, <5>1
        <5> QED BY <2>6, <5>2, <5>3 DEF Reader!NoEnd, k
      <4>3. k + 1 + 1 = k + 2 BY <1>1
      <4>4. Reader!Gives("readline", k, Reader!Front(k), Reader!Rest(k + 1))
        BY <2>4, <2>5, <3>1, <3>2, <4>3 DEF Reader!Gives, Reader!Front, Reader!Rest
      <4> QED BY <4>1, <4>2, <4>4 DEF Reader!Whole
    <3>5. opened BY <1>7, <2>6
    <3> QED BY <3>1, <3>3, <3>4, <3>5 DEF Reader!Reads, ReadShows
  <2>7. CASE bytes[1] \notin Linefeeds /\ Len(line) >= limit
    <3>1. limit = k + 1 BY <1>1, <2>2, <2>7
    <3>2. /\ pc' = "idle" /\ data' = <<>> /\ last_ch' = bytes[1]
          /\ result' = [op |-> "readline", code |-> k, text |-> SubSeq(line, 1, k)]
      <4>1. limit - 1 = k BY <1>1, <3>1
      <4> QED BY <1>7, <2>2, <2>7, <3>1, <4>1 DEF LineGets, Returns, Result, line
    <3>3. SubSeq(line, 1, k) = data BY CutWhole DEF line, k
    <3>4. bytes = <<bytes[1]>> BY <2>1
    <3>5. InFlight' = bytes \o rest
      <4>1. PushedBack' = bytes BY <1>2, <2>1, <3>2, <3>4 DEF PushedBack
      <4>2. <<>> \o bytes = bytes BY ConcatEmptySeq
      <4> QED BY <3>2, <4>1, <4>2 DEF InFlight
    <3>6. LineOK' BY <1>1, <1>2, <2>1, <2>7, <3>2, <3>3 DEF LineOK, Results
    <3>7. Reader!Full(limit)
      <4>1. Len(rest) \in Nat OBVIOUS
      <4>2. Len(InFlight) >= limit BY <1>1, <2>2, <2>3, <3>1, <4>1
      <4>3. Reader!NoEnd(limit)
        <5>1. \A i \in 1 .. k : InFlight[i] \notin Linefeeds BY <1>1, <2>2, <2>3 DEF k
        <5>2. InFlight[k + 1] \notin Linefeeds BY <1>1, <2>2, <2>3, <2>7
        <5>3. \A i \in 1 .. limit : i \in 1 .. k \/ i = k + 1 BY <1>1, <3>1
        <5> QED BY <5>1, <5>2, <5>3 DEF Reader!NoEnd
      <4>4. Reader!Gives("readline", limit - 1, Reader!Front(limit - 1), Reader!Rest(limit - 1))
        <5>1. limit - 1 = k BY <1>1, <3>1
        <5> QED BY <2>5, <3>2, <3>3, <3>5, <5>1 DEF Reader!Gives, Reader!Front, Reader!Rest
      <4> QED BY <4>2, <4>3, <4>4 DEF Reader!Full
    <3>8. result'.code # 0 BY <1>1, <3>1, <3>2
    <3> QED BY <3>2, <3>6, <3>7, <3>8 DEF Reader!Reads, ReadShows
  <2>8. CASE bytes[1] \notin Linefeeds /\ ~(Len(line) >= limit)
    <3>1. pc' = "begin" /\ data' = line /\ last_ch' = NoByte /\ result' = result
      BY <1>7, <2>8 DEF LineGets, line
    <3>2. InFlight' = InFlight
      BY <1>4, <3>1, ConcatEmptySeq DEF InFlight, PushedBack
    <3>3. \A i \in 1 .. Len(line) : line[i] \notin Linefeeds
      <4>1. \A i \in 1 .. k : line[i] \notin Linefeeds BY <2>2 DEF k
      <4>2. line[k + 1] \notin Linefeeds BY <2>2, <2>8
      <4>3. \A i \in 1 .. Len(line) : i \in 1 .. k \/ i = k + 1 BY <1>1, <2>2
      <4> QED BY <4>1, <4>2, <4>3
    <3>4. Len(line) < limit' BY <1>1, <2>2, <2>8
    <3>5. LineOK' BY <1>2, <1>4, <3>1, <3>3, <3>4 DEF LineOK
    <3> QED BY <3>1, <3>2, <3>5 DEF ReadShows
  <2> QED BY <2>6, <2>7, <2>8
<1> QED BY <1>6, <1>7

\* A raw read that is over gave what it was asked for, or all there was.
LEMMA RawOver ==
  ASSUME data \in Seq(Byte), limit \in ReadSizes, op = "read", result \in Results,
         NEW bytes \in Seq(Byte), NEW rest \in Seq(Byte),
         Len(data) + Len(bytes) <= limit,
         Len(data) + Len(bytes) < limit => rest = <<>>,
         InFlight = data \o (bytes \o rest), Unread' = rest, Obtained(bytes)
  PROVE  /\ pc' = "idle" /\ data' = <<>> /\ last_ch' = NoByte /\ result' \in Results
         /\ ReadShows
<1> DEFINE text == data \o bytes
           k == Len(text)
<1>1. text \in Seq(Byte) /\ k = Len(data) + Len(bytes) /\ k \in Nat
  BY ConcatProperties
<1>2. InFlight = text \o rest
  <2>1. data \in Seq(Byte) /\ bytes \in Seq(Byte) /\ rest \in Seq(Byte) OBVIOUS
  <2>2. data \o (bytes \o rest) = (data \o bytes) \o rest BY ONLY <2>1, Regroup
  <2> QED BY <2>2
<1>3. /\ pc' = "idle" /\ data' = <<>> /\ last_ch' = NoByte
      /\ result' = [op |-> "read", code |-> IF text = <<>> /\ ~opened THEN -1 ELSE k,
                    text |-> text]
  BY DEF Obtained, Returns, Result
<1>4. InFlight' = rest
  <2>1. <<>> \o <<>> = <<>> /\ <<>> \o rest = rest BY ConcatEmptySeq
  <2> QED BY <1>3, <2>1 DEF InFlight, PushedBack
<1>5. limit \in Nat /\ limit > 0 /\ Len(rest) \in Nat BY CallAssumption
<1>6. CASE text = <<>> /\ ~opened
  <2>1. k = 0 /\ rest = <<>> BY <1>1, <1>5, <1>6
  <2>2. InFlight = <<>> BY <1>2, <1>6, <2>1, ConcatEmptySeq
  <2>3. Reader!Gives("read", -1, <<>>, <<>>) BY <1>3, <1>4, <1>6, <2>1 DEF Reader!Gives
  <2>4. result' \in Results BY <1>1, <1>3, <1>6 DEF Results
  <2> QED BY <1>3, <1>6, <2>2, <2>3, <2>4 DEF ReadShows
<1>7. CASE ~(text = <<>> /\ ~opened)
  <2> HIDE DEF text
  <2>1. /\ SubSeq(InFlight, 1, k) = text
        /\ SubSeq(InFlight, k + 1, Len(InFlight)) = rest
    BY <1>1, <1>2, CutWhole
  <2>2. Len(InFlight) = k + Len(rest) BY <1>1, <1>2, ConcatProperties
  <2>3. k = 0 => text = <<>> BY <1>1, EmptySeq
  <2> HIDE DEF k
  <2>4. k \in 0 .. limit /\ k <= Len(InFlight) BY <1>1, <1>5, <2>2
  <2>5. k < limit => k = Len(InFlight)
    <3> SUFFICES ASSUME k < limit PROVE k = Len(InFlight) OBVIOUS
    <3>1. Len(rest) = 0 BY <1>1
    <3> QED BY <1>1, <2>2, <3>1
  <2>6. Reader!Gives("read", k, Reader!Front(k), Reader!Rest(k))
    BY <1>3, <1>4, <1>7, <2>1 DEF Reader!Gives, Reader!Front, Reader!Rest
  <2>7. Reader!Taken(limit) BY <2>4, <2>5, <2>6 DEF Reader!Taken
  <2>8. result' \in Results BY <1>1, <1>3, <1>7 DEF Results
  <2>9. opened \/ result'.code # 0 BY <1>3, <1>7, <2>3
  <2> QED BY <1>3, <2>7, <2>8, <2>9 DEF Reader!Reads, ReadShows
<1> QED BY <1>6, <1>7

(***************************************************************************)
(* The steps of a read.                                                    *)
(***************************************************************************)
\* What such a step shows is a step of the abstract port, which stays open or closed.
LEMMA ShownStep ==
  ASSUME ReadShows, UNCHANGED <<platform, opened>>
  PROVE  PortStep
BY DEF ReadShows, PortStep, Reader!PortNext, Reader!Read, Reader!ReadOfClosed

\* A call that is running has room left for what it asks serial_read.
LEMMA Running ==
  ASSUME Inv, pc # "idle"
  PROVE  /\ data \in Seq(Byte) /\ Len(data) \in Nat /\ limit \in Nat
         /\ Len(data) < limit /\ required \in Nat \ {0} /\ result \in Results
         /\ \/ op = "readline" /\ limit \in BufSizes /\ required = 1
            \/ op = "read" /\ limit \in ReadSizes /\ required = limit - Len(data)
<1>1. /\ data \in Seq(Byte) /\ Len(data) \in Nat /\ result \in Results
      /\ Len(data) < limit
      /\ \/ op = "readline" /\ limit \in BufSizes
         \/ op = "read" /\ limit \in ReadSizes
  BY DEF Inv, TypeOK
<1>2. limit \in Nat BY <1>1, CallAssumption
<1> QED BY <1>1, <1>2 DEF required

\* What a step of a read leaves alone, and what it leaves in the ring and the
\* local buffer.
ReadFrame == /\ UNCHANGED <<platform, opened, call, sent, opens>>
             /\ ring' \in Ring /\ tty' \in Seq(Byte) /\ buffer' = <<>>

\* A serial_read that is over, and gave the callers these bytes.
LEMMA OverStep ==
  ASSUME Inv, pc # "idle", ReadFrame,
         NEW bytes \in Seq(Byte), Len(bytes) <= required,
         NEW rest \in Seq(Byte), Len(bytes) < required => rest = <<>>,
         opened \/ bytes = <<>> \/ bytes[1] \notin Linefeeds,
         InFlight = data \o (bytes \o rest), Unread' = rest, Obtained(bytes)
  PROVE  Inv' /\ PortStep
<1>1. /\ data \in Seq(Byte) /\ Len(data) \in Nat /\ limit \in Nat
      /\ Len(data) < limit /\ required \in Nat \ {0} /\ result \in Results
      /\ \/ op = "readline" /\ limit \in BufSizes /\ required = 1
         \/ op = "read" /\ limit \in ReadSizes /\ required = limit - Len(data)
  BY Running
<1>2. /\ op' = op /\ limit' = limit /\ UNCHANGED <<platform, opened, sent, opens>>
      /\ ring' \in Ring /\ tty' \in Seq(Byte) /\ buffer' = <<>> /\ Len(bytes) \in Nat
  BY DEF ReadFrame, call
<1>3. Len(buffer') <= Free(ring')
  <2> DEFINE r == ring'
  <2>1. r \in Ring BY <1>2
  <2> HIDE DEF r
  <2>2. Free(r) \in 0 .. Size - 1 BY <2>1, SizeBounds
  <2>3. 0 <= Free(r) BY <2>2, SizeAssumption
  <2> QED BY <1>2, <2>3 DEF r
<1>4. CASE op = "readline"
  <2>1. limit \in BufSizes /\ required = 1 BY <1>1, <1>4
  <2>2. Len(bytes) <= 1 BY <2>1
  <2>3. bytes = <<>> => rest = <<>> BY <2>1
  <2>4. \A i \in 1 .. Len(data) : data[i] \notin Linefeeds BY <1>4 DEF Inv, LineSound
  <2>5. LineGets(bytes) BY <1>4 DEF Obtained
  <2>6. LineOK' /\ pc' \in {"idle", "begin"} /\ ReadShows
    BY <1>1, <1>2, <1>4, <2>1, <2>2, <2>3, <2>4, <2>5, LineStep
  <2>7. Inv'
    BY <1>2, <1>3, <1>4, <2>1, <2>6 DEF Inv, TypeOK, LineSound, PartSound, LineOK
  <2> QED BY <1>2, <2>6, <2>7, ShownStep
<1>5. CASE op = "read"
  <2>1. limit \in ReadSizes /\ required = limit - Len(data) BY <1>1, <1>5
  <2>2. Len(data) + Len(bytes) <= limit BY <1>1, <1>2, <2>1
  <2>3. Len(data) + Len(bytes) < limit => rest = <<>> BY <1>1, <1>2, <2>1
  <2>4. /\ pc' = "idle" /\ data' = <<>> /\ last_ch' = NoByte /\ result' \in Results
        /\ ReadShows
    BY <1>1, <1>5, <2>1, <2>2, <2>3, RawOver
  <2>5. Inv' BY <1>2, <1>3, <2>4, ByteAssumption DEF Inv, TypeOK, LineSound, PartSound
  <2> QED BY <1>2, <2>4, <2>5, ShownStep
<1> QED BY <1>1, <1>4, <1>5

\* A part of serial_read that took some of the bytes it wants off what is to come.
LEMMA PartStep ==
  ASSUME Inv, pc # "idle", opened, ReadFrame,
         NEW bytes \in Seq(Byte), Len(bytes) <= required,
         NEW next \in {"poll", "take", "block"}, NEW rest \in Seq(Byte),
         InFlight = data \o (bytes \o rest), Unread' = rest,
         next = "block" /\ Len(bytes) < required => Contents(ring') = <<>>,
         Part(bytes, next)
  PROVE  Inv' /\ PortStep
<1>1. /\ data \in Seq(Byte) /\ Len(data) \in Nat /\ limit \in Nat
      /\ Len(data) < limit /\ required \in Nat \ {0} /\ result \in Results
      /\ \/ op = "readline" /\ limit \in BufSizes /\ required = 1
         \/ op = "read" /\ limit \in ReadSizes /\ required = limit - Len(data)
  BY Running
<1>2. Len(bytes) \in Nat OBVIOUS
<1>3. CASE Len(bytes) = required
  <2>1. Obtained(bytes) BY <1>3 DEF Part
  <2>2. ~(Len(bytes) < required) BY <1>1, <1>3
  <2> QED BY <1>1, <1>3, <2>1, <2>2, OverStep
<1>4. CASE Len(bytes) # required
  <2> DEFINE text == data \o bytes
  <2>1. Len(bytes) < required BY <1>1, <1>2, <1>4
  <2>2. pc' = next /\ data' = text /\ last_ch' = NoByte /\ result' = result
    BY <1>4 DEF Part
  <2>3. text \in Seq(Byte) /\ Len(text) = Len(data) + Len(bytes)
    BY <1>1, ConcatProperties
  <2>4. op = "readline" => text = data
    <3> SUFFICES ASSUME op = "readline" PROVE text = data OBVIOUS
    <3>1. Len(bytes) = 0 BY <1>1, <1>2, <2>1
    <3>2. bytes = <<>> BY <3>1, EmptySeq
    <3> QED BY <1>1, <3>2, ConcatEmptySeq
  <2>5. Len(text) < limit
    <3>1. CASE op = "readline" BY <1>1, <2>4, <3>1
    <3>2. CASE op = "read" BY <1>1, <1>2, <2>1, <2>3, <3>2
    <3> QED BY <1>1, <3>1, <3>2
  <2>6. InFlight' = InFlight
    <3>1. data \in Seq(Byte) /\ bytes \in Seq(Byte) /\ rest \in Seq(Byte) BY <1>1
    <3>2. /\ data \o (bytes \o rest) = (data \o bytes) \o rest
          /\ (data \o bytes) \o <<>> = data \o bytes
      <4>1. data \o bytes \in Seq(Byte) BY <2>3
      <4> QED BY ONLY <3>1, <4>1, Regroup
    <3> QED BY <2>2, <3>2 DEF InFlight, PushedBack
  <2> HIDE DEF text
  <2>7. Inv'
    <3>1. /\ op' = op /\ limit' = limit /\ UNCHANGED <<platform, opened, sent, opens>>
          /\ ring' \in Ring /\ tty' \in Seq(Byte) /\ buffer' = <<>>
      BY DEF ReadFrame, call
    <3>2. Len(buffer') <= Free(ring')
      <4> DEFINE r == ring'
      <4>1. r \in Ring BY <3>1
      <4> HIDE DEF r
      <4>2. Free(r) \in 0 .. Size - 1 BY <4>1, SizeBounds
      <4>3. 0 <= Free(r) BY <4>2, SizeAssumption
      <4> QED BY <3>1, <4>3 DEF r
    <3>3. TypeOK'
      BY <1>1, <2>2, <2>3, <2>5, <3>1, <3>2 DEF Inv, TypeOK
    <3>4. LineSound'
      BY <2>2, <2>4, <3>1, ByteAssumption DEF Inv, LineSound
    <3>5. PartSound' BY <2>1, <2>2, <3>1 DEF PartSound
    <3> QED BY <3>3, <3>4, <3>5 DEF Inv
  <2> QED BY <2>2, <2>6, <2>7, ShownStep DEF ReadShows, ReadFrame
<1> QED BY <1>3, <1>4

\* A read that begins shows nothing.
LEMMA StartStep ==
  ASSUME Inv, NEW o \in {"readline", "read"},
         NEW n \in IF o = "readline" THEN BufSizes ELSE ReadSizes, Starts(o, n)
  PROVE  Inv' /\ PortStep
<1>1. n \in Nat /\ n > 0 BY CallAssumption
<1>2. /\ data = <<>> /\ pc' = "begin" /\ op' = o /\ limit' = n
      /\ UNCHANGED <<platform, opened, ring, last_ch, tty, data, buffer, result, sent, opens>>
  BY DEF Starts, Inv, TypeOK
<1>3. Len(data') < n BY <1>1, <1>2
<1>4. InFlight' = InFlight BY <1>2 DEF InFlight, PushedBack, Unread
<1>5. Inv'
  <2>1. TypeOK' BY <1>2, <1>3 DEF Inv, TypeOK, Starts
  <2>2. LineSound' /\ PartSound' BY <1>2 DEF Inv, LineSound, PartSound
  <2> QED BY <2>1, <2>2 DEF Inv
<1> QED BY <1>2, <1>4, <1>5 DEF PortStep

\* The pushed back character is the first of what a read gets.
LEMMA BeginStep ==
  ASSUME Inv, Begin
  PROVE  Inv' /\ PortStep
<1> DEFINE got == IF last_ch = NoByte THEN <<>> ELSE <<last_ch>>
           next == IF ring_size(ring) < required - Len(got) THEN "poll" ELSE "take"
<1>1. /\ pc # "idle" /\ pc = "begin" /\ got = PushedBack
      /\ UNCHANGED <<platform, opened, ring, tty, call, buffer, sent, opens>>
      /\ IF opened THEN Part(got, next) ELSE Obtained(got)
  BY DEF Begin, PushedBack
<1>2. /\ got \in Seq(Byte) /\ Unread \in Seq(Byte)
      /\ ~opened => Unread = <<>>
      /\ InFlight = data \o (got \o Unread)
  BY <1>1, FlightForms
<1>3. required \in Nat \ {0} BY <1>1, Running
<1>4. Len(got) <= required
  <2>1. Len(got) <= 1 OBVIOUS
  <2> HIDE DEF got
  <2> QED BY <1>2, <1>3, <2>1
<1>5. got = <<>> \/ got[1] \notin Linefeeds BY DEF Inv, LineSound
<1>6. ReadFrame
  <2>1. ring \in Ring /\ tty \in Seq(Byte) /\ buffer = <<>> BY <1>1 DEF Inv, TypeOK
  <2> QED BY <1>1, <2>1 DEF ReadFrame
<1>7. Unread' = Unread BY <1>1 DEF Unread
<1>8. next \in {"poll", "take", "block"} /\ next # "block" OBVIOUS
<1> HIDE DEF got, next
<1>9. CASE opened
  <2>1. Part(got, next) BY <1>1, <1>9
  <2> QED BY <1>1, <1>2, <1>4, <1>6, <1>7, <1>8, <1>9, <2>1, PartStep
<1>10. CASE ~opened
  <2>1. Obtained(got) /\ Unread = <<>> BY <1>1, <1>2, <1>10
  <2> QED BY <1>1, <1>2, <1>4, <1>5, <1>6, <1>7, <2>1, OverStep
<1> QED BY <1>9, <1>10

\* What is polled waits in the local buffer, behind the ring and before the terminal.
LEMMA PolledStep ==
  ASSUME Inv, pc = "poll", NEW n \in 0 .. Len(tty), Len(buffer) + n <= Free(ring),
         pc' \in {"poll", "take"}, platform = "windows" => pc' = "take",
         buffer' = buffer \o SubSeq(tty, 1, n), tty' = SubSeq(tty, n + 1, Len(tty)),
         UNCHANGED <<platform, opened, ring, last_ch, call, data, result, sent, opens>>
  PROVE  Inv' /\ PortStep
<1>1. /\ ring \in Ring /\ buffer \in Seq(Byte) /\ tty \in Seq(Byte) /\ data \in Seq(Byte)
      /\ opened /\ last_ch = NoByte
  BY DEF Inv, TypeOK, PartSound
<1> DEFINE came == SubSeq(tty, 1, n)
           left == SubSeq(tty, n + 1, Len(tty))
<1>2. /\ came \in Seq(Byte) /\ left \in Seq(Byte) /\ Len(came) = n /\ came \o left = tty
  BY <1>1, CutJoin
<1>3. buffer' = buffer \o came /\ tty' = left OBVIOUS
<1> HIDE DEF came, left
<1>4. /\ buffer \o came \in Seq(Byte) /\ Len(buffer \o came) = Len(buffer) + n
  BY <1>1, <1>2, ConcatProperties
<1>5. Unread' = Unread
  <2> DEFINE c == Contents(ring)
  <2>1. c \in Seq(Byte) BY <1>1, ContentsType
  <2>2. Unread = (c \o buffer) \o (came \o left) BY <1>1, <1>2 DEF Unread
  <2>3. Unread' = (c \o (buffer \o came)) \o left BY <1>1, <1>3 DEF Unread
  <2> HIDE DEF c
  <2>4. buffer \in Seq(Byte) /\ came \in Seq(Byte) /\ left \in Seq(Byte) BY <1>1, <1>2
  <2>5. \A p, q, r, s \in Seq(Byte) : (p \o (q \o r)) \o s = (p \o q) \o (r \o s)
    BY ONLY MoveBorder, SMTT(30)
  <2>6. (c \o (buffer \o came)) \o left = (c \o buffer) \o (came \o left)
    BY ONLY <2>1, <2>4, <2>5, SMTT(30)
  <2> QED BY <2>2, <2>3, <2>6
<1>6. InFlight' = InFlight BY <1>5 DEF InFlight, PushedBack
<1>7. Inv'
  <2>1. TypeOK' BY <1>2, <1>3, <1>4 DEF Inv, TypeOK, call, Free, ring_size, ring_capacity
  <2>2. LineSound' /\ PartSound' BY <1>1 DEF Inv, LineSound, PartSound, call
  <2> QED BY <2>1, <2>2 DEF Inv
<1> QED BY <1>6, <1>7 DEF PortStep

\* One select and read on Linux.
LEMMA PollStep ==
  ASSUME Inv, Poll
  PROVE  Inv' /\ PortStep
<1> DEFINE n == AtMost(Len(tty), ring_capacity - ring_size(ring) - Len(buffer))
<1>1. /\ pc = "poll" /\ platform # "windows" /\ pc' \in {"poll", "take"}
      /\ buffer' = buffer \o SubSeq(tty, 1, n) /\ tty' = SubSeq(tty, n + 1, Len(tty))
      /\ UNCHANGED <<platform, opened, ring, last_ch, call, data, result, sent, opens>>
  BY DEF Poll
<1>2. /\ ring \in Ring /\ Len(buffer) \in Nat /\ Len(tty) \in Nat
      /\ Len(buffer) <= Free(ring)
  BY DEF Inv, TypeOK
<1>3. Free(ring) \in Nat /\ Free(ring) = ring_capacity - ring_size(ring)
  BY <1>2, SizeBounds, SizeAssumption DEF Free
<1>4. n \in 0 .. Len(tty) /\ Len(buffer) + n <= Free(ring)
  <2>1. n = AtMost(Len(tty), Free(ring) - Len(buffer)) BY <1>3
  <2> QED BY <1>2, <1>3, <2>1 DEF AtMost
<1> HIDE DEF n
<1> QED BY <1>1, <1>4, PolledStep

\* The one ReadFile of the poll on Windows.
LEMMA WindowsPollStep ==
  ASSUME Inv, WindowsPoll
  PROVE  Inv' /\ PortStep
<1> DEFINE n == AtMost(Len(tty), ring_capacity - ring_size(ring))
<1>1. /\ pc = "poll" /\ pc' = "take"
      /\ buffer' = SubSeq(tty, 1, n) /\ tty' = SubSeq(tty, n + 1, Len(tty))
      /\ UNCHANGED <<platform, opened, ring, last_ch, call, data, result, sent, opens>>
      /\ buffer = <<>>
  BY DEF WindowsPoll, Inv, PartSound
<1>2. ring \in Ring /\ tty \in Seq(Byte) /\ Len(tty) \in Nat BY DEF Inv, TypeOK
<1>3. Free(ring) \in Nat /\ Free(ring) = ring_capacity - ring_size(ring)
  BY <1>2, SizeBounds, SizeAssumption DEF Free
<1>4. n \in 0 .. Len(tty) /\ n <= Free(ring)
  <2>1. n = AtMost(Len(tty), Free(ring)) BY <1>3
  <2> QED BY <1>2, <1>3, <2>1 DEF AtMost
<1> HIDE DEF n
<1>5. SubSeq(tty, 1, n) \in Seq(Byte) BY <1>2, <1>4, CutJoin
<1>6. buffer' = buffer \o SubSeq(tty, 1, n) BY <1>1, <1>5, ConcatEmptySeq
<1>7. Len(buffer) + n <= Free(ring) BY <1>1, <1>4
<1> QED BY <1>1, <1>4, <1>6, <1>7, PolledStep

\* What was polled goes through the ring, behind what is in it already.
LEMMA TakeStep ==
  ASSUME Inv, Take
  PROVE  Inv' /\ PortStep
<1> DEFINE filled == Written(ring, buffer)
           bytes == Popped(filled, required)
           c2 == Contents(Read(filled, required))
<1>1. /\ pc # "idle" /\ opened /\ last_ch = NoByte
      /\ ring \in Ring /\ buffer \in Seq(Byte) /\ tty \in Seq(Byte)
      /\ Len(buffer) <= Free(ring)
  BY DEF Take, Inv, TypeOK, PartSound
<1>2. required \in Nat BY <1>1, Running
<1>3. /\ ring' = Read(filled, required) /\ buffer' = <<>>
      /\ UNCHANGED <<platform, opened, tty, call, sent, opens>> /\ Part(bytes, "block")
  BY DEF Take
<1>4. filled \in Ring /\ Contents(filled) = Contents(ring) \o buffer
  BY <1>1, WriteAppends
<1> HIDE DEF filled
<1>5. /\ ring' \in Ring /\ bytes \in Seq(Byte) /\ Len(bytes) <= required /\ c2 \in Seq(Byte)
      /\ Contents(ring) \o buffer = bytes \o c2
      /\ (Len(bytes) < required => c2 = <<>>)
  BY <1>2, <1>3, <1>4, ReadFront
<1> HIDE DEF bytes
<1>6. Unread' = c2 \o tty
  <2>1. Unread' = (c2 \o <<>>) \o tty BY <1>1, <1>3 DEF Unread
  <2> QED BY <1>5, <2>1, ConcatEmptySeq
<1>7. Len(bytes) < required => Contents(ring') = <<>> BY <1>3, <1>5
<1> HIDE DEF c2
<1>8. /\ c2 \o tty \in Seq(Byte) /\ (bytes \o c2) \o tty = bytes \o (c2 \o tty)
  BY ONLY <1>1, <1>5, Regroup
<1>9. InFlight = data \o (bytes \o (c2 \o tty))
  <2>1. Unread = (bytes \o c2) \o tty BY <1>1, <1>5 DEF Unread
  <2> QED BY <1>1, <1>8, <2>1, FlightForms
<1>10. ReadFrame BY <1>1, <1>3, <1>5 DEF ReadFrame
<1> QED BY <1>1, <1>3, <1>5, <1>6, <1>7, <1>8, <1>9, <1>10, PartStep

\* What the last part reads comes off the terminal, the ring being empty.
LEMMA Straight ==
  ASSUME Inv, pc = "block"
  PROVE  LET n    == AtMost(Len(tty), required)
             came == SubSeq(tty, 1, n)
             left == SubSeq(tty, n + 1, Len(tty))
         IN /\ n \in 0 .. required /\ came \in Seq(Byte) /\ left \in Seq(Byte)
            /\ Len(came) = n /\ (n < required => left = <<>>) /\ (n = 0 => came = <<>>)
            /\ InFlight = data \o (came \o left)
<1> DEFINE n == AtMost(Len(tty), required)
           came == SubSeq(tty, 1, n)
           left == SubSeq(tty, n + 1, Len(tty))
<1>1. /\ tty \in Seq(Byte) /\ opened /\ last_ch = NoByte
      /\ Contents(ring) = <<>> /\ buffer = <<>>
  BY DEF Inv, TypeOK, PartSound
<1>2. required \in Nat BY Running
<1>3. n \in 0 .. Len(tty) /\ n \in 0 .. required /\ (n < required => n = Len(tty))
  BY <1>1, <1>2 DEF AtMost
<1> HIDE DEF n
<1>4. /\ came \in Seq(Byte) /\ left \in Seq(Byte) /\ Len(came) = n
      /\ Len(left) = Len(tty) - n /\ came \o left = tty
  BY <1>1, <1>3, CutJoin
<1> HIDE DEF came, left
<1>5. n < required => left = <<>>
  <2> SUFFICES ASSUME n < required PROVE left = <<>> OBVIOUS
  <2>1. Len(left) = 0 BY <1>1, <1>3, <1>4
  <2> QED BY <1>4, <2>1, EmptySeq
<1>6. n = 0 => came = <<>> BY <1>4, EmptySeq
<1>7. InFlight = data \o (came \o left)
  <2>1. Unread = tty
    <3>1. Unread = (<<>> \o <<>>) \o tty BY <1>1 DEF Unread
    <3>2. <<>> \o <<>> = <<>> /\ <<>> \o tty = tty BY <1>1, ConcatEmptySeq
    <3> QED BY <3>1, <3>2
  <2> QED BY <1>1, <1>4, <2>1, FlightForms
<1> QED BY <1>3, <1>4, <1>5, <1>6, <1>7 DEF n, came, left

\* What is unread after a read straight from the terminal.
LEMMA StraightAfter ==
  ASSUME Inv, pc = "block", NEW left \in Seq(Byte), tty' = left,
         UNCHANGED <<platform, opened, ring, call, buffer, sent, opens>>
  PROVE  ReadFrame /\ Unread' = left /\ Contents(ring') = <<>>
<1>1. ring \in Ring /\ opened /\ Contents(ring) = <<>> /\ buffer = <<>>
  BY DEF Inv, TypeOK, PartSound
<1>2. Unread' = (<<>> \o <<>>) \o left BY <1>1 DEF Unread
<1>3. <<>> \o <<>> = <<>> /\ <<>> \o left = left BY ConcatEmptySeq
<1> QED BY <1>1, <1>2, <1>3 DEF ReadFrame

\* On Linux one read of what is there, again until there is nothing or enough.
LEMMA BlockStep ==
  ASSUME Inv, Block
  PROVE  Inv' /\ PortStep
<1> DEFINE n == AtMost(Len(tty), required)
           came == SubSeq(tty, 1, n)
           left == SubSeq(tty, n + 1, Len(tty))
<1>1. /\ pc = "block" /\ tty' = left
      /\ IF n = 0 THEN Obtained(<<>>) ELSE Part(came, "block")
      /\ UNCHANGED <<platform, opened, ring, call, buffer, sent, opens>>
  BY DEF Block
<1>2. /\ n \in 0 .. required /\ came \in Seq(Byte) /\ left \in Seq(Byte)
      /\ Len(came) = n /\ (n < required => left = <<>>) /\ (n = 0 => came = <<>>)
      /\ InFlight = data \o (came \o left)
  BY <1>1, Straight
<1> HIDE DEF n, came, left
<1>3. ReadFrame /\ Unread' = left /\ Contents(ring') = <<>> BY <1>1, <1>2, StraightAfter
<1>4. opened /\ pc # "idle" /\ required \in Nat \ {0} BY <1>1, Running DEF Inv, PartSound
<1>5. Len(came) <= required /\ (Len(came) < required => left = <<>>) BY <1>2, <1>4
<1>6. CASE n = 0 BY <1>1, <1>2, <1>3, <1>4, <1>5, <1>6, OverStep
<1>7. CASE n # 0 BY <1>1, <1>2, <1>3, <1>4, <1>5, <1>7, PartStep
<1> QED BY <1>6, <1>7

\* On Windows one ReadFile ends the read.
LEMMA WindowsBlockStep ==
  ASSUME Inv, WindowsBlock
  PROVE  Inv' /\ PortStep
<1> DEFINE n == AtMost(Len(tty), required)
           came == SubSeq(tty, 1, n)
           left == SubSeq(tty, n + 1, Len(tty))
<1>1. /\ pc = "block" /\ tty' = left /\ Obtained(came)
      /\ UNCHANGED <<platform, opened, ring, call, buffer, sent, opens>>
  BY DEF WindowsBlock
<1>2. /\ n \in 0 .. required /\ came \in Seq(Byte) /\ left \in Seq(Byte)
      /\ Len(came) = n /\ (n < required => left = <<>>)
      /\ InFlight = data \o (came \o left)
  BY <1>1, Straight
<1> HIDE DEF n, came, left
<1>3. ReadFrame /\ Unread' = left BY <1>1, <1>2, StraightAfter
<1>4. opened /\ pc # "idle" /\ required \in Nat \ {0} BY <1>1, Running DEF Inv, PartSound
<1>5. Len(came) <= required /\ (Len(came) < required => left = <<>>) BY <1>2, <1>4
<1> QED BY <1>1, <1>2, <1>3, <1>4, <1>5, OverStep

(***************************************************************************)
(* Opening, closing, the baud rate, the sensor.                            *)
(***************************************************************************)
\* A step between reads that leaves the ring a ring and counts its call.
LEMMA BetweenKeepsInv ==
  ASSUME Inv, Between, opened' \in BOOLEAN, ring' \in Ring, tty' \in Seq(Byte),
         last_ch' \in {last_ch, NoByte}, opens' \in 0 .. MaxOpens, result' \in Results
  PROVE  Inv'
<1>1. /\ pc = "idle" /\ data = <<>> /\ buffer = <<>>
      /\ UNCHANGED <<platform, pc, op, limit, data, buffer, sent>>
  BY DEF Between, Inv, TypeOK, call
<1>2. Len(buffer') <= Free(ring')
  <2> DEFINE r == ring'
  <2>1. r \in Ring OBVIOUS
  <2> HIDE DEF r
  <2>2. Free(r) \in 0 .. Size - 1 BY <2>1, SizeBounds
  <2>3. 0 <= Free(r) BY <2>2, SizeAssumption
  <2> QED BY <1>1, <2>3 DEF r
<1>3. TypeOK' BY <1>1, <1>2 DEF Inv, TypeOK
<1>4. LineSound' /\ PartSound'
  BY <1>1, ByteAssumption DEF Inv, LineSound, PartSound
<1> QED BY <1>3, <1>4 DEF Inv

\* Between reads, nothing is on its way once the ring, the terminal and the
\* pushed back character are gone.
LEMMA NothingLeft ==
  ASSUME Inv, Between, ring' = Cleared(ring), last_ch' = NoByte, tty' = <<>>
  PROVE  InFlight' = <<>> /\ ring' \in Ring
<1>1. data' = <<>> /\ buffer' = <<>> /\ ring \in Ring BY DEF Between, Inv, TypeOK
<1>2. Contents(ring') = <<>> /\ ring' \in Ring BY <1>1, ClearedEmpty
<1>3. (<<>> \o <<>>) \o <<>> = <<>> BY ConcatEmptySeq
<1>4. Unread' = <<>> BY <1>1, <1>2, <1>3 DEF Unread
<1> QED BY <1>1, <1>2, <1>3, <1>4 DEF InFlight, PushedBack

\* A new rate, on Linux: known, it throws all away, unknown, nothing.
LEMMA SetBaudrateStep ==
  ASSUME Inv, NEW known \in BOOLEAN, serial_set_baudrate(known)
  PROVE  Inv' /\ PortStep
<1>1. /\ platform = "linux" /\ platform' = platform /\ Between /\ opened' = opened
      /\ opened \in BOOLEAN /\ ring \in Ring /\ tty \in Seq(Byte)
      /\ result' = [op |-> "set_baudrate", code |-> IF known THEN 0 ELSE -1, text |-> <<>>]
      /\ IF known THEN ring' = Cleared(ring) /\ tty' = <<>> /\ last_ch' = NoByte
                  ELSE UNCHANGED <<ring, last_ch, tty>>
  BY DEF serial_set_baudrate, Between, Inv, TypeOK, serial_clear, Result
<1>2. opens' \in 0 .. MaxOpens
  BY CallAssumption DEF serial_set_baudrate, Counted, Inv, TypeOK
<1>3. result' \in Results BY <1>1 DEF Results
<1>4. CASE known
  <2>1. InFlight' = <<>> /\ ring' \in Ring BY <1>1, <1>4, NothingLeft
  <2>2. Inv' BY <1>1, <1>2, <1>3, <1>4, <2>1, BetweenKeepsInv
  <2>3. Reader!NewRate BY <1>1, <1>4, <2>1 DEF Reader!NewRate, Reader!Gives
  <2> QED BY <1>1, <2>2, <2>3 DEF PortStep, Reader!PortNext
<1>5. CASE ~known
  <2>1. InFlight' = InFlight BY <1>1, <1>5 DEF InFlight, PushedBack, Unread, Between
  <2>2. Inv' BY <1>1, <1>2, <1>3, <1>5, BetweenKeepsInv
  <2>3. Reader!RefusedRate BY <1>1, <1>5, <2>1 DEF Reader!RefusedRate, Reader!Gives
  <2> QED BY <1>1, <2>2, <2>3 DEF PortStep, Reader!PortNext
<1> QED BY <1>4, <1>5

\* A new rate on Windows keeps what has come at the old one.
LEMMA WindowsSetBaudrateStep ==
  ASSUME Inv, WindowsSetBaudrate
  PROVE  Inv' /\ PortStep
<1>1. /\ platform = "windows" /\ platform' = platform /\ Between
      /\ UNCHANGED <<opened, ring, last_ch, tty, data, buffer>>
      /\ opened \in BOOLEAN /\ ring \in Ring /\ tty \in Seq(Byte)
      /\ result' = [op |-> "set_baudrate", code |-> 0, text |-> <<>>]
  BY DEF WindowsSetBaudrate, Between, Inv, TypeOK, Result
<1>2. opens' \in 0 .. MaxOpens
  BY CallAssumption DEF WindowsSetBaudrate, Counted, Inv, TypeOK
<1>3. result' \in Results BY <1>1 DEF Results
<1>4. Inv' BY <1>1, <1>2, <1>3, BetweenKeepsInv
<1>5. InFlight' = InFlight BY <1>1 DEF InFlight, PushedBack, Unread
<1>6. Reader!NewRate BY <1>1, <1>5 DEF Reader!NewRate, Reader!Gives
<1> QED BY <1>1, <1>4, <1>6 DEF PortStep, Reader!PortNext

\* Nothing that was on its way before an open is read after it.
LEMMA OpenStep ==
  ASSUME Inv, NEW there \in BOOLEAN,
         (\E known \in BOOLEAN : serial_open(there, known)) \/ WindowsOpen(there)
  PROVE  Inv' /\ PortStep
<1>1. /\ Between /\ platform' = platform /\ ~opened /\ opened' = there
      /\ ring' = Cleared(ring) /\ last_ch' = NoByte /\ tty' = <<>>
      /\ \E code \in {0, -1} :
           /\ code = 0 => there
           /\ result' = [op |-> "open", code |-> code, text |-> <<>>]
  BY DEF serial_open, WindowsOpen, Between, serial_clear, Result
<1>2. opens' \in 0 .. MaxOpens
  BY CallAssumption DEF serial_open, WindowsOpen, Counted, Inv, TypeOK
<1>3. result' \in Results BY <1>1 DEF Results
<1>4. InFlight' = <<>> /\ ring' \in Ring BY <1>1, NothingLeft
<1>5. Inv' BY <1>1, <1>2, <1>3, <1>4, BetweenKeepsInv
<1>6. Reader!Open BY <1>1, <1>4 DEF Reader!Open, Reader!Gives
<1> QED BY <1>1, <1>5, <1>6 DEF PortStep, Reader!PortNext

\* A close leaves the pushed back character, and nothing else.
LEMMA CloseStep ==
  ASSUME Inv, serial_close
  PROVE  Inv' /\ PortStep
<1>1. /\ Between /\ platform' = platform /\ opened' = FALSE /\ tty' = <<>>
      /\ result' = [op |-> "close", code |-> 0, text |-> <<>>]
      /\ UNCHANGED <<ring, last_ch, opens>>
      /\ ring \in Ring /\ opens \in 0 .. MaxOpens /\ data = <<>> /\ data' = <<>>
  BY DEF serial_close, Between, Inv, TypeOK, Result
<1>2. result' \in Results BY <1>1 DEF Results
<1>3. Inv'
  <2>1. opened' \in BOOLEAN BY <1>1, Zenon
  <2>2. tty' \in Seq(Byte) BY <1>1
  <2>3. ring' \in Ring /\ last_ch' \in {last_ch, NoByte} /\ opens' \in 0 .. MaxOpens BY <1>1
  <2> QED BY <1>1, <1>2, <2>1, <2>2, <2>3, BetweenKeepsInv
<1>4. /\ PushedBack \in Seq(Byte) /\ Unread \in Seq(Byte)
      /\ InFlight = PushedBack \o Unread
  BY <1>1, FlightForms
<1>5. InFlight' = PushedBack
  <2>1. Unread' = <<>> /\ PushedBack' = PushedBack BY <1>1 DEF Unread, PushedBack
  <2>2. InFlight' = (<<>> \o PushedBack) \o <<>> BY <1>1, <2>1 DEF InFlight
  <2> QED BY <1>4, <2>2, ConcatEmptySeq
<1>6. Len(PushedBack) \in {0, 1} BY DEF PushedBack
<1>7. /\ SubSeq(InFlight, 1, Len(PushedBack)) = PushedBack
      /\ Len(InFlight) = Len(PushedBack) + Len(Unread)
  BY <1>4, CutWhole, ConcatProperties
<1>8. Len(PushedBack) <= Len(InFlight)
  <2>1. Len(Unread) \in Nat BY <1>4
  <2> QED BY <1>6, <1>7, <2>1
<1>9. Reader!Close
  BY <1>1, <1>5, <1>6, <1>7, <1>8 DEF Reader!Close, Reader!Gives, Reader!Front
<1> QED BY <1>1, <1>3, <1>9 DEF PortStep, Reader!PortNext

\* A byte that arrives goes to the end of what is on its way.
LEMMA ArriveStep ==
  ASSUME Inv, NEW b \in Byte, Arrive(b)
  PROVE  Inv' /\ PortStep
<1>1. /\ opened /\ tty' = Append(tty, b) /\ sent < MaxSent /\ sent' = sent + 1
      /\ UNCHANGED <<platform, opened, ring, last_ch, pc, op, limit, data, buffer, result,
                     opens>>
      /\ ring \in Ring /\ buffer \in Seq(Byte) /\ tty \in Seq(Byte) /\ data \in Seq(Byte)
  BY DEF Arrive, call, Inv, TypeOK
<1>2. tty' = tty \o <<b>> /\ <<b>> \in Seq(Byte) BY <1>1
<1>3. /\ PushedBack \in Seq(Byte) /\ Unread \in Seq(Byte) /\ InFlight \in Seq(Byte)
      /\ data \o PushedBack \in Seq(Byte)
  BY <1>1, FlightForms, ConcatProperties
<1>4. Unread' = Unread \o <<b>>
  <2> DEFINE held == Contents(ring) \o buffer
  <2>1. held \in Seq(Byte) BY <1>1, ContentsType, ConcatProperties
  <2>2. Unread = held \o tty /\ Unread' = held \o (tty \o <<b>>) BY <1>1, <1>2 DEF Unread
  <2> HIDE DEF held
  <2>3. (held \o tty) \o <<b>> = held \o (tty \o <<b>>)
    <3>1. tty \in Seq(Byte) BY <1>1
    <3> QED BY ONLY <1>2, <2>1, <3>1, ConcatAssociative
  <2> QED BY <2>2, <2>3
<1>5. InFlight' = InFlight \o <<b>>
  <2> DEFINE front == data \o PushedBack
             u == Unread
  <2>1. front \in Seq(Byte) /\ u \in Seq(Byte) BY <1>3
  <2>2. InFlight = front \o u /\ InFlight' = front \o (u \o <<b>>)
    BY <1>1, <1>4 DEF InFlight, PushedBack
  <2> HIDE DEF front, u
  <2>3. (front \o u) \o <<b>> = front \o (u \o <<b>>)
    BY ONLY <1>2, <2>1, ConcatAssociative
  <2> QED BY <2>2, <2>3
<1>6. Reader!Arrive(b)
  <2>1. InFlight' = Append(InFlight, b) BY <1>3, <1>5
  <2> QED BY <1>1, <2>1 DEF Reader!Arrive
<1>7. Inv'
  <2>1. sent' \in 0 .. MaxSent BY <1>1, CallAssumption DEF Inv, TypeOK
  <2>2. tty' \in Seq(Byte) BY <1>1
  <2> QED BY <1>1, <2>1, <2>2 DEF Inv, TypeOK, LineSound, PartSound
<1> QED BY <1>1, <1>6, <1>7 DEF PortStep, Reader!PortNext

(***************************************************************************)
(* The theorems.                                                           *)
(***************************************************************************)
\* A port that was just opened.
LEMMA OpenInit == Init => Inv /\ Reader!PortInit
<1> SUFFICES ASSUME Init PROVE Inv /\ Reader!PortInit OBVIOUS
<1>1. ring \in Ring /\ Contents(ring) = <<>> BY ClearedEmpty DEF Init
<1>2. (<<>> \o <<>>) \o <<>> = <<>> BY ConcatEmptySeq
<1>3. Unread = <<>> BY <1>1, <1>2 DEF Unread, Init
<1>4. InFlight = <<>> BY <1>2, <1>3 DEF InFlight, PushedBack, Init
<1>5. 0 <= Free(ring)
  <2>1. Free(ring) \in 0 .. Size - 1 BY <1>1, SizeBounds
  <2> QED BY <2>1, SizeAssumption
<1>6. TypeOK
  <2>1. 0 \in 0 .. MaxSent /\ 0 \in 0 .. MaxOpens BY CallAssumption
  <2>2. result \in Results BY DEF Init, Results
  <2> QED BY <1>1, <1>5, <2>1, <2>2 DEF TypeOK, Init
<1>7. LineSound /\ PartSound BY ByteAssumption DEF LineSound, PartSound, Init
<1> QED BY <1>4, <1>6, <1>7 DEF Inv, Reader!PortInit, Reader!Init, Init

\* Every step of the port is a step of the abstract one or shows nothing.
LEMMA SerialStep ==
  ASSUME Inv, [Next]_vars
  PROVE  Inv' /\ PortStep
<1>1. ASSUME NEW max \in BufSizes, serial_readline(max)
      PROVE  Inv' /\ PortStep
  BY <1>1, StartStep DEF serial_readline
<1>2. ASSUME NEW n \in ReadSizes, serial_read(n)
      PROVE  Inv' /\ PortStep
  BY <1>2, StartStep DEF serial_read
<1>3. CASE Port
  BY <1>3, BeginStep, PollStep, WindowsPollStep, TakeStep, BlockStep, WindowsBlockStep DEF Port
<1>4. CASE UNCHANGED vars
  <2>1. /\ UNCHANGED <<platform, opened, ring, last_ch, tty, pc, op, limit, data, buffer,
                       result, sent, opens>>
    BY <1>4 DEF vars, call
  <2>2. InFlight' = InFlight BY <2>1 DEF InFlight, PushedBack, Unread
  <2>3. Inv' BY <2>1 DEF Inv, TypeOK, LineSound, PartSound
  <2> QED BY <2>1, <2>2, <2>3 DEF PortStep
<1> QED
  BY <1>1, <1>2, <1>3, <1>4, SetBaudrateStep, WindowsSetBaudrateStep, OpenStep, CloseStep,
     ArriveStep
  DEF Next

\* The fields of urg_serial_t keep their types, the caller's buffer is never
\* overrun, and serial_read never polls more than the ring buffer can take.
THEOREM SerialTypeCorrect == Spec => []TypeOK
<1>1. Init => Inv BY OpenInit
<1>2. Inv /\ [Next]_vars => Inv' BY SerialStep
<1>3. Inv => TypeOK BY DEF Inv
<1> QED BY <1>1, <1>2, <1>3, PTL DEF Spec

\* serial_readline and serial_read give every byte in its order and once, in lines
\* as in raw reads, and nothing from before an open or, on Linux, a new baud rate.
THEOREM SerialReadsInOrder == Spec => ReadsInOrder
<1>1. Init => Inv /\ Reader!PortInit BY OpenInit
<1>2. Inv /\ [Next]_vars
        => Inv' /\ [Reader!PortNext]_<<<<InFlight, result>>, opened, platform = "windows">>
  BY SerialStep DEF PortStep
<1> QED
  BY <1>1, <1>2, PTL
  DEF Spec, ReadsInOrder, Reader!PortSpec, Reader!portVars, Reader!vars
=============================================================================
