-------------------------- MODULE TcpClient_proofs --------------------------
(***************************************************************************)
(* tcpclient_readline and tcpclient_read give the bytes of the sensor in   *)
(* order, for every size of the ring buffer, of line buffers and of        *)
(* requests: the reader is the abstract LineReader.  A raw read may not    *)
(* follow a line that did not fit (RawAnytime is FALSE): it would overtake *)
(* the character pushed back.                                              *)
(***************************************************************************)
EXTENDS TcpClient, RingBuffer_proofs

(***************************************************************************)
(* The invariant: what is in the line buffer holds no line end, a call     *)
(* that is running has taken the pushed back character, and the socket is  *)
(* read only when the ring buffer is empty.                                *)
(***************************************************************************)
NoEnds == /\ op = "readline" => \A i \in 1 .. Len(userbuf) : userbuf[i] \notin Linefeeds
          /\ pushed_back \notin Linefeeds
          /\ pc # "idle" => pushed_back = NoByte
          /\ pc \in {"recv", "block"} => Contents(rb) = <<>>

Inv == TypeOK /\ NoEnds

\* The part of it that the loop of tcpclient_readline writes.
LineOK == /\ userbuf \in Seq(Byte) /\ pushed_back \in Byte \cup {NoByte}
          /\ pc \in {"idle", "buffer", "recv", "block"}
          /\ result \in Results
          /\ IF pc = "idle" THEN userbuf = <<>> ELSE Len(userbuf) < limit
          /\ \A i \in 1 .. Len(userbuf) : userbuf[i] \notin Linefeeds
          /\ pushed_back \notin Linefeeds
          /\ pc # "idle" => pushed_back = NoByte

\* One turn of the loop of tcpclient_readline, given the next byte, or none when
\* there is none: the line goes on, or the reader gets what it is promised.
LEMMA LineStep ==
  ASSUME userbuf \in Seq(Byte), limit \in BufSizes, Len(userbuf) < limit,
         \A i \in 1 .. Len(userbuf) : userbuf[i] \notin Linefeeds,
         pushed_back = NoByte, op = "readline", limit' = limit,
         NEW bytes \in Seq(Byte), Len(bytes) <= 1,
         NEW rest \in Seq(Byte), bytes = <<>> => rest = <<>>,
         Unread = bytes \o rest, Unread' = rest,
         result \in Results, LineGets(bytes)
  PROVE  /\ LineOK' /\ pc' \in {"idle", "buffer"}
         /\ [Reader!Next]_<<InFlight, result>>
<1> DEFINE line == userbuf \o bytes
           k == Len(userbuf)
<1>1. limit \in Nat /\ limit > 1 /\ k \in Nat /\ k < limit BY CallAssumption
<1>2. NoByte \notin Byte /\ Linefeeds \subseteq Byte /\ NoByte \notin Linefeeds
  BY ByteAssumption
<1>3. InFlight = userbuf \o (bytes \o rest)
  BY ConcatEmptySeq, ConcatProperties DEF InFlight, PushedBack
<1>4. line \in Seq(Byte) /\ InFlight = line \o rest /\ InFlight \in Seq(Byte)
  <2>1. line \in Seq(Byte) BY ConcatProperties
  <2>2. userbuf \o (bytes \o rest) = line \o rest
    <3>1. userbuf \in Seq(Byte) /\ bytes \in Seq(Byte) /\ rest \in Seq(Byte) OBVIOUS
    <3> QED BY ONLY <3>1, ConcatAssociative
  <2>3. line \o rest \in Seq(Byte) BY <2>1, ConcatProperties
  <2> QED BY <1>3, <2>1, <2>2, <2>3
<1>5. /\ Len(line) = k + Len(bytes)
      /\ \A i \in 1 .. k + Len(bytes) : line[i] = IF i <= k THEN userbuf[i] ELSE bytes[i - k]
  BY ConcatProperties
<1>6. CASE bytes = <<>>
  <2>1. InFlight = userbuf
    BY <1>3, <1>6, ConcatEmptySeq
  <2>2. /\ pc' = "idle" /\ userbuf' = <<>> /\ pushed_back' = NoByte
        /\ result' = [op |-> "readline", code |-> IF userbuf = <<>> THEN -1 ELSE k,
                      text |-> userbuf]
    BY <1>6 DEF LineGets, Returns
  <2>3. InFlight' = <<>>
    <3>1. Unread' = <<>> /\ userbuf' = <<>> /\ PushedBack' = <<>>
      BY <1>6, <2>2 DEF PushedBack
    <3>2. <<>> \o (<<>> \o <<>>) = <<>> OBVIOUS
    <3> QED BY <3>1, <3>2 DEF InFlight
  <2>4. LineOK'
    <3>1. result' \in Results
      <4>1. (IF userbuf = <<>> THEN -1 ELSE k) \in Int BY <1>1
      <4> QED BY <2>2, <4>1 DEF Results
    <3> QED BY <1>2, <2>2, <3>1 DEF LineOK
  <2>5. Reader!Partial(limit)
    <3>1. Len(InFlight) < limit /\ Reader!NoEnd(Len(InFlight))
      BY <1>1, <2>1 DEF Reader!NoEnd
    <3>2. Reader!Gives("readline", IF InFlight = <<>> THEN -1 ELSE Len(InFlight), InFlight, <<>>)
      BY <2>1, <2>2, <2>3 DEF Reader!Gives
    <3> QED BY <3>1, <3>2 DEF Reader!Partial
  <2> QED BY <2>2, <2>4, <2>5 DEF Reader!Next, Reader!Reads
<1>7. CASE bytes # <<>>
  <2>1. Len(bytes) = 1 /\ bytes[1] \in Byte
    BY <1>7, OneByte
  <2>2. Len(line) = k + 1 /\ line[k + 1] = bytes[1] /\ (\A i \in 1 .. k : line[i] = userbuf[i])
    BY <1>1, <1>5, <2>1
  <2>3. /\ Len(InFlight) = Len(line) + Len(rest)
        /\ \A i \in 1 .. Len(line) : InFlight[i] = line[i]
    BY <1>4, ConcatProperties
  <2>4. /\ SubSeq(InFlight, 1, k + 1) = line
        /\ SubSeq(InFlight, k + 2, Len(InFlight)) = rest
    <3>1. SubSeq(line \o rest, 1, Len(line)) = line
          /\ SubSeq(line \o rest, Len(line) + 1, Len(line \o rest)) = rest
      BY <1>4, CutWhole
    <3>2. Len(line) = k + 1 /\ Len(line) + 1 = k + 2 BY <1>1, <2>2
    <3> HIDE DEF line, k
    <3> QED BY <1>4, <3>1, <3>2
  <2>5. /\ SubSeq(InFlight, 1, k) = userbuf
        /\ SubSeq(InFlight, k + 1, Len(InFlight)) = bytes \o rest
    BY <1>3, CutWhole, ConcatProperties
  <2> HIDE DEF line, k
  <2>6. CASE bytes[1] \in Linefeeds
    <3>1. /\ pc' = "idle" /\ userbuf' = <<>> /\ pushed_back' = NoByte
          /\ result' = [op |-> "readline", code |-> k, text |-> userbuf]
      BY <1>7, <2>6 DEF LineGets, Returns, k
    <3>2. InFlight' = rest
      BY <3>1, ConcatEmptySeq DEF InFlight, PushedBack
    <3>3. LineOK' BY <1>1, <1>2, <3>1 DEF LineOK, Results
    <3>4. Reader!Whole(limit)
      <4>1. k \in 0 .. limit - 1 /\ Len(InFlight) > k BY <1>1, <2>2, <2>3
      <4>2. Reader!NoEnd(k) /\ InFlight[k + 1] \in Linefeeds
        <5>1. k + 1 \in 1 .. Len(line) /\ \A i \in 1 .. k : i \in 1 .. Len(line)
          BY <1>1, <2>2
        <5>2. InFlight[k + 1] = bytes[1] BY <2>2, <2>3, <5>1
        <5>3. \A i \in 1 .. k : InFlight[i] = userbuf[i] BY <2>2, <2>3, <5>1
        <5> QED BY <2>6, <5>2, <5>3 DEF Reader!NoEnd, k
      <4>3. k + 1 + 1 = k + 2 BY <1>1
      <4>4. Reader!Gives("readline", k, Reader!Front(k), Reader!Rest(k + 1))
        BY <2>4, <2>5, <3>1, <3>2, <4>3 DEF Reader!Gives, Reader!Front, Reader!Rest
      <4> QED BY <4>1, <4>2, <4>4 DEF Reader!Whole
    <3> QED BY <3>1, <3>3, <3>4 DEF Reader!Next, Reader!Reads
  <2>7. CASE bytes[1] \notin Linefeeds /\ Len(line) >= limit
    <3>1. limit = k + 1 BY <1>1, <2>2, <2>7
    <3>2. /\ pc' = "idle" /\ userbuf' = <<>> /\ pushed_back' = bytes[1]
          /\ result' = [op |-> "readline", code |-> k, text |-> SubSeq(line, 1, k)]
      <4>1. limit - 1 = k BY <1>1, <3>1
      <4> QED BY <1>7, <2>2, <2>7, <3>1, <4>1 DEF LineGets, Returns, line
    <3>3. SubSeq(line, 1, k) = userbuf BY CutWhole DEF line, k
    <3>4. bytes = <<bytes[1]>> BY <2>1
    <3>5. InFlight' = bytes \o rest
      <4>1. PushedBack' = bytes BY <1>2, <2>1, <3>2, <3>4 DEF PushedBack
      <4>2. bytes \o rest \in Seq(Byte) BY ConcatProperties
      <4> QED BY <3>2, <4>1, <4>2, ConcatEmptySeq DEF InFlight
    <3>6. LineOK' BY <1>1, <1>2, <2>1, <2>7, <3>2, <3>3 DEF LineOK, Results
    <3>7. Reader!Full(limit)
      <4>1. Len(rest) \in Nat OBVIOUS
      <4>2. Len(InFlight) >= limit BY <1>1, <2>2, <2>3, <3>1, <4>1
      <4>3. Reader!NoEnd(limit)
        <5>1. \A i \in 1 .. k : InFlight[i] \notin Linefeeds BY <1>1, <2>2, <2>3 DEF k
        <5>2. InFlight[k + 1] \notin Linefeeds BY <1>1, <2>2, <2>3, <2>7
        <5> QED BY <1>1, <3>1, <5>1, <5>2 DEF Reader!NoEnd
      <4>4. Reader!Gives("readline", limit - 1, Reader!Front(limit - 1), Reader!Rest(limit - 1))
        <5>1. limit - 1 = k BY <1>1, <3>1
        <5> QED BY <2>5, <3>2, <3>3, <3>5, <5>1 DEF Reader!Gives, Reader!Front, Reader!Rest
      <4> QED BY <4>2, <4>3, <4>4 DEF Reader!Full
    <3> QED BY <3>2, <3>6, <3>7 DEF Reader!Next, Reader!Reads
  <2>8. CASE bytes[1] \notin Linefeeds /\ ~(Len(line) >= limit)
    <3>1. pc' = "buffer" /\ userbuf' = line /\ pushed_back' = NoByte /\ result' = result
      BY <1>7, <2>8 DEF LineGets, line
    <3>2. InFlight' = InFlight
      BY <1>4, <3>1, ConcatEmptySeq DEF InFlight, PushedBack
    <3>3. \A i \in 1 .. Len(line) : line[i] \notin Linefeeds
      <4>1. \A i \in 1 .. k : line[i] \notin Linefeeds BY <2>2 DEF k
      <4>2. line[k + 1] \notin Linefeeds BY <2>2, <2>8
      <4>3. \A i \in 1 .. Len(line) : i \in 1 .. k \/ i = k + 1 BY <1>1, <2>2
      <4> QED BY <4>1, <4>2, <4>3
    <3>4. Len(line) < limit' BY <1>1, <2>2, <2>8
    <3>5. LineOK' BY <1>2, <1>4, <3>1, <3>3, <3>4 DEF LineOK
    <3> QED BY <3>1, <3>2, <3>5
  <2> QED BY <2>6, <2>7, <2>8
<1> QED BY <1>6, <1>7

(***************************************************************************)
(* The steps.                                                              *)
(***************************************************************************)
\* What LineStep leaves of the invariant is all of it that the step changes.
LEMMA LineKeepsInv ==
  ASSUME Inv, LineOK', pc' \in {"idle", "buffer"}, pc # "idle",
         op = "readline", limit \in BufSizes, UNCHANGED <<call, sent>>,
         rb' \in Ring, socket' \in Seq(Byte)
  PROVE  Inv'
BY DEF Inv, TypeOK, NoEnds, LineOK, call

\* A call that is running has room left for what it asks tcpclient_read.
LEMMA Running ==
  ASSUME Inv, pc # "idle"
  PROVE  /\ userbuf \in Seq(Byte) /\ Len(userbuf) \in Nat /\ limit \in Nat
         /\ Len(userbuf) < limit /\ pushed_back = NoByte /\ rem_size \in Nat \ {0}
         /\ \/ op = "readline" /\ limit \in BufSizes /\ rem_size = 1
            \/ op = "read" /\ limit \in ReadSizes /\ rem_size = limit - Len(userbuf)
<1>1. /\ userbuf \in Seq(Byte) /\ Len(userbuf) \in Nat
      /\ Len(userbuf) < limit /\ pushed_back = NoByte
      /\ \/ op = "readline" /\ limit \in BufSizes
         \/ op = "read" /\ limit \in ReadSizes
  BY DEF Inv, TypeOK, NoEnds
<1>2. limit \in Nat BY <1>1, CallAssumption
<1> QED BY <1>1, <1>2 DEF rem_size

\* A raw read that is over gave what it was asked for, or all there was.
LEMMA RawOver ==
  ASSUME userbuf \in Seq(Byte), limit \in ReadSizes, pushed_back = NoByte, op = "read",
         NEW bytes \in Seq(Byte), NEW rest \in Seq(Byte),
         Len(userbuf) + Len(bytes) <= limit,
         Len(userbuf) + Len(bytes) < limit => rest = <<>>,
         Unread = bytes \o rest, Unread' = rest, Obtained(bytes)
  PROVE  /\ pc' = "idle" /\ userbuf' = <<>> /\ pushed_back' = NoByte /\ result' \in Results
         /\ Reader!Next
<1> DEFINE text == userbuf \o bytes
           k == Len(text)
<1>1. text \in Seq(Byte) /\ k = Len(userbuf) + Len(bytes) /\ k \in Nat
  BY ConcatProperties
<1>2. InFlight = text \o rest
  <2>1. InFlight = userbuf \o (bytes \o rest)
    BY ConcatEmptySeq, ConcatProperties DEF InFlight, PushedBack
  <2>2. userbuf \in Seq(Byte) /\ bytes \in Seq(Byte) /\ rest \in Seq(Byte) OBVIOUS
  <2>3. userbuf \o (bytes \o rest) = (userbuf \o bytes) \o rest
    BY ONLY <2>2, ConcatAssociative
  <2> QED BY <2>1, <2>3
<1>3. /\ pc' = "idle" /\ userbuf' = <<>> /\ pushed_back' = NoByte
      /\ result' = [op |-> "read", code |-> k, text |-> text]
  BY DEF Obtained, Returns
<1>4. InFlight' = rest BY <1>3, ConcatEmptySeq DEF InFlight, PushedBack
<1> HIDE DEF text
<1>5. /\ SubSeq(InFlight, 1, k) = text
      /\ SubSeq(InFlight, k + 1, Len(InFlight)) = rest
  BY <1>1, <1>2, CutWhole
<1>6. Len(InFlight) = k + Len(rest) BY <1>1, <1>2, ConcatProperties
<1> HIDE DEF k
<1>7. limit \in Nat /\ Len(rest) \in Nat BY CallAssumption
<1>8. k \in 0 .. limit /\ k <= Len(InFlight) BY <1>1, <1>6, <1>7
<1>9. k < limit => k = Len(InFlight) BY <1>1, <1>6, <1>7
<1>10. Reader!Gives("read", k, Reader!Front(k), Reader!Rest(k))
  BY <1>3, <1>4, <1>5 DEF Reader!Gives, Reader!Front, Reader!Rest
<1>11. Reader!Taken(limit) BY <1>8, <1>9, <1>10 DEF Reader!Taken
<1>12. result' \in Results BY <1>1, <1>3 DEF Results
<1> QED BY <1>3, <1>11, <1>12 DEF Reader!Next, Reader!Reads

\* A part of tcpclient_read that took some of the bytes it wants off what is unread.
LEMMA PartStep ==
  ASSUME Inv, pc # "idle", UNCHANGED <<call, sent>>,
         NEW bytes \in Seq(Byte), Len(bytes) <= rem_size, NEW next \in {"recv", "block"},
         Unread' \in Seq(Byte), Unread = bytes \o Unread',
         rb' \in Ring, socket' \in Seq(Byte),
         Len(bytes) < rem_size => Contents(rb') = <<>>,
         Part(bytes, next)
  PROVE  Inv' /\ [Reader!Next]_<<InFlight, result>>
<1>1. /\ userbuf \in Seq(Byte) /\ Len(userbuf) \in Nat /\ limit \in Nat
      /\ Len(userbuf) < limit /\ pushed_back = NoByte /\ rem_size \in Nat \ {0}
      /\ \/ op = "readline" /\ limit \in BufSizes /\ rem_size = 1
         \/ op = "read" /\ limit \in ReadSizes /\ rem_size = limit - Len(userbuf)
  BY Running
<1>2. Len(bytes) \in Nat OBVIOUS
<1>3. op' = op /\ limit' = limit /\ sent' = sent BY DEF call
<1>4. CASE Len(bytes) # rem_size
  <2> DEFINE text == userbuf \o bytes
  <2>1. Len(bytes) < rem_size /\ Contents(rb') = <<>> BY <1>1, <1>2, <1>4
  <2>2. /\ pc' = next /\ userbuf' = text
        /\ pushed_back' = pushed_back /\ result' = result
    BY <1>4 DEF Part
  <2>3. text \in Seq(Byte) /\ Len(text) = Len(userbuf) + Len(bytes)
    BY <1>1, ConcatProperties
  <2>4. op = "readline" => text = userbuf
    <3> SUFFICES ASSUME op = "readline" PROVE text = userbuf OBVIOUS
    <3>1. Len(bytes) = 0 BY <1>1, <1>2, <2>1
    <3>2. bytes = <<>> BY <3>1, EmptySeq
    <3> QED BY <1>1, <3>2, ConcatEmptySeq
  <2>5. Len(text) < limit
    <3>1. CASE op = "readline" BY <1>1, <2>4, <3>1
    <3>2. CASE op = "read" BY <1>1, <1>2, <2>1, <2>3, <3>2
    <3> QED BY <1>1, <3>1, <3>2
  <2>6. InFlight' = InFlight
    <3>1. InFlight = userbuf \o (bytes \o Unread')
      BY <1>1, ConcatEmptySeq, ConcatProperties DEF InFlight, PushedBack
    <3> DEFINE later == Unread'
    <3>2. userbuf \o (bytes \o later) = (userbuf \o bytes) \o later
      <4>1. later \in Seq(Byte) OBVIOUS
      <4> HIDE DEF later
      <4>2. userbuf \in Seq(Byte) /\ bytes \in Seq(Byte) BY <1>1
      <4> QED BY ONLY <4>1, <4>2, ConcatAssociative, SMTT(30)
    <3>3. InFlight' = text \o Unread'
      BY <1>1, <2>2, ConcatEmptySeq DEF InFlight, PushedBack
    <3> QED BY <3>1, <3>2, <3>3
  <2> HIDE DEF text
  <2>7. Inv' BY <1>1, <1>3, <2>1, <2>2, <2>3, <2>4, <2>5 DEF Inv, TypeOK, NoEnds
  <2> QED BY <2>2, <2>6, <2>7
<1>5. CASE Len(bytes) = rem_size /\ op = "readline"
  <2>1. Len(bytes) = 1 /\ limit \in BufSizes BY <1>1, <1>5
  <2>2. bytes # <<>> /\ LineGets(bytes)
    <3>1. bytes # <<>>
      <4>1. Len(bytes) # 0 BY <2>1
      <4> QED BY <4>1
    <3>2. Obtained(bytes) BY <1>5 DEF Part
    <3> QED BY <1>5, <3>1, <3>2 DEF Obtained
  <2>3. \A i \in 1 .. Len(userbuf) : userbuf[i] \notin Linefeeds
    BY <1>5 DEF Inv, NoEnds
  <2>4. result \in Results BY DEF Inv, TypeOK
  <2>5. /\ LineOK' /\ pc' \in {"idle", "buffer"}
        /\ [Reader!Next]_<<InFlight, result>>
    BY <1>1, <1>3, <1>5, <2>1, <2>2, <2>3, <2>4, LineStep
  <2> QED BY <1>5, <2>1, <2>5, LineKeepsInv
<1>6. CASE Len(bytes) = rem_size /\ op = "read"
  <2>1. limit \in ReadSizes /\ Len(userbuf) + Len(bytes) = limit BY <1>1, <1>2, <1>6
  <2>2. Obtained(bytes) BY <1>6 DEF Part
  <2>3. /\ Len(userbuf) + Len(bytes) <= limit
        /\ ~(Len(userbuf) + Len(bytes) < limit)
    BY <1>1, <2>1
  <2>4. /\ pc' = "idle" /\ userbuf' = <<>> /\ pushed_back' = NoByte /\ result' \in Results
        /\ Reader!Next
    BY <1>1, <1>6, <2>1, <2>2, <2>3, RawOver
  <2>5. Inv' BY <1>1, <1>3, <2>4, ByteAssumption DEF Inv, TypeOK, NoEnds
  <2> QED BY <2>4, <2>5
<1> QED BY <1>1, <1>4, <1>5, <1>6

\* The pushed back character is the first of the new line.
LEMMA CallStep ==
  ASSUME Inv, NEW max \in BufSizes, tcpclient_readline(max)
  PROVE  Inv' /\ [Reader!Next]_<<InFlight, result>>
<1>1. max \in Nat /\ max > 1 BY CallAssumption
<1>2. rb \in Ring /\ socket \in Seq(Byte) /\ userbuf = <<>> BY DEF Inv, TypeOK, tcpclient_readline
<1>3. PushedBack \in Seq(Byte) /\ Unread \in Seq(Byte) /\ Unread' = Unread
  <2>1. Unread \in Seq(Byte) BY <1>2, ContentsType, ConcatProperties DEF Unread
  <2>2. Unread' = Unread BY DEF Unread, tcpclient_readline
  <2> QED BY <2>1, <2>2 DEF PushedBack, Inv, TypeOK
<1>4. userbuf' = PushedBack /\ PushedBack' = <<>> /\ result' = result
  BY DEF tcpclient_readline, PushedBack
<1>5. InFlight = PushedBack \o Unread
  <2>1. PushedBack \o Unread \in Seq(Byte) BY <1>3, ConcatProperties
  <2> QED BY <1>2, <2>1, ConcatEmptySeq DEF InFlight
<1>6. InFlight' = PushedBack \o Unread BY <1>3, <1>4, ConcatEmptySeq DEF InFlight
<1>7. /\ Len(PushedBack) < max
      /\ \A i \in 1 .. Len(PushedBack) : PushedBack[i] \notin Linefeeds
  BY <1>1 DEF PushedBack, Inv, NoEnds
<1>8. pushed_back' = NoByte /\ NoByte \notin Linefeeds
  BY ByteAssumption DEF tcpclient_readline
<1>9. Inv' BY <1>3, <1>4, <1>7, <1>8 DEF Inv, TypeOK, NoEnds, tcpclient_readline
<1> QED BY <1>4, <1>5, <1>6, <1>9

\* A raw read begins with an empty buffer and nothing pushed back.
LEMMA RawCallStep ==
  ASSUME Inv, RawAnytime = FALSE, NEW n \in ReadSizes, tcpclient_read(n)
  PROVE  Inv' /\ [Reader!Next]_<<InFlight, result>>
<1>1. n \in Nat /\ n > 0 BY CallAssumption
<1>2. /\ userbuf = <<>> /\ pushed_back = NoByte /\ pc' = "buffer"
      /\ op' = "read" /\ limit' = n
      /\ UNCHANGED <<rb, pushed_back, socket, userbuf, result, sent>>
  BY DEF tcpclient_read, Inv, TypeOK
<1>3. Len(userbuf) < n BY <1>1, <1>2
<1>4. InFlight' = InFlight BY <1>2 DEF InFlight, PushedBack, Unread
<1>5. Inv' BY <1>1, <1>2, <1>3 DEF Inv, TypeOK, NoEnds
<1> QED BY <1>2, <1>4, <1>5

\* The first part of tcpclient_read takes bytes off the ring buffer.
LEMMA FromBufferStep ==
  ASSUME Inv, FromBuffer PROVE Inv' /\ [Reader!Next]_<<InFlight, result>>
<1>1. pc # "idle" /\ rb \in Ring /\ socket \in Seq(Byte) BY DEF FromBuffer, Inv, TypeOK
<1>2. rem_size \in Nat BY <1>1, Running
<1> DEFINE bytes == Popped(rb, rem_size)
           c2 == Contents(Read(rb, rem_size))
<1>3. rb' = Read(rb, rem_size) /\ socket' = socket /\ UNCHANGED <<call, sent>>
      /\ Part(bytes, "recv")
  BY DEF FromBuffer
<1>4. /\ rb' \in Ring /\ bytes \in Seq(Byte) /\ Len(bytes) <= rem_size /\ c2 \in Seq(Byte)
      /\ Contents(rb) = bytes \o c2 /\ (Len(bytes) < rem_size => c2 = <<>>)
  BY <1>1, <1>2, <1>3, ReadFront
<1> HIDE DEF bytes
<1>5. Unread' = c2 \o socket BY <1>3 DEF Unread
<1> HIDE DEF c2
<1>6. Unread' \in Seq(Byte) BY <1>1, <1>4, <1>5, ConcatProperties
<1>7. Unread = bytes \o Unread'
  <2>1. bytes \in Seq(Byte) /\ c2 \in Seq(Byte) /\ socket \in Seq(Byte) BY <1>1, <1>4
  <2>2. (bytes \o c2) \o socket = bytes \o (c2 \o socket)
    BY ONLY <2>1, ConcatAssociative
  <2>3. Unread = (bytes \o c2) \o socket BY <1>4 DEF Unread
  <2> QED BY <1>5, <2>2, <2>3
<1>8. Len(bytes) < rem_size => Contents(rb') = <<>> BY <1>3, <1>4 DEF c2
<1> QED BY <1>1, <1>3, <1>4, <1>6, <1>7, <1>8, PartStep

\* The second part fills the empty ring buffer from the socket first.
LEMMA FromSocketStep ==
  ASSUME Inv, FromSocket PROVE Inv' /\ [Reader!Next]_<<InFlight, result>>
<1>1. pc # "idle" /\ rb \in Ring /\ socket \in Seq(Byte) /\ Contents(rb) = <<>>
  BY DEF FromSocket, Inv, TypeOK, NoEnds
<1>2. rem_size \in Nat BY <1>1, Running
<1>3. ring_size(rb) = 0 /\ Free(rb) = Size - 1
  <2>1. ring_size(rb) = 0 BY <1>1, ContentsType
  <2> QED BY <1>1, <2>1, SizeBounds, SizeAssumption
<1> DEFINE n == AtMost(Len(socket), BUFSIZE - ring_size(rb))
           came == SubSeq(socket, 1, n)
           left == SubSeq(socket, n + 1, Len(socket))
           filled == Written(rb, came)
           bytes == Popped(filled, rem_size)
           c2 == Contents(Read(filled, rem_size))
<1>4. rb' = Read(filled, rem_size) /\ socket' = left /\ UNCHANGED <<call, sent>>
      /\ Part(bytes, "block")
  BY DEF FromSocket
<1>5. n \in 0 .. Len(socket) /\ n <= Size - 1
  BY <1>1, <1>3, SizeAssumption DEF AtMost, BUFSIZE
<1> HIDE DEF n
<1>6. /\ came \in Seq(Byte) /\ left \in Seq(Byte) /\ Len(came) = n /\ came \o left = socket
  BY <1>1, <1>5, CutJoin
<1> HIDE DEF came, left
<1>7. filled \in Ring /\ Contents(filled) = came
  <2>1. Len(came) <= Free(rb) BY <1>3, <1>5, <1>6
  <2>2. filled \in Ring /\ Contents(filled) = Contents(rb) \o came
    BY <1>1, <1>6, <2>1, WriteAppends
  <2> HIDE DEF filled
  <2> QED BY <1>1, <1>6, <2>2, ConcatEmptySeq
<1> HIDE DEF filled
<1>8. /\ rb' \in Ring /\ bytes \in Seq(Byte) /\ Len(bytes) <= rem_size /\ c2 \in Seq(Byte)
      /\ came = bytes \o c2 /\ (Len(bytes) < rem_size => c2 = <<>>)
  BY <1>2, <1>4, <1>7, ReadFront
<1> HIDE DEF bytes
<1>9. Unread' = c2 \o left BY <1>4 DEF Unread
<1> HIDE DEF c2
<1>10. Unread' \in Seq(Byte) BY <1>6, <1>8, <1>9, ConcatProperties
<1>11. Unread = bytes \o Unread'
  <2>1. Unread = socket BY <1>1, ConcatEmptySeq DEF Unread
  <2>2. (bytes \o c2) \o left = bytes \o (c2 \o left)
    <3>1. bytes \in Seq(Byte) /\ c2 \in Seq(Byte) /\ left \in Seq(Byte) BY <1>6, <1>8
    <3> QED BY ONLY <3>1, ConcatAssociative
  <2> QED BY <1>6, <1>8, <1>9, <2>1, <2>2
<1>12. Len(bytes) < rem_size => Contents(rb') = <<>> BY <1>4, <1>8 DEF c2
<1>13. socket' \in Seq(Byte) BY <1>4, <1>6
<1> QED BY <1>1, <1>4, <1>8, <1>10, <1>11, <1>12, <1>13, PartStep

\* The last part waits for what is still wanted, and ends the call of tcpclient_read.
LEMMA BlockingStep ==
  ASSUME Inv, Blocking PROVE Inv' /\ [Reader!Next]_<<InFlight, result>>
<1>1. pc # "idle" /\ rb \in Ring /\ socket \in Seq(Byte) /\ Contents(rb) = <<>>
  BY DEF Blocking, Inv, TypeOK, NoEnds
<1>2. /\ userbuf \in Seq(Byte) /\ Len(userbuf) \in Nat /\ limit \in Nat
      /\ Len(userbuf) < limit /\ pushed_back = NoByte /\ rem_size \in Nat \ {0}
      /\ \/ op = "readline" /\ limit \in BufSizes /\ rem_size = 1
         \/ op = "read" /\ limit \in ReadSizes /\ rem_size = limit - Len(userbuf)
  BY <1>1, Running
<1> DEFINE n == AtMost(Len(socket), rem_size)
           bytes == SubSeq(socket, 1, n)
           rest == SubSeq(socket, n + 1, Len(socket))
<1>3. rb' = rb /\ socket' = rest /\ op' = op /\ limit' = limit /\ sent' = sent
      /\ Obtained(bytes)
  BY DEF Blocking, call
<1>4. n \in 0 .. Len(socket) /\ n <= rem_size /\ (n < rem_size => n = Len(socket))
  BY <1>1, <1>2 DEF AtMost
<1> HIDE DEF n
<1>5. bytes \in Seq(Byte) /\ rest \in Seq(Byte) /\ Len(bytes) = n
      /\ Len(rest) = Len(socket) - n /\ bytes \o rest = socket
  BY <1>1, <1>4, CutJoin
<1> HIDE DEF bytes, rest
<1>6. Len(bytes) < rem_size => rest = <<>>
  <2> SUFFICES ASSUME Len(bytes) < rem_size PROVE rest = <<>> OBVIOUS
  <2>1. Len(rest) = 0 BY <1>1, <1>4, <1>5
  <2> QED BY <1>5, <2>1, EmptySeq
<1>7. Unread = bytes \o rest /\ Unread' = rest
  BY <1>1, <1>3, <1>5, ConcatEmptySeq DEF Unread
<1>8. rb' \in Ring /\ socket' \in Seq(Byte) BY <1>1, <1>3, <1>5
<1>9. CASE op = "readline"
  <2>1. limit \in BufSizes /\ Len(bytes) <= 1 BY <1>2, <1>4, <1>5, <1>9
  <2>2. bytes = <<>> => rest = <<>> BY <1>2, <1>6, <1>9
  <2>3. \A i \in 1 .. Len(userbuf) : userbuf[i] \notin Linefeeds BY <1>9 DEF Inv, NoEnds
  <2>4. result \in Results BY DEF Inv, TypeOK
  <2>5. LineGets(bytes) BY <1>3, <1>9 DEF Obtained
  <2>6. /\ LineOK' /\ pc' \in {"idle", "buffer"}
        /\ [Reader!Next]_<<InFlight, result>>
    BY <1>2, <1>3, <1>5, <1>7, <1>9, <2>1, <2>2, <2>3, <2>4, <2>5, LineStep
  <2> QED BY <1>1, <1>3, <1>8, <1>9, <2>1, <2>6, LineKeepsInv DEF call
<1>10. CASE op = "read"
  <2>1. limit \in ReadSizes /\ rem_size = limit - Len(userbuf) BY <1>2, <1>10
  <2>2. Len(bytes) \in Nat BY <1>5
  <2>3. Len(userbuf) + Len(bytes) <= limit BY <1>2, <1>4, <1>5, <2>1, <2>2
  <2>4. Len(userbuf) + Len(bytes) < limit => rest = <<>> BY <1>2, <1>6, <2>1, <2>2
  <2>5. /\ pc' = "idle" /\ userbuf' = <<>> /\ pushed_back' = NoByte /\ result' \in Results
        /\ Reader!Next
    BY <1>2, <1>3, <1>5, <1>7, <1>10, <2>1, <2>3, <2>4, RawOver
  <2>6. Inv' BY <1>2, <1>3, <1>8, <2>5, ByteAssumption DEF Inv, TypeOK, NoEnds
  <2> QED BY <2>5, <2>6
<1> QED BY <1>2, <1>9, <1>10

\* A byte that arrives goes to the end of what is in flight.
LEMMA ArriveStep ==
  ASSUME Inv, NEW b \in Byte, Arrive(b)
  PROVE  Inv' /\ [Reader!Next]_<<InFlight, result>>
<1>1. rb \in Ring /\ socket \in Seq(Byte) /\ userbuf \in Seq(Byte) /\ PushedBack \in Seq(Byte)
  BY DEF Inv, TypeOK, PushedBack
<1>2. socket' = socket \o <<b>> /\ <<b>> \in Seq(Byte) BY <1>1 DEF Arrive
<1>3. Unread \in Seq(Byte) /\ Unread' = Unread \o <<b>>
  <2>1. Contents(rb) \in Seq(Byte) BY <1>1, ContentsType
  <2>2. (Contents(rb) \o socket) \o <<b>> = Contents(rb) \o (socket \o <<b>>)
    <3>1. socket \in Seq(Byte) BY <1>1
    <3> QED BY ONLY <1>2, <2>1, <3>1, ConcatAssociative
  <2>3. Unread' = Contents(rb) \o (socket \o <<b>>) BY <1>2 DEF Unread, Arrive
  <2>4. Contents(rb) \o socket \in Seq(Byte) BY <1>1, <2>1, ConcatProperties
  <2> QED BY <2>2, <2>3, <2>4 DEF Unread
<1>4. InFlight \in Seq(Byte) /\ InFlight' = InFlight \o <<b>>
  <2> DEFINE kept == PushedBack \o Unread
  <2>1. kept \in Seq(Byte) BY <1>1, <1>3, ConcatProperties
  <2>2. kept \o <<b>> = PushedBack \o (Unread \o <<b>>)
    <3>1. PushedBack \in Seq(Byte) /\ Unread \in Seq(Byte) /\ <<b>> \in Seq(Byte)
      BY <1>1, <1>2, <1>3
    <3> QED BY ONLY <3>1, ConcatAssociative
  <2>3. InFlight = userbuf \o kept BY DEF InFlight
  <2>4. InFlight' = userbuf \o (kept \o <<b>>)
    BY <1>3, <2>2 DEF InFlight, PushedBack, Arrive
  <2> HIDE DEF kept
  <2>5. (userbuf \o kept) \o <<b>> = userbuf \o (kept \o <<b>>)
    <3>1. userbuf \in Seq(Byte) /\ <<b>> \in Seq(Byte) BY <1>1, <1>2
    <3> QED BY ONLY <2>1, <3>1, ConcatAssociative
  <2>6. userbuf \o kept \in Seq(Byte) BY <1>1, <2>1, ConcatProperties
  <2> QED BY <2>3, <2>4, <2>5, <2>6
<1>5. InFlight' = Append(InFlight, b) BY <1>4
<1>6. Reader!Arrive(b) BY <1>5 DEF Reader!Arrive, Arrive
<1>7. Inv'
  <2>1. sent' \in 0 .. MaxSent BY CallAssumption DEF Inv, TypeOK, Arrive
  <2>2. socket' \in Seq(Byte) BY <1>1, <1>2, ConcatProperties
  <2> QED BY <2>1, <2>2 DEF Inv, TypeOK, NoEnds, Arrive, call
<1> QED BY <1>6, <1>7 DEF Reader!Next, Reader!Reads

\* A connection that was just opened.
LEMMA OpenInit == Init => Inv /\ Reader!Init
<1> SUFFICES ASSUME Init PROVE Inv /\ Reader!Init OBVIOUS
<1>1. rb \in Ring /\ Contents(rb) = <<>> BY ClearedEmpty DEF Init
<1>2. Unread = <<>> BY <1>1 DEF Unread, Init
<1>3. InFlight = <<>> BY <1>2 DEF InFlight, PushedBack, Init
<1>4. NoByte \notin Linefeeds BY ByteAssumption
<1>5. sent \in 0 .. MaxSent BY CallAssumption DEF Init
<1>6. result \in Results BY DEF Init, Results
<1>7. Inv BY <1>1, <1>4, <1>5, <1>6 DEF Inv, TypeOK, NoEnds, Init
<1> QED BY <1>3, <1>7 DEF Reader!Init, Init

\* Every step of the client is a step of the abstract reader or shows nothing.
LEMMA ClientStep ==
  ASSUME Inv, RawAnytime = FALSE, [Next]_vars
  PROVE  Inv' /\ [Reader!Next]_<<InFlight, result>>
<1>1. CASE UNCHANGED vars
  <2>1. /\ UNCHANGED <<rb, pushed_back, socket, pc, op, limit, userbuf, result, sent>>
    BY <1>1 DEF vars, call
  <2>2. InFlight' = InFlight BY <2>1 DEF InFlight, PushedBack, Unread
  <2> QED BY <2>1, <2>2 DEF Inv, TypeOK, NoEnds
<1> QED BY <1>1, CallStep, RawCallStep, FromBufferStep, FromSocketStep, BlockingStep, ArriveStep
        DEF Next, Client

\* The fields of urg_tcpclient_t keep their types and the line buffer is never
\* overrun, whatever the sensor sends and however the recv calls cut it up.
THEOREM TcpTypeCorrect ==
  ASSUME RawAnytime = FALSE PROVE Spec => []TypeOK
<1>1. Init => Inv BY OpenInit
<1>2. Inv /\ [Next]_vars => Inv' BY ClientStep
<1>3. Inv => TypeOK BY DEF Inv
<1> QED BY <1>1, <1>2, <1>3, PTL DEF Spec

\* The reads of lines and of bytes keep the promise of urg_connection.h: every byte
\* in its order, once, lines cut at their ends or at the size of the buffer.
THEOREM TcpReadsInOrder ==
  ASSUME RawAnytime = FALSE PROVE Spec => ReadsInOrder
<1>1. Init => Inv /\ Reader!Init BY OpenInit
<1>2. Inv /\ [Next]_vars => Inv' /\ [Reader!Next]_<<InFlight, result>>
  BY ClientStep
<1> QED BY <1>1, <1>2, PTL DEF Spec, ReadsInOrder, Reader!Spec, Reader!vars
=============================================================================
