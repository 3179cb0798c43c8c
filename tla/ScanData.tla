------------------------------- MODULE ScanData -------------------------------
(***************************************************************************)
(* One scan on its way into the application's arrays: the parameters of    *)
(* the measurement (urg_set_scanning_parameter, urg_start_measurement),    *)
(* the echoback that tells them (parse_distance_echoback), the characters  *)
(* of the data lines (receive_length_data) and the conversions by which    *)
(* the application finds out where a point was measured (urg_utils.c).     *)
(* All in src/current/src.  Commands, status and time stamp lines are      *)
(* those of ScipSession and left out here.                                 *)
(***************************************************************************)
EXTENDS Integers, Sequences, FiniteSets

CONSTANTS
  first_data_index, last_data_index, front_data_index,   \* AMIN, AMAX, AFRT of PP
  LineChars,      \* characters of data in a full line, without the checksum (64)
  Areas,          \* arguments of urg_set_scanning_parameter: <<first, last, skip>>
  MeasuredTypes,  \* measurement types the application asks for
  MaxComing,      \* bound: measurements whose scans are on their way
  MaxFaults       \* bound: lines lost or garbled

URG_MAX_ECHO == 3
BUFFER_SIZE  == LineChars + 2 + 6

Types       == {"distance", "intensity", "multiecho", "multiecho_intensity"}
Multiechoes == {"multiecho", "multiecho_intensity"}
Intensities == {"intensity", "multiecho_intensity"}

ASSUME IndexAssumption  == /\ first_data_index \in Nat /\ last_data_index \in Nat
                           /\ front_data_index \in Nat
                           /\ first_data_index <= front_data_index
                           /\ front_data_index <= last_data_index
ASSUME LineAssumption   == LineChars \in Nat \ {0}
ASSUME ChoiceAssumption == /\ Areas \subseteq Int \X Int \X Int
                           /\ MeasuredTypes \subseteq Types
ASSUME BoundAssumption  == MaxComing \in Nat /\ MaxFaults \in Nat

VARIABLES
  scanning_first_step, scanning_last_step, scanning_skip_step, range_data_byte,
  received,       \* received_first_index, .. last_index, .. skip_step, .. range_data_byte
  ignore_checkSumError,
  coming,         \* measurements whose scans come next, the oldest first
  pc, lines,      \* where receive_length_data is, the lines it has not read
  scan, got,      \* the scan read last (as sent, and whether its checksums count), and
                  \* what receive_length_data returned for it
  buffer,         \* the line_filled characters of it
  step_filled, multiecho_index,
  length, intensity,   \* the part of the application's arrays written by this call
  lost, garbled

parameters == <<scanning_first_step, scanning_last_step, scanning_skip_step,
                range_data_byte, ignore_checkSumError>>
locals     == <<buffer, step_filled, multiecho_index, length, intensity>>
vars       == <<parameters, received, coming, pc, lines, scan, got, locals,
                lost, garbled>>

Max2(a, b) == IF a > b THEN a ELSE b
Min2(a, b) == IF a < b THEN a ELSE b

\* The characters are what urg_scip_decode makes of them: code - 0x30
AMPERSAND == -10
Digit     == 0 .. 63

\* urg_scip_decode: six bits per character; a negative one, or-ed in, sets all
\* bits above it
Decoded(chars) ==
  LET value[i \in 0 .. Len(chars)] ==
        IF i = 0 THEN 0
        ELSE IF chars[i] < 0 THEN chars[i]
        ELSE value[i - 1] * 64 + chars[i]
  IN value[Len(chars)]

\* The conversion to unsigned short, which the intensities are
UShort(n) == n % 2 ^ 16

(***************************************************************************)
(* The conversions of urg_utils.c.  An angle stands for the step it is.    *)
(***************************************************************************)
urg_max_data_size == last_data_index + 1

Clamped(index) == Min2(Max2(0, index), last_data_index)

\* A wrong form of the next definition: the grouping is forgotten
urg_index2rad_ungrouped(index) ==
  Clamped(index) - front_data_index + received.first

urg_index2rad(index) ==
  Clamped(index) * Max2(1, scanning_skip_step) - front_data_index + received.first

\* A wrong form of the next definition: counted from the first step of the sensor
urg_step2index_absolute(step) == Clamped(step + front_data_index)

urg_step2index(step) == Clamped(step - received.first + front_data_index)

(***************************************************************************)
(* The scans, as the sensor sends them.                                    *)
(***************************************************************************)
Command == [type : Types, first : Int, last : Int, skip : Int, byte : {2, 3}]

\* The indices of the last point and echo of a measurement, from 0
LastPoint(c) == (c.last - c.first) \div Max2(1, c.skip)

\* The characters of a value; each differs from its neighbours
Digits(c, point, echo, kind) ==
  [i \in 1 .. c.byte |-> (8 * point + 2 * echo + kind + 21 * i) % 64]

Reading(c, point, echo) ==
  (IF echo > 0 THEN <<AMPERSAND>> ELSE <<>>)
    \o Digits(c, point, echo, 0)
    \o (IF c.type \in Intensities THEN Digits(c, point, echo, 1) ELSE <<>>)

\* The first n texts of parts, one behind the other
Joined(parts) ==
  LET upTo[n \in 0 .. Len(parts)] == IF n = 0 THEN <<>> ELSE upTo[n - 1] \o parts[n]
  IN upTo

\* The first n echoes of a point; and all points of a scan, of which point p has
\* echoes[p] echoes
PointText(c, p) == Joined([e \in 1 .. URG_MAX_ECHO |-> Reading(c, p, e - 1)])

Points(c, echoes) ==
  Joined([p \in 1 .. LastPoint(c) + 1 |-> PointText(c, p - 1)[echoes[p - 1]]])

Text(c, echoes) == Points(c, echoes)[LastPoint(c) + 1]

\* A line is its characters of data; the checksum behind them is right or not.
\* The empty line that ends the message has neither.
Line    == [chars : Seq(Int), sum : BOOLEAN]
EndLine == [chars |-> <<>>, sum |-> TRUE]

LineCount(text) == (Len(text) + LineChars - 1) \div LineChars

InLines(text) ==
  [i \in 1 .. LineCount(text) |->
    [chars |-> SubSeq(text, (i - 1) * LineChars + 1, Min2(i * LineChars, Len(text))),
     sum   |-> TRUE]] \o <<EndLine>>

(***************************************************************************)
(* The application between two calls.                                      *)
(***************************************************************************)
Idle == pc = "ready" /\ UNCHANGED <<pc, lines, scan, got, locals, lost, garbled>>

\* Two wrong forms of the next definition: the last step is not looked at, the
\* grouping has no limit
OutOfRangeFirst(first, last, skip) ==
  skip < 0 \/ skip >= 100 \/ first > last \/ first < -front_data_index

OutOfRangeSteps(first, last, skip) ==
  \/ first > last \/ first < -front_data_index
  \/ last > last_data_index - front_data_index

OutOfRange(first, last, skip) ==
  \/ skip < 0 \/ skip >= 100
  \/ first > last
  \/ first < -front_data_index
  \/ last > last_data_index - front_data_index

urg_set_scanning_parameter ==
  /\ Idle
  /\ \E a \in Areas :
       /\ ~OutOfRange(a[1], a[2], a[3])      \* otherwise nothing but the error code changes
       /\ scanning_first_step' = a[1]
       /\ scanning_last_step' = a[2]
       /\ scanning_skip_step' = a[3]
  /\ UNCHANGED <<range_data_byte, ignore_checkSumError, received, coming>>

urg_set_measurement_data_size ==
  /\ Idle
  /\ range_data_byte' \in {2, 3}
  /\ UNCHANGED <<scanning_first_step, scanning_last_step, scanning_skip_step,
                 ignore_checkSumError, received, coming>>

\* The command of urg_start_measurement and send_distance_command.  Only plain
\* distances are sent in two bytes.  The sensor takes a command while it measures;
\* scans of the measurement before may still be on their way.
urg_start_measurement ==
  /\ Idle
  /\ Len(coming) < MaxComing
  /\ \E t \in MeasuredTypes, ic \in {0, 1} :
       /\ ignore_checkSumError' = ic
       /\ coming' = Append(coming,
            [type  |-> t,
             first |-> scanning_first_step + front_data_index,
             last  |-> scanning_last_step + front_data_index,
             skip  |-> scanning_skip_step,
             byte  |-> IF t = "distance" THEN range_data_byte ELSE 3])
  /\ UNCHANGED <<scanning_first_step, scanning_last_step, scanning_skip_step,
                 range_data_byte, received>>

\* urg_stop_measurement, which leaves nothing to be read (ScipSession, StopSynced)
urg_stop_measurement ==
  /\ Idle
  /\ coming # <<>> /\ coming' = <<>>
  /\ UNCHANGED <<parameters, received>>

\* The scans of the older measurement have all been read
Overtaken ==
  /\ Idle
  /\ Len(coming) > 1 /\ coming' = Tail(coming)
  /\ UNCHANGED <<parameters, received>>

\* receive_data up to receive_length_data: parse_distance_echoback stores the
\* parameters of the scan that follows, whatever the application asked for last.
receive_data ==
  /\ pc = "ready" /\ coming # <<>>
  /\ LET c == Head(coming) IN
     /\ received' = [first |-> c.first, last |-> c.last, skip |-> c.skip, byte |-> c.byte]
     /\ \E echoes \in [0 .. LastPoint(c) -> 1 .. IF c.type \in Multiechoes
                                                 THEN URG_MAX_ECHO ELSE 1] :
          /\ scan' = [cmd |-> c, echoes |-> echoes, checked |-> ignore_checkSumError = 0]
          /\ lines' = InLines(Text(c, echoes))
  /\ pc' = "line" /\ got' = 0
  /\ buffer' = <<>> /\ step_filled' = 0 /\ multiecho_index' = 0
  /\ length' = <<>> /\ intensity' = <<>>
  /\ lost' = 0 /\ garbled' = 0
  /\ UNCHANGED <<parameters, coming>>

(***************************************************************************)
(* receive_length_data.                                                    *)
(***************************************************************************)
each_size          == received.byte
data_size          == IF scan.cmd.type \in Intensities THEN 2 * each_size ELSE each_size
is_multiecho       == scan.cmd.type \in Multiechoes
multiecho_max_size == IF is_multiecho THEN URG_MAX_ECHO ELSE 1

Returns(n) == pc' = "returned" /\ got' = n

\* ignore_receive_data_with_qt and an error: the measurement is over
Aborts == /\ Returns(-1)
          /\ coming' = <<>> /\ lines' = <<>>

\* connection_readline into what is left of the buffer.  A line that does not fit
\* with its checksum and the final zero is read in parts; the last character read
\* counts as the checksum.
ReadLine ==
  /\ pc = "line"
  /\ LET line == Head(lines)
         room == BUFFER_SIZE - Len(buffer)
         fits == Len(line.chars) + 1 < room
         n    == IF line.chars = <<>> THEN 0
                 ELSE IF fits THEN Len(line.chars) + 1 ELSE room - 1
     IN
     IF n > 0 /\ ~(line.sum /\ fits) /\ ignore_checkSumError = 0
     THEN Aborts /\ UNCHANGED buffer
     ELSE IF n = 0
     THEN Returns(step_filled) /\ lines' = <<>> /\ UNCHANGED <<coming, buffer>>
     ELSE /\ buffer' = buffer \o SubSeq(line.chars, 1, n - 1)
          /\ lines' = IF fits THEN Tail(lines)
                      ELSE [lines EXCEPT ![1].chars = SubSeq(@, n + 1, Len(@))]
          /\ pc' = "decode" /\ UNCHANGED <<coming, got>>
  /\ UNCHANGED <<parameters, received, scan, step_filled, multiecho_index,
                 length, intensity, lost, garbled>>

Marked == buffer # <<>> /\ Head(buffer) = AMPERSAND

\* A wrong form of the next definition: one character more is waited for
CompleteLate == Len(buffer) >= data_size /\ (Marked => Len(buffer) - 1 > data_size)

Complete == Len(buffer) >= data_size /\ (Marked => Len(buffer) - 1 >= data_size)

\* array with the values of another function on that one's domain
Stored(array, values) ==
  [i \in DOMAIN array \cup DOMAIN values |->
     IF i \in DOMAIN values THEN values[i] ELSE array[i]]

\* One value at index, and the places of the echoes that may follow it cleared
Cells(index, echo, value) ==
  [i \in {index} \cup (IF is_multiecho /\ echo = 0
                       THEN index + 1 .. index + multiecho_max_size - 1 ELSE {}) |->
     IF i = index THEN value ELSE 0]

\* One turn of the inner loop: '&' marks a further echo of the point before
Decode ==
  /\ pc = "decode" /\ Complete
  /\ LET text  == IF Marked THEN Tail(buffer) ELSE buffer
         step  == IF Marked THEN step_filled - 1 ELSE step_filled
         echo  == IF Marked THEN multiecho_index + 1 ELSE 0
         index == step * multiecho_max_size + echo
     IN
     /\ multiecho_index' = echo
     /\ IF step > received.last - received.first
        THEN Aborts /\ UNCHANGED <<buffer, step_filled, length, intensity>>
        ELSE /\ buffer' = SubSeq(text, data_size + 1, Len(text))
             /\ step_filled' = step + 1
             /\ length' = Stored(length,
                  Cells(index, echo, Decoded(SubSeq(text, 1, each_size))))
             /\ intensity' = IF scan.cmd.type \notin Intensities THEN intensity
                  ELSE Stored(intensity, Cells(index, echo,
                         UShort(Decoded(SubSeq(text, each_size + 1, data_size)))))
             /\ UNCHANGED <<pc, got, coming, lines>>
  /\ UNCHANGED <<parameters, received, scan, lost, garbled>>

\* A wrong form of the next definition: the characters left over are dropped
CarryNothing ==
  /\ pc = "decode" /\ ~Complete
  /\ pc' = "line" /\ buffer' = <<>>
  /\ UNCHANGED <<parameters, received, coming, lines, scan, got, step_filled,
                 multiecho_index, length, intensity, lost, garbled>>

\* The end of the inner loop: what is left goes to the front of the buffer
Carry ==
  /\ pc = "decode" /\ ~Complete
  /\ pc' = "line"
  /\ UNCHANGED <<parameters, received, coming, lines, scan, got, locals,
                 lost, garbled>>

\* The application has used the arrays; the parameters stay
Used ==
  /\ pc = "returned" /\ pc' = "ready"
  /\ scan' = [scan EXCEPT !.echoes = <<>>]
  /\ buffer' = <<>> /\ step_filled' = 0 /\ multiecho_index' = 0
  /\ length' = <<>> /\ intensity' = <<>> /\ garbled' = 0
  /\ UNCHANGED <<parameters, received, coming, lines, got, lost>>

(***************************************************************************)
(* The cable.                                                              *)
(***************************************************************************)
Fault == /\ pc = "line" /\ Head(lines) # EndLine
         /\ lost + garbled < MaxFaults
         /\ UNCHANGED <<parameters, received, coming, pc, scan, got, locals>>

Lose   == Fault /\ lines' = Tail(lines) /\ lost' = lost + 1 /\ UNCHANGED garbled

\* A character becomes another one, the checksum does not hold any more
Garble ==
  /\ Fault /\ garbled' = garbled + 1 /\ UNCHANGED lost
  /\ \E i \in DOMAIN Head(lines).chars, ch \in {0, AMPERSAND} :
       /\ ch # Head(lines).chars[i]
       /\ lines' = [lines EXCEPT ![1].sum = FALSE, ![1].chars[i] = ch]

(***************************************************************************)
(* The specification.                                                      *)
(***************************************************************************)
\* What urg_open leaves behind: the whole range of the sensor, three bytes.  The
\* received parameters are whatever the memory of urg_t held.
Init ==
  /\ scanning_first_step = first_data_index - front_data_index
  /\ scanning_last_step = last_data_index - front_data_index
  /\ scanning_skip_step = 1 /\ range_data_byte = 3
  /\ ignore_checkSumError = 1
  /\ received \in [first : {0, last_data_index}, last : {0}, skip : {0}, byte : {3}]
  /\ coming = <<>> /\ pc = "ready" /\ lines = <<>>
  /\ scan = [cmd |-> [type |-> "distance", first |-> 0, last |-> 0, skip |-> 0, byte |-> 3],
             echoes |-> <<>>, checked |-> FALSE]
  /\ got = -1
  /\ buffer = <<>> /\ step_filled = 0 /\ multiecho_index = 0
  /\ length = <<>> /\ intensity = <<>>
  /\ lost = 0 /\ garbled = 0

Next ==
  \/ urg_set_scanning_parameter \/ urg_set_measurement_data_size
  \/ urg_start_measurement \/ urg_stop_measurement \/ Overtaken
  \/ receive_data \/ ReadLine \/ Decode \/ Carry \/ Used
  \/ Lose \/ Garble

Spec == Init /\ [][Next]_vars

(***************************************************************************)
(* Properties.                                                             *)
(***************************************************************************)
\* The variables keep their types.
TypeOK ==
  /\ scanning_first_step \in Int /\ scanning_last_step \in Int
  /\ scanning_skip_step \in 0 .. 99 /\ range_data_byte \in {2, 3}
  /\ received \in [first : Int, last : Int, skip : Int, byte : {2, 3}]
  /\ ignore_checkSumError \in {0, 1}
  /\ coming \in Seq(Command)
  /\ pc \in {"ready", "line", "decode", "returned"} /\ lines \in Seq(Line)
  /\ scan.cmd \in Command /\ got \in Int
  /\ buffer \in Seq(Int) /\ step_filled \in Int /\ multiecho_index \in Nat
  /\ lost \in Nat /\ garbled \in Nat

\* However a scan is cut into lines, garbled or shortened, the characters carried
\* over from one line leave room for the next one with its checksum and the final
\* zero: no line of data is ever read in parts (BUFFER_SIZE, "64 + 2 + 6").
LinesFit == pc = "line" => Len(buffer) + LineChars + 2 <= BUFFER_SIZE

\* Every character of the scan has arrived as it was sent.
Unharmed == lost = 0 /\ garbled = 0

\* The arrays have the size the headers ask for, three times as long for echoes.
Places == 0 .. urg_max_data_size * multiecho_max_size - 1

\* Nothing is written outside the application's arrays, although their size comes
\* from the sensor's parameters and the number of points from the echoback of the
\* scan being read.  Lines lost or garbled do no harm as long as no echoes are
\* measured and no other character turns into the mark of an echo.
InBounds ==
  (Unharmed \/ (garbled = 0 /\ ~is_multiecho))
    => DOMAIN length \subseteq Places /\ DOMAIN intensity \subseteq Places

\* What was measured of an echo of a point: its distance, its intensity
Measured(kind, p, e) ==
  LET value == Decoded(Digits(scan.cmd, p, e, kind))
  IN IF kind = 1 THEN UShort(value) ELSE value

\* An array holds the value of each point and echo, and 0 where there is no such echo
Held(array, kind) ==
  \A p \in 0 .. LastPoint(scan.cmd), e \in 0 .. multiecho_max_size - 1 :
    array[p * multiecho_max_size + e] = IF e < scan.echoes[p] THEN Measured(kind, p, e) ELSE 0

\* A scan that is reported has all its points, each at its place with each of its
\* echoes, wherever the lines were cut.  With the checksums checked this holds
\* for garbled lines as well: such a scan is never reported.
PointsInPlace ==
  (pc = "returned" /\ got >= 0 /\ lost = 0 /\ (garbled > 0 => scan.checked))
    => /\ got = LastPoint(scan.cmd) + 1
       /\ Held(length, 0)
       /\ scan.cmd.type \in Intensities => Held(intensity, 1)

\* The step at which point index of the scan read last was measured
StepOf(index) ==
  scan.cmd.first + index * Max2(1, scan.cmd.skip) - front_data_index

\* urg_index2rad gives the angle of each point of "the last array of measurement
\* data read from the sensor" (urg_utils.h), whatever was asked for since.
IndexIsLastScan ==
  (pc = "ready" /\ got > 0 /\ lost = 0) => \A i \in 0 .. got - 1 : urg_index2rad(i) = StepOf(i)

\* It does so, whatever the area asked for since, as long as the grouping has not
\* been changed.
IndexWithoutRegrouping == scanning_skip_step = scan.cmd.skip => IndexIsLastScan

\* urg_step2index finds each point of the scan read last by its step, as long as
\* points are not grouped: also after new parameters were set or sent.
StepsFindPoints ==
  (pc = "ready" /\ got > 0 /\ lost = 0 /\ received.skip <= 1)
    => \A i \in 0 .. got - 1 : urg_step2index(StepOf(i)) = i
=============================================================================
