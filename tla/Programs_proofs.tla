---------------------------- MODULE Programs_proofs ----------------------------
(***************************************************************************)
(* What the driver and the samples promise, for every number of scans,     *)
(* whatever is lost, and all sensors, callers and bounds: texts of the     *)
(* sensor that is connected, as many scans as were asked for, and a laser  *)
(* that is off at the end.  And what a sample and its sensor talk about:   *)
(* data for the buffers they are read into, answers to what was asked, a   *)
(* scan for each get, a clock set by times only.                           *)
(***************************************************************************)
EXTENDS Programs, ScipSession_proofs, FiniteSetTheorems, TLAPS

(***************************************************************************)
(* The texts of the driver.                                                *)
(***************************************************************************)
\* A text that was read is one of the sensor opened last, whether the session is
\* still open or not.
TextsInv == /\ texts \in [TextNames -> Devices \cup {"empty", "error", "none"}]
            /\ device \in Devices \cup {"none"}
            /\ \A t \in TextNames : texts[t] \in Devices => texts[t] = device

\* open forgets the texts, whether it then finds a sensor or not.
LEMMA OpenForgets ==
  ASSUME TextsInv, NEW d \in Devices, Open(d)
  PROVE  TextsInv'
<1>1. texts' = [t \in TextNames |-> "empty"] BY DEF Open
<1>2. device' = d \/ device' = device BY DEF Open, urg_open
<1>3. "empty" \notin Devices BY DriverAssumption
<1> QED BY <1>1, <1>2, <1>3 DEF TextsInv

\* A text is stored while the sensor it comes from is the one connected.
LEMMA TextStored ==
  ASSUME TextsInv, SimpleReturns
  PROVE  TextsInv'
<1>1. device' = device BY DEF SimpleReturns
<1>2. CASE method.name \in TextNames
  <2>1. PICK text \in {device, "error"} : texts' = [texts EXCEPT ![method.name] = text]
    BY <1>2 DEF SimpleReturns
  <2>2. "error" \notin Devices BY DriverAssumption
  <2> QED BY <1>1, <1>2, <2>1, <2>2 DEF TextsInv
<1>3. CASE method.name \notin TextNames
  <2>1. texts' = texts BY <1>3 DEF SimpleReturns
  <2> QED BY <1>1, <2>1 DEF TextsInv
<1> QED BY <1>2, <1>3

\* Nothing else changes a text or the sensor.
LEMMA TextsStep ==
  ASSUME TextsInv, [Next_]_pvars
  PROVE  TextsInv'
<1> DEFINE Kept == texts' = texts /\ device' = device
<1>1. Kept => TextsInv' BY DEF TextsInv
<1>2. CASE StepBegins
  <2> DEFINE s == Body[program][place]
  <2>1. CASE \E d \in Devices : Open(d) BY <2>1, OpenForgets
  <2>2. CASE PerformInC(s)
    <3>1. Kept BY <2>2 DEF PerformInC, InLibrary, members
    <3> QED BY <1>1, <3>1
  <2>3. CASE PerformInCpp(s)
    <3>1. Kept
      BY <2>3 DEF PerformInCpp, start_measurement, get, simple, set_sensor_time_stamp,
                  DriverClose, members
    <3> QED BY <1>1, <3>1
  <2> QED BY <1>2, <2>1, <2>2, <2>3 DEF StepBegins
<1>3. CASE StepEnds \/ RunsOut
  <2>1. Kept BY <1>3 DEF StepEnds, RunsOut, dvars, driver, members
  <2> QED BY <1>1, <2>1
<1>4. CASE Closes
  <2>1. Kept BY <1>4 DEF Closes, DriverClose, dvars, driver, members
  <2> QED BY <1>1, <2>1
<1>5. CASE LibraryReturns
  <2>1. Kept BY <1>5 DEF LibraryReturns, members
  <2> QED BY <1>1, <2>1
<1>6. CASE CallerCalls
  <2>1. CASE \E d \in Devices : Open(d) BY <2>1, OpenForgets
  <2>2. CASE ~(\E d \in Devices : Open(d))
    <3>1. Kept
      BY <1>6, <2>2 DEF CallerCalls, start_measurement, start_refused, get, simple,
                        set_sensor_time_stamp, OpenBegins, DriverClose, members
    <3> QED BY <1>1, <3>1
  <2> QED BY <2>1, <2>2
<1>7. CASE Runs
  <2>1. CASE \E d \in Devices : Open(d) BY <2>1, OpenForgets
  <2>2. CASE SimpleReturns BY <2>2, TextStored
  <2>3. CASE ~(\E d \in Devices : Open(d)) /\ ~SimpleReturns
    <3>1. Kept
      BY <1>7, <2>3 DEF Runs, StartReturns, GetReturns, CloseReturns, ReadClock,
                        LeaveStampMode, SetStampReturns, driver, members
    <3> QED BY <1>1, <3>1
  <2> QED BY <2>1, <2>2, <2>3
<1>8. CASE World
  <2>1. Kept BY <1>8 DEF World, driver, members
  <2> QED BY <1>1, <2>1
<1>9. CASE UNCHANGED pvars
  <2>1. Kept BY <1>9 DEF pvars, dvars, driver, members
  <2> QED BY <1>1, <2>1
<1> QED BY <1>2, <1>3, <1>4, <1>5, <1>6, <1>7, <1>8, <1>9 DEF Next_, ProgramStep

\* The texts the driver keeps were read from the sensor that is connected, for
\* all sensors and callers, whatever is lost on the way.
THEOREM TextsStayCurrent == ProgramSpec => []TextsAreCurrent
<1>1. Init_ => TextsInv
  <2>1. "empty" \notin Devices BY DriverAssumption
  <2> QED BY <2>1 DEF Init_, DriverInit, TextsInv
<1>2. TextsInv /\ [Next_]_pvars => TextsInv' BY TextsStep
<1>3. TextsInv => TextsAreCurrent BY DEF TextsInv, TextsAreCurrent
<1> QED BY <1>1, <1>2, <1>3, PTL DEF ProgramSpec

(***************************************************************************)
(* The tables.                                                             *)
(***************************************************************************)
Names  == {"open", "malloc", "start_measurement", "get", "raw_read", "reboot", "status", "state",
           "start_time_stamp_mode", "get_sensor_time_stamp", "stop_time_stamp_mode",
           "set_sensor_time_stamp", "close"} \cup TextNames
Calls_ == [do : Names, type : MeasureTypes \cup {"none"}, times : Int,
           fail : {"ignore", "skip", "close", "leave"}]

\* A program closes and ends when a get fails, and never skips one.
GetsCount(body) ==
  /\ body \in Seq(Calls_)
  /\ \A i \in 1 .. Len(body) :
       /\ body[i].do = "get" => body[i].fail = "close"
       /\ body[i].fail = "skip" => i < Len(body) /\ body[i + 1].do # "get"

\* One call.
LEMMA OneCall ==
  ASSUME NEW s \in Calls_, s.do = "get" => s.fail = "close", s.fail # "skip"
  PROVE  GetsCount(<<s>>)
BY DEF GetsCount

\* Calls made one after the other.
LEMMA CallsJoined ==
  ASSUME NEW a, NEW b, GetsCount(a), GetsCount(b)
  PROVE  GetsCount(a \o b)
<1>1. a \in Seq(Calls_) /\ b \in Seq(Calls_) BY DEF GetsCount
<1> DEFINE c == a \o b
           m == Len(a)
           n == Len(b)
<1>2. /\ c \in Seq(Calls_) /\ m \in Nat /\ n \in Nat /\ Len(c) = m + n
      /\ \A i \in 1 .. m + n : c[i] = IF i <= m THEN a[i] ELSE b[i - m]
  BY <1>1
<1>3. /\ \A i \in 1 .. m : /\ a[i].do = "get" => a[i].fail = "close"
                           /\ a[i].fail = "skip" => i < m /\ a[i + 1].do # "get"
      /\ \A i \in 1 .. n : /\ b[i].do = "get" => b[i].fail = "close"
                           /\ b[i].fail = "skip" => i < n /\ b[i + 1].do # "get"
  BY DEF GetsCount
<1> HIDE DEF c, m, n
<1>4. ASSUME NEW i \in 1 .. m + n
      PROVE  /\ c[i].do = "get" => c[i].fail = "close"
             /\ c[i].fail = "skip" => i < m + n /\ c[i + 1].do # "get"
  <2>1. CASE i <= m
    <3>1. i \in 1 .. m /\ c[i] = a[i] BY <1>2, <2>1
    <3>2. i < m => i + 1 \in 1 .. m + n /\ c[i + 1] = a[i + 1] /\ i < m + n BY <1>2, <2>1
    <3> QED BY <1>3, <3>1, <3>2
  <2>2. CASE ~(i <= m)
    <3>1. i - m \in 1 .. n /\ c[i] = b[i - m] BY <1>2, <2>2
    <3>2. i - m < n => i + 1 \in 1 .. m + n /\ c[i + 1] = b[(i - m) + 1] /\ i < m + n
      BY <1>2, <2>2
    <3> QED BY <1>3, <3>1, <3>2
  <2> QED BY <2>1, <2>2
<1> QED BY <1>2, <1>4 DEF GetsCount, c

\* A loop over one call.
LEMMA Loop1 ==
  ASSUME NEW s \in Calls_, NEW n \in Nat,
         s.do = "get" => s.fail = "close", s.fail # "skip"
  PROVE  GetsCount(Repeated(<<s>>, n))
<1> DEFINE r == Repeated(<<s>>, n)
<1>1. r = [i \in 1 .. n |-> s]
  <2>1. Len(<<s>>) = 1 /\ n * 1 = n OBVIOUS
  <2>2. \A i \in 1 .. n : <<s>>[((i - 1) % 1) + 1] = s
    <3> TAKE i \in 1 .. n
    <3>1. (i - 1) % 1 = 0 OBVIOUS
    <3> QED BY <3>1
  <2> QED BY <2>1, <2>2 DEF Repeated
<1>2. r \in Seq(Calls_) /\ Len(r) = n BY <1>1
<1> HIDE DEF r
<1>3. GetsCount(r) BY <1>1, <1>2 DEF GetsCount
<1> QED BY <1>3 DEF r

\* A loop over two calls.
LEMMA Loop2 ==
  ASSUME NEW s \in Calls_, NEW t \in Calls_, NEW n \in Nat,
         s.do = "get" => s.fail = "close", s.fail # "skip",
         t.do = "get" => t.fail = "close", t.fail # "skip"
  PROVE  GetsCount(Repeated(<<s, t>>, n))
<1> DEFINE r == Repeated(<<s, t>>, n)
<1>1. /\ r \in Seq(Calls_) /\ Len(r) = n * 2
      /\ \A i \in 1 .. n * 2 : r[i] = s \/ r[i] = t
  <2>1. Len(<<s, t>>) = 2 /\ n * 2 \in Nat OBVIOUS
  <2>2. \A i \in 1 .. n * 2 : (i - 1) % 2 \in {0, 1} OBVIOUS
  <2>3. r = [i \in 1 .. n * 2 |-> <<s, t>>[((i - 1) % 2) + 1]] BY <2>1 DEF Repeated
  <2>4. \A i \in 1 .. n * 2 : r[i] \in {s, t} BY <2>2, <2>3
  <2> DEFINE m == n * 2
  <2>5. m \in Nat BY <2>1
  <2>6. r = [i \in 1 .. m |-> r[i]] /\ \A i \in 1 .. m : r[i] \in {s, t} BY <2>3, <2>4
  <2> HIDE DEF m, r
  <2>7. r \in Seq(Calls_) /\ Len(r) = m BY <2>5, <2>6
  <2> QED BY <2>6, <2>7 DEF m
<1> HIDE DEF r
<1>2. GetsCount(r) BY <1>1 DEF GetsCount
<1> QED BY <1>2 DEF r

\* A loop over three calls, of which the second may skip the third.
LEMMA Loop3 ==
  ASSUME NEW s \in Calls_, NEW t \in Calls_, NEW u \in Calls_, NEW n \in Nat,
         s.do # "get", t.do # "get", u.do # "get", s.fail # "skip", u.fail # "skip"
  PROVE  GetsCount(Repeated(<<s, t, u>>, n))
<1> DEFINE r == Repeated(<<s, t, u>>, n)
<1>1. r = [i \in 1 .. n * 3 |-> <<s, t, u>>[((i - 1) % 3) + 1]]
  BY DEF Repeated
<1>2. \A i \in 1 .. n * 3 : (i - 1) % 3 \in {0, 1, 2} OBVIOUS
<1>3. /\ r \in Seq(Calls_) /\ Len(r) = n * 3
      /\ \A i \in 1 .. n * 3 : r[i].do # "get"
  <2> DEFINE m == n * 3
  <2>1. \A i \in 1 .. m : r[i] \in {s, t, u} BY <1>1, <1>2
  <2>2. m \in Nat OBVIOUS
  <2>3. r = [i \in 1 .. m |-> r[i]] BY <1>1
  <2> HIDE DEF m, r
  <2>4. r \in Seq(Calls_) /\ Len(r) = m BY <2>1, <2>2, <2>3
  <2> QED BY <2>1, <2>4 DEF m
<1>4. ASSUME NEW i \in 1 .. n * 3, r[i].fail = "skip"
      PROVE  i < n * 3
  <2>1. i = n * 3 => (i - 1) % 3 = 2 OBVIOUS
  <2>2. (i - 1) % 3 = 2 => r[i] = u BY <1>1
  <2> QED BY <1>4, <2>1, <2>2
<1> HIDE DEF r
<1>5. \A i \in 1 .. Len(r) : r[i].fail = "skip" => i < Len(r) /\ r[i + 1].do # "get"
  <2> SUFFICES ASSUME NEW i \in 1 .. n * 3, r[i].fail = "skip"
               PROVE  i < n * 3 /\ r[i + 1].do # "get"
    BY <1>3
  <2>1. i < n * 3 BY <1>4
  <2>2. i + 1 \in 1 .. n * 3 BY <2>1
  <2> QED BY <1>3, <2>1, <2>2
<1>6. GetsCount(r) BY <1>3, <1>5 DEF GetsCount
<1> QED BY <1>6 DEF r

\* The loops in which the samples get scans.
LEMMA GetsLoop ==
  ASSUME NEW type \in MeasureTypes
  PROVE  GetsCount(Gets(type)) /\ GetsCount(Handshake(type))
<1>1. Started(type, URG_SCAN_INFINITY) \in Calls_ /\ Started(type, 1) \in Calls_ /\ Got(type) \in Calls_
  BY DEF Started, Got, Step, Calls_, Names, URG_SCAN_INFINITY
<1>2. /\ Started(type, URG_SCAN_INFINITY).do # "get" /\ Started(type, URG_SCAN_INFINITY).fail # "skip"
      /\ Started(type, 1).do # "get" /\ Started(type, 1).fail # "skip"
      /\ Got(type).fail = "close"
  BY DEF Started, Got, Step
<1>3. CaptureTimes \in Nat BY ProgramAssumption
<1>4. GetsCount(<<Started(type, URG_SCAN_INFINITY)>>) BY <1>1, <1>2, OneCall
<1>5. GetsCount(Repeated(<<Got(type)>>, CaptureTimes)) BY <1>1, <1>2, <1>3, Loop1
<1>6. GetsCount(Gets(type)) BY <1>4, <1>5, CallsJoined DEF Gets
<1>7. GetsCount(Handshake(type)) BY <1>1, <1>2, <1>3, Loop2 DEF Handshake
<1> QED BY <1>6, <1>7

\* Every program closes when a get fails.
LEMMA TablesCount ==
  ASSUME NEW p \in InC \cup InCpp
  PROVE  GetsCount(Body[p])
<1>1. \A name \in Names : /\ Do(name) \in Calls_ /\ Do(name).do = name
                           /\ Do(name).fail = "ignore"
  BY DEF Do, Step, Calls_
<1>2. /\ Opened \in Calls_ /\ Opened.do # "get" /\ Opened.fail # "skip"
      /\ Memory \in Calls_ /\ Memory.do # "get" /\ Memory.fail # "skip"
  BY DEF Opened, Memory, Step, Calls_, Names
<1>3. GetsCount(<<Opened>>) BY <1>2, OneCall
<1>4. GetsCount(<<Opened, Memory>>) BY <1>2 DEF GetsCount
<1>5. GetsCount(<<Started("Distance", 1), Got("Distance")>>)
  BY DEF Started, Got, Step, GetsCount, Calls_, Names, MeasureTypes, IoTypes
<1>6. GetsCount(AllTexts)
  BY DEF AllTexts, Do, Step, GetsCount, Calls_, Names, TextNames
<1>7. GetsCount(<<Do("reboot")>>) /\ GetsCount(<<Do("raw_read")>>)
  BY <1>1, OneCall DEF Names
<1>8. GetsCount(Repeated(StampOnce, 1 + CaptureTimes))
  <2>1. 1 + CaptureTimes \in Nat BY ProgramAssumption
  <2> DEFINE reading == Step("get_sensor_time_stamp", "none", 0, "skip")
  <2>2. reading \in Calls_ /\ reading.do # "get" BY DEF Step, Calls_, Names
  <2> HIDE DEF reading
  <2>3. GetsCount(Repeated(<<Do("start_time_stamp_mode"), reading,
                             Do("stop_time_stamp_mode")>>, 1 + CaptureTimes))
    BY <1>1, <2>1, <2>2, Loop3 DEF Names
  <2> QED BY <2>3 DEF StampOnce, reading
<1>9. /\ GetsCount(c_get_distance) /\ GetsCount(c_get_distance_intensity)
      /\ GetsCount(c_get_distance_io) /\ GetsCount(c_get_multiecho)
      /\ GetsCount(c_get_multiecho_intensity) /\ GetsCount(c_get_distance_handshake)
  BY <1>4, CallsJoined, GetsLoop
  DEF MeasureTypes, IoTypes, c_get_distance, c_get_distance_intensity, c_get_distance_io, c_get_multiecho,
      c_get_multiecho_intensity, c_get_distance_handshake
<1>10. GetsCount(c_calculate_xy)
  <2>1. c_calculate_xy = <<Opened, Memory>> \o <<Started("Distance", 1), Got("Distance")>>
    BY DEF c_calculate_xy
  <2> QED BY <1>4, <1>5, <2>1, CallsJoined
<1>11. GetsCount(c_sync_time_stamp) /\ GetsCount(c_sensor_parameter)
  BY <1>3, <1>6, <1>8, CallsJoined DEF c_sync_time_stamp, c_sensor_parameter
<1>12. GetsCount(c_reboot_test) /\ GetsCount(c_timeout_test) /\ GetsCount(c_angle_convert_test)
  <2>1. c_reboot_test = <<Opened>> \o <<Do("reboot")>> BY DEF c_reboot_test
  <2>2. c_timeout_test = <<Opened>> \o <<Do("raw_read")>> BY DEF c_timeout_test
  <2> QED BY <1>3, <1>7, <2>1, <2>2, CallsJoined DEF c_angle_convert_test
<1>13. ASSUME p \in InC PROVE GetsCount(CBody[p])
  BY <1>9, <1>10, <1>11, <1>12, <1>13 DEF InC, CBody
<1>14. /\ GetsCount(cpp_get_distance) /\ GetsCount(cpp_get_distance_intensity)
       /\ GetsCount(cpp_get_distance_io) /\ GetsCount(cpp_get_distance_intensity_io)
       /\ GetsCount(cpp_get_multiecho) /\ GetsCount(cpp_get_multiecho_intensity)
       /\ GetsCount(cpp_get_distance_handshake)
  BY <1>3, CallsJoined, GetsLoop
  DEF MeasureTypes, IoTypes, cpp_get_distance, cpp_get_distance_intensity, cpp_get_distance_io,
      cpp_get_distance_intensity_io, cpp_get_multiecho, cpp_get_multiecho_intensity,
      cpp_get_distance_handshake
<1>15. GetsCount(StampsCpp)
  <2>1. CaptureTimes \in Nat BY ProgramAssumption
  <2> DEFINE reading == Do("get_sensor_time_stamp")
  <2>2. reading \in Calls_ /\ reading.do # "get" /\ reading.fail # "skip" BY <1>1 DEF Names
  <2> HIDE DEF reading
  <2>3. GetsCount(Repeated(<<reading>>, CaptureTimes)) BY <2>1, <2>2, Loop1
  <2>4. GetsCount(<<Do("start_time_stamp_mode")>>) /\ GetsCount(<<Do("stop_time_stamp_mode")>>)
    BY <1>1, OneCall DEF Names
  <2> QED BY <2>3, <2>4, CallsJoined DEF StampsCpp, reading
<1>16. GetsCount(<<Do("set_sensor_time_stamp")>>) /\ GetsCount(<<Do("close")>>)
  BY <1>1, OneCall DEF Names
<1>17. GetsCount(cpp_sync_time_stamp) /\ GetsCount(cpp_sensor_parameter)
  BY <1>3, <1>6, <1>15, <1>16, CallsJoined DEF cpp_sync_time_stamp, cpp_sensor_parameter
<1>18. ASSUME p \in InCpp PROVE GetsCount(CppBody[p])
  BY <1>14, <1>17, <1>18 DEF InCpp, CppBody
<1> QED BY <1>13, <1>18 DEF Body

\* No program is written in both languages, and none is the caller.
LEMMA Languages == InC \cap InCpp = {} /\ "caller" \notin InC
BY DEF InC, InCpp, CBody, CppBody


(***************************************************************************)
(* The library between two calls.                                          *)
(***************************************************************************)
\* The library runs only inside a call.
LEMMA HostInCall == Host => pc # "ready"
<1> SUFFICES ASSUME Host PROVE pc # "ready" OBVIOUS
<1>1. CASE SendSingle \/ CloseDone \/ ScipResponse
  BY <1>1 DEF SendSingle, CloseDone, ScipResponse, Reading
<1>2. CASE LaserOnDone \/ TimeStampModeDone \/ TimeStampDone \/ InfoDone \/ SleepDone \/ RebootDone
  BY <1>2 DEF LaserOnDone, TimeStampModeDone, TimeStampDone, InfoDone, SleepDone,
              RebootDone, Answered
<1>3. CASE RdEcho \/ RdStatus \/ RdQt \/ RdAck \/ RdIo \/ RdStamp \/ RdData
  BY <1>3 DEF RdEcho, RdStatus, RdQt, RdAck, RdIo, RdStamp, RdData, Reading
<1>4. CASE RdCount \/ GetDone \/ StopLoop \/ StopDone \/ Drain
  BY <1>4 DEF RdCount, GetDone, StopLoop, StopDone, Drain, Reading
<1> QED BY <1>1, <1>2, <1>3, <1>4 DEF Host

\* What the sensor and the cable do changes nothing a program sees.
LEMMA WorldOutside == World => UNCHANGED <<pc, ret, method, result>>
BY DEF World, Environment, SensorReply, SensorScan, Garble, Lose, Break, Fault,
       HostUnchanged, driver

(***************************************************************************)
(* The C samples that get scans.                                           *)
(***************************************************************************)
Counting  == program \in InC \ {"c_calculate_xy"}
Call_     == Body[program][place]
GetsIn(n) == {i \in DOMAIN Body[program] : i < n /\ Body[program][i].do = "get"}
AllGets   == {i \in DOMAIN Body[program] : Body[program][i].do = "get"}

\* A scan is counted when the program looks at what get returned: until then the
\* library has it in hand, or result and ret agree.
GetOpen == \/ method.name = "c_get"
           \/ method = None /\ pc = "ready" /\ result = (ret = "POSITIVE")

CountInv == Counting =>
  /\ place \in Nat \ {0} /\ stage \in {"run", "closing", "exit"}
  /\ doing \in BOOLEAN /\ doing => stage = "run" /\ place <= Len(Body[program])
  /\ doing /\ Call_.do = "get" => GetOpen
  /\ stage = "run" => /\ code = 0 /\ place <= Len(Body[program]) + 1
                      /\ got = Cardinality(GetsIn(place))
  /\ stage # "run" /\ code = 0 => got = Cardinality(AllGets)

\* The calls of the program that runs.
LEMMA BodyCounts == ASSUME Counting PROVE GetsCount(Body[program]) /\ DOMAIN Body[program] = 1 .. Len(Body[program])
<1>1. GetsCount(Body[program]) BY TablesCount DEF Counting
<1>2. Body[program] \in Seq(Calls_) BY <1>1 DEF GetsCount
<1> QED BY <1>1, <1>2

\* At its start no get is behind a program.
LEMMA NoGets == ASSUME Counting PROVE Cardinality(GetsIn(1)) = 0
<1>1. GetsIn(1) = {} BY BodyCounts DEF GetsIn
<1> QED BY <1>1, FS_EmptySet

\* One call further, one get more is behind it, or none.
LEMMA OneMore ==
  ASSUME Counting, NEW n \in 1 .. Len(Body[program])
  PROVE  Cardinality(GetsIn(n + 1)) = IF Body[program][n].do = "get"
                                      THEN Cardinality(GetsIn(n)) + 1
                                      ELSE Cardinality(GetsIn(n))
<1> DEFINE b == Body[program]
<1>1. Len(b) \in Nat /\ DOMAIN b = 1 .. Len(b)
  <2>1. b \in Seq(Calls_) BY BodyCounts DEF GetsCount
  <2> QED BY <2>1
<1> HIDE DEF b
<1>2. GetsIn(n + 1) = {i \in 1 .. Len(b) : i < n + 1 /\ b[i].do = "get"}
  BY <1>1 DEF GetsIn, b
<1>3. GetsIn(n) = {i \in 1 .. Len(b) : i < n /\ b[i].do = "get"} BY <1>1 DEF GetsIn, b
<1>4. n \in 1 .. Len(b) BY DEF b
<1>5. CASE b[n].do = "get"
  <2>1. GetsIn(n + 1) = GetsIn(n) \cup {n} /\ n \notin GetsIn(n)
    BY <1>1, <1>2, <1>3, <1>4, <1>5
  <2>2. IsFiniteSet(GetsIn(n))
    <3>1. IsFiniteSet(1 .. Len(b)) BY <1>1, FS_Interval
    <3>2. GetsIn(n) \subseteq 1 .. Len(b) BY <1>3
    <3> QED BY <3>1, <3>2, FS_Subset
  <2> QED BY <1>5, <2>1, <2>2, FS_AddElement DEF b
<1>6. CASE b[n].do # "get"
  <2>1. GetsIn(n + 1) = GetsIn(n) BY <1>1, <1>2, <1>3, <1>4, <1>6
  <2> QED BY <1>6, <2>1 DEF b
<1> QED BY <1>5, <1>6

\* A program starts with no scan.
LEMMA CountInit == Init_ => CountInv
<1> SUFFICES ASSUME Init_, Counting
             PROVE  CountInv
  BY DEF CountInv
<1>1. Body[program] \in Seq(Calls_) BY BodyCounts DEF GetsCount
<1>2. Len(Body[program]) \in Nat BY <1>1
<1> QED BY <1>2, NoGets DEF Init_, CountInv

\* Looking at what a call returned.
LEMMA EndCounts ==
  ASSUME CountInv, Counting, StepEnds
  PROVE  CountInv'
<1> DEFINE b == Body[program]
<1>1. b \in Seq(Calls_) /\ GetsCount(b) BY BodyCounts DEF GetsCount
<1>2. /\ place \in 1 .. Len(b) /\ Len(b) \in Nat /\ stage = "run" /\ code = 0
      /\ got = Cardinality(GetsIn(place))
  BY <1>1 DEF StepEnds, CountInv
<1>3. UNCHANGED program /\ doing' = FALSE BY DEF StepEnds
<1>5. b[place].do = "get" => result = (ret = "POSITIVE")
  BY DEF StepEnds, CountInv, Call_, GetOpen, Idle, None
<1>6. /\ b[place].do = "get" => b[place].fail = "close"
      /\ b[place].fail = "skip" => place < Len(b) /\ b[place + 1].do # "get"
  BY <1>1, <1>2 DEF GetsCount
<1>7. Cardinality(GetsIn(place + 1)) = IF b[place].do = "get" THEN got + 1 ELSE got
  BY <1>2, OneMore
<1>8. CASE result \/ b[place].fail \in {"ignore", "skip"}
  <2>1. got' = Cardinality(GetsIn(place + 1))
    BY <1>5, <1>6, <1>7, <1>8 DEF StepEnds
  <2>2. UNCHANGED <<stage, code>> BY <1>8 DEF StepEnds
  <2>3. CASE ~result /\ b[place].fail = "skip"
    <3>1. place' = place + 2 BY <1>8, <2>3 DEF StepEnds
    <3>2. place + 1 \in 1 .. Len(b) /\ b[place + 1].do # "get" BY <1>2, <1>6, <2>3
    <3>3. Cardinality(GetsIn((place + 1) + 1)) = Cardinality(GetsIn(place + 1))
      BY <3>2, OneMore
    <3>4. (place + 1) + 1 = place + 2 BY <1>2
    <3>5. got' = Cardinality(GetsIn(place))'
      <4>1. GetsIn(place)' = GetsIn(place + 2) BY <1>3, <3>1 DEF GetsIn
      <4> QED BY <2>1, <3>3, <3>4, <4>1
    <3>6. place' \in Nat \ {0} /\ place' <= Len(b) + 1 BY <1>2, <3>1, <3>2
    <3> QED BY <1>2, <1>3, <2>2, <3>5, <3>6 DEF CountInv
  <2>4. CASE ~(~result /\ b[place].fail = "skip")
    <3>1. place' = place + 1 BY <1>8, <2>4 DEF StepEnds
    <3>2. got' = Cardinality(GetsIn(place))'
      <4>1. GetsIn(place)' = GetsIn(place + 1) BY <1>3, <3>1 DEF GetsIn
      <4> QED BY <2>1, <4>1
    <3>3. place' \in Nat \ {0} /\ place' <= Len(b) + 1 BY <1>2, <3>1
    <3> QED BY <1>2, <1>3, <2>2, <3>2, <3>3 DEF CountInv
  <2> QED BY <2>3, <2>4
<1>9. CASE ~(result \/ b[place].fail \in {"ignore", "skip"})
  <2>1. stage' \in {"closing", "exit"} /\ code' = 1 /\ place' = place
    BY <1>9 DEF StepEnds
  <2> QED BY <1>2, <1>3, <2>1 DEF CountInv
<1> QED BY <1>8, <1>9

\* A call begins; a get is in the hands of the library.
LEMMA BeginCounts ==
  ASSUME CountInv, Counting, StepBegins
  PROVE  CountInv'
<1>1. /\ UNCHANGED <<program, place, stage, code, got>> /\ doing' = TRUE
      /\ stage = "run" /\ place <= Len(Body[program])
  BY DEF StepBegins
<1>2. GetsIn(place)' = GetsIn(place) BY <1>1 DEF GetsIn
<1>3. ASSUME Call_.do = "get" PROVE method'.name = "c_get"
  <2>1. program \in InC /\ program \notin InCpp BY Languages DEF Counting
  <2>2. PerformInC(Call_) BY <1>3, <2>1 DEF StepBegins, Call_
  <2>3. "get" \notin DOMAIN CallOf BY DEF CallOf
  <2>4. method' = M("c_get", Call_.type) BY <1>3, <2>2, <2>3 DEF PerformInC, InLibrary
  <2> QED BY <2>4 DEF M, None
<1>4. Call_' = Call_ BY <1>1 DEF Call_
<1> QED BY <1>1, <1>2, <1>3, <1>4 DEF CountInv, GetOpen

\* While a call goes on, the program waits.
LEMMA WaitCounts ==
  ASSUME CountInv, Counting, UNCHANGED progress,
         doing /\ Call_.do = "get" /\ GetOpen => GetOpen'
  PROVE  CountInv'
<1>1. UNCHANGED <<program, place, doing, stage, code, got>> BY DEF progress
<1>2. GetsIn(place)' = GetsIn(place) /\ AllGets' = AllGets /\ Call_' = Call_
  BY <1>1 DEF GetsIn, AllGets, Call_
<1> QED BY <1>1, <1>2 DEF CountInv

\* Every step keeps the count.
LEMMA CountStep ==
  ASSUME CountInv, [Next_]_pvars
  PROVE  CountInv'
<1>1. UNCHANGED program
  BY DEF Next_, ProgramStep, StepBegins, StepEnds, RunsOut, Closes, LibraryReturns,
         CallerCalls, progress, pvars
<1>2. CASE ~Counting BY <1>1, <1>2 DEF CountInv, Counting
<1>3. CASE Counting
  <2>1. CASE StepBegins BY <1>3, <2>1, BeginCounts
  <2>2. CASE StepEnds BY <1>3, <2>2, EndCounts
  <2>3. CASE RunsOut
    <3>1. AllGets' = AllGets BY <1>1 DEF AllGets
    <3>2. GetsIn(place) = AllGets
      <4>1. Body[program] \in Seq(Calls_) BY <1>3, BodyCounts DEF GetsCount
      <4>2. place = Len(Body[program]) + 1 BY <2>3 DEF RunsOut
      <4> QED BY <4>1, <4>2 DEF GetsIn, AllGets
    <3> QED BY <1>1, <1>3, <2>3, <3>1, <3>2 DEF RunsOut, CountInv
  <2>4. CASE Closes
    <3>1. AllGets' = AllGets BY <1>1 DEF AllGets
    <3>2. UNCHANGED <<program, place, doing, code, got>> /\ stage = "closing"
          /\ stage' \in {"closing", "exit"}
      BY <2>4 DEF Closes
    <3> QED BY <1>3, <3>1, <3>2 DEF CountInv
  <2>5. CASE LibraryReturns
    <3>1. UNCHANGED progress BY <2>5 DEF LibraryReturns
    <3>2. ASSUME GetOpen PROVE GetOpen'
      <4>1. method # None BY <2>5 DEF LibraryReturns, None
      <4>2. method.name = "c_get" /\ program # "c_calculate_xy"
        BY <1>3, <3>2, <4>1 DEF GetOpen, Counting
      <4>3. /\ method' = None /\ result' = (ret = "POSITIVE")
            /\ pc = "ready" /\ UNCHANGED <<pc, ret>>
        BY <2>5, <4>2 DEF LibraryReturns, Within, vars
      <4> QED BY <4>3 DEF GetOpen
    <3> QED BY <1>3, <3>1, <3>2, WaitCounts
  <2>6. CASE CallerCalls BY <1>3, <2>6, Languages DEF CallerCalls, Counting
  <2>7. CASE Runs /\ UNCHANGED progress
    <3>1. ASSUME GetOpen PROVE GetOpen'
      <4>1. CASE Host /\ UNCHANGED <<driver, device, kinds>>
        BY <3>1, <4>1, HostInCall DEF GetOpen, driver
      <4>2. CASE ~Host
        <5>1. method.name \notin {"c_get", "none"}
          BY <2>7, <4>2 DEF Runs, StartReturns, GetReturns, SimpleReturns, CloseReturns,
               ReadClock, LeaveStampMode, SetStampReturns, Within, CallOf
        <5> QED BY <3>1, <5>1 DEF GetOpen, None
      <4>3. CASE Host /\ ~UNCHANGED <<driver, device, kinds>>
        <5>1. method.name \notin {"c_get", "none"}
          BY <2>7, <4>3 DEF Runs, StartReturns, GetReturns, SimpleReturns, CloseReturns,
               ReadClock, LeaveStampMode, SetStampReturns, Within, CallOf
        <5> QED BY <3>1, <5>1 DEF GetOpen, None
      <4> QED BY <4>1, <4>2, <4>3
    <3> QED BY <1>3, <2>7, <3>1, WaitCounts
  <2>8. CASE World /\ UNCHANGED progress
    <3>1. GetOpen => GetOpen' BY <2>8, WorldOutside DEF GetOpen
    <3> QED BY <1>3, <2>8, <3>1, WaitCounts
  <2>9. CASE UNCHANGED pvars
    <3>1. UNCHANGED progress /\ (GetOpen => GetOpen')
      BY <2>9 DEF pvars, dvars, vars, driver, GetOpen
    <3> QED BY <1>3, <3>1, WaitCounts
  <2> QED BY <2>1, <2>2, <2>3, <2>4, <2>5, <2>6, <2>7, <2>8, <2>9 DEF Next_, ProgramStep
<1> QED BY <1>2, <1>3

\* A C sample that gets scans and returns 0 got every one of them, for all numbers
\* of scans and all sensors, whatever the cable does and however late the answers.
THEOREM ZeroMeansAllScans == ProgramSpec => []ZeroMeansAll
<1>1. CountInv => ZeroMeansAll
  BY DEF CountInv, Counting, AllGets, ZeroMeansAll
<1> QED BY <1>1, CountInit, CountStep, PTL DEF ProgramSpec

(***************************************************************************)
(* The laser.  No sample calls laser_on: what holds of a session without   *)
(* it holds of their sessions, one after the other.                        *)
(***************************************************************************)
\* A program that gives up leaving the sensor open has not measured yet.
Orderly(body) == /\ body \in Seq(Calls_)
                 /\ \A i \in 1 .. Len(body) : body[i].fail = "leave" =>
                      \A j \in 1 .. i : body[j].do # "start_measurement"
Working       == {c \in Calls_ : c.fail # "leave"}

\* A table starts with what may fail and goes on with what does not end it so.
LEMMA OrderlyThen ==
  ASSUME NEW a, NEW b \in Seq(Working), Orderly(a)
  PROVE  Orderly(a \o b)
<1> DEFINE c == a \o b
           m == Len(a)
<1>1. a \in Seq(Calls_) /\ b \in Seq(Calls_) BY DEF Orderly, Working
<1>2. /\ c \in Seq(Calls_) /\ m \in Nat /\ Len(b) \in Nat /\ Len(c) = m + Len(b)
      /\ \A i \in 1 .. Len(c) : c[i] = IF i <= m THEN a[i] ELSE b[i - m]
  BY <1>1
<1>3. \A i \in 1 .. Len(b) : b[i].fail # "leave" BY DEF Working
<1> HIDE DEF c
<1>4. ASSUME NEW i \in 1 .. Len(c), c[i].fail = "leave", NEW j \in 1 .. i
      PROVE  c[j].do # "start_measurement"
  <2>1. i <= m
    <3>1. ASSUME ~(i <= m) PROVE FALSE
      <4>1. i - m \in 1 .. Len(b) /\ c[i] = b[i - m] BY <1>2, <3>1
      <4> QED BY <1>3, <1>4, <4>1
    <3> QED BY <3>1
  <2>2. i \in 1 .. m /\ c[i] = a[i] /\ j \in 1 .. m /\ c[j] = a[j] BY <1>2, <2>1
  <2> QED BY <1>4, <2>2 DEF Orderly, m
<1> QED BY <1>2, <1>4 DEF Orderly, c

\* A loop makes the calls of its body.
LEMMA LoopOf ==
  ASSUME NEW S, NEW steps \in Seq(S), Len(steps) > 0, NEW n \in Nat
  PROVE  Repeated(steps, n) \in Seq(S)
<1> DEFINE k == Len(steps)
           m == n * k
<1>1. k \in Nat \ {0} OBVIOUS
<1>2. \A i \in 1 .. m : ((i - 1) % k) + 1 \in 1 .. k
  <2> HIDE DEF k, m
  <2> TAKE i \in 1 .. m
  <2> DEFINE j == i - 1
  <2>1. j \in Int OBVIOUS
  <2> HIDE DEF j
  <2>2. j % k \in 0 .. k - 1 BY <1>1, <2>1
  <2> QED BY <1>1, <2>2 DEF j
<1>3. m \in Nat BY <1>1
<1> DEFINE r == Repeated(steps, n)
<1>4. r = [i \in 1 .. m |-> steps[((i - 1) % k) + 1]] BY DEF Repeated
<1>5. r = [i \in 1 .. m |-> r[i]] BY <1>4
<1>6. \A i \in 1 .. m : r[i] \in S
  <2> TAKE i \in 1 .. m
  <2> DEFINE j == ((i - 1) % k) + 1
  <2>1. r[i] = steps[j] BY <1>4
  <2>2. j \in 1 .. k BY <1>2
  <2> HIDE DEF j
  <2> QED BY <2>1, <2>2
<1> HIDE DEF m, r
<1>7. r \in Seq(S) BY <1>3, <1>5, <1>6
<1> QED BY <1>7 DEF r

\* The calls that do not end a program with its sensor open.
LEMMA WorkingCalls ==
  /\ \A name \in Names : Do(name) \in Working
  /\ \A t \in MeasureTypes, n \in Int : Started(t, n) \in Working /\ Got(t) \in Working
  /\ Step("get_sensor_time_stamp", "none", 0, "skip") \in Working
BY DEF Do, Started, Got, Step, Working, Calls_, Names

\* The loops in which scans and time stamps are got.
LEMMA WorkingLoops ==
  /\ \A t \in MeasureTypes : Gets(t) \in Seq(Working) /\ Handshake(t) \in Seq(Working)
  /\ Repeated(StampOnce, 1 + CaptureTimes) \in Seq(Working)
  /\ StampsCpp \in Seq(Working)
  /\ AllTexts \in Seq(Working)
<1>1. CaptureTimes \in Nat /\ 1 + CaptureTimes \in Nat BY ProgramAssumption
<1>2. ASSUME NEW t \in MeasureTypes
      PROVE  Gets(t) \in Seq(Working) /\ Handshake(t) \in Seq(Working)
  <2> DEFINE s == Started(t, URG_SCAN_INFINITY)
             o == Started(t, 1)
             g == Got(t)
  <2>1. s \in Working /\ o \in Working /\ g \in Working
    BY WorkingCalls DEF URG_SCAN_INFINITY
  <2> HIDE DEF s, o, g
  <2>2. /\ <<s>> \in Seq(Working) /\ <<g>> \in Seq(Working) /\ <<o, g>> \in Seq(Working)
        /\ Len(<<g>>) > 0 /\ Len(<<o, g>>) > 0
    BY <2>1
  <2>3. Repeated(<<g>>, CaptureTimes) \in Seq(Working) BY <1>1, <2>2, LoopOf
  <2>4. Repeated(<<o, g>>, CaptureTimes) \in Seq(Working) BY <1>1, <2>2, LoopOf
  <2>5. <<s>> \o Repeated(<<g>>, CaptureTimes) \in Seq(Working) BY <2>2, <2>3
  <2> QED BY <2>4, <2>5 DEF Gets, Handshake, s, o, g
<1> DEFINE b == Do("start_time_stamp_mode")
           r == Step("get_sensor_time_stamp", "none", 0, "skip")
           d == Do("get_sensor_time_stamp")
           e == Do("stop_time_stamp_mode")
<1>3. b \in Working /\ r \in Working /\ d \in Working /\ e \in Working
  BY WorkingCalls DEF Names
<1>4. StampOnce = <<b, r, e>> BY DEF StampOnce
<1>5. StampsCpp = <<b>> \o Repeated(<<d>>, CaptureTimes) \o <<e>> BY DEF StampsCpp
<1>6. AllTexts \in Seq(Working)
  <2>1. /\ Do("product_type") \in Working /\ Do("firmware_version") \in Working
        /\ Do("serial_id") \in Working /\ Do("status") \in Working /\ Do("state") \in Working
    BY WorkingCalls DEF Names, TextNames
  <2> QED BY <2>1 DEF AllTexts
<1> HIDE DEF b, r, d, e
<1>7. <<b, r, e>> \in Seq(Working) /\ Len(<<b, r, e>>) > 0 BY <1>3
<1>8. Repeated(StampOnce, 1 + CaptureTimes) \in Seq(Working) BY <1>1, <1>4, <1>7, LoopOf
<1>9. /\ <<d>> \in Seq(Working) /\ Len(<<d>>) > 0
      /\ <<b>> \in Seq(Working) /\ <<e>> \in Seq(Working)
  BY <1>3
<1>10. Repeated(<<d>>, CaptureTimes) \in Seq(Working) BY <1>1, <1>9, LoopOf
<1>11. StampsCpp \in Seq(Working)
  <2> DEFINE l == Repeated(<<d>>, CaptureTimes)
  <2>1. l \in Seq(Working) /\ StampsCpp = <<b>> \o l \o <<e>> BY <1>5, <1>10
  <2> HIDE DEF l
  <2>2. <<b>> \o l \in Seq(Working) BY <1>9, <2>1
  <2> QED BY <1>9, <2>1, <2>2
<1> QED BY <1>2, <1>6, <1>8, <1>11

\* What every sample begins with.
LEMMA Beginnings == Orderly(<<Opened>>) /\ Orderly(<<Opened, Memory>>)
<1>1. /\ Opened \in Calls_ /\ Opened.do # "start_measurement"
      /\ Memory \in Calls_ /\ Memory.do # "start_measurement"
  BY DEF Opened, Memory, Step, Calls_, Names
<1> DEFINE o == Opened
           m == Memory
<1>2. o \in Calls_ /\ o.do # "start_measurement" /\ m \in Calls_ /\ m.do # "start_measurement"
  BY <1>1
<1> HIDE DEF o, m
<1>3. Orderly(<<o>>) BY <1>2 DEF Orderly
<1>4. Orderly(<<o, m>>) BY <1>2 DEF Orderly
<1> QED BY <1>3, <1>4 DEF o, m

\* Every table is of this form.
LEMMA TablesOrderly ==
  ASSUME NEW p \in InC \cup InCpp
  PROVE  Orderly(Body[p])
<1>1. /\ {"Distance", "Distance_intensity", "Multiecho", "Multiecho_intensity"} \subseteq MeasureTypes
      /\ {"Distance_io", "Distance_intensity_io"} \subseteq MeasureTypes
  BY DEF MeasureTypes, IoTypes
<1>2. /\ Orderly(c_get_distance) /\ Orderly(c_get_distance_intensity)
      /\ Orderly(c_get_distance_io) /\ Orderly(c_get_multiecho)
      /\ Orderly(c_get_multiecho_intensity) /\ Orderly(c_get_distance_handshake)
  BY <1>1, Beginnings, WorkingLoops, OrderlyThen
  DEF c_get_distance, c_get_distance_intensity, c_get_distance_io, c_get_multiecho,
      c_get_multiecho_intensity, c_get_distance_handshake
<1>3. Orderly(c_calculate_xy)
  <2> DEFINE s == Started("Distance", 1)
             g == Got("Distance")
  <2>1. s \in Working /\ g \in Working BY <1>1, WorkingCalls
  <2>2. c_calculate_xy = <<Opened, Memory>> \o <<s, g>> BY DEF c_calculate_xy
  <2> HIDE DEF s, g
  <2>3. <<s, g>> \in Seq(Working) BY <2>1
  <2> QED BY <2>2, <2>3, Beginnings, OrderlyThen
<1>4. Orderly(c_sync_time_stamp) /\ Orderly(c_sensor_parameter)
  BY Beginnings, WorkingLoops, OrderlyThen DEF c_sync_time_stamp, c_sensor_parameter
<1>5. Orderly(c_reboot_test) /\ Orderly(c_timeout_test) /\ Orderly(c_angle_convert_test)
  <2> DEFINE b == Do("reboot")
             r == Do("raw_read")
  <2>1. b \in Working /\ r \in Working BY WorkingCalls DEF Names
  <2>2. c_reboot_test = <<Opened>> \o <<b>> /\ c_timeout_test = <<Opened>> \o <<r>>
    BY DEF c_reboot_test, c_timeout_test
  <2> HIDE DEF b, r
  <2>3. <<b>> \in Seq(Working) /\ <<r>> \in Seq(Working) BY <2>1
  <2> QED BY <2>2, <2>3, Beginnings, OrderlyThen DEF c_angle_convert_test
<1>6. ASSUME p \in InC PROVE Orderly(CBody[p])
  BY <1>2, <1>3, <1>4, <1>5, <1>6 DEF InC, CBody
<1>7. /\ Orderly(cpp_get_distance) /\ Orderly(cpp_get_distance_intensity)
      /\ Orderly(cpp_get_distance_io) /\ Orderly(cpp_get_distance_intensity_io)
      /\ Orderly(cpp_get_multiecho) /\ Orderly(cpp_get_multiecho_intensity)
      /\ Orderly(cpp_get_distance_handshake)
  BY <1>1, Beginnings, WorkingLoops, OrderlyThen
  DEF cpp_get_distance, cpp_get_distance_intensity, cpp_get_distance_io,
      cpp_get_distance_intensity_io, cpp_get_multiecho, cpp_get_multiecho_intensity,
      cpp_get_distance_handshake
<1>8. Orderly(cpp_sync_time_stamp) /\ Orderly(cpp_sensor_parameter)
  <2> DEFINE t == Do("set_sensor_time_stamp")
             c == Do("close")
  <2>1. t \in Working /\ c \in Working BY WorkingCalls DEF Names
  <2>2. cpp_sync_time_stamp = <<Opened>> \o StampsCpp \o <<t>> \o StampsCpp
        /\ cpp_sensor_parameter = <<Opened>> \o AllTexts \o <<c>>
    BY DEF cpp_sync_time_stamp, cpp_sensor_parameter
  <2> HIDE DEF t, c
  <2>3. <<t>> \in Seq(Working) /\ <<c>> \in Seq(Working) BY <2>1
  <2>4. Orderly(<<Opened>> \o StampsCpp) /\ Orderly(<<Opened>> \o AllTexts)
    BY Beginnings, WorkingLoops, OrderlyThen
  <2>5. Orderly(<<Opened>> \o StampsCpp \o <<t>>) /\ Orderly(<<Opened>> \o AllTexts \o <<c>>)
    BY <2>3, <2>4, OrderlyThen
  <2>6. Orderly(<<Opened>> \o StampsCpp \o <<t>> \o StampsCpp)
    BY <2>5, WorkingLoops, OrderlyThen
  <2> QED BY <2>2, <2>5, <2>6
<1>9. ASSUME p \in InCpp PROVE Orderly(CppBody[p])
  BY <1>7, <1>8, <1>9 DEF InCpp, CppBody
<1> QED BY <1>6, <1>9 DEF Body

\* The programs that end without urg_close never measure.
LEMMA LeftOpenQuiet ==
  ASSUME NEW p \in LeftOpen
  PROVE  /\ p \in InC
         /\ \A i \in 1 .. Len(Body[p]) : Body[p][i].do # "start_measurement"
<1>1. p \in InC /\ Body[p] = CBody[p] BY DEF LeftOpen, InC, CBody, Body
<1>2. CBody[p] \in {<<Opened>> \o <<Do("reboot")>>, <<Opened>> \o <<Do("raw_read")>>, <<Opened>>}
  BY DEF LeftOpen, CBody, c_reboot_test, c_timeout_test, c_angle_convert_test
<1>3. ASSUME NEW c, c.do # "start_measurement"
      PROVE  \A i \in 1 .. Len(<<Opened>> \o <<c>>) : (<<Opened>> \o <<c>>)[i].do # "start_measurement"
  <2> DEFINE o == Opened
  <2>1. o.do # "start_measurement" BY DEF Opened, Step
  <2> HIDE DEF o
  <2>2. \A i \in 1 .. Len(<<o>> \o <<c>>) : (<<o>> \o <<c>>)[i] \in {o, c} OBVIOUS
  <2> QED BY <1>3, <2>1, <2>2 DEF o
<1>4. \A i \in 1 .. Len(<<Opened>>) : <<Opened>>[i].do # "start_measurement"
  BY DEF Opened, Step
<1>5. Do("reboot").do # "start_measurement" /\ Do("raw_read").do # "start_measurement"
  BY DEF Do, Step
<1>6. \A i \in 1 .. Len(CBody[p]) : CBody[p][i].do # "start_measurement"
  BY <1>2, <1>3, <1>4, <1>5
<1> QED BY <1>1, <1>6

(***************************************************************************)
(* A step of a program, as the session sees it.                            *)
(***************************************************************************)
\* The programs that leave laser_on to urg_start_measurement: the samples, and such
\* a caller.
LaserLess == program = "caller" => "laser_on" \notin CallerMethods

\* Where a sample is.
AtPlace == program # "caller" => program \in InC \cup InCpp /\ place \in Nat \ {0}

\* One call of the library begins.
CallBegins == Application /\ (LaserLess => ~LaserOn)

\* What a step is to the session.
SessionStep == \/ UNCHANGED vars \/ CallBegins \/ Host \/ Environment
               \/ Mismatch \/ \E d \in Devices : Open(d)

\* Measuring is no call of urg_laser_on, nor is any other call but one.
LEMMA OtherCall ==
  /\ \A o \in Functions \ {"laser_on"} : Calling(o) => CallBegins
  /\ \A t, n : urg_start_measurement(t, n) => CallBegins
  /\ StartRejected => CallBegins
  /\ \A t : urg_get(t) => CallBegins
<1>1. LaserOn => op' = "laser_on" BY DEF LaserOn, Ask, Call
<1>2. \A o \in Functions \ {"laser_on"} : Calling(o) => CallBegins
  BY <1>1 DEF Calling, CallBegins
<1>3. ASSUME NEW t, NEW n, urg_start_measurement(t, n) PROVE CallBegins
  <2>1. Start \/ NotConnected("start") BY <1>3 DEF urg_start_measurement
  <2>2. op' = "start" /\ "start" \in Functions
    BY <2>1 DEF Start, Call, NotConnected, Functions
  <2> QED BY <1>1, <2>1, <2>2 DEF CallBegins, Application
<1>4. ASSUME NEW t, urg_get(t) PROVE CallBegins
  <2>1. Calling("get") BY <1>4 DEF urg_get
  <2>2. "get" \in Functions \ {"laser_on"} BY DEF Functions
  <2> QED BY <1>2, <2>1, <2>2
<1>5. StartRejected => CallBegins
  <2>1. StartRejected => op' = "start" BY DEF StartRejected, Call
  <2> QED BY <1>1, <2>1 DEF CallBegins, Application
<1> QED BY <1>2, <1>3, <1>4, <1>5

\* So is every method but one.
LEMMA CallOfName ==
  ASSUME NEW name \in DOMAIN CallOf, LaserLess => name # "laser_on", Calling(CallOf[name])
  PROVE  CallBegins
<1>1. CASE name # "laser_on"
  <2>1. CallOf[name] \in Functions \ {"laser_on"} BY <1>1 DEF CallOf, Functions
  <2> QED BY <2>1, OtherCall
<1>2. CASE name = "laser_on"
  BY <1>2 DEF Calling, CallBegins
<1> QED BY <1>1, <1>2

\* The methods of the driver are calls of the library, or end at once.
LEMMA MethodSteps ==
  /\ \A t, n : start_measurement(t, n) => SessionStep
  /\ start_refused => SessionStep
  /\ \A t : get(t) => SessionStep
  /\ \A name \in DOMAIN CallOf :
       simple(name) /\ (LaserLess => name # "laser_on") => SessionStep
  /\ set_sensor_time_stamp \/ OpenBegins \/ DriverClose => SessionStep
<1>1. \A t, n : start_measurement(t, n) => SessionStep
  BY OtherCall DEF start_measurement, SessionStep
<1>2. \A t : get(t) => SessionStep
  BY OtherCall DEF get, SessionStep
<1>3. \A name \in DOMAIN CallOf :
        simple(name) /\ (LaserLess => name # "laser_on") => SessionStep
  BY CallOfName DEF simple, SessionStep, EndsAtOnce
<1>4. "close" \in Functions \ {"laser_on"} /\ "tm_start" \in Functions \ {"laser_on"}
  BY DEF Functions
<1>5. set_sensor_time_stamp \/ OpenBegins \/ DriverClose => SessionStep
  BY <1>4, OtherCall DEF set_sensor_time_stamp, OpenBegins, DriverClose, SessionStep, EndsAtOnce
<1>6. start_refused => SessionStep BY OtherCall DEF start_refused, SessionStep
<1> QED BY <1>1, <1>2, <1>3, <1>5, <1>6

\* A sample makes the calls of its table.
LEMMA SampleCalls ==
  ASSUME AtPlace, StepBegins
  PROVE  SessionStep
<1> DEFINE s == Body[program][place]
<1>1. program # "caller" /\ program \in InC \cup InCpp /\ place \in 1 .. Len(Body[program])
  <2>1. program # "caller" /\ place <= Len(Body[program]) BY DEF StepBegins
  <2>2. program \in InC \cup InCpp /\ place \in Nat \ {0} BY <2>1 DEF AtPlace
  <2>3. Body[program] \in Seq(Calls_) BY <2>2, TablesOrderly DEF Orderly
  <2> QED BY <2>1, <2>2, <2>3
<1>2. s.do # "laser_on"
  <2>1. Body[program] \in Seq(Calls_) BY <1>1, TablesOrderly DEF Orderly
  <2>2. s \in Calls_ BY <1>1, <2>1
  <2> QED BY <2>2 DEF Calls_, Names, TextNames
<1> HIDE DEF s
<1>3. CASE \E d \in Devices : Open(d) BY <1>3 DEF SessionStep
<1>4. CASE PerformInC(s)
  <2>1. CASE \E t, n : urg_start_measurement(t, n) BY <2>1, OtherCall DEF SessionStep
  <2>2. CASE \E t : urg_get(t) BY <2>2, OtherCall DEF SessionStep
  <2>3. CASE s.do \in DOMAIN CallOf /\ Calling(CallOf[s.do])
    BY <1>2, <2>3, CallOfName DEF SessionStep
  <2>4. CASE UNCHANGED vars BY <2>4 DEF SessionStep
  <2> QED BY <1>4, <2>1, <2>2, <2>3, <2>4 DEF PerformInC, InLibrary, EndsAtOnce
<1>5. CASE PerformInCpp(s)
  BY <1>2, <1>5, MethodSteps DEF PerformInCpp
<1> QED BY <1>3, <1>4, <1>5 DEF StepBegins, s

\* Every step is one of the session, or opens another.
LEMMA SessionSteps ==
  ASSUME AtPlace, [Next_]_pvars
  PROVE  SessionStep
<1>1. CASE StepBegins BY <1>1, SampleCalls
<1>2. CASE StepEnds \/ RunsOut \/ LibraryReturns
  BY <1>2 DEF StepEnds, RunsOut, LibraryReturns, dvars, SessionStep
<1>3. CASE Closes
  <2>1. DriverClose \/ UNCHANGED dvars BY <1>3 DEF Closes
  <2> QED BY <2>1, MethodSteps DEF dvars, SessionStep
<1>4. CASE CallerCalls
  <2>1. CallerMethods \subseteq DOMAIN CallOf BY ProgramAssumption
  <2>2. program = "caller" BY <1>4 DEF CallerCalls
  <2>3. \A name \in CallerMethods : LaserLess => name # "laser_on" BY <2>2 DEF LaserLess
  <2>4. \/ \E t \in CallerTypes, n \in ScanTimes : start_measurement(t, n)
        \/ start_refused
        \/ \E t \in CallerTypes : get(t)
        \/ \E name \in CallerMethods : simple(name)
        \/ set_sensor_time_stamp
        \/ OpenBegins \/ (\E d \in Devices : Open(d)) \/ DriverClose
    BY <1>4 DEF CallerCalls
  <2>5. CASE \E name \in CallerMethods : simple(name)
    <3>1. PICK name \in CallerMethods : simple(name) BY <2>5
    <3>2. name \in DOMAIN CallOf BY <2>1
    <3> QED BY <2>3, <3>1, <3>2, MethodSteps
  <2> QED BY <2>4, <2>5, MethodSteps DEF SessionStep
<1>5. CASE Runs
  <2>1. CASE Host \/ \E d \in Devices : Open(d) BY <2>1 DEF SessionStep
  <2>2. CASE StartReturns \/ GetReturns \/ SimpleReturns \/ CloseReturns \/ SetStampReturns
    BY <2>2 DEF StartReturns, GetReturns, SimpleReturns, CloseReturns, SetStampReturns, SessionStep
  <2>3. CASE ReadClock \/ LeaveStampMode
    <3>1. {"time_stamp", "tm_stop"} \subseteq Functions \ {"laser_on"} BY DEF Functions
    <3> QED BY <2>3, <3>1, OtherCall DEF ReadClock, LeaveStampMode, SessionStep
  <2> QED BY <1>5, <2>1, <2>2, <2>3 DEF Runs
<1>6. CASE World BY <1>6 DEF World, SessionStep
<1>7. CASE UNCHANGED pvars BY <1>7 DEF pvars, dvars, SessionStep
<1> QED BY <1>1, <1>2, <1>3, <1>4, <1>5, <1>6, <1>7 DEF Next_, ProgramStep

\* A sample stays at the calls of its table.
LEMMA PlaceStep ==
  ASSUME AtPlace, [Next_]_pvars
  PROVE  AtPlace' /\ UNCHANGED program
<1>1. UNCHANGED program
  BY DEF Next_, ProgramStep, StepBegins, StepEnds, RunsOut, Closes, LibraryReturns,
         CallerCalls, progress, pvars
<1>2. CASE StepEnds
  <2>1. place' = place \/ place' = place + 1 \/ place' = place + 2 BY <1>2 DEF StepEnds
  <2> QED BY <1>1, <2>1 DEF AtPlace
<1>3. CASE CallerCalls BY <1>1, <1>3 DEF CallerCalls, AtPlace
<1>4. CASE UNCHANGED place BY <1>1, <1>4 DEF AtPlace
<1> QED BY <1>1, <1>2, <1>3, <1>4
        DEF Next_, ProgramStep, StepBegins, RunsOut, Closes, LibraryReturns, progress, pvars

(***************************************************************************)
(* The session, opened and closed any number of times.                     *)
(***************************************************************************)
\* Whatever the program does, the session keeps its types.
LEMMA TypesKept ==
  ASSUME TypeOK, SessionStep
  PROVE  TypeOK'
<1>1. CASE UNCHANGED vars \/ Application \/ Host \/ Environment
  BY <1>1, TypeNext DEF Next
<1>2. CASE Mismatch
  <2>1. last_errno' \in Codes BY <1>2 DEF Mismatch, Codes, Errors
  <2> QED BY <1>2, <2>1 DEF Mismatch, TypeOK, HostTypeOK, WorldTypeOK, flags, config, host, budgets
<1>3. ASSUME NEW d \in Devices, Open(d) PROVE TypeOK'
  <2>1. PICK succeeds \in BOOLEAN : urg_open(d, succeeds) BY <1>3 DEF Open
  <2>2. HostTypeOK'
    <3>1. /\ UNCHANGED <<frames, xchg, rcv, after>>
          /\ is_active' \in BOOLEAN /\ is_sending' \in BOOLEAN /\ is_laser_on' \in BOOLEAN
          /\ specified_scan_times' \in Nat /\ scanning_remain_times' \in Nat
          /\ ignore_checkSumError' \in {0, 1} /\ last_errno' \in Codes
          /\ pc' \in Labels /\ op' \in Functions \cup {"open"} /\ ret' \in Codes
      BY <2>1 DEF urg_open, Codes, Errors, Labels
    <3> QED BY <3>1 DEF TypeOK, HostTypeOK
  <2>3. WorldTypeOK'
    <3>1. UNCHANGED budgets /\ inbox' = <<>> BY <2>1 DEF urg_open
    <3>2. CASE succeeds
      <4>1. /\ link' = "up" /\ outbox' = <<>>
            /\ sensor' = [mode |-> "idle", laser |-> FALSE, rb |-> FALSE,
                          scan |-> "MD", left |-> 0, gen |-> 0]
        BY <2>1, <3>2 DEF urg_open
      <4> QED BY <3>1, <4>1 DEF TypeOK, WorldTypeOK, Continuous, budgets
    <3>3. CASE ~succeeds
      <4>1. UNCHANGED <<link, outbox, sensor>> BY <2>1, <3>3 DEF urg_open
      <4> QED BY <3>1, <4>1 DEF TypeOK, WorldTypeOK, budgets
    <3> QED BY <3>2, <3>3
  <2> QED BY <2>2, <2>3 DEF TypeOK
<1> QED BY <1>1, <1>2, <1>3 DEF SessionStep, CallBegins

\* The cable is in use only while the session is open.
ActiveUp == link = "up" => is_active

\* A session that is opened is dark; one that is not leaves things as they were.
LEMMA OpenDark ==
  ASSUME TypeOK, LaserInv, CloseInv, ActiveUp, NEW d \in Devices, Open(d)
  PROVE  LaserInv' /\ CloseInv' /\ ActiveUp'
<1>1. PICK succeeds \in BOOLEAN : urg_open(d, succeeds) BY DEF Open
<1>2. /\ pc = "ready" /\ ~is_active /\ link # "down" /\ frames = <<>>
      /\ link = "closed" /\ SensorDark
  BY DEF Open, Idle, Within, ActiveUp, LaserInv, FramesOK, Calm, TypeOK, WorldTypeOK
<1>3. pc' = "ready" /\ frames' = <<>> BY <1>1, <1>2 DEF urg_open
<1>4. FramesOK' BY <1>3 DEF FramesOK
<1>5. CASE succeeds
  <2>1. /\ link' = "up" /\ is_active' = TRUE /\ outbox' = <<>>
        /\ sensor' = [mode |-> "idle", laser |-> FALSE, rb |-> FALSE,
                      scan |-> "MD", left |-> 0, gen |-> 0]
    BY <1>1, <1>5 DEF urg_open
  <2>2. SensorDark' /\ ClosedOK' /\ ActiveUp' BY <2>1 DEF SensorDark, ClosedOK, ActiveUp
  <2>3. DarkAhead' BY <2>1 DEF DarkAhead
  <2>4. CloseInv' BY <1>3, <2>1 DEF CloseInv, AwaitsAnswer
  <2> QED BY <1>4, <2>2, <2>3, <2>4 DEF LaserInv
<1>6. CASE ~succeeds
  <2>1. UNCHANGED <<link, outbox, sensor>> /\ is_active' = FALSE /\ is_sending' = TRUE
    BY <1>1, <1>6 DEF urg_open
  <2>2. SensorDark' /\ ClosedOK' /\ ActiveUp'
    BY <1>2, <1>3, <2>1 DEF SensorDark, ClosedOK, ActiveUp
  <2>3. ~Stopping' BY <1>3, <2>1 DEF Stopping
  <2>4. DarkAhead' \/ SecondRB'
    <3>1. DarkAhead \/ SecondRB BY <1>2 DEF CloseInv
    <3> QED BY <2>1, <3>1, DarkSame DEF SecondRB
  <2>5. CloseInv' BY <1>3, <2>4 DEF CloseInv, AwaitsAnswer
  <2> QED BY <1>4, <2>2, <2>3, <2>5 DEF LaserInv
<1> QED BY <1>5, <1>6

\* While the library runs the session ends with its connection.
LEMMA HostActive ==
  ASSUME TypeOK, Host
  PROVE  UNCHANGED <<link, is_active>> \/ ((CloseDone \/ RebootDone) /\ link' # "up")
<1>1. CASE SendSingle BY <1>1 DEF SendSingle, flags
<1>2. CASE CloseDone BY <1>2 DEF CloseDone, ConnectionClose
<1>3. CASE RebootDone
  <2>1. xchg.round \in {1, 2} BY DEF TypeOK, HostTypeOK
  <2> QED BY <1>3, <2>1 DEF RebootDone, ConnectionClose
<1>4. CASE \/ ScipResponse \/ LaserOnDone \/ TimeStampModeDone \/ TimeStampDone
           \/ InfoDone \/ SleepDone \/ StopDone
  BY <1>4 DEF ScipResponse, LaserOnDone, TimeStampModeDone, TimeStampDone, InfoDone,
              SleepDone, StopDone, AfterAnswer, flags
<1>5. ASSUME NEW a, IgnoreReceiveDataWithQt(a) PROVE UNCHANGED is_active
  BY <1>5 DEF IgnoreReceiveDataWithQt, flags
<1>6. CASE RdEcho \/ RdQt \/ RdIo \/ RdStamp \/ RdCount \/ GetDone \/ StopLoop \/ Drain
  <2>1. CASE RdEcho \/ RdQt \/ RdIo \/ RdStamp \/ GetDone
    <3>1. Untouched /\ UNCHANGED link
      BY <2>1 DEF RdEcho, RdQt, RdIo, RdStamp, GetDone, Reading
    <3> QED BY <3>1 DEF Untouched, flags
  <2>2. CASE RdCount BY <2>2 DEF RdCount, Reading, flags
  <2>3. CASE StopLoop \/ Drain BY <2>3 DEF StopLoop, Drain, Reading
  <2> QED BY <1>6, <2>1, <2>2, <2>3
<1>7. CASE RdStatus \/ RdAck \/ RdData
  <2>1. UNCHANGED link BY <1>7 DEF RdStatus, RdAck, RdData, Reading
  <2>2. CASE RdStatus BY <1>5, <2>1, <2>2 DEF RdStatus, Abort, Untouched, flags
  <2>3. CASE RdAck BY <1>5, <2>1, <2>3 DEF RdAck, Abort, Untouched, flags
  <2>4. CASE RdData BY <1>5, <2>1, <2>4 DEF RdData, Abort, Untouched, flags
  <2> QED BY <1>7, <2>2, <2>3, <2>4
<1> QED BY <1>1, <1>2, <1>3, <1>4, <1>6, <1>7 DEF Host

\* No call ends the session before the library runs.
LEMMA CallActive == Application => UNCHANGED <<link, is_active>>
<1> SUFFICES ASSUME Application PROVE UNCHANGED <<link, is_active>> OBVIOUS
<1>1. ASSUME NEW a, IgnoreReceiveDataWithQt(a) PROVE UNCHANGED is_active
  BY <1>1 DEF IgnoreReceiveDataWithQt, flags
<1>2. CASE StartRejected \/ Close BY <1>1, <1>2 DEF StartRejected, Close, Call
<1> QED BY <1>2 DEF Application, NotConnected, Start, Get, Stop, Ask, LaserOn, Call, flags

\* Without urg_laser_on every session keeps the laser in hand.
LEMMA LaserKept ==
  ASSUME LaserLess, TypeOK, LaserInv, CloseInv, ActiveUp, SessionStep
  PROVE  LaserInv' /\ CloseInv' /\ ActiveUp'
<1>1. CASE UNCHANGED vars
  <2>1. LaserInv'
    BY <1>1 DEF vars, flags, host, LaserInv, FramesOK, ClosedOK, SensorDark, Stopping, DarkAhead
  <2>2. CloseInv'
    BY <1>1, DarkSame DEF vars, flags, host, CloseInv, AwaitsAnswer, FirstRB, SecondRB
  <2> QED BY <1>1, <2>1, <2>2 DEF ActiveUp, vars, flags
<1>2. CASE CallBegins
  <2>1. Application /\ ~LaserOn BY <1>2 DEF CallBegins
  <2> QED BY <2>1, ApplicationInv, CloseApplication, CallActive DEF ActiveUp
<1>3. CASE Host
  <2>1. LaserInv' BY <1>3, PlainHostInv, ReadingInv DEF Host
  <2>2. CloseInv' BY <1>3, ClosePlainHost, CloseReading DEF Host
  <2> QED BY <1>3, <2>1, <2>2, HostActive DEF ActiveUp
<1>4. CASE Environment
  <2>1. UNCHANGED is_active /\ (UNCHANGED link \/ link' # "up")
    BY <1>4 DEF Environment, SensorReply, SensorScan, Garble, Lose, Break, Fault,
                HostUnchanged, flags
  <2> QED BY <1>4, <2>1, EnvironmentInv, CloseEnvironment DEF ActiveUp
<1>5. CASE Mismatch
  <2>1. UNCHANGED <<flags, pc, host, outbox, link, sensor>> BY <1>5 DEF Mismatch
  <2>2. LaserInv'
    BY <2>1 DEF flags, host, LaserInv, FramesOK, ClosedOK, SensorDark, Stopping, DarkAhead
  <2>3. CloseInv'
    BY <2>1, DarkSame DEF flags, host, CloseInv, AwaitsAnswer, FirstRB, SecondRB
  <2> QED BY <2>1, <2>2, <2>3 DEF ActiveUp, flags
<1>6. CASE \E d \in Devices : Open(d) BY <1>6, OpenDark
<1> QED BY <1>1, <1>2, <1>3, <1>4, <1>5, <1>6 DEF SessionStep

(***************************************************************************)
(* Before the first measurement.                                           *)
(***************************************************************************)
\* Nothing was started: the flags are clear, and no exchange of BM goes on.
NotYet == ~is_sending /\ ~is_laser_on /\ op \notin {"start", "laser_on"}

\* One call that measures nothing.
QuietCall == Application /\ op' \notin {"start", "laser_on"}

QuietMove == \/ UNCHANGED vars \/ QuietCall \/ Host \/ Environment
              \/ Mismatch \/ \E d \in Devices : Open(d)

\* Giving up sets no flag.
LEMMA GivingUpQuiet ==
  ASSUME NotYet, NEW a, IgnoreReceiveDataWithQt(a) PROVE ~is_sending' /\ ~is_laser_on'
BY DEF IgnoreReceiveDataWithQt, NotYet, flags

\* The library by itself starts nothing.
LEMMA HostQuiet ==
  ASSUME TypeOK, NotYet, Host PROVE NotYet'
<1>1. UNCHANGED op
  <2>1. CASE SendSingle \/ CloseDone BY <2>1 DEF SendSingle, CloseDone, host
  <2>2. CASE ScipResponse \/ StopDone BY <2>2 DEF ScipResponse, StopDone
  <2>3. CASE \/ LaserOnDone \/ TimeStampModeDone \/ TimeStampDone
             \/ InfoDone \/ SleepDone \/ RebootDone
    <3>1. AfterAnswer
      BY <2>3 DEF LaserOnDone, TimeStampModeDone, TimeStampDone, InfoDone, SleepDone, RebootDone
    <3> QED BY <3>1 DEF AfterAnswer
  <2>4. CASE \/ RdEcho \/ RdStatus \/ RdQt \/ RdAck \/ RdIo \/ RdStamp \/ RdData
             \/ RdCount \/ GetDone \/ StopLoop \/ Drain
    BY <2>4 DEF RdEcho, RdStatus, RdQt, RdAck, RdIo, RdStamp, RdData, RdCount, GetDone,
                StopLoop, Drain, Reading
  <2> QED BY <2>1, <2>2, <2>3, <2>4 DEF Host
<1>2. ~is_sending' /\ ~is_laser_on'
  <2>1. ~is_sending /\ ~is_laser_on /\ ~LaserOnDone
    BY DEF NotYet, LaserOnDone, Answered
  <2>2. CASE \/ SendSingle \/ ScipResponse \/ StopDone \/ TimeStampModeDone \/ TimeStampDone
             \/ InfoDone \/ SleepDone
    <3>1. UNCHANGED flags
      BY <2>2 DEF SendSingle, ScipResponse, StopDone, TimeStampModeDone, TimeStampDone,
                  InfoDone, SleepDone
    <3> QED BY <2>1, <3>1 DEF flags
  <2>3. CASE CloseDone BY <2>1, <2>3 DEF CloseDone
  <2>4. CASE RebootDone BY <2>1, <2>4 DEF RebootDone
  <2>5. CASE RdEcho \/ RdQt \/ RdIo \/ RdStamp \/ GetDone
    <3>1. Untouched BY <2>5 DEF RdEcho, RdQt, RdIo, RdStamp, GetDone
    <3> QED BY <2>1, <3>1 DEF Untouched, flags
  <2>6. CASE RdStatus
    BY <2>1, <2>6, GivingUpQuiet DEF RdStatus, Abort, Untouched, flags
  <2>7. CASE RdAck
    BY <2>1, <2>7, GivingUpQuiet DEF RdAck, Abort, Untouched, flags
  <2>8. CASE RdData
    BY <2>1, <2>8, GivingUpQuiet DEF RdData, Abort, Untouched, flags
  <2>9. CASE RdCount BY <2>1, <2>9 DEF RdCount, flags
  <2>10. CASE StopLoop \/ Drain
    <3>1. /\ is_laser_on' = FALSE \/ UNCHANGED is_laser_on
          /\ is_sending' = FALSE \/ UNCHANGED is_sending
      BY <2>10 DEF StopLoop, Drain
    <3> QED BY <2>1, <3>1
  <2> QED BY <2>1, <2>2, <2>3, <2>4, <2>5, <2>6, <2>7, <2>8, <2>9, <2>10 DEF Host
<1> QED BY <1>1, <1>2 DEF NotYet

\* Nor does a call that measures nothing.
LEMMA CallQuiet ==
  ASSUME NotYet, QuietCall PROVE NotYet'
<1>1. op' \notin {"start", "laser_on"} BY DEF QuietCall
<1>2. ~Start /\ ~StartRejected BY <1>1 DEF Start, StartRejected, Call
<1>3. ~LaserOn BY <1>1 DEF LaserOn, Ask, Call
<1>4. CASE Close
  <2>1. ~is_sending' /\ ~is_laser_on' BY <1>4, GivingUpQuiet DEF Close
  <2> QED BY <1>1, <2>1 DEF NotYet
<1>5. CASE ~Close
  <2>1. UNCHANGED flags
    BY <1>2, <1>3, <1>5 DEF QuietCall, Application, NotConnected, Get, Stop, Ask
  <2> QED BY <1>1, <2>1 DEF NotYet, flags
<1> QED BY <1>4, <1>5

\* So until a measurement is started none is on.
LEMMA StillQuiet ==
  ASSUME TypeOK, ActiveUp, link = "up" => NotYet, QuietMove
  PROVE  (link = "up" => NotYet)'
<1>1. CASE \E d \in Devices : Open(d)
  <2>1. PICK d \in Devices, succeeds \in BOOLEAN : urg_open(d, succeeds) BY <1>1 DEF Open
  <2>2. link # "up" BY <1>1 DEF Open, ActiveUp
  <2>3. CASE succeeds BY <2>1, <2>3 DEF urg_open, NotYet
  <2>4. CASE ~succeeds
    <3>1. UNCHANGED link BY <2>1, <2>4 DEF urg_open
    <3> QED BY <2>2, <3>1
  <2> QED BY <2>3, <2>4
<1>2. CASE UNCHANGED vars BY <1>2 DEF vars, flags, host, NotYet
<1>3. CASE Mismatch BY <1>3 DEF Mismatch, flags, host, NotYet
<1>4. CASE QuietCall
  <2>1. UNCHANGED link BY <1>4, CallActive DEF QuietCall
  <2> QED BY <1>4, <2>1, CallQuiet
<1>5. CASE Host
  <2>1. link' = "up" => link = "up" BY <1>5, HostActive
  <2> QED BY <1>5, <2>1, HostQuiet
<1>6. CASE Environment
  <2>1. link' = "up" => link = "up"
    BY <1>6 DEF Environment, SensorReply, SensorScan, Garble, Lose, Break, Fault
  <2>2. UNCHANGED <<flags, op>>
    BY <1>6 DEF Environment, SensorReply, SensorScan, Garble, Lose, Break, Fault,
                HostUnchanged, host
  <2> QED BY <2>1, <2>2 DEF NotYet, flags
<1> QED BY <1>1, <1>2, <1>3, <1>4, <1>5, <1>6 DEF QuietMove

\* A sample's call that is not start_measurement measures nothing.
LEMMA SampleQuiet ==
  ASSUME AtPlace, StepBegins, Call_.do # "start_measurement"
  PROVE  QuietMove
<1> DEFINE s == Body[program][place]
<1>1. s \in Calls_
  <2>1. program # "caller" /\ place <= Len(Body[program]) BY DEF StepBegins
  <2>2. program \in InC \cup InCpp /\ place \in Nat \ {0} BY <2>1 DEF AtPlace
  <2>3. Body[program] \in Seq(Calls_) BY <2>2, TablesOrderly DEF Orderly
  <2> QED BY <2>1, <2>2, <2>3
<1>2. s.do # "laser_on" /\ s.do # "start_measurement"
  BY <1>1 DEF Calls_, Names, TextNames, Call_
<1> HIDE DEF s
<1>3. \A o \in Functions \ {"start", "laser_on"} : Calling(o) => QuietMove
  BY DEF Calling, QuietCall, QuietMove
<1>4. {"get", "close", "tm_start"} \subseteq Functions \ {"start", "laser_on"} BY DEF Functions
<1>5. s.do \in DOMAIN CallOf => CallOf[s.do] \in Functions \ {"start", "laser_on"}
  BY <1>2 DEF CallOf, Functions
<1>6. CASE \E d \in Devices : Open(d) BY <1>6 DEF QuietMove
<1>7. CASE PerformInC(s)
  <2>1. CASE \E t : urg_get(t) BY <1>3, <1>4, <2>1 DEF urg_get
  <2>2. CASE s.do \in DOMAIN CallOf /\ Calling(CallOf[s.do]) BY <1>3, <1>5, <2>2
  <2>3. CASE UNCHANGED vars BY <2>3 DEF QuietMove
  <2> QED BY <1>2, <1>7, <2>1, <2>2, <2>3 DEF PerformInC, InLibrary, EndsAtOnce
<1>8. CASE PerformInCpp(s)
  <2>1. CASE \E t : get(t)
    BY <1>3, <1>4, <2>1 DEF get, urg_get, QuietMove
  <2>2. CASE s.do \in DOMAIN CallOf /\ simple(s.do)
    BY <1>3, <1>5, <2>2 DEF simple, EndsAtOnce, QuietMove
  <2>3. CASE set_sensor_time_stamp \/ DriverClose
    BY <1>3, <1>4, <2>3 DEF set_sensor_time_stamp, DriverClose, EndsAtOnce, QuietMove
  <2> QED BY <1>2, <1>8, <2>1, <2>2, <2>3 DEF PerformInCpp
<1> QED BY <1>6, <1>7, <1>8 DEF StepBegins, s

\* Inside a method nothing is started.
LEMMA RunsQuiet == Runs => QuietMove
<1> SUFFICES ASSUME Runs PROVE QuietMove OBVIOUS
<1>1. CASE Host \/ \E d \in Devices : Open(d) BY <1>1 DEF QuietMove
<1>2. CASE StartReturns \/ GetReturns \/ SimpleReturns \/ CloseReturns \/ SetStampReturns
  BY <1>2 DEF StartReturns, GetReturns, SimpleReturns, CloseReturns, SetStampReturns, QuietMove
<1>3. CASE ReadClock \/ LeaveStampMode
  BY <1>3 DEF ReadClock, LeaveStampMode, Calling, QuietCall, QuietMove
<1> QED BY <1>1, <1>2, <1>3 DEF Runs

\* Between two methods nothing runs.
LEMMA RunsInMethod == Runs => ~Idle
<1> SUFFICES ASSUME Runs, Idle PROVE FALSE OBVIOUS
<1>1. method = None /\ pc = "ready" /\ method.name = "none" BY DEF Idle, None
<1>2. ~Host BY <1>1, HostInCall
<1>3. "none" \notin DOMAIN CallOf BY DEF CallOf
<1> QED BY <1>1, <1>2, <1>3
        DEF Runs, StartReturns, GetReturns, SimpleReturns, CloseReturns, ReadClock,
            LeaveStampMode, SetStampReturns, Within

(***************************************************************************)
(* The end of a sample.                                                    *)
(***************************************************************************)
\* A sample that runs and has not begun to measure.
Unstarted == /\ stage = "run"
             /\ \A j \in 1 .. Len(Body[program]) :
                  j < place \/ (doing /\ j = place) => Body[program][j].do # "start_measurement"

\* Between its calls a sample is in no method.  While it has not begun to measure the
\* flags are clear, and when it ends its sensor is dark or about to be.
SampleInv == program # "caller" =>
  /\ doing \in BOOLEAN /\ stage \in {"run", "closing", "exit"}
  /\ doing => stage = "run" /\ place <= Len(Body[program])
  /\ (stage = "run" /\ ~doing) \/ stage = "exit" => Idle
  /\ Unstarted /\ link = "up" => NotYet
  /\ stage = "exit" /\ link = "up" => DarkAhead

\* What the laser's invariants say of all sessions of a program.
DarkInv == LaserLess => LaserInv /\ CloseInv /\ ActiveUp /\ SampleInv

\* The call a sample makes is one of its table.
LEMMA SampleTable ==
  ASSUME AtPlace, program # "caller"
  PROVE  /\ Orderly(Body[program]) /\ Len(Body[program]) \in Nat /\ place \in Nat \ {0}
         /\ place <= Len(Body[program]) => Call_ \in Calls_
<1>1. Orderly(Body[program]) /\ place \in Nat \ {0} BY TablesOrderly DEF AtPlace
<1>2. Body[program] \in Seq(Calls_) BY <1>1 DEF Orderly
<1> QED BY <1>1, <1>2 DEF Call_

\* Nothing measured, nothing lit.
LEMMA QuietIsDark == LaserInv /\ NotYet /\ link = "up" => DarkAhead
BY DEF LaserInv, NotYet, Stopping

\* A sample that looks at what a call returned.
LEMMA EndDark ==
  ASSUME AtPlace, LaserInv, SampleInv, program # "caller", StepEnds
  PROVE  SampleInv'
<1> DEFINE b == Body[program]
<1>1. /\ UNCHANGED program /\ doing' = FALSE /\ doing /\ UNCHANGED dvars /\ Idle
  BY DEF StepEnds
<1>2. UNCHANGED <<is_sending, is_laser_on, op, link, outbox, sensor, pc, method>>
  BY <1>1 DEF dvars, vars, flags, host, driver
<1>3. Idle' /\ (NotYet => NotYet') /\ (DarkAhead => DarkAhead')
  BY <1>1, <1>2, DarkSame DEF Idle, NotYet
<1>4. /\ Orderly(b) /\ Len(b) \in Nat /\ place \in Nat \ {0} /\ place <= Len(b)
      /\ Call_ \in Calls_ /\ stage = "run"
  BY <1>1, SampleTable DEF SampleInv
<1>5. CASE result \/ Call_.fail \in {"ignore", "skip"}
  <2>1. UNCHANGED stage /\ (place' = place + 1 \/ place' = place + 2)
    BY <1>5 DEF StepEnds, Call_
  <2>2. Unstarted' => Unstarted
    BY <1>1, <1>4, <2>1 DEF Unstarted
  <2> QED BY <1>1, <1>2, <1>3, <1>4, <2>1, <2>2 DEF SampleInv
<1>6. CASE ~(result \/ Call_.fail \in {"ignore", "skip"})
  <2>1. stage' = IF Call_.fail = "close" THEN "closing" ELSE "exit"
    BY <1>6 DEF StepEnds, Call_
  <2>2. ASSUME Call_.fail # "close", link = "up" PROVE DarkAhead
    <3>1. b[place].fail = "leave" BY <1>4, <1>6, <2>2 DEF Calls_, Call_
    <3>2. \A j \in 1 .. place : b[j].do # "start_measurement"
      BY <1>4, <3>1 DEF Orderly
    <3>3. Unstarted BY <1>4, <3>2 DEF Unstarted
    <3> QED BY <2>2, <3>3, QuietIsDark DEF SampleInv
  <2>3. ~Unstarted' BY <2>1 DEF Unstarted
  <2> QED BY <1>1, <1>2, <1>3, <2>1, <2>2, <2>3 DEF SampleInv
<1> QED BY <1>5, <1>6

\* What the sensor and the cable do keeps a dark sensor dark.
LEMMA DarkWorld ==
  ASSUME TypeOK, SensorDark, DarkAhead, Environment, link' # "down"
  PROVE  DarkAhead'
<1>1. CASE SensorReply BY <1>1, DarkReply
<1>2. CASE SensorScan
  <2>1. UNCHANGED outbox BY <1>2 DEF SensorScan
  <2>2. ~sensor.laser => (~sensor.laser)'
    <3>1. CASE sensor.left = 1
      <4>1. PICK lit \in {FALSE, sensor.laser} :
              sensor' = [sensor EXCEPT !.mode = "idle", !.laser = lit, !.left = 0]
        BY <1>2, <3>1 DEF SensorScan
      <4>2. ~sensor.laser => ~lit BY <4>1
      <4> QED BY <4>1, <4>2 DEF TypeOK, WorldTypeOK
    <3>2. CASE sensor.left # 1
      BY <1>2, <3>2 DEF SensorScan, TypeOK, WorldTypeOK
    <3> QED BY <3>1, <3>2
  <2> QED BY <2>1, <2>2 DEF DarkAhead
<1>3. CASE Garble \/ Lose
  <2>1. UNCHANGED <<outbox, sensor>> BY <1>3 DEF Garble, Lose, Fault
  <2> QED BY <2>1, DarkSame
<1>4. ~Break BY DEF Break
<1> QED BY <1>1, <1>2, <1>3, <1>4 DEF Environment

\* While nothing of a sample moves but the call it makes.
LEMMA WaitDark ==
  ASSUME TypeOK, ActiveUp, SampleInv, program # "caller", UNCHANGED progress, QuietMove,
         (stage = "run" /\ ~doing) \/ stage = "exit" => Idle',
         stage = "exit" /\ link' = "up" => DarkAhead'
  PROVE  SampleInv'
<1>1. UNCHANGED <<program, place, doing, stage>> BY DEF progress
<1>2. Unstarted' <=> Unstarted BY <1>1 DEF Unstarted
<1>3. Unstarted => (link = "up" => NotYet)' BY StillQuiet DEF SampleInv
<1> QED BY <1>1, <1>2, <1>3 DEF SampleInv

\* Every step keeps what a sample knows of its sensor.
LEMMA SampleStep ==
  ASSUME AtPlace, TypeOK, LaserInv, CloseInv, ActiveUp, SampleInv, program # "caller",
         [Next_]_pvars
  PROVE  SampleInv'
<1>1. UNCHANGED program BY PlaceStep
<1>2. CASE StepBegins
  <2>1. /\ UNCHANGED <<program, place, stage>> /\ doing' = TRUE /\ stage = "run" /\ doing = FALSE
        /\ place <= Len(Body[program])
    BY <1>2 DEF StepBegins, SampleInv
  <2>2. Unstarted' => Unstarted /\ Call_.do # "start_measurement"
    <3>1. place \in 1 .. Len(Body[program]) BY <2>1, SampleTable
    <3> QED BY <2>1, <3>1 DEF Unstarted, Call_
  <2>3. Unstarted' /\ link' = "up" => NotYet'
    BY <1>2, <2>2, SampleQuiet, StillQuiet DEF SampleInv
  <2> QED BY <2>1, <2>3 DEF SampleInv
<1>3. CASE StepEnds BY <1>3, EndDark
<1>4. CASE RunsOut
  <2>1. /\ UNCHANGED <<dvars, program, place, doing>> /\ doing = FALSE /\ stage = "run"
        /\ place = Len(Body[program]) + 1
        /\ stage' = IF program \in LeftOpen THEN "exit" ELSE "closing"
    BY <1>4 DEF RunsOut, SampleInv
  <2>2. Idle' /\ UNCHANGED link /\ (DarkAhead => DarkAhead')
    BY <2>1, DarkSame DEF SampleInv, Idle, dvars, vars, driver
  <2>3. ASSUME program \in LeftOpen, link = "up" PROVE DarkAhead
    <3>1. Unstarted BY <2>1, <2>3, LeftOpenQuiet DEF Unstarted
    <3> QED BY <2>3, <3>1, QuietIsDark DEF SampleInv
  <2>4. ~Unstarted' BY <2>1 DEF Unstarted
  <2> QED BY <2>1, <2>2, <2>3, <2>4 DEF SampleInv
<1>5. CASE Closes
  <2>1. /\ UNCHANGED <<program, place, doing>> /\ stage = "closing" /\ Idle
        /\ stage' = IF is_active THEN stage ELSE "exit"
        /\ ~is_active => UNCHANGED dvars
    BY <1>5 DEF Closes
  <2>2. doing = FALSE BY <2>1 DEF SampleInv
  <2>3. ~Unstarted' BY <2>1 DEF Unstarted
  <2>4. CASE is_active BY <2>1, <2>2, <2>3, <2>4 DEF SampleInv
  <2>5. CASE ~is_active
    <3>1. Idle' /\ UNCHANGED link BY <2>1, <2>5 DEF Idle, dvars, vars, driver
    <3>2. link' # "up" BY <2>5, <3>1 DEF ActiveUp
    <3> QED BY <2>1, <2>2, <2>3, <2>5, <3>1, <3>2 DEF SampleInv
  <2> QED BY <2>4, <2>5
<1>6. CASE LibraryReturns
  <2>1. UNCHANGED vars /\ UNCHANGED progress /\ ~Idle
    BY <1>6 DEF LibraryReturns, Idle, None
  <2>2. stage # "exit" /\ ~(stage = "run" /\ ~doing) BY <2>1 DEF SampleInv
  <2> QED BY <2>1, <2>2, WaitDark DEF QuietMove
<1>7. ~CallerCalls BY DEF CallerCalls
<1>8. CASE Runs /\ UNCHANGED progress
  <2>1. ~Idle /\ QuietMove BY <1>8, RunsInMethod, RunsQuiet
  <2>2. stage # "exit" /\ ~(stage = "run" /\ ~doing) BY <2>1 DEF SampleInv
  <2> QED BY <1>8, <2>1, <2>2, WaitDark
<1>9. CASE World /\ UNCHANGED progress
  <2>1. Environment /\ QuietMove BY <1>9 DEF World, QuietMove
  <2>2. Idle => Idle' BY <1>9, WorldOutside DEF Idle
  <2>3. link' = "up" => link = "up"
    BY <2>1 DEF Environment, SensorReply, SensorScan, Garble, Lose, Break, Fault
  <2>4. stage = "exit" /\ link' = "up" => DarkAhead'
    BY <2>1, <2>3, DarkWorld DEF SampleInv, LaserInv
  <2> QED BY <1>9, <2>1, <2>2, <2>4, WaitDark DEF SampleInv
<1>10. CASE UNCHANGED pvars
  <2>1. UNCHANGED vars /\ UNCHANGED progress /\ UNCHANGED method
    BY <1>10 DEF pvars, dvars, driver
  <2>2. Idle => Idle' BY <2>1 DEF Idle, vars
  <2>3. UNCHANGED <<link, outbox, sensor>> BY <2>1 DEF vars
  <2>4. stage = "exit" /\ link' = "up" => DarkAhead' BY <2>3, DarkSame DEF SampleInv
  <2> QED BY <2>1, <2>2, <2>4, WaitDark DEF SampleInv, QuietMove
<1> QED BY <1>2, <1>3, <1>4, <1>5, <1>6, <1>7, <1>8, <1>9, <1>10 DEF Next_, ProgramStep

(***************************************************************************)
(* The theorems.                                                           *)
(***************************************************************************)
\* The constructor leaves a session that is closed, and dark.
LEMMA DarkStart == Init_ => AtPlace /\ TypeOK /\ DarkInv
<1> SUFFICES ASSUME Init_ PROVE AtPlace /\ TypeOK /\ DarkInv OBVIOUS
<1>1. DriverInit /\ program \in Running /\ place = 1 /\ doing = FALSE /\ stage = "run"
  BY DEF Init_
<1>2. AtPlace BY <1>1, ProgramAssumption DEF AtPlace
<1>3. HostTypeOK
  <2>1. frames \in Seq(Frame) /\ scanning_remain_times \in Nat /\ specified_scan_times \in Nat
    BY <1>1 DEF DriverInit
  <2>2. xchg \in [cmd : CommandNames, line : 0 .. 2, ok : BOOLEAN,
                  body : BOOLEAN, round : {1, 2}]
    BY <1>1 DEF DriverInit, CommandNames
  <2>3. rcv \in [type : Types, points : 0 .. DataLines, stamp : BOOLEAN, gen : Nat]
    BY <1>1, BoundAssumption DEF DriverInit, Types
  <2>4. after \in [pc : Labels, code : Codes] BY <1>1 DEF DriverInit, Labels, Codes
  <2>5. /\ is_active \in BOOLEAN /\ is_sending \in BOOLEAN /\ is_laser_on \in BOOLEAN
        /\ ignore_checkSumError \in {0, 1} /\ last_errno \in Codes
        /\ pc \in Labels /\ op \in Functions \cup {"open"} /\ ret \in Codes
    BY <1>1 DEF DriverInit, Labels, Codes, Errors
  <2> QED BY <2>1, <2>2, <2>3, <2>4, <2>5 DEF HostTypeOK
<1>4. WorldTypeOK BY <1>1 DEF DriverInit, WorldTypeOK, Continuous
<1>5. /\ pc = "ready" /\ frames = <<>> /\ link = "closed" /\ is_active = FALSE /\ outbox = <<>>
      /\ sensor = [mode |-> "idle", laser |-> FALSE, rb |-> FALSE,
                   scan |-> "MD", left |-> 0, gen |-> 0]
      /\ method = None
  BY <1>1 DEF DriverInit
<1>6. DarkAhead BY <1>5 DEF DarkAhead
<1>7. LaserInv BY <1>5, <1>6 DEF LaserInv, FramesOK, ClosedOK, SensorDark
<1>8. CloseInv BY <1>5, <1>6 DEF CloseInv, AwaitsAnswer
<1>9. ActiveUp BY <1>5 DEF ActiveUp
<1>10. SampleInv BY <1>1, <1>5 DEF SampleInv, Idle
<1> QED BY <1>2, <1>3, <1>4, <1>7, <1>8, <1>9, <1>10 DEF DarkInv, TypeOK

\* Every step keeps it so.
LEMMA DarkStep ==
  AtPlace /\ TypeOK /\ DarkInv /\ [Next_]_pvars => AtPlace' /\ TypeOK' /\ DarkInv'
<1> SUFFICES ASSUME AtPlace, TypeOK, DarkInv, [Next_]_pvars
             PROVE  AtPlace' /\ TypeOK' /\ DarkInv'
  OBVIOUS
<1>1. AtPlace' /\ UNCHANGED program BY PlaceStep
<1>2. SessionStep BY SessionSteps
<1>3. TypeOK' BY <1>2, TypesKept
<1>4. ASSUME LaserLess PROVE LaserInv' /\ CloseInv' /\ ActiveUp' /\ SampleInv'
  <2>1. LaserInv /\ CloseInv /\ ActiveUp /\ SampleInv BY <1>4 DEF DarkInv
  <2>2. LaserInv' /\ CloseInv' /\ ActiveUp' BY <1>2, <1>4, <2>1, LaserKept
  <2>3. CASE program = "caller" BY <1>1, <2>2, <2>3 DEF SampleInv
  <2>4. CASE program # "caller" BY <2>1, <2>2, <2>4, SampleStep
  <2> QED BY <2>3, <2>4
<1>5. LaserLess' <=> LaserLess BY <1>1 DEF LaserLess
<1> QED BY <1>1, <1>3, <1>4, <1>5 DEF DarkInv

\* Under the driver and the programs the session keeps its types, however often it is
\* opened and closed.
THEOREM ProgramTypes == ProgramSpec => []TypeOK
<1> QED BY DarkStart, DarkStep, PTL DEF ProgramSpec

\* The caller has no table to run through.
CallerRuns == program = "caller" => stage = "run" /\ doing = FALSE

\* However a sample ends, with 0 or with 1, its sensor is dark when it has read what
\* it was sent, unless the cable was pulled: whatever is lost, garbled or late.
THEOREM SamplesLeaveDark == ProgramSpec => []DarkAtExit
<1>1. AtPlace /\ TypeOK /\ DarkInv /\ program # "caller" => DarkAtExit
  <2> SUFFICES ASSUME TypeOK, DarkInv, program # "caller",
                      stage = "exit", link # "down", outbox = <<>>
               PROVE  ~sensor.laser
    BY DEF DarkAtExit
  <2>1. CloseInv /\ SampleInv BY DEF DarkInv, LaserLess
  <2>2. CASE link = "up"
    <3>1. DarkAhead BY <2>1, <2>2 DEF SampleInv
    <3> QED BY <3>1 DEF DarkAhead
  <2>3. CASE link = "closed"
    <3>1. DarkAhead \/ SecondRB BY <2>1, <2>3 DEF CloseInv
    <3> QED BY <3>1 DEF DarkAhead, SecondRB
  <2> QED BY <2>2, <2>3 DEF TypeOK, WorldTypeOK
<1>2. Init_ => CallerRuns BY DEF Init_, CallerRuns
<1>3. AtPlace /\ CallerRuns /\ [Next_]_pvars => CallerRuns'
  <2> SUFFICES ASSUME AtPlace, CallerRuns, [Next_]_pvars, program = "caller"
               PROVE  stage' = "run" /\ doing' = FALSE
    BY PlaceStep DEF CallerRuns
  <2>1. stage = "run" /\ doing = FALSE BY DEF CallerRuns
  <2> QED BY <2>1 DEF Next_, ProgramStep, StepBegins, StepEnds, RunsOut, Closes,
                      LibraryReturns, CallerCalls, progress, pvars
<1>4. AtPlace /\ TypeOK /\ DarkInv /\ CallerRuns => DarkAtExit
  BY <1>1 DEF CallerRuns, DarkAtExit
<1> QED BY <1>2, <1>3, <1>4, DarkStart, DarkStep, PTL DEF ProgramSpec

\* A caller who leaves laser_on alone, whatever else he calls and in whatever order,
\* closes a session with its laser off, even when lines are lost.
THEOREM DriverIsDark ==
  ASSUME "laser_on" \notin CallerMethods PROVE ProgramSpec => []DriverClosesDark
<1>1. DarkInv => DriverClosesDark
  <2>1. LaserLess BY DEF LaserLess
  <2> QED BY <2>1, ClosedDark DEF DarkInv, DriverClosesDark
<1> QED BY <1>1, DarkStart, DarkStep, PTL DEF ProgramSpec

(***************************************************************************)
(* The tables of the samples once more: what a sample measures.            *)
(***************************************************************************)
\* Calls that neither start a measurement nor get a scan.
Modest  == {c \in Calls_ : c.do \notin {"start_measurement", "get"}}
\* A sample that measures starts one endless measurement, or one for each scan and gets
\* that scan before it starts the next; when a get fails it closes.
Measurer(body) ==
  /\ body \in Seq(Calls_)
  /\ \A i \in 1 .. Len(body) :
       /\ body[i].do \in {"open", "malloc", "start_measurement", "get"}
       /\ body[i].do = "get" => body[i].fail = "close"
       /\ body[i].fail # "skip"
       /\ body[i].do = "start_measurement" =>
            /\ body[i].times \in {0, 1} /\ body[i].fail = "ignore"
            /\ \A j \in 1 .. i - 1 : body[j].do = "start_measurement" =>
                 body[i].times = 1 /\ body[j].times = 1 /\ body[i - 1].do = "get"
\* All of it is of one type.
Measures(body, t) == \A i \in 1 .. Len(body) :
  body[i].do \in {"start_measurement", "get"} => body[i].type = t

\* A loop repeats its body.
LEMMA LoopEach ==
  ASSUME NEW S, NEW steps \in Seq(S), NEW n \in Nat, Len(steps) > 0
  PROVE  /\ Len(Repeated(steps, n)) = n * Len(steps) /\ Repeated(steps, n) \in Seq(S)
         /\ \A i \in 1 .. Len(Repeated(steps, n)) :
              Repeated(steps, n)[i] = steps[((i - 1) % Len(steps)) + 1]
<1> DEFINE k == Len(steps)
           m == n * k
           r == Repeated(steps, n)
<1>1. k \in Nat /\ m \in Nat OBVIOUS
<1>2. r = [i \in 1 .. m |-> steps[((i - 1) % k) + 1]] BY DEF Repeated
<1>3. r \in Seq(S) BY LoopOf
<1> HIDE DEF m, r
<1>4. Len(r) = m BY <1>1, <1>2, <1>3
<1> QED BY <1>2, <1>3, <1>4 DEF m, r

\* A sample opens the sensor, and may allocate memory, before it measures.
LEMMA MeasurerThen ==
  ASSUME NEW a \in Seq(Calls_), NEW r, NEW t, Measurer(r), Measures(r, t),
         \A i \in 1 .. Len(a) : a[i].do \in {"open", "malloc"} /\ a[i].fail # "skip"
  PROVE  Measurer(a \o r) /\ Measures(a \o r, t)
<1> DEFINE b == a \o r
           m == Len(a)
           n == Len(r)
<1>1. r \in Seq(Calls_) BY DEF Measurer
<1>2. /\ b \in Seq(Calls_) /\ m \in Nat /\ n \in Nat /\ Len(b) = m + n
      /\ \A i \in 1 .. m + n : b[i] = IF i <= m THEN a[i] ELSE r[i - m]
  BY <1>1
<1>3. \A i \in 1 .. m : a[i].do \in {"open", "malloc"} /\ a[i].fail # "skip" OBVIOUS
<1>4. /\ \A i \in 1 .. n :
           /\ r[i].do \in {"open", "malloc", "start_measurement", "get"}
           /\ r[i].do = "get" => r[i].fail = "close"
           /\ r[i].fail # "skip"
           /\ r[i].do = "start_measurement" =>
                /\ r[i].times \in {0, 1} /\ r[i].fail = "ignore"
                /\ \A j \in 1 .. i - 1 : r[j].do = "start_measurement" =>
                     r[i].times = 1 /\ r[j].times = 1 /\ r[i - 1].do = "get"
      /\ \A i \in 1 .. n : r[i].do \in {"start_measurement", "get"} => r[i].type = t
  BY DEF Measurer, Measures
<1> HIDE DEF b, m, n
<1>5. ASSUME NEW i \in 1 .. m + n
      PROVE  /\ b[i].do \in {"open", "malloc", "start_measurement", "get"}
             /\ b[i].do = "get" => b[i].fail = "close"
             /\ b[i].fail # "skip"
             /\ b[i].do = "start_measurement" =>
                  /\ b[i].times \in {0, 1} /\ b[i].fail = "ignore"
                  /\ \A j \in 1 .. i - 1 : b[j].do = "start_measurement" =>
                       b[i].times = 1 /\ b[j].times = 1 /\ b[i - 1].do = "get"
             /\ b[i].do \in {"start_measurement", "get"} => b[i].type = t
  <2>1. CASE i <= m
    <3>1. i \in 1 .. m /\ b[i] = a[i] BY <1>2, <2>1
    <3> QED BY <1>3, <3>1
  <2>2. CASE ~(i <= m)
    <3>1. i - m \in 1 .. n /\ b[i] = r[i - m] BY <1>2, <2>2
    <3>2. ASSUME b[i].do = "start_measurement",
                 NEW j \in 1 .. i - 1, b[j].do = "start_measurement"
          PROVE  b[i].times = 1 /\ b[j].times = 1 /\ b[i - 1].do = "get"
      <4>1. j > m
        <5>1. ASSUME j <= m PROVE FALSE
          <6>1. j \in 1 .. m /\ b[j] = a[j] BY <1>2, <5>1
          <6> QED BY <1>3, <3>2, <6>1
        <5> QED BY <1>2, <5>1
      <4> DEFINE u == i - m
                 v == j - m
      <4>2. /\ v \in 1 .. u - 1 /\ u \in 1 .. n /\ b[j] = r[v] /\ b[i] = r[u]
            /\ b[i - 1] = r[u - 1]
        <5>1. i - 1 \in 1 .. m + n /\ ~(i - 1 <= m) /\ (i - 1) - m = u - 1 /\ j \in 1 .. m + n
          BY <1>2, <2>2, <4>1
        <5> QED BY <1>2, <2>2, <4>1, <5>1
      <4> HIDE DEF u, v
      <4> QED BY <1>4, <3>2, <4>2
    <3> QED BY <1>4, <3>1, <3>2
  <2> QED BY <2>1, <2>2
<1>6. Measurer(b) BY <1>2, <1>5 DEF Measurer
<1>7. Measures(b, t) BY <1>2, <1>5 DEF Measures
<1> QED BY <1>6, <1>7 DEF b

\* The two ways of measuring.
LEMMA GetsMeasure ==
  ASSUME NEW t \in MeasureTypes
  PROVE  /\ Measurer(Gets(t)) /\ Measures(Gets(t), t)
         /\ Measurer(Handshake(t)) /\ Measures(Handshake(t), t)
         /\ Measurer(<<Started(t, 1), Got(t)>>) /\ Measures(<<Started(t, 1), Got(t)>>, t)
<1> DEFINE s == Started(t, URG_SCAN_INFINITY)
           o == Started(t, 1)
           g == Got(t)
           c == CaptureTimes
<1>1. /\ s \in Calls_ /\ o \in Calls_ /\ g \in Calls_ /\ c \in Nat
      /\ s.do = "start_measurement" /\ s.times = 0 /\ s.fail = "ignore" /\ s.type = t
      /\ o.do = "start_measurement" /\ o.times = 1 /\ o.fail = "ignore" /\ o.type = t
      /\ g.do = "get" /\ g.fail = "close" /\ g.type = t
  BY ProgramAssumption DEF Started, Got, Step, Calls_, Names, URG_SCAN_INFINITY
<1>2. /\ Gets(t) = <<s>> \o Repeated(<<g>>, c)
      /\ Handshake(t) = Repeated(<<o, g>>, c)
  BY DEF Gets, Handshake
<1> HIDE DEF s, o, g, c
<1>3. Measurer(Gets(t)) /\ Measures(Gets(t), t)
  <2> DEFINE r == Repeated(<<g>>, c)
             b == <<s>> \o r
  <2>2. r \in Seq(Calls_) /\ \A i \in 1 .. Len(r) : r[i] = g
    <3> DEFINE l == <<g>>
    <3>1. l \in Seq(Calls_) /\ Len(l) = 1 /\ Len(l) > 0 /\ l[1] = g BY <1>1
    <3> HIDE DEF l
    <3>2. /\ Repeated(l, c) \in Seq(Calls_)
          /\ \A i \in 1 .. Len(Repeated(l, c)) : Repeated(l, c)[i] = l[((i - 1) % Len(l)) + 1]
      BY <1>1, <3>1, LoopEach
    <3>3. \A i \in Int : (i - 1) % 1 = 0 OBVIOUS
    <3>4. /\ Repeated(l, c) \in Seq(Calls_)
          /\ \A i \in 1 .. Len(Repeated(l, c)) : Repeated(l, c)[i] = g
      BY <3>1, <3>2, <3>3
    <3> QED BY <3>4 DEF l
  <2> HIDE DEF r
  <2>3. /\ b \in Seq(Calls_) /\ Len(b) = 1 + Len(r) /\ Len(r) \in Nat
        /\ \A i \in 1 .. 1 + Len(r) : b[i] = IF i = 1 THEN s ELSE g
    <3>1. <<s>> \in Seq(Calls_) /\ Len(<<s>>) = 1 BY <1>1
    <3>2. \A i \in 1 .. 1 + Len(r) : i # 1 => i - 1 \in 1 .. Len(r) BY <2>2
    <3> QED BY <2>2, <3>1, <3>2
  <2> HIDE DEF b
  <2>4. Measurer(b)
    <3>1. \A i \in 1 .. Len(b) :
            /\ b[i].do \in {"start_measurement", "get"} /\ b[i].fail \in {"ignore", "close"}
            /\ b[i].do = "get" => b[i].fail = "close"
            /\ b[i].do = "start_measurement" => b[i].fail = "ignore"
            /\ b[i].do = "start_measurement" => i = 1 /\ b[i].times = 0
      BY <1>1, <2>3
    <3> QED BY <2>3, <3>1 DEF Measurer
  <2>5. Measures(b, t) BY <1>1, <2>3 DEF Measures
  <2> QED BY <1>2, <2>4, <2>5 DEF b, r
<1>4. Measurer(Handshake(t)) /\ Measures(Handshake(t), t)
  <2> DEFINE b == Repeated(<<o, g>>, c)
  <2>2. /\ b \in Seq(Calls_)
        /\ \A i \in 1 .. Len(b) : b[i] = IF (i - 1) % 2 = 0 THEN o ELSE g
    <3> DEFINE l == <<o, g>>
    <3>1. l \in Seq(Calls_) /\ Len(l) = 2 /\ Len(l) > 0 /\ l[1] = o /\ l[2] = g BY <1>1
    <3> HIDE DEF l
    <3>2. /\ Repeated(l, c) \in Seq(Calls_)
          /\ \A i \in 1 .. Len(Repeated(l, c)) : Repeated(l, c)[i] = l[((i - 1) % Len(l)) + 1]
      BY <1>1, <3>1, LoopEach
    <3>3. \A i \in Int : (i - 1) % 2 \in {0, 1} OBVIOUS
    <3>4. ASSUME NEW i \in 1 .. Len(Repeated(l, c))
          PROVE  Repeated(l, c)[i] = IF (i - 1) % 2 = 0 THEN o ELSE g
      <4>1. Repeated(l, c)[i] = l[((i - 1) % 2) + 1] BY <3>1, <3>2
      <4>2. (i - 1) % 2 = 0 \/ (i - 1) % 2 = 1 BY <3>3
      <4>3. CASE (i - 1) % 2 = 0 BY <3>1, <4>1, <4>3
      <4>4. CASE (i - 1) % 2 = 1 BY <3>1, <4>1, <4>4
      <4> QED BY <4>2, <4>3, <4>4
    <3>5. /\ Repeated(l, c) \in Seq(Calls_)
          /\ \A i \in 1 .. Len(Repeated(l, c)) :
               Repeated(l, c)[i] = IF (i - 1) % 2 = 0 THEN o ELSE g
      BY <3>2, <3>4
    <3> QED BY <3>5 DEF l
  <2> HIDE DEF b
  <2>3. \A i \in 1 .. Len(b) :
            /\ b[i].do \in {"start_measurement", "get"} /\ b[i].fail \in {"ignore", "close"}
            /\ b[i].do = "get" => b[i].fail = "close"
            /\ b[i].do = "start_measurement" => b[i].fail = "ignore"
            /\ b[i].do = "start_measurement" => (i - 1) % 2 = 0 /\ b[i].times = 1
    BY <1>1, <2>2
  <2>4. ASSUME NEW i \in 1 .. Len(b), NEW j \in 1 .. i - 1, (i - 1) % 2 = 0
        PROVE  b[i - 1].do = "get"
    <3>1. ((i - 1) - 1) % 2 # 0 BY <2>4
    <3>2. i - 1 \in 1 .. Len(b) BY <2>2
    <3> QED BY <1>1, <2>2, <3>1, <3>2
  <2>5. Measurer(b) BY <2>2, <2>3, <2>4 DEF Measurer
  <2>6. Measures(b, t) BY <1>1, <2>2 DEF Measures
  <2> QED BY <1>2, <2>5, <2>6 DEF b
<1>5. Measurer(<<o, g>>) /\ Measures(<<o, g>>, t)
  BY <1>1 DEF Measurer, Measures
<1> QED BY <1>3, <1>4, <1>5 DEF o, g

\* Every sample measures in one of these ways, or does not measure.
LEMMA TablesMeasure ==
  ASSUME NEW p \in InC \cup InCpp
  PROVE  \/ Body[p] \in Seq(Modest)
         \/ \E t \in MeasureTypes : Measurer(Body[p]) /\ Measures(Body[p], t)
<1> DEFINE Good(b) == \E t \in MeasureTypes : Measurer(b) /\ Measures(b, t)
<1>1. /\ {"Distance", "Distance_intensity", "Multiecho", "Multiecho_intensity"} \subseteq MeasureTypes
      /\ {"Distance_io", "Distance_intensity_io"} \subseteq MeasureTypes
  BY DEF MeasureTypes, IoTypes
<1>2. ASSUME NEW r, Good(r)
      PROVE  Good(<<Opened>> \o r) /\ Good(<<Opened, Memory>> \o r)
  <2> DEFINE o == Opened
             m == Memory
  <2>1. /\ o \in Calls_ /\ o.do = "open" /\ o.fail # "skip"
        /\ m \in Calls_ /\ m.do = "malloc" /\ m.fail # "skip"
    BY DEF Opened, Memory, Step, Calls_, Names
  <2> HIDE DEF o, m
  <2> DEFINE k == <<o>>
             l == <<o, m>>
  <2>2. /\ k \in Seq(Calls_) /\ \A i \in 1 .. Len(k) : k[i].do \in {"open", "malloc"} /\ k[i].fail # "skip"
        /\ l \in Seq(Calls_) /\ \A i \in 1 .. Len(l) : l[i].do \in {"open", "malloc"} /\ l[i].fail # "skip"
    BY <2>1
  <2> HIDE DEF k, l
  <2>3. Good(k \o r) BY <1>2, <2>2, MeasurerThen
  <2>4. Good(l \o r) BY <1>2, <2>2, MeasurerThen
  <2> QED BY <2>3, <2>4 DEF k, l, o, m
<1>3. \A t \in MeasureTypes : Good(Gets(t)) /\ Good(Handshake(t)) /\ Good(<<Started(t, 1), Got(t)>>)
  BY GetsMeasure
<1>4. ASSUME p \in {"c_get_distance", "c_get_distance_intensity", "c_get_distance_io",
                    "c_get_multiecho", "c_get_multiecho_intensity", "c_get_distance_handshake",
                    "c_calculate_xy"}
      PROVE  Good(Body[p])
  <2>1. Body[p] = CBody[p] BY <1>4 DEF Body, InC, CBody
  <2>2. \E r : Good(r) /\ CBody[p] = <<Opened, Memory>> \o r
    <3>1. CASE p = "c_calculate_xy"
      <4> DEFINE s == Started("Distance", 1)
                 g == Got("Distance")
      <4>1. CBody[p] = <<Opened, Memory, s, g>> BY <3>1 DEF CBody, c_calculate_xy
      <4>2. Good(<<s, g>>) BY <1>1, <1>3
      <4> HIDE DEF s, g, Good
      <4>3. CBody[p] = <<Opened, Memory>> \o <<s, g>> BY <4>1
      <4> QED BY <4>2, <4>3
    <3>2. CASE p # "c_calculate_xy"
      <4> DEFINE Long(f) == \E t \in MeasureTypes : f = <<Opened, Memory>> \o Gets(t)
                                                   \/ f = <<Opened, Memory>> \o Handshake(t)
      <4>1. /\ Long(c_get_distance) /\ Long(c_get_distance_intensity) /\ Long(c_get_distance_io)
            /\ Long(c_get_multiecho) /\ Long(c_get_multiecho_intensity)
            /\ Long(c_get_distance_handshake)
        BY <1>1 DEF c_get_distance, c_get_distance_intensity, c_get_distance_io,
           c_get_multiecho, c_get_multiecho_intensity, c_get_distance_handshake
      <4> HIDE DEF Good, Long
      <4>2. Long(CBody[p]) BY <1>4, <3>2, <4>1 DEF CBody
      <4> QED BY <1>3, <4>2 DEF Long
    <3> QED BY <3>1, <3>2
  <2> HIDE DEF Good
  <2> QED BY <1>2, <2>1, <2>2
<1>5. ASSUME p \in InCpp, p \notin {"cpp_sensor_parameter", "cpp_sync_time_stamp"}
      PROVE  Good(Body[p])
  <2>1. Body[p] = CppBody[p] BY <1>5 DEF Body, InC, InCpp, CBody, CppBody
  <2> DEFINE Short(f) == \E t \in MeasureTypes : f = <<Opened>> \o Gets(t)
                                                \/ f = <<Opened>> \o Handshake(t)
  <2>2. /\ Short(cpp_get_distance) /\ Short(cpp_get_distance_intensity) /\ Short(cpp_get_distance_io)
        /\ Short(cpp_get_distance_intensity_io) /\ Short(cpp_get_multiecho)
        /\ Short(cpp_get_multiecho_intensity) /\ Short(cpp_get_distance_handshake)
    BY <1>1 DEF cpp_get_distance, cpp_get_distance_intensity, cpp_get_distance_io,
       cpp_get_distance_intensity_io, cpp_get_multiecho, cpp_get_multiecho_intensity,
       cpp_get_distance_handshake
  <2> HIDE DEF Good, Short
  <2>3. Short(CppBody[p]) BY <1>5, <2>2 DEF InCpp, CppBody
  <2> QED BY <1>2, <1>3, <2>1, <2>3 DEF Short
<1>6. /\ Opened \in Modest
      /\ \A name \in Names \ {"start_measurement", "get"} : Do(name) \in Modest
      /\ Step("get_sensor_time_stamp", "none", 0, "skip") \in Modest
  BY DEF Opened, Do, Step, Modest, Calls_, Names
<1>7. AllTexts \in Seq(Modest)
  <2>1. /\ Do("product_type") \in Modest /\ Do("firmware_version") \in Modest
        /\ Do("serial_id") \in Modest /\ Do("status") \in Modest /\ Do("state") \in Modest
    BY <1>6 DEF Names, TextNames
  <2> QED BY <2>1 DEF AllTexts
<1> DEFINE b == Do("start_time_stamp_mode")
           r == Step("get_sensor_time_stamp", "none", 0, "skip")
           d == Do("get_sensor_time_stamp")
           e == Do("stop_time_stamp_mode")
           o == Opened
           t == Do("set_sensor_time_stamp")
           c == Do("close")
           x == Do("reboot")
           y == Do("raw_read")
           l == <<d>>
           u == <<b, r, e>>
           st == StampsCpp
           at == AllTexts
<1>8. b \in Modest /\ r \in Modest /\ d \in Modest /\ e \in Modest /\ o \in Modest
      /\ t \in Modest /\ c \in Modest /\ x \in Modest /\ y \in Modest
  BY <1>6 DEF Names
<1>9. /\ u \in Seq(Modest) /\ Len(u) > 0 /\ l \in Seq(Modest) /\ Len(l) > 0
      /\ <<b>> \in Seq(Modest) /\ <<e>> \in Seq(Modest) /\ <<o>> \in Seq(Modest)
      /\ <<t>> \in Seq(Modest) /\ <<c>> \in Seq(Modest) /\ <<x>> \in Seq(Modest) /\ <<y>> \in Seq(Modest)
  <2> HIDE DEF b, r, d, e, o, t, c, x, y
  <2> QED BY <1>8
<1>10. CaptureTimes \in Nat /\ 1 + CaptureTimes \in Nat BY ProgramAssumption
<1>11. /\ StampOnce = u /\ StampsCpp = <<b>> \o Repeated(l, CaptureTimes) \o <<e>>
  BY DEF StampOnce, StampsCpp
<1> HIDE DEF u, l
<1>12. Repeated(u, 1 + CaptureTimes) \in Seq(Modest) /\ Repeated(l, CaptureTimes) \in Seq(Modest)
  BY <1>9, <1>10, LoopOf
<1>13. st \in Seq(Modest) /\ at \in Seq(Modest)
  <2> DEFINE w == Repeated(l, CaptureTimes)
  <2>1. st = <<b>> \o w \o <<e>> BY <1>11
  <2>2. w \in Seq(Modest) BY <1>12
  <2> HIDE DEF w, b, e
  <2>3. <<b>> \o w \in Seq(Modest) BY <1>9, <2>2
  <2> QED BY <1>7, <1>9, <2>1, <2>3
<1>14. ASSUME p \in {"c_sync_time_stamp", "c_sensor_parameter", "c_reboot_test", "c_timeout_test",
                     "c_angle_convert_test"}
       PROVE  Body[p] \in Seq(Modest)
  <2> DEFINE w == Repeated(u, 1 + CaptureTimes)
  <2>1. Body[p] = CBody[p] BY <1>14 DEF Body, InC, CBody
  <2>2. /\ c_sync_time_stamp = <<o>> \o w /\ c_sensor_parameter = <<o>> \o at
        /\ c_reboot_test = <<o, x>> /\ c_timeout_test = <<o, y>> /\ c_angle_convert_test = <<o>>
    BY <1>11 DEF c_sync_time_stamp, c_sensor_parameter, c_reboot_test, c_timeout_test,
                 c_angle_convert_test
  <2>3. w \in Seq(Modest) BY <1>12
  <2> HIDE DEF o, x, y, w, at
  <2>4. /\ c_sync_time_stamp \in Seq(Modest) /\ c_sensor_parameter \in Seq(Modest)
        /\ c_reboot_test \in Seq(Modest) /\ c_timeout_test \in Seq(Modest)
        /\ c_angle_convert_test \in Seq(Modest)
    BY <1>8, <1>9, <1>13, <2>2, <2>3
  <2> QED BY <1>14, <2>1, <2>4 DEF CBody
<1>15. ASSUME p \in {"cpp_sensor_parameter", "cpp_sync_time_stamp"}
       PROVE  Body[p] \in Seq(Modest)
  <2>1. Body[p] = CppBody[p] BY <1>15 DEF Body, InC, InCpp, CBody, CppBody
  <2>2. /\ cpp_sensor_parameter = <<o>> \o at \o <<c>>
        /\ cpp_sync_time_stamp = <<o>> \o st \o <<t>> \o st
    BY DEF cpp_sensor_parameter, cpp_sync_time_stamp
  <2> HIDE DEF o, t, c, at, st
  <2>3. <<o>> \o at \in Seq(Modest) /\ <<o>> \o st \in Seq(Modest) BY <1>9, <1>13
  <2>4. <<o>> \o at \o <<c>> \in Seq(Modest) /\ <<o>> \o st \o <<t>> \in Seq(Modest)
    BY <1>9, <2>3
  <2>5. <<o>> \o st \o <<t>> \o st \in Seq(Modest) BY <1>13, <2>4
  <2>6. cpp_sensor_parameter \in Seq(Modest) /\ cpp_sync_time_stamp \in Seq(Modest)
    BY <2>2, <2>4, <2>5
  <2> QED BY <1>15, <2>1, <2>6 DEF CppBody
<1>16. p \in InC =>
         \/ p \in {"c_get_distance", "c_get_distance_intensity", "c_get_distance_io",
                   "c_get_multiecho", "c_get_multiecho_intensity", "c_get_distance_handshake",
                   "c_calculate_xy"}
         \/ p \in {"c_sync_time_stamp", "c_sensor_parameter", "c_reboot_test",
                   "c_timeout_test", "c_angle_convert_test"}
  BY DEF InC, CBody
<1> HIDE DEF Good
<1> QED BY <1>4, <1>5, <1>14, <1>15, <1>16 DEF Good

(***************************************************************************)
(* The calls of a sample, one by one.                                      *)
(***************************************************************************)
\* The calls that are one exchange, and the command each of them sends.
Asks    == {"info", "reboot", "tm_start", "time_stamp", "tm_stop"}
OrderOf == [start |-> "BM", info |-> "VV", reboot |-> "RB", tm_start |-> "TM0",
            time_stamp |-> "TM1", tm_stop |-> "TM2"]

\* Which call it is, its name tells.
LEMMA AskCalls ==
  ASSUME NEW o \in Asks, Calling(o) PROVE NotConnected(o) \/ Ask(o, OrderOf[o])
<1>1. op' = o /\ Application BY DEF Calling
<1>2. ~StartRejected /\ ~Start /\ ~Get /\ ~LaserOn /\ ~Close
  BY <1>1 DEF StartRejected, Start, Get, LaserOn, Close, Ask, Call, Asks
<1>3. \A v \in {"stop", "wakeup", "sleep"} : ~Stop(v) BY <1>1 DEF Stop, Call, Asks
<1>4. \A v \in Functions : NotConnected(v) => v = o BY <1>1 DEF NotConnected
<1>5. \A v, c : Ask(v, c) => v = o BY <1>1 DEF Ask, Call
<1>6. \/ NotConnected(o)
      \/ Ask("tm_start", "TM0") \/ Ask("time_stamp", "TM1") \/ Ask("tm_stop", "TM2")
      \/ Ask("info", "VV") \/ Ask("reboot", "RB")
  BY <1>1, <1>2, <1>3, <1>4 DEF Application
<1> QED BY <1>5, <1>6 DEF OrderOf

LEMMA GetCalls == Calling("get") => NotConnected("get") \/ Get
<1> SUFFICES ASSUME Calling("get") PROVE NotConnected("get") \/ Get OBVIOUS
<1>1. op' = "get" /\ Application BY DEF Calling
<1>2. ~StartRejected /\ ~Start /\ ~LaserOn /\ ~Close
  BY <1>1 DEF StartRejected, Start, LaserOn, Close, Ask, Call
<1>3. \A v \in {"stop", "wakeup", "sleep"} : ~Stop(v) BY <1>1 DEF Stop, Call
<1>4. \A v \in Functions : NotConnected(v) => v = "get" BY <1>1 DEF NotConnected
<1>5. \A v, c : Ask(v, c) => v = "get" BY <1>1 DEF Ask, Call
<1> QED BY <1>1, <1>2, <1>3, <1>4, <1>5 DEF Application

LEMMA CloseCalls == Calling("close") => Close
<1> SUFFICES ASSUME Calling("close") PROVE Close OBVIOUS
<1>1. op' = "close" /\ Application BY DEF Calling
<1>2. ~StartRejected /\ ~Start /\ ~LaserOn /\ ~Get
  BY <1>1 DEF StartRejected, Start, LaserOn, Get, Ask, Call
<1>3. \A v \in {"stop", "wakeup", "sleep"} : ~Stop(v) BY <1>1 DEF Stop, Call
<1>4. \A v \in Functions : ~NotConnected(v) BY <1>1 DEF NotConnected
<1>5. \A v, c : Ask(v, c) => v = "close" BY <1>1 DEF Ask, Call
<1> QED BY <1>1, <1>2, <1>3, <1>4, <1>5 DEF Application

\* What a step of the table is.
BeginsOpen  == /\ Call_.do = "open" /\ method' = None
               /\ \E d \in Devices : Open(d)
BeginsStart == /\ Call_.do = "start_measurement"
               /\ urg_start_measurement(Call_.type, Call_.times)
               /\ method'.name \in {"c", "start_measurement"}
BeginsGet   == /\ Call_.do = "get"
               /\ urg_get(Call_.type) /\ UNCHANGED kinds
               /\ method'.name \in {"c_get", "get"} /\ method'.type = Call_.type
Mismatches  == /\ Call_.do = "get" /\ Mismatch /\ UNCHANGED kinds
BeginsAsk   == /\ Call_ \in Modest /\ Call_.do \notin {"open", "malloc"} /\ UNCHANGED kinds
               /\ \E o \in Asks : /\ Calling(o)
                                  /\ method'.name = "set_sensor_time_stamp"
                                     => o = "tm_start" /\ method'.good
               /\ method'.name \notin {"get", "open"}
BeginsClose == /\ Call_.do = "close" /\ Calling("close") /\ UNCHANGED kinds
               /\ method'.name = "close"
BeginsNone  == /\ Call_ \in Modest /\ UNCHANGED <<vars, method, kinds>>

LEMMA TableBegins ==
  ASSUME AtPlace, SampleInv, StepBegins
  PROVE  /\ program # "caller" /\ Idle /\ stage = "run" /\ doing = FALSE
         /\ place \in 1 .. Len(Body[program]) /\ Call_ \in Calls_
         /\ UNCHANGED <<program, place, stage, time_stamp_offset_>> /\ doing' = TRUE
         /\ \/ BeginsOpen \/ BeginsStart \/ BeginsGet \/ Mismatches
            \/ BeginsAsk \/ BeginsClose \/ BeginsNone
<1> DEFINE s == Body[program][place]
<1>1. /\ program # "caller" /\ stage = "run" /\ doing = FALSE
      /\ place <= Len(Body[program]) /\ UNCHANGED <<program, place, stage>> /\ doing' = TRUE
      /\ \/ s.do = "open" /\ \E d \in Devices : Open(d)
         \/ program \in InC /\ PerformInC(s)
         \/ program \in InCpp /\ PerformInCpp(s)
  <2>1. /\ program # "caller" /\ stage = "run" /\ ~doing
        /\ place <= Len(Body[program]) /\ UNCHANGED <<program, place, stage>> /\ doing' = TRUE
    BY DEF StepBegins
  <2>2. doing = FALSE BY <2>1 DEF SampleInv
  <2>3. \/ s.do = "open" /\ \E d \in Devices : Open(d)
        \/ program \in InC /\ PerformInC(s)
        \/ program \in InCpp /\ PerformInCpp(s)
    BY DEF StepBegins
  <2> QED BY <2>1, <2>2, <2>3
<1>2. Idle BY <1>1 DEF SampleInv
<1>3. place \in 1 .. Len(Body[program]) /\ s \in Calls_ /\ Call_ = s
  BY <1>1, SampleTable DEF Call_
<1>4. s.do \in DOMAIN CallOf =>
        s \in Modest /\ CallOf[s.do] \in Asks /\ s.do \notin {"open", "malloc"}
        /\ s.do \notin {"get", "open", "set_sensor_time_stamp"}
  BY <1>3 DEF CallOf, Asks, Calls_, Names, TextNames, Modest
<1>5. s.do \notin {"start_measurement", "get"} => s \in Modest BY <1>3 DEF Modest
<1> HIDE DEF s
<1>6. \A n, t : /\ M(n, t).name = n /\ M(n, t).type = t
                /\ M(n, t).good
  BY DEF M, None
<1>7. CASE s.do = "open" /\ \E d \in Devices : Open(d)
  BY <1>1, <1>2, <1>3, <1>7 DEF BeginsOpen, Open
<1>8. CASE PerformInC(s)
  <2>1. CASE s.do = "start_measurement"
             /\ InLibrary("c", s.type, urg_start_measurement(s.type, s.times))
    BY <1>1, <1>2, <1>3, <1>6, <2>1 DEF InLibrary, BeginsStart, members
  <2>2. CASE s.do = "get" /\ InLibrary("c_get", s.type, urg_get(s.type)) /\ UNCHANGED kinds
    BY <1>1, <1>2, <1>3, <1>6, <2>2 DEF InLibrary, BeginsGet, members
  <2>3. CASE s.do \in DOMAIN CallOf /\ InLibrary("c", "none", Calling(CallOf[s.do]))
             /\ UNCHANGED kinds
    BY <1>1, <1>2, <1>3, <1>4, <1>6, <2>3 DEF InLibrary, BeginsAsk, members
  <2>4. CASE s.do \in {"malloc", "raw_read"} /\ UNCHANGED <<vars, method>>
             /\ UNCHANGED <<members, kinds>>
    BY <1>1, <1>2, <1>3, <1>5, <2>4 DEF BeginsNone, members
  <2> QED BY <1>8, <2>1, <2>2, <2>3, <2>4 DEF PerformInC, EndsAtOnce
<1>9. CASE PerformInCpp(s)
  <2>1. CASE s.do = "start_measurement" /\ start_measurement(s.type, s.times)
    BY <1>1, <1>2, <1>3, <1>6, <2>1 DEF start_measurement, BeginsStart, members
  <2>2. CASE s.do = "get" /\ get(s.type)
    <3>1. CASE last_measure_type_ # s.type
      BY <1>1, <1>2, <1>3, <2>2, <3>1 DEF get, Mismatches, members
    <3>2. CASE last_measure_type_ = s.type
      BY <1>1, <1>2, <1>3, <1>6, <2>2, <3>2 DEF get, BeginsGet, members
    <3> QED BY <3>1, <3>2
  <2>3. CASE s.do \in DOMAIN CallOf /\ simple(s.do)
    <3>1. UNCHANGED <<time_stamp_offset_, kinds>> BY <2>3 DEF simple, members
    <3>2. \/ UNCHANGED <<vars, method>>
          \/ Calling(CallOf[s.do]) /\ method' = M(s.do, "none")
      BY <2>3 DEF simple, EndsAtOnce
    <3>3. UNCHANGED <<vars, method>> => BeginsNone BY <1>3, <1>4, <2>3, <3>1 DEF BeginsNone
    <3>4. Calling(CallOf[s.do]) /\ method' = M(s.do, "none") => BeginsAsk
      BY <1>3, <1>4, <1>6, <2>3, <3>1 DEF BeginsAsk
    <3> QED BY <1>1, <1>2, <1>3, <3>1, <3>2, <3>3, <3>4
  <2>4. CASE s.do = "set_sensor_time_stamp" /\ set_sensor_time_stamp
    <3>1. /\ Calling("tm_start") /\ UNCHANGED <<time_stamp_offset_, kinds>>
          /\ method'.name = "set_sensor_time_stamp" /\ method'.good
      BY <2>4 DEF set_sensor_time_stamp, members, M, None
    <3> QED BY <1>1, <1>2, <1>3, <1>5, <2>4, <3>1 DEF BeginsAsk, Asks
  <2>5. CASE s.do = "close" /\ DriverClose
    <3>1. CASE is_active
      BY <1>1, <1>2, <1>3, <1>6, <2>5, <3>1 DEF DriverClose, BeginsClose, members
    <3>2. CASE ~is_active
      BY <1>1, <1>2, <1>3, <1>5, <2>5, <3>2 DEF DriverClose, EndsAtOnce, BeginsNone, members
    <3> QED BY <3>1, <3>2
  <2> QED BY <1>9, <2>1, <2>2, <2>3, <2>4, <2>5 DEF PerformInCpp
<1> QED BY <1>1, <1>7, <1>8, <1>9

(***************************************************************************)
(* What the library does by itself, and what the sensor does.              *)
(***************************************************************************)
\* Giving up sends nothing but a QT.
LEMMA GivingUpMoves ==
  ASSUME NEW a, IgnoreReceiveDataWithQt(a)
  PROVE  /\ UNCHANGED <<is_active, is_sending>>
         /\ outbox' = outbox \/ outbox' = Sent("QT", 0, 0)
         /\ IF is_sending THEN pc' = "drain" /\ after' = a ELSE pc' = a.pc /\ ret' = a.code
<1>1. UNCHANGED <<is_active, is_sending>>
  BY DEF IgnoreReceiveDataWithQt, flags
<1> QED BY <1>1 DEF IgnoreReceiveDataWithQt, Writes, Resume

\* A line is read, or none.
LEMMA ReadsMoves ==
  ASSUME NEW l \in Incoming, Reads(l)
  PROVE  UNCHANGED inbox \/ (inbox # <<>> /\ inbox' = Tail(inbox))
<1>1. Timeout.kind = "timeout" BY DEF Timeout, Plain
<1>2. ~Failed(l) => inbox # <<>> BY DEF Incoming, Failed
<1> QED BY <1>2 DEF Reads

\* The orders that measure.
Orders == Single \cup Continuous

\* What a step of the library may do.
Moves ==
  /\ UNCHANGED <<op, gen, faults, specified_scan_times, sensor>>
  /\ is_sending' => is_sending
  /\ is_active' => is_active
  /\ inbox' = <<>> \/ UNCHANGED inbox \/ (inbox # <<>> /\ inbox' = Tail(inbox))
  /\ \/ UNCHANGED outbox
     \/ \E c \in CommandNames \ Orders : outbox' = Sent(c, 0, 0)
     \/ \E c \in Single : pc = "send_single" /\ outbox' = Sent(c, 1, gen)
  /\ UNCHANGED link \/ (link' = "closed" /\ ~is_active')

LEMMA HostMoves ==
  ASSUME TypeOK, Host PROVE Moves
<1> DEFINE Read == inbox' = <<>> \/ UNCHANGED inbox \/ (inbox # <<>> /\ inbox' = Tail(inbox))
           Wrote == \/ UNCHANGED outbox
                    \/ \E c \in CommandNames \ Orders : outbox' = Sent(c, 0, 0)
           Still == UNCHANGED <<op, gen, faults, sensor, link>>
<1>1. ASSUME NEW l \in Incoming, Reads(l) PROVE Read BY <1>1, ReadsMoves
<1>2. {"QT", "RB", "%SL"} \subseteq CommandNames \ Orders
  BY DEF CommandNames, Orders, Single, Continuous
<1>3. CASE SendSingle
  <2>1. \E c \in Single : outbox' = Sent(c, 1, gen) BY <1>3 DEF SendSingle, Single
  <2>2. /\ pc = "send_single"
        /\ UNCHANGED <<op, gen, faults, specified_scan_times, sensor, is_active, is_sending, inbox, link>>
    BY <1>3 DEF SendSingle, flags, config, host, budgets
  <2> QED BY <2>1, <2>2 DEF Moves
<1>4. CASE CloseDone
  <2>1. /\ UNCHANGED <<op, gen, faults, specified_scan_times, sensor, is_sending, outbox>>
        /\ ConnectionClose
    BY <1>4 DEF CloseDone, config, host, budgets
  <2> QED BY <2>1 DEF Moves, ConnectionClose
<1>5. CASE ScipResponse
  <2>1. /\ UNCHANGED <<op, gen, faults, specified_scan_times, sensor, is_active, is_sending, outbox, link>>
        /\ \E l \in Incoming : Reads(l)
    BY <1>5 DEF ScipResponse, config, flags
  <2>2. Read BY <1>1, <2>1
  <2> QED BY <2>1, <2>2 DEF Moves
<1>6. CASE LaserOnDone \/ TimeStampModeDone \/ TimeStampDone \/ InfoDone \/ SleepDone
  <2>1. /\ UNCHANGED <<op, gen, faults, specified_scan_times, sensor, is_active, is_sending,
                       outbox, inbox, link>>
    BY <1>6 DEF LaserOnDone, TimeStampModeDone, TimeStampDone, InfoDone, SleepDone, AfterAnswer,
                config, flags, budgets
  <2> QED BY <2>1 DEF Moves
<1>7. CASE RebootDone
  <2>1. UNCHANGED <<op, gen, faults, specified_scan_times, sensor, is_sending>>
    BY <1>7 DEF RebootDone, AfterAnswer, config, budgets
  <2>2. \/ UNCHANGED <<is_active, outbox, inbox, link>>
        \/ outbox' = Sent("RB", 0, 0) /\ UNCHANGED <<is_active, inbox, link>>
        \/ ConnectionClose /\ UNCHANGED outbox
    <3>1. xchg.round \in {1, 2} BY DEF TypeOK, HostTypeOK
    <3> QED BY <1>7, <3>1 DEF RebootDone, Exchange, Writes
  <2> QED BY <1>2, <2>1, <2>2 DEF Moves, ConnectionClose
<1>8. CASE RdEcho \/ RdQt \/ RdIo \/ RdStamp \/ GetDone
  <2>1. /\ Still /\ UNCHANGED <<specified_scan_times, is_active, is_sending, outbox>>
    BY <1>8 DEF RdEcho, RdQt, RdIo, RdStamp, GetDone, Reading, Untouched, flags, config
  <2>2. UNCHANGED inbox \/ \E l \in Incoming : Reads(l)
    BY <1>8 DEF RdEcho, RdQt, RdIo, RdStamp, GetDone
  <2>3. Read BY <1>1, <2>2
  <2> QED BY <2>1, <2>3 DEF Moves
<1>9. CASE RdStatus \/ RdAck \/ RdData
  <2>1. Still /\ UNCHANGED specified_scan_times
    BY <1>9 DEF RdStatus, RdAck, RdData, Reading, config
  <2>2. \E l \in Incoming : Reads(l) BY <1>9 DEF RdStatus, RdAck, RdData
  <2>3. Read BY <1>1, <2>2
  <2>4. \/ UNCHANGED <<flags, outbox>>
        \/ \E label, c : Abort(label, c)
    <3>1. CASE RdStatus BY <3>1 DEF RdStatus, Untouched
    <3>2. CASE RdAck BY <3>2 DEF RdAck, Untouched
    <3>3. CASE RdData BY <3>3 DEF RdData, Untouched
    <3> QED BY <1>9, <3>1, <3>2, <3>3
  <2>5. UNCHANGED <<is_active, is_sending>> /\ Wrote
    <3>1. CASE UNCHANGED <<flags, outbox>> BY <3>1 DEF flags
    <3>2. CASE \E label, c : Abort(label, c)
      BY <1>2, <3>2, GivingUpMoves DEF Abort
    <3> QED BY <2>4, <3>1, <3>2
  <2> QED BY <2>1, <2>3, <2>5 DEF Moves
<1>10. CASE RdCount
  <2>1. Still /\ UNCHANGED <<specified_scan_times, inbox, flags>> /\ Wrote
    BY <1>2, <1>10 DEF RdCount, Reading, Writes
  <2> QED BY <2>1 DEF Moves, flags
<1>11. CASE StopLoop
  <2>1. /\ Still /\ UNCHANGED <<specified_scan_times, inbox, outbox, is_active>>
        /\ is_sending' = FALSE \/ UNCHANGED is_sending
    BY <1>11 DEF StopLoop, Reading, config
  <2> QED BY <2>1 DEF Moves
<1>12. CASE StopDone
  <2>1. /\ Still /\ UNCHANGED <<specified_scan_times, inbox, is_active, is_sending>>
        /\ UNCHANGED outbox \/ outbox' = Sent("%SL", 0, 0)
    BY <1>12 DEF StopDone, Exchange, Writes, flags, config, budgets
  <2> QED BY <1>2, <2>1 DEF Moves
<1>13. CASE Drain
  <2>1. /\ Still /\ UNCHANGED <<specified_scan_times, outbox, is_active>>
        /\ is_sending' = FALSE \/ UNCHANGED is_sending
        /\ \E l \in Incoming : Reads(l)
    BY <1>13 DEF Drain, Reading, config
  <2>2. Read BY <1>1, <2>1
  <2> QED BY <2>1, <2>2 DEF Moves
<1> QED BY <1>3, <1>4, <1>5, <1>6, <1>7, <1>8, <1>9, <1>10, <1>11, <1>12, <1>13 DEF Host

(***************************************************************************)
(* Which measurement a data line belongs to.                               *)
(***************************************************************************)
\* The data lines of q belong to the first n measurements, the orders of q ask for them.
DataOf(q, n)   == \A i \in 1 .. Len(q) : q[i].kind = "data" => q[i].gen \in 1 .. n
OrdersOf(q, n) == \A i \in 1 .. Len(q) : q[i].name \in Orders => q[i].gen \in 1 .. n

LEMMA TailParts ==
  ASSUME NEW S, NEW q \in Seq(S), q # <<>>
  PROVE  /\ Tail(q) \in Seq(S) /\ Len(q) \in Nat /\ Len(q) > 0 /\ Len(Tail(q)) = Len(q) - 1
         /\ \A i \in 1 .. Len(Tail(q)) : Tail(q)[i] = q[i + 1] /\ i + 1 \in 1 .. Len(q)
<1>1. Len(q) > 0 OBVIOUS
<1>2. Tail(q) \in Seq(S) /\ Len(Tail(q)) = Len(q) - 1 OBVIOUS
<1>3. \A i \in 1 .. Len(Tail(q)) : Tail(q)[i] = q[i + 1]
  BY HeadTailProperties
<1> QED BY <1>1, <1>2, <1>3

LEMMA TailData ==
  ASSUME NEW q \in Seq(WireLine), NEW n \in Nat, q # <<>>, DataOf(q, n)
  PROVE  DataOf(Tail(q), n)
<1> DEFINE t == Tail(q)
<1>1. /\ t \in Seq(WireLine)
      /\ \A i \in 1 .. Len(t) : t[i] = q[i + 1] /\ i + 1 \in 1 .. Len(q)
  BY TailParts
<1> HIDE DEF t
<1>2. DataOf(t, n) BY <1>1 DEF DataOf
<1> QED BY <1>2 DEF t

LEMMA TailOrders ==
  ASSUME NEW q \in Seq(Command), NEW n \in Nat, q # <<>>, OrdersOf(q, n)
  PROVE  OrdersOf(Tail(q), n)
<1> DEFINE t == Tail(q)
<1>1. /\ t \in Seq(Command)
      /\ \A i \in 1 .. Len(t) : t[i] = q[i + 1] /\ i + 1 \in 1 .. Len(q)
  BY TailParts
<1> HIDE DEF t
<1>2. OrdersOf(t, n) BY <1>1 DEF OrdersOf
<1> QED BY <1>2 DEF t

LEMMA JoinData ==
  ASSUME NEW a \in Seq(WireLine), NEW b \in Seq(WireLine), NEW n \in Nat,
         DataOf(a, n), DataOf(b, n)
  PROVE  DataOf(a \o b, n)
<1> DEFINE c == a \o b
           k == Len(a)
           m == Len(b)
<1>1. /\ k \in Nat /\ m \in Nat /\ Len(c) = k + m
      /\ \A i \in 1 .. k + m : c[i] = IF i <= k THEN a[i] ELSE b[i - k]
  BY ConcatProperties
<1>2. /\ \A i \in 1 .. k : a[i].kind = "data" => a[i].gen \in 1 .. n
      /\ \A i \in 1 .. m : b[i].kind = "data" => b[i].gen \in 1 .. n
  BY DEF DataOf
<1> HIDE DEF c, k, m
<1>3. ASSUME NEW i \in 1 .. k + m, c[i].kind = "data" PROVE c[i].gen \in 1 .. n
  <2>1. CASE i <= k
    <3>1. i \in 1 .. k /\ c[i] = a[i] BY <1>1, <2>1
    <3> QED BY <1>2, <1>3, <3>1
  <2>2. CASE ~(i <= k)
    <3>1. i - k \in 1 .. m /\ c[i] = b[i - k] BY <1>1, <2>2
    <3> QED BY <1>2, <1>3, <3>1
  <2> QED BY <2>1, <2>2
<1>4. DataOf(c, n) BY <1>1, <1>3 DEF DataOf
<1> QED BY <1>4 DEF c

LEMMA SentOrders ==
  ASSUME outbox \in Seq(Command), NEW c \in CommandNames, NEW t \in Nat, NEW g \in Nat,
         NEW n \in Nat, OrdersOf(outbox, n), c \in Orders => g \in 1 .. n
  PROVE  OrdersOf(Sent(c, t, g), n)
<1> DEFINE o == [name |-> c, times |-> t, gen |-> g]
           s == Append(outbox, o)
<1>1. /\ Len(outbox) \in Nat /\ Len(s) = Len(outbox) + 1
      /\ \A i \in 1 .. Len(outbox) + 1 : s[i] = IF i <= Len(outbox) THEN outbox[i] ELSE o
  BY DEF Command
<1>2. o.name = c /\ o.gen = g OBVIOUS
<1> HIDE DEF o, s
<1>3. OrdersOf(s, n)
  <2> SUFFICES ASSUME NEW i \in 1 .. Len(s), s[i].name \in Orders PROVE s[i].gen \in 1 .. n
    BY DEF OrdersOf
  <2>1. CASE i <= Len(outbox) BY <1>1, <2>1 DEF OrdersOf
  <2>2. CASE ~(i <= Len(outbox)) BY <1>1, <1>2, <2>2
  <2> QED BY <2>1, <2>2
<1> QED BY <1>3 DEF Sent, s, o

\* The lines of a scan, one by one: h is the place of the time stamp.
ScanShape(s, h, nm, st, g) ==
  /\ s = ScanLines(nm, st, g) /\ Len(s) = h + DataLines + 1
  /\ h = IF nm \in {"GF", "MF"} THEN 4 ELSE 3
  /\ s[1] = Echo(nm) /\ s[2] = Status(st)
  /\ h = 4 => s[3].kind = "io"
  /\ s[h].kind = "stamp"
  /\ \A i \in h + 1 .. h + DataLines : s[i].kind = "data" /\ s[i].gen = g
  /\ s[h + DataLines + 1].kind = "blank"

LEMMA ScanKinds ==
  ASSUME NEW nm \in CommandNames, NEW st \in {"00", "99"}, NEW g \in Nat
  PROVE  \E s \in Seq(WireLine), h \in {3, 4} : ScanShape(s, h, nm, st, g)
<1> DEFINE h == Header(nm)
<1>1. PICK s \in Seq(WireLine) :
           /\ s = ScanLines(nm, st, g)
           /\ Len(s) = h + DataLines + 1
           /\ s[1] = Echo(nm) /\ s[2] = Status(st)
           /\ h = 4 => s[3] = Plain("io")
           /\ s[h] = Plain("stamp")
           /\ \A i \in 1 .. DataLines : s[h + i] = Datum(g)
           /\ s[h + DataLines + 1] = Blank
  BY ScanParts
<1>2. h = (IF nm \in {"GF", "MF"} THEN 4 ELSE 3) /\ h \in {3, 4} BY DEF Header
<1>3. DataLines \in Nat BY BoundAssumption
<1> HIDE DEF h
<1>4. ASSUME NEW i \in h + 1 .. h + DataLines PROVE s[i].kind = "data" /\ s[i].gen = g
  <2>1. i - h \in 1 .. DataLines /\ h + (i - h) = i BY <1>2, <1>3
  <2>2. s[i] = Datum(g) BY <1>1, <2>1
  <2>3. Datum(g).kind = "data" /\ Datum(g).gen = g BY DEF Datum
  <2> QED BY <2>2, <2>3
<1>5. (h = 4 => s[3].kind = "io") /\ s[h].kind = "stamp" /\ s[h + DataLines + 1].kind = "blank"
  <2>1. Plain("io").kind = "io" /\ Plain("stamp").kind = "stamp" /\ Blank.kind = "blank"
    BY DEF Plain, Blank
  <2> QED BY <1>1, <2>1
<1>6. ScanShape(s, h, nm, st, g) BY <1>1, <1>2, <1>4, <1>5 DEF ScanShape
<1> QED BY <1>2, <1>6

LEMMA ScanData ==
  ASSUME NEW nm \in CommandNames, NEW st \in {"00", "99"}, NEW n \in Nat, NEW g \in 1 .. n
  PROVE  DataOf(ScanLines(nm, st, g), n)
<1>0. g \in Nat OBVIOUS
<1>1. PICK s \in Seq(WireLine), h \in {3, 4} : ScanShape(s, h, nm, st, g) BY <1>0, ScanKinds
<1>2. s[1].kind # "data" /\ s[2].kind # "data" BY <1>1 DEF ScanShape, Echo, Status
<1>3. DataLines \in Nat BY BoundAssumption
<1>4. ASSUME NEW i \in 1 .. Len(s), s[i].kind = "data" PROVE s[i].gen \in 1 .. n
  <2>1. i \in h + 1 .. h + DataLines
    <3>1. i # 1 /\ i # 2 /\ i # h /\ i # h + DataLines + 1 /\ (h = 4 => i # 3)
      BY <1>1, <1>2, <1>4 DEF ScanShape
    <3> QED BY <1>1, <1>3, <3>1 DEF ScanShape
  <2> QED BY <1>1, <2>1 DEF ScanShape
<1> QED BY <1>1, <1>4 DEF DataOf, ScanShape

LEMMA AnswerData ==
  ASSUME NEW c \in Command, NEW n \in Nat, c.name \in Orders => c.gen \in 1 .. n
  PROVE  DataOf(Answer(c), n)
<1>1. c.name \in CommandNames BY DEF Command
<1>2. CASE c.name \in Single /\ Accepts(c.name)
  <2>1. c.gen \in 1 .. n BY <1>2 DEF Orders
  <2> QED BY <1>1, <1>2, <2>1, ScanData DEF Answer
<1>3. CASE ~(c.name \in Single /\ Accepts(c.name))
  <2> DEFINE e == Echo(c.name)  t == Status(StatusOf(c.name))  b == Blank
             y == Plain("stamp")  z == Plain("info")  p == Payload(c.name)
  <2>1. StatusOf(c.name) \in LineVals BY DEF StatusOf, Refusal, LineVals
  <2>2. e \in WireLine /\ t \in WireLine /\ b \in WireLine /\ y \in WireLine /\ z \in WireLine
    BY <1>1, <2>1, AnswerWireLines
  <2>3. e.kind # "data" /\ t.kind # "data" /\ b.kind # "data" /\ y.kind # "data" /\ z.kind # "data"
    BY DEF Echo, Status, Blank, Plain
  <2>4. p = <<>> \/ p = <<y>> \/ p = <<z>> BY DEF Payload
  <2>5. Answer(c) = <<e, t>> \o p \o <<b>> BY <1>3 DEF Answer
  <2> HIDE DEF e, t, b, y, z, p
  <2>6. /\ <<e, t>> \in Seq(WireLine) /\ <<b>> \in Seq(WireLine) /\ p \in Seq(WireLine)
        /\ DataOf(<<e, t>>, n) /\ DataOf(<<b>>, n) /\ DataOf(p, n)
    <3>1. /\ <<e, t>> \in Seq(WireLine) /\ <<b>> \in Seq(WireLine) /\ p \in Seq(WireLine)
      <4>1. <<y>> \in Seq(WireLine) /\ <<z>> \in Seq(WireLine) /\ <<b>> \in Seq(WireLine)
            /\ <<e, t>> \in Seq(WireLine) /\ <<>> \in Seq(WireLine)
        BY <2>2
      <4>2. p \in Seq(WireLine) BY <2>4, <4>1, Zenon
      <4> QED BY <4>1, <4>2
    <3>2. DataOf(<<e, t>>, n) /\ DataOf(<<b>>, n) BY <2>3 DEF DataOf
    <3>3. DataOf(p, n) BY <2>3, <2>4 DEF DataOf
    <3> QED BY <3>1, <3>2, <3>3
  <2>7. <<e, t>> \o p \in Seq(WireLine) /\ DataOf(<<e, t>> \o p, n)
    BY <2>6, JoinData, ConcatProperties
  <2>8. DataOf((<<e, t>> \o p) \o <<b>>, n) BY <2>6, <2>7, JoinData
  <2> QED BY <2>5, <2>8
<1> QED BY <1>2, <1>3

(***************************************************************************)
(* The measurements of a program are numbered, and a sample's are of one   *)
(* type.                                                                   *)
(***************************************************************************)
\* Where the host is about to order a measurement.
Sends == {"send_single", "xchg", "xchg_done"}

\* Data, orders and sensor speak of measurements that were started.
Numbered ==
  /\ kinds \in Seq(MeasureTypes) /\ Len(kinds) = gen
  /\ DataOf(inbox, gen) /\ OrdersOf(outbox, gen)
  /\ sensor.mode = "measure" => sensor.gen \in 1 .. gen
  /\ pc = "send_single" \/ (op = "start" /\ pc \in Sends) => gen > 0
  /\ pc = "drain" => after.pc \notin Sends

\* What a step is to them.
KindStep ==
  \/ UNCHANGED <<vars, kinds>>
  \/ /\ UNCHANGED kinds
     /\ Host \/ Environment \/ Mismatch \/ (\E o \in Functions \ {"start"} : Calling(o))
  \/ \E d \in Devices : Open(d)
  \/ \E t \in MeasureTypes, n \in Int : urg_start_measurement(t, n)

\* Where the library goes on.
LEMMA HostGoes ==
  ASSUME TypeOK, Host, pc = "drain" => after.pc \notin Sends
  PROVE  /\ pc' = "send_single" => pc = "xchg_done" /\ op = "start"
         /\ op = "start" /\ pc' \in {"xchg", "xchg_done"} => pc \in {"xchg", "xchg_done"}
         /\ pc' = "drain" => after'.pc \notin Sends
<1> DEFINE Good == /\ pc' = "send_single" => pc = "xchg_done" /\ op = "start"
                   /\ op = "start" /\ pc' \in {"xchg", "xchg_done"} => pc \in {"xchg", "xchg_done"}
                   /\ pc' = "drain" => after'.pc \notin Sends
<1>1. CASE SendSingle BY <1>1 DEF SendSingle, Returns, Fails
<1>2. CASE CloseDone BY <1>2 DEF CloseDone, Returns
<1>3. CASE ScipResponse
  <2>1. pc = "xchg" /\ (pc' = "xchg_done" \/ UNCHANGED pc) BY <1>3 DEF ScipResponse
  <2> QED BY <2>1
<1>4. CASE LaserOnDone BY <1>4 DEF LaserOnDone, Answered
<1>5. CASE TimeStampModeDone \/ TimeStampDone \/ InfoDone \/ SleepDone
  BY <1>5 DEF TimeStampModeDone, TimeStampDone, InfoDone, SleepDone, Answered, Returns, Fails
<1>6. CASE RebootDone
  <2>1. xchg.round \in {1, 2} BY DEF TypeOK, HostTypeOK
  <2>2. pc' \in {"ready", "xchg", "xchg_done"} /\ op = "reboot"
    BY <1>6, <2>1 DEF RebootDone, Answered, Exchange, Returns, Fails
  <2> QED BY <2>2
<1>7. CASE RdEcho \/ RdQt \/ RdIo \/ RdStamp \/ GetDone
  BY <1>7 DEF RdEcho, RdQt, RdIo, RdStamp, GetDone, Returns, FailRet, GoRet
<1>8. CASE RdStatus \/ RdAck \/ RdData
  <2>1. \/ pc' \in {"rd_qt", "rd_ack", "rd_io", "rd_stamp", "rd_echo", "rd_count", "rd_data"}
        \/ \E label \in {"rd_ret", "crashed", "rd_count"} : \E c : Abort(label, c)
    <3>1. CASE RdStatus BY <3>1 DEF RdStatus
    <3>2. CASE RdAck BY <3>2 DEF RdAck, ReceiveData
    <3>3. CASE RdData BY <3>3 DEF RdData, Reading
    <3> QED BY <1>8, <3>1, <3>2, <3>3
  <2>2. ASSUME NEW label \in {"rd_ret", "crashed", "rd_count"}, NEW c, Abort(label, c) PROVE Good
    BY <2>2, GivingUpMoves DEF Abort, Sends
  <2> QED BY <2>1, <2>2
<1>9. CASE RdCount \/ StopLoop
  BY <1>9 DEF RdCount, StopLoop, ReceiveData, StopReturns
<1>10. CASE StopDone
  <2>1. (op = "sleep" \/ pc' = "ready") /\ pc' \in {"ready", "xchg", "xchg_done"}
    BY <1>10 DEF StopDone, Exchange, Returns
  <2> QED BY <2>1
<1>11. CASE Drain
  <2>1. pc = "drain" /\ (UNCHANGED <<pc, after>> \/ pc' = after.pc) /\ UNCHANGED after
    BY <1>11 DEF Drain, Reading, Resume
  <2> QED BY <2>1 DEF Sends
<1> QED BY <1>1, <1>2, <1>3, <1>4, <1>5, <1>6, <1>7, <1>8, <1>9, <1>10, <1>11 DEF Host

\* A call that starts no measurement orders none.
LEMMA OtherCalls ==
  ASSUME TypeOK, NEW o \in Functions \ {"start"}, Calling(o)
  PROVE  /\ UNCHANGED <<gen, inbox, sensor>> /\ op' = o /\ pc' # "send_single"
         /\ UNCHANGED outbox \/ \E c \in CommandNames \ Orders : outbox' = Sent(c, 0, 0)
         /\ pc' = "drain" => after'.pc \notin Sends
<1>1. op' = o /\ Application BY DEF Calling
<1>2. ~StartRejected /\ ~Start BY <1>1 DEF StartRejected, Start, Call
<1>3. {"QT", "BM", "TM0", "TM1", "TM2", "VV", "RB"} \subseteq CommandNames \ Orders
  BY DEF CommandNames, Orders, Single, Continuous
<1>4. CASE \E v \in Functions : NotConnected(v)
  BY <1>1, <1>4 DEF NotConnected, Returns, budgets
<1>5. CASE Get BY <1>1, <1>5 DEF Get, Call, ReceiveData
<1>6. ASSUME NEW v, NEW c \in {"BM", "TM0", "TM1", "TM2", "VV", "RB"}, Ask(v, c)
      PROVE  /\ UNCHANGED <<gen, inbox, sensor>> /\ pc' # "send_single" /\ pc' # "drain"
             /\ \E d \in CommandNames \ Orders : outbox' = Sent(d, 0, 0)
  BY <1>3, <1>6 DEF Ask, Call, Exchange, Writes
<1>7. CASE LaserOn
  <2>1. CASE is_laser_on BY <1>1, <1>7, <2>1 DEF LaserOn, Call, Returns
  <2>2. CASE ~is_laser_on BY <1>1, <1>6, <1>7, <2>2 DEF LaserOn
  <2> QED BY <2>1, <2>2
<1>8. CASE Close
  <2>1. UNCHANGED <<gen, inbox, sensor>> BY <1>8 DEF Close, Call
  <2>2. IgnoreReceiveDataWithQt([pc |-> "close", code |-> ret]) BY <1>8 DEF Close
  <2> DEFINE a == [pc |-> "close", code |-> ret]
  <2>3. a.pc = "close" OBVIOUS
  <2> HIDE DEF a
  <2>4. (outbox' = outbox \/ outbox' = Sent("QT", 0, 0)) /\ ((pc' = "drain" /\ after' = a) \/ pc' = a.pc)
    BY <2>2, GivingUpMoves DEF a
  <2> QED BY <1>1, <1>3, <2>1, <2>3, <2>4 DEF Sends
<1>9. ASSUME NEW v, Stop(v)
      PROVE  /\ UNCHANGED <<gen, inbox, sensor>> /\ pc' # "send_single" /\ pc' # "drain"
             /\ outbox' = Sent("QT", 0, 0)
  BY <1>9 DEF Stop, Call, Writes, ReceiveData
<1> QED BY <1>1, <1>2, <1>3, <1>4, <1>5, <1>6, <1>7, <1>8, <1>9 DEF Application

\* Sending anything keeps the orders numbered.
LEMMA SentOther ==
  ASSUME TypeOK, NEW n \in Nat, OrdersOf(outbox, n),
         UNCHANGED outbox \/ \E c \in CommandNames \ Orders : outbox' = Sent(c, 0, 0)
  PROVE  OrdersOf(outbox', n)
<1>1. outbox \in Seq(Command) BY DEF TypeOK, WorldTypeOK
<1>2. CASE UNCHANGED outbox BY <1>2
<1>3. CASE \E c \in CommandNames \ Orders : outbox' = Sent(c, 0, 0)
  <2>1. PICK c \in CommandNames \ Orders : outbox' = Sent(c, 0, 0) BY <1>3
  <2>2. OrdersOf(Sent(c, 0, 0), n) BY <1>1, <2>1, SentOrders
  <2> QED BY <2>1, <2>2
<1> QED BY <1>2, <1>3

\* A measurement that starts has the next number.
LEMMA StartNumbers ==
  ASSUME TypeOK, Numbered, NEW t \in MeasureTypes, NEW n \in Int, urg_start_measurement(t, n)
  PROVE  Numbered' /\ (kinds' = kinds \/ kinds' = Append(kinds, t)) /\ op' = "start"
<1>1. gen \in Nat /\ outbox \in Seq(Command) /\ inbox \in Seq(Line \ {Timeout})
  BY DEF TypeOK, WorldTypeOK
<1>2. CASE NotConnected("start")
  <2>1. UNCHANGED <<gen, inbox, outbox, sensor>> /\ pc' = "ready" /\ op' = "start"
    BY <1>2 DEF NotConnected, Returns, budgets
  <2>2. UNCHANGED kinds BY <1>1, <2>1 DEF urg_start_measurement
  <2> QED BY <2>1, <2>2 DEF Numbered, Sends
<1>3. CASE Start
  <2>1. gen' = gen + 1 /\ op' = "start" /\ UNCHANGED <<inbox, sensor>>
    BY <1>3 DEF Start, Call
  <2>2. kinds' = Append(kinds, t) BY <1>1, <2>1 DEF urg_start_measurement
  <2>3. kinds' \in Seq(MeasureTypes) /\ Len(kinds') = gen' BY <2>1, <2>2 DEF Numbered
  <2>4. DataOf(inbox, gen') /\ OrdersOf(outbox, gen') /\ (sensor.mode = "measure" => sensor.gen \in 1 .. gen')
    <3>1. \A i \in 1 .. gen : i \in 1 .. gen + 1 BY <1>1
    <3> QED BY <2>1, <3>1 DEF Numbered, DataOf, OrdersOf
  <2>5. PICK m \in ScanTimes, io \in IoChoices :
          LET single    == m = 1
              specified == IF m >= MAX_SCANS THEN 0 ELSE m
          IN IF single /\ ~is_laser_on
             THEN Exchange("BM", 1)
             ELSE IF single THEN pc' = "send_single" /\ UNCHANGED outbox
                  ELSE /\ outbox' = Sent(IF io THEN "MF" ELSE "MD", specified, gen')
                       /\ pc' = "ready"
    BY <1>3 DEF Start, Returns, Fails
  <2> DEFINE c == IF io THEN "MF" ELSE "MD"
             s == IF m >= MAX_SCANS THEN 0 ELSE m
  <2>6. s \in Nat /\ c \in CommandNames
    BY ChoiceAssumption DEF CommandNames, Continuous
  <2>7. \/ outbox' = Sent("BM", 0, 0)
        \/ UNCHANGED outbox
        \/ outbox' = Sent(c, s, gen')
    BY <2>5 DEF Exchange, Writes
  <2>8. pc' # "drain" BY <2>5 DEF Exchange
  <2> HIDE DEF c, s
  <2>9. OrdersOf(outbox', gen')
    <3>1. gen' \in Nat /\ gen' \in 1 .. gen' BY <1>1, <2>1
    <3>2. "BM" \in CommandNames \ Orders BY DEF CommandNames, Orders, Single, Continuous
    <3>3. OrdersOf(Sent(c, s, gen'), gen') BY <1>1, <2>4, <2>6, <3>1, SentOrders
    <3>4. outbox' # Sent(c, s, gen') => OrdersOf(outbox', gen')
      BY <2>4, <2>7, <3>1, <3>2, SentOther
    <3> QED BY <3>3, <3>4
  <2>10. gen' > 0 BY <1>1, <2>1
  <2> QED BY <2>1, <2>2, <2>3, <2>4, <2>8, <2>9, <2>10 DEF Numbered
<1> QED BY <1>2, <1>3 DEF urg_start_measurement

\* What the sensor says keeps its number, on whatever cable.
LEMMA WorldNumbers ==
  ASSUME TypeOK, Numbered, Environment, UNCHANGED kinds
  PROVE  Numbered'
<1> DEFINE Known == DataOf(inbox', gen) /\ OrdersOf(outbox', gen)
                    /\ (sensor'.mode = "measure" => sensor'.gen \in 1 .. gen)
<1>1. gen \in Nat /\ outbox \in Seq(Command) /\ inbox \in Seq(WireLine)
      /\ DataOf(inbox, gen) /\ OrdersOf(outbox, gen)
      /\ (sensor.mode = "measure" => sensor.gen \in 1 .. gen)
  BY DEF TypeOK, WorldTypeOK, WireLine, Numbered
<1>2. UNCHANGED <<gen, pc, op, after>>
  BY DEF Environment, SensorReply, SensorScan, Garble, Lose, Break, Fault, HostUnchanged, host, budgets
<1>3. ASSUME SensorReply PROVE Known
  <2> DEFINE c == Head(outbox)
  <2>1. /\ outbox # <<>> /\ outbox' = Tail(outbox) /\ sensor' = Obeyed(c)
        /\ inbox' = IF link = "up" THEN inbox \o Answer(c) ELSE inbox
    BY <1>3 DEF SensorReply, Delivered
  <2>2. c \in Command /\ c = outbox[1] /\ 1 \in 1 .. Len(outbox) BY <1>1, <2>1
  <2> HIDE DEF c
  <2>3. c.name \in Orders => c.gen \in 1 .. gen BY <1>1, <2>2 DEF OrdersOf
  <2>4. OrdersOf(outbox', gen) BY <1>1, <2>1, TailOrders
  <2>5. DataOf(Answer(c), gen) /\ Answer(c) \in Seq(WireLine)
    BY <1>1, <2>2, <2>3, AnswerData, AnswerType
  <2>6. DataOf(inbox', gen) BY <1>1, <2>1, <2>5, JoinData
  <2>7. sensor'.mode = "measure" => sensor'.gen \in 1 .. gen
    <3>1. CASE Accepts(c.name)
      <4>1. sensor'.mode = ModeAfter(c.name) /\ sensor'.gen = (IF c.name \in Continuous THEN c.gen ELSE sensor.gen)
        BY <2>1, <3>1 DEF Obeyed
      <4>2. CASE c.name \in Continuous BY <2>3, <4>1, <4>2 DEF Orders
      <4>3. CASE c.name \notin Continuous
        <5>1. sensor'.mode = "measure" => sensor.mode = "measure" BY <4>1, <4>3 DEF ModeAfter
        <5> QED BY <1>1, <4>1, <4>3, <5>1
      <4> QED BY <4>2, <4>3
    <3>2. CASE ~Accepts(c.name)
      <4>1. sensor'.mode = sensor.mode /\ sensor'.gen = sensor.gen
        BY <2>1, <3>2 DEF Obeyed, TypeOK, WorldTypeOK
      <4> QED BY <1>1, <4>1
    <3> QED BY <3>1, <3>2
  <2> QED BY <2>4, <2>6, <2>7
<1>4. ASSUME SensorScan PROVE Known
  <2>1. /\ inbox' = inbox \o ScanLines(sensor.scan, "99", sensor.gen) /\ UNCHANGED outbox
        /\ sensor.mode = "measure"
    BY <1>4 DEF SensorScan
  <2>2. sensor.scan \in CommandNames /\ sensor.gen \in 1 .. gen /\ sensor.gen \in Nat
    BY <1>1, <2>1 DEF TypeOK, WorldTypeOK, CommandNames
  <2>3. /\ DataOf(ScanLines(sensor.scan, "99", sensor.gen), gen)
        /\ ScanLines(sensor.scan, "99", sensor.gen) \in Seq(WireLine)
    BY <1>1, <2>2, ScanData, ScanLinesType
  <2>4. DataOf(inbox', gen) BY <1>1, <2>1, <2>3, JoinData
  <2>5. sensor'.gen = sensor.gen
    <3>1. CASE sensor.left = 1 BY <1>4, <3>1 DEF SensorScan, TypeOK, WorldTypeOK
    <3>2. CASE sensor.left # 1 BY <1>4, <3>2 DEF SensorScan, TypeOK, WorldTypeOK
    <3> QED BY <3>1, <3>2
  <2> QED BY <1>1, <2>1, <2>2, <2>4, <2>5
<1>5. ASSUME Garble PROVE Known
  <2>1. /\ UNCHANGED <<outbox, sensor>> /\ inbox # <<>>
        /\ \E v : inbox' = [inbox EXCEPT ![1].good = FALSE, ![1].val = v]
    BY <1>5 DEF Garble, Fault
  <2>2. /\ Len(inbox') = Len(inbox)
        /\ \A i \in 1 .. Len(inbox) : inbox'[i].kind = inbox[i].kind /\ inbox'[i].gen = inbox[i].gen
    BY <1>1, <2>1 DEF WireLine, Line
  <2>3. DataOf(inbox', gen) BY <1>1, <2>2 DEF DataOf
  <2> QED BY <1>1, <2>1, <2>3
<1>6. ASSUME Lose PROVE Known
  <2>1. UNCHANGED <<outbox, sensor>> /\ inbox # <<>> /\ inbox' = Tail(inbox)
    BY <1>6 DEF Lose, Fault
  <2> QED BY <1>1, <2>1, TailData
<1>7. ASSUME Break PROVE Known
  <2>1. UNCHANGED <<inbox, sensor>> /\ outbox' = <<>> BY <1>7 DEF Break, Fault
  <2> QED BY <1>1, <2>1 DEF OrdersOf
<1>8. Known BY <1>3, <1>4, <1>5, <1>6, <1>7 DEF Environment
<1> QED BY <1>2, <1>8 DEF Numbered

\* Numbered is inductive.
LEMMA NumberedStep ==
  ASSUME TypeOK, Numbered, KindStep
  PROVE  Numbered'
<1>1. CASE UNCHANGED <<vars, kinds>>
  <2>1. UNCHANGED <<gen, inbox, outbox, sensor, pc, op, after, kinds>> BY <1>1 DEF vars, host, budgets
  <2> QED BY <2>1 DEF Numbered
<1>2. CASE UNCHANGED kinds /\ Host
  <2>1. Moves BY <1>2, HostMoves
  <2>2. gen \in Nat /\ inbox \in Seq(WireLine) /\ outbox \in Seq(Command)
    BY DEF TypeOK, WorldTypeOK, WireLine
  <2>3. UNCHANGED <<op, gen, sensor, kinds>> BY <1>2, <2>1 DEF Moves
  <2>4. DataOf(inbox', gen)
    <3>1. CASE inbox' = <<>> BY <3>1 DEF DataOf
    <3>2. CASE UNCHANGED inbox BY <3>2 DEF Numbered
    <3>3. CASE inbox # <<>> /\ inbox' = Tail(inbox) BY <2>2, <3>3, TailData DEF Numbered
    <3> QED BY <2>1, <3>1, <3>2, <3>3 DEF Moves
  <2>5. OrdersOf(outbox', gen)
    <3>1. CASE UNCHANGED outbox \/ \E c \in CommandNames \ Orders : outbox' = Sent(c, 0, 0)
      BY <2>2, <3>1, SentOther DEF Numbered
    <3>2. CASE \E c \in Single : pc = "send_single" /\ outbox' = Sent(c, 1, gen)
      <4>1. PICK c \in Single : pc = "send_single" /\ outbox' = Sent(c, 1, gen) BY <3>2
      <4>2. c \in CommandNames /\ gen \in 1 .. gen BY <2>2, <4>1 DEF Numbered, CommandNames
      <4>3. OrdersOf(Sent(c, 1, gen), gen) BY <2>2, <4>2, SentOrders DEF Numbered
      <4> QED BY <4>1, <4>3
    <3> QED BY <2>1, <3>1, <3>2 DEF Moves
  <2>6. /\ pc' = "send_single" => pc = "xchg_done" /\ op = "start"
        /\ op = "start" /\ pc' \in {"xchg", "xchg_done"} => pc \in {"xchg", "xchg_done"}
        /\ pc' = "drain" => after'.pc \notin Sends
    BY <1>2, HostGoes DEF Numbered
  <2> QED BY <2>3, <2>4, <2>5, <2>6 DEF Numbered, Sends
<1>3. CASE UNCHANGED kinds /\ Environment BY <1>3, WorldNumbers
<1>4. CASE UNCHANGED kinds /\ Mismatch
  <2>1. UNCHANGED <<gen, inbox, outbox, sensor, pc, op, after, kinds>>
    BY <1>4 DEF Mismatch, host, budgets
  <2> QED BY <2>1 DEF Numbered
<1>5. CASE UNCHANGED kinds /\ \E o \in Functions \ {"start"} : Calling(o)
  <2>1. PICK o \in Functions \ {"start"} : Calling(o) BY <1>5
  <2>2. gen \in Nat BY DEF TypeOK, WorldTypeOK
  <2>3. /\ UNCHANGED <<gen, inbox, sensor, kinds>> /\ op' = o /\ pc' # "send_single"
        /\ UNCHANGED outbox \/ \E c \in CommandNames \ Orders : outbox' = Sent(c, 0, 0)
        /\ pc' = "drain" => after'.pc \notin Sends
    BY <1>5, <2>1, OtherCalls
  <2>4. OrdersOf(outbox', gen) BY <2>2, <2>3, SentOther DEF Numbered
  <2> QED BY <2>3, <2>4 DEF Numbered
<1>6. CASE \E d \in Devices : Open(d)
  <2>1. PICK d \in Devices, succeeds \in BOOLEAN : urg_open(d, succeeds) BY <1>6 DEF Open
  <2>2. /\ UNCHANGED <<gen, kinds, after>> /\ inbox' = <<>> /\ pc' = "ready"
    BY <2>1 DEF urg_open, budgets
  <2>3. CASE succeeds
    <3>1. outbox' = <<>> /\ sensor'.mode = "idle" BY <2>1, <2>3 DEF urg_open
    <3> QED BY <2>2, <3>1 DEF Numbered, DataOf, OrdersOf, Sends
  <2>4. CASE ~succeeds
    <3>1. UNCHANGED <<outbox, sensor>> BY <2>1, <2>4 DEF urg_open
    <3> QED BY <2>2, <3>1 DEF Numbered, DataOf, Sends
  <2> QED BY <2>3, <2>4
<1>7. CASE \E t \in MeasureTypes, n \in Int : urg_start_measurement(t, n)
  BY <1>7, StartNumbers
<1> QED BY <1>1, <1>2, <1>3, <1>4, <1>5, <1>6, <1>7 DEF KindStep

\* A sample measures one type only, and gets what it measures.
OfOneKind(t) ==
  /\ Measures(Body[program], t) /\ kinds \in Seq({t})
  /\ pc # "ready" /\ op = "get" => method.type = t
KindInv == program # "caller" => Numbered /\ \E t \in MeasureTypes : OfOneKind(t)

\* What a sample measures its table says.
LEMMA KindStart == Init_ /\ AtPlace => KindInv
<1> SUFFICES ASSUME Init_, AtPlace, program # "caller"
             PROVE  Numbered /\ \E t \in MeasureTypes : OfOneKind(t)
  BY DEF KindInv
<1>1. /\ kinds = <<>> /\ gen = 0 /\ inbox = <<>> /\ outbox = <<>> /\ sensor.mode = "idle"
      /\ pc = "ready" /\ op = "open"
  BY DEF Init_, DriverInit
<1>2. Numbered
  <2>1. kinds \in Seq(MeasureTypes) /\ Len(kinds) = gen BY <1>1
  <2> QED BY <1>1, <2>1 DEF Numbered, DataOf, OrdersOf, Sends
<1>3. PICK t \in MeasureTypes : Measures(Body[program], t)
  <2>1. CASE Body[program] \in Seq(Modest)
    <3>1. Measures(Body[program], "Distance") BY <2>1 DEF Measures, Modest
    <3> QED BY <3>1 DEF MeasureTypes
  <2> QED BY <2>1, TablesMeasure DEF AtPlace
<1>4. kinds \in Seq({t}) BY <1>1
<1> QED BY <1>1, <1>2, <1>3, <1>4 DEF OfOneKind

\* Its steps, as far as the kinds of its measurements go.
LEMMA SampleKinds ==
  ASSUME AtPlace, TypeOK, SampleInv, Numbered, program # "caller", [Next_]_pvars,
         NEW t \in MeasureTypes, OfOneKind(t)
  PROVE  KindStep /\ OfOneKind(t)'
<1> DEFINE Same == kinds' = kinds \/ kinds' = Append(kinds, t)
           Known == pc' # "ready" /\ op' = "get" => method'.type = t
<1>1. UNCHANGED program /\ Measures(Body[program], t) /\ kinds \in Seq({t})
  BY PlaceStep DEF OfOneKind
<1>2. Same /\ Known => OfOneKind(t)'
  <2>1. Same => kinds' \in Seq({t}) BY <1>1
  <2> QED BY <1>1, <2>1 DEF OfOneKind
<1>3. Asks \cup {"close", "get"} \subseteq Functions \ {"start"} BY DEF Functions, Asks
<1>4. ASSUME StepBegins PROVE KindStep /\ Same /\ Known
  <2>1. /\ Idle /\ Call_ \in Calls_ /\ place \in 1 .. Len(Body[program])
        /\ \/ BeginsOpen \/ BeginsStart \/ BeginsGet \/ Mismatches
           \/ BeginsAsk \/ BeginsClose \/ BeginsNone
    BY <1>4, TableBegins
  <2>2. pc = "ready" BY <2>1 DEF Idle
  <2>3. Call_.do \in {"start_measurement", "get"} => Call_.type = t
    BY <1>1, <2>1 DEF Measures, Call_
  <2>4. CASE BeginsOpen
    <3>1. PICK d \in Devices : Open(d) BY <2>4 DEF BeginsOpen
    <3>2. UNCHANGED kinds /\ pc' = "ready" BY <3>1 DEF Open, urg_open
    <3> QED BY <3>1, <3>2 DEF KindStep
  <2>5. CASE BeginsStart
    <3>1. urg_start_measurement(t, Call_.times) /\ Call_.times \in Int
      BY <2>1, <2>3, <2>5 DEF BeginsStart, Calls_
    <3>2. Same /\ op' = "start" BY <3>1, StartNumbers
    <3> QED BY <3>1, <3>2 DEF KindStep
  <2>6. CASE BeginsGet
    <3>1. Calling("get") /\ UNCHANGED kinds /\ method'.type = t
      BY <2>3, <2>6 DEF BeginsGet, urg_get
    <3> QED BY <1>3, <3>1 DEF KindStep
  <2>7. CASE Mismatches
    <3>1. UNCHANGED pc BY <2>7 DEF Mismatches, Mismatch
    <3> QED BY <2>2, <2>7, <3>1 DEF Mismatches, KindStep
  <2>8. CASE BeginsAsk
    <3>1. PICK o \in Asks : Calling(o) BY <2>8 DEF BeginsAsk
    <3>2. op' # "get" BY <3>1 DEF Calling, Asks
    <3> QED BY <1>3, <2>8, <3>1, <3>2 DEF BeginsAsk, KindStep
  <2>9. CASE BeginsClose
    BY <1>3, <2>9 DEF BeginsClose, Calling, KindStep
  <2>10. CASE BeginsNone
    BY <2>2, <2>10 DEF BeginsNone, KindStep, vars
  <2> QED BY <2>1, <2>4, <2>5, <2>6, <2>7, <2>8, <2>9, <2>10
<1>5. ASSUME UNCHANGED <<vars, kinds>>, pc = "ready" \/ UNCHANGED method
      PROVE  KindStep /\ Same /\ Known
  BY <1>5 DEF KindStep, vars, host, OfOneKind
<1>6. ASSUME StepEnds \/ RunsOut \/ LibraryReturns PROVE KindStep /\ Same /\ Known
  <2>1. UNCHANGED <<vars, kinds>> /\ (pc = "ready" \/ UNCHANGED method)
    BY <1>6 DEF StepEnds, RunsOut, LibraryReturns, dvars, driver, Within
  <2> QED BY <1>5, <2>1
<1>7. ASSUME Closes PROVE KindStep /\ Same /\ Known
  <2>1. CASE is_active
    <3>1. Calling("close") /\ UNCHANGED kinds BY <1>7, <2>1 DEF Closes, DriverClose
    <3> QED BY <1>3, <3>1 DEF Calling, KindStep
  <2>2. CASE ~is_active
    <3>1. UNCHANGED <<vars, kinds>> /\ UNCHANGED method BY <1>7, <2>2 DEF Closes, dvars, driver
    <3> QED BY <1>5, <3>1
  <2> QED BY <2>1, <2>2
<1>8. ~CallerCalls BY DEF CallerCalls
<1>9. ASSUME Runs PROVE KindStep /\ Same /\ Known
  <2>1. CASE Host /\ UNCHANGED <<driver, device, kinds>>
    <3>1. UNCHANGED <<op, method>> /\ pc # "ready" BY <2>1, HostMoves, HostInCall DEF Moves, driver
    <3> QED BY <2>1, <3>1 DEF KindStep, OfOneKind
  <2>2. CASE \E d \in Devices : Open(d)
    <3>1. UNCHANGED kinds /\ pc' = "ready" BY <2>2 DEF Open, urg_open
    <3> QED BY <2>2, <3>1 DEF KindStep
  <2>3. CASE StartReturns \/ GetReturns \/ SimpleReturns \/ CloseReturns \/ SetStampReturns
    <3>1. UNCHANGED <<vars, kinds>> /\ pc = "ready"
      BY <2>3 DEF StartReturns, GetReturns, SimpleReturns, CloseReturns, SetStampReturns, Within
    <3> QED BY <1>5, <3>1
  <2>4. CASE ReadClock \/ LeaveStampMode
    <3>1. PICK o \in {"time_stamp", "tm_stop"} : Calling(o) /\ UNCHANGED kinds
      BY <2>4 DEF ReadClock, LeaveStampMode
    <3>2. o \in Functions \ {"start"} BY DEF Functions
    <3> QED BY <3>1, <3>2 DEF Calling, KindStep
  <2> QED BY <1>9, <2>1, <2>2, <2>3, <2>4 DEF Runs
<1>10. ASSUME World PROVE KindStep /\ Same /\ Known
  <2>1. Environment /\ UNCHANGED <<kinds, method>> BY <1>10 DEF World, driver
  <2>2. UNCHANGED <<pc, op>>
    BY <2>1 DEF Environment, SensorReply, SensorScan, Garble, Lose, Break, Fault, HostUnchanged, host
  <2> QED BY <2>1, <2>2 DEF KindStep, OfOneKind
<1>11. ASSUME UNCHANGED pvars PROVE KindStep /\ Same /\ Known
  <2>1. UNCHANGED <<vars, kinds>> /\ UNCHANGED method BY <1>11 DEF pvars, dvars, driver
  <2> QED BY <1>5, <2>1
<1> QED BY <1>2, <1>4, <1>6, <1>7, <1>8, <1>9, <1>10, <1>11 DEF Next_, ProgramStep

LEMMA KindStepKeeps ==
  ASSUME AtPlace, TypeOK, DarkInv, KindInv, [Next_]_pvars
  PROVE  KindInv'
<1>1. UNCHANGED program BY PlaceStep
<1> SUFFICES ASSUME program # "caller" PROVE KindInv' BY <1>1 DEF KindInv
<1>2. SampleInv BY DEF DarkInv, LaserLess
<1>3. PICK t \in MeasureTypes : Numbered /\ OfOneKind(t) BY DEF KindInv
<1>4. KindStep /\ OfOneKind(t)' BY <1>2, <1>3, SampleKinds
<1>5. Numbered' BY <1>3, <1>4, NumberedStep
<1> QED BY <1>4, <1>5 DEF KindInv

\* The data a sample reads are of the type it has room for.
THEOREM SamplesHaveRoom == ProgramSpec => [](program # "caller" => BuffersMatch)
<1>1. Init_ => AtPlace /\ TypeOK /\ DarkInv /\ KindInv BY DarkStart, KindStart
<1>2. AtPlace /\ TypeOK /\ DarkInv /\ KindInv /\ [Next_]_pvars => KindInv' BY KindStepKeeps
<1>3. TypeOK /\ KindInv => (program # "caller" => BuffersMatch)
  <2> SUFFICES ASSUME TypeOK, KindInv, program # "caller", pc = "rd_data", op = "get",
                      inbox # <<>>, inbox[1].kind = "data"
               PROVE  kinds[inbox[1].gen] = method.type
    BY DEF BuffersMatch
  <2>1. PICK t \in MeasureTypes : Numbered /\ OfOneKind(t) BY DEF KindInv
  <2>2. 1 \in 1 .. Len(inbox) BY DEF TypeOK, WorldTypeOK
  <2>3. inbox[1].gen \in 1 .. Len(kinds) BY <2>1, <2>2 DEF Numbered, DataOf
  <2>4. kinds \in Seq({t}) /\ method.type = t BY <2>1 DEF OfOneKind
  <2> QED BY <2>3, <2>4
<1> QED BY <1>1, <1>2, <1>3, DarkStep, PTL DEF ProgramSpec

(***************************************************************************)
(* Where a sample is in its table, and what it has under way.              *)
(***************************************************************************)
\* The sensor is told to stop, and the connection is closed.
Leaving == pc = "close" \/ (pc = "drain" /\ after.pc = "close")

\* A sample gives no scan a number, calls no urg_stop_measurement, and once it closes
\* its session does nothing else with it.
Tame ==
  /\ frames = <<>> /\ specified_scan_times \in {0, 1}
  /\ method.name # "open" /\ (method.name = "get" => op = "get")
  /\ method.name = "set_sensor_time_stamp" => op \in {"tm_start", "time_stamp", "tm_stop"}
  /\ is_active /\ op = "close" => Leaving

\* A sample that does not measure only asks.
Idling == is_active /\ op # "close" => op \in {"open"} \cup Asks /\ ~is_sending

\* A get that is not over, or of which only the result has not been looked at.
Getting == \/ method.name \in {"c_get", "get"} /\ op = "get"
           \/ method = None /\ pc = "ready" /\ (result => op = "get" /\ ret \notin Errors)
InGet   == doing /\ Call_.do = "get"
Made(j) == j < place \/ (doing /\ j = place)

\* A sample that measures is in one of three calls, and measures as its table says; when
\* it goes on after a get it has a scan.
Behind(body) ==
  /\ is_active /\ op # "close" =>
       /\ op \in {"open", "start", "get"}
       /\ is_sending => \E j \in 1 .. Len(body) : /\ Made(j) /\ body[j].do = "start_measurement"
                                                  /\ body[j].times = specified_scan_times
  /\ stage = "run" /\ ~InGet /\ op = "get" => pc = "ready" /\ ret \notin Errors
  /\ InGet => Getting
  /\ stage = "run" /\ ~doing /\ place > 1 /\ body[place - 1].do = "get" => op = "get"

PlanInv == program # "caller" =>
  /\ Tame
  /\ Body[program] \in Seq(Modest) => Idling
  /\ Measurer(Body[program]) => Behind(Body[program])

\* What starting a measurement of one scan, or an endless one, does at once.
LEMMA StartParts ==
  ASSUME TypeOK, NEW t, NEW n \in {0, 1}, urg_start_measurement(t, n)
  PROVE  /\ op' = "start" /\ pc' # "drain"
         /\ UNCHANGED <<is_active, is_laser_on, frames, inbox, link, sensor, late, faults>>
         /\ \/ is_active /\ Start /\ is_sending' = TRUE /\ specified_scan_times' = n
            \/ ~is_active /\ UNCHANGED specified_scan_times /\ pc' = "ready" /\ ret' = "NOT_CONNECTED"
<1>1. CASE NotConnected("start")
  BY <1>1 DEF NotConnected, Returns, flags, config, budgets
<1>2. CASE Start
  <2>1. /\ is_active /\ is_sending' = TRUE /\ op' = "start"
        /\ UNCHANGED <<is_active, is_laser_on, frames, inbox, link, sensor, late, faults>>
    BY <1>2 DEF Start, Call
  <2>2. specified_scan_times' = n
    <3>1. scanning_remain_times' = n BY <2>1 DEF urg_start_measurement
    <3>2. PICK m \in ScanTimes : /\ specified_scan_times' = IF m >= MAX_SCANS THEN 0 ELSE m
                                 /\ scanning_remain_times' = m
      BY <1>2 DEF Start
    <3> QED BY <3>1, <3>2 DEF MAX_SCANS
  <2>3. pc' # "drain" BY <1>2 DEF Start, Exchange, Returns, Fails
  <2> QED BY <1>2, <2>1, <2>2, <2>3
<1> QED BY <1>1, <1>2 DEF urg_start_measurement

\* What asking does at once.
LEMMA AskParts ==
  ASSUME NEW o \in Asks, Calling(o)
  PROVE  /\ op' = o /\ pc' # "drain"
         /\ UNCHANGED <<is_active, is_sending, is_laser_on, specified_scan_times, frames, inbox,
                        link, sensor, late, faults>>
         /\ \/ is_active /\ Ask(o, OrderOf[o])
            \/ ~is_active /\ UNCHANGED outbox /\ pc' = "ready" /\ ret' = "NOT_CONNECTED"
<1>1. CASE NotConnected(o)
  BY <1>1 DEF NotConnected, Returns, flags, config, budgets
<1>2. CASE Ask(o, OrderOf[o])
  BY <1>2 DEF Ask, Call, Exchange, flags, config
<1> QED BY <1>1, <1>2, AskCalls

\* What getting a scan does at once.
LEMMA GetParts ==
  ASSUME Calling("get")
  PROVE  /\ op' = "get" /\ pc' # "drain"
         /\ UNCHANGED <<is_active, is_sending, is_laser_on, specified_scan_times, frames, inbox,
                        outbox, link, sensor, late, faults>>
         /\ \/ is_active /\ pc' = "rd_echo" /\ rcv'.points = 0
            \/ ~is_active /\ pc' = "ready" /\ ret' = "NOT_CONNECTED"
<1>1. CASE NotConnected("get")
  BY <1>1 DEF NotConnected, Returns, flags, config, budgets
<1>2. CASE Get
  BY <1>2 DEF Get, Call, ReceiveData, flags, config
<1> QED BY <1>1, <1>2, GetCalls

\* What closing does at once.
LEMMA CloseParts ==
  ASSUME Calling("close")
  PROVE  /\ op' = "close" /\ Leaving' /\ is_active
         /\ UNCHANGED <<is_active, is_sending, specified_scan_times, frames, inbox, link, sensor,
                        late, faults, gen>>
         /\ outbox' = outbox \/ outbox' = Sent("QT", 0, 0)
<1>1. Close BY CloseCalls
<1> DEFINE a == [pc |-> "close", code |-> ret]
<1>2. a.pc = "close" OBVIOUS
<1>3. IgnoreReceiveDataWithQt(a) BY <1>1 DEF Close
<1> HIDE DEF a
<1>4. /\ UNCHANGED <<is_active, is_sending>>
      /\ outbox' = outbox \/ outbox' = Sent("QT", 0, 0)
      /\ (pc' = "drain" /\ after' = a) \/ pc' = a.pc
  BY <1>3, GivingUpMoves
<1> QED BY <1>1, <1>2, <1>4 DEF Close, Call, Leaving, config

\* The library keeps to it.
LEMMA HostTame ==
  ASSUME TypeOK, Tame, Host
  PROVE  UNCHANGED frames /\ (is_active' /\ op = "close" => Leaving')
<1>1. UNCHANGED frames
  <2>1. CASE RdCount
    <3>1. ~(specified_scan_times > 1) BY DEF Tame
    <3> QED BY <2>1, <3>1 DEF RdCount
  <2>2. ~StopLoop BY DEF StopLoop, Tame
  <2>3. CASE RdStatus \/ RdAck \/ RdData \/ RdEcho \/ RdQt \/ RdIo \/ RdStamp \/ GetDone \/ Drain
    BY <2>3 DEF RdStatus, RdAck, RdData, RdEcho, RdQt, RdIo, RdStamp, GetDone, Drain
  <2>4. CASE SendSingle \/ CloseDone \/ ScipResponse \/ StopDone
    BY <2>4 DEF SendSingle, CloseDone, ScipResponse, StopDone, host
  <2>5. CASE LaserOnDone \/ TimeStampModeDone \/ TimeStampDone \/ InfoDone \/ SleepDone \/ RebootDone
    BY <2>5 DEF LaserOnDone, TimeStampModeDone, TimeStampDone, InfoDone, SleepDone, RebootDone, AfterAnswer
  <2> QED BY <2>1, <2>2, <2>3, <2>4, <2>5 DEF Host
<1>2. ASSUME is_active', op = "close" PROVE Leaving'
  <2>1. is_active BY <1>2, HostMoves DEF Moves
  <2>2. Leaving BY <1>2, <2>1 DEF Tame
  <2>3. CASE pc = "close"
    <3>1. CloseDone
      BY <2>3 DEF Host, SendSingle, ScipResponse, LaserOnDone, TimeStampModeDone, TimeStampDone,
         InfoDone, SleepDone, RebootDone, Answered, RdEcho, RdStatus, RdQt, RdAck, RdIo, RdStamp,
         RdData, RdCount, GetDone, StopLoop, StopDone, Drain, Reading
    <3> QED BY <1>2, <3>1 DEF CloseDone, ConnectionClose
  <2>4. CASE pc = "drain" /\ after.pc = "close"
    <3>1. Drain
      BY <2>4 DEF Host, SendSingle, CloseDone, ScipResponse, LaserOnDone, TimeStampModeDone,
         TimeStampDone, InfoDone, SleepDone, RebootDone, Answered, RdEcho, RdStatus, RdQt, RdAck,
         RdIo, RdStamp, RdData, RdCount, GetDone, StopLoop, StopDone, Reading
    <3>2. UNCHANGED after /\ (UNCHANGED pc \/ pc' = after.pc) BY <3>1 DEF Drain, Reading, Resume
    <3> QED BY <2>4, <3>2 DEF Leaving
  <2> QED BY <2>2, <2>3, <2>4 DEF Leaving
<1> QED BY <1>1, <1>2

\* The sensor, the cable and what the program notes by itself leave the host alone.
Aside == UNCHANGED <<is_active, is_sending, specified_scan_times, frames, op, pc, ret, after>>

LEMMA WorldAside == World => Aside /\ UNCHANGED <<method, result, time_stamp_offset_>>
BY DEF World, Environment, SensorReply, SensorScan, Garble, Lose, Break, Fault,
       HostUnchanged, flags, config, host, driver, members, Aside

\* A method is a record of four fields, whatever is done.
MethodOK == DOMAIN method = {"name", "type", "left", "good"}

LEMMA MethodStep == MethodOK /\ [Next_]_pvars => MethodOK'
<1> SUFFICES ASSUME MethodOK, [Next_]_pvars PROVE MethodOK' OBVIOUS
<1>1. DOMAIN None = {"name", "type", "left", "good"} BY DEF None
<1>2. \A n, t : DOMAIN M(n, t) = {"name", "type", "left", "good"} BY <1>1 DEF M
<1>3. CASE \/ UNCHANGED method \/ method' = None \/ \E n, t : method' = M(n, t)
           \/ (\E n, t, v : method' = [M(n, t) EXCEPT !.left = v])
           \/ (\E v, w : method' = [method EXCEPT !.left = v, !.good = w])
           \/ (\E w : method' = [method EXCEPT !.good = w])
  BY <1>1, <1>2, <1>3 DEF MethodOK
<1>4. CASE StepBegins
  BY <1>3, <1>4 DEF StepBegins, PerformInC, PerformInCpp, InLibrary, Open, start_measurement, get,
     simple, set_sensor_time_stamp, DriverClose, EndsAtOnce, Mismatch
<1>5. CASE StepEnds \/ RunsOut \/ LibraryReturns \/ Closes
  BY <1>3, <1>5 DEF StepEnds, RunsOut, LibraryReturns, Closes, DriverClose, EndsAtOnce, dvars, driver
<1>6. CASE CallerCalls
  BY <1>3, <1>6 DEF CallerCalls, OpenBegins, Open, start_measurement, start_refused, get, simple,
     set_sensor_time_stamp, DriverClose, EndsAtOnce, Mismatch
<1>7. CASE Runs \/ World
  BY <1>3, <1>7 DEF Runs, World, Open, StartReturns, GetReturns, SimpleReturns, CloseReturns,
     SetStampReturns, ReadClock, LeaveStampMode, driver
<1>8. CASE UNCHANGED pvars BY <1>3, <1>8 DEF pvars, dvars, driver
<1> QED BY <1>4, <1>5, <1>6, <1>7, <1>8 DEF Next_, ProgramStep

\* The start of a sample.
LEMMA PlanStart == Init_ => PlanInv
<1> SUFFICES ASSUME Init_, program # "caller"
             PROVE  /\ Tame
                    /\ Body[program] \in Seq(Modest) => Idling
                    /\ Measurer(Body[program]) => Behind(Body[program])
  BY DEF PlanInv
<1>1. /\ is_active = FALSE /\ frames = <<>> /\ specified_scan_times = 0 /\ method.name = "none"
      /\ op = "open" /\ doing = FALSE /\ place = 1
  BY DEF Init_, DriverInit, None
<1>2. Tame /\ Idling BY <1>1 DEF Tame, Idling
<1>3. ASSUME Measurer(Body[program]) PROVE Behind(Body[program])
  BY <1>1 DEF Behind, InGet
<1> QED BY <1>2, <1>3

\* Whatever the sample does next, it keeps to the first part of the plan.
LEMMA TameStep ==
  ASSUME AtPlace, TypeOK, MethodOK, SampleInv, Tame, program # "caller", [Next_]_pvars,
         Body[program] \in Seq(Modest) \/ Measurer(Body[program])
  PROVE  Tame'
<1>1. CASE StepBegins
  <2>1. /\ Idle /\ Call_ \in Calls_ /\ place \in 1 .. Len(Body[program])
        /\ \/ BeginsOpen \/ BeginsStart \/ BeginsGet \/ Mismatches
           \/ BeginsAsk \/ BeginsClose \/ BeginsNone
    BY <1>1, TableBegins
  <2>2. pc = "ready" /\ method = None /\ None.name = "none" BY <2>1 DEF Idle, None
  <2>3. is_active => op # "close" BY <2>2 DEF Tame, Leaving
  <2>4. CASE BeginsOpen
    <3>1. PICK d \in Devices : Open(d) BY <2>4 DEF BeginsOpen
    <3>2. UNCHANGED frames /\ specified_scan_times' = 0 /\ op' = "open"
      BY <3>1 DEF Open, urg_open
    <3>3. method'.name = "none" BY <2>2, <2>4 DEF BeginsOpen
    <3> QED BY <3>2, <3>3 DEF Tame
  <2>5. CASE BeginsStart
    <3>1. Call_.times \in {0, 1}
      <4>1. Body[program] \notin Seq(Modest)
        <5>1. ASSUME Body[program] \in Seq(Modest) PROVE FALSE
          <6>1. Call_ \in Modest BY <2>1, <5>1 DEF Call_
          <6> QED BY <2>5, <6>1 DEF BeginsStart, Modest
        <5> QED BY <5>1
      <4>2. Measurer(Body[program]) BY <4>1
      <4> QED BY <2>1, <2>5, <4>2 DEF Measurer, BeginsStart, Call_
    <3>2. urg_start_measurement(Call_.type, Call_.times) /\ method'.name \in {"c", "start_measurement"}
      BY <2>5 DEF BeginsStart
    <3>3. UNCHANGED frames /\ op' = "start" /\ specified_scan_times' \in {0, 1}
      BY <3>1, <3>2, StartParts DEF Tame
    <3> QED BY <3>2, <3>3 DEF Tame
  <2>6. CASE BeginsGet
    <3>1. Calling("get") /\ method'.name \in {"c_get", "get"} BY <2>6 DEF BeginsGet, urg_get
    <3>2. UNCHANGED <<frames, specified_scan_times>> /\ op' = "get" BY <3>1, GetParts
    <3> QED BY <3>1, <3>2 DEF Tame
  <2>7. CASE Mismatches
    <3>1. UNCHANGED <<frames, specified_scan_times, op, is_active, method>>
      BY <2>7 DEF Mismatches, Mismatch, flags, config, host
    <3> QED BY <2>2, <2>3, <3>1 DEF Tame
  <2>8. CASE BeginsAsk
    <3>1. PICK o \in Asks : /\ Calling(o)
                            /\ method'.name = "set_sensor_time_stamp" => o = "tm_start" /\ method'.good
      BY <2>8 DEF BeginsAsk
    <3>2. UNCHANGED <<frames, specified_scan_times>> /\ op' = o BY <3>1, AskParts
    <3>3. o # "close" BY DEF Asks
    <3> QED BY <2>8, <3>1, <3>2, <3>3 DEF Tame, BeginsAsk
  <2>9. CASE BeginsClose
    <3>1. UNCHANGED <<frames, specified_scan_times>> /\ op' = "close" /\ Leaving' /\ method'.name = "close"
      BY <2>9, CloseParts DEF BeginsClose
    <3> QED BY <3>1 DEF Tame
  <2>10. CASE BeginsNone
    <3>1. UNCHANGED <<frames, specified_scan_times, op, is_active, method>>
      BY <2>10 DEF BeginsNone, vars, flags, config, host
    <3> QED BY <2>2, <2>3, <3>1 DEF Tame
  <2> QED BY <2>1, <2>4, <2>5, <2>6, <2>7, <2>8, <2>9, <2>10
<1>2. CASE Aside /\ (method'.name = method.name \/ method' = None)
  <2>1. Leaving' <=> Leaving BY <1>2 DEF Aside, Leaving
  <2> QED BY <1>2, <2>1 DEF Aside, Tame, None
<1>3. UNCHANGED vars => Aside BY DEF vars, flags, config, host, Aside
<1>4. CASE StepEnds \/ RunsOut \/ LibraryReturns
  <2>1. UNCHANGED vars /\ (UNCHANGED method \/ method' = None)
    BY <1>4 DEF StepEnds, RunsOut, LibraryReturns, dvars, driver
  <2> QED BY <1>2, <1>3, <2>1
<1>5. CASE Closes
  <2>1. CASE is_active
    <3>1. Calling("close") /\ method' = M("close", "none") BY <1>5, <2>1 DEF Closes, DriverClose
    <3>2. UNCHANGED <<frames, specified_scan_times>> /\ op' = "close" /\ Leaving'
      BY <3>1, CloseParts
    <3>3. method'.name = "close" BY <3>1 DEF M, None
    <3> QED BY <3>2, <3>3 DEF Tame
  <2>2. CASE ~is_active
    <3>1. UNCHANGED vars /\ UNCHANGED method BY <1>5, <2>2 DEF Closes, dvars, driver
    <3> QED BY <1>2, <1>3, <3>1
  <2> QED BY <2>1, <2>2
<1>6. ~CallerCalls BY DEF CallerCalls
<1>7. CASE Runs
  <2>1. CASE Host /\ UNCHANGED driver
    <3>1. UNCHANGED <<op, specified_scan_times, method>> BY <2>1, HostMoves DEF Moves, driver
    <3>2. UNCHANGED frames /\ (is_active' /\ op = "close" => Leaving') BY <2>1, HostTame
    <3> QED BY <3>1, <3>2 DEF Tame
  <2>2. method.name # "open" BY DEF Tame
  <2>3. CASE StartReturns \/ GetReturns \/ SimpleReturns \/ CloseReturns \/ SetStampReturns
    <3>1. UNCHANGED vars /\ method' = None
      BY <2>3 DEF StartReturns, GetReturns, SimpleReturns, CloseReturns, SetStampReturns
    <3> QED BY <1>2, <1>3, <3>1
  <2>4. CASE ReadClock \/ LeaveStampMode
    <3>1. PICK o \in {"time_stamp", "tm_stop"} : Calling(o) BY <2>4 DEF ReadClock, LeaveStampMode
    <3>2. o \in Asks BY DEF Asks
    <3>3. UNCHANGED <<frames, specified_scan_times>> /\ op' = o BY <3>1, <3>2, AskParts
    <3>4. method'.name = method.name /\ method.name = "set_sensor_time_stamp"
      <4>1. /\ method.name = "set_sensor_time_stamp"
            /\ \/ method' = [method EXCEPT !.left = @ - 1, !.good = AllGood]
               \/ method' = [method EXCEPT !.good = AllGood]
        BY <2>4 DEF ReadClock, LeaveStampMode, Within
      <4> QED BY <4>1 DEF MethodOK
    <3> QED BY <3>1, <3>3, <3>4 DEF Tame
  <2> QED BY <1>7, <2>1, <2>2, <2>3, <2>4 DEF Runs
<1>8. CASE World BY <1>2, <1>8, WorldAside
<1>9. CASE UNCHANGED pvars
  <2>1. UNCHANGED vars /\ UNCHANGED method BY <1>9 DEF pvars, dvars, driver
  <2> QED BY <1>2, <1>3, <2>1
<1> QED BY <1>1, <1>4, <1>5, <1>6, <1>7, <1>8, <1>9 DEF Next_, ProgramStep

\* A sample that does not measure goes on asking.
LEMMA IdlingStep ==
  ASSUME AtPlace, TypeOK, SampleInv, Tame, Idling, program # "caller", [Next_]_pvars,
         Body[program] \in Seq(Modest)
  PROVE  Idling'
<1>1. CASE StepBegins
  <2>1. /\ Idle /\ Call_ \in Calls_ /\ place \in 1 .. Len(Body[program])
        /\ \/ BeginsOpen \/ BeginsStart \/ BeginsGet \/ Mismatches
           \/ BeginsAsk \/ BeginsClose \/ BeginsNone
    BY <1>1, TableBegins
  <2>2. Call_ \in Modest BY <2>1 DEF Call_
  <2>3. is_active => op # "close" BY <2>1 DEF Tame, Leaving, Idle
  <2>4. CASE BeginsOpen
    <3>1. PICK d \in Devices, succeeds \in BOOLEAN : urg_open(d, succeeds)
      BY <2>4 DEF BeginsOpen, Open
    <3>2. is_active' = succeeds /\ is_sending' = ~succeeds /\ op' = "open" BY <3>1 DEF urg_open
    <3> QED BY <3>2 DEF Idling
  <2>5. ~BeginsStart /\ ~BeginsGet /\ ~Mismatches
    BY <2>2 DEF BeginsStart, BeginsGet, Mismatches, Modest
  <2>6. CASE BeginsAsk
    <3>1. PICK o \in Asks : Calling(o) BY <2>6 DEF BeginsAsk
    <3>2. UNCHANGED <<is_active, is_sending>> /\ op' = o BY <3>1, AskParts
    <3> QED BY <2>3, <3>2 DEF Idling
  <2>7. CASE BeginsClose
    <3>1. op' = "close" BY <2>7 DEF BeginsClose, Calling
    <3> QED BY <3>1 DEF Idling
  <2>8. CASE BeginsNone
    <3>1. UNCHANGED <<op, is_active, is_sending>> BY <2>8 DEF BeginsNone, vars, flags, host
    <3> QED BY <3>1 DEF Idling
  <2> QED BY <2>1, <2>4, <2>5, <2>6, <2>7, <2>8
<1>2. CASE Aside BY <1>2 DEF Aside, Idling
<1>3. UNCHANGED vars => Aside BY DEF vars, flags, config, host, Aside
<1>4. CASE StepEnds \/ RunsOut \/ LibraryReturns
  BY <1>2, <1>3, <1>4 DEF StepEnds, RunsOut, LibraryReturns, dvars
<1>5. CASE Closes
  <2>1. CASE is_active
    <3>1. op' = "close" BY <1>5, <2>1 DEF Closes, DriverClose, Calling
    <3> QED BY <3>1 DEF Idling
  <2>2. CASE ~is_active
    <3>1. UNCHANGED vars BY <1>5, <2>2 DEF Closes, dvars
    <3> QED BY <1>2, <1>3, <3>1
  <2> QED BY <2>1, <2>2
<1>6. ~CallerCalls BY DEF CallerCalls
<1>7. CASE Runs
  <2>1. CASE Host BY <2>1, HostMoves DEF Moves, Idling
  <2>2. method.name # "open" BY DEF Tame
  <2>3. CASE StartReturns \/ GetReturns \/ SimpleReturns \/ CloseReturns \/ SetStampReturns
    BY <1>2, <1>3, <2>3 DEF StartReturns, GetReturns, SimpleReturns, CloseReturns, SetStampReturns
  <2>4. CASE ReadClock \/ LeaveStampMode
    <3>1. PICK o \in {"time_stamp", "tm_stop"} : Calling(o) /\ method.name = "set_sensor_time_stamp"
      BY <2>4 DEF ReadClock, LeaveStampMode, Within
    <3>2. o \in Asks /\ op # "close" BY <3>1 DEF Asks, Tame
    <3>3. UNCHANGED <<is_active, is_sending>> /\ op' = o BY <3>1, <3>2, AskParts
    <3> QED BY <3>2, <3>3 DEF Idling
  <2> QED BY <1>7, <2>1, <2>2, <2>3, <2>4 DEF Runs
<1>8. CASE World BY <1>2, <1>8, WorldAside
<1>9. CASE UNCHANGED pvars BY <1>2, <1>3, <1>9 DEF pvars, dvars
<1> QED BY <1>1, <1>4, <1>5, <1>6, <1>7, <1>8, <1>9 DEF Next_, ProgramStep

\* A sample that measures begins its next call.
LEMMA BehindBegins ==
  ASSUME AtPlace, TypeOK, SampleInv, Tame, program # "caller", StepBegins,
         NEW b, b = Body[program], Measurer(b), Behind(b)
  PROVE  Behind(b)'
<1>1. /\ Idle /\ stage = "run" /\ doing = FALSE /\ Call_ \in Calls_ /\ place \in 1 .. Len(b)
      /\ UNCHANGED <<program, place, stage>> /\ doing' = TRUE
      /\ \/ BeginsOpen \/ BeginsStart \/ BeginsGet \/ Mismatches
         \/ BeginsAsk \/ BeginsClose \/ BeginsNone
  BY TableBegins
<1>2. /\ pc = "ready" /\ method = None /\ Call_' = Call_ /\ Call_ = b[place]
      /\ Call_.do \in {"open", "malloc", "start_measurement", "get"}
  BY <1>1 DEF Idle, Call_, Measurer
<1>3. is_active => op # "close" BY <1>2 DEF Tame, Leaving
<1>4. InGet' <=> Call_.do = "get" BY <1>1, <1>2 DEF InGet
<1>5. \A j \in 1 .. Len(b) : Made(j)' <=> (Made(j) \/ j = place) BY <1>1 DEF Made
<1>6. ~InGet BY <1>1 DEF InGet
<1>7. CASE BeginsOpen
  <2>1. PICK d \in Devices, succeeds \in BOOLEAN : urg_open(d, succeeds)
    BY <1>7 DEF BeginsOpen, Open
  <2>2. is_active' = succeeds /\ is_sending' = ~succeeds /\ op' = "open" BY <2>1 DEF urg_open
  <2> QED BY <1>1, <1>4, <1>7, <2>2 DEF Behind, BeginsOpen
<1>8. CASE BeginsStart
  <2>1. Call_.do = "start_measurement" /\ Call_.times \in {0, 1}
    BY <1>1, <1>2, <1>8 DEF BeginsStart, Measurer
  <2>2. urg_start_measurement(Call_.type, Call_.times) BY <1>8 DEF BeginsStart
  <2>3. /\ op' = "start" /\ UNCHANGED is_active
        /\ is_active => specified_scan_times' = Call_.times
    BY <2>1, <2>2, StartParts
  <2>4. is_active' => \E j \in 1 .. Len(b) : /\ Made(j)' /\ b[j].do = "start_measurement"
                                            /\ b[j].times = specified_scan_times'
    BY <1>1, <1>2, <1>5, <2>1, <2>3
  <2> QED BY <1>1, <1>4, <2>1, <2>3, <2>4 DEF Behind
<1>9. CASE BeginsGet
  <2>1. Call_.do = "get" /\ Calling("get") /\ method'.name \in {"c_get", "get"}
    BY <1>9 DEF BeginsGet, urg_get
  <2>2. op' = "get" /\ UNCHANGED <<is_active, is_sending, specified_scan_times>> BY <2>1, GetParts
  <2>3. Getting' BY <2>1, <2>2 DEF Getting
  <2> QED BY <1>1, <1>3, <1>4, <1>5, <2>1, <2>2, <2>3 DEF Behind
<1>10. CASE Mismatches
  <2>1. /\ UNCHANGED <<is_active, is_sending, specified_scan_times, op, pc, method>>
        /\ result' = FALSE /\ Call_.do = "get"
    BY <1>10 DEF Mismatches, Mismatch, flags, config, host
  <2>2. Getting' BY <1>2, <2>1 DEF Getting
  <2> QED BY <1>1, <1>3, <1>4, <1>5, <2>1, <2>2 DEF Behind
<1>11. ~BeginsAsk /\ ~BeginsClose BY <1>2 DEF BeginsAsk, BeginsClose, Modest
<1>12. CASE BeginsNone
  <2>1. /\ UNCHANGED <<is_active, is_sending, specified_scan_times, op, pc, ret>> /\ Call_.do # "get"
    BY <1>12 DEF BeginsNone, vars, flags, config, host, Modest
  <2> QED BY <1>1, <1>2, <1>3, <1>4, <1>5, <1>6, <2>1 DEF Behind
<1> QED BY <1>1, <1>7, <1>8, <1>9, <1>10, <1>11, <1>12

\* A sample that measures looks at what its call returned.
LEMMA BehindEnds ==
  ASSUME AtPlace, TypeOK, SampleInv, Tame, program # "caller", StepEnds,
         NEW b, b = Body[program], Measurer(b), Behind(b)
  PROVE  Behind(b)'
<1>1. /\ Idle /\ doing /\ doing' = FALSE /\ stage = "run" /\ UNCHANGED <<program, dvars>>
      /\ place \in 1 .. Len(b) /\ Call_ = b[place]
  <2>1. Idle /\ doing /\ doing' = FALSE /\ UNCHANGED <<program, dvars>> BY DEF StepEnds
  <2>2. stage = "run" /\ place <= Len(b) BY <2>1 DEF SampleInv
  <2>3. place \in Nat \ {0} /\ Len(b) \in Nat BY SampleTable
  <2> QED BY <2>1, <2>2, <2>3 DEF Call_
<1>2. /\ Call_.do = "get" => Call_.fail = "close"
      /\ Call_.fail # "skip" /\ (Call_.do = "start_measurement" => Call_.fail = "ignore")
  BY <1>1 DEF Measurer
<1>3. /\ UNCHANGED <<is_active, is_sending, specified_scan_times, op, pc, ret, result, method>>
      /\ pc = "ready" /\ method = None /\ ~InGet'
  BY <1>1 DEF dvars, vars, flags, config, host, driver, Idle, InGet
<1>4. None.name = "none" BY DEF None
<1>5. CASE result \/ Call_.fail \in {"ignore", "skip"}
  <2>1. UNCHANGED stage /\ place' = place + 1
    BY <1>2, <1>5 DEF StepEnds, Call_
  <2>2. \A j \in 1 .. Len(b) : Made(j) => Made(j)' BY <1>1, <2>1 DEF Made
  <2>3. Call_.do = "get" => op = "get" /\ ret \notin Errors
    BY <1>1, <1>2, <1>3, <1>4, <1>5 DEF Behind, InGet, Getting
  <2>4. op = "get" => ret \notin Errors
    <3>1. CASE Call_.do = "get" BY <2>3, <3>1
    <3>2. CASE Call_.do # "get" BY <1>1, <3>2 DEF Behind, InGet
    <3> QED BY <3>1, <3>2
  <2>5. b[place' - 1] = Call_ BY <1>1, <2>1
  <2> QED BY <1>1, <1>3, <2>1, <2>2, <2>3, <2>4, <2>5 DEF Behind
<1>6. CASE ~(result \/ Call_.fail \in {"ignore", "skip"})
  <2>1. UNCHANGED place /\ stage' # "run" BY <1>6 DEF StepEnds, Call_
  <2>2. \A j \in 1 .. Len(b) : Made(j) /\ b[j].do = "start_measurement" => Made(j)'
    BY <1>1, <1>2, <1>6, <2>1 DEF Made
  <2> QED BY <1>3, <2>1, <2>2 DEF Behind
<1> QED BY <1>5, <1>6

\* A sample that measures keeps to its table.
LEMMA BehindStep ==
  ASSUME AtPlace, TypeOK, SampleInv, Tame, program # "caller", [Next_]_pvars,
         NEW b, b = Body[program], Measurer(b), Behind(b)
  PROVE  Behind(b)'
<1> DEFINE Held == UNCHANGED <<program, place, doing, stage>>
<1>1. CASE StepBegins BY <1>1, BehindBegins
<1>2. CASE StepEnds BY <1>2, BehindEnds
<1>3. ASSUME Held PROVE (InGet' <=> InGet) /\ \A j \in 1 .. Len(b) : Made(j)' <=> Made(j)
  BY <1>3 DEF InGet, Made, Call_
<1>4. ASSUME UNCHANGED vars, Held, InGet => Getting' PROVE Behind(b)'
  <2>1. UNCHANGED <<is_active, is_sending, specified_scan_times, op, pc, ret>>
    BY <1>4 DEF vars, flags, config, host
  <2> QED BY <1>3, <1>4, <2>1 DEF Behind
<1>5. CASE RunsOut
  <2>1. /\ UNCHANGED <<program, place, doing, dvars>> /\ doing = FALSE /\ stage' # "run"
    BY <1>5 DEF RunsOut, SampleInv
  <2>2. UNCHANGED <<is_active, is_sending, specified_scan_times, op>>
    BY <2>1 DEF dvars, vars, flags, config, host
  <2>3. ~InGet' /\ \A j \in 1 .. Len(b) : Made(j)' <=> Made(j) BY <2>1 DEF InGet, Made
  <2> QED BY <2>1, <2>2, <2>3 DEF Behind
<1>6. CASE Closes
  <2>1. /\ UNCHANGED <<program, place, doing>> /\ stage = "closing" /\ stage' # "run" /\ doing = FALSE
    <3>1. stage' = "closing" \/ stage' = "exit" BY <1>6 DEF Closes
    <3>2. doing \in BOOLEAN BY DEF SampleInv
    <3> QED BY <1>6, <3>1, <3>2 DEF Closes, SampleInv
  <2>2. ~InGet' /\ \A j \in 1 .. Len(b) : Made(j)' <=> Made(j) BY <2>1 DEF InGet, Made
  <2>3. CASE is_active
    <3>1. op' = "close" BY <1>6, <2>3 DEF Closes, DriverClose, Calling
    <3> QED BY <2>1, <2>2, <3>1 DEF Behind
  <2>4. CASE ~is_active
    <3>1. UNCHANGED <<is_active, is_sending, specified_scan_times, op>>
      BY <1>6, <2>4 DEF Closes, dvars, vars, flags, config, host
    <3> QED BY <2>1, <2>2, <3>1 DEF Behind
  <2> QED BY <2>3, <2>4
<1>7. CASE LibraryReturns
  <2>1. /\ UNCHANGED vars /\ Held /\ method' = None /\ pc = "ready"
        /\ method.name \in {"c", "c_get"} /\ method # None
        /\ result' => ret \notin Errors
    <3>1. "POSITIVE" \notin Errors /\ None.name = "none" BY DEF Errors, None
    <3>2. UNCHANGED vars /\ Held /\ method' = None /\ pc = "ready" /\ method.name \in {"c", "c_get"}
      BY <1>7 DEF LibraryReturns, progress, Within
    <3>3. result' = (ret \notin Errors) \/ result' = (ret = "POSITIVE")
      BY <1>7 DEF LibraryReturns
    <3> QED BY <3>1, <3>2, <3>3
  <2>2. InGet => op = "get" BY <2>1 DEF Behind, Getting
  <2>3. InGet => Getting' BY <2>1, <2>2 DEF Getting, vars, host
  <2> QED BY <1>4, <2>1, <2>3
<1>8. ~CallerCalls BY DEF CallerCalls
<1>9. CASE Runs /\ UNCHANGED progress
  <2>1. Held BY <1>9 DEF progress
  <2>2. CASE Host /\ UNCHANGED driver
    <3>1. pc # "ready" BY <2>2, HostInCall
    <3>2. /\ UNCHANGED <<op, specified_scan_times, method, result>>
          /\ (is_active' => is_active) /\ (is_sending' => is_sending)
      BY <2>2, HostMoves DEF Moves, driver
    <3>3. InGet => method.name \in {"c_get", "get"} /\ op = "get" BY <3>1 DEF Behind, Getting
    <3>4. InGet => Getting' BY <3>2, <3>3 DEF Getting
    <3>5. ~(stage = "run" /\ ~InGet /\ op = "get") BY <3>1 DEF Behind
    <3> QED BY <1>3, <2>1, <3>2, <3>4, <3>5 DEF Behind
  <2>3. method.name # "open" BY DEF Tame
  <2>4. CASE GetReturns
    <3>1. /\ UNCHANGED vars /\ method' = None /\ pc = "ready" /\ method.name = "get"
          /\ result' = (ret \notin Errors)
      BY <2>4 DEF GetReturns, Within
    <3>2. op = "get" BY <3>1 DEF Tame
    <3>3. Getting' BY <3>1, <3>2 DEF Getting, vars, host
    <3> QED BY <1>4, <2>1, <3>1, <3>3
  <2>5. CASE StartReturns \/ SimpleReturns \/ CloseReturns \/ SetStampReturns
    <3>1. UNCHANGED vars /\ method.name \notin {"c_get", "get", "none"}
      BY <2>5 DEF StartReturns, SimpleReturns, CloseReturns, SetStampReturns, Within, CallOf
    <3>2. ~InGet BY <3>1 DEF Behind, Getting, None
    <3> QED BY <1>4, <2>1, <3>1, <3>2
  <2>6. CASE ReadClock \/ LeaveStampMode
    <3>1. PICK o \in {"time_stamp", "tm_stop"} : Calling(o) /\ method.name = "set_sensor_time_stamp"
                                                /\ pc = "ready"
      BY <2>6 DEF ReadClock, LeaveStampMode, Within
    <3>2. o \in Asks /\ op \notin {"open", "start", "get", "close"} BY <3>1 DEF Asks, Tame
    <3>3. UNCHANGED <<is_active, is_sending>> /\ op' = o BY <3>1, <3>2, AskParts
    <3>4. ~is_active BY <3>2 DEF Behind
    <3>5. ~InGet BY <3>1 DEF Behind, Getting, None
    <3>6. ~(stage = "run" /\ ~doing) BY <3>1 DEF SampleInv, Idle, None
    <3>7. op' # "get" BY <3>3
    <3> QED BY <1>3, <2>1, <3>3, <3>4, <3>5, <3>6, <3>7 DEF Behind
  <2> QED BY <1>9, <2>2, <2>3, <2>4, <2>5, <2>6 DEF Runs
<1>10. CASE World /\ UNCHANGED progress
  <2>1. Held BY <1>10 DEF progress
  <2>2. UNCHANGED <<is_active, is_sending, specified_scan_times, op, pc, ret, method, result>>
    BY <1>10, WorldAside DEF Aside
  <2>3. Getting' <=> Getting BY <2>2 DEF Getting
  <2> QED BY <1>3, <2>1, <2>2, <2>3 DEF Behind
<1>11. CASE UNCHANGED pvars
  <2>1. UNCHANGED vars /\ Held /\ UNCHANGED <<method, result>>
    BY <1>11 DEF pvars, dvars, driver, progress
  <2>2. Getting => Getting' BY <2>1 DEF Getting, vars, host
  <2>3. InGet => Getting' BY <2>2 DEF Behind
  <2> QED BY <1>4, <2>1, <2>3
<1> QED BY <1>1, <1>2, <1>5, <1>6, <1>7, <1>8, <1>9, <1>10, <1>11 DEF Next_, ProgramStep

\* The plan is kept.
LEMMA PlanStep ==
  ASSUME AtPlace, TypeOK, DarkInv, MethodOK, PlanInv, [Next_]_pvars
  PROVE  PlanInv'
<1>1. UNCHANGED program BY PlaceStep
<1> SUFFICES ASSUME program # "caller" PROVE PlanInv' BY <1>1 DEF PlanInv
<1>2. SampleInv /\ Tame BY DEF DarkInv, LaserLess, PlanInv
<1>3. Body[program] \in Seq(Modest) \/ Measurer(Body[program]) BY TablesMeasure DEF AtPlace
<1>4. Tame' BY <1>2, <1>3, TameStep
<1>5. PICK b : b = Body[program] OBVIOUS
<1>6. ASSUME b \in Seq(Modest) PROVE Idling' BY <1>2, <1>5, <1>6, IdlingStep DEF PlanInv
<1>7. ASSUME Measurer(b) PROVE Behind(b)'
  <2>1. Behind(b) BY <1>5, <1>7 DEF PlanInv
  <2> QED BY <1>2, <1>5, <1>7, <2>1, BehindStep
<1>8. b = Body[program]' BY <1>1, <1>5
<1>9. Measurer(b)' <=> Measurer(b) BY DEF Measurer
<1>10. Behind(b)' = Behind(Body[program])' BY <1>8 DEF Behind
<1> QED BY <1>1, <1>4, <1>5, <1>6, <1>7, <1>8, <1>9, <1>10 DEF PlanInv

(***************************************************************************)
(* What the lines of a measurement are, one after the other.               *)
(***************************************************************************)
\* The status of a scan, when one was asked for and when many were.
Success(one) == IF one THEN "00" ELSE "99"

\* The lines s and t after an echo of that type.
Headed(one, type, s, t) ==
  /\ s.kind = "status" /\ s.good
  /\ IF ~one /\ s.val = "00"
     THEN t.kind = "blank"
     ELSE s.val = Success(one) => t.kind = IF type = "distance_io" THEN "io" ELSE "stamp"

Ranging == {"distance", "distance_io"}

\* What stands after the i-th line.
Follows(one, q, i) ==
  /\ q[i].kind \in {"echo", "status", "io", "stamp", "data", "blank"}
  /\ q[i].kind # "blank" => i < Len(q)
  /\ q[i].kind = "echo" => /\ TypeOf(q[i]) \in Ranging /\ i + 1 < Len(q)
                           /\ Headed(one, TypeOf(q[i]), q[i + 1], q[i + 2])
  /\ q[i].kind = "io" => q[i + 1].kind = "stamp"
  /\ q[i].kind = "stamp" => q[i + 1].kind = "data"
  /\ q[i].kind = "data" => q[i + 1].kind \in {"data", "blank"}
  /\ q[i].kind = "blank" /\ i < Len(q) => q[i + 1].kind = "echo"

Grammar(one, q) == \A i \in 1 .. Len(q) : Follows(one, q, i)

LEMMA GrammarTail ==
  ASSUME NEW one \in BOOLEAN, NEW q \in Seq(WireLine), q # <<>>, Grammar(one, q)
  PROVE  Grammar(one, Tail(q))
<1> DEFINE t == Tail(q)
<1>1. /\ t \in Seq(WireLine) /\ Len(q) \in Nat /\ Len(t) = Len(q) - 1
      /\ \A i \in 1 .. Len(t) : t[i] = q[i + 1] /\ i + 1 \in 1 .. Len(q)
  BY TailParts
<1> HIDE DEF t
<1>2. ASSUME NEW i \in 1 .. Len(t) PROVE Follows(one, t, i)
  <2>1. Follows(one, q, i + 1) /\ t[i] = q[i + 1] BY <1>1 DEF Grammar
  <2>2. i < Len(t) => t[i + 1] = q[(i + 1) + 1] BY <1>1
  <2>3. i + 1 < Len(t) => t[i + 2] = q[(i + 1) + 2]
    <3>1. i + 1 < Len(t) => i + 2 \in 1 .. Len(t) BY <1>1
    <3>2. (i + 2) + 1 = (i + 1) + 2 BY <1>1
    <3> QED BY <1>1, <3>1, <3>2
  <2>4. (i + 1 < Len(q) => i < Len(t)) /\ ((i + 1) + 1 < Len(q) => i + 1 < Len(t))
        /\ (i < Len(t) => i + 1 < Len(q))
    BY <1>1
  <2> QED BY <2>1, <2>2, <2>3, <2>4 DEF Follows
<1>3. Grammar(one, t) BY <1>2 DEF Grammar
<1> QED BY <1>3 DEF t

LEMMA GrammarJoin ==
  ASSUME NEW one \in BOOLEAN, NEW a \in Seq(WireLine), NEW b \in Seq(WireLine),
         Grammar(one, a), Grammar(one, b), b # <<>> => b[1].kind = "echo"
  PROVE  Grammar(one, a \o b)
<1> DEFINE c == a \o b
           k == Len(a)
           m == Len(b)
<1>1. /\ k \in Nat /\ m \in Nat /\ Len(c) = k + m
      /\ \A i \in 1 .. k + m : c[i] = IF i <= k THEN a[i] ELSE b[i - k]
  BY ConcatProperties
<1>2. /\ \A i \in 1 .. k : Follows(one, a, i)
      /\ \A i \in 1 .. m : Follows(one, b, i)
      /\ m > 0 => b[1].kind = "echo"
  <2>1. m > 0 => b # <<>> OBVIOUS
  <2> QED BY <2>1 DEF Grammar
<1>3. Len(a) = k /\ Len(b) = m OBVIOUS
<1> HIDE DEF c, k, m
<1>4. ASSUME NEW i \in 1 .. k + m PROVE Follows(one, c, i)
  <2>1. CASE i <= k
    <3>1. i \in 1 .. k /\ c[i] = a[i] /\ Follows(one, a, i) BY <1>1, <1>2, <2>1
    <3>2. i < k => c[i + 1] = a[i + 1]
      <4>1. i < k => i + 1 \in 1 .. k + m /\ i + 1 <= k BY <1>1
      <4> QED BY <1>1, <4>1
    <3>3. i + 1 < k => c[i + 2] = a[i + 2]
      <4>1. i + 1 < k => i + 2 \in 1 .. k + m /\ i + 2 <= k BY <1>1
      <4> QED BY <1>1, <4>1
    <3>4. CASE i < k
      <4>1. i < Len(c) /\ (i + 1 < k => i + 1 < Len(c)) BY <1>1, <3>4
      <4> QED BY <1>3, <3>1, <3>2, <3>3, <3>4, <4>1 DEF Follows
    <3>5. CASE ~(i < k)
      <4>1. i = k BY <1>1, <2>1, <3>5
      <4>2. c[i].kind = "blank" BY <1>3, <3>1, <3>5 DEF Follows
      <4>3. i < Len(c) => c[i + 1].kind = "echo"
        <5>1. ASSUME i < Len(c) PROVE m > 0 /\ i + 1 \in 1 .. k + m /\ ~(i + 1 <= k) /\ (i + 1) - k = 1
          BY <1>1, <4>1, <5>1
        <5> QED BY <1>1, <1>2, <5>1
      <4> QED BY <4>2, <4>3 DEF Follows
    <3> QED BY <3>4, <3>5
  <2>2. CASE ~(i <= k)
    <3> DEFINE j == i - k
    <3>1. j \in 1 .. m /\ j \in Int /\ c[i] = b[j] BY <1>1, <2>2
    <3>2. Follows(one, b, j) BY <1>2, <3>1
    <3>3. j < m => c[i + 1] = b[j + 1]
      <4>1. j < m => i + 1 \in 1 .. k + m /\ ~(i + 1 <= k) /\ (i + 1) - k = j + 1 BY <1>1, <2>2
      <4> QED BY <1>1, <4>1
    <3>4. j + 1 < m => c[i + 2] = b[j + 2]
      <4>1. j + 1 < m => i + 2 \in 1 .. k + m /\ ~(i + 2 <= k) /\ (i + 2) - k = j + 2 BY <1>1, <2>2
      <4> QED BY <1>1, <4>1
    <3>5. (j < m <=> i < Len(c)) /\ (j + 1 < m <=> i + 1 < Len(c)) BY <1>1
    <3> HIDE DEF j
    <3> QED BY <1>3, <3>1, <3>2, <3>3, <3>4, <3>5 DEF Follows
  <2> QED BY <2>1, <2>2
<1>5. Grammar(one, c) BY <1>1, <1>4 DEF Grammar
<1> QED BY <1>5 DEF c

\* One message: an echo, and no other.
Message(one, q) ==
  /\ q \in Seq(WireLine) /\ Len(q) > 2 /\ Grammar(one, q) /\ q[1].kind = "echo"
  /\ \A i \in 2 .. Len(q) : q[i].kind # "echo"

VerbsOf(one) == IF one THEN Single ELSE Continuous

LEMMA EchoType ==
  ASSUME NEW nm \in Orders
  PROVE  /\ nm \in CommandNames /\ Echo(nm).kind = "echo" /\ TypeOf(Echo(nm)) \in Ranging
         /\ TypeOf(Echo(nm)) = IF nm \in {"GF", "MF"} THEN "distance_io" ELSE "distance"
BY DEF Orders, Single, Continuous, CommandNames, Echo, TypeOf, Ranging

LEMMA ScanMessage ==
  ASSUME NEW one \in BOOLEAN, NEW nm \in VerbsOf(one), NEW g \in Nat
  PROVE  Message(one, ScanLines(nm, Success(one), g))
<1> DEFINE st == Success(one)
<1>1. st \in {"00", "99"} /\ nm \in Orders /\ st = Success(one) BY DEF Success, VerbsOf, Orders
<1>2. /\ nm \in CommandNames /\ Echo(nm).kind = "echo" /\ TypeOf(Echo(nm)) \in Ranging
      /\ TypeOf(Echo(nm)) = IF nm \in {"GF", "MF"} THEN "distance_io" ELSE "distance"
  BY <1>1, EchoType
<1> HIDE DEF st
<1>3. PICK s \in Seq(WireLine), h \in {3, 4} : ScanShape(s, h, nm, st, g) BY <1>1, <1>2, ScanKinds
<1>4. /\ s[1] = Echo(nm) /\ s[2].kind = "status" /\ s[2].good /\ s[2].val = st
      /\ Len(s) = h + DataLines + 1 /\ h = (IF nm \in {"GF", "MF"} THEN 4 ELSE 3)
      /\ h = 4 => s[3].kind = "io"
      /\ s[h].kind = "stamp"
      /\ \A i \in h + 1 .. h + DataLines : s[i].kind = "data"
      /\ s[h + DataLines + 1].kind = "blank"
  BY <1>3 DEF ScanShape, Status
<1>5. DataLines \in Nat /\ DataLines > 0 BY BoundAssumption
<1>6. Headed(one, TypeOf(s[1]), s[2], s[3])
  <2>1. ~(~one /\ s[2].val = "00") BY <1>1, <1>4 DEF Success
  <2>2. s[3].kind = IF TypeOf(s[1]) = "distance_io" THEN "io" ELSE "stamp" BY <1>2, <1>4
  <2> QED BY <1>4, <2>1, <2>2 DEF Headed
<1>7. s[2].kind # "echo" /\ \A i \in 2 .. Len(s) : s[i].kind # "echo"
  <2> SUFFICES ASSUME NEW i \in 2 .. Len(s) PROVE s[i].kind # "echo" BY <1>4
  <2>1. \/ i = 2 \/ (h = 4 /\ i = 3) \/ i = h \/ i \in h + 1 .. h + DataLines \/ i = h + DataLines + 1
    BY <1>4, <1>5
  <2> QED BY <1>4, <2>1
<1>8. ASSUME NEW i \in 1 .. Len(s) PROVE Follows(one, s, i)
  <2>1. CASE i = 1 BY <1>2, <1>4, <1>5, <1>6, <2>1 DEF Follows
  <2>2. CASE i = 2 BY <1>4, <1>5, <2>2 DEF Follows
  <2>3. CASE h = 4 /\ i = 3 BY <1>4, <1>5, <2>3 DEF Follows
  <2>4. CASE i = h
    <3>1. i + 1 \in h + 1 .. h + DataLines /\ i < Len(s) BY <1>4, <1>5, <2>4
    <3>2. s[i].kind = "stamp" /\ s[i + 1].kind = "data" BY <1>4, <2>4, <3>1
    <3> QED BY <3>1, <3>2 DEF Follows
  <2>5. CASE i \in h + 1 .. h + DataLines
    <3>1. i < Len(s) /\ (i + 1 \in h + 1 .. h + DataLines \/ i + 1 = h + DataLines + 1)
      BY <1>4, <1>5, <2>5
    <3>2. s[i].kind = "data" /\ s[i + 1].kind \in {"data", "blank"} BY <1>4, <2>5, <3>1
    <3> QED BY <3>1, <3>2 DEF Follows
  <2>6. CASE i = h + DataLines + 1
    <3>1. ~(i < Len(s)) /\ s[i].kind = "blank" BY <1>4, <1>5, <2>6
    <3> QED BY <3>1 DEF Follows
  <2> QED BY <1>4, <1>5, <2>1, <2>2, <2>3, <2>4, <2>5, <2>6
<1>9. Message(one, s) BY <1>2, <1>4, <1>5, <1>7, <1>8 DEF Message, Grammar
<1> QED BY <1>1, <1>3, <1>9 DEF ScanShape

\* What the sensor answers to an order is a message.
LEMMA OrderAnswer ==
  ASSUME NEW one \in BOOLEAN, NEW c \in Command, c.name \in VerbsOf(one)
  PROVE  Message(one, Answer(c))
<1>1. c.name \in Orders /\ c.gen \in Nat BY DEF Orders, VerbsOf, Command
<1>2. CASE c.name \in Single /\ Accepts(c.name)
  <2>1. one = TRUE BY <1>2 DEF VerbsOf, Single, Continuous
  <2>2. Message(one, ScanLines(c.name, Success(one), c.gen)) BY <1>1, ScanMessage
  <2> QED BY <1>2, <2>1, <2>2 DEF Answer, Success
<1>3. CASE ~(c.name \in Single /\ Accepts(c.name))
  <2> DEFINE e == Echo(c.name)  t == Status(StatusOf(c.name))  b == Blank
  <2>1. /\ c.name \in CommandNames /\ e.kind = "echo" /\ TypeOf(e) \in Ranging
    BY <1>1, EchoType
  <2>2. StatusOf(c.name) \in LineVals /\ (one => StatusOf(c.name) # "00") /\ StatusOf(c.name) # "99"
    BY <1>1, <1>3 DEF StatusOf, Refusal, LineVals, VerbsOf, Orders, Single, Continuous
  <2>3. e \in WireLine /\ t \in WireLine /\ b \in WireLine
    BY <2>1, <2>2, AnswerWireLines
  <2>4. t.kind = "status" /\ t.good /\ t.val = StatusOf(c.name) /\ b.kind = "blank"
    BY DEF Status, Blank, Plain
  <2>5. Payload(c.name) = <<>> BY <1>1 DEF Payload, Orders, Single, Continuous
  <2>6. Answer(c) = <<e, t, b>>
    <3>1. Answer(c) = <<e, t>> \o <<>> \o <<b>> BY <1>3, <2>5 DEF Answer
    <3> HIDE DEF e, t, b
    <3>2. <<e, t>> \in Seq(WireLine) BY <2>3
    <3>3. <<e, t>> \o <<>> = <<e, t>> BY <3>2, ConcatEmptySeq
    <3>4. <<e, t>> \o <<b>> = <<e, t, b>> BY <2>3, JoinThree
    <3> QED BY <3>1, <3>3, <3>4
  <2> HIDE DEF e, t, b
  <2> DEFINE q == <<e, t, b>>
  <2>7. q \in Seq(WireLine) /\ Len(q) = 3 /\ q[1] = e /\ q[2] = t /\ q[3] = b BY <2>3
  <2> HIDE DEF q
  <2>8. Headed(one, TypeOf(e), t, b)
    <3>1. CASE ~one /\ t.val = "00" BY <2>4, <3>1 DEF Headed
    <3>2. CASE ~(~one /\ t.val = "00")
      <4>1. t.val # Success(one) BY <2>2, <2>4, <3>2 DEF Success
      <4> QED BY <2>4, <3>2, <4>1 DEF Headed
    <3> QED BY <3>1, <3>2
  <2>9. Follows(one, q, 1) BY <2>1, <2>7, <2>8 DEF Follows
  <2>10. Follows(one, q, 2) /\ Follows(one, q, 3) BY <2>4, <2>7 DEF Follows
  <2>11. \A i \in 1 .. Len(q) : i = 1 \/ i = 2 \/ i = 3 BY <2>7
  <2>12. Message(one, q)
    <3>1. Grammar(one, q) BY <2>9, <2>10, <2>11 DEF Grammar
    <3>2. \A i \in 2 .. Len(q) : i = 2 \/ i = 3 BY <2>7
    <3> QED BY <2>1, <2>4, <2>7, <3>1, <3>2 DEF Message
  <2> QED BY <2>6, <2>12 DEF q
<1> QED BY <1>2, <1>3

(***************************************************************************)
(* What a sample and its sensor are talking about.                         *)
(***************************************************************************)
\* No further echo comes, when one scan was asked for.
NoEcho == OneScan => outbox = <<>> /\ \A i \in 1 .. Len(inbox) : inbox[i].kind # "echo"

\* The next line is the echo of a scan, of the only one when one was asked for.
AtEcho ==
  /\ inbox # <<>> => inbox[1].kind = "echo"
  /\ OneScan => /\ \A i \in 2 .. Len(inbox) : inbox[i].kind # "echo"
                /\ inbox # <<>> => outbox = <<>>
AllRead == AtEcho /\ (OneScan => Quiet)
Meets(k) == inbox # <<>> /\ inbox[1].kind = k
Started_ == rcv.points = 0 /\ rcv.type \in Ranging

\* What is on its way belongs to the measurement that was started, if one was.
Steady ==
  /\ Grammar(OneScan, inbox)
  /\ outbox # <<>> => Len(outbox) = 1 /\ outbox[1].name \in VerbsOf(OneScan)
  /\ sensor.mode = "measure" => is_sending /\ ~OneScan
  /\ ~is_sending => Quiet
  /\ sensor.mode # "sleep"

\* The line a get is at is the one it expects.
InPlace ==
  \/ pc = "ready" /\ AtEcho /\ (op = "get" => ret = "POSITIVE" /\ AllRead)
  \/ op = "get" /\ pc = "rd_echo" /\ AtEcho /\ rcv.points = 0
  \/ op = "get" /\ pc = "rd_status" /\ NoEcho /\ Started_ /\ Len(inbox) > 1
       /\ Headed(OneScan, rcv.type, inbox[1], inbox[2])
  \/ op = "get" /\ pc = "rd_ack" /\ ~OneScan /\ Meets("blank")
  \/ op = "get" /\ pc = "rd_io" /\ NoEcho /\ Started_ /\ Meets("io")
  \/ op = "get" /\ pc = "rd_stamp" /\ NoEcho /\ Started_ /\ Meets("stamp")
  \/ op = "get" /\ pc = "rd_data" /\ NoEcho /\ (Meets("data") \/ (rcv.points > 0 /\ Meets("blank")))
  \/ op = "get" /\ pc \in {"rd_count", "rd_ret"} /\ ret = "POSITIVE" /\ AllRead

Listening == Steady /\ InPlace

\* A get that ends in an error, after which a sample closes the sensor.
Failing ==
  op = "get" /\ \/ pc = "drain" /\ after.pc \in {"rd_ret", "rd_count"} /\ after.code \in Errors
                \/ pc \in {"rd_ret", "rd_count", "ready"} /\ ret \in Errors

\* Over a cable that was pulled nothing is sent.
DownSilent == link = "down" => outbox = <<>>

LEMMA DownStays == ASSUME TypeOK, Host, DownSilent PROVE DownSilent'
BY HostMoves DEF Moves, DownSilent, Sent

\* A line is read, or there is none to come, unless one is late.
LEMMA ReadOne ==
  ASSUME TypeOK, late' = 0, NEW l \in Incoming, Reads(l)
  PROVE  \/ /\ inbox # <<>> /\ l = inbox[1] /\ l # Timeout /\ l \in WireLine
            /\ inbox' = Tail(inbox) /\ UNCHANGED late
         \/ l = Timeout /\ Silent /\ UNCHANGED <<inbox, late>>
<1>1. inbox \in Seq(WireLine) /\ late \in Nat BY DEF TypeOK, WorldTypeOK, WireLine
<1>2. l = Timeout => Silent
  <2> SUFFICES ASSUME l = Timeout, ~Silent PROVE FALSE OBVIOUS
  <2>1. Failed(l) BY DEF Failed
  <2>2. late' = late + 1 BY <2>1 DEF Reads
  <2> QED BY <1>1, <2>2
<1>3. (1 \in DOMAIN inbox /\ l = inbox[1]) \/ (Silent /\ l = Timeout)
  <2>1. l \in {inbox[i] : i \in {1} \cap DOMAIN inbox} \/ l = Timeout
    BY DEF Incoming
  <2> QED BY <1>2, <2>1
<1>4. CASE 1 \in DOMAIN inbox /\ l = inbox[1]
  <2>1. inbox # <<>> /\ l \in WireLine BY <1>1, <1>4
  <2>2. l # Timeout BY <2>1 DEF WireLine
  <2> QED BY <1>4, <2>1, <2>2 DEF Reads, Failed
<1>5. CASE Silent /\ l = Timeout BY <1>5 DEF Reads, Failed
<1> QED BY <1>3, <1>4, <1>5

\* After a line of a measurement comes the next.
LEMMA Onward ==
  ASSUME TypeOK, Steady, inbox # <<>>, inbox' = Tail(inbox),
         UNCHANGED <<outbox, sensor, is_sending, specified_scan_times>>
  PROVE  /\ Steady' /\ is_sending
         /\ Len(inbox) \in Nat /\ Len(inbox) > 0 /\ Len(inbox') = Len(inbox) - 1
         /\ inbox' # <<>> <=> Len(inbox) > 1
         /\ \A i \in 1 .. Len(inbox') : inbox'[i] = inbox[i + 1] /\ i + 1 \in 1 .. Len(inbox)
         /\ Follows(OneScan, inbox, 1)
         /\ NoEcho => NoEcho'
<1>1. inbox \in Seq(WireLine) BY DEF TypeOK, WorldTypeOK, WireLine
<1>2. /\ Tail(inbox) \in Seq(WireLine) /\ Len(inbox) \in Nat /\ Len(inbox) > 0
      /\ Len(Tail(inbox)) = Len(inbox) - 1
      /\ \A i \in 1 .. Len(Tail(inbox)) : Tail(inbox)[i] = inbox[i + 1] /\ i + 1 \in 1 .. Len(inbox)
  BY <1>1, TailParts
<1>3. OneScan \in BOOLEAN /\ OneScan' = OneScan BY DEF OneScan
<1>4. Grammar(OneScan, Tail(inbox)) BY <1>1, <1>3, GrammarTail DEF Steady
<1>5. is_sending BY DEF Steady, Quiet, TypeOK, HostTypeOK
<1>6. Steady'
  <2>1. Grammar(OneScan, inbox)' BY <1>3, <1>4 DEF Grammar, Follows, Headed, Success
  <2>2. /\ outbox' # <<>> => Len(outbox') = 1 /\ outbox'[1].name \in VerbsOf(OneScan')
        /\ sensor'.mode = "measure" => is_sending' /\ ~OneScan'
        /\ sensor'.mode # "sleep"
    BY <1>3 DEF Steady
  <2> QED BY <1>5, <2>1, <2>2 DEF Steady
<1>7. Follows(OneScan, inbox, 1) BY <1>2 DEF Steady, Grammar
<1>8. NoEcho => NoEcho' BY <1>2, <1>3 DEF NoEcho
<1>9. inbox' # <<>> <=> Len(inbox) > 1
  <2> DEFINE t == Tail(inbox)
  <2>1. t \in Seq(WireLine) /\ Len(t) = Len(inbox) - 1 BY <1>2
  <2>2. t # <<>> <=> Len(t) > 0
    <3> HIDE DEF t
    <3> QED BY <2>1
  <2> QED BY <1>2, <2>1, <2>2
<1> QED BY <1>2, <1>5, <1>6, <1>7, <1>8, <1>9

\* receive_data gives up while it measures: it drains.
LEMMA AbortFails ==
  ASSUME NEW label \in {"rd_ret", "rd_count"}, NEW e \in Errors, Abort(label, e),
         is_sending, op = "get", UNCHANGED op
  PROVE  Failing'
<1> DEFINE a == [pc |-> label, code |-> e]
<1>1. IgnoreReceiveDataWithQt(a) BY DEF Abort
<1>2. a.pc = label /\ a.code = e OBVIOUS
<1> HIDE DEF a
<1>3. pc' = "drain" /\ after' = a BY <1>1, GivingUpMoves
<1> QED BY <1>2, <1>3 DEF Failing

LEMMA SomeErrors == {"NO_RESPONSE", "INVALID_RESPONSE", "CHECKSUM_ERROR", "RECEIVE_ERROR"} \subseteq Errors
BY DEF Errors

\* The echo of a scan is read, or the sensor is silent.
LEMMA HearEcho ==
  ASSUME TypeOK, late' = 0, Steady, AtEcho, rcv.points = 0, op = "get", RdEcho
  PROVE  Listening' \/ Failing'
<1>1. PICK l \in Incoming :
        /\ Reads(l)
        /\ IF NonEmpty(l)
           THEN /\ pc' = "rd_status"
                /\ rcv' = [rcv EXCEPT !.type = TypeOf(l)]
                /\ UNCHANGED <<ret, last_errno>>
           ELSE FailRet("NO_RESPONSE") /\ UNCHANGED rcv
  BY DEF RdEcho
<1>2. UNCHANGED <<op, outbox, sensor, is_sending, specified_scan_times>>
  BY DEF RdEcho, Reading, Untouched, flags, config
<1>3. CASE l = Timeout
  <2>1. ~NonEmpty(l) BY <1>3 DEF NonEmpty, Failed
  <2> QED BY <1>1, <1>2, <2>1, SomeErrors DEF FailRet, GoRet, Failing
<1>4. CASE inbox # <<>> /\ l = inbox[1] /\ l # Timeout /\ inbox' = Tail(inbox)
  <2>1. /\ Steady' /\ Len(inbox) \in Nat /\ Len(inbox') = Len(inbox) - 1
        /\ \A i \in 1 .. Len(inbox') : inbox'[i] = inbox[i + 1] /\ i + 1 \in 1 .. Len(inbox)
        /\ Follows(OneScan, inbox, 1)
    BY <1>2, <1>4, Onward
  <2>2. l.kind = "echo" BY <1>4 DEF AtEcho
  <2>3. NonEmpty(l) BY <1>4, <2>2 DEF NonEmpty, Failed, Empty
  <2>4. /\ TypeOf(l) \in Ranging /\ Len(inbox) > 2
        /\ Headed(OneScan, TypeOf(l), inbox[2], inbox[3])
    BY <1>4, <2>1, <2>2 DEF Follows
  <2>5. Len(inbox') > 1 /\ inbox'[1] = inbox[2] /\ inbox'[2] = inbox[3]
    <3>1. 1 \in 1 .. Len(inbox') /\ 2 \in 1 .. Len(inbox') /\ Len(inbox') > 1 BY <2>1, <2>4
    <3>2. inbox'[1] = inbox[1 + 1] /\ inbox'[2] = inbox[2 + 1] BY <2>1, <3>1
    <3> QED BY <3>1, <3>2
  <2>6. rcv'.type = TypeOf(l) /\ rcv'.points = 0 /\ pc' = "rd_status"
    BY <1>1, <2>3 DEF TypeOK, HostTypeOK
  <2>7. NoEcho'
    <3>1. OneScan => outbox = <<>> BY <1>4 DEF AtEcho
    <3>2. \A i \in 1 .. Len(inbox') : i + 1 \in 2 .. Len(inbox) BY <2>1
    <3>3. OneScan => \A i \in 1 .. Len(inbox') : inbox'[i].kind # "echo"
      BY <2>1, <3>2 DEF AtEcho
    <3> QED BY <1>2, <3>1, <3>3 DEF NoEcho, OneScan
  <2>8. OneScan' = OneScan BY <1>2 DEF OneScan
  <2>9. Headed(OneScan, rcv.type, inbox[1], inbox[2])' BY <2>4, <2>5, <2>6, <2>8 DEF Headed
  <2> QED BY <1>2, <2>1, <2>4, <2>5, <2>6, <2>7, <2>9 DEF Listening, InPlace, Started_
<1> QED BY <1>1, <1>3, <1>4, ReadOne

\* The status is read.
LEMMA HearStatus ==
  ASSUME TypeOK, late' = 0, Steady, NoEcho, Started_, Len(inbox) > 1,
         Headed(OneScan, rcv.type, inbox[1], inbox[2]), op = "get", RdStatus
  PROVE  Listening' \/ Failing'
<1>0. inbox # <<>> BY DEF TypeOK, WorldTypeOK
<1>1. PICK l \in Incoming :
        /\ Reads(l)
        /\ CASE l.kind # "status" ->
                  Abort("rd_ret", "INVALID_RESPONSE")
             [] l.kind = "status" /\ ~l.good /\ ignore_checkSumError = 0 ->
                  Abort(IF rcv.stamp THEN "rd_ret" ELSE "crashed", "CHECKSUM_ERROR")
             [] OTHER ->
                  IF rcv.type = "stop"
                  THEN pc' = "rd_qt" /\ Untouched /\ UNCHANGED <<ret, last_errno>>
                  ELSE IF ~OneScan /\ l.val = "00"
                  THEN pc' = "rd_ack" /\ Untouched /\ UNCHANGED <<ret, last_errno>>
                  ELSE IF l.val # Success(OneScan)
                  THEN Abort("rd_ret", "INVALID_RESPONSE")
                  ELSE /\ pc' = IF rcv.type = "distance_io" THEN "rd_io" ELSE "rd_stamp"
                       /\ Untouched /\ UNCHANGED <<ret, last_errno>>
  BY DEF RdStatus, OneScan, Success
<1>2. UNCHANGED <<op, sensor, specified_scan_times, rcv>>
  BY DEF RdStatus, Reading, config
<1>3. l = inbox[1] /\ inbox' = Tail(inbox) BY <1>0, <1>1, ReadOne DEF Silent
<1>4. l.kind = "status" /\ l.good /\ rcv.type # "stop" BY <1>3 DEF Headed, Started_, Ranging
<1>5. \/ Abort("rd_ret", "INVALID_RESPONSE")
      \/ ~OneScan /\ l.val = "00" /\ pc' = "rd_ack" /\ Untouched
      \/ /\ ~(~OneScan /\ l.val = "00") /\ l.val = Success(OneScan)
         /\ pc' = IF rcv.type = "distance_io" THEN "rd_io" ELSE "rd_stamp"
         /\ Untouched
  BY <1>1, <1>4
<1>6. CASE Abort("rd_ret", "INVALID_RESPONSE")
  <2>1. is_sending BY <1>0 DEF Steady, Quiet, TypeOK, HostTypeOK
  <2> QED BY <1>2, <1>6, <2>1, AbortFails, SomeErrors
<1>7. ASSUME Untouched
      PROVE  /\ Steady' /\ NoEcho' /\ inbox' # <<>> /\ inbox'[1] = inbox[2]
             /\ OneScan' = OneScan
  <2>1. UNCHANGED <<outbox, is_sending>> BY <1>7 DEF Untouched, flags
  <2>2. /\ Steady' /\ NoEcho' /\ Len(inbox) \in Nat /\ Len(inbox') = Len(inbox) - 1
        /\ inbox' # <<>> <=> Len(inbox) > 1
        /\ \A i \in 1 .. Len(inbox') : inbox'[i] = inbox[i + 1] /\ i + 1 \in 1 .. Len(inbox)
    BY <1>0, <1>2, <1>3, <2>1, Onward
  <2>3. 1 \in 1 .. Len(inbox') BY <2>2
  <2>4. inbox'[1] = inbox[1 + 1] BY <2>2, <2>3
  <2> QED BY <1>2, <2>2, <2>4 DEF OneScan
<1>8. CASE ~OneScan /\ l.val = "00" /\ pc' = "rd_ack" /\ Untouched
  <2>1. inbox[2].kind = "blank" BY <1>3, <1>8 DEF Headed
  <2> QED BY <1>2, <1>7, <1>8, <2>1 DEF Listening, InPlace, Meets
<1>9. CASE /\ ~(~OneScan /\ l.val = "00") /\ l.val = Success(OneScan)
           /\ pc' = IF rcv.type = "distance_io" THEN "rd_io" ELSE "rd_stamp"
           /\ Untouched
  <2>1. inbox[2].kind = IF rcv.type = "distance_io" THEN "io" ELSE "stamp"
    BY <1>3, <1>9 DEF Headed
  <2>2. Started_' BY <1>2 DEF Started_
  <2> QED BY <1>2, <1>7, <1>9, <2>1, <2>2 DEF Listening, InPlace, Meets
<1> QED BY <1>5, <1>6, <1>8, <1>9

\* A line in the midst of a message is read, and nothing is sent.
LEMMA HearNext ==
  ASSUME TypeOK, late' = 0, Steady, inbox # <<>>, NEW l \in Incoming, Reads(l)
  PROVE  /\ l = inbox[1] /\ l # Timeout /\ inbox' = Tail(inbox) /\ is_sending
         /\ UNCHANGED <<outbox, sensor, is_sending, specified_scan_times>> =>
              /\ Steady' /\ OneScan' = OneScan /\ (NoEcho => NoEcho')
              /\ l.kind # "blank" => inbox' # <<>> /\ inbox'[1] = inbox[2]
              /\ inbox' # <<>> => inbox'[1] = inbox[2]
              /\ l.kind = "blank" /\ inbox' # <<>> => inbox'[1].kind = "echo"
              /\ l.kind = "blank" /\ NoEcho => (OneScan => inbox' = <<>>)
<1>1. l = inbox[1] /\ l # Timeout /\ inbox' = Tail(inbox) BY ReadOne DEF Silent
<1>2. is_sending BY DEF Steady, Quiet, TypeOK, HostTypeOK
<1>3. ASSUME UNCHANGED <<outbox, sensor, is_sending, specified_scan_times>>
      PROVE  /\ Steady' /\ OneScan' = OneScan /\ (NoEcho => NoEcho')
             /\ l.kind # "blank" => inbox' # <<>> /\ inbox'[1] = inbox[2]
             /\ inbox' # <<>> => inbox'[1] = inbox[2]
             /\ l.kind = "blank" /\ inbox' # <<>> => inbox'[1].kind = "echo"
             /\ l.kind = "blank" /\ NoEcho => (OneScan => inbox' = <<>>)
  <2>1. /\ Steady' /\ (NoEcho => NoEcho')
        /\ Len(inbox) \in Nat /\ Len(inbox') = Len(inbox) - 1
        /\ inbox' # <<>> <=> Len(inbox) > 1
        /\ \A i \in 1 .. Len(inbox') : inbox'[i] = inbox[i + 1] /\ i + 1 \in 1 .. Len(inbox)
        /\ Follows(OneScan, inbox, 1)
    BY <1>1, <1>3, Onward
  <2>2. OneScan' = OneScan BY <1>3 DEF OneScan
  <2>3. inbox' # <<>> => 1 \in 1 .. Len(inbox') BY <2>1
  <2>4. inbox' # <<>> => inbox'[1] = inbox[1 + 1] BY <2>1, <2>3
  <2>5. l.kind # "blank" => inbox' # <<>> BY <1>1, <2>1 DEF Follows
  <2>6. l.kind = "blank" /\ inbox' # <<>> => inbox'[1].kind = "echo"
    BY <1>1, <2>1, <2>4 DEF Follows
  <2>7. l.kind = "blank" /\ NoEcho => (OneScan => inbox' = <<>>)
    BY <2>1, <2>2, <2>3, <2>6 DEF NoEcho
  <2> QED BY <2>1, <2>2, <2>4, <2>5, <2>6, <2>7
<1> QED BY <1>1, <1>2, <1>3

\* The acknowledgement ends.
LEMMA HearAck ==
  ASSUME TypeOK, late' = 0, Steady, ~OneScan, Meets("blank"), op = "get", RdAck
  PROVE  Listening' \/ Failing'
<1>1. PICK l \in Incoming :
        /\ Reads(l)
        /\ IF Empty(l)
           THEN ReceiveData(rcv.stamp) /\ Untouched /\ UNCHANGED <<ret, last_errno>>
           ELSE Abort("rd_ret", "INVALID_RESPONSE") /\ UNCHANGED rcv
  BY DEF RdAck
<1>2. UNCHANGED <<op, sensor, specified_scan_times>> BY DEF RdAck, Reading, config
<1>3. inbox # <<>> /\ l = inbox[1] /\ Empty(l) BY <1>1, HearNext DEF Meets, Empty
<1>4. /\ pc' = "rd_echo" /\ rcv'.points = 0 /\ UNCHANGED <<outbox, is_sending>>
  BY <1>1, <1>3 DEF ReceiveData, Untouched, flags
<1>5. Steady' /\ OneScan' = OneScan /\ (inbox' # <<>> => inbox'[1].kind = "echo")
  BY <1>1, <1>2, <1>3, <1>4, HearNext DEF Empty
<1>6. AtEcho' BY <1>5 DEF AtEcho
<1> QED BY <1>2, <1>4, <1>5, <1>6 DEF Listening, InPlace

\* The line of the I/O and that of the time stamp.
LEMMA HearHeader ==
  ASSUME TypeOK, late' = 0, Steady, NoEcho, Started_, op = "get",
         (RdIo /\ Meets("io")) \/ (RdStamp /\ Meets("stamp"))
  PROVE  Listening'
<1>1. UNCHANGED <<op, sensor, specified_scan_times, rcv, outbox, is_sending>>
  BY DEF RdIo, RdStamp, Reading, Untouched, flags, config
<1>2. PICK l \in Incoming : Reads(l) BY DEF RdIo, RdStamp
<1>3. /\ inbox # <<>> /\ l = inbox[1] /\ Steady' /\ NoEcho' /\ OneScan' = OneScan
      /\ l.kind # "blank" => inbox' # <<>> /\ inbox'[1] = inbox[2]
  BY <1>1, <1>2, HearNext DEF Meets
<1>4. Follows(OneScan, inbox, 1)
  <2>1. 1 \in 1 .. Len(inbox) BY <1>3 DEF TypeOK, WorldTypeOK
  <2> QED BY <2>1 DEF Steady, Grammar
<1>5. Started_' /\ rcv.type # "unknown" BY <1>1 DEF Started_, Ranging
<1>6. CASE RdIo /\ Meets("io")
  <2>1. pc' = "rd_stamp" /\ l.kind = "io" BY <1>3, <1>6 DEF RdIo, Meets
  <2>2. Meets("stamp")' BY <1>3, <1>4, <2>1 DEF Follows, Meets
  <2> QED BY <1>1, <1>3, <1>5, <2>1, <2>2 DEF Listening, InPlace
<1>7. CASE RdStamp /\ Meets("stamp")
  <2>1. pc' = "rd_data" /\ l.kind = "stamp" BY <1>3, <1>5, <1>7 DEF RdStamp, Meets
  <2>2. Meets("data")' BY <1>3, <1>4, <2>1 DEF Follows, Meets
  <2> QED BY <1>1, <1>3, <2>1, <2>2 DEF Listening, InPlace
<1> QED BY <1>6, <1>7

\* A line of data, or the end of them.
LEMMA HearData ==
  ASSUME TypeOK, late' = 0, Steady, NoEcho, op = "get", RdData,
         Meets("data") \/ (rcv.points > 0 /\ Meets("blank"))
  PROVE  Listening' \/ Failing'
<1>1. PICK l \in Incoming :
        LET points == rcv.points + (IF l.kind = "status" THEN 0 ELSE 1) IN
        /\ Reads(l)
        /\ IF ~NonEmpty(l)
           THEN /\ pc' = "rd_count"
                /\ ret' = IF rcv.points > 0 THEN "POSITIVE" ELSE "NO_ERROR"
                /\ Untouched /\ UNCHANGED <<rcv, last_errno>>
           ELSE IF ~l.good /\ ignore_checkSumError = 0
           THEN Abort("rd_count", "CHECKSUM_ERROR") /\ UNCHANGED rcv
           ELSE IF points > DataLines
           THEN Abort("rd_count", "RECEIVE_ERROR") /\ UNCHANGED rcv
           ELSE /\ rcv' = [rcv EXCEPT !.points = points, !.gen = l.gen]
                /\ Untouched /\ UNCHANGED <<pc, ret, last_errno>>
  BY DEF RdData
<1>2. UNCHANGED <<op, sensor, specified_scan_times>> /\ pc = "rd_data"
  BY DEF RdData, Reading, config
<1>3. /\ inbox # <<>> /\ l = inbox[1] /\ l # Timeout /\ is_sending
      /\ UNCHANGED <<outbox, is_sending>> =>
              /\ Steady' /\ OneScan' = OneScan /\ NoEcho'
              /\ l.kind # "blank" => inbox' # <<>> /\ inbox'[1] = inbox[2]
              /\ l.kind = "blank" /\ inbox' # <<>> => inbox'[1].kind = "echo"
              /\ l.kind = "blank" => (OneScan => inbox' = <<>>)
  BY <1>1, <1>2, HearNext DEF Meets
<1>4. CASE l.kind = "blank"
  <2>1. ~NonEmpty(l) /\ rcv.points > 0 BY <1>3, <1>4 DEF NonEmpty, Empty, Meets
  <2>2. pc' = "rd_count" /\ ret' = "POSITIVE" /\ UNCHANGED <<outbox, is_sending>>
    BY <1>1, <2>1 DEF Untouched, flags
  <2>3. AllRead'
    <3>1. OneScan => outbox = <<>> BY DEF NoEcho
    <3>2. OneScan' => Quiet' BY <1>3, <1>4, <2>2, <3>1 DEF Quiet
    <3>3. inbox' # <<>> => inbox'[1].kind = "echo" BY <1>3, <1>4, <2>2
    <3>4. AtEcho' BY <3>2, <3>3 DEF AtEcho, Quiet
    <3> QED BY <3>2, <3>4 DEF AllRead
  <2> QED BY <1>2, <1>3, <2>2, <2>3 DEF Listening, InPlace
<1>5. CASE l.kind = "data"
  <2>1. NonEmpty(l) BY <1>3, <1>5 DEF NonEmpty, Failed, Empty
  <2>2. \/ Abort("rd_count", "CHECKSUM_ERROR") \/ Abort("rd_count", "RECEIVE_ERROR")
        \/ /\ rcv' = [rcv EXCEPT !.points = rcv.points + 1, !.gen = l.gen]
           /\ Untouched /\ UNCHANGED pc
    BY <1>1, <1>5, <2>1
  <2>3. CASE Abort("rd_count", "CHECKSUM_ERROR") \/ Abort("rd_count", "RECEIVE_ERROR")
    BY <1>2, <1>3, <2>3, AbortFails, SomeErrors
  <2>4. CASE /\ rcv' = [rcv EXCEPT !.points = rcv.points + 1, !.gen = l.gen]
             /\ Untouched /\ UNCHANGED pc
    <3>1. UNCHANGED <<outbox, is_sending>> BY <2>4 DEF Untouched, flags
    <3>2. rcv'.points > 0 BY <2>4 DEF TypeOK, HostTypeOK
    <3>3. inbox[2].kind \in {"data", "blank"}
      <4>1. 1 \in 1 .. Len(inbox) BY <1>3 DEF TypeOK, WorldTypeOK
      <4>2. Follows(OneScan, inbox, 1) BY <4>1 DEF Steady, Grammar
      <4> QED BY <1>3, <1>5, <4>2 DEF Follows
    <3>4. Meets("data")' \/ Meets("blank")' BY <1>3, <1>5, <3>1, <3>3 DEF Meets
    <3> QED BY <1>2, <1>3, <2>4, <3>1, <3>2, <3>4 DEF Listening, InPlace
  <2> QED BY <2>2, <2>3, <2>4
<1> QED BY <1>3, <1>4, <1>5 DEF Meets

\* The end of receive_data: a sample measures one scan, or without end.
LEMMA HearEnd ==
  ASSUME TypeOK, specified_scan_times \in {0, 1}, RdCount \/ GetDone
  PROVE  /\ UNCHANGED <<op, sensor, specified_scan_times, outbox, inbox, is_sending, ret>>
         /\ RdCount => pc = "rd_count" /\ pc' = "rd_ret"
         /\ GetDone => pc = "rd_ret" /\ pc' = "ready"
<1>1. CASE RdCount
  <2>1. ~(specified_scan_times > 1) OBVIOUS
  <2>2. pc = "rd_count" /\ ~GetDone BY <1>1 DEF RdCount, GetDone, Reading
  <2> QED BY <1>1, <2>1, <2>2 DEF RdCount, Reading, flags
<1>2. CASE GetDone
  <2>1. pc = "rd_ret" /\ ~RdCount BY <1>2 DEF RdCount, GetDone, Reading
  <2> QED BY <1>2, <2>1 DEF GetDone, Reading, Returns, Untouched, flags, config
<1> QED BY <1>1, <1>2

LEMMA HearOut ==
  ASSUME TypeOK, specified_scan_times \in {0, 1}, Steady, AllRead, ret = "POSITIVE",
         op = "get", RdCount \/ GetDone
  PROVE  Listening'
<1>1. /\ UNCHANGED <<op, sensor, specified_scan_times, outbox, inbox, is_sending, ret>>
      /\ pc' \in {"rd_ret", "ready"}
  BY HearEnd
<1>2. Steady' /\ AllRead'
  BY <1>1 DEF Steady, AllRead, AtEcho, Quiet, OneScan, Grammar, Follows, Headed, Success
<1>3. AtEcho' BY <1>2 DEF AllRead
<1> QED BY <1>1, <1>2, <1>3 DEF Listening, InPlace

\* Which step of receive_data and its callers is next.
Answers_ == \/ LaserOnDone \/ TimeStampModeDone \/ TimeStampDone
            \/ InfoDone \/ SleepDone \/ RebootDone

LEMMA HostReads ==
  ASSUME Host
  PROVE  /\ pc = "send_single" => SendSingle
         /\ pc = "close" => CloseDone
         /\ pc = "xchg" => ScipResponse
         /\ pc = "xchg_done" => Answers_
         /\ pc = "rd_echo" => RdEcho
         /\ pc = "rd_status" => RdStatus
         /\ pc = "rd_ack" => RdAck
         /\ pc = "rd_io" => RdIo
         /\ pc = "rd_stamp" => RdStamp
         /\ pc = "rd_data" => RdData
         /\ pc = "rd_count" => RdCount
         /\ pc = "drain" => Drain
         /\ pc = "rd_ret" /\ frames = <<>> => GetDone
<1>1. /\ SendSingle => pc = "send_single"
      /\ CloseDone => pc = "close"
      /\ ScipResponse => pc = "xchg"
      /\ Answers_ => pc = "xchg_done"
      /\ RdEcho => pc = "rd_echo"
      /\ RdStatus => pc = "rd_status"
      /\ RdQt => pc = "rd_qt"
      /\ RdAck => pc = "rd_ack"
      /\ RdIo => pc = "rd_io"
      /\ RdStamp => pc = "rd_stamp"
      /\ RdData => pc = "rd_data"
      /\ RdCount => pc = "rd_count"
      /\ GetDone => pc = "rd_ret"
      /\ StopLoop => pc = "rd_ret" /\ frames # <<>>
      /\ StopDone => pc = "stop_done"
      /\ Drain => pc = "drain"
  BY DEF SendSingle, CloseDone, ScipResponse, LaserOnDone, TimeStampModeDone,
     TimeStampDone, InfoDone, SleepDone, RebootDone, Answered, Answers_, RdEcho, RdStatus, RdQt,
     RdAck, RdIo, RdStamp, RdData, RdCount, GetDone, StopLoop, StopDone, Drain, Reading
<1>2. \/ SendSingle \/ CloseDone \/ ScipResponse \/ Answers_
      \/ RdEcho \/ RdStatus \/ RdQt \/ RdAck \/ RdIo \/ RdStamp \/ RdData
      \/ RdCount \/ GetDone \/ StopLoop \/ StopDone \/ Drain
  BY DEF Host, Answers_
<1> QED BY <1>1, <1>2

\* A get that fails goes on failing.
LEMMA FailOn ==
  ASSUME TypeOK, specified_scan_times \in {0, 1}, frames = <<>>, Failing, Host
  PROVE  Failing'
<1>1. pc # "ready" BY HostInCall
<1>2. CASE pc = "drain" /\ after.pc \in {"rd_ret", "rd_count"} /\ after.code \in Errors
  <2>1. Drain BY <1>2, HostReads
  <2>2. /\ UNCHANGED <<op, after>>
        /\ UNCHANGED pc \/ (pc' = after.pc /\ ret' = after.code)
    BY <2>1 DEF Drain, Reading, Resume
  <2> QED BY <1>2, <2>2 DEF Failing
<1>3. CASE pc \in {"rd_ret", "rd_count"} /\ ret \in Errors
  <2>1. RdCount \/ GetDone BY <1>3, HostReads
  <2>2. UNCHANGED <<op, ret>> /\ pc' \in {"rd_ret", "ready"} BY <2>1, HearEnd
  <2> QED BY <1>3, <2>2 DEF Failing
<1> QED BY <1>1, <1>2, <1>3 DEF Failing

\* The library, while a sample measures.
LEMMA ListenOn ==
  ASSUME TypeOK, late' = 0, specified_scan_times \in {0, 1}, frames = <<>>, Listening, Host
  PROVE  Listening' \/ Failing'
<1>1. pc # "ready" /\ Steady BY HostInCall DEF Listening
<1>2. CASE op = "get" /\ pc = "rd_echo" /\ AtEcho /\ rcv.points = 0
  <2>1. RdEcho BY <1>2, HostReads
  <2> QED BY <1>1, <1>2, <2>1, HearEcho
<1>3. CASE op = "get" /\ pc = "rd_status" /\ NoEcho /\ Started_ /\ Len(inbox) > 1
             /\ Headed(OneScan, rcv.type, inbox[1], inbox[2])
  <2>1. RdStatus BY <1>3, HostReads
  <2> QED BY <1>1, <1>3, <2>1, HearStatus
<1>4. CASE op = "get" /\ pc = "rd_ack" /\ ~OneScan /\ Meets("blank")
  <2>1. RdAck BY <1>4, HostReads
  <2> QED BY <1>1, <1>4, <2>1, HearAck
<1>5. CASE op = "get" /\ pc = "rd_io" /\ NoEcho /\ Started_ /\ Meets("io")
  <2>1. RdIo BY <1>5, HostReads
  <2> QED BY <1>1, <1>5, <2>1, HearHeader
<1>6. CASE op = "get" /\ pc = "rd_stamp" /\ NoEcho /\ Started_ /\ Meets("stamp")
  <2>1. RdStamp BY <1>6, HostReads
  <2> QED BY <1>1, <1>6, <2>1, HearHeader
<1>7. CASE op = "get" /\ pc = "rd_data" /\ NoEcho
             /\ (Meets("data") \/ (rcv.points > 0 /\ Meets("blank")))
  <2>1. RdData BY <1>7, HostReads
  <2> QED BY <1>1, <1>7, <2>1, HearData
<1>8. CASE op = "get" /\ pc \in {"rd_count", "rd_ret"} /\ ret = "POSITIVE" /\ AllRead
  <2>1. RdCount \/ GetDone BY <1>8, HostReads
  <2> QED BY <1>1, <1>8, <2>1, HearOut
<1>9. InPlace BY DEF Listening
<1> QED BY <1>1, <1>2, <1>3, <1>4, <1>5, <1>6, <1>7, <1>8, <1>9 DEF InPlace

\* A message comes after what is in flight.
LEMMA MessageComes ==
  ASSUME TypeOK, Steady, InPlace, NEW q, Message(OneScan, q), inbox' = inbox \o q,
         HostUnchanged, OneScan => inbox = <<>> /\ outbox # <<>>,
         outbox' = <<>> \/ (~OneScan /\ UNCHANGED outbox)
  PROVE  Grammar(OneScan, inbox)' /\ InPlace'
<1>1. inbox \in Seq(WireLine) /\ q \in Seq(WireLine) BY DEF TypeOK, WorldTypeOK, WireLine, Message
<1>2. OneScan' = OneScan /\ UNCHANGED <<pc, op, ret, rcv>>
  BY DEF OneScan, HostUnchanged, config, host
<1>3. q[1].kind = "echo" /\ Len(q) > 2 /\ \A i \in 2 .. Len(q) : q[i].kind # "echo" BY DEF Message
<1>4. Grammar(OneScan, inbox)'
  <2>1. OneScan \in BOOLEAN BY DEF OneScan
  <2>2. Grammar(OneScan, inbox \o q) BY <1>1, <2>1, GrammarJoin DEF Steady, Message
  <2> QED BY <1>2, <2>2 DEF Grammar, Follows, Headed, Success
<1>5. /\ Len(inbox) \in Nat /\ Len(q) \in Nat /\ Len(inbox') = Len(inbox) + Len(q)
      /\ \A i \in 1 .. Len(inbox') : inbox'[i] = IF i <= Len(inbox) THEN inbox[i] ELSE q[i - Len(inbox)]
  BY <1>1, ConcatProperties
<1>6. inbox # <<>> => Len(inbox) > 0 /\ inbox'[1] = inbox[1]
  <2>1. inbox # <<>> => Len(inbox) > 0 /\ 1 \in 1 .. Len(inbox') BY <1>1, <1>5
  <2> QED BY <1>5, <2>1
<1>7. Len(inbox) > 1 => Len(inbox') > 1 /\ inbox'[2] = inbox[2]
  <2>1. Len(inbox) > 1 => Len(inbox') > 1 /\ 2 \in 1 .. Len(inbox') /\ 2 <= Len(inbox) BY <1>5
  <2> QED BY <1>5, <2>1
<1>8. inbox' # <<>>
  <2>1. inbox' \in Seq(WireLine) /\ Len(inbox') > 0 BY <1>1, <1>3, <1>5
  <2> QED BY <2>1
<1>9. inbox = <<>> => inbox' = q
  <2>1. <<>> \o q = q BY <1>1, ConcatEmptySeq
  <2> QED BY <2>1
<1>10. AtEcho => AtEcho'
  <2> SUFFICES ASSUME AtEcho PROVE AtEcho' OBVIOUS
  <2>1. inbox'[1].kind = "echo"
    <3>1. CASE inbox = <<>> BY <1>3, <1>9, <3>1
    <3>2. CASE inbox # <<>> BY <1>6, <3>2 DEF AtEcho
    <3> QED BY <3>1, <3>2
  <2>2. OneScan' => \A i \in 2 .. Len(inbox') : inbox'[i].kind # "echo" BY <1>2, <1>3, <1>9
  <2>3. OneScan' => outbox' = <<>> BY <1>2
  <2> QED BY <2>1, <2>2, <2>3 DEF AtEcho
<1>11. NoEcho /\ inbox # <<>> => NoEcho' BY <1>2 DEF NoEcho
<1>12. \A k : Meets(k) => Meets(k)' BY <1>6, <1>8 DEF Meets
<1>13. Started_' = Started_ BY <1>2 DEF Started_
<1>14. AllRead => AllRead' BY <1>2, <1>10 DEF AllRead, Quiet
<1>15. pc = "rd_status" => inbox # <<>> BY <1>1 DEF InPlace
<1>16. ASSUME pc = "rd_status" PROVE InPlace'
  <2>1. /\ op = "get" /\ NoEcho /\ Started_ /\ Len(inbox) > 1
        /\ Headed(OneScan, rcv.type, inbox[1], inbox[2])
    BY <1>16 DEF InPlace
  <2>2. inbox # <<>> BY <1>15, <1>16
  <2>3. Headed(OneScan, rcv.type, inbox[1], inbox[2])' BY <1>2, <1>6, <1>7, <2>1, <2>2 DEF Headed
  <2> QED BY <1>2, <1>7, <1>11, <1>13, <1>16, <2>1, <2>2, <2>3 DEF InPlace
<1>17. ASSUME pc # "rd_status" PROVE InPlace'
  <2>1. pc \in {"rd_io", "rd_stamp", "rd_data"} => NoEcho /\ inbox # <<>> BY DEF InPlace, Meets
  <2>2. pc \in {"rd_io", "rd_stamp", "rd_data"} => NoEcho' BY <1>11, <2>1
  <2>3. CASE pc = "ready"
    <3>1. AtEcho /\ (op = "get" => ret = "POSITIVE" /\ AllRead) BY <2>3 DEF InPlace
    <3> QED BY <1>2, <1>10, <1>14, <2>3, <3>1 DEF InPlace
  <2>4. CASE pc # "ready"
    BY <1>2, <1>10, <1>12, <1>13, <1>14, <1>17, <2>2, <2>4 DEF InPlace
  <2> QED BY <2>3, <2>4
<1> QED BY <1>4, <1>16, <1>17

\* Every fault but a pulled cable loses something.
LEMMA OnlyBreaks ==
  ASSUME TypeOK, Environment, Lossless'
  PROVE  SensorReply \/ SensorScan \/ Break
<1>1. ~Garble /\ ~Lose
  BY DEF Garble, Lose, Fault, Lossless, TypeOK, WorldTypeOK
<1> QED BY <1>1 DEF Environment

\* The sensor, while a sample measures.
LEMMA ListenWorld ==
  ASSUME TypeOK, Listening, DownSilent, link # "closed", Environment, Lossless'
  PROVE  Listening' /\ DownSilent'
<1>1. Steady /\ InPlace BY DEF Listening
<1>2. CASE SensorReply
  <2> DEFINE c == Head(outbox)
  <2>1. /\ outbox # <<>> /\ outbox' = Tail(outbox) /\ HostUnchanged /\ UNCHANGED link
        /\ link = "up" /\ inbox' = inbox \o Answer(c) /\ sensor' = Obeyed(c)
    BY <1>2 DEF SensorReply, Delivered, DownSilent
  <2>2. outbox' = <<>> /\ c \in Command /\ c.name \in VerbsOf(OneScan)
    <3>1. outbox \in Seq(Command) /\ Len(outbox) = 1 /\ outbox[1].name \in VerbsOf(OneScan)
      BY <1>1, <2>1 DEF Steady, TypeOK, WorldTypeOK
    <3>2. Tail(outbox) = <<>> /\ Head(outbox) = outbox[1] /\ outbox[1] \in Command BY <2>1, <3>1
    <3> QED BY <2>1, <3>1, <3>2
  <2>3. OneScan \in BOOLEAN BY DEF OneScan
  <2>4. Message(OneScan, Answer(c)) BY <2>2, <2>3, OrderAnswer
  <2>5. OneScan => inbox = <<>>
    <3>1. AtEcho \/ NoEcho \/ ~OneScan BY <1>1 DEF InPlace, AllRead
    <3> QED BY <2>1, <3>1 DEF AtEcho, NoEcho
  <2>6. Grammar(OneScan, inbox)' /\ InPlace' BY <1>1, <2>1, <2>2, <2>4, <2>5, MessageComes
  <2>7. UNCHANGED <<is_sending, specified_scan_times>>
    BY <2>1 DEF HostUnchanged, flags, config
  <2>8. sensor'.mode = sensor.mode \/ (sensor'.mode = "measure" /\ ~OneScan)
    <3> HIDE DEF c
    <3>1. CASE Accepts(c.name)
      <4>1. sensor'.mode = ModeAfter(c.name) BY <2>1, <3>1 DEF Obeyed
      <4>2. OneScan => c.name \in Single BY <2>2 DEF VerbsOf
      <4>3. ~OneScan => c.name \in Continuous BY <2>2 DEF VerbsOf
      <4> QED BY <4>1, <4>2, <4>3 DEF ModeAfter, Single, Continuous
    <3>2. CASE ~Accepts(c.name)
      <4>1. sensor' = [sensor EXCEPT !.rb = FALSE] BY <2>1, <3>2 DEF Obeyed
      <4> QED BY <4>1 DEF TypeOK, WorldTypeOK
    <3> QED BY <3>1, <3>2
  <2>9. is_sending /\ is_sending' /\ OneScan' = OneScan
    BY <1>1, <2>1, <2>7 DEF Steady, Quiet, OneScan, TypeOK, HostTypeOK
  <2>10. Steady' BY <1>1, <2>2, <2>6, <2>8, <2>9 DEF Steady
  <2> QED BY <2>2, <2>6, <2>10 DEF Listening, DownSilent
<1>3. CASE SensorScan
  <2>1. /\ sensor.mode = "measure" /\ HostUnchanged /\ UNCHANGED <<outbox, link>>
        /\ inbox' = inbox \o ScanLines(sensor.scan, "99", sensor.gen)
    BY <1>3 DEF SensorScan
  <2>2. sensor'.mode \in {"idle", "measure"}
    BY <1>3, <2>1 DEF SensorScan, TypeOK, WorldTypeOK
  <2>3. is_sending /\ ~OneScan BY <1>1, <2>1 DEF Steady
  <2>4. sensor.scan \in VerbsOf(FALSE) /\ sensor.gen \in Nat /\ Success(FALSE) = "99"
    BY DEF TypeOK, WorldTypeOK, VerbsOf, Success
  <2>5. Message(FALSE, ScanLines(sensor.scan, "99", sensor.gen)) BY <2>4, ScanMessage
  <2>6. OneScan = FALSE BY <2>3 DEF OneScan
  <2>7. Message(OneScan, ScanLines(sensor.scan, "99", sensor.gen)) BY <2>5, <2>6
  <2>8. Grammar(OneScan, inbox)' /\ InPlace' BY <1>1, <2>1, <2>3, <2>7, MessageComes
  <2>9. UNCHANGED <<is_sending, specified_scan_times>> /\ OneScan' = OneScan
    BY <2>1 DEF HostUnchanged, flags, config, OneScan
  <2>10. Steady' BY <1>1, <2>1, <2>2, <2>3, <2>8, <2>9 DEF Steady
  <2> QED BY <2>1, <2>8, <2>10 DEF Listening, DownSilent
<1>4. CASE Break
  <2>1. outbox' = <<>> /\ UNCHANGED <<inbox, sensor>> /\ HostUnchanged BY <1>4 DEF Break, Fault
  <2>2. UNCHANGED <<pc, op, ret, rcv, is_sending, specified_scan_times>> /\ OneScan' = OneScan
    BY <2>1 DEF HostUnchanged, host, flags, config, OneScan
  <2>3. Grammar(OneScan, inbox)' = Grammar(OneScan, inbox)
    BY <2>1, <2>2 DEF Grammar, Follows, Headed, Success
  <2>4. Steady' BY <1>1, <2>1, <2>2, <2>3 DEF Steady, Quiet
  <2>5. /\ AtEcho => AtEcho'
        /\ NoEcho => NoEcho'
        /\ AllRead => AllRead'
        /\ Started_ => Started_'
    BY <2>1, <2>2 DEF AtEcho, NoEcho, AllRead, Quiet, Started_
  <2>6. \A k : Meets(k) => Meets(k)' BY <2>1 DEF Meets
  <2>7. /\ Headed(OneScan, rcv.type, inbox[1], inbox[2])' = Headed(OneScan, rcv.type, inbox[1], inbox[2])
        /\ Len(inbox)' = Len(inbox)
    BY <2>1, <2>2 DEF Headed
  <2>8. InPlace' BY <1>1, <2>2, <2>5, <2>6, <2>7 DEF InPlace
  <2> QED BY <2>1, <2>4, <2>8 DEF Listening, DownSilent
<1> QED BY <1>2, <1>3, <1>4, OnlyBreaks

(***************************************************************************)
(* The exchanges of a sample.                                              *)
(***************************************************************************)
\* The order is on its way, or its answer as far as it was not read.
Question == <<[name |-> xchg.cmd, times |-> 0, gen |-> 0]>>
Extra    == {Plain("stamp"), Plain("info")}
Replied(line, c, s, x) ==
  \/ line = 0 /\ inbox \in {<<>>, <<Echo(c), Status(s), Blank>>, <<Echo(c), Status(s), x, Blank>>}
  \/ line = 1 /\ inbox \in {<<Status(s), Blank>>, <<Status(s), x, Blank>>}
  \/ line = 2 /\ inbox \in {<<Blank>>, <<x, Blank>>}
Replying ==
  \/ outbox = Question /\ inbox = <<>> /\ xchg.line = 0
  \/ outbox = <<>> /\ \E s \in LineVals, x \in Extra : Replied(xchg.line, xchg.cmd, s, x)

Exchanging ==
  /\ op \in DOMAIN OrderOf
  /\ op = "start" <=> is_sending
  /\ op = "start" => OneScan
  /\ sensor.mode \notin {"measure", "sleep"}
  /\ \/ pc = "xchg" /\ xchg.cmd = OrderOf[op] /\ Replying
     \/ pc = "xchg_done" /\ Quiet
     \/ pc = "send_single" /\ op = "start" /\ Quiet

LEMMA OrderNames ==
  /\ DOMAIN OrderOf = {"start"} \cup Asks
  /\ \A o \in DOMAIN OrderOf : OrderOf[o] \in {"BM", "VV", "RB", "TM0", "TM1", "TM2"}
  /\ OrderOf["reboot"] = "RB" /\ OrderOf["start"] = "BM" /\ OrderOf["tm_start"] = "TM0"
  /\ OrderOf["time_stamp"] = "TM1" /\ OrderOf["tm_stop"] = "TM2"
BY DEF OrderOf, Asks

\* A line of the answer is read.
LEMMA AnswerRead ==
  ASSUME TypeOK, late' = 0, DownSilent, link # "closed", Replying, ScipResponse
  PROVE  \/ UNCHANGED <<pc, outbox>> /\ xchg'.cmd = xchg.cmd /\ Replying'
         \/ pc' = "xchg_done" /\ Quiet'
<1>1. PICK l \in Incoming :
        /\ Reads(l)
        /\ IF Rejection(l) # "NO_ERROR"
           THEN pc' = "xchg_done" /\ UNCHANGED xchg
           ELSE IF Empty(l)
                THEN pc' = "xchg_done" /\ UNCHANGED xchg
                ELSE /\ xchg' = [xchg EXCEPT
                             !.line = IF @ < 2 THEN @ + 1 ELSE @,
                             !.ok   = @ \/ (xchg.line = 1 /\ l.val \in Expected(xchg.cmd)),
                             !.body = @ \/ xchg.line = 2]
                     /\ UNCHANGED pc
  BY DEF ScipResponse
<1>2. UNCHANGED <<outbox, link>> BY DEF ScipResponse
<1>3. xchg.line \in 0 .. 2 /\ xchg.cmd \in CommandNames BY DEF TypeOK, HostTypeOK
<1>4. ASSUME Rejection(l) = "NO_ERROR", ~Empty(l)
      PROVE  /\ UNCHANGED pc /\ xchg'.cmd = xchg.cmd
             /\ xchg'.line = IF xchg.line < 2 THEN xchg.line + 1 ELSE xchg.line
  BY <1>1, <1>4 DEF TypeOK, HostTypeOK
<1>5. CASE outbox = Question /\ inbox = <<>>
  <2>1. link = "up" BY <1>5 DEF DownSilent, Question, TypeOK, WorldTypeOK
  <2>2. ~Silent BY <1>5, <2>1 DEF Silent, Question
  <2> QED BY <1>1, <1>5, <2>2, ReadOne
<1>6. CASE outbox = <<>> /\ \E s \in LineVals, x \in Extra : Replied(xchg.line, xchg.cmd, s, x)
  <2>1. PICK s \in LineVals, x \in Extra : Replied(xchg.line, xchg.cmd, s, x) BY <1>6
  <2> DEFINE e == Echo(xchg.cmd)  t == Status(s)  b == Blank
  <2>2. /\ e \in WireLine /\ t \in WireLine /\ b \in WireLine /\ x \in WireLine
        /\ ~Empty(e) /\ ~Empty(t) /\ Empty(b) /\ ~Empty(x)
        /\ t.good /\ t.kind = "status" /\ x.good
    <3>1. e \in WireLine /\ t \in WireLine /\ b \in WireLine BY <1>3, AnswerWireLines
    <3>2. x \in WireLine /\ ~Empty(x) /\ x.good BY AnswerWireLines DEF Extra
    <3> QED BY <3>1, <3>2 DEF Empty, Echo, Status, Blank, Plain
  <2>3. e = Echo(xchg.cmd) /\ t = Status(s) /\ b = Blank OBVIOUS
  <2> HIDE DEF e, t, b
  <2>4. CASE inbox = <<>>
    <3>1. l = Timeout /\ inbox' = <<>> BY <1>1, <2>4, ReadOne
    <3>2. Rejection(l) = "NO_RESPONSE" BY <3>1 DEF Rejection, Failed
    <3> QED BY <1>1, <1>2, <1>6, <3>1, <3>2 DEF Quiet
  <2>5. ASSUME inbox # <<>> PROVE l = inbox[1] /\ ~Failed(l) /\ inbox' = Tail(inbox)
    BY <1>1, <2>5, ReadOne DEF Silent, Failed
  <2>6. CASE xchg.line = 0 /\ inbox \in {<<e, t, b>>, <<e, t, x, b>>}
    <3>1. inbox # <<>> /\ inbox[1] = e /\ Tail(inbox) \in {<<t, b>>, <<t, x, b>>}
      <4>1. <<e, t, b>> # <<>> /\ <<e, t, b>>[1] = e /\ Tail(<<e, t, b>>) = <<t, b>>
        BY <2>2, AnswerTails
      <4>2. <<e, t, x, b>> # <<>> /\ <<e, t, x, b>>[1] = e /\ Tail(<<e, t, x, b>>) = <<t, x, b>>
        BY <2>2, AnswerTails
      <4> QED BY <2>6, <4>1, <4>2, Zenon
    <3>2. l = e /\ ~Failed(l) /\ inbox' \in {<<t, b>>, <<t, x, b>>} BY <2>5, <3>1
    <3>3. Rejection(l) = "NO_ERROR" BY <2>3, <2>6, <3>2 DEF Rejection
    <3>4. UNCHANGED pc /\ xchg'.cmd = xchg.cmd /\ xchg'.line = 1
      BY <1>4, <2>2, <2>6, <3>2, <3>3
    <3>5. Replied(xchg.line, xchg.cmd, s, x)' BY <2>3, <3>2, <3>4 DEF Replied
    <3> QED BY <1>2, <1>6, <3>4, <3>5 DEF Replying
  <2>7. CASE xchg.line = 1 /\ inbox \in {<<t, b>>, <<t, x, b>>}
    <3>1. inbox # <<>> /\ inbox[1] = t /\ Tail(inbox) \in {<<b>>, <<x, b>>}
      <4>1. <<t, b>> # <<>> /\ <<t, b>>[1] = t /\ Tail(<<t, b>>) = <<b>>
        BY <2>2, AnswerTails
      <4>2. <<t, x, b>> # <<>> /\ <<t, x, b>>[1] = t /\ Tail(<<t, x, b>>) = <<x, b>>
        BY <2>2, AnswerTails
      <4> QED BY <2>7, <4>1, <4>2, Zenon
    <3>2. l = t /\ ~Failed(l) /\ inbox' \in {<<b>>, <<x, b>>} BY <2>5, <3>1
    <3>3. Rejection(l) = "NO_ERROR" BY <2>2, <2>7, <3>2 DEF Rejection
    <3>4. UNCHANGED pc /\ xchg'.cmd = xchg.cmd /\ xchg'.line = 2
      BY <1>4, <2>2, <2>7, <3>2, <3>3
    <3>5. Replied(xchg.line, xchg.cmd, s, x)' BY <2>3, <3>2, <3>4 DEF Replied
    <3> QED BY <1>2, <1>6, <3>4, <3>5 DEF Replying
  <2>8. CASE xchg.line = 2 /\ inbox = <<x, b>>
    <3>1. inbox # <<>> /\ inbox[1] = x /\ Tail(inbox) = <<b>>
      BY <2>2, <2>8, AnswerTails
    <3>2. l = x /\ ~Failed(l) /\ inbox' = <<b>> BY <2>5, <3>1
    <3>3. Rejection(l) = "NO_ERROR" BY <2>2, <2>8, <3>2 DEF Rejection
    <3>4. UNCHANGED pc /\ xchg'.cmd = xchg.cmd /\ xchg'.line = 2
      BY <1>4, <2>2, <2>8, <3>2, <3>3
    <3>5. Replied(xchg.line, xchg.cmd, s, x)' BY <2>3, <3>2, <3>4 DEF Replied
    <3> QED BY <1>2, <1>6, <3>4, <3>5 DEF Replying
  <2>9. CASE xchg.line = 2 /\ inbox = <<b>>
    <3>1. inbox # <<>> /\ inbox[1] = b /\ Tail(inbox) = <<>>
      BY <2>2, <2>9, AnswerTails
    <3>2. l = b /\ inbox' = <<>> BY <2>5, <3>1
    <3> QED BY <1>1, <1>2, <1>6, <2>2, <3>2 DEF Quiet
  <2> QED BY <2>1, <2>3, <2>4, <2>6, <2>7, <2>8, <2>9 DEF Replied
<1> QED BY <1>5, <1>6 DEF Replying

\* Nothing under way, a sample is as ready to measure as to ask.
LEMMA QuietListens ==
  ASSUME Quiet', pc' = "ready", op' # "get", sensor'.mode \notin {"measure", "sleep"}
  PROVE  Listening'
<1>1. Len(inbox') = 0 BY DEF Quiet
<1>2. Steady' BY <1>1 DEF Steady, Grammar, Quiet
<1>3. AtEcho' BY <1>1 DEF AtEcho, Quiet
<1> QED BY <1>2, <1>3 DEF Listening, InPlace

\* The library, while it asks.
LEMMA AskOn ==
  ASSUME TypeOK, late' = 0, Exchanging, DownSilent, link # "closed", is_active, Host
  PROVE  \/ is_active' /\ (Exchanging' \/ Listening')
         \/ ~is_active' /\ pc' = "ready" /\ op' # "get"
<1>0. op # "get" /\ op \in {"start"} \cup Asks BY OrderNames DEF Exchanging, Asks
<1>1. CASE pc = "xchg"
  <2>1. ScipResponse /\ Replying /\ xchg.cmd = OrderOf[op] BY <1>1, HostReads DEF Exchanging
  <2>2. UNCHANGED <<op, sensor, is_active, is_sending, specified_scan_times>>
    BY <2>1 DEF ScipResponse, flags, config
  <2>3. \/ UNCHANGED <<pc, outbox>> /\ xchg'.cmd = xchg.cmd /\ Replying'
        \/ pc' = "xchg_done" /\ Quiet'
    BY <2>1, AnswerRead
  <2>4. Exchanging' BY <1>1, <2>1, <2>2, <2>3 DEF Exchanging, OneScan
  <2> QED BY <2>2, <2>4
<1>2. CASE pc = "send_single"
  <2>1. SendSingle /\ op = "start" /\ Quiet /\ OneScan /\ is_sending
    BY <1>2, HostReads DEF Exchanging
  <2>2. /\ UNCHANGED <<op, sensor, is_active, is_sending, specified_scan_times, inbox>> /\ pc' = "ready"
        /\ outbox' = Sent(IF rcv.type = "distance_io" THEN "GF" ELSE "GD", 1, gen)
    BY <2>1 DEF SendSingle, flags, config, host, Returns, Fails
  <2>3. CASE link = "up"
    <3> DEFINE o == [name |-> IF rcv.type = "distance_io" THEN "GF" ELSE "GD", times |-> 1, gen |-> gen]
    <3>1. o.name \in Single /\ outbox' = Append(<<>>, o)
      BY <2>1, <2>2, <2>3 DEF Sent, Single, Quiet
    <3> HIDE DEF o
    <3>2. Len(outbox') = 1 /\ outbox'[1] = o BY <3>1
    <3>3. OneScan' = TRUE /\ inbox' = <<>> BY <2>1, <2>2 DEF OneScan, Quiet
    <3>4. Steady'
      <4>1. Len(inbox') = 0 BY <3>3
      <4>2. Grammar(OneScan, inbox)' BY <4>1 DEF Grammar
      <4>3. outbox'[1].name \in VerbsOf(OneScan') BY <3>1, <3>2, <3>3 DEF VerbsOf
      <4> QED BY <2>1, <2>2, <3>2, <4>2, <4>3 DEF Steady, Exchanging
    <3>5. AtEcho'
      <4>1. \A i \in 2 .. Len(inbox') : FALSE BY <3>3
      <4> QED BY <3>3, <4>1 DEF AtEcho
    <3> QED BY <1>0, <2>2, <3>4, <3>5 DEF Listening, InPlace
  <2>4. CASE link # "up"
    <3>1. Quiet' BY <2>1, <2>2, <2>4 DEF Sent, Quiet
    <3> QED BY <1>0, <2>2, <3>1, QuietListens DEF Exchanging
  <2> QED BY <2>3, <2>4
<1>3. CASE pc = "xchg_done"
  <2>1. Answers_ /\ Quiet BY <1>3, HostReads DEF Exchanging
  <2>2. UNCHANGED <<op, sensor, is_sending, specified_scan_times>>
    BY <2>1 DEF Answers_, LaserOnDone, TimeStampModeDone, TimeStampDone, InfoDone, SleepDone,
                RebootDone, AfterAnswer, flags, config, budgets
  <2>3. CASE LaserOnDone
    <3>1. /\ op = "start" /\ pc' = "send_single" /\ UNCHANGED <<is_active, inbox, outbox>>
      BY <1>0, <2>3 DEF LaserOnDone, Answered, Asks
    <3> QED BY <2>1, <2>2, <3>1 DEF Exchanging, Quiet, OneScan
  <2>4. CASE TimeStampModeDone \/ TimeStampDone \/ InfoDone \/ SleepDone
    <3>1. pc' = "ready" /\ UNCHANGED <<is_active, inbox, outbox>>
      BY <2>4 DEF TimeStampModeDone, TimeStampDone, InfoDone, SleepDone, Returns, Fails, flags
    <3>2. Quiet' BY <2>1, <3>1 DEF Quiet
    <3> QED BY <1>0, <2>2, <3>1, <3>2, QuietListens DEF Exchanging
  <2>5. CASE RebootDone
    <3>1. op = "reboot" BY <2>5 DEF RebootDone, Answered
    <3>2. \/ pc' = "ready" /\ UNCHANGED <<is_active, inbox, outbox>>
          \/ Exchange("RB", 2) /\ UNCHANGED <<is_active, inbox>>
          \/ is_active' = FALSE /\ pc' = "ready"
      <4>1. xchg.round \in {1, 2} BY DEF TypeOK, HostTypeOK
      <4> QED BY <2>5, <4>1 DEF RebootDone, Returns, Fails, ConnectionClose
    <3>3. CASE pc' = "ready" /\ UNCHANGED <<is_active, inbox, outbox>>
      <4>1. Quiet' BY <2>1, <3>3 DEF Quiet
      <4> QED BY <1>0, <2>2, <3>3, <4>1, QuietListens DEF Exchanging
    <3>4. CASE Exchange("RB", 2) /\ UNCHANGED <<is_active, inbox>>
      <4>1. xchg'.cmd = "RB" /\ xchg'.line = 0 BY <3>4 DEF Exchange
      <4>2. CASE link = "up"
        <5>1. pc' = "xchg" /\ outbox' = Append(outbox, [name |-> "RB", times |-> 0, gen |-> 0])
          BY <3>4, <4>2 DEF Exchange, Writes, Sent
        <5>2. outbox' = Question' /\ inbox' = <<>>
          BY <2>1, <3>4, <4>1, <5>1 DEF Question, Quiet
        <5>3. Replying' BY <4>1, <5>2 DEF Replying
        <5>4. xchg'.cmd = OrderOf[op'] BY <2>2, <3>1, <4>1, OrderNames
        <5> QED BY <2>2, <3>4, <5>1, <5>3, <5>4 DEF Exchanging, OneScan
      <4>3. CASE link # "up"
        <5>1. pc' = "xchg_done" /\ UNCHANGED outbox BY <3>4, <4>3 DEF Exchange, Writes, Sent
        <5> QED BY <2>1, <2>2, <3>4, <5>1 DEF Exchanging, Quiet, OneScan
      <4> QED BY <4>2, <4>3
    <3> QED BY <1>0, <2>2, <3>2, <3>3, <3>4
  <2> QED BY <2>1, <2>3, <2>4, <2>5 DEF Answers_
<1> QED BY <1>1, <1>2, <1>3 DEF Exchanging

\* The sensor, while it is asked.
LEMMA AskWorld ==
  ASSUME TypeOK, Exchanging, DownSilent, link # "closed", Environment, Lossless'
  PROVE  Exchanging' /\ DownSilent'
<1>0. HostUnchanged BY DEF Environment, SensorReply, SensorScan, Garble, Lose, Break, Fault
<1>1. UNCHANGED <<pc, op, is_sending, specified_scan_times, xchg>>
  BY <1>0 DEF HostUnchanged, flags, config, host
<1>2. ~SensorScan BY DEF SensorScan, Exchanging
<1>3. CASE SensorReply
  <2>1. /\ pc = "xchg" /\ xchg.cmd = OrderOf[op] /\ outbox = Question /\ inbox = <<>>
        /\ xchg.line = 0
    BY <1>3 DEF SensorReply, Exchanging, Replying, Quiet
  <2> DEFINE c == [name |-> xchg.cmd, times |-> 0, gen |-> 0]
  <2>2. c.name = xchg.cmd /\ c \in Command /\ outbox = <<c>>
    BY <2>1 DEF Command, Question, TypeOK, HostTypeOK
  <2>3. xchg.cmd \in {"BM", "VV", "RB", "TM0", "TM1", "TM2"} BY <2>1, OrderNames DEF Exchanging
  <2> HIDE DEF c
  <2>4. c.name \notin Single BY <2>2, <2>3 DEF Single
  <2>5. PICK s \in LineVals, x \in Extra :
          Answer(c) \in {<<Echo(c.name), Status(s), Blank>>,
                         <<Echo(c.name), Status(s), x, Blank>>}
    BY <2>2, <2>4, AnswerLines DEF Extra
  <2>6. Head(outbox) = c /\ Tail(outbox) = <<>> BY <2>2
  <2>7. link = "up" BY <2>1 DEF DownSilent, Question, TypeOK, WorldTypeOK
  <2>8. /\ outbox' = <<>> /\ inbox' = <<>> \o Answer(c) /\ sensor' = Obeyed(c) /\ UNCHANGED link
    BY <1>3, <2>1, <2>6, <2>7 DEF SensorReply, Delivered
  <2>9. inbox' = Answer(c)
    <3>1. /\ Echo(c.name) \in WireLine /\ Status(s) \in WireLine /\ Blank \in WireLine
          /\ x \in WireLine
      <4>1. xchg.cmd \in CommandNames BY DEF TypeOK, HostTypeOK
      <4> QED BY <2>2, <4>1, AnswerWireLines DEF Extra
    <3> DEFINE e == Echo(c.name)  t == Status(s)  b == Blank
    <3>2. <<e, t, b>> \in Seq(WireLine) /\ <<e, t, x, b>> \in Seq(WireLine)
      <4> HIDE DEF e, t, b
      <4>1. e \in WireLine /\ t \in WireLine /\ b \in WireLine BY <3>1 DEF e, t, b
      <4> QED BY <3>1, <4>1
    <3>3. Answer(c) \in Seq(WireLine) BY <2>5, <3>2, Zenon
    <3>4. <<>> \o Answer(c) = Answer(c) BY <3>3, ConcatEmptySeq
    <3> QED BY <2>8, <3>4
  <2>10. Replied(xchg.line, xchg.cmd, s, x)'
    BY <1>1, <2>1, <2>2, <2>5, <2>9, Zenon DEF Replied
  <2>11. Replying' BY <2>8, <2>10 DEF Replying
  <2>12. sensor'.mode \notin {"measure", "sleep"}
    <3>1. sensor.mode \notin {"measure", "sleep"} BY DEF Exchanging
    <3>2. CASE Accepts(c.name)
      <4>1. sensor'.mode = ModeAfter(c.name) BY <2>8, <3>2 DEF Obeyed
      <4> QED BY <2>2, <2>3, <3>1, <4>1 DEF ModeAfter, Continuous
    <3>3. CASE ~Accepts(c.name)
      <4>1. sensor' = [sensor EXCEPT !.rb = FALSE] BY <2>8, <3>3 DEF Obeyed
      <4> QED BY <3>1, <4>1 DEF TypeOK, WorldTypeOK
    <3> QED BY <3>2, <3>3
  <2> QED BY <1>1, <2>1, <2>8, <2>11, <2>12 DEF Exchanging, OneScan, DownSilent
<1>4. CASE Break
  <2>1. outbox' = <<>> /\ UNCHANGED <<inbox, sensor>> BY <1>4 DEF Break, Fault
  <2>2. Quiet => Quiet' BY <2>1 DEF Quiet
  <2>3. Replying => Replying'
    <3>1. CASE outbox = Question /\ inbox = <<>> /\ xchg.line = 0
      <4>1. "00" \in LineVals /\ Plain("stamp") \in Extra BY DEF LineVals, Extra
      <4>2. Replied(xchg.line, xchg.cmd, "00", Plain("stamp"))'
        BY <1>1, <2>1, <3>1 DEF Replied
      <4> QED BY <2>1, <4>1, <4>2 DEF Replying
    <3>2. CASE outbox = <<>> /\ \E s \in LineVals, x \in Extra : Replied(xchg.line, xchg.cmd, s, x)
      BY <1>1, <2>1, <3>2 DEF Replying, Replied
    <3> QED BY <3>1, <3>2 DEF Replying
  <2> QED BY <1>1, <2>1, <2>2, <2>3 DEF Exchanging, OneScan, DownSilent
<1> QED BY <1>2, <1>3, <1>4, OnlyBreaks

(***************************************************************************)
(* What they talk about, always: nothing but the call in progress.         *)
(***************************************************************************)
Talking == DownSilent /\ (\/ op = "close" /\ Leaving
                          \/ Failing \/ Listening \/ Exchanging)
Talk == IF is_active THEN Talking ELSE pc = "ready" /\ (op = "get" => ret \in Errors)

\* Nothing was lost but the cable may have been pulled, and no answer came too late.
Undisturbed == Lossless /\ late = 0

TalkInv == program # "caller" /\ Undisturbed => Talk

\* The library goes on.
LEMMA HostTalks ==
  ASSUME TypeOK, late' = 0, LaserInv, Tame, Talk, Host
  PROVE  Talk'
<1>1. pc # "ready" BY HostInCall
<1>2. is_active /\ Talking /\ link # "closed" BY <1>1 DEF Talk, LaserInv, ClosedOK
<1>3. DownSilent' /\ UNCHANGED op BY <1>2, DownStays, HostMoves DEF Talking, Moves
<1>4. frames = <<>> /\ specified_scan_times \in {0, 1} BY DEF Tame
<1>5. CASE op = "close" /\ Leaving
  <2>1. is_active' => Leaving' BY <1>5, HostTame
  <2>2. ~is_active' => pc' = "ready"
    <3>1. CASE pc = "close"
      <4>1. CloseDone BY <3>1, HostReads
      <4> QED BY <4>1 DEF CloseDone, Returns
    <3>2. CASE pc = "drain"
      <4>1. Drain BY <3>2, HostReads
      <4> QED BY <1>2, <4>1 DEF Drain
    <3> QED BY <1>5, <3>1, <3>2 DEF Leaving
  <2> QED BY <1>3, <1>5, <2>1, <2>2 DEF Talk, Talking
<1>6. ASSUME op = "get", pc \notin {"close", "xchg_done"} PROVE is_active'
  <2>1. ~CloseDone /\ ~RebootDone BY <1>6 DEF CloseDone, RebootDone, Answered
  <2> QED BY <1>2, <2>1, HostActive
<1>7. CASE Failing
  <2>1. Failing' BY <1>4, <1>7, FailOn
  <2>2. is_active' BY <1>6, <1>7 DEF Failing
  <2> QED BY <1>3, <2>1, <2>2 DEF Talk, Talking
<1>8. CASE Listening
  <2>1. Listening' \/ Failing' BY <1>4, <1>8, ListenOn
  <2>2. is_active' BY <1>1, <1>6, <1>8 DEF Listening, InPlace
  <2> QED BY <1>3, <2>1, <2>2 DEF Talk, Talking
<1>9. CASE Exchanging
  <2>1. \/ is_active' /\ (Exchanging' \/ Listening')
        \/ ~is_active' /\ pc' = "ready" /\ op' # "get"
    BY <1>2, <1>9, AskOn DEF Talking
  <2> QED BY <1>3, <2>1 DEF Talk, Talking
<1> QED BY <1>2, <1>5, <1>7, <1>8, <1>9 DEF Talking

\* The sensor answers, the cable is pulled.
LEMMA WorldTalks ==
  ASSUME TypeOK, LaserInv, Talk, Environment, Lossless'
  PROVE  Talk'
<1>1. UNCHANGED <<is_active, op, pc, ret, after>>
  BY DEF Environment, SensorReply, SensorScan, Garble, Lose, Break, Fault, HostUnchanged, flags, host
<1>2. CASE ~is_active BY <1>1, <1>2 DEF Talk
<1>3. CASE is_active
  <2>1. Talking /\ link # "closed" BY <1>3 DEF Talk, LaserInv, ClosedOK
  <2>2. CASE (op = "close" /\ Leaving) \/ Failing
    <3>1. (op' = "close" /\ Leaving') \/ Failing' BY <1>1, <2>2 DEF Leaving, Failing
    <3>2. DownSilent'
      <4>1. CASE SensorReply \/ SensorScan
        <5>1. UNCHANGED link /\ link # "down" BY <2>1, <4>1 DEF SensorReply, SensorScan, Talking, DownSilent
        <5> QED BY <5>1 DEF DownSilent
      <4>2. CASE Break BY <4>2 DEF Break, DownSilent
      <4> QED BY <4>1, <4>2, OnlyBreaks
    <3> QED BY <1>1, <1>3, <3>1, <3>2 DEF Talk, Talking
  <2>3. CASE Listening
    <3>1. Listening' /\ DownSilent' BY <2>1, <2>3, ListenWorld DEF Talking
    <3> QED BY <1>1, <1>3, <3>1 DEF Talk, Talking
  <2>4. CASE Exchanging
    <3>1. Exchanging' /\ DownSilent' BY <2>1, <2>4, AskWorld DEF Talking
    <3> QED BY <1>1, <1>3, <3>1 DEF Talk, Talking
  <2> QED BY <2>1, <2>2, <2>3, <2>4 DEF Talking
<1> QED BY <1>2, <1>3

\* What was late stays late.
LEMMA LateBefore ==
  ASSUME TypeOK, SessionStep, late' = 0
  PROVE  late = 0
<1>1. ASSUME NEW l \in Incoming, Reads(l) PROVE late = 0
  BY <1>1 DEF Reads, TypeOK, WorldTypeOK
<1>2. CASE UNCHANGED late BY <1>2
<1>3. CASE UNCHANGED vars BY <1>2, <1>3 DEF vars, budgets
<1>4. CASE CallBegins
  BY <1>2, <1>4 DEF CallBegins, Application, NotConnected, StartRejected, Start, Get, Stop, Ask,
                    LaserOn, Close, Call, budgets
<1>5. CASE Host
  <2>1. CASE SendSingle \/ CloseDone \/ ScipResponse \/ StopDone
    BY <1>1, <1>2, <2>1 DEF SendSingle, CloseDone, ScipResponse, StopDone, budgets
  <2>2. CASE LaserOnDone \/ TimeStampModeDone \/ TimeStampDone \/ InfoDone \/ SleepDone \/ RebootDone
    BY <1>2, <2>2 DEF LaserOnDone, TimeStampModeDone, TimeStampDone, InfoDone, SleepDone,
       RebootDone, AfterAnswer, budgets
  <2>3. CASE RdEcho \/ RdStatus \/ RdQt \/ RdAck \/ RdIo \/ RdStamp
    BY <1>1, <1>2, <2>3 DEF RdEcho, RdStatus, RdQt, RdAck, RdIo, RdStamp
  <2>4. CASE RdData \/ RdCount \/ GetDone \/ StopLoop \/ Drain
    BY <1>1, <1>2, <2>4 DEF RdData, RdCount, GetDone, StopLoop, Drain
  <2> QED BY <1>5, <2>1, <2>2, <2>3, <2>4 DEF Host
<1>6. CASE Environment
  BY <1>2, <1>6 DEF Environment, SensorReply, SensorScan, Garble, Lose, Break, Fault, budgets
<1>7. CASE Mismatch \/ \E d \in Devices : Open(d)
  BY <1>2, <1>7 DEF Mismatch, Open, urg_open, budgets
<1> QED BY <1>3, <1>4, <1>5, <1>6, <1>7 DEF SessionStep

\* What was lost stays lost.
LEMMA LosslessBefore ==
  ASSUME TypeOK, SessionStep, Lossless'
  PROVE  Lossless
<1>1. CASE UNCHANGED <<link, faults>> BY <1>1 DEF Lossless
<1>2. CASE UNCHANGED vars BY <1>1, <1>2 DEF vars, budgets
<1>3. CASE CallBegins
  <2>1. UNCHANGED link BY <1>3, CallActive DEF CallBegins
  <2>2. UNCHANGED faults
    BY <1>3 DEF CallBegins, Application, NotConnected, StartRejected, Start, Get, Stop, Ask,
                LaserOn, Close, Call, budgets
  <2> QED BY <1>1, <2>1, <2>2
<1>4. CASE Host
  <2>1. UNCHANGED faults /\ (UNCHANGED link \/ link' = "closed") BY <1>4, HostMoves DEF Moves
  <2> QED BY <2>1 DEF Lossless
<1>5. CASE Environment
  <2>1. UNCHANGED faults \/ faults' = faults + 1
    BY <1>5 DEF Environment, SensorReply, SensorScan, Garble, Lose, Break, Fault, budgets
  <2>2. UNCHANGED link \/ faults' = faults + 1
    BY <1>5 DEF Environment, SensorReply, SensorScan, Garble, Lose, Break, Fault
  <2> QED BY <2>1, <2>2 DEF Lossless, TypeOK, WorldTypeOK
<1>6. CASE Mismatch BY <1>1, <1>6 DEF Mismatch, budgets
<1>7. CASE \E d \in Devices : Open(d)
  <2>1. link # "down" /\ UNCHANGED faults /\ (UNCHANGED link \/ link' = "up")
    BY <1>7 DEF Open, urg_open, budgets
  <2> QED BY <2>1 DEF Lossless
<1> QED BY <1>2, <1>3, <1>4, <1>5, <1>6, <1>7 DEF SessionStep

\* A session that is opened is quiet.
LEMMA OpenTalks == ASSUME NEW d \in Devices, Open(d) PROVE Talk'
<1>1. PICK succeeds \in BOOLEAN : urg_open(d, succeeds) BY DEF Open
<1>2. /\ is_active' = succeeds /\ op' = "open" /\ pc' = "ready" /\ inbox' = <<>>
      /\ succeeds => link' = "up" /\ outbox' = <<>> /\ sensor'.mode = "idle"
  BY <1>1 DEF urg_open
<1>3. CASE succeeds
  <2>1. Listening' BY <1>2, <1>3, QuietListens DEF Quiet
  <2> QED BY <1>2, <1>3, <2>1 DEF Talk, Talking, DownSilent
<1>4. CASE ~succeeds BY <1>2, <1>4 DEF Talk
<1> QED BY <1>3, <1>4

\* When the sample asks, a measurement is not running.
LEMMA AskTalks ==
  ASSUME TypeOK, LaserInv, NEW o \in Asks, Calling(o),
         is_active => Listening /\ DownSilent /\ ~is_sending
  PROVE  Talk'
<1>1. /\ op' = o /\ o # "get" /\ o # "start"
      /\ UNCHANGED <<is_active, is_sending, inbox, link, sensor>>
      /\ \/ is_active /\ Ask(o, OrderOf[o])
         \/ ~is_active /\ pc' = "ready"
  BY AskParts DEF Asks
<1>2. CASE ~is_active BY <1>1, <1>2 DEF Talk
<1>3. CASE is_active
  <2>1. /\ Quiet /\ sensor.mode \notin {"measure", "sleep"} /\ DownSilent
    BY <1>3 DEF Listening, Steady
  <2>2. Exchange(OrderOf[o], 1) BY <1>1, <1>3 DEF Ask
  <2>3. xchg'.cmd = OrderOf[o] /\ xchg'.line = 0 BY <2>2 DEF Exchange
  <2>4. o \in DOMAIN OrderOf BY OrderNames
  <2>5. CASE link = "up"
    <3>1. pc' = "xchg" /\ outbox' = Append(<<>>, [name |-> OrderOf[o], times |-> 0, gen |-> 0])
      BY <2>1, <2>2, <2>5 DEF Exchange, Writes, Sent, Quiet
    <3>2. outbox' = Question' /\ inbox' = <<>> BY <1>1, <2>1, <2>3, <3>1 DEF Question, Quiet
    <3>3. Replying' BY <2>3, <3>2 DEF Replying
    <3>4. Exchanging' BY <1>1, <1>3, <2>1, <2>3, <2>4, <3>1, <3>3 DEF Exchanging
    <3> QED BY <1>1, <1>3, <2>5, <3>4 DEF Talk, Talking, DownSilent
  <2>6. CASE link # "up"
    <3>1. pc' = "xchg_done" /\ UNCHANGED outbox BY <2>2, <2>6 DEF Exchange, Writes, Sent
    <3>2. Exchanging' BY <1>1, <1>3, <2>1, <2>4, <3>1 DEF Exchanging, Quiet
    <3> QED BY <1>1, <1>3, <2>1, <3>1, <3>2 DEF Talk, Talking, DownSilent
  <2> QED BY <2>5, <2>6
<1> QED BY <1>2, <1>3

\* When it gets a scan, only scans can come.
LEMMA GetTalks ==
  ASSUME TypeOK, Calling("get"), pc = "ready", is_active => Listening /\ DownSilent
  PROVE  Talk'
<1>1. /\ op' = "get"
      /\ UNCHANGED <<is_active, is_sending, specified_scan_times, inbox, outbox, link, sensor>>
      /\ \/ is_active /\ pc' = "rd_echo" /\ rcv'.points = 0
         \/ ~is_active /\ pc' = "ready" /\ ret' = "NOT_CONNECTED"
  BY GetParts
<1>2. CASE ~is_active BY <1>1, <1>2 DEF Talk, Errors
<1>3. CASE is_active
  <2>1. Steady /\ AtEcho BY <1>3 DEF Listening, InPlace
  <2>2. Steady' /\ AtEcho'
    BY <1>1, <2>1 DEF Steady, AtEcho, Quiet, OneScan, Grammar, Follows, Headed, Success
  <2>3. Listening' BY <1>1, <1>3, <2>2 DEF Listening, InPlace
  <2> QED BY <1>1, <1>3, <2>3 DEF Talk, Talking, DownSilent
<1> QED BY <1>2, <1>3

\* When it starts to measure nothing else is under way.
LEMMA StartTalks ==
  ASSUME TypeOK, LaserInv, NEW t, NEW n \in {0, 1}, urg_start_measurement(t, n),
         is_active => Quiet /\ DownSilent /\ sensor.mode \notin {"measure", "sleep"}
  PROVE  Talk'
<1>1. /\ op' = "start" /\ UNCHANGED <<is_active, inbox, link, sensor>>
      /\ \/ is_active /\ Start /\ is_sending' = TRUE /\ specified_scan_times' = n
         \/ ~is_active /\ pc' = "ready"
  BY StartParts
<1>2. CASE ~is_active BY <1>1, <1>2 DEF Talk
<1>3. CASE is_active
  <2>1. PICK m \in ScanTimes, io \in IoChoices :
          /\ scanning_remain_times' = m
          /\ IF m = 1 /\ ~is_laser_on
             THEN Exchange("BM", 1)
             ELSE IF m = 1
             THEN pc' = "send_single" /\ UNCHANGED outbox
             ELSE /\ outbox' = Sent(IF io THEN "MF" ELSE "MD", IF m >= MAX_SCANS THEN 0 ELSE m, gen')
                  /\ pc' = "ready"
    BY <1>1, <1>3 DEF Start, Returns, Fails
  <2>2. m = n BY <1>3, <2>1 DEF urg_start_measurement
  <2>3. /\ Quiet /\ DownSilent /\ sensor.mode \notin {"measure", "sleep"} /\ "start" \in DOMAIN OrderOf
        /\ is_sending' /\ (OneScan' <=> n = 1) /\ inbox' = <<>>
    BY <1>1, <1>3, OrderNames DEF OneScan, Quiet
  <2>4. CASE n = 1 /\ ~is_laser_on
    <3>1. Exchange("BM", 1) BY <2>1, <2>2, <2>4
    <3>2. xchg'.cmd = "BM" /\ xchg'.line = 0 /\ OrderOf[op'] = "BM"
      BY <1>1, <3>1, OrderNames DEF Exchange
    <3>3. CASE link = "up"
      <4>1. pc' = "xchg" /\ outbox' = Append(<<>>, [name |-> "BM", times |-> 0, gen |-> 0])
        BY <2>3, <3>1, <3>3 DEF Exchange, Writes, Sent, Quiet
      <4>2. outbox' = Question' BY <3>2, <4>1 DEF Question
      <4>3. Replying' BY <2>3, <3>2, <4>2 DEF Replying
      <4>4. Exchanging' BY <1>1, <2>3, <2>4, <3>2, <4>1, <4>3 DEF Exchanging
      <4> QED BY <1>1, <1>3, <3>3, <4>4 DEF Talk, Talking, DownSilent
    <3>4. CASE link # "up"
      <4>1. pc' = "xchg_done" /\ UNCHANGED outbox BY <3>1, <3>4 DEF Exchange, Writes, Sent
      <4>2. Exchanging' BY <1>1, <2>3, <2>4, <4>1 DEF Exchanging, Quiet
      <4> QED BY <1>1, <1>3, <2>3, <4>1, <4>2 DEF Talk, Talking, DownSilent
    <3> QED BY <3>3, <3>4
  <2>5. CASE n = 1 /\ is_laser_on
    <3>1. pc' = "send_single" /\ UNCHANGED outbox BY <2>1, <2>2, <2>5
    <3>2. Exchanging' BY <1>1, <2>3, <2>5, <3>1 DEF Exchanging, Quiet
    <3> QED BY <1>1, <1>3, <2>3, <3>1, <3>2 DEF Talk, Talking, DownSilent
  <2>6. CASE n # 1
    <3> DEFINE c == IF io THEN "MF" ELSE "MD"
               k == IF m >= MAX_SCANS THEN 0 ELSE m
               o == [name |-> c, times |-> k, gen |-> gen']
    <3>1. pc' = "ready" /\ outbox' = Sent(c, k, gen') BY <2>1, <2>2, <2>6
    <3>2. outbox' = <<>> \/ (outbox' = Append(<<>>, o) /\ link = "up")
      BY <2>3, <3>1 DEF Sent, Quiet
    <3>3. o.name \in Continuous BY DEF Continuous
    <3> HIDE DEF o
    <3>4. outbox' # <<>> => Len(outbox') = 1 /\ outbox'[1] = o BY <3>2
    <3>5. OneScan' = FALSE BY <2>3, <2>6 DEF OneScan
    <3>6. Steady'
      <4>1. Len(inbox') = 0 BY <2>3
      <4>2. Grammar(OneScan, inbox)' BY <4>1 DEF Grammar
      <4>3. outbox' # <<>> => outbox'[1].name \in VerbsOf(OneScan')
        BY <3>3, <3>4, <3>5 DEF VerbsOf
      <4> QED BY <1>1, <2>3, <3>4, <4>2, <4>3 DEF Steady
    <3>7. AtEcho' BY <2>3, <3>5 DEF AtEcho
    <3>8. Listening' BY <1>1, <3>1, <3>6, <3>7 DEF Listening, InPlace
    <3>9. DownSilent' BY <1>1, <3>2 DEF DownSilent
    <3> QED BY <1>1, <1>3, <3>8, <3>9 DEF Talk, Talking
  <2> QED BY <2>4, <2>5, <2>6
<1> QED BY <1>2, <1>3

LEMMA CloseTalks ==
  ASSUME Calling("close"), Talk PROVE Talk'
<1>1. /\ op' = "close" /\ Leaving' /\ is_active /\ UNCHANGED <<is_active, link>>
      /\ outbox' = outbox \/ outbox' = Sent("QT", 0, 0)
  BY CloseParts
<1>2. DownSilent' BY <1>1 DEF Talk, Talking, DownSilent, Sent
<1> QED BY <1>1, <1>2 DEF Talk, Talking

\* At the start nothing is connected.
LEMMA TalkStart == Init_ => TalkInv
<1> SUFFICES ASSUME Init_ PROVE Talk BY DEF TalkInv
<1>1. is_active = FALSE /\ pc = "ready" /\ op = "open" BY DEF Init_, DriverInit
<1> QED BY <1>1 DEF Talk

\* What a step leaves alone.
Unheard == UNCHANGED <<is_active, is_sending, specified_scan_times, op, pc, ret, after, xchg, rcv,
                       inbox, outbox, link, sensor>>

LEMMA TalkSame == ASSUME Unheard, Talk PROVE Talk'
<1>1. /\ UNCHANGED <<is_active, is_sending, specified_scan_times, op, pc, ret, after, xchg, rcv>>
      /\ UNCHANGED <<inbox, outbox, link, sensor>>
  BY DEF Unheard
<1>2. DownSilent => DownSilent' BY <1>1 DEF DownSilent
<1>3. Leaving => Leaving' BY <1>1 DEF Leaving
<1>4. Failing => Failing' BY <1>1 DEF Failing
<1>5. (Quiet => Quiet') /\ OneScan' = OneScan BY <1>1 DEF Quiet, OneScan
<1>6. Steady => Steady'
  BY <1>1, <1>5 DEF Steady, Grammar, Follows, Headed, Success
<1>7. (AtEcho => AtEcho') /\ (NoEcho => NoEcho') /\ (Started_ => Started_')
  BY <1>1, <1>5 DEF AtEcho, NoEcho, Started_
<1>8. (AllRead => AllRead') /\ \A k : Meets(k) => Meets(k)' BY <1>1, <1>5, <1>7 DEF AllRead, Meets
<1>9. \A t, l, m : Headed(OneScan, t, l, m)' = Headed(OneScan', t, l, m) BY DEF Headed, Success
<1>10. InPlace => InPlace' BY <1>1, <1>5, <1>7, <1>8 DEF InPlace, Headed, Success
<1>11. Exchanging => Exchanging'
  <2>1. Replying => Replying' BY <1>1 DEF Replying, Replied, Question
  <2> QED BY <1>1, <1>5, <2>1 DEF Exchanging
<1> QED BY <1>1, <1>2, <1>3, <1>4, <1>6, <1>10, <1>11 DEF Talk, Talking, Listening

LEMMA VarsUnheard ==
  /\ UNCHANGED vars => Unheard
  /\ Mismatch => Unheard
BY DEF vars, flags, config, host, Mismatch, Unheard

\* Before its next call a sample has heard all it asked for.
LEMMA NextHears ==
  ASSUME AtPlace, TypeOK, PlanInv, Talk, program # "caller", Idle, stage = "run", doing = FALSE,
         is_active
  PROVE  Listening /\ DownSilent /\ op # "close"
<1>1. pc = "ready" /\ Talking /\ Tame BY DEF Idle, Talk, PlanInv
<1>2. op # "close" BY <1>1 DEF Tame, Leaving
<1>3. ~Exchanging BY <1>1 DEF Exchanging
<1>4. ~Failing
  <2> SUFFICES ASSUME op = "get" PROVE ret \notin Errors BY <1>1 DEF Failing
  <2>1. PICK b : b = Body[program] OBVIOUS
  <2>2. b \in Seq(Modest) \/ Measurer(b) BY <2>1, TablesMeasure DEF AtPlace
  <2>3. b \notin Seq(Modest)
    <3>1. ASSUME b \in Seq(Modest) PROVE FALSE
      <4>1. Idling BY <2>1, <3>1 DEF PlanInv
      <4> QED BY <4>1 DEF Idling, Asks
    <3> QED BY <3>1
  <2>4. Behind(b) BY <2>1, <2>2, <2>3 DEF PlanInv
  <2> QED BY <2>4 DEF Behind, InGet
<1> QED BY <1>1, <1>2, <1>3, <1>4 DEF Talking

\* Before it starts to measure there is nothing left to hear.
LEMMA StartHears ==
  ASSUME AtPlace, TypeOK, PlanInv, Talk, program # "caller", Idle, stage = "run", doing = FALSE,
         is_active, place \in 1 .. Len(Body[program]), Call_.do = "start_measurement"
  PROVE  Quiet /\ sensor.mode \notin {"measure", "sleep"}
<1>1. Listening /\ op # "close" /\ pc = "ready" BY NextHears DEF Idle
<1>2. PICK b : b = Body[program] OBVIOUS
<1>3. Call_ = b[place] /\ place \in 1 .. Len(b) BY <1>2 DEF Call_
<1>4. Measurer(b)
  <2>1. b \in Seq(Modest) \/ Measurer(b) BY <1>2, TablesMeasure DEF AtPlace
  <2>2. ASSUME b \in Seq(Modest) PROVE FALSE
    <3>1. b[place] \in Modest BY <1>3, <2>2
    <3> QED BY <1>3, <3>1 DEF Modest
  <2> QED BY <2>1, <2>2
<1>5. Behind(b) BY <1>2, <1>4 DEF PlanInv
<1>6. Steady /\ InPlace BY <1>1 DEF Listening
<1>7. CASE ~is_sending BY <1>6, <1>7 DEF Steady
<1>8. CASE is_sending
  <2>1. PICK j \in 1 .. Len(b) : /\ Made(j) /\ b[j].do = "start_measurement"
                                 /\ b[j].times = specified_scan_times
    BY <1>1, <1>5, <1>8 DEF Behind
  <2>2. j \in 1 .. place - 1 BY <1>3, <2>1 DEF Made
  <2>3. b[j].times = 1 /\ b[place - 1].do = "get" BY <1>3, <1>4, <2>1, <2>2 DEF Measurer
  <2>4. OneScan BY <2>1, <2>3 DEF OneScan
  <2>5. place > 1 BY <1>3, <2>2
  <2>6. op = "get" BY <1>5, <2>3, <2>5 DEF Behind
  <2> QED BY <1>1, <1>6, <2>4, <2>6 DEF InPlace, AllRead, Steady
<1> QED BY <1>7, <1>8

\* A sample begins its next call.
LEMMA TalkBegins ==
  ASSUME AtPlace, TypeOK, LaserInv, SampleInv, PlanInv, Talk, program # "caller", StepBegins
  PROVE  Talk'
<1>1. /\ Idle /\ stage = "run" /\ doing = FALSE /\ Call_ \in Calls_
      /\ place \in 1 .. Len(Body[program])
      /\ \/ BeginsOpen \/ BeginsStart \/ BeginsGet \/ Mismatches
         \/ BeginsAsk \/ BeginsClose \/ BeginsNone
  BY TableBegins
<1>2. pc = "ready" BY <1>1 DEF Idle
<1>3. is_active => Listening /\ DownSilent /\ op # "close" BY <1>1, NextHears
<1>4. CASE BeginsOpen BY <1>4, OpenTalks DEF BeginsOpen
<1>5. PICK b : b = Body[program] OBVIOUS
<1>6. b \in Seq(Modest) \/ Measurer(b) BY <1>5, TablesMeasure DEF AtPlace
<1>7. Call_ = b[place] BY <1>5 DEF Call_
<1>8. CASE BeginsStart
  <2>1. urg_start_measurement(Call_.type, Call_.times) /\ Call_.do = "start_measurement"
    BY <1>8 DEF BeginsStart
  <2>2. ASSUME b \in Seq(Modest) PROVE FALSE
    <3>1. b[place] \in Modest BY <1>1, <1>5, <2>2
    <3> QED BY <1>7, <2>1, <3>1 DEF Modest
  <2>3. Call_.times \in {0, 1} BY <1>1, <1>5, <1>6, <1>7, <2>1, <2>2 DEF Measurer
  <2>4. is_active => Quiet /\ sensor.mode \notin {"measure", "sleep"} BY <1>1, <2>1, StartHears
  <2> QED BY <1>3, <2>1, <2>3, <2>4, StartTalks
<1>9. CASE BeginsGet
  <2>1. Calling("get") BY <1>9 DEF BeginsGet, urg_get
  <2> QED BY <1>2, <1>3, <2>1, GetTalks
<1>10. CASE Mismatches BY <1>10, VarsUnheard, TalkSame DEF Mismatches
<1>11. CASE BeginsAsk
  <2>1. PICK o \in Asks : Calling(o) BY <1>11 DEF BeginsAsk
  <2>2. Call_ \in Modest /\ Call_.do \notin {"open", "malloc"} BY <1>11 DEF BeginsAsk
  <2>3. ~Measurer(b) BY <1>1, <1>5, <1>7, <2>2 DEF Measurer, Modest
  <2>4. Idling BY <1>5, <1>6, <2>3 DEF PlanInv
  <2>5. is_active => Listening /\ DownSilent /\ ~is_sending BY <1>3, <2>4 DEF Idling
  <2> QED BY <2>1, <2>5, AskTalks
<1>12. CASE BeginsClose BY <1>12, CloseTalks DEF BeginsClose
<1>13. CASE BeginsNone BY <1>13, VarsUnheard, TalkSame DEF BeginsNone
<1> QED BY <1>1, <1>4, <1>8, <1>9, <1>10, <1>11, <1>12, <1>13

\* While it reads the clock no measurement runs.
LEMMA ClockIdle ==
  ASSUME AtPlace, PlanInv, program # "caller", is_active,
         op \in {"tm_start", "time_stamp", "tm_stop"}
  PROVE  ~is_sending
<1>1. PICK b : b = Body[program] OBVIOUS
<1>2. b \in Seq(Modest) \/ Measurer(b) BY <1>1, TablesMeasure DEF AtPlace
<1>3. CASE b \in Seq(Modest)
  <2>1. Idling BY <1>1, <1>3 DEF PlanInv
  <2> QED BY <2>1 DEF Idling
<1>4. CASE Measurer(b)
  <2>1. Behind(b) BY <1>1, <1>4 DEF PlanInv
  <2> QED BY <2>1 DEF Behind
<1> QED BY <1>2, <1>3, <1>4

\* The clock is read in the middle of a method.
LEMMA ClockTalks ==
  ASSUME AtPlace, TypeOK, LaserInv, PlanInv, Talk, program # "caller", ReadClock \/ LeaveStampMode
  PROVE  Talk'
<1>1. PICK o \in {"time_stamp", "tm_stop"} : Calling(o) /\ method.name = "set_sensor_time_stamp"
                                            /\ pc = "ready"
  BY DEF ReadClock, LeaveStampMode, Within
<1>2. o \in Asks /\ op \in {"tm_start", "time_stamp", "tm_stop"} BY <1>1 DEF Asks, PlanInv, Tame
<1>4. is_active => ~is_sending BY <1>2, ClockIdle
<1>5. is_active => Listening /\ DownSilent
  BY <1>1, <1>2 DEF Talk, Talking, Failing, Exchanging
<1> QED BY <1>1, <1>2, <1>4, <1>5, AskTalks

\* Whatever a sample and its sensor do, they talk about one thing at a time.
LEMMA TalkStep ==
  ASSUME AtPlace, TypeOK, DarkInv, PlanInv, TalkInv, [Next_]_pvars
  PROVE  TalkInv'
<1>1. UNCHANGED program BY PlaceStep
<1> SUFFICES ASSUME program # "caller", Lossless', late' = 0 PROVE Talk'
  BY <1>1 DEF TalkInv, Undisturbed
<1>2. SessionStep BY SessionSteps
<1>3. Undisturbed BY <1>2, LosslessBefore, LateBefore DEF Undisturbed
<1>4. Talk /\ LaserInv /\ SampleInv /\ Tame BY <1>3 DEF TalkInv, DarkInv, LaserLess, PlanInv
<1>5. CASE StepBegins BY <1>4, <1>5, TalkBegins
<1>6. CASE UNCHANGED vars BY <1>4, <1>6, VarsUnheard, TalkSame
<1>7. CASE StepEnds \/ RunsOut \/ LibraryReturns
  BY <1>6, <1>7 DEF StepEnds, RunsOut, LibraryReturns, dvars
<1>8. CASE Closes
  <2>1. Calling("close") \/ UNCHANGED vars BY <1>8 DEF Closes, DriverClose, dvars
  <2> QED BY <1>4, <1>6, <2>1, CloseTalks
<1>9. ~CallerCalls BY DEF CallerCalls
<1>10. CASE Runs
  <2>1. CASE Host BY <1>4, <2>1, HostTalks
  <2>2. method.name # "open" BY <1>4 DEF Tame
  <2>3. CASE StartReturns \/ GetReturns \/ SimpleReturns \/ CloseReturns \/ SetStampReturns
    BY <1>6, <2>3 DEF StartReturns, GetReturns, SimpleReturns, CloseReturns, SetStampReturns
  <2>4. CASE ReadClock \/ LeaveStampMode BY <1>4, <2>4, ClockTalks
  <2> QED BY <1>10, <2>1, <2>2, <2>3, <2>4 DEF Runs
<1>11. CASE World BY <1>4, <1>11, WorldTalks DEF World
<1>12. CASE UNCHANGED pvars BY <1>6, <1>12 DEF pvars, dvars
<1> QED BY <1>5, <1>7, <1>8, <1>9, <1>10, <1>11, <1>12 DEF Next_, ProgramStep

\* All of it together.
PlansInv == AtPlace /\ TypeOK /\ DarkInv /\ MethodOK /\ PlanInv

LEMMA PlansStart == Init_ => PlansInv
<1>1. Init_ => MethodOK BY DEF Init_, DriverInit, None, MethodOK
<1> QED BY <1>1, DarkStart, PlanStart DEF PlansInv

LEMMA PlansStep == PlansInv /\ [Next_]_pvars => PlansInv'
BY DarkStep, MethodStep, PlanStep DEF PlansInv

LEMMA TalkGoesOn == PlansInv /\ TalkInv /\ [Next_]_pvars => TalkInv'
BY TalkStep DEF PlansInv

\* As long as nothing is lost and no answer is late, whatever a sample asks is answered
\* with what it asked.
THEOREM SamplesOwnAnswers ==
  ProgramSpec => [](program # "caller" /\ late = 0 => OwnAnswers)
<1>1. PlansInv /\ TalkInv => (program # "caller" /\ late = 0 => OwnAnswers)
  <2> SUFFICES ASSUME PlansInv, TalkInv, program # "caller", faults = 0, late = 0,
                      pc = "xchg", xchg.line = 0, inbox # <<>>
               PROVE  inbox[1] = Echo(xchg.cmd)
    BY DEF OwnAnswers, AnswersMatch
  <2>1. Talk BY DEF TalkInv, Undisturbed, Lossless
  <2>2. Exchanging BY <2>1 DEF Talk, Talking, Leaving, Failing, Listening, InPlace
  <2>3. PICK s \in LineVals, x \in Extra :
          inbox \in {<<>>, <<Echo(xchg.cmd), Status(s), Blank>>,
                     <<Echo(xchg.cmd), Status(s), x, Blank>>}
    BY <2>2 DEF Exchanging, Replying, Replied
  <2> QED BY <2>3
<1> QED BY <1>1, PlansStart, PlansStep, TalkStart, TalkGoesOn, PTL DEF ProgramSpec

\* As long as nothing is lost and no answer is late, a get of a sample that is no error
\* has read a scan.
THEOREM SampleScans ==
  ProgramSpec => [](program # "caller" /\ late = 0 => TrueMeansScan)
<1>1. PlansInv /\ TalkInv => (program # "caller" /\ late = 0 => TrueMeansScan)
  <2> SUFFICES ASSUME PlansInv, TalkInv, program # "caller", late = 0, Within("get"), Lossless,
                      ret \notin Errors
               PROVE  ret = "POSITIVE"
    BY DEF TrueMeansScan
  <2>1. Talk /\ op = "get" /\ pc = "ready" 
    BY DEF TalkInv, Undisturbed, PlansInv, PlanInv, Tame, Within
  <2>2. Listening BY <2>1 DEF Talk, Talking, Failing, Exchanging
  <2> QED BY <2>1, <2>2 DEF Listening, InPlace
<1> QED BY <1>1, PlansStart, PlansStep, TalkStart, TalkGoesOn, PTL DEF ProgramSpec

(***************************************************************************)
(* The clock is set: into the mode, readings, out of it.                   *)
(***************************************************************************)
SettingOps == {"tm_start", "time_stamp", "tm_stop"}

\* The reading of a sensor in time stamp mode, as far as it was not read.
Stamped ==
  \/ xchg.line = 0 /\ inbox = <<Echo("TM1"), Status("00"), Plain("stamp"), Blank>>
  \/ xchg.line = 1 /\ inbox = <<Status("00"), Plain("stamp"), Blank>>
  \/ xchg.line = 2 /\ xchg.ok /\ inbox = <<Plain("stamp"), Blank>>
  \/ xchg.line = 2 /\ xchg.ok /\ xchg.body /\ inbox = <<Blank>>

\* The sensor has the order to enter the mode.
Entered == \/ pc = "xchg" /\ outbox = <<>>
           \/ pc = "xchg_done"
           \/ pc = "ready" /\ ret = "NO_ERROR"

\* While the cable holds the sensor is in its mode and every reading is a time; after
\* one that was not, the order to leave the mode fails as well.
Setting ==
  /\ op \in SettingOps
  /\ op = "tm_start" => method.good
  /\ link = "up" =>
       /\ method.good
       /\ op = "tm_start" /\ Entered => sensor.mode = "adjust"
       /\ op = "time_stamp" => /\ sensor.mode = "adjust"
                               /\ pc = "xchg" /\ outbox = <<>> => Stamped
                               /\ pc # "xchg" => ret = "POSITIVE"
                               /\ pc = "xchg_done" => xchg.body
  /\ op = "tm_stop" /\ ~method.good => \/ pc = "xchg_done" /\ ret = "SEND_ERROR"
                                       \/ pc = "ready" /\ ret # "NO_ERROR"

SetInv == program # "caller" /\ Undisturbed =>
  /\ time_stamp_offset_ # "mixed"
  /\ method.name = "set_sensor_time_stamp" => Setting

\* A line of the reading is read.
LEMMA StampRead ==
  ASSUME TypeOK, late' = 0, Stamped, xchg.cmd = "TM1", ScipResponse
  PROVE  \/ UNCHANGED pc /\ Stamped'
         \/ pc' = "xchg_done" /\ ret' = "POSITIVE" /\ UNCHANGED xchg /\ xchg.body
<1> DEFINE e == Echo("TM1")  t == Status("00")  x == Plain("stamp")  b == Blank
<1>1. /\ e \in WireLine /\ t \in WireLine /\ x \in WireLine /\ b \in WireLine
      /\ ~Empty(e) /\ ~Empty(t) /\ ~Empty(x) /\ Empty(b)
      /\ t.good /\ x.good /\ t.kind = "status" /\ t.val = "00"
  <2>1. e \in WireLine /\ t \in WireLine /\ x \in WireLine /\ b \in WireLine
        /\ ~Empty(x) /\ x.good
    BY AnswerWireLines DEF CommandNames, LineVals
  <2> QED BY <2>1 DEF Empty, Echo, Status, Blank, Plain
<1>2. e = Echo("TM1") OBVIOUS
<1>3. \/ xchg.line = 0 /\ inbox = <<e, t, x, b>>
      \/ xchg.line = 1 /\ inbox = <<t, x, b>>
      \/ xchg.line = 2 /\ xchg.ok /\ inbox = <<x, b>>
      \/ xchg.line = 2 /\ xchg.ok /\ xchg.body /\ inbox = <<b>>
  BY DEF Stamped
<1>4. Stamped' <=> \/ xchg'.line = 0 /\ inbox' = <<e, t, x, b>>
                   \/ xchg'.line = 1 /\ inbox' = <<t, x, b>>
                   \/ xchg'.line = 2 /\ xchg'.ok /\ inbox' = <<x, b>>
                   \/ xchg'.line = 2 /\ xchg'.ok /\ xchg'.body /\ inbox' = <<b>>
  BY DEF Stamped
<1>5. PICK l \in Incoming :
        /\ Reads(l)
        /\ IF Rejection(l) # "NO_ERROR"
           THEN pc' = "xchg_done" /\ UNCHANGED xchg
           ELSE IF Empty(l)
                THEN /\ pc' = "xchg_done" /\ UNCHANGED xchg
                     /\ ret' = IF xchg.ok THEN "POSITIVE" ELSE "UNKNOWN_ERROR"
                ELSE /\ xchg' = [xchg EXCEPT
                             !.line = IF @ < 2 THEN @ + 1 ELSE @,
                             !.ok   = @ \/ (xchg.line = 1 /\ l.val \in Expected(xchg.cmd)),
                             !.body = @ \/ xchg.line = 2]
                     /\ UNCHANGED pc
  BY DEF ScipResponse
<1>6. ASSUME Rejection(l) = "NO_ERROR", ~Empty(l)
      PROVE  /\ UNCHANGED pc
             /\ xchg'.line = IF xchg.line < 2 THEN xchg.line + 1 ELSE xchg.line
             /\ xchg.ok \/ (xchg.line = 1 /\ l.val \in Expected(xchg.cmd)) => xchg'.ok
             /\ xchg.body \/ xchg.line = 2 => xchg'.body
  BY <1>5, <1>6 DEF TypeOK, HostTypeOK
<1>7. ASSUME inbox # <<>> PROVE l = inbox[1] /\ ~Failed(l) /\ inbox' = Tail(inbox)
  BY <1>5, <1>7, ReadOne DEF Silent, Failed
<1>8. "00" \in Expected(xchg.cmd) BY DEF Expected
<1> HIDE DEF e, t, x, b
<1>9. CASE xchg.line = 0 /\ inbox = <<e, t, x, b>>
  <2>1. inbox # <<>> /\ inbox[1] = e /\ Tail(inbox) = <<t, x, b>> BY <1>1, <1>9, AnswerTails
  <2>2. l = e /\ ~Failed(l) /\ inbox' = <<t, x, b>> BY <1>7, <2>1
  <2>3. Rejection(l) = "NO_ERROR" BY <1>2, <1>9, <2>2 DEF Rejection
  <2> QED BY <1>1, <1>4, <1>6, <1>9, <2>2, <2>3
<1>10. CASE xchg.line = 1 /\ inbox = <<t, x, b>>
  <2>1. inbox # <<>> /\ inbox[1] = t /\ Tail(inbox) = <<x, b>> BY <1>1, <1>10, AnswerTails
  <2>2. l = t /\ ~Failed(l) /\ inbox' = <<x, b>> BY <1>7, <2>1
  <2>3. Rejection(l) = "NO_ERROR" BY <1>1, <1>10, <2>2 DEF Rejection
  <2>4. UNCHANGED pc /\ xchg'.line = 2 /\ xchg'.ok BY <1>1, <1>6, <1>8, <1>10, <2>2, <2>3
  <2> QED BY <1>4, <2>2, <2>4
<1>11. CASE xchg.line = 2 /\ xchg.ok /\ inbox = <<x, b>>
  <2>1. inbox # <<>> /\ inbox[1] = x /\ Tail(inbox) = <<b>> BY <1>1, <1>11, AnswerTails
  <2>2. l = x /\ ~Failed(l) /\ inbox' = <<b>> BY <1>7, <2>1
  <2>3. Rejection(l) = "NO_ERROR" BY <1>1, <1>11, <2>2 DEF Rejection
  <2>4. UNCHANGED pc /\ xchg'.line = 2 /\ xchg'.ok /\ xchg'.body
    BY <1>1, <1>6, <1>11, <2>2, <2>3
  <2> QED BY <1>4, <2>2, <2>4
<1>12. CASE xchg.line = 2 /\ xchg.ok /\ xchg.body /\ inbox = <<b>>
  <2>1. inbox # <<>> /\ inbox[1] = b BY <1>1, <1>12, AnswerTails
  <2>2. l = b /\ ~Failed(l) BY <1>7, <2>1
  <2>3. NonEmpty(l) = FALSE BY <1>1, <2>2 DEF NonEmpty
  <2>4. Rejection(l) = "NO_ERROR" BY <1>12, <2>2, <2>3 DEF Rejection
  <2> QED BY <1>1, <1>5, <1>12, <2>2, <2>4
<1> QED BY <1>3, <1>9, <1>10, <1>11, <1>12

\* What a sample talks about while it sets the clock.
LEMMA SettingTalk ==
  ASSUME Talk, op \in SettingOps
  PROVE  /\ pc # "ready" => is_active /\ Exchanging
         /\ pc = "ready" /\ is_active => Listening
  BY DEF Talk, Talking, SettingOps, Leaving, Failing, Listening, InPlace, Exchanging

\* The library, while the clock is set.
LEMMA SettingHost ==
  ASSUME TypeOK, late' = 0, LaserInv, Talk, Setting, Host, UNCHANGED method
  PROVE  Setting'
<1>1. pc # "ready" /\ op \in SettingOps BY HostInCall DEF Setting
<1>2. is_active /\ Exchanging /\ Talking BY <1>1, SettingTalk DEF Talk
<1>3. op \notin {"start", "info", "reboot", "laser_on", "sleep"} BY <1>1 DEF SettingOps
<1>4. CASE pc = "xchg"
  <2>1. ScipResponse /\ Replying /\ xchg.cmd = OrderOf[op] BY <1>2, <1>4, HostReads DEF Exchanging
  <2>2. UNCHANGED <<op, sensor, outbox, link>> BY <2>1 DEF ScipResponse
  <2>3. op = "tm_stop" => method.good BY <1>4 DEF Setting
  <2>4. CASE link # "up" BY <2>2, <2>3, <2>4 DEF Setting
  <2>5. CASE link = "up"
    <3>1. outbox = <<>>
      <4> SUFFICES ASSUME outbox = Question, inbox = <<>> PROVE FALSE BY <2>1 DEF Replying
      <4>1. ~Silent BY <2>5 DEF Silent, Question
      <4>2. PICK l \in Incoming : Reads(l) BY <2>1 DEF ScipResponse
      <4> QED BY <4>1, <4>2, ReadOne
    <3>2. pc' = pc \/ pc' = "xchg_done" BY <2>1 DEF ScipResponse
    <3>3. op = "tm_start" => sensor.mode = "adjust" BY <1>4, <2>5, <3>1 DEF Setting, Entered
    <3>4. CASE op = "time_stamp"
      <4>1. Stamped /\ sensor.mode = "adjust" BY <1>4, <2>5, <3>1, <3>4 DEF Setting
      <4>2. xchg.cmd = "TM1" BY <2>1, <3>4, OrderNames
      <4>3. \/ UNCHANGED pc /\ Stamped'
            \/ pc' = "xchg_done" /\ ret' = "POSITIVE" /\ xchg'.body
        <5>1. \/ UNCHANGED pc /\ Stamped'
              \/ pc' = "xchg_done" /\ ret' = "POSITIVE" /\ UNCHANGED xchg /\ xchg.body
          BY <2>1, <4>1, <4>2, StampRead
        <5> QED BY <5>1
      <4> QED BY <1>4, <2>2, <2>5, <3>4, <4>1, <4>3 DEF Setting
    <3>5. CASE op # "time_stamp" BY <2>2, <2>3, <2>5, <3>3, <3>5 DEF Setting
    <3> QED BY <3>4, <3>5
  <2> QED BY <2>4, <2>5
<1>5. CASE pc = "xchg_done"
  <2>1. Answers_ BY <1>5, HostReads
  <2>2. TimeStampModeDone \/ TimeStampDone
    BY <1>3, <2>1 DEF Answers_, LaserOnDone, InfoDone, SleepDone, RebootDone, Answered
  <2>3. UNCHANGED <<op, sensor, link>> /\ pc' = "ready"
    BY <2>2 DEF TimeStampModeDone, TimeStampDone, AfterAnswer, Returns, Fails
  <2>4. CASE op = "tm_start"
    <3>1. link = "up" => sensor.mode = "adjust" /\ method.good BY <1>5, <2>4 DEF Setting, Entered
    <3> QED BY <2>3, <2>4, <3>1 DEF Setting
  <2>5. CASE op = "time_stamp"
    <3>1. link = "up" => ret = "POSITIVE" /\ xchg.body BY <1>5, <2>5 DEF Setting
    <3>2. TimeStampDone BY <2>2, <2>5 DEF TimeStampModeDone, Answered
    <3>3. link = "up" => ret' = "POSITIVE" BY <3>1, <3>2 DEF TimeStampDone, Returns
    <3> QED BY <2>3, <2>5, <3>3 DEF Setting
  <2>6. CASE op = "tm_stop"
    <3>1. ~method.good => ret = "SEND_ERROR" BY <1>5, <2>6 DEF Setting
    <3>2. TimeStampModeDone BY <2>2, <2>6 DEF TimeStampDone, Answered
    <3>3. ~method.good => ret' # "NO_ERROR" BY <3>1, <3>2 DEF TimeStampModeDone, Fails, Returns
    <3> QED BY <2>3, <2>6, <3>3 DEF Setting
  <2> QED BY <1>1, <2>4, <2>5, <2>6 DEF SettingOps
<1> QED BY <1>2, <1>3, <1>4, <1>5 DEF Exchanging

\* What the sensor does with the orders that set the clock.
LEMMA ClockObeys ==
  ASSUME TypeOK, NEW c, c.name \in {"TM0", "TM1"}
  PROVE  /\ c.name = "TM0" /\ sensor.mode # "sleep" => Obeyed(c).mode = "adjust"
         /\ c.name = "TM1" /\ sensor.mode = "adjust" =>
              /\ Obeyed(c).mode = "adjust"
              /\ <<>> \o Answer(c) = <<Echo("TM1"), Status("00"), Plain("stamp"), Blank>>
<1>1. c.name = "TM0" /\ sensor.mode # "sleep" => Accepts(c.name) /\ ModeAfter(c.name) = "adjust"
  BY DEF Accepts, ModeAfter, Continuous, Single
<1>2. c.name = "TM1" /\ sensor.mode = "adjust" => Accepts(c.name) /\ ModeAfter(c.name) = "adjust"
  BY DEF Accepts, ModeAfter, Continuous, Single
<1>3. Accepts(c.name) => Obeyed(c).mode = ModeAfter(c.name) BY DEF Obeyed
<1>4. ASSUME c.name = "TM1", sensor.mode = "adjust"
      PROVE  <<>> \o Answer(c) = <<Echo("TM1"), Status("00"), Plain("stamp"), Blank>>
  <2> DEFINE e == Echo("TM1")  t == Status("00")  x == Plain("stamp")  b == Blank
             a == <<e, t>>  r == <<x>>  u == <<e, t, x, b>>
  <2>1. StatusOf(c.name) = "00" /\ Payload(c.name) = <<x>> /\ c.name \notin Single
    BY <1>2, <1>4 DEF StatusOf, Payload, Single
  <2>2. Answer(c) = <<e, t>> \o <<x>> \o <<b>> BY <1>4, <2>1 DEF Answer
  <2>3. e \in WireLine /\ t \in WireLine /\ x \in WireLine /\ b \in WireLine
    BY AnswerWireLines DEF CommandNames, LineVals
  <2> HIDE DEF e, t, x, b
  <2>4. <<e, t>> \o <<x>> = <<e, t, x>> BY <2>3, JoinThree
  <2>5. <<e, t, x>> \o <<b>> = <<e, t, x, b>> BY <2>3, JoinFour
  <2>6. <<e, t, x, b>> \in Seq(WireLine) BY <2>3
  <2>7. <<>> \o <<e, t, x, b>> = <<e, t, x, b>> BY <2>6, ConcatEmptySeq
  <2> QED BY <2>2, <2>4, <2>5, <2>7 DEF e, t, x, b
<1> QED BY <1>1, <1>2, <1>3, <1>4

\* The sensor, while the clock is set.
LEMMA SettingWorld ==
  ASSUME TypeOK, ActiveUp, Talk, Setting, is_active => ~is_sending, Environment, Lossless',
         UNCHANGED method
  PROVE  Setting'
<1>1. UNCHANGED <<op, pc, ret, xchg>> /\ op \in SettingOps
  BY DEF Environment, SensorReply, SensorScan, Garble, Lose, Break, Fault, HostUnchanged, host, Setting
<1>2. link' # "up" => Setting' BY <1>1 DEF Setting
<1>3. CASE Break BY <1>2, <1>3 DEF Break
<1>4. CASE SensorReply \/ SensorScan
  <2>1. UNCHANGED link BY <1>4 DEF SensorReply, SensorScan
  <2> SUFFICES ASSUME link = "up" PROVE Setting' BY <1>2, <2>1
  <2>2. is_active BY DEF ActiveUp
  <2>3. pc = "ready" => Quiet /\ sensor.mode # "measure"
    BY <1>1, <2>2, SettingTalk DEF Listening, Steady
  <2>4. pc # "ready" => Exchanging BY <1>1, SettingTalk
  <2>5. /\ SensorReply /\ pc = "xchg" /\ xchg.cmd = OrderOf[op] /\ outbox = Question
        /\ inbox = <<>> /\ xchg.line = 0 /\ sensor.mode # "sleep"
    BY <1>4, <2>3, <2>4 DEF SensorReply, SensorScan, Exchanging, Replying, Quiet
  <2> DEFINE c == [name |-> xchg.cmd, times |-> 0, gen |-> 0]
  <2>6. outbox = <<c>> /\ c.name = OrderOf[op] BY <2>5 DEF Question
  <2> HIDE DEF c
  <2>7. Head(outbox) = c BY <2>6
  <2>8. inbox' = <<>> \o Answer(c) /\ sensor' = Obeyed(c)
    BY <2>5, <2>7 DEF SensorReply, Delivered
  <2>9. CASE op = "tm_start"
    <3>1. c.name = "TM0" BY <2>6, <2>9, OrderNames
    <3>2. sensor'.mode = "adjust" BY <2>5, <2>8, <3>1, ClockObeys
    <3> QED BY <1>1, <2>1, <2>9, <3>2 DEF Setting
  <2>10. CASE op = "time_stamp"
    <3>1. c.name = "TM1" /\ sensor.mode = "adjust" BY <2>6, <2>10, OrderNames DEF Setting
    <3>2. /\ sensor'.mode = "adjust"
          /\ inbox' = <<Echo("TM1"), Status("00"), Plain("stamp"), Blank>>
      BY <2>8, <3>1, ClockObeys
    <3>3. Stamped' BY <1>1, <2>5, <3>2 DEF Stamped
    <3> QED BY <1>1, <2>1, <2>5, <2>10, <3>2, <3>3 DEF Setting
  <2>11. CASE op = "tm_stop" BY <1>1, <2>1, <2>11 DEF Setting
  <2> QED BY <1>1, <2>9, <2>10, <2>11 DEF SettingOps
<1> QED BY <1>3, <1>4, OnlyBreaks

\* The next order of the method is sent, or fails.
LEMMA OrderSent ==
  ASSUME TypeOK, ActiveUp, NEW o \in SettingOps, Calling(o)
  PROVE  /\ op' = o /\ UNCHANGED <<link, sensor>>
         /\ link = "up" => pc' = "xchg" /\ outbox' # <<>>
         /\ link # "up" => \/ pc' = "xchg_done" /\ ret' = "SEND_ERROR"
                           \/ pc' = "ready" /\ ret' = "NOT_CONNECTED"
<1>1. o \in Asks BY DEF SettingOps, Asks
<1>2. /\ op' = o /\ UNCHANGED <<link, sensor>>
      /\ \/ is_active /\ Ask(o, OrderOf[o])
         \/ ~is_active /\ pc' = "ready" /\ ret' = "NOT_CONNECTED"
  BY <1>1, AskParts
<1>3. CASE ~is_active BY <1>2, <1>3 DEF ActiveUp
<1>4. CASE is_active
  <2>1. Exchange(OrderOf[o], 1) BY <1>2, <1>4 DEF Ask
  <2>2. CASE link = "up"
    <3> DEFINE c == [name |-> OrderOf[o], times |-> 0, gen |-> 0]
    <3>1. pc' = "xchg" /\ outbox' = Append(outbox, c) BY <2>1, <2>2 DEF Exchange, Writes, Sent
    <3> HIDE DEF c
    <3>2. Len(outbox') = Len(outbox) + 1 /\ Len(outbox) \in Nat
      BY <3>1 DEF TypeOK, WorldTypeOK
    <3> QED BY <1>2, <2>2, <3>1, <3>2
  <2>3. CASE link # "up"
    BY <1>2, <2>1, <2>3 DEF Exchange
  <2> QED BY <2>2, <2>3
<1> QED BY <1>3, <1>4

\* The method begins, reads the clock, and leaves the mode.
LEMMA SettingBegins ==
  ASSUME TypeOK, ActiveUp, Calling("tm_start"), method'.good PROVE Setting'
<1>1. "tm_start" \in SettingOps BY DEF SettingOps
<1> QED BY <1>1, OrderSent DEF Setting, Entered

LEMMA SettingOn ==
  ASSUME TypeOK, ActiveUp, MethodOK, Setting, ReadClock \/ LeaveStampMode PROVE Setting'
<1>1. pc = "ready" BY DEF ReadClock, LeaveStampMode, Within
<1>2. method'.good = AllGood BY DEF ReadClock, LeaveStampMode, MethodOK
<1>3. link = "up" => AllGood BY <1>1 DEF Setting, AllGood
<1>4. CASE ReadClock
  <2>1. "time_stamp" \in SettingOps /\ Calling("time_stamp") BY <1>4 DEF ReadClock, SettingOps
  <2>2. link = "up" => sensor.mode = "adjust" BY <1>1, <1>4 DEF ReadClock, Setting, Entered
  <2> QED BY <1>2, <1>3, <2>1, <2>2, OrderSent DEF Setting
<1>5. CASE LeaveStampMode
  <2>1. "tm_stop" \in SettingOps /\ Calling("tm_stop") BY <1>5 DEF LeaveStampMode, SettingOps
  <2> QED BY <1>2, <1>3, <2>1, OrderSent DEF Setting
<1> QED BY <1>4, <1>5

\* Another method, or none, sets no clock.
OtherMethod == method.name # "set_sensor_time_stamp"

\* The offset of the clock is computed from times only.
LEMMA SetStart == Init_ => SetInv
BY DEF Init_, DriverInit, None, SetInv

LEMMA SetStep ==
  ASSUME PlansInv, TalkInv, SetInv, [Next_]_pvars
  PROVE  SetInv'
<1>1. AtPlace /\ TypeOK /\ DarkInv /\ MethodOK /\ PlanInv BY DEF PlansInv
<1>2. UNCHANGED program BY <1>1, PlaceStep
<1> SUFFICES ASSUME program # "caller", Lossless', late' = 0
             PROVE  /\ time_stamp_offset_' # "mixed"
                    /\ OtherMethod' \/ Setting'
  BY <1>2 DEF SetInv, Undisturbed, OtherMethod
<1>3. Undisturbed
  <2>1. SessionStep BY <1>1, SessionSteps
  <2> QED BY <1>1, <2>1, LosslessBefore, LateBefore DEF Undisturbed
<1>4. Talk /\ LaserInv /\ ActiveUp /\ SampleInv /\ Tame
  BY <1>1, <1>3 DEF TalkInv, DarkInv, LaserLess, PlanInv
<1>5. time_stamp_offset_ # "mixed" /\ (OtherMethod \/ Setting)
  BY <1>3 DEF SetInv, OtherMethod
<1>6. None.name = "none" BY DEF None
<1>7. CASE UNCHANGED <<vars, method, time_stamp_offset_>>
  <2>1. Setting => Setting'
    BY <1>7 DEF vars, flags, config, host, Setting, Entered, Stamped
  <2> QED BY <1>5, <1>7, <2>1 DEF OtherMethod
<1>8. CASE StepBegins
  <2>1. /\ Idle /\ UNCHANGED time_stamp_offset_
        /\ \/ BeginsOpen \/ BeginsStart \/ BeginsGet \/ Mismatches
           \/ BeginsAsk \/ BeginsClose \/ BeginsNone
    BY <1>1, <1>4, <1>8, TableBegins
  <2>2. CASE \/ BeginsOpen \/ BeginsStart \/ BeginsGet \/ Mismatches
             \/ BeginsClose \/ BeginsNone
    <3>1. method'.name \in {"none", "c", "start_measurement", "c_get", "get", "close"}
      BY <1>6, <2>1, <2>2 DEF Idle, BeginsOpen, BeginsStart, BeginsGet, Mismatches, Mismatch,
         BeginsClose, BeginsNone
    <3> QED BY <1>5, <2>1, <3>1 DEF OtherMethod
  <2>3. CASE BeginsAsk
    <3>1. OtherMethod' \/ (Calling("tm_start") /\ method'.good)
      BY <2>3 DEF BeginsAsk, OtherMethod
    <3> QED BY <1>1, <1>4, <1>5, <2>1, <3>1, SettingBegins
  <2> QED BY <2>1, <2>2, <2>3
<1>9. CASE StepEnds \/ RunsOut \/ LibraryReturns
  <2>1. UNCHANGED <<vars, time_stamp_offset_>> /\ (UNCHANGED method \/ method' = None)
    BY <1>9 DEF StepEnds, RunsOut, LibraryReturns, dvars, driver, members
  <2> QED BY <1>5, <1>6, <1>7, <2>1 DEF OtherMethod
<1>10. CASE Closes
  <2>1. UNCHANGED time_stamp_offset_ /\ (method' = M("close", "none") \/ UNCHANGED <<vars, method>>)
    BY <1>10 DEF Closes, DriverClose, dvars, driver, members, EndsAtOnce
  <2>2. M("close", "none").name = "close" BY DEF M, None
  <2> QED BY <1>5, <1>7, <2>1, <2>2 DEF OtherMethod
<1>11. ~CallerCalls BY DEF CallerCalls
<1>12. CASE Runs
  <2>1. CASE Host /\ UNCHANGED driver
    <3>1. UNCHANGED <<method, time_stamp_offset_>> BY <2>1 DEF driver, members
    <3>2. Setting => Setting' BY <1>1, <1>4, <2>1, <3>1, SettingHost
    <3> QED BY <1>5, <3>1, <3>2 DEF OtherMethod
  <2>2. method.name # "open" BY <1>4 DEF Tame
  <2>3. CASE StartReturns \/ GetReturns \/ SimpleReturns \/ CloseReturns
    <3>1. UNCHANGED time_stamp_offset_ /\ method' = None
      BY <2>3 DEF StartReturns, GetReturns, SimpleReturns, CloseReturns, members
    <3> QED BY <1>5, <1>6, <3>1 DEF OtherMethod
  <2>4. CASE SetStampReturns
    <3>1. method' = None /\ pc = "ready" /\ method.name = "set_sensor_time_stamp"
          /\ result' = (op = "tm_stop" /\ ret = "NO_ERROR")
          /\ time_stamp_offset_' = IF ~result' THEN time_stamp_offset_
                                   ELSE IF method.good THEN "measured" ELSE "mixed"
      BY <2>4 DEF SetStampReturns, Within
    <3>2. Setting BY <1>5, <3>1 DEF OtherMethod
    <3>3. ~method.good => ~(op = "tm_stop" /\ ret = "NO_ERROR") BY <3>1, <3>2 DEF Setting
    <3> QED BY <1>5, <1>6, <3>1, <3>3 DEF OtherMethod
  <2>5. CASE ReadClock \/ LeaveStampMode
    <3>1. UNCHANGED time_stamp_offset_ /\ method.name = "set_sensor_time_stamp"
      BY <2>5 DEF ReadClock, LeaveStampMode, Within, members
    <3>2. Setting BY <1>5, <3>1 DEF OtherMethod
    <3> QED BY <1>1, <1>4, <1>5, <2>5, <3>1, <3>2, SettingOn
  <2> QED BY <1>12, <2>1, <2>2, <2>3, <2>4, <2>5 DEF Runs
<1>13. CASE World
  <2>1. Environment /\ UNCHANGED <<method, time_stamp_offset_>> BY <1>13 DEF World, driver, members
  <2>2. ASSUME Setting PROVE Setting'
    <3>1. is_active => ~is_sending
      <4>1. op \in SettingOps BY <2>2 DEF Setting
      <4> QED BY <1>1, <4>1, ClockIdle DEF SettingOps
    <3> QED BY <1>1, <1>4, <2>1, <2>2, <3>1, SettingWorld
  <2> QED BY <1>5, <2>1, <2>2 DEF OtherMethod
<1>14. CASE UNCHANGED pvars BY <1>7, <1>14 DEF pvars, dvars, driver, members
<1> QED BY <1>8, <1>9, <1>10, <1>11, <1>12, <1>13, <1>14 DEF Next_, ProgramStep

\* As long as nothing is lost but the cable may be pulled, and no answer is late, the
\* offset a sample keeps of the sensor's clock is computed from times only.
THEOREM SampleOffset ==
  ProgramSpec => [](program # "caller" /\ late = 0 => OffsetMeasured)
<1>1. SetInv => (program # "caller" /\ late = 0 => OffsetMeasured)
  BY DEF SetInv, Undisturbed, OffsetMeasured
<1>2. PlansInv /\ TalkInv /\ SetInv /\ [Next_]_pvars => SetInv' BY SetStep
<1> QED BY <1>1, <1>2, PlansStart, PlansStep, TalkStart, TalkGoesOn, SetStart, PTL DEF ProgramSpec
=============================================================================
