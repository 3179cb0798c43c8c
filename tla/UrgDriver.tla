------------------------------ MODULE UrgDriver ------------------------------
(***************************************************************************)
(* The C++ class Urg_driver (src/current/src/Urg_driver.cpp) over the      *)
(* session of ScipSession.  A method is one or several calls of the C      *)
(* library with what the driver remembers between them: the type measured, *)
(* the texts it has read, the offset of the clock.  The steps of a call    *)
(* are those of ScipSession; urg_open is taken whole, ScipConnect having   *)
(* it in detail.  Methods that only read or convert (index2rad, min_step,  *)
(* max_data_size, ...) change nothing and are in ScanData.                 *)
(***************************************************************************)
EXTENDS ScipSession

CONSTANTS
  Devices,       \* the sensors it may be connected to
  AverageTimes   \* readings of the sensor's clock that are averaged (the code: 10)

ASSUME DriverAssumption == /\ AverageTimes \in Nat \ {0}
                           /\ "empty" \notin Devices /\ "error" \notin Devices

VARIABLES
  last_measure_type_, time_stamp_offset_,   \* members of pImpl
  texts,     \* product_type_, firmware_version_, serial_id_: what each was read from
  method,    \* the method in progress
  result,    \* what the last method returned, as the caller tests it
  size,      \* the caller's vectors: "max_data_size", or as many points as "read"
  device,    \* the sensor at the other end, "none" before one was opened
  kinds      \* for each measurement that was started, its type

members == <<last_measure_type_, time_stamp_offset_, texts>>
driver  == <<members, method, result, size>>
dvars   == <<vars, driver, device, kinds>>

IoTypes      == {"Distance_io", "Distance_intensity_io"}
MeasureTypes == IoTypes \cup {"Distance", "Distance_intensity",
                              "Multiecho", "Multiecho_intensity"}
TextNames    == {"product_type", "firmware_version", "serial_id"}

\* Methods that are one call of the C library, and that call
CallOf == [stop_measurement |-> "stop", laser_off |-> "stop", laser_on |-> "laser_on",
           sleep |-> "sleep", wakeup |-> "wakeup", reboot |-> "reboot",
           start_time_stamp_mode |-> "tm_start", stop_time_stamp_mode |-> "tm_stop",
           get_sensor_time_stamp |-> "time_stamp",
           status |-> "info", state |-> "info", is_stable |-> "info",
           product_type |-> "info", firmware_version |-> "info", serial_id |-> "info"]

None == [name |-> "none", type |-> "none", left |-> 0, good |-> TRUE]
M(name, type) == [None EXCEPT !.name = name, !.type = type]

Idle         == method = None /\ pc = "ready"
Within(name) == method.name = name /\ pc = "ready"

\* One call of the C library begins; a method that makes no call ends at once
Calling(o) == Application /\ op' = o
EndsAtOnce(r) == result' = r /\ UNCHANGED <<vars, method>>

\* The one error that is the driver's own
Mismatch == /\ result' = FALSE /\ last_errno' = "MEASUREMENT_TYPE_MISMATCH"
            /\ UNCHANGED <<flags, config, pc, ret, host, outbox, inbox, link, sensor,
                           budgets, method>>

(***************************************************************************)
(* Calls of the C library as the driver and the C samples make them.       *)
(***************************************************************************)
urg_start_measurement(type, times) ==
  /\ Start \/ NotConnected("start")
  /\ is_active => /\ scanning_remain_times' = times
                  /\ rcv'.type = IF type \in IoTypes THEN "distance_io" ELSE "distance"
  /\ kinds' = IF gen' > gen THEN Append(kinds, type) ELSE kinds

urg_get(type) == Calling("get")

\* A get that is given a place for the time stamp (in C++ the default is NULL)
AsksTime == pc' = "rd_echo" => rcv'.stamp

\* urg_open gives the session Init describes, or none
urg_open(d, succeeds) ==
  /\ is_active' = succeeds /\ is_sending' = ~succeeds /\ is_laser_on' = FALSE
  /\ specified_scan_times' = 0 /\ scanning_remain_times' = 0
  /\ ignore_checkSumError' = 1
  /\ op' = "open" /\ pc' = "ready"
  /\ ret' = IF succeeds THEN "NO_ERROR" ELSE "NO_RESPONSE"
  /\ last_errno' = ret'
  /\ inbox' = <<>>
  /\ IF succeeds
     THEN /\ link' = "up" /\ device' = d /\ outbox' = <<>>
          /\ sensor' = [mode |-> "idle", laser |-> FALSE, rb |-> FALSE,
                        scan |-> "MD", left |-> 0, gen |-> 0]
     ELSE UNCHANGED <<link, device, outbox, sensor>>
  /\ UNCHANGED <<frames, xchg, rcv, after, budgets, kinds>>

(***************************************************************************)
(* The methods.                                                            *)
(***************************************************************************)
\* open: closes what is open, forgets the texts, opens
OpenBegins ==
  /\ Idle /\ is_active
  /\ method' = M("open", "none") /\ Calling("close")
  /\ UNCHANGED <<members, result, size, device, kinds>>

\* A wrong form of the next definition: the texts of the sensor before are kept
OpenKeepsTexts(d) ==
  /\ (Idle \/ Within("open")) /\ ~is_active /\ link # "down"
  /\ \E succeeds \in BOOLEAN : urg_open(d, succeeds) /\ result' = succeeds
  /\ method' = None
  /\ UNCHANGED <<members, size>>

Open(d) ==
  /\ (Idle \/ Within("open")) /\ ~is_active /\ link # "down"
  /\ texts' = [t \in TextNames |-> "empty"]
  /\ \E succeeds \in BOOLEAN : urg_open(d, succeeds) /\ result' = succeeds
  /\ method' = None
  /\ UNCHANGED <<last_measure_type_, time_stamp_offset_, size>>

\* close, and the destructor
DriverClose ==
  /\ Idle
  /\ IF is_active THEN Calling("close") /\ method' = M("close", "none") /\ UNCHANGED result
                  ELSE EndsAtOnce(TRUE)
  /\ UNCHANGED <<members, size, device, kinds>>

start_measurement(type, times) ==
  /\ Idle
  /\ urg_start_measurement(type, times)
  /\ is_active => ignore_checkSumError' = ignore_checkSumError
  /\ method' = M("start_measurement", type)
  /\ UNCHANGED <<members, result, size, device>>

\* A skip_scan outside 0 .. 9 is refused by the library, whatever the type, after it
\* has written a QT when one of its flags is up
start_refused ==
  /\ Idle
  /\ StartRejected /\ ignore_checkSumError' = ignore_checkSumError
  /\ method' = M("start_measurement", "none")
  /\ UNCHANGED <<members, result, size, device, kinds>>

StartReturns ==
  /\ Within("start_measurement")
  /\ result' = (ret = "NO_ERROR")
  /\ last_measure_type_' = IF ret = "NO_ERROR" THEN method.type ELSE last_measure_type_
  /\ method' = None
  /\ UNCHANGED <<vars, time_stamp_offset_, texts, size, device, kinds>>

\* A wrong form of the next definition: whatever is measured is read
get_unchecked(type) ==
  /\ Idle
  /\ method' = M("get", type) /\ size' = "max_data_size" /\ urg_get(type)
  /\ UNCHANGED <<members, result, device, kinds>>

\* get_distance and its variants, for the type measured only; the vectors are
\* made as large as a scan can be
get(type) ==
  /\ Idle
  /\ IF last_measure_type_ # type
     THEN Mismatch /\ UNCHANGED size
     ELSE /\ method' = M("get", type) /\ size' = "max_data_size" /\ urg_get(type)
          /\ UNCHANGED result
  /\ UNCHANGED <<members, device, kinds>>

GetReturns ==
  /\ Within("get")
  /\ result' = (ret \notin Errors)
  /\ size' = IF ret = "POSITIVE" THEN "read" ELSE size
  /\ method' = None
  /\ UNCHANGED <<vars, members, device, kinds>>

\* A method of CallOf; the three texts are asked for once
simple(name) ==
  /\ Idle
  /\ IF name \in TextNames /\ texts[name] # "empty"
     THEN EndsAtOnce(TRUE)
     ELSE Calling(CallOf[name]) /\ method' = M(name, "none") /\ UNCHANGED result
  /\ UNCHANGED <<members, size, device, kinds>>

SimpleReturns ==
  /\ method.name \in DOMAIN CallOf /\ Within(method.name)
  /\ result' = (ret \notin Errors)
  /\ texts' = IF method.name \in TextNames
              THEN [texts EXCEPT ![method.name] =
                      IF ret = "NO_ERROR" THEN device ELSE "error"]
              ELSE texts
  /\ method' = None
  /\ UNCHANGED <<vars, last_measure_type_, time_stamp_offset_, size, device, kinds>>

CloseReturns ==
  /\ Within("close")
  /\ result' = TRUE /\ method' = None
  /\ UNCHANGED <<vars, members, size, device, kinds>>

(***************************************************************************)
(* set_sensor_time_stamp: into time stamp mode, AverageTimes readings, out *)
(* of it; a reading that fails is averaged like the others.                *)
(***************************************************************************)
set_sensor_time_stamp ==
  /\ Idle
  /\ method' = [M("set_sensor_time_stamp", "none") EXCEPT !.left = AverageTimes]
  /\ Calling("tm_start")
  /\ UNCHANGED <<members, result, size, device, kinds>>

\* Whether all readings so far were times: op and ret are those of the last call
AllGood == method.good /\ (op = "time_stamp" => ret = "POSITIVE")

ReadClock ==
  /\ Within("set_sensor_time_stamp")
  /\ method.left > 0
  /\ op = "time_stamp" \/ (op = "tm_start" /\ ret = "NO_ERROR")
  /\ Calling("time_stamp")
  /\ method' = [method EXCEPT !.left = @ - 1, !.good = AllGood]
  /\ UNCHANGED <<members, result, size, device, kinds>>

LeaveStampMode ==
  /\ Within("set_sensor_time_stamp")
  /\ method.left = 0 /\ op = "time_stamp"
  /\ Calling("tm_stop")
  /\ method' = [method EXCEPT !.good = AllGood]
  /\ UNCHANGED <<members, result, size, device, kinds>>

\* A wrong form of the next definition: the second result is not looked at
SetStampTrusts ==
  /\ Within("set_sensor_time_stamp")
  /\ op = "tm_stop" \/ (op = "tm_start" /\ ret # "NO_ERROR")
  /\ result' = (op = "tm_stop")
  /\ time_stamp_offset_' = IF op = "tm_start" THEN time_stamp_offset_
                           ELSE IF method.good THEN "measured" ELSE "mixed"
  /\ method' = None
  /\ UNCHANGED <<vars, last_measure_type_, texts, size, device, kinds>>

SetStampReturns ==
  /\ Within("set_sensor_time_stamp")
  /\ op = "tm_stop" \/ (op = "tm_start" /\ ret # "NO_ERROR")
  /\ result' = (op = "tm_stop" /\ ret = "NO_ERROR")
  /\ time_stamp_offset_' = IF ~result' THEN time_stamp_offset_
                           ELSE IF method.good THEN "measured" ELSE "mixed"
  /\ method' = None
  /\ UNCHANGED <<vars, last_measure_type_, texts, size, device, kinds>>

(***************************************************************************)
(* What goes on by itself inside a method.                                 *)
(***************************************************************************)
Runs ==
  \/ /\ Host
     /\ UNCHANGED <<driver, device, kinds>>
  \/ (\E d \in Devices : method.name = "open" /\ Open(d))
  \/ StartReturns \/ GetReturns \/ SimpleReturns \/ CloseReturns
  \/ ReadClock \/ LeaveStampMode \/ SetStampReturns

World == Environment /\ UNCHANGED <<driver, device, kinds>>

\* The constructor
DriverInit ==
  /\ is_active = FALSE /\ is_sending = TRUE /\ is_laser_on = FALSE
  /\ specified_scan_times = 0 /\ scanning_remain_times = 0
  /\ ignore_checkSumError = 1 /\ last_errno = "NOT_CONNECTED"
  /\ pc = "ready" /\ op = "open" /\ ret = "NOT_CONNECTED"
  /\ frames = <<>>
  /\ xchg = [cmd |-> "QT", line |-> 0, ok |-> FALSE, body |-> FALSE, round |-> 1]
  /\ rcv = [type |-> "unknown", points |-> 0, stamp |-> FALSE, gen |-> 0]
  /\ after = [pc |-> "ready", code |-> "NO_ERROR"]
  /\ outbox = <<>> /\ inbox = <<>> /\ link = "closed"
  /\ sensor = [mode |-> "idle", laser |-> FALSE, rb |-> FALSE,
               scan |-> "MD", left |-> 0, gen |-> 0]
  /\ gen = 0 /\ late = 0 /\ faults = 0
  /\ last_measure_type_ = "Distance" /\ time_stamp_offset_ = "zero"
  /\ texts = [t \in TextNames |-> "empty"]
  /\ method = None /\ result = TRUE /\ size = "read"
  /\ device = "none" /\ kinds = <<>>

(***************************************************************************)
(* Properties.                                                             *)
(***************************************************************************)
\* What follows is said of callers who are never refused a measurement while their
\* laser is lit for nothing: the reply to the QT it costs them is left over, and read
\* for another's.  (With such a refusal BuffersMatch, TrueMeansScan, OwnAnswers and
\* DriverClosesDark fail.)

\* Nothing was lost on the way, except that the cable may have been pulled
Lossless == faults = 0 \/ (faults = 1 /\ link = "down")

\* Unless a line was lost, the data lines a get reads belong to a measurement of
\* the type its buffers are for: three echoes a point never go where one has
\* its place.
BuffersMatch ==
  (Lossless /\ pc = "rd_data" /\ op = "get" /\ frames = <<>> /\ inbox # <<>> /\ inbox[1].kind = "data")
    => kinds[inbox[1].gen] = method.type

\* Unless a line was lost, a get that is not an error has read points, so that
\* true from get_distance and its variants means vectors cut to a scan.  (With a
\* lost line receive_data may return 0: true, and vectors of the largest size.)
TrueMeansScan ==
  (Within("get") /\ Lossless /\ ret \notin Errors) => ret = "POSITIVE"

\* The texts the driver keeps were read from the sensor that is connected now,
\* never from the one before.  (An error message may be among them: product_type
\* keeps that as well.)
TextsAreCurrent ==
  is_active => \A t \in TextNames : texts[t] \in Devices => texts[t] = device

\* Unless a line was lost, the offset of the clock was computed from readings
\* only, never from error codes, although the loop does not look at what it
\* averages: the cable fails for TM2 as well, whose result is looked at.
OffsetMeasured == Lossless => time_stamp_offset_ # "mixed"

\* Unless a line was lost, the sensor of a session closed over a working cable
\* is dark as soon as it has read what was sent to it.  (With the answer to the
\* BM of laser_on lost it stays lit: the flag says it is off.)
DriverClosesDark == Lossless => ClosedIsDark

\* Without faults each command of a method meets its own answer.
OwnAnswers == faults = 0 => AnswersMatch
=============================================================================
