------------------------------- MODULE Programs -------------------------------
(***************************************************************************)
(* The sample programs (src/current/samples), C and C++, run on UrgDriver  *)
(* and ScipSession, and a caller of its own making who keeps to the rules  *)
(* the samples keep to.  A program is its table of calls; a call says what *)
(* its failure does.                                                       *)
(*   src/current/samples/c/get_distance_intensity_io.c is not here: its    *)
(* call of urg_start_measurement lacks the fifth argument.                 *)
(***************************************************************************)
EXTENDS UrgDriver

CONSTANTS
  Running,        \* the programs of this instance
  CaptureTimes,   \* scans a sample gets (the code: 10)
  CallerTypes,    \* what the caller measures,
  CallerMethods,  \* and the methods of CallOf he calls
  Heedless,       \* TRUE: he may be refused a measurement while his laser is lit for nothing
  MaxMethods,     \* bound: methods the caller calls
  MaxUnread       \* bound: lines in flight to the caller (MaxPending: to a sample)

VARIABLES program, place, doing, stage, code, got

progress == <<program, place, doing, stage, code, got>>
pvars    == <<dvars, progress>>

(***************************************************************************)
(* The table.  fail says what the program does when the call fails: it     *)
(* goes on, skips the next call, closes the sensor and returns 1, or       *)
(* returns 1 as it is.                                                     *)
(***************************************************************************)
Step(do, type, times, fail) == [do |-> do, type |-> type, times |-> times, fail |-> fail]
Do(do)       == Step(do, "none", 0, "ignore")
Opened       == Step("open", "none", 0, "leave")
Memory       == Step("malloc", "none", 0, "leave")
Started(t,n) == Step("start_measurement", t, n, "ignore")
Got(t)       == Step("get", t, 0, "close")

Repeated(steps, n) == [i \in 1 .. n * Len(steps) |-> steps[((i - 1) % Len(steps)) + 1]]

\* An endless measurement (in C++ -1, which send_distance_command takes for 0); a
\* handshake for each scan
URG_SCAN_INFINITY == 0
Gets(t)      == <<Started(t, URG_SCAN_INFINITY)>> \o Repeated(<<Got(t)>>, CaptureTimes)
Handshake(t) == Repeated(<<Started(t, 1), Got(t)>>, CaptureTimes)
AllTexts     == <<Do("product_type"), Do("firmware_version"), Do("serial_id"),
                  Do("status"), Do("state")>>

\* samples/c: the sensor is opened, most of them allocate the buffers
c_get_distance            == <<Opened, Memory>> \o Gets("Distance")
c_get_distance_intensity  == <<Opened, Memory>> \o Gets("Distance_intensity")
c_get_distance_io         == <<Opened, Memory>> \o Gets("Distance_io")
c_get_multiecho           == <<Opened, Memory>> \o Gets("Multiecho")
c_get_multiecho_intensity == <<Opened, Memory>> \o Gets("Multiecho_intensity")
c_get_distance_handshake  == <<Opened, Memory>> \o Handshake("Distance")
c_calculate_xy            == <<Opened, Memory, Started("Distance", 1), Got("Distance")>>
c_sensor_parameter        == <<Opened>> \o AllTexts
c_reboot_test             == <<Opened, Do("reboot")>>
c_timeout_test            == <<Opened, Do("raw_read")>>
c_angle_convert_test      == <<Opened>>

\* print_time_stamp returns from the mode's middle when the reading fails
StampOnce == <<Do("start_time_stamp_mode"), Step("get_sensor_time_stamp", "none", 0, "skip"),
               Do("stop_time_stamp_mode")>>
c_sync_time_stamp         == <<Opened>> \o Repeated(StampOnce, 1 + CaptureTimes)

\* samples/cpp, where the vectors need no memory of the program's own
cpp_get_distance              == <<Opened>> \o Gets("Distance")
cpp_get_distance_intensity    == <<Opened>> \o Gets("Distance_intensity")
cpp_get_distance_io           == <<Opened>> \o Gets("Distance_io")
cpp_get_distance_intensity_io == <<Opened>> \o Gets("Distance_intensity_io")
cpp_get_multiecho             == <<Opened>> \o Gets("Multiecho")
cpp_get_multiecho_intensity   == <<Opened>> \o Gets("Multiecho_intensity")
cpp_get_distance_handshake    == <<Opened>> \o Handshake("Distance")
cpp_sensor_parameter          == <<Opened>> \o AllTexts \o <<Do("close")>>

\* print_timestamp of sync_time_stamp.cpp, before and after the clock is set
StampsCpp == <<Do("start_time_stamp_mode")>>
               \o Repeated(<<Do("get_sensor_time_stamp")>>, CaptureTimes)
               \o <<Do("stop_time_stamp_mode")>>
cpp_sync_time_stamp           == <<Opened>> \o StampsCpp
                                   \o <<Do("set_sensor_time_stamp")>> \o StampsCpp

CBody ==
  [c_get_distance |-> c_get_distance, c_get_distance_intensity |-> c_get_distance_intensity,
   c_get_distance_io |-> c_get_distance_io, c_get_multiecho |-> c_get_multiecho,
   c_get_multiecho_intensity |-> c_get_multiecho_intensity,
   c_get_distance_handshake |-> c_get_distance_handshake,
   c_calculate_xy |-> c_calculate_xy, c_sync_time_stamp |-> c_sync_time_stamp,
   c_sensor_parameter |-> c_sensor_parameter, c_reboot_test |-> c_reboot_test,
   c_timeout_test |-> c_timeout_test, c_angle_convert_test |-> c_angle_convert_test]

CppBody ==
  [cpp_get_distance |-> cpp_get_distance,
   cpp_get_distance_intensity |-> cpp_get_distance_intensity,
   cpp_get_distance_io |-> cpp_get_distance_io,
   cpp_get_distance_intensity_io |-> cpp_get_distance_intensity_io,
   cpp_get_multiecho |-> cpp_get_multiecho,
   cpp_get_multiecho_intensity |-> cpp_get_multiecho_intensity,
   cpp_get_distance_handshake |-> cpp_get_distance_handshake,
   cpp_sensor_parameter |-> cpp_sensor_parameter,
   cpp_sync_time_stamp |-> cpp_sync_time_stamp]

InC   == DOMAIN CBody
InCpp == DOMAIN CppBody
Body  == [p \in InC \cup InCpp |-> IF p \in InC THEN CBody[p] ELSE CppBody[p]]

\* The C programs that end without urg_close; in C++ the destructor closes
LeftOpen == {"c_reboot_test", "c_timeout_test", "c_angle_convert_test"}

ASSUME ProgramAssumption == /\ Running \subseteq InC \cup InCpp \cup {"caller"}
                            /\ CaptureTimes \in Nat \ {0}
                            /\ CallerTypes \subseteq MeasureTypes
                            /\ CallerMethods \subseteq DOMAIN CallOf
                            /\ Heedless \in BOOLEAN
                            /\ MaxUnread \in Nat /\ MaxMethods \in Nat

(***************************************************************************)
(* One call of a program.                                                  *)
(***************************************************************************)
\* A call of the C library: there is no driver to remember anything
InLibrary(name, type, call) ==
  /\ Idle /\ call
  /\ method' = M(name, type)
  /\ UNCHANGED <<members, result, size, device>>

PerformInC(s) ==
  \/ /\ s.do = "start_measurement"
     /\ InLibrary("c", s.type, urg_start_measurement(s.type, s.times))
     /\ is_active => ignore_checkSumError' = IF s.type \in IoTypes THEN 0 ELSE 1
  \/ /\ s.do = "get"
     /\ InLibrary("c_get", s.type, urg_get(s.type)) /\ AsksTime /\ UNCHANGED kinds
  \/ /\ s.do \in DOMAIN CallOf
     /\ InLibrary("c", "none", Calling(CallOf[s.do])) /\ UNCHANGED kinds
  \/ /\ s.do = "malloc"
     /\ Idle /\ \E enough \in BOOLEAN : EndsAtOnce(enough)
     /\ UNCHANGED <<members, size, device, kinds>>
  \/ /\ s.do = "raw_read"
     /\ Idle /\ Silent /\ EndsAtOnce(FALSE)
     /\ UNCHANGED <<members, size, device, kinds>>

PerformInCpp(s) ==
  \/ s.do = "start_measurement" /\ start_measurement(s.type, s.times)
  \/ s.do = "get" /\ get(s.type) /\ AsksTime
  \/ s.do \in DOMAIN CallOf /\ simple(s.do)
  \/ s.do = "set_sensor_time_stamp" /\ set_sensor_time_stamp
  \/ s.do = "close" /\ DriverClose

StepBegins ==
  LET s == Body[program][place] IN
  /\ stage = "run" /\ program # "caller" /\ ~doing
  /\ place <= Len(Body[program])
  /\ \/ s.do = "open" /\ \E d \in Devices : Open(d)
     \/ program \in InC /\ PerformInC(s)
     \/ program \in InCpp /\ PerformInCpp(s)
  /\ doing' = TRUE
  /\ UNCHANGED <<program, place, stage, code, got>>

\* A wrong form of the next definition: a get is tested as in calculate_xy.c
LibraryReturnsZero ==
  /\ method.name \in {"c", "c_get"} /\ Within(method.name)
  /\ result' = (ret \notin Errors)
  /\ method' = None
  /\ UNCHANGED <<vars, members, size, device, kinds, progress>>

\* The library returns to a C program, which takes a get of no points for an error
LibraryReturns ==
  /\ method.name \in {"c", "c_get"} /\ Within(method.name)
  /\ result' = IF method.name = "c" \/ program = "c_calculate_xy"
               THEN ret \notin Errors ELSE ret = "POSITIVE"
  /\ method' = None
  /\ UNCHANGED <<vars, members, size, device, kinds, progress>>

\* A wrong form of the next definition: the error return forgets to close
StepEndsUnclosed ==
  LET s == Body[program][place] IN
  /\ doing /\ Idle
  /\ doing' = FALSE
  /\ got' = IF s.do = "get" /\ ret = "POSITIVE" THEN got + 1 ELSE got
  /\ IF result \/ s.fail \in {"ignore", "skip"}
     THEN /\ place' = place + (IF ~result /\ s.fail = "skip" THEN 2 ELSE 1)
          /\ UNCHANGED <<stage, code>>
     ELSE /\ stage' = "exit"
          /\ code' = 1
          /\ UNCHANGED place
  /\ UNCHANGED <<dvars, program>>

\* The program looks at what the call returned
StepEnds ==
  LET s == Body[program][place] IN
  /\ doing /\ Idle
  /\ doing' = FALSE
  /\ got' = IF s.do = "get" /\ ret = "POSITIVE" THEN got + 1 ELSE got
  /\ IF result \/ s.fail \in {"ignore", "skip"}
     THEN /\ place' = place + (IF ~result /\ s.fail = "skip" THEN 2 ELSE 1)
          /\ UNCHANGED <<stage, code>>
     ELSE /\ stage' = IF s.fail = "close" THEN "closing" ELSE "exit"
          /\ code' = 1
          /\ UNCHANGED place
  /\ UNCHANGED <<dvars, program>>

\* The end of main
RunsOut ==
  /\ stage = "run" /\ program # "caller" /\ ~doing
  /\ place = Len(Body[program]) + 1
  /\ stage' = IF program \in LeftOpen THEN "exit" ELSE "closing"
  /\ code' = 0
  /\ UNCHANGED <<dvars, program, place, doing, got>>

\* urg_close or the destructor, and then the process ends
Closes ==
  /\ stage = "closing" /\ Idle
  /\ stage' = IF is_active THEN stage ELSE "exit"
  /\ IF is_active THEN DriverClose ELSE UNCHANGED dvars
  /\ UNCHANGED <<program, place, doing, code, got>>

\* Of a session that is open he asks nothing but to stop while a measurement runs,
\* and gets data only then.
Fits(o) == is_active => (o = "stop" \/ (o = "get" <=> is_sending))

\* The reply to the QT of a start that is refused is skipped only if a measurement runs;
\* a laser lit without one leaves it to the next call.
LitForNothing == is_laser_on /\ ~is_sending

\* A caller with any plan
CallerCalls ==
  /\ program = "caller" /\ Idle
  /\ place <= MaxMethods /\ Len(inbox) <= MaxUnread
  /\ \/ \E t \in CallerTypes, n \in ScanTimes :
          start_measurement(t, n) /\ Fits("start")
     \/ start_refused /\ (LitForNothing => Heedless)
     \/ \E t \in CallerTypes :
          get(t) /\ (t = last_measure_type_ => Fits("get"))
     \/ \E name \in CallerMethods :
          simple(name) /\ Fits(CallOf[name])
     \/ set_sensor_time_stamp /\ Fits("tm_start")
     \/ OpenBegins \/ (\E d \in Devices : Open(d)) \/ DriverClose
  /\ place' = place + 1
  /\ UNCHANGED <<program, doing, stage, code, got>>

ProgramStep == StepBegins \/ StepEnds \/ RunsOut \/ Closes \/ LibraryReturns

Init_ ==
  /\ DriverInit
  /\ program \in Running
  /\ place = 1 /\ doing = FALSE /\ stage = "run" /\ code = 0 /\ got = 0

Next_ == \/ ProgramStep \/ CallerCalls
         \/ (Runs /\ UNCHANGED progress)
         \/ /\ World /\ UNCHANGED progress
            /\ program = "caller" => Len(inbox') <= MaxUnread

\* The process runs, and so do the sensor and its scans
ProgramSpec == Init_ /\ [][Next_]_pvars
               /\ WF_pvars(ProgramStep) /\ WF_pvars(Runs /\ UNCHANGED progress)
               /\ WF_pvars(SensorReply /\ UNCHANGED <<driver, device, kinds, progress>>)
               /\ WF_pvars(SensorScan /\ UNCHANGED <<driver, device, kinds, progress>>)

(***************************************************************************)
(* Properties.                                                             *)
(***************************************************************************)
\* However a sample ends, with 0 or with 1, over a working cable the laser is off
\* as soon as the sensor has read what was sent to it.
DarkAtExit ==
  (stage = "exit" /\ link # "down" /\ outbox = <<>>) => ~sensor.laser

\* The C samples that get scans return 0 only if they got all of them.
ZeroMeansAll ==
  (stage = "exit" /\ code = 0 /\ program \in InC \ {"c_calculate_xy"})
    => got = Cardinality({i \in DOMAIN Body[program] : Body[program][i].do = "get"})

\* Every sample ends, also when the cable is pulled.
SamplesEnd == program # "caller" ~> stage = "exit"
=============================================================================
