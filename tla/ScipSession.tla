----------------------------- MODULE ScipSession -----------------------------
(***************************************************************************)
(* One open session between the C library (src/current/src/urg_sensor.c)   *)
(* and a SCIP 2 range sensor.  The host is the single thread that calls    *)
(* the urg_* functions; every line it reads with connection_readline is    *)
(* one step, so the sensor, the cable and the read timeout interleave with *)
(* it.  Messages are whole lines; what the lines spell out is abstracted   *)
(* to the kind of line, the status it carries and whether its checksum     *)
(* holds.  Init is the state urg_open leaves behind.                       *)
(***************************************************************************)
EXTENDS Naturals, Integers, Sequences, FiniteSets

CONSTANTS
  Calls,          \* the API functions the application calls
  ScanTimes,      \* values of scan_times it passes to urg_start_measurement
  IgnoreChoices,  \* values of ignore_checkSumError it passes (0 or 1)
  IoChoices,      \* TRUE in it: it also measures with the I/O line (types *_IO)
  DataLines,      \* data lines of one scan
  Careful,        \* TRUE: the application makes only the calls that fit (see Fitting)
  Prompt,         \* TRUE: the sensor answers a command before its next scan
  FaultKinds,     \* what may happen to the cable: "garble", "lose", "break"
  MaxStarts,      \* bound: accepted calls of urg_start_measurement
  MaxPending,     \* bound: lines in flight beyond which no scan is added and no call made
  MaxBacklog,     \* bound: unread commands beyond which no new call is made
  MaxLate,        \* bound: reads that time out although an answer is coming
  MaxFaults       \* bound: faults of the cable and late answers together

Functions == {"start", "get", "stop", "wakeup", "sleep", "laser_on",
              "tm_start", "tm_stop", "time_stamp", "info", "reboot", "close"}

ASSUME CallsAssumption  == Calls \subseteq Functions
ASSUME ChoiceAssumption == /\ ScanTimes \subseteq Nat
                           /\ IgnoreChoices \subseteq {0, 1}
                           /\ IoChoices \subseteq BOOLEAN
                           /\ Careful \in BOOLEAN /\ Prompt \in BOOLEAN
                           /\ FaultKinds \subseteq {"garble", "lose", "break"}
ASSUME BoundAssumption  == /\ DataLines \in Nat \ {0}
                           /\ MaxStarts \in Nat /\ MaxPending \in Nat
                           /\ MaxBacklog \in Nat /\ MaxLate \in Nat
                           /\ MaxFaults \in Nat

VARIABLES
  is_active, is_sending, is_laser_on,               \* flags of urg_t
  specified_scan_times, scanning_remain_times,      \* scan counters of urg_t
  ignore_checkSumError, last_errno,
  pc, op, ret,    \* where the host is, the API call, the value being returned
  frames,         \* activations of urg_stop_measurement: reads done, and the
                  \* value receive_data held when it called it ("none": no such call)
  xchg,           \* locals of scip_response
  rcv,            \* locals of receive_data
  after,          \* where ignore_receive_data resumes its caller, with which code
  outbox, inbox,  \* commands to the sensor, lines to the host
  link, sensor,
  gen,            \* how many measurements were started
  late, faults    \* what was used of MaxLate, MaxFaults

flags   == <<is_active, is_sending, is_laser_on>>
config  == <<specified_scan_times, scanning_remain_times, ignore_checkSumError>>
host    == <<op, frames, xchg, rcv, after>>
budgets == <<gen, late, faults>>
vars    == <<flags, config, last_errno, pc, ret, host,
             outbox, inbox, link, sensor, budgets>>

(***************************************************************************)
(* Constants of the code, commands and lines.                              *)
(***************************************************************************)
MAX_READ_TIMES == 3
MAX_SCANS      == 100   \* from this scan_times on the sensor measures forever

Single     == {"GD", "GF"}
Continuous == {"MD", "MF"}
Lighting   == {"BM"} \cup Continuous
CommandNames == Single \cup Continuous
                  \cup {"QT", "BM", "TM0", "TM1", "TM2", "RB", "%SL", "VV"}
Command == [name : CommandNames, times : Nat, gen : Nat]

Errors == {"NOT_CONNECTED", "INVALID_RESPONSE", "NO_RESPONSE", "SEND_ERROR",
           "RECEIVE_ERROR", "CHECKSUM_ERROR", "INVALID_PARAMETER", "UNKNOWN_ERROR",
           "MEASUREMENT_TYPE_MISMATCH"}    \* (the last one is left by the C++ driver)
Codes  == Errors \cup {"NO_ERROR", "POSITIVE"}    \* < 0, 0, > 0

LineKinds == {"echo", "status", "stamp", "io", "data", "info", "blank", "timeout"}
LineVals  == CommandNames \cup {"00", "01", "02", "0E", "99", "err", "junk", ""}
Line      == [kind : LineKinds, val : LineVals, good : BOOLEAN, gen : Nat]

Plain(k)   == [kind |-> k, val |-> "", good |-> TRUE, gen |-> 0]
Blank      == Plain("blank")
Timeout    == Plain("timeout")
Echo(c)    == [kind |-> "echo", val |-> c, good |-> FALSE, gen |-> 0]
Status(s)  == [kind |-> "status", val |-> s, good |-> TRUE, gen |-> 0]
Datum(g)   == [kind |-> "data", val |-> "", good |-> TRUE, gen |-> g]

\* What connection_readline returns for a line: -1, 0 or its length
Failed(l)   == l = Timeout
Empty(l)    == l.kind = "blank"
NonEmpty(l) == ~Failed(l) /\ ~Empty(l)

\* parse_distance_echoback: the measurement type an echoback announces
TypeOf(l) ==
  IF l.kind # "echo"                     THEN "unknown"
  ELSE IF l.val = "QT"                   THEN "stop"
  ELSE IF l.val \in {"GD", "MD"}         THEN "distance"
  ELSE IF l.val \in {"GF", "MF"}         THEN "distance_io"
  ELSE "unknown"

(***************************************************************************)
(* Reading and writing.                                                    *)
(***************************************************************************)
Silent == /\ inbox = <<>>
          /\ ~(link = "up" /\ (outbox # <<>> \/ sensor.mode = "measure"))

Mishaps == late + faults < MaxFaults

\* A read returns the next line, or times out: because nothing is coming, or
\* because what is coming is late.
Incoming == {inbox[i] : i \in {1} \cap DOMAIN inbox}
              \cup (IF Silent \/ (late < MaxLate /\ Mishaps) THEN {Timeout} ELSE {})

Reads(l) == IF Failed(l)
            THEN /\ late' = IF Silent THEN late ELSE late + 1
                 /\ UNCHANGED inbox
            ELSE inbox' = Tail(inbox) /\ UNCHANGED late

Sent(c, n, g) == IF link = "up"
                 THEN Append(outbox, [name |-> c, times |-> n, gen |-> g])
                 ELSE outbox

Writes(c) == outbox' = Sent(c, 0, 0)

Returns(code) == pc' = "ready" /\ ret' = code
Fails(code)   == Returns(code) /\ last_errno' = code

Resume(a) == /\ pc' = a.pc
             /\ ret' = a.code
             /\ last_errno' = IF a.pc = "close" THEN last_errno ELSE a.code

\* A wrong form of the next definition: the reply is drained, the QT forgotten
DrainWithoutQt(a) ==
  IF is_sending \/ is_laser_on
  THEN /\ is_laser_on' = FALSE
       /\ IF is_sending
          THEN pc' = "drain" /\ after' = a /\ UNCHANGED <<ret, last_errno>>
          ELSE Resume(a) /\ UNCHANGED after
       /\ UNCHANGED <<is_active, is_sending, outbox>>
  ELSE Resume(a) /\ UNCHANGED <<flags, after, outbox>>

\* Another: only urg_laser_on counts as lighting the laser
QtForLaserOnly(a) ==
  IF is_laser_on
  THEN /\ Writes("QT")
       /\ is_laser_on' = FALSE
       /\ Resume(a)
       /\ UNCHANGED <<is_active, is_sending, after>>
  ELSE Resume(a) /\ UNCHANGED <<flags, after, outbox>>

\* ignore_receive_data_with_qt, and then the rest of its caller
IgnoreReceiveDataWithQt(a) ==
  IF is_sending \/ is_laser_on
  THEN /\ Writes("QT")
       /\ is_laser_on' = FALSE
       /\ IF is_sending
          THEN pc' = "drain" /\ after' = a /\ UNCHANGED <<ret, last_errno>>
          ELSE Resume(a) /\ UNCHANGED after
       /\ UNCHANGED <<is_active, is_sending>>
  ELSE Resume(a) /\ UNCHANGED <<flags, after, outbox>>

\* The first lines of scip_response: write the command, prepare to read
Exchange(c, round) ==
  /\ Writes(c)
  /\ xchg' = [cmd |-> c, line |-> 0, ok |-> FALSE, body |-> FALSE, round |-> round]
  /\ IF link = "up"
     THEN pc' = "xchg" /\ UNCHANGED <<ret, last_errno>>
     ELSE pc' = "xchg_done" /\ ret' = "SEND_ERROR" /\ last_errno' = "SEND_ERROR"

ReceiveData(stamp) ==
  /\ pc' = "rd_echo"
  /\ rcv' = [type |-> "unknown", points |-> 0, stamp |-> stamp, gen |-> 0]

(***************************************************************************)
(* The API calls.                                                          *)
(***************************************************************************)
\* The calls that make sense to an application that keeps to the samples: it gets
\* scans of a running measurement only and stops it before it asks for anything
\* else; it wakes a sensor it put to sleep, leaves the time stamp mode it entered,
\* and closes the session after it lit the laser for nothing.
Fitting ==
  {"close"} \cup
  CASE is_sending             -> {"get", "stop"}
    [] sensor.mode = "sleep"  -> {"wakeup"}
    [] sensor.mode = "adjust" -> {"time_stamp", "tm_stop"}
    [] op = "laser_on"        -> {"laser_on"}
    [] OTHER                  -> Functions \ {"get"}

Call(o) ==
  /\ pc = "ready" /\ is_active
  /\ o \in Calls
  /\ o # "close" => Len(inbox) <= MaxPending /\ Len(outbox) <= MaxBacklog
  /\ Careful => o \in Fitting
  /\ op' = o
  /\ UNCHANGED <<inbox, link, sensor, late, faults>>

\* Every function but urg_close returns at once on a session that is not open.
NotConnected(o) ==
  /\ pc = "ready" /\ ~is_active
  /\ o \in Calls \ {"close"}
  /\ op' = o
  /\ Returns("NOT_CONNECTED")
  /\ last_errno' = IF o = "info" THEN last_errno ELSE "NOT_CONNECTED"
  /\ UNCHANGED <<flags, config, frames, xchg, rcv, after,
                 outbox, inbox, link, sensor, budgets>>

\* urg_start_measurement with a bad skip_scan or ignore_checkSumError, or (the
\* flag having been stored by then) with a type that cannot be measured
StartRejected ==
  /\ Call("start")
  /\ IgnoreReceiveDataWithQt([pc |-> "ready", code |-> "INVALID_PARAMETER"])
  /\ ignore_checkSumError' \in {ignore_checkSumError} \cup IgnoreChoices
  /\ UNCHANGED <<specified_scan_times, scanning_remain_times,
                 frames, xchg, rcv, gen>>

\* urg_start_measurement and the first half of send_distance_command.  Between
\* the halves rcv.type keeps what the code has in the parameter scan_type_ch.
Start ==
  /\ Call("start")
  /\ gen < MaxStarts /\ gen' = gen + 1
  /\ \E n \in ScanTimes, ic \in IgnoreChoices, io \in IoChoices :
       LET single    == n = 1
           specified == IF n >= MAX_SCANS THEN 0 ELSE n
       IN
       /\ specified_scan_times' = specified
       /\ scanning_remain_times' = n
       /\ ignore_checkSumError' = ic
       /\ is_sending' = TRUE
       /\ rcv' = [rcv EXCEPT !.type = IF io THEN "distance_io" ELSE "distance"]
       /\ IF single /\ ~is_laser_on
          THEN Exchange("BM", 1)
          ELSE /\ IF single
                  THEN pc' = "send_single" /\ UNCHANGED <<outbox, ret>>
                       /\ last_errno' = "NO_ERROR"
                  ELSE /\ outbox' = Sent(IF io THEN "MF" ELSE "MD", specified, gen')
                       /\ IF link = "up" THEN Returns("NO_ERROR") /\ UNCHANGED last_errno
                                         ELSE Fails("SEND_ERROR")
               /\ UNCHANGED xchg
  /\ UNCHANGED <<is_active, is_laser_on, frames, after>>

\* The second half of send_distance_command for one scan
SendSingle ==
  /\ pc = "send_single"
  /\ outbox' = Sent(IF rcv.type = "distance_io" THEN "GF" ELSE "GD", 1, gen)
  /\ IF link = "up" THEN Returns("NO_ERROR") /\ UNCHANGED last_errno
                    ELSE Fails("SEND_ERROR")
  /\ UNCHANGED <<flags, config, host, inbox, link, sensor, budgets>>

\* urg_get_distance and its variants, with or without a place for the timestamp
Get ==
  /\ Call("get")
  /\ \E stamp \in BOOLEAN : ReceiveData(stamp)
  /\ UNCHANGED <<flags, config, last_errno, ret, frames, xchg, after, outbox, gen>>

\* urg_stop_measurement, urg_laser_off, urg_wakeup and the start of urg_sleep
Stop(o) ==
  /\ Call(o)
  /\ Writes("QT")
  /\ IF link = "up"
     THEN /\ frames' = <<[reads |-> 0, held |-> "none"]>>
          /\ ReceiveData(FALSE)
          /\ UNCHANGED <<ret, last_errno>>
     ELSE /\ pc' = "stop_done" /\ ret' = "SEND_ERROR" /\ last_errno' = "SEND_ERROR"
          /\ UNCHANGED <<frames, rcv>>
  /\ UNCHANGED <<flags, config, xchg, after, gen>>

\* A call that is one exchange of scip_response
Ask(o, c) ==
  /\ Call(o)
  /\ Exchange(c, 1)
  /\ UNCHANGED <<flags, config, frames, rcv, after, gen>>

LaserOn ==
  IF is_laser_on
  THEN /\ Call("laser_on")
       /\ Returns("NO_ERROR") /\ last_errno' = "NO_ERROR"
       /\ UNCHANGED <<flags, config, frames, xchg, rcv, after, outbox, gen>>
  ELSE Ask("laser_on", "BM")

\* A wrong form of the next definition: closed without turning the laser off
CloseAtOnce ==
  /\ Call("close")
  /\ pc' = "close"
  /\ UNCHANGED <<flags, config, last_errno, ret, frames, xchg, rcv, after, outbox, gen>>

Close ==
  /\ Call("close")
  /\ IgnoreReceiveDataWithQt([pc |-> "close", code |-> ret])
  /\ UNCHANGED <<config, frames, xchg, rcv, gen>>

ConnectionClose ==
  /\ link' = IF link = "up" THEN "closed" ELSE link
  /\ inbox' = <<>>
  /\ is_active' = FALSE

CloseDone ==
  /\ pc = "close"
  /\ ConnectionClose
  /\ Returns("NO_ERROR")
  /\ UNCHANGED <<is_sending, is_laser_on, config, last_errno, host,
                 outbox, sensor, budgets>>

(***************************************************************************)
(* scip_response, one line at a time, and what its callers do with it.     *)
(***************************************************************************)
\* The statuses expected_ret admits.  strtol reads the refusal 0E as 0.
Expected(c) == {"00", "0E"} \cup (CASE c = "BM" -> {"02"}
                                    [] c = "RB" -> {"01"}
                                    [] OTHER    -> {})

\* The check a line fails, in the order of the code
Rejection(l) ==
  IF Failed(l)                                        THEN "NO_RESPONSE"
  ELSE IF xchg.line = 0 /\ l # Echo(xchg.cmd)         THEN "INVALID_RESPONSE"
  ELSE IF xchg.line > 0 /\ NonEmpty(l) /\ ~l.good     THEN "CHECKSUM_ERROR"
  ELSE IF xchg.line = 1 /\ l.kind # "status"          THEN "INVALID_RESPONSE"
  ELSE "NO_ERROR"

\* A wrong form of the next definition: done with the status line, the blank
\* line that ends the answer is left to the next reader
ScipResponseNoBlank ==
  /\ pc = "xchg"
  /\ \E l \in Incoming :
       /\ Reads(l)
       /\ IF Rejection(l) # "NO_ERROR"
          THEN pc' = "xchg_done" /\ ret' = Rejection(l) /\ last_errno' = Rejection(l)
          ELSE /\ UNCHANGED last_errno
               /\ IF xchg.line = 1
                  THEN /\ pc' = "xchg_done"
                       /\ ret' = IF l.val \in Expected(xchg.cmd) THEN "POSITIVE"
                                                                 ELSE "UNKNOWN_ERROR"
                  ELSE UNCHANGED <<pc, ret>>
       /\ xchg' = [xchg EXCEPT !.line = 1]
  /\ UNCHANGED <<flags, config, op, frames, rcv, after, outbox, link, sensor,
                 gen, faults>>

ScipResponse ==
  /\ pc = "xchg"
  /\ \E l \in Incoming :
       /\ Reads(l)
       /\ IF Rejection(l) # "NO_ERROR"
          THEN /\ pc' = "xchg_done" /\ ret' = Rejection(l) /\ last_errno' = Rejection(l)
               /\ UNCHANGED xchg
          ELSE /\ UNCHANGED last_errno
               /\ IF Empty(l)
                  THEN /\ pc' = "xchg_done"
                       /\ ret' = IF xchg.ok THEN "POSITIVE" ELSE "UNKNOWN_ERROR"
                       /\ UNCHANGED xchg
                  ELSE /\ xchg' = [xchg EXCEPT
                            !.line = IF @ < 2 THEN @ + 1 ELSE @,
                            !.ok   = @ \/ (xchg.line = 1 /\ l.val \in Expected(xchg.cmd)),
                            !.body = @ \/ xchg.line = 2]
                       /\ UNCHANGED <<pc, ret>>
  /\ UNCHANGED <<flags, config, op, frames, rcv, after, outbox, link, sensor,
                 gen, faults>>

Answered(o) == pc = "xchg_done" /\ op = o
AfterAnswer == UNCHANGED <<config, op, frames, rcv, after, sensor, budgets>>

\* A wrong form of the next definition: success is not noted in is_laser_on
LaserOnForgets ==
  /\ Answered("laser_on") \/ Answered("start")
  /\ ret' = IF ret = "POSITIVE" THEN "NO_ERROR" ELSE ret
  /\ pc' = IF op = "start" THEN "send_single" ELSE "ready"
  /\ UNCHANGED <<flags, last_errno, xchg, outbox, inbox, link>>
  /\ AfterAnswer

\* urg_laser_on, called by the application or by send_distance_command, which
\* ignores what it returns
LaserOnDone ==
  /\ Answered("laser_on") \/ Answered("start")
  /\ is_laser_on' = (is_laser_on \/ ret = "POSITIVE")
  /\ ret' = IF ret = "POSITIVE" THEN "NO_ERROR" ELSE ret
  /\ pc' = IF op = "start" THEN "send_single" ELSE "ready"
  /\ UNCHANGED <<is_active, is_sending, last_errno, xchg, outbox, inbox, link>>
  /\ AfterAnswer

\* urg_start_time_stamp_mode, urg_stop_time_stamp_mode
TimeStampModeDone ==
  /\ Answered("tm_start") \/ Answered("tm_stop")
  /\ IF ret = "POSITIVE" THEN Returns("NO_ERROR") /\ UNCHANGED last_errno
                         ELSE Fails("INVALID_RESPONSE")
  /\ UNCHANGED <<flags, xchg, outbox, inbox, link>>
  /\ AfterAnswer

TimeStampDone ==
  /\ Answered("time_stamp")
  /\ IF ret = "POSITIVE" /\ ~xchg.body THEN Fails("RECEIVE_ERROR")
                                       ELSE Returns(ret) /\ UNCHANGED last_errno
  /\ UNCHANGED <<flags, xchg, outbox, inbox, link>>
  /\ AfterAnswer

\* receive_command_response and its callers: a message, last_errno untouched
InfoDone ==
  /\ Answered("info")
  /\ Returns(IF ret = "POSITIVE" /\ xchg.body THEN "NO_ERROR" ELSE "RECEIVE_ERROR")
  /\ UNCHANGED <<flags, last_errno, xchg, outbox, inbox, link>>
  /\ AfterAnswer

SleepDone ==
  /\ Answered("sleep")
  /\ Returns(IF ret = "POSITIVE" THEN "NO_ERROR" ELSE ret)
  /\ UNCHANGED <<flags, last_errno, xchg, outbox, inbox, link>>
  /\ AfterAnswer

\* urg_reboot: a second RB, then the connection is closed without a QT
RebootDone ==
  /\ Answered("reboot")
  /\ CASE ret # "POSITIVE" ->
            Fails("INVALID_RESPONSE") /\ UNCHANGED <<is_active, xchg, outbox, inbox, link>>
       [] ret = "POSITIVE" /\ xchg.round = 1 ->
            Exchange("RB", 2) /\ UNCHANGED <<is_active, inbox, link>>
       [] ret = "POSITIVE" /\ xchg.round = 2 ->
            /\ ConnectionClose
            /\ Returns("NO_ERROR") /\ last_errno' = "NO_ERROR"
            /\ UNCHANGED <<xchg, outbox>>
  /\ UNCHANGED <<is_sending, is_laser_on>>
  /\ AfterAnswer

(***************************************************************************)
(* receive_data.  rd_ret is its return, with the value in ret.             *)
(***************************************************************************)
Reading(label) == pc = label /\ UNCHANGED <<op, xchg, link, sensor, gen, faults>>

\* return code;   and   return set_errno_and_return(urg, code);
GoRet(code)   == pc' = "rd_ret" /\ ret' = code
FailRet(code) == GoRet(code) /\ last_errno' = code
Abort(label, code) == IgnoreReceiveDataWithQt([pc |-> label, code |-> code])
Untouched == UNCHANGED <<flags, after, outbox>>

RdEcho ==
  /\ Reading("rd_echo")
  /\ \E l \in Incoming :
       /\ Reads(l)
       /\ IF NonEmpty(l)
          THEN /\ pc' = "rd_status"
               /\ rcv' = [rcv EXCEPT !.type = TypeOf(l)]
               /\ UNCHANGED <<ret, last_errno>>
          ELSE FailRet("NO_RESPONSE") /\ UNCHANGED rcv
  /\ Untouched /\ UNCHANGED <<config, frames>>

RdStatus ==
  /\ Reading("rd_status")
  /\ \E l \in Incoming :
       LET single == specified_scan_times = 1
           Goto(label) == pc' = label /\ Untouched /\ UNCHANGED <<ret, last_errno>>
       IN
       /\ Reads(l)
       /\ CASE l.kind # "status" ->
                 Abort("rd_ret", "INVALID_RESPONSE")
            [] l.kind = "status" /\ ~l.good /\ ignore_checkSumError = 0 ->
                 \* after the QT, *time_stamp = 0 without a test for NULL
                 Abort(IF rcv.stamp THEN "rd_ret" ELSE "crashed", "CHECKSUM_ERROR")
            [] OTHER ->
                 IF rcv.type = "stop" THEN Goto("rd_qt")
                 ELSE IF ~single /\ l.val = "00" THEN Goto("rd_ack")
                 ELSE IF l.val # (IF single THEN "00" ELSE "99")
                      THEN Abort("rd_ret", "INVALID_RESPONSE")
                 ELSE Goto(IF rcv.type = "distance_io" THEN "rd_io" ELSE "rd_stamp")
  /\ UNCHANGED <<config, frames, rcv>>

\* A wrong form of the next definition: the line is not read
RdQtKeepsBlank ==
  /\ Reading("rd_qt")
  /\ GoRet("NO_ERROR")
  /\ Untouched /\ UNCHANGED <<config, frames, rcv, last_errno, inbox, late>>

\* The blank line that ends the reply to QT
RdQt ==
  /\ Reading("rd_qt")
  /\ \E l \in Incoming :
       /\ Reads(l)
       /\ IF Empty(l) THEN GoRet("NO_ERROR") /\ UNCHANGED last_errno
                      ELSE FailRet("INVALID_RESPONSE")
  /\ Untouched /\ UNCHANGED <<config, frames, rcv>>

\* A wrong form of the next definition: the acknowledgement taken for the scan
RdAckReturns ==
  /\ Reading("rd_ack")
  /\ \E l \in Incoming :
       /\ Reads(l)
       /\ IF Empty(l)
          THEN GoRet("NO_ERROR") /\ Untouched /\ UNCHANGED last_errno
          ELSE Abort("rd_ret", "INVALID_RESPONSE")
  /\ UNCHANGED <<config, frames, rcv>>

\* The blank line that ends the acknowledgement of an Mx command; the data
\* follow: receive_data calls itself
RdAck ==
  /\ Reading("rd_ack")
  /\ \E l \in Incoming :
       /\ Reads(l)
       /\ IF Empty(l)
          THEN ReceiveData(rcv.stamp) /\ Untouched /\ UNCHANGED <<ret, last_errno>>
          ELSE Abort("rd_ret", "INVALID_RESPONSE") /\ UNCHANGED rcv
  /\ UNCHANGED <<config, frames>>

RdIo ==
  /\ Reading("rd_io")
  /\ \E l \in Incoming : Reads(l)
  /\ pc' = "rd_stamp"
  /\ Untouched /\ UNCHANGED <<config, frames, rcv, ret, last_errno>>

RdStamp ==
  /\ Reading("rd_stamp")
  /\ \E l \in Incoming : Reads(l)
  /\ IF rcv.type = "unknown"
     THEN pc' = "rd_count" /\ ret' = "NO_ERROR"
     ELSE pc' = "rd_data" /\ UNCHANGED ret
  /\ Untouched /\ UNCHANGED <<config, frames, rcv, last_errno>>

\* receive_length_data: a line holds points unless it is as short as a status
RdData ==
  /\ Reading("rd_data")
  /\ \E l \in Incoming :
       LET points == rcv.points + (IF l.kind = "status" THEN 0 ELSE 1) IN
       /\ Reads(l)
       /\ IF ~NonEmpty(l)
          THEN /\ pc' = "rd_count"
               /\ ret' = IF rcv.points > 0 THEN "POSITIVE" ELSE "NO_ERROR"
               /\ Untouched /\ UNCHANGED <<rcv, last_errno>>
          ELSE IF ~l.good /\ ignore_checkSumError = 0
          THEN Abort("rd_count", "CHECKSUM_ERROR") /\ UNCHANGED rcv
          ELSE IF points > DataLines
          THEN Abort("rd_count", "RECEIVE_ERROR") /\ UNCHANGED rcv
          ELSE /\ rcv' = [rcv EXCEPT !.points = points, !.gen = l.gen]
               /\ Untouched /\ UNCHANGED <<pc, ret, last_errno>>
  /\ UNCHANGED <<config, frames>>

\* Two wrong forms of the next definition: the scans of an endless measurement
\* are counted as well; the last scan does not stop the measurement
RdCountEndless ==
  /\ Reading("rd_count")
  /\ scanning_remain_times' = scanning_remain_times - 1
  /\ pc' = "rd_ret"
  /\ UNCHANGED <<flags, after, specified_scan_times, ignore_checkSumError,
                 ret, last_errno, outbox, frames, rcv, inbox, late>>

RdCountOnly ==
  LET counts == specified_scan_times > 1 /\ scanning_remain_times > 0 IN
  /\ Reading("rd_count")
  /\ scanning_remain_times' = scanning_remain_times - (IF counts THEN 1 ELSE 0)
  /\ pc' = "rd_ret"
  /\ UNCHANGED <<flags, after, specified_scan_times, ignore_checkSumError,
                 ret, last_errno, outbox, frames, rcv, inbox, late>>

\* The end of receive_data: the scan is counted, whatever came of it, and the
\* last one calls urg_stop_measurement, whose result is ignored
RdCount ==
  LET counts == specified_scan_times > 1 /\ scanning_remain_times > 0
      last   == counts /\ scanning_remain_times = 1
  IN
  /\ Reading("rd_count")
  /\ scanning_remain_times' = scanning_remain_times - (IF counts THEN 1 ELSE 0)
  /\ IF last /\ link = "up"
     THEN /\ Writes("QT")
          /\ frames' = Append(frames, [reads |-> 0, held |-> ret])
          /\ ReceiveData(FALSE)
          /\ UNCHANGED last_errno
     ELSE /\ pc' = "rd_ret"
          /\ last_errno' = IF last THEN "SEND_ERROR" ELSE last_errno
          /\ UNCHANGED <<outbox, frames, rcv>>
  /\ UNCHANGED <<flags, after, specified_scan_times, ignore_checkSumError,
                 ret, inbox, late>>

GetDone ==
  /\ Reading("rd_ret")
  /\ frames = <<>>
  /\ Returns(ret)
  /\ Untouched
  /\ UNCHANGED <<config, frames, rcv, last_errno, inbox, late>>

(***************************************************************************)
(* The loop of urg_stop_measurement around receive_data, and the callers.  *)
(***************************************************************************)
top == frames[Len(frames)]

\* return from the innermost urg_stop_measurement: to the API call, or into
\* the receive_data that called it, which returns the value it held
StopReturns ==
  /\ frames' = SubSeq(frames, 1, Len(frames) - 1)
  /\ IF top.held = "none" THEN pc' = "stop_done" /\ UNCHANGED ret
                          ELSE pc' = "rd_ret" /\ ret' = top.held

\* A wrong form of the next definition: a scan received passes for the reply to QT
StopLoopTakesScan ==
  /\ Reading("rd_ret")
  /\ frames # <<>>
  /\ IF ret \notin Errors
     THEN /\ is_laser_on' = FALSE /\ is_sending' = FALSE
          /\ last_errno' = "NO_ERROR"
          /\ StopReturns
          /\ UNCHANGED rcv
     ELSE /\ IF top.reads + 1 < MAX_READ_TIMES
             THEN /\ frames' = [frames EXCEPT ![Len(frames)].reads = @ + 1]
                  /\ ReceiveData(FALSE) /\ UNCHANGED ret
             ELSE StopReturns /\ UNCHANGED rcv
          /\ UNCHANGED <<is_sending, is_laser_on, last_errno>>
  /\ UNCHANGED <<is_active, config, after, outbox, inbox, late>>

StopLoop ==
  /\ Reading("rd_ret")
  /\ frames # <<>>
  /\ IF ret = "NO_ERROR"
     THEN /\ is_laser_on' = FALSE /\ is_sending' = FALSE
          /\ last_errno' = "NO_ERROR"
          /\ StopReturns
          /\ UNCHANGED rcv
     ELSE /\ IF top.reads + 1 < MAX_READ_TIMES
             THEN /\ frames' = [frames EXCEPT ![Len(frames)].reads = @ + 1]
                  /\ ReceiveData(FALSE) /\ UNCHANGED ret
             ELSE StopReturns /\ UNCHANGED rcv
          /\ UNCHANGED <<is_sending, is_laser_on, last_errno>>
  /\ UNCHANGED <<is_active, config, after, outbox, inbox, late>>

\* Back in the API function: urg_sleep goes on to %SL, urg_wakeup returns void
StopDone ==
  /\ pc = "stop_done"
  /\ IF op = "sleep" /\ ret = "NO_ERROR"
     THEN Exchange("%SL", 1)
     ELSE Returns(ret) /\ UNCHANGED <<xchg, outbox, last_errno>>
  /\ UNCHANGED <<flags, config, op, frames, rcv, after, inbox, link, sensor, budgets>>

\* A wrong form of the next definition: reads to the end of a message
DrainToBlank ==
  /\ Reading("drain")
  /\ \E l \in Incoming :
       /\ Reads(l)
       /\ IF Empty(l) THEN is_sending' = FALSE /\ Resume(after)
                      ELSE UNCHANGED <<is_sending, pc, ret, last_errno>>
  /\ UNCHANGED <<is_active, is_laser_on, config, frames, rcv, after, outbox>>

\* ignore_receive_data: read until a timeout
Drain ==
  /\ Reading("drain")
  /\ \E l \in Incoming :
       /\ Reads(l)
       /\ IF Failed(l) THEN is_sending' = FALSE /\ Resume(after)
                       ELSE UNCHANGED <<is_sending, pc, ret, last_errno>>
  /\ UNCHANGED <<is_active, is_laser_on, config, frames, rcv, after, outbox>>

Host ==
  \/ SendSingle \/ CloseDone
  \/ ScipResponse \/ LaserOnDone \/ TimeStampModeDone \/ TimeStampDone
  \/ InfoDone \/ SleepDone \/ RebootDone
  \/ RdEcho \/ RdStatus \/ RdQt \/ RdAck \/ RdIo \/ RdStamp \/ RdData
  \/ RdCount \/ GetDone \/ StopLoop \/ StopDone \/ Drain

Application ==
  \/ \E o \in Functions : NotConnected(o)
  \/ StartRejected \/ Start \/ Get \/ LaserOn \/ Close
  \/ \E o \in {"stop", "wakeup", "sleep"} : Stop(o)
  \/ Ask("tm_start", "TM0") \/ Ask("time_stamp", "TM1") \/ Ask("tm_stop", "TM2")
  \/ Ask("info", "VV") \/ Ask("reboot", "RB")

(***************************************************************************)
(* The sensor and the cable, as the library relies on them.                *)
(***************************************************************************)
HostUnchanged == UNCHANGED <<flags, config, last_errno, pc, ret, host>>

Delivered(lines) == IF link = "up" THEN inbox \o lines ELSE inbox

ScanLines(name, status, g) ==
  <<Echo(name), Status(status)>>
    \o (IF name \in {"GF", "MF"} THEN <<Plain("io")>> ELSE <<>>)
    \o <<Plain("stamp")>> \o [i \in 1 .. DataLines |-> Datum(g)] \o <<Blank>>

\* The commands the sensor carries out in the mode it is in
Accepts(c) ==
  LET awake == sensor.mode \in {"idle", "measure"} IN
  CASE c = "QT"                              -> sensor.mode # "adjust"
    [] c \in Continuous \cup {"BM", "VV"}    -> awake
    [] c \in Single                          -> sensor.mode = "idle" /\ sensor.laser
    [] c = "TM0"                             -> sensor.mode # "sleep"
    [] c \in {"TM1", "TM2"}                  -> sensor.mode = "adjust"
    [] c = "RB"                              -> TRUE
    [] c = "%SL"                             -> sensor.mode = "idle"

\* connect_urg_device knows time stamp mode by the status 0E of its answers
Refusal == IF sensor.mode = "adjust" THEN "0E" ELSE "err"

\* The status of its answer, and what stands between status and blank line
StatusOf(c) == IF ~Accepts(c)                 THEN Refusal
               ELSE IF c = "BM" /\ sensor.laser THEN "02"
               ELSE IF c = "RB" /\ ~sensor.rb   THEN "01"
               ELSE "00"

Payload(c) == IF ~Accepts(c) THEN <<>>
              ELSE IF c = "TM1" THEN <<Plain("stamp")>>
              ELSE IF c = "VV" THEN <<Plain("info")>>
              ELSE <<>>

Answer(c) ==
  IF c.name \in Single /\ Accepts(c.name)
  THEN ScanLines(c.name, "00", c.gen)
  ELSE <<Echo(c.name), Status(StatusOf(c.name))>> \o Payload(c.name) \o <<Blank>>

\* The state it is in after the command: a measurement starts or goes on, the
\* laser changes, a second RB in a row resets it
ModeAfter(c) == CASE c \in {"QT", "TM2"}     -> "idle"
                  [] c \in Continuous        -> "measure"
                  [] c = "TM0"               -> "adjust"
                  [] c = "%SL"               -> "sleep"
                  [] c = "RB" /\ sensor.rb   -> "idle"
                  [] OTHER                   -> sensor.mode

LaserAfter(c) == CASE c \in Lighting                        -> TRUE
                   [] c \in {"QT", "TM0", "TM2", "%SL"}     -> FALSE
                   [] c = "RB" /\ sensor.rb                 -> FALSE
                   [] OTHER                                 -> sensor.laser

Obeyed(c) ==
  IF Accepts(c.name)
  THEN [mode  |-> ModeAfter(c.name),
        laser |-> LaserAfter(c.name),
        rb    |-> c.name = "RB" /\ ~sensor.rb,
        scan  |-> IF c.name \in Continuous THEN c.name ELSE sensor.scan,
        left  |-> IF c.name \in Continuous THEN c.times ELSE sensor.left,
        gen   |-> IF c.name \in Continuous THEN c.gen ELSE sensor.gen]
  ELSE [sensor EXCEPT !.rb = FALSE]

SensorReply ==
  /\ outbox # <<>> /\ link \in {"up", "closed"}
  /\ outbox' = Tail(outbox)
  /\ inbox' = Delivered(Answer(Head(outbox)))
  /\ sensor' = Obeyed(Head(outbox))
  /\ HostUnchanged /\ UNCHANGED <<link, budgets>>

\* The next scan of a continuous measurement.  After the last one of a counted
\* measurement the sensor may keep its laser lit or not.
SensorScan ==
  /\ sensor.mode = "measure" /\ link = "up"
  /\ Prompt => outbox = <<>>
  /\ inbox' = inbox \o ScanLines(sensor.scan, "99", sensor.gen)
  /\ Len(inbox') <= MaxPending
  /\ IF sensor.left = 1
     THEN \E lit \in {FALSE, sensor.laser} :
            sensor' = [sensor EXCEPT !.mode = "idle", !.laser = lit, !.left = 0]
     ELSE sensor' = [sensor EXCEPT !.left = IF @ > 1 THEN @ - 1 ELSE 0]
  /\ HostUnchanged /\ UNCHANGED <<outbox, link, budgets>>

Fault(k) ==
  /\ k \in FaultKinds /\ Mishaps /\ link = "up"
  /\ faults' = faults + 1
  /\ HostUnchanged /\ UNCHANGED <<sensor, gen, late>>

\* A line arrives with wrong characters, a line is lost, the cable is pulled
Garble ==
  /\ Fault("garble")
  /\ inbox # <<>> /\ NonEmpty(Head(inbox))
  /\ inbox' = [inbox EXCEPT ![1].good = FALSE,
                            ![1].val  = IF inbox[1].kind = "echo" THEN "junk" ELSE @]
  /\ UNCHANGED <<outbox, link>>

Lose ==
  /\ Fault("lose")
  /\ inbox # <<>> /\ inbox' = Tail(inbox)
  /\ UNCHANGED <<outbox, link>>

Break ==
  /\ Fault("break")
  /\ link' = "down" /\ outbox' = <<>>
  /\ UNCHANGED inbox

Environment == SensorReply \/ SensorScan \/ Garble \/ Lose \/ Break

(***************************************************************************)
(* The specification.                                                      *)
(***************************************************************************)
\* What urg_open leaves behind when it succeeds (its last lines)
Init ==
  /\ is_active = TRUE /\ is_sending = FALSE /\ is_laser_on = FALSE
  /\ specified_scan_times = 0 /\ scanning_remain_times = 0
  /\ ignore_checkSumError = 1 /\ last_errno = "NO_ERROR"
  /\ pc = "ready" /\ op = "open" /\ ret = "NO_ERROR"
  /\ frames = <<>>
  /\ xchg = [cmd |-> "QT", line |-> 0, ok |-> FALSE, body |-> FALSE, round |-> 1]
  /\ rcv = [type |-> "unknown", points |-> 0, stamp |-> FALSE, gen |-> 0]
  /\ after = [pc |-> "ready", code |-> "NO_ERROR"]
  /\ outbox = <<>> /\ inbox = <<>> /\ link = "up"
  /\ sensor = [mode |-> "idle", laser |-> FALSE, rb |-> FALSE,
               scan |-> "MD", left |-> 0, gen |-> 0]
  /\ gen = 0 /\ late = 0 /\ faults = 0

Next == Application \/ Host \/ Environment

Spec == Init /\ [][Next]_vars

\* The thread inside a call keeps running, the sensor answers what it is sent
\* and goes on with its scans.  Nothing makes the application call anything.
Fairness == WF_vars(Host) /\ WF_vars(SensorReply) /\ WF_vars(SensorScan)

FairSpec == Spec /\ Fairness

(***************************************************************************)
(* Properties.                                                             *)
(***************************************************************************)
Labels == {"ready", "drain", "close", "crashed", "send_single", "xchg", "xchg_done",
           "stop_done", "rd_echo", "rd_status", "rd_qt", "rd_ack", "rd_io",
           "rd_stamp", "rd_data", "rd_count", "rd_ret"}
Types  == {"unknown", "stop", "distance", "distance_io"}
Frame  == [reads : 0 .. MAX_READ_TIMES - 1, held : Codes \cup {"none"}]

\* The variables of the library keep the types the code gives them.
HostTypeOK ==
  /\ is_active \in BOOLEAN /\ is_sending \in BOOLEAN /\ is_laser_on \in BOOLEAN
  /\ specified_scan_times \in Nat /\ scanning_remain_times \in Nat
  /\ ignore_checkSumError \in {0, 1} /\ last_errno \in Codes
  /\ pc \in Labels /\ op \in Functions \cup {"open"} /\ ret \in Codes
  /\ frames \in Seq(Frame)
  /\ xchg \in [cmd : CommandNames, line : 0 .. 2, ok : BOOLEAN,
                body : BOOLEAN, round : {1, 2}]
  /\ rcv \in [type : Types, points : 0 .. DataLines, stamp : BOOLEAN, gen : Nat]
  /\ after \in [pc : Labels, code : Codes]

\* So do the channels, the sensor and what the bounds count.
WorldTypeOK ==
  /\ outbox \in Seq(Command) /\ inbox \in Seq(Line \ {Timeout})
  /\ link \in {"up", "down", "closed"}
  /\ sensor \in [mode : {"idle", "measure", "adjust", "sleep"}, laser : BOOLEAN,
                  rb : BOOLEAN, scan : Continuous, left : Nat, gen : Nat]
  /\ gen \in Nat /\ late \in Nat /\ faults \in Nat

TypeOK == HostTypeOK /\ WorldTypeOK

\* Once the sensor has carried out what it was sent its laser is off: either it
\* is off now, or a QT is on its way, and nothing sent later lights it.
DarkAhead ==
  \E i \in 0 .. Len(outbox) :
    /\ IF i = 0 THEN ~sensor.laser ELSE outbox[i].name = "QT"
    /\ \A j \in i + 1 .. Len(outbox) : outbox[j].name \notin Lighting

\* The flags by which urg_close decides whether a QT is needed are never both
\* false while the laser is lit or going to be: ignore_receive_data_with_qt
\* relies on it.  (With urg_laser_on among the calls it fails, see the README.)
LaserCovered ==
  (link # "down" /\ ~is_sending /\ ~is_laser_on) => DarkAhead

\* What makes LaserCovered inductive.  A QT was written before each activation of
\* urg_stop_measurement and before each draining read, and until they are over
\* nothing that lights the laser is sent.
Calm == {"ready", "close", "send_single", "xchg", "xchg_done", "stop_done"}

FramesOK ==
  /\ pc \in Calm => frames = <<>>
  /\ pc = "drain" /\ after.pc \in Calm => frames = <<>>
  /\ \A i \in DOMAIN frames : frames[i].held = "none" => i = 1

SensorDark == sensor.mode \in {"adjust", "sleep"} => ~sensor.laser

Stopping == pc = "drain" \/ frames # <<>> \/ (~is_sending /\ ~is_laser_on)

ClosedOK == link = "closed" => ~is_active /\ pc = "ready"

LaserInv == /\ FramesOK
            /\ ClosedOK
            /\ SensorDark
            /\ (link # "down" /\ Stopping) => DarkAhead

\* A session closed by urg_close or urg_reboot over a working cable leaves a
\* sensor that is dark as soon as it has read what was sent to it
\* (urg_sensor.h: "Turns off the laser and closes the connection").
ClosedIsDark ==
  (~is_active /\ link = "closed" /\ outbox = <<>>) => ~sensor.laser

\* When urg_stop_measurement reports success to an application that keeps up
\* with the data, nothing of the old measurement is left to be read, so the
\* next command meets its own answer.
StopSynced ==
  (pc = "ready" /\ op = "stop" /\ ret = "NO_ERROR" /\ is_active)
    => inbox = <<>> /\ outbox = <<>> /\ sensor.mode # "measure"

\* The measurement of a given number of scans is over for both sides after the
\* last one was got: receive_data has stopped it by itself, and only a call of
\* urg_laser_on lights the laser again.
CountedOut ==
  (/\ pc = "ready" /\ is_active /\ op # "laser_on"
   /\ specified_scan_times > 1 /\ scanning_remain_times = 0)
    => ~is_sending /\ ~is_laser_on /\ inbox = <<>> /\ ~sensor.laser

\* On a cable without faults a careful application gets a scan each time it
\* asks a running measurement for one.
GetSucceeds ==
  (pc = "ready" /\ op = "get" /\ is_active /\ specified_scan_times # 1)
    => ret = "POSITIVE"

\* The data of a scan that receive_data reports are those of the measurement
\* started last, never left over from one before.
FreshScan ==
  (pc = "rd_count" /\ frames = <<>> /\ ret = "POSITIVE") => rcv.gen = gen

\* No command is answered by what an earlier one left behind: the first line
\* scip_response finds is the echo of its own command.
AnswersMatch ==
  (pc = "xchg" /\ xchg.line = 0 /\ inbox # <<>>) => inbox[1] = Echo(xchg.cmd)

\* urg_stop_measurement says 0 or an error (urg_sensor.h: "\\retval 0 Successful",
\* "\\retval <0 Error"), never a number of points.
StopContract == (pc = "ready" /\ op = "stop") => ret # "POSITIVE"

\* Every call returns: no read loop of the library runs forever.
CallsReturn == (pc # "ready") ~> (pc = "ready")

\* After urg_close over a working cable the laser goes dark and stays dark.
CloseDarkens == (pc = "close") ~> (link = "down" \/ [](~sensor.laser))
=============================================================================
