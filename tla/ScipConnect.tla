---------------------------- MODULE ScipConnect ----------------------------
(***************************************************************************)
(* urg_open (src/current/src/urg_sensor.c): the search for the baud rate   *)
(* of the sensor, the change to the rate asked for and the query of the    *)
(* parameters.  Nobody knows what the sensor was doing before: it may be   *)
(* at any rate, in SCIP 1.1, in time stamp mode or still measuring.  The   *)
(* host reads one line a step, as in ScipSession; what is sent at one rate *)
(* and received at another arrives as junk.                                *)
(***************************************************************************)
EXTENDS Naturals, Integers, Sequences, SequencesExt

CONSTANTS
  Types,        \* of connection: "URG_SERIAL", "URG_ETHERNET"
  Baudrates,    \* rates the application asks for
  SensorRates,  \* rates the sensor can be set to
  Modes,        \* what it may be doing: "idle", "scip11", "adjust", "measure"
  PpBodies,     \* "all" in it: its PP reply has all parameters; "some": not all
  Gaps,         \* TRUE in it: it may leave gaps of MAX_TIMEOUT between its scans,
                \* FALSE in it: it may leave none
  MaxPending,   \* bound: lines in flight beyond which no scan is added
  MaxMishaps    \* bound: late answers, and answers to garbage

ASSUME ChoiceAssumption == /\ Types \subseteq {"URG_SERIAL", "URG_ETHERNET"}
                           /\ Baudrates \subseteq Nat /\ SensorRates \subseteq Nat
                           /\ Modes \subseteq {"idle", "scip11", "adjust", "measure"}
                           /\ PpBodies \subseteq {"all", "some"}
                           /\ Gaps \subseteq BOOLEAN
ASSUME BoundAssumption == MaxPending \in Nat /\ MaxMishaps \in Nat

VARIABLES
  type, baudrate,                        \* arguments of urg_open
  is_active, is_sending, is_laser_on,    \* flags of urg_t
  i,               \* index into try_baudrate, from 1
  pc, ret,         \* where the host is, the value being returned
  xchg,            \* locals of scip_response, with its receive_buffer
  after,           \* where ignore_receive_data returns to
  hostrate,        \* rate of the port of the host
  outbox, inbox,   \* commands to the sensor, lines to the host
  sensor,          \* rate, mode, gaps, PP reply; dirt: garbage in its input line
  was,             \* the sensor as it was at the beginning
  mishaps          \* what was used of MaxMishaps

flags == <<is_active, is_sending, is_laser_on>>
args  == <<type, baudrate, was>>
vars  == <<args, flags, i, pc, ret, xchg, after, hostrate, outbox, inbox, sensor, mishaps>>

Serial == type = "URG_SERIAL"

\* The rates serial_set_baudrate knows, and the list of connect_urg_device
Known        == {4800, 9600, 19200, 38400, 57600, 115200}
try_baudrate == <<19200, 57600, 115200, 250000, 500000, 750000>>
try_times    == Len(try_baudrate)

\* The rate asked for comes first, if the list has it
Rate(k) == IF ~Contains(try_baudrate, baudrate) THEN try_baudrate[k]
           ELSE IF k = 1                        THEN baudrate
           ELSE IF try_baudrate[k] = baudrate   THEN try_baudrate[1]
           ELSE try_baudrate[k]

(***************************************************************************)
(* Lines.                                                                  *)
(***************************************************************************)
Line(k, v) == [kind |-> k, val |-> v]
Junk       == Line("junk", "none")
Blank      == Line("blank", "none")
Timeout    == Line("timeout", "none")
Names      == {"LF", "QT", "SCIP2.0", "TM2", "SS", "PP"}
Texts      == Names \cup {"00", "03", "04", "0E", "E", "0", "all", "some", "none"}
Lines      == [kind : {"echo", "status", "body", "data", "junk", "blank"}, val : Texts]

Failed(l) == l.kind = "timeout"
Empty(l)  == l.kind = "blank"
Good(l)   == l.kind \in {"status", "body", "data"}

InTune(rate) == Serial => rate = sensor.rate

Silent == /\ inbox = <<>> /\ outbox = <<>>
          /\ sensor.mode = "measure" => sensor.gaps

Incoming == {inbox[k] : k \in {1} \cap DOMAIN inbox}
              \cup (IF Silent \/ mishaps < MaxMishaps THEN {Timeout} ELSE {})

Reads(l) == IF Failed(l)
            THEN /\ mishaps' = IF Silent THEN mishaps ELSE mishaps + 1
                 /\ UNCHANGED inbox
            ELSE inbox' = Tail(inbox) /\ UNCHANGED mishaps

Writes(c) == outbox' = Append(outbox, [name |-> c, rate |-> hostrate])

Goto(label) == pc' = label /\ UNCHANGED ret
Ends(code)  == pc' = "done" /\ ret' = code

(***************************************************************************)
(* Functions urg_open calls.                                               *)
(***************************************************************************)
Exchange(c) == /\ Writes(c)
               /\ xchg' = [cmd |-> c, line |-> 0, ok |-> FALSE, reply |-> "none", body |-> "none"]
               /\ Goto("xchg")

\* ignore_receive_data, which goes on to Drain
IgnoreReceiveData(label) ==
  IF is_sending THEN Goto("drain") /\ after' = label
                ELSE Goto(label) /\ UNCHANGED after

IgnoreReceiveDataWithQt(label) ==
  IF is_sending \/ is_laser_on
  THEN /\ Writes("QT")
       /\ is_laser_on' = FALSE
       /\ IgnoreReceiveData(label)
  ELSE Goto(label) /\ UNCHANGED <<outbox, is_laser_on, after>>

Drain ==
  /\ pc = "drain"
  /\ \E l \in Incoming :
       /\ Reads(l)
       /\ IF Failed(l) THEN Goto(after) /\ is_sending' = FALSE
                       ELSE UNCHANGED <<pc, ret, is_sending>>
  /\ UNCHANGED <<args, is_active, is_laser_on, i, xchg, after, hostrate, outbox, sensor>>

\* strtol reads the refusal 0E as 0; a status of one character is SCIP 1.1
Expected(c) == {"00", "0E", "E", "0"} \cup (IF c = "SS" THEN {"03", "04"} ELSE {})

Rejection(l) ==
  IF Failed(l)                                            THEN "NO_RESPONSE"
  ELSE IF xchg.line = 0 /\ l # Line("echo", xchg.cmd)     THEN "INVALID_RESPONSE"
  ELSE IF xchg.line > 0 /\ ~Empty(l) /\ ~Good(l)          THEN "CHECKSUM_ERROR"
  ELSE IF xchg.line = 1 /\ l.kind # "status"              THEN "INVALID_RESPONSE"
  ELSE "NO_ERROR"

\* A wrong form of the next definition: done with the status, the rest of the
\* answer is left to the next reader
ScipResponseNoBlank ==
  /\ pc = "xchg"
  /\ \E l \in Incoming :
       /\ Reads(l)
       /\ IF Rejection(l) # "NO_ERROR"
          THEN pc' = "xchg_done" /\ ret' = Rejection(l) /\ UNCHANGED xchg
          ELSE IF xchg.line = 1
          THEN /\ pc' = "xchg_done"
               /\ xchg' = [xchg EXCEPT !.reply = l.val, !.body = "all"]
               /\ ret' = IF l.val \in Expected(xchg.cmd) THEN "POSITIVE" ELSE "UNKNOWN_ERROR"
          ELSE xchg' = [xchg EXCEPT !.line = 1] /\ UNCHANGED <<pc, ret>>
  /\ UNCHANGED <<args, flags, i, after, hostrate, outbox, sensor>>

\* The loop of scip_response for one more line
ScipResponse ==
  /\ pc = "xchg"
  /\ \E l \in Incoming :
       /\ Reads(l)
       /\ IF Rejection(l) # "NO_ERROR"
          THEN pc' = "xchg_done" /\ ret' = Rejection(l) /\ UNCHANGED xchg
          ELSE IF Empty(l)
          THEN /\ pc' = "xchg_done" /\ UNCHANGED xchg
               /\ ret' = IF xchg.ok THEN "POSITIVE" ELSE "UNKNOWN_ERROR"
          ELSE /\ UNCHANGED <<pc, ret>>
               /\ xchg' = CASE xchg.line = 0 -> [xchg EXCEPT !.line = 1]
                            [] xchg.line = 1 -> [xchg EXCEPT !.line = 2, !.reply = l.val,
                                                             !.ok = l.val \in Expected(xchg.cmd)]
                            [] xchg.line = 2 -> [xchg EXCEPT !.body = l.val]
  /\ UNCHANGED <<args, flags, i, after, hostrate, outbox, sensor>>

\* serial_set_baudrate, which also empties the port; nothing for Ethernet, and
\* nothing when the rate is not known: the callers do not notice
SetBaudrate(rate) ==
  IF Serial /\ rate \in Known THEN hostrate' = rate /\ inbox' = <<>>
                              ELSE UNCHANGED <<hostrate, inbox>>

(***************************************************************************)
(* urg_open and connect_urg_device.                                        *)
(***************************************************************************)
\* connection_open.  Over Ethernet a rate is made up.
Open ==
  /\ pc = "open"
  /\ \E there \in BOOLEAN :
       IF ~there \/ (Serial /\ baudrate \notin Known)
       THEN Ends(IF Serial THEN "SERIAL_OPEN_ERROR" ELSE "ETHERNET_OPEN_ERROR")
            /\ UNCHANGED <<baudrate, hostrate>>
       ELSE /\ Goto("try")
            /\ baudrate' = IF Serial THEN baudrate ELSE 115200
            /\ hostrate' = baudrate'
  /\ UNCHANGED <<type, was, flags, i, xchg, after, outbox, inbox, sensor, mishaps>>

\* The next rate, and the line end clear_urg_communication_buffer writes
Try ==
  /\ pc = "try"
  /\ SetBaudrate(Rate(i))
  /\ outbox' = Append(outbox, [name |-> "LF", rate |-> hostrate'])
  /\ Goto("clear")
  /\ UNCHANGED <<args, flags, i, xchg, after, sensor, mishaps>>

\* The rest of it, and the QT to come
Clear ==
  /\ pc = "clear"
  /\ \E l \in Incoming :
       /\ Reads(l)
       /\ IF Failed(l) THEN Exchange("QT") ELSE UNCHANGED <<pc, ret, xchg, outbox>>
  /\ UNCHANGED <<args, flags, i, after, hostrate, sensor>>

Answered(c) == /\ pc = "xchg_done" /\ xchg.cmd = c
               /\ UNCHANGED <<args, sensor, mishaps>>

QtDone ==
  /\ Answered("QT")
  /\ CASE ret = "POSITIVE" /\ xchg.reply = "E" ->
            IgnoreReceiveData("scip20") /\ UNCHANGED <<xchg, outbox, is_laser_on>>
       [] ret = "POSITIVE" /\ xchg.reply = "0E" ->
            Exchange("TM2") /\ UNCHANGED <<after, is_laser_on>>
       [] ret = "POSITIVE" /\ xchg.reply = "00" ->
            Goto("change") /\ UNCHANGED <<xchg, outbox, after, is_laser_on>>
       [] ret = "INVALID_RESPONSE" ->
            IgnoreReceiveDataWithQt("change") /\ UNCHANGED xchg
       [] ret \notin {"POSITIVE", "INVALID_RESPONSE"} ->
            IgnoreReceiveDataWithQt("next") /\ UNCHANGED xchg
       [] OTHER ->
            Goto("next") /\ UNCHANGED <<xchg, outbox, after, is_laser_on>>
  /\ UNCHANGED <<is_active, is_sending, i, hostrate, inbox>>

Scip20 ==
  /\ pc = "scip20"
  /\ Exchange("SCIP2.0")
  /\ UNCHANGED <<args, flags, i, after, hostrate, inbox, sensor, mishaps>>

Scip20Done ==
  /\ Answered("SCIP2.0")
  /\ IgnoreReceiveData("change")
  /\ UNCHANGED <<flags, i, xchg, hostrate, outbox, inbox>>

\* Whatever TM2 returned
Tm2Done ==
  /\ Answered("TM2")
  /\ Goto("change")
  /\ UNCHANGED <<flags, i, xchg, after, hostrate, outbox, inbox>>

\* Two wrong forms of the next definition: one round too many, always the same
\* round
NextRoundTooMany ==
  /\ pc = "next"
  /\ IF i <= try_times THEN i' = i + 1 /\ Goto("try")
                       ELSE Ends("NOT_DETECT_BAUDRATE_ERROR") /\ UNCHANGED i
  /\ UNCHANGED <<args, flags, xchg, after, hostrate, outbox, inbox, sensor, mishaps>>

NextRoundAgain ==
  /\ pc = "next"
  /\ Goto("try")
  /\ UNCHANGED <<args, flags, i, xchg, after, hostrate, outbox, inbox, sensor, mishaps>>

\* for (i = 0; i < try_times; ++i)
NextRound ==
  /\ pc = "next"
  /\ IF i < try_times THEN i' = i + 1 /\ Goto("try")
                      ELSE Ends("NOT_DETECT_BAUDRATE_ERROR") /\ UNCHANGED i
  /\ UNCHANGED <<args, flags, xchg, after, hostrate, outbox, inbox, sensor, mishaps>>

\* change_sensor_baudrate
ChangeSensorBaudrate ==
  /\ pc = "change"
  /\ IF Rate(i) = baudrate THEN Goto("connected") /\ UNCHANGED <<xchg, outbox>>
                           ELSE Exchange("SS")
  /\ UNCHANGED <<args, flags, i, after, hostrate, inbox, sensor, mishaps>>

\* A wrong form of the next definition: only the sensor changes its rate
SsDoneHostStays ==
  /\ Answered("SS")
  /\ IF ret # "POSITIVE"
     THEN Ends("INVALID_PARAMETER") /\ UNCHANGED after
     ELSE IgnoreReceiveData("connected")
  /\ UNCHANGED <<flags, i, xchg, hostrate, outbox, inbox>>

SsDone ==
  /\ Answered("SS")
  /\ IF ret # "POSITIVE"
     THEN Ends("INVALID_PARAMETER") /\ UNCHANGED <<after, hostrate, inbox>>
     ELSE SetBaudrate(baudrate) /\ IgnoreReceiveData("connected")
  /\ UNCHANGED <<flags, i, xchg, outbox>>

\* urg_open again, and the PP of receive_parameter
Connected ==
  /\ pc = "connected"
  /\ is_sending' = FALSE /\ is_laser_on' = FALSE
  /\ Exchange("PP")
  /\ UNCHANGED <<args, is_active, i, after, hostrate, inbox, sensor, mishaps>>

\* Too few lines, or not every parameter, or all of them.  The data that follow
\* too few lines are not skipped: both flags are false by now.
PpDone ==
  /\ Answered("PP")
  /\ Ends(IF ret # "POSITIVE"         THEN ret
          ELSE IF xchg.body = "none"      THEN "INVALID_RESPONSE"
          ELSE IF xchg.body = "some"  THEN "RECEIVE_ERROR"
          ELSE "NO_ERROR")
  /\ is_active' = (ret' = "NO_ERROR")
  /\ UNCHANGED <<is_sending, is_laser_on, i, xchg, after, hostrate, outbox, inbox>>

(***************************************************************************)
(* The sensor.                                                             *)
(***************************************************************************)
Sends(lines) ==
  inbox' = inbox \o (IF InTune(hostrate) THEN lines ELSE [k \in DOMAIN lines |-> Junk])

Answer(c, status) == <<Line("echo", c), Line("status", status), Blank>>
Refusal           == <<Junk, Line("status", "0E"), Blank>>

Becomes(m) == sensor' = [sensor EXCEPT !.mode = m]

\* A command in SCIP 2, outside time stamp mode
Execute(c) ==
  CASE c = "QT" -> Sends(Answer(c, "00")) /\ Becomes("idle")
    [] c = "PP" -> /\ Sends(<<Line("echo", c), Line("status", "00"),
                              Line("body", sensor.pp), Blank>>)
                   /\ UNCHANGED sensor
    [] c = "SS" ->
         IF baudrate \notin SensorRates
         THEN Sends(Answer(c, "04")) /\ UNCHANGED sensor
         ELSE /\ Sends(Answer(c, IF sensor.rate = baudrate THEN "03" ELSE "00"))
              /\ sensor' = [sensor EXCEPT !.rate = baudrate]
    [] OTHER -> Sends(Answer(c, "0E")) /\ UNCHANGED sensor

\* A command it can make out.  Garbage before it makes it unreadable; a line end
\* alone may be refused or ignored.
Obey(c) ==
  CASE sensor.dirt -> Sends(Refusal) /\ sensor' = [sensor EXCEPT !.dirt = FALSE]
    [] ~sensor.dirt /\ c = "LF" ->
         UNCHANGED sensor /\ (Sends(Refusal) \/ UNCHANGED inbox)
    [] OTHER ->
         CASE sensor.mode = "scip11" ->
                IF c = "SCIP2.0" THEN Sends(Answer(c, "0")) /\ Becomes("idle")
                                 ELSE Sends(Answer(c, "E")) /\ UNCHANGED sensor
           [] sensor.mode = "adjust" ->
                IF c = "TM2" THEN Sends(Answer(c, "00")) /\ Becomes("idle")
                             ELSE Sends(Answer(c, "0E")) /\ UNCHANGED sensor
           [] sensor.mode \in {"idle", "measure"} -> Execute(c)

\* Garbage stays in its input line; by mischance it is taken for a line
Garbage ==
  \/ sensor' = [sensor EXCEPT !.dirt = TRUE] /\ UNCHANGED <<inbox, mishaps>>
  \/ mishaps < MaxMishaps /\ mishaps' = mishaps + 1 /\ Sends(Refusal) /\ UNCHANGED sensor

SensorAnswers ==
  /\ outbox # <<>> /\ outbox' = Tail(outbox)
  /\ IF InTune(Head(outbox).rate) THEN Obey(Head(outbox).name) /\ UNCHANGED mishaps
                                  ELSE Garbage
  /\ UNCHANGED <<args, flags, i, pc, ret, xchg, after, hostrate>>

\* After a gap the host has read all that came before
SensorScans ==
  /\ sensor.mode = "measure" /\ pc # "done"
  /\ Len(inbox) <= IF sensor.gaps THEN 0 ELSE MaxPending
  /\ Sends(<<Line("data", "none"), Blank>>)
  /\ UNCHANGED <<args, flags, i, pc, ret, xchg, after, hostrate, outbox, sensor, mishaps>>

(***************************************************************************)
(* Specification.  urg_t_initialize leaves is_laser_on as it finds it.     *)
(***************************************************************************)
Init ==
  /\ type \in Types /\ baudrate \in Baudrates
  /\ is_active = FALSE /\ is_sending = TRUE /\ is_laser_on \in BOOLEAN
  /\ i = 1 /\ pc = "open" /\ ret = "NO_ERROR" /\ after = "done"
  /\ xchg = [cmd |-> "LF", line |-> 0, ok |-> FALSE, reply |-> "none", body |-> "none"]
  /\ hostrate = 0 /\ outbox = <<>> /\ inbox = <<>> /\ mishaps = 0
  /\ sensor \in [rate : SensorRates, mode : Modes, gaps : Gaps,
               pp : PpBodies, dirt : BOOLEAN]
  /\ was = sensor

Host == \/ Open \/ Try \/ Clear \/ Drain \/ ScipResponse
        \/ QtDone \/ Scip20 \/ Scip20Done \/ Tm2Done \/ NextRound
        \/ ChangeSensorBaudrate \/ SsDone \/ Connected \/ PpDone

\* urg_open has returned
Done == pc = "done" /\ outbox = <<>> /\ UNCHANGED vars

Next == Host \/ SensorAnswers \/ SensorScans \/ Done

Spec == Init /\ [][Next]_vars

\* The thread in urg_open keeps running and the sensor keeps answering and
\* scanning.  A sensor that leaves gaps between its scans does so again and
\* again, and then a read does time out.
TimesOut == (Clear \/ Drain \/ ScipResponse) /\ Silent

FairSpec == /\ Spec
            /\ WF_vars(Host) /\ WF_vars(SensorAnswers) /\ WF_vars(SensorScans)
            /\ SF_vars(TimesOut)

(***************************************************************************)
(* Properties.                                                             *)
(***************************************************************************)
Labels == {"open", "try", "clear", "xchg", "xchg_done", "scip20", "drain", "next",
           "change", "connected", "done"}
Codes  == {"NO_ERROR", "POSITIVE", "SERIAL_OPEN_ERROR", "ETHERNET_OPEN_ERROR",
           "NOT_DETECT_BAUDRATE_ERROR", "INVALID_PARAMETER", "INVALID_RESPONSE",
           "NO_RESPONSE", "CHECKSUM_ERROR", "UNKNOWN_ERROR", "RECEIVE_ERROR"}

\* The variables keep their types; connect_urg_device never reads try_baudrate
\* beyond its end.
TypeOK ==
  /\ type \in Types /\ baudrate \in Nat
  /\ is_active \in BOOLEAN /\ is_sending \in BOOLEAN /\ is_laser_on \in BOOLEAN
  /\ i \in 1 .. try_times
  /\ pc \in Labels /\ after \in Labels /\ ret \in Codes
  /\ xchg \in [cmd : Names, line : 0 .. 2, ok : BOOLEAN, reply : Texts, body : Texts]
  /\ hostrate \in Nat /\ (Serial => hostrate \in Known \cup {0})
  /\ outbox \in Seq([name : Names, rate : Nat])
  /\ inbox \in Seq(Lines) /\ mishaps \in 0 .. MaxMishaps
  /\ sensor \in [rate : SensorRates, mode : Modes \cup {"idle"}, gaps : Gaps,
                pp : PpBodies, dirt : BOOLEAN]

\* What urg_open opened is ready for the first command: sensor and host have the
\* same rate, the sensor is idle, and no command or answer is left on the way.
OpenSynced ==
  is_active => /\ pc = "done" /\ ret = "NO_ERROR"
               /\ InTune(hostrate) /\ (Serial => hostrate = baudrate)
               /\ sensor.mode = "idle"
               /\ inbox = <<>> /\ outbox = <<>>

\* urg_open finds a sensor that is not measuring, at whatever rate of the list it
\* is, if the port knows that rate and the sensor the one asked for: in SCIP 1.1,
\* in time stamp mode, after garbage at wrong rates.
Findable == /\ mishaps = 0
            /\ was.mode # "measure" /\ was.pp = "all"
            /\ Serial => /\ was.rate \in Known \cap Range(try_baudrate)
                         /\ baudrate \in Known \cap SensorRates

FindsSensor ==
  pc = "done" /\ Findable
    => ret \in {"NO_ERROR", "SERIAL_OPEN_ERROR", "ETHERNET_OPEN_ERROR"}

\* urg_open returns, with or without success, unless the sensor is measuring and
\* leaves no gap: every loop in it that reads comes to a read that times out.
OpenReturns == (was.mode = "measure" => was.gaps) => <>(pc = "done")

\* It also returns with such a sensor, as the comment at urg_sensor.c:346-351 has
\* it, which takes the sensor to be measuring and skips the data.
MeasuringIsSkipped == <>(pc = "done")
=============================================================================
