# A TLA+ model of urg_library

The URG library (`src/current`) lets a C or C++ program drive a Hokuyo range sensor over a
serial line or TCP with the SCIP 2 protocol: a command is a line, an answer is an echo line, a
status line, lines of payload and an empty line, and a sensor that measures continuously keeps
sending such messages by itself. Almost everything that can go wrong here is about *where in that
stream* the library is: whether the line it reads next belongs to the command it sent last,
whether the sensor is still sending, and whether its laser is on.

This directory holds TLA+ modules translated from the code, TLC configurations that check them on
small instances, and TLAPS proofs for every value of their constants.

## 1. The system and its parts

| part | source | state | operations |
|---|---|---|---|
| session | `src/urg_sensor.c` after `urg_open` | flags `is_active`, `is_sending`, `is_laser_on`, the scan counters, `last_errno` of `urg_t` | start, get, stop measurement, laser on and off, sleep, wakeup, reboot, time stamp mode, information queries, close |
| connecting | `urg_open`, `connect_urg_device`, `change_sensor_baudrate`, `receive_parameter` | the same, baud rate of both sides, sensor parameters | one operation that searches six baud rates |
| scan decoding | `receive_length_data`, `parse_distance_*` | characters carried from line to line, point and echo index | one loop per scan |
| ring buffer | `src/urg_ring_buffer.c` | array, `first`, `last` | write, read, clear |
| TCP client | `src/urg_tcpclient.c` | ring buffer, `pushed_back`, the socket | open, read, readline, write, close |
| serial port | `src/urg_serial*.c` | ring buffer, `last_ch`, the descriptor, the baud rate | the same, and set baud rate |
| dispatch | `src/urg_connection.c` | connection type | forwards to TCP or serial |
| conversions | `src/urg_utils.c` | none (reads `urg_t`) | index, step and angle conversions, error text |
| C++ driver | `src/Urg_driver.cpp` | last measurement type, time stamp offset, texts read from the sensor | methods of one or several calls of the session |
| sample programs | `samples/c`, `samples/cpp` | where main is, the scans got | the calls of each main, in order |
| raw access, port search, clock | `urg_debug.c`, `urg_serial_utils*.c`, `ticks.cpp` | none to speak of | one-line forwards and pure I/O |

How they interact. The library has no threads, no callbacks into it and nothing persistent: the
application's thread calls a function, which writes a command with `connection_write` and reads
lines with `connection_readline` until it is content, or until a read times out. `readline`
takes bytes one at a time from `tcpclient_read` or `serial_read`, and these from the ring buffer
or the operating system. What runs concurrently is the *sensor*: it answers, measures and sends while
the host is anywhere inside a call, and the cable may drop or garble what it sends.

What is hard, therefore:

* the flags of `urg_t` are the host's *belief* about the sensor, and `urg_close` acts on them;
* stopping: when QT is written any number of scans may be in flight, before the reply to it;
* `receive_data` calls itself, and calls `urg_stop_measurement`, which calls `receive_data`;
* a read that times out while the answer is on its way leaves host and sensor with different ideas;
* loops that read "until a timeout" end only if somebody has silenced the sensor;
* byte level: lines longer than the buffer, bytes that arrive between two `recv` calls, the ring's
  wrap.

The full list, each at its line, is under `hazards` in `PROJECT.json`.

What makes each part correct: the *session* finds its own answer after each command, never reports
stale scans, stops what it started, and leaves the sensor dark; *connecting* ends, at the right baud rate, with
the connection open or closed according to the result; *decoding* puts point i at index i and never
outside the caller's array; the *ring buffer* is a bounded queue; *TCP client* and *serial port* deliver
the bytes in order, cut into lines; *conversions* tell where the points of the scan in hand were measured; the *driver* never
reads data of one type into arrays for another and never passes an error off as data; the *samples* end, with 0 only after all their
scans, and with a dark sensor.

## 2. The modules

    ScipSession        the open session, the sensor and the cable
    MCScipSession      sets of API calls for TLC      MCSession*.cfg
    ScipSession_proofs

    RingBuffer         the ring buffer as operators on its structure
    RingQueue          its owner calling them in any order      (abstract: BoundedFifo)
    MCRingQueue                                       MCRing*.cfg
    RingBuffer_proofs, RingQueue_proofs

    TcpClient          EXTENDS RingBuffer: reads of lines and bytes   (abstract: LineReader)
    MCTcpClient                                       MCTcp*.cfg
    TcpClient_proofs

    SerialPort         EXTENDS RingBuffer: the same over a serial line, on Linux and
                       on Windows   (abstract: PortReader, which EXTENDS LineReader)
    MCSerialPort                                      MCSerialReads.cfg
    SerialPort_proofs

    ScipConnect        urg_open: the search for the sensor, its baud rate and its mode
    MCScipConnect                                     MCConnect*.cfg
    ScipConnect_proofs

    ScanData           the characters of a scan, the application's arrays, the
                       conversions between index and step
    MCScanData                                        MCScan*.cfg
    ScanData_proofs

    UrgDriver          EXTENDS ScipSession: the methods of the C++ driver
    Programs           EXTENDS UrgDriver: the samples, and a caller with any plan
    MCPrograms                                        MCPrograms.cfg, MCDriverRefused.cfg
    Programs_proofs

Next to some definitions stands "a wrong form of the next definition": the same operation with a
plausible bug. No specification uses these; they are what the properties were tried against
(`mutants` in `PROJECT.json`), and each property is violated by its wrong form.

### 2.1 ScipSession

One step of the model is one API call up to its first read, or one line read and what the code does
with it up to the next read. So sensor and cable interleave with the code exactly at the reads,
where they can: between two reads the code touches only `urg_t` and the outgoing queue, and the sensor
cannot tell when in that stretch a command was written.

| model | code |
|---|---|
| `is_active`, `is_sending`, `is_laser_on`, `specified_scan_times`, `scanning_remain_times`, `ignore_checkSumError`, `last_errno` | fields of `urg_t` |
| `pc`, `op`, `ret` | where the thread is, in which API function, the value on its way back |
| `xchg` | locals of `scip_response`: lines read (0, 1, more), whether the status was expected, whether there was payload, which RB of `urg_reboot` |
| `rcv` | locals of `receive_data`: measurement type, points so far, whether `time_stamp` is not NULL; `gen` says which measurement the points came from |
| `frames` | the stack: one record per activation of `urg_stop_measurement`, with the loop counter `i` and the value the `receive_data` around it will return |
| `after` | what follows a draining read in the caller of `ignore_receive_data_with_qt` |
| `outbox`, `inbox` | commands and lines on their way; `inbox` includes what the operating system and the ring buffer hold |
| `link`, `sensor` | cable and sensor: mode, laser, a first RB seen, running measurement |

Lines keep their kind, the command of an echo, the status (`"00"`, `"01"`, `"02"`, `"99"` or any other), and whether
checksum and wording are right. That is what the code branches on. Numbers of points and
payloads are left out: a scan has `DataLines` data lines. The measurement types are `GD/MD` and, with the I/O line,
`GF/MF`; the other letters (`S`, `E`, `G`, `H*`, `N*`) take the same paths. All information queries (VV, PP and II
alike) are one call, `info`.

The *sensor* is not in this repository. It is modelled from what the library expects of it: it
answers commands in order, acknowledges `Mx` with a message without data and then sends scans by
itself, refuses `Gx` with a dark laser, and turns the laser off on QT, TM0, TM2, %SL and a second
RB. After the last scan of a counted measurement it may keep the laser on or not. All this is marked `external` in the map.

The *application* calls any function of `Calls` in any order. With `Careful` it keeps to `Fitting`, the
order of the samples: it gets only while measuring, stops before it asks for anything else, wakes a sensor it put to
sleep, leaves the time stamp mode before it measures, and after `urg_laser_on` only closes.
With `Prompt` the sensor obeys a command before it sends its next scan.

`ignore_checkSumError = 2` is accepted by the code and behaves as 1, so the model has 0 and 1. `Init` is what a successful
`urg_open` leaves.

### 2.2 RingBuffer, RingQueue, BoundedFifo

`RingBuffer` gives each function of `urg_ring_buffer.c` as an operator from a ring (array, `first`,
`last`) and data to the new ring and the values returned, branch by branch. `Written` includes that the wrapped
branch moves all of the data offered and not the part that fits. `RingQueue` is the state machine of an owner that
calls them; `told` is what the return values let it believe. `BoundedFifo` is the promise: a queue of
`Size - 1` bytes.

### 2.3 TcpClient, LineReader

`tcpclient_readline` and `tcpclient_read`, with one step for each of the three parts of
`tcpclient_read`: what the ring buffer has, the `recv` that does not wait, the `recv` that does.
Bytes arrive between any two of them. `LineReader` is the promise, over nothing but the sequence of
bytes not yet given to the reader; `InFlight`, the refinement mapping, is what the line buffer, the pushed back
character, the ring buffer and the socket hold, in that order. The bytes are CR/LF or not, and never 0:
SCIP is text, and `pushed_back > 0` loses a 0.

A timeout and a closed socket look the same to the code, `recv` gives nothing; in the model the blocking
`recv` gives nothing exactly when nothing has come, at a moment of its own choosing.

A raw read takes no notice of the pushed back character, so after a line that did not fit it would
return later bytes before an earlier one. In the library only `urg_raw_read` does raw reads; `RawAnytime =
FALSE` keeps it from doing so at that moment. It is an assumption of `TcpReads` and of both theorems.

### 2.4 SerialPort, PortReader

The same for `urg_serial.c` with `urg_serial_linux.c` or `urg_serial_windows.c`; the variable `platform` says which of the two is built
in, and both go through `Begin` and `Take`. `serial_read` differs from its TCP counterpart: it takes the
pushed back character first, so raw reads need no assumption, and what it polls goes through a local buffer (`buffer`)
into the ring before anything is taken from it. On Linux `Poll` is one `select` and `read` and repeats, and the blocking part reads in
chunks with a timeout each (`Block`); on Windows each is one `ReadFile` (`WindowsPoll`, `WindowsBlock`). Between calls the port may be
closed, opened again, with or without success, and set to another baud rate. On Linux the rate may be refused, and a new one
throws the unread bytes away; on Windows any rate is taken and nothing is thrown away. `PortReader` is that promise over `LineReader`, with
`keeps` for the difference: nothing that was on its way before a new open, or before a new rate that empties, is read afterwards. After
a close one character may still be read, the one pushed back: `serial_read` looks at it before it looks at the descriptor.

### 2.5 ScipConnect

`urg_open` from its first line to its last: `connection_open`, the six rounds of `connect_urg_device` (`Try`, `Clear`, the QT
exchange, and what `QtDone` makes of the answer), `change_sensor_baudrate` (`ChangeSensorBaudrate`, `SsDone`), and the PP of
`receive_parameter`. `scip_response` and the draining reads go line by line as in ScipSession. The rate of the
host's port and of the sensor are variables; a command carries the rate it was written at. What arrives at
another rate is `Junk` for the host, and for the sensor garbage that spoils its next line (`dirt`). The model keeps the quirks: the result of
`connection_set_baudrate` is ignored in the search, `is_laser_on` has whatever value the memory of `urg_t` held, `is_sending` is only true in the
first round, `strtol` reads a refusal `0E` as 0, and status 04 to SS counts as success. What the port does with a rate is what
`urg_serial_linux.c` does: unknown ones are refused and known ones throw the unread bytes away. (The Windows port, which takes any rate and keeps
them, is in SerialPort, not here.)

The sensor (external) begins idle, in SCIP 1.1, in time stamp mode (`adjust`) or measuring, at any rate it knows. A measuring
sensor with `gaps` leaves more than the 140 ms of `MAX_TIMEOUT` between its scans (`scanning_skip_scan` makes it do so); one
without does not, and then a read never times out.

### 2.6 ScanData

One scan from the sensor's points to the application's arrays, with as many characters as matter: a reading is `byte` digits, the
echoes after the first are marked with `&`, and the text is cut into lines of `LineChars` characters of data. `ReadLine`, `Decode`
and `Carry` are the loops of `receive_length_data`: a line is read behind what is carried over, values are taken while they are
complete, the rest goes to the front. `length` and `intensity` are functions from the indices written to the values, so that a write
outside the arrays is a member of their domain and not an error of the model. The digits differ from point to point, echo to echo
and place to place, so values at wrong places are seen. `received` is what `parse_distance_echoback` stores of the echo, before the first scan
whatever the memory of `urg_t` held. The parameters may be changed and sent again at any time between calls; `coming` holds the
measurements whose scans are still on their way. A line may be lost, or one character of it garbled, into a zero or into the mark.

The conversions are operators over the same variables: `urg_index2rad` gives the step whose angle it returns, the factor of
`urg_step2rad` left out. What the sensor sends (`Text`, `InLines`) is external. `Joined` puts the readings behind each other
as a recursive function, not a RECURSIVE operator, so that it can be proved about.

### 2.7 UrgDriver

The class `Urg_driver` over the session: a call of the C library is a step of ScipSession, a method is such calls with what it
does before, between and after. `method` is the method in progress (its type, the readings left), `last_measure_type_`,
`time_stamp_offset_` and `texts` are the members of `pImpl`. A text is recorded as the sensor it was read from, the offset as computed from
readings (`measured`) or from some error codes too (`mixed`), the vectors as of the largest size or cut to a scan. `kinds`
remembers for each measurement which type it was started with, which the driver does not. `urg_open` is one step: ScipConnect has its inside, and
what it leaves after a success (`OpenSynced`) is what the step assumes. `open` on an open driver closes first, and the destructor is `close`.
`start_refused` is a `start_measurement` whose `skip_scan` is outside 0 to 9: whatever its type, the library silences the sensor if a flag is up, and
returns an error. A `get` may leave `time_stamp` at its default NULL; `AsksTime` is one that does not.

### 2.8 Programs

Each sample that drives a sensor is the sequence of calls its `main` makes; `fail` says what a failed call does to the program: nothing, it
skips the next call, it ends with 1, or it closes and ends with 1. Loops are written out `CaptureTimes` times. C programs call the
library (`PerformInC`), C++ programs the driver (`PerformInCpp`), whose destructor closes at the end. The buffers of a C program
come from a `malloc` that may fail.

`caller` is a program with no table: at each moment it calls any method with which it keeps to the rules the samples keep to, that is, it gets
only while measuring and stops before it asks for anything else. It opens, closes and opens again on other sensors, and its measurements may be refused. One thing
it does only when `Heedless`: have a measurement refused while the laser is lit for nothing (`LitForNothing`), which leaves the reply to a QT unread (section 4).
The samples give every get a place for the time stamp (`AsksTime`); the caller may not.

`samples/c/get_distance_intensity_io.c` (line 88) passes `urg_start_measurement` four arguments of five and does not compile; it has no table.

## 3. The runs

| run | shows | bounds |
|---|---|---|
| SessionCareful | a careful application against a sensor that runs ahead: `StopSynced` (after a successful stop nothing is left to read), `CountedOut` (a counted measurement is over for both sides after its last scan), `GetSucceeds`, `FreshScan` (no scan of an earlier measurement), `AnswersMatch`, `TypeOK` | every API call; two measurements of 0, 1, 2, 3 or 100 scans with and without I/O line; up to 14 lines unread |
| SessionLaser | start (refused ones too), get, stop, reboot and close in any order, over a cable that garbles, loses or breaks, under fairness: `LaserCovered`, `ClosedIsDark`, `CallsReturn`, `CloseDarkens` | one accepted measurement, endless, of one scan or of two, and any number of refused ones; 6 lines unread; one fault or one late answer |
| SessionStopContract | *violation* of `StopContract` | endless measurement, 18 lines unread: three scans and more |
| RingFifo | `ImplementsFifo`, `TypeOK` | four places, three byte values, writes of up to three bytes: every position of both indices with every content |
| TcpReads | `ReadsInOrder`, `TypeOK` | ring of four, line buffers of 2, 3 and 6 places, requests of 3 and 5 bytes, six bytes sent, two byte values |
| SerialReads | `ReadsInOrder`, `TypeOK`, on both platforms | ring of four, line buffers of 2 and 4 places, requests of 4 bytes, five bytes sent, one call that opens or sets the rate |
| ConnectFinds | `FindsSensor`, `OpenSynced`, `OpenReturns`, `TypeOK` | both connections; asked for 19200, 38400, 115200 or 250000; sensor at 19200, 38400, 57600 or 115200, in all four modes; one late answer or one answer to garbage |
| ConnectStream | *violation* of `MeasuringIsSkipped` | one rate; sensor measuring without gaps |
| ScanPoints | `PointsInPlace` (each point and echo of a reported scan at its index), `InBounds`, `LinesFit` (what is carried over leaves room for the next line), `IndexWithoutRegrouping`, `StepsFindPoints`, `TypeOK` | three or four points of the sensor, the first of them after index 0; one echo, one echo with intensity and several with intensity; two and three bytes; one to three echoes for each point; grouping 0, 1, 2; lines of 8 characters; two measurements under way; one line lost or garbled |
| ScanIndex | *violation* of `IndexIsLastScan` | plain distances, no faults |
| Programs | `BuffersMatch`, `TrueMeansScan`, `TextsAreCurrent`, `OffsetMeasured`, `OwnAnswers`, `DriverClosesDark`, `DarkAtExit`, `ZeroMeansAll`, and `SamplesEnd` under fairness | every sample, and a caller of five calls (of `open`, measuring, refused or not, and closing, and of those in `Repertoire`), not `Heedless`; two scans each, two readings of the clock; two sensors; up to 14 lines unread by the caller; one line lost or the cable pulled |
| DriverRefused | *violation* of `DriverClosesDark` | a `Heedless` caller of five calls; nothing lost |

Why the bounds are enough. The code compares `scan_times` with 1 and 100 and counts down from the
rest, so 0, 1, 2, 3 and 100 meet every branch; the loop of `urg_stop_measurement` looks at three messages, and an acknowledgement and
two scans (14 lines) put the reply to QT at each place where it still finds it. (With 18 lines it no longer does: that is
SessionStopContract.) Two measurements are what it takes for one to be met by what the other left behind. One data line per scan
and one too many are told apart by `RdData`. In `TcpReads` the ring of four holds three bytes, so buffers and requests are
smaller, equal and larger, and six bytes wrap it. In `SerialReads`
it is empty at first and its indices are 0: three bytes polled in one call fill it, and once they are taken the next two are written around the
end of the array; the wrong form of `Written` that does not wrap is found with five bytes and not with four. After the one call that opens
or sets the rate there are still bytes to be read, and bytes from before to be met. `ConnectFinds` asks for a rate inside the list, one the port knows
but the list does not (38400), and one the port does not know (250000); the six rounds contain the three whose rate the port refuses.

In `ScanPoints` a line of eight characters is no multiple of 3 or 6, the length of most readings, as 64 is none: over the lines of a scan every number of characters a
value can be cut into is carried over, an echo's mark included (`LinesFit` needs up to 6 of them). The sensor's first index is not 0, so index, step and
place in the array are three different numbers. In `Programs` `CaptureTimes` 2 has a first and a last turn of each loop; the
caller's five calls are enough to open, start, get, stop and do one more thing, or to open, ask for a text, open again and ask again. `MaxPending` is
large there because a program that reads one answer too few leaves its lines unread until it ends, and a bound they met
would keep the sensor from answering. The caller does not get as far behind: `MaxUnread` 14 is an acknowledgement and two scans, as in SessionCareful, and
with 18 `urg_stop_measurement` no longer finds its reply (`StopContract`), after which no answer is the right one. With two scans in flight a single lost
line is enough to make the stop take the second scan, then empty of points, for the reply to QT, and the next measurement, of another type, reads what is left:
so `BuffersMatch` is about sessions in which nothing was lost (`Lossless`).

`CHECK_DEADLOCK` is off in Programs, where a sample has ended, and on in all other runs: a closed session still answers "not connected", and a finished `urg_open` stutters (`Done`), so nothing stops.

Bounds appear in guards only: `MaxStarts`, `MaxPending`, `MaxBacklog` keep the application from calling
and the sensor from sending more, never the host from reading; `MaxLate`, `MaxFaults` and `MaxMishaps` count what the world may do (in ScipSession `MaxFaults` counts late answers too); `MaxSent`
and `MaxWrite` limit bytes, `MaxOpens` calls.

Fairness (SessionLaser, ConnectFinds, ConnectStream, Programs). The thread inside a call keeps running (`WF(Host)`): all its steps are reads with a timeout
and straight-line code. The sensor obeys what it was sent and goes on with its scans (`WF(SensorReply)`,
`WF(SensorScan)`). Nothing is assumed of the application (it may never call again) or of faults. `CallsReturn` is
the statement that the draining loops end; it rests on the QT the library writes before them: the wrong form that
drains without it (`DrainWithoutQt`) reads an endless measurement forever. With the sensor's scans bounded by `MaxPending` a host that reads as
fast as the sensor sends is still there, since each read makes room for the next scan. In ScipConnect one more condition is needed, `SF(TimesOut)`: a
sensor that leaves gaps leaves them again and again, and a thread that waits in a read then sees one of them.
`OpenReturns` claims nothing for a sensor without gaps, and that is no caution: see section 4.
In Programs the process runs on between calls too (`WF(ProgramStep)`); the caller may stop at any time.

## 4. Disagreements met

Each is a *violation* run with the quotation under `findings`:

* `StopContract`: an application three scans behind gets a positive number from `urg_stop_measurement`, which is documented
  as 0 or negative; the measurement is in fact stopped but the flags still say it runs.
* `IndexIsLastScan`: `urg_index2rad` takes the first index from the scan read last, but the grouping from the last call of
  `urg_set_scanning_parameter`. Between such a call and the next scan its angles belong to no scan. `IndexWithoutRegrouping` says that a change
  of the grouping is the only way.
* `DriverClosesDark`, run DriverRefused: `ignore_receive_data_with_qt` writes QT when either flag is up, but reads the reply only when `is_sending` is. So
  a measurement refused for its `skip_scan` after `laser_on` leaves the reply to the next command. If that is `laser_on` again, the laser is lit, the
  library believes it is not, and closing leaves it lit, without any line lost. The same line breaks, for the same caller, `OwnAnswers`
  (`product_type` finds QT where it expects VV), `TrueMeansScan` (`start_measurement` and `get_distance` read the reply as a scan of no points) and, with seven calls,
  `BuffersMatch` (`stop_measurement` is content with the old reply, and the next measurement of another type meets the data of this one). That is
  why these four are otherwise said of callers who are not `Heedless`.
* `MeasuringIsSkipped`: `urg_open` on a sensor left measuring without gaps reads in `clear_urg_communication_buffer` forever, since it
  waits there for silence before it has sent QT. The branch meant for a measuring sensor, a wrong echo to QT, is reached only when its scans are far apart.

Smaller ones that no run is spent on, since one call shows them:

* `ring_write` of more than is free overwrites unread bytes when the ring has wrapped and returns the size that would have fit
  (`Oversize = TRUE`). No caller in the library does that.
* `receive_data` writes `*time_stamp = 0` (`urg_sensor.c:758`) without the test for NULL, when the status line has a bad checksum and checksums are checked,
  although `urg_sensor.h:425` says "When not necessary just pass NULL as argument". The model has it (`pc` is then `crashed`).
* A raw read that gets nothing returns 0, over TCP (`urg_tcpclient.c:305`) and from an open serial port (`urg_serial_linux.c:262-264` and its Windows counterpart), not
  `URG_CONNECTION_TIMEOUT` (-1) as `urg_connection.h:211` and `:228` promise. `LineReader`, and so `ReadsInOrder`, has the 0 of the code; -1 comes only from a
  serial port that is closed.
* A command refused with an unexpected status returns an error that `last_errno`, and so `urg_error`, does not know of.
* In time stamp mode a refusal is `0E`, which counts as 00: `urg_laser_on`, `urg_sleep` and the queries report success.
* A rate the list of `connect_urg_device` does not have is never tried, although the comment there says the given value comes first.
* Junk at a wrong rate is taken for measurement data and ends the search; from the second round on the data are not skipped.
* A failed `urg_open` leaves the connection open.
* When the answer to BM is lost or late the laser is lit, `is_laser_on` is not set, and `urg_close` sends no QT (`urg_sensor.h:224`: "Turns off the
  laser and closes the connection"). `DriverClosesDark` excepts lost lines for this; no sample turns the laser on by itself, so `DarkAtExit` needs no exception.
* For echoes that were not received `urg_sensor.h:682` promises -1, the code stores 0.
* `urg_rad2index` takes no account of the first index received, `urg_step2index` none of the grouping: `StepsFindPoints` holds for scans that are not grouped.
* A line lost in the middle of a scan moves the points behind it, silently but for their number. With echoes a lost line or a character that turns into the
  mark can write before or behind the array; `InBounds` says what is still true.
* The methods `get_*` of the driver return true for a scan of no points, with vectors of the largest size, after a line was lost.
* `set_sensor_time_stamp` averages the error code of a reading that failed like a reading.
* `product_type` and its siblings keep an error message as the text.
* A caller of the driver who starts another type without stopping can read a scan of the old one into arrays for the new; the rules of the samples exclude it.
* A C sample whose `malloc` fails ends without closing; `get_multiecho_intensity.c` and `get_distance_io.c` do not test all of theirs.
* After a lost line `sensor_parameter` gets each further answer one call late.
* `viewer_sdl.c` (line 224), like `get_distance_intensity_io.c` and the example at `urg_sensor.h:789`, leaves out an argument of `urg_start_measurement`; `get_distance_intensity_io.cpp` (line 46) prints distances as intensities;
  `dox/set_parameter.c` passes degrees to `urg_rad2step`.
* The Windows `sort_ports` (`urg_serial_utils_windows.c:64-77`) does not always bring the sensors to the front, as its comment says; the Linux
  search has no bound for its array of 16 ports.

## 5. What is proved

TLAPS checks these for every value of the constants that satisfies the named assumptions.

* `TypeCorrect` (`Spec => []TypeOK`, ScipSession): by itself inductive. The parts worth the proof: the countdown never
  goes below zero, the loop counter stays below three, the value held across the nested stop is one that can be returned.
* `LaserIsCovered` (`Spec => []LaserCovered`, for `"laser_on" \notin Calls`): with both flags false the sensor is dark or a QT
  is on its way with nothing after it that lights the laser. `LaserCovered` alone is not inductive: inside a draining read, or inside
  `urg_stop_measurement`, the flags are about to be cleared, so the invariant `LaserInv` says that from the moment QT is
  written until then nothing that lights the laser is sent (`Stopping => DarkAhead`). For that, no call may start a
  measurement while a stop is on the stack (`FramesOK`), a closed session is idle (`ClosedOK`), and a sensor in time stamp
  or sleep mode, which refuses some commands, is dark (`SensorDark`). Any number of faults, late answers and
  measurements is covered. Not covered is `urg_laser_on`: there the statement is false (section 4).
* `ClosedSensorIsDark` (`Spec => []ClosedIsDark`, under the same assumption): how a session ends. `CloseInv` rests on `LaserInv`: when
  `urg_close` lets go of the link both flags are false, so `LaserInv` gives `DarkAhead`; `urg_reboot` looks at no flag,
  and there the two RB themselves are what counts. `FirstRB` and `SecondRB` say that the queue ends with one or with two of them,
  whichever the sensor has already read, and survive its every step, a scan and a stale answer included.
* `InStep` (`Spec => []SyncInv`, ScipSession, for `KeepsUp`), and from it `AnswersAreOwn`, `StopIsSynced`, `CountIsOut`, `GetsScan` and `ScanIsFresh`
  (`AnswersMatch`, `StopSynced`, `CountedOut`, `GetSucceeds`, `FreshScan`). `KeepsUp` is what section 3 says of `MCSessionCareful`:
  the calls that fit, a prompt sensor, no faults, and less on the wires than three scans (`MaxPending < 3 * (DataLines + 4)`); the calls made, the numbers of
  scans, data lines and measurements are arbitrary. None of the five is inductive: whether the next line is
  the right one depends on all that is in flight. `Carries(m, p, s, k, d)` says what that is: the rest of message `m` from line `p` on, `k`
  whole scans `s`, and `d` times a QT, unread or answered. `Place` gives, for each `pc`, the message and the line the host is at; `Under`
  counts the scans still to come against `scanning_remain_times` and what the sensor has left, and `Ending` says that a sensor that has read QT is dark.
  `Budget` is why stopping works: each activation of `urg_stop_measurement` has as many reads left as there are scans ahead of its reply. That two
  activations may be nested, when the last scan of a counted measurement stops it inside `urg_stop_measurement` (`receive_data` calls it), is
  the case with `d = 2`. The lemmas `CarriesRead`, `CarriesNext`, `CarriesEnd`, `CarriesQuit`, `CarriesReply`, `CarriesScan` say what a read, a write and
  the sensor do to the wires; `CarriesRoom` turns `MaxPending` into `k <= 2`; every action has a lemma of its own.
* `ConnectTypeCorrect`, `OpenedIsSynced`, `SensorIsFound` (ScipConnect, no assumption but those on the constants): any rates, any number of
  late answers, any number of scans in flight. `OpenSynced` is about the last moment of `urg_open` and needs all that comes before it: that a sensor is not
  measuring, or will read a whole QT before anything else at its rate (`Quieted`; garbage is no obstacle, because the line end
  `clear_urg_communication_buffer` wrote takes it along, `Cleared`), that nobody has sent an SS or a PP before (`Unsent`, `NoEcho`), so that
  the echo to the one PP means what it says, and line by line what is left of its answer (`PpLine0` to `PpLine2`). A status line read
  too early, or too late, is told apart from the right one by this alone: `Line("status", "00")` looks the same from all commands. `SensorIsFound` then adds
  `FindInv`: with no late answer a read times out only when both queues are empty, so each phase of the search is one of seven exact pictures of
  the line. In a round at a wrong rate everything sent is garbage (`Astray`) and the rate of the sensor is still to come (`Later`); this needs
  that `Rate` permutes the list (`RateListed`) and that the first round is at a rate the port knows (`RateFirst`): a later round whose rate the port
  refuses stays at a rate that was tried.
* `TextsStayCurrent` (`ProgramSpec => []TextsAreCurrent`): the texts belong to the sensor opened last also while the
  session is closed (`TextsInv`), because `open` forgets them before it knows whether it will succeed.
* `ZeroMeansAllScans` (`ProgramSpec => []ZeroMeansAll`): the count is compared with the number of gets *behind* the place a sample is at
  (`GetsIn(place)`), which one call moves by one (`OneMore`). For that every sample must close when a get fails, and a skipped call must be no
  get (`TablesCount`, loop by loop); and between the return of the library and the look at it, `result` must still say whether points
  were read (`GetOpen`), since the sensor goes on meanwhile.
* `SamplesLeaveDark` (`ProgramSpec => []DarkAtExit`, no assumption but those on the constants) and `DriverIsDark` (`ProgramSpec => []DriverClosesDark`, for
  `"laser_on" \notin CallerMethods`). Each step of a driver or a sample is one of the session's or none to it (`SessionStep`, `QuietMove`), so the
  session's own lemmas (`LaserInv`, `CloseInv`, `TypeOK`) carry over; added are `open` in the middle of the history (`OpenDark`) and the tables of the
  samples. All of it is said for a program that leaves `laser_on` alone (`LaserLess`); a sample always does, hence no assumption there. A sample
  that closes its session leaves it dark because of `CloseInv`. One that ends without closing (`LeftOpen`) is dark because it has not begun to measure
  (`Unstarted`, `NotYet`), which is a property of its table (`LeftOpenQuiet`), and because a step at whose failure
  a sample leaves without closing stands before any measurement (`TablesOrderly`). Lines may be lost, garbled or late: `DriverIsDark` is proved without the `Lossless` its property allows itself. That is
  needed by callers of `laser_on`, and for them TLC alone speaks. `ProgramTypes` says that `TypeOK` of ScipSession holds under driver and programs too.
* `SamplesHaveRoom`, `SamplesOwnAnswers`, `SampleScans`, `SampleOffset` (Programs, for `program # "caller"`): `BuffersMatch`, `OwnAnswers`, `TrueMeansScan` and
  `OffsetMeasured` for every C and C++ sample, any number of scans and readings of the clock. The first is proved for any number of lost,
  garbled and late lines: a sample's measurements are all of one type, which its table says (`TablesMeasure`, `KindInv`), and each data line bears
  the number of a measurement that was begun (`Numbered`). The others hold as long as no answer is late (`late = 0`; the
  run has `MaxLate = 0`): a sample that gives up on an answer still to come reads it as the next one. Three invariants carry them, each
  a step on from the last. `PlanInv` is where a sample is in its table: it sets no number of scans, does nothing but leave once it closes (`Tame`), has
  no measurement under way if its table starts none (`Idling`), and starts the next single scan only after a get that succeeded (`Behind`). `TalkInv` is what host
  and sensor say to each other meanwhile: either the session is being left (`Leaving`) or a get is ending in an error
  (`Failing`), or the lines ahead are a part of the scans the measurement owes, in place (`Listening`), or of the one answer to the one
  command that is under way (`Exchanging`). `SetInv` is `set_sensor_time_stamp`: while the cable holds, the sensor is in time stamp mode and each reading a time, and
  once it does not, TM2 fails as the readings did, so no average with an error code in it is kept.
* ScanData, all six invariants of its run, under no assumption but those on the constants: any sensor, area, grouping, measurement and length of
  line, any number of measurements under way, of lost and of garbled lines. `TypeCorrect` (`TypeOK`), `LinesAlwaysFit` (`LinesFit`), `ArraysAreEnough` (`InBounds`),
  `ReportedAsMeasured` (`PointsInPlace`), `DirectionsWithoutRegrouping` (`IndexWithoutRegrouping`), `PointsAreFound` (`StepsFindPoints`). `IInv` has a part for each
  thing the loops rely on: `ParametersSound` (every command on its way is for an area that the sensor has), `ScanSound` (the received parameters are those of the
  scan read last), `LinesSound` (no line is longer than `LineChars`, and the empty one is the last), `FilledSound` (no more points are filled than were asked for,
  and less than one value is carried over to the next line), `Unmarked` (without echoes and garbled characters there is no mark, so one value is written for each
  point) and `AsSent`, on which `PointsInPlace` rests: unless a line was lost, or garbled unnoticed, the buffer goes on with the sensor's text behind the
  readings that are decoded, up to a line end, the lines ahead hold the rest, and the decoded readings are at their places. That the next
  characters are those of the next reading, wherever the lines are cut, is a statement about all texts; it comes from `Joined` by induction over
  its parts. The induction is over sets (`Induct`, from the well-foundedness of `<`), and that a function with the recursive equation exists is proved before the
  equation is used (`JoinExists`, `JoinedIs`).
* `RingStaysIntact`, `RingImplementsFifo` (RingQueue, for `Oversize = FALSE`): for every power of two and every set of bytes. The lemmas
  `WriteAppends` and `ReadTakes` say that `Written` appends to and `Read` takes from `Contents`, case by case of the wrap; the theorems
  follow step by step.
* `TcpTypeCorrect`, `TcpReadsInOrder` (TcpClient, for `RawAnytime = FALSE`): the client implements `LineReader`. The
  invariant adds to `TypeOK` that a line being filled holds no line end, that a running call has taken the pushed back character, and that the socket
  is read only when the ring buffer is empty: without the last, bytes from the socket would overtake those in the ring. `LineStep` and
  `RawOver` match the end of a call with an action of `LineReader`; the lemmas of RingBuffer are used as they stand.
* `SerialTypeCorrect`, `SerialReadsInOrder` (SerialPort, no assumption but those on the constants): the port, on both platforms, implements
  `PortReader`. Here a call begins with the character still pushed back, so the invariant ties it down differently: never a line end,
  gone as soon as something is in the caller's buffer (`LineSound`), and gone before anything is polled (`PartSound`). `PartSound` also says that a closed port polls nothing and
  that the terminal is read past the ring only when the ring is empty; that a poll of the Windows port, which overwrites the
  local buffer, finds it empty; `TypeOK` that what Linux polls in several reads still fits the ring. The character of a closed port
  is why a read of one may give a line (`ReadShows`), but never an empty one: it is no line end.

Only model-checked, and why:

* `BuffersMatch`, `TrueMeansScan`, `OffsetMeasured`, `OwnAnswers` for the *caller* of the driver (for the samples they are theorems). They need what `InStep` says of
  a careful application, for a caller who keeps to `Fits` instead of `Fitting` and may light the sensor or enter time stamp mode in
  between; `DriverClosesDark` for callers of `laser_on` rests on the same.
* Liveness: what rests on fairness or on ENABLED is outside what TLAPS does here.

## 6. Not modelled

* Checksums, and texts other than scans. A line has a right or a wrong checksum; that it is only six bits wide is left out. In ScanData the characters of the
  time stamp and of the I/O line are left out.
* Time: a read times out when nothing is coming, or, `MaxLate` times, although something is.
* `urg_set_timeout_msec` and the error handler: no control depends on them.
* The values `urg_open` gets from PP, and a write that fails while it searches.
* Angles in `double` and the conversions that round them, the texts of `urg_error`: out of TLC's reach.
* Port enumeration, clock, viewer, documentation programs, build files: pure I/O, or without behaviour of their own.
* In the driver: plain forwards, raw writes, `set_measurement_type`, by which a caller overrides the check of the type, and `set_ignore_checkSumError`: the driver
  ignores checksums throughout, as after `urg_open`.

## 7. What is left

1. **UrgDriver**, proofs: for the caller the four invariants named in section 5, which are proved for the samples, from an `InStep` for `Fits`.
2. **ScipConnect** and **ScipSession** as a refinement: what a successful `urg_open` leaves is the `Init` of the session.
3. Port enumeration as sorting and splitting of name lists, if it grows state.
