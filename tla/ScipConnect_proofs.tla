------------------------- MODULE ScipConnect_proofs -------------------------
(***************************************************************************)
(* Theorems about ScipConnect, for every value of its constants: the types *)
(* of its variables; that what urg_open opened is ready for the first      *)
(* command, whatever the sensor was doing and however many answers came    *)
(* late; that a sensor that can be found is found.                         *)
(***************************************************************************)
EXTENDS ScipConnect, SequenceTheorems, TLAPS

Commands == [name : Names, rate : Nat]

(***************************************************************************)
(* The lines read and written.                                             *)
(***************************************************************************)

\* A read takes the head of the line queue or times out.
LEMMA ReadsLine ==
  ASSUME inbox \in Seq(Lines), mishaps \in 0 .. MaxMishaps, NEW l \in Incoming, Reads(l)
  PROVE  /\ inbox' \in Seq(Lines) /\ mishaps' \in 0 .. MaxMishaps
         /\ \/ Failed(l) /\ l = Timeout /\ inbox' = inbox
            \/ ~Failed(l) /\ l \in Lines /\ inbox # <<>> /\ l = inbox[1] /\ inbox' = Tail(inbox)
<1>1. Failed(Timeout) BY DEF Timeout, Line, Failed
<1>2. \A x \in Lines : ~Failed(x) BY DEF Lines, Failed
<1>3. CASE l = Timeout
  <2>1. inbox' = inbox /\ mishaps' = IF Silent THEN mishaps ELSE mishaps + 1
    BY <1>1, <1>3 DEF Reads
  <2>2. \A k \in DOMAIN inbox : inbox[k] \in Lines OBVIOUS
  <2>3. Silent \/ mishaps < MaxMishaps BY <1>1, <1>2, <1>3, <2>2 DEF Incoming
  <2> QED BY <1>1, <1>3, <2>1, <2>3, BoundAssumption
<1>4. CASE l # Timeout
  <2>1. l = inbox[1] /\ inbox # <<>> BY <1>4 DEF Incoming
  <2>2. l \in Lines BY <2>1
  <2>3. inbox' = Tail(inbox) /\ UNCHANGED mishaps BY <1>2, <2>2 DEF Reads
  <2>4. Tail(inbox) \in Seq(Lines) BY <2>1, HeadTailProperties
  <2> QED BY <1>2, <2>1, <2>2, <2>3, <2>4
<1> QED BY <1>3, <1>4

\* A command is written behind the others.
LEMMA WritesCommand ==
  ASSUME TypeOK, NEW c \in Names, Writes(c)
  PROVE  /\ outbox' \in Seq(Commands) /\ outbox' # <<>>
         /\ Len(outbox) \in Nat /\ Len(outbox') = Len(outbox) + 1
         /\ outbox'[Len(outbox')] = [name |-> c, rate |-> hostrate]
         /\ \A k \in 1 .. Len(outbox) : outbox'[k] = outbox[k]
<1> DEFINE e == [name |-> c, rate |-> hostrate]
<1>1. outbox \in Seq(Commands) BY DEF TypeOK, Commands
<1>2. e \in Commands /\ outbox' = Append(outbox, e) BY DEF TypeOK, Commands, Writes
<1> HIDE DEF e
<1>3. Len(outbox) \in Nat BY <1>1, LenProperties
<1>4. /\ outbox' \in Seq(Commands) /\ outbox' # <<>> /\ Len(outbox') = Len(outbox) + 1
      /\ \A k \in 1 .. Len(outbox) : outbox'[k] = outbox[k]
      /\ outbox'[Len(outbox) + 1] = e
  BY <1>1, <1>2, AppendProperties
<1> QED BY <1>3, <1>4 DEF e

\* What the sensor sends arrives behind the other lines: whole when both have the
\* same rate, as junk otherwise.
LEMMA SendsLines ==
  ASSUME inbox \in Seq(Lines), NEW lines \in Seq(Lines), Sends(lines)
  PROVE  \E arriving \in Seq(Lines) :
           /\ inbox' \in Seq(Lines) /\ inbox' = inbox \o arriving
           /\ Len(arriving) = Len(lines)
           /\ InTune(hostrate) => arriving = lines
           /\ ~InTune(hostrate) => \A k \in DOMAIN arriving : arriving[k] = Junk
<1>1. Junk \in Lines BY DEF Junk, Line, Lines, Texts
<1> DEFINE n == Len(lines)  spoilt == [k \in DOMAIN lines |-> Junk]
<1>2. n \in Nat /\ DOMAIN lines = 1 .. n BY LenProperties
<1>3. spoilt \in Seq(Lines) /\ Len(spoilt) = n /\ \A k \in DOMAIN spoilt : spoilt[k] = Junk
  <2> HIDE DEF n
  <2>1. spoilt = [k \in 1 .. n |-> Junk] BY <1>2
  <2>2. spoilt \in [1 .. n -> Lines] BY <1>1, <2>1
  <2>3. spoilt \in Seq(Lines) BY <1>2, <2>2, SeqDef
  <2>4. Len(spoilt) = n BY <1>2, <2>1, <2>3, LenProperties
  <2> QED BY <2>1, <2>3, <2>4
<1> DEFINE arriving == IF InTune(hostrate) THEN lines ELSE spoilt
<1>4. arriving \in Seq(Lines) /\ inbox' = inbox \o arriving BY <1>3 DEF Sends
<1>5. inbox' \in Seq(Lines) BY <1>4, ConcatProperties
<1>6. Len(arriving) = Len(lines) BY <1>3
<1>7. ~InTune(hostrate) => \A k \in DOMAIN arriving : arriving[k] = Junk BY <1>3
<1> QED BY <1>4, <1>5, <1>6, <1>7

\* The lines of an answer.
LEMMA AnswerLines ==
  ASSUME NEW c \in Names, NEW s \in Texts
  PROVE  /\ Answer(c, s) \in Seq(Lines) /\ Len(Answer(c, s)) = 3
         /\ Answer(c, s)[1] = Line("echo", c) /\ Answer(c, s)[2] = Line("status", s)
         /\ Answer(c, s)[3] = Blank
<1> DEFINE a == Line("echo", c)  b == Line("status", s)
<1>1. a \in Lines /\ b \in Lines /\ Blank \in Lines
  BY DEF Line, Blank, Lines, Texts
<1>2. Answer(c, s) = <<a, b, Blank>> BY DEF Answer
<1> HIDE DEF a, b
<1> QED BY <1>1, <1>2 DEF a, b

LEMMA RefusalLines ==
  /\ Refusal \in Seq(Lines) /\ Len(Refusal) = 3
  /\ Refusal[1] = Junk /\ Refusal[2] = Line("status", "0E") /\ Refusal[3] = Blank
<1> DEFINE b == Line("status", "0E")
<1>1. Junk \in Lines /\ b \in Lines /\ Blank \in Lines
  BY DEF Line, Junk, Blank, Lines, Texts
<1>2. Refusal = <<Junk, b, Blank>> BY DEF Refusal
<1> HIDE DEF b
<1> QED BY <1>1, <1>2 DEF b

PpAnswer == <<Line("echo", "PP"), Line("status", "00"), Line("body", sensor.pp), Blank>>

LEMMA PpLines ==
  ASSUME sensor.pp \in PpBodies
  PROVE  /\ PpAnswer \in Seq(Lines) /\ Len(PpAnswer) = 4
         /\ PpAnswer[1] = Line("echo", "PP") /\ PpAnswer[2] = Line("status", "00")
         /\ PpAnswer[3] = Line("body", sensor.pp) /\ PpAnswer[4] = Blank
<1> DEFINE a == Line("echo", "PP")  b == Line("status", "00")  d == Line("body", sensor.pp)
<1>1. a \in Lines /\ b \in Lines /\ d \in Lines /\ Blank \in Lines
  BY ChoiceAssumption DEF Line, Blank, Lines, Texts, Names
<1>2. PpAnswer = <<a, b, d, Blank>> BY DEF PpAnswer
<1> HIDE DEF a, b, d
<1> QED BY <1>1, <1>2 DEF a, b, d

\* The two lines of a scan.
Scan == <<Line("data", "none"), Blank>>

LEMMA ScanLines ==
  /\ Scan \in Seq(Lines) /\ Len(Scan) = 2 /\ Scan[1] = Line("data", "none") /\ Scan[2] = Blank
<1> DEFINE a == Line("data", "none")
<1>1. a \in Lines /\ Blank \in Lines BY DEF Line, Blank, Lines, Texts
<1>2. Scan = <<a, Blank>> BY DEF Scan
<1>3. Scan \in Seq(Lines) /\ Len(Scan) = 2 /\ Scan[1] = a /\ Scan[2] = Blank
  <2> HIDE DEF a
  <2> QED BY <1>1, <1>2
<1> QED BY <1>3

(***************************************************************************)
(* Type correctness.                                                       *)
(***************************************************************************)

\* The rates tried are natural numbers.
LEMMA RateType == ASSUME TypeOK PROVE Rate(i) \in Nat
<1>1. i \in 1 .. 6 /\ baudrate \in Nat BY DEF TypeOK, try_times, try_baudrate
<1>2. \A k \in 1 .. 6 : try_baudrate[k] \in Nat BY DEF try_baudrate
<1> QED BY <1>1, <1>2 DEF Rate

LEMMA SetBaudrateType ==
  ASSUME TypeOK, NEW rate, SetBaudrate(rate)
  PROVE  /\ hostrate' \in Nat /\ (Serial => hostrate' \in Known \cup {0})
         /\ inbox' \in Seq(Lines)
<1>1. <<>> \in Seq(Lines) BY EmptySeq
<1>2. Known \subseteq Nat BY DEF Known
<1> QED BY <1>1, <1>2 DEF SetBaudrate, TypeOK

LEMMA ExchangeType ==
  ASSUME TypeOK, NEW c \in Names, Exchange(c)
  PROVE  /\ outbox' \in Seq(Commands) /\ pc' = "xchg" /\ ret' = ret
         /\ xchg' \in [cmd : Names, line : 0 .. 2, ok : BOOLEAN, reply : Texts, body : Texts]
<1>1. outbox' \in Seq(Commands) BY WritesCommand DEF Exchange
<1>2. xchg' = [cmd |-> c, line |-> 0, ok |-> FALSE, reply |-> "none", body |-> "none"]
      /\ pc' = "xchg" /\ ret' = ret
  BY DEF Exchange, Goto
<1>3. "none" \in Texts /\ 0 \in 0 .. 2 BY DEF Texts
<1> QED BY <1>1, <1>2, <1>3

LEMMA IgnoreType ==
  ASSUME TypeOK, NEW label \in Labels, IgnoreReceiveData(label)
  PROVE  pc' \in Labels /\ ret' = ret /\ after' \in Labels
BY DEF IgnoreReceiveData, Goto, TypeOK, Labels

LEMMA IgnoreQtType ==
  ASSUME TypeOK, NEW label \in Labels, IgnoreReceiveDataWithQt(label)
  PROVE  /\ pc' \in Labels /\ ret' = ret /\ after' \in Labels
         /\ is_laser_on' \in BOOLEAN /\ outbox' \in Seq(Commands)
<1>1. outbox \in Seq(Commands) BY DEF TypeOK, Commands
<1>2. CASE is_sending \/ is_laser_on
  <2>1. outbox' \in Seq(Commands) BY <1>2, WritesCommand DEF IgnoreReceiveDataWithQt, Names
  <2>2. is_laser_on' = FALSE BY <1>2 DEF IgnoreReceiveDataWithQt
  <2> QED BY <1>2, <2>1, <2>2, IgnoreType DEF IgnoreReceiveDataWithQt
<1>3. CASE ~(is_sending \/ is_laser_on)
  BY <1>1, <1>3 DEF IgnoreReceiveDataWithQt, Goto, TypeOK
<1> QED BY <1>2, <1>3

\* Each action of the host keeps the types.
LEMMA HostType == ASSUME TypeOK, Host PROVE TypeOK'
<1>1. CASE Open
  <2>1. (Serial => hostrate' \in Known \cup {0}) /\ hostrate' \in Nat /\ baudrate' \in Nat
    BY <1>1 DEF Open, Ends, Goto, Known, TypeOK
  <2>2. pc' \in Labels /\ ret' \in Codes
    BY <1>1 DEF Open, Ends, Goto, TypeOK, Labels, Codes
  <2> QED BY <1>1, <2>1, <2>2 DEF Open, TypeOK, flags, Serial
<1>2. CASE Try
  <2>1. /\ hostrate' \in Nat /\ (Serial => hostrate' \in Known \cup {0})
        /\ inbox' \in Seq(Lines)
    BY <1>2, SetBaudrateType DEF Try
  <2>2. [name |-> "LF", rate |-> hostrate'] \in Commands BY <2>1 DEF Commands, Names
  <2>3. outbox \in Seq(Commands) BY DEF TypeOK, Commands
  <2>4. outbox' \in Seq(Commands) BY <1>2, <2>2, <2>3, AppendProperties DEF Try
  <2>5. pc' = "clear" /\ UNCHANGED ret BY <1>2 DEF Try, Goto
  <2> QED BY <1>2, <2>1, <2>4, <2>5 DEF Try, TypeOK, flags, args, Serial, Labels, Commands
<1>3. CASE Clear
  <2>1. PICK l \in Incoming :
          /\ Reads(l)
          /\ IF Failed(l) THEN Exchange("QT") ELSE UNCHANGED <<pc, ret, xchg, outbox>>
    BY <1>3 DEF Clear
  <2>2. inbox' \in Seq(Lines) /\ mishaps' \in 0 .. MaxMishaps BY <2>1, ReadsLine DEF TypeOK
  <2>3. /\ outbox' \in Seq(Commands) /\ pc' \in Labels /\ ret' = ret
        /\ xchg' \in [cmd : Names, line : 0 .. 2, ok : BOOLEAN, reply : Texts, body : Texts]
    <3>1. CASE Failed(l) BY <2>1, <3>1, ExchangeType DEF Names, Labels
    <3>2. CASE ~Failed(l) BY <2>1, <3>2 DEF TypeOK, Commands
    <3> QED BY <3>1, <3>2
  <2> QED BY <1>3, <2>2, <2>3 DEF Clear, TypeOK, flags, args, Serial, Commands
<1>4. CASE Drain
  <2>1. inbox' \in Seq(Lines) /\ mishaps' \in 0 .. MaxMishaps
    BY <1>4, ReadsLine DEF Drain, TypeOK
  <2>2. pc' \in Labels /\ ret' = ret /\ is_sending' \in BOOLEAN
    BY <1>4 DEF Drain, TypeOK, Goto
  <2> QED BY <1>4, <2>1, <2>2 DEF Drain, TypeOK, args, Serial
<1>5. CASE ScipResponse
  <2>1. PICK l \in Incoming :
         /\ Reads(l)
         /\ IF Rejection(l) # "NO_ERROR"
            THEN pc' = "xchg_done" /\ ret' = Rejection(l) /\ UNCHANGED xchg
            ELSE IF Empty(l)
            THEN /\ pc' = "xchg_done" /\ UNCHANGED xchg
                 /\ ret' = IF xchg.ok THEN "POSITIVE" ELSE "UNKNOWN_ERROR"
            ELSE /\ UNCHANGED <<pc, ret>>
                 /\ xchg' = CASE xchg.line = 0 -> [xchg EXCEPT !.line = 1]
                              [] xchg.line = 1 -> [xchg EXCEPT !.line = 2, !.reply = l.val,
                                                               !.ok = l.val \in Expected(xchg.cmd)]
                              [] xchg.line = 2 -> [xchg EXCEPT !.body = l.val]
    BY <1>5 DEF ScipResponse
  <2>2. inbox' \in Seq(Lines) /\ mishaps' \in 0 .. MaxMishaps BY <2>1, ReadsLine DEF TypeOK
  <2>3. pc' \in Labels /\ ret' \in Codes
    BY <2>1 DEF TypeOK, Labels, Codes, Rejection
  <2>4. xchg' \in [cmd : Names, line : 0 .. 2, ok : BOOLEAN, reply : Texts, body : Texts]
    <3>1. CASE Rejection(l) # "NO_ERROR" \/ Empty(l) BY <2>1, <3>1 DEF TypeOK
    <3>2. CASE Rejection(l) = "NO_ERROR" /\ ~Empty(l)
      <4>1. ~Failed(l) BY <3>2 DEF Rejection
      <4>2. l.val \in Texts BY <2>1, <4>1, ReadsLine DEF TypeOK, Lines
      <4>4. CASE xchg.line = 0 BY <2>1, <3>2, <4>4 DEF TypeOK
      <4>5. CASE xchg.line = 1
        <5> DEFINE ok == l.val \in Expected(xchg.cmd)
        <5>1. xchg' = [xchg EXCEPT !.line = 2, !.reply = l.val, !.ok = ok]
          BY <2>1, <3>2, <4>5
        <5>2. ok \in BOOLEAN OBVIOUS
        <5>3. xchg' = [cmd |-> xchg.cmd, line |-> 2, ok |-> ok, reply |-> l.val, body |-> xchg.body]
          BY <5>1 DEF TypeOK
        <5> HIDE DEF ok
        <5> QED BY <4>2, <5>2, <5>3 DEF TypeOK
      <4>6. CASE xchg.line = 2 BY <2>1, <3>2, <4>2, <4>6 DEF TypeOK
      <4> QED BY <4>4, <4>5, <4>6 DEF TypeOK
    <3> QED BY <3>1, <3>2
  <2> QED BY <1>5, <2>2, <2>3, <2>4 DEF ScipResponse, TypeOK, args, flags, Serial
<1>6. CASE QtDone
  <2>1. ret' = ret /\ pc' \in Labels /\ after' \in Labels /\ is_laser_on' \in BOOLEAN
        /\ outbox' \in Seq(Commands)
        /\ xchg' \in [cmd : Names, line : 0 .. 2, ok : BOOLEAN, reply : Texts, body : Texts]
    <3>1. CASE ret = "POSITIVE" /\ xchg.reply = "E"
      BY <1>6, <3>1, IgnoreType DEF QtDone, Labels, TypeOK, Commands
    <3>2. CASE ret = "POSITIVE" /\ xchg.reply = "0E"
      BY <1>6, <3>2, ExchangeType DEF QtDone, Labels, Names, TypeOK
    <3>3. CASE ret = "POSITIVE" /\ xchg.reply = "00"
      BY <1>6, <3>3 DEF QtDone, Labels, Goto, TypeOK, Commands
    <3>4. CASE ret = "INVALID_RESPONSE"
      BY <1>6, <3>4, IgnoreQtType DEF QtDone, Labels, TypeOK
    <3>5. CASE ret \notin {"POSITIVE", "INVALID_RESPONSE"}
      BY <1>6, <3>5, IgnoreQtType DEF QtDone, Labels, TypeOK
    <3>6. CASE ret = "POSITIVE" /\ xchg.reply \notin {"E", "0E", "00"}
      BY <1>6, <3>6 DEF QtDone, Labels, Goto, TypeOK, Commands
    <3> QED BY <3>1, <3>2, <3>3, <3>4, <3>5, <3>6
  <2> QED BY <1>6, <2>1 DEF QtDone, Answered, TypeOK, args, Serial, Commands
<1>7. CASE Scip20
  BY <1>7, ExchangeType DEF Scip20, TypeOK, args, flags, Serial, Commands, Names, Labels
<1>8. CASE Scip20Done
  BY <1>8, IgnoreType DEF Scip20Done, Answered, TypeOK, args, flags, Serial, Labels
<1>9. CASE Tm2Done
  BY <1>9 DEF Tm2Done, Goto, Answered, TypeOK, args, flags, Serial, Labels
<1>10. CASE NextRound
  <2>1. i' \in 1 .. try_times /\ pc' \in Labels /\ ret' \in Codes
    BY <1>10 DEF NextRound, Goto, Ends, TypeOK, Labels, Codes, try_times, try_baudrate
  <2> QED BY <1>10, <2>1 DEF NextRound, TypeOK, args, flags, Serial
<1>11. CASE ChangeSensorBaudrate
  <2>1. /\ outbox' \in Seq(Commands) /\ pc' \in Labels /\ ret' = ret
        /\ xchg' \in [cmd : Names, line : 0 .. 2, ok : BOOLEAN, reply : Texts, body : Texts]
    <3>1. CASE Rate(i) = baudrate
      BY <1>11, <3>1 DEF ChangeSensorBaudrate, Goto, TypeOK, Labels, Commands
    <3>2. CASE Rate(i) # baudrate
      BY <1>11, <3>2, ExchangeType DEF ChangeSensorBaudrate, Names, Labels
    <3> QED BY <3>1, <3>2
  <2> QED BY <1>11, <2>1 DEF ChangeSensorBaudrate, TypeOK, args, flags, Serial, Commands
<1>12. CASE SsDone
  <2>1. /\ hostrate' \in Nat /\ (Serial => hostrate' \in Known \cup {0})
        /\ inbox' \in Seq(Lines)
    BY <1>12, SetBaudrateType DEF SsDone, TypeOK
  <2>2. pc' \in Labels /\ after' \in Labels /\ ret' \in Codes
    <3>1. CASE ret # "POSITIVE" BY <1>12, <3>1 DEF SsDone, Ends, TypeOK, Labels, Codes
    <3>2. CASE ret = "POSITIVE"
      <4>1. "connected" \in Labels BY DEF Labels
      <4> QED BY <1>12, <3>2, <4>1, IgnoreType DEF SsDone, TypeOK
    <3> QED BY <3>1, <3>2
  <2> QED BY <1>12, <2>1, <2>2 DEF SsDone, Answered, TypeOK, args, flags, Serial
<1>13. CASE Connected
  BY <1>13, ExchangeType DEF Connected, TypeOK, args, Serial, Commands, Names, Labels
<1>14. CASE PpDone
  <2>1. pc' = "done" /\ ret' \in Codes BY <1>14 DEF PpDone, Ends, TypeOK, Codes
  <2>2. is_active' \in BOOLEAN BY <1>14 DEF PpDone
  <2> QED BY <1>14, <2>1, <2>2 DEF PpDone, Answered, TypeOK, args, Serial, Labels
<1> QED BY <1>1, <1>2, <1>3, <1>4, <1>5, <1>6, <1>7, <1>8, <1>9, <1>10, <1>11, <1>12, <1>13,
           <1>14 DEF Host

\* An answer and the change of the sensor that goes with it.
Replies(c) ==
  \E s \in {"00", "03", "04", "0E", "E", "0"} : Sends(Answer(c, s))

\* The ways it takes a command it makes out.
LEMMA ObeyCases ==
  ASSUME TypeOK, NEW c \in Names, Obey(c)
  PROVE  \/ sensor.dirt /\ Sends(Refusal) /\ sensor' = [sensor EXCEPT !.dirt = FALSE]
         \/ ~sensor.dirt /\ c = "LF" /\ UNCHANGED sensor /\ (Sends(Refusal) \/ UNCHANGED inbox)
         \/ c = "PP" /\ Sends(PpAnswer) /\ UNCHANGED sensor
         \/ /\ Replies(c) /\ c # "LF"
            /\ \/ Becomes("idle")
               \/ UNCHANGED sensor /\ (c = "QT" => sensor.mode # "measure")
               \/ /\ c = "SS" /\ baudrate \in SensorRates
                  /\ sensor' = [sensor EXCEPT !.rate = baudrate]
<1>1. sensor.mode \in {"scip11", "adjust", "idle", "measure"} BY ChoiceAssumption DEF TypeOK
<1>2. CASE sensor.dirt BY <1>2 DEF Obey
<1>3. CASE ~sensor.dirt /\ c = "LF" BY <1>3 DEF Obey
<1>4. CASE ~sensor.dirt /\ c # "LF" /\ sensor.mode = "scip11"
  BY <1>4 DEF Obey, Replies
<1>5. CASE ~sensor.dirt /\ c # "LF" /\ sensor.mode = "adjust"
  BY <1>5 DEF Obey, Replies
<1>6. CASE ~sensor.dirt /\ c # "LF" /\ sensor.mode \in {"idle", "measure"}
  <2>1. Execute(c) BY <1>6 DEF Obey
  <2>2. CASE c = "PP" BY <2>1, <2>2 DEF Execute, PpAnswer
  <2>3. CASE c = "QT" BY <2>1, <2>3 DEF Execute, Replies
  <2>4. CASE c = "SS" BY <2>1, <2>4 DEF Execute, Replies
  <2>5. CASE c \notin {"PP", "QT", "SS"} BY <1>6, <2>1, <2>5 DEF Execute, Replies
  <2> QED BY <2>2, <2>3, <2>4, <2>5
<1> QED BY <1>1, <1>2, <1>3, <1>4, <1>5, <1>6

LEMMA ObeyType ==
  ASSUME TypeOK, NEW c \in Names, Obey(c)
  PROVE  /\ inbox' \in Seq(Lines)
         /\ sensor' \in [rate : SensorRates, mode : Modes \cup {"idle"}, gaps : Gaps,
                       pp : PpBodies, dirt : BOOLEAN]
<1>1. inbox' \in Seq(Lines)
  <2>1. inbox \in Seq(Lines) /\ sensor.pp \in PpBodies BY DEF TypeOK
  <2>2. inbox' = inbox \/ Sends(Refusal) \/ Sends(PpAnswer) \/ Replies(c)
    BY ObeyCases
  <2>3. CASE Sends(Refusal) BY <2>1, <2>3, SendsLines, RefusalLines
  <2>4. CASE Sends(PpAnswer) BY <2>1, <2>4, SendsLines, PpLines
  <2>5. CASE Replies(c)
    <3>1. PICK s \in Texts : Sends(Answer(c, s)) BY <2>5 DEF Replies, Texts
    <3>2. Answer(c, s) \in Seq(Lines) BY AnswerLines
    <3> QED BY <2>1, <3>1, <3>2, SendsLines
  <2> QED BY <2>1, <2>2, <2>3, <2>4, <2>5
<1>2. \/ UNCHANGED sensor \/ Becomes("idle") \/ sensor' = [sensor EXCEPT !.dirt = FALSE]
      \/ baudrate \in SensorRates /\ sensor' = [sensor EXCEPT !.rate = baudrate]
  BY ObeyCases
<1>3. CASE baudrate \in SensorRates /\ sensor' = [sensor EXCEPT !.rate = baudrate]
  BY <1>1, <1>3 DEF TypeOK
<1> QED BY <1>1, <1>2, <1>3 DEF Becomes, TypeOK

LEMMA SensorType == ASSUME TypeOK, SensorAnswers \/ SensorScans PROVE TypeOK'
<1>1. CASE SensorAnswers
  <2>1. outbox \in Seq(Commands) /\ outbox # <<>> BY <1>1 DEF TypeOK, Commands, SensorAnswers
  <2>2. /\ outbox' \in Seq(Commands) /\ Head(outbox).name \in Names
    <3>1. Head(outbox) \in Commands /\ Tail(outbox) \in Seq(Commands)
      BY <2>1, HeadTailProperties
    <3> QED BY <1>1, <3>1 DEF Commands, SensorAnswers
  <2>3. /\ inbox' \in Seq(Lines) /\ mishaps' \in 0 .. MaxMishaps
        /\ sensor' \in [rate : SensorRates, mode : Modes \cup {"idle"}, gaps : Gaps,
                      pp : PpBodies, dirt : BOOLEAN]
    <3>1. CASE InTune(Head(outbox).rate)
      BY <1>1, <2>2, <3>1, ObeyType DEF SensorAnswers, TypeOK
    <3>2. CASE ~InTune(Head(outbox).rate)
      <4>1. inbox' \in Seq(Lines)
        BY <1>1, <3>2, SendsLines, RefusalLines DEF SensorAnswers, Garbage, TypeOK
      <4>2. mishaps' \in 0 .. MaxMishaps
        BY <1>1, <3>2, BoundAssumption DEF SensorAnswers, Garbage, TypeOK
      <4> QED BY <1>1, <3>2, <4>1, <4>2 DEF SensorAnswers, Garbage, TypeOK
    <3> QED BY <3>1, <3>2
  <2> QED BY <1>1, <2>2, <2>3 DEF SensorAnswers, TypeOK, Commands, args, flags, Serial
<1>2. CASE SensorScans
  <2>1. Sends(Scan) BY <1>2 DEF SensorScans, Scan
  <2>2. inbox' \in Seq(Lines) BY <2>1, SendsLines, ScanLines DEF TypeOK
  <2> QED BY <1>2, <2>2 DEF SensorScans, TypeOK, args, flags, Serial
<1> QED BY <1>1, <1>2

LEMMA InitType == Init => TypeOK
<1> SUFFICES ASSUME Init PROVE TypeOK OBVIOUS
<1>1. /\ inbox = <<>> /\ outbox = <<>> /\ i = 1 /\ mishaps = 0 /\ hostrate = 0
      /\ xchg = [cmd |-> "LF", line |-> 0, ok |-> FALSE, reply |-> "none", body |-> "none"]
      /\ pc = "open" /\ after = "done" /\ ret = "NO_ERROR"
  BY DEF Init
<1>2. inbox \in Seq(Lines) /\ outbox \in Seq(Commands) BY <1>1, EmptySeq
<1>3. "none" \in Texts /\ "LF" \in Names BY DEF Texts, Names
<1>4. xchg \in [cmd : Names, line : 0 .. 2, ok : BOOLEAN, reply : Texts, body : Texts]
  BY <1>1, <1>3
<1>5. i \in 1 .. try_times BY <1>1 DEF try_times, try_baudrate
<1>6. pc \in Labels /\ after \in Labels /\ ret \in Codes BY <1>1 DEF Labels, Codes
<1>7. mishaps \in 0 .. MaxMishaps BY <1>1, BoundAssumption
<1>8. /\ type \in Types /\ baudrate \in Nat
      /\ is_active \in BOOLEAN /\ is_sending \in BOOLEAN /\ is_laser_on \in BOOLEAN
      /\ sensor \in [rate : SensorRates, mode : Modes \cup {"idle"}, gaps : Gaps,
                   pp : PpBodies, dirt : BOOLEAN]
  BY ChoiceAssumption DEF Init
<1> QED BY <1>1, <1>2, <1>4, <1>5, <1>6, <1>7, <1>8 DEF TypeOK, Commands

LEMMA TypeNext == TypeOK /\ [Next]_vars => TypeOK'
<1> SUFFICES ASSUME TypeOK, [Next]_vars PROVE TypeOK' OBVIOUS
<1>1. CASE UNCHANGED vars BY <1>1 DEF vars, args, flags, TypeOK, Serial
<1> QED BY <1>1, HostType, SensorType DEF Next, Done

\* The variables keep their types, and connect_urg_device never reads try_baudrate
\* beyond its end, for every choice of connections, rates and sensors.
THEOREM ConnectTypeCorrect == Spec => []TypeOK
BY InitType, TypeNext, PTL DEF Spec

(***************************************************************************)
(* The invariant: what is on the line in each part of urg_open.            *)
(***************************************************************************)
At(k, c) == outbox[k] = [name |-> c, rate |-> hostrate]
Final(c) == outbox # <<>> /\ At(Len(outbox), c)

Unsent(c) == \A k \in DOMAIN outbox : outbox[k].name # c
NoEcho(c) == \A k \in DOMAIN inbox : inbox[k] # Line("echo", c)

\* The only command c among those the sensor has not read is the last one
OnlyLast(c) == /\ Final(c)
               /\ \A k \in 1 .. Len(outbox) - 1 : outbox[k].name # c

\* The line end clear_urg_communication_buffer writes takes the garbage before it
\* with it
Cleared == InTune(hostrate) => Final("LF") \/ (outbox = <<>> /\ ~sensor.dirt)

\* The sensor is not measuring, or there is a QT ahead that it will understand
Quieted ==
  \/ sensor.mode # "measure"
  \/ InTune(hostrate) =>
       \/ outbox # <<>> /\ At(1, "QT") /\ ~sensor.dirt
       \/ \E k \in 1 .. Len(outbox) - 1 : At(k, "LF") /\ At(k + 1, "QT")

\* Nothing comes from the sensor any more
Settled == outbox = <<>> /\ sensor.mode # "measure"
Ready   == Settled /\ InTune(hostrate)
Tuned   == Serial => hostrate = baudrate

\* Parts of urg_open
Asks(cs)  == pc \in {"xchg", "xchg_done"} /\ xchg.cmd \in cs
Searching == \/ pc \in {"open", "try", "clear", "next", "scip20", "change"}
             \/ pc = "drain" /\ after \in {"scip20", "change", "next"}
             \/ Asks({"QT", "SCIP2.0", "TM2"})
Opened    == pc = "connected" \/ (pc = "drain" /\ after = "connected")

\* It is about to give up
Failing == pc = "xchg_done" /\ xchg.cmd \in {"SS", "PP"} /\ ret # "POSITIVE"

PhaseOK == /\ pc \in {"xchg", "xchg_done"} => xchg.cmd # "LF"
           /\ pc = "xchg_done" => ret # "NO_ERROR"
           /\ pc = "drain" => after \in {"scip20", "change", "next", "connected"}
           /\ Serial /\ pc \notin {"open", "done"} => baudrate \in Known

SearchOK ==
  Searching =>
    /\ Unsent("SS") /\ Unsent("PP") /\ NoEcho("SS") /\ NoEcho("PP")
    /\ Serial /\ Rate(i) \in Known /\ pc \notin {"open", "try", "next"} => hostrate = Rate(i)

ClearOK == pc = "clear" => Cleared
QuietOK == pc \notin {"open", "try", "clear", "done"} /\ ~Failing => Quieted

\* An exchange whose answer is not there yet: the command unread, or read and not
\* understood
Awaits(c) == NoEcho(c) /\ (OnlyLast(c) \/ outbox = <<>>)

ChangeOK ==
  Asks({"SS"}) =>
    /\ Unsent("PP") /\ NoEcho("PP")
    /\ pc = "xchg" /\ xchg.line = 0 => Awaits("SS") \/ Settled
    /\ pc = "xchg" /\ xchg.line > 0 => Settled
    /\ pc = "xchg_done" /\ ret = "POSITIVE" => Settled

OpenedOK == Opened => Tuned /\ Unsent("SS") /\ Unsent("PP") /\ NoEcho("PP")

\* What is left of the answer to PP; with parameters only if the sensor is idle
Status(s) == Line("status", s)
Body      == Line("body", sensor.pp)
IsIdle    == sensor.mode = "idle"

PpLine0 == \/ Awaits("PP")
           \/ Settled /\ inbox # <<>> /\ inbox[1] # Line("echo", "PP")
           \/ Ready /\ IsIdle /\ inbox = <<Line("echo", "PP"), Status("00"), Body, Blank>>
           \/ Ready /\ \E s \in {"E", "0E"} : inbox = <<Line("echo", "PP"), Status(s), Blank>>
PpLine1 == /\ Ready
           /\ \/ IsIdle /\ inbox = <<Status("00"), Body, Blank>>
              \/ \E s \in {"E", "0E"} : inbox = <<Status(s), Blank>>
PpLine2 == /\ Ready
           /\ \/ IsIdle /\ inbox = <<Body, Blank>>
              \/ inbox = <<Blank>> /\ (xchg.body # "none" => IsIdle)

AskOK ==
  Asks({"PP"}) =>
    /\ Tuned /\ Unsent("SS")
    /\ pc = "xchg" /\ xchg.line = 0 => PpLine0 /\ xchg.body = "none"
    /\ pc = "xchg" /\ xchg.line = 1 => PpLine1 /\ xchg.body = "none"
    /\ pc = "xchg" /\ xchg.line = 2 => PpLine2
    /\ pc = "xchg_done" /\ ret = "POSITIVE" /\ xchg.body # "none" =>
         Ready /\ IsIdle /\ inbox = <<>>

ConnectInv == /\ PhaseOK /\ SearchOK /\ ClearOK /\ QuietOK
              /\ ChangeOK /\ OpenedOK /\ AskOK /\ OpenSynced

(***************************************************************************)
(* What reads, writes and the sensor do to the parts of the invariant.     *)
(***************************************************************************)

\* A read brings no line.
LEMMA ReadKeeps ==
  ASSUME TypeOK, NEW l \in Incoming, Reads(l), NEW c, NoEcho(c)
  PROVE  NoEcho(c)'
<1>1. inbox \in Seq(Lines) BY DEF TypeOK
<1>2. inbox' = inbox \/ (inbox # <<>> /\ inbox' = Tail(inbox)) BY ReadsLine DEF TypeOK
<1>3. CASE inbox # <<>> /\ inbox' = Tail(inbox)
  <2>1. /\ inbox' \in Seq(Lines) /\ Len(inbox') = Len(inbox) - 1 /\ Len(inbox) \in Nat
        /\ \A k \in 1 .. Len(inbox') : inbox'[k] = inbox[k + 1]
    BY <1>1, <1>3, HeadTailProperties, LenProperties
  <2>2. DOMAIN inbox' = 1 .. Len(inbox') /\ DOMAIN inbox = 1 .. Len(inbox)
    BY <1>1, <2>1, LenProperties
  <2> QED BY <2>1, <2>2 DEF NoEcho
<1> QED BY <1>2, <1>3 DEF NoEcho

\* Lines without the echo of c bring none.
LEMMA SendsKeeps ==
  ASSUME TypeOK, NEW lines \in Seq(Lines), Sends(lines), NEW c, NoEcho(c),
         InTune(hostrate) => \A k \in DOMAIN lines : lines[k] # Line("echo", c)
  PROVE  NoEcho(c)'
<1>1. inbox \in Seq(Lines) BY DEF TypeOK
<1>2. PICK arriving \in Seq(Lines) :
        /\ inbox' \in Seq(Lines) /\ inbox' = inbox \o arriving
        /\ InTune(hostrate) => arriving = lines
        /\ ~InTune(hostrate) => \A k \in DOMAIN arriving : arriving[k] = Junk
  BY <1>1, SendsLines
<1>3. Junk # Line("echo", c) BY DEF Junk, Line
<1>4. \A k \in DOMAIN arriving : arriving[k] # Line("echo", c) BY <1>2, <1>3
<1>5. /\ DOMAIN inbox = 1 .. Len(inbox) /\ DOMAIN arriving = 1 .. Len(arriving)
      /\ DOMAIN inbox' = 1 .. Len(inbox') /\ Len(inbox) \in Nat /\ Len(arriving) \in Nat
  BY <1>1, <1>2, LenProperties
<1>6. /\ Len(inbox') = Len(inbox) + Len(arriving)
      /\ \A k \in 1 .. Len(inbox) + Len(arriving) :
           inbox'[k] = IF k <= Len(inbox) THEN inbox[k] ELSE arriving[k - Len(inbox)]
  BY <1>1, <1>2, ConcatProperties
<1>7. ASSUME NEW k \in 1 .. Len(inbox') PROVE inbox'[k] # Line("echo", c)
  <2>1. CASE k <= Len(inbox) BY <1>5, <1>6, <2>1 DEF NoEcho
  <2>2. CASE k > Len(inbox)
    <3>1. k - Len(inbox) \in DOMAIN arriving BY <1>5, <1>6, <2>2
    <3> QED BY <1>4, <1>5, <1>6, <2>2, <3>1
  <2> QED BY <1>5, <2>1, <2>2
<1> QED BY <1>5, <1>7 DEF NoEcho

LEMMA RefusalKeeps ==
  ASSUME TypeOK, Sends(Refusal), NEW c, NoEcho(c) PROVE NoEcho(c)'
<1>1. \A k \in 1 .. 3 : Refusal[k] # Line("echo", c)
  BY RefusalLines DEF Junk, Blank, Line
<1>2. Refusal \in Seq(Lines) /\ DOMAIN Refusal = 1 .. 3 BY RefusalLines
<1> QED BY <1>1, <1>2, SendsKeeps

\* Writing a command other than c brings no c; whatever is written, a sensor
\* that was going to be quiet still is.
LEMMA WriteKeeps ==
  ASSUME TypeOK, NEW d \in Names, Writes(d), UNCHANGED <<type, hostrate, sensor>>
  PROVE  /\ Quieted => Quieted'
         /\ \A c : c # d /\ Unsent(c) => Unsent(c)'
         /\ Unsent(d) => OnlyLast(d)'
<1>1. outbox \in Seq(Commands) BY DEF TypeOK, Commands
<1> DEFINE n == Len(outbox)
<1>2. /\ outbox' \in Seq(Commands) /\ outbox' # <<>> /\ n \in Nat /\ Len(outbox') = n + 1
      /\ outbox'[n + 1] = [name |-> d, rate |-> hostrate]
      /\ \A k \in 1 .. n : outbox'[k] = outbox[k]
  BY WritesCommand
<1>3. DOMAIN outbox = 1 .. n /\ DOMAIN outbox' = 1 .. n + 1 BY <1>1, <1>2, LenProperties
<1>4. outbox # <<>> => n # 0 BY <1>1, EmptySeq
<1> HIDE DEF n
<1>5. ASSUME NEW c, c # d, Unsent(c) PROVE Unsent(c)'
  BY <1>2, <1>3, <1>5 DEF Unsent
<1>6. Unsent(d) => OnlyLast(d)'
  BY <1>2, <1>3 DEF Unsent, OnlyLast, Final, At
<1>7. ASSUME Quieted PROVE Quieted'
  <2>1. CASE sensor.mode # "measure" BY <2>1 DEF Quieted
  <2>2. CASE ~InTune(hostrate) BY <2>2 DEF Quieted, InTune, Serial
  <2>3. CASE outbox # <<>> /\ At(1, "QT") /\ ~sensor.dirt
    BY <1>2, <1>4, <2>3 DEF Quieted, At
  <2>4. CASE \E k \in 1 .. n - 1 : At(k, "LF") /\ At(k + 1, "QT")
    <3>1. PICK k \in 1 .. n - 1 : At(k, "LF") /\ At(k + 1, "QT") BY <2>4
    <3>2. k \in 1 .. n /\ k + 1 \in 1 .. n BY <1>2
    <3>3. At(k, "LF")' /\ At(k + 1, "QT")' BY <1>2, <3>1, <3>2 DEF At
    <3>4. k \in 1 .. Len(outbox') - 1 BY <1>2, <3>2
    <3> QED BY <3>3, <3>4 DEF Quieted
  <2> QED BY <1>7, <2>1, <2>2, <2>3, <2>4 DEF Quieted, n
<1> QED BY <1>5, <1>6, <1>7

\* What the sensor does with a command it makes out.
LEMMA ObeyFacts ==
  ASSUME TypeOK, NEW c \in Names, Obey(c)
  PROVE  /\ c # "SS" => sensor'.rate = sensor.rate
         /\ sensor.mode # "measure" => sensor'.mode # "measure"
         /\ c = "LF" => sensor'.mode = sensor.mode /\ ~sensor'.dirt
         /\ c = "QT" /\ ~sensor.dirt => sensor'.mode # "measure"
         /\ \A d : d # c /\ NoEcho(d) => NoEcho(d)'
<1>0. /\ sensor \in [rate : SensorRates, mode : Modes \cup {"idle"}, gaps : Gaps,
                   pp : PpBodies, dirt : BOOLEAN]
      /\ inbox \in Seq(Lines)
  BY DEF TypeOK
<1>1. \/ UNCHANGED sensor \/ sensor' = [sensor EXCEPT !.mode = "idle"]
      \/ sensor' = [sensor EXCEPT !.dirt = FALSE]
      \/ c = "SS" /\ sensor' = [sensor EXCEPT !.rate = baudrate]
  BY ObeyCases DEF Becomes
<1>2. c # "SS" => sensor'.rate = sensor.rate BY <1>0, <1>1
<1>3. sensor.mode # "measure" => sensor'.mode # "measure" BY <1>0, <1>1
<1>4. ASSUME c = "LF" PROVE sensor'.mode = sensor.mode /\ ~sensor'.dirt
  <2>1. \/ sensor.dirt /\ sensor' = [sensor EXCEPT !.dirt = FALSE]
        \/ ~sensor.dirt /\ UNCHANGED sensor
    BY <1>4 DEF Obey
  <2> QED BY <1>0, <2>1
<1>5. ASSUME c = "QT", ~sensor.dirt PROVE sensor'.mode # "measure"
  <2>1. \/ sensor.mode # "measure" /\ UNCHANGED sensor
        \/ sensor' = [sensor EXCEPT !.mode = "idle"]
    BY <1>5, ObeyCases DEF Becomes
  <2> QED BY <1>0, <2>1
<1>6. ASSUME NEW d, d # c, NoEcho(d) PROVE NoEcho(d)'
  <2>1. inbox' = inbox \/ Sends(Refusal) \/ Replies(c) \/ (c = "PP" /\ Sends(PpAnswer))
    BY ObeyCases
  <2>2. CASE Sends(Refusal) BY <1>6, <2>2, RefusalKeeps
  <2>3. CASE Replies(c)
    <3>1. PICK s \in Texts : Sends(Answer(c, s)) BY <2>3 DEF Replies, Texts
    <3>2. Answer(c, s) \in Seq(Lines) /\ DOMAIN Answer(c, s) = 1 .. 3 BY AnswerLines
    <3>3. \A k \in 1 .. 3 : Answer(c, s)[k] # Line("echo", d)
      <4>1. /\ Answer(c, s)[1] = Line("echo", c) /\ Answer(c, s)[2] = Line("status", s)
            /\ Answer(c, s)[3] = Blank
        BY AnswerLines
      <4> QED BY <1>6, <4>1 DEF Line, Blank
    <3> QED BY <1>6, <3>1, <3>2, <3>3, SendsKeeps
  <2>4. CASE c = "PP" /\ Sends(PpAnswer)
    <3>1. sensor.pp \in PpBodies BY <1>0
    <3>2. PpAnswer \in Seq(Lines) /\ DOMAIN PpAnswer = 1 .. 4 BY <3>1, PpLines
    <3>3. \A k \in 1 .. 4 : PpAnswer[k] # Line("echo", d)
      BY <1>6, <2>4, <3>1, PpLines DEF Line, Blank
    <3> QED BY <1>6, <2>4, <3>2, <3>3, SendsKeeps
  <2> QED BY <1>6, <2>1, <2>2, <2>3, <2>4 DEF NoEcho
<1> QED BY <1>2, <1>3, <1>4, <1>5, <1>6

\* The sensor takes the first command, and what was written behind it moves up.
LEMMA AnswersFirst ==
  ASSUME TypeOK, SensorAnswers
  PROVE  /\ outbox # <<>> /\ outbox[1] \in Commands /\ Len(outbox) \in Nat /\ Len(outbox) > 0
         /\ Len(outbox') = Len(outbox) - 1
         /\ \A k \in 1 .. Len(outbox) - 1 : outbox'[k] = outbox[k + 1]
         /\ outbox' = <<>> <=> Len(outbox) = 1
         /\ \A c : Unsent(c) => Unsent(c)' /\ c # outbox[1].name
<1>1. outbox \in Seq(Commands) /\ outbox # <<>> /\ outbox' = Tail(outbox)
  BY DEF TypeOK, Commands, SensorAnswers
<1>2. /\ outbox' \in Seq(Commands) /\ Len(outbox') = Len(outbox) - 1
      /\ \A k \in 1 .. Len(outbox') : outbox'[k] = outbox[k + 1]
  BY <1>1, HeadTailProperties
<1>3. Len(outbox) \in Nat /\ Len(outbox) > 0 BY <1>1, EmptySeq, LenProperties
<1>4. DOMAIN outbox = 1 .. Len(outbox) /\ DOMAIN outbox' = 1 .. Len(outbox')
  BY <1>1, <1>2, LenProperties
<1>5. outbox[1] \in Commands BY <1>1, <1>3, ElementOfSeq
<1>6. outbox' = <<>> <=> Len(outbox) = 1
  <2>1. outbox' = <<>> <=> Len(outbox') = 0 BY <1>2, EmptySeq
  <2> QED BY <1>2, <1>3, <2>1
<1>7. ASSUME NEW c, Unsent(c) PROVE Unsent(c)' /\ c # outbox[1].name
  BY <1>2, <1>3, <1>4, <1>7 DEF Unsent
<1> QED BY <1>1, <1>2, <1>3, <1>5, <1>6, <1>7

LEMMA AnswersHead ==
  ASSUME TypeOK, SensorAnswers
  PROVE  /\ InTune(outbox[1].rate) => Obey(outbox[1].name) /\ UNCHANGED mishaps
         /\ ~InTune(outbox[1].rate) => Garbage
BY DEF SensorAnswers

\* What it does with any command but SS.
LEMMA AnswersKeep ==
  ASSUME TypeOK, SensorAnswers
  PROVE  /\ outbox[1].name # "SS" => sensor'.rate = sensor.rate
         /\ sensor.mode # "measure" => sensor'.mode # "measure"
         /\ \A d : d # outbox[1].name /\ NoEcho(d) => NoEcho(d)'
<1>1. outbox[1].name \in Names BY AnswersFirst DEF Commands
<1>2. CASE InTune(outbox[1].rate) BY <1>1, <1>2, AnswersHead, ObeyFacts
<1>3. CASE ~InTune(outbox[1].rate)
  <2>1. Garbage BY <1>3, AnswersHead
  <2>2. sensor'.rate = sensor.rate /\ sensor'.mode = sensor.mode BY <2>1 DEF Garbage, TypeOK
  <2>3. ASSUME NEW d, NoEcho(d) PROVE NoEcho(d)'
    BY <2>1, <2>3, RefusalKeeps DEF Garbage, NoEcho
  <2> QED BY <2>2, <2>3
<1> QED BY <1>2, <1>3

\* The line end goes through.
LEMMA AnswersClear ==
  ASSUME TypeOK, SensorAnswers, outbox[1].name # "SS", Cleared
  PROVE  Cleared'
<1>1. sensor'.rate = sensor.rate /\ UNCHANGED <<type, hostrate>>
  BY AnswersKeep DEF SensorAnswers, args
<1>2. SUFFICES ASSUME InTune(hostrate) PROVE Final("LF")' \/ (outbox' = <<>> /\ ~sensor'.dirt)
  BY <1>1 DEF Cleared, InTune, Serial
<1>3. outbox # <<>> /\ Final("LF") BY <1>2, AnswersFirst DEF Cleared
<1>4. CASE Len(outbox) = 1
  <2>1. outbox[1] = [name |-> "LF", rate |-> hostrate] BY <1>3, <1>4 DEF Final, At
  <2>2. Obey("LF") BY <1>2, <2>1, AnswersHead
  <2>3. ~sensor'.dirt BY <2>2, ObeyFacts DEF Names
  <2> QED BY <1>4, <2>3, AnswersFirst
<1>5. CASE Len(outbox) # 1
  <2> DEFINE n == Len(outbox)
  <2>1. n \in Nat /\ n > 1 /\ Len(outbox') = n - 1 /\ outbox' # <<>> BY <1>5, AnswersFirst
  <2>2. \A k \in 1 .. n - 1 : outbox'[k] = outbox[k + 1] BY AnswersFirst
  <2>3. n - 1 \in 1 .. n - 1 /\ (n - 1) + 1 = n BY <2>1
  <2>4. outbox'[n - 1] = outbox[n] BY <2>2, <2>3
  <2> QED BY <1>1, <1>3, <2>1, <2>4 DEF Final, At
<1> QED BY <1>4, <1>5

\* The QT goes through.
LEMMA AnswersQuiet ==
  ASSUME TypeOK, SensorAnswers, outbox[1].name # "SS", Quieted
  PROVE  Quieted'
<1>1. sensor'.rate = sensor.rate /\ UNCHANGED <<type, hostrate>>
  BY AnswersKeep DEF SensorAnswers, args
<1> DEFINE n == Len(outbox)
<1>2. /\ n \in Nat /\ n > 0 /\ Len(outbox') = n - 1
      /\ \A k \in 1 .. n - 1 : outbox'[k] = outbox[k + 1]
  BY AnswersFirst
<1>3. CASE sensor.mode # "measure" BY <1>3, AnswersKeep DEF Quieted
<1>4. CASE ~InTune(hostrate) BY <1>1, <1>4 DEF Quieted, InTune, Serial
<1>5. CASE InTune(hostrate) /\ At(1, "QT") /\ ~sensor.dirt
  <2>1. outbox[1].rate = hostrate /\ outbox[1].name = "QT" BY <1>5 DEF At
  <2>2. Obey("QT") BY <1>5, <2>1, AnswersHead
  <2>3. sensor'.mode # "measure" BY <1>5, <2>2, ObeyFacts DEF Names
  <2> QED BY <2>3 DEF Quieted
<1>6. CASE InTune(hostrate) /\ \E k \in 1 .. n - 1 : At(k, "LF") /\ At(k + 1, "QT")
  <2>1. PICK k \in 1 .. n - 1 : At(k, "LF") /\ At(k + 1, "QT") BY <1>6
  <2>2. CASE k = 1
    <3>1. outbox[1].rate = hostrate /\ outbox[1].name = "LF" BY <2>1, <2>2 DEF At
    <3>2. Obey("LF") BY <1>6, <3>1, AnswersHead
    <3>3. ~sensor'.dirt BY <3>2, ObeyFacts DEF Names
    <3>4. outbox'[1] = outbox[2] BY <1>2, <2>1, <2>2
    <3>5. At(1, "QT")' BY <1>1, <2>1, <2>2, <3>4 DEF At
    <3>6. outbox' # <<>> BY <1>2, <2>1, <2>2, AnswersFirst
    <3> QED BY <3>3, <3>5, <3>6 DEF Quieted
  <2>3. CASE k # 1
    <3> DEFINE j == k - 1
    <3>1. j \in 1 .. n - 1 /\ j + 1 \in 1 .. n - 1 /\ j + 1 = k BY <1>2, <2>1, <2>3
    <3>2. outbox'[j] = outbox[j + 1] /\ outbox'[j + 1] = outbox[(j + 1) + 1] BY <1>2, <3>1
    <3>3. outbox'[j] = outbox[k] /\ outbox'[j + 1] = outbox[k + 1] BY <3>1, <3>2
    <3>4. At(j, "LF")' /\ At(j + 1, "QT")' BY <1>1, <2>1, <3>3 DEF At
    <3>5. j \in 1 .. Len(outbox') - 1 BY <1>2, <2>1, <3>1
    <3> HIDE DEF j
    <3> QED BY <3>4, <3>5 DEF Quieted
  <2> QED BY <2>2, <2>3
<1> QED BY <1>3, <1>4, <1>5, <1>6 DEF Quieted

(***************************************************************************)
(* The steps of the search.                                                *)
(***************************************************************************)

\* A failure is the end of it.
LEMMA GivesUp == ASSUME pc' = "done", ~is_active' PROVE ConnectInv'
BY DEF ConnectInv, PhaseOK, SearchOK, ClearOK, QuietOK, ChangeOK, OpenedOK, AskOK, OpenSynced,
       Searching, Opened, Asks

LEMMA Inactive == ASSUME ConnectInv, pc # "done" PROVE ~is_active
BY DEF ConnectInv, OpenSynced

\* What it takes to stay in the search.
LEMMA SearchOn ==
  ASSUME Searching', PhaseOK', ClearOK', QuietOK', ~is_active',
         Unsent("SS")', Unsent("PP")', NoEcho("SS")', NoEcho("PP")',
         Serial' /\ Rate(i)' \in Known /\ pc' \notin {"open", "try", "next"}
           => hostrate' = Rate(i)'
  PROVE  ConnectInv'
<1>1. ~Asks({"SS"})' /\ ~Asks({"PP"})' /\ ~Opened' BY DEF Searching, Asks, Opened
<1> QED BY <1>1 DEF ConnectInv, SearchOK, ChangeOK, OpenedOK, AskOK, OpenSynced

\* The parts of the invariant the search hands on.
LEMMA SearchFacts ==
  ASSUME ConnectInv, Searching
  PROVE  /\ Unsent("SS") /\ Unsent("PP") /\ NoEcho("SS") /\ NoEcho("PP")
         /\ ~is_active /\ pc # "done" /\ ~Failing
         /\ pc \notin {"open", "try", "clear"} => Quieted
         /\ Serial /\ Rate(i) \in Known /\ pc \notin {"open", "try", "next"} => hostrate = Rate(i)
         /\ Serial /\ pc # "open" => baudrate \in Known
<1>1. pc # "done" /\ ~Failing BY DEF Searching, Asks, Failing
<1> QED BY <1>1, Inactive DEF ConnectInv, SearchOK, QuietOK, PhaseOK

LEMMA OpenInv == ASSUME TypeOK, ConnectInv, Open PROVE ConnectInv'
<1>1. Searching /\ pc = "open" BY DEF Open, Searching
<1>2. UNCHANGED <<type, outbox, inbox>> /\ ~is_active' BY <1>1, SearchFacts DEF Open, flags
<1>3. pc' = "done" \/ (pc' = "try" /\ (Serial => baudrate' \in Known))
  BY DEF Open, Ends, Goto
<1>4. CASE pc' = "try" /\ (Serial => baudrate' \in Known)
  <2>1. Searching' /\ PhaseOK' /\ ClearOK' /\ QuietOK'
    BY <1>2, <1>4 DEF Searching, PhaseOK, ClearOK, QuietOK, Serial
  <2>2. Unsent("SS")' /\ Unsent("PP")' /\ NoEcho("SS")' /\ NoEcho("PP")'
    BY <1>1, <1>2, SearchFacts DEF Unsent, NoEcho
  <2> QED BY <1>2, <1>4, <2>1, <2>2, SearchOn
<1> QED BY <1>2, <1>3, <1>4, GivesUp

\* A port whose rate was changed was emptied.
LEMMA SetKeeps ==
  ASSUME NEW rate, SetBaudrate(rate), NEW c, NoEcho(c) PROVE NoEcho(c)'
BY DEF SetBaudrate, NoEcho

LEMMA TryInv == ASSUME TypeOK, ConnectInv, Try PROVE ConnectInv'
<1>1. Searching /\ pc = "try" /\ pc' = "clear" BY DEF Try, Searching, Goto
<1>2. UNCHANGED <<type, baudrate, i, sensor>> /\ ~is_active'
  BY <1>1, SearchFacts DEF Try, flags, args
<1> DEFINE e == [name |-> "LF", rate |-> hostrate']  n == Len(outbox)
<1>3. hostrate' \in Nat BY SetBaudrateType DEF Try
<1>4. outbox \in Seq(Commands) /\ e \in Commands /\ outbox' = Append(outbox, e)
  BY <1>3 DEF TypeOK, Commands, Names, Try
<1> HIDE DEF e
<1>5. /\ outbox' # <<>> /\ n \in Nat /\ Len(outbox') = n + 1 /\ outbox'[n + 1] = e
      /\ \A k \in 1 .. n : outbox'[k] = outbox[k]
      /\ DOMAIN outbox = 1 .. n /\ DOMAIN outbox' = 1 .. n + 1
  <2>1. outbox' \in Seq(Commands) BY <1>4, AppendProperties
  <2> QED BY <1>4, <2>1, AppendProperties, LenProperties
<1>6. Final("LF")' BY <1>5 DEF Final, At, e
<1>7. Unsent("SS")' /\ Unsent("PP")'
  <2>1. e.name = "LF" BY DEF e
  <2> QED BY <1>1, <1>5, <2>1, SearchFacts DEF Unsent
<1>8. NoEcho("SS")' /\ NoEcho("PP")' BY <1>1, SetKeeps, SearchFacts DEF Try
<1>9. Serial' /\ Rate(i)' \in Known => hostrate' = Rate(i)'
  BY <1>2 DEF Try, SetBaudrate, Serial, Rate
<1>10. Searching' /\ PhaseOK' /\ ClearOK' /\ QuietOK'
  BY <1>1, <1>2, <1>6, SearchFacts DEF Searching, PhaseOK, ClearOK, QuietOK, Cleared, Serial
<1> QED BY <1>2, <1>7, <1>8, <1>9, <1>10, SearchOn

\* The line end, then QT: the sensor will be quiet.
LEMMA ClearedQuiets ==
  ASSUME TypeOK, Cleared, Writes("QT"), UNCHANGED <<type, hostrate, sensor>>
  PROVE  Quieted'
<1> DEFINE n == Len(outbox)
<1>1. /\ outbox' # <<>> /\ n \in Nat /\ Len(outbox') = n + 1
      /\ outbox'[n + 1] = [name |-> "QT", rate |-> hostrate]
      /\ \A k \in 1 .. n : outbox'[k] = outbox[k]
  BY WritesCommand DEF Names
<1>2. CASE ~InTune(hostrate) BY <1>2 DEF Quieted, InTune, Serial
<1>3. CASE Final("LF")
  <2>1. n # 0 BY <1>3, EmptySeq DEF Final, TypeOK
  <2>2. PICK k \in Nat : k = n BY <1>1
  <2>3. k \in 1 .. n /\ k \in 1 .. Len(outbox') - 1 BY <1>1, <2>1, <2>2
  <2>4. outbox'[k] = [name |-> "LF", rate |-> hostrate] BY <1>1, <1>3, <2>2, <2>3 DEF Final, At
  <2>5. outbox'[k + 1] = [name |-> "QT", rate |-> hostrate] BY <1>1, <2>2
  <2>6. At(k, "LF")' /\ At(k + 1, "QT")' BY <2>4, <2>5 DEF At
  <2> QED BY <2>3, <2>6 DEF Quieted
<1>4. CASE outbox = <<>> /\ ~sensor.dirt
  <2>1. n = 0 BY <1>4
  <2>2. At(1, "QT")' BY <1>1, <2>1 DEF At
  <2> QED BY <1>1, <1>4, <2>2 DEF Quieted
<1> QED BY <1>2, <1>3, <1>4 DEF Cleared

LEMMA ClearInv == ASSUME TypeOK, ConnectInv, Clear PROVE ConnectInv'
<1>1. Searching /\ pc = "clear" /\ Cleared BY DEF Clear, Searching, ConnectInv, ClearOK
<1>2. UNCHANGED <<type, baudrate, i, hostrate, sensor>> /\ ~is_active'
  BY <1>1, SearchFacts DEF Clear, flags, args
<1>3. PICK l \in Incoming :
        /\ Reads(l)
        /\ IF Failed(l) THEN Exchange("QT") ELSE UNCHANGED <<pc, ret, xchg, outbox>>
  BY DEF Clear
<1>4. NoEcho("SS")' /\ NoEcho("PP")' BY <1>1, <1>3, ReadKeeps, SearchFacts
<1>5. Serial' /\ Rate(i)' \in Known => hostrate' = Rate(i)'
  BY <1>1, <1>2, SearchFacts DEF Serial, Rate
<1>6. CASE Failed(l)
  <2>1. Writes("QT") /\ pc' = "xchg" /\ xchg'.cmd = "QT" BY <1>3, <1>6 DEF Exchange, Goto
  <2>2. Quieted' BY <1>1, <1>2, <2>1, ClearedQuiets
  <2>3. Unsent("SS")' /\ Unsent("PP")'
    BY <1>1, <1>2, <2>1, WriteKeeps, SearchFacts DEF Names
  <2>4. Searching' /\ PhaseOK' /\ ClearOK' /\ QuietOK'
    BY <1>1, <1>2, <2>1, <2>2, SearchFacts
       DEF Searching, Asks, PhaseOK, ClearOK, QuietOK, Serial
  <2> QED BY <1>2, <1>4, <1>5, <2>3, <2>4, SearchOn
<1>7. CASE ~Failed(l)
  <2>1. UNCHANGED <<pc, ret, xchg, outbox>> BY <1>3, <1>7
  <2>2. Unsent("SS")' /\ Unsent("PP")' BY <1>1, <2>1, SearchFacts DEF Unsent
  <2>3. Cleared' BY <1>1, <1>2, <2>1 DEF Cleared, InTune, Serial, Final, At
  <2>4. Searching' /\ PhaseOK' /\ ClearOK' /\ QuietOK'
    BY <1>1, <1>2, <2>1, <2>3, SearchFacts
       DEF Searching, PhaseOK, ClearOK, QuietOK, Serial
  <2> QED BY <1>2, <1>4, <1>5, <2>2, <2>4, SearchOn
<1> QED BY <1>6, <1>7

\* Steps that read nothing and write nothing, or one command of the search.
LEMMA WroteInSearch ==
  ASSUME TypeOK, ConnectInv, Searching, pc \notin {"open", "try", "clear"},
         NEW c \in Names \ {"SS", "PP"},
         UNCHANGED <<type, baudrate, i, hostrate, sensor, inbox, is_active>>,
         Writes(c) \/ UNCHANGED outbox,
         Searching', PhaseOK', pc' \notin {"clear"},
         pc = "next" => pc' \in {"try", "next"}
  PROVE  ConnectInv'
<1>1. ~is_active' BY SearchFacts
<1>2. /\ Unsent("SS")' /\ Unsent("PP")' /\ Quieted'
      /\ NoEcho("SS")' /\ NoEcho("PP")'
  <2>1. Unsent("SS") /\ Unsent("PP") /\ Quieted /\ NoEcho("SS") /\ NoEcho("PP")
    BY SearchFacts
  <2>2. CASE Writes(c) BY <2>1, <2>2, WriteKeeps DEF NoEcho
  <2>3. CASE UNCHANGED outbox
    BY <2>1, <2>3 DEF Unsent, NoEcho, Quieted, At, InTune, Serial
  <2> QED BY <2>2, <2>3
<1>3. ClearOK' /\ QuietOK' BY <1>2 DEF ClearOK, QuietOK
<1>4. Serial' /\ Rate(i)' \in Known /\ pc' \notin {"open", "try", "next"} => hostrate' = Rate(i)'
  BY SearchFacts DEF Serial, Rate
<1> QED BY <1>1, <1>2, <1>3, <1>4, SearchOn

LEMMA QtDoneInv == ASSUME TypeOK, ConnectInv, QtDone PROVE ConnectInv'
<1>1. /\ Searching /\ pc = "xchg_done"
      /\ UNCHANGED <<type, baudrate, i, hostrate, sensor, inbox, is_active>>
  BY DEF QtDone, Answered, Searching, Asks, args
<1>2. Serial => baudrate \in Known BY <1>1, SearchFacts
<1>3. \/ /\ Writes("TM2") /\ pc' = "xchg" /\ xchg'.cmd = "TM2"
      \/ /\ Writes("QT") \/ UNCHANGED outbox
         /\ \/ pc' \in {"scip20", "change", "next"}
            \/ pc' = "drain" /\ after' \in {"scip20", "change", "next"}
  <2>1. CASE ret = "POSITIVE" /\ xchg.reply = "0E"
    BY <2>1 DEF QtDone, Exchange, Goto
  <2>2. CASE ~(ret = "POSITIVE" /\ xchg.reply = "0E")
    BY <2>2 DEF QtDone, IgnoreReceiveData, IgnoreReceiveDataWithQt, Goto
  <2> QED BY <2>1, <2>2
<1>4. Searching' /\ PhaseOK' /\ pc' # "clear"
  BY <1>1, <1>2, <1>3 DEF Searching, Asks, PhaseOK, Serial
<1> QED BY <1>1, <1>3, <1>4, WroteInSearch DEF Names

LEMMA Scip20Inv == ASSUME TypeOK, ConnectInv, Scip20 PROVE ConnectInv'
<1>1. /\ Searching /\ pc = "scip20"
      /\ UNCHANGED <<type, baudrate, i, hostrate, sensor, inbox, is_active>>
  BY DEF Scip20, Searching, args, flags
<1>2. Writes("SCIP2.0") /\ pc' = "xchg" /\ xchg'.cmd = "SCIP2.0"
  BY DEF Scip20, Exchange, Goto
<1>3. Searching' /\ PhaseOK' /\ pc' # "clear"
  BY <1>1, <1>2, SearchFacts DEF Searching, Asks, PhaseOK, Serial
<1> QED BY <1>1, <1>2, <1>3, WroteInSearch DEF Names

LEMMA Scip20DoneInv == ASSUME TypeOK, ConnectInv, Scip20Done \/ Tm2Done PROVE ConnectInv'
<1>1. /\ Searching /\ pc = "xchg_done"
      /\ UNCHANGED <<type, baudrate, i, hostrate, sensor, inbox, outbox, is_active>>
  BY DEF Scip20Done, Tm2Done, Answered, Searching, Asks, args, flags
<1>2. pc' = "change" \/ (pc' = "drain" /\ after' = "change")
  BY DEF Scip20Done, Tm2Done, IgnoreReceiveData, Goto
<1>3. Searching' /\ PhaseOK' /\ pc' # "clear"
  BY <1>1, <1>2, SearchFacts DEF Searching, Asks, PhaseOK, Serial
<1>4. "QT" \in Names \ {"SS", "PP"} BY DEF Names
<1> QED BY <1>1, <1>3, <1>4, WroteInSearch

LEMMA NextRoundInv == ASSUME TypeOK, ConnectInv, NextRound PROVE ConnectInv'
<1>1. /\ Searching /\ pc = "next"
      /\ UNCHANGED <<type, baudrate, hostrate, sensor, inbox, outbox, is_active>>
  BY DEF NextRound, Searching, args, flags
<1>2. ~is_active' BY <1>1, SearchFacts
<1>3. pc' = "done" \/ pc' = "try" BY DEF NextRound, Goto, Ends
<1>4. CASE pc' = "try"
  <2>1. Unsent("SS")' /\ Unsent("PP")' /\ NoEcho("SS")' /\ NoEcho("PP")'
    BY <1>1, SearchFacts DEF Unsent, NoEcho
  <2>2. Searching' /\ PhaseOK' /\ ClearOK' /\ QuietOK'
    BY <1>1, <1>4, SearchFacts DEF Searching, PhaseOK, ClearOK, QuietOK, Serial
  <2> QED BY <1>2, <1>4, <2>1, <2>2, SearchOn
<1> QED BY <1>2, <1>3, <1>4, GivesUp

(***************************************************************************)
(* The steps after the search.                                             *)
(***************************************************************************)

\* SS is the next command.
LEMMA ChangeInv == ASSUME TypeOK, ConnectInv, ChangeSensorBaudrate PROVE ConnectInv'
<1>1. /\ Searching /\ pc = "change"
      /\ UNCHANGED <<type, baudrate, hostrate, sensor, inbox, is_active, after>>
  BY DEF ChangeSensorBaudrate, Searching, args, flags
<1>2. ~is_active' /\ Quieted /\ Unsent("SS") /\ Unsent("PP") /\ NoEcho("SS") /\ NoEcho("PP")
  BY <1>1, SearchFacts
<1>3. NoEcho("SS")' /\ NoEcho("PP")' BY <1>1, <1>2 DEF NoEcho
<1>4. CASE Rate(i) = baudrate
  <2>1. pc' = "connected" /\ UNCHANGED outbox BY <1>4 DEF ChangeSensorBaudrate, Goto
  <2>2. Unsent("SS")' /\ Unsent("PP")' /\ Quieted'
    BY <1>1, <1>2, <2>1 DEF Unsent, Quieted, At, InTune, Serial
  <2>3. Tuned' BY <1>1, <1>4, SearchFacts DEF Tuned, Serial
  <2>4. PhaseOK' BY <1>1, <2>1, SearchFacts DEF PhaseOK, Serial
  <2> QED BY <1>2, <1>3, <2>1, <2>2, <2>3, <2>4
          DEF ConnectInv, SearchOK, ClearOK, QuietOK, ChangeOK, OpenedOK, AskOK, OpenSynced,
              Searching, Asks
<1>5. CASE Rate(i) # baudrate
  <2>1. Writes("SS") /\ pc' = "xchg" /\ xchg'.cmd = "SS" /\ xchg'.line = 0
    BY <1>5 DEF ChangeSensorBaudrate, Exchange, Goto
  <2>2. Quieted' /\ Unsent("PP")' /\ OnlyLast("SS")'
    BY <1>1, <1>2, <2>1, WriteKeeps DEF Names
  <2>3. Awaits("SS")' BY <1>3, <2>2 DEF Awaits
  <2>4. PhaseOK' BY <1>1, <2>1, SearchFacts DEF PhaseOK, Serial
  <2> QED BY <1>2, <1>3, <2>1, <2>2, <2>3, <2>4
          DEF ConnectInv, SearchOK, ClearOK, QuietOK, ChangeOK, OpenedOK, AskOK, OpenSynced,
              Searching, Asks, Opened
<1> QED BY <1>4, <1>5

LEMMA SsDoneInv == ASSUME TypeOK, ConnectInv, SsDone PROVE ConnectInv'
<1>1. /\ pc = "xchg_done" /\ Asks({"SS"}) /\ UNCHANGED <<type, baudrate, sensor, outbox, is_active>>
  BY DEF SsDone, Answered, Asks, args, flags
<1>2. ~is_active' /\ (Serial => baudrate \in Known) BY <1>1, Inactive DEF ConnectInv, PhaseOK
<1>3. CASE ret # "POSITIVE" BY <1>2, <1>3, GivesUp DEF SsDone, Ends
<1>4. CASE ret = "POSITIVE"
  <2>1. SetBaudrate(baudrate) /\ IgnoreReceiveData("connected") BY <1>4 DEF SsDone
  <2>2. Settled /\ NoEcho("PP") BY <1>1, <1>4 DEF ConnectInv, ChangeOK
  <2>3. NoEcho("PP")' BY <2>1, <2>2, SetKeeps
  <2>4. Unsent("SS")' /\ Unsent("PP")' /\ Quieted'
    BY <1>1, <2>2 DEF Settled, Unsent, Quieted
  <2>5. Tuned' BY <1>1, <1>2, <2>1 DEF Tuned, SetBaudrate, Serial
  <2>6. pc' = "connected" \/ (pc' = "drain" /\ after' = "connected")
    BY <2>1 DEF IgnoreReceiveData, Goto
  <2>7. PhaseOK' BY <1>1, <1>2, <2>6 DEF PhaseOK, Serial
  <2> QED BY <1>2, <2>3, <2>4, <2>5, <2>6, <2>7
          DEF ConnectInv, SearchOK, ClearOK, QuietOK, ChangeOK, OpenedOK, AskOK, OpenSynced,
              Searching, Asks
<1> QED BY <1>3, <1>4

LEMMA ConnectedInv == ASSUME TypeOK, ConnectInv, Connected PROVE ConnectInv'
<1>1. /\ pc = "connected" /\ Opened
      /\ UNCHANGED <<type, baudrate, hostrate, sensor, inbox, is_active>>
  BY DEF Connected, Opened, args
<1>2. /\ ~is_active' /\ (Serial => baudrate \in Known) /\ Quieted
      /\ Tuned /\ Unsent("SS") /\ Unsent("PP") /\ NoEcho("PP")
  BY <1>1, Inactive DEF ConnectInv, PhaseOK, OpenedOK, QuietOK, Failing
<1>3. Writes("PP") /\ pc' = "xchg" /\ xchg'.cmd = "PP" /\ xchg'.line = 0 /\ xchg'.body = "none"
  BY DEF Connected, Exchange, Goto
<1>4. Quieted' /\ Unsent("SS")' /\ OnlyLast("PP")' BY <1>1, <1>2, <1>3, WriteKeeps DEF Names
<1>5. PpLine0' BY <1>1, <1>2, <1>4 DEF PpLine0, Awaits, NoEcho
<1>6. PhaseOK' /\ Tuned' BY <1>1, <1>2, <1>3 DEF PhaseOK, Tuned, Serial
<1> QED BY <1>2, <1>3, <1>4, <1>5, <1>6
        DEF ConnectInv, SearchOK, ClearOK, QuietOK, ChangeOK, OpenedOK, AskOK, OpenSynced,
            Searching, Asks, Opened

LEMMA PpDoneInv == ASSUME TypeOK, ConnectInv, PpDone PROVE ConnectInv'
<1>1. /\ pc = "xchg_done" /\ Asks({"PP"}) /\ pc' = "done" /\ ret # "NO_ERROR"
      /\ UNCHANGED <<type, baudrate, sensor, outbox, inbox, hostrate>>
      /\ is_active' = (ret' = "NO_ERROR")
  BY DEF PpDone, Answered, Asks, args, Ends, ConnectInv, PhaseOK
<1>2. CASE ret' = "NO_ERROR"
  <2>1. ret = "POSITIVE" /\ xchg.body # "none" BY <1>1, <1>2 DEF PpDone, Ends
  <2>2. Ready /\ IsIdle /\ Tuned /\ inbox = <<>> BY <1>1, <2>1 DEF ConnectInv, AskOK
  <2>3. OpenSynced'
    BY <1>1, <1>2, <2>2 DEF OpenSynced, Ready, Settled, IsIdle, Tuned, InTune, Serial
  <2> QED BY <1>1, <2>3
          DEF ConnectInv, PhaseOK, SearchOK, ClearOK, QuietOK, ChangeOK, OpenedOK, AskOK,
              Searching, Asks, Opened
<1>3. CASE ret' # "NO_ERROR" BY <1>1, <1>3, GivesUp
<1> QED BY <1>2, <1>3

LEMMA DrainInv == ASSUME TypeOK, ConnectInv, Drain PROVE ConnectInv'
<1>1. /\ pc = "drain" /\ UNCHANGED <<type, baudrate, i, after, hostrate, outbox, sensor, is_active>>
      /\ pc' \in {"drain", after} /\ after \in {"scip20", "change", "next", "connected"}
  BY DEF Drain, args, Goto, ConnectInv, PhaseOK
<1>2. PICK l \in Incoming : Reads(l) BY DEF Drain
<1>3. ~is_active' /\ (Serial => baudrate \in Known) BY <1>1, Inactive DEF ConnectInv, PhaseOK
<1>4. PhaseOK' BY <1>1, <1>3 DEF PhaseOK, Serial
<1>5. Quieted'
  <2>1. Quieted BY <1>1 DEF ConnectInv, QuietOK, Failing
  <2> QED BY <1>1, <2>1 DEF Quieted, At, InTune, Serial
<1>6. CASE after = "connected"
  <2>1. Tuned /\ Unsent("SS") /\ Unsent("PP") /\ NoEcho("PP")
    BY <1>1, <1>6 DEF ConnectInv, OpenedOK, Opened
  <2>2. NoEcho("PP")' BY <1>2, <2>1, ReadKeeps
  <2>3. Tuned' /\ Unsent("SS")' /\ Unsent("PP")' BY <1>1, <2>1 DEF Tuned, Unsent, Serial
  <2> QED BY <1>1, <1>3, <1>4, <1>5, <1>6, <2>2, <2>3
          DEF ConnectInv, SearchOK, ClearOK, QuietOK, ChangeOK, OpenedOK, AskOK, OpenSynced,
              Searching, Asks, Opened
<1>7. CASE after # "connected"
  <2>1. Searching /\ Searching' BY <1>1, <1>7 DEF Searching
  <2>2. Unsent("SS")' /\ Unsent("PP")' BY <1>1, <2>1, SearchFacts DEF Unsent
  <2>3. NoEcho("SS")' /\ NoEcho("PP")' BY <1>2, <2>1, ReadKeeps, SearchFacts
  <2>4. ClearOK' /\ QuietOK' BY <1>1, <1>5 DEF ClearOK, QuietOK
  <2>5. Serial' /\ Rate(i)' \in Known => hostrate' = Rate(i)'
    BY <1>1, <2>1, SearchFacts DEF Serial, Rate
  <2> QED BY <1>3, <1>4, <2>1, <2>2, <2>3, <2>4, <2>5, SearchOn
<1> QED BY <1>6, <1>7

(***************************************************************************)
(* One line of an exchange.                                                *)
(***************************************************************************)

\* What the answer to PP leaves when its first line was read.
LEMMA PpTails ==
  /\ Tail(<<Line("echo", "PP"), Status("00"), Body, Blank>>) = <<Status("00"), Body, Blank>>
  /\ Tail(<<Status("00"), Body, Blank>>) = <<Body, Blank>>
  /\ Tail(<<Body, Blank>>) = <<Blank>>
  /\ Tail(<<Blank>>) = <<>>
  /\ \A s : /\ Tail(<<Line("echo", "PP"), Status(s), Blank>>) = <<Status(s), Blank>>
            /\ Tail(<<Status(s), Blank>>) = <<Blank>>
OBVIOUS

\* The exchange goes on, or ends.
LEMMA ResponseStep ==
  ASSUME TypeOK, ScipResponse
  PROVE  \E l \in Incoming :
           /\ Reads(l)
           /\ \/ /\ Rejection(l) # "NO_ERROR" /\ pc' = "xchg_done" /\ ret' = Rejection(l)
                 /\ xchg' = xchg
              \/ /\ Rejection(l) = "NO_ERROR" /\ Empty(l) /\ pc' = "xchg_done"
                 /\ ret' \in {"POSITIVE", "UNKNOWN_ERROR"} /\ xchg' = xchg
              \/ /\ Rejection(l) = "NO_ERROR" /\ ~Empty(l) /\ pc' = "xchg"
                 /\ xchg'.cmd = xchg.cmd
                 /\ \/ xchg.line = 0 /\ xchg'.line = 1 /\ xchg'.body = xchg.body
                    \/ xchg.line = 1 /\ xchg'.line = 2 /\ xchg'.body = xchg.body
                    \/ xchg.line = 2 /\ xchg'.line = 2 /\ xchg'.body = l.val
<1>0. /\ xchg \in [cmd : Names, line : 0 .. 2, ok : BOOLEAN, reply : Texts, body : Texts]
      /\ pc = "xchg"
  BY DEF TypeOK, ScipResponse
<1>1. PICK l \in Incoming :
         /\ Reads(l)
         /\ IF Rejection(l) # "NO_ERROR"
            THEN pc' = "xchg_done" /\ ret' = Rejection(l) /\ UNCHANGED xchg
            ELSE IF Empty(l)
            THEN /\ pc' = "xchg_done" /\ UNCHANGED xchg
                 /\ ret' = IF xchg.ok THEN "POSITIVE" ELSE "UNKNOWN_ERROR"
            ELSE /\ UNCHANGED <<pc, ret>>
                 /\ xchg' = CASE xchg.line = 0 -> [xchg EXCEPT !.line = 1]
                              [] xchg.line = 1 -> [xchg EXCEPT !.line = 2, !.reply = l.val,
                                                               !.ok = l.val \in Expected(xchg.cmd)]
                              [] xchg.line = 2 -> [xchg EXCEPT !.body = l.val]
  BY DEF ScipResponse
<1>2. CASE Rejection(l) # "NO_ERROR" BY <1>1, <1>2
<1>3. CASE Rejection(l) = "NO_ERROR" /\ Empty(l) BY <1>1, <1>3
<1>4. CASE Rejection(l) = "NO_ERROR" /\ ~Empty(l)
  <2>1. CASE xchg.line = 0 BY <1>0, <1>1, <1>4, <2>1
  <2>2. CASE xchg.line = 1 BY <1>0, <1>1, <1>4, <2>2
  <2>3. CASE xchg.line = 2 BY <1>0, <1>1, <1>4, <2>3
  <2> QED BY <1>0, <2>1, <2>2, <2>3
<1> QED BY <1>2, <1>3, <1>4

\* The first line has to be the echo; a time-out ends the exchange.
LEMMA Accepted ==
  ASSUME TypeOK, NEW l \in Incoming, Reads(l), Rejection(l) = "NO_ERROR"
  PROVE  /\ inbox # <<>> /\ l = inbox[1] /\ inbox' = Tail(inbox) /\ 1 \in DOMAIN inbox
         /\ xchg.line = 0 => l = Line("echo", xchg.cmd)
         /\ xchg.line = 1 => l.kind = "status"
<1>1. ~Failed(l) BY DEF Rejection
<1>2. inbox # <<>> /\ l = inbox[1] /\ inbox' = Tail(inbox) BY <1>1, ReadsLine DEF TypeOK
<1> QED BY <1>1, <1>2 DEF Rejection, TypeOK

LEMMA Rejected ==
  ASSUME NEW l, Rejection(l) # "NO_ERROR" PROVE Rejection(l) \notin {"POSITIVE", "NO_ERROR"}
BY DEF Rejection

\* In the search nothing depends on the line read.
LEMMA ResponseInSearch ==
  ASSUME TypeOK, ConnectInv, ScipResponse, Asks({"QT", "SCIP2.0", "TM2"}) PROVE ConnectInv'
<1>1. /\ Searching /\ pc = "xchg"
      /\ UNCHANGED <<type, baudrate, i, hostrate, sensor, outbox, is_active>>
  BY DEF ScipResponse, Searching, args, flags
<1>2. PICK l \in Incoming : Reads(l) BY DEF ScipResponse
<1>3. /\ pc' \in {"xchg", "xchg_done"} /\ xchg'.cmd = xchg.cmd
      /\ pc' = "xchg_done" => ret' # "NO_ERROR"
  BY ResponseStep, Rejected
<1>4. NoEcho("SS")' /\ NoEcho("PP")' BY <1>1, <1>2, ReadKeeps, SearchFacts
<1>5. Quieted' /\ Unsent("SS")' /\ Unsent("PP")'
  BY <1>1, SearchFacts DEF Quieted, Unsent, At, InTune, Serial
<1>6. Searching' /\ PhaseOK' BY <1>1, <1>3, SearchFacts DEF Searching, Asks, PhaseOK, Serial
<1>7. ClearOK' /\ QuietOK' BY <1>3, <1>5 DEF ClearOK, QuietOK
<1>8. Serial' /\ Rate(i)' \in Known => hostrate' = Rate(i)'
  BY <1>1, SearchFacts DEF Serial, Rate
<1> QED BY <1>1, <1>4, <1>5, <1>6, <1>7, <1>8, SearchFacts, SearchOn

\* Only an answer to SS is taken for one.
LEMMA ResponseToSs ==
  ASSUME TypeOK, ConnectInv, ScipResponse, Asks({"SS"}) PROVE ConnectInv'
<1>1. /\ pc = "xchg" /\ xchg.cmd = "SS"
      /\ UNCHANGED <<type, baudrate, hostrate, sensor, outbox, is_active>>
  BY DEF ScipResponse, Asks, args, flags
<1>2. /\ ~is_active' /\ (Serial => baudrate \in Known) /\ Quieted /\ Unsent("PP") /\ NoEcho("PP")
      /\ xchg.line = 0 => Awaits("SS") \/ Settled
      /\ xchg.line > 0 => Settled
  BY <1>1, Inactive DEF ConnectInv, PhaseOK, QuietOK, Failing, ChangeOK
<1>3. PICK l \in Incoming :
        /\ Reads(l)
        /\ \/ /\ Rejection(l) # "NO_ERROR" /\ pc' = "xchg_done" /\ ret' = Rejection(l)
              /\ xchg' = xchg
           \/ /\ Rejection(l) = "NO_ERROR" /\ Empty(l) /\ pc' = "xchg_done"
              /\ ret' \in {"POSITIVE", "UNKNOWN_ERROR"} /\ xchg' = xchg
           \/ /\ Rejection(l) = "NO_ERROR" /\ ~Empty(l) /\ pc' = "xchg"
              /\ xchg'.cmd = xchg.cmd
  BY ResponseStep
<1>4. NoEcho("PP")' BY <1>2, <1>3, ReadKeeps
<1>5. Quieted' /\ Unsent("PP")' BY <1>1, <1>2 DEF Quieted, Unsent, At, InTune, Serial
<1>6. PhaseOK' BY <1>1, <1>2, <1>3, Rejected DEF PhaseOK, Serial
<1>7. Rejection(l) = "NO_ERROR" => Settled
  <2> SUFFICES ASSUME Rejection(l) = "NO_ERROR" PROVE Settled OBVIOUS
  <2>1. 1 \in DOMAIN inbox /\ (xchg.line = 0 => inbox[1] = Line("echo", "SS"))
    BY <1>1, <1>3, Accepted
  <2>2. CASE xchg.line = 0 BY <1>2, <2>1, <2>2 DEF Awaits, NoEcho
  <2>3. CASE xchg.line # 0 BY <1>2, <2>3 DEF TypeOK
  <2> QED BY <2>2, <2>3
<1>8. Settled' \/ (pc' = "xchg_done" /\ ret' # "POSITIVE")
  BY <1>1, <1>3, <1>7, Rejected DEF Settled
<1> QED BY <1>1, <1>2, <1>3, <1>4, <1>5, <1>6, <1>8
        DEF ConnectInv, SearchOK, ClearOK, QuietOK, ChangeOK, OpenedOK, AskOK, OpenSynced,
            Searching, Asks, Opened

\* The answer to PP is read to its end, or given up.
LEMMA ResponseToPp ==
  ASSUME TypeOK, ConnectInv, ScipResponse, Asks({"PP"}) PROVE ConnectInv'
<1>1. /\ pc = "xchg" /\ xchg.cmd = "PP"
      /\ UNCHANGED <<type, baudrate, hostrate, sensor, outbox, is_active>>
  BY DEF ScipResponse, Asks, args, flags
<1>2. /\ ~is_active' /\ (Serial => baudrate \in Known) /\ Quieted /\ Tuned /\ Unsent("SS")
      /\ xchg.line = 0 => PpLine0 /\ xchg.body = "none"
      /\ xchg.line = 1 => PpLine1 /\ xchg.body = "none"
      /\ xchg.line = 2 => PpLine2
  BY <1>1, Inactive DEF ConnectInv, PhaseOK, QuietOK, Failing, AskOK
<1>3. PICK l \in Incoming :
         /\ Reads(l)
         /\ \/ /\ Rejection(l) # "NO_ERROR" /\ pc' = "xchg_done" /\ ret' = Rejection(l)
               /\ xchg' = xchg
            \/ /\ Rejection(l) = "NO_ERROR" /\ Empty(l) /\ pc' = "xchg_done"
               /\ ret' \in {"POSITIVE", "UNKNOWN_ERROR"} /\ xchg' = xchg
            \/ /\ Rejection(l) = "NO_ERROR" /\ ~Empty(l) /\ pc' = "xchg"
               /\ xchg'.cmd = xchg.cmd
               /\ \/ xchg.line = 0 /\ xchg'.line = 1 /\ xchg'.body = xchg.body
                  \/ xchg.line = 1 /\ xchg'.line = 2 /\ xchg'.body = xchg.body
                  \/ xchg.line = 2 /\ xchg'.line = 2 /\ xchg'.body = l.val
  BY ResponseStep
<1>4. Quieted' /\ Unsent("SS")' /\ Tuned'
  BY <1>1, <1>2 DEF Quieted, Unsent, At, InTune, Serial, Tuned
<1>5. PhaseOK' BY <1>1, <1>2, <1>3, Rejected DEF PhaseOK, Serial
<1>6. AskOK'
  <2>1. CASE Rejection(l) # "NO_ERROR" BY <1>1, <1>3, <1>4, <2>1, Rejected DEF AskOK
  <2>2. CASE Rejection(l) = "NO_ERROR"
    <3>1. /\ l = inbox[1] /\ inbox' = Tail(inbox) /\ 1 \in DOMAIN inbox
          /\ xchg.line = 0 => inbox[1] = Line("echo", "PP")
          /\ xchg.line = 1 => inbox[1].kind = "status"
      BY <1>1, <1>3, <2>2, Accepted
    <3>2. (Ready => Ready') /\ (IsIdle => IsIdle') /\ UNCHANGED Body
      BY <1>1 DEF Ready, Settled, InTune, IsIdle, Serial, Body
    <3>3. CASE xchg.line = 0
      <4>1. ~Empty(l) BY <3>1, <3>3 DEF Empty, Line
      <4>2. pc' = "xchg" /\ xchg'.line = 1 /\ xchg'.body = "none" BY <1>2, <1>3, <2>2, <3>3, <4>1
      <4>3. \/ Ready /\ IsIdle /\ inbox = <<Line("echo", "PP"), Status("00"), Body, Blank>>
            \/ Ready /\ \E s \in {"E", "0E"} : inbox = <<Line("echo", "PP"), Status(s), Blank>>
        BY <1>2, <3>1, <3>3 DEF PpLine0, Awaits, NoEcho
      <4>4. PpLine1'
        <5>1. CASE IsIdle /\ inbox = <<Line("echo", "PP"), Status("00"), Body, Blank>>
          <6>1. inbox' = <<Status("00"), Body, Blank>> BY <3>1, <5>1, PpTails
          <6> QED BY <3>2, <4>3, <5>1, <6>1 DEF PpLine1
        <5>2. CASE \E s \in {"E", "0E"} : inbox = <<Line("echo", "PP"), Status(s), Blank>>
          <6>1. \E s \in {"E", "0E"} : inbox' = <<Status(s), Blank>> BY <3>1, <5>2, PpTails
          <6> QED BY <3>2, <4>3, <6>1 DEF PpLine1
        <5> QED BY <4>3, <5>1, <5>2
      <4> QED BY <1>4, <4>2, <4>4 DEF AskOK
    <3>4. CASE xchg.line = 1
      <4>1. ~Empty(l) BY <3>1, <3>4 DEF Empty
      <4>2. pc' = "xchg" /\ xchg'.line = 2 /\ xchg'.body = "none" BY <1>2, <1>3, <2>2, <3>4, <4>1
      <4>3. PpLine2'
        <5>1. CASE IsIdle /\ inbox = <<Status("00"), Body, Blank>>
          <6>1. inbox' = <<Body, Blank>> BY <3>1, <5>1, PpTails
          <6> QED BY <1>2, <3>2, <3>4, <5>1, <6>1 DEF PpLine1, PpLine2
        <5>2. CASE \E s \in {"E", "0E"} : inbox = <<Status(s), Blank>>
          <6>1. inbox' = <<Blank>> BY <3>1, <5>2, PpTails
          <6> QED BY <1>2, <3>2, <3>4, <4>2, <6>1 DEF PpLine1, PpLine2
        <5> QED BY <1>2, <3>4, <5>1, <5>2 DEF PpLine1
      <4> QED BY <1>4, <4>2, <4>3 DEF AskOK
    <3>5. CASE xchg.line = 2
      <4>1. CASE inbox = <<Blank>> /\ (xchg.body # "none" => IsIdle)
        <5>1. Empty(l) /\ inbox' = <<>>
          <6>1. inbox[1] = Blank BY <4>1
          <6> QED BY <3>1, <4>1, <6>1, PpTails DEF Empty, Blank, Line
        <5>2. pc' = "xchg_done" /\ xchg' = xchg BY <1>3, <2>2, <5>1
        <5> QED BY <1>2, <1>4, <3>2, <3>5, <4>1, <5>1, <5>2 DEF AskOK, PpLine2
      <4>2. CASE IsIdle /\ inbox = <<Body, Blank>>
        <5>1. ~Empty(l) /\ inbox' = <<Blank>>
          <6>1. inbox[1] = Body BY <4>2
          <6> QED BY <3>1, <4>2, <6>1, PpTails DEF Empty, Body, Line
        <5>2. pc' = "xchg" /\ xchg'.line = 2 BY <1>3, <2>2, <3>5, <5>1
        <5> QED BY <1>2, <1>4, <3>2, <3>5, <4>2, <5>1, <5>2 DEF AskOK, PpLine2
      <4> QED BY <1>2, <3>5, <4>1, <4>2 DEF PpLine2
    <3> QED BY <3>3, <3>4, <3>5 DEF TypeOK
  <2> QED BY <2>1, <2>2
<1> QED BY <1>1, <1>2, <1>3, <1>4, <1>5, <1>6
        DEF ConnectInv, SearchOK, ClearOK, QuietOK, ChangeOK, OpenedOK, OpenSynced,
            Searching, Asks, Opened

LEMMA ResponseInv == ASSUME TypeOK, ConnectInv, ScipResponse PROVE ConnectInv'
<1>1. pc = "xchg" /\ xchg.cmd \in Names \ {"LF"}
  BY DEF ScipResponse, ConnectInv, PhaseOK, TypeOK
<1>2. Asks({"QT", "SCIP2.0", "TM2"}) \/ Asks({"SS"}) \/ Asks({"PP"}) BY <1>1 DEF Asks, Names
<1> QED BY <1>2, ResponseInSearch, ResponseToSs, ResponseToPp

(***************************************************************************)
(* The steps of the sensor.                                                *)
(***************************************************************************)

\* The only SS, or PP, is the last command and still the last when another one was
\* taken.
LEMMA AnswersLast ==
  ASSUME TypeOK, SensorAnswers, NEW c \in Names, OnlyLast(c)
  PROVE  /\ outbox[1].name = c => Len(outbox) = 1 /\ At(1, c) /\ outbox' = <<>>
         /\ outbox[1].name # c => OnlyLast(c)'
<1> DEFINE n == Len(outbox)
<1>1. /\ n \in Nat /\ n > 0 /\ Len(outbox') = n - 1 /\ (outbox' = <<>> <=> n = 1)
      /\ \A k \in 1 .. n - 1 : outbox'[k] = outbox[k + 1]
  BY AnswersFirst
<1>2. /\ outbox[n] = [name |-> c, rate |-> hostrate]
      /\ \A k \in 1 .. n - 1 : outbox[k].name # c
      /\ UNCHANGED hostrate
  BY DEF OnlyLast, Final, At, SensorAnswers
<1> HIDE DEF n
<1>3. CASE n = 1
  <2>1. outbox[1].name = c /\ At(1, c) /\ outbox' = <<>> BY <1>1, <1>2, <1>3 DEF At
  <2> QED BY <1>3, <2>1 DEF n
<1>4. CASE n # 1
  <2>1. 1 \in 1 .. n - 1 /\ n - 1 \in 1 .. n - 1 /\ (n - 1) + 1 = n BY <1>1, <1>4
  <2>2. outbox[1].name # c BY <1>2, <2>1
  <2>3. outbox' # <<>> BY <1>1, <1>4
  <2>4. outbox'[n - 1] = [name |-> c, rate |-> hostrate'] BY <1>1, <1>2, <2>1
  <2>5. \A k \in 1 .. (n - 1) - 1 : outbox'[k].name # c
    <3>1. ASSUME NEW k \in 1 .. (n - 1) - 1 PROVE outbox'[k].name # c
      <4>1. k \in 1 .. n - 1 /\ k + 1 \in 1 .. n - 1 BY <1>1, <3>1
      <4> QED BY <1>1, <1>2, <4>1
    <3> QED BY <3>1
  <2> QED BY <1>1, <2>2, <2>3, <2>4, <2>5 DEF OnlyLast, Final, At
<1> QED BY <1>3, <1>4

\* What awaits an answer to c either still does, or the sensor has just made out c.
LEMMA AnswersAwaited ==
  ASSUME TypeOK, SensorAnswers, NEW c \in Names, Awaits(c), Quieted, c \notin {"LF", "QT"},
         c = "SS" \/ outbox[1].name # "SS"
  PROVE  \/ Awaits(c)' /\ Quieted'
         \/ /\ outbox' = <<>> /\ Obey(c) /\ InTune(hostrate) /\ ~sensor.dirt
            /\ sensor.mode # "measure" /\ Settled'
<1>1. OnlyLast(c) BY AnswersFirst DEF Awaits
<1>2. UNCHANGED <<type, hostrate>> BY DEF SensorAnswers, args
<1>3. CASE outbox[1].name # c
  BY <1>1, <1>3, AnswersLast, AnswersKeep, AnswersQuiet DEF Awaits
<1>4. CASE outbox[1].name = c
  <2>1. /\ Len(outbox) = 1 /\ outbox' = <<>> /\ outbox[1] = [name |-> c, rate |-> hostrate]
    BY <1>1, <1>4, AnswersLast DEF At
  <2>2. CASE ~InTune(hostrate)
    <3>1. Garbage BY <2>1, <2>2, AnswersHead
    <3>2. NoEcho(c)' BY <3>1, RefusalKeeps DEF Garbage, Awaits, NoEcho
    <3>3. sensor'.rate = sensor.rate BY <3>1 DEF Garbage, TypeOK
    <3>4. ~InTune(hostrate)' BY <1>2, <2>2, <3>3 DEF InTune, Serial
    <3> QED BY <2>1, <3>2, <3>4 DEF Awaits, Quieted
  <2>3. InTune(hostrate) => Obey(c) BY <2>1, AnswersHead
  <2>4. InTune(hostrate) => sensor.mode # "measure"
    <3>1. ~At(1, "QT") BY <2>1 DEF At
    <3> QED BY <2>1, <3>1 DEF Quieted
  <2>5. InTune(hostrate) => sensor'.mode # "measure" BY <2>4, AnswersKeep
  <2>6. CASE InTune(hostrate) /\ sensor.dirt
    <3>1. Sends(Refusal) BY <2>3, <2>6 DEF Obey
    <3>2. NoEcho(c)' BY <3>1, RefusalKeeps DEF Awaits
    <3> QED BY <2>1, <2>5, <2>6, <3>2 DEF Awaits, Quieted
  <2>7. CASE InTune(hostrate) /\ ~sensor.dirt
    BY <2>1, <2>3, <2>4, <2>5, <2>7 DEF Settled
  <2> QED BY <2>2, <2>6, <2>7
<1> QED BY <1>3, <1>4

\* A sensor that is idle answers PP with its parameters, one that is not refuses it.
LEMMA AnswersPp ==
  ASSUME TypeOK, Obey("PP"), ~sensor.dirt, sensor.mode # "measure"
  PROVE  /\ sensor' = sensor
         /\ \/ sensor.mode = "idle" /\ Sends(PpAnswer)
            \/ \E s \in {"E", "0E"} : Sends(Answer("PP", s))
<1>1. sensor.mode \in {"idle", "scip11", "adjust"} BY ChoiceAssumption DEF TypeOK
<1>2. CASE sensor.mode = "idle" BY <1>2 DEF Obey, Execute, PpAnswer
<1>3. CASE sensor.mode = "scip11"
  <2>1. Sends(Answer("PP", "E")) /\ UNCHANGED sensor BY <1>3 DEF Obey
  <2> QED BY <2>1
<1>4. CASE sensor.mode = "adjust"
  <2>1. Sends(Answer("PP", "0E")) /\ UNCHANGED sensor BY <1>4 DEF Obey
  <2> QED BY <2>1
<1> QED BY <1>1, <1>2, <1>3, <1>4

\* With nothing before it in the line queue the answer to PP is the next to be
\* read; otherwise a line that is not its echo is.
LEMMA PpArrives ==
  ASSUME TypeOK, Awaits("PP"), outbox' = <<>>, Obey("PP"), ~sensor.dirt,
         sensor.mode # "measure", InTune(hostrate), UNCHANGED <<type, hostrate>>
  PROVE  PpLine0'
<1>1. /\ sensor' = sensor
      /\ \/ sensor.mode = "idle" /\ Sends(PpAnswer)
         \/ \E s \in {"E", "0E"} : Sends(Answer("PP", s))
  BY AnswersPp
<1>2. PICK answer \in Seq(Lines) :
        /\ Sends(answer)
        /\ \/ IsIdle /\ answer = PpAnswer
           \/ \E s \in {"E", "0E"} : answer = Answer("PP", s)
  <2>1. CASE sensor.mode = "idle" /\ Sends(PpAnswer)
    BY <2>1, PpLines DEF IsIdle, TypeOK
  <2>2. CASE \E s \in {"E", "0E"} : Sends(Answer("PP", s))
    BY <2>2, AnswerLines DEF Names, Texts
  <2> QED BY <1>1, <2>1, <2>2
<1>3. inbox \in Seq(Lines) /\ inbox' = inbox \o answer BY <1>2 DEF Sends, TypeOK
<1>4. Ready' /\ Settled' /\ (IsIdle => IsIdle') /\ Body' = Body
  BY <1>1 DEF Ready, Settled, InTune, Serial, IsIdle, Body
<1>5. CASE inbox = <<>>
  <2>1. inbox' = answer BY <1>2, <1>3, <1>5, ConcatEmptySeq
  <2> QED BY <1>2, <1>4, <2>1 DEF PpLine0, PpAnswer, Answer, Body, Status
<1>6. CASE inbox # <<>>
  <2>1. Len(inbox) \in Nat /\ Len(inbox) > 0 /\ Len(answer) \in Nat
    BY <1>3, <1>6, EmptySeq, LenProperties
  <2>2. inbox'[1] = inbox[1] BY <1>2, <1>3, <2>1, ConcatProperties
  <2>3. inbox[1] # Line("echo", "PP") BY <1>3, <2>1 DEF Awaits, NoEcho
  <2>4. inbox' # <<>>
    <3>1. inbox' \in Seq(Lines) /\ Len(inbox') = Len(inbox) + Len(answer)
      BY <1>2, <1>3, ConcatProperties
    <3> QED BY <2>1, <3>1, EmptySeq
  <2> QED BY <1>4, <2>2, <2>3, <2>4 DEF PpLine0
<1> QED BY <1>5, <1>6

LEMMA AnswersInv == ASSUME TypeOK, ConnectInv, SensorAnswers PROVE ConnectInv'
<1>1. /\ UNCHANGED <<type, baudrate, is_active, i, pc, ret, xchg, after, hostrate>>
      /\ outbox # <<>> /\ outbox[1].name \in Names
  BY AnswersFirst DEF SensorAnswers, args, flags, Commands
<1>2. ~is_active BY <1>1 DEF ConnectInv, OpenSynced
<1>3. PhaseOK' BY <1>1 DEF ConnectInv, PhaseOK, Serial
<1>4. CASE pc = "done" BY <1>1, <1>2, <1>4, GivesUp
<1>5. CASE Searching
  <2>1. Unsent("SS") /\ Unsent("PP") /\ NoEcho("SS") /\ NoEcho("PP") BY <1>5, SearchFacts
  <2>2. /\ outbox[1].name # "SS" /\ outbox[1].name # "PP"
        /\ Unsent("SS")' /\ Unsent("PP")'
    BY <2>1, AnswersFirst
  <2>3. NoEcho("SS")' /\ NoEcho("PP")' BY <2>1, <2>2, AnswersKeep
  <2>4. Searching' BY <1>1, <1>5 DEF Searching, Asks
  <2>5. ClearOK' BY <1>1, <2>2, AnswersClear DEF ConnectInv, ClearOK
  <2>6. QuietOK' BY <1>1, <2>2, AnswersQuiet DEF ConnectInv, QuietOK, Failing
  <2>7. Serial' /\ Rate(i)' \in Known /\ pc' \notin {"open", "try", "next"} => hostrate' = Rate(i)'
    BY <1>1, <1>5, SearchFacts DEF Serial, Rate
  <2> QED BY <1>1, <1>2, <1>3, <2>2, <2>3, <2>4, <2>5, <2>6, <2>7, SearchOn
<1>6. CASE Opened
  <2>1. Tuned /\ Unsent("SS") /\ Unsent("PP") /\ NoEcho("PP") /\ Quieted
    BY <1>6 DEF ConnectInv, OpenedOK, QuietOK, Opened, Failing
  <2>2. outbox[1].name # "SS" /\ outbox[1].name # "PP" /\ Unsent("SS")' /\ Unsent("PP")'
    BY <2>1, AnswersFirst
  <2>3. NoEcho("PP")' /\ Quieted' BY <2>1, <2>2, AnswersKeep, AnswersQuiet
  <2>4. Tuned' BY <1>1, <2>1 DEF Tuned, Serial
  <2> QED BY <1>1, <1>2, <1>3, <1>6, <2>2, <2>3, <2>4
          DEF ConnectInv, SearchOK, ClearOK, QuietOK, ChangeOK, OpenedOK, AskOK, OpenSynced,
              Searching, Asks, Opened
<1>7. CASE Asks({"SS"})
  <2>1. Unsent("PP") /\ NoEcho("PP") BY <1>7 DEF ConnectInv, ChangeOK
  <2>2. outbox[1].name # "PP" /\ Unsent("PP")' BY <2>1, AnswersFirst
  <2>3. NoEcho("PP")' BY <2>1, <2>2, AnswersKeep
  <2>4. Failing \/ (pc = "xchg" /\ xchg.line = 0 /\ Awaits("SS") /\ Quieted)
    BY <1>1, <1>7 DEF ConnectInv, ChangeOK, QuietOK, Failing, Asks, Settled, TypeOK
  <2>5. CASE Failing
    BY <1>1, <1>2, <1>3, <1>7, <2>2, <2>3, <2>5
       DEF ConnectInv, SearchOK, ClearOK, QuietOK, ChangeOK, OpenedOK, AskOK, OpenSynced,
           Searching, Asks, Opened, Failing
  <2>6. CASE pc = "xchg" /\ xchg.line = 0 /\ Awaits("SS") /\ Quieted
    <3>1. (Awaits("SS")' \/ Settled') /\ Quieted'
      BY <2>6, AnswersAwaited DEF Names, Settled, Quieted
    <3> QED BY <1>1, <1>2, <1>3, <1>7, <2>2, <2>3, <2>6, <3>1
            DEF ConnectInv, SearchOK, ClearOK, QuietOK, ChangeOK, OpenedOK, AskOK, OpenSynced,
                Searching, Asks, Opened
  <2> QED BY <2>4, <2>5, <2>6
<1>8. CASE Asks({"PP"})
  <2>1. Tuned /\ Unsent("SS") BY <1>8 DEF ConnectInv, AskOK
  <2>2. outbox[1].name # "SS" /\ Unsent("SS")' /\ Tuned'
    BY <1>1, <2>1, AnswersFirst DEF Tuned, Serial
  <2>3. \/ pc = "xchg" /\ xchg.line = 0 /\ xchg.body = "none" /\ Awaits("PP") /\ Quieted
        \/ pc = "xchg_done" /\ (ret = "POSITIVE" => xchg.body = "none" /\ Quieted)
    BY <1>1, <1>8
       DEF ConnectInv, AskOK, QuietOK, PpLine0, PpLine1, PpLine2, Failing, Asks, Ready, Settled,
           TypeOK
  <2>4. CASE pc = "xchg" /\ xchg.line = 0 /\ xchg.body = "none" /\ Awaits("PP") /\ Quieted
    <3>1. PpLine0' /\ Quieted'
      <4>1. CASE Awaits("PP")' /\ Quieted' BY <4>1 DEF PpLine0
      <4>2. CASE /\ outbox' = <<>> /\ Obey("PP") /\ InTune(hostrate) /\ ~sensor.dirt
                 /\ sensor.mode # "measure" /\ Settled'
        <5>1. UNCHANGED <<type, hostrate>> BY DEF SensorAnswers, args
        <5> QED BY <2>4, <4>2, <5>1, PpArrives DEF Settled, Quieted
      <4> QED BY <2>2, <2>4, <4>1, <4>2, AnswersAwaited DEF Names
    <3> QED BY <1>1, <1>2, <1>3, <1>8, <2>2, <2>4, <3>1
            DEF ConnectInv, SearchOK, ClearOK, QuietOK, ChangeOK, OpenedOK, AskOK, OpenSynced,
                Searching, Asks, Opened
  <2>5. CASE pc = "xchg_done" /\ (ret = "POSITIVE" => xchg.body = "none" /\ Quieted)
    <3>1. ret = "POSITIVE" => Quieted' BY <2>2, <2>5, AnswersQuiet
    <3> QED BY <1>1, <1>2, <1>3, <1>8, <2>2, <2>5, <3>1
            DEF ConnectInv, SearchOK, ClearOK, QuietOK, ChangeOK, OpenedOK, AskOK, OpenSynced,
                Searching, Asks, Opened, Failing
  <2> QED BY <2>3, <2>4, <2>5
<1>9. Searching \/ Opened \/ Asks({"SS"}) \/ Asks({"PP"}) \/ pc = "done"
  BY DEF Searching, Opened, Asks, ConnectInv, PhaseOK, TypeOK, Labels, Names
<1> QED BY <1>4, <1>5, <1>6, <1>7, <1>8, <1>9

LEMMA ScansInv == ASSUME TypeOK, ConnectInv, SensorScans PROVE ConnectInv'
<1>1. /\ UNCHANGED <<type, baudrate, is_active, i, pc, ret, xchg, after, hostrate, outbox, sensor>>
      /\ pc # "done" /\ sensor.mode = "measure" /\ Sends(Scan)
  BY DEF SensorScans, args, flags, Scan
<1>2. ~is_active BY <1>1, Inactive
<1>3. PhaseOK' BY <1>1 DEF ConnectInv, PhaseOK, Serial
<1>4. ASSUME NEW c, NoEcho(c) PROVE NoEcho(c)'
  <2>1. Scan \in Seq(Lines) /\ DOMAIN Scan = 1 .. 2 BY ScanLines
  <2>2. \A k \in 1 .. 2 : Scan[k] # Line("echo", c) BY ScanLines DEF Line, Blank
  <2> QED BY <1>1, <1>4, <2>1, <2>2, SendsKeeps
<1>5. \A c : /\ Unsent(c) => Unsent(c)'
             /\ OnlyLast(c) => OnlyLast(c)'
  BY <1>1 DEF Unsent, OnlyLast, Final, At
<1>6. (Quieted => Quieted') /\ (Cleared => Cleared') /\ (Tuned => Tuned')
  BY <1>1 DEF Quieted, Cleared, Final, At, InTune, Serial, Tuned
<1>7. \A c : Awaits(c) => Awaits(c)' BY <1>1, <1>4, <1>5 DEF Awaits
<1>8. ~Settled /\ ~Ready BY <1>1 DEF Settled, Ready
<1>9. ClearOK' /\ QuietOK' BY <1>1, <1>6 DEF ConnectInv, ClearOK, QuietOK, Failing
<1>10. SearchOK'
  BY <1>1, <1>4, <1>5 DEF ConnectInv, SearchOK, Searching, Asks, Serial, Rate
<1>11. ChangeOK' BY <1>1, <1>4, <1>5, <1>7, <1>8 DEF ConnectInv, ChangeOK, Asks
<1>12. OpenedOK' BY <1>1, <1>4, <1>5, <1>6 DEF ConnectInv, OpenedOK, Opened
<1>13. AskOK'
  BY <1>1, <1>4, <1>5, <1>6, <1>7, <1>8
     DEF ConnectInv, AskOK, Asks, PpLine0, PpLine1, PpLine2
<1>14. OpenSynced' BY <1>1, <1>2 DEF OpenSynced
<1> QED BY <1>3, <1>9, <1>10, <1>11, <1>12, <1>13, <1>14 DEF ConnectInv

(***************************************************************************)
(* The theorem.                                                            *)
(***************************************************************************)
LEMMA ConnectInit == Init => ConnectInv
<1> SUFFICES ASSUME Init PROVE ConnectInv OBVIOUS
<1>1. pc = "open" /\ ~is_active /\ inbox = <<>> /\ outbox = <<>> BY DEF Init
<1>2. \A c : Unsent(c) /\ NoEcho(c) BY <1>1 DEF Unsent, NoEcho
<1> QED BY <1>1, <1>2
        DEF ConnectInv, PhaseOK, SearchOK, ClearOK, QuietOK, ChangeOK, OpenedOK, AskOK, OpenSynced,
            Searching, Asks, Opened

\* ConnectInv is inductive relative to TypeOK.
LEMMA ConnectNext == TypeOK /\ ConnectInv /\ [Next]_vars => ConnectInv'
<1> SUFFICES ASSUME TypeOK, ConnectInv, [Next]_vars PROVE ConnectInv' OBVIOUS
<1>1. CASE Host
  BY <1>1, OpenInv, TryInv, ClearInv, DrainInv, ResponseInv, QtDoneInv, Scip20Inv, Scip20DoneInv,
     NextRoundInv, ChangeInv, SsDoneInv, ConnectedInv, PpDoneInv DEF Host
<1>2. CASE SensorAnswers BY <1>2, AnswersInv
<1>3. CASE SensorScans BY <1>3, ScansInv
<1>4. CASE UNCHANGED vars
  BY <1>4
     DEF vars, args, flags, ConnectInv, PhaseOK, SearchOK, ClearOK, QuietOK, ChangeOK, OpenedOK,
         AskOK, OpenSynced, Searching, Asks, Opened, Failing, Cleared, Quieted, Settled, Ready,
         Tuned, Awaits, OnlyLast, Final, At, Unsent, NoEcho, PpLine0, PpLine1, PpLine2, IsIdle,
         Body, Status, InTune, Serial, Rate
<1> QED BY <1>1, <1>2, <1>3, <1>4 DEF Next, Done

\* What urg_open opened is ready for the first command, over every connection, for
\* every rate, whatever the sensor was doing, with any number of late answers and of
\* answers to garbage.
THEOREM OpenedIsSynced == Spec => []OpenSynced
<1>1. ConnectInv => OpenSynced BY DEF ConnectInv
<1> QED BY <1>1, ConnectInit, ConnectNext, ConnectTypeCorrect, PTL DEF Spec

(***************************************************************************)
(* A sensor that can be found is found.  Without late answers a read that  *)
(* times out finds both queues empty, so what is on the line is known.     *)
(***************************************************************************)

\* The rate of the sensor is one of those from the k-th on
Later(k) == \E j \in k .. try_times : Rate(j) = sensor.rate

\* Whatever the sensor has not read is garbage to it
Astray == \A k \in DOMAIN outbox : outbox[k].rate # sensor.rate

\* Port and sensor have different rates; that of the sensor is still to come
Missed == /\ Serial /\ hostrate # sensor.rate /\ Later(i + 1)
          /\ inbox = <<>> /\ Astray

\* They have the same rate, and nothing is on the line
Calm == /\ InTune(hostrate) /\ ~sensor.dirt
        /\ inbox = <<>> /\ outbox = <<>>

\* The sensor is to read a command it will make out
Asked(c) == /\ InTune(hostrate) /\ ~sensor.dirt
            /\ inbox = <<>> /\ outbox = <<[name |-> c, rate |-> hostrate]>>
            /\ pc = "xchg" /\ xchg.cmd = c /\ xchg.line = 0

\* It has, and what is left of its answer is in the line queue
Told(c, s) == /\ ~sensor.dirt /\ outbox = <<>> /\ xchg.cmd = c
              /\ \/ /\ pc = "xchg" /\ xchg.line = 0
                    /\ inbox = <<Line("echo", c), Status(s), Blank>>
                 \/ /\ pc = "xchg" /\ xchg.line = 1
                    /\ inbox = <<Status(s), Blank>>
                 \/ /\ pc = "xchg" /\ xchg.line = 2 /\ xchg.ok /\ xchg.reply = s
                    /\ inbox = <<Blank>>
                 \/ /\ pc = "xchg_done" /\ ret = "POSITIVE" /\ xchg.reply = s
                    /\ inbox = <<>>

\* The same for PP, with all parameters
ToldAll == /\ ~sensor.dirt /\ outbox = <<>> /\ xchg.cmd = "PP"
           /\ \/ /\ pc = "xchg" /\ xchg.line = 0 /\ inbox = PpAnswer
              \/ /\ pc = "xchg" /\ xchg.line = 1
                 /\ inbox = <<Status("00"), Body, Blank>>
              \/ /\ pc = "xchg" /\ xchg.line = 2 /\ xchg.ok
                 /\ inbox = <<Body, Blank>>
              \/ /\ pc = "xchg" /\ xchg.line = 2 /\ xchg.ok /\ xchg.body = "all"
                 /\ inbox = <<Blank>>
              \/ /\ pc = "xchg_done" /\ ret = "POSITIVE" /\ xchg.body = "all"

Heading(label) == pc = label \/ (pc = "drain" /\ after = label)
InMode(m)      == sensor.mode = m

\* Parts of the search: before a round, in a round at a wrong rate, in the round at the
\* right one
Starting ==
  \/ /\ pc = "open" /\ i = 1 /\ inbox = <<>> /\ outbox = <<>>
     /\ Serial => Later(1)
  \/ /\ pc = "try" /\ inbox = <<>>
     /\ IF Serial THEN Later(i) /\ Astray /\ (i > 1 => hostrate # sensor.rate)
                  ELSE outbox = <<>>
Missing ==
  Missed /\ \/ pc = "clear" \/ Heading("next")
            \/ pc = "xchg" /\ xchg.cmd = "QT" /\ xchg.line = 0
            \/ pc = "xchg_done" /\ xchg.cmd = "QT" /\ ret = "NO_RESPONSE"
Quieting ==
  /\ InTune(hostrate)
  /\ \/ pc = "clear"
     \/ Asked("QT")
     \/ Told("QT", "00") /\ InMode("idle")
     \/ Told("QT", "E")  /\ InMode("scip11")
     \/ Told("QT", "0E") /\ InMode("adjust")
Waking ==
  /\ InTune(hostrate)
  /\ \/ Calm /\ Heading("scip20") /\ InMode("scip11")
     \/ Asked("SCIP2.0") /\ InMode("scip11")
     \/ Told("SCIP2.0", "0") /\ InMode("idle")
     \/ Asked("TM2") /\ InMode("adjust")
     \/ Told("TM2", "00") /\ InMode("idle")

\* After it: only over a serial line may the rate have to change
Changing ==
  /\ InMode("idle")
  /\ \/ Calm /\ Heading("change")
     \/ Serial /\ Asked("SS")
     \/ Serial /\ sensor.rate = baudrate /\ (Told("SS", "00") \/ Told("SS", "03"))
Asking ==
  /\ InMode("idle")
  /\ \/ Calm /\ Heading("connected")
     \/ Asked("PP")
     \/ ToldAll
Ended ==
  /\ pc = "done" /\ outbox = <<>>
  /\ ret \in {"NO_ERROR", "SERIAL_OPEN_ERROR", "ETHERNET_OPEN_ERROR"}

Promising ==
  /\ sensor.mode # "measure" /\ sensor.pp = "all"
  /\ Serial => sensor.rate \in Known
  /\ ~Serial => i = 1 /\ (pc \notin {"open", "done"} => baudrate = 115200)

FindInv ==
  Findable =>
    /\ Promising
    /\ Starting \/ Missing \/ Quieting \/ Waking \/ Changing \/ Asking \/ Ended

\* The rate of a sensor that can be found is tried; the first rate tried is one the
\* port knows.
LEMMA RateListed ==
  ASSUME TypeOK, NEW x \in Range(try_baudrate) PROVE \E j \in 1 .. try_times : Rate(j) = x
<1> DEFINE t == try_baudrate
<1>1. DOMAIN t = 1 .. 6 /\ try_times = 6 BY DEF try_baudrate, try_times
<1>2. PICK m \in 1 .. 6 : t[m] = x BY <1>1 DEF Range
<1>3. CASE ~Contains(t, baudrate) BY <1>1, <1>2, <1>3 DEF Rate
<1>4. CASE Contains(t, baudrate)
  <2>1. PICK b \in 1 .. 6 : t[b] = baudrate BY <1>1, <1>4 DEF Contains, try_times
  <2>2. CASE x = baudrate BY <1>1, <1>4, <2>2 DEF Rate
  <2>3. CASE x # baudrate /\ x = t[1] BY <1>1, <1>4, <2>1, <2>3 DEF Rate
  <2>4. CASE x # baudrate /\ x # t[1] BY <1>1, <1>2, <1>4, <2>4 DEF Rate
  <2> QED BY <2>2, <2>3, <2>4
<1> QED BY <1>3, <1>4

LEMMA RateFirst ==
  /\ baudrate \in Known => Rate(1) \in Known
  /\ baudrate = 115200 => Rate(1) = baudrate
<1>1. try_baudrate[1] = 19200 /\ 19200 \in Known BY DEF try_baudrate, Known
<1>2. baudrate = 115200 => Contains(try_baudrate, baudrate)
  <2>1. 3 \in 1 .. Len(try_baudrate) /\ try_baudrate[3] = 115200 BY DEF try_baudrate
  <2> QED BY <2>1 DEF Contains
<1> QED BY <1>1, <1>2 DEF Rate

\* With no mishap a read times out only when nothing is under way.
LEMMA ReadsExactly ==
  ASSUME TypeOK, NEW l \in Incoming, Reads(l), mishaps' = 0
  PROVE  /\ mishaps = 0
         /\ \/ Failed(l) /\ inbox = <<>> /\ outbox = <<>> /\ inbox' = inbox
            \/ ~Failed(l) /\ inbox # <<>> /\ l = inbox[1] /\ inbox' = Tail(inbox)
<1>1. mishaps \in Nat BY BoundAssumption DEF TypeOK
<1>2. CASE Failed(l)
  <2>1. mishaps' = IF Silent THEN mishaps ELSE mishaps + 1 BY <1>2 DEF Reads
  <2>2. Silent /\ mishaps = 0 BY <1>1, <2>1
  <2> QED BY <1>2, <2>2 DEF Silent, Reads
<1>3. CASE ~Failed(l) BY <1>3, ReadsLine DEF Reads, TypeOK
<1> QED BY <1>2, <1>3

\* What a step must leave alone for the search to stay promising.
LEMMA StillFindable ==
  ASSUME Findable', UNCHANGED <<type, was>>, Serial => baudrate' = baudrate,
         mishaps' = 0 => mishaps = 0
  PROVE  Findable
BY DEF Findable, Serial

LEMMA StillPromising ==
  ASSUME Promising, UNCHANGED <<type, i, sensor>>, pc \notin {"open", "done"},
         UNCHANGED baudrate
  PROVE  Promising'
BY DEF Promising, Serial

LEMMA OpenFinds == ASSUME TypeOK, FindInv, Open PROVE FindInv'
<1> SUFFICES ASSUME Findable' PROVE Promising' /\ (Starting' \/ Ended') BY DEF FindInv
<1>1. /\ UNCHANGED <<type, was, i, outbox, inbox, sensor, mishaps>> /\ pc = "open"
      /\ Serial => baudrate' = baudrate
  BY DEF Open
<1>2. Findable BY <1>1, StillFindable
<1>3. Promising /\ Starting
  BY <1>1, <1>2 DEF FindInv, Missing, Quieting, Waking, Changing, Asking, Ended, Asked, Told,
                    ToldAll, Heading
<1>4. i = 1 /\ inbox = <<>> /\ outbox = <<>> /\ (Serial => Later(1)) BY <1>1, <1>3 DEF Starting
<1>5. \/ pc' = "done" /\ ret' \in {"SERIAL_OPEN_ERROR", "ETHERNET_OPEN_ERROR"}
      \/ pc' = "try" /\ (~Serial => baudrate' = 115200)
  BY DEF Open, Ends, Goto
<1>6. Promising' BY <1>1, <1>3, <1>4, <1>5 DEF Promising, Serial
<1>7. CASE pc' = "try"
  <2>1. Serial' => Later(1)' BY <1>1, <1>4 DEF Later, Rate, Serial
  <2>2. Astray' BY <1>1, <1>4 DEF Astray
  <2> QED BY <1>1, <1>4, <1>6, <1>7, <2>1, <2>2 DEF Starting
<1> QED BY <1>1, <1>4, <1>5, <1>6, <1>7 DEF Ended

LEMMA TryFinds == ASSUME TypeOK, ConnectInv, FindInv, Try PROVE FindInv'
<1> SUFFICES ASSUME Findable' PROVE Promising' /\ (Missing' \/ Quieting') BY DEF FindInv
<1>1. /\ UNCHANGED <<type, was, baudrate, i, sensor, mishaps>> /\ pc = "try" /\ pc' = "clear"
  BY DEF Try, args, Goto
<1>2. Findable BY <1>1, StillFindable
<1>3. Promising /\ Starting
  BY <1>1, <1>2 DEF FindInv, Missing, Quieting, Waking, Changing, Asking, Ended, Asked, Told,
                    ToldAll, Heading
<1>4. Promising' BY <1>1, <1>3, StillPromising
<1>5. CASE ~Serial BY <1>1, <1>4, <1>5 DEF Quieting, InTune, Serial
<1>6. CASE Serial
  <2>1. inbox = <<>> /\ Later(i) /\ Astray /\ (i > 1 => hostrate # sensor.rate)
    BY <1>1, <1>3, <1>6 DEF Starting
  <2>2. /\ inbox' = <<>>
        /\ IF Rate(i) \in Known THEN hostrate' = Rate(i) ELSE hostrate' = hostrate
    BY <1>6, <2>1 DEF Try, SetBaudrate
  <2>3. CASE Rate(i) = sensor.rate
    <3>1. hostrate' = sensor.rate BY <1>3, <1>6, <2>2, <2>3 DEF Promising
    <3> QED BY <1>1, <1>4, <3>1 DEF Quieting, InTune
  <2>4. CASE Rate(i) # sensor.rate
    <3>1. PICK j \in i .. try_times : Rate(j) = sensor.rate BY <2>1 DEF Later
    <3>2. j \in i + 1 .. try_times
      <4>1. i \in Nat /\ try_times \in Nat BY DEF TypeOK, try_times, try_baudrate
      <4> QED BY <2>4, <3>1, <4>1
    <3>3. Later(i + 1)' BY <1>1, <3>1, <3>2 DEF Later, Rate
    <3>4. hostrate' # sensor.rate
      <4>1. CASE Rate(i) \in Known BY <2>2, <2>4, <4>1
      <4>2. CASE Rate(i) \notin Known
        <5>1. baudrate \in Known BY <1>1, <1>6 DEF ConnectInv, PhaseOK
        <5>2. i # 1 BY <4>2, <5>1, RateFirst
        <5>3. i > 1 BY <5>2 DEF TypeOK, try_times, try_baudrate
        <5> QED BY <2>1, <2>2, <4>2, <5>3
      <4> QED BY <4>1, <4>2
    <3>5. Astray'
      <4> DEFINE e == [name |-> "LF", rate |-> hostrate']  n == Len(outbox)
      <4>1. outbox \in Seq(Commands) /\ outbox' = Append(outbox, e) BY DEF TypeOK, Commands, Try
      <4>2. e \in Commands
        <5>1. hostrate' \in Nat BY SetBaudrateType DEF Try
        <5> QED BY <5>1 DEF Commands, Names
      <4>3. e.rate # sensor.rate BY <3>4
      <4> HIDE DEF e
      <4>4. /\ outbox' \in Seq(Commands) /\ n \in Nat /\ Len(outbox') = n + 1
            /\ \A k \in 1 .. n : outbox'[k] = outbox[k]
            /\ outbox'[n + 1] = e /\ DOMAIN outbox = 1 .. n
        BY <4>1, <4>2, AppendProperties, LenProperties
      <4>5. DOMAIN outbox' = 1 .. n + 1 BY <4>4, LenProperties
      <4> QED BY <1>1, <2>1, <4>3, <4>4, <4>5 DEF Astray
    <3> QED BY <1>1, <1>4, <1>6, <2>2, <3>3, <3>4, <3>5 DEF Missing, Missed, Serial
  <2> QED BY <2>3, <2>4
<1> QED BY <1>5, <1>6

\* A command written at a wrong rate is garbage.
LEMMA AstrayWrite ==
  ASSUME TypeOK, NEW c \in Names, Writes(c), Astray, hostrate # sensor.rate, UNCHANGED sensor
  PROVE  Astray'
<1> DEFINE n == Len(outbox)
<1>1. /\ outbox' \in Seq(Commands) /\ n \in Nat /\ Len(outbox') = n + 1
      /\ \A k \in 1 .. n : outbox'[k] = outbox[k]
      /\ outbox'[n + 1] = [name |-> c, rate |-> hostrate]
  BY WritesCommand
<1>2. DOMAIN outbox = 1 .. n /\ DOMAIN outbox' = 1 .. n + 1
  BY <1>1, LenProperties DEF TypeOK
<1>3. outbox'[n + 1].rate = hostrate BY <1>1
<1> QED BY <1>1, <1>2, <1>3 DEF Astray

\* The exchange begins.
LEMMA AsksNow ==
  ASSUME Calm, NEW c \in Names, Exchange(c), UNCHANGED <<type, inbox, hostrate, sensor>>
  PROVE  Asked(c)'
<1> DEFINE e == [name |-> c, rate |-> hostrate]
<1>1. outbox' = Append(outbox, e) /\ outbox = <<>> BY DEF Exchange, Writes, Calm
<1>2. outbox' = <<e>>
  <2> HIDE DEF e
  <2> QED BY <1>1
<1>3. pc' = "xchg" /\ xchg'.cmd = c /\ xchg'.line = 0 BY DEF Exchange, Goto
<1> QED BY <1>2, <1>3 DEF Asked, Calm, InTune, Serial

LEMMA ClearFinds == ASSUME TypeOK, ConnectInv, FindInv, Clear PROVE FindInv'
<1> SUFFICES ASSUME Findable' PROVE Promising' /\ (Missing' \/ Quieting') BY DEF FindInv
<1>1. /\ UNCHANGED <<type, was, baudrate, i, hostrate, sensor>> /\ pc = "clear"
      /\ mishaps' = 0 /\ Cleared
  BY DEF Clear, args, ConnectInv, ClearOK, Findable
<1>2. PICK l \in Incoming :
        /\ Reads(l)
        /\ IF Failed(l) THEN Exchange("QT") ELSE UNCHANGED <<pc, ret, xchg, outbox>>
  BY DEF Clear
<1>3. /\ mishaps = 0
      /\ \/ Failed(l) /\ inbox = <<>> /\ outbox = <<>> /\ inbox' = inbox
         \/ ~Failed(l) /\ inbox # <<>> /\ l = inbox[1] /\ inbox' = Tail(inbox)
  BY <1>1, <1>2, ReadsExactly
<1>4. Findable BY <1>1, <1>3, StillFindable
<1>5. Promising /\ (Missing \/ Quieting)
  BY <1>1, <1>4 DEF FindInv, Starting, Waking, Changing, Asking, Ended, Asked, Told, ToldAll,
                    Heading
<1>6. Promising' BY <1>1, <1>5, StillPromising
<1>7. CASE Missing
  <2>1. Missed BY <1>7 DEF Missing
  <2>2. Exchange("QT") /\ inbox' = <<>> BY <1>2, <1>3, <2>1 DEF Missed
  <2>3. Astray' BY <1>1, <2>1, <2>2, AstrayWrite DEF Missed, Exchange, Names
  <2>4. Missed' BY <1>1, <2>1, <2>2, <2>3 DEF Missed, Later, Rate, Serial
  <2> QED BY <1>6, <2>2, <2>4 DEF Missing, Exchange, Goto
<1>8. CASE Quieting
  <2>1. InTune(hostrate) BY <1>8 DEF Quieting
  <2>2. InTune(hostrate)' BY <1>1, <2>1 DEF InTune, Serial
  <2>3. CASE Failed(l)
    <3>1. Calm /\ inbox' = inbox BY <1>1, <1>3, <2>1, <2>3 DEF Calm, Cleared, Final
    <3>2. Asked("QT")' BY <1>1, <1>2, <2>3, <3>1, AsksNow DEF Names
    <3> QED BY <1>6, <2>2, <3>2 DEF Quieting
  <2>4. CASE ~Failed(l) BY <1>1, <1>2, <1>6, <2>2, <2>4 DEF Quieting
  <2> QED BY <2>3, <2>4
<1> QED BY <1>5, <1>7, <1>8

LEMMA DrainFinds == ASSUME TypeOK, FindInv, Drain PROVE FindInv'
<1> SUFFICES ASSUME Findable'
             PROVE  Promising' /\ (Missing' \/ Waking' \/ Changing' \/ Asking')
  BY DEF FindInv
<1>1. /\ UNCHANGED <<type, was, baudrate, i, xchg, after, hostrate, outbox, sensor>>
      /\ pc = "drain" /\ mishaps' = 0
  BY DEF Drain, args, Findable
<1>2. PICK l \in Incoming : Reads(l) /\ (Failed(l) => pc' = after) BY DEF Drain, Goto
<1>3. /\ mishaps = 0
      /\ \/ Failed(l) /\ inbox = <<>> /\ outbox = <<>> /\ inbox' = inbox
         \/ ~Failed(l) /\ inbox # <<>> /\ l = inbox[1] /\ inbox' = Tail(inbox)
  BY <1>1, <1>2, ReadsExactly
<1>4. Findable BY <1>1, <1>3, StillFindable
<1>5. /\ Promising
      /\ \/ Missing /\ after = "next"
         \/ Waking /\ Calm /\ after = "scip20" /\ InMode("scip11")
         \/ Changing /\ Calm /\ after = "change" /\ InMode("idle")
         \/ Asking /\ Calm /\ after = "connected" /\ InMode("idle")
  BY <1>1, <1>4 DEF FindInv, Starting, Missing, Quieting, Waking, Changing, Asking, Ended, Asked,
                    Told, ToldAll, Heading
<1>6. Promising' BY <1>1, <1>5, StillPromising
<1>7. inbox = <<>> BY <1>5 DEF Missing, Missed, Calm
<1>8. pc' = after /\ inbox' = inbox BY <1>2, <1>3, <1>7
<1>9. Calm => Calm' BY <1>1, <1>8 DEF Calm, InTune, Serial
<1>10. Missed => Missed' BY <1>1, <1>8 DEF Missed, Later, Rate, Astray, Serial
<1>11. InTune(hostrate) => InTune(hostrate)' BY <1>1 DEF InTune, Serial
<1> QED BY <1>1, <1>5, <1>6, <1>8, <1>9, <1>10, <1>11
        DEF Missing, Waking, Changing, Asking, Heading, InMode, Calm

\* A line of the answer is read: with no mishap it is the next one.
LEMMA ToldReads ==
  ASSUME TypeOK, ScipResponse, mishaps' = 0,
         NEW c \in Names, NEW s \in Texts, Told(c, s), s \in Expected(c)
  PROVE  Told(c, s)'
<1>1. /\ xchg \in [cmd : Names, line : 0 .. 2, ok : BOOLEAN, reply : Texts, body : Texts]
      /\ pc = "xchg" /\ xchg.cmd = c /\ UNCHANGED <<outbox, sensor>> /\ outbox = <<>>
      /\ ~sensor.dirt
  BY DEF TypeOK, ScipResponse, Told
<1>2. PICK l \in Incoming :
         /\ Reads(l)
         /\ IF Rejection(l) # "NO_ERROR"
            THEN pc' = "xchg_done" /\ ret' = Rejection(l) /\ UNCHANGED xchg
            ELSE IF Empty(l)
            THEN /\ pc' = "xchg_done" /\ UNCHANGED xchg
                 /\ ret' = IF xchg.ok THEN "POSITIVE" ELSE "UNKNOWN_ERROR"
            ELSE /\ UNCHANGED <<pc, ret>>
                 /\ xchg' = CASE xchg.line = 0 -> [xchg EXCEPT !.line = 1]
                              [] xchg.line = 1 -> [xchg EXCEPT !.line = 2, !.reply = l.val,
                                                               !.ok = l.val \in Expected(xchg.cmd)]
                              [] xchg.line = 2 -> [xchg EXCEPT !.body = l.val]
  BY DEF ScipResponse
<1>3. \/ Failed(l) /\ inbox = <<>> /\ inbox' = inbox
      \/ ~Failed(l) /\ l = inbox[1] /\ inbox' = Tail(inbox)
  BY <1>2, ReadsExactly
<1>4. CASE xchg.line = 0 /\ inbox = <<Line("echo", c), Status(s), Blank>>
  <2>1. inbox # <<>> /\ inbox[1] = Line("echo", c) BY <1>4
  <2>2. l = Line("echo", c) /\ inbox' = <<Status(s), Blank>> BY <1>3, <1>4, <2>1, PpTails
  <2>3. Rejection(l) = "NO_ERROR" /\ ~Empty(l)
    BY <1>1, <1>4, <2>2 DEF Rejection, Failed, Empty, Line
  <2>4. xchg' = [xchg EXCEPT !.line = 1] /\ pc' = "xchg" BY <1>1, <1>2, <1>4, <2>3
  <2>5. xchg'.line = 1 /\ xchg'.cmd = c BY <1>1, <2>4
  <2> QED BY <1>1, <2>2, <2>4, <2>5 DEF Told
<1>5. CASE xchg.line = 1 /\ inbox = <<Status(s), Blank>>
  <2>1. inbox # <<>> /\ inbox[1] = Status(s) BY <1>5
  <2>2. l = Status(s) /\ inbox' = <<Blank>> BY <1>3, <1>5, <2>1, PpTails
  <2>3. Rejection(l) = "NO_ERROR" /\ ~Empty(l) /\ l.val = s
    BY <1>1, <1>5, <2>2 DEF Rejection, Failed, Empty, Good, Line, Status
  <2> DEFINE ok == l.val \in Expected(xchg.cmd)
  <2>4. xchg' = [xchg EXCEPT !.line = 2, !.reply = l.val, !.ok = ok] /\ pc' = "xchg"
    BY <1>1, <1>2, <1>5, <2>3
  <2>5. ok BY <1>1, <2>3
  <2> HIDE DEF ok
  <2>6. xchg'.line = 2 /\ xchg'.cmd = c /\ xchg'.reply = s /\ xchg'.ok
    BY <1>1, <2>3, <2>4, <2>5
  <2> QED BY <1>1, <2>2, <2>4, <2>6 DEF Told
<1>6. CASE xchg.line = 2 /\ inbox = <<Blank>> /\ xchg.ok /\ xchg.reply = s
  <2>1. inbox # <<>> /\ inbox[1] = Blank BY <1>6
  <2>2. l = Blank /\ inbox' = <<>> BY <1>3, <1>6, <2>1, PpTails
  <2>3. Rejection(l) = "NO_ERROR" /\ Empty(l)
    BY <1>1, <1>6, <2>2 DEF Rejection, Failed, Empty, Good, Line, Blank
  <2>4. pc' = "xchg_done" /\ UNCHANGED xchg /\ ret' = "POSITIVE" BY <1>2, <1>6, <2>3
  <2> QED BY <1>1, <1>6, <2>2, <2>4 DEF Told
<1> QED BY <1>1, <1>4, <1>5, <1>6 DEF Told

LEMMA ToldAllReads ==
  ASSUME TypeOK, ScipResponse, mishaps' = 0, ToldAll, sensor.pp = "all"
  PROVE  ToldAll'
<1>1. /\ xchg \in [cmd : Names, line : 0 .. 2, ok : BOOLEAN, reply : Texts, body : Texts]
      /\ pc = "xchg" /\ xchg.cmd = "PP" /\ UNCHANGED <<outbox, sensor>> /\ outbox = <<>>
      /\ ~sensor.dirt
  BY DEF TypeOK, ScipResponse, ToldAll
<1>2. PICK l \in Incoming :
         /\ Reads(l)
         /\ IF Rejection(l) # "NO_ERROR"
            THEN pc' = "xchg_done" /\ ret' = Rejection(l) /\ UNCHANGED xchg
            ELSE IF Empty(l)
            THEN /\ pc' = "xchg_done" /\ UNCHANGED xchg
                 /\ ret' = IF xchg.ok THEN "POSITIVE" ELSE "UNKNOWN_ERROR"
            ELSE /\ UNCHANGED <<pc, ret>>
                 /\ xchg' = CASE xchg.line = 0 -> [xchg EXCEPT !.line = 1]
                              [] xchg.line = 1 -> [xchg EXCEPT !.line = 2, !.reply = l.val,
                                                               !.ok = l.val \in Expected(xchg.cmd)]
                              [] xchg.line = 2 -> [xchg EXCEPT !.body = l.val]
  BY DEF ScipResponse
<1>3. \/ Failed(l) /\ inbox = <<>> /\ inbox' = inbox
      \/ ~Failed(l) /\ l = inbox[1] /\ inbox' = Tail(inbox)
  BY <1>2, ReadsExactly
<1>4. Body' = Body /\ Body.val = "all" /\ Body.kind = "body" BY <1>1 DEF Body, Line
<1>5. CASE xchg.line = 0 /\ inbox = PpAnswer
  <2>1. inbox = <<Line("echo", "PP"), Status("00"), Body, Blank>>
    BY <1>5 DEF PpAnswer, Status, Body
  <2>2. inbox # <<>> /\ inbox[1] = Line("echo", "PP") BY <2>1
  <2>3. l = Line("echo", "PP") /\ inbox' = <<Status("00"), Body, Blank>>
    BY <1>3, <2>1, <2>2, PpTails
  <2>4. Rejection(l) = "NO_ERROR" /\ ~Empty(l)
    BY <1>1, <1>5, <2>3 DEF Rejection, Failed, Empty, Line
  <2>5. xchg' = [xchg EXCEPT !.line = 1] /\ pc' = "xchg" BY <1>1, <1>2, <1>5, <2>4
  <2>6. xchg'.line = 1 /\ xchg'.cmd = "PP" BY <1>1, <2>5
  <2> QED BY <1>1, <1>4, <2>3, <2>5, <2>6 DEF ToldAll
<1>6. CASE xchg.line = 1 /\ inbox = <<Status("00"), Body, Blank>>
  <2>1. inbox # <<>> /\ inbox[1] = Status("00") BY <1>6
  <2>2. l = Status("00") /\ inbox' = <<Body, Blank>> BY <1>3, <1>6, <2>1, PpTails
  <2>3. Rejection(l) = "NO_ERROR" /\ ~Empty(l) /\ l.val = "00"
    BY <1>1, <1>6, <2>2 DEF Rejection, Failed, Empty, Good, Line, Status
  <2> DEFINE ok == l.val \in Expected(xchg.cmd)
  <2>4. xchg' = [xchg EXCEPT !.line = 2, !.reply = l.val, !.ok = ok] /\ pc' = "xchg"
    BY <1>1, <1>2, <1>6, <2>3
  <2>5. ok BY <2>3 DEF Expected
  <2> HIDE DEF ok
  <2>6. xchg'.line = 2 /\ xchg'.cmd = "PP" /\ xchg'.ok BY <1>1, <2>3, <2>4, <2>5
  <2> QED BY <1>1, <1>4, <2>2, <2>4, <2>6 DEF ToldAll
<1>7. CASE xchg.line = 2 /\ xchg.ok /\ inbox = <<Body, Blank>>
  <2>1. inbox # <<>> /\ inbox[1] = Body BY <1>7
  <2>2. l = Body /\ inbox' = <<Blank>> BY <1>3, <1>7, <2>1, PpTails
  <2>3. Rejection(l) = "NO_ERROR" /\ ~Empty(l)
    BY <1>1, <1>4, <1>7, <2>2 DEF Rejection, Failed, Empty, Good
  <2>4. xchg' = [xchg EXCEPT !.body = l.val] /\ pc' = "xchg" BY <1>1, <1>2, <1>7, <2>3
  <2>5. xchg'.line = 2 /\ xchg'.cmd = "PP" /\ xchg'.ok /\ xchg'.body = "all"
    BY <1>1, <1>4, <1>7, <2>2, <2>4
  <2> QED BY <1>1, <2>2, <2>4, <2>5 DEF ToldAll
<1>8. CASE xchg.line = 2 /\ xchg.ok /\ xchg.body = "all" /\ inbox = <<Blank>>
  <2>1. inbox # <<>> /\ inbox[1] = Blank BY <1>8
  <2>2. l = Blank BY <1>3, <2>1
  <2>3. Rejection(l) = "NO_ERROR" /\ Empty(l)
    BY <1>1, <1>8, <2>2 DEF Rejection, Failed, Empty, Good, Line, Blank
  <2>4. pc' = "xchg_done" /\ UNCHANGED xchg /\ ret' = "POSITIVE" BY <1>2, <1>8, <2>3
  <2> QED BY <1>1, <1>8, <2>4 DEF ToldAll
<1> QED BY <1>1, <1>5, <1>6, <1>7, <1>8 DEF ToldAll

LEMMA ResponseFinds == ASSUME TypeOK, FindInv, ScipResponse PROVE FindInv'
<1> SUFFICES ASSUME Findable'
             PROVE  Promising' /\ (Missing' \/ Quieting' \/ Waking' \/ Changing' \/ Asking')
  BY DEF FindInv
<1>1. /\ UNCHANGED <<type, was, baudrate, i, after, hostrate, outbox, sensor>>
      /\ pc = "xchg" /\ mishaps' = 0
  BY DEF ScipResponse, args, Findable
<1>2. PICK l \in Incoming :
        /\ Reads(l)
        /\ Rejection(l) # "NO_ERROR" =>
             pc' = "xchg_done" /\ ret' = Rejection(l) /\ UNCHANGED xchg
  BY DEF ScipResponse
<1>3. /\ mishaps = 0
      /\ \/ Failed(l) /\ inbox = <<>> /\ outbox = <<>> /\ inbox' = inbox
         \/ ~Failed(l) /\ inbox # <<>> /\ l = inbox[1] /\ inbox' = Tail(inbox)
  BY <1>1, <1>2, ReadsExactly
<1>4. Findable BY <1>1, <1>3, StillFindable
<1>5. Promising BY <1>4 DEF FindInv
<1>6. Promising' BY <1>1, <1>5, StillPromising
<1>7. \A c : ~Asked(c)
  <2> SUFFICES ASSUME NEW c, Asked(c) PROVE FALSE OBVIOUS
  <2> QED BY <1>3 DEF Asked
<1>8. InTune(hostrate) => InTune(hostrate)' BY <1>1 DEF InTune, Serial
<1>9. \A m : InMode(m) => InMode(m)' BY <1>1 DEF InMode
<1>10. CASE Missing
  <2>1. Missed /\ xchg.cmd = "QT" BY <1>1, <1>10 DEF Missing, Heading
  <2>2. Failed(l) /\ inbox' = inbox BY <1>3, <2>1 DEF Missed
  <2>3. Rejection(l) = "NO_RESPONSE" BY <2>2 DEF Rejection
  <2>4. pc' = "xchg_done" /\ ret' = "NO_RESPONSE" /\ UNCHANGED xchg BY <1>2, <2>3
  <2>5. Missed' BY <1>1, <2>1, <2>2 DEF Missed, Later, Rate, Astray, Serial
  <2> QED BY <1>6, <2>1, <2>4, <2>5 DEF Missing
<1>11. CASE Quieting
  <2>1. /\ InTune(hostrate)
        /\ \/ Told("QT", "00") /\ InMode("idle")
           \/ Told("QT", "E")  /\ InMode("scip11")
           \/ Told("QT", "0E") /\ InMode("adjust")
    BY <1>1, <1>7, <1>11 DEF Quieting
  <2>2. \A s \in {"00", "E", "0E"} : Told("QT", s) => Told("QT", s)'
    BY <1>1, ToldReads DEF Names, Texts, Expected
  <2> QED BY <1>6, <1>8, <1>9, <2>1, <2>2 DEF Quieting
<1>12. CASE Waking
  <2>1. /\ InTune(hostrate)
        /\ \/ Told("SCIP2.0", "0") /\ InMode("idle")
           \/ Told("TM2", "00") /\ InMode("idle")
    BY <1>1, <1>7, <1>12 DEF Waking, Heading
  <2>2. /\ Told("SCIP2.0", "0") => Told("SCIP2.0", "0")'
        /\ Told("TM2", "00") => Told("TM2", "00")'
    BY <1>1, ToldReads DEF Names, Texts, Expected
  <2> QED BY <1>6, <1>8, <1>9, <2>1, <2>2 DEF Waking
<1>13. CASE Changing
  <2>1. InMode("idle") /\ Serial /\ sensor.rate = baudrate /\ (Told("SS", "00") \/ Told("SS", "03"))
    BY <1>1, <1>7, <1>13 DEF Changing, Heading
  <2>2. \A s \in {"00", "03"} : Told("SS", s) => Told("SS", s)'
    BY <1>1, ToldReads DEF Names, Texts, Expected
  <2> QED BY <1>1, <1>6, <1>9, <2>1, <2>2 DEF Changing, Serial
<1>14. CASE Asking
  <2>1. InMode("idle") /\ ToldAll BY <1>1, <1>7, <1>14 DEF Asking, Heading
  <2>2. ToldAll' BY <1>1, <1>5, <2>1, ToldAllReads DEF Promising
  <2> QED BY <1>6, <1>9, <2>1, <2>2 DEF Asking
<1> QED BY <1>1, <1>4, <1>10, <1>11, <1>12, <1>13, <1>14 DEF FindInv, Starting, Ended

\* Once the answer has been read the line is calm again.
LEMMA ToldCalms ==
  ASSUME NEW c, NEW s, Told(c, s), pc = "xchg_done", InTune(hostrate)
  PROVE  Calm /\ ret = "POSITIVE" /\ xchg.reply = s
BY DEF Told, Calm

LEMMA CalmStays ==
  ASSUME Calm, UNCHANGED <<type, inbox, outbox, hostrate, sensor>> PROVE Calm'
BY DEF Calm, InTune, Serial

LEMMA QtDoneFinds == ASSUME TypeOK, FindInv, QtDone PROVE FindInv'
<1> SUFFICES ASSUME Findable'
             PROVE  Promising' /\ (Missing' \/ Waking' \/ Changing')
  BY DEF FindInv
<1>1. /\ UNCHANGED <<type, was, baudrate, i, hostrate, inbox, sensor, mishaps>>
      /\ pc = "xchg_done" /\ xchg.cmd = "QT"
  BY DEF QtDone, Answered, args
<1>2. Findable BY <1>1, StillFindable
<1>3. /\ Promising
      /\ \/ Missing /\ ret = "NO_RESPONSE"
         \/ /\ Quieting /\ InTune(hostrate)
            /\ \/ Told("QT", "00") /\ InMode("idle")
               \/ Told("QT", "E")  /\ InMode("scip11")
               \/ Told("QT", "0E") /\ InMode("adjust")
  BY <1>1, <1>2 DEF FindInv, Starting, Missing, Quieting, Waking, Changing, Asking, Ended, Asked,
                    Told, ToldAll, Heading
<1>4. Promising' BY <1>1, <1>3, StillPromising
<1>5. InTune(hostrate) => InTune(hostrate)' BY <1>1 DEF InTune, Serial
<1>6. \A m : InMode(m) => InMode(m)' BY <1>1 DEF InMode
<1>7. CASE Missing /\ ret = "NO_RESPONSE"
  <2>1. Missed BY <1>7 DEF Missing
  <2>2. IgnoreReceiveDataWithQt("next") BY <1>7 DEF QtDone
  <2>3. /\ Writes("QT") \/ UNCHANGED outbox
        /\ pc' = "next" \/ (pc' = "drain" /\ after' = "next")
    BY <2>2 DEF IgnoreReceiveDataWithQt, IgnoreReceiveData, Goto
  <2>4. Astray' BY <1>1, <2>1, <2>3, AstrayWrite DEF Missed, Names, Astray
  <2>5. Missed' BY <1>1, <2>1, <2>4 DEF Missed, Later, Rate, Serial
  <2> QED BY <1>4, <2>3, <2>5 DEF Missing, Heading
<1>8. CASE Told("QT", "00") /\ InMode("idle") /\ InTune(hostrate)
  <2>1. Calm /\ ret = "POSITIVE" /\ xchg.reply = "00" BY <1>1, <1>8, ToldCalms
  <2>2. pc' = "change" /\ UNCHANGED outbox BY <2>1 DEF QtDone, Goto
  <2>3. Calm' BY <1>1, <2>1, <2>2, CalmStays
  <2> QED BY <1>4, <1>6, <1>8, <2>2, <2>3 DEF Changing, Heading
<1>9. CASE Told("QT", "E") /\ InMode("scip11") /\ InTune(hostrate)
  <2>1. Calm /\ ret = "POSITIVE" /\ xchg.reply = "E" BY <1>1, <1>9, ToldCalms
  <2>2. Heading("scip20")' /\ UNCHANGED outbox
    BY <2>1 DEF QtDone, IgnoreReceiveData, Goto, Heading
  <2>3. Calm' BY <1>1, <2>1, <2>2, CalmStays
  <2> QED BY <1>4, <1>5, <1>6, <1>9, <2>2, <2>3 DEF Waking
<1>10. CASE Told("QT", "0E") /\ InMode("adjust") /\ InTune(hostrate)
  <2>1. Calm /\ ret = "POSITIVE" /\ xchg.reply = "0E" BY <1>1, <1>10, ToldCalms
  <2>2. Exchange("TM2") BY <2>1 DEF QtDone
  <2>3. Asked("TM2")' BY <1>1, <2>1, <2>2, AsksNow DEF Names
  <2> QED BY <1>4, <1>5, <1>6, <1>10, <2>3 DEF Waking
<1> QED BY <1>3, <1>7, <1>8, <1>9, <1>10

LEMMA Scip20Finds == ASSUME TypeOK, FindInv, Scip20 PROVE FindInv'
<1> SUFFICES ASSUME Findable' PROVE Promising' /\ Waking' BY DEF FindInv
<1>1. /\ UNCHANGED <<type, was, baudrate, i, hostrate, inbox, sensor, mishaps>>
      /\ pc = "scip20" /\ Exchange("SCIP2.0")
  BY DEF Scip20, args
<1>2. Findable BY <1>1, StillFindable
<1>3. Promising /\ Calm /\ InTune(hostrate) /\ InMode("scip11")
  BY <1>1, <1>2 DEF FindInv, Starting, Missing, Quieting, Waking, Changing, Asking, Ended, Asked,
                    Told, ToldAll, Heading
<1>4. Promising' BY <1>1, <1>3, StillPromising
<1>5. Asked("SCIP2.0")' BY <1>1, <1>3, AsksNow DEF Names
<1> QED BY <1>1, <1>3, <1>4, <1>5 DEF Waking, InTune, Serial, InMode

LEMMA WokenFinds == ASSUME TypeOK, FindInv, Scip20Done \/ Tm2Done PROVE FindInv'
<1> SUFFICES ASSUME Findable' PROVE Promising' /\ Changing' BY DEF FindInv
<1>1. /\ UNCHANGED <<type, was, baudrate, i, hostrate, outbox, inbox, sensor, mishaps>>
      /\ pc = "xchg_done" /\ xchg.cmd \in {"SCIP2.0", "TM2"} /\ Heading("change")'
  BY DEF Scip20Done, Tm2Done, Answered, args, IgnoreReceiveData, Goto, Heading
<1>2. Findable BY <1>1, StillFindable
<1>3. /\ Promising /\ InTune(hostrate) /\ InMode("idle")
      /\ Told("SCIP2.0", "0") \/ Told("TM2", "00")
  BY <1>1, <1>2 DEF FindInv, Starting, Missing, Quieting, Waking, Changing, Asking, Ended, Asked,
                    Told, ToldAll, Heading
<1>4. Promising' BY <1>1, <1>3, StillPromising
<1>5. Calm BY <1>1, <1>3, ToldCalms
<1>6. Calm' BY <1>1, <1>5, CalmStays
<1> QED BY <1>1, <1>3, <1>4, <1>6 DEF Changing, InMode

LEMMA NextRoundFinds == ASSUME TypeOK, FindInv, NextRound PROVE FindInv'
<1> SUFFICES ASSUME Findable' PROVE Promising' /\ Starting' BY DEF FindInv
<1>1. /\ UNCHANGED <<type, was, baudrate, hostrate, outbox, inbox, sensor, mishaps>>
      /\ pc = "next"
  BY DEF NextRound, args
<1>2. Findable BY <1>1, StillFindable
<1>3. Promising /\ Missed
  BY <1>1, <1>2 DEF FindInv, Starting, Missing, Quieting, Waking, Changing, Asking, Ended, Asked,
                    Told, ToldAll, Heading
<1>4. i \in Nat /\ i >= 1 /\ try_times = 6 BY DEF TypeOK, try_times, try_baudrate
<1>5. i < try_times BY <1>3, <1>4 DEF Missed, Later
<1>6. i' = i + 1 /\ pc' = "try" BY <1>5 DEF NextRound, Goto
<1>7. Serial /\ Serial' BY <1>1, <1>3 DEF Missed, Serial
<1>8. Later(i)' BY <1>1, <1>3, <1>6 DEF Missed, Later, Rate
<1>9. Promising' BY <1>1, <1>3, <1>7 DEF Promising
<1> QED BY <1>1, <1>3, <1>6, <1>7, <1>8, <1>9 DEF Starting, Missed, Astray

LEMMA ChangeFinds == ASSUME TypeOK, FindInv, ChangeSensorBaudrate PROVE FindInv'
<1> SUFFICES ASSUME Findable' PROVE Promising' /\ (Changing' \/ Asking') BY DEF FindInv
<1>1. /\ UNCHANGED <<type, was, baudrate, i, hostrate, inbox, sensor, mishaps>>
      /\ pc = "change"
  BY DEF ChangeSensorBaudrate, args
<1>2. Findable BY <1>1, StillFindable
<1>3. Promising /\ Calm /\ InMode("idle")
  BY <1>1, <1>2 DEF FindInv, Starting, Missing, Quieting, Waking, Changing, Asking, Ended, Asked,
                    Told, ToldAll, Heading
<1>4. Promising' BY <1>1, <1>3, StillPromising
<1>5. InMode("idle")' BY <1>1, <1>3 DEF InMode
<1>6. CASE Rate(i) = baudrate
  <2>1. pc' = "connected" /\ UNCHANGED outbox BY <1>6 DEF ChangeSensorBaudrate, Goto
  <2>2. Calm' BY <1>1, <1>3, <2>1, CalmStays
  <2> QED BY <1>4, <1>5, <2>1, <2>2 DEF Asking, Heading
<1>7. CASE Rate(i) # baudrate
  <2>1. Serial BY <1>1, <1>3, <1>7, RateFirst DEF Promising
  <2>2. Asked("SS")' BY <1>1, <1>3, <1>7, AsksNow DEF ChangeSensorBaudrate, Names
  <2> QED BY <1>1, <1>4, <1>5, <2>1, <2>2 DEF Changing, Serial
<1> QED BY <1>6, <1>7

LEMMA SsDoneFinds == ASSUME TypeOK, FindInv, SsDone PROVE FindInv'
<1> SUFFICES ASSUME Findable' PROVE Promising' /\ Asking' BY DEF FindInv
<1>1. /\ UNCHANGED <<type, was, baudrate, i, outbox, sensor, mishaps>>
      /\ pc = "xchg_done" /\ xchg.cmd = "SS"
  BY DEF SsDone, Answered, args
<1>2. Findable BY <1>1, StillFindable
<1>3. /\ Promising /\ Serial /\ InMode("idle") /\ sensor.rate = baudrate
      /\ Told("SS", "00") \/ Told("SS", "03")
  BY <1>1, <1>2 DEF FindInv, Starting, Missing, Quieting, Waking, Changing, Asking, Ended, Asked,
                    Told, ToldAll, Heading
<1>4. Promising' BY <1>1, <1>3, StillPromising
<1>5. ret = "POSITIVE" /\ outbox = <<>> /\ ~sensor.dirt BY <1>1, <1>3 DEF Told
<1>6. SetBaudrate(baudrate) /\ Heading("connected")'
  BY <1>5 DEF SsDone, IgnoreReceiveData, Goto, Heading
<1>7. baudrate \in Known BY <1>2, <1>3 DEF Findable
<1>8. hostrate' = baudrate /\ inbox' = <<>> BY <1>3, <1>6, <1>7 DEF SetBaudrate
<1>9. Calm' BY <1>1, <1>3, <1>5, <1>8 DEF Calm, InTune
<1> QED BY <1>1, <1>3, <1>4, <1>6, <1>9 DEF Asking, InMode

LEMMA ConnectedFinds == ASSUME TypeOK, FindInv, Connected PROVE FindInv'
<1> SUFFICES ASSUME Findable' PROVE Promising' /\ Asking' BY DEF FindInv
<1>1. /\ UNCHANGED <<type, was, baudrate, i, hostrate, inbox, sensor, mishaps>>
      /\ pc = "connected" /\ Exchange("PP")
  BY DEF Connected, args
<1>2. Findable BY <1>1, StillFindable
<1>3. Promising /\ Calm /\ InMode("idle")
  BY <1>1, <1>2 DEF FindInv, Starting, Missing, Quieting, Waking, Changing, Asking, Ended, Asked,
                    Told, ToldAll, Heading
<1>4. Promising' BY <1>1, <1>3, StillPromising
<1>5. Asked("PP")' BY <1>1, <1>3, AsksNow DEF Names
<1> QED BY <1>1, <1>3, <1>4, <1>5 DEF Asking, InMode

LEMMA PpDoneFinds == ASSUME TypeOK, FindInv, PpDone PROVE FindInv'
<1> SUFFICES ASSUME Findable' PROVE Promising' /\ Ended' BY DEF FindInv
<1>1. /\ UNCHANGED <<type, was, baudrate, i, hostrate, inbox, sensor, mishaps>>
      /\ pc = "xchg_done" /\ xchg.cmd = "PP"
  BY DEF PpDone, Answered, args
<1>2. Findable BY <1>1, StillFindable
<1>3. Promising /\ ret = "POSITIVE" /\ xchg.body = "all" /\ outbox = <<>>
  BY <1>1, <1>2 DEF FindInv, Starting, Missing, Quieting, Waking, Changing, Asking, Ended, Asked,
                    Told, ToldAll, Heading
<1>4. Promising' BY <1>1, <1>3, StillPromising
<1>5. pc' = "done" /\ ret' = "NO_ERROR" /\ outbox' = outbox BY <1>3 DEF PpDone, Ends
<1> QED BY <1>3, <1>4, <1>5 DEF Ended

\* A sensor that can be found makes no scans.
LEMMA ScansFinds == ASSUME FindInv, SensorScans PROVE FindInv'
<1> SUFFICES ASSUME Findable' PROVE FALSE BY DEF FindInv
<1>1. UNCHANGED <<type, was, baudrate, mishaps>> /\ sensor.mode = "measure"
  BY DEF SensorScans, args
<1>2. Findable BY <1>1, StillFindable
<1> QED BY <1>1, <1>2 DEF FindInv, Promising

\* The sensor makes out the command, and its answer is all that is on the line.
LEMMA AskedObeys ==
  ASSUME NEW c, Asked(c), SensorAnswers
  PROVE  Obey(c) /\ outbox' = <<>>
<1> DEFINE e == [name |-> c, rate |-> hostrate]
<1>1. outbox = <<e>> /\ InTune(e.rate) /\ e.name = c BY DEF Asked
<1>2. Head(outbox) = e /\ Tail(outbox) = <<>>
  <2> HIDE DEF e
  <2> QED BY <1>1
<1> QED BY <1>1, <1>2 DEF SensorAnswers

LEMMA HearsAll ==
  ASSUME NEW c, Asked(c), NEW lines \in Seq(Lines), Sends(lines) PROVE inbox' = lines
<1>1. inbox' = <<>> \o lines BY DEF Asked, Sends
<1>2. <<>> \o lines = lines BY ConcatEmptySeq
<1> QED BY <1>1, <1>2

LEMMA HearsAnswer ==
  ASSUME NEW c \in Names, NEW s \in Texts, Asked(c), Sends(Answer(c, s)), outbox' = <<>>,
         ~sensor'.dirt, UNCHANGED <<pc, xchg>>
  PROVE  Told(c, s)'
<1>1. inbox' = Answer(c, s) BY AnswerLines, HearsAll
<1>2. inbox' = <<Line("echo", c), Status(s), Blank>> BY <1>1 DEF Answer, Status
<1> QED BY <1>2 DEF Asked, Told

\* What the answers leave alone.
LEMMA AnswersLeave ==
  ASSUME TypeOK, SensorAnswers
  PROVE  /\ UNCHANGED <<type, was, baudrate, i, pc, ret, xchg, after, hostrate>>
         /\ sensor'.pp = sensor.pp
         /\ sensor.mode # "measure" => sensor'.mode # "measure"
         /\ mishaps' = 0 => mishaps = 0
<1>1. sensor \in [rate : SensorRates, mode : Modes \cup {"idle"}, gaps : Gaps,
                pp : PpBodies, dirt : BOOLEAN]
  BY DEF TypeOK
<1>2. outbox[1].name \in Names /\ mishaps \in Nat
  BY AnswersFirst, BoundAssumption DEF Commands, TypeOK
<1>3. CASE InTune(outbox[1].rate)
  <2>1. Obey(outbox[1].name) /\ UNCHANGED mishaps BY <1>3, AnswersHead
  <2>2. \/ UNCHANGED sensor \/ sensor' = [sensor EXCEPT !.mode = "idle"]
        \/ sensor' = [sensor EXCEPT !.dirt = FALSE]
        \/ sensor' = [sensor EXCEPT !.rate = baudrate]
    BY <1>2, <2>1, ObeyCases DEF Becomes
  <2>3. sensor'.pp = sensor.pp BY <1>1, <2>2
  <2> QED BY <2>1, <2>3, AnswersKeep DEF SensorAnswers, args, flags
<1>4. CASE ~InTune(outbox[1].rate)
  <2>1. Garbage BY <1>4, AnswersHead
  <2>2. sensor'.pp = sensor.pp BY <1>1, <2>1 DEF Garbage
  <2>3. mishaps' = 0 => mishaps = 0 BY <1>2, <2>1 DEF Garbage
  <2> QED BY <2>2, <2>3, AnswersKeep DEF SensorAnswers, args, flags
<1> QED BY <1>3, <1>4

\* Garbage without a mishap leaves the sensor silent.
LEMMA GarbageOnly ==
  ASSUME TypeOK, SensorAnswers, Serial, Astray, mishaps' = 0
  PROVE  /\ Astray' /\ sensor'.rate = sensor.rate
         /\ inbox' = inbox
<1>1. sensor \in [rate : SensorRates, mode : Modes \cup {"idle"}, gaps : Gaps,
                pp : PpBodies, dirt : BOOLEAN]
      /\ outbox \in Seq(Commands) /\ mishaps \in Nat
  BY BoundAssumption DEF TypeOK, Commands
<1>2. /\ Len(outbox) \in Nat /\ Len(outbox) > 0 /\ Len(outbox') = Len(outbox) - 1
      /\ outbox' \in Seq(Commands)
      /\ \A k \in 1 .. Len(outbox) - 1 : outbox'[k] = outbox[k + 1]
  <2>1. outbox' \in Seq(Commands) BY <1>1, HeadTailProperties DEF SensorAnswers
  <2> QED BY <2>1, AnswersFirst
<1>3. DOMAIN outbox = 1 .. Len(outbox) /\ DOMAIN outbox' = 1 .. Len(outbox')
  BY <1>1, <1>2, LenProperties
<1>4. outbox[1].rate # sensor.rate BY <1>2, <1>3 DEF Astray
<1>5. Garbage BY <1>4, AnswersHead DEF InTune
<1>6. sensor' = [sensor EXCEPT !.dirt = TRUE] /\ UNCHANGED inbox BY <1>1, <1>5 DEF Garbage
<1>7. sensor'.rate = sensor.rate BY <1>1, <1>6
<1>8. Astray' BY <1>2, <1>3, <1>7 DEF Astray
<1> QED BY <1>6, <1>7, <1>8

\* The answer to each command of the search, in the mode the sensor is in.
LEMMA QtAnswered ==
  ASSUME TypeOK, Asked("QT"), SensorAnswers, sensor.mode # "measure"
  PROVE  \/ Told("QT", "00")' /\ InMode("idle")'
         \/ Told("QT", "E")'  /\ InMode("scip11")'
         \/ Told("QT", "0E")' /\ InMode("adjust")'
<1>1. sensor \in [rate : SensorRates, mode : Modes \cup {"idle"}, gaps : Gaps,
                pp : PpBodies, dirt : BOOLEAN]
      /\ sensor.mode \in {"scip11", "adjust", "idle"} /\ ~sensor.dirt
  BY ChoiceAssumption DEF TypeOK, Asked
<1>2. Obey("QT") /\ outbox' = <<>> /\ UNCHANGED <<pc, xchg>>
  BY AskedObeys, AnswersLeave
<1>3. "QT" \in Names /\ {"00", "E", "0E"} \subseteq Texts BY DEF Names, Texts
<1>4. CASE sensor.mode = "scip11"
  <2>1. Sends(Answer("QT", "E")) /\ UNCHANGED sensor BY <1>1, <1>2, <1>4 DEF Obey
  <2>2. Told("QT", "E")' BY <1>1, <1>2, <1>3, <2>1, HearsAnswer
  <2> QED BY <1>4, <2>1, <2>2 DEF InMode
<1>5. CASE sensor.mode = "adjust"
  <2>1. Sends(Answer("QT", "0E")) /\ UNCHANGED sensor BY <1>1, <1>2, <1>5 DEF Obey
  <2>2. Told("QT", "0E")' BY <1>1, <1>2, <1>3, <2>1, HearsAnswer
  <2> QED BY <1>5, <2>1, <2>2 DEF InMode
<1>6. CASE sensor.mode = "idle"
  <2>1. Sends(Answer("QT", "00")) /\ Becomes("idle") BY <1>1, <1>2, <1>6 DEF Obey, Execute
  <2>2. sensor'.mode = "idle" /\ ~sensor'.dirt BY <1>1, <2>1 DEF Becomes
  <2>3. Told("QT", "00")' BY <1>2, <1>3, <2>1, <2>2, HearsAnswer
  <2> QED BY <2>2, <2>3 DEF InMode
<1> QED BY <1>1, <1>4, <1>5, <1>6

LEMMA WakeAnswered ==
  ASSUME TypeOK, SensorAnswers
  PROVE  /\ Asked("SCIP2.0") /\ InMode("scip11") => Told("SCIP2.0", "0")' /\ InMode("idle")'
         /\ Asked("TM2") /\ InMode("adjust") => Told("TM2", "00")' /\ InMode("idle")'
<1>1. sensor \in [rate : SensorRates, mode : Modes \cup {"idle"}, gaps : Gaps,
                pp : PpBodies, dirt : BOOLEAN]
  BY DEF TypeOK
<1>2. UNCHANGED <<pc, xchg>> BY AnswersLeave
<1>3. {"SCIP2.0", "TM2"} \subseteq Names /\ {"0", "00"} \subseteq Texts BY DEF Names, Texts
<1>4. ASSUME Asked("SCIP2.0"), InMode("scip11")
      PROVE  Told("SCIP2.0", "0")' /\ InMode("idle")'
  <2>1. Obey("SCIP2.0") /\ outbox' = <<>> /\ ~sensor.dirt BY <1>4, AskedObeys DEF Asked
  <2>2. Sends(Answer("SCIP2.0", "0")) /\ Becomes("idle") BY <1>4, <2>1 DEF Obey, InMode
  <2>3. sensor'.mode = "idle" /\ ~sensor'.dirt BY <1>1, <2>1, <2>2 DEF Becomes
  <2>4. Told("SCIP2.0", "0")' BY <1>2, <1>3, <1>4, <2>1, <2>2, <2>3, HearsAnswer
  <2> QED BY <2>3, <2>4 DEF InMode
<1>5. ASSUME Asked("TM2"), InMode("adjust")
      PROVE  Told("TM2", "00")' /\ InMode("idle")'
  <2>1. Obey("TM2") /\ outbox' = <<>> /\ ~sensor.dirt BY <1>5, AskedObeys DEF Asked
  <2>2. Sends(Answer("TM2", "00")) /\ Becomes("idle") BY <1>5, <2>1 DEF Obey, InMode
  <2>3. sensor'.mode = "idle" /\ ~sensor'.dirt BY <1>1, <2>1, <2>2 DEF Becomes
  <2>4. Told("TM2", "00")' BY <1>2, <1>3, <1>5, <2>1, <2>2, <2>3, HearsAnswer
  <2> QED BY <2>3, <2>4 DEF InMode
<1> QED BY <1>4, <1>5

LEMMA SsAnswered ==
  ASSUME TypeOK, Asked("SS"), SensorAnswers, InMode("idle"), baudrate \in SensorRates
  PROVE  /\ Told("SS", "00")' \/ Told("SS", "03")'
         /\ InMode("idle")' /\ sensor'.rate = baudrate
<1>1. sensor \in [rate : SensorRates, mode : Modes \cup {"idle"}, gaps : Gaps,
                pp : PpBodies, dirt : BOOLEAN]
  BY DEF TypeOK
<1>2. UNCHANGED <<pc, xchg>> BY AnswersLeave
<1>3. "SS" \in Names /\ {"00", "03"} \subseteq Texts BY DEF Names, Texts
<1>4. Obey("SS") /\ outbox' = <<>> /\ ~sensor.dirt BY AskedObeys DEF Asked
<1>5. Execute("SS") BY <1>4 DEF Obey, InMode
<1>6. PICK s \in {"00", "03"} : Sends(Answer("SS", s)) BY <1>5 DEF Execute
<1>7. sensor' = [sensor EXCEPT !.rate = baudrate] BY <1>5 DEF Execute
<1>8. sensor'.rate = baudrate /\ sensor'.mode = sensor.mode /\ sensor'.dirt = sensor.dirt
  BY <1>1, <1>7
<1>9. Told("SS", s)' BY <1>2, <1>3, <1>4, <1>6, <1>8, HearsAnswer
<1> QED BY <1>8, <1>9 DEF InMode

LEMMA PpAnswered ==
  ASSUME TypeOK, Asked("PP"), SensorAnswers, InMode("idle")
  PROVE  ToldAll' /\ InMode("idle")'
<1>1. Obey("PP") /\ outbox' = <<>> /\ ~sensor.dirt BY AskedObeys DEF Asked
<1>2. Sends(PpAnswer) /\ UNCHANGED sensor BY <1>1 DEF Obey, Execute, InMode, PpAnswer
<1>3. PpAnswer \in Seq(Lines) BY PpLines DEF TypeOK
<1>4. inbox' = PpAnswer BY <1>2, <1>3, HearsAll
<1>5. inbox' = PpAnswer' BY <1>2, <1>4 DEF PpAnswer
<1> QED BY <1>1, <1>2, <1>5, AnswersLeave DEF Asked, ToldAll, InMode

LEMMA AnswersFinds == ASSUME TypeOK, ConnectInv, FindInv, SensorAnswers PROVE FindInv'
<1> SUFFICES ASSUME Findable'
             PROVE  /\ Promising'
                    /\ Starting' \/ Missing' \/ Quieting' \/ Waking' \/ Changing' \/ Asking'
  BY DEF FindInv
<1>1. /\ UNCHANGED <<type, was, baudrate, i, pc, ret, xchg, after, hostrate>>
      /\ sensor'.pp = sensor.pp /\ mishaps' = 0 /\ mishaps = 0
      /\ sensor.mode # "measure" => sensor'.mode # "measure"
  BY AnswersLeave DEF Findable
<1>2. Findable BY <1>1, StillFindable
<1>3. /\ Promising
      /\ Starting \/ Missing \/ Quieting \/ Waking \/ Changing \/ Asking \/ Ended
  BY <1>2 DEF FindInv
<1>4. outbox # <<>> BY AnswersFirst
<1>5. ~Calm /\ (\A c, s : ~Told(c, s)) /\ ~ToldAll BY <1>4 DEF Calm, Told, ToldAll
<1>6. ASSUME sensor'.rate = sensor.rate PROVE Promising'
  BY <1>1, <1>3, <1>6 DEF Promising, Serial
<1>7. ASSUME sensor'.rate = sensor.rate, InTune(hostrate) PROVE InTune(hostrate)'
  BY <1>1, <1>7 DEF InTune, Serial
<1>8. ASSUME NEW c, Asked(c), c # "SS" PROVE sensor'.rate = sensor.rate
  <2>1. outbox[1].name = c BY <1>8 DEF Asked
  <2> QED BY <1>8, <2>1, AnswersKeep
<1>9. CASE Starting \/ Missing
  <2>1. Serial /\ Astray /\ inbox = <<>> BY <1>4, <1>9 DEF Starting, Missing, Missed
  <2>2. Astray' /\ sensor'.rate = sensor.rate /\ inbox' = <<>> BY <1>1, <2>1, GarbageOnly
  <2>3. \A k : Later(k) => Later(k)' BY <1>1, <2>2 DEF Later, Rate
  <2>4. Starting => Starting' BY <1>1, <1>4, <2>1, <2>2, <2>3 DEF Starting, Serial
  <2>5. Missing => Missing'
    BY <1>1, <2>1, <2>2, <2>3 DEF Missing, Missed, Heading, Serial
  <2> QED BY <1>6, <1>9, <2>2, <2>4, <2>5
<1>10. CASE Quieting
  <2>1. CASE pc = "clear"
    <3>1. Unsent("SS") BY <2>1, SearchFacts DEF Searching
    <3>2. sensor'.rate = sensor.rate BY <3>1, AnswersFirst, AnswersKeep
    <3> QED BY <1>1, <1>6, <1>7, <1>10, <2>1, <3>2 DEF Quieting
  <2>2. CASE Asked("QT")
    BY <1>3, <1>6, <1>7, <1>8, <1>10, <2>2, QtAnswered DEF Quieting, Promising
  <2> QED BY <1>5, <1>10, <2>1, <2>2 DEF Quieting
<1>11. CASE Waking
  <2>1. InTune(hostrate) BY <1>11 DEF Waking
  <2>2. \/ Asked("SCIP2.0") /\ InMode("scip11")
        \/ Asked("TM2") /\ InMode("adjust")
    BY <1>5, <1>11 DEF Waking
  <2>3. sensor'.rate = sensor.rate BY <1>8, <2>2
  <2>4. InTune(hostrate)' BY <1>7, <2>1, <2>3
  <2> QED BY <1>6, <2>2, <2>3, <2>4, WakeAnswered DEF Waking
<1>12. CASE Changing
  <2>1. Serial /\ Asked("SS") /\ InMode("idle") BY <1>5, <1>12 DEF Changing
  <2>2. baudrate \in Known \cap SensorRates BY <1>2, <2>1 DEF Findable
  <2>3. /\ Told("SS", "00")' \/ Told("SS", "03")'
        /\ InMode("idle")' /\ sensor'.rate = baudrate
    BY <2>1, <2>2, SsAnswered
  <2>4. Promising' BY <1>1, <1>3, <2>1, <2>2, <2>3 DEF Promising, Serial
  <2> QED BY <1>1, <2>1, <2>3, <2>4 DEF Changing, Serial
<1>13. CASE Asking
  <2>1. Asked("PP") /\ InMode("idle") BY <1>5, <1>13 DEF Asking
  <2> QED BY <1>6, <1>8, <2>1, PpAnswered DEF Asking
<1>14. ~Ended BY <1>4 DEF Ended
<1> QED BY <1>3, <1>9, <1>10, <1>11, <1>12, <1>13, <1>14

LEMMA FindInit == Init => FindInv
<1> SUFFICES ASSUME Init, Findable PROVE Promising /\ Starting BY DEF FindInv
<1>1. pc = "open" /\ i = 1 /\ inbox = <<>> /\ outbox = <<>> /\ sensor = was BY DEF Init
<1>2. TypeOK BY InitType
<1>3. ASSUME Serial PROVE Later(1)
  <2>1. sensor.rate \in Range(try_baudrate) BY <1>1, <1>3 DEF Findable
  <2> QED BY <1>2, <2>1, RateListed DEF Later
<1> QED BY <1>1, <1>3 DEF Promising, Starting, Findable

\* FindInv is inductive relative to TypeOK and ConnectInv.
LEMMA FindNext == TypeOK /\ ConnectInv /\ FindInv /\ [Next]_vars => FindInv'
<1> SUFFICES ASSUME TypeOK, ConnectInv, FindInv, [Next]_vars PROVE FindInv' OBVIOUS
<1>1. CASE Host
  BY <1>1, OpenFinds, TryFinds, ClearFinds, DrainFinds, ResponseFinds, QtDoneFinds, Scip20Finds,
     WokenFinds, NextRoundFinds, ChangeFinds, SsDoneFinds, ConnectedFinds, PpDoneFinds DEF Host
<1>2. CASE SensorAnswers BY <1>2, AnswersFinds
<1>3. CASE SensorScans BY <1>3, ScansFinds
<1>4. CASE UNCHANGED vars
  BY <1>4
     DEF vars, args, flags, FindInv, Findable, Promising, Starting, Missing, Quieting, Waking,
         Changing, Asking, Ended, Missed, Later, Astray, Calm, Asked, Told, ToldAll, Heading,
         InMode, PpAnswer, Body, Status, InTune, Serial, Rate
<1> QED BY <1>1, <1>2, <1>3, <1>4 DEF Next, Done

\* urg_open finds every sensor that is not measuring, at whatever rate of the list it is,
\* if the port knows that rate and the sensor the one asked for, over every connection
\* and whatever garbage it was sent at wrong rates.
THEOREM SensorIsFound == Spec => []FindsSensor
<1>1. FindInv => FindsSensor
  BY DEF FindInv, FindsSensor, Starting, Missing, Quieting, Waking, Changing, Asking, Ended,
         Asked, Told, ToldAll, Heading
<1>2. /\ Init => TypeOK /\ ConnectInv /\ FindInv
      /\ TypeOK /\ ConnectInv /\ FindInv /\ [Next]_vars => (TypeOK /\ ConnectInv /\ FindInv)'
  BY InitType, TypeNext, ConnectInit, ConnectNext, FindInit, FindNext
<1> QED BY <1>1, <1>2, PTL DEF Spec
=============================================================================
