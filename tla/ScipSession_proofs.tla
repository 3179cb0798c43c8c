-------------------------- MODULE ScipSession_proofs --------------------------
(***************************************************************************)
(* Theorems about ScipSession, for every value of its constants: the types *)
(* of its variables, and, when the application leaves urg_laser_on to the  *)
(* library, that the flags of urg_t never lose the laser and that a closed *)
(* session leaves it off.                                                  *)
(***************************************************************************)
EXTENDS ScipSession, SequenceTheorems, TLAPS

Cont == [pc : Labels, code : Codes]
WireLine == Line \ {Timeout}

(***************************************************************************)
(* What the reading and writing operators return.                          *)
(***************************************************************************)

\* A read takes the head of the line queue or times out; both keep the types
\* of the queue and of the count of late answers.
LEMMA ReadsType ==
  ASSUME inbox \in Seq(WireLine), late \in Nat, NEW l \in Incoming, Reads(l)
  PROVE  l \in Line /\ inbox' \in Seq(WireLine) /\ late' \in Nat
<1>1. CASE l = Timeout
  <2>1. l = [kind |-> "timeout", val |-> "", good |-> TRUE, gen |-> 0]
    BY <1>1 DEF Timeout, Plain
  <2>2. l \in Line
    BY <2>1 DEF Line, LineKinds, LineVals
  <2>3. Failed(l)
    BY <1>1 DEF Failed
  <2>4. inbox' = inbox /\ late' \in {late, late + 1}
    BY <2>3 DEF Reads
  <2> QED BY <2>2, <2>4
<1>2. CASE l # Timeout
  <2>1. l = inbox[1] /\ 1 \in DOMAIN inbox
    BY <1>2 DEF Incoming
  <2>2. l \in WireLine /\ inbox # <<>>
    BY <2>1
  <2>3. Tail(inbox) \in Seq(WireLine)
    BY <2>2
  <2> QED BY <2>2, <2>3 DEF Reads, WireLine
<1> QED BY <1>1, <1>2

\* Writing a command keeps the type of the command queue.
LEMMA SentType ==
  ASSUME outbox \in Seq(Command), NEW c \in CommandNames, NEW n \in Nat, NEW g \in Nat
  PROVE  Sent(c, n, g) \in Seq(Command)
<1>1. [name |-> c, times |-> n, gen |-> g] \in Command
  BY DEF Command
<1> QED BY <1>1 DEF Sent

\* ignore_receive_data_with_qt keeps the types of everything it touches.
LEMMA IgnoreType ==
  ASSUME TypeOK, NEW a \in Cont, IgnoreReceiveDataWithQt(a)
  PROVE  /\ is_active' \in BOOLEAN /\ is_sending' \in BOOLEAN /\ is_laser_on' \in BOOLEAN
         /\ pc' \in Labels /\ ret' \in Codes /\ last_errno' \in Codes
         /\ after' \in Cont /\ outbox' \in Seq(Command)
<1>1. "QT" \in CommandNames BY DEF CommandNames
<1>2. Sent("QT", 0, 0) \in Seq(Command)
  BY <1>1, SentType DEF TypeOK, WorldTypeOK
<1>3. "drain" \in Labels BY DEF Labels
<1>4. a.pc \in Labels /\ a.code \in Codes BY DEF Cont
<1>5. /\ is_active \in BOOLEAN /\ is_sending \in BOOLEAN /\ is_laser_on \in BOOLEAN
      /\ ret \in Codes /\ last_errno \in Codes /\ after \in Cont /\ outbox \in Seq(Command)
  BY DEF TypeOK, HostTypeOK, WorldTypeOK, Cont
<1>6. outbox' \in Seq(Command)
  BY <1>2, <1>5 DEF IgnoreReceiveDataWithQt, Writes
<1>7. is_active' \in BOOLEAN /\ is_sending' \in BOOLEAN /\ is_laser_on' \in BOOLEAN
  BY <1>5 DEF IgnoreReceiveDataWithQt, flags
<1>8. CASE is_sending
  <2>1. pc' = "drain" /\ after' = a /\ UNCHANGED <<ret, last_errno>>
    BY <1>8 DEF IgnoreReceiveDataWithQt
  <2> QED BY <1>3, <1>5, <1>6, <1>7, <2>1
<1>9. CASE ~is_sending
  <2>1. Resume(a) /\ UNCHANGED after BY <1>9 DEF IgnoreReceiveDataWithQt
  <2>2. pc' \in Labels /\ ret' \in Codes /\ last_errno' \in Codes
    BY <1>4, <1>5, <2>1 DEF Resume
  <2> QED BY <1>5, <1>6, <1>7, <2>1, <2>2
<1> QED BY <1>8, <1>9

\* The start of an exchange keeps the types of everything it touches.
LEMMA ExchangeType ==
  ASSUME TypeOK, NEW c \in CommandNames, NEW r \in {1, 2}, Exchange(c, r)
  PROVE  /\ pc' \in Labels /\ ret' \in Codes /\ last_errno' \in Codes
         /\ outbox' \in Seq(Command)
         /\ xchg' \in [cmd : CommandNames, line : 0 .. 2, ok : BOOLEAN,
                       body : BOOLEAN, round : {1, 2}]
<1>1. Sent(c, 0, 0) \in Seq(Command)
  BY SentType DEF TypeOK, WorldTypeOK
<1> QED BY <1>1 DEF TypeOK, HostTypeOK, Exchange, Writes, Labels, Codes, Errors

\* So does the entry of receive_data.
LEMMA ReceiveDataType ==
  ASSUME NEW s \in BOOLEAN, ReceiveData(s)
  PROVE  /\ pc' \in Labels
         /\ rcv' \in [type : Types, points : 0 .. DataLines, stamp : BOOLEAN, gen : Nat]
BY BoundAssumption DEF ReceiveData, Labels, Types

\* What urg_open leaves behind is well typed.
LEMMA InitType == Init => TypeOK
<1> SUFFICES ASSUME Init PROVE TypeOK OBVIOUS
<1>1. HostTypeOK
  <2>1. frames \in Seq(Frame) /\ scanning_remain_times \in Nat /\ specified_scan_times \in Nat
    BY DEF Init
  <2>2. xchg \in [cmd : CommandNames, line : 0 .. 2, ok : BOOLEAN,
                  body : BOOLEAN, round : {1, 2}]
    BY DEF Init, CommandNames
  <2>3. rcv \in [type : Types, points : 0 .. DataLines, stamp : BOOLEAN, gen : Nat]
    BY BoundAssumption DEF Init, Types
  <2>4. after \in [pc : Labels, code : Codes]
    BY DEF Init, Labels, Codes
  <2>5. /\ is_active \in BOOLEAN /\ is_sending \in BOOLEAN /\ is_laser_on \in BOOLEAN
        /\ ignore_checkSumError \in {0, 1} /\ last_errno \in Codes
        /\ pc \in Labels /\ op \in Functions \cup {"open"} /\ ret \in Codes
    BY DEF Init, Labels, Codes
  <2> QED BY <2>1, <2>2, <2>3, <2>4, <2>5 DEF HostTypeOK
<1>2. WorldTypeOK
  BY DEF Init, WorldTypeOK, Continuous
<1> QED BY <1>1, <1>2 DEF TypeOK

(***************************************************************************)
(* Every step keeps the types, action by action.                           *)
(***************************************************************************)
XchgType  == [cmd : CommandNames, line : 0 .. 2, ok : BOOLEAN,
              body : BOOLEAN, round : {1, 2}]
RcvType   == [type : Types, points : 0 .. DataLines, stamp : BOOLEAN, gen : Nat]

\* A call on a session that is not open keeps the types.
LEMMA NotConnectedType ==
  ASSUME TypeOK, NEW o \in Functions, NotConnected(o) PROVE TypeOK'
BY DEF TypeOK, HostTypeOK, WorldTypeOK, NotConnected, Returns, Labels, Codes, Errors,
       flags, config, budgets

\* So does a start with bad parameters, whichever flag it stored before.
LEMMA StartRejectedType ==
  ASSUME TypeOK, StartRejected PROVE TypeOK'
<1>1. [pc |-> "ready", code |-> "INVALID_PARAMETER"] \in Cont
  BY DEF Cont, Labels, Codes, Errors
<1>2. /\ is_active' \in BOOLEAN /\ is_sending' \in BOOLEAN /\ is_laser_on' \in BOOLEAN
      /\ pc' \in Labels /\ ret' \in Codes /\ last_errno' \in Codes
      /\ after' \in Cont /\ outbox' \in Seq(Command)
  BY <1>1, IgnoreType DEF StartRejected
<1>3. op' \in Functions /\ ignore_checkSumError' \in {0, 1}
  BY ChoiceAssumption DEF StartRejected, Call, TypeOK, HostTypeOK, Functions
<1> QED BY <1>2, <1>3 DEF StartRejected, Call, TypeOK, HostTypeOK, WorldTypeOK, Cont

\* urg_start_measurement and the exchange it may begin with keep the types.
LEMMA StartType ==
  ASSUME TypeOK, Start PROVE TypeOK'
<1>1. PICK n \in ScanTimes, ic \in IgnoreChoices, io \in IoChoices :
        LET specified == IF n >= MAX_SCANS THEN 0 ELSE n IN
        /\ specified_scan_times' = specified
        /\ scanning_remain_times' = n
        /\ ignore_checkSumError' = ic
        /\ is_sending' = TRUE
        /\ rcv' = [rcv EXCEPT !.type = IF io THEN "distance_io" ELSE "distance"]
        /\ IF n = 1 /\ ~is_laser_on
           THEN Exchange("BM", 1)
           ELSE /\ IF n = 1
                   THEN pc' = "send_single" /\ UNCHANGED <<outbox, ret>>
                        /\ last_errno' = "NO_ERROR"
                   ELSE /\ outbox' = Sent(IF io THEN "MF" ELSE "MD", specified, gen')
                        /\ IF link = "up" THEN Returns("NO_ERROR") /\ UNCHANGED last_errno
                                          ELSE Fails("SEND_ERROR")
                /\ UNCHANGED xchg
  BY DEF Start
<1>2. /\ specified_scan_times' \in Nat /\ scanning_remain_times' \in Nat
      /\ ignore_checkSumError' \in {0, 1} /\ is_sending' \in BOOLEAN
  BY <1>1, ChoiceAssumption
<1>3. rcv' \in RcvType
  BY <1>1 DEF TypeOK, HostTypeOK, RcvType, Types
<1>4. gen' \in Nat /\ op' \in Functions
  BY DEF Start, Call, TypeOK, WorldTypeOK, Functions
<1>5. /\ pc' \in Labels /\ ret' \in Codes /\ last_errno' \in Codes
      /\ outbox' \in Seq(Command) /\ xchg' \in XchgType
  <2>1. CASE n = 1 /\ ~is_laser_on
    <3>1. Exchange("BM", 1) BY <1>1, <2>1
    <3>2. "BM" \in CommandNames BY DEF CommandNames
    <3> QED BY <3>1, <3>2, ExchangeType DEF XchgType
  <2>2. CASE n = 1 /\ is_laser_on
    BY <1>1, <2>2 DEF TypeOK, HostTypeOK, WorldTypeOK, XchgType, Labels, Codes, Errors
  <2>3. CASE n # 1
    <3>1. (IF io THEN "MF" ELSE "MD") \in CommandNames
      BY DEF CommandNames, Continuous
    <3>2. outbox' \in Seq(Command)
      <4>1. outbox' = Sent(IF io THEN "MF" ELSE "MD", specified_scan_times', gen')
        BY <1>1, <2>3
      <4> QED BY <1>2, <1>4, <3>1, <4>1, SentType DEF TypeOK, WorldTypeOK
    <3> QED BY <1>1, <2>3, <3>2 DEF TypeOK, HostTypeOK, XchgType, Labels, Codes, Errors,
               Returns, Fails
  <2>4. is_laser_on \in BOOLEAN BY DEF TypeOK, HostTypeOK
  <2> QED BY <2>1, <2>2, <2>3, <2>4
<1> QED BY <1>2, <1>3, <1>4, <1>5 DEF Start, Call, TypeOK, HostTypeOK, WorldTypeOK,
           RcvType, XchgType

\* So does the write of the single-scan command.
LEMMA SendSingleType ==
  ASSUME TypeOK, SendSingle PROVE TypeOK'
<1>1. (IF rcv.type = "distance_io" THEN "GF" ELSE "GD") \in CommandNames
  BY DEF CommandNames, Single
<1>2. outbox' \in Seq(Command)
  BY <1>1, SentType DEF SendSingle, TypeOK, WorldTypeOK
<1>3. pc' \in Labels /\ ret' \in Codes /\ last_errno' \in Codes
  BY DEF SendSingle, Returns, Fails, Labels, Codes, Errors, TypeOK, HostTypeOK
<1> QED BY <1>2, <1>3 DEF SendSingle, TypeOK, HostTypeOK, WorldTypeOK,
           flags, config, host, budgets

\* So does the entry of the urg_get_* functions.
LEMMA GetType ==
  ASSUME TypeOK, Get PROVE TypeOK'
<1>1. pc' \in Labels /\ rcv' \in RcvType
  BY ReceiveDataType DEF Get, RcvType
<1> QED BY <1>1 DEF Get, Call, TypeOK, HostTypeOK, WorldTypeOK, RcvType, Functions,
           flags, config

\* A sequence of one element of S is a sequence over S.
LEMMA OneElement == ASSUME NEW S, NEW e \in S PROVE <<e>> \in Seq(S)
OBVIOUS

\* Replacing one element of a sequence over S leaves a sequence over S.
LEMMA ReplaceElement ==
  ASSUME NEW S, NEW q \in Seq(S), NEW i \in 1 .. Len(q), NEW e \in S
  PROVE  [q EXCEPT ![i] = e] \in Seq(S)
OBVIOUS

\* A fresh activation of urg_stop_measurement is a well-formed frame.
LEMMA FrameType ==
  ASSUME NEW h \in Codes \cup {"none"} PROVE [reads |-> 0, held |-> h] \in Frame
BY DEF Frame, MAX_READ_TIMES

\* The QT of urg_stop_measurement and its first activation keep the types.
LEMMA StopType ==
  ASSUME TypeOK, NEW o \in Functions, Stop(o) PROVE TypeOK'
<1>1. outbox' \in Seq(Command)
  BY SentType DEF Stop, Writes, CommandNames, TypeOK, WorldTypeOK
<1>2. /\ pc' \in Labels /\ ret' \in Codes /\ last_errno' \in Codes
      /\ frames' \in Seq(Frame) /\ rcv' \in RcvType
  <2>1. CASE link = "up"
    <3>1. [reads |-> 0, held |-> "none"] \in Frame BY FrameType
    <3>2. frames' \in Seq(Frame) BY <2>1, <3>1, OneElement DEF Stop
    <3>3. pc' \in Labels /\ rcv' \in RcvType
      BY <2>1, ReceiveDataType DEF Stop, RcvType
    <3> QED BY <2>1, <3>2, <3>3 DEF Stop, TypeOK, HostTypeOK
  <2>2. CASE link # "up"
    BY <2>2 DEF Stop, TypeOK, HostTypeOK, RcvType, Labels, Codes, Errors
  <2> QED BY <2>1, <2>2
<1> QED BY <1>1, <1>2 DEF Stop, Call, TypeOK, HostTypeOK, WorldTypeOK, RcvType,
           flags, config

\* So does every call that is one exchange.
LEMMA AskType ==
  ASSUME TypeOK, NEW o \in Functions, NEW c \in CommandNames, Ask(o, c) PROVE TypeOK'
<1>1. /\ pc' \in Labels /\ ret' \in Codes /\ last_errno' \in Codes
      /\ outbox' \in Seq(Command) /\ xchg' \in XchgType
  BY ExchangeType DEF Ask, XchgType
<1> QED BY <1>1 DEF Ask, Call, TypeOK, HostTypeOK, WorldTypeOK, XchgType, flags, config

\* So does urg_laser_on, whether it needs its exchange or not.
LEMMA LaserOnType ==
  ASSUME TypeOK, LaserOn PROVE TypeOK'
<1>1. CASE is_laser_on
  BY <1>1 DEF LaserOn, Call, Returns, TypeOK, HostTypeOK, WorldTypeOK, Labels, Codes,
     Functions, flags, config
<1>2. CASE ~is_laser_on
  BY <1>2, AskType DEF LaserOn, Functions, CommandNames
<1> QED BY <1>1, <1>2

\* So does urg_close up to the closing of the connection.
LEMMA CloseType ==
  ASSUME TypeOK, Close PROVE TypeOK'
<1>1. [pc |-> "close", code |-> ret] \in Cont
  BY DEF Cont, Labels, TypeOK, HostTypeOK
<1>2. /\ is_active' \in BOOLEAN /\ is_sending' \in BOOLEAN /\ is_laser_on' \in BOOLEAN
      /\ pc' \in Labels /\ ret' \in Codes /\ last_errno' \in Codes
      /\ after' \in Cont /\ outbox' \in Seq(Command)
  BY <1>1, IgnoreType DEF Close
<1> QED BY <1>2 DEF Close, Call, TypeOK, HostTypeOK, WorldTypeOK, Cont, Functions, config

\* And the closing of the connection.
LEMMA CloseDoneType ==
  ASSUME TypeOK, CloseDone PROVE TypeOK'
<1>1. HostTypeOK'
  <2>1. is_active' \in BOOLEAN
    BY DEF CloseDone, ConnectionClose
  <2>2. pc' \in Labels /\ ret' \in Codes
    BY DEF CloseDone, Returns, Labels, Codes
  <2>3. UNCHANGED <<is_sending, is_laser_on, specified_scan_times, scanning_remain_times,
                    ignore_checkSumError, last_errno, op, frames, xchg, rcv, after>>
    BY DEF CloseDone, config, host
  <2> QED BY <2>1, <2>2, <2>3 DEF TypeOK, HostTypeOK
<1>2. WorldTypeOK'
  <2>1. inbox' \in Seq(WireLine) BY DEF CloseDone, ConnectionClose
  <2> QED BY <2>1 DEF CloseDone, ConnectionClose, TypeOK, WorldTypeOK, budgets, WireLine
<1> QED BY <1>1, <1>2 DEF TypeOK

\* scip_response keeps the types with every line it reads.
LEMMA ScipResponseType ==
  ASSUME TypeOK, ScipResponse PROVE TypeOK'
<1>1. PICK l \in Incoming :
       /\ Reads(l)
       /\ IF Rejection(l) # "NO_ERROR"
          THEN /\ pc' = "xchg_done" /\ ret' = Rejection(l) /\ last_errno' = Rejection(l)
               /\ UNCHANGED xchg
          ELSE /\ UNCHANGED last_errno
               /\ IF Empty(l)
                  THEN /\ pc' = "xchg_done"
                       /\ ret' = IF xchg.ok THEN "POSITIVE" ELSE "UNKNOWN_ERROR"
                       /\ UNCHANGED xchg
                  ELSE /\ xchg' = [xchg EXCEPT
                            !.line = IF @ < 2 THEN @ + 1 ELSE @,
                            !.ok   = @ \/ (xchg.line = 1 /\ l.val \in Expected(xchg.cmd)),
                            !.body = @ \/ xchg.line = 2]
                       /\ UNCHANGED <<pc, ret>>
  BY DEF ScipResponse
<1>2. inbox' \in Seq(WireLine) /\ late' \in Nat
  BY <1>1, ReadsType DEF TypeOK, WorldTypeOK, WireLine
<1>3. Rejection(l) \in Codes
  BY DEF Rejection, Codes, Errors
<1>4. pc' \in Labels /\ ret' \in Codes /\ last_errno' \in Codes
  BY <1>1, <1>3 DEF TypeOK, HostTypeOK, Labels, Codes, Errors
<1>5. xchg' \in XchgType
  <2>1. xchg \in XchgType BY DEF TypeOK, HostTypeOK, XchgType
  <2>2. (IF xchg.line < 2 THEN xchg.line + 1 ELSE xchg.line) \in 0 .. 2
    BY <2>1 DEF XchgType
  <2>3. /\ (xchg.ok \/ (xchg.line = 1 /\ l.val \in Expected(xchg.cmd))) \in BOOLEAN
        /\ (xchg.body \/ xchg.line = 2) \in BOOLEAN
    OBVIOUS
  <2> QED BY <1>1, <2>1, <2>2, <2>3, Zenon DEF XchgType
<1> QED BY <1>2, <1>4, <1>5 DEF ScipResponse, TypeOK, HostTypeOK, WorldTypeOK, XchgType,
           WireLine, flags, config

\* So do the callers of scip_response that do not send anything more.
LEMMA AnsweredType ==
  ASSUME TypeOK, LaserOnDone \/ TimeStampModeDone \/ TimeStampDone \/ InfoDone \/ SleepDone
  PROVE  TypeOK'
<1>1. CASE LaserOnDone
  BY <1>1 DEF LaserOnDone, AfterAnswer, TypeOK, HostTypeOK, WorldTypeOK, Labels, Codes,
     config, budgets
<1>2. CASE TimeStampModeDone
  BY <1>2 DEF TimeStampModeDone, AfterAnswer, Returns, Fails, TypeOK, HostTypeOK, WorldTypeOK,
     Labels, Codes, Errors, flags, config, budgets
<1>3. CASE TimeStampDone
  BY <1>3 DEF TimeStampDone, AfterAnswer, Returns, Fails, TypeOK, HostTypeOK, WorldTypeOK,
     Labels, Codes, Errors, flags, config, budgets
<1>4. CASE InfoDone
  BY <1>4 DEF InfoDone, AfterAnswer, Returns, TypeOK, HostTypeOK, WorldTypeOK,
     Labels, Codes, Errors, flags, config, budgets
<1>5. CASE SleepDone
  BY <1>5 DEF SleepDone, AfterAnswer, Returns, TypeOK, HostTypeOK, WorldTypeOK,
     Labels, Codes, Errors, flags, config, budgets
<1> QED BY <1>1, <1>2, <1>3, <1>4, <1>5

\* So does urg_reboot, which sends a second RB or closes.
LEMMA RebootDoneType ==
  ASSUME TypeOK, RebootDone PROVE TypeOK'
<1>1. CASE ret # "POSITIVE"
  <2>1. Fails("INVALID_RESPONSE") /\ UNCHANGED <<is_active, xchg, outbox, inbox, link>>
    BY <1>1 DEF RebootDone
  <2> QED BY <2>1 DEF RebootDone, AfterAnswer, Returns, Fails, TypeOK, HostTypeOK, WorldTypeOK,
             Labels, Codes, Errors, config, budgets
<1>2. CASE ret = "POSITIVE" /\ xchg.round = 1
  <2>1. Exchange("RB", 2) /\ UNCHANGED <<is_active, inbox, link>>
    BY <1>2 DEF RebootDone
  <2>2. /\ pc' \in Labels /\ ret' \in Codes /\ last_errno' \in Codes
        /\ outbox' \in Seq(Command) /\ xchg' \in XchgType
    BY <2>1, ExchangeType DEF XchgType, CommandNames
  <2> QED BY <2>1, <2>2 DEF RebootDone, AfterAnswer, TypeOK, HostTypeOK, WorldTypeOK,
             XchgType, config, budgets
<1>3. CASE ret = "POSITIVE" /\ xchg.round = 2
  <2>1. /\ ConnectionClose /\ Returns("NO_ERROR") /\ last_errno' = "NO_ERROR"
        /\ UNCHANGED <<xchg, outbox>>
    BY <1>3 DEF RebootDone
  <2>2. inbox' \in Seq(WireLine) BY <2>1 DEF ConnectionClose
  <2>3. HostTypeOK'
    <3>1. is_active' \in BOOLEAN
      BY <2>1 DEF ConnectionClose
    <3>2. pc' \in Labels /\ ret' \in Codes /\ last_errno' \in Codes
      BY <2>1 DEF Returns, Labels, Codes
    <3>3. UNCHANGED <<is_sending, is_laser_on, specified_scan_times, scanning_remain_times,
                      ignore_checkSumError, op, frames, xchg, rcv, after>>
      BY <2>1 DEF RebootDone, AfterAnswer, config
    <3> QED BY <3>1, <3>2, <3>3 DEF TypeOK, HostTypeOK
  <2> QED BY <2>1, <2>2, <2>3 DEF RebootDone, AfterAnswer, ConnectionClose, TypeOK, WorldTypeOK,
             WireLine, budgets
<1>4. xchg.round \in {1, 2} BY DEF TypeOK, HostTypeOK
<1> QED BY <1>1, <1>2, <1>3, <1>4

\* The steps of receive_data that read one line and go on or fail.
LEMMA RdLineType ==
  ASSUME TypeOK, RdEcho \/ RdQt \/ RdIo \/ RdStamp PROVE TypeOK'
<1>1. ASSUME NEW l \in Incoming, Reads(l)
      PROVE  l \in Line /\ inbox' \in Seq(WireLine) /\ late' \in Nat
  BY <1>1, ReadsType DEF TypeOK, WorldTypeOK, WireLine
<1>2. CASE RdEcho
  <2>1. PICK l \in Incoming :
          /\ Reads(l)
          /\ IF NonEmpty(l)
             THEN /\ pc' = "rd_status"
                  /\ rcv' = [rcv EXCEPT !.type = TypeOf(l)]
                  /\ UNCHANGED <<ret, last_errno>>
             ELSE FailRet("NO_RESPONSE") /\ UNCHANGED rcv
    BY <1>2 DEF RdEcho
  <2>2. TypeOf(l) \in Types BY DEF TypeOf, Types
  <2>3. rcv' \in RcvType
    BY <2>1, <2>2 DEF TypeOK, HostTypeOK, RcvType
  <2>4. pc' \in Labels /\ ret' \in Codes /\ last_errno' \in Codes
    BY <2>1 DEF FailRet, GoRet, TypeOK, HostTypeOK, Labels, Codes, Errors
  <2>5. inbox' \in Seq(WireLine) /\ late' \in Nat
    BY <1>1, <2>1
  <2> QED BY <1>2, <2>3, <2>4, <2>5 DEF RdEcho, Reading, Untouched, TypeOK, HostTypeOK,
             WorldTypeOK, RcvType, WireLine, flags, config
<1>3. CASE RdQt
  <2>1. pc' \in Labels /\ ret' \in Codes /\ last_errno' \in Codes
    BY <1>3 DEF RdQt, FailRet, GoRet, TypeOK, HostTypeOK, Labels, Codes, Errors
  <2>2. inbox' \in Seq(WireLine) /\ late' \in Nat
    BY <1>1, <1>3 DEF RdQt
  <2> QED BY <1>3, <2>1, <2>2 DEF RdQt, Reading, Untouched, TypeOK, HostTypeOK,
             WorldTypeOK, WireLine, flags, config
<1>4. CASE RdIo
  <2>1. inbox' \in Seq(WireLine) /\ late' \in Nat
    BY <1>1, <1>4 DEF RdIo
  <2> QED BY <1>4, <2>1 DEF RdIo, Reading, Untouched, TypeOK, HostTypeOK,
             WorldTypeOK, WireLine, Labels, flags, config
<1>5. CASE RdStamp
  <2>1. inbox' \in Seq(WireLine) /\ late' \in Nat
    BY <1>1, <1>5 DEF RdStamp
  <2> QED BY <1>5, <2>1 DEF RdStamp, Reading, Untouched, TypeOK, HostTypeOK,
             WorldTypeOK, WireLine, Labels, Codes, flags, config
<1> QED BY <1>2, <1>3, <1>4, <1>5

\* The steps of receive_data that may give the measurement up with a QT.
LEMMA RdAbortType ==
  ASSUME TypeOK, RdStatus \/ RdAck \/ RdData PROVE TypeOK'
<1> DEFINE Good == /\ is_active' \in BOOLEAN /\ is_sending' \in BOOLEAN
                   /\ is_laser_on' \in BOOLEAN
                   /\ pc' \in Labels /\ ret' \in Codes /\ last_errno' \in Codes
                   /\ after' \in Cont /\ outbox' \in Seq(Command)
<1>1. ASSUME NEW l \in Incoming, Reads(l)
      PROVE  l \in Line /\ inbox' \in Seq(WireLine) /\ late' \in Nat
  BY <1>1, ReadsType DEF TypeOK, WorldTypeOK, WireLine
<1>2. ASSUME NEW p \in Labels, NEW c \in Codes, Abort(p, c) PROVE Good
  <2>1. [pc |-> p, code |-> c] \in Cont BY DEF Cont
  <2> QED BY <1>2, <2>1, IgnoreType DEF Abort
<1>3. ASSUME Untouched, pc' \in Labels, ret' \in Codes, last_errno' \in Codes PROVE Good
  BY <1>3 DEF Untouched, TypeOK, HostTypeOK, WorldTypeOK, Cont, flags
<1>4. ret \in Codes /\ last_errno \in Codes /\ rcv \in RcvType
  BY DEF TypeOK, HostTypeOK, RcvType
<1> HIDE DEF Good
<1>5. CASE RdStatus
  <2>1. PICK l \in Incoming :
          /\ Reads(l)
          /\ \/ Abort("rd_ret", "INVALID_RESPONSE")
             \/ Abort(IF rcv.stamp THEN "rd_ret" ELSE "crashed", "CHECKSUM_ERROR")
             \/ /\ Untouched /\ UNCHANGED <<ret, last_errno>>
                /\ pc' \in {"rd_qt", "rd_ack", "rd_io", "rd_stamp"}
    BY <1>5 DEF RdStatus
  <2>2. /\ "rd_ret" \in Labels /\ (IF rcv.stamp THEN "rd_ret" ELSE "crashed") \in Labels
        /\ "INVALID_RESPONSE" \in Codes /\ "CHECKSUM_ERROR" \in Codes
        /\ {"rd_qt", "rd_ack", "rd_io", "rd_stamp"} \subseteq Labels
    BY DEF Labels, Codes, Errors
  <2>3. Good
    BY <1>2, <1>3, <1>4, <2>1, <2>2
  <2>4. inbox' \in Seq(WireLine) /\ late' \in Nat
    BY <1>1, <2>1
  <2> QED BY <1>5, <2>3, <2>4 DEF Good, RdStatus, Reading, TypeOK, HostTypeOK, WorldTypeOK,
             WireLine, Cont, config
<1>6. CASE RdAck
  <2>1. PICK l \in Incoming :
          /\ Reads(l)
          /\ \/ ReceiveData(rcv.stamp) /\ Untouched /\ UNCHANGED <<ret, last_errno>>
             \/ Abort("rd_ret", "INVALID_RESPONSE") /\ UNCHANGED rcv
    BY <1>6 DEF RdAck
  <2>2. "rd_ret" \in Labels /\ "INVALID_RESPONSE" \in Codes
    BY DEF Labels, Codes, Errors
  <2>3. rcv.stamp \in BOOLEAN BY <1>4 DEF RcvType
  <2>4. Good /\ rcv' \in RcvType
    <3>1. CASE ReceiveData(rcv.stamp) /\ Untouched /\ UNCHANGED <<ret, last_errno>>
      BY <1>3, <1>4, <2>3, <3>1, ReceiveDataType DEF RcvType
    <3>2. CASE Abort("rd_ret", "INVALID_RESPONSE") /\ UNCHANGED rcv
      BY <1>2, <1>4, <2>2, <3>2
    <3> QED BY <2>1, <3>1, <3>2
  <2>5. inbox' \in Seq(WireLine) /\ late' \in Nat
    BY <1>1, <2>1
  <2> QED BY <1>6, <2>4, <2>5 DEF Good, RdAck, Reading, TypeOK, HostTypeOK, WorldTypeOK,
             WireLine, Cont, RcvType, config
<1>7. CASE RdData
  <2>1. PICK l \in Incoming :
          /\ Reads(l)
          /\ \/ /\ pc' = "rd_count"
                /\ ret' \in {"POSITIVE", "NO_ERROR"}
                /\ Untouched /\ UNCHANGED <<rcv, last_errno>>
             \/ Abort("rd_count", "CHECKSUM_ERROR") /\ UNCHANGED rcv
             \/ Abort("rd_count", "RECEIVE_ERROR") /\ UNCHANGED rcv
             \/ \E k \in {0, 1} :
                  /\ ~(rcv.points + k > DataLines)
                  /\ rcv' = [rcv EXCEPT !.points = rcv.points + k, !.gen = l.gen]
                  /\ Untouched /\ UNCHANGED <<pc, ret, last_errno>>
    BY <1>7 DEF RdData
  <2>2. l \in Line /\ inbox' \in Seq(WireLine) /\ late' \in Nat
    BY <1>1, <2>1
  <2>3. /\ "rd_count" \in Labels /\ pc \in Labels
        /\ {"POSITIVE", "NO_ERROR"} \subseteq Codes
        /\ "CHECKSUM_ERROR" \in Codes /\ "RECEIVE_ERROR" \in Codes
    BY DEF Labels, Codes, Errors, TypeOK, HostTypeOK
  <2>4. Good
    BY <1>2, <1>3, <1>4, <2>1, <2>3
  <2>5. rcv' \in RcvType
    <3>1. ASSUME NEW k \in {0, 1}, ~(rcv.points + k > DataLines),
                 rcv' = [rcv EXCEPT !.points = rcv.points + k, !.gen = l.gen]
          PROVE  rcv' \in RcvType
      <4>1. rcv.points + k \in 0 .. DataLines
        BY <1>4, <3>1, BoundAssumption DEF RcvType
      <4>2. l.gen \in Nat BY <2>2 DEF Line
      <4> QED BY <1>4, <3>1, <4>1, <4>2 DEF RcvType
    <3>2. CASE rcv' = rcv BY <1>4, <3>2
    <3>3. rcv' = rcv \/ \E k \in {0, 1} :
            /\ ~(rcv.points + k > DataLines)
            /\ rcv' = [rcv EXCEPT !.points = rcv.points + k, !.gen = l.gen]
      BY <2>1
    <3> QED BY <3>1, <3>2, <3>3
  <2>6. UNCHANGED <<config, frames, xchg, op, link, sensor, gen, faults>>
    BY <1>7 DEF RdData, Reading
  <2>7. HostTypeOK'
    BY <2>4, <2>5, <2>6 DEF Good, TypeOK, HostTypeOK, Cont, RcvType, config
  <2>8. WorldTypeOK'
    BY <2>2, <2>4, <2>6 DEF Good, TypeOK, WorldTypeOK, WireLine
  <2> QED BY <2>7, <2>8 DEF TypeOK
<1> QED BY <1>5, <1>6, <1>7

\* So does the end of receive_data, which may call urg_stop_measurement.
LEMMA RdCountType ==
  ASSUME TypeOK, RdCount PROVE TypeOK'
<1> DEFINE counts == specified_scan_times > 1 /\ scanning_remain_times > 0
           last == counts /\ scanning_remain_times = 1
<1>1. scanning_remain_times' \in Nat
  BY DEF RdCount, TypeOK, HostTypeOK
<1>2. /\ outbox' \in Seq(Command) /\ frames' \in Seq(Frame) /\ rcv' \in RcvType
      /\ pc' \in Labels /\ last_errno' \in Codes
  <2>1. CASE last /\ link = "up"
    <3>1. outbox' \in Seq(Command)
      <4>1. outbox' = Sent("QT", 0, 0) BY <2>1 DEF RdCount, Writes
      <4> QED BY <4>1, SentType DEF CommandNames, TypeOK, WorldTypeOK
    <3>2. [reads |-> 0, held |-> ret] \in Frame
      BY FrameType DEF TypeOK, HostTypeOK
    <3>3. frames' = Append(frames, [reads |-> 0, held |-> ret])
      BY <2>1 DEF RdCount
    <3>4. frames' \in Seq(Frame)
      BY <3>2, <3>3 DEF TypeOK, HostTypeOK
    <3>5. ReceiveData(FALSE) /\ UNCHANGED last_errno
      BY <2>1 DEF RdCount
    <3>6. pc' \in Labels /\ rcv' \in RcvType
      BY <3>5, ReceiveDataType DEF RcvType
    <3> QED BY <3>1, <3>4, <3>5, <3>6 DEF TypeOK, HostTypeOK
  <2>2. CASE ~(last /\ link = "up")
    BY <2>2 DEF RdCount, TypeOK, HostTypeOK, WorldTypeOK, RcvType, Labels, Codes, Errors
  <2> QED BY <2>1, <2>2
<1> QED BY <1>1, <1>2 DEF RdCount, Reading, TypeOK, HostTypeOK, WorldTypeOK, RcvType, flags

\* So does the return of receive_data to the urg_get_* functions.
LEMMA GetDoneType ==
  ASSUME TypeOK, GetDone PROVE TypeOK'
BY DEF GetDone, Reading, Returns, Untouched, TypeOK, HostTypeOK, WorldTypeOK, Labels,
       flags, config

\* The innermost frame is well formed, and returning from it keeps the types.
LEMMA StopReturnsType ==
  ASSUME TypeOK, frames # <<>>
  PROVE  /\ top \in Frame
         /\ StopReturns => pc' \in Labels /\ ret' \in Codes /\ frames' \in Seq(Frame)
<1>1. frames \in Seq(Frame) /\ Len(frames) \in 1 .. Len(frames)
  BY DEF TypeOK, HostTypeOK
<1>2. top \in Frame
  BY <1>1 DEF top
<1>3. SubSeq(frames, 1, Len(frames) - 1) \in Seq(Frame)
  BY <1>1
<1>4. ASSUME StopReturns PROVE pc' \in Labels /\ ret' \in Codes /\ frames' \in Seq(Frame)
  BY <1>2, <1>3, <1>4 DEF StopReturns, TypeOK, HostTypeOK, Frame, Labels
<1> QED BY <1>2, <1>4

\* So does each turn of the loop of urg_stop_measurement.
LEMMA StopLoopType ==
  ASSUME TypeOK, StopLoop PROVE TypeOK'
<1>1. frames # <<>> BY DEF StopLoop
<1>2. top \in Frame BY <1>1, StopReturnsType
<1>4. frames \in Seq(Frame) /\ Len(frames) \in 1 .. Len(frames)
  BY <1>1 DEF TypeOK, HostTypeOK
<1>3. /\ pc' \in Labels /\ ret' \in Codes /\ frames' \in Seq(Frame)
      /\ rcv' \in RcvType /\ last_errno' \in Codes
      /\ is_laser_on' \in BOOLEAN /\ is_sending' \in BOOLEAN
  <2>1. CASE StopReturns /\ UNCHANGED rcv
    <3>1. pc' \in Labels /\ ret' \in Codes /\ frames' \in Seq(Frame)
      BY <1>1, <2>1, StopReturnsType
    <3>2. rcv' \in RcvType
      BY <2>1 DEF TypeOK, HostTypeOK, RcvType
    <3>3. \/ is_laser_on' = FALSE /\ is_sending' = FALSE /\ last_errno' = "NO_ERROR"
          \/ UNCHANGED <<is_sending, is_laser_on, last_errno>>
      BY DEF StopLoop
    <3>4. last_errno' \in Codes /\ is_laser_on' \in BOOLEAN /\ is_sending' \in BOOLEAN
      BY <3>3 DEF TypeOK, HostTypeOK, Codes
    <3> QED BY <3>1, <3>2, <3>4
  <2>2. CASE /\ top.reads + 1 < MAX_READ_TIMES
             /\ frames' = [frames EXCEPT ![Len(frames)].reads = @ + 1]
             /\ ReceiveData(FALSE)
             /\ UNCHANGED <<ret, is_sending, is_laser_on, last_errno>>
    <3>1. pc' \in Labels /\ rcv' \in RcvType
      BY <2>2, ReceiveDataType DEF RcvType
    <3> DEFINE f == [top EXCEPT !.reads = @ + 1]
    <3>2. f \in Frame
      BY <1>2, <2>2 DEF Frame, MAX_READ_TIMES
    <3>3. frames' = [frames EXCEPT ![Len(frames)] = f]
      BY <2>2 DEF top
    <3> HIDE DEF f
    <3>4. frames' \in Seq(Frame)
      BY <1>4, <3>2, <3>3, ReplaceElement
    <3> QED BY <2>2, <3>1, <3>4 DEF TypeOK, HostTypeOK
  <2> QED BY <2>1, <2>2 DEF StopLoop
<1> QED BY <1>3 DEF StopLoop, Reading, TypeOK, HostTypeOK, WorldTypeOK, RcvType, config

\* So does the end of the functions that stop the measurement.
LEMMA StopDoneType ==
  ASSUME TypeOK, StopDone PROVE TypeOK'
<1>1. /\ pc' \in Labels /\ ret' \in Codes /\ last_errno' \in Codes
      /\ outbox' \in Seq(Command) /\ xchg' \in XchgType
  <2>1. CASE Exchange("%SL", 1)
    BY <2>1, ExchangeType DEF XchgType, CommandNames
  <2>2. CASE Returns(ret) /\ UNCHANGED <<xchg, outbox, last_errno>>
    BY <2>2 DEF Returns, TypeOK, HostTypeOK, WorldTypeOK, XchgType, Labels
  <2> QED BY <2>1, <2>2 DEF StopDone
<1> QED BY <1>1 DEF StopDone, TypeOK, HostTypeOK, WorldTypeOK, XchgType, flags, config, budgets

\* So does each read of ignore_receive_data.
LEMMA DrainType ==
  ASSUME TypeOK, Drain PROVE TypeOK'
<1>1. PICK l \in Incoming :
       /\ Reads(l)
       /\ \/ is_sending' = FALSE /\ Resume(after)
          \/ UNCHANGED <<is_sending, pc, ret, last_errno>>
  BY DEF Drain
<1>2. inbox' \in Seq(WireLine) /\ late' \in Nat
  BY <1>1, ReadsType DEF TypeOK, WorldTypeOK, WireLine
<1>3. is_sending' \in BOOLEAN
  BY <1>1 DEF TypeOK, HostTypeOK
<1>4. pc' \in Labels /\ ret' \in Codes /\ last_errno' \in Codes
  BY <1>1 DEF Resume, TypeOK, HostTypeOK
<1> QED BY <1>2, <1>3, <1>4 DEF Drain, Reading, TypeOK, HostTypeOK, WorldTypeOK, WireLine, config

(***************************************************************************)
(* The steps of the sensor and of the cable.                               *)
(***************************************************************************)

\* The lines the sensor sends are lines.
LEMMA ScanLinesType ==
  ASSUME NEW c \in CommandNames, NEW s \in {"00", "99"}, NEW g \in Nat
  PROVE  ScanLines(c, s, g) \in Seq(WireLine)
<1>1. /\ Echo(c) \in WireLine /\ Status(s) \in WireLine /\ Plain("io") \in WireLine
      /\ Plain("stamp") \in WireLine /\ Datum(g) \in WireLine /\ Blank \in WireLine
  BY DEF Echo, Status, Plain, Datum, Blank, WireLine, Line, LineKinds, LineVals, Timeout
<1> DEFINE io == IF c \in {"GF", "MF"} THEN <<Plain("io")>> ELSE <<>>
           data == [i \in 1 .. DataLines |-> Datum(g)]
           e == Echo(c)  st == Status(s)  pl == Plain("stamp")  b == Blank  x == Plain("io")
           dd == Datum(g)
<1>2. e \in WireLine /\ st \in WireLine /\ pl \in WireLine /\ b \in WireLine /\ x \in WireLine
      /\ dd \in WireLine
  BY <1>1
<1>3. <<e, st>> \in Seq(WireLine)
  <2> HIDE DEF e, st
  <2> QED BY <1>2
<1>4. <<pl>> \in Seq(WireLine) /\ <<b>> \in Seq(WireLine) /\ <<x>> \in Seq(WireLine)
  BY <1>2, OneElement
<1>5. io \in Seq(WireLine)
  BY <1>4
<1>6. data \in Seq(WireLine)
  <2> HIDE DEF dd
  <2>1. [i \in 1 .. DataLines |-> dd] \in Seq(WireLine)
    BY <1>2, BoundAssumption
  <2> QED BY <2>1 DEF dd
<1>7. ScanLines(c, s, g) = <<e, st>> \o io \o <<pl>> \o data \o <<b>>
  BY DEF ScanLines
<1> HIDE DEF e, st, pl, b, x, io, data
<1> QED BY <1>3, <1>4, <1>5, <1>6, <1>7

\* The answer of the sensor to a command is a sequence of lines.
LEMMA AnswerType ==
  ASSUME NEW c \in Command PROVE Answer(c) \in Seq(WireLine)
<1>1. c.name \in CommandNames /\ c.gen \in Nat BY DEF Command
<1>2. CASE c.name \in Single /\ Accepts(c.name)
  BY <1>1, <1>2, ScanLinesType DEF Answer
<1>3. CASE ~(c.name \in Single /\ Accepts(c.name))
  <2> DEFINE e == Echo(c.name)  st == Status(StatusOf(c.name))  b == Blank
             body == Payload(c.name)  s == Plain("stamp")  i == Plain("info")
  <2>1. StatusOf(c.name) \in LineVals
    BY DEF StatusOf, Refusal, LineVals
  <2>2. /\ e \in WireLine /\ st \in WireLine /\ b \in WireLine
        /\ s \in WireLine /\ i \in WireLine
    BY <1>1, <2>1 DEF Echo, Status, Plain, Blank, WireLine, Line, LineKinds, LineVals, Timeout
  <2>3. body = <<>> \/ body = <<s>> \/ body = <<i>>
    BY DEF Payload
  <2>4. Answer(c) = <<e, st>> \o body \o <<b>>
    BY <1>3 DEF Answer
  <2> HIDE DEF e, st, b, s, i, body
  <2>5. <<e, st>> \in Seq(WireLine) /\ <<b>> \in Seq(WireLine) /\ body \in Seq(WireLine)
    <3>1. <<b>> \in Seq(WireLine) /\ <<s>> \in Seq(WireLine) /\ <<i>> \in Seq(WireLine)
      BY <2>2, OneElement
    <3>2. <<e, st>> \in Seq(WireLine)
      BY <2>2
    <3>3. <<>> \in Seq(WireLine)
      OBVIOUS
    <3>4. body \in Seq(WireLine)
      BY <2>3, <3>1, <3>3
    <3> QED BY <3>1, <3>2, <3>4
  <2> QED BY <2>4, <2>5
<1> QED BY <1>2, <1>3

\* The sensor keeps its type when it carries out a command.
LEMMA ObeyedType ==
  ASSUME TypeOK, NEW c \in Command
  PROVE  Obeyed(c) \in [mode : {"idle", "measure", "adjust", "sleep"}, laser : BOOLEAN,
                        rb : BOOLEAN, scan : Continuous, left : Nat, gen : Nat]
<1>1. sensor \in [mode : {"idle", "measure", "adjust", "sleep"}, laser : BOOLEAN,
                  rb : BOOLEAN, scan : Continuous, left : Nat, gen : Nat]
  BY DEF TypeOK, WorldTypeOK
<1>2. ModeAfter(c.name) \in {"idle", "measure", "adjust", "sleep"}
  BY <1>1 DEF ModeAfter
<1>3. LaserAfter(c.name) \in BOOLEAN
  BY <1>1 DEF LaserAfter
<1>4. c.times \in Nat /\ c.gen \in Nat BY DEF Command
<1> QED BY <1>1, <1>2, <1>3, <1>4 DEF Obeyed

\* Taking a command and answering it keeps the types.
LEMMA SensorReplyType ==
  ASSUME TypeOK, SensorReply PROVE TypeOK'
<1>1. Head(outbox) \in Command /\ Tail(outbox) \in Seq(Command)
  BY DEF SensorReply, TypeOK, WorldTypeOK
<1>2. inbox' \in Seq(WireLine)
  BY <1>1, AnswerType DEF SensorReply, Delivered, TypeOK, WorldTypeOK, WireLine
<1>3. sensor' \in [mode : {"idle", "measure", "adjust", "sleep"}, laser : BOOLEAN,
                   rb : BOOLEAN, scan : Continuous, left : Nat, gen : Nat]
  BY <1>1, ObeyedType DEF SensorReply
<1> QED BY <1>1, <1>2, <1>3 DEF SensorReply, HostUnchanged, TypeOK, HostTypeOK, WorldTypeOK,
           WireLine, flags, config, host, budgets

\* So does sending a scan.
LEMMA SensorScanType ==
  ASSUME TypeOK, SensorScan PROVE TypeOK'
<1>1. sensor.scan \in CommandNames /\ sensor.gen \in Nat
  BY DEF TypeOK, WorldTypeOK, CommandNames
<1>2. inbox' \in Seq(WireLine)
  <2> DEFINE scan == ScanLines(sensor.scan, "99", sensor.gen)
  <2>1. scan \in Seq(WireLine) BY <1>1, ScanLinesType
  <2>2. inbox' = inbox \o scan BY DEF SensorScan
  <2>3. inbox \in Seq(WireLine) BY DEF TypeOK, WorldTypeOK, WireLine
  <2> HIDE DEF scan
  <2> QED BY <2>1, <2>2, <2>3
<1>3. sensor' \in [mode : {"idle", "measure", "adjust", "sleep"}, laser : BOOLEAN,
                   rb : BOOLEAN, scan : Continuous, left : Nat, gen : Nat]
  <2>1. sensor \in [mode : {"idle", "measure", "adjust", "sleep"}, laser : BOOLEAN,
                    rb : BOOLEAN, scan : Continuous, left : Nat, gen : Nat]
    BY DEF TypeOK, WorldTypeOK
  <2>2. CASE sensor.left = 1
    <3>1. PICK lit \in {FALSE, sensor.laser} :
            sensor' = [sensor EXCEPT !.mode = "idle", !.laser = lit, !.left = 0]
      BY <2>2 DEF SensorScan
    <3>2. lit \in BOOLEAN BY <2>1
    <3> QED BY <2>1, <3>1, <3>2
  <2>3. CASE sensor.left # 1
    <3>1. sensor' = [sensor EXCEPT !.left = IF @ > 1 THEN @ - 1 ELSE 0]
      BY <2>3 DEF SensorScan
    <3>2. (IF sensor.left > 1 THEN sensor.left - 1 ELSE 0) \in Nat BY <2>1
    <3> QED BY <2>1, <3>1, <3>2
  <2> QED BY <2>2, <2>3
<1> QED BY <1>2, <1>3 DEF SensorScan, HostUnchanged, TypeOK, HostTypeOK, WorldTypeOK,
           WireLine, flags, config, host, budgets

\* So does every fault of the cable.
LEMMA FaultType ==
  ASSUME TypeOK, Garble \/ Lose \/ Break PROVE TypeOK'
<1>1. inbox' \in Seq(WireLine)
  <2>1. CASE Garble
    <3> DEFINE l == [inbox[1] EXCEPT !.good = FALSE,
                       !.val = IF inbox[1].kind = "echo" THEN "junk" ELSE @]
    <3>1. inbox \in Seq(WireLine) /\ 1 \in 1 .. Len(inbox)
      BY <2>1 DEF Garble, TypeOK, WorldTypeOK, WireLine
    <3>2. inbox[1] \in Line
      BY <3>1 DEF WireLine
    <3>3. l \in WireLine
      BY <3>2 DEF WireLine, Line, LineVals, Timeout, Plain
    <3>4. inbox' = [inbox EXCEPT ![1] = l]
      BY <2>1 DEF Garble
    <3> HIDE DEF l
    <3> QED BY <3>1, <3>3, <3>4, ReplaceElement
  <2>2. CASE Lose
    BY <2>2 DEF Lose, TypeOK, WorldTypeOK, WireLine
  <2>3. CASE Break
    BY <2>3 DEF Break, TypeOK, WorldTypeOK, WireLine
  <2> QED BY <2>1, <2>2, <2>3
<1>2. outbox' \in Seq(Command) /\ link' \in {"up", "down", "closed"}
  <2>1. \/ outbox' = outbox /\ link' = link
        \/ outbox' = <<>> /\ link' = "down"
    BY DEF Garble, Lose, Break
  <2>2. outbox \in Seq(Command) /\ <<>> \in Seq(Command) /\ link \in {"up", "down", "closed"}
    BY DEF TypeOK, WorldTypeOK
  <2>3. outbox' \in Seq(Command)
    BY <2>1, <2>2
  <2> QED BY <2>1, <2>2, <2>3
<1>3. \E k : Fault(k)
  BY DEF Garble, Lose, Break
<1>4. /\ UNCHANGED <<flags, config, last_errno, pc, ret, host, sensor, gen, late>>
      /\ faults' = faults + 1
  BY <1>3 DEF Fault, HostUnchanged
<1> QED BY <1>1, <1>2, <1>4 DEF TypeOK, HostTypeOK, WorldTypeOK, WireLine, flags, config, host

(***************************************************************************)
(* The theorem.                                                            *)
(***************************************************************************)
\* Every call of the application keeps the types.
LEMMA ApplicationType ==
  ASSUME TypeOK, Application PROVE TypeOK'
<1>1. /\ {"tm_start", "time_stamp", "tm_stop", "info", "reboot"} \subseteq Functions
      /\ {"stop", "wakeup", "sleep"} \subseteq Functions
      /\ {"TM0", "TM1", "TM2", "VV", "RB"} \subseteq CommandNames
  BY DEF Functions, CommandNames
<1>2. CASE \E o \in Functions : NotConnected(o)
  BY <1>2, NotConnectedType
<1>3. CASE StartRejected \/ Start \/ Get \/ LaserOn \/ Close
  BY <1>3, StartRejectedType, StartType, GetType, LaserOnType, CloseType
<1>4. CASE \E o \in {"stop", "wakeup", "sleep"} : Stop(o)
  BY <1>1, <1>4, StopType
<1>5. CASE \/ Ask("tm_start", "TM0") \/ Ask("time_stamp", "TM1") \/ Ask("tm_stop", "TM2")
           \/ Ask("info", "VV") \/ Ask("reboot", "RB")
  BY <1>1, <1>5, AskType
<1> QED BY <1>2, <1>3, <1>4, <1>5 DEF Application

\* So does every step of the library.
LEMMA HostType ==
  ASSUME TypeOK, Host PROVE TypeOK'
BY SendSingleType, CloseDoneType, ScipResponseType, AnsweredType, RebootDoneType,
   RdLineType, RdAbortType, RdCountType, GetDoneType, StopLoopType, StopDoneType,
   DrainType DEF Host

\* Every step and every stuttering step keeps the types.
LEMMA TypeNext == TypeOK /\ [Next]_vars => TypeOK'
<1> SUFFICES ASSUME TypeOK, [Next]_vars PROVE TypeOK' OBVIOUS
<1>1. CASE Application BY <1>1, ApplicationType
<1>2. CASE Host BY <1>2, HostType
<1>3. CASE Environment
  BY <1>3, SensorReplyType, SensorScanType, FaultType DEF Environment
<1>4. CASE UNCHANGED vars
  BY <1>4 DEF TypeOK, HostTypeOK, WorldTypeOK, vars, flags, config, host, budgets
<1> QED BY <1>1, <1>2, <1>3, <1>4 DEF Next

\* The variables of the library, the channels and the sensor keep their types
\* whatever the application calls and whatever happens to the cable.
THEOREM TypeCorrect == Spec => []TypeOK
<1> QED BY InitType, TypeNext, PTL DEF Spec

(***************************************************************************)
(* The laser.  DarkAhead is kept by every write that does not light it,    *)
(* made true by a QT, and kept by the sensor.                              *)
(***************************************************************************)
Covered == (link # "down" /\ Stopping) => DarkAhead

\* DarkAhead only reads the command queue and the laser.
LEMMA DarkSame ==
  ASSUME DarkAhead, UNCHANGED <<outbox, sensor>> PROVE DarkAhead'
BY DEF DarkAhead

\* A command that lights nothing leaves it true.
LEMMA DarkWrite ==
  ASSUME TypeOK, DarkAhead, NEW c \in CommandNames \ Lighting, NEW n \in Nat, NEW g \in Nat,
         outbox' = Sent(c, n, g), UNCHANGED sensor
  PROVE  DarkAhead'
<1> DEFINE e == [name |-> c, times |-> n, gen |-> g]
<1>1. e.name \notin Lighting OBVIOUS
<1>2. outbox' = outbox \/ outbox' = Append(outbox, e)
  BY DEF Sent
<1>3. outbox \in Seq(Command) BY DEF TypeOK, WorldTypeOK
<1> HIDE DEF e
<1>4. PICK i \in 0 .. Len(outbox) :
        /\ IF i = 0 THEN ~sensor.laser ELSE outbox[i].name = "QT"
        /\ \A j \in i + 1 .. Len(outbox) : outbox[j].name \notin Lighting
  BY DEF DarkAhead
<1>5. CASE outbox' = outbox BY <1>5, DarkSame
<1>6. CASE outbox' = Append(outbox, e)
  <2>1. /\ Len(outbox') = Len(outbox) + 1
        /\ outbox'[Len(outbox) + 1] = e
        /\ \A k \in 1 .. Len(outbox) : outbox'[k] = outbox[k]
    BY <1>3, <1>6
  <2>2. Len(outbox) \in Nat BY <1>3
  <2>3. i \in 0 .. Len(outbox') BY <2>1, <2>2
  <2>4. IF i = 0 THEN ~sensor'.laser ELSE outbox'[i].name = "QT"
    BY <1>4, <2>1, <2>2
  <2>5. ASSUME NEW j \in i + 1 .. Len(outbox') PROVE outbox'[j].name \notin Lighting
    <3>1. CASE j = Len(outbox) + 1 BY <1>1, <2>1, <3>1
    <3>2. CASE j # Len(outbox) + 1
      <4>1. j \in i + 1 .. Len(outbox) /\ j \in 1 .. Len(outbox) BY <2>1, <2>2, <3>2
      <4> QED BY <1>4, <2>1, <4>1
    <3> QED BY <3>1, <3>2
  <2> QED BY <2>3, <2>4, <2>5 DEF DarkAhead
<1> QED BY <1>2, <1>5, <1>6

\* A QT that reaches the queue makes it true.
LEMMA DarkStop ==
  ASSUME TypeOK, link = "up", Writes("QT"), UNCHANGED sensor
  PROVE  DarkAhead'
<1> DEFINE e == [name |-> "QT", times |-> 0, gen |-> 0]
<1>1. outbox' = Append(outbox, e) BY DEF Writes, Sent
<1>2. e.name = "QT" OBVIOUS
<1>3. outbox \in Seq(Command) BY DEF TypeOK, WorldTypeOK
<1> HIDE DEF e
<1>4. Len(outbox') = Len(outbox) + 1 /\ outbox'[Len(outbox) + 1] = e /\ Len(outbox) \in Nat
  BY <1>1, <1>3
<1> QED BY <1>2, <1>4 DEF DarkAhead

\* What the sensor does with a command: QT turns the laser off, only the
\* commands of Lighting turn it on.
LEMMA ObeyedLaser ==
  ASSUME TypeOK, SensorDark, NEW c \in Command
  PROVE  /\ c.name = "QT" => ~Obeyed(c).laser
         /\ c.name \notin Lighting /\ ~sensor.laser => ~Obeyed(c).laser
         /\ Obeyed(c).mode \in {"adjust", "sleep"} => ~Obeyed(c).laser
<1>1. sensor.laser \in BOOLEAN /\ sensor.mode \in {"idle", "measure", "adjust", "sleep"}
  BY DEF TypeOK, WorldTypeOK
<1>2. CASE ~Accepts(c.name)
  <2>1. Obeyed(c).laser = sensor.laser /\ Obeyed(c).mode = sensor.mode
    BY <1>2 DEF Obeyed, TypeOK, WorldTypeOK
  <2>2. c.name = "QT" => sensor.mode = "adjust"
    BY <1>2 DEF Accepts, Continuous, Single
  <2>3. Obeyed(c).laser <=> sensor.laser
    BY <2>1
  <2> QED BY <2>1, <2>2, <2>3 DEF SensorDark
<1>3. CASE Accepts(c.name)
  <2>1. Obeyed(c).laser = LaserAfter(c.name) /\ Obeyed(c).mode = ModeAfter(c.name)
    BY <1>3 DEF Obeyed
  <2>2. c.name = "QT" => ~LaserAfter(c.name)
    BY DEF LaserAfter, Lighting, Continuous
  <2>3. c.name \notin Lighting /\ ~sensor.laser => ~LaserAfter(c.name)
    BY DEF LaserAfter
  <2>4. ModeAfter(c.name) \in {"adjust", "sleep"} => ~LaserAfter(c.name)
    <3>1. CASE c.name \in Lighting
      <4>1. sensor.mode \in {"idle", "measure"}
        BY <1>3, <3>1 DEF Accepts, Lighting, Continuous
      <4> QED BY <3>1, <4>1 DEF ModeAfter, Lighting, Continuous
    <3>2. CASE c.name \in {"QT", "TM0", "TM2", "%SL"}
      BY <3>2 DEF LaserAfter, Lighting, Continuous
    <3>3. CASE c.name \notin Lighting /\ c.name \notin {"QT", "TM0", "TM2", "%SL"}
      BY <3>3 DEF LaserAfter, ModeAfter, SensorDark, Lighting
    <3> QED BY <3>1, <3>2, <3>3
  <2> QED BY <2>1, <2>2, <2>3, <2>4
<1> QED BY <1>2, <1>3

\* The sensor takes the head of the queue: DarkAhead moves with its QT.
LEMMA DarkReply ==
  ASSUME TypeOK, SensorDark, DarkAhead, SensorReply
  PROVE  DarkAhead'
<1>1. outbox \in Seq(Command) /\ outbox # <<>> /\ outbox' = Tail(outbox)
  BY DEF SensorReply, TypeOK, WorldTypeOK
<1>2. PICK i \in 0 .. Len(outbox) :
        /\ IF i = 0 THEN ~sensor.laser ELSE outbox[i].name = "QT"
        /\ \A j \in i + 1 .. Len(outbox) : outbox[j].name \notin Lighting
  BY DEF DarkAhead
<1>3. /\ Len(outbox) \in Nat \ {0} /\ Len(outbox') = Len(outbox) - 1
      /\ \A k \in 1 .. Len(outbox') : outbox'[k] = outbox[k + 1]
      /\ Head(outbox) = outbox[1] /\ outbox[1] \in Command
  BY <1>1
<1>4. sensor' = Obeyed(outbox[1])
  BY <1>3 DEF SensorReply
<1>5. CASE i > 1
  <2>1. i - 1 \in 0 .. Len(outbox') /\ i - 1 # 0
    BY <1>3, <1>5
  <2>2. outbox'[i - 1].name = "QT"
    BY <1>2, <1>3, <1>5, <2>1
  <2>3. \A j \in i .. Len(outbox') : outbox'[j].name \notin Lighting
    BY <1>2, <1>3, <1>5
  <2> QED BY <2>1, <2>2, <2>3 DEF DarkAhead
<1>6. CASE i \in {0, 1}
  <2>1. ~sensor'.laser
    BY <1>2, <1>3, <1>4, <1>6, ObeyedLaser
  <2>2. \A j \in 1 .. Len(outbox') : outbox'[j].name \notin Lighting
    BY <1>2, <1>3, <1>6
  <2>3. 0 \in 0 .. Len(outbox')
    BY <1>3
  <2> QED BY <2>1, <2>2, <2>3 DEF DarkAhead
<1> QED BY <1>5, <1>6

(***************************************************************************)
(* LaserInv is inductive when the application never calls urg_laser_on.    *)
(***************************************************************************)

\* A step that writes nothing, clears no flag and neither starts nor ends an
\* activation of urg_stop_measurement.
LEMMA QuietStep ==
  ASSUME Covered, UNCHANGED <<outbox, sensor, frames>>,
         link' # "down" => link # "down",
         pc' # "drain",
         (~is_sending' /\ ~is_laser_on') => (~is_sending /\ ~is_laser_on)
  PROVE  Covered'
BY DarkSame DEF Covered, Stopping

\* The same for a step that writes a command that lights nothing.
LEMMA WritingStep ==
  ASSUME TypeOK, Covered, UNCHANGED <<sensor, frames, link, is_sending, is_laser_on>>,
         NEW c \in CommandNames \ Lighting, NEW n \in Nat, NEW g \in Nat,
         outbox' = Sent(c, n, g),
         pc' # "drain"
  PROVE  Covered'
BY DarkWrite DEF Covered, Stopping

\* Giving up with a QT, from a place where the link is not closed.
LEMMA IgnoreStep ==
  ASSUME TypeOK, Covered, UNCHANGED <<sensor, frames, link>>, link # "closed",
         NEW a, a.pc # "drain", IgnoreReceiveDataWithQt(a)
  PROVE  Covered'
<1>1. link \in {"up", "down"} BY DEF TypeOK, WorldTypeOK
<1>2. CASE is_sending \/ is_laser_on
  <2>1. Writes("QT") BY <1>2 DEF IgnoreReceiveDataWithQt
  <2> QED BY <1>1, <2>1, DarkStop DEF Covered
<1>3. CASE ~(is_sending \/ is_laser_on)
  BY <1>3, DarkSame DEF IgnoreReceiveDataWithQt, Covered, Stopping, flags
<1> QED BY <1>2, <1>3

\* Every API call but urg_laser_on, up to its first read.
LEMMA ApplicationInv ==
  ASSUME TypeOK, LaserInv, Application, ~LaserOn
  PROVE  LaserInv'
<1>1. pc = "ready" /\ frames = <<>> /\ UNCHANGED <<sensor, link>>
  BY DEF Application, NotConnected, StartRejected, Start, Get, LaserOn, Ask, Stop, Close, Call,
     LaserInv, FramesOK, Calm
<1>2. SensorDark' BY <1>1 DEF LaserInv, SensorDark
<1>3. Covered BY DEF LaserInv, Covered
<1>4. CASE \E o \in Functions : NotConnected(o)
  <2>1. UNCHANGED <<outbox, frames, is_active, is_sending, is_laser_on>> /\ pc' = "ready"
    BY <1>4 DEF NotConnected, Returns, flags
  <2>2. FramesOK' /\ ClosedOK' BY <1>1, <2>1 DEF FramesOK, Calm, LaserInv, ClosedOK
  <2>3. Covered' BY <1>1, <1>3, <2>1, QuietStep
  <2> QED BY <1>2, <2>2, <2>3 DEF LaserInv, Covered
<1>5. ASSUME is_active PROVE link # "closed" /\ ClosedOK'
  BY <1>1, <1>5 DEF LaserInv, ClosedOK
<1>6. CASE StartRejected \/ Close
  <2>1. PICK a \in {[pc |-> "ready", code |-> "INVALID_PARAMETER"],
                    [pc |-> "close", code |-> ret]} : IgnoreReceiveDataWithQt(a)
    BY <1>6 DEF StartRejected, Close
  <2>2. a.pc \in {"ready", "close"} BY <2>1
  <2>3. is_active /\ UNCHANGED frames BY <1>6 DEF StartRejected, Close, Call
  <2>4. FramesOK' BY <1>1, <2>3 DEF FramesOK
  <2>5. Covered' BY <1>1, <1>3, <1>5, <2>1, <2>2, <2>3, IgnoreStep
  <2> QED BY <1>2, <1>5, <2>3, <2>4, <2>5 DEF LaserInv, Covered
<1>7. CASE Start
  <2>1. is_active /\ UNCHANGED frames /\ is_sending' = TRUE BY <1>7 DEF Start, Call
  <2>2. pc' # "drain" BY <1>7 DEF Start, Exchange, Returns, Fails
  <2>3. FramesOK' BY <1>1, <2>1 DEF FramesOK
  <2>4. Covered' BY <1>1, <2>1, <2>2 DEF Covered, Stopping
  <2> QED BY <1>2, <1>5, <2>1, <2>3, <2>4 DEF LaserInv, Covered
<1>8. CASE Get
  <2>1. is_active /\ UNCHANGED <<outbox, frames, is_sending, is_laser_on>> /\ pc' = "rd_echo"
    BY <1>8 DEF Get, Call, ReceiveData, flags
  <2>2. FramesOK' BY <1>1, <2>1 DEF FramesOK
  <2>3. Covered' BY <1>1, <1>3, <2>1, QuietStep
  <2> QED BY <1>2, <1>5, <2>1, <2>2, <2>3 DEF LaserInv, Covered
<1>9. CASE \E o \in {"stop", "wakeup", "sleep"} : Stop(o)
  <2>1. is_active /\ Writes("QT") BY <1>9 DEF Stop, Call
  <2>2. \/ /\ link = "up" /\ frames' = <<[reads |-> 0, held |-> "none"]>> /\ pc' = "rd_echo"
        \/ link # "up" /\ frames' = <<>> /\ pc' = "stop_done"
    BY <1>1, <1>9 DEF Stop, ReceiveData
  <2>3. FramesOK' BY <2>2 DEF FramesOK, Calm
  <2>4. Covered'
    <3>1. CASE link = "up" BY <1>1, <2>1, <3>1, DarkStop DEF Covered
    <3>2. CASE link # "up" BY <1>1, <1>5, <2>1, <3>2 DEF Covered, TypeOK, WorldTypeOK
    <3> QED BY <3>1, <3>2
  <2> QED BY <1>2, <1>5, <2>1, <2>3, <2>4 DEF LaserInv, Covered
<1>10. ASSUME NEW o, NEW c \in {"TM0", "TM1", "TM2", "VV", "RB"}, Ask(o, c)
       PROVE  LaserInv'
  <2>1. is_active /\ UNCHANGED <<frames, is_sending, is_laser_on>> /\ outbox' = Sent(c, 0, 0)
    BY <1>10 DEF Ask, Call, Exchange, Writes, flags
  <2>2. pc' # "drain" BY <1>10 DEF Ask, Exchange
  <2>3. c \in CommandNames \ Lighting BY DEF CommandNames, Lighting, Continuous
  <2>4. FramesOK' BY <1>1, <2>1 DEF FramesOK
  <2>5. Covered' BY <1>1, <1>3, <2>1, <2>2, <2>3, WritingStep
  <2> QED BY <1>2, <1>5, <2>1, <2>4, <2>5 DEF LaserInv, Covered
<1> QED BY <1>4, <1>6, <1>7, <1>8, <1>9, <1>10 DEF Application

\* The steps between the reads, and those of scip_response.
LEMMA PlainHostInv ==
  ASSUME TypeOK, LaserInv,
         \/ SendSingle \/ CloseDone \/ ScipResponse \/ LaserOnDone \/ TimeStampModeDone
         \/ TimeStampDone \/ InfoDone \/ SleepDone \/ RebootDone \/ StopDone
  PROVE  LaserInv'
<1>1. pc \in Calm \ {"ready"} /\ UNCHANGED <<sensor, frames>>
  BY DEF SendSingle, CloseDone, ScipResponse, LaserOnDone, TimeStampModeDone, TimeStampDone,
     InfoDone, SleepDone, RebootDone, StopDone, Answered, AfterAnswer, Calm, host
<1>2. frames = <<>> /\ link # "closed" BY <1>1 DEF LaserInv, FramesOK, ClosedOK, Calm
<1>3. SensorDark' /\ FramesOK' BY <1>1, <1>2 DEF LaserInv, SensorDark, FramesOK
<1>4. Covered BY DEF LaserInv, Covered
<1>5. CASE SendSingle
  <2>1. (IF rcv.type = "distance_io" THEN "GF" ELSE "GD") \in CommandNames \ Lighting
    BY DEF CommandNames, Single, Lighting, Continuous
  <2>2. /\ UNCHANGED <<link, is_sending, is_laser_on>> /\ pc' = "ready" /\ gen \in Nat
        /\ outbox' = Sent(IF rcv.type = "distance_io" THEN "GF" ELSE "GD", 1, gen)
    BY <1>5 DEF SendSingle, flags, Returns, Fails, TypeOK, WorldTypeOK
  <2>3. Covered' BY <1>1, <1>4, <2>1, <2>2, WritingStep
  <2> QED BY <1>2, <1>3, <2>2, <2>3 DEF LaserInv, Covered, ClosedOK
<1>6. CASE CloseDone
  <2>1. /\ UNCHANGED <<outbox, is_sending, is_laser_on>> /\ pc' = "ready" /\ is_active' = FALSE
        /\ link' # "down" => link # "down"
    BY <1>6 DEF CloseDone, ConnectionClose, Returns
  <2>2. Covered' BY <1>1, <1>4, <2>1, QuietStep
  <2> QED BY <1>3, <2>1, <2>2 DEF LaserInv, Covered, ClosedOK
<1>7. CASE ScipResponse \/ LaserOnDone \/ TimeStampModeDone \/ TimeStampDone \/ InfoDone \/ SleepDone
  <2>1. /\ UNCHANGED <<outbox, link, is_sending>> /\ pc' # "drain"
        /\ is_laser_on => is_laser_on'
    <3>1. CASE LaserOnDone
      BY <3>1 DEF LaserOnDone
    <3>2. CASE ScipResponse
      BY <3>2 DEF ScipResponse, flags
    <3>3. CASE TimeStampModeDone \/ TimeStampDone \/ InfoDone \/ SleepDone
      BY <3>3 DEF TimeStampModeDone, TimeStampDone, InfoDone, SleepDone, Returns, Fails, flags
    <3> QED BY <1>7, <3>1, <3>2, <3>3
  <2>2. Covered' BY <1>1, <1>4, <2>1, QuietStep
  <2> QED BY <1>2, <1>3, <2>1, <2>2 DEF LaserInv, Covered, ClosedOK
<1>8. ASSUME NEW c \in {"RB", "%SL"}, NEW r, Exchange(c, r),
             UNCHANGED <<link, is_sending, is_laser_on>>
      PROVE  LaserInv'
  <2>1. outbox' = Sent(c, 0, 0) /\ pc' # "drain" BY <1>8 DEF Exchange, Writes
  <2>2. c \in CommandNames \ Lighting BY DEF CommandNames, Lighting, Continuous
  <2>3. Covered' BY <1>1, <1>4, <1>8, <2>1, <2>2, WritingStep
  <2> QED BY <1>2, <1>3, <1>8, <2>3 DEF LaserInv, Covered, ClosedOK
<1>9. CASE RebootDone
  <2>1. UNCHANGED <<is_sending, is_laser_on>> BY <1>9 DEF RebootDone
  <2>2. CASE ret # "POSITIVE"
    <3>1. UNCHANGED <<outbox, link>> /\ pc' = "ready"
      BY <1>9, <2>2 DEF RebootDone, Returns, Fails
    <3>2. Covered' BY <1>1, <1>4, <2>1, <3>1, QuietStep
    <3> QED BY <1>2, <1>3, <3>1, <3>2 DEF LaserInv, Covered, ClosedOK
  <2>3. CASE ret = "POSITIVE" /\ xchg.round = 1
    <3>1. Exchange("RB", 2) /\ UNCHANGED link BY <1>9, <2>3 DEF RebootDone
    <3> QED BY <1>8, <2>1, <3>1
  <2>4. CASE ret = "POSITIVE" /\ xchg.round = 2
    <3>1. ConnectionClose /\ Returns("NO_ERROR") /\ UNCHANGED outbox
      BY <1>9, <2>4 DEF RebootDone
    <3>2. pc' = "ready" /\ is_active' = FALSE /\ (link' # "down" => link # "down")
      BY <3>1 DEF ConnectionClose, Returns
    <3>3. Covered' BY <1>1, <1>4, <2>1, <3>1, <3>2, QuietStep
    <3> QED BY <1>3, <3>2, <3>3 DEF LaserInv, Covered, ClosedOK
  <2>5. xchg.round \in {1, 2} BY DEF TypeOK, HostTypeOK
  <2> QED BY <2>2, <2>3, <2>4, <2>5
<1>10. CASE StopDone
  <2>1. UNCHANGED <<link, is_sending, is_laser_on>> BY <1>10 DEF StopDone, flags
  <2>2. CASE Exchange("%SL", 1) BY <1>8, <2>1, <2>2
  <2>3. CASE Returns(ret) /\ UNCHANGED outbox
    <3>1. pc' = "ready" BY <2>3 DEF Returns
    <3>2. Covered' BY <1>1, <1>4, <2>1, <2>3, <3>1, QuietStep
    <3> QED BY <1>2, <1>3, <2>1, <3>2 DEF LaserInv, Covered, ClosedOK
  <2> QED BY <1>10, <2>2, <2>3 DEF StopDone
<1> QED BY <1>5, <1>6, <1>7, <1>9, <1>10

\* receive_data, urg_stop_measurement and ignore_receive_data.
LEMMA ReadingInv ==
  ASSUME TypeOK, LaserInv,
         \/ RdEcho \/ RdStatus \/ RdQt \/ RdAck \/ RdIo \/ RdStamp \/ RdData
         \/ RdCount \/ GetDone \/ StopLoop \/ Drain
  PROVE  LaserInv'
<1>1. pc # "ready" /\ UNCHANGED <<link, sensor>>
  BY DEF RdEcho, RdStatus, RdQt, RdAck, RdIo, RdStamp, RdData, RdCount, GetDone, StopLoop,
     Drain, Reading
<1>2. SensorDark' BY <1>1 DEF LaserInv, SensorDark
<1>3. link # "closed" /\ ClosedOK' BY <1>1 DEF LaserInv, ClosedOK
<1>4. Covered /\ FramesOK BY DEF LaserInv, Covered
<1>5. link \in {"up", "down"} BY <1>3 DEF TypeOK, WorldTypeOK
<1>6. ASSUME UNCHANGED <<outbox, frames, is_sending, is_laser_on>>,
             pc' \notin Calm \cup {"drain"}
      PROVE  LaserInv'
  <2>1. FramesOK' BY <1>4, <1>6 DEF FramesOK
  <2>2. Covered' BY <1>1, <1>4, <1>6, QuietStep
  <2> QED BY <1>2, <1>3, <2>1, <2>2 DEF LaserInv, Covered
<1>7. ASSUME NEW p, p \notin Calm \cup {"drain"}, NEW code, Abort(p, code), UNCHANGED frames
      PROVE  LaserInv'
  <2> DEFINE a == [pc |-> p, code |-> code]
  <2>1. a.pc = p OBVIOUS
  <2>2. IgnoreReceiveDataWithQt(a) BY <1>7 DEF Abort
  <2> HIDE DEF a
  <2>3. Covered' BY <1>1, <1>3, <1>4, <1>7, <2>1, <2>2, IgnoreStep
  <2>4. (pc' = "drain" /\ after' = a) \/ pc' = p
    BY <2>1, <2>2 DEF IgnoreReceiveDataWithQt, Resume
  <2>5. FramesOK' BY <1>4, <1>7, <2>1, <2>4 DEF FramesOK, Calm
  <2> QED BY <1>2, <1>3, <2>3, <2>5 DEF LaserInv, Covered
<1>8. CASE RdEcho
  BY <1>6, <1>8 DEF RdEcho, Untouched, flags, FailRet, GoRet, Calm
<1>9. CASE RdStatus
  <2>1. \/ Abort("rd_ret", "INVALID_RESPONSE")
        \/ Abort(IF rcv.stamp THEN "rd_ret" ELSE "crashed", "CHECKSUM_ERROR")
        \/ Untouched /\ pc' \in {"rd_qt", "rd_ack", "rd_io", "rd_stamp"}
    BY <1>9 DEF RdStatus
  <2>2. UNCHANGED frames BY <1>9 DEF RdStatus
  <2>3. "rd_ret" \notin Calm \cup {"drain"}
        /\ (IF rcv.stamp THEN "rd_ret" ELSE "crashed") \notin Calm \cup {"drain"}
    BY DEF Calm
  <2>4. CASE Untouched /\ pc' \in {"rd_qt", "rd_ack", "rd_io", "rd_stamp"}
    BY <1>6, <2>2, <2>4 DEF Untouched, flags, Calm
  <2> QED BY <1>7, <2>1, <2>2, <2>3, <2>4
<1>10. CASE RdQt \/ RdIo \/ RdStamp
  BY <1>6, <1>10 DEF RdQt, RdIo, RdStamp, Untouched, flags, FailRet, GoRet, Calm
<1>11. CASE RdAck
  <2>1. \/ ReceiveData(rcv.stamp) /\ Untouched
        \/ Abort("rd_ret", "INVALID_RESPONSE")
    BY <1>11 DEF RdAck
  <2>2. UNCHANGED frames BY <1>11 DEF RdAck
  <2>3. "rd_ret" \notin Calm \cup {"drain"} BY DEF Calm
  <2>4. CASE ReceiveData(rcv.stamp) /\ Untouched
    BY <1>6, <2>2, <2>4 DEF ReceiveData, Untouched, flags, Calm
  <2> QED BY <1>7, <2>1, <2>2, <2>3, <2>4
<1>12. CASE RdData
  <2>1. \/ Abort("rd_count", "CHECKSUM_ERROR")
        \/ Abort("rd_count", "RECEIVE_ERROR")
        \/ Untouched /\ (pc' = "rd_count" \/ pc' = pc)
    BY <1>12 DEF RdData
  <2>2. UNCHANGED frames /\ pc = "rd_data" BY <1>12 DEF RdData, Reading
  <2>3. "rd_count" \notin Calm \cup {"drain"} BY DEF Calm
  <2>4. CASE Untouched /\ (pc' = "rd_count" \/ pc' = pc)
    BY <1>6, <2>2, <2>4 DEF Untouched, flags, Calm
  <2> QED BY <1>7, <2>1, <2>2, <2>3, <2>4
<1>13. CASE RdCount
  <2>1. UNCHANGED <<is_sending, is_laser_on>> BY <1>13 DEF RdCount, flags
  <2>2. \/ /\ link = "up" /\ Writes("QT") /\ pc' = "rd_echo"
           /\ frames' = Append(frames, [reads |-> 0, held |-> ret])
        \/ UNCHANGED <<outbox, frames>> /\ pc' = "rd_ret"
    BY <1>13 DEF RdCount, ReceiveData
  <2>3. CASE UNCHANGED <<outbox, frames>> /\ pc' = "rd_ret"
    BY <1>6, <2>1, <2>3 DEF Calm
  <2>4. CASE /\ link = "up" /\ Writes("QT") /\ pc' = "rd_echo"
             /\ frames' = Append(frames, [reads |-> 0, held |-> ret])
    <3>1. Covered' BY <1>1, <2>4, DarkStop DEF Covered
    <3> DEFINE f == [reads |-> 0, held |-> ret]
    <3>2. f.held # "none" BY DEF TypeOK, HostTypeOK, Codes, Errors
    <3>3. frames' = Append(frames, f) BY <2>4
    <3> HIDE DEF f
    <3>4. \A i \in DOMAIN frames' : frames'[i].held = "none" => i = 1
      BY <1>4, <3>2, <3>3 DEF FramesOK, TypeOK, HostTypeOK
    <3>5. FramesOK' BY <2>4, <3>4 DEF FramesOK, Calm
    <3> QED BY <1>2, <1>3, <3>1, <3>5 DEF LaserInv, Covered
  <2> QED BY <2>2, <2>3, <2>4
<1>14. CASE GetDone
  <2>1. UNCHANGED <<outbox, frames, is_sending, is_laser_on>> /\ frames = <<>> /\ pc' = "ready"
    BY <1>14 DEF GetDone, Untouched, Returns, flags
  <2>2. FramesOK' BY <2>1 DEF FramesOK
  <2>3. Covered' BY <1>1, <1>4, <2>1, QuietStep
  <2> QED BY <1>2, <1>3, <2>2, <2>3 DEF LaserInv, Covered
<1>15. CASE StopLoop
  <2>1. frames # <<>> /\ frames \in Seq(Frame) /\ UNCHANGED outbox
    BY <1>15 DEF StopLoop, TypeOK, HostTypeOK
  <2>2. Covered' BY <1>1, <1>4, <2>1, DarkSame DEF Covered, Stopping
  <2>3. CASE StopReturns
    <3>1. frames' = SubSeq(frames, 1, Len(frames) - 1) BY <2>3 DEF StopReturns
    <3>2. \A i \in DOMAIN frames' : i \in DOMAIN frames /\ frames'[i] = frames[i]
      BY <2>1, <3>1
    <3>5. FramesOK'
      <4>1. CASE top.held = "none"
        <5>1. Len(frames) \in DOMAIN frames BY <2>1
        <5>2. Len(frames) = 1 BY <1>4, <4>1, <5>1 DEF FramesOK, top
        <5>3. frames' = <<>> BY <2>1, <3>1, <5>2
        <5>4. \A i \in DOMAIN frames' : FALSE BY <5>3
        <5> QED BY <5>3, <5>4 DEF FramesOK
      <4>2. CASE top.held # "none"
        <5>1. pc' = "rd_ret" BY <2>3, <4>2 DEF StopReturns
        <5>2. \A i \in DOMAIN frames' : frames'[i].held = "none" => i = 1
          BY <1>4, <3>2 DEF FramesOK
        <5> QED BY <5>1, <5>2 DEF FramesOK, Calm
      <4> QED BY <4>1, <4>2
    <3> QED BY <1>2, <1>3, <2>2, <3>5 DEF LaserInv, Covered
  <2>4. CASE frames' = [frames EXCEPT ![Len(frames)].reads = @ + 1] /\ ReceiveData(FALSE)
    <3>1. pc' = "rd_echo" BY <2>4 DEF ReceiveData
    <3>2. \A i \in DOMAIN frames' : i \in DOMAIN frames /\ frames'[i].held = frames[i].held
      BY <2>1, <2>4 DEF Frame
    <3>3. FramesOK' BY <1>4, <3>1, <3>2 DEF FramesOK, Calm
    <3> QED BY <1>2, <1>3, <2>2, <3>3 DEF LaserInv, Covered
  <2> QED BY <1>15, <2>3, <2>4 DEF StopLoop
<1>16. CASE Drain
  <2>1. pc = "drain" /\ UNCHANGED <<outbox, frames>> BY <1>16 DEF Drain, Reading
  <2>2. pc' = after.pc \/ (pc' = pc /\ after' = after)
    BY <1>16 DEF Drain, Resume
  <2>3. UNCHANGED after BY <1>16 DEF Drain
  <2>4. FramesOK' BY <1>4, <2>1, <2>2, <2>3 DEF FramesOK
  <2>5. Covered' BY <1>1, <1>4, <2>1, DarkSame DEF Covered, Stopping
  <2> QED BY <1>2, <1>3, <2>4, <2>5 DEF LaserInv, Covered
<1> QED BY <1>8, <1>9, <1>10, <1>11, <1>12, <1>13, <1>14, <1>15, <1>16

\* The sensor and the cable preserve LaserInv.
LEMMA EnvironmentInv ==
  ASSUME TypeOK, LaserInv, Environment PROVE LaserInv'
<1>1. UNCHANGED <<flags, pc, host>>
  BY DEF Environment, SensorReply, SensorScan, Garble, Lose, Break, Fault, HostUnchanged
<1>2. FramesOK' BY <1>1 DEF LaserInv, FramesOK, host
<1>3. Covered BY DEF LaserInv, Covered
<1>4. Stopping' => Stopping BY <1>1 DEF Stopping, flags, host
<1>5. CASE SensorReply
  <2>1. UNCHANGED link BY <1>5 DEF SensorReply
  <2>2. ClosedOK' BY <1>1, <2>1 DEF LaserInv, ClosedOK, flags
  <2>3. Head(outbox) \in Command BY <1>5 DEF SensorReply, TypeOK, WorldTypeOK
  <2>4. SensorDark BY DEF LaserInv
  <2>5. SensorDark' BY <1>5, <2>3, <2>4, ObeyedLaser DEF SensorReply, SensorDark
  <2>6. Covered' BY <1>3, <1>4, <1>5, <2>1, <2>4, DarkReply DEF Covered
  <2> QED BY <1>2, <2>2, <2>5, <2>6 DEF LaserInv, Covered
<1>6. CASE SensorScan
  <2>1. UNCHANGED <<link, outbox>> BY <1>6 DEF SensorScan
  <2>2. ClosedOK' BY <1>1, <2>1 DEF LaserInv, ClosedOK, flags
  <2>3. (sensor.mode)' \in {"idle", "measure"} /\ (~sensor.laser => (~sensor.laser)')
    <3>1. CASE sensor.left = 1
      <4>1. PICK lit \in {FALSE, sensor.laser} :
              sensor' = [sensor EXCEPT !.mode = "idle", !.laser = lit, !.left = 0]
        BY <1>6, <3>1 DEF SensorScan
      <4>2. ~sensor.laser => ~lit BY <4>1
      <4> QED BY <4>1, <4>2 DEF TypeOK, WorldTypeOK
    <3>2. CASE sensor.left # 1
      BY <1>6, <3>2 DEF SensorScan, TypeOK, WorldTypeOK
    <3> QED BY <3>1, <3>2
  <2>4. SensorDark' BY <2>3 DEF SensorDark
  <2>5. DarkAhead => DarkAhead' BY <2>1, <2>3 DEF DarkAhead
  <2>6. Covered' BY <1>3, <1>4, <2>1, <2>5 DEF Covered
  <2> QED BY <1>2, <2>2, <2>4, <2>6 DEF LaserInv, Covered
<1>7. CASE Garble \/ Lose \/ Break
  <2>1. UNCHANGED sensor BY <1>7 DEF Garble, Lose, Break, Fault
  <2>2. UNCHANGED <<link, outbox>> \/ link' = "down"
    BY <1>7 DEF Garble, Lose, Break
  <2>3. ClosedOK' BY <1>1, <2>2 DEF LaserInv, ClosedOK, flags
  <2>4. SensorDark' BY <2>1 DEF LaserInv, SensorDark
  <2>5. Covered' BY <1>3, <1>4, <2>1, <2>2, DarkSame DEF Covered
  <2> QED BY <1>2, <2>3, <2>4, <2>5 DEF LaserInv, Covered
<1> QED BY <1>5, <1>6, <1>7 DEF Environment

\* LaserInv is inductive relative to TypeOK when nothing calls urg_laser_on.
LEMMA LaserNext ==
  "laser_on" \notin Calls => (TypeOK /\ LaserInv /\ [Next]_vars => LaserInv')
<1> SUFFICES ASSUME "laser_on" \notin Calls, TypeOK, LaserInv, [Next]_vars PROVE LaserInv'
  OBVIOUS
<1>1. CASE Application
  <2>1. ~LaserOn BY DEF LaserOn, Ask, Call
  <2> QED BY <1>1, <2>1, ApplicationInv
<1>2. CASE Host BY <1>2, PlainHostInv, ReadingInv DEF Host
<1>3. CASE Environment BY <1>3, EnvironmentInv
<1>4. CASE UNCHANGED vars
  BY <1>4 DEF vars, flags, host, LaserInv, FramesOK, ClosedOK, SensorDark, Stopping, DarkAhead
<1> QED BY <1>1, <1>2, <1>3, <1>4 DEF Next

\* LaserInv holds when urg_open has returned.
LEMMA LaserInit == Init => LaserInv
<1> SUFFICES ASSUME Init PROVE LaserInv OBVIOUS
<1>1. FramesOK /\ ClosedOK /\ SensorDark BY DEF Init, FramesOK, ClosedOK, SensorDark
<1>2. DarkAhead BY DEF Init, DarkAhead
<1> QED BY <1>1, <1>2 DEF LaserInv

\* An application that leaves urg_laser_on to urg_start_measurement never sees
\* both flags of urg_t false while the laser is, or is about to be, lit: a QT
\* is already on its way.  Garbled and lost lines, late answers and a sensor
\* that sends on do not matter.
THEOREM LaserIsCovered ==
  ASSUME "laser_on" \notin Calls PROVE Spec => []LaserCovered
<1>1. LaserInv => LaserCovered BY DEF LaserInv, LaserCovered, Stopping
<1>2. TypeOK /\ LaserInv /\ [Next]_vars => LaserInv' BY LaserNext
<1> QED BY <1>1, <1>2, LaserInit, TypeCorrect, PTL DEF Spec

(***************************************************************************)
(* A session that was closed leaves a dark sensor: urg_close by the QT its *)
(* flags ask for, urg_reboot, which looks at no flag, by the second of two *)
(* RB in a row.                                                            *)
(***************************************************************************)

\* The queue ends with a first RB: after it the sensor is dark, or one RB away
\* from it.
FirstRB ==
  IF outbox = <<>> THEN sensor.rb \/ ~sensor.laser
  ELSE outbox[Len(outbox)].name = "RB"

\* The queue ends with a second RB: after it the sensor is dark.
SecondRB ==
  IF outbox = <<>> THEN ~sensor.laser
  ELSE /\ outbox[Len(outbox)].name = "RB"
       /\ IF Len(outbox) = 1 THEN sensor.rb \/ ~sensor.laser
                             ELSE outbox[Len(outbox) - 1].name = "RB"

\* The first RB is written.
LEMMA FirstWritten ==
  ASSUME TypeOK, link = "up", Writes("RB"), UNCHANGED sensor
  PROVE  FirstRB'
<1> DEFINE e == [name |-> "RB", times |-> 0, gen |-> 0]
<1>1. outbox' = Append(outbox, e) BY DEF Writes, Sent
<1>2. e.name = "RB" OBVIOUS
<1>3. outbox \in Seq(Command) BY DEF TypeOK, WorldTypeOK
<1> HIDE DEF e
<1>4. outbox' # <<>> /\ outbox'[Len(outbox')] = e BY <1>1, <1>3
<1> QED BY <1>2, <1>4 DEF FirstRB

\* The second RB is written, nothing having been written in between.
LEMMA SecondWritten ==
  ASSUME TypeOK, FirstRB, link = "up", Writes("RB"), UNCHANGED sensor
  PROVE  SecondRB'
<1> DEFINE e == [name |-> "RB", times |-> 0, gen |-> 0]
<1>1. outbox' = Append(outbox, e) BY DEF Writes, Sent
<1>2. e.name = "RB" OBVIOUS
<1>3. outbox \in Seq(Command) BY DEF TypeOK, WorldTypeOK
<1> HIDE DEF e
<1>4. /\ Len(outbox') = Len(outbox) + 1 /\ outbox' # <<>> /\ Len(outbox) \in Nat
      /\ outbox'[Len(outbox) + 1] = e
      /\ \A k \in 1 .. Len(outbox) : outbox'[k] = outbox[k]
  BY <1>1, <1>3
<1>5. CASE outbox = <<>>
  <2>1. Len(outbox') = 1 BY <1>3, <1>4, <1>5
  <2> QED BY <1>2, <1>4, <1>5, <2>1 DEF FirstRB, SecondRB
<1>6. CASE outbox # <<>>
  <2>1. Len(outbox) > 0 BY <1>3, <1>6
  <2>2. outbox'[Len(outbox)].name = "RB" BY <1>4, <1>6, <2>1 DEF FirstRB
  <2>3. Len(outbox') # 1 /\ Len(outbox') - 1 = Len(outbox) BY <1>4, <2>1
  <2> QED BY <1>2, <1>4, <2>2, <2>3 DEF SecondRB
<1> QED BY <1>5, <1>6

\* What the sensor does with an RB: the second in a row turns the laser off.
LEMMA ObeyedRB ==
  ASSUME TypeOK, NEW c \in Command, c.name = "RB"
  PROVE  /\ Obeyed(c).rb \/ ~Obeyed(c).laser
         /\ sensor.rb \/ ~sensor.laser => ~Obeyed(c).laser
<1>1. Accepts(c.name) BY DEF Accepts, Continuous, Single
<1>2. Obeyed(c).laser = LaserAfter("RB") /\ Obeyed(c).rb = ~sensor.rb
  BY <1>1 DEF Obeyed
<1>3. LaserAfter("RB") = IF sensor.rb THEN FALSE ELSE sensor.laser
  BY DEF LaserAfter, Lighting, Continuous
<1> QED BY <1>2, <1>3

\* The sensor takes the head of the queue.
LEMMA RBReply ==
  ASSUME TypeOK, SensorReply
  PROVE  (FirstRB => FirstRB') /\ (SecondRB => SecondRB')
<1>1. outbox \in Seq(Command) /\ outbox # <<>> /\ outbox' = Tail(outbox)
  BY DEF SensorReply, TypeOK, WorldTypeOK
<1> DEFINE n == Len(outbox)
<1>2. /\ n \in Nat \ {0} /\ Len(outbox') = n - 1
      /\ \A k \in 1 .. n - 1 : outbox'[k] = outbox[k + 1]
      /\ Head(outbox) = outbox[1] /\ outbox[1] \in Command
      /\ outbox' = <<>> <=> n = 1
  <2>1. /\ n \in Nat \ {0} /\ Len(outbox') = n - 1
        /\ \A k \in 1 .. n - 1 : outbox'[k] = outbox[k + 1]
        /\ Head(outbox) = outbox[1] /\ outbox[1] \in Command
    BY <1>1
  <2>2. outbox' \in Seq(Command) BY <1>1
  <2>3. outbox' = <<>> <=> Len(outbox') = 0 BY <2>2
  <2> QED BY <2>1, <2>3
<1>3. sensor' = Obeyed(outbox[1]) BY <1>2 DEF SensorReply
<1>4. ASSUME FirstRB PROVE FirstRB'
  <2>1. outbox[n].name = "RB" BY <1>1, <1>4 DEF FirstRB
  <2>2. CASE n = 1 BY <1>2, <1>3, <2>1, <2>2, ObeyedRB DEF FirstRB
  <2>3. CASE n > 1
    <3>1. outbox'[n - 1] = outbox[n] BY <1>2, <2>3
    <3> QED BY <1>2, <2>1, <2>3, <3>1 DEF FirstRB
  <2> QED BY <1>2, <2>2, <2>3
<1>5. ASSUME SecondRB PROVE SecondRB'
  <2>1. /\ outbox[n].name = "RB"
        /\ IF n = 1 THEN sensor.rb \/ ~sensor.laser ELSE outbox[n - 1].name = "RB"
    BY <1>1, <1>5 DEF SecondRB
  <2>2. CASE n = 1 BY <1>2, <1>3, <2>1, <2>2, ObeyedRB DEF SecondRB
  <2>3. CASE n = 2
    <3>1. sensor'.rb \/ ~sensor'.laser BY <1>2, <1>3, <2>1, <2>3, ObeyedRB
    <3>2. outbox'[1] = outbox[2] BY <1>2, <2>3
    <3> QED BY <1>2, <2>1, <2>3, <3>1, <3>2 DEF SecondRB
  <2>4. CASE n > 2
    <3>1. outbox'[n - 1] = outbox[n] /\ outbox'[n - 2] = outbox[n - 1] BY <1>2, <2>4
    <3>2. Len(outbox') # 1 /\ outbox' # <<>> /\ Len(outbox') - 1 = n - 2 BY <1>2, <2>4
    <3> QED BY <1>2, <2>1, <2>4, <3>1, <3>2 DEF SecondRB
  <2> QED BY <1>2, <2>2, <2>3, <2>4
<1> QED BY <1>4, <1>5

(***************************************************************************)
(* What closing relies on.                                                 *)
(***************************************************************************)
AwaitsAnswer == pc \in {"xchg", "xchg_done"}

\* On the way to the end of a session: urg_reboot has written its RBs and nothing
\* behind them; urg_close has cleared is_laser_on, and is_sending when it is done
\* reading; and a closed session has dealt with the laser.
CloseInv ==
  /\ pc = "drain" => after.pc \notin {"xchg", "xchg_done"}
  /\ link # "down" =>
       /\ AwaitsAnswer /\ op = "reboot" => IF xchg.round = 1 THEN FirstRB ELSE SecondRB
       /\ pc = "drain" /\ after.pc = "close" => ~is_laser_on
       /\ pc = "close" => ~is_sending /\ ~is_laser_on
       /\ link = "closed" => DarkAhead \/ SecondRB

\* A step that ends elsewhere.
LEMMA Elsewhere ==
  ASSUME pc' = "drain" => (after.pc \notin {"xchg", "xchg_done", "close"})',
         link' # "down" => /\ link' # "closed" /\ pc' # "close"
                           /\ AwaitsAnswer' => op' # "reboot"
  PROVE  CloseInv'
BY DEF CloseInv

\* Giving up, in any place but urg_close.
LEMMA GivingUp ==
  ASSUME link' # "closed", NEW a, a.pc \notin {"xchg", "xchg_done", "close", "drain"},
         IgnoreReceiveDataWithQt(a)
  PROVE  CloseInv'
<1>1. (pc' = "drain" /\ after' = a) \/ pc' = a.pc
  BY DEF IgnoreReceiveDataWithQt, Resume
<1> QED BY <1>1, Elsewhere DEF AwaitsAnswer

\* The API calls, up to their first read.
LEMMA CloseApplication ==
  ASSUME TypeOK, LaserInv, CloseInv, Application
  PROVE  CloseInv'
<1>1. CASE \E o \in Functions : NotConnected(o)
  <2>1. pc' = "ready" /\ UNCHANGED <<outbox, sensor, link>>
    BY <1>1 DEF NotConnected, Returns
  <2>2. (DarkAhead => DarkAhead') /\ (SecondRB => SecondRB')
    BY <2>1, DarkSame DEF SecondRB
  <2> QED BY <2>1, <2>2 DEF CloseInv, AwaitsAnswer
<1>2. ASSUME NEW o, Call(o) PROVE link \in {"up", "down"} /\ UNCHANGED <<link, sensor>> /\ op' = o
  BY <1>2 DEF Call, LaserInv, ClosedOK, TypeOK, WorldTypeOK
<1>3. CASE StartRejected
  <2> DEFINE a == [pc |-> "ready", code |-> "INVALID_PARAMETER"]
  <2>1. a.pc = "ready" /\ IgnoreReceiveDataWithQt(a) BY <1>3 DEF StartRejected
  <2>2. link' # "closed" BY <1>2, <1>3 DEF StartRejected
  <2> HIDE DEF a
  <2> QED BY <2>1, <2>2, GivingUp
<1>4. CASE Start
  <2>1. link' # "closed" /\ op' = "start" BY <1>2, <1>4 DEF Start
  <2>2. pc' \notin {"drain", "close"} BY <1>4 DEF Start, Exchange, Returns, Fails
  <2> QED BY <2>1, <2>2, Elsewhere
<1>5. CASE Get
  <2>1. link' # "closed" /\ pc' = "rd_echo" BY <1>2, <1>5 DEF Get, ReceiveData
  <2> QED BY <2>1, Elsewhere DEF AwaitsAnswer
<1>6. CASE \E o \in {"stop", "wakeup", "sleep"} : Stop(o)
  <2>1. link' # "closed" /\ pc' \in {"rd_echo", "stop_done"}
    BY <1>2, <1>6 DEF Stop, ReceiveData
  <2> QED BY <2>1, Elsewhere DEF AwaitsAnswer
<1>7. ASSUME NEW o, NEW c, Ask(o, c), o # "reboot" PROVE CloseInv'
  <2>1. link' # "closed" /\ op' # "reboot" BY <1>2, <1>7 DEF Ask
  <2>2. pc' \notin {"drain", "close"} BY <1>7 DEF Ask, Exchange
  <2> QED BY <2>1, <2>2, Elsewhere
<1>8. CASE Ask("reboot", "RB")
  <2>1. link \in {"up", "down"} /\ UNCHANGED <<link, sensor>> BY <1>2, <1>8 DEF Ask
  <2>2. pc' \notin {"drain", "close"} /\ (xchg.round)' = 1 /\ Writes("RB")
    BY <1>8 DEF Ask, Exchange
  <2>3. link = "up" => FirstRB' BY <2>1, <2>2, FirstWritten
  <2> QED BY <2>1, <2>2, <2>3 DEF CloseInv
<1>9. CASE LaserOn
  <2>1. CASE Ask("laser_on", "BM") BY <1>7, <2>1
  <2>2. CASE ~Ask("laser_on", "BM")
    <3>1. link' # "closed" /\ pc' = "ready" BY <1>2, <1>9, <2>2 DEF LaserOn, Returns
    <3> QED BY <3>1, Elsewhere DEF AwaitsAnswer
  <2> QED BY <2>1, <2>2
<1>10. CASE Close
  <2> DEFINE a == [pc |-> "close", code |-> ret]
  <2>1. a.pc = "close" /\ IgnoreReceiveDataWithQt(a) BY <1>10 DEF Close
  <2>2. link' # "closed" BY <1>2, <1>10 DEF Close
  <2> HIDE DEF a
  <2>3. CASE is_sending \/ is_laser_on
    <3>1. /\ is_laser_on' = FALSE /\ UNCHANGED is_sending
          /\ \/ is_sending /\ pc' = "drain" /\ after' = a
             \/ ~is_sending /\ pc' = "close"
      BY <2>1, <2>3 DEF IgnoreReceiveDataWithQt, Resume
    <3> QED BY <2>1, <2>2, <3>1 DEF CloseInv, AwaitsAnswer
  <2>4. CASE ~(is_sending \/ is_laser_on)
    <3>1. pc' = "close" /\ UNCHANGED <<is_sending, is_laser_on>>
      BY <2>1, <2>4 DEF IgnoreReceiveDataWithQt, Resume, flags
    <3> QED BY <2>2, <2>4, <3>1 DEF CloseInv, AwaitsAnswer
  <2> QED BY <2>3, <2>4
<1> QED BY <1>1, <1>3, <1>4, <1>5, <1>6, <1>7, <1>8, <1>9, <1>10 DEF Application

\* The steps between the reads, and those of scip_response.
LEMMA ClosePlainHost ==
  ASSUME TypeOK, LaserInv, CloseInv,
         \/ SendSingle \/ CloseDone \/ ScipResponse \/ LaserOnDone \/ TimeStampModeDone
         \/ TimeStampDone \/ InfoDone \/ SleepDone \/ RebootDone \/ StopDone
  PROVE  CloseInv'
<1>1. pc \in Calm \ {"ready"} /\ UNCHANGED sensor
  BY DEF SendSingle, CloseDone, ScipResponse, LaserOnDone, TimeStampModeDone, TimeStampDone,
     InfoDone, SleepDone, RebootDone, StopDone, Answered, AfterAnswer, Calm, host
<1>2. link \in {"up", "down"} BY <1>1 DEF LaserInv, ClosedOK, TypeOK, WorldTypeOK
<1>3. CASE \/ SendSingle \/ LaserOnDone \/ TimeStampModeDone \/ TimeStampDone
           \/ InfoDone \/ SleepDone
  <2>1. UNCHANGED link /\ pc' \in {"ready", "send_single"}
    <3>1. CASE SendSingle BY <3>1 DEF SendSingle, Returns, Fails
    <3>2. CASE LaserOnDone BY <3>2 DEF LaserOnDone
    <3>3. CASE TimeStampModeDone \/ TimeStampDone \/ InfoDone \/ SleepDone
      BY <3>3 DEF TimeStampModeDone, TimeStampDone, InfoDone, SleepDone, Returns, Fails
    <3> QED BY <1>3, <3>1, <3>2, <3>3
  <2> QED BY <1>2, <2>1, Elsewhere DEF AwaitsAnswer
<1>4. CASE CloseDone
  <2>1. /\ pc = "close" /\ pc' = "ready" /\ UNCHANGED outbox
        /\ link' # "down" => link # "down"
    BY <1>4 DEF CloseDone, ConnectionClose, Returns
  <2>2. link # "down" => DarkAhead BY <2>1 DEF CloseInv, LaserInv, Stopping
  <2>3. link' # "down" => DarkAhead' BY <1>1, <2>1, <2>2, DarkSame
  <2> QED BY <2>1, <2>3 DEF CloseInv, AwaitsAnswer
<1>5. CASE ScipResponse
  <2>1. /\ AwaitsAnswer /\ UNCHANGED <<op, outbox, link>> /\ pc' \in {"xchg", "xchg_done"}
        /\ (xchg.round)' = xchg.round
    BY <1>5 DEF ScipResponse, AwaitsAnswer, TypeOK, HostTypeOK
  <2>2. (FirstRB => FirstRB') /\ (SecondRB => SecondRB')
    BY <1>1, <2>1 DEF FirstRB, SecondRB
  <2> QED BY <1>2, <2>1, <2>2 DEF CloseInv
<1>6. CASE RebootDone
  <2>1. AwaitsAnswer /\ op = "reboot" /\ xchg.round \in {1, 2}
    BY <1>6 DEF RebootDone, Answered, AwaitsAnswer, TypeOK, HostTypeOK
  <2>2. CASE ret # "POSITIVE"
    <3>1. UNCHANGED link /\ pc' = "ready" BY <1>6, <2>2 DEF RebootDone, Returns, Fails
    <3> QED BY <1>2, <3>1, Elsewhere DEF AwaitsAnswer
  <2>3. CASE ret = "POSITIVE" /\ xchg.round = 1
    <3>1. Exchange("RB", 2) /\ UNCHANGED link BY <1>6, <2>3 DEF RebootDone
    <3>2. pc' \in {"xchg", "xchg_done"} /\ (xchg.round)' = 2 /\ Writes("RB")
      BY <3>1 DEF Exchange
    <3>3. link = "up" => SecondRB' BY <1>1, <2>1, <2>3, <3>2, SecondWritten DEF CloseInv
    <3> QED BY <1>2, <3>1, <3>2, <3>3 DEF CloseInv
  <2>4. CASE ret = "POSITIVE" /\ xchg.round = 2
    <3>1. /\ pc' = "ready" /\ UNCHANGED outbox
          /\ link' # "down" => link # "down"
      BY <1>6, <2>4 DEF RebootDone, ConnectionClose, Returns
    <3>2. link # "down" => SecondRB BY <2>1, <2>4 DEF CloseInv
    <3>3. link' # "down" => SecondRB' BY <1>1, <3>1, <3>2 DEF SecondRB
    <3> QED BY <3>1, <3>3 DEF CloseInv, AwaitsAnswer
  <2> QED BY <2>1, <2>2, <2>3, <2>4
<1>7. CASE StopDone
  <2>1. UNCHANGED <<link, op>> BY <1>7 DEF StopDone
  <2>2. \/ pc' = "ready"
        \/ op = "sleep" /\ pc' \in {"xchg", "xchg_done"}
    BY <1>7 DEF StopDone, Exchange, Returns
  <2> QED BY <1>2, <2>1, <2>2, Elsewhere DEF AwaitsAnswer
<1> QED BY <1>3, <1>4, <1>5, <1>6, <1>7

\* receive_data, urg_stop_measurement and ignore_receive_data.
LEMMA CloseReading ==
  ASSUME TypeOK, LaserInv, CloseInv,
         \/ RdEcho \/ RdStatus \/ RdQt \/ RdAck \/ RdIo \/ RdStamp \/ RdData
         \/ RdCount \/ GetDone \/ StopLoop \/ Drain
  PROVE  CloseInv'
<1>1. pc # "ready" /\ UNCHANGED <<link, op>>
  BY DEF RdEcho, RdStatus, RdQt, RdAck, RdIo, RdStamp, RdData, RdCount, GetDone, StopLoop,
     Drain, Reading
<1>2. link' # "closed" /\ link # "closed" BY <1>1 DEF LaserInv, ClosedOK
<1>3. ASSUME pc' \notin {"drain", "close", "xchg", "xchg_done"} PROVE CloseInv'
  BY <1>2, <1>3, Elsewhere DEF AwaitsAnswer
<1>4. ASSUME NEW p, NEW code, Abort(p, code),
             p \notin {"drain", "close", "xchg", "xchg_done"}
      PROVE  CloseInv'
  <2> DEFINE a == [pc |-> p, code |-> code]
  <2>1. a.pc = p /\ IgnoreReceiveDataWithQt(a) BY <1>4 DEF Abort
  <2> HIDE DEF a
  <2> QED BY <1>2, <1>4, <2>1, GivingUp
<1>5. CASE RdEcho \/ RdQt \/ RdIo \/ RdStamp \/ GetDone
  BY <1>3, <1>5 DEF RdEcho, RdQt, RdIo, RdStamp, GetDone, FailRet, GoRet, Returns
<1>6. CASE RdStatus
  <2>1. \/ Abort("rd_ret", "INVALID_RESPONSE")
        \/ Abort(IF rcv.stamp THEN "rd_ret" ELSE "crashed", "CHECKSUM_ERROR")
        \/ pc' \in {"rd_qt", "rd_ack", "rd_io", "rd_stamp"}
    BY <1>6 DEF RdStatus
  <2> QED BY <1>3, <1>4, <2>1
<1>7. CASE RdAck
  <2>1. pc' = "rd_echo" \/ Abort("rd_ret", "INVALID_RESPONSE")
    BY <1>7 DEF RdAck, ReceiveData
  <2> QED BY <1>3, <1>4, <2>1
<1>8. CASE RdData
  <2>1. \/ Abort("rd_count", "CHECKSUM_ERROR") \/ Abort("rd_count", "RECEIVE_ERROR")
        \/ pc' \in {"rd_count", "rd_data"}
    BY <1>8 DEF RdData, Reading
  <2> QED BY <1>3, <1>4, <2>1
<1>9. CASE RdCount
  BY <1>3, <1>9 DEF RdCount, ReceiveData
<1>10. CASE StopLoop
  BY <1>3, <1>10 DEF StopLoop, StopReturns, ReceiveData
<1>11. CASE Drain
  <2>1. pc = "drain" /\ UNCHANGED <<is_laser_on, after>> BY <1>11 DEF Drain, Reading
  <2>2. \/ pc' = "drain"
        \/ pc' = after.pc /\ is_sending' = FALSE
    BY <1>11 DEF Drain, Reading, Resume
  <2>3. /\ after.pc \notin {"xchg", "xchg_done"}
        /\ link # "down" /\ after.pc = "close" => ~is_laser_on
    BY <2>1 DEF CloseInv
  <2> QED BY <1>1, <1>2, <2>1, <2>2, <2>3 DEF CloseInv, AwaitsAnswer
<1> QED BY <1>5, <1>6, <1>7, <1>8, <1>9, <1>10, <1>11

\* The sensor and the cable.
LEMMA CloseEnvironment ==
  ASSUME TypeOK, LaserInv, CloseInv, Environment
  PROVE  CloseInv'
<1>1. UNCHANGED <<flags, pc, op, xchg, after>>
  BY DEF Environment, SensorReply, SensorScan, Garble, Lose, Break, Fault, HostUnchanged, host
<1>2. ASSUME UNCHANGED link, DarkAhead => DarkAhead', FirstRB => FirstRB', SecondRB => SecondRB'
      PROVE  CloseInv'
  BY <1>1, <1>2 DEF CloseInv, AwaitsAnswer, flags
<1>3. CASE SensorReply
  <2>1. UNCHANGED link /\ SensorDark BY <1>3 DEF SensorReply, LaserInv
  <2>2. DarkAhead => DarkAhead' BY <1>3, <2>1, DarkReply
  <2> QED BY <1>2, <1>3, <2>1, <2>2, RBReply
<1>4. CASE SensorScan
  <2>1. UNCHANGED <<link, outbox>> BY <1>4 DEF SensorScan
  <2>2. (sensor.rb)' = sensor.rb /\ (~sensor.laser => (~sensor.laser)')
    <3>1. CASE sensor.left = 1
      <4>1. PICK lit \in {FALSE, sensor.laser} :
              sensor' = [sensor EXCEPT !.mode = "idle", !.laser = lit, !.left = 0]
        BY <1>4, <3>1 DEF SensorScan
      <4>2. ~sensor.laser => ~lit BY <4>1
      <4> QED BY <4>1, <4>2 DEF TypeOK, WorldTypeOK
    <3>2. CASE sensor.left # 1
      BY <1>4, <3>2 DEF SensorScan, TypeOK, WorldTypeOK
    <3> QED BY <3>1, <3>2
  <2>3. DarkAhead => DarkAhead' BY <2>1, <2>2 DEF DarkAhead
  <2>4. (FirstRB => FirstRB') /\ (SecondRB => SecondRB') BY <2>1, <2>2 DEF FirstRB, SecondRB
  <2> QED BY <1>2, <2>1, <2>3, <2>4
<1>5. CASE Garble \/ Lose
  <2>1. UNCHANGED <<link, outbox, sensor>> BY <1>5 DEF Garble, Lose, Fault
  <2> QED BY <1>2, <2>1, DarkSame DEF FirstRB, SecondRB
<1>6. CASE Break
  BY <1>1, <1>6 DEF Break, CloseInv
<1> QED BY <1>3, <1>4, <1>5, <1>6 DEF Environment

\* A closed session whose commands were read has a dark sensor.
LEMMA ClosedDark == CloseInv => ClosedIsDark
<1> SUFFICES ASSUME CloseInv, link = "closed", outbox = <<>> PROVE ~sensor.laser
  BY DEF ClosedIsDark
<1>1. CASE DarkAhead BY <1>1 DEF DarkAhead
<1>2. CASE SecondRB BY <1>2 DEF SecondRB
<1> QED BY <1>1, <1>2 DEF CloseInv

\* An application that leaves urg_laser_on to urg_start_measurement, and closes the
\* session by urg_close or urg_reboot over a cable that works, leaves a sensor that
\* is dark once it has read what was sent to it: whatever was measured, lost,
\* garbled or late before.
THEOREM ClosedSensorIsDark ==
  ASSUME "laser_on" \notin Calls PROVE Spec => []ClosedIsDark
<1>1. Init => CloseInv BY DEF Init, CloseInv, AwaitsAnswer
<1>2. TypeOK /\ LaserInv /\ CloseInv /\ [Next]_vars => CloseInv'
  <2> SUFFICES ASSUME TypeOK, LaserInv, CloseInv, [Next]_vars PROVE CloseInv' OBVIOUS
  <2>1. CASE Application BY <2>1, CloseApplication
  <2>2. CASE Host BY <2>2, ClosePlainHost, CloseReading DEF Host
  <2>3. CASE Environment BY <2>3, CloseEnvironment
  <2>4. CASE UNCHANGED vars
    BY <2>4, DarkSame DEF vars, flags, host, CloseInv, AwaitsAnswer, FirstRB, SecondRB
  <2> QED BY <2>1, <2>2, <2>3, <2>4 DEF Next
<1>3. CloseInv => ClosedIsDark BY ClosedDark
<1>4. TypeOK /\ LaserInv /\ [Next]_vars => LaserInv' BY LaserNext
<1> QED BY <1>1, <1>2, <1>3, <1>4, LaserInit, TypeCorrect, PTL DEF Spec

(***************************************************************************)
(* Host and sensor stay in step: theorems about ScipSession for every      *)
(* value of its constants with which a careful application keeps up with a *)
(* prompt sensor over a cable without faults.  The inductive invariant     *)
(* says, for each place the host can be at, what is on the wires: the rest *)
(* of the message in hand, at most two scans, and the replies to QT that   *)
(* are still owed.                                                         *)
(***************************************************************************)

\* The application makes the calls that fit, the sensor answers before it scans,
\* no line is late, wrong or lost, and three scans do not fit on the wires (a
\* scan has at least DataLines + 4 lines, urg_stop_measurement reads MAX_READ_TIMES
\* times).
KeepsUp == /\ Careful /\ Prompt /\ MaxFaults = 0
           /\ MaxPending < 3 * (DataLines + 4)

(***************************************************************************)
(* Messages and what is on the wires.                                      *)
(***************************************************************************)
OneScan  == specified_scan_times = 1
Verbs    == IF OneScan THEN Single ELSE Continuous
Scan(nm) == ScanLines(nm, IF OneScan THEN "00" ELSE "99", gen)
Ack(nm)  == <<Echo(nm), Status("00"), Blank>>
QtReply  == <<Echo("QT"), Status("00"), Blank>>
Qt       == [name |-> "QT", times |-> 0, gen |-> 0]

\* k scans, then b replies to QT; and a commands QT
Replies(b)    == CASE b = 0 -> <<>> [] b = 1 -> QtReply [] b = 2 -> QtReply \o QtReply
Flow(s, k, b) == CASE k = 0 -> Replies(b)
                   [] k = 1 -> s \o Replies(b)
                   [] k = 2 -> s \o (s \o Replies(b))
Quits(a)      == CASE a = 0 -> <<>> [] a = 1 -> <<Qt>> [] a = 2 -> <<Qt, Qt>>

\* The lines of m \o f from line p on
Rest(m, p, f) == SubSeq(m \o f, p, Len(m) + Len(f))

\* On the wires: message m from its line p on, k scans s, and d times QT, each as
\* a command or as its reply
Carries(m, p, s, k, d) ==
  /\ Len(outbox) \in 0 .. d /\ outbox = Quits(Len(outbox))
  /\ inbox = Rest(m, p, Flow(s, k, d - Len(outbox)))

Quiet == inbox = <<>> /\ outbox = <<>>

(***************************************************************************)
(* What host and sensor agree on.                                          *)
(***************************************************************************)
Stops  == {"stop", "wakeup", "sleep"}
Asking == {"start", "sleep", "laser_on", "tm_start", "tm_stop", "time_stamp",
           "info", "reboot"}

\* Nothing is being measured
Free == /\ ~is_sending /\ Quiet /\ frames = <<>>
        /\ sensor.mode # "measure" /\ (op = "laser_on" => sensor.mode = "idle")
        /\ sensor.laser \/ is_laser_on => op = "laser_on"

\* A measurement of which x scans are under way
Ongoing(nm, x) ==
  /\ sensor.mode \in {"idle", "measure"}
  /\ OneScan => x <= 1 /\ sensor.mode = "idle"
  /\ specified_scan_times = 0 => sensor.mode = "measure" /\ sensor.left = 0
  /\ specified_scan_times > 1 =>
       /\ scanning_remain_times >= 1
       /\ IF sensor.mode = "measure"
          THEN sensor.left >= 1 /\ scanning_remain_times = x + sensor.left
          ELSE scanning_remain_times = x
  /\ sensor.mode = "measure" => sensor.scan = nm /\ sensor.gen = gen

\* One that was told to stop
Ending(x) ==
  /\ sensor.mode # "adjust"
  /\ outbox = <<>> => sensor.mode = "idle" /\ ~sensor.laser
  /\ specified_scan_times > 1 => scanning_remain_times >= x

Under(nm, x) == IF frames = <<>> THEN is_sending /\ Ongoing(nm, x) ELSE Ending(x)

\* The activations of urg_stop_measurement have reads left for x scans and the
\* reply each of them waits for
Budget(x) ==
  \/ /\ op \in {"start", "get"}
     /\ \/ frames = <<>>
        \/ frames = <<[reads |-> 0, held |-> "POSITIVE"]>> /\ x = 0
  \/ /\ op \in Stops
     /\ \E r \in 0 .. 2 :
          \/ frames = <<[reads |-> r, held |-> "none"]>> /\ r + x <= 2
          \/ /\ frames = <<[reads |-> r, held |-> "none"],
                           [reads |-> 0, held |-> "POSITIVE"]>>
             /\ r <= 1 /\ x = 0

(***************************************************************************)
(* Where in the stream the host is.                                        *)
(***************************************************************************)
StartCommand(nm) == [name |-> nm, times |-> specified_scan_times, gen |-> gen]

\* The command that starts the measurement is still to be read
Unread ==
  /\ inbox = <<>> /\ sensor.mode = "idle"
  /\ OneScan => sensor.laser
  /\ specified_scan_times > 1 => scanning_remain_times = specified_scan_times
  /\ Budget(1)
  /\ frames = <<>> => is_sending
  /\ \E nm \in Verbs : outbox = <<StartCommand(nm)>> \o Quits(Len(frames))

\* The host is at line p of the acknowledgement, of the reply to QT, of a scan;
\* between two messages, of which the last one may be a scan (z = 1)
InAck(p) ==
  /\ ~OneScan
  /\ \E nm \in Verbs, k \in 0 .. 2 :
       Carries(Ack(nm), p, Scan(nm), k, Len(frames)) /\ Under(nm, k) /\ Budget(k)

InReply(p) ==
  /\ frames # <<>>
  /\ \E nm \in Verbs : Carries(QtReply, p, Scan(nm), 0, Len(frames) - 1)
  /\ Ending(0) /\ Budget(0)

InScan(nm, p) ==
  \E k \in 0 .. 2 :
    Carries(Scan(nm), p, Scan(nm), k, Len(frames)) /\ Under(nm, k + 1) /\ Budget(k + 1)

Between(z) ==
  \E nm \in Verbs, k \in 0 .. 2 :
    Carries(<<>>, 1, Scan(nm), k, Len(frames)) /\ Under(nm, k) /\ Budget(k + z)

Waiting == Unread \/ InAck(1) \/ Between(0)

\* An exchange of scip_response: the command is unread, or the answer is
\* being read
Answering ==
  \/ /\ outbox = <<[name |-> xchg.cmd, times |-> 0, gen |-> 0]>> /\ inbox = <<>>
     /\ xchg.line = 0
  \/ /\ outbox = <<>>
     /\ xchg.cmd = "BM" => sensor.laser
     /\ \E s \in LineVals, x \in {Plain("stamp"), Plain("info")} :
          \/ xchg.line = 0 /\ inbox \in {<<Echo(xchg.cmd), Status(s), Blank>>,
                                         <<Echo(xchg.cmd), Status(s), x, Blank>>}
          \/ xchg.line = 1 /\ inbox \in {<<Status(s), Blank>>, <<Status(s), x, Blank>>}
          \/ xchg.line = 2 /\ inbox \in {<<Blank>>, <<x, Blank>>}

\* The flags and the laser during an exchange
Lit == /\ op \in Asking /\ frames = <<>> /\ sensor.mode # "measure"
       /\ op \in {"start", "laser_on"} => sensor.mode = "idle"
       /\ IF op = "start"
          THEN /\ OneScan /\ is_sending
               /\ rcv.type \in {"distance", "distance_io"}
          ELSE ~is_sending /\ (sensor.laser \/ is_laser_on => op = "laser_on")

Asked == /\ xchg.cmd \notin Single \cup Continuous \cup {"QT"}
         /\ xchg.cmd = "BM" <=> op \in {"start", "laser_on"}

TypeFor(nm) == IF nm \in {"GF", "MF"} THEN "distance_io" ELSE "distance"
Header(nm)  == IF nm \in {"GF", "MF"} THEN 4 ELSE 3

InHeader(p) == /\ rcv.points = 0
               /\ \E nm \in Verbs : InScan(nm, p) /\ rcv.type = TypeFor(nm)

Place ==
  CASE pc = "ready"       -> Free \/ (op \in {"start", "get"} /\ frames = <<>> /\ Waiting)
    [] pc = "drain"       -> after.pc = "close"
    [] pc = "close"       -> TRUE
    [] pc = "xchg"        -> Lit /\ Asked /\ Answering
    [] pc = "xchg_done"   -> Lit /\ Quiet /\ (op = "start" => sensor.laser)
    [] pc = "send_single" -> Lit /\ Quiet /\ op = "start" /\ sensor.laser
    [] pc = "stop_done"   -> Free /\ op \in Stops
    [] pc = "rd_echo"     -> rcv.points = 0 /\ Waiting
    [] pc = "rd_status"   -> \/ InReply(2) /\ rcv.type = "stop"
                             \/ InAck(2) /\ rcv.type # "stop"
                             \/ InHeader(2)
    [] pc = "rd_qt"       -> InReply(3)
    [] pc = "rd_ack"      -> InAck(3)
    [] pc = "rd_io"       -> InHeader(3) /\ rcv.type = "distance_io"
    [] pc = "rd_stamp"    -> InHeader(IF rcv.type = "distance_io" THEN 4 ELSE 3)
    [] pc = "rd_data"     -> /\ rcv.points > 0 => rcv.gen = gen
                             /\ \E nm \in Verbs :
                                  \E p \in {Header(nm) + rcv.points + 1} : InScan(nm, p)
    [] pc = "rd_count"    -> /\ ret = "POSITIVE" /\ rcv.gen = gen
                             /\ \E nm \in Verbs : InScan(nm, Header(nm) + DataLines + 2)
    [] pc = "rd_ret"      -> \/ ret = "NO_ERROR" /\ InReply(4)
                             \/ ret = "POSITIVE" /\ Between(1)
                             \/ ret = "NO_RESPONSE" /\ OneScan /\ frames = <<>> /\ Between(0)
                             \/ ret = "POSITIVE" /\ Free
    [] OTHER              -> FALSE

SyncInv ==
  /\ late = 0 /\ faults = 0
  /\ IF is_active THEN link = "up" /\ Place ELSE pc = "ready"
  /\ GetSucceeds

(***************************************************************************)
(* Sequences.                                                              *)
(***************************************************************************)

\* A concatenation told by its elements; short ones.
LEMMA ConcatIs ==
  ASSUME NEW S, NEW s \in Seq(S), NEW t \in Seq(S), NEW u \in Seq(S),
         Len(u) = Len(s) + Len(t),
         \A i \in 1 .. Len(u) : u[i] = IF i <= Len(s) THEN s[i] ELSE t[i - Len(s)]
  PROVE  s \o t = u
<1> DEFINE v == s \o t
<1>1. /\ v \in Seq(S) /\ Len(v) = Len(s) + Len(t)
      /\ \A i \in 1 .. Len(s) + Len(t) : v[i] = IF i <= Len(s) THEN s[i] ELSE t[i - Len(s)]
  BY ConcatProperties
<1> HIDE DEF v
<1>2. Len(u) = Len(v) /\ \A i \in 1 .. Len(u) : u[i] = v[i] BY <1>1
<1>3. u = v BY <1>1, <1>2, SeqEqual
<1> QED BY <1>3 DEF v

LEMMA JoinCommands == \A a, b \in Command : <<a>> \o <<b>> = <<a, b>>
<1> TAKE a, b \in Command
<1> DEFINE s == <<a>>  t == <<b>>  u == <<a, b>>
<1>1. s \in Seq(Command) /\ t \in Seq(Command) /\ u \in Seq(Command) OBVIOUS
<1>2. Len(s) = 1 /\ Len(t) = 1 /\ Len(u) = 2 OBVIOUS
<1>3. \A i \in 1 .. 2 : u[i] = IF i <= 1 THEN s[i] ELSE t[i - 1] OBVIOUS
<1> HIDE DEF s, t, u
<1>4. Len(u) = Len(s) + Len(t) BY <1>2
<1>5. \A i \in 1 .. Len(u) : u[i] = IF i <= Len(s) THEN s[i] ELSE t[i - Len(s)]
  BY <1>2, <1>3
<1>6. s \o t = u BY <1>1, <1>4, <1>5, ConcatIs
<1> QED BY <1>6 DEF s, t, u

LEMMA JoinThree == \A a, b, c \in WireLine : <<a, b>> \o <<c>> = <<a, b, c>>
<1> TAKE a, b, c \in WireLine
<1> DEFINE s == <<a, b>>  t == <<c>>  u == <<a, b, c>>
<1>1. s \in Seq(WireLine) /\ t \in Seq(WireLine) /\ u \in Seq(WireLine) OBVIOUS
<1>2. Len(s) = 2 /\ Len(t) = 1 /\ Len(u) = 3 OBVIOUS
<1>3. \A i \in 1 .. 3 : u[i] = IF i <= 2 THEN s[i] ELSE t[i - 2] OBVIOUS
<1> HIDE DEF s, t, u
<1>4. Len(u) = Len(s) + Len(t) BY <1>2
<1>5. \A i \in 1 .. Len(u) : u[i] = IF i <= Len(s) THEN s[i] ELSE t[i - Len(s)]
  BY <1>2, <1>3
<1>6. s \o t = u BY <1>1, <1>4, <1>5, ConcatIs
<1> QED BY <1>6 DEF s, t, u

LEMMA JoinFour == \A a, b, c, d \in WireLine : <<a, b, c>> \o <<d>> = <<a, b, c, d>>
<1> TAKE a, b, c, d \in WireLine
<1> DEFINE s == <<a, b, c>>  t == <<d>>  u == <<a, b, c, d>>
<1>1. s \in Seq(WireLine) /\ t \in Seq(WireLine) /\ u \in Seq(WireLine) OBVIOUS
<1>2. Len(s) = 3 /\ Len(t) = 1 /\ Len(u) = 4 OBVIOUS
<1>3. \A i \in 1 .. 4 : u[i] = IF i <= 3 THEN s[i] ELSE t[i - 3] OBVIOUS
<1> HIDE DEF s, t, u
<1>4. Len(u) = Len(s) + Len(t) BY <1>2
<1>5. \A i \in 1 .. Len(u) : u[i] = IF i <= Len(s) THEN s[i] ELSE t[i - Len(s)]
  BY <1>2, <1>3
<1>6. s \o t = u BY <1>1, <1>4, <1>5, ConcatIs
<1> QED BY <1>6 DEF s, t, u

\* What is left of m \o f from line p of m on: it begins with that line, and goes
\* on with the next ones; all that comes later is added at its end.
LEMMA RestOf ==
  ASSUME NEW m \in Seq(WireLine), NEW f \in Seq(WireLine), NEW p \in 1 .. Len(m) + 1
  PROVE  /\ Rest(m, p, f) \in Seq(WireLine)
         /\ Len(Rest(m, p, f)) = Len(m) + Len(f) + 1 - p
         /\ \A i \in 1 .. Len(m) + Len(f) + 1 - p : Rest(m, p, f)[i] = (m \o f)[i + p - 1]
<1>1. m \o f \in Seq(WireLine) /\ Len(m \o f) = Len(m) + Len(f)
  BY ConcatProperties
<1>2. Len(m) \in Nat /\ Len(f) \in Nat OBVIOUS
<1> DEFINE u == m \o f
<1> HIDE DEF u
<1> QED BY <1>1, <1>2 DEF Rest, u

LEMMA RestRead ==
  ASSUME NEW m \in Seq(WireLine), NEW f \in Seq(WireLine), NEW p \in 1 .. Len(m)
  PROVE  /\ Rest(m, p, f) # <<>>
         /\ Rest(m, p, f)[1] = m[p]
         /\ Tail(Rest(m, p, f)) = Rest(m, p + 1, f)
<1>1. Len(m) \in Nat /\ Len(f) \in Nat /\ p \in 1 .. Len(m) + 1 OBVIOUS
<1>2. /\ Rest(m, p, f) \in Seq(WireLine)
      /\ Len(Rest(m, p, f)) = Len(m) + Len(f) + 1 - p
      /\ \A i \in 1 .. Len(m) + Len(f) + 1 - p : Rest(m, p, f)[i] = (m \o f)[i + p - 1]
  BY <1>1, RestOf
<1>3. m \o f \in Seq(WireLine) /\ Len(m \o f) = Len(m) + Len(f) /\ (m \o f)[p] = m[p]
  BY <1>1, ConcatProperties
<1>4. Tail(Rest(m, p, f)) = Rest(m, p + 1, f)
  <2> DEFINE u == m \o f
  <2>1. u \in Seq(WireLine) /\ p \in 1 .. Len(u) /\ Len(u) \in p .. Len(u)
    BY <1>1, <1>3
  <2> HIDE DEF u
  <2>2. Tail(SubSeq(u, p, Len(u))) = SubSeq(u, p + 1, Len(u))
    BY <2>1, HeadTailOfSubSeq
  <2> QED BY <2>2, <1>3 DEF Rest, u
<1>5. Rest(m, p, f)[1] = m[p]
  <2>1. 1 \in 1 .. Len(m) + Len(f) + 1 - p /\ 1 + p - 1 = p BY <1>1
  <2>2. Rest(m, p, f)[1] = (m \o f)[1 + p - 1] BY <1>2, <2>1
  <2> QED BY <1>3, <2>1, <2>2
<1>6. Len(Rest(m, p, f)) >= 1 BY <1>1, <1>2
<1>7. Rest(m, p, f) # <<>>
  <2> DEFINE r == Rest(m, p, f)
  <2>1. Len(r) >= 1 BY <1>6
  <2> HIDE DEF r
  <2> QED BY <2>1 DEF r
<1> QED BY <1>4, <1>5, <1>7

LEMMA RestEnds ==
  ASSUME NEW m \in Seq(WireLine), NEW f \in Seq(WireLine)
  PROVE  Rest(m, 1, f) = m \o f /\ Rest(m, Len(m) + 1, f) = f /\ Rest(<<>>, 1, f) = f
<1>1. m \o f \in Seq(WireLine) /\ Len(m \o f) = Len(m) + Len(f)
  BY ConcatProperties
<1>2. Rest(m, 1, f) = m \o f
  BY <1>1, SubSeqFull DEF Rest
<1>3. Rest(m, Len(m) + 1, f) = f
  <2> DEFINE r == Rest(m, Len(m) + 1, f)
  <2>1. Len(m) \in Nat /\ Len(f) \in Nat /\ Len(m) + 1 \in 1 .. Len(m) + 1 OBVIOUS
  <2>2. /\ r \in Seq(WireLine) /\ Len(r) = Len(m) + Len(f) + 1 - (Len(m) + 1)
        /\ \A i \in 1 .. Len(m) + Len(f) + 1 - (Len(m) + 1) : r[i] = (m \o f)[i + (Len(m) + 1) - 1]
    BY <2>1, RestOf
  <2>3. \A i \in 1 .. Len(f) : (m \o f)[i + Len(m)] = f[i] BY <2>1, ConcatProperties
  <2> HIDE DEF r
  <2>4. Len(r) = Len(f) /\ \A i \in 1 .. Len(f) : r[i] = f[i] BY <2>1, <2>2, <2>3
  <2> QED BY <2>2, <2>4, SeqEqual DEF r
<1>4. Rest(<<>>, 1, f) = f
  <2>1. <<>> \o f = f BY ConcatEmptySeq
  <2>2. SubSeq(f, 1, Len(f)) = f BY SubSeqFull
  <2> QED BY <2>1, <2>2 DEF Rest
<1> QED BY <1>2, <1>3, <1>4

LEMMA RestAppend ==
  ASSUME NEW m \in Seq(WireLine), NEW f \in Seq(WireLine), NEW g \in Seq(WireLine),
         NEW p \in 1 .. Len(m) + 1
  PROVE  Rest(m, p, f) \o g = Rest(m, p, f \o g)
<1> DEFINE r == Rest(m, p, f)  fg == f \o g  u == Rest(m, p, fg)
<1>0. Len(m) \in Nat /\ Len(f) \in Nat /\ Len(g) \in Nat OBVIOUS
<1>1. /\ fg \in Seq(WireLine) /\ Len(fg) = Len(f) + Len(g)
      /\ \A i \in 1 .. Len(f) + Len(g) : fg[i] = IF i <= Len(f) THEN f[i] ELSE g[i - Len(f)]
  BY ConcatProperties
<1> HIDE DEF fg
<1>2. /\ r \in Seq(WireLine) /\ Len(r) = Len(m) + Len(f) + 1 - p
      /\ \A i \in 1 .. Len(m) + Len(f) + 1 - p : r[i] = (m \o f)[i + p - 1]
  BY RestOf
<1>3. /\ u \in Seq(WireLine) /\ Len(u) = Len(m) + Len(fg) + 1 - p
      /\ \A i \in 1 .. Len(m) + Len(fg) + 1 - p : u[i] = (m \o fg)[i + p - 1]
  BY <1>1, RestOf
<1>4. \A i \in 1 .. Len(m) + Len(f) : (m \o f)[i] = IF i <= Len(m) THEN m[i] ELSE f[i - Len(m)]
  BY ConcatProperties
<1>5. \A i \in 1 .. Len(m) + Len(fg) : (m \o fg)[i] = IF i <= Len(m) THEN m[i] ELSE fg[i - Len(m)]
  BY <1>1, ConcatProperties
<1> DEFINE mf == m \o f  mfg == m \o fg
<1> HIDE DEF r, u, mf, mfg
<1>6. /\ r \o g \in Seq(WireLine) /\ Len(r \o g) = Len(r) + Len(g)
      /\ \A i \in 1 .. Len(r) + Len(g) : (r \o g)[i] = IF i <= Len(r) THEN r[i] ELSE g[i - Len(r)]
  BY <1>2, ConcatProperties
<1> DEFINE rg == r \o g
<1> HIDE DEF rg
<1>7. ASSUME NEW i \in 1 .. Len(u) PROVE rg[i] = u[i]
  <2>0. /\ Len(u) = Len(m) + Len(f) + Len(g) + 1 - p /\ i \in Nat /\ i >= 1 /\ p >= 1
        /\ Len(r) = Len(m) + Len(f) + 1 - p /\ p \in Nat
    BY <1>0, <1>1, <1>2, <1>3
  <2>1. u[i] = mfg[i + p - 1] BY <1>3 DEF mfg
  <2>2. CASE i <= Len(r)
    <3>1. rg[i] = r[i] BY <2>0, <2>2, <1>0, <1>6 DEF rg
    <3>2. r[i] = mf[i + p - 1] BY <2>0, <2>2, <1>0, <1>2 DEF mf
    <3>3. i + p - 1 \in 1 .. Len(m) + Len(f) BY <2>0, <2>2, <1>0
    <3>4. mf[i + p - 1] = mfg[i + p - 1]
      <4> DEFINE j == i + p - 1
      <4>1. j \in 1 .. Len(m) + Len(f) BY <3>3
      <4> HIDE DEF j
      <4>2. mf[j] = IF j <= Len(m) THEN m[j] ELSE f[j - Len(m)] BY <4>1, <1>4 DEF mf
      <4>3. mfg[j] = IF j <= Len(m) THEN m[j] ELSE fg[j - Len(m)]
        BY <4>1, <1>0, <1>1, <1>5 DEF mfg
      <4>4. ~(j <= Len(m)) => fg[j - Len(m)] = f[j - Len(m)]
        BY <4>1, <1>0, <1>1
      <4> QED BY <4>2, <4>3, <4>4 DEF j
    <3> QED BY <2>1, <3>1, <3>2, <3>4
  <2>3. CASE ~(i <= Len(r))
    <3>1. rg[i] = g[i - Len(r)] BY <2>0, <2>3, <1>0, <1>6 DEF rg
    <3> DEFINE j == i + p - 1
    <3>2. j \in 1 .. Len(m) + Len(fg) /\ j > Len(m) + Len(f) /\ j - Len(m) - Len(f) = i - Len(r)
      BY <2>0, <2>3, <1>0, <1>1
    <3>3. u[i] = mfg[j] BY <2>1
    <3> HIDE DEF j
    <3>4. mfg[j] = fg[j - Len(m)] BY <3>2, <1>0, <1>1, <1>5 DEF mfg
    <3>5. fg[j - Len(m)] = g[j - Len(m) - Len(f)]
      <4> DEFINE q == j - Len(m)
      <4>1. q \in 1 .. Len(f) + Len(g) /\ ~(q <= Len(f)) BY <3>2, <1>0, <1>1
      <4> HIDE DEF q
      <4>2. fg[q] = g[q - Len(f)] BY <4>1, <1>1
      <4> QED BY <4>2 DEF q
    <3> QED BY <3>1, <3>2, <3>3, <3>4, <3>5
  <2> QED BY <2>2, <2>3
<1>8. Len(rg) = Len(u) BY <1>0, <1>1, <1>2, <1>3, <1>6 DEF rg
<1>9. rg = u BY <1>3, <1>6, <1>7, <1>8, SeqEqual DEF rg
<1> QED BY <1>9 DEF rg, u, r, fg

(***************************************************************************)
(* Messages and the stream of them.                                        *)
(***************************************************************************)

\* The acknowledgement and the reply to QT, line by line.
LEMMA AckLines ==
  ASSUME NEW nm \in CommandNames
  PROVE  /\ Ack(nm) \in Seq(WireLine) /\ Len(Ack(nm)) = 3
         /\ Ack(nm)[1] = Echo(nm) /\ Ack(nm)[2] = Status("00") /\ Ack(nm)[3] = Blank
<1> DEFINE e == Echo(nm)  s == Status("00")  b == Blank
<1>1. e \in WireLine /\ s \in WireLine /\ b \in WireLine
  BY DEF Echo, Status, Plain, Blank, WireLine, Line, LineKinds, LineVals, Timeout
<1> HIDE DEF e, s, b
<1>2. <<e, s, b>> \in Seq(WireLine) BY <1>1
<1> QED BY <1>2 DEF Ack, e, s, b

LEMMA QtReplyLines ==
  /\ QtReply \in Seq(WireLine) /\ Len(QtReply) = 3
  /\ QtReply[1] = Echo("QT") /\ QtReply[2] = Status("00") /\ QtReply[3] = Blank
<1>1. "QT" \in CommandNames BY DEF CommandNames
<1>2. QtReply = Ack("QT") BY DEF QtReply, Ack
<1> QED BY <1>1, <1>2, AckLines

\* A scan line by line: the header is one longer for the types with I/O, the
\* data end with a blank line.
LEMMA ScanParts ==
  ASSUME NEW nm \in CommandNames, NEW st \in {"00", "99"}, NEW g \in Nat
  PROVE  \E s \in Seq(WireLine) :
           /\ s = ScanLines(nm, st, g)
           /\ Len(s) = Header(nm) + DataLines + 1
           /\ s[1] = Echo(nm) /\ s[2] = Status(st)
           /\ Header(nm) = 4 => s[3] = Plain("io")
           /\ s[Header(nm)] = Plain("stamp")
           /\ \A i \in 1 .. DataLines : s[Header(nm) + i] = Datum(g)
           /\ s[Header(nm) + DataLines + 1] = Blank
<1> DEFINE e == Echo(nm)  t == Status(st)  pl == Plain("stamp")  b == Blank  x == Plain("io")
           d == Datum(g)
           h == IF nm \in {"GF", "MF"} THEN <<e, t, x, pl>> ELSE <<e, t, pl>>
           data == [i \in 1 .. DataLines |-> d]
           hd == h \o data
           s == hd \o <<b>>
<1>1. /\ e \in WireLine /\ t \in WireLine /\ pl \in WireLine /\ b \in WireLine
      /\ x \in WireLine /\ d \in WireLine
  BY DEF Echo, Status, Plain, Datum, Blank, WireLine, Line, LineKinds, LineVals, Timeout
<1>2. s = ScanLines(nm, st, g)
  <2>1. ScanLines(nm, st, g) =
          (((<<e, t>> \o (IF nm \in {"GF", "MF"} THEN <<x>> ELSE <<>>)) \o <<pl>>) \o data) \o <<b>>
    BY DEF ScanLines
  <2> HIDE DEF e, t, pl, x, b
  <2>2. /\ <<e, t>> \o <<x>> = <<e, t, x>>
        /\ <<e, t, x>> \o <<pl>> = <<e, t, x, pl>>
    BY <1>1, JoinThree, JoinFour
  <2>3. <<e, t>> \o <<pl>> = <<e, t, pl>>
    BY <1>1, JoinThree
  <2>4. (<<e, t>> \o (IF nm \in {"GF", "MF"} THEN <<x>> ELSE <<>>)) \o <<pl>> = h
    <3>1. CASE nm \in {"GF", "MF"}
      <4>1. (<<e, t>> \o <<x>>) \o <<pl>> = <<e, t, x, pl>> BY <2>2
      <4> QED BY <3>1, <4>1
    <3>2. CASE nm \notin {"GF", "MF"}
      <4>1. (<<e, t>> \o <<>>) \o <<pl>> = <<e, t, pl>>
        <5>1. <<e, t>> \in Seq(WireLine) BY <1>1
        <5>2. <<e, t>> \o <<>> = <<e, t>> BY <5>1, ConcatEmptySeq
        <5> QED BY <2>3, <5>2
      <4> QED BY <3>2, <4>1
    <3> QED BY <3>1, <3>2
  <2> QED BY <2>1, <2>4
<1>3. /\ h \in Seq(WireLine) /\ Len(h) = Header(nm)
      /\ h[1] = e /\ h[2] = t /\ (Header(nm) = 4 => h[3] = x) /\ h[Header(nm)] = pl
  <2> HIDE DEF e, t, pl, x
  <2>1. CASE nm \in {"GF", "MF"}
    <3>1. <<e, t, x, pl>> \in Seq(WireLine) BY <1>1
    <3> QED BY <2>1, <3>1 DEF Header
  <2>2. CASE nm \notin {"GF", "MF"}
    <3>1. <<e, t, pl>> \in Seq(WireLine) BY <1>1
    <3> QED BY <2>2, <3>1 DEF Header
  <2> QED BY <2>1, <2>2
<1>4. /\ data \in Seq(WireLine) /\ Len(data) = DataLines
      /\ \A i \in 1 .. DataLines : data[i] = d
  <2> HIDE DEF d
  <2> QED BY <1>1, BoundAssumption
<1>5. <<b>> \in Seq(WireLine) /\ Len(<<b>>) = 1 /\ <<b>>[1] = b
  <2> HIDE DEF b
  <2> QED BY <1>1, OneElement
<1>6. Header(nm) \in {3, 4} /\ DataLines \in Nat BY BoundAssumption DEF Header
<1> HIDE DEF h, data, e, t, pl, b, x, d
<1>7. /\ hd \in Seq(WireLine) /\ Len(hd) = Header(nm) + DataLines
      /\ \A i \in 1 .. Header(nm) + DataLines : hd[i] =
           IF i <= Header(nm) THEN h[i] ELSE data[i - Header(nm)]
  <2>1. /\ h \o data \in Seq(WireLine) /\ Len(h \o data) = Len(h) + Len(data)
        /\ \A i \in 1 .. Len(h) + Len(data) : (h \o data)[i] =
             IF i <= Len(h) THEN h[i] ELSE data[i - Len(h)]
    BY <1>3, <1>4, ConcatProperties
  <2>2. Len(h) = Header(nm) /\ Len(data) = DataLines BY <1>3, <1>4
  <2> QED BY <2>1, <2>2
<1> HIDE DEF hd
<1>8. /\ s \in Seq(WireLine) /\ Len(s) = Header(nm) + DataLines + 1
      /\ \A i \in 1 .. Header(nm) + DataLines + 1 : s[i] =
           IF i <= Header(nm) + DataLines THEN hd[i] ELSE <<b>>[i - (Header(nm) + DataLines)]
  BY <1>5, <1>7, ConcatProperties
<1> HIDE DEF s
<1>9. \A i \in 1 .. Header(nm) : s[i] = h[i] BY <1>6, <1>7, <1>8
<1>10. \A i \in 1 .. DataLines : s[Header(nm) + i] = d
  <2> TAKE i \in 1 .. DataLines
  <2> DEFINE j == Header(nm) + i
  <2>1. j \in 1 .. Header(nm) + DataLines /\ ~(j <= Header(nm)) /\ j - Header(nm) = i BY <1>6
  <2> HIDE DEF j
  <2>2. s[j] = hd[j] BY <1>6, <1>8, <2>1
  <2>3. hd[j] = data[i] BY <1>7, <2>1
  <2> QED BY <1>4, <2>2, <2>3 DEF j
<1>11. s[Header(nm) + DataLines + 1] = b
  <2> DEFINE j == Header(nm) + DataLines + 1
  <2>1. j \in 1 .. Header(nm) + DataLines + 1 /\ ~(j <= Header(nm) + DataLines)
        /\ j - (Header(nm) + DataLines) = 1
    BY <1>6
  <2> HIDE DEF j
  <2>2. s[j] = <<b>>[1] BY <1>8, <2>1
  <2> QED BY <1>5, <2>2 DEF j
<1>12. s[1] = e /\ s[2] = t /\ (Header(nm) = 4 => s[3] = x) /\ s[Header(nm)] = pl
  BY <1>3, <1>6, <1>9
<1> QED BY <1>2, <1>8, <1>10, <1>11, <1>12 DEF e, t, pl, b, x, d

\* The stream: it begins with a scan, or with a reply, or is empty; and grows at
\* its end.
LEMMA RepliesType == \A b \in 0 .. 2 : Replies(b) \in Seq(WireLine)
<1>1. Replies(0) \in Seq(WireLine) BY DEF Replies
<1>2. Replies(1) \in Seq(WireLine) BY QtReplyLines DEF Replies
<1>3. QtReply \o QtReply \in Seq(WireLine) BY QtReplyLines, ConcatProperties
<1>4. Replies(2) \in Seq(WireLine) BY <1>3 DEF Replies
<1> QED BY <1>1, <1>2, <1>4

LEMMA RepliesMore ==
  /\ Replies(0) = <<>>
  /\ \A b \in 0 .. 1 : Replies(b + 1) = QtReply \o Replies(b)
  /\ \A b \in 0 .. 1 : Replies(b) \o QtReply = Replies(b + 1)
<1>1. Replies(0) = <<>> /\ Replies(1) = QtReply /\ Replies(2) = QtReply \o QtReply
  BY DEF Replies
<1>2. QtReply \o <<>> = QtReply /\ <<>> \o QtReply = QtReply
  BY QtReplyLines, ConcatEmptySeq
<1>3. Replies(0 + 1) = QtReply \o Replies(0) /\ Replies(0) \o QtReply = Replies(0 + 1)
  <2>1. 0 + 1 = 1 OBVIOUS
  <2> QED BY <1>1, <1>2, <2>1
<1>4. Replies(1 + 1) = QtReply \o Replies(1) /\ Replies(1) \o QtReply = Replies(1 + 1)
  <2>1. 1 + 1 = 2 OBVIOUS
  <2> QED BY <1>1, <2>1
<1>5. \A b \in 0 .. 1 : b = 0 \/ b = 1 OBVIOUS
<1> QED BY <1>1, <1>3, <1>4, <1>5

LEMMA FlowFacts ==
  ASSUME NEW s \in Seq(WireLine), NEW k \in 0 .. 2, NEW b \in 0 .. 2
  PROVE  /\ Flow(s, k, b) \in Seq(WireLine)
         /\ k = 0 /\ b = 0 => Flow(s, k, b) = <<>>
         /\ k > 0 => Flow(s, k, b) = s \o Flow(s, k - 1, b)
         /\ k = 0 /\ b > 0 => Flow(s, k, b) = QtReply \o Flow(s, 0, b - 1)
         /\ k < 2 => Flow(s, k, 0) \o s = Flow(s, k + 1, 0)
         /\ b < 2 => Flow(s, k, b) \o QtReply = Flow(s, k, b + 1)
<1>1. Replies(b) \in Seq(WireLine) BY RepliesType
<1>2. s \o Replies(b) \in Seq(WireLine) BY <1>1, ConcatProperties
<1>3. s \o (s \o Replies(b)) \in Seq(WireLine) BY <1>2, ConcatProperties
<1>4. \A c \in 0 .. 2 : /\ Flow(s, 0, c) = Replies(c)
                        /\ Flow(s, 1, c) = s \o Replies(c)
                        /\ Flow(s, 2, c) = s \o (s \o Replies(c))
  BY DEF Flow
<1>5. Flow(s, k, b) \in Seq(WireLine)
  <2>1. k = 0 \/ k = 1 \/ k = 2 OBVIOUS
  <2>2. Flow(s, 0, b) \in Seq(WireLine) BY <1>1, <1>4
  <2>3. Flow(s, 1, b) \in Seq(WireLine) BY <1>2, <1>4
  <2>4. Flow(s, 2, b) \in Seq(WireLine) BY <1>3, <1>4
  <2> QED BY <2>1, <2>2, <2>3, <2>4
<1>6. k > 0 => Flow(s, k, b) = s \o Flow(s, k - 1, b)
  <2>1. CASE k = 0 BY <2>1
  <2>2. CASE k = 1
    <3>1. k - 1 = 0 BY <2>2
    <3> QED BY <1>4, <2>2, <3>1
  <2>3. CASE k = 2
    <3>1. k - 1 = 1 BY <2>3
    <3> QED BY <1>4, <2>3, <3>1
  <2> QED BY <2>1, <2>2, <2>3
<1>7. k = 0 /\ b > 0 => Flow(s, k, b) = QtReply \o Flow(s, 0, b - 1)
  <2> SUFFICES ASSUME k = 0, b > 0 PROVE Flow(s, k, b) = QtReply \o Flow(s, 0, b - 1)
    OBVIOUS
  <2>1. PICK c \in 0 .. 1 : c = b - 1 OBVIOUS
  <2>2. b = c + 1 BY <2>1
  <2>3. Replies(c + 1) = QtReply \o Replies(c) BY RepliesMore
  <2>4. Flow(s, 0, c) = Replies(c) BY <1>4
  <2>5. Flow(s, 0, b) = Replies(b) BY <1>4
  <2> QED BY <2>1, <2>2, <2>3, <2>4, <2>5
<1>8. k < 2 => Flow(s, k, 0) \o s = Flow(s, k + 1, 0)
  <2>1. Replies(0) = <<>> BY RepliesMore
  <2>2. s \o <<>> = s /\ <<>> \o s = s BY ConcatEmptySeq
  <2>3. Flow(s, 0, 0) = <<>> /\ Flow(s, 1, 0) = s /\ Flow(s, 2, 0) = s \o s
    <3>1. 0 \in 0 .. 2 OBVIOUS
    <3>2. /\ Flow(s, 0, 0) = Replies(0) /\ Flow(s, 1, 0) = s \o Replies(0)
          /\ Flow(s, 2, 0) = s \o (s \o Replies(0))
      BY <1>4, <3>1
    <3> QED BY <2>1, <2>2, <3>2
  <2>4. CASE k = 0
    <3>1. k + 1 = 1 BY <2>4
    <3> QED BY <2>2, <2>3, <2>4, <3>1
  <2>5. CASE k = 1
    <3>1. k + 1 = 2 BY <2>5
    <3> QED BY <2>3, <2>5, <3>1
  <2> QED BY <2>4, <2>5
<1>9. b < 2 => Flow(s, k, b) \o QtReply = Flow(s, k, b + 1)
  <2> SUFFICES ASSUME b < 2 PROVE Flow(s, k, b) \o QtReply = Flow(s, k, b + 1)
    OBVIOUS
  <2>1. b \in 0 .. 1 /\ b + 1 \in 0 .. 2 OBVIOUS
  <2>2. Replies(b) \o QtReply = Replies(b + 1) BY <2>1, RepliesMore
  <2>3. (s \o Replies(b)) \o QtReply = s \o (Replies(b) \o QtReply)
    BY <1>1, QtReplyLines, ConcatAssociative
  <2>4. (s \o (s \o Replies(b))) \o QtReply = s \o ((s \o Replies(b)) \o QtReply)
    <3> DEFINE one == s \o Replies(b)
               reply == QtReply
    <3>1. one \in Seq(WireLine) /\ reply \in Seq(WireLine) /\ s \in Seq(WireLine)
      BY <1>2, QtReplyLines
    <3> HIDE DEF one, reply
    <3>2. (s \o one) \o reply = s \o (one \o reply) BY <3>1, ConcatAssociative
    <3> QED BY <3>2 DEF one, reply
  <2>5. CASE k = 0 BY <1>4, <2>1, <2>2, <2>5
  <2>6. CASE k = 1 BY <1>4, <2>1, <2>2, <2>3, <2>6
  <2>7. CASE k = 2 BY <1>4, <2>1, <2>2, <2>3, <2>4, <2>7
  <2> QED BY <2>5, <2>6, <2>7
<1>10. k = 0 /\ b = 0 => Flow(s, k, b) = <<>> BY <1>4, RepliesMore
<1> QED BY <1>5, <1>6, <1>7, <1>8, <1>9, <1>10

\* Commands QT in a row.
LEMMA QuitsFacts ==
  ASSUME NEW a \in 0 .. 2
  PROVE  /\ Quits(a) \in Seq(Command) /\ Len(Quits(a)) = a
         /\ a = 0 => Quits(a) = <<>>
         /\ a > 0 => /\ Quits(a) # <<>> /\ Head(Quits(a)) = Qt
                     /\ Tail(Quits(a)) = Quits(a - 1)
         /\ a < 2 => Append(Quits(a), Qt) = Quits(a + 1)
<1> DEFINE q == Qt
<1>1. q \in Command BY DEF Qt, Command, CommandNames
<1>2. Quits(0) = <<>> /\ Quits(1) = <<q>> /\ Quits(2) = <<q, q>>
  BY DEF Quits
<1> HIDE DEF q
<1>3. /\ <<>> \in Seq(Command) /\ <<q>> \in Seq(Command) /\ <<q, q>> \in Seq(Command)
      /\ Len(<<>>) = 0 /\ Len(<<q>>) = 1 /\ Len(<<q, q>>) = 2
  BY <1>1
<1>4. /\ <<q>> # <<>> /\ Head(<<q>>) = q /\ Tail(<<q>>) = <<>>
      /\ <<q, q>> # <<>> /\ Head(<<q, q>>) = q /\ Tail(<<q, q>>) = <<q>>
  OBVIOUS
<1>5. Append(<<>>, q) = <<q>>
  <2>1. Append(<<>>, q) = <<>> \o <<q>> BY <1>1, <1>3, AppendIsConcat
  <2>2. <<>> \o <<q>> = <<q>> BY <1>3, ConcatEmptySeq
  <2> QED BY <2>1, <2>2
<1>6. Append(<<q>>, q) = <<q, q>>
  <2>1. Append(<<q>>, q) = <<q>> \o <<q>> BY <1>1, <1>3, AppendIsConcat
  <2>2. <<q>> \o <<q>> = <<q, q>> BY <1>1, JoinCommands
  <2> QED BY <2>1, <2>2
<1>7. CASE a = 0
  <2>1. a + 1 = 1 /\ ~(a > 0) BY <1>7
  <2>2. Quits(a) = <<>> /\ Quits(a + 1) = <<q>> BY <1>2, <1>7, <2>1
  <2>3. Append(Quits(a), q) = Quits(a + 1) BY <1>5, <2>2
  <2> QED BY <1>3, <1>7, <2>1, <2>2, <2>3 DEF q
<1>8. CASE a = 1
  <2>1. a + 1 = 2 /\ a - 1 = 0 BY <1>8
  <2> QED BY <1>2, <1>3, <1>4, <1>6, <1>8, <2>1 DEF q
<1>9. CASE a = 2
  <2>1. a - 1 = 1 /\ ~(a < 2) /\ a # 0 BY <1>9
  <2>2. Quits(a) = <<q, q>> /\ Quits(a - 1) = <<q>> BY <1>2, <1>9, <2>1
  <2>3. Quits(a) # <<>> /\ Head(Quits(a)) = q /\ Tail(Quits(a)) = Quits(a - 1)
    BY <1>4, <2>2
  <2>4. Quits(a) \in Seq(Command) /\ Len(Quits(a)) = a BY <1>3, <1>9, <2>2
  <2> QED BY <2>1, <2>3, <2>4 DEF q
<1> QED BY <1>7, <1>8, <1>9

(***************************************************************************)
(* What reads, writes and the sensor do to the wires.                      *)
(***************************************************************************)

\* The host reads the next line of the message in hand.
LEMMA CarriesRead ==
  ASSUME NEW m \in Seq(WireLine), NEW s \in Seq(WireLine), NEW p \in 1 .. Len(m),
         NEW k \in 0 .. 2, NEW d \in 0 .. 2, Carries(m, p, s, k, d)
  PROVE  /\ inbox # <<>> /\ inbox[1] = m[p]
         /\ inbox' = Tail(inbox) /\ outbox' = outbox => Carries(m, p + 1, s, k, d)'
<1>1. d - Len(outbox) \in 0 .. 2 BY DEF Carries
<1>2. Flow(s, k, d - Len(outbox)) \in Seq(WireLine) BY <1>1, FlowFacts
<1> DEFINE f == Flow(s, k, d - Len(outbox))
<1>3. inbox = Rest(m, p, f) BY DEF Carries
<1>4. f \in Seq(WireLine) BY <1>2
<1> HIDE DEF f
<1>5. Rest(m, p, f) # <<>> /\ Rest(m, p, f)[1] = m[p] /\ Tail(Rest(m, p, f)) = Rest(m, p + 1, f)
  BY <1>4, RestRead
<1>6. ASSUME inbox' = Tail(inbox), outbox' = outbox PROVE Carries(m, p + 1, s, k, d)'
  <2>1. inbox' = Rest(m, p + 1, f) BY <1>3, <1>5, <1>6
  <2> QED BY <1>6, <2>1 DEF Carries, f
<1> QED BY <1>3, <1>5, <1>6

\* Between two messages the next one is a scan, or else a reply, or else nothing
\* has arrived.
LEMMA CarriesNext ==
  ASSUME NEW s \in Seq(WireLine), NEW k \in 0 .. 2, NEW d \in 0 .. 2,
         Carries(<<>>, 1, s, k, d)
  PROVE  /\ k > 0 => Carries(s, 1, s, k - 1, d)
         /\ k = 0 /\ Len(outbox) < d => Carries(QtReply, 1, s, 0, d - 1)
         /\ k = 0 /\ Len(outbox) = d => inbox = <<>>
<1> DEFINE a == Len(outbox)  f == Flow(s, k, d - a)
<1>1. a \in 0 .. d /\ d - a \in 0 .. 2 BY DEF Carries
<1>2. /\ f \in Seq(WireLine)
      /\ k = 0 /\ d - a = 0 => f = <<>>
      /\ k > 0 => f = s \o Flow(s, k - 1, d - a)
      /\ k = 0 /\ d - a > 0 => f = QtReply \o Flow(s, 0, (d - a) - 1)
  BY <1>1, FlowFacts
<1>3. inbox = f
  <2>1. inbox = Rest(<<>>, 1, f) BY DEF Carries
  <2> HIDE DEF f
  <2>2. <<>> \in Seq(WireLine) OBVIOUS
  <2>3. Rest(<<>>, 1, f) = f BY <1>2, <2>2, RestEnds
  <2> QED BY <2>1, <2>3
<1>4. ASSUME k > 0 PROVE Carries(s, 1, s, k - 1, d)
  <2>1. Flow(s, k - 1, d - a) \in Seq(WireLine)
    <3>1. k - 1 \in 0 .. 2 BY <1>4
    <3> QED BY <1>1, <3>1, FlowFacts
  <2>2. Rest(s, 1, Flow(s, k - 1, d - a)) = s \o Flow(s, k - 1, d - a)
    BY <2>1, RestEnds
  <2>3. inbox = Rest(s, 1, Flow(s, k - 1, d - a)) BY <1>2, <1>3, <1>4, <2>2
  <2> QED BY <2>3 DEF Carries
<1>5. ASSUME k = 0, a < d PROVE Carries(QtReply, 1, s, 0, d - 1)
  <2>1. (d - a) - 1 \in 0 .. 2 /\ (d - a) - 1 = (d - 1) - a /\ d - a > 0 /\ a \in 0 .. d - 1
    BY <1>1, <1>5
  <2>2. Flow(s, 0, (d - 1) - a) \in Seq(WireLine) BY <2>1, FlowFacts
  <2>3. Rest(QtReply, 1, Flow(s, 0, (d - 1) - a)) = QtReply \o Flow(s, 0, (d - 1) - a)
    BY <2>2, QtReplyLines, RestEnds
  <2>4. inbox = Rest(QtReply, 1, Flow(s, 0, (d - 1) - a)) BY <1>2, <1>3, <1>5, <2>1, <2>3
  <2> QED BY <2>1, <2>4 DEF Carries
<1>6. k = 0 /\ a = d => inbox = <<>> BY <1>1, <1>2, <1>3
<1> QED BY <1>4, <1>5, <1>6

\* The end of one message is the place between two.
LEMMA CarriesEnd ==
  ASSUME NEW m \in Seq(WireLine), NEW s \in Seq(WireLine), NEW k \in 0 .. 2, NEW d \in 0 .. 2
  PROVE  Carries(m, Len(m) + 1, s, k, d) <=> Carries(<<>>, 1, s, k, d)
<1> SUFFICES ASSUME Len(outbox) \in 0 .. d
             PROVE  Rest(m, Len(m) + 1, Flow(s, k, d - Len(outbox)))
                      = Rest(<<>>, 1, Flow(s, k, d - Len(outbox)))
  BY DEF Carries
<1>1. d - Len(outbox) \in 0 .. 2 OBVIOUS
<1>2. Flow(s, k, d - Len(outbox)) \in Seq(WireLine) BY <1>1, FlowFacts
<1> QED BY <1>2, RestEnds

\* The host writes QT.
LEMMA CarriesQuit ==
  ASSUME NEW m \in Seq(WireLine), NEW s \in Seq(WireLine), NEW p \in 1 .. Len(m) + 1,
         NEW k \in 0 .. 2, NEW d \in 0 .. 1, Carries(m, p, s, k, d),
         outbox' = Append(outbox, Qt), inbox' = inbox
  PROVE  Carries(m, p, s, k, d + 1)' /\ outbox' # <<>>
<1> DEFINE a == Len(outbox)
<1>0. a \in 0 .. d /\ outbox = Quits(a) BY DEF Carries
<1>1. a \in 0 .. d /\ a \in 0 .. 2 /\ a < 2 /\ a + 1 \in 0 .. 2 /\ outbox = Quits(a)
  <2> HIDE DEF a
  <2> QED BY ONLY <1>0, d \in 0 .. 1
<1>2. Append(Quits(a), Qt) = Quits(a + 1) /\ Len(Quits(a + 1)) = a + 1 /\ Quits(a + 1) # <<>>
  <2>1. Append(Quits(a), Qt) = Quits(a + 1) BY <1>1, QuitsFacts
  <2> DEFINE c == a + 1
  <2>2. c \in 0 .. 2 /\ c > 0 BY <1>1
  <2> HIDE DEF c
  <2>3. Len(Quits(c)) = c /\ Quits(c) # <<>> BY <2>2, QuitsFacts
  <2> QED BY <2>1, <2>3 DEF c
<1>3. outbox' = Quits(a + 1) /\ Len(outbox') = a + 1 BY <1>1, <1>2
<1>4. inbox' = Rest(m, p, Flow(s, k, d - a)) BY DEF Carries
<1> HIDE DEF a
<1>5. (d + 1) - Len(outbox') = d - a /\ Len(outbox') \in 0 .. d + 1 BY <1>1, <1>3
<1> QED BY <1>2, <1>3, <1>4, <1>5 DEF Carries

\* The sensor replies to a QT.
LEMMA CarriesReply ==
  ASSUME NEW m \in Seq(WireLine), NEW s \in Seq(WireLine), NEW p \in 1 .. Len(m) + 1,
         NEW k \in 0 .. 2, NEW d \in 0 .. 2, Carries(m, p, s, k, d), outbox # <<>>
  PROVE  /\ Head(outbox) = Qt /\ d > 0
         /\ outbox' = Tail(outbox) /\ inbox' = inbox \o QtReply => Carries(m, p, s, k, d)'
<1> DEFINE a == Len(outbox)
<1>0. a \in 0 .. d /\ outbox = Quits(a) BY DEF Carries
<1>1. a \in 0 .. d /\ a \in 0 .. 2 /\ outbox = Quits(a)
  <2> HIDE DEF a
  <2> QED BY ONLY <1>0, d \in 0 .. 2
<1>2. a > 0
  <2>1. a = 0 => Quits(a) = <<>> BY <1>1, QuitsFacts
  <2> HIDE DEF a
  <2> QED BY <1>1, <2>1
<1>3. Head(Quits(a)) = Qt /\ Tail(Quits(a)) = Quits(a - 1) /\ Len(Quits(a - 1)) = a - 1
  <2>1. a - 1 \in 0 .. 2 BY <1>1, <1>2
  <2> QED BY <1>1, <1>2, <2>1, QuitsFacts
<1>4. ASSUME outbox' = Tail(outbox), inbox' = inbox \o QtReply
      PROVE  Carries(m, p, s, k, d)'
  <2>1. outbox' = Quits(a - 1) /\ Len(outbox') = a - 1 BY <1>1, <1>3, <1>4
  <2>2. inbox' = Rest(m, p, Flow(s, k, d - a)) \o QtReply BY <1>4 DEF Carries
  <2> HIDE DEF a
  <2>3. d - a \in 0 .. 2 /\ d - a < 2 /\ d - (a - 1) = (d - a) + 1 /\ a - 1 \in 0 .. d
    BY <1>1, <1>2
  <2>4. Flow(s, k, d - a) \in Seq(WireLine) /\ Flow(s, k, d - a) \o QtReply = Flow(s, k, (d - a) + 1)
    BY <2>3, FlowFacts
  <2>5. Rest(m, p, Flow(s, k, d - a)) \o QtReply = Rest(m, p, Flow(s, k, d - a) \o QtReply)
    <3> DEFINE f == Flow(s, k, d - a)
    <3> DEFINE g == QtReply
    <3>1. f \in Seq(WireLine) BY <2>4
    <3>2. g \in Seq(WireLine) BY QtReplyLines
    <3> HIDE DEF f, g
    <3>3. Rest(m, p, f) \o g = Rest(m, p, f \o g)
      BY <3>1, <3>2, RestAppend
    <3> QED BY <3>3 DEF f, g
  <2> QED BY <2>1, <2>2, <2>3, <2>4, <2>5 DEF Carries
<1> QED BY <1>1, <1>2, <1>3, <1>4

\* The sensor sends a scan.
LEMMA CarriesScan ==
  ASSUME NEW m \in Seq(WireLine), NEW s \in Seq(WireLine), NEW p \in 1 .. Len(m) + 1,
         NEW k \in 0 .. 1, NEW d \in {0}, Carries(m, p, s, k, d),
         inbox' = inbox \o s, outbox' = outbox
  PROVE  Carries(m, p, s, k + 1, d)'
<1>0. Len(outbox) \in 0 .. d BY DEF Carries
<1>1. /\ Len(outbox) = 0 /\ d - Len(outbox) = d /\ d \in 0 .. 2 /\ d = 0
      /\ k \in 0 .. 2 /\ k < 2
  BY <1>0
<1>2. Flow(s, k, d) \in Seq(WireLine) /\ Flow(s, k, d) \o s = Flow(s, k + 1, d)
  <2>1. Flow(s, k, d) \in Seq(WireLine) BY <1>1, FlowFacts
  <2>2. Flow(s, k, 0) \o s = Flow(s, k + 1, 0) BY <1>1, FlowFacts
  <2> QED BY <1>1, <2>1, <2>2
<1>3. inbox = Rest(m, p, Flow(s, k, d)) BY <1>1 DEF Carries
<1>4. Rest(m, p, Flow(s, k, d)) \o s = Rest(m, p, Flow(s, k, d) \o s)
  <2> DEFINE f == Flow(s, k, d)
  <2>1. f \in Seq(WireLine) BY <1>2
  <2> HIDE DEF f
  <2>2. Rest(m, p, f) \o s = Rest(m, p, f \o s) BY <2>1, RestAppend
  <2> QED BY <2>2 DEF f
<1>5. inbox' = Rest(m, p, Flow(s, k + 1, d)) BY <1>2, <1>3, <1>4
<1>6. outbox = Quits(Len(outbox)) BY DEF Carries
<1> QED BY <1>0, <1>1, <1>5, <1>6 DEF Carries

\* Two scans take their room.
LEMMA CarriesRoom ==
  ASSUME NEW m \in Seq(WireLine), NEW s \in Seq(WireLine), NEW p \in 1 .. Len(m) + 1,
         NEW d \in {0}, Carries(m, p, s, 2, d)
  PROVE  Len(inbox) >= Len(s) + Len(s)
<1>0. Len(outbox) \in 0 .. d BY DEF Carries
<1>1. d - Len(outbox) = 0 BY <1>0
<1>2. inbox = Rest(m, p, Flow(s, 2, 0)) BY <1>1 DEF Carries
<1>3. Flow(s, 2, 0) = s \o (s \o Replies(0)) BY DEF Flow
<1>4. Replies(0) = <<>> /\ s \o <<>> = s BY RepliesMore, ConcatEmptySeq
<1>5. s \o s \in Seq(WireLine) /\ Len(s \o s) = Len(s) + Len(s) BY ConcatProperties
<1> DEFINE f == s \o s
<1>6. inbox = Rest(m, p, f) /\ f \in Seq(WireLine) /\ Len(f) = Len(s) + Len(s)
  BY <1>2, <1>3, <1>4, <1>5
<1> HIDE DEF f
<1>7. Len(Rest(m, p, f)) = Len(m) + Len(f) + 1 - p BY <1>6, RestOf
<1>8. Len(m) \in Nat /\ Len(s) \in Nat OBVIOUS
<1> QED BY <1>6, <1>7, <1>8

(***************************************************************************)
(* The host reads.                                                         *)
(***************************************************************************)

\* Verbs of messages are names of commands; a scan is the same as long as the
\* same measurement runs.
LEMMA ScanIs ==
  ASSUME TypeOK, NEW nm \in Verbs
  PROVE  /\ nm \in CommandNames
         /\ \E s \in Seq(WireLine) :
              /\ s = Scan(nm)
              /\ UNCHANGED <<specified_scan_times, gen>> => s = Scan(nm)'
              /\ Len(s) = Header(nm) + DataLines + 1
              /\ s[1] = Echo(nm) /\ s[2] = Status(IF OneScan THEN "00" ELSE "99")
              /\ Header(nm) = 4 => s[3] = Plain("io")
              /\ s[Header(nm)] = Plain("stamp")
              /\ \A i \in 1 .. DataLines : s[Header(nm) + i] = Datum(gen)
              /\ s[Header(nm) + DataLines + 1] = Blank
<1>1. nm \in CommandNames BY DEF Verbs, CommandNames
<1>2. gen \in Nat /\ (IF OneScan THEN "00" ELSE "99") \in {"00", "99"}
  BY DEF TypeOK, WorldTypeOK
<1> DEFINE st == IF OneScan THEN "00" ELSE "99"
<1>3. \E g \in {gen}, t \in {st} : g \in Nat /\ t \in {"00", "99"}
  BY <1>2
<1>4. PICK g \in {gen}, t \in {st} : g \in Nat /\ t \in {"00", "99"}
  BY <1>3
<1>5. PICK s \in Seq(WireLine) :
           /\ s = ScanLines(nm, t, g)
           /\ Len(s) = Header(nm) + DataLines + 1
           /\ s[1] = Echo(nm) /\ s[2] = Status(t)
           /\ Header(nm) = 4 => s[3] = Plain("io")
           /\ s[Header(nm)] = Plain("stamp")
           /\ \A i \in 1 .. DataLines : s[Header(nm) + i] = Datum(g)
           /\ s[Header(nm) + DataLines + 1] = Blank
  BY <1>1, <1>4, ScanParts
<1>6. s = Scan(nm) BY <1>4, <1>5 DEF Scan
<1>7. UNCHANGED <<specified_scan_times, gen>> => s = Scan(nm)'
  BY <1>4, <1>5 DEF Scan, OneScan
<1> QED BY <1>1, <1>4, <1>5, <1>6, <1>7

\* How connection_readline reports the lines.
LEMMA LinesRead ==
  /\ ~Failed(Blank) /\ Empty(Blank)
  /\ \A nm \in CommandNames : NonEmpty(Echo(nm))
  /\ \A st \in LineVals : NonEmpty(Status(st))
  /\ NonEmpty(Plain("io")) /\ NonEmpty(Plain("stamp"))
  /\ \A g \in Nat : NonEmpty(Datum(g))
  /\ Failed(Timeout) /\ ~NonEmpty(Timeout)
<1>1. /\ Timeout.kind = "timeout" /\ Blank.kind = "blank"
      /\ Plain("io").kind = "io" /\ Plain("stamp").kind = "stamp"
  BY DEF Timeout, Blank, Plain
<1>2. /\ \A nm \in CommandNames : Echo(nm).kind = "echo"
      /\ \A st \in LineVals : Status(st).kind = "status"
      /\ \A g \in Nat : Datum(g).kind = "data"
  BY DEF Echo, Status, Datum
<1> QED BY <1>1, <1>2 DEF Failed, Empty, NonEmpty

\* A read takes the first line there is; without faults it times out only when
\* nothing is coming.
LEMMA ReadLine ==
  ASSUME TypeOK, KeepsUp, late = 0, faults = 0, NEW l \in Incoming, Reads(l)
  PROVE  /\ inbox # <<>> => ~Failed(l) /\ l = inbox[1] /\ inbox' = Tail(inbox) /\ late' = 0
         /\ inbox = <<>> => l = Timeout /\ Silent /\ inbox' = <<>> /\ late' = 0
<1>1. ~Mishaps BY DEF Mishaps, KeepsUp
<1>2. Silent => inbox = <<>> BY DEF Silent
<1>3. CASE inbox # <<>>
  <2>1. l = inbox[1] BY <1>1, <1>2, <1>3 DEF Incoming
  <2>2. ~Failed(l)
    BY <1>3, <2>1 DEF TypeOK, WorldTypeOK, Failed
  <2>3. inbox' = Tail(inbox) /\ late' = 0 BY <2>2 DEF Reads
  <2> QED BY <1>3, <2>1, <2>2, <2>3
<1>4. CASE inbox = <<>>
  <2>1. {inbox[i] : i \in {1} \cap DOMAIN inbox} = {} BY <1>4
  <2>2. l = Timeout /\ Silent BY <1>1, <2>1 DEF Incoming
  <2>3. Failed(l) BY <2>2, LinesRead
  <2>4. late' = late /\ inbox' = inbox BY <2>2, <2>3 DEF Reads
  <2> QED BY <1>4, <2>2, <2>4
<1> QED BY <1>3, <1>4

\* What host and sensor agree on beside the wires: a read leaves it alone.
agreed == <<is_sending, specified_scan_times, scanning_remain_times, op, frames, sensor, gen>>

LEMMA AgreedSame ==
  ASSUME NEW nm, NEW k, UNCHANGED <<agreed, outbox>>
  PROVE  /\ Under(nm, k) => Under(nm, k)'
         /\ Budget(k) => Budget(k)'
         /\ Ending(k) => Ending(k)'
         /\ OneScan' = OneScan /\ Verbs' = Verbs
BY DEF agreed, Under, Ongoing, Ending, Budget, OneScan, Verbs

\* The activations of urg_stop_measurement are at most two.
LEMMA BudgetDepth ==
  ASSUME TypeOK, NEW k, Budget(k)
  PROVE  Len(frames) \in 0 .. 2 /\ (frames = <<>> <=> Len(frames) = 0)
BY DEF Budget, TypeOK, HostTypeOK

\* The host reads line p of a message: it gets that line, and goes on to the next.
LEMMA ReadOn ==
  ASSUME TypeOK, KeepsUp, late = 0, faults = 0, NEW l \in Incoming, Reads(l),
         NEW m \in Seq(WireLine), NEW s \in Seq(WireLine), NEW p \in 1 .. Len(m),
         NEW k \in 0 .. 2, NEW d \in 0 .. 2, Carries(m, p, s, k, d)
  PROVE  l = m[p] /\ late' = 0 /\ (outbox' = outbox => Carries(m, p + 1, s, k, d)')
<1>1. /\ inbox # <<>> /\ inbox[1] = m[p]
      /\ inbox' = Tail(inbox) /\ outbox' = outbox => Carries(m, p + 1, s, k, d)'
  BY CarriesRead
<1>2. l = inbox[1] /\ inbox' = Tail(inbox) /\ late' = 0
  BY <1>1, ReadLine
<1> QED BY <1>1, <1>2

\* What a step that reads line l starts from.
Reader(l) == /\ TypeOK /\ KeepsUp /\ late = 0 /\ faults = 0
             /\ l \in Incoming /\ Reads(l)
             /\ UNCHANGED <<specified_scan_times, gen>>

\* Such a step gets line p of the message in hand and goes on to the next.
LEMMA ReadMessage ==
  ASSUME NEW l, Reader(l), NEW nm \in Verbs, NEW m \in Seq(WireLine),
         NEW p \in 1 .. Len(m), NEW q, q = p + 1, NEW k \in 0 .. 2, NEW d \in 0 .. 2,
         Carries(m, p, Scan(nm), k, d)
  PROVE  l = m[p] /\ late' = 0 /\ (outbox' = outbox => Carries(m, q, Scan(nm), k, d)')
<1>1. /\ TypeOK /\ KeepsUp /\ late = 0 /\ faults = 0 /\ l \in Incoming /\ Reads(l)
      /\ UNCHANGED <<specified_scan_times, gen>>
  BY DEF Reader
<1>2. PICK s \in Seq(WireLine) : s = Scan(nm) /\ s = Scan(nm)'
  BY <1>1, ScanIs
<1>3. Carries(m, p, s, k, d) BY <1>2
<1>4. m \in Seq(WireLine) /\ p \in 1 .. Len(m) /\ k \in 0 .. 2 /\ d \in 0 .. 2
  OBVIOUS
<1>5. l = m[p] /\ late' = 0 /\ (outbox' = outbox => Carries(m, p + 1, s, k, d)')
  BY ONLY <1>1, <1>2, <1>3, <1>4, ReadOn
<1>6. outbox' = outbox => Carries(m, q, s, k, d)' BY <1>5
<1>7. outbox' = outbox => Carries(m, q, Scan(nm), k, d)' BY <1>2, <1>6 DEF Carries
<1> QED BY <1>5, <1>7

LEMMA ReaderFacts ==
  ASSUME NEW l, Reader(l)
  PROVE  /\ TypeOK /\ (UNCHANGED agreed => Len(frames)' = Len(frames))
         /\ OneScan' = OneScan /\ Verbs' = Verbs /\ Verbs \subseteq CommandNames
BY DEF Reader, agreed, OneScan, Verbs, Single, Continuous, CommandNames

\* A line of the acknowledgement.
LEMMA ReadAck ==
  ASSUME NEW l, Reader(l), NEW p \in 1 .. 3, NEW q, q = p + 1, InAck(p)
  PROVE  /\ late' = 0 /\ ~OneScan
         /\ \E nm \in Verbs : nm \in CommandNames /\ l = Ack(nm)[p]
         /\ UNCHANGED <<agreed, outbox>> => InAck(q)'
<1>0. /\ TypeOK /\ (UNCHANGED agreed => Len(frames)' = Len(frames))
      /\ OneScan' = OneScan /\ Verbs' = Verbs /\ Verbs \subseteq CommandNames
  BY ReaderFacts
<1>1. PICK nm \in Verbs, k \in 0 .. 2 :
        Carries(Ack(nm), p, Scan(nm), k, Len(frames)) /\ Under(nm, k) /\ Budget(k)
  BY DEF InAck
<1>2. nm \in CommandNames BY <1>0
<1>3. PICK d \in 0 .. 2 : d = Len(frames) BY <1>0, <1>1, BudgetDepth
<1>4. PICK m \in Seq(WireLine) : m = Ack(nm) /\ Len(m) = 3 BY <1>2, AckLines
<1>5. l = m[p] /\ late' = 0 /\ (outbox' = outbox => Carries(m, q, Scan(nm), k, d)')
  <2>1. /\ Carries(m, p, Scan(nm), k, d) /\ p \in 1 .. Len(m)
        /\ q = p + 1 /\ Reader(l) /\ m \in Seq(WireLine) /\ nm \in Verbs
        /\ k \in 0 .. 2 /\ d \in 0 .. 2
    BY <1>1, <1>3, <1>4
  <2> QED BY ONLY <2>1, ReadMessage
<1>6. ~OneScan BY DEF InAck
<1>7. ASSUME UNCHANGED <<agreed, outbox>> PROVE InAck(q)'
  <2>1. Carries(Ack(nm), q, Scan(nm), k, Len(frames))'
    BY <1>0, <1>3, <1>4, <1>5, <1>7 DEF Carries
  <2>2. Under(nm, k)' /\ Budget(k)' BY <1>1, <1>7, AgreedSame
  <2> QED BY <1>0, <1>6, <2>1, <2>2 DEF InAck
<1> QED BY <1>2, <1>4, <1>5, <1>6, <1>7

\* A line of the reply to QT.
LEMMA ReadReply ==
  ASSUME NEW l, Reader(l), NEW p \in 1 .. 3, NEW q, q = p + 1, InReply(p)
  PROVE  late' = 0 /\ l = QtReply[p] /\ (UNCHANGED <<agreed, outbox>> => InReply(q)')
<1>0. /\ TypeOK /\ (UNCHANGED agreed => Len(frames)' = Len(frames))
      /\ OneScan' = OneScan /\ Verbs' = Verbs /\ Verbs \subseteq CommandNames
  BY ReaderFacts
<1>1. PICK nm \in Verbs : Carries(QtReply, p, Scan(nm), 0, Len(frames) - 1)
  BY DEF InReply
<1>2. frames # <<>> /\ Ending(0) /\ Budget(0) BY DEF InReply
<1>3. PICK d \in 0 .. 2 : d = Len(frames) - 1
  <2>1. Len(frames) \in 0 .. 2 /\ Len(frames) # 0 BY <1>0, <1>2, BudgetDepth
  <2> QED BY <2>1
<1>4. PICK m \in Seq(WireLine) : m = QtReply /\ Len(m) = 3 BY QtReplyLines
<1>5. l = m[p] /\ late' = 0 /\ (outbox' = outbox => Carries(m, q, Scan(nm), 0, d)')
  <2>1. /\ Carries(m, p, Scan(nm), 0, d) /\ p \in 1 .. Len(m)
        /\ q = p + 1 /\ Reader(l) /\ m \in Seq(WireLine) /\ nm \in Verbs
        /\ 0 \in 0 .. 2 /\ d \in 0 .. 2
    <3>1. Carries(m, p, Scan(nm), 0, d) BY <1>1, <1>3, <1>4
    <3> QED BY <1>4, <3>1
  <2> QED BY ONLY <2>1, ReadMessage
<1>6. ASSUME UNCHANGED <<agreed, outbox>> PROVE InReply(q)'
  <2>1. Carries(QtReply, q, Scan(nm), 0, Len(frames) - 1)'
    BY <1>0, <1>3, <1>4, <1>5, <1>6 DEF Carries
  <2>2. Ending(0)' /\ Budget(0)' BY <1>2, <1>6, AgreedSame
  <2>3. frames' = frames BY <1>6 DEF agreed
  <2> QED BY <1>0, <1>2, <2>1, <2>2, <2>3 DEF InReply
<1> QED BY <1>4, <1>5, <1>6

\* A line of a scan.
LEMMA ReadScan ==
  ASSUME NEW l, Reader(l), NEW nm \in Verbs, NEW p \in 1 .. Header(nm) + DataLines + 1,
         NEW q, q = p + 1, InScan(nm, p)
  PROVE  /\ late' = 0 /\ (UNCHANGED <<agreed, outbox>> => InScan(nm, q)')
         /\ p = 1 => l = Echo(nm)
         /\ p = 2 => l = Status(IF OneScan THEN "00" ELSE "99")
         /\ p \in Header(nm) + 1 .. Header(nm) + DataLines => l = Datum(gen)
         /\ p = Header(nm) + DataLines + 1 => l = Blank
<1>0. /\ TypeOK /\ (UNCHANGED agreed => Len(frames)' = Len(frames))
      /\ OneScan' = OneScan /\ Verbs' = Verbs /\ Verbs \subseteq CommandNames
  BY ReaderFacts
<1>1. PICK k \in 0 .. 2 :
        Carries(Scan(nm), p, Scan(nm), k, Len(frames)) /\ Under(nm, k + 1) /\ Budget(k + 1)
  BY DEF InScan
<1>2. nm \in CommandNames BY <1>0
<1>3. PICK d \in 0 .. 2 : d = Len(frames) BY <1>0, <1>1, BudgetDepth
<1>4. PICK s \in Seq(WireLine) :
              /\ s = Scan(nm)
              /\ UNCHANGED <<specified_scan_times, gen>> => s = Scan(nm)'
              /\ Len(s) = Header(nm) + DataLines + 1
              /\ s[1] = Echo(nm) /\ s[2] = Status(IF OneScan THEN "00" ELSE "99")
              /\ Header(nm) = 4 => s[3] = Plain("io")
              /\ s[Header(nm)] = Plain("stamp")
              /\ \A i \in 1 .. DataLines : s[Header(nm) + i] = Datum(gen)
              /\ s[Header(nm) + DataLines + 1] = Blank
  BY <1>0, ScanIs
<1>5. Header(nm) \in {3, 4} /\ DataLines \in Nat /\ gen \in Nat
  BY <1>0, BoundAssumption DEF Header, TypeOK, WorldTypeOK
<1>6. p \in Header(nm) + 1 .. Header(nm) + DataLines => s[p] = Datum(gen)
  <2> SUFFICES ASSUME p \in Header(nm) + 1 .. Header(nm) + DataLines
               PROVE  s[p] = Datum(gen)
    OBVIOUS
  <2> DEFINE i == p - Header(nm)
  <2>1. i \in 1 .. DataLines /\ Header(nm) + i = p
    <3> DEFINE h == Header(nm)
    <3>1. h \in Nat /\ p \in h + 1 .. h + DataLines BY <1>5
    <3> HIDE DEF h
    <3>2. p - h \in 1 .. DataLines /\ h + (p - h) = p BY ONLY <1>5, <3>1
    <3> QED BY <3>2 DEF h
  <2> HIDE DEF i
  <2> QED BY <1>4, <2>1
<1>7. l = s[p] /\ late' = 0 /\ (outbox' = outbox => Carries(s, q, Scan(nm), k, d)')
  <2>1. Carries(s, p, Scan(nm), k, d) /\ p \in 1 .. Len(s) BY <1>1, <1>3, <1>4
  <2> QED BY <2>1, ReadMessage
<1>8. ASSUME UNCHANGED <<agreed, outbox>> PROVE InScan(nm, q)'
  <2>1. s = Scan(nm)' BY <1>4, <1>8 DEF agreed
  <2>2. Carries(Scan(nm), q, Scan(nm), k, Len(frames))'
    BY <1>0, <1>3, <1>7, <1>8, <2>1 DEF Carries
  <2>3. Under(nm, k + 1)' /\ Budget(k + 1)' BY <1>1, <1>8, AgreedSame
  <2> QED BY <2>2, <2>3 DEF InScan
<1> QED BY <1>4, <1>6, <1>7, <1>8

\* Between two messages the host meets a scan, a reply, or nothing.
LEMMA BetweenNext ==
  ASSUME TypeOK, Between(0)
  PROVE  \/ \E nm \in Verbs : InScan(nm, 1)
         \/ InReply(1)
         \/ /\ inbox = <<>> /\ Len(outbox) = Len(frames)
            /\ \E nm \in Verbs : Under(nm, 0) /\ Budget(0)
<1>1. PICK nm \in Verbs, k \in 0 .. 2 :
        Carries(<<>>, 1, Scan(nm), k, Len(frames)) /\ Under(nm, k) /\ Budget(k + 0)
  BY DEF Between
<1>2. Budget(k)
  <2>1. k + 0 = k OBVIOUS
  <2> QED BY <1>1, <2>1
<1>3. PICK d \in 0 .. 2 : d = Len(frames) BY <1>2, BudgetDepth
<1>4. PICK s \in Seq(WireLine) : s = Scan(nm) BY ScanIs
<1>5. Carries(<<>>, 1, s, k, d) BY <1>1, <1>3, <1>4
<1>6. /\ k > 0 => Carries(s, 1, s, k - 1, d)
      /\ k = 0 /\ Len(outbox) < d => Carries(QtReply, 1, s, 0, d - 1)
      /\ k = 0 /\ Len(outbox) = d => inbox = <<>>
  BY <1>5, CarriesNext
<1>7. CASE k > 0
  <2>1. PICK j \in 0 .. 1 : k = j + 1 /\ k - 1 = j
    <3>1. k - 1 \in 0 .. 1 /\ k = (k - 1) + 1 BY <1>7
    <3> QED BY <3>1
  <2>2. Carries(Scan(nm), 1, Scan(nm), j, Len(frames)) BY <1>3, <1>4, <1>6, <1>7, <2>1
  <2>3. Under(nm, j + 1) /\ Budget(j + 1) BY <1>1, <1>2, <2>1
  <2>4. InScan(nm, 1) BY <2>2, <2>3 DEF InScan
  <2> QED BY <2>4
<1>8. CASE k = 0 /\ Len(outbox) < d
  <2>1. frames # <<>> BY <1>3, <1>8, <1>5 DEF Carries
  <2>2. Carries(QtReply, 1, Scan(nm), 0, Len(frames) - 1) BY <1>3, <1>4, <1>6, <1>8
  <2>3. Ending(0) /\ Budget(0) BY <1>1, <1>2, <1>8, <2>1 DEF Under
  <2>4. InReply(1) BY <2>1, <2>2, <2>3 DEF InReply
  <2> QED BY <2>4
<1>9. CASE k = 0 /\ Len(outbox) = d
  BY <1>1, <1>2, <1>3, <1>6, <1>9
<1>10. Len(outbox) \in 0 .. d BY <1>5 DEF Carries
<1> QED BY <1>7, <1>8, <1>9, <1>10

\* The end of the acknowledgement.
LEMMA AckEnd ==
  TypeOK /\ InAck(4) => Between(0)
<1> SUFFICES ASSUME TypeOK, InAck(4) PROVE Between(0) OBVIOUS
<1>1. PICK nm \in Verbs, k \in 0 .. 2 :
        Carries(Ack(nm), 4, Scan(nm), k, Len(frames)) /\ Under(nm, k) /\ Budget(k)
  BY DEF InAck
<1>2. nm \in CommandNames BY DEF Verbs, Single, Continuous, CommandNames
<1>3. PICK d \in 0 .. 2 : d = Len(frames) BY <1>1, BudgetDepth
<1>4. PICK s \in Seq(WireLine) : s = Scan(nm) BY ScanIs
<1>5. PICK m \in Seq(WireLine) : m = Ack(nm) /\ Len(m) = 3
  BY <1>2, AckLines
<1>6. Carries(m, Len(m) + 1, s, k, d)
  <2>1. Len(m) + 1 = 4 BY <1>5
  <2> QED BY <1>1, <1>3, <1>4, <1>5, <2>1
<1>7. Carries(<<>>, 1, s, k, d) BY <1>6, CarriesEnd
<1>8. Carries(<<>>, 1, Scan(nm), k, Len(frames)) BY <1>3, <1>4, <1>7
<1>9. Budget(k + 0)
  <2>1. k + 0 = k OBVIOUS
  <2> QED BY <1>1, <2>1
<1> QED BY <1>1, <1>8, <1>9 DEF Between

\* A call is under way on an open session.
LEMMA CallUnderWay ==
  ASSUME SyncInv, pc # "ready"
  PROVE  late = 0 /\ faults = 0 /\ is_active /\ link = "up" /\ Place
BY DEF SyncInv

LEMMA SyncStep ==
  ASSUME late' = 0, faults' = 0, is_active', link' = "up", pc' # "ready", Place'
  PROVE  SyncInv'
BY DEF SyncInv, GetSucceeds

\* receive_data reads an echo: of the measurement, a scan or the reply to QT; it
\* waits in vain only for a second single scan.
LEMMA SyncRdEcho ==
  ASSUME TypeOK, KeepsUp, SyncInv, RdEcho PROVE SyncInv'
<1>1. /\ late = 0 /\ faults = 0 /\ is_active /\ link = "up" /\ pc = "rd_echo"
      /\ rcv.points = 0 /\ Waiting
  <2>1. pc = "rd_echo" BY DEF RdEcho, Reading
  <2>2. late = 0 /\ faults = 0 /\ is_active /\ link = "up" /\ Place BY <2>1, CallUnderWay
  <2> QED BY <2>1, <2>2 DEF Place
<1>2. PICK l \in Incoming :
        /\ Reads(l)
        /\ IF NonEmpty(l)
           THEN /\ pc' = "rd_status"
                /\ rcv' = [rcv EXCEPT !.type = TypeOf(l)]
           ELSE pc' = "rd_ret" /\ ret' = "NO_RESPONSE"
  BY DEF RdEcho, FailRet, GoRet
<1>3. /\ Reader(l) /\ faults' = 0 /\ is_active' /\ link' = "up"
      /\ UNCHANGED <<agreed, outbox>>
  BY <1>1, <1>2 DEF Reader, RdEcho, Reading, Untouched, agreed, flags, config
<1>4. rcv \in RcvType BY DEF TypeOK, HostTypeOK, RcvType
<1>5. NonEmpty(l) => rcv'.points = 0 /\ rcv'.type = TypeOf(l)
  BY <1>1, <1>2, <1>4 DEF RcvType
<1>6. Verbs \subseteq CommandNames /\ Verbs' = Verbs /\ OneScan' = OneScan
  BY <1>3, ReaderFacts
<1>7. CASE Unread
  <2>1. inbox = <<>> /\ outbox # <<>> BY <1>7 DEF Unread
  <2>2. ~Silent BY <1>1, <2>1 DEF Silent
  <2> QED BY <1>1, <1>2, <2>1, <2>2, ReadLine
<1>8. CASE InAck(1)
  <2>1. /\ late' = 0 /\ InAck(2)'
        /\ \E nm \in Verbs : nm \in CommandNames /\ l = Ack(nm)[1]
    BY <1>3, <1>8, ReadAck
  <2>2. PICK nm \in Verbs : nm \in CommandNames /\ l = Ack(nm)[1] BY <2>1
  <2>3. l = Echo(nm) BY <2>2, AckLines
  <2>4. NonEmpty(l) BY <2>2, <2>3, LinesRead
  <2>5. TypeOf(l) # "stop" BY <2>3 DEF TypeOf, Echo, Verbs, Single, Continuous
  <2>6. Place' BY <1>2, <1>5, <2>1, <2>4, <2>5 DEF Place
  <2> QED BY <1>2, <1>3, <2>1, <2>4, <2>6, SyncStep
<1>9. CASE Between(0)
  <2>1. CASE \E nm \in Verbs : InScan(nm, 1)
    <3>1. PICK nm \in Verbs : InScan(nm, 1) BY <2>1
    <3>2. 1 \in 1 .. Header(nm) + DataLines + 1 BY BoundAssumption DEF Header
    <3>3. late' = 0 /\ l = Echo(nm) /\ InScan(nm, 2)' BY <1>3, <3>1, <3>2, ReadScan
    <3>4. NonEmpty(l) BY <1>6, <3>3, LinesRead
    <3>5. TypeOf(l) = TypeFor(nm)
      BY <3>3 DEF TypeOf, TypeFor, Echo, Verbs, Single, Continuous
    <3>6. InHeader(2)' BY <1>5, <1>6, <3>3, <3>4, <3>5 DEF InHeader, TypeFor
    <3>7. Place' BY <1>2, <3>4, <3>6 DEF Place
    <3> QED BY <1>2, <1>3, <3>3, <3>4, <3>7, SyncStep
  <2>2. CASE InReply(1)
    <3>1. late' = 0 /\ l = QtReply[1] /\ InReply(2)' BY <1>3, <2>2, ReadReply
    <3>2. l = Echo("QT") BY <3>1, QtReplyLines
    <3>3. NonEmpty(l) /\ TypeOf(l) = "stop"
      <4>1. "QT" \in CommandNames BY DEF CommandNames
      <4> QED BY <3>2, <4>1, LinesRead DEF TypeOf, Echo
    <3>4. Place' BY <1>2, <1>5, <3>1, <3>3 DEF Place
    <3> QED BY <1>2, <1>3, <3>1, <3>3, <3>4, SyncStep
  <2>3. CASE /\ inbox = <<>> /\ Len(outbox) = Len(frames)
             /\ \E nm \in Verbs : Under(nm, 0) /\ Budget(0)
    <3>1. l = Timeout /\ Silent /\ inbox' = <<>> /\ late' = 0
      BY <1>1, <1>2, <2>3, ReadLine
    <3>2. ~NonEmpty(l) BY <3>1, LinesRead
    <3>3. outbox = <<>> /\ sensor.mode # "measure" BY <1>1, <3>1 DEF Silent
    <3>4. frames = <<>>
      <4>1. Len(frames) \in 0 .. 2 /\ (frames = <<>> <=> Len(frames) = 0)
        BY <2>3, BudgetDepth
      <4> QED BY <2>3, <3>3, <4>1
    <3>5. OneScan
      <4>1. PICK nm \in Verbs : Ongoing(nm, 0) BY <2>3, <3>4 DEF Under
      <4>2. /\ specified_scan_times = 0 => sensor.mode = "measure"
            /\ specified_scan_times > 1 =>
                 /\ scanning_remain_times >= 1
                 /\ sensor.mode # "measure" => scanning_remain_times = 0
        BY <4>1 DEF Ongoing
      <4>3. specified_scan_times \in Nat BY DEF TypeOK, HostTypeOK
      <4> QED BY <3>3, <4>2, <4>3 DEF OneScan
    <3>6. Between(0)'
      <4>1. UNCHANGED <<inbox, outbox, frames, specified_scan_times, gen>>
        BY <1>3, <2>3, <3>1 DEF agreed
      <4>2. PICK nm \in Verbs, k \in 0 .. 2 :
              Carries(<<>>, 1, Scan(nm), k, Len(frames)) /\ Under(nm, k) /\ Budget(k + 0)
        BY <1>9 DEF Between
      <4>3. Under(nm, k)' /\ Budget(k + 0)' BY <1>3, <4>2, AgreedSame
      <4>4. PICK s \in Seq(WireLine) : s = Scan(nm) /\ s = Scan(nm)'
        BY <4>1, ScanIs
      <4>5. Carries(<<>>, 1, Scan(nm), k, Len(frames))'
        BY <4>1, <4>2, <4>4 DEF Carries
      <4> QED BY <1>6, <4>3, <4>5 DEF Between
    <3>7. frames' = <<>> BY <1>3, <3>4 DEF agreed
    <3>8. Place' BY <1>2, <1>6, <3>2, <3>5, <3>6, <3>7 DEF Place
    <3> QED BY <1>2, <1>3, <3>1, <3>2, <3>8, SyncStep
  <2> QED BY <1>9, <2>1, <2>2, <2>3, BetweenNext
<1> QED BY <1>1, <1>7, <1>8, <1>9 DEF Waiting

\* The status: that of the reply to QT, of the acknowledgement or of a scan.
LEMMA SyncRdStatus ==
  ASSUME TypeOK, KeepsUp, SyncInv, RdStatus PROVE SyncInv'
<1>1. /\ late = 0 /\ faults = 0 /\ is_active /\ link = "up" /\ pc = "rd_status"
      /\ \/ InReply(2) /\ rcv.type = "stop"
         \/ InAck(2) /\ rcv.type # "stop"
         \/ InHeader(2)
  <2>1. pc = "rd_status" BY DEF RdStatus, Reading
  <2>2. late = 0 /\ faults = 0 /\ is_active /\ link = "up" /\ Place BY <2>1, CallUnderWay
  <2> QED BY <2>1, <2>2 DEF Place
<1> DEFINE Goto(label) == pc' = label /\ Untouched /\ UNCHANGED <<ret, last_errno>>
<1>2. PICK l \in Incoming :
        /\ Reads(l)
        /\ CASE l.kind # "status" -> Abort("rd_ret", "INVALID_RESPONSE")
             [] l.kind = "status" /\ ~l.good /\ ignore_checkSumError = 0 ->
                  Abort(IF rcv.stamp THEN "rd_ret" ELSE "crashed", "CHECKSUM_ERROR")
             [] OTHER ->
                  IF rcv.type = "stop" THEN Goto("rd_qt")
                  ELSE IF ~OneScan /\ l.val = "00" THEN Goto("rd_ack")
                  ELSE IF l.val # (IF OneScan THEN "00" ELSE "99")
                       THEN Abort("rd_ret", "INVALID_RESPONSE")
                  ELSE Goto(IF rcv.type = "distance_io" THEN "rd_io" ELSE "rd_stamp")
  BY DEF RdStatus, OneScan
<1>3. UNCHANGED <<config, frames, rcv, sensor, gen, op, link, faults>>
  BY DEF RdStatus, Reading
<1>4. Reader(l)
  BY <1>1, <1>2, <1>3 DEF Reader, config
<1>5. Verbs' = Verbs BY <1>4, ReaderFacts
<1>6. ASSUME NEW label, Goto(label), label # "ready"
      PROVE  /\ UNCHANGED <<agreed, outbox, rcv>> /\ pc' = label /\ pc' # "ready"
             /\ faults' = 0 /\ is_active' /\ link' = "up"
  BY <1>1, <1>3, <1>6 DEF Untouched, agreed, flags, config
<1>7. ASSUME NEW st \in {"00", "99"}, l = Status(st)
      PROVE  IF rcv.type = "stop" THEN Goto("rd_qt")
             ELSE IF ~OneScan /\ st = "00" THEN Goto("rd_ack")
             ELSE st = (IF OneScan THEN "00" ELSE "99") =>
                    Goto(IF rcv.type = "distance_io" THEN "rd_io" ELSE "rd_stamp")
  <2>1. l.kind = "status" /\ l.good /\ l.val = st BY <1>7 DEF Status
  <2> HIDE DEF Goto
  <2> QED BY <1>2, <2>1
<1> HIDE DEF Goto
<1>8. CASE InReply(2) /\ rcv.type = "stop"
  <2>1. late' = 0 /\ l = QtReply[2] /\ (UNCHANGED <<agreed, outbox>> => InReply(3)')
    BY <1>4, <1>8, ReadReply
  <2>2. l = Status("00") BY <2>1, QtReplyLines
  <2>3. Goto("rd_qt") BY <1>7, <1>8, <2>2
  <2>4. UNCHANGED <<agreed, outbox>> /\ pc' = "rd_qt" BY <1>6, <2>3
  <2>5. Place' BY <2>1, <2>4 DEF Place
  <2> QED BY <1>6, <2>1, <2>3, <2>5, SyncStep
<1>9. CASE InAck(2) /\ rcv.type # "stop"
  <2>1. /\ late' = 0 /\ ~OneScan /\ (UNCHANGED <<agreed, outbox>> => InAck(3)')
        /\ \E nm \in Verbs : nm \in CommandNames /\ l = Ack(nm)[2]
    BY <1>4, <1>9, ReadAck
  <2>2. l = Status("00") BY <2>1, AckLines
  <2>3. Goto("rd_ack") BY <1>7, <1>9, <2>1, <2>2
  <2>4. UNCHANGED <<agreed, outbox>> /\ pc' = "rd_ack" BY <1>6, <2>3
  <2>5. Place' BY <2>1, <2>4 DEF Place
  <2> QED BY <1>6, <2>1, <2>3, <2>5, SyncStep
<1>10. CASE InHeader(2)
  <2>1. PICK nm \in Verbs : InScan(nm, 2) /\ rcv.type = TypeFor(nm)
    BY <1>10 DEF InHeader
  <2>2. 2 \in 1 .. Header(nm) + DataLines + 1 BY BoundAssumption DEF Header
  <2>3. /\ late' = 0 /\ (UNCHANGED <<agreed, outbox>> => InScan(nm, 3)')
        /\ l = Status(IF OneScan THEN "00" ELSE "99")
    BY <1>4, <2>1, <2>2, ReadScan
  <2>4. rcv.type # "stop" BY <2>1 DEF TypeFor
  <2> DEFINE label == IF rcv.type = "distance_io" THEN "rd_io" ELSE "rd_stamp"
  <2>5. Goto(label) BY <1>7, <2>3, <2>4
  <2>6. UNCHANGED <<agreed, outbox, rcv>> /\ pc' = label /\ pc' # "ready" BY <1>6, <2>5
  <2>7. rcv.points = 0 BY <1>10 DEF InHeader
  <2>8. InHeader(3)'
    BY <1>5, <2>1, <2>3, <2>6, <2>7 DEF InHeader, TypeFor
  <2>9. Place' BY <2>6, <2>8 DEF Place
  <2> QED BY <1>6, <2>3, <2>5, <2>9, SyncStep
<1> QED BY <1>1, <1>8, <1>9, <1>10

\* The blank line that ends the reply to QT.
LEMMA SyncRdQt ==
  ASSUME TypeOK, KeepsUp, SyncInv, RdQt PROVE SyncInv'
<1>1. late = 0 /\ faults = 0 /\ is_active /\ link = "up" /\ InReply(3)
  <2>1. pc = "rd_qt" BY DEF RdQt, Reading
  <2>2. late = 0 /\ faults = 0 /\ is_active /\ link = "up" /\ Place BY <2>1, CallUnderWay
  <2> QED BY <2>1, <2>2 DEF Place
<1>2. PICK l \in Incoming :
        Reads(l) /\ (Empty(l) => pc' = "rd_ret" /\ ret' = "NO_ERROR")
  BY DEF RdQt, GoRet
<1>3. /\ Reader(l) /\ faults' = 0 /\ is_active' /\ link' = "up"
      /\ UNCHANGED <<agreed, outbox>>
  BY <1>1, <1>2 DEF Reader, RdQt, Reading, Untouched, agreed, flags, config
<1>4. late' = 0 /\ l = QtReply[3] /\ InReply(4)' BY <1>1, <1>3, ReadReply
<1>5. Empty(l) BY <1>4, QtReplyLines, LinesRead
<1>6. Place' BY <1>2, <1>4, <1>5 DEF Place
<1> QED BY <1>2, <1>3, <1>4, <1>5, <1>6, SyncStep

\* The blank line that ends the acknowledgement.
LEMMA SyncRdAck ==
  ASSUME TypeOK, KeepsUp, SyncInv, RdAck PROVE SyncInv'
<1>1. late = 0 /\ faults = 0 /\ is_active /\ link = "up" /\ InAck(3)
  <2>1. pc = "rd_ack" BY DEF RdAck, Reading
  <2>2. late = 0 /\ faults = 0 /\ is_active /\ link = "up" /\ Place BY <2>1, CallUnderWay
  <2> QED BY <2>1, <2>2 DEF Place
<1>2. PICK l \in Incoming :
        /\ Reads(l)
        /\ Empty(l) => /\ pc' = "rd_echo" /\ rcv'.points = 0
                       /\ Untouched
  BY DEF RdAck, ReceiveData
<1>3. UNCHANGED <<config, frames, sensor, gen, op, link, faults>>
  BY DEF RdAck, Reading
<1>4. Reader(l) BY <1>1, <1>2, <1>3 DEF Reader, config
<1>5. /\ late' = 0 /\ (UNCHANGED <<agreed, outbox>> => InAck(4)')
      /\ \E nm \in Verbs : nm \in CommandNames /\ l = Ack(nm)[3]
  BY <1>1, <1>4, ReadAck
<1>6. Empty(l) BY <1>5, AckLines, LinesRead
<1>7. UNCHANGED <<agreed, outbox>> /\ faults' = 0 /\ is_active' /\ link' = "up"
  BY <1>1, <1>2, <1>3, <1>6 DEF Untouched, agreed, flags, config
<1>8. Between(0)'
  <2>1. TypeOK' BY TypeNext DEF Next, Host
  <2>2. InAck(4)' BY <1>5, <1>7
  <2> QED BY <2>1, <2>2, AckEnd, PTL
<1>9. Place' BY <1>2, <1>6, <1>8 DEF Place, Waiting
<1> QED BY <1>2, <1>5, <1>6, <1>7, <1>9, SyncStep

\* The I/O line and the time stamp of a scan.
LEMMA SyncRdIo ==
  ASSUME TypeOK, KeepsUp, SyncInv, RdIo PROVE SyncInv'
<1>1. /\ late = 0 /\ faults = 0 /\ is_active /\ link = "up"
      /\ InHeader(3) /\ rcv.type = "distance_io"
  <2>1. pc = "rd_io" BY DEF RdIo, Reading
  <2>2. late = 0 /\ faults = 0 /\ is_active /\ link = "up" /\ Place BY <2>1, CallUnderWay
  <2> QED BY <2>1, <2>2 DEF Place
<1>2. PICK l \in Incoming : Reads(l) BY DEF RdIo
<1>3. /\ Reader(l) /\ faults' = 0 /\ is_active' /\ link' = "up" /\ pc' = "rd_stamp"
      /\ UNCHANGED <<agreed, outbox, rcv>>
  BY <1>1, <1>2 DEF Reader, RdIo, Reading, Untouched, agreed, flags, config
<1>4. PICK nm \in Verbs : InScan(nm, 3) /\ rcv.type = TypeFor(nm)
  BY <1>1 DEF InHeader
<1>5. 3 \in 1 .. Header(nm) + DataLines + 1 BY BoundAssumption DEF Header
<1>6. late' = 0 /\ InScan(nm, 4)' BY <1>3, <1>4, <1>5, ReadScan
<1>7. InHeader(4)'
  <2>1. Verbs' = Verbs BY <1>3, ReaderFacts
  <2> QED BY <1>1, <1>3, <1>4, <1>6, <2>1 DEF InHeader, TypeFor
<1>8. Place' BY <1>1, <1>3, <1>7 DEF Place
<1> QED BY <1>3, <1>6, <1>8, SyncStep

LEMMA SyncRdStamp ==
  ASSUME TypeOK, KeepsUp, SyncInv, RdStamp PROVE SyncInv'
<1>1. /\ late = 0 /\ faults = 0 /\ is_active /\ link = "up"
      /\ InHeader(IF rcv.type = "distance_io" THEN 4 ELSE 3)
  <2>1. pc = "rd_stamp" BY DEF RdStamp, Reading
  <2>2. late = 0 /\ faults = 0 /\ is_active /\ link = "up" /\ Place BY <2>1, CallUnderWay
  <2> QED BY <2>1, <2>2 DEF Place
<1>2. PICK nm \in Verbs : rcv.type = TypeFor(nm) /\ InScan(nm, Header(nm)) /\ rcv.points = 0
  <2>1. CASE rcv.type = "distance_io"
    <3>1. InHeader(4) BY <1>1, <2>1
    <3>2. PICK nm \in Verbs : InScan(nm, 4) /\ rcv.type = TypeFor(nm)
      BY <3>1 DEF InHeader
    <3>3. Header(nm) = 4 BY <2>1, <3>2 DEF TypeFor, Header
    <3> QED BY <3>1, <3>2, <3>3 DEF InHeader
  <2>2. CASE rcv.type # "distance_io"
    <3>1. InHeader(3) BY <1>1, <2>2
    <3>2. PICK nm \in Verbs : InScan(nm, 3) /\ rcv.type = TypeFor(nm)
      BY <3>1 DEF InHeader
    <3>3. Header(nm) = 3 BY <2>2, <3>2 DEF TypeFor, Header
    <3> QED BY <3>1, <3>2, <3>3 DEF InHeader
  <2> QED BY <2>1, <2>2
<1>3. PICK l \in Incoming : Reads(l) BY DEF RdStamp
<1>4. /\ Reader(l) /\ faults' = 0 /\ is_active' /\ link' = "up" /\ pc' = "rd_data"
      /\ UNCHANGED <<agreed, outbox, rcv>>
  BY <1>1, <1>2, <1>3 DEF Reader, RdStamp, Reading, Untouched, agreed, flags, config, TypeFor
<1>5. PICK p \in 1 .. Header(nm) + DataLines + 1 : p = Header(nm)
  BY BoundAssumption DEF Header
<1>6. late' = 0 /\ InScan(nm, p + 1)' BY <1>2, <1>4, <1>5, ReadScan
<1>7. Place'
  <2>1. Verbs' = Verbs BY <1>4, ReaderFacts
  <2>2. p + 1 = Header(nm) + rcv'.points + 1
    <3>1. rcv'.points = 0 BY <1>2, <1>4
    <3>2. Header(nm) \in Nat BY DEF Header
    <3> QED BY <1>5, <3>1, <3>2
  <2>3. \E n \in Verbs' : \E j \in {Header(n) + rcv'.points + 1} : InScan(n, j)'
    BY <1>6, <2>1, <2>2
  <2> QED BY <1>2, <1>4, <2>3 DEF Place
<1> QED BY <1>4, <1>6, <1>7, SyncStep

\* A data line, or the blank line after the last one.
LEMMA SyncRdData ==
  ASSUME TypeOK, KeepsUp, SyncInv, RdData PROVE SyncInv'
<1>1. /\ late = 0 /\ faults = 0 /\ is_active /\ link = "up" /\ pc = "rd_data"
      /\ rcv.points > 0 => rcv.gen = gen
      /\ \E nm \in Verbs : \E p \in {Header(nm) + rcv.points + 1} : InScan(nm, p)
  <2>1. pc = "rd_data" BY DEF RdData, Reading
  <2>2. late = 0 /\ faults = 0 /\ is_active /\ link = "up" /\ Place BY <2>1, CallUnderWay
  <2> QED BY <2>1, <2>2 DEF Place
<1>2. PICK nm \in Verbs : \E p \in {Header(nm) + rcv.points + 1} : InScan(nm, p)
  BY <1>1
<1>3. PICK p \in {Header(nm) + rcv.points + 1} : InScan(nm, p)
  BY <1>2
<1>4. /\ Header(nm) \in {3, 4} /\ DataLines \in Nat /\ DataLines >= 1
      /\ rcv \in RcvType /\ rcv.points \in 0 .. DataLines /\ gen \in Nat
  BY BoundAssumption DEF Header, TypeOK, HostTypeOK, WorldTypeOK, RcvType
<1>5. /\ p \in 1 .. Header(nm) + DataLines + 1
      /\ rcv.points < DataLines => p \in Header(nm) + 1 .. Header(nm) + DataLines
      /\ rcv.points = DataLines => p = Header(nm) + DataLines + 1
  <2> DEFINE h == Header(nm)  x == rcv.points
  <2>1. h \in Nat /\ x \in 0 .. DataLines /\ p = h + x + 1 /\ h >= 1 BY <1>3, <1>4
  <2> HIDE DEF h, x
  <2>2. /\ p \in 1 .. h + DataLines + 1
        /\ x < DataLines => p \in h + 1 .. h + DataLines
        /\ x = DataLines => p = h + DataLines + 1
    BY ONLY <2>1, <1>4
  <2> QED BY <2>2 DEF h, x
<1>6. PICK l \in Incoming :
        /\ Reads(l)
        /\ ~NonEmpty(l) =>
             /\ pc' = "rd_count" /\ Untouched /\ rcv' = rcv
             /\ ret' = IF rcv.points > 0 THEN "POSITIVE" ELSE "NO_ERROR"
        /\ (NonEmpty(l) /\ l.good /\ l.kind # "status" /\ ~(rcv.points + 1 > DataLines)) =>
             /\ rcv' = [rcv EXCEPT !.points = rcv.points + 1, !.gen = l.gen]
             /\ Untouched /\ pc' = pc
  BY DEF RdData
<1>7. UNCHANGED <<config, frames, sensor, gen, op, link, faults>>
  BY DEF RdData, Reading
<1>8. Reader(l) BY <1>1, <1>6, <1>7 DEF Reader, config
<1>9. Untouched => /\ UNCHANGED <<agreed, outbox>> /\ is_active' /\ link' = "up" /\ faults' = 0
  BY <1>1, <1>7 DEF Untouched, agreed, flags, config
<1>10. Verbs' = Verbs BY <1>8, ReaderFacts
<1>11. /\ late' = 0 /\ (UNCHANGED <<agreed, outbox>> => InScan(nm, p + 1)')
       /\ p \in Header(nm) + 1 .. Header(nm) + DataLines => l = Datum(gen)
       /\ p = Header(nm) + DataLines + 1 => l = Blank
  BY <1>3, <1>5, <1>8, ReadScan
<1>12. CASE rcv.points < DataLines
  <2>1. l = Datum(gen) BY <1>5, <1>11, <1>12
  <2>2. l.kind # "status" /\ l.good /\ l.gen = gen
    <3>1. \A g \in Nat : Datum(g).kind = "data" /\ Datum(g).good /\ Datum(g).gen = g
      BY DEF Datum
    <3> QED BY <1>4, <2>1, <3>1
  <2>3. NonEmpty(l) BY <1>4, <2>1, LinesRead
  <2>4. ~(rcv.points + 1 > DataLines) BY <1>4, <1>12
  <2>5. rcv' = [rcv EXCEPT !.points = rcv.points + 1, !.gen = gen] /\ Untouched /\ pc' = pc
    BY <1>6, <2>2, <2>3, <2>4
  <2>6. rcv'.points = rcv.points + 1 /\ rcv'.gen = gen /\ gen' = gen
    BY <1>4, <1>7, <2>5 DEF RcvType
  <2>7. InScan(nm, p + 1)' BY <1>9, <1>11, <2>5
  <2>8. p + 1 = Header(nm) + rcv'.points + 1
    <3> DEFINE h == Header(nm)  x == rcv.points
    <3>1. h \in Nat /\ x \in Nat /\ p = h + x + 1 /\ rcv'.points = x + 1
      BY <1>3, <1>4, <2>6
    <3> HIDE DEF h, x
    <3>2. p + 1 = h + (x + 1) + 1 BY ONLY <3>1
    <3> QED BY <3>1, <3>2 DEF h
  <2>9. \E n \in Verbs' : \E j \in {Header(n) + rcv'.points + 1} : InScan(n, j)'
    BY <1>10, <2>7, <2>8
  <2>10. Place' BY <1>1, <2>5, <2>6, <2>9 DEF Place
  <2> QED BY <1>1, <1>9, <1>11, <2>5, <2>10, SyncStep
<1>13. CASE rcv.points = DataLines
  <2>1. l = Blank BY <1>5, <1>11, <1>13
  <2>2. ~NonEmpty(l) BY <2>1, LinesRead DEF NonEmpty
  <2>3. /\ pc' = "rd_count" /\ ret' = IF rcv.points > 0 THEN "POSITIVE" ELSE "NO_ERROR"
        /\ Untouched /\ rcv' = rcv
    BY <1>6, <2>2
  <2>4. rcv.points > 0 BY <1>4, <1>13
  <2>5. ret' = "POSITIVE" /\ rcv'.gen = gen' BY <1>1, <1>7, <2>3, <2>4
  <2>6. InScan(nm, p + 1)' BY <1>9, <1>11, <2>3
  <2>7. InScan(nm, Header(nm) + DataLines + 2)'
    <3> DEFINE h == Header(nm)
    <3>1. h \in Nat /\ p = h + DataLines + 1 BY <1>4, <1>5, <1>13
    <3> HIDE DEF h
    <3>2. p + 1 = h + DataLines + 2 BY ONLY <1>4, <3>1
    <3> QED BY <2>6, <3>2 DEF h
  <2>8. Place' BY <1>10, <2>3, <2>5, <2>7 DEF Place
  <2> QED BY <1>9, <1>11, <2>3, <2>8, SyncStep
<1> QED BY <1>4, <1>12, <1>13

(***************************************************************************)
(* The activations of urg_stop_measurement.                                *)
(***************************************************************************)

\* One is called, one returns, one goes round its loop.
LEMMA FramesPush ==
  \A a, b \in Frame : Append(<<>>, b) = <<b>> /\ Append(<<a>>, b) = <<a, b>>
<1> TAKE a, b \in Frame
<1> DEFINE e == <<>>  s == <<a>>  t == <<b>>  u == <<a, b>>
<1>1. e \in Seq(Frame) /\ s \in Seq(Frame) /\ t \in Seq(Frame) /\ u \in Seq(Frame) OBVIOUS
<1>2. Len(s) = 1 /\ Len(t) = 1 /\ Len(u) = 2 OBVIOUS
<1>3. \A i \in 1 .. 2 : u[i] = IF i <= 1 THEN s[i] ELSE t[i - 1] OBVIOUS
<1>4. Append(e, b) = e \o t /\ Append(s, b) = s \o t BY AppendIsConcat
<1> HIDE DEF e, s, t, u
<1>5. Len(u) = Len(s) + Len(t) BY <1>2
<1>6. \A i \in 1 .. Len(u) : u[i] = IF i <= Len(s) THEN s[i] ELSE t[i - Len(s)]
  BY <1>2, <1>3
<1>7. s \o t = u BY <1>1, <1>5, <1>6, ConcatIs
<1>8. e \o t = t BY <1>1, ConcatEmptySeq DEF e
<1> QED BY <1>4, <1>7, <1>8 DEF e, s, t, u

LEMMA FramesPop ==
  \A a, b \in Frame : /\ Len(<<a>>) = 1 /\ Len(<<a, b>>) = 2
                      /\ <<a>>[1] = a /\ <<a, b>>[2] = b
                      /\ SubSeq(<<a>>, 1, 0) = <<>>
                      /\ SubSeq(<<a, b>>, 1, 1) = <<a>>
<1> TAKE a, b \in Frame
<1> DEFINE s == <<a>>  u == <<a, b>>
<1>1. /\ s \in Seq(Frame) /\ u \in Seq(Frame) /\ Len(s) = 1 /\ Len(u) = 2
      /\ s[1] = a /\ u[1] = a /\ u[2] = b
  OBVIOUS
<1> HIDE DEF s, u
<1>2. SubSeq(s, 1, 0) = <<>> BY <1>1
<1>3. SubSeq(u, 1, 1) = s
  <2>1. SubSeq(u, 1, 1) \in Seq(Frame) /\ Len(SubSeq(u, 1, 1)) = 1 /\ SubSeq(u, 1, 1)[1] = u[1]
    BY <1>1
  <2> QED BY <1>1, <2>1, SeqEqual
<1> QED BY <1>1, <1>2, <1>3 DEF s, u

LEMMA FramesAgain ==
  \A r \in 0 .. 1 :
    \A f \in {<<[reads |-> r, held |-> "none"]>>} :
      [f EXCEPT ![1].reads = @ + 1] = <<[reads |-> r + 1, held |-> "none"]>>
OBVIOUS

\* The end of a scan and of the reply to QT.
LEMMA ScanEnd ==
  ASSUME TypeOK, NEW nm \in Verbs, InScan(nm, Header(nm) + DataLines + 2)
  PROVE  \E k \in 0 .. 2 :
           Carries(<<>>, 1, Scan(nm), k, Len(frames)) /\ Under(nm, k + 1) /\ Budget(k + 1)
<1>1. PICK k \in 0 .. 2 :
        /\ Carries(Scan(nm), Header(nm) + DataLines + 2, Scan(nm), k, Len(frames))
        /\ Under(nm, k + 1) /\ Budget(k + 1)
  BY DEF InScan
<1>2. PICK s \in Seq(WireLine) : s = Scan(nm) /\ Len(s) = Header(nm) + DataLines + 1
  BY ScanIs
<1>3. PICK d \in 0 .. 2 : d = Len(frames) BY <1>1, BudgetDepth
<1>4. Len(s) + 1 = Header(nm) + DataLines + 2
  <2> DEFINE h == Header(nm)
  <2>1. h \in Nat /\ Len(s) = h + DataLines + 1 BY <1>2 DEF Header
  <2> HIDE DEF h
  <2>2. Len(s) + 1 = h + DataLines + 2 BY <2>1, BoundAssumption
  <2> QED BY <2>2 DEF h
<1>5. Carries(s, Len(s) + 1, s, k, d) BY <1>1, <1>2, <1>3, <1>4
<1>6. Carries(<<>>, 1, s, k, d) BY <1>5, CarriesEnd
<1> QED BY <1>1, <1>2, <1>3, <1>6

LEMMA ReplyEnd ==
  ASSUME TypeOK, InReply(4)
  PROVE  \E nm \in Verbs, d \in 0 .. 1 :
           d = Len(frames) - 1 /\ Carries(<<>>, 1, Scan(nm), 0, d)
<1>1. PICK nm \in Verbs : Carries(QtReply, 4, Scan(nm), 0, Len(frames) - 1)
  BY DEF InReply
<1>2. PICK s \in Seq(WireLine) : s = Scan(nm) BY ScanIs
<1>3. PICK d \in 0 .. 1 : d = Len(frames) - 1
  <2>1. Len(frames) \in 0 .. 2 /\ Len(frames) # 0 BY BudgetDepth DEF InReply
  <2> QED BY <2>1
<1>4. PICK m \in Seq(WireLine) : m = QtReply /\ Len(m) = 3 BY QtReplyLines
<1>5. Carries(m, Len(m) + 1, s, 0, d)
  <2>1. Len(m) + 1 = 4 BY <1>4
  <2> QED BY <1>1, <1>2, <1>3, <1>4, <2>1
<1>6. Carries(<<>>, 1, s, 0, d)
  <2>1. d \in 0 .. 2 /\ 0 \in 0 .. 2 OBVIOUS
  <2> QED BY <1>5, <2>1, CarriesEnd
<1> QED BY <1>2, <1>3, <1>6

\* receive_data ends: the scan is counted, and after the last one of a counted
\* measurement the sensor is told to stop.
LEMMA SyncRdCount ==
  ASSUME TypeOK, KeepsUp, SyncInv, RdCount PROVE SyncInv'
<1>1. /\ late = 0 /\ faults = 0 /\ is_active /\ link = "up" /\ ret = "POSITIVE"
      /\ \E nm \in Verbs : InScan(nm, Header(nm) + DataLines + 2)
  <2>1. pc = "rd_count" BY DEF RdCount, Reading
  <2>2. late = 0 /\ faults = 0 /\ is_active /\ link = "up" /\ Place BY <2>1, CallUnderWay
  <2> QED BY <2>1, <2>2 DEF Place
<1>2. PICK nm \in Verbs, k \in 0 .. 2 :
        Carries(<<>>, 1, Scan(nm), k, Len(frames)) /\ Under(nm, k + 1) /\ Budget(k + 1)
  BY <1>1, ScanEnd
<1>3. PICK d \in 0 .. 2 : d = Len(frames) BY <1>2, BudgetDepth
<1> DEFINE n == specified_scan_times  r == scanning_remain_times
           counts == n > 1 /\ r > 0
           last == counts /\ r = 1
<1>4. /\ r' = r - (IF counts THEN 1 ELSE 0)
      /\ IF last
         THEN /\ outbox' = Append(outbox, Qt)
              /\ frames' = Append(frames, [reads |-> 0, held |-> "POSITIVE"])
              /\ pc' = "rd_echo" /\ rcv'.points = 0
         ELSE pc' = "rd_ret" /\ UNCHANGED <<outbox, frames>>
      /\ UNCHANGED <<flags, specified_scan_times, ret, inbox, late, op, link, sensor, gen, faults>>
  BY <1>1 DEF RdCount, Reading, Writes, Sent, Qt, ReceiveData
<1>5. /\ late' = 0 /\ faults' = 0 /\ is_active' /\ link' = "up" /\ ret' = "POSITIVE"
      /\ n' = n /\ gen' = gen /\ is_sending' = is_sending
      /\ inbox' = inbox /\ sensor' = sensor /\ op' = op
  BY <1>1, <1>4 DEF flags
<1>6. n \in Nat /\ r \in Nat /\ n' = n BY <1>5 DEF TypeOK, HostTypeOK
<1>7. PICK s \in Seq(WireLine) : s = Scan(nm) /\ s = Scan(nm)' BY <1>5, ScanIs
<1>8. Verbs' = Verbs BY <1>5 DEF Verbs, OneScan
<1>9. n > 1 => r >= k + 1
  <2>1. k \in Nat OBVIOUS
  <2>2. CASE frames = <<>>
    <3>1. Ongoing(nm, k + 1) BY <1>2, <2>2 DEF Under
    <3>2. sensor.left \in Nat BY DEF TypeOK, WorldTypeOK
    <3> QED BY <1>6, <2>1, <3>1, <3>2 DEF Ongoing
  <2>3. CASE frames # <<>>
    <3>1. Ending(k + 1) BY <1>2, <2>3 DEF Under
    <3> QED BY <3>1 DEF Ending
  <2> QED BY <2>2, <2>3
<1>10. CASE ~last
  <2>1. pc' = "rd_ret" /\ outbox' = outbox /\ frames' = frames BY <1>4, <1>10
  <2>2. r' = r - (IF n > 1 THEN 1 ELSE 0) /\ (n > 1 => r >= 2) BY <1>4, <1>6, <1>9, <1>10
  <2>3. Carries(<<>>, 1, Scan(nm), k, Len(frames))'
    BY <1>2, <1>5, <1>7, <2>1 DEF Carries
  <2>4. Budget(k + 1)' BY <1>2, <1>5, <2>1 DEF Budget
  <2>5. Under(nm, k)'
    <3>1. CASE frames = <<>>
      <4>1. is_sending /\ Ongoing(nm, k + 1) BY <1>2, <3>1 DEF Under
      <4>2. Ongoing(nm, k)'
        <5>1. sensor.left \in Nat /\ k \in Nat BY DEF TypeOK, WorldTypeOK
        <5>2. sensor.mode \in {"idle", "measure"} BY <4>1 DEF Ongoing
        <5>3. OneScan' => k <= 1 /\ sensor.mode = "idle"
          BY <1>5, <4>1, <5>1 DEF Ongoing, OneScan
        <5>4. n = 0 => sensor.mode = "measure" /\ sensor.left = 0 BY <4>1 DEF Ongoing
        <5>5. n > 1 => /\ r' >= 1
                       /\ IF sensor.mode = "measure"
                          THEN sensor.left >= 1 /\ r' = k + sensor.left
                          ELSE r' = k
          BY <1>6, <2>2, <4>1, <5>1 DEF Ongoing
        <5>6. sensor.mode = "measure" => sensor.scan = nm /\ sensor.gen = gen
          BY <4>1 DEF Ongoing
        <5> QED BY <1>5, <5>2, <5>3, <5>4, <5>5, <5>6 DEF Ongoing
      <4> QED BY <1>5, <2>1, <3>1, <4>1, <4>2 DEF Under
    <3>2. CASE frames # <<>>
      <4>1. Ending(k + 1) BY <1>2, <3>2 DEF Under
      <4>2. n > 1 => r' >= k BY <1>6, <1>9, <2>2
      <4>3. Ending(k)' BY <1>5, <2>1, <4>1, <4>2 DEF Ending
      <4> QED BY <2>1, <3>2, <4>3 DEF Under
    <3> QED BY <3>1, <3>2
  <2>6. Between(1)' BY <1>8, <2>3, <2>4, <2>5 DEF Between
  <2>7. Place' BY <1>5, <2>1, <2>6 DEF Place
  <2> QED BY <1>5, <2>1, <2>7, SyncStep
<1>11. CASE last
  <2>1. /\ outbox' = Append(outbox, Qt)
        /\ frames' = Append(frames, [reads |-> 0, held |-> "POSITIVE"])
        /\ pc' = "rd_echo" /\ rcv'.points = 0
        /\ r' = 0 /\ n > 1 /\ r = 1
    BY <1>4, <1>6, <1>11
  <2>2. k = 0 BY <1>9, <2>1
  <2>3. d \in 0 .. 1 /\ Budget(0)' /\ sensor.mode # "adjust"
    <3>1. [reads |-> 0, held |-> "POSITIVE"] \in Frame
      BY DEF Frame, MAX_READ_TIMES, Codes
    <3>2. k + 1 = 1 BY <2>2
    <3>3. CASE frames = <<>>
      <4>1. is_sending /\ Ongoing(nm, k + 1) BY <1>2, <3>3 DEF Under
      <4>2. op \in {"start", "get"} BY <1>2, <3>3 DEF Budget
      <4>3. frames' = <<[reads |-> 0, held |-> "POSITIVE"]>> BY <2>1, <3>1, <3>3, FramesPush
      <4>4. Budget(0)' BY <1>5, <4>2, <4>3 DEF Budget
      <4> QED BY <1>3, <3>3, <4>1, <4>4 DEF Ongoing
    <3>4. CASE frames # <<>>
      <4>1. PICK q \in 0 .. 2 : op \in Stops /\ frames = <<[reads |-> q, held |-> "none"]>> /\ q + 1 <= 2
        BY <1>2, <3>2, <3>4 DEF Budget
      <4>2. [reads |-> q, held |-> "none"] \in Frame
        BY DEF Frame, MAX_READ_TIMES
      <4>3. frames' = <<[reads |-> q, held |-> "none"], [reads |-> 0, held |-> "POSITIVE"]>>
        BY <2>1, <3>1, <4>1, <4>2, FramesPush
      <4>4. Budget(0)' BY <1>5, <4>1, <4>3 DEF Budget
      <4>5. Len(frames) = 1 BY <4>1
      <4>6. sensor.mode # "adjust" BY <1>2, <3>4 DEF Under, Ending
      <4> QED BY <1>3, <4>4, <4>5, <4>6
    <3> QED BY <3>3, <3>4
  <2>4. frames' # <<>> /\ Len(frames') = d + 1
    <3>1. frames \in Seq(Frame) /\ [reads |-> 0, held |-> "POSITIVE"] \in Frame
      BY DEF TypeOK, HostTypeOK, Frame, MAX_READ_TIMES, Codes
    <3> QED BY <1>3, <2>1, <3>1
  <2>5. Carries(<<>>, 1, s, k, d + 1)' /\ outbox' # <<>>
    <3> DEFINE m == <<>>
    <3>1. Carries(m, 1, s, k, d) BY <1>2, <1>3, <1>7
    <3>2. m \in Seq(WireLine) /\ 1 \in 1 .. Len(m) + 1 OBVIOUS
    <3> HIDE DEF m
    <3>3. Carries(m, 1, s, k, d + 1)' /\ outbox' # <<>>
      BY <1>5, <2>1, <2>3, <3>1, <3>2, CarriesQuit
    <3> QED BY <3>3 DEF m
  <2>6. Carries(<<>>, 1, Scan(nm), k, Len(frames))'
    BY <1>7, <2>4, <2>5 DEF Carries
  <2>7. Under(nm, k)'
    <3>1. Ending(k)' BY <1>5, <2>1, <2>2, <2>3, <2>5 DEF Ending
    <3> QED BY <2>4, <3>1 DEF Under
  <2>8. Between(0)'
    <3>1. k + 0 = 0 BY <2>2
    <3> QED BY <1>8, <2>3, <2>6, <2>7, <3>1 DEF Between
  <2>9. Place' BY <2>1, <2>8 DEF Place, Waiting
  <2> QED BY <1>5, <2>1, <2>9, SyncStep
<1> QED BY <1>10, <1>11

\* urg_stop_measurement goes round its loop, or got its reply and returns.
LEMMA SyncStopLoop ==
  ASSUME TypeOK, KeepsUp, SyncInv, StopLoop PROVE SyncInv'
<1>1. /\ late = 0 /\ faults = 0 /\ is_active /\ link = "up" /\ frames # <<>>
      /\ \/ ret = "NO_ERROR" /\ InReply(4)
         \/ ret = "POSITIVE" /\ Between(1)
  <2>1. pc = "rd_ret" /\ frames # <<>> BY DEF StopLoop, Reading
  <2>2. late = 0 /\ faults = 0 /\ is_active /\ link = "up" /\ Place BY <2>1, CallUnderWay
  <2> QED BY <2>1, <2>2 DEF Place, Free
<1>2. /\ UNCHANGED <<is_active, config, outbox, inbox, late, op, link, sensor, gen, faults>>
  BY DEF StopLoop, Reading
<1>3. /\ late' = 0 /\ faults' = 0 /\ is_active' /\ link' = "up" /\ gen' = gen
      /\ specified_scan_times' = specified_scan_times
      /\ scanning_remain_times' = scanning_remain_times
      /\ Verbs' = Verbs
  BY <1>1, <1>2 DEF config, Verbs, OneScan
<1>4. CASE ret = "NO_ERROR" /\ InReply(4)
  <2>1. PICK nm \in Verbs, d \in 0 .. 1 :
          d = Len(frames) - 1 /\ Carries(<<>>, 1, Scan(nm), 0, d)
    BY <1>4, ReplyEnd
  <2>2. PICK s \in Seq(WireLine) : s = Scan(nm) /\ s = Scan(nm)' BY <1>3, ScanIs
  <2>3. /\ is_laser_on' = FALSE /\ is_sending' = FALSE
        /\ frames' = SubSeq(frames, 1, Len(frames) - 1)
        /\ IF frames[Len(frames)].held = "none" THEN pc' = "stop_done" /\ ret' = ret
           ELSE pc' = "rd_ret" /\ ret' = frames[Len(frames)].held
    BY <1>4 DEF StopLoop, StopReturns, top
  <2>4. Ending(0) /\ Budget(0) BY <1>4 DEF InReply
  <2>5. \A q \in 0 .. 2 : [reads |-> q, held |-> "none"] \in Frame
    BY DEF Frame, MAX_READ_TIMES
  <2>6. [reads |-> 0, held |-> "POSITIVE"] \in Frame
    BY DEF Frame, MAX_READ_TIMES, Codes
  <2>7. ASSUME Len(frames) = 1, op # "laser_on", frames' = <<>> PROVE Free'
    <3>1. d = 0 BY <2>1, <2>7
    <3>2. Carries(<<>>, 1, s, 0, 0) BY <2>1, <2>2, <3>1
    <3>3. Len(outbox) = 0 BY <3>2 DEF Carries
    <3>4. outbox = <<>> BY <3>3 DEF TypeOK, WorldTypeOK
    <3>5. inbox = <<>> BY <3>2, <3>3, CarriesNext
    <3>6. sensor.mode = "idle" /\ ~sensor.laser BY <2>4, <3>4 DEF Ending
    <3> QED BY <1>2, <2>3, <2>7, <3>4, <3>5, <3>6 DEF Free, Quiet
  <2>8. CASE op \in {"start", "get"}
    <3>1. frames = <<[reads |-> 0, held |-> "POSITIVE"]>> BY <1>1, <2>4, <2>8 DEF Budget, Stops
    <3>2. /\ Len(frames) = 1 /\ frames[1] = [reads |-> 0, held |-> "POSITIVE"]
          /\ SubSeq(frames, 1, 0) = <<>>
      BY <2>6, <3>1, FramesPop
    <3>3. frames' = <<>> /\ pc' = "rd_ret" /\ ret' = "POSITIVE" BY <2>3, <3>2
    <3>4. Free' BY <2>7, <2>8, <3>2, <3>3
    <3>5. Place' BY <3>3, <3>4 DEF Place
    <3> QED BY <1>3, <3>3, <3>5, SyncStep
  <2>9. CASE op \in Stops
    <3>1. PICK q \in 0 .. 2 :
            \/ frames = <<[reads |-> q, held |-> "none"]>>
            \/ /\ frames = <<[reads |-> q, held |-> "none"], [reads |-> 0, held |-> "POSITIVE"]>>
               /\ q <= 1
      BY <1>1, <2>4, <2>9 DEF Budget, Stops
    <3>2. CASE frames = <<[reads |-> q, held |-> "none"]>>
      <4>1. /\ Len(frames) = 1 /\ frames[1] = [reads |-> q, held |-> "none"]
            /\ SubSeq(frames, 1, 0) = <<>>
        BY <2>5, <3>2, FramesPop
      <4>2. frames' = <<>> /\ pc' = "stop_done" BY <2>3, <4>1
      <4>3. Free' BY <2>7, <2>9, <4>1, <4>2 DEF Stops
      <4>4. Place' BY <1>2, <2>9, <4>2, <4>3 DEF Place
      <4> QED BY <1>3, <4>2, <4>4, SyncStep
    <3>3. CASE /\ frames = <<[reads |-> q, held |-> "none"], [reads |-> 0, held |-> "POSITIVE"]>>
               /\ q <= 1
      <4>1. /\ Len(frames) = 2 /\ frames[2] = [reads |-> 0, held |-> "POSITIVE"]
            /\ SubSeq(frames, 1, 1) = <<[reads |-> q, held |-> "none"]>>
        BY <2>5, <2>6, <3>3, FramesPop
      <4>2. /\ frames' = <<[reads |-> q, held |-> "none"]>>
            /\ pc' = "rd_ret" /\ ret' = "POSITIVE"
        BY <2>3, <4>1
      <4>3. d = 1 /\ Len(frames') = 1 /\ frames' # <<>> BY <2>1, <4>1, <4>2
      <4>4. Carries(<<>>, 1, Scan(nm), 0, Len(frames))'
        BY <1>2, <2>1, <2>2, <4>3 DEF Carries
      <4>5. Ending(0)' BY <1>2, <1>3, <2>4 DEF Ending
      <4>6. Under(nm, 0)' BY <4>3, <4>5 DEF Under
      <4>7. Budget(0 + 1)'
        <5>1. q + (0 + 1) <= 2 BY <3>3
        <5> QED BY <1>2, <2>9, <4>2, <5>1 DEF Budget
      <4>8. Between(1)' BY <1>3, <4>4, <4>6, <4>7 DEF Between
      <4>9. Place' BY <4>2, <4>8 DEF Place
      <4> QED BY <1>3, <4>2, <4>9, SyncStep
    <3> QED BY <3>1, <3>2, <3>3
  <2> QED BY <2>4, <2>8, <2>9 DEF Budget
<1>5. CASE ret = "POSITIVE" /\ Between(1)
  <2>1. PICK nm \in Verbs, k \in 0 .. 2 :
          Carries(<<>>, 1, Scan(nm), k, Len(frames)) /\ Under(nm, k) /\ Budget(k + 1)
    BY <1>5 DEF Between
  <2>2. PICK s \in Seq(WireLine) : s = Scan(nm) /\ s = Scan(nm)' BY <1>3, ScanIs
  <2>3. PICK q \in 0 .. 1 :
          /\ op \in Stops /\ frames = <<[reads |-> q, held |-> "none"]>> /\ q + (k + 1) <= 2
    <3>1. k + 1 # 0 BY <2>1
    <3>2. \E q \in 0 .. 2 :
            op \in Stops /\ frames = <<[reads |-> q, held |-> "none"]>> /\ q + (k + 1) <= 2
      BY <1>1, <2>1, <3>1 DEF Budget
    <3> QED BY <3>2
  <2>4. [reads |-> q, held |-> "none"] \in Frame
    BY DEF Frame, MAX_READ_TIMES
  <2>5. Len(frames) = 1 /\ frames[1] = [reads |-> q, held |-> "none"]
    BY <2>3, <2>4, FramesPop
  <2>6. top.reads + 1 < MAX_READ_TIMES BY <2>5 DEF top, MAX_READ_TIMES
  <2>7. /\ frames' = [frames EXCEPT ![1].reads = @ + 1]
        /\ pc' = "rd_echo" /\ rcv'.points = 0
        /\ UNCHANGED <<is_sending, is_laser_on>>
    BY <1>5, <2>5, <2>6 DEF StopLoop, ReceiveData
  <2>8. frames' = <<[reads |-> q + 1, held |-> "none"]>> BY <2>3, <2>7, FramesAgain
  <2>9. Len(frames') = 1 /\ frames' # <<>> BY <2>8
  <2>10. Carries(<<>>, 1, Scan(nm), k, Len(frames))'
    BY <1>2, <2>1, <2>2, <2>5, <2>9 DEF Carries
  <2>11. Under(nm, k)'
    <3>1. Ending(k) BY <1>1, <2>1 DEF Under
    <3>2. Ending(k)' BY <1>2, <1>3, <3>1 DEF Ending
    <3> QED BY <2>9, <3>2 DEF Under
  <2>12. Budget(k + 0)'
    <3>1. q + 1 \in 0 .. 2 /\ (q + 1) + (k + 0) <= 2 BY <2>3
    <3> QED BY <1>2, <2>3, <2>8, <3>1 DEF Budget
  <2>13. Between(0)' BY <1>3, <2>10, <2>11, <2>12 DEF Between
  <2>14. Place' BY <2>7, <2>13 DEF Place, Waiting
  <2> QED BY <1>3, <2>7, <2>14, SyncStep
<1> QED BY <1>1, <1>4, <1>5

\* receive_data returns to urg_get_distance.
LEMMA SyncGetDone ==
  ASSUME TypeOK, KeepsUp, SyncInv, GetDone PROVE SyncInv'
<1>1. /\ late = 0 /\ faults = 0 /\ is_active /\ link = "up" /\ frames = <<>>
      /\ \/ ret = "POSITIVE" /\ Between(1)
         \/ ret = "NO_RESPONSE" /\ OneScan /\ Between(0)
         \/ ret = "POSITIVE" /\ Free
  <2>1. pc = "rd_ret" /\ frames = <<>> BY DEF GetDone, Reading
  <2>2. late = 0 /\ faults = 0 /\ is_active /\ link = "up" /\ Place BY <2>1, CallUnderWay
  <2> QED BY <2>1, <2>2 DEF Place, InReply
<1>2. /\ pc' = "ready" /\ ret' = ret
      /\ UNCHANGED <<agreed, outbox, inbox, late, faults, is_active, is_laser_on, link>>
  BY DEF GetDone, Reading, Returns, Untouched, agreed, flags, config
<1>3. GetSucceeds' BY <1>1, <1>2 DEF GetSucceeds, OneScan, agreed
<1>4. Place'
  <2>1. CASE Free
    <3>1. Free' BY <1>2, <2>1 DEF Free, Quiet, agreed
    <3> QED BY <1>2, <3>1 DEF Place
  <2>2. ASSUME NEW z \in 0 .. 1, Between(z) PROVE Place'
    <3>1. PICK nm \in Verbs, k \in 0 .. 2 :
            Carries(<<>>, 1, Scan(nm), k, Len(frames)) /\ Under(nm, k) /\ Budget(k + z)
      BY <2>2 DEF Between
    <3>2. op \in {"start", "get"} BY <1>1, <3>1 DEF Budget
    <3>3. PICK s \in Seq(WireLine) : s = Scan(nm) /\ s = Scan(nm)'
      BY <1>2, ScanIs DEF agreed
    <3>4. Carries(<<>>, 1, Scan(nm), k, Len(frames))'
      BY <1>2, <3>1, <3>3 DEF Carries, agreed
    <3>5. Under(nm, k)' /\ Verbs' = Verbs BY <1>2, <3>1, AgreedSame
    <3>6. op' = op /\ frames' = <<>> BY <1>1, <1>2 DEF agreed
    <3>7. Budget(k + 0)' BY <3>2, <3>6 DEF Budget
    <3>8. Between(0)' BY <3>4, <3>5, <3>7 DEF Between
    <3> QED BY <1>2, <3>2, <3>6, <3>8 DEF Place, Waiting
  <2> QED BY <1>1, <2>1, <2>2
<1> QED BY <1>1, <1>2, <1>3, <1>4 DEF SyncInv

\* urg_stop_measurement, urg_wakeup return; urg_sleep goes on to its command.
LEMMA SyncStopDone ==
  ASSUME TypeOK, KeepsUp, SyncInv, StopDone PROVE SyncInv'
<1>1. late = 0 /\ faults = 0 /\ is_active /\ link = "up" /\ Free /\ op \in Stops
  <2>1. pc = "stop_done" BY DEF StopDone
  <2>2. late = 0 /\ faults = 0 /\ is_active /\ link = "up" /\ Place BY <2>1, CallUnderWay
  <2> QED BY <2>1, <2>2 DEF Place
<1>2. /\ late' = 0 /\ faults' = 0 /\ is_active' /\ link' = "up"
      /\ UNCHANGED <<flags, config, op, frames, rcv, after, inbox, link, sensor, budgets>>
  BY <1>1 DEF StopDone, flags, budgets
<1>3. CASE op = "sleep" /\ ret = "NO_ERROR"
  <2>1. Exchange("%SL", 1) BY <1>3 DEF StopDone
  <2>2. /\ outbox' = Append(outbox, [name |-> "%SL", times |-> 0, gen |-> 0])
        /\ xchg'.cmd = "%SL" /\ xchg'.line = 0 /\ pc' = "xchg"
    BY <1>1, <2>1 DEF Exchange, Writes, Sent
  <2>3. outbox' = <<[name |-> "%SL", times |-> 0, gen |-> 0]>>
    BY <1>1, <2>2 DEF Free, Quiet
  <2>4. Answering' BY <1>1, <1>2, <2>2, <2>3 DEF Answering, Free, Quiet
  <2>5. Asked' BY <1>2, <1>3, <2>2 DEF Asked, Single, Continuous
  <2>6. Lit' BY <1>1, <1>2, <1>3 DEF Lit, Free, Asking, flags, Stops
  <2>7. Place' BY <2>2, <2>4, <2>5, <2>6 DEF Place
  <2> QED BY <1>2, <2>2, <2>7, SyncStep
<1>4. CASE ~(op = "sleep" /\ ret = "NO_ERROR")
  <2>1. pc' = "ready" /\ outbox' = outbox BY <1>4 DEF StopDone, Returns
  <2>2. Free' BY <1>1, <1>2, <2>1 DEF Free, Quiet, flags
  <2>3. GetSucceeds' BY <1>1, <1>2 DEF GetSucceeds, Stops
  <2> QED BY <1>2, <2>1, <2>2, <2>3 DEF SyncInv, Place
<1> QED BY <1>3, <1>4

\* urg_close drains and closes.
LEMMA SyncDrain ==
  ASSUME TypeOK, KeepsUp, SyncInv, Drain PROVE SyncInv'
<1>1. late = 0 /\ faults = 0 /\ is_active /\ link = "up" /\ after.pc = "close" /\ pc = "drain"
  <2>1. pc = "drain" BY DEF Drain, Reading
  <2>2. late = 0 /\ faults = 0 /\ is_active /\ link = "up" /\ Place BY <2>1, CallUnderWay
  <2> QED BY <2>1, <2>2 DEF Place
<1>2. PICK l \in Incoming : Reads(l) /\ (pc' = "close" \/ pc' = pc)
  BY <1>1 DEF Drain, Resume
<1>3. late' = 0
  BY <1>1, <1>2, ReadLine
<1>4. faults' = 0 /\ is_active' /\ link' = "up" /\ after'.pc = "close"
  BY <1>1 DEF Drain, Reading
<1>5. Place' BY <1>1, <1>2, <1>4 DEF Place
<1> QED BY <1>1, <1>2, <1>3, <1>4, <1>5, SyncStep

LEMMA SyncCloseDone ==
  ASSUME SyncInv, CloseDone PROVE SyncInv'
BY DEF SyncInv, CloseDone, ConnectionClose, Returns, GetSucceeds, budgets

(***************************************************************************)
(* Exchanges of scip_response.                                             *)
(***************************************************************************)

\* The command written is the only thing on the wires.
LEMMA ExchangeWrites ==
  ASSUME TypeOK, link = "up", Quiet, NEW c \in CommandNames, NEW r, Exchange(c, r)
  PROVE  /\ outbox' = <<[name |-> c, times |-> 0, gen |-> 0]>>
         /\ xchg'.cmd = c /\ xchg'.line = 0 /\ pc' = "xchg"
         /\ inbox' = inbox => Answering'
<1>1. /\ outbox' = Append(outbox, [name |-> c, times |-> 0, gen |-> 0])
      /\ xchg'.cmd = c /\ xchg'.line = 0 /\ pc' = "xchg"
  BY DEF Exchange, Writes, Sent
<1>2. outbox' = <<[name |-> c, times |-> 0, gen |-> 0]>> BY <1>1 DEF Quiet
<1> QED BY <1>1, <1>2 DEF Answering, Quiet

LEMMA AnswerTails ==
  \A a, b, c, d \in WireLine :
    /\ <<a>>[1] = a /\ <<a, b>>[1] = a /\ <<a, b, c>>[1] = a /\ <<a, b, c, d>>[1] = a
    /\ Tail(<<a>>) = <<>> /\ Tail(<<a, b>>) = <<b>>
    /\ Tail(<<a, b, c>>) = <<b, c>> /\ Tail(<<a, b, c, d>>) = <<b, c, d>>
    /\ <<a>> # <<>> /\ <<a, b>> # <<>> /\ <<a, b, c>> # <<>> /\ <<a, b, c, d>> # <<>>
OBVIOUS

LEMMA AnswerWireLines ==
  /\ \A c \in CommandNames : Echo(c) \in WireLine
  /\ \A s \in LineVals : Status(s) \in WireLine
  /\ Blank \in WireLine /\ Plain("stamp") \in WireLine /\ Plain("info") \in WireLine
  /\ ~Empty(Plain("info")) /\ Plain("info").good /\ ~Empty(Plain("stamp")) /\ Plain("stamp").good
BY DEF Echo, Status, Plain, Blank, WireLine, Line, LineKinds, LineVals, Timeout, Empty

\* One line of the answer.
LEMMA SyncScipResponse ==
  ASSUME TypeOK, KeepsUp, SyncInv, ScipResponse PROVE SyncInv'
<1>1. /\ late = 0 /\ faults = 0 /\ is_active /\ link = "up" /\ pc = "xchg"
      /\ Lit /\ Asked /\ Answering
  <2>1. pc = "xchg" BY DEF ScipResponse
  <2>2. late = 0 /\ faults = 0 /\ is_active /\ link = "up" /\ Place BY <2>1, CallUnderWay
  <2> QED BY <2>1, <2>2 DEF Place
<1>2. PICK l \in Incoming :
        /\ Reads(l)
        /\ Rejection(l) = "NO_ERROR" =>
             IF Empty(l)
             THEN pc' = "xchg_done" /\ xchg' = xchg
             ELSE /\ xchg' = [xchg EXCEPT
                       !.line = IF @ < 2 THEN @ + 1 ELSE @,
                       !.ok   = @ \/ (xchg.line = 1 /\ l.val \in Expected(xchg.cmd)),
                       !.body = @ \/ xchg.line = 2]
                  /\ pc' = pc
  BY DEF ScipResponse
<1>3. /\ faults' = 0 /\ is_active' /\ link' = "up"
      /\ UNCHANGED <<flags, config, op, frames, rcv, after, outbox, link, sensor, gen, faults>>
  BY <1>1 DEF ScipResponse, flags
<1>4. Lit' BY <1>1, <1>3 DEF Lit, flags, config, OneScan
<1>5. xchg \in XchgType BY DEF TypeOK, HostTypeOK, XchgType
<1>6. outbox = <<>> /\ (xchg.cmd = "BM" => sensor.laser)
  <2>1. CASE outbox # <<>> /\ inbox = <<>>
    <3>1. ~Silent BY <1>1, <2>1 DEF Silent
    <3> QED BY <1>1, <1>2, <2>1, <3>1, ReadLine
  <2> QED BY <1>1, <2>1 DEF Answering
<1>7. ASSUME inbox # <<>>
      PROVE  ~Failed(l) /\ l = inbox[1] /\ inbox' = Tail(inbox) /\ late' = 0
  BY <1>1, <1>2, <1>7, ReadLine
<1>8. PICK s \in LineVals, x \in {Plain("stamp"), Plain("info")} :
         \/ xchg.line = 0 /\ inbox \in {<<Echo(xchg.cmd), Status(s), Blank>>,
                                        <<Echo(xchg.cmd), Status(s), x, Blank>>}
         \/ xchg.line = 1 /\ inbox \in {<<Status(s), Blank>>, <<Status(s), x, Blank>>}
         \/ xchg.line = 2 /\ inbox \in {<<Blank>>, <<x, Blank>>}
  <2>1. outbox # <<[name |-> xchg.cmd, times |-> 0, gen |-> 0]>> BY <1>6
  <2> QED BY <1>1, <2>1 DEF Answering
<1>9. /\ xchg.cmd \in CommandNames /\ Echo(xchg.cmd) \in WireLine /\ Status(s) \in WireLine
      /\ x \in WireLine /\ Blank \in WireLine /\ ~Empty(x) /\ x.good
  BY <1>5, AnswerWireLines DEF XchgType
<1>10. ASSUME Rejection(l) = "NO_ERROR", ~Empty(l)
       PROVE  /\ pc' = "xchg" /\ xchg'.cmd = xchg.cmd
              /\ xchg'.line = IF xchg.line < 2 THEN xchg.line + 1 ELSE xchg.line
  BY <1>1, <1>2, <1>5, <1>10 DEF XchgType
<1>11. ASSUME pc' = "xchg", xchg'.cmd = xchg.cmd, late' = 0, Answering' PROVE SyncInv'
  <2>1. Asked' BY <1>1, <1>3, <1>11 DEF Asked
  <2>2. Place' BY <1>4, <1>11, <2>1 DEF Place
  <2> QED BY <1>3, <1>11, <2>2, SyncStep
<1>12. CASE xchg.line = 0 /\ inbox \in {<<Echo(xchg.cmd), Status(s), Blank>>,
                                        <<Echo(xchg.cmd), Status(s), x, Blank>>}
  <2>1. /\ l = Echo(xchg.cmd) /\ late' = 0 /\ ~Failed(l)
        /\ inbox' \in {<<Status(s), Blank>>, <<Status(s), x, Blank>>}
    <3>1. CASE inbox = <<Echo(xchg.cmd), Status(s), Blank>>
      BY <1>7, <1>9, <3>1, AnswerTails
    <3>2. CASE inbox = <<Echo(xchg.cmd), Status(s), x, Blank>>
      BY <1>7, <1>9, <3>2, AnswerTails
    <3> QED BY <1>12, <3>1, <3>2
  <2>2. Rejection(l) = "NO_ERROR" BY <1>12, <2>1 DEF Rejection
  <2>3. ~Empty(l) BY <1>9, <2>1, LinesRead DEF NonEmpty
  <2>4. pc' = "xchg" /\ xchg'.cmd = xchg.cmd /\ xchg'.line = 1 BY <1>10, <1>12, <2>2, <2>3
  <2>5. Answering' BY <1>3, <1>6, <2>1, <2>4 DEF Answering
  <2> QED BY <1>11, <2>1, <2>4, <2>5
<1>13. CASE xchg.line = 1 /\ inbox \in {<<Status(s), Blank>>, <<Status(s), x, Blank>>}
  <2>1. /\ l = Status(s) /\ late' = 0 /\ ~Failed(l)
        /\ inbox' \in {<<Blank>>, <<x, Blank>>}
    <3>1. CASE inbox = <<Status(s), Blank>> BY <1>7, <1>9, <3>1, AnswerTails
    <3>2. CASE inbox = <<Status(s), x, Blank>> BY <1>7, <1>9, <3>2, AnswerTails
    <3> QED BY <1>13, <3>1, <3>2
  <2>2. l.kind = "status" /\ l.good BY <2>1 DEF Status
  <2>3. Rejection(l) = "NO_ERROR" BY <1>13, <2>1, <2>2 DEF Rejection
  <2>4. ~Empty(l) BY <2>2 DEF Empty
  <2>5. pc' = "xchg" /\ xchg'.cmd = xchg.cmd /\ xchg'.line = 2 BY <1>10, <1>13, <2>3, <2>4
  <2>6. Answering' BY <1>3, <1>6, <2>1, <2>5 DEF Answering
  <2> QED BY <1>11, <2>1, <2>5, <2>6
<1>14. CASE xchg.line = 2 /\ inbox = <<x, Blank>>
  <2>1. l = x /\ late' = 0 /\ ~Failed(l) /\ inbox' = <<Blank>>
    BY <1>7, <1>9, <1>14, AnswerTails
  <2>2. Rejection(l) = "NO_ERROR" BY <1>9, <1>14, <2>1 DEF Rejection
  <2>3. pc' = "xchg" /\ xchg'.cmd = xchg.cmd /\ xchg'.line = 2 BY <1>9, <1>10, <1>14, <2>1, <2>2
  <2>4. Answering' BY <1>3, <1>6, <2>1, <2>3 DEF Answering
  <2> QED BY <1>11, <2>1, <2>3, <2>4
<1>15. CASE xchg.line = 2 /\ inbox = <<Blank>>
  <2>1. l = Blank /\ late' = 0 /\ ~Failed(l) /\ inbox' = <<>>
    BY <1>7, <1>9, <1>15, AnswerTails
  <2>2. Empty(l) BY <2>1, LinesRead
  <2>3. Rejection(l) = "NO_ERROR" BY <1>15, <2>1, <2>2 DEF Rejection, NonEmpty
  <2>4. pc' = "xchg_done" BY <1>2, <2>2, <2>3
  <2>5. Quiet' BY <1>3, <1>6, <2>1 DEF Quiet
  <2>6. (op = "start" => sensor.laser)' BY <1>1, <1>3, <1>6 DEF Asked
  <2>7. Place' BY <1>4, <2>4, <2>5, <2>6 DEF Place
  <2> QED BY <1>3, <2>1, <2>4, <2>7, SyncStep
<1> QED BY <1>8, <1>12, <1>13, <1>14, <1>15

\* An exchange is over.
LEMMA ExchangeOver ==
  ASSUME SyncInv, pc = "xchg_done"
  PROVE  /\ late = 0 /\ faults = 0 /\ is_active /\ link = "up"
         /\ Lit /\ Quiet /\ (op = "start" => sensor.laser)
<1>1. late = 0 /\ faults = 0 /\ is_active /\ link = "up" /\ Place BY CallUnderWay
<1> QED BY <1>1 DEF Place

LEMMA BackIdle ==
  ASSUME SyncInv, pc = "xchg_done", op # "start", pc' = "ready", is_active', ~is_sending',
         UNCHANGED <<op, frames, sensor, budgets, outbox, inbox, link>>,
         is_laser_on' => is_laser_on \/ op = "laser_on"
  PROVE  SyncInv'
<1>1. late = 0 /\ faults = 0 /\ link = "up" /\ Lit /\ Quiet BY ExchangeOver
<1>2. Free' BY <1>1 DEF Free, Lit, Quiet
<1>3. op # "get" BY <1>1 DEF Lit, Asking
<1> QED BY <1>1, <1>2, <1>3 DEF SyncInv, Place, GetSucceeds, budgets

LEMMA SyncAnswered ==
  ASSUME TypeOK, KeepsUp, SyncInv,
         LaserOnDone \/ TimeStampModeDone \/ TimeStampDone \/ InfoDone \/ SleepDone
  PROVE  SyncInv'
<1>1. pc = "xchg_done"
  BY DEF LaserOnDone, TimeStampModeDone, TimeStampDone, InfoDone, SleepDone, Answered
<1>2. /\ late = 0 /\ faults = 0 /\ is_active /\ link = "up"
      /\ Lit /\ Quiet /\ (op = "start" => sensor.laser)
  BY <1>1, ExchangeOver
<1>3. CASE LaserOnDone /\ op = "start"
  <2>1. /\ pc' = "send_single" /\ is_active' /\ late' = 0 /\ faults' = 0 /\ link' = "up"
        /\ UNCHANGED <<op, frames, sensor, is_sending, rcv, outbox, inbox, specified_scan_times>>
    BY <1>2, <1>3 DEF LaserOnDone, AfterAnswer, budgets, config
  <2>2. Lit' /\ Quiet' BY <1>2, <1>3, <2>1 DEF Lit, Quiet, OneScan
  <2>3. Place' BY <1>2, <1>3, <2>1, <2>2 DEF Place
  <2> QED BY <2>1, <2>3, SyncStep
<1>4. CASE ~(LaserOnDone /\ op = "start")
  <2>1. op # "start"
    BY <1>4 DEF LaserOnDone, TimeStampModeDone, TimeStampDone, InfoDone, SleepDone, Answered
  <2>2. ~is_sending BY <1>2, <2>1 DEF Lit
  <2>3. /\ pc' = "ready" /\ is_active' /\ ~is_sending'
        /\ UNCHANGED <<op, frames, sensor, budgets, outbox, inbox, link>>
        /\ is_laser_on' => is_laser_on \/ op = "laser_on"
    <3>1. CASE LaserOnDone
      BY <1>2, <2>1, <2>2, <3>1 DEF LaserOnDone, AfterAnswer, Answered
    <3>2. CASE TimeStampModeDone \/ TimeStampDone \/ InfoDone \/ SleepDone
      <4>1. UNCHANGED <<flags, outbox, inbox, link>> /\ AfterAnswer
        BY <3>2 DEF TimeStampModeDone, TimeStampDone, InfoDone, SleepDone
      <4>2. pc' = "ready"
        BY <3>2 DEF TimeStampModeDone, TimeStampDone, InfoDone, SleepDone, Returns, Fails
      <4> QED BY <1>2, <2>2, <4>1, <4>2 DEF AfterAnswer, flags
    <3> QED BY <3>1, <3>2
  <2> QED BY <1>1, <2>1, <2>3, BackIdle
<1> QED BY <1>3, <1>4

LEMMA SyncRebootDone ==
  ASSUME TypeOK, KeepsUp, SyncInv, RebootDone PROVE SyncInv'
<1>1. pc = "xchg_done" /\ op = "reboot" BY DEF RebootDone, Answered
<1>2. late = 0 /\ faults = 0 /\ is_active /\ link = "up" /\ Lit /\ Quiet
  BY <1>1, ExchangeOver
<1>3. /\ UNCHANGED <<is_sending, is_laser_on, op, frames, sensor, budgets, rcv, config>>
      /\ ~is_sending
  BY <1>1, <1>2 DEF RebootDone, AfterAnswer, Lit
<1>4. CASE ret # "POSITIVE"
  <2>1. pc' = "ready" /\ UNCHANGED <<is_active, outbox, inbox, link>>
    BY <1>4 DEF RebootDone, Fails, Returns
  <2> QED BY <1>1, <1>2, <1>3, <2>1, BackIdle
<1>5. CASE ret = "POSITIVE" /\ xchg.round = 1
  <2>1. Exchange("RB", 2) /\ UNCHANGED <<is_active, inbox, link>>
    BY <1>5 DEF RebootDone
  <2>2. "RB" \in CommandNames BY DEF CommandNames
  <2>3. xchg'.cmd = "RB" /\ pc' = "xchg" /\ Answering' BY <1>2, <2>1, <2>2, ExchangeWrites
  <2>4. Asked' BY <1>1, <1>3, <2>3 DEF Asked, Single, Continuous
  <2>5. Lit' BY <1>1, <1>2, <1>3 DEF Lit
  <2>6. Place' BY <2>3, <2>4, <2>5 DEF Place
  <2> QED BY <1>2, <1>3, <2>1, <2>3, <2>6, SyncStep DEF budgets
<1>6. CASE ret = "POSITIVE" /\ xchg.round = 2
  <2>1. pc' = "ready" /\ is_active' = FALSE
    BY <1>6 DEF RebootDone, ConnectionClose, Returns
  <2> QED BY <1>2, <1>3, <2>1 DEF SyncInv, GetSucceeds, budgets
<1>7. xchg.round \in {1, 2} BY DEF TypeOK, HostTypeOK
<1> QED BY <1>4, <1>5, <1>6, <1>7

\* The command for one scan is written after the laser was lit.
LEMMA SyncSendSingle ==
  ASSUME TypeOK, KeepsUp, SyncInv, SendSingle PROVE SyncInv'
<1>1. /\ late = 0 /\ faults = 0 /\ is_active /\ link = "up"
      /\ Lit /\ Quiet /\ op = "start" /\ sensor.laser
  <2>1. pc = "send_single" BY DEF SendSingle
  <2>2. late = 0 /\ faults = 0 /\ is_active /\ link = "up" /\ Place BY <2>1, CallUnderWay
  <2> QED BY <2>1, <2>2 DEF Place
<1> PICK nm \in Single : nm = IF rcv.type = "distance_io" THEN "GF" ELSE "GD"
  BY DEF Single
<1> DEFINE c == [name |-> nm, times |-> 1, gen |-> gen]
<1>2. pc' = "ready" /\ outbox' = Append(outbox, c)
  BY <1>1 DEF SendSingle, Returns, Sent
<1>3. UNCHANGED <<flags, config, host, inbox, link, sensor, budgets>> BY DEF SendSingle
<1>4. OneScan /\ is_sending /\ sensor.mode = "idle" /\ frames = <<>>
  BY <1>1 DEF Lit
<1>5. nm \in Verbs' /\ OneScan' BY <1>3, <1>4 DEF Verbs, OneScan, Single, config
<1>6. c \in Command BY DEF Command, CommandNames, Single, TypeOK, WorldTypeOK
<1>7. outbox' = <<c>> BY <1>1, <1>2 DEF Quiet
<1>8. outbox' = <<StartCommand(nm)>>' \o Quits(Len(frames))'
  <2>1. Quits(Len(frames))' = <<>>
    <3>1. Len(frames)' = 0 BY <1>3, <1>4 DEF host
    <3> QED BY <3>1 DEF Quits
  <2>2. c = StartCommand(nm)'
    BY <1>3, <1>4, <1>5 DEF StartCommand, OneScan, config, budgets
  <2>3. <<c>> \o <<>> = <<c>>
    <3> HIDE DEF c
    <3>1. <<c>> \in Seq(Command) BY <1>6
    <3> QED BY <3>1, ConcatEmptySeq
  <2> QED BY <1>7, <2>1, <2>2, <2>3
<1>9. Unread'
  <2>1. inbox' = <<>> /\ sensor'.mode = "idle" /\ sensor'.laser /\ op' = "start"
        /\ frames' = <<>> /\ is_sending' /\ specified_scan_times' = 1
    BY <1>1, <1>3, <1>4, <1>5 DEF Quiet, flags, host, OneScan
  <2>2. Budget(1)' BY <2>1 DEF Budget
  <2> QED BY <1>5, <1>8, <2>1, <2>2 DEF Unread
<1>10. Place' BY <1>1, <1>2, <1>3, <1>4, <1>9 DEF Place, Waiting, host
<1>11. GetSucceeds' BY <1>1, <1>3 DEF GetSucceeds, host
<1> QED BY <1>1, <1>2, <1>3, <1>10, <1>11 DEF SyncInv, flags, budgets

(***************************************************************************)
(* The calls.                                                              *)
(***************************************************************************)

\* An application between two calls: a measurement is running, or nothing is.
LEMMA CallFrom ==
  ASSUME TypeOK, KeepsUp, SyncInv, NEW o, Call(o)
  PROVE  /\ late = 0 /\ faults = 0 /\ is_active /\ link = "up" /\ frames = <<>>
         /\ is_sending => Waiting /\ op \in {"start", "get"} /\ o \in {"close", "get", "stop"}
         /\ ~is_sending => Free
         /\ ~is_sending /\ o # "close" =>
              /\ o # "get"
              /\ o # "laser_on" => ~sensor.laser /\ ~is_laser_on
              /\ o \in {"start", "laser_on"} => sensor.mode = "idle"
              /\ o \in Stops => sensor.mode # "adjust"
<1>1. /\ pc = "ready" /\ is_active /\ o \in Fitting BY DEF Call, KeepsUp
<1>2. /\ late = 0 /\ faults = 0 /\ link = "up" /\ Place BY <1>1 DEF SyncInv
<1>3. Free \/ (op \in {"start", "get"} /\ frames = <<>> /\ Waiting) BY <1>1, <1>2 DEF Place
<1>4. frames = <<>> BY <1>3 DEF Free
<1>5. Waiting => is_sending BY <1>4 DEF Waiting, Unread, InAck, Between, Under
<1>6. ASSUME is_sending PROVE o \in {"close", "get", "stop"}
  <2>1. op \in {"start", "get"} /\ Waiting BY <1>3, <1>6 DEF Free
  <2>2. sensor.mode \in {"idle", "measure"}
    BY <1>4, <2>1 DEF Waiting, Unread, InAck, Between, Under, Ongoing
  <2>3. sensor.mode # "sleep" /\ sensor.mode # "adjust" /\ op # "laser_on"
    BY <2>1, <2>2
  <2> QED BY <1>1, <1>6, <2>3 DEF Fitting
<1>7. ASSUME ~is_sending, o # "close"
      PROVE  /\ o # "get"
             /\ o # "laser_on" => ~sensor.laser /\ ~is_laser_on
             /\ o \in {"start", "laser_on"} => sensor.mode = "idle"
             /\ o \in Stops => sensor.mode # "adjust"
  <2>1. Free BY <1>3, <1>5, <1>7
  <2>2. sensor.mode \in {"idle", "adjust", "sleep"}
    BY <2>1 DEF Free, TypeOK, WorldTypeOK
  <2>3. CASE sensor.mode = "sleep"
    <3>1. o = "wakeup" BY <1>1, <1>7, <2>1, <2>3 DEF Fitting, Free
    <3> QED BY <2>1, <2>3, <3>1 DEF Free
  <2>4. CASE sensor.mode = "adjust"
    <3>1. o \in {"time_stamp", "tm_stop"} BY <1>1, <1>7, <2>1, <2>4 DEF Fitting, Free
    <3> QED BY <2>1, <2>4, <3>1 DEF Free, Stops
  <2>5. CASE sensor.mode = "idle"
    <3>1. IF op = "laser_on" THEN o = "laser_on" ELSE o # "get"
      BY <1>1, <1>7, <2>5 DEF Fitting
    <3> QED BY <2>1, <2>5, <3>1 DEF Free
  <2> QED BY <2>2, <2>3, <2>4, <2>5
<1>8. Free => ~is_sending BY DEF Free
<1> QED BY <1>1, <1>2, <1>3, <1>4, <1>5, <1>6, <1>7, <1>8

LEMMA CallSame ==
  ASSUME SyncInv, NEW o, Call(o)
  PROVE  /\ pc = "ready" /\ op' = o /\ o \in Calls
         /\ UNCHANGED <<inbox, link, sensor, late, faults>>
BY DEF Call

LEMMA SyncStartRejected ==
  ASSUME TypeOK, KeepsUp, SyncInv, StartRejected PROVE SyncInv'
<1>1. Call("start") BY DEF StartRejected
<1>2. /\ late = 0 /\ faults = 0 /\ is_active /\ link = "up" /\ frames = <<>>
      /\ ~is_sending /\ Free /\ ~sensor.laser /\ ~is_laser_on
  BY <1>1, CallFrom
<1>3. op' = "start" /\ UNCHANGED <<inbox, link, sensor, late, faults, frames>>
  BY <1>1, CallSame DEF StartRejected
<1>4. pc' = "ready" /\ UNCHANGED <<flags, outbox>>
  BY <1>2 DEF StartRejected, IgnoreReceiveDataWithQt, Resume
<1>5. Free' BY <1>2, <1>3, <1>4 DEF Free, Quiet, flags
<1> QED BY <1>2, <1>3, <1>4, <1>5 DEF SyncInv, Place, GetSucceeds, flags

\* A command that starts a measurement is what Unread says.
LEMMA StartUnread ==
  ASSUME TypeOK, Free, sensor.mode = "idle", NEW nm \in Continuous,
         outbox' = Append(outbox, [name |-> nm, times |-> specified_scan_times', gen |-> gen']),
         specified_scan_times' \in Nat, gen' \in Nat, specified_scan_times' # 1,
         specified_scan_times' > 1 => scanning_remain_times' = specified_scan_times',
         op' = "start", is_sending', UNCHANGED <<inbox, sensor, frames>>
  PROVE  Unread'
<1>1. PICK c \in Command : c = StartCommand(nm)'
  BY DEF StartCommand, Command, Continuous, CommandNames, Single
<1>2. frames' = <<>> /\ inbox' = <<>> /\ outbox = <<>> BY DEF Free, Quiet
<1>3. outbox' = Append(<<>>, c) BY <1>1, <1>2 DEF StartCommand
<1>4. outbox' = <<c>>
  <2>1. Append(<<>>, c) = <<>> \o <<c>> /\ <<c>> \in Seq(Command)
    <3>1. <<>> \in Seq(Command) /\ <<c>> \in Seq(Command) OBVIOUS
    <3> QED BY <3>1, AppendIsConcat
  <2> QED BY <1>3, <2>1, ConcatEmptySeq
<1>5. <<c>> \o <<>> = <<c>>
  <2>1. <<c>> \in Seq(Command) OBVIOUS
  <2> QED BY <2>1, ConcatEmptySeq
<1>6. Quits(Len(frames))' = <<>>
  <2>1. Len(frames)' = 0 BY <1>2
  <2> QED BY <2>1 DEF Quits
<1>7. outbox' = <<StartCommand(nm)>>' \o Quits(Len(frames))' BY <1>1, <1>4, <1>5, <1>6
<1>8. ~OneScan' /\ nm \in Verbs' BY DEF OneScan, Verbs
<1>9. Budget(1)' BY <1>2 DEF Budget
<1> QED BY <1>2, <1>7, <1>8, <1>9 DEF Unread

LEMMA SyncStart ==
  ASSUME TypeOK, KeepsUp, SyncInv, Start PROVE SyncInv'
<1>1. Call("start") BY DEF Start
<1>2. /\ late = 0 /\ faults = 0 /\ is_active /\ link = "up" /\ frames = <<>>
      /\ ~is_sending /\ Free /\ ~sensor.laser /\ ~is_laser_on /\ sensor.mode = "idle"
  BY <1>1, CallFrom
<1>3. /\ op' = "start" /\ UNCHANGED <<inbox, link, sensor, late, faults, frames, is_active, is_laser_on>>
      /\ gen' = gen + 1 /\ gen' \in Nat
  BY <1>1, CallSame DEF Start, TypeOK, WorldTypeOK
<1>4. PICK n \in ScanTimes, io \in IoChoices :
        /\ specified_scan_times' = IF n >= MAX_SCANS THEN 0 ELSE n
        /\ scanning_remain_times' = n
        /\ is_sending' = TRUE
        /\ rcv' = [rcv EXCEPT !.type = IF io THEN "distance_io" ELSE "distance"]
        /\ IF n = 1
           THEN Exchange("BM", 1)
           ELSE /\ pc' = "ready"
                /\ outbox' = Append(outbox, [name |-> IF io THEN "MF" ELSE "MD",
                                             times |-> specified_scan_times', gen |-> gen'])
  BY <1>2 DEF Start, Sent, Returns
<1>5. n \in Nat BY ChoiceAssumption
<1>6. rcv \in RcvType BY DEF TypeOK, HostTypeOK, RcvType
<1>7. CASE n = 1
  <2>1. specified_scan_times' = 1 BY <1>4, <1>7 DEF MAX_SCANS
  <2>2. Exchange("BM", 1) /\ "BM" \in CommandNames BY <1>4, <1>7 DEF CommandNames
  <2>3. Quiet BY <1>2 DEF Free
  <2>4. xchg'.cmd = "BM" /\ pc' = "xchg" /\ Answering'
    BY <1>2, <1>3, <2>2, <2>3, ExchangeWrites
  <2>5. rcv'.type \in {"distance", "distance_io"} BY <1>4, <1>6 DEF RcvType
  <2>6. Lit' BY <1>2, <1>3, <1>4, <2>1, <2>5 DEF Lit, Asking, OneScan
  <2>7. Asked' BY <1>3, <2>4 DEF Asked, Single, Continuous
  <2>8. Place' BY <2>4, <2>6, <2>7 DEF Place
  <2> QED BY <1>2, <1>3, <2>4, <2>8, SyncStep
<1>8. CASE n # 1
  <2>1. PICK nm \in Continuous : nm = IF io THEN "MF" ELSE "MD" BY DEF Continuous
  <2>2. /\ pc' = "ready"
        /\ outbox' = Append(outbox, [name |-> nm, times |-> specified_scan_times', gen |-> gen'])
    BY <1>4, <1>8, <2>1
  <2>3. /\ specified_scan_times' \in Nat /\ specified_scan_times' # 1
        /\ specified_scan_times' > 1 => scanning_remain_times' = specified_scan_times'
    BY <1>4, <1>5, <1>8
  <2>4. Unread' BY <1>2, <1>3, <1>4, <2>2, <2>3, StartUnread
  <2>5. Place' BY <1>2, <1>3, <2>2, <2>4 DEF Place, Waiting
  <2>6. GetSucceeds' BY <1>3 DEF GetSucceeds
  <2> QED BY <1>2, <1>3, <2>2, <2>5, <2>6 DEF SyncInv
<1> QED BY <1>7, <1>8

\* A running measurement is as before when the next scan is asked for.
LEMMA SyncGet ==
  ASSUME TypeOK, KeepsUp, SyncInv, Get PROVE SyncInv'
<1>1. Call("get") BY DEF Get
<1>2. /\ late = 0 /\ faults = 0 /\ is_active /\ link = "up" /\ frames = <<>>
      /\ Waiting /\ op \in {"start", "get"}
  BY <1>1, CallFrom
<1>3. /\ op' = "get" /\ pc' = "rd_echo" /\ rcv'.points = 0
      /\ UNCHANGED <<inbox, outbox, link, sensor, late, faults, frames, flags, config, gen>>
  BY <1>1, CallSame DEF Get, ReceiveData
<1>4. \A x \in 0 .. 4 : Budget(x)' BY <1>2, <1>3 DEF Budget
<1>5. Verbs' = Verbs /\ (OneScan' <=> OneScan) BY <1>3 DEF Verbs, OneScan, config
<1>6. ASSUME NEW nm \in Verbs, NEW k \in 0 .. 2, Under(nm, k) PROVE Under(nm, k)'
  BY <1>2, <1>3, <1>5, <1>6 DEF Under, Ongoing, flags, config
<1>7. ASSUME NEW nm \in Verbs, NEW k \in 0 .. 2, NEW m, NEW p, Carries(m, p, Scan(nm), k, Len(frames))
      PROVE  Carries(m, p, Scan(nm), k, Len(frames))'
  <2>1. PICK s \in Seq(WireLine) : s = Scan(nm) /\ s = Scan(nm)' BY <1>3, ScanIs DEF config
  <2> QED BY <1>3, <1>7, <2>1 DEF Carries
<1>8. Waiting'
  <2>1. CASE Unread
    <3>1. \A nm \in Verbs : StartCommand(nm)' = StartCommand(nm)
      BY <1>3 DEF StartCommand, config
    <3>2. Quits(Len(frames))' = Quits(Len(frames)) BY <1>3
    <3>3. Unread'
      BY <1>3, <1>4, <1>5, <2>1, <3>1, <3>2 DEF Unread, flags, config
    <3> QED BY <3>3 DEF Waiting
  <2>2. CASE InAck(1)
    <3>1. PICK nm \in Verbs, k \in 0 .. 2 :
            Carries(Ack(nm), 1, Scan(nm), k, Len(frames)) /\ Under(nm, k) /\ Budget(k)
      BY <2>2 DEF InAck
    <3>2. k \in 0 .. 4 OBVIOUS
    <3>3. InAck(1)' BY <1>4, <1>5, <1>6, <1>7, <2>2, <3>1, <3>2 DEF InAck
    <3> QED BY <3>3 DEF Waiting
  <2>3. CASE Between(0)
    <3>1. PICK nm \in Verbs, k \in 0 .. 2 :
            Carries(<<>>, 1, Scan(nm), k, Len(frames)) /\ Under(nm, k) /\ Budget(k + 0)
      BY <2>3 DEF Between
    <3>2. k + 0 \in 0 .. 4 OBVIOUS
    <3>3. Between(0)' BY <1>4, <1>5, <1>6, <1>7, <3>1, <3>2 DEF Between
    <3> QED BY <3>3 DEF Waiting
  <2> QED BY <1>2, <2>1, <2>2, <2>3 DEF Waiting
<1>9. Place' BY <1>3, <1>8 DEF Place
<1> QED BY <1>2, <1>3, <1>9, SyncStep DEF flags

\* A QT written when nothing is on the wires is all that is.
LEMMA QuietCarries ==
  ASSUME Quiet, NEW s \in Seq(WireLine)
  PROVE  Carries(<<>>, 1, s, 0, 0)
<1>1. inbox = <<>> /\ outbox = <<>> /\ Len(outbox) = 0 BY DEF Quiet
<1>2. Quits(0) = <<>> /\ Replies(0) = <<>> BY DEF Quits, Replies
<1>3. Flow(s, 0, 0 - Len(outbox)) = <<>>
  <2> DEFINE n == Len(outbox)
  <2>0. n = 0 BY <1>1
  <2> HIDE DEF n
  <2>1. 0 - n = 0 BY <2>0
  <2> QED BY <1>2, <2>1 DEF Flow, n
<1>4. Rest(<<>>, 1, <<>>) = <<>>
  <2>1. <<>> \in Seq(WireLine) OBVIOUS
  <2> QED BY <2>1, RestEnds
<1>5. outbox = Quits(Len(outbox)) /\ Len(outbox) \in 0 .. 0 BY <1>1, <1>2
<1>6. inbox = Rest(<<>>, 1, Flow(s, 0, 0 - Len(outbox))) BY <1>1, <1>3, <1>4
<1> QED BY <1>5, <1>6 DEF Carries

\* What the calls that stop do.
Halts == /\ TypeOK /\ op' \in Stops /\ frames = <<>>
         /\ frames' = <<[reads |-> 0, held |-> "none"]>>
         /\ outbox' = Append(outbox, Qt)
         /\ UNCHANGED <<inbox, sensor, flags, config, gen>>

LEMMA HaltFacts ==
  ASSUME Halts
  PROVE  /\ Len(frames) = 0 /\ Len(frames') = 1 /\ frames' # <<>>
         /\ OneScan' = OneScan /\ Verbs' = Verbs
         /\ \A k \in 0 .. 2 : Budget(k)'
         /\ \A nm \in Verbs : Scan(nm)' = Scan(nm)
<1>1. Len(frames) = 0 /\ Len(frames') = 1 /\ frames' # <<>> BY DEF Halts
<1>2. OneScan' = OneScan /\ Verbs' = Verbs BY DEF Halts, OneScan, Verbs, config
<1>3. ASSUME NEW k \in 0 .. 2 PROVE Budget(k)'
  <2>1. 0 \in 0 .. 2 /\ 0 + k <= 2 OBVIOUS
  <2> QED BY <2>1 DEF Halts, Budget
<1>4. ASSUME NEW nm \in Verbs PROVE Scan(nm)' = Scan(nm)
  BY ScanIs DEF Halts, config
<1> QED BY <1>1, <1>2, <1>3, <1>4

\* They leave the message in hand as it is, and the scans that are under way.
LEMMA HaltCarries ==
  ASSUME Halts, NEW nm \in Verbs, NEW m \in Seq(WireLine), NEW k \in 0 .. 2,
         Carries(m, 1, Scan(nm), k, 0), sensor.mode # "adjust",
         specified_scan_times > 1 => scanning_remain_times >= k
  PROVE  Carries(m, 1, Scan(nm), k, Len(frames))' /\ Under(nm, k)' /\ Budget(k)'
<1>1. /\ TypeOK /\ outbox' = Append(outbox, Qt)
      /\ UNCHANGED <<inbox, sensor, specified_scan_times, scanning_remain_times, gen>>
  BY DEF Halts, config
<1>2. PICK s \in Seq(WireLine) : s = Scan(nm) /\ s = Scan(nm)'
  BY <1>1, ScanIs
<1>3. Carries(m, 1, s, k, 0) BY <1>2
<1>4. 1 \in 1 .. Len(m) + 1 /\ 0 \in 0 .. 1 /\ k \in 0 .. 2 OBVIOUS
<1>5. PICK d \in 0 .. 1 : d = 0 BY <1>4
<1>6. Carries(m, 1, s, k, d + 1)' /\ outbox' # <<>>
  BY <1>1, <1>3, <1>4, <1>5, CarriesQuit
<1>7. Len(frames') = d + 1 /\ frames' # <<>> /\ Budget(k)' BY <1>5, HaltFacts
<1>8. Carries(m, 1, Scan(nm), k, Len(frames))' BY <1>2, <1>6, <1>7 DEF Carries
<1>9. Ending(k)' BY <1>1, <1>6 DEF Ending
<1> QED BY <1>7, <1>8, <1>9 DEF Under

\* As many scans as are under way remain to be received.
LEMMA RunningRemain ==
  ASSUME TypeOK, NEW nm, NEW k \in 0 .. 2, Under(nm, k), frames = <<>>
  PROVE  /\ sensor.mode # "adjust"
         /\ specified_scan_times > 1 => scanning_remain_times >= k
<1>1. Ongoing(nm, k) BY DEF Under
<1>2. sensor.left \in Nat /\ scanning_remain_times \in Nat
  BY DEF TypeOK, HostTypeOK, WorldTypeOK
<1> QED BY <1>1, <1>2 DEF Ongoing

LEMMA HaltFrom ==
  ASSUME Halts, Waiting \/ (Free /\ sensor.mode # "adjust")
  PROVE  Waiting'
<1>0. TypeOK /\ frames = <<>> /\ Len(frames) = 0 /\ Verbs' = Verbs /\ OneScan' = OneScan
  BY HaltFacts DEF Halts
<1>1. CASE Free /\ sensor.mode # "adjust"
  <2>1. PICK nm \in Verbs : TRUE BY DEF Verbs, Single, Continuous
  <2>2. PICK s \in Seq(WireLine) : s = Scan(nm) BY <1>0, ScanIs
  <2>3. Carries(<<>>, 1, s, 0, 0) BY <1>1, QuietCarries DEF Free
  <2>4. scanning_remain_times >= 0 BY <1>0 DEF TypeOK, HostTypeOK
  <2>5. <<>> \in Seq(WireLine) /\ 0 \in 0 .. 2 OBVIOUS
  <2>6. Carries(<<>>, 1, Scan(nm), 0, Len(frames))' /\ Under(nm, 0)' /\ Budget(0)'
    BY <1>1, <2>2, <2>3, <2>4, <2>5, HaltCarries
  <2>7. 0 + 0 = 0 OBVIOUS
  <2>8. Budget(0 + 0)' BY <2>6, <2>7
  <2>9. Between(0)' BY <1>0, <2>5, <2>6, <2>8 DEF Between
  <2> QED BY <2>9 DEF Waiting
<1>2. CASE Unread
  <2>1. /\ inbox' = <<>> /\ sensor' = sensor /\ is_sending' = is_sending
        /\ specified_scan_times' = specified_scan_times /\ gen' = gen
        /\ scanning_remain_times' = scanning_remain_times
        /\ outbox' = Append(outbox, Qt) /\ frames' # <<>> /\ Len(frames') = 1
    BY <1>2, HaltFacts DEF Halts, Unread, flags, config
  <2>2. PICK nm \in Verbs : outbox = <<StartCommand(nm)>> \o Quits(0)
    BY <1>0, <1>2 DEF Unread
  <2>3. PICK c \in Command : c = StartCommand(nm) /\ c = StartCommand(nm)'
    <3>1. StartCommand(nm)' = StartCommand(nm) BY <2>1 DEF StartCommand
    <3>2. StartCommand(nm) \in Command
      BY <1>0 DEF StartCommand, Command, Verbs, CommandNames, Single, Continuous,
                  TypeOK, HostTypeOK, WorldTypeOK
    <3> QED BY <3>1, <3>2
  <2>4. outbox' = <<c>> \o Quits(1)
    <3>1. PICK q \in Command : q = Qt BY DEF Qt, Command, CommandNames
    <3>2. <<c>> \in Seq(Command) OBVIOUS
    <3>3. outbox = <<c>>
      <4>1. outbox = <<c>> \o <<>> BY <2>2, <2>3 DEF Quits
      <4> QED BY <3>2, <4>1, ConcatEmptySeq
    <3>4. Append(<<c>>, q) = <<c>> \o <<q>> BY <3>2, AppendIsConcat
    <3> QED BY <2>1, <3>1, <3>3, <3>4 DEF Quits
  <2>5. Quits(Len(frames))' = Quits(1) BY <2>1 DEF Quits
  <2>6. outbox' = <<StartCommand(nm)>>' \o Quits(Len(frames))' BY <2>3, <2>4, <2>5
  <2>7. 1 \in 0 .. 2 OBVIOUS
  <2>8. Budget(1)' BY <2>7, HaltFacts
  <2>9. /\ sensor.mode = "idle"
        /\ OneScan => sensor.laser
        /\ specified_scan_times > 1 => scanning_remain_times = specified_scan_times
    BY <1>2 DEF Unread
  <2>10. /\ inbox' = <<>> /\ sensor'.mode = "idle" /\ (OneScan' => sensor'.laser)
         /\ specified_scan_times' > 1 => scanning_remain_times' = specified_scan_times'
    <3>1. OneScan' => sensor'.laser BY <1>0, <2>1, <2>9
    <3>2. sensor'.mode = "idle" BY <2>1, <2>9
    <3>3. specified_scan_times' > 1 => scanning_remain_times' = specified_scan_times'
      BY <2>1, <2>9
    <3> QED BY <2>1, <3>1, <3>2, <3>3
  <2>11. \E n \in Verbs' : outbox' = <<StartCommand(n)>>' \o Quits(Len(frames))'
    BY <1>0, <2>6
  <2>12. frames' = <<>> => is_sending' BY <2>1
  <2>13. Unread' BY <2>8, <2>10, <2>11, <2>12 DEF Unread
  <2> QED BY <2>13 DEF Waiting
<1>3. CASE InAck(1)
  <2>1. PICK nm \in Verbs, k \in 0 .. 2 :
          Carries(Ack(nm), 1, Scan(nm), k, Len(frames)) /\ Under(nm, k) /\ Budget(k)
    BY <1>3 DEF InAck
  <2>2. nm \in CommandNames BY DEF Verbs, Single, Continuous, CommandNames
  <2>3. Ack(nm) \in Seq(WireLine) BY <2>2, AckLines
  <2>4. Carries(Ack(nm), 1, Scan(nm), k, 0) BY <1>0, <2>1
  <2>5. /\ sensor.mode # "adjust"
        /\ specified_scan_times > 1 => scanning_remain_times >= k
    BY <1>0, <2>1, RunningRemain
  <2>6. Carries(Ack(nm), 1, Scan(nm), k, Len(frames))' /\ Under(nm, k)' /\ Budget(k)'
    BY <2>3, <2>4, <2>5, HaltCarries DEF Ack
  <2>7. InAck(1)' BY <1>0, <1>3, <2>6 DEF InAck
  <2> QED BY <2>7 DEF Waiting
<1>4. CASE Between(0)
  <2>1. PICK nm \in Verbs, k \in 0 .. 2 :
          Carries(<<>>, 1, Scan(nm), k, Len(frames)) /\ Under(nm, k) /\ Budget(k + 0)
    BY <1>4 DEF Between
  <2>2. <<>> \in Seq(WireLine) /\ k + 0 = k OBVIOUS
  <2>3. Carries(<<>>, 1, Scan(nm), k, 0) BY <1>0, <2>1
  <2>4. /\ sensor.mode # "adjust"
        /\ specified_scan_times > 1 => scanning_remain_times >= k
    BY <1>0, <2>1, RunningRemain
  <2>5. Carries(<<>>, 1, Scan(nm), k, Len(frames))' /\ Under(nm, k)' /\ Budget(k)'
    BY <2>2, <2>3, <2>4, HaltCarries
  <2>6. Budget(k + 0)' BY <2>2, <2>5
  <2>7. Between(0)' BY <1>0, <2>5, <2>6 DEF Between
  <2> QED BY <2>7 DEF Waiting
<1> QED BY <1>1, <1>2, <1>3, <1>4 DEF Waiting

LEMMA SyncStop ==
  ASSUME TypeOK, KeepsUp, SyncInv, NEW o \in Stops, Stop(o) PROVE SyncInv'
<1>1. Call(o) BY DEF Stop
<1>2. /\ late = 0 /\ faults = 0 /\ is_active /\ link = "up" /\ frames = <<>>
      /\ Waiting \/ (Free /\ sensor.mode # "adjust")
  <2>1. o # "close" BY DEF Stops
  <2> QED BY <1>1, <2>1, CallFrom
<1>3. op' = o /\ UNCHANGED <<inbox, link, sensor, late, faults>> BY <1>1, CallSame
<1>4. /\ outbox' = Append(outbox, Qt) /\ UNCHANGED <<flags, config, gen>>
      /\ frames' = <<[reads |-> 0, held |-> "none"]>>
      /\ pc' = "rd_echo" /\ rcv'.points = 0
  BY <1>2 DEF Stop, Writes, Sent, Qt, ReceiveData
<1>5. Halts BY <1>2, <1>3, <1>4 DEF Halts
<1>6. Waiting' BY <1>2, <1>5, HaltFrom
<1>7. Place' BY <1>4, <1>6 DEF Place
<1> QED BY <1>2, <1>3, <1>4, <1>7, SyncStep DEF flags

\* A call that is an exchange finds the wires empty.
LEMMA SyncAsk ==
  ASSUME TypeOK, KeepsUp, SyncInv,
         NEW o \in Asking \ {"start", "sleep"},
         NEW c \in {"TM0", "TM1", "TM2", "VV", "RB", "BM"},
         c = "BM" <=> o = "laser_on", Ask(o, c)
  PROVE  SyncInv'
<1>1. Call(o) BY DEF Ask
<1>2. o \notin {"close", "get", "stop", "start"} BY DEF Asking
<1>3. /\ late = 0 /\ faults = 0 /\ is_active /\ link = "up" /\ frames = <<>>
      /\ ~is_sending /\ Free
      /\ o # "laser_on" => ~sensor.laser /\ ~is_laser_on
      /\ o = "laser_on" => sensor.mode = "idle"
  BY <1>1, <1>2, CallFrom
<1>4. op' = o /\ UNCHANGED <<inbox, link, sensor, late, faults>> BY <1>1, CallSame
<1>5. Exchange(c, 1) /\ UNCHANGED <<flags, frames>> BY DEF Ask
<1>6. Quiet /\ sensor.mode # "measure" BY <1>3 DEF Free
<1>7. c \in CommandNames BY DEF CommandNames
<1>8. xchg'.cmd = c /\ pc' = "xchg" /\ Answering'
  BY <1>3, <1>4, <1>5, <1>6, <1>7, ExchangeWrites
<1>9. Lit' BY <1>2, <1>3, <1>4, <1>5, <1>6 DEF Lit, flags
<1>10. Asked'
  <2>1. c \notin Single \cup Continuous \cup {"QT"} BY DEF Single, Continuous
  <2>2. c = "BM" <=> op' \in {"start", "laser_on"} BY <1>2, <1>4
  <2> QED BY <1>8, <2>1, <2>2 DEF Asked, Single, Continuous
<1>11. Place' BY <1>8, <1>9, <1>10 DEF Place
<1> QED BY <1>3, <1>4, <1>5, <1>8, <1>11, SyncStep DEF flags

LEMMA SyncLaserOn ==
  ASSUME TypeOK, KeepsUp, SyncInv, LaserOn PROVE SyncInv'
<1>1. CASE is_laser_on
  <2>1. Call("laser_on") BY <1>1 DEF LaserOn
  <2>2. /\ late = 0 /\ faults = 0 /\ is_active /\ link = "up" /\ frames = <<>>
        /\ ~is_sending /\ Free /\ sensor.mode = "idle"
    BY <2>1, CallFrom
  <2>3. op' = "laser_on" /\ UNCHANGED <<inbox, link, sensor, late, faults>>
    BY <2>1, CallSame
  <2>4. pc' = "ready" /\ UNCHANGED <<flags, frames, outbox>>
    BY <1>1 DEF LaserOn, Returns
  <2>5. Free' BY <2>2, <2>3, <2>4 DEF Free, Quiet, flags
  <2>6. Place' BY <2>4, <2>5 DEF Place
  <2>7. GetSucceeds' BY <2>3 DEF GetSucceeds
  <2> QED BY <2>2, <2>3, <2>4, <2>6, <2>7 DEF SyncInv, flags
<1>2. CASE ~is_laser_on
  <2>1. Ask("laser_on", "BM") BY <1>2 DEF LaserOn
  <2>2. "laser_on" \in Asking \ {"start", "sleep"} BY DEF Asking
  <2> QED BY <2>1, <2>2, SyncAsk
<1> QED BY <1>1, <1>2

LEMMA SyncClose ==
  ASSUME TypeOK, KeepsUp, SyncInv, Close PROVE SyncInv'
<1>1. Call("close") BY DEF Close
<1>2. late = 0 /\ faults = 0 /\ is_active /\ link = "up" BY <1>1, CallFrom
<1>3. UNCHANGED <<link, late, faults>> BY <1>1, CallSame
<1>4. /\ is_active' = is_active
      /\ pc' = "close" \/ (pc' = "drain" /\ after'.pc = "close")
  BY DEF Close, IgnoreReceiveDataWithQt, Resume, flags
<1>5. Place' BY <1>4 DEF Place
<1> QED BY <1>2, <1>3, <1>4, <1>5, SyncStep

LEMMA SyncNotConnected ==
  ASSUME TypeOK, KeepsUp, SyncInv, NEW o, NotConnected(o) PROVE SyncInv'
<1>1. pc' = "ready" /\ ~is_active /\ UNCHANGED <<flags, budgets>>
  BY DEF NotConnected, Returns
<1>2. GetSucceeds' BY <1>1 DEF GetSucceeds, flags
<1> QED BY <1>1, <1>2 DEF SyncInv, flags, budgets

(***************************************************************************)
(* The sensor.                                                             *)
(***************************************************************************)

\* What the sensor leaves alone.
LEMMA SensorLeaves ==
  ASSUME HostUnchanged, UNCHANGED <<link, budgets>>
  PROVE  /\ UNCHANGED <<is_active, is_sending, is_laser_on, pc, op, ret, frames, xchg, rcv, after>>
         /\ UNCHANGED <<specified_scan_times, scanning_remain_times, gen, link, late, faults>>
         /\ OneScan' = OneScan /\ Verbs' = Verbs
         /\ \A k : Budget(k) => Budget(k)'
         /\ GetSucceeds => GetSucceeds'
BY DEF HostUnchanged, flags, config, host, budgets, OneScan, Verbs, Budget, GetSucceeds

\* A step of the sensor keeps the invariant when it keeps each form of the stream.
LEMMA SensorStep ==
  ASSUME TypeOK, SyncInv, HostUnchanged, UNCHANGED <<link, budgets>>,
         is_active /\ link = "up" =>
           /\ Waiting => Waiting'
           /\ \A p \in 1 .. 4 : InAck(p) => InAck(p)'
           /\ \A p \in 1 .. 4 : InReply(p) => InReply(p)'
           /\ \A nm \in Verbs : \A p \in 1 .. Header(nm) + DataLines + 2 :
                InScan(nm, p) => InScan(nm, p)'
           /\ \A z \in 0 .. 1 : Between(z) => Between(z)'
           /\ Lit /\ Asked /\ Answering => Lit' /\ Answering'
           /\ ~Free /\ (Quiet => ~Lit)
  PROVE  SyncInv'
<1>1. /\ UNCHANGED <<is_active, is_sending, is_laser_on, pc, op, ret, frames, xchg, rcv, after>>
      /\ UNCHANGED <<gen, link, late, faults>> /\ OneScan' = OneScan /\ Verbs' = Verbs
      /\ GetSucceeds => GetSucceeds'
  BY SensorLeaves
<1>2. late = 0 /\ faults = 0 /\ GetSucceeds BY DEF SyncInv
<1>3. CASE ~is_active
  BY <1>1, <1>2, <1>3 DEF SyncInv
<1>4. CASE is_active
  <2>1. link = "up" /\ Place BY <1>4 DEF SyncInv
  <2>2. ASSUME NEW p \in 1 .. 4, InHeader(p) PROVE InHeader(p)'
    <3>1. PICK nm \in Verbs : InScan(nm, p) /\ rcv.type = TypeFor(nm) BY <2>2 DEF InHeader
    <3>2. p \in 1 .. Header(nm) + DataLines + 2 BY BoundAssumption DEF Header
    <3>3. InScan(nm, p)' BY <1>4, <2>1, <3>1, <3>2
    <3> QED BY <1>1, <2>2, <3>1, <3>3 DEF InHeader, TypeFor
  <2>3. Place'
    <3>1. CASE pc = "ready" BY <1>1, <1>4, <2>1, <3>1 DEF Place
    <3>2. CASE pc \in {"drain", "close"} BY <1>1, <2>1, <3>2 DEF Place
    <3>3. CASE pc = "xchg" BY <1>1, <1>4, <2>1, <3>3 DEF Place, Asked
    <3>4. CASE pc \in {"xchg_done", "send_single", "stop_done"}
      BY <1>4, <2>1, <3>4 DEF Place
    <3>5. CASE pc = "rd_echo" BY <1>1, <1>4, <2>1, <3>5 DEF Place
    <3>6. CASE pc = "rd_status"
      <4>1. \/ InReply(2) /\ rcv.type = "stop"
            \/ InAck(2) /\ rcv.type # "stop"
            \/ InHeader(2)
        BY <2>1, <3>6 DEF Place
      <4>2. 2 \in 1 .. 4 OBVIOUS
      <4> QED BY <1>1, <1>4, <2>1, <2>2, <3>6, <4>1, <4>2 DEF Place
    <3>7. CASE pc \in {"rd_qt", "rd_ack"}
      <4>1. 3 \in 1 .. 4 OBVIOUS
      <4> QED BY <1>1, <1>4, <2>1, <3>7, <4>1 DEF Place
    <3>8. CASE pc = "rd_io"
      <4>1. 3 \in 1 .. 4 OBVIOUS
      <4> QED BY <1>1, <2>1, <2>2, <3>8, <4>1 DEF Place
    <3>9. CASE pc = "rd_stamp"
      <4>1. PICK p \in {3, 4} : p = IF rcv.type = "distance_io" THEN 4 ELSE 3 OBVIOUS
      <4>2. InHeader(p)' BY <2>1, <2>2, <3>9, <4>1 DEF Place
      <4> QED BY <1>1, <3>9, <4>1, <4>2 DEF Place
    <3>10. CASE pc = "rd_data"
      <4>0. PICK nm \in Verbs : \E p \in {Header(nm) + rcv.points + 1} : InScan(nm, p)
        BY <2>1, <3>10 DEF Place
      <4>1. PICK p \in {Header(nm) + rcv.points + 1} : InScan(nm, p) BY <4>0
      <4>2. rcv.points \in 0 .. DataLines BY DEF TypeOK, HostTypeOK
      <4>3. p \in 1 .. Header(nm) + DataLines + 2
        <5> DEFINE x == rcv.points
        <5>1. x \in 0 .. DataLines /\ p = Header(nm) + x + 1 BY <4>1, <4>2
        <5> HIDE DEF x
        <5> QED BY <5>1, BoundAssumption DEF Header
      <4>4. InScan(nm, p)' BY <1>4, <2>1, <4>1, <4>3
      <4>5. rcv.points > 0 => rcv.gen = gen BY <2>1, <3>10 DEF Place
      <4>6. nm \in Verbs' /\ p \in {Header(nm) + rcv'.points + 1} BY <1>1, <4>1
      <4> QED BY <1>1, <3>10, <4>4, <4>5, <4>6 DEF Place
    <3>11. CASE pc = "rd_count"
      <4>1. PICK nm \in Verbs : InScan(nm, Header(nm) + DataLines + 2)
        BY <2>1, <3>11 DEF Place
      <4>2. Header(nm) + DataLines + 2 \in 1 .. Header(nm) + DataLines + 2
        BY BoundAssumption DEF Header
      <4>3. InScan(nm, Header(nm) + DataLines + 2)' BY <1>4, <2>1, <4>1, <4>2
      <4>4. ret = "POSITIVE" /\ rcv.gen = gen BY <2>1, <3>11 DEF Place
      <4> QED BY <1>1, <3>11, <4>3, <4>4 DEF Place
    <3>12. CASE pc = "rd_ret"
      <4>1. 4 \in 1 .. 4 /\ 0 \in 0 .. 1 /\ 1 \in 0 .. 1 OBVIOUS
      <4>2. \/ ret = "NO_ERROR" /\ InReply(4)
            \/ ret = "POSITIVE" /\ Between(1)
            \/ ret = "NO_RESPONSE" /\ OneScan /\ frames = <<>> /\ Between(0)
        BY <1>4, <2>1, <3>12 DEF Place
      <4> QED BY <1>1, <1>4, <2>1, <3>12, <4>1, <4>2 DEF Place
    <3> QED BY <2>1, <3>1, <3>2, <3>3, <3>4, <3>5, <3>6, <3>7, <3>8, <3>9, <3>10,
               <3>11, <3>12 DEF Place
  <2> QED BY <1>1, <1>2, <1>4, <2>1, <2>3 DEF SyncInv
<1> QED BY <1>3, <1>4

\* While the sensor measures and has no command to read, the host was not told
\* to stop.
LEMMA MeasuringUnder ==
  ASSUME TypeOK, sensor.mode = "measure", outbox = <<>>, NEW nm \in Verbs, NEW x, Under(nm, x)
  PROVE  /\ frames = <<>> /\ is_sending /\ Ongoing(nm, x)
         /\ ~OneScan /\ sensor.scan = nm /\ sensor.gen = gen
<1>1. ~Ending(x) BY DEF Ending
<1>2. frames = <<>> /\ is_sending /\ Ongoing(nm, x) BY <1>1 DEF Under
<1> QED BY <1>2 DEF Ongoing

\* One more scan is under way, one fewer is to come.
LEMMA RunningMore ==
  ASSUME TypeOK, SensorScan, NEW nm \in Verbs, NEW x \in 0 .. 3, NEW y, y = x + 1,
         Under(nm, x), outbox = <<>>
  PROVE  Under(nm, y)'
<1>1. /\ frames = <<>> /\ is_sending /\ Ongoing(nm, x)
      /\ ~OneScan /\ sensor.scan = nm /\ sensor.gen = gen /\ sensor.mode = "measure"
  BY MeasuringUnder DEF SensorScan
<1>2. /\ UNCHANGED <<is_sending, frames, specified_scan_times, scanning_remain_times, gen>>
      /\ OneScan' = OneScan
  BY SensorLeaves DEF SensorScan
<1>3. /\ sensor \in [mode : {"idle", "measure", "adjust", "sleep"}, laser : BOOLEAN,
                  rb : BOOLEAN, scan : Continuous, left : Nat, gen : Nat]
      /\ specified_scan_times \in Nat /\ scanning_remain_times \in Nat
  BY DEF TypeOK, HostTypeOK, WorldTypeOK
<1>4. specified_scan_times # 1 BY <1>1 DEF OneScan
<1>5. CASE sensor.left = 1
  <2>1. sensor'.mode = "idle" BY <1>3, <1>5 DEF SensorScan
  <2>2. specified_scan_times # 0 BY <1>1, <1>5 DEF Ongoing
  <2>3. specified_scan_times > 1 BY <1>3, <1>4, <2>2
  <2>4. scanning_remain_times >= 1 /\ scanning_remain_times = x + 1
    BY <1>1, <1>5, <2>3 DEF Ongoing
  <2>5. Ongoing(nm, y)' BY <1>1, <1>2, <2>1, <2>2, <2>4 DEF Ongoing
  <2> QED BY <1>1, <1>2, <2>5 DEF Under
<1>6. CASE sensor.left # 1
  <2>1. /\ sensor'.mode = "measure" /\ sensor'.scan = nm /\ sensor'.gen = gen
        /\ sensor'.left = IF sensor.left > 1 THEN sensor.left - 1 ELSE 0
    BY <1>1, <1>3, <1>6 DEF SensorScan
  <2>2. specified_scan_times = 0 => sensor'.left = 0
    BY <1>1, <2>1 DEF Ongoing
  <2>3. ASSUME specified_scan_times > 1
        PROVE  scanning_remain_times >= 1 /\ sensor'.left >= 1
               /\ scanning_remain_times = y + sensor'.left
    <3> DEFINE r == scanning_remain_times  f == sensor.left  g == sensor'.left
    <3>1. r >= 1 /\ f >= 1 /\ r = x + f BY <1>1, <2>3 DEF Ongoing
    <3>2. f \in Nat /\ f # 1 /\ g = IF f > 1 THEN f - 1 ELSE 0 BY <1>3, <1>6, <2>1
    <3> HIDE DEF r, f, g
    <3>3. r >= 1 /\ g >= 1 /\ r = y + g BY <3>1, <3>2
    <3> QED BY <3>3 DEF r, g
  <2>4. Ongoing(nm, y)' BY <1>1, <1>2, <2>1, <2>2, <2>3 DEF Ongoing
  <2> QED BY <1>1, <1>2, <2>4 DEF Under
<1> QED BY <1>5, <1>6

\* There is room for it on the wires: at most two scans are unread.
LEMMA ScanOnWires ==
  ASSUME TypeOK, KeepsUp, SensorScan, outbox = <<>>,
         NEW nm \in Verbs, NEW m \in Seq(WireLine), NEW p \in 1 .. Len(m) + 1,
         NEW k \in 0 .. 2, NEW x, Carries(m, p, Scan(nm), k, Len(frames)), Under(nm, x)
  PROVE  k \in 0 .. 1 /\ Carries(m, p, Scan(nm), k + 1, Len(frames))'
<1>1. /\ frames = <<>> /\ ~OneScan /\ sensor.scan = nm /\ sensor.gen = gen
  BY MeasuringUnder DEF SensorScan
<1>2. UNCHANGED <<frames, specified_scan_times, gen>> BY SensorLeaves DEF SensorScan
<1>3. PICK s \in Seq(WireLine) :
        s = Scan(nm) /\ s = Scan(nm)' /\ Len(s) = Header(nm) + DataLines + 1
  BY <1>2, ScanIs
<1>4. PICK d \in {0} : d = Len(frames) /\ d = Len(frames')
  BY <1>1, <1>2
<1>5. Carries(m, p, s, k, d) BY <1>3, <1>4
<1>6. inbox' = inbox \o s /\ outbox' = outbox /\ Len(inbox') <= MaxPending
  <2>1. s = ScanLines(sensor.scan, "99", sensor.gen) BY <1>1, <1>3 DEF Scan
  <2> QED BY <2>1 DEF SensorScan
<1>7. k # 2
  <2> SUFFICES ASSUME k = 2 PROVE FALSE OBVIOUS
  <2>1. Len(inbox) >= Len(s) + Len(s) BY <1>5, CarriesRoom
  <2>2. inbox \in Seq(WireLine) BY DEF TypeOK, WorldTypeOK, WireLine
  <2>3. Len(inbox') = Len(inbox) + Len(s) BY <1>6, <2>2, ConcatProperties
  <2>4. Len(inbox) \in Nat BY <2>2
  <2> DEFINE n == Len(inbox)  w == Len(inbox')  q == Len(s)  h == Header(nm)
  <2>5. /\ n \in Nat /\ n >= q + q /\ w = n + q /\ w <= MaxPending
        /\ q = h + DataLines + 1 /\ h \in {3, 4}
    BY <1>3, <1>6, <2>1, <2>3, <2>4 DEF Header
  <2>6. DataLines \in Nat /\ MaxPending \in Nat /\ MaxPending < 3 * (DataLines + 4)
    BY BoundAssumption DEF KeepsUp
  <2> HIDE DEF n, w, q, h
  <2> QED BY <2>5, <2>6
<1>8. k \in 0 .. 1 BY <1>7
<1>9. Carries(m, p, s, k + 1, d)' BY <1>5, <1>6, <1>8, CarriesScan
<1> QED BY <1>3, <1>4, <1>8, <1>9 DEF Carries

LEMMA SyncSensorScan ==
  ASSUME TypeOK, KeepsUp, SyncInv, SensorScan PROVE SyncInv'
<1>0. HostUnchanged /\ UNCHANGED <<link, budgets>> /\ link = "up" /\ sensor.mode = "measure"
  BY DEF SensorScan
<1>1. outbox = <<>> BY DEF SensorScan, KeepsUp
<1>2. /\ OneScan' = OneScan /\ Verbs' = Verbs /\ Verbs \subseteq CommandNames
      /\ frames' = frames /\ op' = op
  BY <1>0, SensorLeaves DEF Verbs, CommandNames
<1>3. ASSUME NEW nm \in Verbs, NEW x, Under(nm, x), NEW b, Budget(b), NEW c
      PROVE  Budget(c)'
  <2>1. frames = <<>> BY <1>0, <1>1, <1>3, MeasuringUnder
  <2> QED BY <1>2, <1>3, <2>1 DEF Budget
<1>4. ASSUME NEW nm \in Verbs, NEW m \in Seq(WireLine), NEW p \in 1 .. Len(m) + 1,
             NEW k \in 0 .. 2, NEW x \in 0 .. 3, NEW b,
             Carries(m, p, Scan(nm), k, Len(frames)), Under(nm, x), Budget(b)
      PROVE  /\ k + 1 \in 0 .. 2 /\ Carries(m, p, Scan(nm), k + 1, Len(frames))'
             /\ Under(nm, x + 1)' /\ \A c : Budget(c)'
  <2>1. k \in 0 .. 1 /\ Carries(m, p, Scan(nm), k + 1, Len(frames))'
    BY <1>1, <1>4, ScanOnWires
  <2>2. Under(nm, x + 1)' BY <1>1, <1>4, RunningMore
  <2> QED BY <1>3, <1>4, <2>1, <2>2
<1>5. ~Unread BY <1>0 DEF Unread
<1>6. \A p \in 1 .. 4 : ~InReply(p)
  BY <1>0, <1>1 DEF InReply, Ending
<1>7. ~Free /\ ~Lit BY <1>0 DEF Free, Lit
<1>8. ASSUME NEW p \in 1 .. 4, InAck(p) PROVE InAck(p)'
  <2>1. PICK nm \in Verbs, k \in 0 .. 2 :
          Carries(Ack(nm), p, Scan(nm), k, Len(frames)) /\ Under(nm, k) /\ Budget(k)
    BY <1>8 DEF InAck
  <2>2. Ack(nm) \in Seq(WireLine) /\ Len(Ack(nm)) = 3 BY <1>2, AckLines
  <2>3. PICK m \in Seq(WireLine) : m = Ack(nm) /\ p \in 1 .. Len(m) + 1
    <3>1. p \in 1 .. 3 + 1 OBVIOUS
    <3> QED BY <2>2, <3>1
  <2>4. k \in 0 .. 3 /\ Carries(m, p, Scan(nm), k, Len(frames)) BY <2>1, <2>3
  <2>5. /\ k + 1 \in 0 .. 2 /\ Carries(m, p, Scan(nm), k + 1, Len(frames))'
        /\ Under(nm, k + 1)' /\ Budget(k + 1)'
    BY <1>4, <2>1, <2>3, <2>4
  <2>6. Ack(nm)' = Ack(nm) BY DEF Ack
  <2> QED BY <1>2, <1>8, <2>3, <2>5, <2>6 DEF InAck
<1>9. ASSUME NEW nm \in Verbs, NEW p \in 1 .. Header(nm) + DataLines + 2, InScan(nm, p)
      PROVE  InScan(nm, p)'
  <2>1. PICK k \in 0 .. 2 :
          Carries(Scan(nm), p, Scan(nm), k, Len(frames)) /\ Under(nm, k + 1) /\ Budget(k + 1)
    BY <1>9 DEF InScan
  <2>2. PICK m \in Seq(WireLine) :
          m = Scan(nm) /\ m = Scan(nm)' /\ Len(m) = Header(nm) + DataLines + 1
    <3>1. UNCHANGED <<specified_scan_times, gen>> BY <1>0, SensorLeaves
    <3> QED BY <3>1, ScanIs
  <2>3. p \in 1 .. Len(m) + 1
    <3> DEFINE q == Len(m)  h == Header(nm)
    <3>1. q = h + DataLines + 1 /\ h \in {3, 4} /\ p \in 1 .. h + DataLines + 2
      BY <2>2 DEF Header
    <3> HIDE DEF q, h
    <3>2. p \in 1 .. q + 1 BY <3>1, BoundAssumption
    <3> QED BY <3>2 DEF q
  <2>4. k + 1 \in 0 .. 3 /\ Carries(m, p, Scan(nm), k, Len(frames)) BY <2>1, <2>2
  <2>5. /\ k + 1 \in 0 .. 2 /\ Carries(m, p, Scan(nm), k + 1, Len(frames))'
        /\ Under(nm, (k + 1) + 1)' /\ Budget((k + 1) + 1)'
    BY <1>4, <2>1, <2>3, <2>4
  <2>6. Carries(Scan(nm), p, Scan(nm), k + 1, Len(frames))'
    BY <2>2, <2>5 DEF Carries
  <2> QED BY <2>5, <2>6 DEF InScan
<1>10. ASSUME NEW z \in 0 .. 1, Between(z) PROVE Between(z)'
  <2>1. PICK nm \in Verbs, k \in 0 .. 2 :
          Carries(<<>>, 1, Scan(nm), k, Len(frames)) /\ Under(nm, k) /\ Budget(k + z)
    BY <1>10 DEF Between
  <2>2. <<>> \in Seq(WireLine) /\ 1 \in 1 .. Len(<<>>) + 1 /\ k \in 0 .. 3 OBVIOUS
  <2>3. /\ k + 1 \in 0 .. 2 /\ Carries(<<>>, 1, Scan(nm), k + 1, Len(frames))'
        /\ Under(nm, k + 1)' /\ Budget((k + 1) + z)'
    BY <1>4, <2>1, <2>2
  <2> QED BY <1>2, <2>3 DEF Between
<1>11. Waiting => Waiting'
  <2>1. 1 \in 1 .. 4 /\ 0 \in 0 .. 1 OBVIOUS
  <2> QED BY <1>5, <1>8, <1>10, <2>1 DEF Waiting
<1> QED BY <1>0, <1>6, <1>7, <1>8, <1>9, <1>10, <1>11, SensorStep

\* What the sensor sends in answer to QT and to the start of a measurement: an
\* acknowledgement; and in between it obeys.
LEMMA AnswerAck ==
  ASSUME TypeOK, NEW c \in Command, c.name \in Continuous \cup {"QT"}, Accepts(c.name)
  PROVE  Answer(c) = Ack(c.name)
<1> DEFINE e == Echo(c.name)  s == Status("00")  b == Blank
<1>1. e \in WireLine /\ s \in WireLine /\ b \in WireLine
  <2>1. c.name \in CommandNames BY DEF Command
  <2> QED BY <2>1 DEF Echo, Status, Plain, Blank, WireLine, Line, LineKinds, LineVals, Timeout
<1>2. c.name \notin Single /\ c.name \notin {"BM", "RB", "TM1", "VV"}
  BY DEF Single, Continuous
<1>3. StatusOf(c.name) = "00" /\ Payload(c.name) = <<>>
  BY <1>2 DEF StatusOf, Payload
<1>4. Answer(c) = (<<e, s>> \o <<>>) \o <<b>>
  BY <1>2, <1>3 DEF Answer
<1> HIDE DEF e, s, b
<1>5. <<e, s>> \o <<>> = <<e, s>>
  <2>1. <<e, s>> \in Seq(WireLine) BY <1>1
  <2> QED BY <2>1, ConcatEmptySeq
<1>6. <<e, s>> \o <<b>> = <<e, s, b>> BY <1>1, JoinThree
<1> QED BY <1>4, <1>5, <1>6 DEF Ack, e, s, b

LEMMA AckOfQt == Ack("QT") = QtReply
BY DEF Ack, QtReply

\* The reply to QT: the sensor is idle and dark.
LEMMA QtObeyed ==
  ASSUME TypeOK, SensorReply, link = "up", Head(outbox) = Qt, sensor.mode # "adjust"
  PROVE  /\ inbox' = inbox \o QtReply /\ outbox' = Tail(outbox)
         /\ sensor'.mode = "idle" /\ ~sensor'.laser
<1>1. PICK c \in Command : c = Qt /\ c = Head(outbox) /\ c.name = "QT"
  BY DEF Qt, Command, CommandNames
<1>2. Accepts("QT") BY DEF Accepts, Single, Continuous
<1>3. Answer(c) = QtReply BY <1>1, <1>2, AnswerAck, AckOfQt
<1>4. Obeyed(c).mode = "idle" /\ Obeyed(c).laser = FALSE
  BY <1>1, <1>2 DEF Obeyed, ModeAfter, LaserAfter, Lighting, Continuous
<1> QED BY <1>1, <1>3, <1>4 DEF SensorReply, Delivered

\* A QT is answered after what is on the wires.
LEMMA ReplyOnWires ==
  ASSUME TypeOK, SensorReply, link = "up", NEW nm \in Verbs, NEW m \in Seq(WireLine),
         NEW p \in 1 .. Len(m) + 1, NEW k \in 0 .. 2, NEW d \in 0 .. 2,
         Carries(m, p, Scan(nm), k, d), sensor.mode # "adjust"
  PROVE  /\ d > 0 /\ Carries(m, p, Scan(nm), k, d)'
         /\ \A x : Ending(x) => Ending(x)'
<1>1. outbox # <<>> /\ UNCHANGED <<gen, specified_scan_times, scanning_remain_times>>
  BY SensorLeaves DEF SensorReply
<1>2. PICK s \in Seq(WireLine) : s = Scan(nm) /\ s = Scan(nm)' BY <1>1, ScanIs
<1>3. Carries(m, p, s, k, d) BY <1>2
<1>4. /\ Head(outbox) = Qt /\ d > 0
      /\ outbox' = Tail(outbox) /\ inbox' = inbox \o QtReply => Carries(m, p, s, k, d)'
  BY <1>1, <1>3, CarriesReply
<1>5. /\ inbox' = inbox \o QtReply /\ outbox' = Tail(outbox)
      /\ sensor'.mode = "idle" /\ ~sensor'.laser
  BY <1>4, QtObeyed
<1>6. Carries(m, p, s, k, d)' BY <1>4, <1>5
<1>7. Carries(m, p, Scan(nm), k, d)' BY <1>2, <1>6 DEF Carries
<1>8. \A x : Ending(x) => Ending(x)' BY <1>1, <1>5 DEF Ending
<1> QED BY <1>4, <1>7, <1>8

\* The command that starts a measurement is carried out.
LEMMA StartObeyed ==
  ASSUME TypeOK, SensorReply, link = "up", Unread PROVE Waiting'
<1>0. /\ UNCHANGED <<is_sending, frames, gen, specified_scan_times, scanning_remain_times, op>>
      /\ OneScan' = OneScan /\ Verbs' = Verbs /\ Verbs \subseteq CommandNames
      /\ \A x : Budget(x) => Budget(x)'
  BY SensorLeaves DEF SensorReply, Verbs, CommandNames
<1>1. PICK nm \in Verbs : outbox = <<StartCommand(nm)>> \o Quits(Len(frames))
  BY DEF Unread
<1>2. PICK d \in 0 .. 2 : d = Len(frames) /\ (frames = <<>> <=> d = 0)
  BY BudgetDepth DEF Unread
<1>3. PICK c \in Command : c = StartCommand(nm)
  BY <1>0 DEF StartCommand, Command, TypeOK, HostTypeOK, WorldTypeOK
<1>4. Head(outbox) = c /\ Tail(outbox) = Quits(d)
  <2>1. Quits(d) \in Seq(Command) BY QuitsFacts
  <2> DEFINE q == Quits(d)
  <2>2. outbox = <<c>> \o q /\ q \in Seq(Command) BY <1>1, <1>2, <1>3, <2>1
  <2> HIDE DEF q
  <2>3. Head(<<c>> \o q) = c /\ Tail(<<c>> \o q) = q BY <2>2
  <2> QED BY <2>2, <2>3 DEF q
<1>5. outbox' = Quits(d) /\ inbox' = <<>> \o Answer(c) /\ sensor' = Obeyed(c)
  BY <1>4 DEF SensorReply, Delivered, Unread
<1>6. /\ c.name = nm /\ c.times = specified_scan_times /\ c.gen = gen
  BY <1>3 DEF StartCommand
<1>7. PICK s \in Seq(WireLine) : s = Scan(nm) /\ s = Scan(nm)' BY <1>0, ScanIs
<1>8. Len(outbox') = d /\ (outbox' = <<>> => frames = <<>>) /\ Len(frames') = d
      /\ d - d = 0 /\ d \in 0 .. d
  <2>1. Len(Quits(d)) = d /\ (d = 0 \/ Quits(d) # <<>>) BY QuitsFacts
  <2> QED BY <1>0, <1>2, <1>5, <2>1
<1>9. Budget(1) /\ sensor.mode = "idle" /\ (frames = <<>> => is_sending)
  BY DEF Unread
<1>10. Flow(s, 0, 0) = <<>> /\ Flow(s, 1, 0) = s
  <2>1. s \o <<>> = s BY ConcatEmptySeq
  <2> QED BY <2>1 DEF Flow, Replies
<1>11. CASE OneScan
  <2>1. specified_scan_times = 1 /\ nm \in Single BY <1>11 DEF OneScan, Verbs
  <2>2. sensor.laser BY <1>11 DEF Unread
  <2>3. Accepts(nm) BY <1>9, <2>1, <2>2 DEF Accepts, Continuous, Single
  <2>4. Answer(c) = s BY <1>6, <1>7, <1>11, <2>1, <2>3 DEF Answer, Scan
  <2>5. <<>> \o s = s BY ConcatEmptySeq
  <2>6. sensor'.mode = "idle"
    BY <1>5, <1>6, <1>9, <2>1, <2>3 DEF Obeyed, ModeAfter, Continuous, Single
  <2>7. Carries(<<>>, 1, s, 1, d)'
    <3>1. <<>> \in Seq(WireLine) OBVIOUS
    <3>2. Rest(<<>>, 1, s) = s BY <3>1, RestEnds
    <3>3. inbox' = Rest(<<>>, 1, Flow(s, 1, d - Len(outbox')))
      BY <1>5, <1>8, <1>10, <2>4, <2>5, <3>2
    <3> QED BY <1>5, <1>8, <3>3 DEF Carries
  <2>8. Carries(<<>>, 1, Scan(nm), 1, Len(frames))' BY <1>7, <1>8, <2>7 DEF Carries
  <2>9. Under(nm, 1)'
    <3>1. frames' = <<>> => is_sending' /\ Ongoing(nm, 1)'
      BY <1>0, <1>9, <2>1, <2>6 DEF Ongoing
    <3>2. frames' # <<>> => Ending(1)' BY <1>0, <1>8, <2>1, <2>6 DEF Ending
    <3> QED BY <3>1, <3>2 DEF Under
  <2>10. 1 \in 0 .. 2 /\ 1 + 0 = 1 OBVIOUS
  <2>11. Budget(1 + 0)' BY <1>0, <1>9, <2>10
  <2>12. Between(0)' BY <1>0, <2>8, <2>9, <2>10, <2>11 DEF Between
  <2> QED BY <2>12 DEF Waiting
<1>12. CASE ~OneScan
  <2>1. nm \in Continuous BY <1>12 DEF Verbs
  <2>2. Accepts(nm)
    <3>1. nm \notin Single /\ nm \notin {"QT", "TM0", "TM1", "TM2", "RB", "%SL"}
      BY <2>1 DEF Single, Continuous
    <3> QED BY <1>9, <2>1, <3>1 DEF Accepts
  <2>3. Answer(c) = Ack(nm) BY <1>6, <2>1, <2>2, AnswerAck
  <2>4. PICK m \in Seq(WireLine) : m = Ack(nm) BY <1>0, AckLines
  <2>5. sensor'.mode = "measure" /\ sensor'.scan = nm /\ sensor'.left = specified_scan_times
        /\ sensor'.gen = gen
    BY <1>5, <1>6, <2>1, <2>2 DEF Obeyed, ModeAfter, Continuous
  <2>6. Carries(m, 1, s, 0, d)'
    <3>1. <<>> \o m = m /\ m \o <<>> = m BY ConcatEmptySeq
    <3>2. <<>> \in Seq(WireLine) OBVIOUS
    <3>3. Rest(m, 1, <<>>) = m BY <3>1, <3>2, RestEnds
    <3>4. inbox' = Rest(m, 1, Flow(s, 0, d - Len(outbox')))
      BY <1>5, <1>8, <1>10, <2>3, <2>4, <3>1, <3>3
    <3> QED BY <1>5, <1>8, <3>4 DEF Carries
  <2>7. Carries(Ack(nm), 1, Scan(nm), 0, Len(frames))'
    BY <1>7, <1>8, <2>4, <2>6 DEF Carries, Ack
  <2>8. specified_scan_times \in Nat /\ scanning_remain_times \in Nat
    BY DEF TypeOK, HostTypeOK
  <2>9. specified_scan_times > 1 => scanning_remain_times = specified_scan_times
    BY DEF Unread
  <2>10. Under(nm, 0)'
    <3>1. frames' = <<>> => is_sending' /\ Ongoing(nm, 0)'
      BY <1>0, <1>9, <1>12, <2>5, <2>8, <2>9 DEF Ongoing
    <3>2. frames' # <<>> => Ending(0)' BY <1>0, <1>8, <2>5, <2>8 DEF Ending
    <3> QED BY <3>1, <3>2 DEF Under
  <2>11. Budget(0)' BY <1>0, <1>9 DEF Budget
  <2>12. 0 \in 0 .. 2 OBVIOUS
  <2>13. InAck(1)' BY <1>0, <1>12, <2>7, <2>10, <2>11, <2>12 DEF InAck
  <2> QED BY <2>13 DEF Waiting
<1> QED BY <1>11, <1>12

\* Any other command: echo, status, what was asked for.
LEMMA AnswerLines ==
  ASSUME NEW c \in Command, c.name \notin Single
  PROVE  \E s \in LineVals, x \in {Plain("stamp"), Plain("info")} :
           Answer(c) \in {<<Echo(c.name), Status(s), Blank>>,
                          <<Echo(c.name), Status(s), x, Blank>>}
<1> DEFINE e == Echo(c.name)  t == Status(StatusOf(c.name))  b == Blank
           y == Plain("stamp")  z == Plain("info")  pl == Payload(c.name)
<1>1. c.name \in CommandNames BY DEF Command
<1>2. StatusOf(c.name) \in LineVals
  BY DEF StatusOf, Refusal, LineVals
<1>3. /\ e \in WireLine /\ t \in WireLine /\ b \in WireLine
      /\ y \in WireLine /\ z \in WireLine
  <2>1. e \in WireLine
    BY <1>1 DEF Echo, WireLine, Line, LineKinds, LineVals, Timeout, Plain
  <2>2. t \in WireLine
    BY <1>2 DEF Status, WireLine, Line, LineKinds, Timeout, Plain
  <2>3. b \in WireLine /\ y \in WireLine /\ z \in WireLine
    BY DEF Plain, Blank, WireLine, Line, LineKinds, LineVals, Timeout
  <2> QED BY <2>1, <2>2, <2>3
<1>4. pl = <<>> \/ pl = <<y>> \/ pl = <<z>> BY DEF Payload
<1>5. Answer(c) = (<<e, t>> \o pl) \o <<b>> BY DEF Answer
<1>6. /\ <<e, t>> \o <<>> = <<e, t>>
      /\ \A x \in {y, z} : <<e, t>> \o <<x>> = <<e, t, x>>
  <2> HIDE DEF e, t, y, z
  <2>1. <<e, t>> \in Seq(WireLine) BY <1>3
  <2>2. <<e, t>> \o <<>> = <<e, t>> BY <2>1, ConcatEmptySeq
  <2>3. \A x \in {y, z} : x \in WireLine BY <1>3
  <2>4. \A x \in {y, z} : <<e, t>> \o <<x>> = <<e, t, x>> BY <1>3, <2>3, JoinThree
  <2> QED BY <2>2, <2>4
<1>7. /\ <<e, t>> \o <<b>> = <<e, t, b>>
      /\ \A x \in {y, z} : <<e, t, x>> \o <<b>> = <<e, t, x, b>>
  <2> HIDE DEF e, t, y, z, b
  <2>1. \A x \in {y, z} : x \in WireLine BY <1>3
  <2>2. <<e, t>> \o <<b>> = <<e, t, b>> BY <1>3, JoinThree
  <2>3. \A x \in {y, z} : <<e, t, x>> \o <<b>> = <<e, t, x, b>> BY <1>3, <2>1, JoinFour
  <2> QED BY <2>2, <2>3
<1>8. \/ Answer(c) = <<e, t, b>> \/ \E x \in {y, z} : Answer(c) = <<e, t, x, b>>
  <2> HIDE DEF e, t, y, z, b, pl
  <2>1. CASE pl = <<>> BY <1>5, <1>6, <1>7, <2>1
  <2>2. CASE pl = <<y>> BY <1>5, <1>6, <1>7, <2>2
  <2>3. CASE pl = <<z>> BY <1>5, <1>6, <1>7, <2>3
  <2> QED BY <1>4, <2>1, <2>2, <2>3
<1>9. CASE Answer(c) = <<e, t, b>>
  <2>1. y \in {y, z} OBVIOUS
  <2> QED BY <1>2, <1>9, <2>1
<1>10. CASE \E x \in {y, z} : Answer(c) = <<e, t, x, b>> BY <1>2, <1>10
<1> QED BY <1>8, <1>9, <1>10

\* The command of an exchange is answered.
LEMMA ExchangeObeyed ==
  ASSUME TypeOK, SensorReply, link = "up", Lit, Asked, Answering
  PROVE  Lit' /\ Answering'
<1>0. UNCHANGED <<is_sending, is_laser_on, op, frames, xchg, rcv>> /\ OneScan' = OneScan
  BY SensorLeaves DEF SensorReply
<1>1. /\ outbox = <<[name |-> xchg.cmd, times |-> 0, gen |-> 0]>> /\ inbox = <<>>
      /\ xchg.line = 0
  BY DEF Answering, SensorReply
<1>2. /\ xchg.cmd \notin Single \cup Continuous \cup {"QT"}
      /\ xchg.cmd = "BM" <=> op \in {"start", "laser_on"}
  BY DEF Asked
<1>3. PICK c \in Command : c = [name |-> xchg.cmd, times |-> 0, gen |-> 0]
  BY DEF TypeOK, HostTypeOK, Command
<1>4. c.name = xchg.cmd /\ c.name \notin Single /\ c.name \notin Continuous /\ c.name # "QT"
  BY <1>2, <1>3
<1>5. outbox' = <<>> /\ inbox' = <<>> \o Answer(c) /\ sensor' = Obeyed(c)
  <2>1. outbox = <<c>> BY <1>1, <1>3
  <2>2. Head(<<c>>) = c /\ Tail(<<c>>) = <<>> OBVIOUS
  <2> QED BY <1>1, <2>1, <2>2 DEF SensorReply, Delivered
<1>6. PICK s \in LineVals, x \in {Plain("stamp"), Plain("info")} :
        Answer(c) \in {<<Echo(xchg.cmd), Status(s), Blank>>,
                       <<Echo(xchg.cmd), Status(s), x, Blank>>}
  BY <1>4, AnswerLines
<1>7. <<>> \o Answer(c) = Answer(c)
  <2>1. Answer(c) \in Seq(WireLine)
    <3>1. /\ Echo(xchg.cmd) \in WireLine /\ Status(s) \in WireLine /\ Blank \in WireLine
          /\ x \in WireLine
      <4>1. xchg.cmd \in CommandNames BY DEF TypeOK, HostTypeOK
      <4>2. Echo(xchg.cmd) \in WireLine
        BY <4>1 DEF Echo, WireLine, Line, LineKinds, LineVals, Timeout, Plain
      <4>3. Status(s) \in WireLine
        BY DEF Status, WireLine, Line, LineKinds, Timeout, Plain
      <4>4. Blank \in WireLine /\ Plain("stamp") \in WireLine /\ Plain("info") \in WireLine
        BY DEF Plain, Blank, WireLine, Line, LineKinds, LineVals, Timeout
      <4>5. x \in WireLine BY <4>4
      <4> QED BY <4>2, <4>3, <4>4, <4>5
    <3> DEFINE e == Echo(xchg.cmd)  t == Status(s)  b == Blank
    <3>2. e \in WireLine /\ t \in WireLine /\ b \in WireLine /\ x \in WireLine
          /\ Answer(c) \in {<<e, t, b>>, <<e, t, x, b>>}
      BY <1>6, <3>1
    <3> HIDE DEF e, t, b
    <3>3. <<e, t, b>> \in Seq(WireLine) /\ <<e, t, x, b>> \in Seq(WireLine) BY <3>2
    <3> QED BY <3>2, <3>3
  <2> QED BY <2>1, ConcatEmptySeq
<1>8. c.name = "BM" => sensor.mode = "idle" /\ Accepts("BM")
  <2>1. c.name = "BM" => sensor.mode = "idle" BY <1>2, <1>4 DEF Lit
  <2>2. sensor.mode = "idle" => Accepts("BM") BY DEF Accepts, Continuous, Single
  <2> QED BY <2>1, <2>2
<1>9. /\ sensor'.mode # "measure"
      /\ c.name = "BM" => sensor'.mode = "idle" /\ sensor'.laser
      /\ c.name # "BM" /\ ~sensor.laser => ~sensor'.laser
  <2>1. sensor \in [mode : {"idle", "measure", "adjust", "sleep"}, laser : BOOLEAN,
                     rb : BOOLEAN, scan : Continuous, left : Nat, gen : Nat]
        /\ sensor.mode # "measure"
    BY DEF TypeOK, WorldTypeOK, Lit
  <2>2. CASE Accepts(c.name)
    <3>1. sensor'.mode = ModeAfter(c.name) /\ sensor'.laser = LaserAfter(c.name)
      BY <1>5, <2>2 DEF Obeyed
    <3>2. ModeAfter(c.name) # "measure" BY <1>4, <2>1 DEF ModeAfter
    <3>3. c.name = "BM" => ModeAfter(c.name) = sensor.mode /\ LaserAfter(c.name) = TRUE
      BY DEF ModeAfter, LaserAfter, Lighting, Continuous
    <3>4. c.name # "BM" /\ ~sensor.laser => LaserAfter(c.name) = FALSE
      BY <1>4, <2>1 DEF LaserAfter, Lighting
    <3> QED BY <1>8, <3>1, <3>2, <3>3, <3>4
  <2>3. CASE ~Accepts(c.name)
    <3>1. sensor'.mode = sensor.mode /\ sensor'.laser = sensor.laser
      BY <1>5, <2>1, <2>3 DEF Obeyed
    <3> QED BY <1>8, <2>1, <2>3, <3>1
  <2> QED BY <2>2, <2>3
<1>10. Answering'
  <2>1. xchg'.cmd = "BM" => sensor'.laser BY <1>0, <1>4, <1>9
  <2>2. xchg'.line = 0
        /\ inbox' \in {<<Echo(xchg'.cmd), Status(s), Blank>>,
                       <<Echo(xchg'.cmd), Status(s), x, Blank>>}
    BY <1>0, <1>1, <1>5, <1>6, <1>7
  <2> QED BY <1>5, <2>1, <2>2 DEF Answering
<1>11. Lit'
  <2>1. op \in {"start", "laser_on"} => sensor'.mode = "idle" BY <1>2, <1>4, <1>9
  <2>2. op # "start" => ~is_sending' /\ (sensor'.laser \/ is_laser_on' => op' = "laser_on")
    BY <1>0, <1>2, <1>4, <1>9 DEF Lit
  <2>3. op = "start" => OneScan' /\ is_sending' /\ rcv'.type \in {"distance", "distance_io"}
    BY <1>0 DEF Lit
  <2> QED BY <1>0, <1>9, <2>1, <2>2, <2>3 DEF Lit
<1> QED BY <1>10, <1>11

LEMMA SyncSensorReply ==
  ASSUME TypeOK, KeepsUp, SyncInv, SensorReply PROVE SyncInv'
<1>0. HostUnchanged /\ UNCHANGED <<link, budgets>> /\ outbox # <<>>
  BY DEF SensorReply
<1>1. /\ OneScan' = OneScan /\ Verbs' = Verbs /\ Verbs \subseteq CommandNames
      /\ frames' = frames /\ Len(frames) = Len(frames') /\ \A c : Budget(c) => Budget(c)'
  BY <1>0, SensorLeaves DEF Verbs, CommandNames
<1>2. ~Quiet /\ ~Free BY <1>0 DEF Quiet, Free
<1>3. ASSUME link = "up", NEW nm \in Verbs, NEW m \in Seq(WireLine), NEW p \in 1 .. Len(m) + 1,
             NEW k \in 0 .. 2, NEW x, NEW b, Under(nm, x), Budget(b),
             Carries(m, p, Scan(nm), k, Len(frames))
      PROVE  Carries(m, p, Scan(nm), k, Len(frames))' /\ Under(nm, x)' /\ Budget(b)'
  <2>1. PICK d \in 0 .. 2 : d = Len(frames) /\ (frames = <<>> <=> d = 0)
    BY <1>3, BudgetDepth
  <2>2. Carries(m, p, Scan(nm), k, d) BY <1>3, <2>1
  <2>3. d > 0
    <3>1. PICK s \in Seq(WireLine) : s = Scan(nm) BY ScanIs
    <3>2. Carries(m, p, s, k, d) BY <2>2, <3>1
    <3> QED BY <1>0, <3>2, CarriesReply
  <2>4. frames # <<>> /\ Ending(x) BY <1>3, <2>1, <2>3 DEF Under
  <2>5. sensor.mode # "adjust" BY <2>4 DEF Ending
  <2>6. Carries(m, p, Scan(nm), k, d)' /\ Ending(x)'
    BY <1>3, <2>2, <2>4, <2>5, ReplyOnWires
  <2>7. Carries(m, p, Scan(nm), k, Len(frames))' BY <1>1, <2>1, <2>6
  <2> QED BY <1>1, <1>3, <2>4, <2>6, <2>7 DEF Under
<1>4. ASSUME link = "up", NEW p \in 1 .. 4, InAck(p) PROVE InAck(p)'
  <2>1. PICK nm \in Verbs, k \in 0 .. 2 :
          Carries(Ack(nm), p, Scan(nm), k, Len(frames)) /\ Under(nm, k) /\ Budget(k)
    BY <1>4 DEF InAck
  <2>2. Ack(nm) \in Seq(WireLine) /\ Len(Ack(nm)) = 3 BY <1>1, AckLines
  <2>3. PICK m \in Seq(WireLine) : m = Ack(nm) /\ p \in 1 .. Len(m) + 1
    <3>1. p \in 1 .. 3 + 1 OBVIOUS
    <3> QED BY <2>2, <3>1
  <2>4. Carries(m, p, Scan(nm), k, Len(frames)) BY <2>1, <2>3
  <2>5. Carries(m, p, Scan(nm), k, Len(frames))' /\ Under(nm, k)' /\ Budget(k)'
    BY <1>3, <1>4, <2>1, <2>3, <2>4
  <2>6. Ack(nm)' = Ack(nm) BY DEF Ack
  <2> QED BY <1>1, <1>4, <2>3, <2>5, <2>6 DEF InAck
<1>5. ASSUME link = "up", NEW nm \in Verbs, NEW p \in 1 .. Header(nm) + DataLines + 2, InScan(nm, p)
      PROVE  InScan(nm, p)'
  <2>1. PICK k \in 0 .. 2 :
          Carries(Scan(nm), p, Scan(nm), k, Len(frames)) /\ Under(nm, k + 1) /\ Budget(k + 1)
    BY <1>5 DEF InScan
  <2>2. PICK m \in Seq(WireLine) :
          m = Scan(nm) /\ m = Scan(nm)' /\ Len(m) = Header(nm) + DataLines + 1
    <3>1. UNCHANGED <<specified_scan_times, gen>> BY <1>0, SensorLeaves
    <3> QED BY <3>1, ScanIs
  <2>3. p \in 1 .. Len(m) + 1
    <3> DEFINE q == Len(m)  h == Header(nm)
    <3>1. q = h + DataLines + 1 /\ h \in {3, 4} /\ p \in 1 .. h + DataLines + 2
      BY <2>2 DEF Header
    <3> HIDE DEF q, h
    <3>2. p \in 1 .. q + 1 BY <3>1, BoundAssumption
    <3> QED BY <3>2 DEF q
  <2>4. Carries(m, p, Scan(nm), k, Len(frames)) BY <2>1, <2>2
  <2>5. Carries(m, p, Scan(nm), k, Len(frames))' /\ Under(nm, k + 1)' /\ Budget(k + 1)'
    BY <1>3, <1>5, <2>1, <2>3, <2>4
  <2>6. Carries(Scan(nm), p, Scan(nm), k, Len(frames))' BY <2>2, <2>5 DEF Carries
  <2> QED BY <2>5, <2>6 DEF InScan
<1>6. ASSUME link = "up", NEW z \in 0 .. 1, Between(z) PROVE Between(z)'
  <2>1. PICK nm \in Verbs, k \in 0 .. 2 :
          Carries(<<>>, 1, Scan(nm), k, Len(frames)) /\ Under(nm, k) /\ Budget(k + z)
    BY <1>6 DEF Between
  <2>2. <<>> \in Seq(WireLine) /\ 1 \in 1 .. Len(<<>>) + 1 OBVIOUS
  <2>3. Carries(<<>>, 1, Scan(nm), k, Len(frames))' /\ Under(nm, k)' /\ Budget(k + z)'
    BY <1>3, <1>6, <2>1, <2>2
  <2> QED BY <1>1, <2>3 DEF Between
<1>7. ASSUME link = "up", NEW p \in 1 .. 4, InReply(p) PROVE InReply(p)'
  <2>1. PICK nm \in Verbs : Carries(QtReply, p, Scan(nm), 0, Len(frames) - 1)
    BY <1>7 DEF InReply
  <2>2. frames # <<>> /\ Ending(0) /\ Budget(0) BY <1>7 DEF InReply
  <2>3. PICK d \in 0 .. 2 : d = Len(frames) - 1
    <3>1. Len(frames) \in 0 .. 2 /\ Len(frames) # 0 BY <2>2, BudgetDepth
    <3> QED BY <3>1
  <2>4. PICK m \in Seq(WireLine) : m = QtReply /\ p \in 1 .. Len(m) + 1
    <3>1. p \in 1 .. 3 + 1 OBVIOUS
    <3> QED BY <3>1, QtReplyLines
  <2>5. sensor.mode # "adjust" /\ Carries(m, p, Scan(nm), 0, d) /\ 0 \in 0 .. 2
    BY <2>1, <2>2, <2>3, <2>4 DEF Ending
  <2>6. Carries(m, p, Scan(nm), 0, d)' /\ Ending(0)'
    BY <1>7, <2>2, <2>4, <2>5, ReplyOnWires
  <2>7. d = Len(frames') - 1 BY <1>1, <2>3
  <2>8. Carries(QtReply, p, Scan(nm), 0, Len(frames) - 1)'
    BY <2>4, <2>6, <2>7 DEF Carries, QtReply
  <2> QED BY <1>1, <2>2, <2>6, <2>8 DEF InReply
<1>8. ASSUME link = "up", Waiting PROVE Waiting'
  <2>1. 1 \in 1 .. 4 /\ 0 \in 0 .. 1 OBVIOUS
  <2>2. CASE Unread BY <1>8, <2>2, StartObeyed
  <2>3. CASE InAck(1) BY <1>4, <1>8, <2>1, <2>3 DEF Waiting
  <2>4. CASE Between(0) BY <1>6, <1>8, <2>1, <2>4 DEF Waiting
  <2> QED BY <1>8, <2>2, <2>3, <2>4 DEF Waiting
<1>9. ASSUME link = "up", Lit, Asked, Answering PROVE Lit' /\ Answering'
  BY <1>9, ExchangeObeyed
<1> QED BY <1>0, <1>2, <1>4, <1>5, <1>6, <1>7, <1>8, <1>9, SensorStep

(***************************************************************************)
(* Every step.                                                             *)
(***************************************************************************)

LEMMA SyncFault ==
  ASSUME TypeOK, KeepsUp, SyncInv, Garble \/ Lose \/ Break PROVE SyncInv'
<1>1. late + faults < MaxFaults BY DEF Garble, Lose, Break, Fault, Mishaps
<1>2. late = 0 /\ faults = 0 /\ MaxFaults = 0 BY DEF SyncInv, KeepsUp
<1> QED BY <1>1, <1>2

LEMMA SyncStutter ==
  ASSUME SyncInv, UNCHANGED vars PROVE SyncInv'
<1>1. /\ UNCHANGED <<is_active, is_sending, is_laser_on, pc, op, ret, frames, xchg, rcv, after>>
      /\ UNCHANGED <<specified_scan_times, scanning_remain_times, gen, link, late, faults>>
      /\ UNCHANGED <<inbox, outbox, sensor>>
  BY DEF vars, flags, config, host, budgets
<1>2. Place => Place'
  <2>1. \A m, p, s, k, d : Carries(m, p, s, k, d) => Carries(m, p, s, k, d)'
    BY <1>1 DEF Carries
  <2>2. \A nm : Scan(nm)' = Scan(nm) /\ StartCommand(nm)' = StartCommand(nm)
    BY <1>1 DEF Scan, OneScan, StartCommand
  <2>3. /\ (OneScan' <=> OneScan) /\ Verbs' = Verbs
        /\ \A nm, k : Under(nm, k) => Under(nm, k)'
        /\ \A k : (Budget(k) => Budget(k)') /\ (Ending(k) => Ending(k)')
    BY <1>1 DEF Under, Ongoing, Ending, Budget, OneScan, Verbs
  <2>4. Len(frames)' = Len(frames) BY <1>1
  <2>5. (Free => Free') /\ (Quiet => Quiet') BY <1>1 DEF Free, Quiet
  <2>6. Unread => Unread'
    BY <1>1, <2>2, <2>3, <2>4 DEF Unread, Quits
  <2>7. \A p : InAck(p) => InAck(p)'
    BY <1>1, <2>1, <2>2, <2>3, <2>4 DEF InAck, Ack, Carries
  <2>8. \A p : InReply(p) => InReply(p)'
    BY <1>1, <2>1, <2>2, <2>3, <2>4 DEF InReply, QtReply, Carries
  <2>9. \A nm, p : InScan(nm, p) => InScan(nm, p)'
    BY <1>1, <2>1, <2>2, <2>3, <2>4 DEF InScan, Carries
  <2>10. \A z : Between(z) => Between(z)'
    BY <1>1, <2>1, <2>2, <2>3, <2>4 DEF Between, Carries
  <2>11. Waiting => Waiting' BY <2>6, <2>7, <2>10 DEF Waiting
  <2>12. (Lit => Lit') /\ (Asked => Asked') /\ (Answering => Answering')
    BY <1>1 DEF Lit, Asked, Answering, OneScan
  <2>13. \A p : InHeader(p) => InHeader(p)'
    BY <1>1, <2>3, <2>9 DEF InHeader, TypeFor
  <2> SUFFICES ASSUME Place PROVE Place' OBVIOUS
  <2>14. CASE pc \in {"ready", "drain", "close", "xchg", "xchg_done", "send_single", "stop_done"}
    BY <1>1, <2>5, <2>11, <2>12, <2>14 DEF Place
  <2>15. CASE pc \in {"rd_echo", "rd_status", "rd_qt", "rd_ack"}
    BY <1>1, <2>7, <2>8, <2>11, <2>13, <2>15 DEF Place
  <2>16. CASE pc \in {"rd_io", "rd_stamp", "rd_data", "rd_count"}
    BY <1>1, <2>3, <2>9, <2>13, <2>16 DEF Place
  <2>17. CASE pc = "rd_ret"
    BY <1>1, <2>3, <2>5, <2>8, <2>10, <2>17 DEF Place
  <2> QED BY <2>14, <2>15, <2>16, <2>17 DEF Place
<1> QED BY <1>1, <1>2 DEF SyncInv, GetSucceeds

LEMMA SyncApplication ==
  ASSUME TypeOK, KeepsUp, SyncInv, Application PROVE SyncInv'
<1>1. CASE \E o \in Functions : NotConnected(o) BY <1>1, SyncNotConnected
<1>2. CASE StartRejected \/ Start \/ Get \/ LaserOn \/ Close
  BY <1>2, SyncStartRejected, SyncStart, SyncGet, SyncLaserOn, SyncClose
<1>3. CASE \E o \in {"stop", "wakeup", "sleep"} : Stop(o)
  BY <1>3, SyncStop DEF Stops
<1>4. /\ {"tm_start", "time_stamp", "tm_stop", "info", "reboot"} \subseteq Asking \ {"start", "sleep"}
      /\ "laser_on" \notin {"tm_start", "time_stamp", "tm_stop", "info", "reboot"}
  BY DEF Asking
<1>5. CASE Ask("tm_start", "TM0") BY <1>4, <1>5, SyncAsk
<1>6. CASE Ask("time_stamp", "TM1") BY <1>4, <1>6, SyncAsk
<1>7. CASE Ask("tm_stop", "TM2") BY <1>4, <1>7, SyncAsk
<1>8. CASE Ask("info", "VV") BY <1>4, <1>8, SyncAsk
<1>9. CASE Ask("reboot", "RB") BY <1>4, <1>9, SyncAsk
<1> QED BY <1>1, <1>2, <1>3, <1>5, <1>6, <1>7, <1>8, <1>9 DEF Application

LEMMA SyncHost ==
  ASSUME TypeOK, KeepsUp, SyncInv, Host PROVE SyncInv'
<1>1. CASE SendSingle \/ CloseDone \/ ScipResponse \/ RebootDone
  BY <1>1, SyncSendSingle, SyncCloseDone, SyncScipResponse, SyncRebootDone
<1>2. CASE LaserOnDone \/ TimeStampModeDone \/ TimeStampDone \/ InfoDone \/ SleepDone
  BY <1>2, SyncAnswered
<1>3. CASE RdEcho \/ RdStatus \/ RdQt \/ RdAck \/ RdIo \/ RdStamp \/ RdData \/ RdCount
  BY <1>3, SyncRdEcho, SyncRdStatus, SyncRdQt, SyncRdAck, SyncRdIo, SyncRdStamp,
     SyncRdData, SyncRdCount
<1>4. CASE GetDone \/ StopLoop \/ StopDone \/ Drain
  BY <1>4, SyncGetDone, SyncStopLoop, SyncStopDone, SyncDrain
<1> QED BY <1>1, <1>2, <1>3, <1>4 DEF Host

LEMMA SyncNext ==
  ASSUME KeepsUp PROVE TypeOK /\ SyncInv /\ [Next]_vars => SyncInv'
<1> SUFFICES ASSUME TypeOK, SyncInv, [Next]_vars PROVE SyncInv' OBVIOUS
<1>1. CASE Application BY <1>1, SyncApplication
<1>2. CASE Host BY <1>2, SyncHost
<1>3. CASE Environment
  BY <1>3, SyncSensorReply, SyncSensorScan, SyncFault DEF Environment
<1>4. CASE UNCHANGED vars BY <1>4, SyncStutter
<1> QED BY <1>1, <1>2, <1>3, <1>4 DEF Next

LEMMA SyncInit == Init => SyncInv
<1> SUFFICES ASSUME Init PROVE SyncInv OBVIOUS
<1>1. Free BY DEF Init, Free, Quiet
<1>2. GetSucceeds BY DEF Init, GetSucceeds
<1>3. Place BY <1>1 DEF Init, Place
<1> QED BY <1>2, <1>3 DEF Init, SyncInv

(***************************************************************************)
(* What it gives.                                                          *)
(***************************************************************************)

\* An application that keeps up with the sensor: at every moment of every call,
\* what is on the wires is the rest of the message in hand, the scans under way
\* and the replies to QT still owed; nothing an earlier call left behind.
THEOREM InStep ==
  ASSUME KeepsUp PROVE Spec => []SyncInv
<1>1. TypeOK /\ SyncInv /\ [Next]_vars => SyncInv' BY SyncNext
<1> QED BY <1>1, SyncInit, TypeCorrect, PTL DEF Spec

\* scip_response of such an application always reads the answer to its own
\* command, never a reply to QT or a scan left behind by an earlier call.
THEOREM AnswersAreOwn ==
  ASSUME KeepsUp PROVE Spec => []AnswersMatch
<1>1. SyncInv => AnswersMatch
  <2> SUFFICES ASSUME SyncInv, pc = "xchg", xchg.line = 0, inbox # <<>>
               PROVE  inbox[1] = Echo(xchg.cmd)
    BY DEF AnswersMatch
  <2>1. Answering BY DEF SyncInv, Place
  <2>2. PICK s \in LineVals, x \in {Plain("stamp"), Plain("info")} :
          inbox \in {<<Echo(xchg.cmd), Status(s), Blank>>,
                     <<Echo(xchg.cmd), Status(s), x, Blank>>}
    BY <2>1 DEF Answering
  <2> QED BY <2>2
<1> QED BY <1>1, InStep, PTL

\* When urg_stop_measurement reports success to it, both directions of the
\* connection are empty and the sensor no longer measures: of the three reads it
\* grants itself, one meets the reply to its QT.
THEOREM StopIsSynced ==
  ASSUME KeepsUp PROVE Spec => []StopSynced
<1>1. SyncInv => StopSynced BY DEF SyncInv, Place, StopSynced, Free, Quiet
<1> QED BY <1>1, InStep, PTL

\* After the last scan of a counted measurement host and sensor agree that it is
\* over: the flags are down, nothing is left to be read, the laser is off.
THEOREM CountIsOut ==
  ASSUME KeepsUp PROVE Spec => []CountedOut
<1>1. SyncInv => CountedOut
  <2> SUFFICES ASSUME SyncInv, pc = "ready", is_active, op # "laser_on",
                      specified_scan_times > 1, scanning_remain_times = 0
               PROVE  ~is_sending /\ ~is_laser_on /\ inbox = <<>> /\ ~sensor.laser
    BY DEF CountedOut
  <2>1. Free \/ (frames = <<>> /\ Waiting) BY DEF SyncInv, Place
  <2>2. CASE Free BY <2>2 DEF Free, Quiet
  <2>3. CASE frames = <<>> /\ Waiting
    <3>1. ~Unread BY DEF Unread
    <3>2. ~InAck(1) /\ ~Between(0)
      <4>1. \A nm, k : ~Ongoing(nm, k) BY DEF Ongoing
      <4> QED BY <2>3, <4>1 DEF InAck, Between, Under
    <3> QED BY <2>3, <3>1, <3>2 DEF Waiting
  <2> QED BY <2>1, <2>2, <2>3
<1> QED BY <1>1, InStep, PTL

\* Each call that asks a running measurement for a scan gets one.
THEOREM GetsScan ==
  ASSUME KeepsUp PROVE Spec => []GetSucceeds
<1>1. SyncInv => GetSucceeds BY DEF SyncInv
<1> QED BY <1>1, InStep, PTL

\* And it is one of the measurement started last.
THEOREM ScanIsFresh ==
  ASSUME KeepsUp PROVE Spec => []FreshScan
<1>1. SyncInv => FreshScan BY DEF SyncInv, Place, FreshScan
<1> QED BY <1>1, InStep, PTL
=============================================================================
