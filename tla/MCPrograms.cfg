\* The samples and a caller with his own plan, on the driver and the session;
\* the cable may be pulled once.
SPECIFICATION ProgramSpec
CONSTANTS
  Calls <- Functions
  ScanTimes = {0, 1}
  IgnoreChoices = {0, 1}
  IoChoices = {TRUE, FALSE}
  DataLines = 1
  Careful = FALSE
  Prompt = TRUE
  FaultKinds = {"break", "lose"}
  MaxStarts = 2
  MaxPending = 20
  MaxBacklog = 0
  MaxLate = 0
  MaxFaults = 1
  Devices = {"UTM", "UST"}
  AverageTimes = 2
  Running <- Everyone
  CaptureTimes = 2
  CallerTypes = {"Distance", "Multiecho"}
  Heedless = FALSE
  MaxMethods = 5
  MaxUnread = 14
  CallerMethods <- Repertoire
INVARIANTS BuffersMatch  TextsAreCurrent OffsetMeasured DarkAtExit ZeroMeansAll OwnAnswers DriverClosesDark
PROPERTIES SamplesEnd
CHECK_DEADLOCK FALSE
