\* A caller who may be refused a measurement while his laser is lit for nothing;
\* nothing is lost and no cable is pulled.
SPECIFICATION ProgramSpec
CONSTANTS
  Calls <- Functions
  ScanTimes = {0, 1}
  IgnoreChoices = {0, 1}
  IoChoices = {TRUE, FALSE}
  DataLines = 1
  Careful = FALSE
  Prompt = TRUE
  FaultKinds = {}
  MaxStarts = 2
  MaxPending = 20
  MaxBacklog = 0
  MaxLate = 0
  MaxFaults = 0
  Devices = {"UTM", "UST"}
  AverageTimes = 2
  Running = {"caller"}
  CaptureTimes = 2
  CallerTypes = {"Distance", "Multiecho"}
  Heedless = TRUE
  MaxMethods = 5
  MaxUnread = 14
  CallerMethods <- Repertoire
INVARIANT DriverClosesDark
CHECK_DEADLOCK FALSE
