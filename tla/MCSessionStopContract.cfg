\* An application that lags three scans behind when it stops the measurement.
SPECIFICATION Spec
CONSTANTS
  Calls <- Measuring
  ScanTimes = {0}
  IgnoreChoices = {1}
  IoChoices = {FALSE}
  DataLines = 1
  Careful = TRUE
  Prompt = TRUE
  FaultKinds = {}
  MaxStarts = 1
  MaxPending = 18
  MaxBacklog = 0
  MaxLate = 0
  MaxFaults = 0
INVARIANT StopContract
