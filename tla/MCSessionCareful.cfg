\* A careful application, a prompt sensor, a cable without faults.
SPECIFICATION Spec
CONSTANTS
  Calls <- Functions
  ScanTimes = {0, 1, 2, 3, 100}
  IgnoreChoices = {0, 1}
  IoChoices = {FALSE, TRUE}
  DataLines = 1
  Careful = TRUE
  Prompt = TRUE
  FaultKinds = {}
  MaxStarts = 2
  MaxPending = 14
  MaxBacklog = 0
  MaxLate = 0
  MaxFaults = 0
INVARIANTS TypeOK StopSynced CountedOut GetSucceeds FreshScan AnswersMatch
