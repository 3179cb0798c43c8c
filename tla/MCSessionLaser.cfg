\* Calls in any order on a faulty cable, with late answers.
SPECIFICATION FairSpec
CONSTANTS
  Calls = {"start", "get", "stop", "reboot", "close"}
  ScanTimes = {0, 1, 2}
  IgnoreChoices = {1}
  IoChoices = {FALSE}
  DataLines = 1
  Careful = FALSE
  Prompt = FALSE
  FaultKinds = {"garble", "lose", "break"}
  MaxStarts = 1
  MaxPending = 6
  MaxBacklog = 0
  MaxLate = 1
  MaxFaults = 1
INVARIANTS LaserCovered ClosedIsDark
PROPERTIES CallsReturn CloseDarkens
