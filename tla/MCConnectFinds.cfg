\* A sensor at any rate and in any mode.
SPECIFICATION FairSpec
CONSTANTS
  Types <- BothTypes
  Baudrates = {19200, 38400, 115200, 250000}
  SensorRates = {19200, 38400, 57600, 115200}
  Modes <- AllModes
  PpBodies = {"all", "some"}
  Gaps = {TRUE, FALSE}
  MaxPending = 3
  MaxMishaps = 1
INVARIANTS TypeOK OpenSynced FindsSensor
PROPERTY OpenReturns
