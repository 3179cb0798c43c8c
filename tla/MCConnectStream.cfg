\* A sensor that is measuring and leaves no gap.
SPECIFICATION FairSpec
CONSTANTS
  Types = {"URG_SERIAL"}
  Baudrates = {115200}
  SensorRates = {115200}
  Modes = {"idle", "measure"}
  PpBodies = {"all"}
  Gaps = {FALSE}
  MaxPending = 3
  MaxMishaps = 0
PROPERTY MeasuringIsSkipped
