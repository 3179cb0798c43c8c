\* Scans of one and of several echoes, read from lines cut at every place.
SPECIFICATION Spec
CONSTANTS
  first_data_index = 1
  last_data_index = 3
  front_data_index = 2
  LineChars = 8
  Areas <- SomeAreas
  MeasuredTypes = {"distance", "intensity", "multiecho_intensity"}
  MaxComing = 2
  MaxFaults = 1
INVARIANTS TypeOK LinesFit InBounds PointsInPlace IndexWithoutRegrouping StepsFindPoints
