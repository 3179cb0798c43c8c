\* New parameters while the scan read last is still being looked at.
SPECIFICATION Spec
CONSTANTS
  first_data_index = 1
  last_data_index = 3
  front_data_index = 2
  LineChars = 8
  Areas <- SomeAreas
  MeasuredTypes = {"distance"}
  MaxComing = 2
  MaxFaults = 0
INVARIANT IndexIsLastScan
