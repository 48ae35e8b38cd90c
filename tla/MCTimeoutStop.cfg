\* One script and one call of stop.
SPECIFICATION Spec
CONSTANTS
  Isolates = {i1}
  Durations = {1}
  MaxExecutions = 1
  MaxTime = 2
  MaxStops = 1
PROPERTY StopStopsManager
CHECK_DEADLOCK FALSE
