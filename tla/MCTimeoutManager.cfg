\* Every ordinary behaviour: two isolates, three executions, one stop.
SPECIFICATION Spec
CONSTANTS
  Isolates = {i1, i2}
  Durations = {1}
  MaxExecutions = 3
  MaxTime = 3
  MaxStops = 1
INVARIANTS
  TypeOK
  NoMissedWakeup
  NoCallDuringAnotherScript
  ServesEarliestFirst
PROPERTIES
  HungExecutionTerminated
  ImplementsContract
\* Every thread may end up asleep or stopped with the bounds used up.
CHECK_DEADLOCK FALSE
