\* One execution with a limit, and a message.
SPECIFICATION Spec
CONSTANTS
  TimeoutsMs = {2}
  MaxExecutions = 1
  MaxMessages = 1
  MaxTime = 3
INVARIANT TerminatedOverCpuLimit
CHECK_DEADLOCK FALSE
