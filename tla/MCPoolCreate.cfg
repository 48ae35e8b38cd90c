\* A second isolate on the thread of one whose script has ended.
SPECIFICATION Spec
CONSTANTS
  RequestedThreads = 1
  Limited = FALSE
  MaxIsolates = 2
  MaxScripts = 1
  MaxShutdowns = 0
PROPERTY CreateResolves
CHECK_DEADLOCK FALSE
