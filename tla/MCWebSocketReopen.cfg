\* One socket that is closed while it connects.
SPECIFICATION Spec
CONSTANTS
  Sockets = {s1}
  MaxSends = 1
  MaxMessages = 1
PROPERTY ClosingIsFinal
CHECK_DEADLOCK FALSE
