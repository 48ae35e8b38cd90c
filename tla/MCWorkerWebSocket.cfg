\* Two sockets, one send and two messages.
SPECIFICATION Spec
CONSTANTS
  Sockets = {s1, s2}
  MaxSends = 1
  MaxMessages = 2
INVARIANTS
  TypeOK
  OpenIsConnected
  ClosedLeavesNoConnection
  MessagesHeardInOrder
  SendsArrive
PROPERTY CloseCompletes
\* The user may be done with all sockets.
CHECK_DEADLOCK FALSE
