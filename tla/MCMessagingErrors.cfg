\* A request handler that throws before it returns a promise, or rejects with an error
\* that has no message.
SPECIFICATION Spec
CONSTANTS
  Isolates = {w1, w2}
  Handlers = {"rejectsBlank", "throws"}
  MaxMessages = 2
PROPERTY ErrorIsSentBack
CHECK_DEADLOCK FALSE
