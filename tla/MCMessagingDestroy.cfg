\* An isolate is destroyed while a request of its is being handled.
SPECIFICATION Spec
CONSTANTS
  Isolates = {w1, w2}
  Handlers = {"resolves"}
  MaxMessages = 2
PROPERTY DestroyIsHarmless
CHECK_DEADLOCK FALSE
