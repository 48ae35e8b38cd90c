\* Five registrations of two functions.
SPECIFICATION Spec
CONSTANTS
  Handlers = {f, g}
  MaxRegistrations = 5
INVARIANTS
  TypeOK
  CalledInOrder
  SkipsOnlyForRemovals
PROPERTY RemovedIsNotCalled
\* Registrations are bounded, and a destroyed isolate gets no events.
CHECK_DEADLOCK FALSE
