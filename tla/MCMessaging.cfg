\* Two workers that send three messages, events and requests, with handlers of
\* every kind but the one whose error has no message.
SPECIFICATION Spec
CONSTANTS
  Isolates = {w1, w2}
  Handlers = {"resolves", "rejects", "rejectsNull", "throws", "missing"}
  MaxMessages = 3
INVARIANTS
  TypeOK
  InOrderWithoutLoss
  AnswersMatch
  RequestsAreConserved
PROPERTIES
  RequestsAnswered
  DestroyedIsReported
  ImplementsRequestLife
\* The workers' messages are bounded, and the process may end.
CHECK_DEADLOCK FALSE
