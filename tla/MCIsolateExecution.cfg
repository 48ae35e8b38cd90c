\* Three executions on one isolate, without a limit or with one.
SPECIFICATION Spec
CONSTANTS
  TimeoutsMs = {0, 1}
  MaxExecutions = 3
  MaxMessages = 2
  MaxTime = 3
INVARIANTS
  TypeOK
  OnlyDeadlinesEndTheMessageLoop
  TerminationsAreAccountedFor
PROPERTIES
  ImplementsIsolateLife
  HungScriptIsInterrupted
  ResultIsFollowedByExit
  MessagesAreTaken
\* Calls and messages are bounded; without a limit a script may never end.
CHECK_DEADLOCK FALSE
