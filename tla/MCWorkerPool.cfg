\* Two threads, three isolates (so that two share a thread), scripts and one
\* shutdown at any moment; the main isolate destroys what it creates.
SPECIFICATION SpecReleasing
CONSTANTS
  RequestedThreads = 2
  Limited = TRUE
  MaxIsolates = 3
  MaxScripts = 2
  MaxShutdowns = 1
INVARIANTS
  TypeOK
  KnownIsolatesAreLive
  NoIsolateLeaks
  NeverNotFound
  PendingCallsAreHeld
  ScriptsInOrder
PROPERTIES
  CallsComplete
  ShutdownStopsThreads
  ImplementsIsolateLife
\* The main isolate may stop calling, and every thread may exit.
CHECK_DEADLOCK FALSE
