\* Two threads, two displays, one client, seven calls.
SPECIFICATION Spec
CONSTANTS
  Threads = {t1, t2}
  Clients = {c1}
  Displays = {d1, d2}
  MaxCalls = 7
  ListenFails = TRUE
\* The session rests between calls, and is destroyed in the end.
CHECK_DEADLOCK FALSE
INVARIANTS
  AnonymousOnlyAfterError
  StoppedMeansSilent
PROPERTIES
  CallsReturn
