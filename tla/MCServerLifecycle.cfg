\* One browser, and an owner that stops, restarts, shuts down and initialises again.
SPECIFICATION Spec
CONSTANTS
  Clients = {b1}
  NoClient = NoClient
  MaxMessages = 1
  MaxCalls = 5
  ListenFails = TRUE
\* The bounds on messages and calls end every behaviour.
CHECK_DEADLOCK FALSE
INVARIANTS
  FaultsNeedTearDown
  ServicesTogether
PROPERTIES
  HandlersReturn
  CallsReturn
