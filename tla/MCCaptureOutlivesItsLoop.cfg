\* shutdown() while the capture thread runs.
SPECIFICATION Spec
CONSTANTS
  Clients = {b1, b2}
  NoClient = NoClient
  MaxMessages = 1
  MaxCalls = 3
  ListenFails = FALSE
CHECK_DEADLOCK FALSE
INVARIANT CaptureOutlivesItsLoop
