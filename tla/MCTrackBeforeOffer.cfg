\* A browser that offers again after its connection was interrupted.
SPECIFICATION Spec
CONSTANTS
  Clients = {b1}
  NoClient = NoClient
  MaxMessages = 2
  MaxCalls = 3
  ListenFails = FALSE
CHECK_DEADLOCK FALSE
PROPERTY TrackBeforeOffer
