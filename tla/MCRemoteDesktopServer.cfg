\* Two browsers against the server, over initialize, start and one more call.
SPECIFICATION Spec
CONSTANTS
  Clients = {b1, b2}
  NoClient = NoClient
  MaxMessages = 1
  MaxCalls = 3
  ListenFails = FALSE
SYMMETRY Symmetry
\* The bounds on messages and calls end every behaviour.
CHECK_DEADLOCK FALSE
INVARIANTS
  TypeOK
  AnswersMatchOffers
  DepartedAreForgotten
  CountIsExact
  OnlyKnownDeadlocks
PROPERTIES
  ImplementsService
