\* Two threads, one session, two displays, three calls.
SPECIFICATION Spec
CONSTANTS
  Peers = {host, viewer}
  Host = host
  MaxResets = 1
  Threads = {t1, t2}
  Sessions = {s1}
  MaxDisplays = 2
  MaxCalls = 3
  MaxChanges = 1
\* The controller rests between calls; hung threads stop it for good.
CHECK_DEADLOCK FALSE
INVARIANTS
  SessionSwitchesInOrder
  EmptyOnlyAfterChange
  ReadyMeansAgreed
PROPERTIES
  CallsReturn
  OfferSettles
