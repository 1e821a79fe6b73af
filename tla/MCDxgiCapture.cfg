\* Two callers, the retry limit of the code, three calls.
SPECIFICATION Spec
CONSTANTS
  Callers = {c1, c2}
  kMaxConsecutiveFailures = 3
  MaxCalls = 3
\* The capture is at rest when nobody may call any more.
CHECK_DEADLOCK FALSE
INVARIANTS
  TypeOK
  RunningMeansCapturing
  LoopsOverlapOnlyInStart
  OneRebuilder
  UninitReleasesAlone
  RecoveryLostOnlyByStop
PROPERTIES
  TearDownComplete
  CallsReturn
