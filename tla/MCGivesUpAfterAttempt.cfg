\* A counterexample to GivesUpAfterAttempt needs one caller and one start().
SPECIFICATION Spec
CONSTANTS
  Callers = {c1}
  kMaxConsecutiveFailures = 3
  MaxCalls = 1
CHECK_DEADLOCK FALSE
PROPERTIES
  GivesUpAfterAttempt
