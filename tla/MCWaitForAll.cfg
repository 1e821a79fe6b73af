\* One worker, one caller, one task are enough to lose a wakeup.
SPECIFICATION Spec
CONSTANTS
  Workers = {w1}
  Callers = {c1}
  Tasks = {t1}
  NoTask = NoTask
  MaxCalls = 1
  MaxSpurious = 0
CHECK_DEADLOCK FALSE
PROPERTY WaitForAllReturns
