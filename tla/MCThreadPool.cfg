\* Two workers, two callers, two tasks.
SPECIFICATION Spec
CONSTANTS
  Workers = {w1, w2}
  Callers = {c1, c2}
  Tasks = {t1, t2}
  NoTask = NoTask
  MaxCalls = 2
  MaxSpurious = 1
\* The pool rests when it is idle, and for good when it is destroyed.
CHECK_DEADLOCK FALSE
INVARIANTS
  TypeOK
  TaskInOnePlace
  DestructorDrains
PROPERTIES
  WaitMeansDone
  ImplementsTaskPool
  TasksRunUnlessStranded
  DestructorReturns
