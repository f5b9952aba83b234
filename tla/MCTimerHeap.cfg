CONSTANTS
  Timers = {t1, t2, t3, t4, t5, t6}
  MaxTime = 3
  FirstSpace = 1
  NULL = NULL
SPECIFICATION Spec
SYMMETRY Symmetry
CHECK_DEADLOCK FALSE
INVARIANTS
  HeapSound
PROPERTIES
  ImplementsQueue
