CONSTANTS
  FdSources = {f1, f2}
  Timers = {t1}
  IdleTasks = {i1}
  Checkable = {f1, f2}
  MaxTime = 2
  MaxEvents = 1
  MaxInputs = 3
  NoSource = NoSource
SPECIFICATION Spec
CHECK_DEADLOCK FALSE
PROPERTIES
  RemovedNeverCalled
