CONSTANTS
  FdSources = {f1, f2}
  Timers = {t1, t2}
  IdleTasks = {i1}
  Checkable = {f1, f2}
  MaxTime = 3
  MaxEvents = 2
  MaxInputs = 3
  NoSource = NoSource
SPECIFICATION Spec
SYMMETRY Symmetry
CHECK_DEADLOCK FALSE
INVARIANTS NothingInUseIsFreed OnlyLiveIsLinked TimerfdCovers TimerfdClearedWhenIdle
PROPERTIES RemovedNotDispatched DrainedOnReturn
