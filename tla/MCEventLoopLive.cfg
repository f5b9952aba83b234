CONSTANTS
  FdSources = {f1}
  Timers = {t1, t2}
  IdleTasks = {i1}
  Checkable = {}
  MaxTime = 3
  MaxEvents = 1
  MaxInputs = 2
  NoSource = NoSource
SPECIFICATION FairSpec
PROPERTIES
  ArmedTimerFires
  IdleTaskRuns
  ReadableDispatched
