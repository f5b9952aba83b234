SPECIFICATION FairSpec
CONSTANTS
  Surfaces = {s1}
  Buffers = {b1}
  NULL = NULL
  MaxAttach = 2
  MaxQueue = 2
  CanClose = FALSE
CHECK_DEADLOCK FALSE
PROPERTIES WaitReturns CommitIsDrawn
