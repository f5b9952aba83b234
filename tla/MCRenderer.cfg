SPECIFICATION Spec
CONSTANTS
  Surfaces = {s1, s2}
  Buffers = {b1, b2}
  NULL = NULL
  MaxAttach = 2
  MaxQueue = 2
  CanClose = TRUE
CHECK_DEADLOCK FALSE
SYMMETRY Symmetry
INVARIANTS TexturesFollowSurfaces AnswerStillHolds
