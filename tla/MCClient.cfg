CONSTANTS
  t1 = t1
  t2 = t2
  t3 = t3
  q1 = q1
  q2 = q2
  q3 = q3
  NULL = NULL
  Threads = {t1, t2, t3}
  Queues = {q1, q2, q3}
  Interfaces <- MCInterfaces
  Scenarios <- MCScenarios
  ServerStart = 10
  MaxObjects = 6
  ByteRange = 4
  WL_CLOSURE_MAX_ARGS = 20
  Extends = {}
  RingWords = 8
  RingRange = 16
  MAX_FDS_OUT = 3
  SocketWords = 7
SPECIFICATION MCSpec
INVARIANTS NoFdLost OnlyRealErrors ScannedCodeAgrees
PROPERTIES  ImplementsReadTurns RoundtripsReturn
