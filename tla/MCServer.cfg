CONSTANTS
  c1 = c1
  c2 = c2
  c3 = c3
  Clients = {c1, c2, c3}
  n1 = n1
  n2 = n2
  NULL = NULL
  Servers = {s1, s2}
  NoFile = NoFile
  Paths = {n1, n2}
  Tries <- MCTries
  Scenarios <- MCScenarios
  MaxId = 4
  OutSpace = 4
SPECIFICATION MCSpec
CHECK_DEADLOCK FALSE
INVARIANTS NothingUsedAfterFree ListenersToldOnce RegistriesAgree ErrorIsLastWord HonestClientsSurvive NamesAreSafe
PROPERTIES TerminatedRunReturns StalledClientsResume
