SPECIFICATION Spec
CONSTANTS
  ServerStart = 100
  MaxObjects = 50
  NULL = NULL
  Display = Display
  MaxCreated = 3
  MaxInFlight = 1
  ServerDestroys <- CallbackOrPlain
  OfferFrom <- AnyObject
CHECK_DEADLOCK FALSE
INVARIANTS MapsSound  MessagesReachTheirObject
  DeleteIdMeetsItsObject  IdsComeBack
