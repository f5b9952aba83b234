SPECIFICATION Spec
CONSTANTS
  ServerStart = 100
  MaxObjects = 50
  NULL = NULL
  Display = Display
  MaxCreated = 3
  MaxInFlight = 2
  ServerDestroys <- CallbackOnly
  OfferFrom <- AnyObject
CHECK_DEADLOCK FALSE
INVARIANT EatenEventsAreHarmless
