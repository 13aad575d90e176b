SPECIFICATION FairSpec
CONSTANTS
  Kinds <- Both
  MaxCancels = 2
INVARIANTS TypeOK ReleasedWhenClosed DeliveredIsOwned
PROPERTIES StartsAdmitted RevocationStops
CHECK_DEADLOCK FALSE
