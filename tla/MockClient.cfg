\* Any calls that overlap, and the backend's lifecycle calls beside traffic.
CONSTANTS
  MaxCalls = 4
  MaxOverlapping = 3
  None = None
SPECIFICATION Spec
INVARIANTS TypeOK SessionHonest
PROPERTIES ImplementsSession CallsReturn
CHECK_DEADLOCK FALSE
