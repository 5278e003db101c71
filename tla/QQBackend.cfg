\* Every discipline, with and without credentials.
CONSTANTS
  MaxCalls = 5
  MaxOverlapping = 3
  None = None
SPECIFICATION Spec
INVARIANTS TypeOK FlagsHonest
PROPERTIES ImplementsSession CallsAndListenersEnd
CHECK_DEADLOCK FALSE
