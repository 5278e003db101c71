\* Every discipline.
CONSTANTS
  MaxCalls = 5
  MaxOverlapping = 4
  None = None
SPECIFICATION Spec
INVARIANTS TypeOK FlagsConsistent
PROPERTIES ImplementsSession ListenersEnd
CHECK_DEADLOCK FALSE
