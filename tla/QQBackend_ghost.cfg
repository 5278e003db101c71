\* Two overlapping calls.
CONSTANTS
  MaxCalls = 2
  MaxOverlapping = 2
  None = None
SPECIFICATION Spec
INVARIANTS NoGhostConnection
CHECK_DEADLOCK FALSE
