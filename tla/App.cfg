\* One run of the program, each layer overriding up to two settings.
CONSTANTS
  MaxCalls = 3
  MaxOverlapping = 3
  None = None
  MaxPerLayer = 2
SPECIFICATION AppSpec
INVARIANTS MainTypeOK ServesReady CleanReturn
CHECK_DEADLOCK FALSE
