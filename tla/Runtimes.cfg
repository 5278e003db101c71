\* Runtime: three registrations under two names and two shutdowns, by one
\* caller, or two registrations that overlap with them; tasks 1 and 2 observe
\* the signal, 2 may panic, 3 ignores the signal.
\* DesktopRuntime: two tasks, a bus that overwrites its third event back.
CONSTANTS
  Names = {n1, n2}
  MaxCalls = 3
  MaxStops = 2
  MaxOverlapping = 2
  NoTask = NoTask
  Obedient = {1, 2}
  Panicky = {2}
  Capacity = 2
  MaxEvents = 4
  MaxStarts = 2
  None = None
SPECIFICATION EitherSpec
INVARIANTS TypeOK HandleAccounting OkMeansJoined SerialStopIsClean DesktopTypeOK CountsOnce
PROPERTIES ShutdownReturns StopReturns
CHECK_DEADLOCK FALSE
