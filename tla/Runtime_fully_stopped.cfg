\* One caller, tasks that observe the signal: is Stopped "fully stopped"?
CONSTANTS
  Names = {n1, n2}
  MaxCalls = 2
  MaxStops = 1
  MaxOverlapping = 0
  NoTask = NoTask
  Obedient = {1, 2}
  Panicky = {}
SPECIFICATION Spec
INVARIANTS FullyStopped
CHECK_DEADLOCK FALSE
