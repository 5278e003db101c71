\* Loads, unloads, reads and dispatches that overlap; the first plugin may fail.
CONSTANTS
  MaxCalls = 4
  Kind <- MCKind
  Failing = {1}
  Names = {n1, n2}
  None = None
SPECIFICATION Spec
INVARIANTS TypeOK RegistryExact DispatchComplete
PROPERTIES CallsReturn
CHECK_DEADLOCK FALSE
