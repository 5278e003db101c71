\* Both stores, calls that overlap.
CONSTANTS
  MaxCalls = 3
  MaxTime = 2
  Namespaces <- MCNamespaces
  Keys <- MCKeys
  Values = {v1, v2}
  Sep = "0"
  None = None
SPECIFICATION Spec
INVARIANTS TypeOK ViewsAgree
PROPERTIES ImplementsMap
CHECK_DEADLOCK FALSE
