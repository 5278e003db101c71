\* Both stores, calls that overlap: is the latest write after the first?
CONSTANTS
  MaxCalls = 3
  MaxTime = 2
  Namespaces <- MCNamespaces
  Keys <- MCKeys
  Values = {v1, v2}
  Sep = "0"
  None = None
SPECIFICATION Spec
INVARIANTS TimesInOrder
CHECK_DEADLOCK FALSE
