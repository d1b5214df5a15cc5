CONSTANTS
  NamedFirst = FALSE
  MaxWrites = 1
  MaxFails = 0
  MaxCrashes = 0
  None = None
SPECIFICATION Spec
INVARIANTS SplitRetainsStorage
CHECK_DEADLOCK FALSE
