CONSTANTS
    MaxRev = 1
    MaxFails = 0
    MaxCrashes = 1
    MaxToggles = 1
SPECIFICATION Spec
INVARIANTS DisabledAccountStops
CHECK_DEADLOCK FALSE
