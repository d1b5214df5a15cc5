CONSTANTS
    MaxRev = 2
    MaxFails = 0
    MaxCrashes = 1
    MaxToggles = 1
SPECIFICATION Spec
INVARIANTS InterruptedIsFailed
CHECK_DEADLOCK FALSE
