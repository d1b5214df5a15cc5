CONSTANTS
    MaxRev = 3
    MaxFails = 0
    MaxCrashes = 0
    MaxToggles = 0
SPECIFICATION Spec
INVARIANTS DevelopmentAppliesOnce
CHECK_DEADLOCK FALSE
