CONSTANTS
    MaxRev = 3
    MaxFails = 2
    MaxCrashes = 1
    MaxToggles = 1
SPECIFICATION Spec
INVARIANTS McpAppliesOnce ReportedIsDone StoppedStaysStopped ContainerIsKept
INVARIANTS RepeatedAfterTwo CalmPassSettles
CONSTRAINT FewDisturbances
CHECK_DEADLOCK FALSE
