SPECIFICATION Spec
CONSTANTS
    RunIds = {1, 2, 3, 4, 5}
    Invokers <- One
    Campaigns = {"pilot-2"}
    Plan <- MCPlan
    Matches <- MCMatches
    Foreign = {5}
    Modes <- NoForce
    MaxStarts = 2
INVARIANT CompletedRunsAreEvaluated
CHECK_DEADLOCK FALSE
