SPECIFICATION Spec
CONSTANTS
    RunIds = {1, 2, 3, 4, 5}
    Invokers <- Two
    Campaigns = {"pilot", "pilot-2", "mixed"}
    Plan <- MCPlan
    Matches <- MCMatches
    Foreign = {4}
    Modes <- NoForce
    MaxStarts = 3
INVARIANTS ArtefactsPaired ManifestNamesOnlyRecords
PROPERTY ImplementsLedger
CHECK_DEADLOCK FALSE
