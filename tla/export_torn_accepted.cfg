SPECIFICATION ExportSpec
CONSTANTS
    RunIds = {1, 2, 3, 4}
    Invokers <- One
    Campaigns = {"pilot", "pilot-2", "mixed"}
    Plan <- MCPlan
    Matches <- MCMatches
    Foreign = {4}
    Modes <- AllModes
    MaxStarts = 2
    Bank = {"a", "b"}
    TargetQuestions = 2
    TargetRepetitions = 1
    QuestionOf <- MCQuestionOf
    RepetitionOf <- MCRepetitionOf
    InstanceOf <- MCInstanceOf
INVARIANT AcceptedExportIsWhole
CHECK_DEADLOCK FALSE
