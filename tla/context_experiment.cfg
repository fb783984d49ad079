SPECIFICATION ExperimentSpec
CONSTANTS
    Tasks <- MCTasks
    UseCases <- MCUseCases
    Scenarios <- MCScenarios
    Splits <- MCSplits
    NamesUnder <- MCNamesUnder
    Configs <- MCConfigs
    Scores = {0, 2}
    Threshold = 1
    MaxStarts = 2
INVARIANT ExperimentTypeOK
INVARIANT ResolutionsAreBest
INVARIANT ReplayIsExact
INVARIANT NoArmTwice
INVARIANT AggregateIsArchive
PROPERTY FailuresConcludeNothing
CHECK_DEADLOCK FALSE
