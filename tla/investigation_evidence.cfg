SPECIFICATION Spec
CONSTANTS
    Clients = {"one", "two"}
    I3xUp = TRUE
    MaxSamples = 1
    MaxGenerations <- MCMaxGenerations
    Kinds <- MCKinds
    Menu <- MCMenu
    Conclusions <- MCConclusions
    Task <- MCTask
    MaxCalls <- MCMaxCalls
INVARIANT EvidenceTypeOK
INVARIANT LadderMatchesTaxonomy
PROPERTY LoneCallsSucceed
PROPERTY AttributionIsFinal
PROPERTY NoLateConfirmation
PROPERTY RunsEnd
CHECK_DEADLOCK FALSE
