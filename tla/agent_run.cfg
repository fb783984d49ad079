SPECIFICATION FairSpec
CONSTANTS
    Targets = {"reactor_pressure"}
    ToolNames = {"get_current_value", "browse_uns", "submit_investigation"}
    Submit = "submit_investigation"
    None = None
    ToolCalls <- MCToolCalls
    Budgets <- MCBudgets
    Grants <- MCGrants
    Usages = {0, 2}
    MaxTurn = 2
    MaxClock = 2
INVARIANT TypeOK
INVARIANT TurnsAnswered
INVARIANT TraceTellsAnswers
INVARIANT OnlyGrantedTools
INVARIANT BudgetsHold
INVARIANT UsageAccounted
INVARIANT ResultTellsAnswers
INVARIANT RecordTellsRun
PROPERTY EveryRunRecorded
