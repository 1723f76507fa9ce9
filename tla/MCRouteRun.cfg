CONSTANTS
    Size = 4
    Node <- MCNode
    NoNode = 0
    Output = {"", "a"}
    NoOutput = ""
    NewText = "new"
    Workflows <- MCWorkflows
    MaxSessions = 3
    CounterBound = 3
SPECIFICATION FairSpec
CHECK_DEADLOCK FALSE
INVARIANTS
    GatesAreReviewed
    PauseIsApprovable
    SettledByRule
    RoutesStayCapped
    StateFileFollowsRun
    ExecutionsArePaidFor
PROPERTIES
    ApprovalIsHonoured
    IsWorkflowRun
    CappedSessionsEnd
