CONSTANTS
    Size = 4
    Node <- MCNode
    NoNode = 0
    NoSave = NoSave
    NoApproval = NoApproval
    Output = {"", "a"}
    NoOutput = ""
    Workflows <- MCWorkflows
    MaxSessions = 2
SPECIFICATION DashboardSpec
CHECK_DEADLOCK FALSE
INVARIANTS
    DashboardTypeOK
    DecidedByRule
    NoFailureIsSwallowed
    AllDoneRuns
    CancellationHasCause
    PassedViewIsFinal
    PendingGateIsShown
PROPERTIES
    IsWorkflowRun
    RunReturns
