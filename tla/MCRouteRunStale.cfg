CONSTANTS
    Size = 4
    Node <- MCNode
    NoNode = 0
    Output = {"", "a", "b"}
    NoOutput = ""
    NewText = "new"
    Workflows <- MCWorkflows
    CounterBound = 3
    MaxSessions = 2
SPECIFICATION FairSpec
CHECK_DEADLOCK FALSE
PROPERTIES
    InvalidatedWorkReruns
