CONSTANTS
    Size = 4
    Node <- MCNode
    NoNode = 0
    NoSave = NoSave
    NoApproval = NoApproval
    Output = {"", "a"}
    NoOutput = ""
    Workflows <- MCWorkflows
    MaxSessions = 1
SPECIFICATION DashboardSpec
CHECK_DEADLOCK FALSE
PROPERTIES
    RecordSurvives
