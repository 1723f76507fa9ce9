CONSTANTS
    Run = {r1, r2}
    RunIds <- MCRunIds
    NodeCount = 2
    MaxSessions = 3
SPECIFICATION Spec
CHECK_DEADLOCK FALSE
INVARIANTS
    WorktreeIsPrivate
    NothingLeaks
