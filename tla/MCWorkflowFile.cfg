CONSTANTS
    Id <- MCId
    NoId = 0
    Files <- MCFiles
    Half = 128
    Milli = 10
SPECIFICATION Spec
CHECK_DEADLOCK FALSE
INVARIANTS
    TypeOK
    VerdictIsRight
    NoEntryIsLost
    RepairOfAncestorRuns
    OnlyOddTimeoutsExpire
