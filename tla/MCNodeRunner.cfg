CONSTANTS
    Nodes <- MCNodes
    LineLimit = 2
    PipeSize = 2
    MaxOutput = 5
SPECIFICATION FairSpec
CHECK_DEADLOCK FALSE
INVARIANTS
    TypeOK
    OutputIsInOrder
    PassIsEarned
PROPERTIES
    RecordingIsOver
    RunnerReturns
