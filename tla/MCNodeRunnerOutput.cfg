CONSTANTS
    Nodes <- MCNodes
    LineLimit = 2
    PipeSize = 1
    MaxOutput = 3
SPECIFICATION Spec
CHECK_DEADLOCK FALSE
INVARIANT
    OutputIsComplete
