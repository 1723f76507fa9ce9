CONSTANTS
    f1 = f1
    f2 = f2
    File = {f1, f2}
    Statements <- MCStatements
    Committed = {"absent", "link", "banned"}
    Unknown = Unknown
    Blank = Blank
    Names <- MCNames
    Scale = 1000
    Thresholds <- MCThresholds
    Precision = 100
    MaxEdits = 2
SPECIFICATION Spec
CHECK_DEADLOCK FALSE
INVARIANTS
    StagedTermsAreFound
    RejectionHasCause
    FloorIsKept
