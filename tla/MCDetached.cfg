CONSTANTS
    Run = {r1, r2}
    RunId = {i1}
    NoPid = NoPid
    Absent = Absent
    LoadMayFail = TRUE
SPECIFICATION FairSpec
CHECK_DEADLOCK FALSE
INVARIANTS
    StartedRunIsVisible
    ResultsAreReturned
PROPERTIES
    EndIsReported
