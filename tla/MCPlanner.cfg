CONSTANTS
    n1 = n1
    n2 = n2
    n3 = n3
    n4 = n4
    Node <- MCNode
    MaxDeps = 2
SPECIFICATION Spec
SYMMETRY NodeSymmetry
CHECK_DEADLOCK FALSE
INVARIANTS
    LayersRespectDependencies
    LayersAreEarliest
    VerdictIsExact
