SPECIFICATION Spec
CONSTANTS
    core = core
    edge = edge
    olt = olt
    w1 = w1
    w2 = w2
    w3 = w3
    NoSnapshot = NoSnapshot
    Workers = {w1, w2, w3}
    Readers = {r1}
    Snapshots = {core}
    Unsupported = {}
    Yields <- MCOneYields
    MaxPk = 5
SYMMETRY MCSymmetry
INVARIANTS
    TypeOK
    DetectionsBacked
    CompleteAnalysis
    StatusFaithful
CHECK_DEADLOCK FALSE
