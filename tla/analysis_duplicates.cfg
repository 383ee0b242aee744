SPECIFICATION Spec
CONSTANTS
    core = core
    edge = edge
    olt = olt
    w1 = w1
    w2 = w2
    w3 = w3
    NoSnapshot = NoSnapshot
    Workers = {w1, w2}
    Readers = {}
    Snapshots = {core}
    Unsupported = {}
    Yields <- MCOneYields
    MaxPk = 2
INVARIANT
    OneAnalysisPerSnapshot
CHECK_DEADLOCK FALSE
