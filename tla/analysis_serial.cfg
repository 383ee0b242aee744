SPECIFICATION Spec
CONSTANTS
    core = core
    edge = edge
    olt = olt
    w1 = w1
    w2 = w2
    w3 = w3
    NoSnapshot = NoSnapshot
    Workers = {w1}
    Readers = {}
    Snapshots = {core, edge, olt}
    Unsupported = {olt}
    Yields <- MCYields
    MaxPk = 4
PROPERTY
    ReplacesExactly
CHECK_DEADLOCK FALSE
