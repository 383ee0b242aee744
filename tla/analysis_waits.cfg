SPECIFICATION FairSpec
CONSTANTS
    core = core
    edge = edge
    olt = olt
    w1 = w1
    w2 = w2
    w3 = w3
    NoSnapshot = NoSnapshot
    Workers = {w1, w2}
    Readers = {r1}
    Snapshots = {edge, olt}
    Unsupported = {}
    Yields <- MCPairYields
    MaxPk = 3
INVARIANT
    StatusFaithful
PROPERTIES
    RequestsFinish
    PublishesWhole
CHECK_DEADLOCK FALSE
