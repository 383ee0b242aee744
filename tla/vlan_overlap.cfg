SPECIFICATION Spec
CONSTANTS
    p1 = p1
    p2 = p2
    Procs = {p1, p2}
    Devices = {1, 2}
    Names = {1, 2, 3, 4}
    Trunk = 3
    Short <- MCShort
    Interfaces <- MCInterfaces
    Config <- MCOverlapConfig
    Defined <- MCOverlapDefined
    Adjacent <- MCAdjacent
    Described = {}
    Reports = {}
    Pairs = {}
    MaxRuns = 3
SYMMETRY MCSymmetry
INVARIANTS
    PathsAreReal
    SettledSession
CHECK_DEADLOCK FALSE
