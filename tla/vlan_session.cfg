SPECIFICATION Spec
CONSTANTS
    p1 = p1
    p2 = p2
    Procs = {p1}
    Devices = {1, 2}
    Names = {1, 2, 3, 4}
    Trunk = 3
    Short <- MCShort
    Interfaces <- MCInterfaces
    Config <- MCConfig
    Defined <- MCDefined
    Adjacent <- MCAdjacent
    Described <- MCDescribed
    Reports <- MCReports
    Pairs <- MCPairs
    MaxRuns = 3
INVARIANTS
    TypeOK
    SettledSession
PROPERTY
    ManualLinksStay
CHECK_DEADLOCK FALSE
