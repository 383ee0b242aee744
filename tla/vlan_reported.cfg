SPECIFICATION Spec
CONSTANTS
    p1 = p1
    p2 = p2
    Procs = {p1}
    Devices = {1, 2}
    Names = {1, 2, 3, 4}
    Trunk = 2
    Short <- MCShort
    Interfaces <- MCInterfaces
    Config <- MCConfig
    Defined <- MCDefined
    Adjacent = {}
    Described = {}
    Reports <- MCLldpReports
    Pairs = {}
    MaxRuns = 2
INVARIANT
    ReportedLinksCarry
CHECK_DEADLOCK FALSE
