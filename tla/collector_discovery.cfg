SPECIFICATION Spec
CONSTANTS
    lan = lan
    wan = wan
    ip1 = ip1
    ip2 = ip2
    core = core
    NoName = NoName
    NoIp = NoIp
    Procs = {p1, p2}
    Subnets = {lan, wan}
    Large = {}
    Hosts <- MCHosts
    Ips = {ip1, ip2}
    SysName <- MCSysName
    Manual = {}
    Forms <- MCForms
    MaxRuns = 2
    MaxDevices = 3
SYMMETRY MCSymmetry
INVARIANTS
    TypeOK
    OneDevicePerIp
    RunTellsItsTasks
    ArchiveMatchesTasks
    ProfileScanned
CHECK_DEADLOCK FALSE
