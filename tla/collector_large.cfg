SPECIFICATION Spec
CONSTANTS
    lan = lan
    wan = wan
    ip1 = ip1
    ip2 = ip2
    core = core
    NoName = NoName
    NoIp = NoIp
    Procs = {p1}
    Subnets = {lan, wan}
    Large = {wan}
    Hosts <- MCHosts
    Ips = {ip1, ip2}
    SysName <- MCSysName
    Manual = {}
    Forms = {}
    MaxRuns = 1
    MaxDevices = 3
INVARIANT
    ProfileScanned
CHECK_DEADLOCK FALSE
