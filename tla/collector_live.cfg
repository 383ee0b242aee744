SPECIFICATION FairSpec
CONSTANTS
    lan = lan
    wan = wan
    ip1 = ip1
    ip2 = ip2
    core = core
    NoName = NoName
    NoIp = NoIp
    Procs = {p1}
    Subnets = {lan, wan}
    Large = {}
    Hosts <- MCOverlap
    Ips = {ip1, ip2}
    SysName <- MCSharedName
    Manual = {core}
    Forms <- MCSwitchOff
    MaxRuns = 2
    MaxDevices = 3
PROPERTY
    RunsFinish
CHECK_DEADLOCK FALSE
