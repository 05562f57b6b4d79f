SPECIFICATION TimedSpec
CONSTANTS
    Did = {d1, d2, d3}
    Ip = {a1}
    Iface = {e1}
    MinScan = 1
    MaxScan = 3
    Timeout = 8
    CheckPeriod = 2
    StartDelay = 1
    MaxCallback = 1
    AgeMax = 14
    InboxCap = 6
    Responsive = {d1, d2}
    HomeIp <- MCHomeIp
    HomeIface <- MCHomeIface
INVARIANTS ResponsiveStaysOnline OnlineIsFresh
