SPECIFICATION FairSpec
CONSTANTS
    Did = {d1}
    Ip = {a1}
    Iface = {e1, e2}
    MinScan = 1
    MaxScan = 1
    Timeout = 2
    CheckPeriod = 1
    StartDelay = 0
    MaxCallback = 1
    AgeMax = 3
    InboxCap = 1
PROPERTIES StopReturns SilentReported ImplementsFeed
