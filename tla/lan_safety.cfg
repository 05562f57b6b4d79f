SPECIFICATION Spec
CONSTANTS
    Did = {d1, d2}
    Ip = {a1, a2}
    Iface = {e1}
    Timeout = 1
    CheckPeriod = 0
    StartDelay = 0
    MinScan = 1
    MaxScan = 2
    MaxCallback = 0
    AgeMax = 2
    InboxCap = 1
SYMMETRY Symmetry
INVARIANTS TypeOK LockDiscipline NoCallbackAfterUnregister
PROPERTIES TableFrozenDuringCallback ImplementsFeed
