SPECIFICATION FairSpec
CONSTANTS
    Did = {d1, d2}
    Ptr = {p1, p2}
    Supported = {d1, d2}
INVARIANTS TypeOK NamesKnown ListenersBeforeStream OfflineCameraStopped
PROPERTIES EventDelivered
