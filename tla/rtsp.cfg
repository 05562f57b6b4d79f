SPECIFICATION FairSpec
CONSTANTS
    MaxMedia = 3
    MaxTime = 2
    Wrap = 4
CHECK_DEADLOCK FALSE
INVARIANTS TypeOK PtsNeverWraps CleanSession NoAppsrcBetweenSessions FrameMeetsLiveMedia
PROPERTIES StopReturnsOnceRunning
