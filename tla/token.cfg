SPECIFICATION FairSpec
CONSTANTS
    ExpiresIn = 6
    Margin = 2
    CheckPeriod = 1
    RequestTime = 1
    Patience = 1
    MaxIssue = 2
    MaxTime = 7
INVARIANTS TypeOK ValidMeansAccepted TokenStaysValid PausedFileIsCurrent
PROPERTIES StopAuthReturns GetTokenReturns
