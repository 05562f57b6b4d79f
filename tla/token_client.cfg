SPECIFICATION Spec
CONSTANTS
    ExpiresIn = 10
    Margin = 2
    CheckPeriod = 1
    RequestTime = 1
    Patience = 2
    MaxIssue = 3
    MaxTime = 11
INVARIANTS ClientTokenAccepted
