SPECIFICATION Spec
CONSTANTS
    MaxMedia = 2
    MaxTime = 3
    Wrap = 4
CHECK_DEADLOCK FALSE
INVARIANTS RestartsFromZero
