CONSTANTS
    MaxMail = 2
    MaxTime = 1
    PageSize = 2
    Loops = {1, 2}
    Loads = {1, 2}
    MaxClicks = 2
    MaxFaults = 1
SPECIFICATION FairSpec
INVARIANTS TypeOK OneLoop WaitBringsNew
PROPERTY CatchesUp
CHECK_DEADLOCK FALSE
