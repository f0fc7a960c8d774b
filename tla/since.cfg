CONSTANTS
    MaxMail = 2
    MaxTime = 1
    PageSize = 1
    Loops = {1}
    Loads = {1}
    MaxClicks = 0
    MaxFaults = 0
SPECIFICATION WatchSpec
INVARIANT WaitBringsLater
CHECK_DEADLOCK FALSE
