CONSTANTS
    Installs = {"fresh", "legacy"}
    MaxFailures = 2
    MaxRotations = 1
    Rcpts = {"a"}
    Msgs = {"m1", "m2"}
    Refused = {"m2"}
    Handlers = {h1, h2}
SPECIFICATION FairSpec
INVARIANTS TypeOK RemovedMeansStored OneRowPerAnswer PrintedKeysLast ServesWhatIsSaved TokenAccepted
PROPERTIES AtLeastOnce EventuallyStored ComesUp
CHECK_DEADLOCK FALSE
