CONSTANTS
    Installs = {"fresh"}
    MaxFailures = 0
    MaxRotations = 0
    Rcpts = {"a", "b"}
    Msgs = {"m1"}
    Refused = {}
    Handlers = {h1}
SPECIFICATION Spec
INVARIANT EveryRecipientStored
CHECK_DEADLOCK FALSE
