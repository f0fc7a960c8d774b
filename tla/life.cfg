CONSTANTS
    OldMail = 1
    MaxMail = 2
    Handlers = {h1}
    VacuumEvery = 2
    MaxMisses = 1
    MaxStarts = 2
SPECIFICATION FairSpec
PROPERTIES ShutdownEnds
INVARIANTS TypeOK LinksLast NoEventForgotten SeenOnce VacuumKeepsUp
CHECK_DEADLOCK FALSE
