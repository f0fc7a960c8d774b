CONSTANTS
    Keys = {k1, k2, k3}
    Limit = 2
    Window = 2
    MaxKeys = 2
    MaxTime = 6
    MaxCalls = 7
SYMMETRY Addresses
SPECIFICATION Spec
INVARIANTS TypeOK TableBounded LessThanTwice
PROPERTY RefusedForCause
