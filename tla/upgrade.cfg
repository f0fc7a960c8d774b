CONSTANTS
    Installs = {"legacy"}
    MaxFailures = 2
    MaxRotations = 1
SPECIFICATION CredSpec
INVARIANT ExistingKeyKept
