CONSTANTS
    MaxMail = 1
    MaxRegen = 0
    MaxTime = 0
    Reqs = {r1, r2}
    Ops = {"ingest", "keep", "unkeep"}
    Mails = {FALSE}
    Retention = 0
SYMMETRY Slots
SPECIFICATION Spec
INVARIANT KeepNotFoundMeansMissing
