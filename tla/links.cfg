CONSTANTS
    MaxMail = 2
    MaxRegen = 0
    MaxTime = 0
    Reqs = {r1, r2}
    Ops = {"ingest", "preview", "deleteMany"}
    Mails = {FALSE}
    Retention = 0
SYMMETRY Slots
SPECIFICATION Spec
INVARIANTS TypeOK TokenInOnePlace OneViewPerToken
