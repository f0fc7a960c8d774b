CONSTANTS
    MaxMail = 1
    MaxRegen = 2
    MaxTime = 0
    Reqs = {r1, r2}
    Ops = {"ingest", "preview", "token", "delete"}
    Mails = {FALSE}
    Retention = 0
SYMMETRY Slots
SPECIFICATION Spec
PROPERTY PreviewsOneTime
INVARIANTS UnauthorizedMeansDead KeepLinkLasts InternalErrorMeansFault
