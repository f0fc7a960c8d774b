CONSTANTS
    MaxMail = 1
    MaxRegen = 0
    MaxTime = 1
    Reqs = {r1, r2}
    Ops = {"ingest", "get", "head", "clean"}
    Mails = {FALSE}
    Retention = 0
SPECIFICATION FairSpec
PROPERTIES ExpiredGo EveryRequestAnswered FirstOpenStays
