CONSTANTS
    MaxMail = 1
    MaxRegen = 0
    MaxTime = 1
    Reqs = {r1, r2}
    Ops = {"ingest", "raw", "keep", "unkeep", "clean"}
    Mails = {TRUE}
    Retention = 0
SYMMETRY Slots
SPECIFICATION Spec
INVARIANTS UnauthorizedMeansDead PromiseHonoured AnswerShowsFlag NotFoundMeansGone InternalErrorMeansFault EventsOnce AttachmentsUnlessDeleted
