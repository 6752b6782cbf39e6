CONSTANTS
    j1 = j1
    j2 = j2
    k1 = k1
    k2 = k2
    r1 = r1
    r2 = r2
    w1 = w1
    w2 = w2
    None = None
    Jobs <- TwoVacancies
    CVs <- TwoUploads
    Requests <- TwoRequests
    Workers <- TwoProcesses
    MaxAttempts = 2
    SlowWorkers = FALSE
SPECIFICATION FairSpec
INVARIANTS
    ClosedIsConfirmed
PROPERTIES
    SubmittedAreQueued
    OffersReviewed
    ClosedStays
    DeletionsEnd
CHECK_DEADLOCK FALSE
