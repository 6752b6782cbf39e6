CONSTANTS
    cvUploaded = cvUploaded
    jobUpdated = jobUpdated
    p1 = p1
    p2 = p2
    Events = {cvUploaded, jobUpdated}
    Capabilities <- MCCapabilities
    SwitchesOf <- MCSwitchesOf
    Rescheduled <- MCRescheduled
    Processors = {p1, p2}
    MaxAttempts = 2
    BatchLimit = 2
    NoHand = NoHand
SPECIFICATION MCSpec
INVARIANTS AttemptsCountFailures ExhaustedIsDeadLettered
PROPERTIES DeadLettersRest Drains
