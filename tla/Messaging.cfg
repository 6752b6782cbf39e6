\* One tick of the lease is 10 seconds: 5 minutes, the SES client's timeout, and
\* the default batch of 10 (EMAIL_WORKER_BATCH_SIZE).
CONSTANTS
    Lease = 30
    CallTimeout = 1
    MaxBatch = 10
    None = None
    Candidates = {"c1"}
    Applicants = {"c1"}
    LastStep = 3
    Requests = {"r1", "r2"}
    Workers = {"w1", "w2"}
    KeysEach = 2
    Plans <- PaidAndBare
    LastPeriod = 0
    MaxSequences = 2
    WindowLimit = 1
    Sockets = {"inbox", "thread"}
    Users = {"candidate", "recruiter"}
    Letters = {"m1"}
    UserOf <- OfCandidate
    ChannelOf <- InboxAndThread
    SenderOf <- ByRecruiter
    Buffer = 1
    MaxTotal = 2
    MaxPerThread = 1
SPECIFICATION MCSpec
INVARIANTS
    OnlyDeadWorkersRecovered
    StepSentOnce
    HubConsistent
PROPERTIES
    SentWithinBounds
    RevokedDisconnects
\* Campaigns and shut down hubs come to rest.
CHECK_DEADLOCK FALSE
