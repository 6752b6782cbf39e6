CONSTANTS
    code = code
    link1 = link1
    link2 = link2
    ann = ann
    bob = bob
    Messages = {link1, link2}
    Invitations = {link1, link2}
    Recipients = {bob}
    RecipientOf <- MCRecipientOf
    Workers = {w1, w2}
    EnabledWorkers = {w1, w2}
    MaxAttempts = 2
    BatchSize = 2
    SlowWorkers = TRUE
    NoItem = NoItem
    ReviewRows = {"e1", "e2", "i1"}
    ReviewAuthor <- MCReviewAuthor
    ReviewKind <- MCReviewKind
    Readers = {"reader"}
    Moderators = {"moderator"}
    LastRevision = 3
    PendingLimit = 1
    ReferralRows = {"i1", "i2", "i3"}
    ReferrerOf <- MCReferrerOf
    Referrers = {"recruiter", "friend"}
    CandidateReferrers = {"friend"}
    DailyCap = 1
    LastToken = 2
    SearchRows = {1}
    SearchCapacity = 1
    PassLimit = 1
    AlertPeriod = 1
    LastTick = 2
    Members = {ann, bob}
    NoteRows = {1, 2}
    NoteAuthor <- MCNoteAuthor
    Texts = {"good", "bad"}
    PoolRows = {"p1", "p2"}
    SmartLimit = 1
    TrailLimit = 2
    EventLimit = 3
    Resting = {"i3", "p2"}
    None = None
SPECIFICATION MCSpec
SYMMETRY Symmetry
INVARIANTS AttemptSubmittedOnce SupersededStaysSilent NothingMissed
PROPERTIES ReviewsAreVetted ReferralsAreEarned SourcingIsAccountable
CHECK_DEADLOCK FALSE
