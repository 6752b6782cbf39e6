CONSTANTS
    ann = ann
    bob = bob
    eve = eve
    cand = cand
    o1 = o1
    o2 = o2
    k1 = k1
    None = None
    Recruiters <- Members
    Candidate = cand
    Admins <- OneAdmin
    Granted <- Roles
    Keys <- OneKey
    Revocable <- BobReviews
    Policies <- ThreePolicies
    Terms <- AllTerms
    Offers <- TwoOffers
    LastExpiry = 0
    Forms = {"t1", "t2"}
    Editors = {"ann", "fay"}
    Founder = "fay"
    FirstGrants <- AnnEdits
    GrantLists <- OneGrant
    TemplateCommands <- ThreeCommands
    PlanLimits = {1, 2}
    MaxVersions = 3
    MaxRevision = 2
SPECIFICATION MCSpec
INVARIANTS
    SentWasApproved
    AgreedOnTerms
    OneOpenOffer
PROPERTIES
    FinalStands
    AnswersSettle
    OffersAreWellMade
\* A form rests once it is saved.
CHECK_DEADLOCK FALSE
