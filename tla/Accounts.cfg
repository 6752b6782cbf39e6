CONSTANTS
    candidate = candidate
    recruiter = recruiter
    tenant = tenant
    hire = hire
    first = first
    second = second
    Calls = {first, hire}
    Candidates = {candidate}
    Recruiters = {recruiter}
    Tenants = {tenant}
    UserOf <- MCUserOf
    ScopeOf <- MCScopeOf
    MonthOf <- MCMonthOf
    Amounts = {1, 2}
    LastDay = 1
    DailyBudget = 3
    MonthlyBudget = 4
    TenantDailyBudget = 2
    TenantMonthlyBudget = 3
    rec = rec
    cand = cand
    other = other
    sally = sally
    super = super
    sec1 = sec1
    model0 = model0
    model1 = model1
    model2 = model2
    text0 = text0
    text1 = text1
    text2 = text2
    gpt0 = gpt0
    gpt1 = gpt1
    People = {rec, cand, other}
    RecruiterAccounts = {rec}
    CompanyOf <- MCCompanyOf
    Sessions = {s1, s2, s3}
    LoginRequests = {"q1"}
    Numbers = {sally, simon}
    CodeTries = 1
    LastPassword = 2
    CodeLimit = 2
    TextLimit = 2
    ProofFor = 2
    PendingFor = 1
    FactorTries = 2
    TriedFor = 2
    MaxTime = 3
    MaxSecret = 2
    Admins = {super, sec1, sec2}
    RoleOf <- MCRoleOf
    Items = {model0, model1, model2, text0, text1, text2, gpt0, gpt1}
    KindOf <- MCKindOf
    SlotOf <- MCSlotOf
    Seeded = {model0, text0, gpt0}
    Pinned = {gpt1}
    Switches = {"deployment"}
    Deployment = "deployment"
    Settings = {"limit"}
    Releases = {"release"}
    Approvals = {"q1", "q2"}
    Thresholds = {2}
    Cases = {"case"}
    Articles = {"article"}
    Flags = {"flag"}
    CaseReviews = {"review"}
    Insights = {"insight"}
    Rules = {"rule"}
    Deliveries = {"d1", "d2"}
    Evaluators = {"e1", "e2"}
    MaxEvents = 3
    MaxRevision = 3
    MaxAlerts = 3
    None = None
SPECIFICATION MCSpec
SYMMETRY Symmetry
INVARIANTS WithinLimits HeldIsReserved
PROPERTIES AccountsHold AdministratorsHold
CHECK_DEADLOCK FALSE
