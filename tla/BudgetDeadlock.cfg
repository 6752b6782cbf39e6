CONSTANTS
    candidate = candidate
    recruiter = recruiter
    tenant = tenant
    hire = hire
    first = first
    second = second
    Calls = {first}
    Candidates = {candidate}
    Recruiters = {recruiter}
    Tenants = {tenant}
    UserOf <- MCUserOf
    ScopeOf <- MCScopeOf
    MonthOf <- MCMonthOf
    Amounts = {1}
    LastDay = 0
    DailyBudget = 3
    MonthlyBudget = 4
    TenantDailyBudget = 2
    TenantMonthlyBudget = 3
SPECIFICATION Spec
INVARIANTS NoDeadlock
CHECK_DEADLOCK FALSE
