CONSTANTS
    Interviews = {1, 2}
    Applications <- MCApplications
    CompanyOf <- MCCompanyOf
    Times <- MCTimes
    Writers = {w1, w2}
    Hours = {0, 1, 3}
    None = None
    Jobs = {"j1", "j2"}
    Posting = "j1"
    Texts = {"thin", "one"}
    PlanLimits = {0, 1}
    Sources = {"none", "word", "same", "sameChecked", "new", "newChecked"}
    Tabs = {"t1", "t2"}
    LastDraft = 2
    Keys = {"cv", "g0", "g1"}
    TaskOf <- MCTask
    From <- MCFrom
    Calls = {c1, c2}
    ReviewWindows = {w1, w2}
    LastLife = 2
    LastStamp = 2
    LastReview = 2
    c1 = c1
    c2 = c2
    w1 = w1
    w2 = w2
    Null = Null
    Bad = Bad
    YearOnly = YearOnly
SPECIFICATION MCSpec
PROPERTIES
    WritesLikeADiary
    PublishedAndAnsweredAsChecked
    ReviewsAndEditorsAgree
CHECK_DEADLOCK FALSE
