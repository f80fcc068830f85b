SPECIFICATION Spec
CONSTANTS
    w = w
    c1 = c1
    c2 = c2
    u1 = u1
    p1 = p1
    p2 = p2
    approve = approve
    Worker = w
    Crons = {c1}
    People = {u1}
    ProcessOf <- MCProcessOf
    Free = Free
    Gone = Gone
    Paths <- MCReview
    Outcomes = {approve}
    PeopleSeeParks = FALSE
    MaxCrashes <- MCMaxCrashes
INVARIANT
    ResumedReviewsWentOn
CHECK_DEADLOCK FALSE
