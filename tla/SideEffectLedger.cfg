SPECIFICATION FairSpec
CONSTANTS
    Effects = {e1}
    Runners = {r1, r2}
    Sweepers = {s1, s2}
    Operators = {o1}
    MaxAttempts = 2
    MaxVersion = 5
    LeaseCoversAttempt = TRUE
    BodyMayBeLost = FALSE
INVARIANTS
    TypeOK
    AppliedAtMostOnce
    SuccessIsTrue
    ClaimIsExclusive
    FailedMeansNotApplied
PROPERTIES
    VerdictsAreKept
    ClaimsAreResolved
    ImplementsOneShot
