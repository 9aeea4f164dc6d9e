SPECIFICATION Spec
CONSTANTS
    ann = ann
    bob = bob
    cyd = cyd
    NoOne = NoOne
    Workers <- MCWorkers
    Family <- MCFamily
    Roles <- MCRoles
    MaxAttempts = 2
    MaxBounces = 2
    MaxReviewerRejections = 2
    RequiredReviewers = 1
    GovernorCeiling = 2
    MaxUnblocks = 1
    MaxEpoch = 4
CHECK_DEADLOCK FALSE
INVARIANT NoSelfReview
