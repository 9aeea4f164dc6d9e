SPECIFICATION LedgerFairSpec
CONSTANTS
    ann = ann
    bob = bob
    cyd = cyd
    NoOne = NoOne
    Workers <- MCWorkers
    Family <- MCFamily
    Roles <- MCRoles
    MaxAttempts = 2
    MaxBounces = 2
    MaxReviewerRejections = 2
    RequiredReviewers = 2
    GovernorCeiling = 1
    MaxUnblocks = 1
    MaxEpoch = 4
CHECK_DEADLOCK FALSE
INVARIANTS
    TypeOK
    LeaseAudit
    MergeAuthorised
    ReviewersIndependent
    DoneIsFrozen
    ProjectionFolds
PROPERTIES
    GrantIsFinal
    AcceptedFromHolder
    SettledStays
    ParkHolds
    MergedSettles
    ReadyIsClaimable
    ImplementsFencedLease
