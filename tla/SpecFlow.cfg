SPECIFICATION FairSpec
CONSTANTS
    ann = ann
    rex = rex
    sue = sue
    j1 = j1
    j2 = j2
    NoOne = NoOne
    NoText = NoText
    NoLens = NoLens
    AuthorLens = "craft"
    Jobs = {j1, j2}
    Texts = {t1, t2}
    Workers <- MCWorkers
    Attested <- MCAttested
    Lens <- MCLens
    MaxAttempts = 2
    MaxBounces <- MCMaxBounces
    MaxReviewerRejections = 2
    GovernorCeiling = 2
    MaxOutboxAttempts = 2
    MaxEpoch = 3
    MaxEdits = 1
    MaxFaults = 1
CHECK_DEADLOCK FALSE
INVARIANTS
    SignoffEarned
    BouncesBounded
PROPERTIES
    IssueOnce
    EpicFansOut
    ImplementsFencedLease
