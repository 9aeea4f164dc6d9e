SPECIFICATION FairSpec
CONSTANTS
    NoOne = NoOne
    NoDelivery = NoDelivery
    MaxJobs = 5
    MaxHeads = 2
    MaxStamp = 3
    MaxGrants = 2
    MaxOps = 1
    MaxFaults = 1
    MaxTurns = 3
    Reviewers = {r1, r2}
    RequiredReviewers = 2
    Deliveries = {d1}
CHECK_DEADLOCK FALSE
INVARIANTS
    OneTracker
    MergesWhatWasReviewed
    PendingIsHeld
PROPERTIES
    FollowsHead
    MergedSettles
