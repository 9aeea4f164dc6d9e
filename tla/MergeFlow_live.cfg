SPECIFICATION FairSpec
CONSTANTS
    Jobs = {j1}
    MaxOutboxAttempts = 2
    MergeabilityRetries = 2
    MaxHead = 2
    MaxMain = 0
CHECK_DEADLOCK FALSE
PROPERTIES
    PendingMergeResolves
    ImplementsMergeGate
