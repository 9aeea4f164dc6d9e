SPECIFICATION Spec
CONSTANTS
    Jobs = {j1}
    MaxOutboxAttempts = 2
    MergeabilityRetries = 2
    MaxHead = 2
    MaxMain = 1
CHECK_DEADLOCK FALSE
PROPERTIES
    NeverMergesParked
