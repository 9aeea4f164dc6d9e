SPECIFICATION Spec
CONSTANTS
    b1 = b1
    a1 = a1
    Jobs = {j1, j2}
    Builders = {b1}
    Reviewers = {r1}
    Accounts = {a1}
    Login <- SoloLogin
    Slots = 1
    AbsoluteCap = 3
    PhaseBudget = 1
    Rung2Window = 1
    HeartbeatReapAfter = 1
    GovernorCeiling = 2
    MaxAttempts = 2
    Cooldown = 1
    MaxGrants = 2
    MaxFaults = 1
CHECK_DEADLOCK FALSE
INVARIANT AccountGateOpens
