SPECIFICATION FairSpec
CONSTANTS
    Sessions = {s1}
    Nobody = Nobody
    Day = 2
    Skew = 1
    Window = 2
    MaxResumes = 2
    MaxMisses = 2
    CoolDown = 1
    MaxFaults = 2
INVARIANTS
    ResumesAreBounded
PROPERTIES
    InfraUntouched
    NotBeforeReset
    Attended
CHECK_DEADLOCK FALSE
