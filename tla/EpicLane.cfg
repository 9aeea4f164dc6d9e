SPECIFICATION FairSpec
CONSTANTS
    e1 = e1
    e2 = e2
    h1 = h1
    h2 = h2
    Nothing = Nothing
    Epics = {e1, e2}
    Hosts = {h1, h2}
    Files <- SameHostOrScope
    Words = {"building", "abandoned", "done"}
    MaxStarts = 2
    MaxUpsets = 1
INVARIANTS
    BookedOnce
    LaunchIsWhole
    DoneMeansDone
PROPERTIES
    GoalSurfaces
CHECK_DEADLOCK FALSE
