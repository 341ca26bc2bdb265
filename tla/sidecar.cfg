SPECIFICATION FairSpec
CONSTANTS
    Children = {c1, c2, c3}
    None = None
    Generations = {0, 1, 2, 3, 4}
    MaxFailures = 2
    MaxTerminates = 2
CHECK_DEADLOCK FALSE
INVARIANTS
    TypeOK
    OneChild
    StillPending
    NoStaleClient
PROPERTIES
    StopsAreAttributed
    KeepsLaunching
