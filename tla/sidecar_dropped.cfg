SPECIFICATION Spec
CONSTANTS
    Children = {c1, c2, c3, c4}
    None = None
    Generations = {0, 1, 2, 3, 4}
    MaxFailures = 2
    MaxTerminates = 1
CHECK_DEADLOCK FALSE
INVARIANT
    NeverDropped
