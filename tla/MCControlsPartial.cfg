SPECIFICATION Spec
CONSTANTS
    Endpoints = {e1}
    Targets = {t1, t2}
    Clients = {c1}
    MaxStreams = 2
    Levels = {0, 50}
SYMMETRY MCSymmetry
CHECK_DEADLOCK FALSE
INVARIANT ReportedMatches
