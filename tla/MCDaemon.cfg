SPECIFICATION Spec
CONSTANTS
    Targets = {t1, t2}
    Keys = {k1}
    MaxConns = 2
    MaxGroups = 2
    MaxDials = 1
    Demands = {}
    NoAudio = TRUE
    MaxRequests = 1
SYMMETRY TargetSymmetry
CONSTRAINT ReplacedOrShared
CHECK_DEADLOCK FALSE
INVARIANTS
    SingleOwner
    MapsSound
    ShutdownWaits
PROPERTIES
    LateStepsAreInert
    FailureStaysReported
