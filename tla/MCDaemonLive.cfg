SPECIFICATION FairSpec
CONSTANTS
    Targets = {t1}
    Keys = {k1}
    MaxConns = 1
    MaxGroups = 1
    MaxDials = 3
    Demands = {"pin", "password", "digest"}
    NoAudio = FALSE
    MaxRequests = 2
CHECK_DEADLOCK FALSE
INVARIANTS
    TypeOK
    NoLeak
    PromptIsServed
PROPERTIES
    EverythingEnds
