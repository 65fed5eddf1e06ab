SPECIFICATION FairSpec
CONSTANTS
    Targets = {t1}
    Keys = {k1}
    MaxConns = 1
    MaxGroups = 1
    MaxDials = 1
    Demands = {}
    NoAudio = TRUE
    MaxRequests = 0
CHECK_DEADLOCK FALSE
PROPERTIES
    EncoderFailureReported
