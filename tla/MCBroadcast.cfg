SPECIFICATION FairSpec
CONSTANTS
    Sinks = {s1, s2}
    Modes = {FALSE, TRUE}
    MaxReads = 2
    Sizes = {2, 4}
    BufSizes = {1, 2}
    MaxQueuedBytes = 3
    MaxQueuedChunks = 2
    FrameDuration = 3
    MaxFrameQueueDuration = 2
CHECK_DEADLOCK FALSE
INVARIANTS
    QueueExact
    NobodyWaitsInVain
PROPERTIES
    FanOutSpec
    KeepingUpNeverDropped
    EveryoneEnds
