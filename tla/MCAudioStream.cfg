CONSTANTS
    Modulus = 64
    FrameSamples = 2
    PacketSamples = {3}
    Starts = {62}
    MaxPackets = 2
    Tolerance = 1
    Modes <- MCModes
    SeqModulus = 4
    History = 2
    Depth = 2
    Epochs = {63}
    MaxCatchup = 2
    MaxFrames = 5
    Counts = {1, 4}
SPECIFICATION Spec
CHECK_DEADLOCK FALSE
INVARIANTS
    TypeOK
    FramesInOrder
    PacketsUnique
    MappingCurrent
PROPERTIES
    AnnouncedForward
    StreamEnds
