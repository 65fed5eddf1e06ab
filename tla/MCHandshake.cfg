CONSTANT Worlds <- MCWorlds
SPECIFICATION Spec
CHECK_DEADLOCK FALSE
INVARIANTS
    TypeOK
    ChannelAgrees
    EndsAgree
    CompatibleConnects
    MismatchNeverPairs
PROPERTIES
    AttemptSpec
    SetupEnds
