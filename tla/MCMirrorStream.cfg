CONSTANTS
    Paths = {"bytes", "units", "hevc"}
    MaxPictures = 4
    MaxSlices = 2
    MaxConfigs = 2
    MaxToggles = 1
SPECIFICATION FairSpec
CONSTRAINT LongOrBesideWorkers
CHECK_DEADLOCK FALSE
INVARIANTS
    TypeOK
    PicturesDecodable
    WholePictures
    FrozenHolds
PROPERTIES
    EverythingEnds
