CONSTANTS
    Paths = {"units"}
    MaxPictures = 3
    MaxSlices = 1
    MaxConfigs = 1
    MaxToggles = 1
SPECIFICATION Spec
CHECK_DEADLOCK FALSE
INVARIANTS
    ResumedOnKeyframe
