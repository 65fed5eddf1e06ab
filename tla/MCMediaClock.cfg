CONSTANTS
    Timelines = {1, 2}
    MaxTime = 4
    Compact <- CompactTable
    Offset = 1
    BootOffset = 3
SPECIFICATION Spec
CHECK_DEADLOCK FALSE
INVARIANTS
    TypeOK
    ClockCurrent
PROPERTIES
    UpdatesAreContinuous
