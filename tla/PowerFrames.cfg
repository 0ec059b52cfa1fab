SPECIFICATION Spec
CONSTANTS
    Frames <- ManyFrames
    MaxFrames = 3
    MaxStarts = 2
INVARIANTS
    NoLogicError
    SlotsHoldTheirKind
    SlotsCurrent
    DeviceIdCurrent
    ServesAllBuses
CHECK_DEADLOCK FALSE
