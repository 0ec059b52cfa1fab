SPECIFICATION Spec
CONSTANTS
    Motors = {0}
    Servos = {}
    MaxOutstanding = 2
    FramePeriods = {20000, 65537}
    PulseWidths = {0, 1500}
    Faults <- AllFaults
    MaxFaults = 1
    MaxHubResets = 0
    MaxStalls = 1
    MaxClientChanges = 1
    MaxRead = 2
INVARIANTS
    TypeOK
    BufferAccounting
    StepsInOrder
    AttemptBeforeAck
