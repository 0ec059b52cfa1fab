SPECIFICATION Spec
CONSTANTS
    Motors = {0}
    Servos = {3}
    MaxOutstanding = 2
    FramePeriods = {20000, 65537}
    PulseWidths = {0, 1500}
    Faults <- ResetSafeFaults
    MaxFaults = 1
    MaxHubResets = 1
    MaxStalls = 0
    MaxClientChanges = 2
    MaxRead = 2
INVARIANTS
    AckedMeansApplied
    DisabledWhenDone
