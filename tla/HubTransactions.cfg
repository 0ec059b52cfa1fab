SPECIFICATION Spec
CONSTANTS
    Motors = {0}
    Servos = {3}
    MaxOutstanding = 2
    FramePeriods = {20000, 65537}
    PulseWidths = {0, 1500}
    Faults <- CountedFaults
    MaxFaults = 2
    MaxHubResets = 0
    MaxStalls = 0
    MaxClientChanges = 2
    MaxRead = 2
INVARIANTS
    FlowControl
    NoStaleAnswers
    AckedMeansApplied
    EncoderResetConfirmed
