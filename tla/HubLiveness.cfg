SPECIFICATION FairSpec
CONSTANTS
    Motors = {0}
    Servos = {}
    MaxOutstanding = 2
    FramePeriods = {20000, 65537}
    PulseWidths = {0, 1500}
    Faults <- CountedFaults
    MaxFaults = 1
    MaxHubResets = 0
    MaxStalls = 0
    MaxClientChanges = 2
    MaxRead = 2
PROPERTIES
    HandshakeCompletes
    TransactionsComplete
    SettingsConverge
    ResetsHappen
