SPECIFICATION FairSpec
CONSTANTS
    Motors = {0}
    Servos = {3}
    MaxOutstanding = 2
    FramePeriods = {20000, 65537}
    PulseWidths = {0}
    Faults <- FtdiCorrupt
    MaxFaults = 1
    MaxHubResets = 0
    MaxStalls = 0
    MaxClientChanges = 1
    MaxRead = 2
PROPERTY SettingsConverge
