SPECIFICATION FairSpec
CONSTANTS
    Motors = {0}
    Servos = {}
    MaxOutstanding = 2
    FramePeriods = {20000, 65537}
    PulseWidths = {0, 1500}
    Faults <- BatteryNack
    MaxFaults = 1
    MaxHubResets = 1
    MaxStalls = 0
    MaxClientChanges = 1
    MaxRead = 2
PROPERTY SettingsConverge
