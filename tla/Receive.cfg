SPECIFICATION Spec
CONSTANTS
    Packets <- SomePackets
    Noise <- SomeNoise
    MaxItems = 3
    MaxRecovers = 1
    MaxRead = 4
INVARIANTS
    ReceiveTypeOK
    AlwaysAdvances
    DeliveredWellFormed
    Synchronised
CHECK_DEADLOCK FALSE
