SPECIFICATION FairSpec
CONSTANTS
    MaxTries = 50
    MaxSignals = 2
INVARIANTS
    MainTypeOK
    CallbacksSafe
PROPERTIES
    NeverKilled
    SignalEndsService
    StartEnds
CHECK_DEADLOCK FALSE
