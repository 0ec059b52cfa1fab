SPECIFICATION FairSpec
CONSTANTS
    Sockets <- TwoBuses
    Kinds = {"hub", "no model"}
    Names = {1, 2, 3}
    Fds = {3, 4}
    MaxPlugs = 3
    MaxFailures = 1
    MaxRestarts = 1
INVARIANTS
    LifecycleTypeOK
    DescriptorsOwned
    ConnectedTruth
    CaughtUp
PROPERTY ServesWhatIsPlugged
CHECK_DEADLOCK FALSE
