SPECIFICATION Spec
CONSTANT Setups <- Robots
INVARIANTS
    ControlTypeOK
    PowerAsAsked
    FollowersFollow
    DrivesTowardsSetpoint
    PulsesAsAsked
    ContinuousHasBounds
    NoTopicUnread
