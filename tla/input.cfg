CONSTANTS
    Trajectories <- MCTrajectories
    LimitedJoints = 1
    BaseLimits <- MCBaseLimits
    Odometries <- MCOdometries
    JointStates <- MCJointStates
    Turn = 4
    Durations <- MCDurations
    sampling_interval_sec_ = 2
    tread = 3
    caster_offset = 1
    wheel_velocity = 4
    wheel_acceleration = 2
    caster_velocity = 11
    caster_acceleration = 6
    kSteps = 2
SPECIFICATION Spec
CHECK_DEADLOCK FALSE
INVARIANTS
    AcceptedIsReadable
    DimensionsAgree
    BaseIsFastEnough
    YawLimitIsSharp
    TurnsTheShortWay
    SamplesCover
