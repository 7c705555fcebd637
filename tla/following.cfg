CONSTANTS
    Position <- MCPosition
    Goals <- MCGoals
    PlannedEnds <- MCPlannedEnds
    Start = 0
    Far = 14
    joint_displacement_threshold_ = 2
    link_displacement_threshold_ = 2
    joint_stall_threshold_ = 1
    link_stall_threshold_ = 1
    joint_stall_check_range_ = 6
    link_stall_check_range_ = 4
    kConnectPoint = 2
    kPublishPeriodScale = 5
    MaxDelay = 1
SPECIFICATION FairSpec
INVARIANTS
    TypeOK
    ConnectsToCourse
    PlannedNearRest
PROPERTIES
    PlannedStallHasStopped
    FirstLookNeverStalls
    GoalsEnd
