CONSTANTS
    none = none
    reach = reach
    look = look
    bend = bend
    start = start
    a = a
    b = b
    c = c
    lift_joint = lift_joint
    flex_joint = flex_joint
    pan_joint = pan_joint
    arm = arm
    head = head
    omni_base = omni_base
    GoalId <- ThreeIds
    NoId = start
    Constraints <- MCConstraints
    NoConstraints = none
    HardConstraints <- MCHardConstraints
    HardJoints <- MCHardJoints
    Joints <- MCJoints
    JointStateNames <- SomeJointNames
    Controllers <- MCControllers
    ControllerJoints <- MCControllerJoints
    BaseController = omni_base
    PlannedJoints <- MCPlannedJoints
    RobotLocalGoalMsgs <- ThreeGoals
    remove_completed_constraints_ = TRUE
    use_current_state_for_displacement_ = FALSE
    Retention = 0
    CallbackMax = 0
    PublishGap = 0
SPECIFICATION FairSpec
INVARIANTS
    OnlyNewestGoalIsLive
PROPERTIES
    SatisfiedIsSound
    SatisfiedGoalIsNotCommanded
    NoGoalLeftUnanswered
    EveryGoalIsTaken
    ImplementsFairLifecycle
