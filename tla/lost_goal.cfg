CONSTANTS
    none = none
    reach = reach
    look = look
    bend = bend
    start = start
    a = a
    b = b
    c = c
    lift_joint = lift_joint
    flex_joint = flex_joint
    pan_joint = pan_joint
    arm = arm
    head = head
    omni_base = omni_base
    GoalId <- TwoIds
    NoId = start
    Constraints <- MCConstraints
    NoConstraints = none
    HardConstraints <- MCHardConstraints
    HardJoints <- MCHardJoints
    Joints <- MCJoints
    JointStateNames <- AllJointNames
    Controllers <- MCControllers
    ControllerJoints <- MCControllerJoints
    BaseController = omni_base
    PlannedJoints <- MCPlannedJoints
    RobotLocalGoalMsgs <- TwoGoals
    remove_completed_constraints_ = TRUE
    use_current_state_for_displacement_ = FALSE
    Retention = 2
    CallbackMax = 1
    PublishGap = 1
SPECIFICATION Spec
PROPERTIES
    OnlyEmptyGoalsEndEmpty
