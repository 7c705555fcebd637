CONSTANTS
    none = none
    reach = reach
    look = look
    bend = bend
    start = start
    a = a
    b = b
    c = c
    lift_joint = lift_joint
    flex_joint = flex_joint
    pan_joint = pan_joint
    arm = arm
    head = head
    omni_base = omni_base
    GoalId <- TwoIds
    NoId = start
    Constraints <- MCConstraints
    NoConstraints = none
    HardConstraints <- MCHardConstraints
    HardJoints <- NoHardJoints
    Joints <- MCJoints
    JointStateNames <- AllJointNames
    Controllers <- NoControllers
    ControllerJoints <- NoControllerJoints
    BaseController = omni_base
    PlannedJoints <- MCPlannedJoints
    RobotLocalGoalMsgs <- ReachAndLook
    remove_completed_constraints_ = TRUE
    use_current_state_for_displacement_ = FALSE
    Retention = 0
    CallbackMax = 0
    PublishGap = 1
    has_wait_complete = TRUE
    WAIT_FOR_COMPLETE_TIMEOUT = 1
SPECIFICATION FairClientSpec
INVARIANTS
    ClientTypeOK
    WaitIsRight
    NoGoalIsEmptied
PROPERTIES
    EveryWaitReturns
