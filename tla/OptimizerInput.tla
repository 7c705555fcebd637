--------------------------- MODULE OptimizerInput ---------------------------
(***************************************************************************)
(* What becomes of one trajectory in the optimizer: the action server      *)
(* validates it, the plugin takes limits, initial state and way points     *)
(* from it (optimizer_node.cpp, conversions.cpp, joint_limit.cpp), and the *)
(* result is sampled.  Validation and extraction are written apart, and    *)
(* the extraction reads without looking whether there is something.        *)
(*                                                                         *)
(* A trajectory is how many joints it names and the sizes of the vectors   *)
(* in its points; a base point also has a place, and a yaw in parts of a   *)
(* Turn.  Eigen vectors are their dimensions, and the limits of the base.  *)
(* A read past an end is undefined: the model stops there.                 *)
(***************************************************************************)
EXTENDS BaseKinematics, Sequences

CONSTANTS
    Trajectories,       \* goals the action server may be sent
    LimitedJoints,      \* up to so many joints have limits
    BaseLimits,         \* of the parameters: velocity and acceleration
    Odometries,         \* yaw of the base, in quarters
    JointStates,        \* of the base joints, the position in quarters
    Turn,               \* parts of a full turn
    Durations,          \* of optimized trajectories
    sampling_interval_sec_

kBaseJointNum == 3

JointPoint == [positions : Nat, velocities : Nat]
BasePoint == [transforms : Nat, velocities : Nat, yaw : 0 .. Turn - 1, place : Vector]
BaseLimit == [velocity : Seq(Nat), acceleration : Seq(Nat)]
JointState == [position : [roll : Quarter],
               velocity : [right : Int, left : Int, roll : Int]]
RobotTrajectory == [joint_names : Nat, joint_points : Seq(JointPoint),
                    base_names : Nat, base_points : Seq(BasePoint)]

(* The sampling loop does not end with an interval that is not positive.   *)
ASSUME InputAssumption ==
    /\ Turn \in Nat \ {0}
    /\ Trajectories \subseteq RobotTrajectory
    /\ LimitedJoints \in Nat
    /\ BaseLimits \in BaseLimit
    /\ \A k \in DOMAIN BaseLimits : Len(BaseLimits[k]) = kBaseJointNum
    /\ Odometries \subseteq Quarter
    /\ JointStates \subseteq JointState
    /\ Durations \subseteq Nat
    /\ sampling_interval_sec_ \in Nat \ {0}

VARIABLES
    step,               \* where the goal stands
    trajectory,         \* trajectory_in
    joint_limit,        \* dimension of the limits
    base_limit,         \* the last three of them
    moving,             \* the wheels and the base one of them was computed for
    initial,            \* initial_positions and initial_velocities
    way_points,
    duration,           \* of the optimized trajectory
    samples             \* times it is sampled at

optimized == <<duration, samples>>
limits == <<joint_limit, base_limit, moving>>
input == <<initial, way_points>>
vars == <<step, trajectory, limits, input, optimized>>

NoTrajectory == [joint_names |-> 0, joint_points |-> <<>>,
                 base_names |-> 0, base_points |-> <<>>]
NoInitial == [positions |-> 0, velocities |-> 0, yaw |-> 0]
NoLimit == [velocity |-> <<>>, acceleration |-> <<>>]

NoLocals ==
    /\ joint_limit' = 0 /\ base_limit' = NoLimit /\ moving' = {}
    /\ initial' = NoInitial /\ way_points' = <<>>

Init ==
    /\ step = "idle"
    /\ trajectory = NoTrajectory
    /\ joint_limit = 0 /\ base_limit = NoLimit /\ moving = {}
    /\ initial = NoInitial /\ way_points = <<>>
    /\ duration = 0 /\ samples = <<>>

-----------------------------------------------------------------------------
(* Validation. *)

(* Slips: the initial velocity of the joints is not looked at; one point   *)
(* is enough.                                                              *)
ValidatePositionsOnly(t) ==
    t.joint_names > 0 =>
        \A k \in DOMAIN t.joint_points : t.joint_points[k].positions = t.joint_names

ValidateOnePoint(t) == t.base_points # <<>>

(* front() of an empty vector is read only where no test before it failed. *)
ValidateJoints(t) ==
    t.joint_names > 0 =>
        /\ \A k \in DOMAIN t.joint_points : t.joint_points[k].positions = t.joint_names
        /\ t.joint_points # <<>> => t.joint_points[1].velocities = t.joint_names

ValidateBase(t) ==
    /\ t.base_names = 1
    /\ \A k \in DOMAIN t.base_points : t.base_points[k].transforms = 1
    /\ t.base_points # <<>> => t.base_points[1].velocities = 1

ValidatePoints(t) ==
    IF t.joint_names = 0 THEN Len(t.base_points) >= 2
    ELSE Len(t.joint_points) >= 2 /\ Len(t.joint_points) = Len(t.base_points)

ReadsMissingFront(t) ==
    \/ t.joint_names > 0 /\ t.joint_points = <<>>
    \/ ValidateJoints(t) /\ t.base_names = 1 /\ t.base_points = <<>>

(* GoalCallback; a goal that is rejected is gone. *)
ValidateRobotTrajectory(t) ==
    /\ step = "idle"
    /\ \/ /\ ReadsMissingFront(t)
          /\ step' = "undefined" /\ trajectory' = t
       \/ /\ ~ReadsMissingFront(t)
          /\ ValidateJoints(t) /\ ValidateBase(t) /\ ValidatePoints(t)
          /\ step' = "limits" /\ trajectory' = t
    /\ UNCHANGED <<limits, input, optimized>>

-----------------------------------------------------------------------------
(* Extraction.  HasTransform(n): the first n base points have one.         *)

HasTransform(n) ==
    /\ n <= Len(trajectory.base_points)
    /\ \A k \in 1 .. n : trajectory.base_points[k].transforms >= 1

(* Joint points decide, where there are any. *)
JointNum == Len(trajectory.joint_points)
PointNum == IF JointNum = 0 THEN Len(trajectory.base_points) ELSE JointNum

(* GetLimit fails at a joint without limits. *)
JointLimit ==
    /\ step = "limits"
    /\ \/ /\ trajectory.joint_names <= LimitedJoints
          /\ joint_limit' = trajectory.joint_names + kBaseJointNum
          /\ base_limit' = BaseLimits
          /\ step' = "velocity"
          /\ UNCHANGED <<trajectory, moving, input, optimized>>
       \/ /\ trajectory.joint_names > LimitedJoints
          /\ step' = "idle" /\ trajectory' = NoTrajectory
          /\ UNCHANGED <<limits, input, optimized>>

(* Limits of the base depend on the direction it sets out in, from where   *)
(* the last messages say it is; others may come between the two.           *)
ComputeBaseDirection ==
    LET place(k) == trajectory.base_points[k].place
    IN  Direction(<<place(2)[1] - place(1)[1], place(2)[2] - place(1)[2]>>)

(* The name of the joint is not used: all three velocities are that of the *)
(* axis that turns the body.                                               *)
ExtractJointVelocity(joint_state, name) == joint_state.velocity.roll

ExtractBaseJointVelocities(joint_state) ==
    [name \in {"right", "left", "roll"} |-> ExtractJointVelocity(joint_state, name)]

(* Limits are only relaxed. *)
UpdateLimits(current, calculated) ==
    [k \in 1 .. kBaseJointNum |-> LargerOf(current[k], calculated[k])]

(* What the update of one of the limits computes with. *)
Limits(kind) ==
    IF kind = "velocity" THEN [wheel |-> wheel_velocity, caster |-> caster_velocity]
    ELSE [wheel |-> wheel_acceleration, caster |-> caster_acceleration]

DriftOf(kind, joint_state) ==
    IF kind = "velocity" THEN <<0, 0>>
    ELSE Drift(ExtractBaseJointVelocities(joint_state), joint_state.position.roll)

UpdateBase(kind, yaw, joint_state) ==
    LET limit == Limits(kind)
        drift == DriftOf(kind, joint_state)
        roll  == joint_state.position.roll
    IN  \E wheels \in Nearest(limit.wheel, drift, roll, Turned(ComputeBaseDirection, -yaw)) :
            /\ base_limit' = [base_limit EXCEPT ![kind] =
                    UpdateLimits(@, CalculateBaseMax(wheels, limit.caster, drift, roll, yaw))]
            /\ moving' = {[kind |-> kind, wheels |-> wheels, yaw |-> yaw, joints |-> joint_state]}

UpdateBaseLimits(kind, next) ==
    /\ step = kind
    /\ \/ /\ HasTransform(2)
          /\ \E yaw \in Odometries, joint_state \in JointStates :
                UpdateBase(kind, yaw, joint_state)
          /\ step' = next
       \/ /\ ~HasTransform(2)
          /\ step' = "undefined"
          /\ UNCHANGED <<base_limit, moving>>
    /\ UNCHANGED <<joint_limit, trajectory, input, optimized>>

UpdateBaseVelocities == UpdateBaseLimits("velocity", "acceleration")
UpdateBaseAccelarations == UpdateBaseLimits("acceleration", "extract")

ShortestAngularDistance(from, to) ==
    LET d == (to - from) % Turn IN IF d > Turn \div 2 THEN d - Turn ELSE d

(* A slip: every yaw is next to 0. *)
YawsNextToZero(points) ==
    [k \in DOMAIN points |-> ShortestAngularDistance(0, points[k].yaw)]

(* The yaw next to the one before it; the first is next to 0.              *)
Yaws(points) ==
    LET theta[k \in 0 .. Len(points)] ==
            IF k = 0 THEN 0
            ELSE theta[k - 1] + ShortestAngularDistance(theta[k - 1], points[k].yaw)
    IN  [k \in DOMAIN points |-> theta[k]]

Dimension(k, vector) ==
    kBaseJointNum + (IF JointNum = 0 THEN 0 ELSE trajectory.joint_points[k][vector])

WayPoints ==
    [k \in 1 .. PointNum |->
        [positions |-> Dimension(k, "positions"),
         yaw |-> Yaws(trajectory.base_points)[k]]]

CanExtract == HasTransform(PointNum) /\ trajectory.base_points[1].velocities >= 1

(* The first way point, which is the initial position, is left out. *)
ExtractInput ==
    /\ step = "extract"
    /\ \/ /\ ~CanExtract
          /\ step' = "undefined"
          /\ UNCHANGED <<initial, way_points>>
       \/ /\ CanExtract
          /\ initial' =
                [positions  |-> Dimension(1, "positions"),
                 velocities |-> Dimension(1, "velocities"),
                 yaw |-> ShortestAngularDistance(0, trajectory.base_points[1].yaw)]
          /\ way_points' = Tail(WayPoints)
          /\ step' = "filter"
    /\ moving' = {}
    /\ UNCHANGED <<trajectory, joint_limit, base_limit, optimized>>

-----------------------------------------------------------------------------
(* The result. *)

(* The filter takes what was extracted; only its trajectory stays.         *)
Filter ==
    /\ step = "filter"
    /\ \E d \in Durations : duration' = d
    /\ step' = "sample"
    /\ NoLocals
    /\ UNCHANGED <<trajectory, samples>>

NextSample == (Len(samples) + 1) * sampling_interval_sec_

(* A slip: the end may be sampled twice. *)
GoesOnToTheEnd == NextSample <= duration

GoesOn == NextSample < duration

SampleTrajectoryPoint ==
    /\ step = "sample"
    /\ samples' = Append(samples, IF GoesOn THEN NextSample ELSE duration)
    /\ step' = IF GoesOn THEN "sample" ELSE "done"
    /\ UNCHANGED <<trajectory, limits, input, duration>>

PublishSucceeded ==
    /\ step = "done"
    /\ step' = "idle"
    /\ trajectory' = NoTrajectory
    /\ duration' = 0 /\ samples' = <<>>
    /\ UNCHANGED <<limits, input>>

Next ==
    \/ \E t \in Trajectories : ValidateRobotTrajectory(t)
    \/ JointLimit
    \/ UpdateBaseVelocities
    \/ UpdateBaseAccelarations
    \/ ExtractInput
    \/ Filter
    \/ SampleTrajectoryPoint
    \/ PublishSucceeded

Spec == Init /\ [][Next]_vars

-----------------------------------------------------------------------------
(* Properties. *)

(* A message has points in a part if and only if it names joints of it.    *)
NamesGoWithPoints(t) ==
    /\ t.joint_names = 0 <=> t.joint_points = <<>>
    /\ t.base_names = 0 <=> t.base_points = <<>>

(* Of a goal whose names go with its points nothing is read that is not    *)
(* there: not by the validation, and in an accepted goal not by the three  *)
(* functions that extract from it.                                         *)
AcceptedIsReadable == step = "undefined" => ~NamesGoWithPoints(trajectory)

(* What the filter is handed fits together: one dimension throughout, and  *)
(* a way point to go to.                                                   *)
DimensionsAgree ==
    step = "filter" /\ NamesGoWithPoints(trajectory) =>
        /\ initial.positions = joint_limit
        /\ initial.velocities = joint_limit
        /\ way_points # <<>>
        /\ \A k \in DOMAIN way_points : way_points[k].positions = joint_limit

(* The base turns the short way from each point to the next, the initial   *)
(* position included, and to the yaw that was asked for.                   *)
TurnsTheShortWay ==
    step = "filter" =>
        \A k \in DOMAIN way_points :
            LET before == IF k = 1 THEN initial.yaw ELSE way_points[k - 1].yaw
                turn   == way_points[k].yaw - before
            IN  /\ 2 * turn <= Turn /\ -2 * turn <= Turn
                /\ (way_points[k].yaw - trajectory.base_points[k + 1].yaw) % Turn = 0

(* What the body's turning adds to the acceleration is less than the wheels*)
(* can make up for.                                                        *)
WheelsCanCounter(turning) ==
    tread * turning * turning < 2 * caster_offset * wheel_acceleration

(* The limits let the base set out as fast as the wheels can take it in    *)
(* the direction it has to go, whatever way it and its body are turned. A  *)
(* body that turns too fast is out of the wheels' reach.                   *)
BaseIsFastEnough ==
    \A m \in moving :
        LET roll == m.joints.position.roll
        IN  m.kind = "velocity" \/ WheelsCanCounter(m.joints.velocity.roll) =>
            IsFastest(base_limit[m.kind], Limits(m.kind).wheel, DriftOf(m.kind, m.joints),
                      roll, m.yaw, Turned(ComputeBaseDirection, -m.yaw))

(* A limit of the yaw that was relaxed is the largest the body can turn by *)
(* both ways, with the wheels as they are for the other limits; if they    *)
(* turn the base faster than the axis can turn the body, there is none, and*)
(* the limit is the slowest the body then has to turn, one way.            *)
YawLimitIsSharp ==
    \A m \in moving :
        LET yaw == base_limit[m.kind][3]
        IN  yaw # BaseLimits[m.kind][3] => IsSharp(yaw, m.wheels, Limits(m.kind).caster)

(* The samples leave out 0 ("0 seconds is not played back",                *)
(* conversions.cpp:156), go forward without a gap longer than the interval,*)
(* and end with the trajectory.  Only one that takes no time is sampled at *)
(* 0, once.                                                                *)
SamplesCover ==
    step = "done" =>
        /\ samples[Len(samples)] = duration
        /\ \A k \in DOMAIN samples :
              LET before == IF k = 1 THEN 0 ELSE samples[k - 1]
              IN  /\ samples[k] > before \/ (duration = 0 /\ samples = <<0>>)
                  /\ samples[k] <= before + sampling_interval_sec_

-----------------------------------------------------------------------------
(* What a comment says, and the optimizer does not do.                     *)

(* The joint velocities are those of "right wheel, left wheel, turning"    *)
(* (optimizer_node.cpp:153): the limits of the acceleration are the ones of*)
(* a base whose wheels turn as joint_states says they do.                  *)
AccelerationHeedsTheWheels ==
    \A m \in moving : m.kind = "acceleration" =>
        LET roll  == m.joints.position.roll
            drift == Drift(m.joints.velocity, roll)
        IN  \E wheels \in Nearest(wheel_acceleration, drift, roll,
                                  Turned(ComputeBaseDirection, -m.yaw)) :
                base_limit.acceleration =
                    UpdateLimits(BaseLimits.acceleration,
                        CalculateBaseMax(wheels, caster_acceleration, drift, roll, m.yaw))
=============================================================================
