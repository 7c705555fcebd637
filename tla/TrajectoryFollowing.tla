------------------------ MODULE TrajectoryFollowing ------------------------
(***************************************************************************)
(* The executions of the planner node in time (node.cpp): every            *)
(* kConnectPoint the loop thread judges the goal, plans from where the     *)
(* robot will be kConnectPoint later, and sends the controllers the first  *)
(* part of the new trajectory, to be played from then on.                  *)
(*                                                                         *)
(* The robot moves by one position in a tick along what it was sent.       *)
(* Points in time are ticks from now, so they count down.  One execution is*)
(* one step up to PlanImpl and one after it: how it interleaves with the   *)
(* callbacks is the subject of LocalPlannerNode.                           *)
(***************************************************************************)
EXTENDS DisplacementChecker

CONSTANTS
    Goals,                  \* constraints the goals may have
    PlannedEnds,            \* where trajectories planned for them may end
    Start,                  \* where the robot stands
    kConnectPoint,          \* in ticks (0.2 s), also the period of the loop
    kPublishPeriodScale,    \* loops that are sent of a trajectory (5)
    MaxDelay                \* ticks planning may last beyond its loop

Published == kConnectPoint * kPublishPeriodScale
Horizon == 0 .. kConnectPoint + Published

(* The robot passes all positions between two. *)
ASSUME FollowingAssumption ==
    /\ \A p, q \in Position : p .. q \subseteq Position
    /\ Goals \subseteq Constraints \ {NoConstraints}
    /\ PlannedEnds \in [Goals -> (SUBSET Position) \ {{}}]
    /\ Start \in Position
    /\ kConnectPoint \in Nat \ {0}
    /\ kPublishPeriodScale \in Nat \ {0}
    /\ MaxDelay \in 0 .. kConnectPoint - 1

VARIABLES
    use_current_state_for_displacement_,    \* read once
    goal,               \* constraints_
    changed,            \* constraints_are_changed_
    current_trajectory_,
    course,             \* where the robot will be, as it was commanded (external)
    due,                \* ticks until the next Execute
    plan                \* PlanImpl: its arguments, NoPlan while Execute sleeps

vars == <<checker, use_current_state_for_displacement_, goal, changed,
          current_trajectory_, course, due, plan>>

(* A trajectory sets out at its stamp and moves steadily to its end.  What *)
(* may be missing is a set with at most one element.                       *)
Time == -(Far + Published) .. kConnectPoint
Trajectory == [stamp : Time, first : Position, last : Position]
Plan == [goal : Goals, initial : Position, stamp : Time, changed : BOOLEAN,
         previous : SUBSET Position]

Init ==
    /\ CheckerInit
    /\ use_current_state_for_displacement_ \in BOOLEAN
    /\ goal = {} /\ changed = FALSE
    /\ current_trajectory_ = {}
    /\ course = [t \in Horizon |-> Start]
    /\ due = 0
    /\ plan = {}

Length(trajectory) == Abs(trajectory.last - trajectory.first)
EndTime(trajectory) == trajectory.stamp + Length(trajectory)

(* Its state at a time; before it sets out and after it ended it stands.   *)
StateAt(trajectory, t) ==
    LET moved == IF t < trajectory.stamp THEN 0
                 ELSE IF t > EndTime(trajectory) THEN Length(trajectory)
                 ELSE t - trajectory.stamp
    IN  IF trajectory.first <= trajectory.last THEN trajectory.first + moved
                                               ELSE trajectory.first - moved

-----------------------------------------------------------------------------
(* ConstraintCallback, as a whole. *)
ReceiveGoal(constraints) ==
    /\ goal # {constraints}
    /\ goal' = {constraints}
    /\ changed' = TRUE
    /\ UpdateConstraints(constraints)
    /\ UNCHANGED <<use_current_state_for_displacement_, current_trajectory_>>
    /\ UNCHANGED <<course, due, plan>>

-----------------------------------------------------------------------------
(* Execute, up to PlanImpl. *)

target_time == kConnectPoint
JointState == course[0]

(* SearchConnectablePoint: the current trajectory has a point at the       *)
(* target time, or after it.                                               *)
Connectable == \E t \in current_trajectory_ : EndTime(t) >= target_time

(* Slips: planning starts from where the robot is, or the goal is judged   *)
(* by where it is.                                                         *)
InitialStateNow == JointState

InitialState ==
    IF Connectable THEN StateAt(CHOOSE t \in current_trajectory_ : TRUE, target_time)
                   ELSE JointState

RefStateNow == JointState

(* UpdateRobotstate takes the last point if the trajectory has ended.      *)
RefState ==
    IF use_current_state_for_displacement_ \/ current_trajectory_ = {}
    THEN JointState
    ELSE StateAt(CHOOSE t \in current_trajectory_ : TRUE, target_time)

(* The goal and its flag are taken; the next execution is due in one period*)
(* from when this one was.                                                 *)
Take(complete) ==
    /\ plan = {} /\ due <= 0 /\ goal # {}
    /\ ShouldComplete(RefState, complete)
    /\ changed' = FALSE
    /\ due' = due + kConnectPoint
    /\ UNCHANGED <<use_current_state_for_displacement_, course>>

(* "constraints are empty" *)
ExecuteEmpty ==
    /\ plan = {} /\ due <= 0 /\ goal = {}
    /\ due' = due + kConnectPoint
    /\ UNCHANGED <<checker, use_current_state_for_displacement_, goal, changed>>
    /\ UNCHANGED <<current_trajectory_, course, plan>>

(* The satisfied goal is removed. *)
CompleteGoal ==
    /\ Take(TRUE)
    /\ goal' = {}
    /\ current_trajectory_' = {}
    /\ UNCHANGED plan

(* Lengths are rounded up to ticks: what ends in the last tick before the  *)
(* target time may be over by then.  The slip skips planning for what ends *)
(* before the target time of the next execution.                           *)
TooShortForNext == \E t \in current_trajectory_ : EndTime(t) <= target_time + kConnectPoint

TooShort == \E t \in current_trajectory_ : EndTime(t) <= target_time

(* The rest of the trajectory is too short to connect to: it is played to  *)
(* its end, and planned anew in the next execution.                        *)
SkipPlanning ==
    /\ Take(FALSE)
    /\ TooShort
    /\ current_trajectory_' = {}
    /\ UNCHANGED <<goal, plan>>

(* What is left of the current trajectory is offered to the planner, unless*)
(* the goal has changed.                                                   *)
GetPreviousTrajectory ==
    IF changed THEN {} ELSE {t.last : t \in current_trajectory_}

StartPlanning ==
    /\ Take(FALSE)
    /\ current_trajectory_ = {} \/ Connectable
    /\ plan' = {[goal |-> g, initial |-> InitialState, stamp |-> target_time,
                 changed |-> changed, previous |-> GetPreviousTrajectory] : g \in goal}
    /\ UNCHANGED <<goal, current_trajectory_>>

-----------------------------------------------------------------------------
(* PlanImpl and the rest of Execute. *)

(* DeleteTrajectoryPointsAtTime: a second of it goes to the controllers,   *)
(* which play what they have until its stamp.  A stamp that is past does   *)
(* not move the robot back.                                                *)
Commanded(trajectory) ==
    [t \in Horizon |->
        IF t < trajectory.stamp \/ t = 0 THEN course[t]
        ELSE IF t > trajectory.stamp + Published
             THEN StateAt(trajectory, trajectory.stamp + Published)
             ELSE StateAt(trajectory, t)]

PlanSucceeds(p, last) ==
    /\ last \in PlannedEnds[p.goal] \cup p.previous
    /\ LET trajectory == [stamp |-> p.stamp, first |-> p.initial, last |-> last]
       IN  /\ current_trajectory_' = {trajectory}
           /\ course' = Commanded(trajectory)
    /\ plan' = {}
    /\ UNCHANGED <<checker, use_current_state_for_displacement_, goal, changed, due>>

(* The current trajectory is kept; a change of the goal is not forgotten.  *)
PlanFails(p) ==
    /\ changed' = (changed \/ p.changed)
    /\ plan' = {}
    /\ UNCHANGED <<checker, use_current_state_for_displacement_, goal>>
    /\ UNCHANGED <<current_trajectory_, course, due>>

(* Time passes while Execute sleeps or plans; the robot moves on.          *)
Later(s) == {[r EXCEPT !.stamp = @ - 1] : r \in s}

Tick ==
    /\ IF plan = {} THEN due > 0 ELSE due > -MaxDelay
    /\ due' = due - 1
    /\ course' = [t \in Horizon |-> IF t + 1 \in Horizon THEN course[t + 1] ELSE course[t]]
    /\ current_trajectory_' = Later(current_trajectory_)
    /\ plan' = Later(plan)
    /\ UNCHANGED <<checker, use_current_state_for_displacement_, goal, changed>>

PlanReturns == \E p \in plan : \E last \in Position : PlanSucceeds(p, last)

Loop ==
    \/ ExecuteEmpty
    \/ CompleteGoal
    \/ SkipPlanning
    \/ StartPlanning
    \/ \E p \in plan : PlanFails(p)

Next ==
    \/ \E constraints \in Goals : ReceiveGoal(constraints)
    \/ Loop
    \/ PlanReturns
    \/ Tick

Spec == Init /\ [][Next]_vars

(* The thread is scheduled and time passes, and a planner that is asked    *)
(* again and again finds a trajectory now and then.                        *)
FairSpec == Spec /\ WF_vars(Loop) /\ WF_vars(Tick) /\ SF_vars(PlanReturns)

-----------------------------------------------------------------------------
(* Properties. *)

TypeOK ==
    /\ CheckerTypeOK
    /\ use_current_state_for_displacement_ \in BOOLEAN
    /\ goal \in SUBSET Goals
    /\ changed \in BOOLEAN
    /\ current_trajectory_ \in SUBSET Trajectory
    /\ course \in [Horizon -> Position]
    /\ due \in -MaxDelay .. kConnectPoint
    /\ plan \in SUBSET Plan

(* Only the part of the current trajectory that was sent, or later, leads  *)
(* to where the robot is at a time.                                        *)
Sent(t) == \A trajectory \in current_trajectory_ : t <= trajectory.stamp + Published

(* "If the robot state at target_time can be obtained from the previous    *)
(* trajectory" planning starts there (node.cpp:398): what is commanded next*)
(* begins where the robot is by then, unless planning failed for so long   *)
(* that the robot has stopped short, or the time is past.                  *)
ConnectsToCourse ==
    \A p \in plan :
        current_trajectory_ # {} /\ p.stamp >= 0 /\ Sent(p.stamp)
        => p.initial = course[p.stamp]

(* A trajectory too short to connect to is played to its end, and "In the  *)
(* next loop, trajectory playback should be finished" (node.cpp:243).  It  *)
(* is if no execution is late; an execution that skips planning late leaves*)
(* the next one less than a period, and the goal is planned from a robot   *)
(* that has still to go as far as it gets in that delay, and no farther.  A*)
(* new goal is planned from a moving robot if the one before was just      *)
(* completed.                                                              *)
PlannedNearRest ==
    \A p \in plan :
        current_trajectory_ = {} /\ ~p.changed
        => \A t \in Horizon : Abs(course[t] - p.initial) <= MaxDelay

(* The state a goal is judged by is the robot's, now or, if it follows a   *)
(* trajectory, when a new one could set out.                               *)
Judged == course[IF use_current_state_for_displacement_ \/ current_trajectory_ = {}
                 THEN 0 ELSE target_time]

(* A goal that is not reached is completed because "the change has         *)
(* stopped" (README.md:103): the robot moves no more once the trajectory   *)
(* it was judged by has set out.                                           *)
StandsFrom(t) == \A later \in Horizon : later > t => course[later] = course[t]

StalledHasStopped ==
    [][CompleteGoal => Reached(checked, Judged) \/ StandsFrom(target_time)]_vars

(* It does with the parameter's default, one constraint to come near to,   *)
(* and a robot too slow to pass it by from one execution to the next, equal*)
(* displacements on both sides.                                            *)
SingleConstraint ==
    \E p \in Position : <<checked.joints, checked.links>> \in {<<{p}, {}>>, <<{}, {p}>>}

NeverPassesBy ==
    /\ kConnectPoint + MaxDelay < 2 * joint_displacement_threshold_
    /\ kConnectPoint + MaxDelay < 2 * link_displacement_threshold_

PlannedStallHasStopped ==
    [][/\ CompleteGoal
       /\ SingleConstraint /\ NeverPassesBy /\ ~use_current_state_for_displacement_
       => Reached(checked, Judged) \/ StandsFrom(target_time)]_vars

(* No goal is taken for stalled the first time it is judged, whatever the  *)
(* distance of the goal before was.                                        *)
FirstLookNeverStalls ==
    [][CompleteGoal /\ ~looked => Reached(checked, RefState)]_vars

(* A goal with hard constraints that can be reached, or where the robot    *)
(* comes to rest near enough, is completed unless another replaces it,     *)
(* however often planning fails and trajectories are skipped.              *)
GoalsEnd == \A constraints \in Goals : goal = {constraints} ~> goal # {constraints}
=============================================================================
