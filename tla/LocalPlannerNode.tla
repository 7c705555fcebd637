-------------------------- MODULE LocalPlannerNode --------------------------
(***************************************************************************)
(* RobotLocalPlannerNodeBase (node.cpp): the spin thread runs the          *)
(* subscription callbacks one at a time, the loop thread calls Execute     *)
(* over and over, and three things are shared between them, each under a   *)
(* mutex of its own: the goal being followed with its changed flag, the    *)
(* constraints the displacement checker judges, and the status list.       *)
(* An action is what a thread does from one access to shared state to the  *)
(* next; what a thread does to its own variables joins one of the two.     *)
(*                                                                         *)
(* Constraints stand for the content of a goal and tell goals apart.  The  *)
(* robot, the planner plugins and the controllers are the environment:     *)
(* what they answer is chosen nondeterministically.                        *)
(***************************************************************************)
EXTENDS PlannerStatus

CONSTANTS
    NoId,                 \* the id "" of the goal the node starts with
    Constraints,          \* contents of goals
    NoConstraints,        \* the empty content
    HardConstraints,      \* those with a hard joint or hard link constraint
    HardJoints,           \* joints named by the hard joint constraints
    Joints,
    JointStateNames,      \* the name lists joint_states messages may carry
    Controllers,          \* joint trajectory controllers
    ControllerJoints,     \* the joints of each of them
    BaseController,       \* omni_base_controller
    PlannedJoints,        \* joints a trajectory for these constraints names
    RobotLocalGoalMsgs,   \* the goals clients may send
    remove_completed_constraints_,
    use_current_state_for_displacement_,
    CallbackMax,          \* ticks a ConstraintCallback lasts at most
    PublishGap            \* ticks between two publications of the status list

Goal == [id : GoalId, constraints : Constraints, enable_base : BOOLEAN]
Trajectory == [constraints : Constraints, joints : SUBSET Joints]
AllControllers == Controllers \cup {BaseController}

NoGoal == [id |-> NoId, constraints |-> NoConstraints, enable_base |-> FALSE]
NoTrajectory == [constraints |-> NoConstraints, joints |-> {}]
Idle == NoConstraints     \* what a controller plays when it plays nothing

ASSUME NodeAssumption ==
    /\ NoId \in GoalId
    /\ NoConstraints \in Constraints
    /\ HardConstraints \subseteq Constraints \ {NoConstraints}
    /\ HardJoints \in [Constraints -> SUBSET Joints]
    /\ PlannedJoints \in [Constraints -> SUBSET Joints]
    /\ JointStateNames \subseteq (SUBSET Joints) \ {{}}
    /\ ControllerJoints \in [Controllers -> SUBSET Joints]
    /\ BaseController \notin Controllers
    /\ RobotLocalGoalMsgs \subseteq {m \in Goal : m.id # NoId}
    /\ remove_completed_constraints_ \in BOOLEAN
    /\ use_current_state_for_displacement_ \in BOOLEAN
    /\ CallbackMax \in Nat /\ PublishGap \in Nat

(* An entry outlives a callback and the gap between two publications.  The *)
(* properties that need it say so; it is not an assumption of the node.    *)
TimingBounds == CallbackMax + PublishGap <= Retention

VARIABLES
    constraints_,               \* the goal being followed
    constraints_are_changed_,   \* set by the callback, taken by Execute
    checker_constraints,        \* what displacement_checker_ judges
    statuses,                   \* constraints_statuses_ of status_pub_
    joint_state_,               \* names in the last joint_states, {} before it
    base_controller_state_,     \* whether a base state has arrived
    current_trajectory_,        \* loop thread: the trajectory last published
    enable_base_prev_,          \* loop thread: whether that moved the base
    is_empty,                   \* last is_constraints_empty message
    playing,                    \* what each controller is playing (external)
    cb_pc, cb_msg, cb_age,      \* ConstraintCallback: step, message, ticks
    loop_pc, execute,           \* Execute: step and local variables
    received,                   \* history: the goals clients have sent
    seen,                       \* history: verdicts published for each id
    unpublished                 \* ticks since the last publication

callback == <<cb_pc, cb_msg, cb_age, received>>
goals    == <<constraints_, constraints_are_changed_, checker_constraints>>
robot    == <<joint_state_, base_controller_state_>>
output   == <<current_trajectory_, enable_base_prev_, playing>>
loop     == <<loop_pc, execute>>
report   == <<seen, unpublished>>
vars == <<callback, goals, robot, output, loop, report, statuses, is_empty>>

IsEmpty(goal) == goal.constraints = NoConstraints

(* Local variables of Execute.  ref is the joint names of ref_state;       *)
(* judged records which constraints ShouldComplete looked at.              *)
Locals == [goal : Goal, changed : BOOLEAN, ref : SUBSET Joints,
           judged : Constraints, previous : Trajectory, trajectory : Trajectory]
NoLocals == [goal |-> NoGoal, changed |-> FALSE, ref |-> {},
             judged |-> NoConstraints,
             previous |-> NoTrajectory, trajectory |-> NoTrajectory]

Init ==
    /\ constraints_ = NoGoal
    /\ constraints_are_changed_ = FALSE
    /\ checker_constraints = NoConstraints
    /\ statuses = EmptyList
    /\ joint_state_ = {}
    /\ base_controller_state_ = FALSE
    /\ current_trajectory_ = NoTrajectory
    /\ enable_base_prev_ = FALSE
    /\ is_empty = FALSE
    /\ playing = [c \in AllControllers |-> Idle]
    /\ cb_pc = "idle" /\ cb_msg = NoGoal /\ cb_age = 0
    /\ loop_pc = "starting" /\ execute = NoLocals
    /\ received = {}
    /\ seen = [id \in GoalId |-> {}]
    /\ unpublished = 0

-----------------------------------------------------------------------------
(* The spin thread. *)

(* ConstraintCallback begins: the goal it replaces is preempted.  Only this*)
(* thread writes constraints_.id, so reading it without the mutex is safe. *)
(* Clients never use an id twice.                                          *)

(* A slip: the goal that is replaced is not preempted. *)
PreemptNobody == UNCHANGED statuses

PreemptFollowed ==
    statuses' = UpdateConstraintsStatus(statuses, constraints_.id, "PREEMPTED")

ReceiveGoal(m) ==
    /\ cb_pc = "idle"
    /\ \A r \in received : r.id # m.id
    /\ PreemptFollowed
    /\ cb_pc' = "register"
    /\ cb_msg' = m
    /\ cb_age' = 0
    /\ received' = received \cup {m}
    /\ UNCHANGED <<goals, robot, output, loop, report, is_empty>>

RegisterGoal ==
    /\ cb_pc = "register"
    /\ statuses' = UpdateConstraintsStatus(statuses, cb_msg.id, "NOT_USED")
    /\ cb_pc' = "update_checker"
    /\ UNCHANGED <<cb_msg, cb_age, received>>
    /\ UNCHANGED <<goals, robot, output, loop, report, is_empty>>

(* TransformConstraints waits for transforms before this step; its result  *)
(* is ignored, the goal goes on with whatever was transformed.             *)
UpdateConstraints ==
    /\ cb_pc = "update_checker"
    /\ checker_constraints' = cb_msg.constraints
    /\ cb_pc' = "install"
    /\ UNCHANGED <<cb_msg, cb_age, received>>
    /\ UNCHANGED <<constraints_, constraints_are_changed_, statuses>>
    /\ UNCHANGED <<robot, output, loop, report, is_empty>>

(* A slip: the changed flag is not set. *)
NoticeNothing == UNCHANGED constraints_are_changed_

NoticeChange == constraints_are_changed_' = TRUE

InstallGoal ==
    /\ cb_pc = "install"
    /\ constraints_' = cb_msg
    /\ NoticeChange
    /\ cb_pc' = "idle"
    /\ cb_msg' = NoGoal
    /\ cb_age' = 0
    /\ UNCHANGED <<received, checker_constraints, statuses>>
    /\ UNCHANGED <<robot, output, loop, report, is_empty>>

JointStateCallback(names) ==
    /\ cb_pc = "idle"
    /\ joint_state_' = names
    /\ UNCHANGED <<base_controller_state_, callback, goals, output, loop>>
    /\ UNCHANGED <<report, statuses, is_empty>>

BaseControllerStateCallback ==
    /\ cb_pc = "idle"
    /\ base_controller_state_' = TRUE
    /\ UNCHANGED <<joint_state_, callback, goals, output, loop>>
    /\ UNCHANGED <<report, statuses, is_empty>>

-----------------------------------------------------------------------------
(* The loop thread: Run waits until IsReady, then Execute is called again  *)
(* and again.  A planner with action servers is ready later, when they are *)
(* (node.cpp:472-480): StartLoop may come any time after it is enabled, and*)
(* only its fairness assumes that it does.                                 *)

IsReady == joint_state_ # {} /\ base_controller_state_

StartLoop ==
    /\ loop_pc = "starting"
    /\ IsReady
    /\ loop_pc' = "idle"
    /\ UNCHANGED <<execute, callback, goals, robot, output>>
    /\ UNCHANGED <<report, statuses, is_empty>>

(* Execute returns: its local variables are gone. *)
Return == loop_pc' = "idle" /\ execute' = NoLocals

(* Execute takes the goal and the flag under constraints_mutex_. *)
CopyGoal ==
    /\ loop_pc = "idle"
    /\ execute' = [NoLocals EXCEPT !.goal = constraints_,
                                   !.changed = constraints_are_changed_]
    /\ constraints_are_changed_' = FALSE
    /\ \/ /\ ~IsEmpty(constraints_)
          /\ loop_pc' = "running"
          /\ UNCHANGED is_empty
       \/ /\ IsEmpty(constraints_) /\ constraints_are_changed_
          /\ loop_pc' = "stop"
          /\ UNCHANGED is_empty
       \/ /\ IsEmpty(constraints_) /\ ~constraints_are_changed_
          /\ loop_pc' = "publish"
          /\ is_empty' = TRUE
    /\ UNCHANGED <<constraints_, checker_constraints>>
    /\ UNCHANGED <<callback, robot, output, report, statuses>>

(* PublishStopTrajectory of joints: every controller that has one of them. *)
Stopped(play, joints) ==
    [c \in AllControllers |->
        IF c \in Controllers /\ ControllerJoints[c] \cap joints # {}
        THEN Idle ELSE play[c]]

BaseStopped(play) == [play EXCEPT ![BaseController] = Idle]

(* Slips: the base is forgotten with the trajectory; what is reported goes *)
(* to the goal followed now.                                               *)
ForgetBaseToo == current_trajectory_' = NoTrajectory /\ enable_base_prev_' = FALSE
FollowedId == constraints_.id

ForgetTrajectory == current_trajectory_' = NoTrajectory /\ UNCHANGED enable_base_prev_
HeldId == execute.goal.id

(* An empty goal has just arrived: what moves is stopped. *)
StopOnEmpty ==
    /\ loop_pc = "stop"
    /\ LET stopped == Stopped(playing, current_trajectory_.joints)
       IN  playing' = IF enable_base_prev_ THEN BaseStopped(stopped) ELSE stopped
    /\ ForgetTrajectory
    /\ statuses' = UpdateConstraintsStatus(statuses, HeldId, "EMPTY")
    /\ is_empty' = TRUE
    /\ loop_pc' = "publish"
    /\ UNCHANGED <<execute, callback, goals, robot, report>>

MarkRunning ==
    /\ loop_pc = "running"
    /\ statuses' = UpdateConstraintsStatus(statuses, HeldId, "RUNNING")
    /\ loop_pc' = "robot_state"
    /\ UNCHANGED <<execute, callback, goals, robot, output, report, is_empty>>

(* UpdateRobotstate lays the current trajectory's state at the connection  *)
(* time, or its last point, over the last joint_states message.  It fails  *)
(* when the trajectory names a joint that message does not.                *)
OverwriteRobotState == current_trajectory_.joints \subseteq joint_state_

UpdateRobotstate ==
    /\ loop_pc = "robot_state"
    /\ \/ /\ OverwriteRobotState
          /\ execute' = [execute EXCEPT !.ref = joint_state_]
          /\ loop_pc' = "should_complete"
          /\ UNCHANGED is_empty
       \/ /\ ~OverwriteRobotState
          /\ is_empty' = FALSE
          /\ loop_pc' = "publish"
          /\ UNCHANGED execute
    /\ UNCHANGED <<callback, goals, robot, output, report, statuses>>

(* What ShouldComplete may answer.  try_lock fails only while the callback *)
(* is about to leave UpdateConstraints.  The judgement of the displacement *)
(* is the robot's choice; without a hard constraint it is never complete.  *)
RefJoints == IF use_current_state_for_displacement_ THEN joint_state_ ELSE execute.ref

Judgements ==
    (IF cb_pc = "update_checker" THEN {"kNotComplete"} ELSE {})
    \cup
    (IF ~(HardJoints[checker_constraints] \subseteq RefJoints)
     THEN {"kInvalidRobotState"}
     ELSE {"kNotComplete"} \cup
          (IF checker_constraints \in HardConstraints THEN {"kComplete"} ELSE {}))

ShouldComplete(result) ==
    /\ loop_pc = "should_complete"
    /\ result \in Judgements
    /\ execute' = [execute EXCEPT !.judged = checker_constraints]
    /\ \/ /\ result = "kComplete" /\ remove_completed_constraints_
          /\ loop_pc' = "clear"
          /\ UNCHANGED is_empty
       \/ /\ result = "kComplete" /\ ~remove_completed_constraints_
          /\ loop_pc' = "satisfied"
          /\ UNCHANGED is_empty
       \/ /\ result = "kInvalidRobotState"
          /\ is_empty' = FALSE
          /\ loop_pc' = "publish"
       \/ /\ result = "kNotComplete"
          /\ loop_pc' = "decide"
          /\ UNCHANGED is_empty
    /\ UNCHANGED <<callback, goals, robot, output, report, statuses>>

(* A slip: the goal is not removed. *)
KeepGoal(goal) == goal

(* Clear keeps the id. *)
Clear(goal) == [goal EXCEPT !.constraints = NoConstraints, !.enable_base = FALSE]

(* The satisfied goal is removed: whatever goal constraints_ holds by now  *)
(* loses its content.                                                      *)
ClearConstraints ==
    /\ loop_pc = "clear"
    /\ ForgetTrajectory
    /\ constraints_' = Clear(constraints_)
    /\ loop_pc' = "satisfied"
    /\ UNCHANGED <<constraints_are_changed_, checker_constraints>>
    /\ UNCHANGED <<playing, execute, callback, robot>>
    /\ UNCHANGED <<report, statuses, is_empty>>

MarkSatisfied ==
    /\ loop_pc = "satisfied"
    /\ is_empty' = TRUE
    /\ statuses' = UpdateConstraintsStatus(statuses, HeldId, "SATISFIED")
    /\ loop_pc' = "publish"
    /\ UNCHANGED <<execute, callback, goals, robot, output, report>>

(* PublishImpl_: forget what is too old, send the rest. *)
PublishImpl_ ==
    /\ statuses' = Unexpired(statuses)
    /\ seen' = [id \in GoalId |->
                   seen[id] \cup ({Unexpired(statuses)[id].value} \cap Terminal)]
    /\ unpublished' = 0

(* The publication that ends every Execute which does not plan. *)
Publish ==
    /\ loop_pc = "publish"
    /\ PublishImpl_
    /\ Return
    /\ UNCHANGED <<callback, goals, robot, output, is_empty>>

(* The current trajectory ends before a new one could connect to it.       *)
SkipPlanning ==
    /\ loop_pc = "decide"
    /\ current_trajectory_ # NoTrajectory
    /\ ForgetTrajectory
    /\ is_empty' = FALSE
    /\ loop_pc' = "publish"
    /\ UNCHANGED <<playing, execute>>
    /\ UNCHANGED <<callback, goals, robot, report, statuses>>

(* What is left of the current trajectory, if any. *)
GetPreviousTrajectory == {NoTrajectory, current_trajectory_}

StartPlanning ==
    /\ loop_pc = "decide"
    /\ \E previous \in IF execute.changed THEN {NoTrajectory}
                       ELSE GetPreviousTrajectory :
          execute' = [execute EXCEPT !.previous = previous]
    /\ is_empty' = FALSE
    /\ loop_pc' = "plan"
    /\ UNCHANGED <<callback, goals, robot, output, report, statuses>>

(* PlanImpl waits for the planner, which fails (no trajectory), plans anew *)
(* or keeps the previous trajectory it was offered.                        *)
PlanResults ==
    {execute.previous,
     [constraints |-> execute.goal.constraints,
      joints |-> PlannedJoints[execute.goal.constraints]]}

PlanAnswers ==
    /\ loop_pc = "plan"
    /\ PublishImpl_
    /\ \/ \E trajectory \in PlanResults \ {NoTrajectory} :
             /\ execute' = [execute EXCEPT !.trajectory = trajectory]
             /\ loop_pc' = "command"
       \/ /\ execute.changed
          /\ loop_pc' = "restore"
          /\ UNCHANGED execute
       \/ /\ ~execute.changed
          /\ Return
    /\ UNCHANGED <<callback, goals, robot, output, is_empty>>

RestoreChanged ==
    /\ loop_pc = "restore"
    /\ NoticeChange
    /\ Return
    /\ UNCHANGED <<constraints_, checker_constraints>>
    /\ UNCHANGED <<callback, robot, output, report, statuses, is_empty>>

(* PublishJointTrajectory: every controller that has a joint of it. *)
Started(play, trajectory) ==
    [c \in AllControllers |->
        IF c \in Controllers /\ ControllerJoints[c] \cap trajectory.joints # {}
        THEN trajectory.constraints ELSE play[c]]

FindMissingStrings(before, after) == before \ after

(* The new trajectory goes out, then the joints and the base it no longer  *)
(* uses are stopped, and it becomes the current one.                       *)
CommandTrajectory ==
    /\ loop_pc = "command"
    /\ LET new     == execute.trajectory
           missing == FindMissingStrings(current_trajectory_.joints, new.joints)
           started == Started(playing, new)
           base    == IF execute.goal.enable_base
                      THEN [started EXCEPT ![BaseController] = new.constraints]
                      ELSE started
           stopped == Stopped(base, missing)
       IN  /\ playing' = IF enable_base_prev_ /\ ~execute.goal.enable_base
                         THEN BaseStopped(stopped) ELSE stopped
           /\ current_trajectory_' = new
    /\ enable_base_prev_' = execute.goal.enable_base
    /\ Return
    /\ UNCHANGED <<callback, goals, robot, report, statuses, is_empty>>

-----------------------------------------------------------------------------
(* The environment. *)

(* A controller reaches the end of what it plays. *)
PlaybackFinishes(c) ==
    /\ playing[c] # Idle
    /\ playing' = [playing EXCEPT ![c] = Idle]
    /\ UNCHANGED <<current_trajectory_, enable_base_prev_>>
    /\ UNCHANGED <<callback, goals, robot, loop, report, statuses, is_empty>>

(* Time passes, up to the bounds on a callback and on the gap between two  *)
(* publications.  The gap counts once there is a goal to report on.        *)
Tick ==
    /\ cb_pc # "idle" => cb_age < CallbackMax
    /\ unpublished < PublishGap
    /\ statuses' = Aged(statuses)
    /\ cb_age' = IF cb_pc = "idle" THEN 0 ELSE cb_age + 1
    /\ unpublished' = IF received = {} THEN 0 ELSE unpublished + 1
    /\ UNCHANGED <<cb_pc, cb_msg, received, seen>>
    /\ UNCHANGED <<goals, robot, output, loop, is_empty>>

SpinThread ==
    \/ \E m \in RobotLocalGoalMsgs : ReceiveGoal(m)
    \/ RegisterGoal
    \/ UpdateConstraints
    \/ InstallGoal
    \/ \E names \in JointStateNames : JointStateCallback(names)
    \/ BaseControllerStateCallback

LoopThread ==
    \/ StartLoop
    \/ CopyGoal
    \/ StopOnEmpty
    \/ MarkRunning
    \/ UpdateRobotstate
    \/ \E result \in {"kComplete", "kNotComplete", "kInvalidRobotState"} :
          ShouldComplete(result)
    \/ ClearConstraints
    \/ MarkSatisfied
    \/ SkipPlanning
    \/ StartPlanning
    \/ PlanAnswers
    \/ RestoreChanged
    \/ CommandTrajectory
    \/ Publish

Environment ==
    \/ \E c \in AllControllers : PlaybackFinishes(c)
    \/ Tick

Next == SpinThread \/ LoopThread \/ Environment

Spec == Init /\ [][Next]_vars

(* The threads are scheduled, the planner answers, the robot publishes its *)
(* state.  Clients need not send goals, time need not pass.                *)
FairSpec ==
    /\ Spec
    /\ WF_vars(LoopThread)
    /\ WF_vars(RegisterGoal \/ UpdateConstraints \/ InstallGoal)
    /\ WF_vars(joint_state_ = {} /\ \E names \in JointStateNames : JointStateCallback(names))
    /\ WF_vars(BaseControllerStateCallback)

-----------------------------------------------------------------------------
(* Properties. *)

TypeOK ==
    /\ constraints_ \in Goal
    /\ constraints_are_changed_ \in BOOLEAN
    /\ checker_constraints \in Constraints
    /\ statuses \in StatusList
    /\ joint_state_ \in SUBSET Joints
    /\ base_controller_state_ \in BOOLEAN
    /\ current_trajectory_ \in Trajectory
    /\ enable_base_prev_ \in BOOLEAN
    /\ is_empty \in BOOLEAN
    /\ playing \in [AllControllers -> Constraints]
    /\ cb_pc \in {"idle", "register", "update_checker", "install"}
    /\ cb_msg \in Goal
    /\ cb_age \in 0 .. CallbackMax
    /\ loop_pc \in {"starting", "idle", "stop", "running", "robot_state",
                    "should_complete", "clear", "satisfied", "decide", "plan",
                    "restore", "command", "publish"}
    /\ execute \in Locals
    /\ received \subseteq RobotLocalGoalMsgs
    /\ seen \in [GoalId -> SUBSET Terminal]
    /\ unpublished \in 0 .. PublishGap

(* ConstraintCallback shows the checker the new constraints before Execute *)
(* can take the new goal, so Execute may judge the new constraints while it*)
(* holds the old goal.  No goal is reported satisfied on the strength of   *)
(* another goal's constraints all the same.                                *)
SatisfiedIsSound ==
    [][\A id \in GoalId :
          statuses[id].value # "SATISFIED" /\ statuses'[id].value = "SATISFIED"
          => \E m \in received : m.id = id /\ m.constraints = execute.judged]_vars

(* Of all the goals in the status list only the last one received can be   *)
(* open: whatever Execute still does for an older goal does not reopen it. *)
NewestId == IF cb_pc = "idle" THEN constraints_.id ELSE cb_msg.id

OnlyNewestGoalIsLive ==
    \A id \in GoalId : statuses[id].value \in Live => id = NewestId

(* A goal whose verdict was published is not open again later on, when the *)
(* list has forgotten it.                                                  *)
NoGoalReopens ==
    \A id \in GoalId : seen[id] # {} => statuses[id].value \notin Live

(* PublishImpl_ erases no open goal, and no verdict it has not sent before.*)
ForgottenOnlyAfterReport ==
    [][\A id \in GoalId :
          statuses[id] # NoEntry /\ statuses'[id] = NoEntry
          => statuses[id].value \in seen[id]]_vars

(* When switching constraints the previous trajectory is excluded from     *)
(* being selected (node.cpp:253), however the executions in between ended. *)
OldTrajectoryExcluded ==
    loop_pc = "plan" /\ execute.previous # NoTrajectory
    => execute.previous.constraints = execute.goal.constraints

(* The node stops the base when a goal ends EMPTY, whatever became of the  *)
(* goals and trajectories since it started to move it.                     *)
EmptyGoalStopsBase ==
    [][\A id \in GoalId :
          statuses[id].value # "EMPTY" /\ statuses'[id].value = "EMPTY"
          => playing'[BaseController] = Idle]_vars

(* A client that was told its goal is satisfied may take over: Execute     *)
(* sends no trajectory for that goal any more.                             *)
SatisfiedGoalIsNotCommanded ==
    [][CommandTrajectory => "SATISFIED" \notin seen[execute.goal.id]]_vars

(* Between two executions is_constraints_empty is true only if the goal    *)
(* followed is gone, unless a new one is waiting to be taken.              *)
EmptyFlagIsTrue ==
    loop_pc = "idle" /\ is_empty /\ ~constraints_are_changed_
    => IsEmpty(constraints_)

(* A goal that is no longer followed, or that asks to stop, is told so.    *)
NoGoalLeftUnanswered ==
    \A m \in RobotLocalGoalMsgs :
        m \in received /\ cb_msg # m /\ (constraints_ # m \/ IsEmpty(m))
        ~> seen[m.id] # {}

(* A goal does not stay NOT_USED. *)
EveryGoalIsTaken ==
    \A id \in GoalId :
        statuses[id].value = "NOT_USED" ~> statuses[id].value # "NOT_USED"

-----------------------------------------------------------------------------
(* Why SatisfiedIsSound and OnlyNewestGoalIsLive hold.  A goal is preempted*)
(* before anything of its successor is visible to Execute, so an Execute   *)
(* that holds a goal either holds the one followed, with no callback under *)
(* way and its own constraints in the checker, or a goal that is closed.   *)

Closed(id) == statuses[id].value \in Terminal
Sent(id) == \E m \in received : m.id = id

IdsAreSent ==
    /\ constraints_.id = NoId => IsEmpty(constraints_)
    /\ \A id \in {constraints_.id, execute.goal.id} : id = NoId \/ Sent(id)
    /\ \A id \in GoalId : statuses[id] # NoEntry => id = NoId \/ Sent(id)

CallbackIsAhead ==
    cb_pc # "idle" =>
        /\ cb_msg \in received
        /\ cb_msg.id \notin {constraints_.id, execute.goal.id}
        /\ ~Closed(cb_msg.id)
        /\ cb_pc = "install" => checker_constraints = cb_msg.constraints

CheckerFollows ==
    cb_pc = "idle" /\ constraints_.id # NoId
    => \E m \in received :
          m.id = constraints_.id /\ m.constraints = checker_constraints

FollowedIsOpen ==
    ~IsEmpty(constraints_) =>
        /\ cb_pc = "idle" => ~Closed(constraints_.id)
        /\ cb_pc # "idle" => /\ Closed(constraints_.id)
                             /\ statuses[constraints_.id].age <= cb_age
        /\ loop_pc \in {"stop", "satisfied"} => constraints_.id # execute.goal.id

HeldIsFollowedOrClosed ==
    loop_pc \in {"running", "robot_state", "should_complete", "clear", "satisfied"} =>
        /\ execute.goal.id # NoId
        /\ \/ Closed(execute.goal.id)
           \/ cb_pc = "idle" /\ constraints_.id = execute.goal.id

JudgedIsOwn ==
    loop_pc \in {"clear", "satisfied"} =>
        \/ Closed(execute.goal.id)
        \/ \E m \in received :
              m.id = execute.goal.id /\ m.constraints = execute.judged

GoalTracking ==
    /\ IdsAreSent
    /\ CallbackIsAhead
    /\ CheckerFollows
    /\ FollowedIsOpen
    /\ HeldIsFollowedOrClosed
    /\ JudgedIsOwn
    /\ OnlyNewestGoalIsLive

-----------------------------------------------------------------------------
(* What comments and the README say of the node, and the node does not do. *)

(* remove_completed_constraints deletes the constraints that are satisfied *)
(* (README.md:61): a goal that was not sent empty does not end EMPTY.      *)
OnlyEmptyGoalsEndEmpty ==
    [][\A id \in GoalId :
          statuses[id].value # "EMPTY" /\ statuses'[id].value = "EMPTY"
          => \E m \in received : m.id = id /\ IsEmpty(m)]_vars

(* "stop the joints that are no longer used" (node.cpp:302): no controller *)
(* that has a joint of the new trajectory is stopped with them.            *)
UsedControllersPlay ==
    [][CommandTrajectory =>
          \A c \in Controllers :
              ControllerJoints[c] \cap current_trajectory_'.joints # {}
              => playing'[c] = current_trajectory_'.constraints]_vars

-----------------------------------------------------------------------------
(* The node implements GoalLifecycle.  A goal's phase is the first verdict *)
(* published for it, else what the status list says of it.  A verdict that *)
(* was published and forgotten may be followed by a late PREEMPTED, never  *)
(* by another one, so an earlier verdict is recognised by its value.       *)
PhaseOf(value) ==
    CASE value = "ABSENT"    -> "unknown"
      [] value = "NOT_USED"  -> "waiting"
      [] value = "RUNNING"   -> "running"
      [] value = "SATISFIED" -> "satisfied"
      [] value = "PREEMPTED" -> "preempted"
      [] value = "EMPTY"     -> "empty"

ClientIds == GoalId \ {NoId}

ClientPhase(id) ==
    IF "SATISFIED" \in seen[id] THEN "satisfied"
    ELSE IF "EMPTY" \in seen[id] THEN "empty"
    ELSE IF "PREEMPTED" \in seen[id] THEN "preempted"
    ELSE PhaseOf(statuses[id].value)

Lifecycle == INSTANCE GoalLifecycle WITH
    Goals <- ClientIds,
    phase <- [id \in ClientIds |-> ClientPhase(id)],
    reported <- {id \in ClientIds : seen[id] # {}}

(* Towards its clients the node behaves as GoalLifecycle allows. *)
ImplementsLifecycle == Lifecycle!LifecycleSpec

(* It also publishes every verdict, if its threads are scheduled and the   *)
(* planner answers.                                                        *)
ImplementsFairLifecycle == Lifecycle!FairLifecycleSpec
=============================================================================
