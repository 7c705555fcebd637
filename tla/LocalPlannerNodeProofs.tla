----------------------- MODULE LocalPlannerNodeProofs -----------------------
(***************************************************************************)
(* Proofs about LocalPlannerNode for every value of its constants: type    *)
(* correctness, that an empty goal always stops the base, and, where       *)
(* completed goals are removed and the list outlives a callback, that only *)
(* the newest goal is open and that no goal is called satisfied on the     *)
(* strength of another goal's constraints.  At the end, what three runs    *)
(* find violated is proved where it is not: with controllers that are      *)
(* planned for as a whole, with joint states that name every joint, and    *)
(* with satisfied goals that are kept.                                     *)
(***************************************************************************)
EXTENDS LocalPlannerNode, TLAPS

(* Names for single assignments and for a read are always expanded. *)
USE DEF PreemptFollowed, NoticeChange, ForgetTrajectory, HeldId

Statuses == Live \cup Terminal

(* Writing a status keeps the list a list. *)
LEMMA UpdateType ==
    ASSUME NEW list \in StatusList, NEW name \in GoalId, NEW status \in Statuses
    PROVE  UpdateConstraintsStatus(list, name, status) \in StatusList
<1>1. [value |-> status, age |-> 0] \in [value : Live \cup Terminal, age : Age]
  BY RetentionAssumption DEF Age, Statuses
<1>2. QED
  BY <1>1 DEF UpdateConstraintsStatus, StatusList

(* A status written for one goal leaves the other goals' entries alone, and*)
(* the goal's own as well when it is closed.                               *)
LEMMA UpdateValue ==
    ASSUME NEW list \in StatusList, NEW name \in GoalId, NEW status, NEW id \in GoalId
    PROVE  /\ id # name
              => UpdateConstraintsStatus(list, name, status)[id] = list[id]
           /\ list[id].value \in Terminal
              => UpdateConstraintsStatus(list, name, status)[id] = list[id]
           /\ list[name].value \notin Terminal
              => UpdateConstraintsStatus(list, name, status)[name]
                   = [value |-> status, age |-> 0]
           /\ UpdateConstraintsStatus(list, name, status)[id].value
                 \in {list[id].value, status}
BY DEF UpdateConstraintsStatus, StatusList

(* Forgetting keeps an entry or removes it. *)
LEMMA UnexpiredType ==
    ASSUME NEW list \in StatusList
    PROVE  /\ Unexpired(list) \in StatusList
           /\ \A id \in GoalId : Unexpired(list)[id] \in {list[id], NoEntry}
BY DEF Unexpired, StatusList

(* Getting older changes no status. *)
LEMMA AgedType ==
    ASSUME NEW list \in StatusList
    PROVE  /\ Aged(list) \in StatusList
           /\ \A id \in GoalId : Aged(list)[id].value = list[id].value
           /\ \A id \in GoalId : Aged(list)[id].age <= list[id].age + 1
<1> SUFFICES ASSUME NEW id \in GoalId
             PROVE  /\ Aged(list)[id] \in
                         [value : Live \cup Terminal, age : Age] \cup {NoEntry}
                    /\ Aged(list)[id].value = list[id].value
                    /\ Aged(list)[id].age <= list[id].age + 1
  BY DEF Aged, StatusList
<1>1. list[id] \in [value : Live \cup Terminal, age : Age] \cup {NoEntry}
  BY DEF StatusList
<1>2. CASE list[id] = NoEntry \/ Expired(list, id)
  <2>1. Aged(list)[id] = list[id]
    BY <1>2 DEF Aged
  <2>2. list[id].age \in Nat
    BY <1>1, RetentionAssumption DEF Age, NoEntry
  <2>3. QED BY <1>1, <2>1, <2>2
<1>3. CASE ~(list[id] = NoEntry \/ Expired(list, id))
  <2>1. /\ list[id] \in [value : Live \cup Terminal, age : Age]
        /\ list[id].age <= Retention
    BY <1>1, <1>3, RetentionAssumption DEF Expired, Age
  <2>2. Aged(list)[id] = [list[id] EXCEPT !.age = @ + 1]
    BY <1>3 DEF Aged
  <2>3. /\ Aged(list)[id].value = list[id].value
        /\ Aged(list)[id].age = list[id].age + 1
    BY <2>1, <2>2
  <2>4. list[id].age + 1 \in Age
    BY <2>1, RetentionAssumption DEF Age
  <2>5. QED BY <2>1, <2>2, <2>3, <2>4, RetentionAssumption DEF Age
<1>4. QED BY <1>2, <1>3

-----------------------------------------------------------------------------
(* Type correctness. *)

LEMMA ConstantTypes ==
    /\ NoGoal \in Goal
    /\ NoTrajectory \in Trajectory
    /\ NoLocals \in Locals
    /\ Idle \in Constraints
    /\ RobotLocalGoalMsgs \subseteq Goal
BY NodeAssumption DEF NoGoal, Goal, NoTrajectory, Trajectory, NoLocals, Locals, Idle

LEMMA InitType == Init => TypeOK
<1> SUFFICES ASSUME Init PROVE TypeOK
  OBVIOUS
<1>1. statuses \in StatusList
  BY DEF Init, EmptyList, StatusList
<1>2. playing \in [AllControllers -> Constraints]
  BY ConstantTypes DEF Init
<1>3. cb_age \in 0 .. CallbackMax /\ unpublished \in 0 .. PublishGap
  BY NodeAssumption DEF Init
<1>4. QED
  BY <1>1, <1>2, <1>3, ConstantTypes, NodeAssumption DEF Init, TypeOK

(* The controllers keep playing contents of goals. *)
LEMMA PlayingType ==
    ASSUME NEW play \in [AllControllers -> Constraints], NEW joints,
           NEW trajectory \in Trajectory, NEW content \in Constraints
    PROVE  /\ Stopped(play, joints) \in [AllControllers -> Constraints]
           /\ BaseStopped(play) \in [AllControllers -> Constraints]
           /\ Started(play, trajectory) \in [AllControllers -> Constraints]
           /\ [play EXCEPT ![BaseController] = content]
                 \in [AllControllers -> Constraints]
BY ConstantTypes DEF Stopped, BaseStopped, Started, AllControllers, Trajectory

LEMMA SpinThreadType == TypeOK /\ SpinThread => TypeOK'
<1> SUFFICES ASSUME TypeOK, SpinThread PROVE TypeOK'
  OBVIOUS
<1> USE DEF TypeOK, goals, robot, output, loop, report, callback
<1>1. ASSUME NEW m \in RobotLocalGoalMsgs, ReceiveGoal(m) PROVE TypeOK'
  <2>1. statuses' \in StatusList
    BY <1>1, UpdateType DEF ReceiveGoal, Statuses, Terminal, Goal
  <2>2. cb_msg' \in Goal /\ cb_age' \in 0 .. CallbackMax
    BY <1>1, ConstantTypes, NodeAssumption DEF ReceiveGoal
  <2>3. QED BY <1>1, <2>1, <2>2 DEF ReceiveGoal
<1>2. CASE RegisterGoal
  <2>1. statuses' \in StatusList
    BY <1>2, UpdateType DEF RegisterGoal, Statuses, Live, Goal
  <2>2. QED BY <1>2, <2>1 DEF RegisterGoal
<1>3. CASE UpdateConstraints
  BY <1>3 DEF UpdateConstraints, Goal
<1>4. CASE InstallGoal
  BY <1>4, ConstantTypes, NodeAssumption DEF InstallGoal
<1>5. ASSUME NEW names \in JointStateNames, JointStateCallback(names) PROVE TypeOK'
  BY <1>5, NodeAssumption DEF JointStateCallback
<1>6. CASE BaseControllerStateCallback
  BY <1>6 DEF BaseControllerStateCallback
<1>7. QED
  BY <1>1, <1>2, <1>3, <1>4, <1>5, <1>6 DEF SpinThread

LEMMA PublishType ==
    ASSUME TypeOK, PublishImpl_
    PROVE  /\ statuses' \in StatusList
           /\ seen' \in [GoalId -> SUBSET Terminal]
           /\ unpublished' \in 0 .. PublishGap
<1>1. statuses' \in StatusList
  BY UnexpiredType DEF TypeOK, PublishImpl_
<1>2. seen' \in [GoalId -> SUBSET Terminal]
  BY DEF TypeOK, PublishImpl_
<1>3. unpublished' \in 0 .. PublishGap
  BY NodeAssumption DEF PublishImpl_
<1>4. QED BY <1>1, <1>2, <1>3

LEMMA LoopThreadType == TypeOK /\ LoopThread => TypeOK'
<1> SUFFICES ASSUME TypeOK, LoopThread PROVE TypeOK'
  OBVIOUS
<1> USE DEF TypeOK, goals, robot, output, loop, report, callback
<1>1. CASE StartLoop
  BY <1>1 DEF StartLoop
<1>2. CASE CopyGoal
  <2>1. execute' \in Locals
    BY <1>2, ConstantTypes DEF CopyGoal, Locals
  <2>2. QED BY <1>2, <2>1 DEF CopyGoal
<1>3. CASE StopOnEmpty
  <2>1. statuses' \in StatusList
    BY <1>3, UpdateType DEF StopOnEmpty, Statuses, Terminal, Locals, Goal
  <2>2. playing' \in [AllControllers -> Constraints]
    BY <1>3, PlayingType, ConstantTypes DEF StopOnEmpty
  <2>3. QED BY <1>3, <2>1, <2>2, ConstantTypes DEF StopOnEmpty
<1>4. CASE MarkRunning
  <2>1. statuses' \in StatusList
    BY <1>4, UpdateType DEF MarkRunning, Statuses, Live, Locals, Goal
  <2>2. QED BY <1>4, <2>1 DEF MarkRunning
<1>5. CASE UpdateRobotstate
  <2>1. execute' \in Locals
    BY <1>5 DEF UpdateRobotstate, Locals
  <2>2. QED BY <1>5, <2>1 DEF UpdateRobotstate
<1>6. ASSUME NEW result, ShouldComplete(result) PROVE TypeOK'
  <2>1. execute' \in Locals
    BY <1>6 DEF ShouldComplete, Locals
  <2>2. QED BY <1>6, <2>1 DEF ShouldComplete
<1>7. CASE ClearConstraints
  <2>1. constraints_' \in Goal
    BY <1>7, NodeAssumption DEF ClearConstraints, Clear, Goal
  <2>2. QED BY <1>7, <2>1, ConstantTypes DEF ClearConstraints
<1>8. CASE MarkSatisfied
  <2>1. statuses' \in StatusList
    BY <1>8, UpdateType DEF MarkSatisfied, Statuses, Terminal, Locals, Goal
  <2>2. QED BY <1>8, <2>1 DEF MarkSatisfied
<1>9. CASE SkipPlanning
  BY <1>9, ConstantTypes DEF SkipPlanning
<1>10. CASE StartPlanning
  <2>1. execute' \in Locals
    BY <1>10, ConstantTypes DEF StartPlanning, GetPreviousTrajectory, Locals
  <2>2. QED BY <1>10, <2>1 DEF StartPlanning
<1>11. CASE PlanAnswers
  <2>1. PlanResults \subseteq Trajectory
    BY NodeAssumption DEF PlanResults, Locals, Trajectory, Goal
  <2>2. execute' \in Locals
    BY <1>11, <2>1, ConstantTypes DEF PlanAnswers, Locals, Return
  <2>3. loop_pc' \in {"command", "restore", "idle"}
    BY <1>11 DEF PlanAnswers, Return
  <2>4. QED BY <1>11, <2>2, <2>3, PublishType DEF PlanAnswers
<1>12. CASE RestoreChanged
  BY <1>12, ConstantTypes DEF RestoreChanged, Return
<1>13. CASE CommandTrajectory
  <2>1. execute.trajectory \in Trajectory /\ execute.goal.enable_base \in BOOLEAN
    BY DEF Locals, Goal
  <2>2. playing' \in [AllControllers -> Constraints]
    BY <1>13, <2>1, PlayingType DEF CommandTrajectory, Trajectory
  <2>3. QED BY <1>13, <2>1, <2>2, ConstantTypes DEF CommandTrajectory, Return
<1>14. CASE Publish
  BY <1>14, PublishType, ConstantTypes DEF Publish, Return
<1>15. QED
  BY <1>1, <1>2, <1>3, <1>4, <1>5, <1>6, <1>7, <1>8, <1>9, <1>10, <1>11,
     <1>12, <1>13, <1>14 DEF LoopThread

LEMMA EnvironmentType == TypeOK /\ Environment => TypeOK'
<1> SUFFICES ASSUME TypeOK, Environment PROVE TypeOK'
  OBVIOUS
<1> USE DEF TypeOK, goals, robot, output, loop, report, callback
<1>1. ASSUME NEW c \in AllControllers, PlaybackFinishes(c) PROVE TypeOK'
  BY <1>1, ConstantTypes DEF PlaybackFinishes
<1>2. CASE Tick
  <2>1. statuses' \in StatusList
    BY <1>2, AgedType DEF Tick
  <2>2. cb_age' \in 0 .. CallbackMax
    BY <1>2, NodeAssumption DEF Tick
  <2>3. unpublished' \in 0 .. PublishGap
    BY <1>2, NodeAssumption DEF Tick
  <2>4. QED BY <1>2, <2>1, <2>2, <2>3 DEF Tick
<1>3. QED BY <1>1, <1>2 DEF Environment

LEMMA TypeOKNext == TypeOK /\ [Next]_vars => TypeOK'
<1>1. TypeOK /\ UNCHANGED vars => TypeOK'
  BY DEF TypeOK, vars, goals, robot, output, loop, report, callback
<1>2. QED
  BY <1>1, SpinThreadType, LoopThreadType, EnvironmentType DEF Next

(* Every variable keeps its type. *)
THEOREM TypeCorrect == Spec => []TypeOK
<1>1. QED BY InitType, TypeOKNext, PTL DEF Spec

-----------------------------------------------------------------------------
(* An empty goal stops the base.  What makes this true is that the base    *)
(* never plays anything without enable_base_prev_ saying so: Execute       *)
(* forgets its trajectory when a goal completes, but not this flag.        *)

BaseRemembered == playing[BaseController] # Idle => enable_base_prev_

(* Stopping or starting joint controllers does not touch the base. *)
LEMMA BaseUntouched ==
    ASSUME NEW play \in [AllControllers -> Constraints], NEW joints, NEW trajectory
    PROVE  /\ Stopped(play, joints)[BaseController] = play[BaseController]
           /\ Started(play, trajectory)[BaseController] = play[BaseController]
           /\ BaseStopped(play)[BaseController] = Idle
BY NodeAssumption DEF Stopped, Started, BaseStopped, AllControllers

LEMMA BaseRememberedNext == TypeOK /\ BaseRemembered /\ [Next]_vars => BaseRemembered'
<1> SUFFICES ASSUME TypeOK, BaseRemembered, [Next]_vars PROVE BaseRemembered'
  OBVIOUS
<1> USE DEF BaseRemembered, output
<1>1. CASE StopOnEmpty
  <2> DEFINE stopped == Stopped(playing, current_trajectory_.joints)
  <2>1. stopped \in [AllControllers -> Constraints]
    BY PlayingType, ConstantTypes DEF TypeOK
  <2>2. /\ stopped[BaseController] = playing[BaseController]
        /\ BaseStopped(stopped)[BaseController] = Idle
    BY <2>1, BaseUntouched DEF TypeOK
  <2>3. QED BY <1>1, <2>2 DEF StopOnEmpty
<1>2. CASE CommandTrajectory
  <2> DEFINE new     == execute.trajectory
             started == Started(playing, new)
             base    == IF execute.goal.enable_base
                        THEN [started EXCEPT ![BaseController] = new.constraints]
                        ELSE started
             stopped == Stopped(base, FindMissingStrings(current_trajectory_.joints, new.joints))
  <2>1. new \in Trajectory /\ new.constraints \in Constraints
    BY DEF TypeOK, Locals, Trajectory
  <2>2. started \in [AllControllers -> Constraints]
    BY <2>1, PlayingType DEF TypeOK
  <2>3. base \in [AllControllers -> Constraints]
    BY <2>1, <2>2, PlayingType
  <2>4. stopped \in [AllControllers -> Constraints]
    BY <2>1, <2>3, PlayingType
  <2>5. playing' = IF enable_base_prev_ /\ ~execute.goal.enable_base
                   THEN BaseStopped(stopped) ELSE stopped
    BY <1>2 DEF CommandTrajectory
  <2>6. enable_base_prev_' = execute.goal.enable_base
    BY <1>2 DEF CommandTrajectory
  <2>7. CASE execute.goal.enable_base
    BY <2>6, <2>7
  <2>8. CASE ~execute.goal.enable_base
    <3>1. stopped[BaseController] = playing[BaseController]
      BY <2>2, <2>3, <2>8, BaseUntouched DEF TypeOK
    <3>2. BaseStopped(stopped)[BaseController] = Idle
      BY <2>4, BaseUntouched
    <3>3. playing'[BaseController] = Idle
      BY <2>5, <2>8, <3>1, <3>2
    <3>4. QED BY <3>3
  <2>9. QED BY <2>7, <2>8
<1>3. ASSUME NEW c \in AllControllers, PlaybackFinishes(c) PROVE BaseRemembered'
  BY <1>3 DEF PlaybackFinishes, TypeOK
<1>4. ASSUME UNCHANGED <<playing, enable_base_prev_>> PROVE BaseRemembered'
  BY <1>4
<1>5. SpinThread => UNCHANGED <<playing, enable_base_prev_>>
  BY DEF SpinThread, ReceiveGoal, RegisterGoal, UpdateConstraints, InstallGoal,
         JointStateCallback, BaseControllerStateCallback
<1>6. LoopThread /\ ~StopOnEmpty /\ ~CommandTrajectory
      => UNCHANGED <<playing, enable_base_prev_>>
  BY DEF LoopThread, StartLoop, CopyGoal, MarkRunning, UpdateRobotstate, ShouldComplete,
         ClearConstraints, MarkSatisfied, SkipPlanning, StartPlanning, PlanAnswers,
         RestoreChanged, Publish
<1>7. QED
  BY <1>1, <1>2, <1>3, <1>4, <1>5, <1>6 DEF Next, Environment, Tick, vars

(* A goal ends EMPTY in one place. *)
LEMMA OnlyStopOnEmptyEmpties ==
    ASSUME TypeOK, Next, NEW id \in GoalId,
           statuses[id].value # "EMPTY", statuses'[id].value = "EMPTY"
    PROVE  StopOnEmpty
<1>1. ASSUME NEW name \in GoalId, NEW status \in Statuses \ {"EMPTY"},
             statuses' = UpdateConstraintsStatus(statuses, name, status)
      PROVE  FALSE
  <2>1. statuses'[id].value \in {statuses[id].value, status}
    BY <1>1, UpdateValue DEF TypeOK
  <2> QED
    BY <1>1, <2>1
<1>2. ~PublishImpl_
  BY UnexpiredType DEF TypeOK, PublishImpl_, NoEntry
<1>3. ~Tick
  BY AgedType DEF TypeOK, Tick
<1>4. ASSUME UNCHANGED statuses PROVE FALSE
  BY <1>4
<1>5. /\ constraints_.id \in GoalId /\ execute.goal.id \in GoalId
      /\ cb_msg.id \in GoalId
      /\ {"PREEMPTED", "NOT_USED", "RUNNING", "SATISFIED"} \subseteq Statuses \ {"EMPTY"}
  BY DEF TypeOK, Goal, Locals, Statuses, Live, Terminal
<1>6. ~SpinThread
  BY <1>1, <1>4, <1>5 DEF SpinThread, ReceiveGoal, RegisterGoal, UpdateConstraints,
       InstallGoal, JointStateCallback, BaseControllerStateCallback
<1>7. LoopThread => StopOnEmpty
  BY <1>1, <1>2, <1>4, <1>5 DEF LoopThread, StartLoop, CopyGoal, MarkRunning,
       UpdateRobotstate, ShouldComplete, ClearConstraints, MarkSatisfied, SkipPlanning,
       StartPlanning, PlanAnswers, RestoreChanged, CommandTrajectory, Publish
<1>8. ~Environment
  BY <1>3, <1>4 DEF Environment, PlaybackFinishes
<1> QED
  BY <1>6, <1>7, <1>8 DEF Next

(* Whenever a goal ends EMPTY the base has been told to stop. *)
THEOREM EmptyGoalStopsBaseThm == Spec => EmptyGoalStopsBase
<1> DEFINE Step == \A id \in GoalId :
                      statuses[id].value # "EMPTY" /\ statuses'[id].value = "EMPTY"
                      => playing'[BaseController] = Idle
<1>1. Init => BaseRemembered
  BY DEF Init, BaseRemembered, AllControllers
<1>2. TypeOK /\ BaseRemembered /\ Next => Step
  <2> SUFFICES ASSUME TypeOK, BaseRemembered, StopOnEmpty
               PROVE  playing'[BaseController] = Idle
    BY OnlyStopOnEmptyEmpties
  <2> DEFINE stopped == Stopped(playing, current_trajectory_.joints)
  <2>1. stopped \in [AllControllers -> Constraints]
    BY PlayingType, ConstantTypes DEF TypeOK
  <2>2. /\ stopped[BaseController] = playing[BaseController]
        /\ BaseStopped(stopped)[BaseController] = Idle
    BY <2>1, BaseUntouched DEF TypeOK
  <2> QED
    BY <2>2 DEF StopOnEmpty, BaseRemembered
<1>3. QED
  BY <1>1, <1>2, TypeCorrect, BaseRememberedNext, PTL DEF Spec, EmptyGoalStopsBase

-----------------------------------------------------------------------------
(* GoalTracking is inductive where satisfied goals are removed and an entry*)
(* of the list outlives a callback.                                        *)

Assumed == TimingBounds /\ remove_completed_constraints_

LEMMA MessageIds == RobotLocalGoalMsgs \subseteq Goal /\ \A m \in RobotLocalGoalMsgs : m.id # NoId
BY NodeAssumption

LEMMA InitTracking == Init => GoalTracking
BY DEF Init, GoalTracking, IdsAreSent, CallbackIsAhead, CheckerFollows, FollowedIsOpen,
       HeldIsFollowedOrClosed, JudgedIsOwn, OnlyNewestGoalIsLive, NoGoal, NoLocals,
       IsEmpty, EmptyList, NoEntry, Live

(* An action that leaves statuses and goals alone and lets Execute neither *)
(* take a goal, nor judge it, nor reach a step that closes it, preserves   *)
(* the invariant.                                                          *)
LEMMA TrackingUnaffected ==
    ASSUME TypeOK, GoalTracking,
           UNCHANGED <<statuses, constraints_, checker_constraints, callback>>,
           \/ UNCHANGED <<loop_pc, execute>>
           \/ /\ loop_pc' \notin {"stop", "running", "robot_state", "should_complete",
                                  "clear", "satisfied"}
              /\ execute'.goal = execute.goal
           \/ /\ loop_pc' \notin {"stop", "running", "robot_state", "should_complete",
                                  "clear", "satisfied"}
              /\ execute' = NoLocals
    PROVE  GoalTracking'
<1> USE DEF callback, NoLocals, NoGoal
<1>1. IdsAreSent'
  BY DEF GoalTracking, IdsAreSent, Sent, IsEmpty
<1>2. CallbackIsAhead'
  <2>1. received \subseteq RobotLocalGoalMsgs
    BY DEF TypeOK
  <2>2. CASE UNCHANGED execute
    BY <2>2 DEF GoalTracking, CallbackIsAhead, Closed
  <2>3. CASE execute'.goal = execute.goal
    BY <2>3 DEF GoalTracking, CallbackIsAhead, Closed
  <2>4. CASE execute' = NoLocals
    BY <2>1, <2>4, MessageIds DEF GoalTracking, CallbackIsAhead, Closed
  <2>5. QED BY <2>2, <2>3, <2>4
<1>3. CheckerFollows'
  BY DEF GoalTracking, CheckerFollows
<1>4. FollowedIsOpen'
  BY DEF GoalTracking, FollowedIsOpen, Closed, IsEmpty
<1>5. HeldIsFollowedOrClosed' /\ JudgedIsOwn'
  BY DEF GoalTracking, HeldIsFollowedOrClosed, JudgedIsOwn, Closed
<1>6. OnlyNewestGoalIsLive'
  BY DEF GoalTracking, OnlyNewestGoalIsLive, NewestId
<1>7. QED BY <1>1, <1>2, <1>3, <1>4, <1>5, <1>6 DEF GoalTracking

(* The callback begins: the goal followed is closed, unless it was empty.  *)
LEMMA ReceiveGoalTracking ==
    ASSUME TypeOK, GoalTracking, NEW m \in RobotLocalGoalMsgs, ReceiveGoal(m)
    PROVE  GoalTracking'
<1>0. /\ statuses' = UpdateConstraintsStatus(statuses, constraints_.id, "PREEMPTED")
      /\ cb_pc = "idle" /\ cb_pc' = "register" /\ cb_msg' = m /\ cb_age' = 0
      /\ received' = received \cup {m}
      /\ UNCHANGED <<constraints_, checker_constraints, loop_pc, execute>>
  BY DEF ReceiveGoal, loop, goals
<1>1. /\ m \in Goal /\ m.id # NoId /\ m.id \in GoalId
      /\ constraints_.id \in GoalId /\ execute.goal.id \in GoalId
      /\ NoId \in GoalId /\ statuses \in StatusList
  BY <1>0, MessageIds, NodeAssumption DEF TypeOK, Goal, Locals
<1>2. ~Sent(m.id)
  BY DEF ReceiveGoal, Sent
<1>3. m.id \notin {constraints_.id, execute.goal.id} /\ statuses[m.id] = NoEntry
  BY <1>0, <1>1, <1>2 DEF GoalTracking, IdsAreSent
<1>4. \A id \in GoalId : id # constraints_.id => statuses'[id] = statuses[id]
  BY <1>0, <1>1 DEF UpdateConstraintsStatus, StatusList
<1>5. Closed(constraints_.id)'
  <2>1. CASE Closed(constraints_.id)
    BY <1>0, <1>1, <2>1 DEF UpdateConstraintsStatus, StatusList, Closed
  <2>2. CASE ~Closed(constraints_.id)
    BY <1>0, <1>1, <2>2 DEF UpdateConstraintsStatus, StatusList, Closed, Terminal
  <2>3. QED BY <1>0, <2>1, <2>2
<1>6. IdsAreSent'
  <2>1. \A id : Sent(id) => Sent(id)'
    BY <1>0 DEF Sent
  <2>2. QED BY <1>0, <1>4, <2>1 DEF GoalTracking, IdsAreSent, IsEmpty
<1>7. CallbackIsAhead'
  BY <1>0, <1>1, <1>3, <1>4 DEF CallbackIsAhead, Closed, NoEntry, Terminal
<1>8. CheckerFollows'
  BY <1>0 DEF CheckerFollows
<1>9. FollowedIsOpen'
  <2>1. ASSUME ~IsEmpty(constraints_)
        PROVE  statuses'[constraints_.id].age <= cb_age'
    <3>1. statuses'[constraints_.id] = [value |-> "PREEMPTED", age |-> 0]
      BY <1>0, <1>1, <2>1 DEF UpdateConstraintsStatus, StatusList, GoalTracking, FollowedIsOpen, Closed
    <3>2. QED BY <1>0, <3>1
  <2>2. QED BY <1>0, <1>5, <2>1 DEF GoalTracking, FollowedIsOpen, IsEmpty
<1>10. HeldIsFollowedOrClosed'
  <2>1. Closed(execute.goal.id) => Closed(execute.goal.id)'
    BY <1>0, <1>1, <1>4, <1>5 DEF Closed
  <2>2. QED BY <1>0, <1>5, <2>1 DEF GoalTracking, HeldIsFollowedOrClosed
<1>11. JudgedIsOwn'
  <2>1. Closed(execute.goal.id) => Closed(execute.goal.id)'
    BY <1>0, <1>1, <1>4, <1>5 DEF Closed
  <2>2. QED BY <1>0, <2>1 DEF GoalTracking, JudgedIsOwn
<1>12. OnlyNewestGoalIsLive'
  BY <1>0, <1>1, <1>4, <1>5 DEF GoalTracking, OnlyNewestGoalIsLive, NewestId, Closed, Live, Terminal
<1>13. QED
  BY <1>0, <1>6, <1>7, <1>8, <1>9, <1>10, <1>11, <1>12 DEF GoalTracking

LEMMA RegisterGoalTracking ==
    ASSUME TypeOK, GoalTracking, RegisterGoal
    PROVE  GoalTracking'
<1>0. /\ statuses' = UpdateConstraintsStatus(statuses, cb_msg.id, "NOT_USED")
      /\ cb_pc = "register" /\ cb_pc' = "update_checker"
      /\ UNCHANGED <<cb_msg, cb_age, received>>
      /\ UNCHANGED <<constraints_, checker_constraints, loop_pc, execute>>
  BY DEF RegisterGoal, loop, goals
<1>1. /\ cb_msg.id \in GoalId /\ statuses \in StatusList
      /\ constraints_.id \in GoalId /\ execute.goal.id \in GoalId
  BY <1>0 DEF TypeOK, Goal, Locals
<1>2. cb_msg \in received /\ cb_msg.id \notin {constraints_.id, execute.goal.id}
  BY <1>0 DEF GoalTracking, CallbackIsAhead
<1>3. \A id \in GoalId : id # cb_msg.id => statuses'[id] = statuses[id]
  BY <1>0, <1>1 DEF UpdateConstraintsStatus, StatusList
<1>4. statuses'[cb_msg.id] = [value |-> "NOT_USED", age |-> 0]
  BY <1>0, <1>1 DEF UpdateConstraintsStatus, StatusList, GoalTracking, CallbackIsAhead, Closed
<1>5. IdsAreSent'
  BY <1>0, <1>2, <1>3 DEF GoalTracking, IdsAreSent, IsEmpty, Sent
<1>6. CallbackIsAhead'
  BY <1>0, <1>2, <1>4 DEF CallbackIsAhead, Closed, Terminal
<1>7. CheckerFollows'
  BY <1>0 DEF CheckerFollows
<1>8. FollowedIsOpen' /\ HeldIsFollowedOrClosed' /\ JudgedIsOwn'
  BY <1>0, <1>1, <1>2, <1>3 DEF GoalTracking, FollowedIsOpen, HeldIsFollowedOrClosed,
                          JudgedIsOwn, Closed, IsEmpty
<1>9. OnlyNewestGoalIsLive'
  BY <1>0, <1>3 DEF GoalTracking, OnlyNewestGoalIsLive, NewestId
<1>10. QED
  BY <1>0, <1>5, <1>6, <1>7, <1>8, <1>9 DEF GoalTracking

LEMMA UpdateConstraintsTracking ==
    ASSUME TypeOK, GoalTracking, UpdateConstraints
    PROVE  GoalTracking'
BY DEF UpdateConstraints, loop, GoalTracking, IdsAreSent, CallbackIsAhead, CheckerFollows,
       FollowedIsOpen, HeldIsFollowedOrClosed, JudgedIsOwn, OnlyNewestGoalIsLive, NewestId,
       Closed, Sent, IsEmpty

(* The new goal is followed: the checker has its constraints already.      *)
LEMMA InstallGoalTracking ==
    ASSUME TypeOK, GoalTracking, InstallGoal
    PROVE  GoalTracking'
<1> USE DEF InstallGoal, loop
<1>1. /\ cb_msg \in received /\ cb_msg.id # NoId
      /\ cb_msg.id \notin {constraints_.id, execute.goal.id}
      /\ ~Closed(cb_msg.id)
      /\ checker_constraints = cb_msg.constraints
  BY MessageIds DEF GoalTracking, CallbackIsAhead, TypeOK
<1>2. IdsAreSent'
  BY <1>1 DEF GoalTracking, IdsAreSent, Sent
<1>3. CallbackIsAhead'
  BY DEF CallbackIsAhead
<1>4. CheckerFollows'
  BY <1>1 DEF CheckerFollows
<1>5. FollowedIsOpen'
  BY <1>1 DEF FollowedIsOpen, Closed
<1>6. HeldIsFollowedOrClosed'
  BY DEF GoalTracking, HeldIsFollowedOrClosed, Closed
<1>7. JudgedIsOwn'
  BY DEF GoalTracking, JudgedIsOwn, Closed
<1>8. OnlyNewestGoalIsLive'
  BY DEF GoalTracking, OnlyNewestGoalIsLive, NewestId
<1>9. QED
  BY <1>2, <1>3, <1>4, <1>5, <1>6, <1>7, <1>8 DEF GoalTracking

(* Execute takes the goal followed.  If a callback is under way that goal  *)
(* has been closed already.                                                *)
LEMMA CopyGoalTracking ==
    ASSUME TypeOK, GoalTracking, CopyGoal
    PROVE  GoalTracking'
<1>0. /\ loop_pc = "idle" /\ execute'.goal = constraints_
      /\ loop_pc' \in {"running", "stop", "publish"}
      /\ loop_pc' = "running" => ~IsEmpty(constraints_)
      /\ loop_pc' = "stop" => IsEmpty(constraints_)
      /\ UNCHANGED <<constraints_, checker_constraints, statuses>>
      /\ UNCHANGED <<cb_pc, cb_msg, cb_age, received>>
  BY DEF CopyGoal, callback, NoLocals
<1>1. IdsAreSent'
  BY <1>0 DEF GoalTracking, IdsAreSent, IsEmpty, Sent
<1>2. CallbackIsAhead'
  BY <1>0 DEF GoalTracking, CallbackIsAhead, Closed
<1>3. CheckerFollows'
  BY <1>0 DEF GoalTracking, CheckerFollows
<1>4. FollowedIsOpen'
  BY <1>0 DEF GoalTracking, FollowedIsOpen, IsEmpty, Closed
<1>5. HeldIsFollowedOrClosed'
  BY <1>0 DEF GoalTracking, HeldIsFollowedOrClosed, FollowedIsOpen, IdsAreSent, Closed
<1>6. JudgedIsOwn'
  BY <1>0 DEF JudgedIsOwn
<1>7. OnlyNewestGoalIsLive'
  BY <1>0 DEF GoalTracking, OnlyNewestGoalIsLive, NewestId
<1>8. QED
  BY <1>1, <1>2, <1>3, <1>4, <1>5, <1>6, <1>7 DEF GoalTracking

(* Closing the goal held: it is not the one followed any more. *)
LEMMA ClosingTracking ==
    ASSUME TypeOK, GoalTracking, NEW verdict \in Terminal,
           loop_pc \in {"stop", "satisfied"}, loop_pc' = "publish",
           statuses' = UpdateConstraintsStatus(statuses, execute.goal.id, verdict),
           UNCHANGED <<constraints_, checker_constraints, execute, callback>>
    PROVE  GoalTracking'
<1>0. /\ UNCHANGED <<cb_pc, cb_msg, cb_age, received>>
      /\ execute.goal.id \in GoalId /\ constraints_.id \in GoalId
      /\ cb_msg.id \in GoalId /\ statuses \in StatusList
  BY DEF callback, TypeOK, Locals, Goal
<1>1. \A id \in GoalId : id # execute.goal.id => statuses'[id] = statuses[id]
  BY <1>0 DEF UpdateConstraintsStatus, StatusList
<1>2. \A id \in GoalId : statuses'[id].value \in {statuses[id].value, verdict}
  BY <1>0 DEF UpdateConstraintsStatus, StatusList
<1>3. \A id \in GoalId : Closed(id) => statuses'[id] = statuses[id]
  BY <1>0 DEF UpdateConstraintsStatus, StatusList, Closed
<1>4. IdsAreSent'
  BY <1>0, <1>1 DEF GoalTracking, IdsAreSent, IsEmpty, Sent
<1>5. CallbackIsAhead'
  BY <1>0, <1>1 DEF GoalTracking, CallbackIsAhead, Closed
<1>6. CheckerFollows'
  BY <1>0 DEF GoalTracking, CheckerFollows
<1>7. FollowedIsOpen'
  BY <1>0, <1>1, <1>3 DEF GoalTracking, FollowedIsOpen, IsEmpty, Closed
<1>8. HeldIsFollowedOrClosed' /\ JudgedIsOwn'
  BY DEF HeldIsFollowedOrClosed, JudgedIsOwn
<1>9. OnlyNewestGoalIsLive'
  BY <1>0, <1>2 DEF GoalTracking, OnlyNewestGoalIsLive, NewestId, Live, Terminal
<1>10. QED
  BY <1>4, <1>5, <1>6, <1>7, <1>8, <1>9 DEF GoalTracking

LEMMA MarkRunningTracking ==
    ASSUME TypeOK, GoalTracking, MarkRunning
    PROVE  GoalTracking'
<1>0. /\ statuses' = UpdateConstraintsStatus(statuses, execute.goal.id, "RUNNING")
      /\ loop_pc = "running" /\ loop_pc' = "robot_state"
      /\ UNCHANGED <<cb_pc, cb_msg, cb_age, received, execute>>
      /\ UNCHANGED <<constraints_, checker_constraints>>
      /\ execute.goal.id \in GoalId /\ constraints_.id \in GoalId
      /\ cb_msg.id \in GoalId /\ statuses \in StatusList
  BY DEF MarkRunning, callback, goals, TypeOK, Locals, Goal
<1>1. \A id \in GoalId : id # execute.goal.id => statuses'[id] = statuses[id]
  BY <1>0 DEF UpdateConstraintsStatus, StatusList
<1>2. \A id \in GoalId : Closed(id) => statuses'[id] = statuses[id]
  BY <1>0 DEF UpdateConstraintsStatus, StatusList, Closed
<1>3. \A id \in GoalId : Closed(id)' <=> Closed(id)
  BY <1>0 DEF UpdateConstraintsStatus, StatusList, Closed, Terminal
<1>4. IdsAreSent'
  BY <1>0, <1>1 DEF GoalTracking, IdsAreSent, IsEmpty, Sent
<1>5. CallbackIsAhead'
  BY <1>0, <1>3 DEF GoalTracking, CallbackIsAhead
<1>6. CheckerFollows'
  BY <1>0 DEF GoalTracking, CheckerFollows
<1>7. FollowedIsOpen'
  BY <1>0, <1>2, <1>3 DEF GoalTracking, FollowedIsOpen, IsEmpty
<1>8. HeldIsFollowedOrClosed' /\ JudgedIsOwn'
  BY <1>0, <1>3 DEF GoalTracking, HeldIsFollowedOrClosed, JudgedIsOwn
<1>9. OnlyNewestGoalIsLive'
  <2>1. ASSUME ~Closed(execute.goal.id) PROVE execute.goal.id = NewestId
    BY <1>0, <2>1 DEF GoalTracking, HeldIsFollowedOrClosed, NewestId
  <2>2. Closed(execute.goal.id) => statuses'[execute.goal.id].value \notin Live
    BY <1>0, <1>2 DEF Closed, Live, Terminal
  <2>3. QED
    BY <1>0, <1>1, <2>1, <2>2 DEF GoalTracking, OnlyNewestGoalIsLive, NewestId
<1>10. QED
  BY <1>4, <1>5, <1>6, <1>7, <1>8, <1>9 DEF GoalTracking

(* Judging a goal that is open judges its own constraints. *)
LEMMA ShouldCompleteTracking ==
    ASSUME TypeOK, GoalTracking, remove_completed_constraints_,
           NEW result, ShouldComplete(result)
    PROVE  GoalTracking'
<1>0. /\ loop_pc = "should_complete" /\ loop_pc' \in {"clear", "publish", "decide"}
      /\ execute' = [execute EXCEPT !.judged = checker_constraints]
      /\ UNCHANGED <<cb_pc, cb_msg, cb_age, received, statuses>>
      /\ UNCHANGED <<constraints_, checker_constraints>>
  BY DEF ShouldComplete, callback, goals
<1>1. execute'.goal = execute.goal /\ execute'.judged = checker_constraints
  BY <1>0 DEF TypeOK, Locals
<1>2. IdsAreSent' /\ CallbackIsAhead' /\ CheckerFollows' /\ FollowedIsOpen'
  BY <1>0, <1>1 DEF GoalTracking, IdsAreSent, IsEmpty, Sent, CallbackIsAhead,
                    CheckerFollows, FollowedIsOpen, Closed
<1>3. HeldIsFollowedOrClosed'
  BY <1>0, <1>1 DEF GoalTracking, HeldIsFollowedOrClosed, Closed
<1>4. JudgedIsOwn'
  BY <1>0, <1>1 DEF GoalTracking, HeldIsFollowedOrClosed, CheckerFollows, JudgedIsOwn, Closed
<1>5. OnlyNewestGoalIsLive'
  BY <1>0 DEF GoalTracking, OnlyNewestGoalIsLive, NewestId
<1>6. QED
  BY <1>2, <1>3, <1>4, <1>5 DEF GoalTracking

LEMMA ClearConstraintsTracking ==
    ASSUME TypeOK, GoalTracking, ClearConstraints
    PROVE  GoalTracking'
<1>0. /\ loop_pc = "clear" /\ loop_pc' = "satisfied"
      /\ UNCHANGED <<cb_pc, cb_msg, cb_age, received, statuses>>
      /\ UNCHANGED <<execute, checker_constraints>>
      /\ constraints_'.id = constraints_.id /\ constraints_'.constraints = NoConstraints
  BY DEF ClearConstraints, Clear, callback, TypeOK, Goal
<1>1. IdsAreSent' /\ CallbackIsAhead' /\ CheckerFollows' /\ FollowedIsOpen'
  BY <1>0 DEF GoalTracking, IdsAreSent, IsEmpty, Sent, CallbackIsAhead,
              CheckerFollows, FollowedIsOpen, Closed
<1>2. HeldIsFollowedOrClosed' /\ JudgedIsOwn'
  BY <1>0 DEF GoalTracking, HeldIsFollowedOrClosed, JudgedIsOwn, Closed
<1>3. OnlyNewestGoalIsLive'
  BY <1>0 DEF GoalTracking, OnlyNewestGoalIsLive, NewestId
<1>4. QED
  BY <1>1, <1>2, <1>3 DEF GoalTracking

LEMMA UpdateRobotstateTracking ==
    ASSUME TypeOK, GoalTracking, UpdateRobotstate
    PROVE  GoalTracking'
<1>0. /\ loop_pc = "robot_state" /\ loop_pc' \in {"should_complete", "publish"}
      /\ execute'.goal = execute.goal
      /\ UNCHANGED <<cb_pc, cb_msg, cb_age, received, statuses>>
      /\ UNCHANGED <<constraints_, checker_constraints>>
  BY DEF UpdateRobotstate, callback, goals, TypeOK, Locals
<1>1. QED
  BY <1>0 DEF GoalTracking, IdsAreSent, IsEmpty, Sent, CallbackIsAhead, CheckerFollows,
       FollowedIsOpen, HeldIsFollowedOrClosed, JudgedIsOwn, Closed,
       OnlyNewestGoalIsLive, NewestId

(* A publication erases old entries, but not the goal a callback under way *)
(* has closed: that entry is no older than the callback.                   *)
LEMMA PublishTracking ==
    ASSUME Assumed, TypeOK, GoalTracking, PublishImpl_,
           loop_pc' \in {"idle", "command", "restore"},
           \/ execute' = NoLocals
           \/ execute'.goal = execute.goal,
           UNCHANGED <<constraints_, checker_constraints, callback>>
    PROVE  GoalTracking'
<1>0. /\ UNCHANGED <<cb_pc, cb_msg, cb_age, received>>
      /\ execute'.goal \in {execute.goal, NoGoal}
      /\ constraints_.id \in GoalId /\ cb_msg.id \in GoalId
      /\ statuses \in StatusList /\ statuses' = Unexpired(statuses)
      /\ cb_age \in 0 .. CallbackMax
      /\ received \subseteq RobotLocalGoalMsgs
  BY DEF callback, TypeOK, Goal, PublishImpl_, NoLocals
<1>1. \A id \in GoalId : statuses'[id] \in {statuses[id], NoEntry}
  BY <1>0, UnexpiredType
<1>2. \A id \in GoalId :
         statuses[id].age <= cb_age => statuses'[id] = statuses[id]
  <2> SUFFICES ASSUME NEW id \in GoalId, statuses[id].age <= cb_age
               PROVE  statuses'[id] = statuses[id]
    OBVIOUS
  <2>1. cb_age \in Nat /\ cb_age <= Retention
    BY <1>0, NodeAssumption, RetentionAssumption DEF Assumed, TimingBounds
  <2>2. statuses[id].age \in Nat
    BY <1>0, RetentionAssumption DEF StatusList, Age, NoEntry
  <2>3. ~(statuses[id].age > Retention)
    BY <2>1, <2>2, RetentionAssumption
  <2>4. QED BY <1>0, <2>3 DEF Unexpired, Expired
<1>3. IdsAreSent'
  <2>1. \A id : Sent(id)' <=> Sent(id)
    BY <1>0 DEF Sent
  <2>2. execute'.goal.id \in {execute.goal.id, NoId}
    BY <1>0 DEF NoGoal
  <2>3. QED BY <1>0, <1>1, <2>1, <2>2 DEF GoalTracking, IdsAreSent, IsEmpty
<1>4. CallbackIsAhead'
  <2>1. ASSUME cb_pc # "idle"
        PROVE  cb_msg.id \notin {constraints_.id, execute'.goal.id}
    BY <1>0, <2>1, MessageIds DEF GoalTracking, CallbackIsAhead, NoGoal
  <2>2. ASSUME cb_pc # "idle" PROVE ~Closed(cb_msg.id)'
    BY <1>0, <1>1, <2>2 DEF GoalTracking, CallbackIsAhead, Closed, NoEntry, Terminal
  <2>3. QED BY <1>0, <2>1, <2>2 DEF GoalTracking, CallbackIsAhead
<1>5. CheckerFollows'
  BY <1>0 DEF GoalTracking, CheckerFollows
<1>6. FollowedIsOpen'
  <2>1. ~Closed(constraints_.id) => ~Closed(constraints_.id)'
    BY <1>0, <1>1 DEF Closed, NoEntry, Terminal
  <2>2. Closed(constraints_.id) /\ statuses[constraints_.id].age <= cb_age
        => /\ Closed(constraints_.id)'
           /\ statuses'[constraints_.id].age <= cb_age'
    BY <1>0, <1>2 DEF Closed
  <2>3. QED BY <1>0, <2>1, <2>2 DEF GoalTracking, FollowedIsOpen, IsEmpty
<1>7. HeldIsFollowedOrClosed' /\ JudgedIsOwn'
  BY DEF HeldIsFollowedOrClosed, JudgedIsOwn
<1>8. OnlyNewestGoalIsLive'
  BY <1>0, <1>1 DEF GoalTracking, OnlyNewestGoalIsLive, NewestId, NoEntry, Live
<1>9. QED
  BY <1>3, <1>4, <1>5, <1>6, <1>7, <1>8 DEF GoalTracking

LEMMA TickTracking ==
    ASSUME TypeOK, GoalTracking, Tick
    PROVE  GoalTracking'
<1>0. /\ UNCHANGED <<cb_pc, cb_msg, received, loop_pc, execute>>
      /\ UNCHANGED <<constraints_, checker_constraints>>
      /\ cb_pc # "idle" => cb_age' = cb_age + 1
      /\ constraints_.id \in GoalId /\ cb_msg.id \in GoalId
      /\ execute.goal.id \in GoalId
      /\ statuses \in StatusList /\ statuses' = Aged(statuses)
      /\ cb_age \in Nat
  BY NodeAssumption DEF Tick, goals, loop, TypeOK, Goal, Locals
<1>1. /\ \A id \in GoalId : statuses'[id].value = statuses[id].value
      /\ \A id \in GoalId : statuses'[id].age <= statuses[id].age + 1
      /\ \A id \in GoalId : statuses[id] = NoEntry => statuses'[id] = NoEntry
  BY <1>0, AgedType DEF Aged
<1>2. \A id \in GoalId : Closed(id)' <=> Closed(id)
  BY <1>1 DEF Closed
<1>3. IdsAreSent'
  BY <1>0, <1>1 DEF GoalTracking, IdsAreSent, IsEmpty, Sent
<1>4. CallbackIsAhead' /\ CheckerFollows'
  BY <1>0, <1>2 DEF GoalTracking, CallbackIsAhead, CheckerFollows
<1>5. FollowedIsOpen'
  <2>1. ASSUME cb_pc # "idle", statuses[constraints_.id].age <= cb_age
        PROVE  statuses'[constraints_.id].age <= cb_age'
    <3>1. statuses[constraints_.id].age \in Nat /\ statuses'[constraints_.id].age \in Nat
      BY <1>0, AgedType, RetentionAssumption DEF StatusList, Age, NoEntry
    <3>2. QED BY <1>0, <1>1, <2>1, <3>1
  <2>2. QED BY <1>0, <1>2, <2>1 DEF GoalTracking, FollowedIsOpen, IsEmpty
<1>6. HeldIsFollowedOrClosed' /\ JudgedIsOwn'
  BY <1>0, <1>2 DEF GoalTracking, HeldIsFollowedOrClosed, JudgedIsOwn
<1>7. OnlyNewestGoalIsLive'
  BY <1>0, <1>1 DEF GoalTracking, OnlyNewestGoalIsLive, NewestId
<1>8. QED
  BY <1>3, <1>4, <1>5, <1>6, <1>7 DEF GoalTracking

LEMMA TrackingNext ==
    ASSUME Assumed, TypeOK, GoalTracking, [Next]_vars
    PROVE  GoalTracking'
<1>1. CASE SpinThread
  <2>1. ASSUME NEW names, JointStateCallback(names) PROVE GoalTracking'
    BY <2>1, TrackingUnaffected DEF JointStateCallback, loop, goals
  <2>2. CASE BaseControllerStateCallback
    BY <2>2, TrackingUnaffected DEF BaseControllerStateCallback, loop, goals
  <2>3. QED
    BY <1>1, <2>1, <2>2, ReceiveGoalTracking, RegisterGoalTracking,
       UpdateConstraintsTracking, InstallGoalTracking DEF SpinThread
<1>2. CASE LoopThread
  <2>1. CASE StartLoop
    BY <2>1, TrackingUnaffected DEF StartLoop, goals
  <2>2. CASE StopOnEmpty
    BY <2>2, ClosingTracking DEF StopOnEmpty, goals, Terminal
  <2>3. CASE MarkSatisfied
    BY <2>3, ClosingTracking DEF MarkSatisfied, goals, Terminal
  <2>4. CASE SkipPlanning
    BY <2>4, TrackingUnaffected DEF SkipPlanning, goals
  <2>5. CASE StartPlanning
    <3>1. execute'.goal = execute.goal
      BY <2>5 DEF StartPlanning, GetPreviousTrajectory, TypeOK, Locals
    <3>2. QED BY <2>5, <3>1, TrackingUnaffected DEF StartPlanning, goals
  <2>6. CASE PlanAnswers
    <3>1. execute' = NoLocals \/ execute'.goal = execute.goal
      BY <2>6 DEF PlanAnswers, Return, TypeOK, Locals
    <3>2. loop_pc' \in {"idle", "command", "restore"}
      BY <2>6 DEF PlanAnswers, Return
    <3>3. QED BY <2>6, <3>1, <3>2, PublishTracking DEF PlanAnswers, goals
  <2>7. CASE RestoreChanged
    BY <2>7, TrackingUnaffected DEF RestoreChanged, Return
  <2>8. CASE CommandTrajectory
    BY <2>8, TrackingUnaffected DEF CommandTrajectory, Return, goals
  <2>9. CASE Publish
    BY <2>9, PublishTracking DEF Publish, Return, goals
  <2>10. QED
    BY <1>2, <2>1, <2>2, <2>3, <2>4, <2>5, <2>6, <2>7, <2>8, <2>9,
       CopyGoalTracking, MarkRunningTracking, UpdateRobotstateTracking,
       ShouldCompleteTracking, ClearConstraintsTracking DEF LoopThread, Assumed
<1>3. CASE Environment
  <2>1. ASSUME NEW c, PlaybackFinishes(c) PROVE GoalTracking'
    BY <2>1, TrackingUnaffected DEF PlaybackFinishes, loop, goals
  <2>2. QED BY <1>3, <2>1, TickTracking DEF Environment
<1>4. CASE UNCHANGED vars
  BY <1>4, TrackingUnaffected DEF vars, loop, goals
<1>5. QED BY <1>1, <1>2, <1>3, <1>4 DEF Next

(* An Execute that holds a goal holds the one followed or a closed one.    *)
THEOREM TrackingThm == ASSUME Assumed PROVE Spec => []GoalTracking
<1>1. TypeOK /\ GoalTracking /\ [Next]_vars => GoalTracking'
  BY TrackingNext
<1>2. QED BY <1>1, InitTracking, TypeCorrect, PTL DEF Spec

(* Only the newest goal is open. *)
THEOREM OnlyNewestGoalIsLiveThm == ASSUME Assumed PROVE Spec => []OnlyNewestGoalIsLive
<1>1. GoalTracking => OnlyNewestGoalIsLive
  BY DEF GoalTracking
<1>2. QED BY <1>1, TrackingThm, PTL

(* A goal is called satisfied only when its own constraints were judged.   *)
THEOREM SatisfiedIsSoundThm == ASSUME Assumed PROVE Spec => SatisfiedIsSound
<1> DEFINE Step == \A id \in GoalId :
                      statuses[id].value # "SATISFIED" /\ statuses'[id].value = "SATISFIED"
                      => \E m \in received : m.id = id /\ m.constraints = execute.judged
<1>1. TypeOK /\ GoalTracking /\ Next => Step
  <2> SUFFICES ASSUME TypeOK, GoalTracking, Next, NEW id \in GoalId,
                      statuses[id].value # "SATISFIED", statuses'[id].value = "SATISFIED"
               PROVE  \E m \in received : m.id = id /\ m.constraints = execute.judged
    OBVIOUS
  <2>1. CASE MarkSatisfied
    <3>1. /\ statuses' = UpdateConstraintsStatus(statuses, execute.goal.id, "SATISFIED")
          /\ loop_pc = "satisfied"
          /\ statuses \in StatusList /\ execute.goal.id \in GoalId
      BY <2>1 DEF MarkSatisfied, TypeOK, Locals, Goal
    <3>2. id = execute.goal.id /\ ~Closed(id)
      BY <3>1 DEF UpdateConstraintsStatus, StatusList, Closed
    <3>3. QED BY <3>1, <3>2 DEF GoalTracking, JudgedIsOwn
  <2>2. ASSUME NEW name \in GoalId, NEW status \in Statuses \ {"SATISFIED"},
               statuses' = UpdateConstraintsStatus(statuses, name, status)
        PROVE  FALSE
    <3>1. statuses'[id].value \in {statuses[id].value, status}
      BY <2>2, UpdateValue DEF TypeOK
    <3>2. QED BY <2>2, <3>1
  <2>3. ~PublishImpl_
    BY UnexpiredType DEF TypeOK, PublishImpl_, NoEntry
  <2>4. ~Tick
    BY AgedType DEF TypeOK, Tick
  <2>5. ASSUME UNCHANGED statuses PROVE FALSE
    BY <2>5
  <2>6. /\ constraints_.id \in GoalId /\ execute.goal.id \in GoalId
        /\ cb_msg.id \in GoalId
        /\ {"PREEMPTED", "NOT_USED", "RUNNING", "EMPTY"} \subseteq Statuses \ {"SATISFIED"}
    BY DEF TypeOK, Goal, Locals, Statuses, Live, Terminal
  <2>7. ~SpinThread
    BY <2>2, <2>5, <2>6 DEF SpinThread, ReceiveGoal, RegisterGoal, UpdateConstraints,
         InstallGoal, JointStateCallback, BaseControllerStateCallback
  <2>8. LoopThread => MarkSatisfied
    BY <2>2, <2>3, <2>5, <2>6 DEF LoopThread, StartLoop, CopyGoal, MarkRunning,
         StopOnEmpty, UpdateRobotstate, ShouldComplete, ClearConstraints, SkipPlanning,
         StartPlanning, PlanAnswers, RestoreChanged, CommandTrajectory, Publish
  <2>9. ~Environment
    BY <2>4, <2>5 DEF Environment, PlaybackFinishes
  <2>10. QED BY <2>1, <2>7, <2>8, <2>9 DEF Next
<1>2. QED
  BY <1>1, TypeCorrect, TrackingThm, PTL DEF Spec, SatisfiedIsSound

-----------------------------------------------------------------------------
(* The trajectory the node keeps, and the goal it was planned for.         *)

(* What a planner makes of a goal, and what the node keeps of it. *)
Planned == {[constraints |-> content, joints |-> PlannedJoints[content]] : content \in Constraints}

TrajectoriesArePlanned ==
    {current_trajectory_, execute.previous, execute.trajectory} \subseteq Planned \cup {NoTrajectory}

LEMMA TrajectoriesArePlannedStep ==
    ASSUME TypeOK, TrajectoriesArePlanned, [Next]_vars
    PROVE  TrajectoriesArePlanned'
<1> USE DEF TrajectoriesArePlanned, output, loop
<1>1. NoLocals.previous = NoTrajectory /\ NoLocals.trajectory = NoTrajectory
  BY DEF NoLocals
<1>2. CASE SpinThread \/ Environment \/ UNCHANGED vars
  BY <1>2 DEF SpinThread, ReceiveGoal, RegisterGoal, UpdateConstraints, InstallGoal,
     JointStateCallback, BaseControllerStateCallback, Environment, PlaybackFinishes, Tick, vars
<1>3. CASE StartLoop \/ StopOnEmpty \/ MarkRunning \/ MarkSatisfied \/ ClearConstraints
           \/ SkipPlanning
  BY <1>3 DEF StartLoop, StopOnEmpty, MarkRunning, MarkSatisfied, ClearConstraints, SkipPlanning
<1>4. CASE CopyGoal
  <2>1. execute'.previous = NoLocals.previous /\ execute'.trajectory = NoLocals.trajectory
    BY <1>4, ConstantTypes DEF CopyGoal, Locals
  <2> QED
    BY <1>1, <1>4, <2>1 DEF CopyGoal
<1>5. CASE Publish \/ RestoreChanged
  BY <1>1, <1>5 DEF Publish, RestoreChanged, Return
<1>6. CASE UpdateRobotstate
  <2>1. execute'.previous = execute.previous /\ execute'.trajectory = execute.trajectory
    BY <1>6 DEF UpdateRobotstate, TypeOK, Locals
  <2> QED
    BY <1>6, <2>1 DEF UpdateRobotstate
<1>7. ASSUME NEW result, ShouldComplete(result) PROVE TrajectoriesArePlanned'
  <2>1. execute'.previous = execute.previous /\ execute'.trajectory = execute.trajectory
    BY <1>7 DEF ShouldComplete, TypeOK, Locals
  <2> QED
    BY <1>7, <2>1 DEF ShouldComplete
<1>8. CASE StartPlanning
  <2>1. /\ execute'.previous \in {NoTrajectory, current_trajectory_}
        /\ execute'.trajectory = execute.trajectory
    BY <1>8 DEF StartPlanning, GetPreviousTrajectory, TypeOK, Locals
  <2> QED
    BY <1>8, <2>1 DEF StartPlanning
<1>9. CASE PlanAnswers
  <2>1. PlanResults \subseteq Planned \cup {NoTrajectory}
    BY DEF PlanResults, Planned, TypeOK, Locals, Goal
  <2>2. \/ execute' \in {execute, NoLocals}
        \/ execute'.previous = execute.previous /\ execute'.trajectory \in PlanResults
    BY <1>9 DEF PlanAnswers, Return, TypeOK, Locals
  <2> QED
    BY <1>1, <1>9, <2>1, <2>2 DEF PlanAnswers
<1>10. CASE CommandTrajectory
  BY <1>1, <1>10 DEF CommandTrajectory, Return
<1> QED
  BY <1>2, <1>3, <1>4, <1>5, <1>6, <1>7, <1>8, <1>9, <1>10 DEF Next, LoopThread

LEMMA TrajectoriesArePlannedInit == Init => TrajectoriesArePlanned
BY DEF Init, TrajectoriesArePlanned, NoLocals

(* Every controller that has a joint of a plan has no joint beside it. *)
WholeControllersPlan ==
    \A c \in Controllers, content \in Constraints :
        ControllerJoints[c] \cap PlannedJoints[content] # {}
        => ControllerJoints[c] \subseteq PlannedJoints[content]

(* Stopping the joints that are no longer used (node.cpp:302) reaches no   *)
(* controller the new trajectory went to if plans take controllers as a    *)
(* whole: the run "cancelled" needs a controller some of whose joints only *)
(* the old trajectory used.                                                *)
THEOREM UsedControllersPlayHolds ==
    ASSUME WholeControllersPlan
    PROVE  Spec => UsedControllersPlay
<1> DEFINE Step == CommandTrajectory =>
                      \A c \in Controllers :
                          ControllerJoints[c] \cap current_trajectory_'.joints # {}
                          => playing'[c] = current_trajectory_'.constraints
<1>1. ASSUME TypeOK, TrajectoriesArePlanned, Next PROVE Step
  <2> SUFFICES ASSUME CommandTrajectory, NEW c \in Controllers,
                      ControllerJoints[c] \cap execute.trajectory.joints # {}
               PROVE  playing'[c] = execute.trajectory.constraints
    BY DEF CommandTrajectory
  <2> DEFINE new     == execute.trajectory
             started == Started(playing, new)
             base    == IF execute.goal.enable_base
                        THEN [started EXCEPT ![BaseController] = new.constraints]
                        ELSE started
             missing == FindMissingStrings(current_trajectory_.joints, new.joints)
             stopped == Stopped(base, missing)
  <2>1. /\ new \in Trajectory /\ new.constraints \in Constraints
        /\ c \in AllControllers /\ c # BaseController
    BY <1>1, NodeAssumption DEF TypeOK, Locals, Trajectory, AllControllers
  <2>2. new.joints = {} \/ new.joints = PlannedJoints[new.constraints]
    BY <1>1 DEF TrajectoriesArePlanned, Planned, NoTrajectory
  <2>3. ControllerJoints[c] \cap missing = {}
    BY <2>1, <2>2 DEF WholeControllersPlan, FindMissingStrings
  <2>4. started[c] = new.constraints /\ started \in [AllControllers -> Constraints]
    BY <1>1, <2>1, PlayingType DEF Started, TypeOK
  <2>5. base[c] = new.constraints
    BY <2>1, <2>4
  <2>6. stopped[c] = new.constraints
    BY <2>1, <2>3, <2>5 DEF Stopped
  <2>7. playing' \in {stopped, BaseStopped(stopped)}
    BY DEF CommandTrajectory
  <2>8. BaseStopped(stopped)[c] = stopped[c]
    BY <2>1 DEF BaseStopped
  <2> QED
    BY <2>6, <2>7, <2>8
<1>2. TypeOK /\ TrajectoriesArePlanned /\ [Next]_vars => TrajectoriesArePlanned'
  BY TrajectoriesArePlannedStep
<1> QED
  BY <1>1, <1>2, TrajectoriesArePlannedInit, TypeCorrect, PTL DEF Spec, UsedControllersPlay

(* Every joint_states message names what a plan or a constraint needs. *)
JointStatesAreComplete ==
    \A names \in JointStateNames, content \in Constraints :
        PlannedJoints[content] \cup HardJoints[content] \subseteq names

NamesAreSent ==
    /\ joint_state_ \in JointStateNames \cup {{}}
    /\ loop_pc # "starting" => joint_state_ # {}
    /\ loop_pc = "should_complete" => execute.ref \in JointStateNames

LEMMA NamesAreSentStep ==
    ASSUME TypeOK, NamesAreSent, [Next]_vars
    PROVE  NamesAreSent'
<1> USE DEF NamesAreSent, robot, loop
<1>1. CASE SpinThread
  BY <1>1, NodeAssumption DEF SpinThread, ReceiveGoal, RegisterGoal, UpdateConstraints,
     InstallGoal, JointStateCallback, BaseControllerStateCallback
<1>2. CASE Environment \/ UNCHANGED vars
  BY <1>2 DEF Environment, PlaybackFinishes, Tick, vars
<1>3. CASE StartLoop
  BY <1>3 DEF StartLoop, IsReady
<1>4. CASE UpdateRobotstate
  BY <1>4 DEF UpdateRobotstate, TypeOK, Locals
<1>5. CASE CopyGoal \/ StopOnEmpty \/ MarkRunning \/ ClearConstraints \/ MarkSatisfied
           \/ SkipPlanning \/ StartPlanning
  BY <1>5 DEF CopyGoal, StopOnEmpty, MarkRunning, ClearConstraints, MarkSatisfied, SkipPlanning,
     StartPlanning
<1>6. CASE PlanAnswers \/ RestoreChanged \/ CommandTrajectory \/ Publish
  BY <1>6 DEF PlanAnswers, RestoreChanged, CommandTrajectory, Publish, Return
<1>7. ASSUME NEW result, ShouldComplete(result) PROVE NamesAreSent'
  BY <1>7 DEF ShouldComplete
<1> QED
  BY <1>1, <1>2, <1>3, <1>4, <1>5, <1>6, <1>7 DEF Next, LoopThread

(* Then the robot state can always be judged. *)
LEMMA NoInvalidRobotState ==
    ASSUME JointStatesAreComplete, TypeOK, TrajectoriesArePlanned, NamesAreSent
    PROVE  /\ loop_pc # "starting" => OverwriteRobotState
           /\ ~ShouldComplete("kInvalidRobotState")
<1>1. current_trajectory_.joints = {}
      \/ \E content \in Constraints : current_trajectory_.joints = PlannedJoints[content]
  BY DEF TrajectoriesArePlanned, Planned, NoTrajectory
<1>2. ASSUME loop_pc # "starting" PROVE joint_state_ \in JointStateNames
  BY <1>2 DEF NamesAreSent
<1>3. loop_pc # "starting" => OverwriteRobotState
  BY <1>1, <1>2 DEF OverwriteRobotState, JointStatesAreComplete
<1>4. ASSUME ShouldComplete("kInvalidRobotState") PROVE FALSE
  <2>1. RefJoints \in JointStateNames
    BY <1>2, <1>4 DEF ShouldComplete, RefJoints, NamesAreSent
  <2>2. HardJoints[checker_constraints] \subseteq RefJoints
    BY <2>1 DEF JointStatesAreComplete, TypeOK
  <2> QED
    BY <1>4, <2>2 DEF ShouldComplete, Judgements
<1> QED
  BY <1>3, <1>4

(* While Execute holds a goal that has not just changed, the trajectory it *)
(* keeps is for that goal; between two executions it is for the goal that  *)
(* is followed, unless a new one is waiting to be taken.                   *)
IsFor(trajectory, goal) ==
    trajectory = NoTrajectory \/ trajectory.constraints = goal.constraints

Planning == {"running", "robot_state", "should_complete", "decide", "plan", "command"}

TrajectoryFollowsGoal ==
    /\ loop_pc \in {"starting", "idle", "publish"} /\ ~constraints_are_changed_
       => IsFor(current_trajectory_, constraints_)
    /\ loop_pc \in Planning =>
          /\ ~constraints_are_changed_ => constraints_.constraints = execute.goal.constraints
          /\ ~execute.changed => IsFor(current_trajectory_, execute.goal)
          /\ IsFor(execute.previous, execute.goal)
          /\ IsFor(execute.trajectory, execute.goal)
    /\ loop_pc = "satisfied" => current_trajectory_ = NoTrajectory

LEMMA TrajectoryFollowsGoalInit == Init => TrajectoryFollowsGoal
BY DEF Init, TrajectoryFollowsGoal, IsFor, Planning

LEMMA TrajectoryFollowsGoalStep ==
    ASSUME JointStatesAreComplete, remove_completed_constraints_,
           TypeOK, TrajectoriesArePlanned, NamesAreSent, TrajectoryFollowsGoal, [Next]_vars
    PROVE  TrajectoryFollowsGoal'
<1> USE DEF TrajectoryFollowsGoal, IsFor, Planning, goals, output, loop, callback
<1>1. CASE SpinThread
  BY <1>1 DEF SpinThread, ReceiveGoal, RegisterGoal, UpdateConstraints, InstallGoal,
     JointStateCallback, BaseControllerStateCallback
<1>2. CASE Environment \/ UNCHANGED vars
  BY <1>2 DEF Environment, PlaybackFinishes, Tick, vars
<1>3. CASE StartLoop \/ StopOnEmpty \/ MarkRunning \/ ClearConstraints \/ MarkSatisfied
           \/ SkipPlanning
  BY <1>3 DEF StartLoop, StopOnEmpty, MarkRunning, ClearConstraints, MarkSatisfied, SkipPlanning
<1>4. CASE CopyGoal
  <2>1. /\ execute'.goal = constraints_ /\ execute'.changed = constraints_are_changed_
        /\ execute'.previous = NoTrajectory /\ execute'.trajectory = NoTrajectory
    BY <1>4, ConstantTypes DEF CopyGoal, NoLocals, Locals
  <2> QED
    BY <1>4, <2>1 DEF CopyGoal
<1>5. CASE UpdateRobotstate
  <2>1. execute' = [execute EXCEPT !.ref = joint_state_] /\ loop_pc' = "should_complete"
    BY <1>5, NoInvalidRobotState DEF UpdateRobotstate
  <2>2. /\ execute'.goal = execute.goal /\ execute'.changed = execute.changed
        /\ execute'.previous = execute.previous /\ execute'.trajectory = execute.trajectory
    BY <2>1 DEF TypeOK, Locals
  <2> QED
    BY <1>5, <2>1, <2>2 DEF UpdateRobotstate
<1>6. ASSUME NEW result \in {"kComplete", "kNotComplete", "kInvalidRobotState"},
             ShouldComplete(result)
      PROVE  TrajectoryFollowsGoal'
  <2>1. result # "kInvalidRobotState"
    BY <1>6, NoInvalidRobotState
  <2>2. /\ execute'.goal = execute.goal /\ execute'.changed = execute.changed
        /\ execute'.previous = execute.previous /\ execute'.trajectory = execute.trajectory
    BY <1>6 DEF ShouldComplete, TypeOK, Locals
  <2> QED
    BY <1>6, <2>1, <2>2 DEF ShouldComplete
<1>7. CASE StartPlanning
  <2>1. PICK previous \in IF execute.changed THEN {NoTrajectory} ELSE GetPreviousTrajectory :
           execute' = [execute EXCEPT !.previous = previous]
    BY <1>7 DEF StartPlanning
  <2>2. IsFor(previous, execute.goal)
    BY <1>7, <2>1 DEF StartPlanning, GetPreviousTrajectory
  <2>3. /\ execute'.goal = execute.goal /\ execute'.changed = execute.changed
        /\ execute'.previous = previous /\ execute'.trajectory = execute.trajectory
    BY <2>1 DEF TypeOK, Locals
  <2> QED
    BY <1>7, <2>2, <2>3 DEF StartPlanning
<1>8. CASE PlanAnswers
  <2>1. CASE loop_pc' = "command"
    <3>1. PICK trajectory \in PlanResults \ {NoTrajectory} :
             execute' = [execute EXCEPT !.trajectory = trajectory]
      BY <1>8, <2>1 DEF PlanAnswers, Return
    <3>2. trajectory.constraints = execute.goal.constraints
      BY <1>8, <3>1 DEF PlanAnswers, PlanResults
    <3>3. /\ execute'.goal = execute.goal /\ execute'.changed = execute.changed
          /\ execute'.previous = execute.previous /\ execute'.trajectory = trajectory
      BY <3>1 DEF TypeOK, Locals
    <3> QED
      BY <1>8, <2>1, <3>2, <3>3 DEF PlanAnswers
  <2>2. CASE loop_pc' # "command"
    BY <1>8, <2>2 DEF PlanAnswers, Return
  <2> QED
    BY <2>1, <2>2
<1>9. CASE RestoreChanged
  BY <1>9 DEF RestoreChanged, Return
<1>10. CASE CommandTrajectory
  BY <1>10 DEF CommandTrajectory, Return
<1>11. CASE Publish
  BY <1>11 DEF Publish, Return
<1> QED
  BY <1>1, <1>2, <1>3, <1>4, <1>5, <1>6, <1>7, <1>8, <1>9, <1>10, <1>11 DEF Next, LoopThread

(* When constraints are switched the planner is never offered what was     *)
(* planned for the goal before (node.cpp:253), however often planning      *)
(* fails, if no Execute returns before it has planned: for want of a joint *)
(* name, as in the run "stale_previous", or because a satisfied goal stays.*)
THEOREM OldTrajectoryExcludedHolds ==
    ASSUME JointStatesAreComplete, remove_completed_constraints_
    PROVE  Spec => []OldTrajectoryExcluded
<1> DEFINE Inv == TrajectoriesArePlanned /\ NamesAreSent /\ TrajectoryFollowsGoal
<1>1. Init => Inv
  BY TrajectoriesArePlannedInit, TrajectoryFollowsGoalInit DEF Init, NamesAreSent
<1>2. TypeOK /\ Inv /\ [Next]_vars => Inv'
  BY TrajectoriesArePlannedStep, NamesAreSentStep, TrajectoryFollowsGoalStep
<1>3. Inv => OldTrajectoryExcluded
  BY DEF TrajectoryFollowsGoal, Planning, IsFor, OldTrajectoryExcluded
<1> QED
  BY <1>1, <1>2, <1>3, TypeCorrect, PTL DEF Spec

-----------------------------------------------------------------------------
(* Nothing that was not sent empty ends EMPTY where goals are not removed. *)

HeldAsSent ==
    /\ cb_pc # "idle" => cb_msg \in received
    /\ constraints_ \in received \cup {NoGoal}
    /\ constraints_are_changed_ => constraints_ \in received
    /\ execute.changed => {constraints_, execute.goal} \subseteq received
    /\ loop_pc = "restore" => execute.changed
    /\ loop_pc = "stop" => execute.changed /\ IsEmpty(execute.goal)
    /\ loop_pc # "clear"

LEMMA HeldAsSentStep ==
    ASSUME ~remove_completed_constraints_, TypeOK, HeldAsSent, [Next]_vars
    PROVE  HeldAsSent'
<1> USE DEF HeldAsSent, IsEmpty, goals, output, loop, callback
<1>1. CASE SpinThread
  BY <1>1 DEF SpinThread, ReceiveGoal, RegisterGoal, UpdateConstraints, InstallGoal,
     JointStateCallback, BaseControllerStateCallback
<1>2. CASE Environment \/ UNCHANGED vars
  BY <1>2 DEF Environment, PlaybackFinishes, Tick, vars
<1>3. CASE StartLoop \/ StopOnEmpty \/ MarkRunning \/ ClearConstraints \/ MarkSatisfied
           \/ SkipPlanning
  BY <1>3 DEF StartLoop, StopOnEmpty, MarkRunning, ClearConstraints, MarkSatisfied, SkipPlanning
<1>4. CASE CopyGoal
  <2>1. /\ execute'.goal = constraints_ /\ execute'.changed = constraints_are_changed_
    BY <1>4, ConstantTypes DEF CopyGoal, NoLocals, Locals
  <2> QED
    BY <1>4, <2>1 DEF CopyGoal
<1>5. CASE UpdateRobotstate
  <2>1. execute'.goal = execute.goal /\ execute'.changed = execute.changed
    BY <1>5 DEF UpdateRobotstate, TypeOK, Locals
  <2> QED
    BY <1>5, <2>1 DEF UpdateRobotstate
<1>6. ASSUME NEW result, ShouldComplete(result) PROVE HeldAsSent'
  <2>1. execute'.goal = execute.goal /\ execute'.changed = execute.changed
    BY <1>6 DEF ShouldComplete, TypeOK, Locals
  <2> QED
    BY <1>6, <2>1 DEF ShouldComplete
<1>7. CASE StartPlanning
  <2>1. execute'.goal = execute.goal /\ execute'.changed = execute.changed
    BY <1>7 DEF StartPlanning, TypeOK, Locals
  <2> QED
    BY <1>7, <2>1 DEF StartPlanning
<1>8. CASE PlanAnswers
  <2>1. \/ execute'.goal = execute.goal /\ execute'.changed = execute.changed
        \/ execute' = NoLocals
    BY <1>8 DEF PlanAnswers, Return, TypeOK, Locals
  <2> QED
    BY <1>8, <2>1 DEF PlanAnswers, Return, NoLocals
<1>9. CASE RestoreChanged
  BY <1>9 DEF RestoreChanged, Return, NoLocals
<1>10. CASE CommandTrajectory \/ Publish
  BY <1>10 DEF CommandTrajectory, Publish, Return, NoLocals
<1> QED
  BY <1>1, <1>2, <1>3, <1>4, <1>5, <1>6, <1>7, <1>8, <1>9, <1>10 DEF Next, LoopThread

LEMMA HeldAsSentInit == Init => HeldAsSent
BY DEF Init, HeldAsSent, NoLocals

(* A goal that was not sent empty does not end EMPTY, as the run           *)
(* "lost_goal" finds it may, where satisfied goals are left in constraints_*)
(* (README.md:61): removing them is all that empties a goal.               *)
THEOREM OnlyEmptyGoalsEndEmptyHolds ==
    ASSUME ~remove_completed_constraints_
    PROVE  Spec => OnlyEmptyGoalsEndEmpty
<1> DEFINE Step == \A id \in GoalId :
                      statuses[id].value # "EMPTY" /\ statuses'[id].value = "EMPTY"
                      => \E m \in received : m.id = id /\ IsEmpty(m)
<1>1. TypeOK /\ HeldAsSent /\ Next => Step
  <2> SUFFICES ASSUME TypeOK, HeldAsSent, Next, NEW id \in GoalId,
                      statuses[id].value # "EMPTY", statuses'[id].value = "EMPTY"
               PROVE  \E m \in received : m.id = id /\ IsEmpty(m)
    OBVIOUS
  <2>1. StopOnEmpty
    BY OnlyStopOnEmptyEmpties
  <2>2. id = execute.goal.id
    <3>1. /\ statuses' = UpdateConstraintsStatus(statuses, execute.goal.id, "EMPTY")
          /\ statuses \in StatusList /\ execute.goal.id \in GoalId
      BY <2>1 DEF StopOnEmpty, TypeOK, Locals, Goal
    <3> QED
      BY <3>1 DEF UpdateConstraintsStatus, StatusList
  <2> QED
    BY <2>1, <2>2 DEF StopOnEmpty, HeldAsSent
<1>2. TypeOK /\ HeldAsSent /\ [Next]_vars => HeldAsSent'
  BY HeldAsSentStep
<1> QED
  BY <1>1, <1>2, HeldAsSentInit, TypeCorrect, PTL DEF Spec, OnlyEmptyGoalsEndEmpty
=============================================================================
