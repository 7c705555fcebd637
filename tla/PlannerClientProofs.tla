------------------------ MODULE PlannerClientProofs ------------------------
(***************************************************************************)
(* PlannerClient for every value of its constants: with a client and the   *)
(* topics around it the node still behaves as LocalPlannerNode says, so    *)
(* that what is proved of the node holds for the whole; a wait that        *)
(* returns True is right; and a client that waits for each goal before it  *)
(* sends the next has none of them emptied.                                *)
(***************************************************************************)
EXTENDS PlannerClient, GoalReportProofs

-----------------------------------------------------------------------------
(* The node in the composition is the node. *)

LEMMA ClientStepIsNodeStep == ASSUME [ClientNext]_allvars PROVE [Next]_vars
<1>1. CASE OnTopics(SpinThread) \/ OnTopics(LoopThread)
  BY <1>1 DEF OnTopics, Next
<1>2. CASE TimePasses
  BY <1>2 DEF TimePasses, Next, Environment
<1>3. CASE \/ \E m \in RobotLocalGoalMsgs : PublishGoal(m)
           \/ \E id \in GoalId : WaitForComplete(id)
           \/ SeeComplete \/ GiveUp \/ StatusCallback \/ LoseGoal
  BY <1>3 DEF PublishGoal, WaitForComplete, SeeComplete, GiveUp, WaitReturns, StatusCallback,
     LoseGoal
<1>4. CASE UNCHANGED allvars
  BY <1>4 DEF allvars
<1> QED
  BY <1>1, <1>2, <1>3, <1>4 DEF ClientNext

(* ROS hands the node only what its clients sent and takes from it only    *)
(* what it publishes: a client and lossy topics add no behaviour to the    *)
(* node's, and every theorem about Spec holds with them.                   *)
THEOREM ClientRunsTheNode == ClientSpec => Spec
<1>1. ClientInit => Init
  BY DEF ClientInit
<1> QED
  BY <1>1, ClientStepIsNodeStep, PTL DEF ClientSpec, Spec

-----------------------------------------------------------------------------
(* Type correctness. *)

Messages == [GoalId -> Live \cup Terminal \cup {"ABSENT"}]

LEMMA MessageType == ASSUME NEW list \in StatusList PROVE StatusMessage(list) \in Messages
<1>1. ASSUME NEW id \in GoalId PROVE list[id].value \in Live \cup Terminal \cup {"ABSENT"}
  <2>1. list[id] \in [value : Live \cup Terminal, age : Age] \cup {NoEntry}
    BY DEF StatusList
  <2> QED
    BY <2>1 DEF NoEntry
<1> QED
  BY <1>1 DEF StatusMessage, Messages

LEMMA EmptyListType == EmptyList \in StatusList
BY DEF EmptyList, StatusList

LEMMA ClientTypeStep ==
    ASSUME ClientTypeOK, TypeOK', [ClientNext]_allvars
    PROVE  ClientTypeOK'
<1> USE DEF ClientTypeOK
<1>1. /\ status_topic \in Messages /\ client_status \in Messages
      /\ WAIT_FOR_COMPLETE_TIMEOUT \in Nat /\ NoId \in GoalId
  BY ClientAssumption, NodeAssumption DEF Messages
<1> DEFINE Kept == /\ times_out' \in BOOLEAN
                   /\ awaited' \in GoalId
                   /\ wait_left' \in 0 .. WAIT_FOR_COMPLETE_TIMEOUT
                   /\ published' \subseteq RobotLocalGoalMsgs
                   /\ completed' \subseteq GoalId \ {NoId}
                   /\ constraints_topic' \subseteq published'
                   /\ status_topic' \in Messages /\ client_status' \in Messages
<1>2. SUFFICES Kept
  BY DEF Messages
<1>3. ASSUME NEW id \in GoalId, StartWaiting(id)
      PROVE  awaited' \in GoalId /\ wait_left' \in 0 .. WAIT_FOR_COMPLETE_TIMEOUT
  BY <1>1, <1>3 DEF StartWaiting
<1>4. ASSUME NEW m \in RobotLocalGoalMsgs, PublishGoal(m) PROVE Kept
  <2>1. m.id \in GoalId
    BY MessageIds DEF Goal
  <2>2. awaited' \in GoalId /\ wait_left' \in 0 .. WAIT_FOR_COMPLETE_TIMEOUT
    BY <1>3, <1>4, <2>1 DEF PublishGoal
  <2> QED
    BY <1>1, <1>4, <2>2 DEF PublishGoal
<1>5. ASSUME NEW id \in GoalId, WaitForComplete(id) PROVE Kept
  BY <1>1, <1>3, <1>5 DEF WaitForComplete
<1>6. CASE SeeComplete \/ GiveUp
  BY <1>1, <1>6 DEF SeeComplete, GiveUp, WaitReturns
<1>7. CASE StatusCallback \/ LoseGoal
  BY <1>1, <1>7 DEF StatusCallback, LoseGoal, waiting
<1>8. CASE OnTopics(SpinThread) \/ OnTopics(LoopThread)
  BY <1>1, <1>8, MessageType DEF OnTopics, waiting, TypeOK
<1>9. CASE TimePasses
  BY <1>1, <1>9 DEF TimePasses
<1>10. CASE UNCHANGED allvars
  BY <1>1, <1>10 DEF allvars, client, waiting
<1> QED
  BY <1>4, <1>5, <1>6, <1>7, <1>8, <1>9, <1>10 DEF ClientNext

(* The client and the topics keep their types. *)
THEOREM ClientTypeCorrect == ClientSpec => []ClientTypeOK
<1>1. ClientInit => ClientTypeOK
  <2>1. NoStatus \in Messages /\ NoId \in GoalId /\ WAIT_FOR_COMPLETE_TIMEOUT \in Nat
    BY MessageType, EmptyListType, NodeAssumption, ClientAssumption DEF NoStatus
  <2> QED
    BY <2>1, InitType DEF ClientInit, ClientTypeOK, Messages
<1>2. ClientTypeOK /\ TypeOK' /\ [ClientNext]_allvars => ClientTypeOK'
  BY ClientTypeStep
<1> QED
  BY <1>1, <1>2, TypeCorrect, ClientRunsTheNode, PTL DEF ClientSpec

-----------------------------------------------------------------------------
(* What a client reads was published. *)

(* What a message says of a closed goal stays published, however old the   *)
(* message is.                                                             *)
Truthful(message) ==
    \A id \in GoalId : message[id] \in Terminal => message[id] \in seen[id]

MessagesAreTruthful ==
    /\ Truthful(status_topic) /\ Truthful(client_status)
    /\ WaitIsRight

LEMMA SeenGrows ==
    ASSUME [Next]_vars, NEW id \in GoalId
    PROVE  seen[id] \subseteq seen'[id]
BY DEF Next, SpinThread, ReceiveGoal, RegisterGoal, UpdateConstraints, InstallGoal,
   JointStateCallback, BaseControllerStateCallback, LoopThread, StartLoop, CopyGoal,
   StopOnEmpty, MarkRunning, UpdateRobotstate, ShouldComplete, ClearConstraints,
   MarkSatisfied, SkipPlanning, StartPlanning, PlanAnswers, RestoreChanged,
   CommandTrajectory, Publish, PublishImpl_, Environment, PlaybackFinishes, Tick, vars, report

(* An execution that leaves "plan" or "publish" has published the list.    *)
LEMMA LeavingPublishes ==
    ASSUME SpinThread \/ LoopThread, loop_pc \in {"plan", "publish"}, loop_pc' # loop_pc
    PROVE  PublishImpl_
BY DEF SpinThread, ReceiveGoal, RegisterGoal, UpdateConstraints, InstallGoal, JointStateCallback,
   BaseControllerStateCallback, LoopThread, StartLoop, CopyGoal, StopOnEmpty, MarkRunning,
   UpdateRobotstate, ShouldComplete, ClearConstraints, MarkSatisfied, SkipPlanning,
   StartPlanning, PlanAnswers, RestoreChanged, CommandTrajectory, Publish, loop

LEMMA TruthfulStep ==
    ASSUME ClientTypeOK, MessagesAreTruthful, [ClientNext]_allvars
    PROVE  MessagesAreTruthful'
<1>1. \A id \in GoalId : seen[id] \subseteq seen'[id]
  BY SeenGrows, ClientStepIsNodeStep
<1>2. ASSUME NEW message, Truthful(message)
      PROVE  \A id \in GoalId : message[id] \in Terminal => message[id] \in seen'[id]
  BY <1>1, <1>2 DEF Truthful
<1>3. Truthful(status_topic)'
  <2>1. CASE status_topic' = status_topic
    BY <1>2, <2>1 DEF Truthful, MessagesAreTruthful
  <2>2. CASE status_topic' # status_topic
    <3>1. OnTopics(SpinThread) \/ OnTopics(LoopThread)
      BY <2>2 DEF ClientNext, PublishGoal, WaitForComplete, SeeComplete, GiveUp, WaitReturns,
         StatusCallback, LoseGoal, TimePasses, allvars, client
    <3>2. PublishImpl_ /\ status_topic' = StatusMessage(statuses')
      BY <2>2, <3>1, LeavingPublishes DEF OnTopics
    <3>3. ASSUME NEW id \in GoalId, status_topic'[id] \in Terminal
          PROVE  status_topic'[id] \in seen'[id]
      BY <3>2, <3>3 DEF PublishImpl_, StatusMessage
    <3> QED
      BY <3>3 DEF Truthful
  <2> QED
    BY <2>1, <2>2
<1>4. Truthful(client_status)'
  <2>1. client_status' \in {client_status, status_topic}
    BY DEF ClientNext, PublishGoal, WaitForComplete, SeeComplete, GiveUp, WaitReturns,
       StatusCallback, LoseGoal, TimePasses, OnTopics, allvars, client
  <2> QED
    BY <1>2, <2>1 DEF Truthful, MessagesAreTruthful
<1>5. WaitIsRight'
  <2> SUFFICES ASSUME NEW id \in completed'
               PROVE  seen'[id] \cap {"SATISFIED", "PREEMPTED"} # {}
    BY DEF WaitIsRight
  <2>1. CASE id \in completed
    <3>1. id \in GoalId /\ seen[id] \cap {"SATISFIED", "PREEMPTED"} # {}
      BY <2>1 DEF ClientTypeOK, MessagesAreTruthful, WaitIsRight
    <3> QED
      BY <1>1, <3>1
  <2>2. CASE id \notin completed
    <3>1. SeeComplete /\ id = awaited
      BY <2>2 DEF ClientNext, PublishGoal, WaitForComplete, SeeComplete, GiveUp, WaitReturns,
         StatusCallback, LoseGoal, TimePasses, OnTopics, allvars, client, waiting
    <3>2. id \in GoalId /\ client_status[id] \in {"SATISFIED", "PREEMPTED"}
      BY <3>1 DEF ClientTypeOK, SeeComplete, Complete
    <3>3. client_status[id] \in seen[id]
      BY <3>2 DEF MessagesAreTruthful, Truthful, Terminal
    <3> QED
      BY <1>1, <3>2, <3>3
  <2> QED
    BY <2>1, <2>2
<1> QED
  BY <1>3, <1>4, <1>5 DEF MessagesAreTruthful

LEMMA MessagesHold == ClientSpec => []MessagesAreTruthful
<1>1. ClientInit => MessagesAreTruthful
  BY DEF ClientInit, MessagesAreTruthful, Truthful, WaitIsRight, NoStatus, StatusMessage,
     EmptyList, NoEntry, Terminal
<1>2. ClientTypeOK /\ MessagesAreTruthful /\ [ClientNext]_allvars => MessagesAreTruthful'
  BY TruthfulStep
<1> QED
  BY <1>1, <1>2, ClientTypeCorrect, PTL DEF ClientSpec

(* wait_for_complete (robot_local_planner.py) and send_goal_sync           *)
(* (send_command.py) return True only for a goal the node has published as *)
(* satisfied or preempted, although messages are lost and delayed.         *)
THEOREM WaitIsRightHolds == ClientSpec => []WaitIsRight
<1>1. MessagesAreTruthful => WaitIsRight
  BY DEF MessagesAreTruthful
<1> QED
  BY <1>1, MessagesHold, PTL

-----------------------------------------------------------------------------
(* A client that waits without a limit has one goal on its way or followed *)
(* at a time.                                                              *)

(* The node has said that a goal is complete, or is about to say it. *)
Done(id) == statuses[id].value \in Complete \/ seen[id] \cap Complete # {}

(* Execute follows nothing and has nothing to take. *)
Resting == {"starting", "idle", "publish"}
Quiet == IsEmpty(constraints_) /\ ~constraints_are_changed_ /\ loop_pc \in Resting

(* A goal that is empty was sent so. *)
Meant(goal) == IsEmpty(goal) => \E m \in received : m.id = goal.id /\ IsEmpty(m)

IdsArePublished ==
    /\ received \subseteq published
    /\ constraints_.id = NoId \/ Sent(constraints_.id)
    /\ execute.goal.id = NoId \/ Sent(execute.goal.id)
    /\ \A id \in GoalId : Done(id) => id = NoId \/ Sent(id)
    /\ cb_pc # "idle" => cb_msg \in received

OneAtATime ==
    /\ \A m \in published : m.id = awaited \/ m.id \in completed
    /\ constraints_topic # {} =>
          \E m \in published : constraints_topic = {m} /\ m.id = awaited /\ ~Sent(m.id)
    /\ cb_pc # "idle" =>
          /\ constraints_topic = {} /\ cb_msg.id = awaited /\ ~Done(cb_msg.id)
          /\ cb_msg.id \notin {constraints_.id, execute.goal.id}

(* The node rests from the moment a goal is done until the next one is     *)
(* installed.                                                              *)
QuietBetween ==
    /\ constraints_topic # {} \/ cb_pc # "idle" => Quiet
    /\ constraints_.id = NoId \/ Done(constraints_.id) => Quiet
    /\ loop_pc \notin Resting => ~constraints_are_changed_
    /\ loop_pc = "satisfied" => IsEmpty(constraints_)

MeantToStop ==
    /\ constraints_are_changed_ \/ loop_pc \notin Resting \cup {"satisfied"} => Meant(constraints_)
    /\ loop_pc = "stop" => \E m \in received : m.id = execute.goal.id /\ IsEmpty(m)
    /\ loop_pc = "clear" => remove_completed_constraints_

GoalByGoal ==
    ~times_out =>
        /\ IdsArePublished
        /\ OneAtATime
        /\ remove_completed_constraints_ => QuietBetween
        /\ MeantToStop
        /\ NoGoalIsEmptied

USE DEF PreemptFollowed, NoticeChange, ForgetTrajectory, HeldId

(* Who gives a goal a status. *)
LEMMA WhoWrote ==
    ASSUME TypeOK, [Next]_vars, NEW id \in GoalId, statuses'[id].value # statuses[id].value
    PROVE  \/ /\ id = constraints_.id /\ statuses'[id].value = "PREEMPTED"
              /\ \E m \in RobotLocalGoalMsgs : ReceiveGoal(m)
           \/ statuses'[id].value \in {"NOT_USED", "RUNNING", "ABSENT"}
           \/ id = execute.goal.id /\ StopOnEmpty /\ statuses'[id].value = "EMPTY"
           \/ id = execute.goal.id /\ MarkSatisfied /\ statuses'[id].value = "SATISFIED"
<1>1. ASSUME NEW name \in GoalId, NEW status,
             statuses' = UpdateConstraintsStatus(statuses, name, status)
      PROVE  id = name /\ statuses'[id].value = status
  BY <1>1, ClosedStays
<1>2. ~Tick /\ ~(UNCHANGED statuses)
  BY AgedType DEF Tick, TypeOK
<1>3. CASE SpinThread
  <2>1. ASSUME NEW m \in RobotLocalGoalMsgs, ReceiveGoal(m)
        PROVE  id = constraints_.id /\ statuses'[id].value = "PREEMPTED"
    <3>1. statuses' = UpdateConstraintsStatus(statuses, constraints_.id, "PREEMPTED")
      BY <2>1 DEF ReceiveGoal
    <3> QED
      BY <3>1, <1>1, IdsAreIds
  <2>2. CASE RegisterGoal
    <3>1. statuses' = UpdateConstraintsStatus(statuses, cb_msg.id, "NOT_USED")
      BY <2>2 DEF RegisterGoal
    <3> QED
      BY <3>1, <1>1, IdsAreIds
  <2> QED
    BY <1>2, <1>3, <2>1, <2>2 DEF SpinThread, UpdateConstraints, InstallGoal,
       JointStateCallback, BaseControllerStateCallback
<1>4. CASE StopOnEmpty \/ MarkRunning \/ MarkSatisfied
  <2>1. /\ MarkRunning
           => statuses' = UpdateConstraintsStatus(statuses, execute.goal.id, "RUNNING")
        /\ StopOnEmpty
           => statuses' = UpdateConstraintsStatus(statuses, execute.goal.id, "EMPTY")
        /\ MarkSatisfied
           => statuses' = UpdateConstraintsStatus(statuses, execute.goal.id, "SATISFIED")
    BY DEF StopOnEmpty, MarkRunning, MarkSatisfied
  <2> QED
    BY <1>1, <1>4, <2>1, IdsAreIds
<1>5. CASE Publish \/ PlanAnswers
  <2>1. statuses' = Unexpired(statuses)
    BY <1>5 DEF Publish, PlanAnswers, PublishImpl_
  <2>2. statuses'[id] = NoEntry
    BY <2>1, UnexpiredType DEF TypeOK
  <2> QED
    BY <2>2 DEF NoEntry
<1>6. CASE LoopThread
  BY <1>2, <1>4, <1>5, <1>6 DEF LoopThread, StartLoop, CopyGoal, UpdateRobotstate, ShouldComplete,
     ClearConstraints, SkipPlanning, StartPlanning, RestoreChanged, CommandTrajectory
<1>7. CASE Environment \/ UNCHANGED vars
  BY <1>2, <1>7 DEF Environment, PlaybackFinishes, vars
<1> QED
  BY <1>3, <1>6, <1>7 DEF Next

(* How a goal comes to be done. *)
LEMMA WhoIsDone ==
    ASSUME TypeOK, [Next]_vars, NEW id \in GoalId, Done(id)'
    PROVE  \/ Done(id)
           \/ id = constraints_.id /\ \E m \in RobotLocalGoalMsgs : ReceiveGoal(m)
           \/ id = execute.goal.id /\ MarkSatisfied
<1>1. CASE statuses'[id].value \in Complete
  <2>1. CASE statuses'[id].value = statuses[id].value
    BY <1>1, <2>1 DEF Done
  <2>2. CASE statuses'[id].value # statuses[id].value
    BY <1>1, <2>2, WhoWrote DEF Complete
  <2> QED
    BY <2>1, <2>2
<1>2. CASE seen'[id] \cap Complete # {}
  <2>1. CASE seen'[id] = seen[id]
    BY <1>2, <2>1 DEF Done
  <2>2. CASE seen'[id] # seen[id]
    <3>1. PublishImpl_
      BY <2>2 DEF Next, SpinThread, ReceiveGoal, RegisterGoal, UpdateConstraints, InstallGoal,
         JointStateCallback, BaseControllerStateCallback, LoopThread, StartLoop, CopyGoal,
         StopOnEmpty, MarkRunning, UpdateRobotstate, ShouldComplete, ClearConstraints,
         MarkSatisfied, SkipPlanning, StartPlanning, PlanAnswers, RestoreChanged,
         CommandTrajectory, Publish, Environment, PlaybackFinishes, Tick, vars, report
    <3>2. seen'[id] = seen[id] \cup ({Unexpired(statuses)[id].value} \cap Terminal)
      BY <3>1 DEF PublishImpl_
    <3>3. Unexpired(statuses)[id] \in {statuses[id], NoEntry}
      BY UnexpiredType DEF TypeOK
    <3> QED
      BY <1>2, <3>2, <3>3 DEF Done, Complete, NoEntry
  <2> QED
    BY <2>1, <2>2
<1> QED
  BY <1>1, <1>2 DEF Done

(* How a goal comes to be empty, in the list and in constraints_. *)
LEMMA WhoIsEmptied ==
    ASSUME TypeOK, [Next]_vars, NEW id \in GoalId, statuses'[id].value = "EMPTY"
    PROVE  statuses[id].value = "EMPTY" \/ (id = execute.goal.id /\ StopOnEmpty)
BY WhoWrote

LEMMA FollowedFlow ==
    ASSUME [Next]_vars
    PROVE  \/ constraints_' = constraints_
           \/ InstallGoal
           \/ /\ ClearConstraints /\ constraints_' = Clear(constraints_)
              /\ loop_pc' = "satisfied" /\ constraints_are_changed_' = constraints_are_changed_
BY DEF Next, SpinThread, ReceiveGoal, RegisterGoal, UpdateConstraints, InstallGoal,
   JointStateCallback, BaseControllerStateCallback, LoopThread, StartLoop, CopyGoal,
   StopOnEmpty, MarkRunning, UpdateRobotstate, ShouldComplete, ClearConstraints,
   MarkSatisfied, SkipPlanning, StartPlanning, PlanAnswers, RestoreChanged,
   CommandTrajectory, Publish, Environment, PlaybackFinishes, Tick, vars, goals

(* From where Execute comes to a step, with which goal, and who sets the   *)
(* flag.                                                                   *)
LEMMA ExecuteFlow ==
    ASSUME TypeOK, [Next]_vars
    PROVE  /\ loop_pc' \notin Resting => loop_pc \notin Resting \/ CopyGoal
           /\ loop_pc' \notin Resting \cup {"satisfied"} => loop_pc # "satisfied"
           /\ loop_pc' = "stop"
              => \/ CopyGoal /\ IsEmpty(constraints_) /\ constraints_are_changed_
                 \/ loop_pc = "stop" /\ execute'.goal = execute.goal
           /\ loop_pc' = "clear" => loop_pc = "clear" \/ remove_completed_constraints_
           /\ loop_pc' = "satisfied"
              => \/ loop_pc = "satisfied"
                 \/ ClearConstraints
                 \/ ~remove_completed_constraints_
           /\ constraints_are_changed_'
              => \/ constraints_are_changed_ /\ ~CopyGoal
                 \/ InstallGoal /\ loop_pc' = loop_pc
                 \/ RestoreChanged
           /\ execute'.goal \in {execute.goal, NoGoal} \/ (CopyGoal /\ execute'.goal = constraints_)
<1>1. CASE SpinThread \/ Environment \/ UNCHANGED vars
  BY <1>1 DEF SpinThread, ReceiveGoal, RegisterGoal, UpdateConstraints, InstallGoal,
     JointStateCallback, BaseControllerStateCallback, Environment, PlaybackFinishes, Tick,
     vars, goals, loop, CopyGoal
<1>2. CASE CopyGoal
  <2>1. /\ constraints_are_changed_' = FALSE /\ loop_pc' \notin {"clear", "satisfied"}
        /\ loop_pc' = "stop" => IsEmpty(constraints_) /\ constraints_are_changed_
        /\ loop_pc = "idle"
    BY <1>2 DEF CopyGoal
  <2>2. execute'.goal = constraints_
    BY <1>2 DEF CopyGoal, NoLocals
  <2> QED
    BY <1>2, <2>1, <2>2 DEF Resting
<1>3. CASE LoopThread /\ ~CopyGoal
  <2>1. execute \in Locals
    BY DEF TypeOK
  <2>2. execute'.goal \in {execute.goal, NoGoal}
    BY <1>3, <2>1 DEF LoopThread, StartLoop, StopOnEmpty, MarkRunning, UpdateRobotstate,
       ShouldComplete, ClearConstraints, MarkSatisfied, SkipPlanning, StartPlanning,
       PlanAnswers, RestoreChanged, CommandTrajectory, Publish, Return, Locals, NoLocals
  <2>3. /\ loop_pc' # "stop"
        /\ loop_pc' = "clear" => remove_completed_constraints_
        /\ loop_pc' = "satisfied" => ClearConstraints \/ ~remove_completed_constraints_
        /\ loop_pc' \notin Resting => loop_pc \notin Resting
        /\ loop_pc' \notin Resting \cup {"satisfied"} => loop_pc # "satisfied"
        /\ constraints_are_changed_' => constraints_are_changed_ \/ RestoreChanged
    BY <1>3 DEF LoopThread, StartLoop, StopOnEmpty, MarkRunning, UpdateRobotstate,
       ShouldComplete, ClearConstraints, MarkSatisfied, SkipPlanning, StartPlanning,
       PlanAnswers, RestoreChanged, CommandTrajectory, Publish, Return, goals, Resting
  <2> QED
    BY <1>3, <2>2, <2>3
<1> QED
  BY <1>1, <1>2, <1>3 DEF Next

LEMMA QuietStays ==
    ASSUME Quiet, [Next]_vars, ~InstallGoal
    PROVE  Quiet'
<1>1. CASE SpinThread \/ Environment \/ UNCHANGED vars
  BY <1>1 DEF SpinThread, ReceiveGoal, RegisterGoal, UpdateConstraints,
     JointStateCallback, BaseControllerStateCallback, Environment, PlaybackFinishes, Tick,
     vars, goals, loop, Quiet, IsEmpty
<1>2. CASE LoopThread
  BY <1>2 DEF LoopThread, StartLoop, CopyGoal, StopOnEmpty, MarkRunning, UpdateRobotstate,
     ShouldComplete, ClearConstraints, MarkSatisfied, SkipPlanning, StartPlanning, PlanAnswers,
     RestoreChanged, CommandTrajectory, Publish, Return, goals, Quiet, IsEmpty, Resting
<1> QED
  BY <1>1, <1>2 DEF Next

(* What a client's step makes of what was sent, and of the topic. *)
LEMMA GoalFlow ==
    ASSUME ClientTypeOK, [ClientNext]_allvars
    PROVE  /\ times_out' = times_out /\ published \subseteq published'
           /\ received \subseteq received' /\ received' \subseteq received \cup constraints_topic
           /\ \/ \E m \in RobotLocalGoalMsgs : PublishGoal(m)
              \/ /\ published' = published /\ constraints_topic' \subseteq constraints_topic
                 /\ received' = received \/ constraints_topic' = constraints_topic \ received'
           /\ \/ cb_pc' = cb_pc /\ cb_msg' = cb_msg
              \/ /\ cb_pc = "idle"
                 /\ \E m \in RobotLocalGoalMsgs : ReceiveGoal(m) /\ m \in constraints_topic
                 /\ constraints_topic' = constraints_topic \ received'
              \/ RegisterGoal /\ cb_msg' = cb_msg
              \/ UpdateConstraints /\ cb_msg' = cb_msg
              \/ InstallGoal
<1> USE DEF callback
<1>1. ASSUME NEW m \in RobotLocalGoalMsgs, ReceiveGoal(m), OnTopics(SpinThread)
      PROVE  /\ times_out' = times_out /\ published' = published
             /\ constraints_topic' \subseteq constraints_topic
             /\ constraints_topic' = constraints_topic \ received'
             /\ received \subseteq received' /\ received' \subseteq received \cup constraints_topic
             /\ cb_pc = "idle" /\ m \in constraints_topic
  BY <1>1 DEF OnTopics, ReceiveGoal, waiting
<1>2. CASE OnTopics(SpinThread) /\ ~(\E m \in RobotLocalGoalMsgs : ReceiveGoal(m))
  BY <1>2 DEF OnTopics, waiting, SpinThread, RegisterGoal, UpdateConstraints, InstallGoal,
     JointStateCallback, BaseControllerStateCallback
<1>3. CASE OnTopics(LoopThread)
  <2>1. received' = received /\ cb_pc' = cb_pc /\ cb_msg' = cb_msg
    BY <1>3 DEF OnTopics, LoopThread, StartLoop, CopyGoal, StopOnEmpty, MarkRunning,
       UpdateRobotstate, ShouldComplete, ClearConstraints, MarkSatisfied, SkipPlanning,
       StartPlanning, PlanAnswers, RestoreChanged, CommandTrajectory, Publish
  <2> QED
    BY <1>3, <2>1 DEF OnTopics, waiting
<1>4. CASE TimePasses
  BY <1>4 DEF TimePasses, Tick
<1>5. ASSUME NEW m \in RobotLocalGoalMsgs, PublishGoal(m)
      PROVE  /\ times_out' = times_out /\ published \subseteq published'
             /\ received' = received /\ cb_pc' = cb_pc /\ cb_msg' = cb_msg
  BY <1>5 DEF PublishGoal, vars
<1>6. CASE \/ \E id \in GoalId : WaitForComplete(id)
           \/ SeeComplete \/ GiveUp \/ StatusCallback \/ LoseGoal
  BY <1>6 DEF WaitForComplete, SeeComplete, GiveUp, WaitReturns, StatusCallback, LoseGoal,
     waiting, vars
<1>7. CASE UNCHANGED allvars
  BY <1>7 DEF allvars, client, waiting, vars
<1> QED
  BY <1>1, <1>2, <1>3, <1>4, <1>5, <1>6, <1>7 DEF ClientNext

(* What the client waits for changes when it publishes or sees it done. *)
LEMMA WaitFlow ==
    ASSUME has_wait_complete, ~times_out, OneAtATime, [ClientNext]_allvars, ClientTypeOK
    PROVE  \/ awaited' = awaited /\ completed' = completed
           \/ \E m \in RobotLocalGoalMsgs : PublishGoal(m) /\ awaited' = m.id /\ completed' = completed
           \/ SeeComplete /\ completed' = completed \cup {awaited} /\ UNCHANGED vars
<1>1. \A id \in GoalId : ~WaitForComplete(id)
  <2> SUFFICES ASSUME NEW id \in GoalId, WaitForComplete(id) PROVE FALSE
    OBVIOUS
  <2>1. PICK m \in published : m.id = id
    BY DEF WaitForComplete
  <2>2. m.id # NoId
    BY NodeAssumption DEF ClientTypeOK
  <2> QED
    BY <2>1, <2>2 DEF WaitForComplete, OneAtATime
<1>2. ASSUME NEW m \in RobotLocalGoalMsgs, PublishGoal(m)
      PROVE  awaited' = m.id /\ completed' = completed
  BY <1>2 DEF PublishGoal, StartWaiting
<1>3. ~GiveUp
  BY DEF GiveUp, TimedOut
<1>4. CASE SeeComplete
  BY <1>4 DEF SeeComplete, WaitReturns
<1>5. CASE StatusCallback \/ LoseGoal \/ OnTopics(SpinThread) \/ OnTopics(LoopThread) \/ TimePasses
  BY <1>5 DEF StatusCallback, LoseGoal, OnTopics, TimePasses, waiting
<1>6. CASE UNCHANGED allvars
  BY <1>6 DEF allvars, client, waiting
<1> QED
  BY <1>1, <1>2, <1>3, <1>4, <1>5, <1>6 DEF ClientNext

LEMMA IdsArePublishedStep ==
    ASSUME ClientTypeOK, IdsArePublished, [ClientNext]_allvars
    PROVE  IdsArePublished'
<1>1. TypeOK /\ [Next]_vars
  BY ClientStepIsNodeStep DEF ClientTypeOK
<1>2. /\ received \subseteq received' /\ received' \subseteq received \cup constraints_topic
      /\ published \subseteq published'
      /\ constraints_topic \subseteq published
  BY GoalFlow DEF ClientTypeOK
<1>3. \A id : Sent(id) => Sent(id)'
  BY <1>2 DEF Sent
<1>4. received' \subseteq published'
  BY <1>2 DEF IdsArePublished
<1>5. cb_pc' # "idle" => cb_msg' \in received'
  BY <1>2, GoalFlow DEF IdsArePublished, ReceiveGoal, InstallGoal, RegisterGoal, UpdateConstraints
<1>6. constraints_'.id = NoId \/ Sent(constraints_.id)'
  <2>1. CASE constraints_'.id = constraints_.id
    BY <1>3, <2>1 DEF IdsArePublished
  <2>2. CASE InstallGoal
    BY <1>2, <2>2 DEF InstallGoal, IdsArePublished, Sent
  <2>3. CASE constraints_' = Clear(constraints_)
    <3>1. constraints_'.id = constraints_.id
      BY <1>1, <2>3 DEF Clear, TypeOK, Goal
    <3> QED
      BY <2>1, <3>1
  <2> QED
    BY <1>1, <2>1, <2>2, <2>3, FollowedFlow
<1>7. execute'.goal.id = NoId \/ Sent(execute.goal.id)'
  <2>1. \/ execute'.goal.id \in {execute.goal.id, constraints_.id}
        \/ execute'.goal.id = NoId
    BY <1>1, ExecuteFlow DEF NoGoal
  <2> QED
    BY <1>3, <2>1 DEF IdsArePublished, Sent
<1>8. ASSUME NEW id \in GoalId, Done(id)' PROVE id = NoId \/ Sent(id)'
  BY <1>1, <1>3, <1>8, WhoIsDone DEF IdsArePublished
<1> QED
  BY <1>4, <1>5, <1>6, <1>7, <1>8 DEF IdsArePublished

(* A goal that was not sent yet is not done, nor followed, nor held. *)
LEMMA UnsentIsFresh ==
    ASSUME ClientTypeOK, IdsArePublished, NEW m \in published, ~Sent(m.id)
    PROVE  m.id \in GoalId \ {NoId} /\ ~Done(m.id) /\ m.id \notin {constraints_.id, execute.goal.id}
<1>1. m.id \in GoalId \ {NoId}
  BY MessageIds DEF ClientTypeOK, Goal
<1> QED
  BY <1>1 DEF IdsArePublished

(* A wait that ends was for a goal the node is done with. *)
LEMMA SeenCompleteIsDone ==
    ASSUME ClientTypeOK, MessagesAreTruthful, SeeComplete
    PROVE  Done(awaited)
<1>1. awaited \in GoalId /\ client_status[awaited] \in Complete
  BY DEF ClientTypeOK, SeeComplete
<1>2. client_status[awaited] \in seen[awaited]
  BY <1>1 DEF MessagesAreTruthful, Truthful, Complete, Terminal
<1> QED
  BY <1>1, <1>2 DEF Done

LEMMA OneAtATimeStep ==
    ASSUME has_wait_complete, ~times_out, ClientTypeOK, MessagesAreTruthful, IdsArePublished,
           OneAtATime, [ClientNext]_allvars
    PROVE  OneAtATime'
<1>1. TypeOK /\ [Next]_vars
  BY ClientStepIsNodeStep DEF ClientTypeOK
<1>2. published \subseteq RobotLocalGoalMsgs /\ \A m \in published : m.id \in GoalId \ {NoId}
  BY MessageIds DEF ClientTypeOK, Goal
<1>3. CASE \E m \in RobotLocalGoalMsgs : PublishGoal(m)
  <2>1. PICK m \in RobotLocalGoalMsgs : PublishGoal(m)
    BY <1>3
  <2>2. /\ awaited = NoId /\ \A other \in published : other.id # m.id
        /\ published' = published \cup {m} /\ constraints_topic' = {m}
        /\ awaited' = m.id /\ completed' = completed
        /\ UNCHANGED vars
    BY <2>1 DEF PublishGoal, StartWaiting
  <2>3. \A n \in published' : n.id = awaited' \/ n.id \in completed'
    BY <1>2, <2>2 DEF OneAtATime
  <2>4. ~Sent(m.id)'
    BY <2>2 DEF vars, callback, Sent, IdsArePublished
  <2>5. cb_pc' = "idle"
    BY <1>2, <2>2 DEF OneAtATime, IdsArePublished, vars, callback
  <2> QED
    BY <2>2, <2>3, <2>4, <2>5 DEF OneAtATime
<1>4. CASE SeeComplete
  <2>1. /\ completed' = completed \cup {awaited} /\ UNCHANGED vars
        /\ published' = published /\ constraints_topic' = constraints_topic
    BY <1>4 DEF SeeComplete, WaitReturns
  <2>2. Done(awaited)
    BY <1>4, SeenCompleteIsDone
  <2>3. constraints_topic = {}
    BY <2>2, UnsentIsFresh DEF OneAtATime
  <2>4. cb_pc = "idle"
    BY <2>2 DEF OneAtATime
  <2> QED
    BY <2>1, <2>3, <2>4 DEF OneAtATime, vars, callback
<1>5. CASE ~(\E m \in RobotLocalGoalMsgs : PublishGoal(m)) /\ ~SeeComplete
  <2>1. /\ awaited' = awaited /\ completed' = completed /\ published' = published
        /\ constraints_topic' \subseteq constraints_topic
        /\ received' = received \/ constraints_topic' = constraints_topic \ received'
        /\ received' \subseteq received \cup constraints_topic
    BY <1>5, WaitFlow, GoalFlow
  <2>2. ASSUME constraints_topic' # {}
        PROVE  \E m \in published' : constraints_topic' = {m} /\ m.id = awaited' /\ ~Sent(m.id)'
    <3>1. PICK m \in published : constraints_topic = {m} /\ m.id = awaited /\ ~Sent(m.id)
      BY <2>1, <2>2 DEF OneAtATime
    <3>2. constraints_topic' = {m} /\ m \notin received'
      BY <2>1, <2>2, <3>1 DEF Sent
    <3> QED
      BY <2>1, <3>1, <3>2 DEF Sent
  <2>3. ASSUME cb_pc' # "idle"
        PROVE  /\ constraints_topic' = {} /\ cb_msg'.id = awaited' /\ ~Done(cb_msg.id)'
               /\ cb_msg'.id \notin {constraints_'.id, execute'.goal.id}
    <3>0. /\ cb_msg'.id # NoId
          /\ \/ constraints_' = constraints_
             \/ InstallGoal
             \/ constraints_' = Clear(constraints_) /\ constraints_'.id = constraints_.id
          /\ execute'.goal.id \in {execute.goal.id, constraints_.id, NoId}
      <4>1. cb_msg' \in published'
        BY <2>3, IdsArePublishedStep DEF IdsArePublished
      <4>2. Clear(constraints_).id = constraints_.id
        BY <1>1 DEF Clear, TypeOK, Goal
      <4> QED
        BY <1>1, <1>2, <2>1, <4>1, <4>2, FollowedFlow, ExecuteFlow DEF NoGoal
    <3>1. CASE cb_pc # "idle" /\ cb_msg' = cb_msg /\ ~InstallGoal
      <4>1. /\ constraints_topic = {} /\ cb_msg.id = awaited /\ ~Done(cb_msg.id)
            /\ cb_msg.id \notin {constraints_.id, execute.goal.id}
        BY <3>1 DEF OneAtATime
      <4>2. ~Done(cb_msg.id)'
        BY <1>1, <3>1, <4>1, WhoIsDone, IdsAreIds DEF ReceiveGoal
      <4> QED
        BY <2>1, <3>0, <3>1, <4>1, <4>2
    <3>2. CASE /\ cb_pc = "idle"
               /\ \E m \in RobotLocalGoalMsgs : ReceiveGoal(m) /\ m \in constraints_topic
               /\ constraints_topic' = constraints_topic \ received'
      <4>1. PICK m \in RobotLocalGoalMsgs : ReceiveGoal(m) /\ m \in constraints_topic
        BY <3>2
      <4>2. constraints_topic = {m} /\ m \in published /\ m.id = awaited /\ ~Sent(m.id)
        BY <4>1 DEF OneAtATime
      <4>3. /\ cb_msg' = m /\ constraints_topic' = {} /\ ~InstallGoal
        BY <3>2, <4>1, <4>2 DEF ReceiveGoal, InstallGoal
      <4>4. m.id \in GoalId \ {NoId} /\ ~Done(m.id) /\ m.id \notin {constraints_.id, execute.goal.id}
        BY <4>2, UnsentIsFresh
      <4>5. ~Done(m.id)'
        BY <1>1, <4>4, WhoIsDone
      <4> QED
        BY <2>1, <3>0, <4>2, <4>3, <4>4, <4>5
    <3> QED
      BY <2>3, <3>1, <3>2, GoalFlow DEF RegisterGoal, UpdateConstraints, InstallGoal
  <2> QED
    BY <2>1, <2>2, <2>3 DEF OneAtATime
<1> QED
  BY <1>3, <1>4, <1>5

(* The next goal is published when the node rests, and the node rests until*)
(* it is installed.                                                        *)
LEMMA QuietBetweenStep ==
    ASSUME remove_completed_constraints_, ClientTypeOK, MessagesAreTruthful, IdsArePublished,
           OneAtATime, OneAtATime', QuietBetween, [ClientNext]_allvars
    PROVE  QuietBetween'
<1>1. TypeOK /\ [Next]_vars
  BY ClientStepIsNodeStep DEF ClientTypeOK
<1>2. constraints_.id \in GoalId /\ execute.goal.id \in GoalId /\ cb_msg.id \in GoalId
  BY <1>1, IdsAreIds
<1>3. Quiet /\ ~InstallGoal => Quiet'
  BY <1>1, QuietStays
<1>4. constraints_topic' # {} \/ cb_pc' # "idle" => Quiet'
  <2>1. ASSUME NEW m \in RobotLocalGoalMsgs, PublishGoal(m) PROVE Quiet'
    <3>1. awaited = NoId /\ UNCHANGED vars /\ cb_pc' = cb_pc
      BY <2>1 DEF PublishGoal, vars, callback
    <3>2. \A n \in published : n.id \in completed
      BY <3>1, MessageIds DEF OneAtATime, ClientTypeOK
    <3>3. constraints_.id = NoId \/ constraints_.id \in completed
      BY <3>2 DEF IdsArePublished, Sent
    <3>4. constraints_.id = NoId \/ Done(constraints_.id)
      BY <3>3 DEF MessagesAreTruthful, WaitIsRight, Done, Complete
    <3> QED
      BY <3>1, <3>4 DEF QuietBetween, Quiet, vars, goals, loop, IsEmpty
  <2>2. ASSUME published' = published, constraints_topic' \subseteq constraints_topic,
               constraints_topic' # {} \/ cb_pc' # "idle"
        PROVE  Quiet'
    <3>1. Quiet
      BY <2>2, GoalFlow DEF QuietBetween, RegisterGoal, UpdateConstraints, InstallGoal
    <3>2. cb_pc # "idle" => constraints_topic = {}
      BY DEF OneAtATime
    <3>3. ~InstallGoal
      BY <2>2, <3>2 DEF InstallGoal
    <3> QED
      BY <3>1, <3>3, <1>3
  <2> QED
    BY <2>1, <2>2, GoalFlow
<1>5. InstallGoal => Quiet /\ loop_pc' = loop_pc
  BY DEF InstallGoal, QuietBetween, loop
<1>6. constraints_'.id = NoId \/ Done(constraints_.id)' => Quiet'
  <2>1. CASE InstallGoal
    <3>1. /\ cb_pc # "idle" /\ constraints_' = cb_msg
          /\ ~MarkSatisfied /\ ~(\E m \in RobotLocalGoalMsgs : ReceiveGoal(m))
      BY <2>1 DEF InstallGoal, MarkSatisfied, ReceiveGoal, loop
    <3>2. cb_msg \in published /\ ~Done(cb_msg.id)
      BY <3>1 DEF OneAtATime, IdsArePublished
    <3>3. PICK id \in GoalId : id = cb_msg.id /\ id # NoId
      BY <1>2, <3>2, MessageIds DEF ClientTypeOK
    <3>4. ~Done(id)'
      BY <1>1, <3>1, <3>2, <3>3, WhoIsDone
    <3> QED
      BY <3>1, <3>3, <3>4 DEF Done
  <2>2. CASE ~InstallGoal
    <3>1. constraints_'.id = constraints_.id
      <4>1. Clear(constraints_).id = constraints_.id
        BY <1>1 DEF Clear, TypeOK, Goal
      <4> QED
        BY <1>1, <2>2, <4>1, FollowedFlow
    <3>2. CASE constraints_.id = NoId \/ Done(constraints_.id)
      BY <2>2, <3>2, <1>3 DEF QuietBetween
    <3>3. CASE \E m \in RobotLocalGoalMsgs : ReceiveGoal(m)
      BY <2>2, <3>3, <1>3, <1>4 DEF ReceiveGoal
    <3>4. CASE MarkSatisfied
      BY <3>4 DEF MarkSatisfied, QuietBetween, Quiet, Resting, goals, IsEmpty
    <3>5. Done(constraints_.id)' => Done(constraints_.id) \/ MarkSatisfied
                                    \/ \E m \in RobotLocalGoalMsgs : ReceiveGoal(m)
      <4>1. PICK id \in GoalId : id = constraints_.id
        BY <1>2
      <4>2. Done(id)' => Done(id) \/ MarkSatisfied \/ \E m \in RobotLocalGoalMsgs : ReceiveGoal(m)
        BY <1>1, WhoIsDone
      <4> QED
        BY <3>1, <4>1, <4>2 DEF Done
    <3> QED
      BY <3>1, <3>2, <3>3, <3>4, <3>5
  <2> QED
    BY <2>1, <2>2
<1>7. loop_pc' \notin Resting => ~constraints_are_changed_'
  <2>1. RestoreChanged => loop_pc' \in Resting
    BY DEF RestoreChanged, Return, Resting
  <2> QED
    BY <1>1, <1>5, <2>1, ExecuteFlow DEF QuietBetween, Quiet
<1>8. loop_pc' = "satisfied" => IsEmpty(constraints_')
  <2>1. ClearConstraints => IsEmpty(constraints_')
    BY <1>1 DEF ClearConstraints, Clear, IsEmpty, TypeOK, Goal
  <2>2. InstallGoal => loop_pc' # "satisfied"
    BY <1>5 DEF Quiet, Resting
  <2> QED
    BY <1>1, <2>1, <2>2, ExecuteFlow, FollowedFlow DEF QuietBetween
<1> QED
  BY <1>4, <1>6, <1>7, <1>8 DEF QuietBetween, IsEmpty

(* Only ClearConstraints empties a goal, and there is no other then. *)
LEMMA MeantToStopStep ==
    ASSUME ClientTypeOK, IdsArePublished, IdsArePublished', MeantToStop,
           remove_completed_constraints_ => QuietBetween, [ClientNext]_allvars
    PROVE  MeantToStop'
<1>1. TypeOK /\ [Next]_vars
  BY ClientStepIsNodeStep DEF ClientTypeOK
<1>2. received \subseteq received'
  BY GoalFlow
<1>3. constraints_are_changed_' \/ loop_pc' \notin Resting \cup {"satisfied"}
      => Meant(constraints_)'
  <2> SUFFICES ASSUME constraints_are_changed_' \/ loop_pc' \notin Resting \cup {"satisfied"},
                      IsEmpty(constraints_')
               PROVE  \E m \in received' : m.id = constraints_'.id /\ IsEmpty(m)
    BY DEF Meant, IsEmpty
  <2>1. CASE InstallGoal
    BY <1>2, <2>1 DEF InstallGoal, IdsArePublished
  <2>2. CASE constraints_' = constraints_ /\ ~InstallGoal
    <3>1. constraints_are_changed_ \/ loop_pc \notin Resting \cup {"satisfied"}
      <4>1. RestoreChanged => loop_pc \notin Resting \cup {"satisfied"}
        BY DEF RestoreChanged, Resting
      <4>2. CopyGoal => constraints_are_changed_ \/ loop_pc' \in Resting
        BY <2>2 DEF CopyGoal, Resting, IsEmpty
      <4>3. CopyGoal => ~constraints_are_changed_'
        BY DEF CopyGoal
      <4> QED
        BY <1>1, <2>2, <4>1, <4>2, <4>3, ExecuteFlow
    <3> QED
      BY <1>2, <2>2, <3>1 DEF MeantToStop, Meant, IsEmpty
  <2>3. CASE ClearConstraints /\ loop_pc' = "satisfied"
             /\ constraints_are_changed_' = constraints_are_changed_
    <3>1. loop_pc = "clear" /\ constraints_are_changed_
      BY <2>3 DEF ClearConstraints
    <3> QED
      BY <3>1 DEF MeantToStop, QuietBetween, Resting
  <2> QED
    BY <1>1, <2>1, <2>2, <2>3, FollowedFlow
<1>4. loop_pc' = "stop" => \E m \in received' : m.id = execute'.goal.id /\ IsEmpty(m)
  <2> SUFFICES ASSUME loop_pc' = "stop"
               PROVE  \E m \in received' : m.id = execute'.goal.id /\ IsEmpty(m)
    OBVIOUS
  <2>1. CASE loop_pc = "stop" /\ execute'.goal = execute.goal
    BY <1>2, <2>1 DEF MeantToStop
  <2>2. CASE CopyGoal /\ IsEmpty(constraints_) /\ constraints_are_changed_
    <3>1. execute'.goal = constraints_
      BY <2>2 DEF CopyGoal, NoLocals
    <3> QED
      BY <1>2, <2>2, <3>1 DEF MeantToStop, Meant
  <2> QED
    BY <1>1, <2>1, <2>2, ExecuteFlow
<1>5. loop_pc' = "clear" => remove_completed_constraints_
  BY <1>1, ExecuteFlow DEF MeantToStop
<1> QED
  BY <1>3, <1>4, <1>5 DEF MeantToStop, IsEmpty

LEMMA NoGoalIsEmptiedStep ==
    ASSUME ~times_out, ClientTypeOK, MeantToStop, NoGoalIsEmptied, [ClientNext]_allvars
    PROVE  NoGoalIsEmptied'
<1>1. TypeOK /\ [Next]_vars
  BY ClientStepIsNodeStep DEF ClientTypeOK
<1>2. received \subseteq received'
  BY GoalFlow
<1>3. ASSUME NEW id \in GoalId, statuses'[id].value = "EMPTY"
      PROVE  \E m \in received' : m.id = id /\ IsEmpty(m)
  <2>1. StopOnEmpty => loop_pc = "stop"
    BY DEF StopOnEmpty
  <2> QED
    BY <1>1, <1>2, <1>3, <2>1, WhoIsEmptied DEF NoGoalIsEmptied, MeantToStop
<1> QED
  BY <1>3 DEF NoGoalIsEmptied, IsEmpty

LEMMA GoalByGoalInit == ClientInit => GoalByGoal
<1> SUFFICES ASSUME ClientInit PROVE GoalByGoal
  OBVIOUS
<1>1. /\ constraints_.id = NoId /\ execute.goal.id = NoId /\ IsEmpty(constraints_)
      /\ ~constraints_are_changed_ /\ loop_pc = "starting" /\ cb_pc = "idle"
      /\ published = {} /\ received = {} /\ constraints_topic = {}
      /\ \A id \in GoalId : seen[id] = {} /\ statuses[id].value = "ABSENT"
  BY DEF ClientInit, Init, NoGoal, NoLocals, IsEmpty, EmptyList, NoEntry
<1>2. \A id \in GoalId : ~Done(id)
  BY <1>1 DEF Done, Complete
<1> QED
  BY <1>1, <1>2 DEF GoalByGoal, IdsArePublished, OneAtATime, QuietBetween, Quiet, Resting,
     MeantToStop, NoGoalIsEmptied

(* Whoever waits for each goal without a limit, as send_command.py does, is*)
(* not exposed to Execute clearing constraints_ after a callback installed *)
(* the next goal (node.cpp:222-227): no goal of it is stopped as if it were*)
(* empty, for any goals, robot, planner and timing.                        *)
THEOREM NoGoalIsEmptiedHolds ==
    ASSUME has_wait_complete
    PROVE  ClientSpec => []NoGoalIsEmptied
<1>1. ASSUME ClientTypeOK, MessagesAreTruthful, GoalByGoal, [ClientNext]_allvars
      PROVE  GoalByGoal'
  <2>1. times_out' = times_out
    BY <1>1, GoalFlow
  <2>2. CASE ~times_out
    <3>1. /\ IdsArePublished /\ OneAtATime /\ MeantToStop /\ NoGoalIsEmptied
          /\ remove_completed_constraints_ => QuietBetween
      BY <1>1, <2>2 DEF GoalByGoal
    <3>2. IdsArePublished' /\ OneAtATime' /\ NoGoalIsEmptied'
      BY <1>1, <2>2, <3>1, IdsArePublishedStep, OneAtATimeStep, NoGoalIsEmptiedStep
    <3>3. /\ remove_completed_constraints_ => QuietBetween'
          /\ MeantToStop'
      BY <1>1, <3>1, <3>2, QuietBetweenStep, MeantToStopStep
    <3> QED
      BY <3>2, <3>3 DEF GoalByGoal
  <2>3. CASE times_out
    BY <2>1, <2>3 DEF GoalByGoal
  <2> QED
    BY <2>2, <2>3
<1>2. GoalByGoal => NoGoalIsEmptied
  BY DEF GoalByGoal, NoGoalIsEmptied
<1> QED
  BY <1>1, <1>2, GoalByGoalInit, ClientTypeCorrect, MessagesHold, PTL DEF ClientSpec

=============================================================================
