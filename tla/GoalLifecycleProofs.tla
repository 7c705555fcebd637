------------------------ MODULE GoalLifecycleProofs ------------------------
(***************************************************************************)
(* The planner node implements GoalLifecycle for every value of its        *)
(* constants, where completed goals are removed and an entry of the status *)
(* list outlives a callback and the gap between two publications; and it   *)
(* commands no goal it called satisfied.                                   *)
(***************************************************************************)
EXTENDS GoalReportProofs

USE DEF PreemptFollowed, NoticeChange, ForgetTrajectory, HeldId

-----------------------------------------------------------------------------
(* How the status of a goal may change. *)

LEMMA WhoWrites ==
    ASSUME Assumed, TypeOK, Reporting, [Next]_vars, NEW id \in GoalId,
           statuses'[id].value # statuses[id].value
    PROVE  \/ /\ ~Closed(id)
              /\ \/ /\ id = constraints_.id /\ statuses'[id].value = "PREEMPTED"
                    /\ \E m \in RobotLocalGoalMsgs : ReceiveGoal(m)
                 \/ id = cb_msg.id /\ RegisterGoal /\ statuses'[id].value = "NOT_USED"
                 \/ /\ id = execute.goal.id
                    /\ \/ MarkRunning /\ statuses'[id].value = "RUNNING"
                       \/ StopOnEmpty /\ statuses'[id].value = "EMPTY"
                       \/ MarkSatisfied /\ statuses'[id].value = "SATISFIED"
           \/ /\ Publish \/ PlanAnswers
              /\ statuses'[id] = NoEntry
              /\ Closed(id) /\ statuses[id].value \in seen[id]
              /\ statuses[id].age > Retention
<1>1. ASSUME NEW name \in GoalId, NEW status,
             statuses' = UpdateConstraintsStatus(statuses, name, status)
      PROVE  id = name /\ ~Closed(id) /\ statuses'[id].value = status
  <2>1. id = name /\ ~Closed(id)
    BY <1>1, ClosedStays
  <2>2. statuses'[id] = [value |-> status, age |-> 0]
    BY <1>1, <2>1, ClosedStays
  <2> QED
    BY <2>1, <2>2
<1>2. ~Tick /\ ~(UNCHANGED statuses)
  BY AgedType DEF Tick, TypeOK
<1>3. constraints_.id \in GoalId /\ execute.goal.id \in GoalId /\ cb_msg.id \in GoalId
  BY IdsAreIds
<1>4. CASE SpinThread
  <2>1. ASSUME NEW m \in RobotLocalGoalMsgs, ReceiveGoal(m)
        PROVE  ~Closed(id) /\ id = constraints_.id /\ statuses'[id].value = "PREEMPTED"
    <3>1. statuses' = UpdateConstraintsStatus(statuses, constraints_.id, "PREEMPTED")
      BY <2>1 DEF ReceiveGoal
    <3> QED
      BY <3>1, <1>1, <1>3
  <2>2. CASE RegisterGoal
    <3>1. statuses' = UpdateConstraintsStatus(statuses, cb_msg.id, "NOT_USED")
      BY <2>2 DEF RegisterGoal
    <3>2. id = cb_msg.id /\ ~Closed(id) /\ statuses'[id].value = "NOT_USED"
      BY <3>1, <1>1, <1>3
    <3> QED
      BY <2>2, <3>2
  <2> QED
    BY <1>2, <1>4, <2>1, <2>2 DEF SpinThread, UpdateConstraints, InstallGoal,
       JointStateCallback, BaseControllerStateCallback
<1>5. CASE StopOnEmpty \/ MarkRunning \/ MarkSatisfied
  <2>1. /\ MarkRunning
           => statuses' = UpdateConstraintsStatus(statuses, execute.goal.id, "RUNNING")
        /\ StopOnEmpty
           => statuses' = UpdateConstraintsStatus(statuses, execute.goal.id, "EMPTY")
        /\ MarkSatisfied
           => statuses' = UpdateConstraintsStatus(statuses, execute.goal.id, "SATISFIED")
    BY DEF StopOnEmpty, MarkRunning, MarkSatisfied
  <2> QED
    BY <1>1, <1>3, <1>5, <2>1
<1>6. CASE Publish \/ PlanAnswers
  <2>1. PublishImpl_ /\ loop_pc \in {"publish", "plan"}
    BY <1>6 DEF Publish, PlanAnswers
  <2>2. statuses'[id] # statuses[id]
    OBVIOUS
  <2> QED
    BY <1>6, <2>1, <2>2, PublicationForgetsReported
<1>7. CASE LoopThread
  BY <1>2, <1>5, <1>6, <1>7 DEF LoopThread, StartLoop, CopyGoal, UpdateRobotstate, ShouldComplete,
     ClearConstraints, SkipPlanning, StartPlanning, RestoreChanged, CommandTrajectory
<1>8. CASE Environment \/ UNCHANGED vars
  BY <1>2, <1>8 DEF Environment, PlaybackFinishes, vars
<1> QED
  BY <1>4, <1>7, <1>8 DEF Next

(* An open entry is not forgotten. *)
LEMMA OpenStays ==
    ASSUME Assumed, TypeOK, Reporting, [Next]_vars, NEW id \in GoalId, Listed(id)
    PROVE  /\ statuses'[id].value \in Live \cup Terminal
           /\ ~(\E m \in RobotLocalGoalMsgs : ReceiveGoal(m)) /\ ~StopOnEmpty /\ ~MarkSatisfied
              => Listed(id)'
<1>1. ~Closed(id)
  BY DEF Listed, Closed, Live, Terminal
<1> QED
  BY <1>1, WhoWrites DEF Listed, Live, Terminal

-----------------------------------------------------------------------------
(* What Execute holds, what the callback carries and what the list says    *)
(* about them.                                                             *)

(* Execute empties the goal it holds on the way to "satisfied" only. *)
HeldIsFull ==
    /\ loop_pc \in {"running", "robot_state", "should_complete", "decide", "plan", "restore"}
    /\ execute.goal.id = constraints_.id
    => ~IsEmpty(constraints_)

(* A new goal is not the one Execute holds. *)
ChangedIsNew ==
    constraints_are_changed_ /\ loop_pc # "idle" => execute.goal.id # constraints_.id

(* The callback lists the goal it carries; the goal followed is open.      *)
Registered ==
    /\ cb_pc = "register" => statuses[cb_msg.id] = NoEntry
    /\ cb_pc \in {"update_checker", "install"} => statuses[cb_msg.id].value = "NOT_USED"
    /\ cb_pc = "idle" /\ ~IsEmpty(constraints_) => Listed(constraints_.id)

(* What is no longer in the list was reported. *)
GoneWasReported ==
    \A id \in GoalId : Sent(id) /\ statuses[id] = NoEntry
        => Reported(id) \/ (cb_pc = "register" /\ id = cb_msg.id)

(* The goal Execute works on is running, unless it was closed meanwhile.   *)
HeldRuns ==
    loop_pc \in {"robot_state", "should_complete", "clear", "satisfied", "decide", "plan"}
    => Closed(execute.goal.id) \/ statuses[execute.goal.id].value = "RUNNING"

(* A goal that is to be taken waits, or is just being preempted, or is to  *)
(* be taken again.                                                         *)
ChangedWaits ==
    constraints_are_changed_ =>
        \/ cb_pc = "idle" /\ statuses[constraints_.id].value = "NOT_USED"
        \/ cb_pc # "idle" /\ Closed(constraints_.id) /\ statuses[constraints_.id].age <= cb_age
        \/ loop_pc = "idle" /\ ~IsEmpty(constraints_)

EmptyWaits ==
    loop_pc = "stop"
    => Closed(execute.goal.id) \/ statuses[execute.goal.id].value = "NOT_USED"

(* A goal that was reported may be closed again, as preempted. *)
LateVerdict ==
    \A id \in GoalId : Reported(id) /\ Closed(id)
        => statuses[id].value \in seen[id] \cup {"PREEMPTED"}

(* How Execute moves on: it takes a goal when idle and keeps it. *)
LEMMA HeldStays ==
    ASSUME TypeOK, [Next]_vars
    PROVE  \/ execute'.goal = execute.goal
           \/ loop_pc' = "idle"
           \/ CopyGoal /\ execute'.goal = constraints_
<1>1. CASE CopyGoal
  BY <1>1 DEF CopyGoal, NoLocals
<1>2. CASE UpdateRobotstate \/ StartPlanning \/ PlanAnswers \/ \E result : ShouldComplete(result)
  BY <1>2 DEF UpdateRobotstate, StartPlanning, PlanAnswers, ShouldComplete, Return, TypeOK, Locals
<1>3. CASE SpinThread \/ Environment \/ UNCHANGED vars
  BY <1>3 DEF SpinThread, ReceiveGoal, RegisterGoal, UpdateConstraints, InstallGoal,
     JointStateCallback, BaseControllerStateCallback, Environment, PlaybackFinishes, Tick,
     vars, loop
<1>4. CASE LoopThread
  BY <1>1, <1>2, <1>4 DEF LoopThread, StartLoop, StopOnEmpty, MarkRunning, ClearConstraints,
     MarkSatisfied, SkipPlanning, RestoreChanged, CommandTrajectory, Publish, Return
<1> QED
  BY <1>3, <1>4 DEF Next

(* Only InstallGoal and ClearConstraints write the goal followed. *)
LEMMA FollowedStays ==
    ASSUME TypeOK, [Next]_vars
    PROVE  \/ constraints_' = constraints_
           \/ InstallGoal
           \/ ClearConstraints /\ IsEmpty(constraints_)' /\ constraints_'.id = constraints_.id
<1>1. CASE ClearConstraints
  BY <1>1 DEF ClearConstraints, Clear, IsEmpty, TypeOK, Goal
<1>2. CASE SpinThread \/ Environment \/ UNCHANGED vars
  BY <1>2 DEF SpinThread, ReceiveGoal, RegisterGoal, UpdateConstraints,
     JointStateCallback, BaseControllerStateCallback, Environment, PlaybackFinishes, Tick,
     vars, goals
<1>3. CASE LoopThread
  BY <1>1, <1>3 DEF LoopThread, StartLoop, CopyGoal, StopOnEmpty, MarkRunning, UpdateRobotstate,
     ShouldComplete, MarkSatisfied, SkipPlanning, StartPlanning, PlanAnswers, RestoreChanged,
     CommandTrajectory, Publish, goals
<1> QED
  BY <1>2, <1>3 DEF Next

(* Only the spin thread moves the callback. *)
LEMMA CallbackFlow ==
    ASSUME [Next]_vars
    PROVE  \/ \E m \in RobotLocalGoalMsgs : ReceiveGoal(m)
           \/ RegisterGoal
           \/ UpdateConstraints
           \/ InstallGoal
           \/ UNCHANGED <<cb_pc, cb_msg, received>>
<1>1. CASE SpinThread
  BY <1>1 DEF SpinThread, JointStateCallback, BaseControllerStateCallback, callback
<1>2. CASE LoopThread
  BY <1>2 DEF LoopThread, StartLoop, CopyGoal, StopOnEmpty, MarkRunning, UpdateRobotstate,
     ShouldComplete, ClearConstraints, MarkSatisfied, SkipPlanning, StartPlanning, PlanAnswers,
     RestoreChanged, CommandTrajectory, Publish, callback
<1>3. CASE Environment \/ UNCHANGED vars
  BY <1>3 DEF Environment, PlaybackFinishes, Tick, vars, callback
<1> QED
  BY <1>1, <1>2, <1>3 DEF Next

(* From where Execute comes to a step, and who sets the flag. *)
LEMMA LoopFlow ==
    ASSUME [Next]_vars
    PROVE  /\ loop_pc' \in {"running", "robot_state", "should_complete", "decide", "plan", "restore"}
              => \/ loop_pc \in {"running", "robot_state", "should_complete", "decide", "plan", "restore"}
                 \/ CopyGoal
           /\ loop_pc' \in {"robot_state", "should_complete", "clear", "satisfied", "decide", "plan"}
              => \/ loop_pc \in {"robot_state", "should_complete", "clear", "satisfied", "decide", "plan"}
                 \/ MarkRunning
           /\ loop_pc' = "stop" => loop_pc = "stop" \/ CopyGoal
           /\ loop_pc = "idle" => loop_pc' = "idle" \/ CopyGoal
           /\ constraints_are_changed_'
              => \/ constraints_are_changed_ /\ ~CopyGoal
                 \/ InstallGoal
                 \/ RestoreChanged
<1>1. CASE SpinThread \/ Environment \/ UNCHANGED vars
  BY <1>1 DEF SpinThread, ReceiveGoal, RegisterGoal, UpdateConstraints, InstallGoal,
     JointStateCallback, BaseControllerStateCallback, Environment, PlaybackFinishes, Tick,
     vars, goals, loop, CopyGoal
<1>2. CASE CopyGoal
  BY <1>2 DEF CopyGoal
<1>3. CASE LoopThread /\ ~CopyGoal
  BY <1>3 DEF LoopThread, StartLoop, StopOnEmpty, MarkRunning, UpdateRobotstate,
     ShouldComplete, ClearConstraints, MarkSatisfied, SkipPlanning, StartPlanning, PlanAnswers,
     RestoreChanged, CommandTrajectory, Publish, Return, goals
<1> QED
  BY <1>1, <1>2, <1>3 DEF Next

LEMMA HeldIsFullStep ==
    ASSUME TypeOK, GoalTracking, HeldIsFull, [Next]_vars
    PROVE  HeldIsFull'
<1> SUFFICES ASSUME loop_pc' \in {"running", "robot_state", "should_complete", "decide", "plan",
                                  "restore"},
                    execute'.goal.id = constraints_'.id
             PROVE  ~IsEmpty(constraints_)'
  BY DEF HeldIsFull
<1>1. CASE CopyGoal
  BY <1>1 DEF CopyGoal, IsEmpty
<1>2. CASE ~CopyGoal
  <2>1. /\ loop_pc \in {"running", "robot_state", "should_complete", "decide", "plan", "restore"}
        /\ execute'.goal = execute.goal
    BY <1>2, LoopFlow, HeldStays
  <2>2. ~ClearConstraints
    BY DEF ClearConstraints
  <2>3. ~InstallGoal
    BY <2>1 DEF InstallGoal, GoalTracking, CallbackIsAhead
  <2> QED
    BY <2>1, <2>2, <2>3, FollowedStays DEF HeldIsFull, IsEmpty
<1> QED
  BY <1>1, <1>2

LEMMA ChangedIsNewStep ==
    ASSUME TypeOK, GoalTracking, ChangedIsNew, [Next]_vars
    PROVE  ChangedIsNew'
<1> SUFFICES ASSUME constraints_are_changed_', loop_pc' # "idle"
             PROVE  execute'.goal.id # constraints_'.id
  BY DEF ChangedIsNew
<1>1. ~CopyGoal
  BY DEF CopyGoal
<1>2. execute'.goal = execute.goal
  BY <1>1, HeldStays
<1>3. CASE InstallGoal
  BY <1>2, <1>3 DEF InstallGoal, GoalTracking, CallbackIsAhead
<1>4. CASE ~InstallGoal
  <2>1. ~RestoreChanged
    BY DEF RestoreChanged, Return
  <2>2. constraints_are_changed_ /\ loop_pc # "idle"
    BY <1>1, <1>4, <2>1, LoopFlow
  <2> QED
    BY <1>2, <1>4, <2>2, FollowedStays DEF ChangedIsNew
<1> QED
  BY <1>3, <1>4

LEMMA HeldRunsStep ==
    ASSUME Assumed, TypeOK, GoalTracking, Reporting, HeldIsFull, Registered, HeldRuns, [Next]_vars
    PROVE  HeldRuns'
<1> SUFFICES ASSUME loop_pc' \in {"robot_state", "should_complete", "clear", "satisfied",
                                  "decide", "plan"}
             PROVE  statuses'[execute'.goal.id].value \in Terminal \cup {"RUNNING"}
  BY DEF HeldRuns, Closed
<1> DEFINE held == execute.goal.id
<1>1. execute'.goal = execute.goal /\ held \in GoalId
  BY HeldStays, IdsAreIds DEF CopyGoal
<1>2. ~Publish /\ ~PlanAnswers
  BY DEF Publish, PlanAnswers, Return
<1>3. CASE MarkRunning
  <2>1. statuses' = UpdateConstraintsStatus(statuses, held, "RUNNING")
    BY <1>3 DEF MarkRunning
  <2>2. statuses'[held] = statuses[held] \/ statuses'[held] = [value |-> "RUNNING", age |-> 0]
    BY <1>1, <2>1, ClosedStays
  <2>3. Closed(held) => statuses'[held] = statuses[held]
    BY <1>1, <2>1, ClosedStays
  <2>4. ~Closed(held) => statuses'[held] = [value |-> "RUNNING", age |-> 0]
    BY <1>1, <2>1, ClosedStays
  <2> QED
    BY <1>1, <2>3, <2>4 DEF Closed
<1>4. CASE ~MarkRunning
  <2>1. statuses[held].value \in Terminal \cup {"RUNNING"}
    BY <1>4, LoopFlow DEF HeldRuns, Closed
  <2>2. CASE statuses'[held].value = statuses[held].value
    BY <1>1, <2>1, <2>2
  <2>3. CASE statuses'[held].value # statuses[held].value
    <3>1. PICK id \in GoalId : id = held
      BY <1>1
    <3>2. ~(id = cb_msg.id /\ RegisterGoal)
      BY <3>1 DEF RegisterGoal, GoalTracking, CallbackIsAhead
    <3>3. statuses'[id].value \in {"PREEMPTED", "EMPTY", "SATISFIED"}
      BY <1>2, <1>4, <2>3, <3>1, <3>2, WhoWrites
    <3> QED
      BY <1>1, <3>1, <3>3 DEF Terminal
  <2> QED
    BY <2>2, <2>3
<1> QED
  BY <1>3, <1>4

LEMMA EmptyWaitsStep ==
    ASSUME Assumed, TypeOK, GoalTracking, Reporting, ChangedWaits, EmptyWaits, [Next]_vars
    PROVE  EmptyWaits'
<1> SUFFICES ASSUME loop_pc' = "stop"
             PROVE  statuses'[execute'.goal.id].value \in Terminal \cup {"NOT_USED"}
  BY DEF EmptyWaits, Closed
<1>1. CASE CopyGoal
  <2>1. execute'.goal = constraints_ /\ statuses' = statuses
    BY <1>1 DEF CopyGoal, NoLocals
  <2>2. constraints_are_changed_ /\ IsEmpty(constraints_)
    BY <1>1 DEF CopyGoal, IsEmpty
  <2> QED
    BY <2>1, <2>2 DEF ChangedWaits, Closed
<1>2. CASE ~CopyGoal
  <2>1. loop_pc = "stop" /\ execute'.goal = execute.goal
    BY <1>2, LoopFlow, HeldStays
  <2>2. PICK id \in GoalId : id = execute.goal.id
    BY IdsAreIds
  <2>3. statuses[id].value \in Terminal \cup {"NOT_USED"}
    BY <2>1, <2>2 DEF EmptyWaits, Closed
  <2>4. ~Publish /\ ~PlanAnswers /\ ~MarkRunning
    BY <2>1 DEF Publish, PlanAnswers, MarkRunning
  <2>5. statuses'[id].value = statuses[id].value
        \/ statuses'[id].value \in {"PREEMPTED", "EMPTY", "SATISFIED", "NOT_USED"}
    BY <2>4, WhoWrites
  <2> QED
    BY <2>1, <2>2, <2>3, <2>5 DEF Terminal
<1> QED
  BY <1>1, <1>2

(* The goal the callback carries is its own affair. *)
LEMMA CarriedIsAlone ==
    ASSUME Assumed, TypeOK, GoalTracking, Reporting, [Next]_vars, cb_pc # "idle",
           Listed(cb_msg.id) \/ statuses[cb_msg.id] = NoEntry, ~RegisterGoal
    PROVE  statuses'[cb_msg.id].value = statuses[cb_msg.id].value
<1>1. PICK id \in GoalId : id = cb_msg.id
  BY IdsAreIds
<1>2. id # constraints_.id /\ id # execute.goal.id /\ ~Closed(id)
  BY <1>1 DEF GoalTracking, CallbackIsAhead
<1> QED
  BY <1>1, <1>2, WhoWrites

LEMMA RegisteredStep ==
    ASSUME Assumed, TypeOK, TypeOK', GoalTracking, GoalTracking', Reporting, Registered, [Next]_vars
    PROVE  Registered'
<1>0. cb_msg.id \in GoalId /\ constraints_.id \in GoalId
  BY IdsAreIds
<1>1. ASSUME NEW m \in RobotLocalGoalMsgs, ReceiveGoal(m) PROVE Registered'
  <2>1. m.id \in GoalId /\ m.id # constraints_.id /\ statuses[m.id] = NoEntry
    BY <1>1, MessageIds DEF GoalTracking, IdsAreSent, Sent, ReceiveGoal, Goal
  <2>2. statuses'[m.id] = NoEntry
    BY <1>0, <1>1, <2>1, ClosedStays DEF ReceiveGoal
  <2> QED
    BY <1>1, <2>2 DEF ReceiveGoal, Registered
<1>2. CASE RegisterGoal
  <2>1. statuses' = UpdateConstraintsStatus(statuses, cb_msg.id, "NOT_USED") /\ ~Closed(cb_msg.id)
    BY <1>2 DEF RegisterGoal, GoalTracking, CallbackIsAhead
  <2>2. statuses'[cb_msg.id] = [value |-> "NOT_USED", age |-> 0]
    BY <1>0, <2>1, ClosedStays
  <2> QED
    BY <1>2, <2>2 DEF RegisterGoal, Registered
<1>3. CASE InstallGoal
  BY <1>3 DEF InstallGoal, Registered, Listed, Live
<1>4. CASE cb_pc # "idle" /\ ~RegisterGoal /\ ~InstallGoal
  <2>1. /\ cb_msg' = cb_msg
        /\ \/ cb_pc' = cb_pc
           \/ cb_pc = "update_checker" /\ cb_pc' = "install"
    BY <1>4, CallbackFlow DEF ReceiveGoal, UpdateConstraints
  <2>2. statuses'[cb_msg.id].value = statuses[cb_msg.id].value
    BY <1>4, CarriedIsAlone DEF Registered, Listed, Live, TypeOK
  <2>3. statuses'[cb_msg.id].value = "ABSENT" => statuses'[cb_msg.id] = NoEntry
    BY <1>0 DEF TypeOK, StatusList, NoEntry, Live, Terminal
  <2>4. cb_pc' = "register" => statuses'[cb_msg'.id] = NoEntry
    BY <2>1, <2>2, <2>3 DEF Registered, NoEntry
  <2>5. cb_pc' \in {"update_checker", "install"} => statuses'[cb_msg'.id].value = "NOT_USED"
    BY <2>1, <2>2 DEF Registered
  <2>6. cb_pc' # "idle"
    BY <1>4, <2>1
  <2> QED
    BY <2>4, <2>5, <2>6 DEF Registered
<1>5. CASE cb_pc = "idle" /\ ~(\E m \in RobotLocalGoalMsgs : ReceiveGoal(m))
  <2>1. cb_pc' = "idle" /\ ~InstallGoal
    BY <1>5, CallbackFlow DEF RegisterGoal, UpdateConstraints, InstallGoal
  <2>2. SUFFICES ASSUME ~IsEmpty(constraints_)'
                 PROVE  Listed(constraints_.id)'
    BY <2>1 DEF Registered
  <2>3. constraints_' = constraints_
    BY <2>1, <2>2, FollowedStays
  <2>4. Listed(constraints_.id) /\ ~Closed(constraints_.id)
    BY <1>5, <2>2, <2>3 DEF Registered, IsEmpty, GoalTracking, FollowedIsOpen
  <2>5. StopOnEmpty \/ MarkSatisfied => constraints_.id # execute.goal.id
    BY <2>2, <2>3 DEF GoalTracking, FollowedIsOpen, StopOnEmpty, MarkSatisfied, IsEmpty
  <2>6. PICK id \in GoalId : id = constraints_.id
    BY <1>0
  <2>7. statuses'[id].value \in Live
    <3>1. ~RegisterGoal
      BY <1>5 DEF RegisterGoal
    <3> QED
      BY <1>5, <2>4, <2>5, <2>6, <3>1, WhoWrites DEF Listed, Live
  <2> QED
    BY <2>3, <2>6, <2>7 DEF Listed
<1> QED
  BY <1>1, <1>2, <1>3, <1>4, <1>5

LEMMA GoneWasReportedStep ==
    ASSUME Assumed, TypeOK, TypeOK', GoalTracking, Reporting, Registered, GoneWasReported, [Next]_vars
    PROVE  GoneWasReported'
<1> SUFFICES ASSUME NEW id \in GoalId, Sent(id)', statuses'[id] = NoEntry
             PROVE  Reported(id)' \/ (cb_pc' = "register" /\ id = cb_msg'.id)
  BY DEF GoneWasReported
<1>1. Reported(id) => Reported(id)'
  <2>1. seen[id] \subseteq seen'[id]
    BY DEF Next, SpinThread, ReceiveGoal, RegisterGoal, UpdateConstraints, InstallGoal,
       JointStateCallback, BaseControllerStateCallback, LoopThread, StartLoop, CopyGoal,
       StopOnEmpty, MarkRunning, UpdateRobotstate, ShouldComplete, ClearConstraints,
       MarkSatisfied, SkipPlanning, StartPlanning, PlanAnswers, RestoreChanged,
       CommandTrajectory, Publish, PublishImpl_, Environment, PlaybackFinishes, Tick, vars, report
  <2> QED
    BY <2>1 DEF Reported
<1>2. CASE statuses[id].value # "ABSENT"
  <2>1. statuses'[id].value # statuses[id].value /\ statuses'[id].value = "ABSENT"
    BY <1>2 DEF NoEntry
  <2>2. statuses[id].value \in seen[id]
    BY <2>1, WhoWrites
  <2> QED
    BY <1>1, <2>2 DEF Reported
<1>3. CASE statuses[id].value = "ABSENT"
  <2>1. statuses[id] = NoEntry
    BY <1>3 DEF TypeOK, StatusList, Live, Terminal
  <2>2. CASE \E m \in RobotLocalGoalMsgs : ReceiveGoal(m)
    <3>1. PICK m \in RobotLocalGoalMsgs : ReceiveGoal(m)
      BY <2>2
    <3>2. received' = received \cup {m} /\ cb_msg' = m /\ cb_pc' = "register"
      BY <3>1 DEF ReceiveGoal
    <3>3. CASE Sent(id)
      <4>1. cb_pc = "idle"
        BY <3>1 DEF ReceiveGoal
      <4> QED
        BY <1>1, <2>1, <3>3, <4>1 DEF GoneWasReported
    <3>4. CASE ~Sent(id)
      BY <3>2, <3>4 DEF Sent
    <3> QED
      BY <3>3, <3>4
  <2>3. CASE RegisterGoal
    <3>1. id # cb_msg.id
      <4>1. statuses' = UpdateConstraintsStatus(statuses, cb_msg.id, "NOT_USED") /\ ~Closed(cb_msg.id)
        BY <2>3 DEF RegisterGoal, GoalTracking, CallbackIsAhead
      <4>2. statuses'[cb_msg.id] = [value |-> "NOT_USED", age |-> 0]
        BY <4>1, ClosedStays, IdsAreIds
      <4> QED
        BY <4>2 DEF NoEntry
    <3>2. Sent(id)
      BY <2>3 DEF RegisterGoal, Sent
    <3> QED
      BY <1>1, <2>1, <3>1, <3>2 DEF GoneWasReported
  <2>4. CASE UNCHANGED received /\ (cb_pc = "register" => UNCHANGED <<cb_pc, cb_msg>>)
    <3>1. Sent(id)
      BY <2>4 DEF Sent
    <3> QED
      BY <1>1, <2>1, <2>4, <3>1 DEF GoneWasReported
  <2> QED
    BY <2>2, <2>3, <2>4, CallbackFlow DEF UpdateConstraints, InstallGoal
<1> QED
  BY <1>2, <1>3

LEMMA LateVerdictStep ==
    ASSUME Assumed, TypeOK, TypeOK', GoalTracking, Reporting, HeldRuns, EmptyWaits, LateVerdict,
           [Next]_vars
    PROVE  LateVerdict'
<1> SUFFICES ASSUME NEW id \in GoalId, Reported(id)', Closed(id)'
             PROVE  statuses'[id].value \in seen'[id] \cup {"PREEMPTED"}
  BY DEF LateVerdict
<1>1. CASE Publish \/ PlanAnswers
  BY <1>1 DEF Publish, PlanAnswers, PublishImpl_, Closed
<1>2. CASE ~(Publish \/ PlanAnswers)
  <2>1. seen' = seen /\ Reported(id)
    <3>1. seen' = seen
      BY <1>2 DEF Next, SpinThread, ReceiveGoal, RegisterGoal, UpdateConstraints, InstallGoal,
         JointStateCallback, BaseControllerStateCallback, LoopThread, StartLoop, CopyGoal,
         StopOnEmpty, MarkRunning, UpdateRobotstate, ShouldComplete, ClearConstraints,
         MarkSatisfied, SkipPlanning, StartPlanning, RestoreChanged,
         CommandTrajectory, Environment, PlaybackFinishes, Tick, vars, report
    <3> QED
      BY <3>1 DEF Reported
  <2>2. CASE statuses'[id].value = statuses[id].value
    BY <2>1, <2>2 DEF LateVerdict, Closed
  <2>3. CASE statuses'[id].value # statuses[id].value
    <3>1. ~Listed(id)
      BY <2>1 DEF Reporting, ReportedIsPast
    <3>2. StopOnEmpty \/ MarkSatisfied => id # execute.goal.id \/ Closed(id)
      BY <3>1 DEF StopOnEmpty, MarkSatisfied, HeldRuns, EmptyWaits, Listed, Live
    <3> QED
      BY <1>2, <2>3, <3>2, WhoWrites DEF Closed, Terminal
  <2> QED
    BY <2>2, <2>3
<1> QED
  BY <1>1, <1>2

(* The entry of a closed goal ages with the callback. *)
LEMMA ClosedKeepsAge ==
    ASSUME Assumed, TypeOK, TypeOK', Reporting, [Next]_vars, NEW id \in GoalId, Closed(id),
           statuses[id].age <= cb_age, ~(statuses[id].age > Retention),
           cb_pc # "idle", ~InstallGoal
    PROVE  statuses'[id].age <= cb_age'
<1>1. CASE Tick
  <2>1. statuses[id] # NoEntry
    BY DEF Closed, NoEntry, Terminal
  <2>2. statuses'[id].age <= statuses[id].age + 1 /\ cb_age' = cb_age + 1
    BY <1>1, <2>1, TickAges DEF Reporting
  <2> QED
    BY <2>2, Numbers, NumbersNext
<1>2. CASE ~Tick
  <2>1. cb_age' = cb_age
    BY <1>2 DEF Next, SpinThread, ReceiveGoal, RegisterGoal, UpdateConstraints,
       JointStateCallback, BaseControllerStateCallback, LoopThread, StartLoop, CopyGoal,
       StopOnEmpty, MarkRunning, UpdateRobotstate, ShouldComplete, ClearConstraints,
       MarkSatisfied, SkipPlanning, StartPlanning, PlanAnswers, RestoreChanged,
       CommandTrajectory, Publish, Environment, PlaybackFinishes, vars, callback
  <2>2. ASSUME NEW name \in GoalId, NEW status,
               statuses' = UpdateConstraintsStatus(statuses, name, status)
        PROVE  statuses'[id] = statuses[id]
    BY <2>2, ClosedStays
  <2>3. ASSUME PublishImpl_, loop_pc \in {"publish", "plan"} PROVE statuses'[id] = statuses[id]
    BY <2>3, PublicationForgetsReported
  <2>4. statuses'[id] = statuses[id]
    BY <1>2, <2>2, <2>3, IdsAreIds DEF Next, SpinThread, ReceiveGoal, RegisterGoal,
       UpdateConstraints, JointStateCallback, BaseControllerStateCallback, LoopThread, StartLoop,
       CopyGoal, StopOnEmpty, MarkRunning, UpdateRobotstate, ShouldComplete, ClearConstraints,
       MarkSatisfied, SkipPlanning, StartPlanning, PlanAnswers, RestoreChanged,
       CommandTrajectory, Publish, Environment, PlaybackFinishes, vars
  <2> QED
    BY <2>1, <2>4
<1> QED
  BY <1>1, <1>2

LEMMA ChangedWaitsStep ==
    ASSUME Assumed, TypeOK, TypeOK', GoalTracking, GoalTracking', Reporting, Registered, HeldIsFull,
           ChangedIsNew, ChangedWaits, [Next]_vars
    PROVE  ChangedWaits'
<1> SUFFICES ASSUME constraints_are_changed_'
             PROVE  \/ cb_pc' = "idle" /\ statuses'[constraints_'.id].value = "NOT_USED"
                    \/ /\ cb_pc' # "idle" /\ Closed(constraints_.id)'
                       /\ statuses'[constraints_'.id].age <= cb_age'
                    \/ loop_pc' = "idle" /\ ~IsEmpty(constraints_)'
  BY DEF ChangedWaits
<1>0. PICK id \in GoalId : id = constraints_.id
  BY IdsAreIds
<1>1. CASE InstallGoal
  BY <1>1 DEF InstallGoal, Registered
<1>2. CASE RestoreChanged
  <2>1. loop_pc = "restore" /\ loop_pc' = "idle" /\ UNCHANGED <<constraints_, statuses, cb_pc, cb_age>>
    BY <1>2 DEF RestoreChanged, Return, callback
  <2>2. CASE constraints_are_changed_
    BY <2>1, <2>2 DEF ChangedWaits, Closed
  <2>3. CASE ~constraints_are_changed_
    BY <2>1, <2>3 DEF Reporting, TakenIsHeld, HeldIsFull, IsEmpty
  <2> QED
    BY <2>2, <2>3
<1>3. CASE constraints_are_changed_ /\ ~CopyGoal /\ ~InstallGoal /\ ~RestoreChanged
  <2>1. constraints_'.id = id /\ (IsEmpty(constraints_)' => IsEmpty(constraints_) \/ ClearConstraints)
    BY <1>0, <1>3, FollowedStays DEF IsEmpty
  <2>2. CASE loop_pc = "idle" /\ ~IsEmpty(constraints_)
    <3>1. loop_pc' = "idle"
      BY <1>3, <2>2, LoopFlow
    <3> QED
      BY <2>1, <2>2, <3>1 DEF ClearConstraints
  <2>3. CASE ~(loop_pc = "idle" /\ ~IsEmpty(constraints_))
    <3>1. ~(StopOnEmpty \/ MarkRunning \/ MarkSatisfied) \/ id # execute.goal.id
      BY <1>0, <1>3 DEF ChangedIsNew, StopOnEmpty, MarkRunning, MarkSatisfied
    <3>2. RegisterGoal => id # cb_msg.id
      BY <1>0 DEF RegisterGoal, GoalTracking, CallbackIsAhead
    <3>3. CASE cb_pc = "idle" /\ statuses[id].value = "NOT_USED"
      <4>1. CASE \E m \in RobotLocalGoalMsgs : ReceiveGoal(m)
        <5>1. cb_pc' # "idle" /\ cb_age' = 0
              /\ statuses' = UpdateConstraintsStatus(statuses, id, "PREEMPTED")
          BY <1>0, <4>1 DEF ReceiveGoal
        <5>2. statuses'[id] = [value |-> "PREEMPTED", age |-> 0]
          BY <3>3, <5>1, ClosedStays DEF Closed, Terminal
        <5>3. statuses'[id].age <= cb_age' /\ statuses'[id].value = "PREEMPTED"
          BY <5>1, <5>2
        <5> QED
          BY <2>1, <5>1, <5>3 DEF Closed, Terminal
      <4>2. CASE ~\E m \in RobotLocalGoalMsgs : ReceiveGoal(m)
        <5>1. cb_pc' = "idle"
          BY <3>3, <4>2, CallbackFlow DEF RegisterGoal, UpdateConstraints, InstallGoal
        <5>2. ~Closed(id)
          BY <3>3 DEF Closed, Terminal
        <5>3. statuses'[id].value = statuses[id].value
          BY <3>1, <3>2, <4>2, <5>2, WhoWrites
        <5> QED
          BY <2>1, <3>3, <5>1, <5>3
      <4> QED
        BY <4>1, <4>2
    <3>4. CASE cb_pc # "idle" /\ Closed(id) /\ statuses[id].age <= cb_age
      <4>1. cb_pc' # "idle"
        BY <1>3, <3>4, CallbackFlow DEF ReceiveGoal, RegisterGoal, UpdateConstraints
      <4>2. ~(statuses[id].age > Retention)
        BY <3>4, Numbers DEF Assumed, TimingBounds
      <4>3. statuses'[id].value = statuses[id].value
        BY <3>4, <4>2, WhoWrites
      <4>4. statuses'[id].age <= cb_age'
        BY <1>3, <3>4, <4>1, <4>2, ClosedKeepsAge
      <4> QED
        BY <2>1, <3>4, <4>1, <4>3, <4>4 DEF Closed
    <3> QED
      BY <1>0, <1>3, <2>3, <3>3, <3>4 DEF ChangedWaits
  <2> QED
    BY <2>2, <2>3
<1> QED
  BY <1>1, <1>2, <1>3, LoopFlow DEF InstallGoal, CopyGoal

(* All of it. *)
Answering ==
    /\ HeldIsFull
    /\ ChangedIsNew
    /\ Registered
    /\ GoneWasReported
    /\ HeldRuns
    /\ ChangedWaits
    /\ EmptyWaits
    /\ LateVerdict

LEMMA InitAnswering == Init => Answering
<1> SUFFICES ASSUME Init PROVE Answering
  OBVIOUS
<1>1. \A id \in GoalId : ~Reported(id) /\ ~Sent(id)
  BY DEF Init, Reported, Sent
<1>2. HeldIsFull /\ ChangedIsNew /\ HeldRuns /\ ChangedWaits /\ EmptyWaits /\ Registered
  BY DEF Init, HeldIsFull, ChangedIsNew, HeldRuns, ChangedWaits, EmptyWaits, Registered, IsEmpty,
     NoGoal
<1>3. GoneWasReported /\ LateVerdict
  BY <1>1 DEF GoneWasReported, LateVerdict
<1> QED
  BY <1>2, <1>3 DEF Answering

(* A goal that waits, runs or was closed is accounted for until reported.  *)
THEOREM AnsweringThm == ASSUME Assumed PROVE Spec => []Answering
<1>1. /\ TypeOK /\ TypeOK' /\ GoalTracking /\ GoalTracking' /\ Reporting
      /\ Answering /\ [Next]_vars
      => Answering'
  BY HeldIsFullStep, ChangedIsNewStep, RegisteredStep, GoneWasReportedStep, HeldRunsStep,
     ChangedWaitsStep, EmptyWaitsStep, LateVerdictStep DEF Answering
<1> QED
  BY <1>1, InitAnswering, TypeCorrect, TrackingThm, ReportingThm, PTL DEF Spec

-----------------------------------------------------------------------------
(* The refinement. *)

Phases == [id \in ClientIds |-> ClientPhase(id)]
ReportedIds == {id \in ClientIds : Reported(id)}

(* The phase of a goal nothing was published for is its status. *)
LEMMA PhaseOfUnreported ==
    ASSUME TypeOK, NEW id \in GoalId, ~Reported(id)
    PROVE  ClientPhase(id) = PhaseOf(statuses[id].value)
BY DEF ClientPhase, Reported

LEMMA PhaseOfReported ==
    ASSUME TypeOK, NEW id \in GoalId, Reported(id)
    PROVE  /\ ClientPhase(id) \in {"satisfied", "empty", "preempted"}
           /\ seen' = seen => ClientPhase(id)' = ClientPhase(id)
<1>1. seen[id] \subseteq Terminal
  BY DEF TypeOK
<1> QED
  BY <1>1 DEF ClientPhase, Reported, Terminal

(* PhaseOf, a value at a time. *)
LEMMA PhaseOfValues ==
    /\ PhaseOf("ABSENT") = "unknown"
    /\ PhaseOf("NOT_USED") = "waiting"
    /\ PhaseOf("RUNNING") = "running"
    /\ PhaseOf("SATISFIED") = "satisfied"
    /\ PhaseOf("PREEMPTED") = "preempted"
    /\ PhaseOf("EMPTY") = "empty"
BY DEF PhaseOf

LEMMA StatusValues ==
    ASSUME TypeOK, NEW id \in GoalId
    PROVE  statuses[id].value \in {"ABSENT", "NOT_USED", "RUNNING", "SATISFIED", "PREEMPTED", "EMPTY"}
BY DEF TypeOK, StatusList, NoEntry, Live, Terminal

(* A goal is open for GoalLifecycle if the list says so. *)
LEMMA OpenIsListed ==
    ASSUME TypeOK, NEW id \in GoalId, ClientPhase(id) \in {"waiting", "running"}
    PROVE  Listed(id) /\ ~Reported(id)
<1>1. ~Reported(id)
  BY PhaseOfReported
<1> QED
  BY <1>1, PhaseOfUnreported, PhaseOfValues, StatusValues DEF Listed, Live

LEMMA InitRefines == Init => Lifecycle!LifecycleInit
BY DEF Init, Lifecycle!LifecycleInit, ClientIds, ClientPhase, PhaseOf, EmptyList, NoEntry

(* A publication reports what was not reported and changes no phase.       *)
LEMMA PublishRefines ==
    ASSUME Assumed, TypeOK, TypeOK', GoalTracking, Reporting, Answering,
           PublishImpl_, loop_pc \in {"publish", "plan"}
    PROVE  [Lifecycle!LifecycleNext]_<<Phases, ReportedIds>>
<1>1. ASSUME NEW id \in ClientIds
      PROVE  /\ ClientPhase(id)' = ClientPhase(id)
             /\ Reported(id)' <=> Reported(id) \/ ClientPhase(id) \in Lifecycle!Verdict
  <2>0. id \in GoalId
    BY DEF ClientIds
  <2>1. /\ seen'[id] = seen[id] \cup ({statuses'[id].value} \cap Terminal)
        /\ statuses'[id] # statuses[id] => /\ statuses'[id] = NoEntry
                                          /\ Closed(id) /\ statuses[id].value \in seen[id]
    BY <2>0, PublicationForgetsReported DEF PublishImpl_
  <2>2. CASE statuses'[id] # statuses[id]
    <3>1. seen'[id] = seen[id] /\ Reported(id)
      BY <2>1, <2>2 DEF NoEntry, Terminal, Reported
    <3>2. \/ "SATISFIED" \in seen[id]
          \/ "EMPTY" \in seen[id]
          \/ "PREEMPTED" \in seen[id]
      BY <2>1, <2>2 DEF Closed, Terminal
    <3> QED
      BY <3>1, <3>2 DEF Reported, ClientPhase
  <2>3. CASE statuses'[id] = statuses[id] /\ ~Closed(id)
    <3>1. seen'[id] = seen[id]
      BY <2>1, <2>3 DEF Closed
    <3>2. ~Reported(id) => ClientPhase(id) \notin Lifecycle!Verdict
      BY <2>0, <2>3, PhaseOfUnreported, PhaseOfValues, StatusValues
         DEF Closed, Terminal, Lifecycle!Verdict
    <3> QED
      BY <2>3, <3>1, <3>2 DEF Reported, ClientPhase
  <2>4. CASE statuses'[id] = statuses[id] /\ Closed(id) /\ Reported(id)
    <3>1. seen'[id] \in {seen[id], seen[id] \cup {"PREEMPTED"}}
      BY <2>0, <2>1, <2>4 DEF Answering, LateVerdict, Closed
    <3>2. seen[id] \subseteq Terminal /\ seen[id] # {}
      BY <2>0, <2>4 DEF TypeOK, Reported
    <3> QED
      BY <3>1, <3>2 DEF Reported, ClientPhase, Terminal
  <2>5. CASE statuses'[id] = statuses[id] /\ Closed(id) /\ ~Reported(id)
    <3>1. seen'[id] = {statuses[id].value}
      BY <2>1, <2>5 DEF Closed, Reported
    <3>2. ClientPhase(id) = PhaseOf(statuses[id].value)
      BY <2>0, <2>5, PhaseOfUnreported
    <3>3. statuses[id].value \in {"SATISFIED", "PREEMPTED", "EMPTY"}
      BY <2>5 DEF Closed, Terminal
    <3>4. ClientPhase(id) \in Lifecycle!Verdict /\ ClientPhase(id)' = ClientPhase(id)
      BY <3>1, <3>2, <3>3, PhaseOfValues DEF ClientPhase, Lifecycle!Verdict
    <3> QED
      BY <3>1, <3>4 DEF Reported
  <2> QED
    BY <2>2, <2>3, <2>4, <2>5
<1>2. Phases' = Phases
  BY <1>1 DEF Phases
<1>3. ReportedIds' = ReportedIds \cup Lifecycle!Unreported
  BY <1>1 DEF ReportedIds, Lifecycle!Unreported, Reported
<1>4. CASE Lifecycle!Unreported = {}
  BY <1>2, <1>3, <1>4
<1>5. CASE Lifecycle!Unreported # {}
  BY <1>2, <1>3, <1>5 DEF Lifecycle!LifecycleNext, Lifecycle!Report, Phases, ReportedIds, Reported
<1> QED
  BY <1>4, <1>5

(* A goal whose status changes without a publication is not reported, or   *)
(* was already and is called preempted late; otherwise its phase moves as  *)
(* GoalLifecycle allows.                                                   *)
LEMMA ChangeRefines ==
    ASSUME Assumed, TypeOK, TypeOK', GoalTracking, GoalTracking', Reporting, Answering,
           [Next]_vars, ~Publish, ~PlanAnswers, seen' = seen,
           NEW id \in ClientIds, statuses'[id].value # statuses[id].value, ~Reported(id)
    PROVE  /\ ClientPhase(id) = PhaseOf(statuses[id].value)
           /\ ClientPhase(id)' = PhaseOf(statuses'[id].value)
           /\ \/ statuses[id].value \in Live /\ statuses'[id].value = "PREEMPTED"
              \/ statuses[id].value = "ABSENT" /\ statuses'[id].value = "NOT_USED" /\ RegisterGoal
              \/ statuses[id].value = "NOT_USED" /\ statuses'[id].value = "RUNNING"
              \/ statuses[id].value = "NOT_USED" /\ statuses'[id].value = "EMPTY"
              \/ statuses[id].value = "RUNNING" /\ statuses'[id].value = "SATISFIED"
<1>0. id \in GoalId /\ id # NoId
  BY DEF ClientIds
<1>1. ClientPhase(id) = PhaseOf(statuses[id].value)
  BY <1>0, PhaseOfUnreported
<1>2. ClientPhase(id)' = PhaseOf(statuses'[id].value)
  BY DEF ClientPhase, Reported
<1>3. ~Closed(id)
  BY <1>0, WhoWrites
<1>4. CASE id = constraints_.id /\ statuses'[id].value = "PREEMPTED"
           /\ \E m \in RobotLocalGoalMsgs : ReceiveGoal(m)
  <2>1. cb_pc = "idle" /\ Sent(id)
    BY <1>0, <1>4 DEF ReceiveGoal, GoalTracking, IdsAreSent
  <2>2. statuses[id] # NoEntry
    BY <1>0, <2>1 DEF Answering, GoneWasReported
  <2>3. statuses[id].value \in Live
    BY <1>0, <1>3, <2>2 DEF TypeOK, StatusList, Closed
  <2> QED
    BY <1>1, <1>2, <1>4, <2>3
<1>5. CASE id = cb_msg.id /\ RegisterGoal /\ statuses'[id].value = "NOT_USED"
  BY <1>1, <1>2, <1>5 DEF RegisterGoal, Answering, Registered, NoEntry
<1>6. CASE id = execute.goal.id /\ MarkRunning /\ statuses'[id].value = "RUNNING"
  <2>1. cb_pc = "idle" /\ constraints_.id = id
    BY <1>3, <1>6 DEF MarkRunning, GoalTracking, HeldIsFollowedOrClosed
  <2>2. ~IsEmpty(constraints_)
    BY <1>6, <2>1 DEF MarkRunning, Answering, HeldIsFull, IsEmpty
  <2>3. statuses[id].value \in Live
    BY <2>1, <2>2 DEF Answering, Registered, Listed
  <2> QED
    BY <1>1, <1>2, <1>6, <2>3 DEF Live
<1>7. CASE id = execute.goal.id /\ StopOnEmpty /\ statuses'[id].value = "EMPTY"
  BY <1>1, <1>2, <1>3, <1>7 DEF StopOnEmpty, Answering, EmptyWaits
<1>8. CASE id = execute.goal.id /\ MarkSatisfied /\ statuses'[id].value = "SATISFIED"
  BY <1>1, <1>2, <1>3, <1>8 DEF MarkSatisfied, Answering, HeldRuns
<1> QED
  BY <1>0, <1>4, <1>5, <1>6, <1>7, <1>8, WhoWrites

(* One action writes the status of one goal.                               *)
LEMMA OneChanges ==
    ASSUME Assumed, TypeOK, Reporting, [Next]_vars, ~Publish, ~PlanAnswers,
           NEW id \in GoalId, statuses'[id].value # statuses[id].value,
           NEW other \in GoalId, statuses'[other].value # statuses[other].value
    PROVE  other = id
<1>0. \/ \E m \in RobotLocalGoalMsgs : ReceiveGoal(m)
      \/ RegisterGoal
      \/ MarkRunning \/ StopOnEmpty \/ MarkSatisfied
  BY WhoWrites
<1>1. ASSUME NEW name \in GoalId, NEW status,
             statuses' = UpdateConstraintsStatus(statuses, name, status)
      PROVE  other = id
  BY <1>1, ClosedStays
<1> QED
  BY <1>0, <1>1, IdsAreIds DEF ReceiveGoal, RegisterGoal, MarkRunning, StopOnEmpty, MarkSatisfied

(* Every step of the node is one of GoalLifecycle or changes nothing there.*)
LEMMA StepRefines ==
    ASSUME Assumed, TypeOK, TypeOK', GoalTracking, GoalTracking', Reporting, Answering, [Next]_vars
    PROVE  [Lifecycle!LifecycleNext]_<<Phases, ReportedIds>>
<1>1. CASE Publish \/ PlanAnswers
  BY <1>1, PublishRefines DEF Publish, PlanAnswers
<1>2. CASE ~(Publish \/ PlanAnswers)
  <2>1. seen' = seen
    BY <1>2 DEF Next, SpinThread, ReceiveGoal, RegisterGoal, UpdateConstraints, InstallGoal,
       JointStateCallback, BaseControllerStateCallback, LoopThread, StartLoop, CopyGoal,
       StopOnEmpty, MarkRunning, UpdateRobotstate, ShouldComplete, ClearConstraints,
       MarkSatisfied, SkipPlanning, StartPlanning, RestoreChanged,
       CommandTrajectory, Environment, PlaybackFinishes, Tick, vars, report
  <2>2. ReportedIds' = ReportedIds
    BY <2>1 DEF ReportedIds, Reported
  <2>3. ASSUME NEW id \in ClientIds, Reported(id) \/ statuses'[id].value = statuses[id].value
        PROVE  ClientPhase(id)' = ClientPhase(id)
    <3>1. id \in GoalId
      BY DEF ClientIds
    <3>2. CASE Reported(id)
      BY <2>1, <3>1, <3>2, PhaseOfReported
    <3>3. CASE statuses'[id].value = statuses[id].value
      BY <2>1, <3>3 DEF ClientPhase
    <3> QED
      BY <2>3, <3>2, <3>3
  <2>4. CASE \A id \in ClientIds : Reported(id) \/ statuses'[id].value = statuses[id].value
    <3>1. Phases' = Phases
      BY <2>3, <2>4 DEF Phases
    <3> QED
      BY <2>2, <3>1
  <2>5. ASSUME NEW id \in ClientIds, ~Reported(id), statuses'[id].value # statuses[id].value
        PROVE  Lifecycle!LifecycleNext
    <3>1. \A other \in ClientIds \ {id} : ClientPhase(other)' = ClientPhase(other)
      BY <1>2, <2>3, <2>5, OneChanges DEF ClientIds
    <3>2. Phases' = [Phases EXCEPT ![id] = ClientPhase(id)'] /\ UNCHANGED ReportedIds
      BY <2>2, <3>1 DEF Phases
    <3>3. /\ ClientPhase(id) = PhaseOf(statuses[id].value)
          /\ ClientPhase(id)' = PhaseOf(statuses'[id].value)
      BY <1>2, <2>1, <2>5, ChangeRefines
    <3>4. CASE statuses[id].value \in Live /\ statuses'[id].value = "PREEMPTED"
      <4>1. ClientPhase(id) \in Lifecycle!Open /\ ClientPhase(id)' = "preempted"
        BY <3>3, <3>4, PhaseOfValues DEF Live, Lifecycle!Open
      <4>2. Lifecycle!Close(id, "preempted")
        BY <3>2, <4>1 DEF Lifecycle!Close, Phases, ReportedIds, Reported
      <4> QED
        BY <4>2 DEF Lifecycle!LifecycleNext, Lifecycle!Verdict
    <3>5. CASE statuses[id].value = "ABSENT" /\ statuses'[id].value = "NOT_USED" /\ RegisterGoal
      <4>1. ClientPhase(id) = "unknown" /\ ClientPhase(id)' = "waiting"
        BY <3>3, <3>5, PhaseOfValues
      <4>2. ASSUME NEW other \in ClientIds PROVE ClientPhase(other) \notin Lifecycle!Open
        <5>1. SUFFICES ASSUME ClientPhase(other) \in Lifecycle!Open PROVE FALSE
          OBVIOUS
        <5>2. other \in GoalId /\ Listed(other)
          BY <5>1, OpenIsListed DEF ClientIds, Lifecycle!Open
        <5>3. other = cb_msg.id
          BY <3>5, <5>2 DEF Listed, RegisterGoal, GoalTracking, OnlyNewestGoalIsLive, NewestId
        <5> QED
          BY <3>5, <5>2, <5>3 DEF RegisterGoal, Answering, Registered, Listed, NoEntry, Live
      <4>3. Lifecycle!Accept(id)
        BY <3>2, <4>1, <4>2 DEF Lifecycle!Accept, Phases, ReportedIds, Reported
      <4> QED
        BY <4>3 DEF Lifecycle!LifecycleNext
    <3>6. CASE statuses[id].value = "NOT_USED" /\ statuses'[id].value = "RUNNING"
      <4>1. ClientPhase(id) = "waiting" /\ ClientPhase(id)' = "running"
        BY <3>3, <3>6, PhaseOfValues
      <4>2. Lifecycle!Run(id)
        BY <3>2, <4>1 DEF Lifecycle!Run, Phases, ReportedIds, Reported
      <4> QED
        BY <4>2 DEF Lifecycle!LifecycleNext
    <3>7. CASE statuses[id].value = "NOT_USED" /\ statuses'[id].value = "EMPTY"
      <4>1. ClientPhase(id) = "waiting" /\ ClientPhase(id)' = "empty"
        BY <3>3, <3>7, PhaseOfValues
      <4>2. Lifecycle!Close(id, "empty")
        BY <3>2, <4>1 DEF Lifecycle!Close, Phases, ReportedIds, Reported
      <4> QED
        BY <4>2 DEF Lifecycle!LifecycleNext, Lifecycle!Verdict
    <3>8. CASE statuses[id].value = "RUNNING" /\ statuses'[id].value = "SATISFIED"
      <4>1. ClientPhase(id) = "running" /\ ClientPhase(id)' = "satisfied"
        BY <3>3, <3>8, PhaseOfValues
      <4>2. Lifecycle!Close(id, "satisfied")
        BY <3>2, <4>1 DEF Lifecycle!Close, Phases, ReportedIds, Reported
      <4> QED
        BY <4>2 DEF Lifecycle!LifecycleNext, Lifecycle!Verdict
    <3> QED
      BY <1>2, <2>1, <2>5, <3>4, <3>5, <3>6, <3>7, <3>8, ChangeRefines
  <2> QED
    BY <2>4, <2>5
<1> QED
  BY <1>1, <1>2

(* Whatever its two threads do in whatever order, towards its clients the  *)
(* node does only what GoalLifecycle allows: UpdateConstraintsStatus and   *)
(* PublishImpl_ (utils.cpp:295-352) as ConstraintCallback and Execute call *)
(* them.                                                                   *)
THEOREM ImplementsLifecycleHolds == ASSUME Assumed PROVE Spec => ImplementsLifecycle
<1>1. /\ TypeOK /\ TypeOK' /\ GoalTracking /\ GoalTracking' /\ Reporting
      /\ Answering /\ [Next]_vars
      => [Lifecycle!LifecycleNext]_<<Phases, ReportedIds>>
  BY StepRefines
<1>2. Spec => [][Lifecycle!LifecycleNext]_<<Phases, ReportedIds>>
  BY <1>1, TypeCorrect, TrackingThm, ReportingThm, AnsweringThm, PTL DEF Spec
<1> QED
  BY <1>2, InitRefines, PTL
     DEF Spec, ImplementsLifecycle, Lifecycle!LifecycleSpec, Phases, ReportedIds, Reported

-----------------------------------------------------------------------------
(* A satisfied goal is not commanded. *)

Satisfied(id) == statuses[id].value = "SATISFIED" \/ "SATISFIED" \in seen[id]

(* Neither a goal there still is to follow nor one Execute is about to     *)
(* command was ever satisfied.                                             *)
FollowedUnsatisfied ==
    /\ ~IsEmpty(constraints_) => ~Satisfied(constraints_.id)
    /\ loop_pc \in {"running", "robot_state", "should_complete", "decide", "plan", "command"}
       => ~Satisfied(execute.goal.id)

(* Only MarkSatisfied makes a goal satisfied. *)
LEMMA WhoSatisfies ==
    ASSUME Assumed, TypeOK, Reporting, [Next]_vars, NEW id \in GoalId,
           ~Satisfied(id), Satisfied(id)'
    PROVE  MarkSatisfied /\ id = execute.goal.id
<1>1. CASE statuses'[id].value = "SATISFIED"
  <2>1. statuses'[id].value # statuses[id].value
    BY <1>1 DEF Satisfied
  <2> QED
    BY <1>1, <2>1, WhoWrites DEF NoEntry
<1>2. CASE statuses'[id].value # "SATISFIED"
  <2>1. seen'[id] \subseteq seen[id] \cup {statuses'[id].value}
    BY DEF Next, SpinThread, ReceiveGoal, RegisterGoal, UpdateConstraints, InstallGoal,
       JointStateCallback, BaseControllerStateCallback, LoopThread, StartLoop, CopyGoal,
       StopOnEmpty, MarkRunning, UpdateRobotstate, ShouldComplete, ClearConstraints,
       MarkSatisfied, SkipPlanning, StartPlanning, PlanAnswers, RestoreChanged,
       CommandTrajectory, Publish, PublishImpl_, Environment, PlaybackFinishes, Tick, vars, report
  <2> QED
    BY <1>2, <2>1 DEF Satisfied
<1> QED
  BY <1>1, <1>2

LEMMA FollowedUnsatisfiedStep ==
    ASSUME Assumed, TypeOK, GoalTracking, Reporting, Answering, FollowedUnsatisfied, [Next]_vars
    PROVE  FollowedUnsatisfied'
<1>0. constraints_.id \in GoalId /\ execute.goal.id \in GoalId /\ cb_msg.id \in GoalId
  BY IdsAreIds
<1>1. ASSUME ~IsEmpty(constraints_)'
      PROVE  ~Satisfied(constraints_.id)'
  <2>1. CASE InstallGoal
    <3>1. ~Satisfied(cb_msg.id)
      BY <1>0, <2>1 DEF InstallGoal, Satisfied, Answering, Registered, Reporting, ReportedIsPast,
         Reported
    <3>2. constraints_' = cb_msg /\ UNCHANGED <<statuses, seen>>
      BY <2>1 DEF InstallGoal, report
    <3> QED
      BY <3>1, <3>2 DEF Satisfied
  <2>2. CASE ~InstallGoal
    <3>1. constraints_' = constraints_
      BY <1>1, <2>2, FollowedStays
    <3>2. ~Satisfied(constraints_.id) /\ (MarkSatisfied => constraints_.id # execute.goal.id)
      BY <1>1, <3>1 DEF FollowedUnsatisfied, IsEmpty, MarkSatisfied, GoalTracking, FollowedIsOpen
    <3>3. PICK id \in GoalId : id = constraints_.id
      BY <1>0
    <3>4. ~Satisfied(id)'
      BY <3>2, <3>3, WhoSatisfies
    <3> QED
      BY <3>1, <3>3, <3>4 DEF Satisfied
  <2> QED
    BY <2>1, <2>2
<1>2. ASSUME loop_pc' \in {"running", "robot_state", "should_complete", "decide", "plan", "command"}
      PROVE  ~Satisfied(execute.goal.id)'
  <2>1. CASE CopyGoal
    <3>1. ~IsEmpty(constraints_) /\ execute'.goal = constraints_ /\ UNCHANGED <<statuses, seen>>
      BY <1>2, <2>1 DEF CopyGoal, IsEmpty, NoLocals, report
    <3> QED
      BY <3>1 DEF FollowedUnsatisfied, Satisfied
  <2>2. CASE ~CopyGoal
    <3>1. execute'.goal = execute.goal
      BY <1>2, <2>2, HeldStays
    <3>2. loop_pc \in {"running", "robot_state", "should_complete", "decide", "plan", "command"}
      <4>1. CASE loop_pc' = "command"
        BY <4>1 DEF Next, SpinThread, ReceiveGoal, RegisterGoal, UpdateConstraints, InstallGoal,
           JointStateCallback, BaseControllerStateCallback, LoopThread, StartLoop, CopyGoal,
           StopOnEmpty, MarkRunning, UpdateRobotstate, ShouldComplete, ClearConstraints,
           MarkSatisfied, SkipPlanning, StartPlanning, PlanAnswers, RestoreChanged, Return,
           CommandTrajectory, Publish, Environment, PlaybackFinishes, Tick, vars, loop
      <4>2. CASE loop_pc' # "command"
        <5>1. loop_pc # "restore"
          BY <1>2, <4>2 DEF Next, SpinThread, ReceiveGoal, RegisterGoal, UpdateConstraints,
             InstallGoal, JointStateCallback, BaseControllerStateCallback, LoopThread, StartLoop,
             CopyGoal, StopOnEmpty, MarkRunning, UpdateRobotstate, ShouldComplete,
             ClearConstraints, MarkSatisfied, SkipPlanning, StartPlanning, PlanAnswers,
             RestoreChanged, Return, CommandTrajectory, Publish, Environment, PlaybackFinishes,
             Tick, vars, loop
        <5> QED
          BY <1>2, <2>2, <4>2, <5>1, LoopFlow
      <4> QED
        BY <4>1, <4>2
    <3>3. ~MarkSatisfied
      BY <3>2 DEF MarkSatisfied
    <3>4. PICK id \in GoalId : id = execute.goal.id
      BY <1>0
    <3>5. ~Satisfied(id)'
      BY <3>2, <3>3, <3>4, WhoSatisfies DEF FollowedUnsatisfied
    <3> QED
      BY <3>1, <3>4, <3>5 DEF Satisfied
  <2> QED
    BY <2>1, <2>2
<1> QED
  BY <1>1, <1>2 DEF FollowedUnsatisfied

(* Execute sends no trajectory for a goal whose satisfaction was reported  *)
(* (node.cpp:227, 288-309), although it copied the goal before.            *)
THEOREM SatisfiedGoalIsNotCommandedHolds ==
    ASSUME Assumed PROVE Spec => SatisfiedGoalIsNotCommanded
<1>1. Init => FollowedUnsatisfied
  BY DEF Init, FollowedUnsatisfied, IsEmpty, NoGoal
<1>2. TypeOK /\ GoalTracking /\ Reporting /\ Answering /\ FollowedUnsatisfied /\ [Next]_vars
      => FollowedUnsatisfied'
  BY FollowedUnsatisfiedStep
<1>3. FollowedUnsatisfied
      => (CommandTrajectory => "SATISFIED" \notin seen[execute.goal.id])
  BY DEF FollowedUnsatisfied, Satisfied, CommandTrajectory
<1> QED
  BY <1>1, <1>2, <1>3, TypeCorrect, TrackingThm, ReportingThm, AnsweringThm, PTL
     DEF Spec, SatisfiedGoalIsNotCommanded

=============================================================================
