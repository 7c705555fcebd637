-------------------------- MODULE GoalReportProofs --------------------------
(***************************************************************************)
(* More about LocalPlannerNode for every value of its constants: what the  *)
(* status list tells clients.  Where completed goals are removed and the   *)
(* list outlives a callback and the gap between two publications, no goal  *)
(* whose verdict was published is open again, no open goal is forgotten    *)
(* and no verdict before it was published, and is_constraints_empty is     *)
(* right.                                                                  *)
(***************************************************************************)
EXTENDS LocalPlannerNodeProofs

USE DEF PreemptFollowed, NoticeChange, ForgetTrajectory, HeldId

Listed(id) == statuses[id].value \in Live
Reported(id) == seen[id] # {}

-----------------------------------------------------------------------------
(* No goal reopens. *)

(* Execute opens only a goal that is still there. *)
HeldIsThere ==
    loop_pc = "running" /\ ~Closed(execute.goal.id) => ~IsEmpty(constraints_)

(* A goal whose verdict was published is past.                             *)
ReportedIsPast ==
    \A id \in GoalId : Reported(id) =>
        /\ ~Listed(id)
        /\ id = NoId \/ Sent(id)
        /\ cb_pc # "idle" => id # cb_msg.id
        /\ cb_pc = "idle" /\ ~IsEmpty(constraints_) => id # constraints_.id

(* What is closed stays closed when a status is written. *)
LEMMA ClosedStays ==
    ASSUME TypeOK, NEW name \in GoalId, NEW status,
           statuses' = UpdateConstraintsStatus(statuses, name, status), NEW id \in GoalId
    PROVE  /\ Closed(id) => statuses'[id] = statuses[id] /\ Closed(id)'
           /\ id # name => statuses'[id] = statuses[id]
           /\ ~Closed(name) => statuses'[name] = [value |-> status, age |-> 0]
           /\ statuses'[id].value \in {statuses[id].value, status}
<1>1. statuses \in StatusList
  BY DEF TypeOK
<1> QED
  BY <1>1, UpdateValue DEF Closed

LEMMA IdsAreIds ==
    ASSUME TypeOK
    PROVE  constraints_.id \in GoalId /\ execute.goal.id \in GoalId /\ cb_msg.id \in GoalId
BY DEF TypeOK, Goal, Locals

LEMMA HeldIsThereStep ==
    ASSUME TypeOK, GoalTracking, HeldIsThere, [Next]_vars
    PROVE  HeldIsThere'
<1> USE DEF HeldIsThere
<1>1. CASE CopyGoal
  BY <1>1 DEF CopyGoal, NoLocals, IsEmpty, Closed
<1>2. CASE InstallGoal
  <2>1. loop_pc = "running" => Closed(execute.goal.id)
    BY <1>2 DEF InstallGoal, GoalTracking, HeldIsFollowedOrClosed
  <2> QED
    BY <1>2, <2>1 DEF InstallGoal, loop, Closed
<1>3. ASSUME loop_pc' # "running" PROVE HeldIsThere'
  BY <1>3
<1>4. ASSUME loop_pc' = loop_pc, execute' = execute, constraints_' = constraints_,
             \A id \in GoalId : Closed(id) => Closed(id)'
      PROVE  HeldIsThere'
  <2>1. execute.goal.id \in GoalId
    BY DEF TypeOK, Locals, Goal
  <2> QED
    BY <1>4, <2>1 DEF IsEmpty
<1>5. ASSUME NEW name \in GoalId, NEW status \in Statuses,
             statuses' = UpdateConstraintsStatus(statuses, name, status)
      PROVE  \A id \in GoalId : Closed(id) => Closed(id)'
  BY <1>5, ClosedStays
<1>6. CASE SpinThread
  <2>1. ASSUME NEW m \in RobotLocalGoalMsgs, ReceiveGoal(m) PROVE HeldIsThere'
    BY <2>1, <1>4, <1>5, IdsAreIds DEF ReceiveGoal, loop, goals, Statuses, Terminal
  <2>2. CASE RegisterGoal
    BY <2>2, <1>4, <1>5, IdsAreIds DEF RegisterGoal, loop, goals, Statuses, Live
  <2>3. CASE UpdateConstraints
    BY <2>3, <1>4 DEF UpdateConstraints, loop, Closed
  <2>4. ASSUME NEW names, JointStateCallback(names) PROVE HeldIsThere'
    BY <2>4, <1>4 DEF JointStateCallback, loop, goals, Closed
  <2>5. CASE BaseControllerStateCallback
    BY <2>5, <1>4 DEF BaseControllerStateCallback, loop, goals, Closed
  <2> QED
    BY <1>2, <1>6, <2>1, <2>2, <2>3, <2>4, <2>5 DEF SpinThread
<1>7. CASE LoopThread
  BY <1>1, <1>3, <1>7 DEF LoopThread, StartLoop, StopOnEmpty, MarkRunning, UpdateRobotstate,
     ShouldComplete, ClearConstraints, MarkSatisfied, SkipPlanning, StartPlanning, PlanAnswers,
     RestoreChanged, CommandTrajectory, Publish, Return
<1>8. CASE Environment
  <2>1. CASE Tick
    <3>1. \A id \in GoalId : Closed(id) => Closed(id)'
      BY <2>1, AgedType DEF Tick, TypeOK, Closed
    <3> QED
      BY <2>1, <3>1, <1>4 DEF Tick, loop, goals
  <2>2. ASSUME NEW c, PlaybackFinishes(c) PROVE HeldIsThere'
    BY <2>2, <1>4 DEF PlaybackFinishes, loop, goals, Closed
  <2> QED
    BY <1>8, <2>1, <2>2 DEF Environment
<1>9. CASE UNCHANGED vars
  BY <1>9, <1>4 DEF vars, loop, goals, Closed
<1> QED
  BY <1>6, <1>7, <1>8, <1>9 DEF Next

(* A status other than an open one, written or not, and time, open nothing.*)
LEMMA NothingOpens ==
    ASSUME TypeOK, NEW id \in GoalId, ~Listed(id),
           \/ UNCHANGED statuses
           \/ statuses' = Aged(statuses)
           \/ statuses' = Unexpired(statuses)
           \/ \E name \in GoalId, status \in Terminal :
                 statuses' = UpdateConstraintsStatus(statuses, name, status)
    PROVE  ~Listed(id)'
<1>1. statuses \in StatusList /\ NoEntry.value \notin Live
  BY DEF TypeOK, NoEntry, Live
<1>2. CASE \E name \in GoalId, status \in Terminal :
              statuses' = UpdateConstraintsStatus(statuses, name, status)
  BY <1>2, ClosedStays DEF Listed, Live, Terminal
<1>3. CASE statuses' = Aged(statuses)
  BY <1>1, <1>3, AgedType DEF Listed
<1>4. CASE statuses' = Unexpired(statuses)
  BY <1>1, <1>4, UnexpiredType DEF Listed
<1> QED
  BY <1>2, <1>3, <1>4 DEF Listed

(* An action that opens nothing, reports nothing and takes or installs no  *)
(* goal.                                                                   *)
LEMMA PastKept ==
    ASSUME TypeOK, ReportedIsPast, seen' = seen, UNCHANGED <<cb_pc, cb_msg, received>>,
           constraints_' = constraints_ \/ IsEmpty(constraints_)',
           \/ UNCHANGED statuses
           \/ statuses' = Aged(statuses)
           \/ \E name \in GoalId, status \in Terminal :
                 statuses' = UpdateConstraintsStatus(statuses, name, status)
    PROVE  ReportedIsPast'
<1> SUFFICES ASSUME NEW id \in GoalId, Reported(id)'
             PROVE  /\ ~Listed(id)'
                    /\ id = NoId \/ Sent(id)'
                    /\ cb_pc' # "idle" => id # cb_msg'.id
                    /\ cb_pc' = "idle" /\ ~IsEmpty(constraints_)' => id # constraints_'.id
  BY DEF ReportedIsPast
<1>1. Reported(id)
  BY DEF Reported
<1>2. ~Listed(id)'
  BY <1>1, NothingOpens DEF ReportedIsPast
<1>3. (id = NoId \/ Sent(id)') /\ (cb_pc' # "idle" => id # cb_msg'.id)
  BY <1>1 DEF ReportedIsPast, Sent
<1>4. cb_pc' = "idle" /\ ~IsEmpty(constraints_)' => id # constraints_'.id
  BY <1>1 DEF ReportedIsPast, IsEmpty
<1> QED
  BY <1>2, <1>3, <1>4

(* What is published is the verdict of a goal that is past.                *)
LEMMA PublishPast ==
    ASSUME TypeOK, GoalTracking, ReportedIsPast, PublishImpl_,
           UNCHANGED <<constraints_, cb_pc, cb_msg, received>>
    PROVE  ReportedIsPast'
<1> SUFFICES ASSUME NEW id \in GoalId, Reported(id)'
             PROVE  /\ ~Listed(id)'
                    /\ id = NoId \/ Sent(id)'
                    /\ cb_pc' # "idle" => id # cb_msg'.id
                    /\ cb_pc' = "idle" /\ ~IsEmpty(constraints_)' => id # constraints_'.id
  BY DEF ReportedIsPast
<1>1. /\ statuses' = Unexpired(statuses)
      /\ seen'[id] = seen[id] \cup ({statuses'[id].value} \cap Terminal)
      /\ statuses'[id] \in {statuses[id], NoEntry}
  BY UnexpiredType DEF TypeOK, PublishImpl_
<1>2. CASE Reported(id)
  <2>1. ~Listed(id)'
    BY <1>1, <1>2, NothingOpens DEF ReportedIsPast
  <2> QED
    BY <1>2, <2>1 DEF ReportedIsPast, IsEmpty, Sent
<1>3. CASE ~Reported(id)
  <2>1. statuses'[id].value \in Terminal /\ statuses'[id] = statuses[id]
    BY <1>1, <1>3 DEF Reported, NoEntry, Terminal
  <2>2. Closed(id) /\ ~Listed(id)' /\ statuses[id] # NoEntry
    BY <2>1 DEF Closed, Listed, Live, Terminal, NoEntry
  <2>3. id = NoId \/ Sent(id)
    BY <2>2 DEF GoalTracking, IdsAreSent
  <2>4. cb_pc # "idle" => id # cb_msg.id
    BY <2>2 DEF GoalTracking, CallbackIsAhead
  <2>5. cb_pc = "idle" /\ ~IsEmpty(constraints_) => id # constraints_.id
    BY <2>2 DEF GoalTracking, FollowedIsOpen
  <2> QED
    BY <2>2, <2>3, <2>4, <2>5 DEF Sent, IsEmpty
<1> QED
  BY <1>2, <1>3

LEMMA ReportedIsPastStep ==
    ASSUME TypeOK, GoalTracking, HeldIsThere, ReportedIsPast, [Next]_vars
    PROVE  ReportedIsPast'
<1>1. ASSUME NEW m \in RobotLocalGoalMsgs, ReceiveGoal(m) PROVE ReportedIsPast'
  <2> SUFFICES ASSUME NEW id \in GoalId, Reported(id)'
               PROVE  ~Listed(id)' /\ (id = NoId \/ Sent(id)') /\ id # m.id
    BY <1>1 DEF ReportedIsPast, ReceiveGoal
  <2>1. Reported(id)
    BY <1>1 DEF Reported, ReceiveGoal, report
  <2>2. ~Listed(id)'
    BY <1>1, <2>1, NothingOpens, IdsAreIds DEF ReportedIsPast, ReceiveGoal, Terminal
  <2>3. id = NoId \/ Sent(id)
    BY <2>1 DEF ReportedIsPast
  <2>4. (id = NoId \/ Sent(id)') /\ id # m.id
    BY <1>1, <2>3, MessageIds DEF Sent, ReceiveGoal
  <2> QED
    BY <2>2, <2>4
<1>2. CASE RegisterGoal
  <2> SUFFICES ASSUME NEW id \in GoalId, Reported(id)'
               PROVE  ~Listed(id)' /\ (id = NoId \/ Sent(id)') /\ id # cb_msg.id
    BY <1>2 DEF ReportedIsPast, RegisterGoal
  <2>1. Reported(id) /\ id # cb_msg.id /\ ~Listed(id) /\ (id = NoId \/ Sent(id)')
    BY <1>2 DEF Reported, ReportedIsPast, RegisterGoal, report, Sent
  <2>2. statuses'[id] = statuses[id]
    BY <1>2, <2>1, ClosedStays, IdsAreIds DEF RegisterGoal
  <2> QED
    BY <2>1, <2>2 DEF Listed
<1>3. CASE UpdateConstraints
  BY <1>3 DEF UpdateConstraints, ReportedIsPast, Reported, Listed, Sent, report
<1>4. CASE InstallGoal
  BY <1>4 DEF InstallGoal, ReportedIsPast, Reported, Listed, Sent, report
<1>5. CASE MarkRunning
  <2> SUFFICES ASSUME NEW id \in GoalId, Reported(id)'
               PROVE  ~Listed(id)'
    BY <1>5 DEF MarkRunning, ReportedIsPast, Reported, report, callback, goals, Sent, IsEmpty
  <2>1. Reported(id) /\ ~Listed(id)
    BY <1>5 DEF MarkRunning, Reported, ReportedIsPast, report
  <2>2. Closed(execute.goal.id) \/ id # execute.goal.id
    BY <1>5, <2>1 DEF MarkRunning, GoalTracking, HeldIsFollowedOrClosed, HeldIsThere, ReportedIsPast
  <2>3. statuses'[id] = statuses[id]
    BY <1>5, <2>2, ClosedStays, IdsAreIds DEF MarkRunning
  <2> QED
    BY <2>1, <2>3 DEF Listed
<1>6. CASE Publish \/ PlanAnswers
  BY <1>6, PublishPast DEF Publish, PlanAnswers, callback, goals
<1>7. CASE StopOnEmpty
  BY <1>7, PastKept, IdsAreIds DEF StopOnEmpty, callback, goals, report, Terminal
<1>8. CASE MarkSatisfied
  BY <1>8, PastKept, IdsAreIds DEF MarkSatisfied, callback, goals, report, Terminal
<1>9. CASE Tick
  BY <1>9, PastKept DEF Tick, goals
<1>10. CASE ClearConstraints
  <2>1. IsEmpty(constraints_)'
    BY <1>10 DEF ClearConstraints, Clear, IsEmpty, TypeOK, Goal
  <2> QED
    BY <1>10, <2>1, PastKept DEF ClearConstraints, callback, report
<1>11. ASSUME UNCHANGED <<statuses, seen, constraints_, cb_pc, cb_msg, received>>
       PROVE  ReportedIsPast'
  BY <1>11, PastKept
<1>12. CASE SpinThread
  BY <1>1, <1>2, <1>3, <1>4, <1>11, <1>12 DEF SpinThread, JointStateCallback,
     BaseControllerStateCallback, callback, goals, report
<1>13. CASE LoopThread
  BY <1>5, <1>6, <1>7, <1>8, <1>10, <1>11, <1>13 DEF LoopThread, StartLoop, CopyGoal,
     UpdateRobotstate, ShouldComplete, SkipPlanning, StartPlanning, RestoreChanged,
     CommandTrajectory, callback, goals, report
<1>14. CASE Environment \/ UNCHANGED vars
  BY <1>9, <1>11, <1>14 DEF Environment, PlaybackFinishes, vars, callback, goals, report
<1> QED
  BY <1>12, <1>13, <1>14 DEF Next

-----------------------------------------------------------------------------
(* is_constraints_empty. *)

(* Where Execute stands says what it published, and that the goal it found *)
(* empty is still gone unless a new one came.                              *)
EmptyFlagInv ==
    /\ loop_pc \in {"starting", "plan", "command", "restore"} => ~is_empty
    /\ \/ loop_pc \in {"stop", "satisfied"}
       \/ loop_pc \in {"publish", "idle"} /\ is_empty
       => constraints_are_changed_ \/ IsEmpty(constraints_)

LEMMA EmptyFlagStep ==
    ASSUME TypeOK, EmptyFlagInv, remove_completed_constraints_, [Next]_vars
    PROVE  EmptyFlagInv'
<1> USE DEF EmptyFlagInv, IsEmpty
<1>1. ASSUME UNCHANGED <<loop_pc, is_empty>>,
             constraints_are_changed_' \/ UNCHANGED <<constraints_, constraints_are_changed_>>
      PROVE  EmptyFlagInv'
  BY <1>1
<1>2. CASE SpinThread
  BY <1>1, <1>2 DEF SpinThread, ReceiveGoal, RegisterGoal, UpdateConstraints, InstallGoal,
     JointStateCallback, BaseControllerStateCallback, loop, goals
<1>3. CASE Environment \/ UNCHANGED vars
  BY <1>1, <1>3 DEF Environment, PlaybackFinishes, Tick, vars, loop, goals
<1>4. CASE StartLoop \/ CopyGoal \/ StopOnEmpty \/ MarkRunning \/ MarkSatisfied
  BY <1>4 DEF StartLoop, CopyGoal, StopOnEmpty, MarkRunning, MarkSatisfied, goals
<1>5. CASE UpdateRobotstate \/ (\E result : ShouldComplete(result))
  BY <1>5 DEF UpdateRobotstate, ShouldComplete, goals
<1>6. CASE ClearConstraints
  <2>1. IsEmpty(constraints_)' /\ loop_pc' = "satisfied"
    BY <1>6 DEF ClearConstraints, Clear, TypeOK, Goal
  <2> QED
    BY <2>1
<1>7. CASE SkipPlanning \/ StartPlanning \/ CommandTrajectory
  BY <1>7 DEF SkipPlanning, StartPlanning, CommandTrajectory, Return
<1>8. CASE PlanAnswers \/ Publish \/ RestoreChanged
  BY <1>8 DEF PlanAnswers, Publish, RestoreChanged, Return, goals
<1> QED
  BY <1>2, <1>3, <1>4, <1>5, <1>6, <1>7, <1>8 DEF Next, LoopThread

(* Between two executions is_constraints_empty was last published true     *)
(* only if the goal followed is gone, where satisfied goals are removed.   *)
THEOREM EmptyFlagIsTrueHolds ==
    ASSUME remove_completed_constraints_
    PROVE  Spec => []EmptyFlagIsTrue
<1>1. Init => EmptyFlagInv
  BY DEF Init, EmptyFlagInv
<1>2. EmptyFlagInv => EmptyFlagIsTrue
  BY DEF EmptyFlagInv, EmptyFlagIsTrue
<1>3. TypeOK /\ EmptyFlagInv /\ [Next]_vars => EmptyFlagInv'
  BY EmptyFlagStep
<1> QED
  BY <1>1, <1>2, <1>3, TypeCorrect, PTL DEF Spec

-----------------------------------------------------------------------------
(* What is forgotten was reported.  First: before a goal has come nothing  *)
(* is listed.                                                              *)

Untouched ==
    received = {} =>
        /\ \A id \in GoalId : statuses[id] = NoEntry
        /\ cb_pc = "idle"
        /\ IsEmpty(constraints_) /\ ~constraints_are_changed_
        /\ loop_pc \in {"starting", "idle", "publish"}

LEMMA UntouchedStep ==
    ASSUME TypeOK, Untouched, [Next]_vars
    PROVE  Untouched'
<1> SUFFICES ASSUME received' = {}
             PROVE  /\ \A id \in GoalId : statuses'[id] = NoEntry
                    /\ cb_pc' = "idle"
                    /\ IsEmpty(constraints_)' /\ ~constraints_are_changed_'
                    /\ loop_pc' \in {"starting", "idle", "publish"}
  BY DEF Untouched
<1>1. received \subseteq received'
  BY DEF Next, SpinThread, LoopThread, Environment, ReceiveGoal, RegisterGoal,
     UpdateConstraints, InstallGoal, JointStateCallback, BaseControllerStateCallback,
     StartLoop, CopyGoal, StopOnEmpty, MarkRunning, UpdateRobotstate, ShouldComplete,
     ClearConstraints, MarkSatisfied, SkipPlanning, StartPlanning, PlanAnswers,
     RestoreChanged, CommandTrajectory, Publish, PlaybackFinishes, Tick, vars, callback
<1>2. /\ received = {} /\ cb_pc = "idle"
      /\ \A id \in GoalId : statuses[id] = NoEntry
      /\ IsEmpty(constraints_) /\ ~constraints_are_changed_
      /\ loop_pc \in {"starting", "idle", "publish"}
  BY <1>1 DEF Untouched
<1>3. CASE SpinThread
  <2>1. ~(\E m \in RobotLocalGoalMsgs : ReceiveGoal(m))
    BY DEF ReceiveGoal
  <2> QED
    BY <1>2, <1>3, <2>1 DEF SpinThread, RegisterGoal, UpdateConstraints, InstallGoal,
       JointStateCallback, BaseControllerStateCallback, callback, goals, loop, IsEmpty
<1>4. CASE StartLoop \/ CopyGoal
  BY <1>2, <1>4 DEF StartLoop, CopyGoal, callback, goals, IsEmpty
<1>5. CASE Publish
  <2>1. \A id \in GoalId : statuses'[id] = NoEntry
    BY <1>2, <1>5, UnexpiredType DEF Publish, PublishImpl_, TypeOK
  <2> QED
    BY <1>2, <1>5, <2>1 DEF Publish, Return, callback, goals, IsEmpty
<1>6. CASE Tick
  <2>1. \A id \in GoalId : statuses'[id] = NoEntry
    BY <1>2, <1>6 DEF Tick, Aged
  <2> QED
    BY <1>2, <1>6, <2>1 DEF Tick, loop, goals, IsEmpty
<1>7. CASE UNCHANGED vars \/ \E c : PlaybackFinishes(c)
  BY <1>2, <1>7 DEF vars, PlaybackFinishes, callback, loop, goals, IsEmpty
<1>8. LoopThread => StartLoop \/ CopyGoal \/ Publish
  BY <1>2 DEF LoopThread, StopOnEmpty, MarkRunning, UpdateRobotstate, ShouldComplete,
     ClearConstraints, MarkSatisfied, SkipPlanning, StartPlanning, PlanAnswers,
     RestoreChanged, CommandTrajectory
<1> QED
  BY <1>3, <1>4, <1>5, <1>6, <1>7, <1>8 DEF Next, Environment

(* A verdict that was not published is not older than the last publication.*)
VerdictsAreFresh ==
    \A id \in GoalId :
        Closed(id) /\ statuses[id].value \notin seen[id] => statuses[id].age <= unpublished

(* Execute holds the goal followed as long as no new one comes.            *)
TakenIsHeld ==
    loop_pc \notin {"starting", "idle"} /\ ~constraints_are_changed_
    => execute.goal.id = constraints_.id

(* A goal that is gone is open only until Execute closes it. *)
GoneIsClosed ==
    cb_pc = "idle" /\ IsEmpty(constraints_) /\ ~constraints_are_changed_ /\ Listed(constraints_.id)
    => loop_pc \in {"stop", "satisfied"}

(* An open goal is as old as the callback that registers it, or as old as  *)
(* that was and no older than the last publication, until the one has been *)
(* made; after that it is marked running before the next.                  *)
BeforeMark(id) ==
    \/ loop_pc \in {"starting", "idle", "command", "restore"}
    \/ loop_pc \in {"running", "stop"} /\ execute.goal.id = id

OpenIsFresh ==
    \A id \in GoalId : Listed(id) =>
        /\ cb_pc # "idle" => statuses[id].age <= cb_age
        /\ cb_pc = "idle" /\ ~BeforeMark(id) => statuses[id].age <= CallbackMax + unpublished

LEMMA Numbers ==
    ASSUME TypeOK
    PROVE  /\ \A id \in GoalId : statuses[id].age \in Nat
           /\ cb_age \in 0 .. CallbackMax /\ CallbackMax \in Nat
           /\ unpublished \in 0 .. PublishGap /\ PublishGap \in Nat /\ Retention \in Nat
<1>1. \A id \in GoalId : statuses[id] \in [value : Live \cup Terminal, age : Age] \cup {NoEntry}
  BY DEF TypeOK, StatusList
<1>2. ASSUME NEW id \in GoalId PROVE statuses[id].age \in Nat
  <2>1. CASE statuses[id] = NoEntry
    BY <2>1 DEF NoEntry
  <2>2. CASE statuses[id] \in [value : Live \cup Terminal, age : Age]
    BY <2>2, RetentionAssumption DEF Age
  <2> QED
    BY <1>1, <2>1, <2>2
<1> QED
  BY <1>2, NodeAssumption, RetentionAssumption DEF TypeOK

(* When time passes: by one tick, for entries and for the publication. *)
LEMMA TickAges ==
    ASSUME TypeOK, Untouched, Tick, NEW id \in GoalId, statuses[id] # NoEntry
    PROVE  /\ statuses'[id].value = statuses[id].value
           /\ statuses'[id].age <= statuses[id].age + 1
           /\ unpublished' = unpublished + 1
           /\ cb_pc # "idle" => cb_age' = cb_age + 1
BY AgedType DEF Tick, TypeOK, Untouched

LEMMA VerdictsAreFreshStep ==
    ASSUME TypeOK, TypeOK', Untouched, VerdictsAreFresh, [Next]_vars
    PROVE  VerdictsAreFresh'
<1> SUFFICES ASSUME NEW id \in GoalId, Closed(id)', statuses'[id].value \notin seen'[id]
             PROVE  statuses'[id].age <= unpublished'
  BY DEF VerdictsAreFresh
<1>1. ASSUME UNCHANGED report, statuses'[id] = statuses[id]
      PROVE  statuses'[id].age <= unpublished'
  BY <1>1 DEF VerdictsAreFresh, Closed, report
<1>2. ASSUME UNCHANGED report, NEW name \in GoalId, NEW status,
             statuses' = UpdateConstraintsStatus(statuses, name, status)
      PROVE  statuses'[id].age <= unpublished'
  <2>1. CASE Closed(id) \/ id # name
    <3>1. statuses'[id] = statuses[id]
      BY <1>2, <2>1, ClosedStays
    <3> QED
      BY <1>1, <1>2, <3>1
  <2>2. CASE ~Closed(name) /\ id = name
    <3>0. statuses'[id] = [value |-> status, age |-> 0]
      BY <1>2, <2>2, ClosedStays
    <3>1. statuses'[id].age = 0
      BY <3>0
    <3> QED
      BY <1>2, <3>1, Numbers DEF report
  <2> QED
    BY <2>1, <2>2
<1>3. CASE Tick
  <2>1. Closed(id)' => statuses[id] # NoEntry
    BY <1>3, AgedType DEF Tick, TypeOK, Closed, NoEntry, Terminal
  <2>2. statuses[id] # NoEntry /\ seen' = seen
    BY <1>3, <2>1 DEF Tick
  <2>3. /\ statuses'[id].value = statuses[id].value
        /\ statuses'[id].age <= statuses[id].age + 1
        /\ unpublished' = unpublished + 1
    BY <1>3, <2>2, TickAges
  <2>4. statuses[id].age <= unpublished
    BY <2>2, <2>3 DEF VerdictsAreFresh, Closed
  <2>5. statuses'[id].age \in Nat
    BY DEF TypeOK, StatusList, Age, NoEntry
  <2> QED
    BY <2>3, <2>4, <2>5, Numbers
<1>4. ~PublishImpl_
  BY UnexpiredType DEF PublishImpl_, TypeOK, Closed
<1>5. CASE SpinThread
  BY <1>1, <1>2, <1>5, IdsAreIds DEF SpinThread, ReceiveGoal, RegisterGoal, UpdateConstraints,
     InstallGoal, JointStateCallback, BaseControllerStateCallback
<1>6. CASE LoopThread
  BY <1>1, <1>2, <1>4, <1>6, IdsAreIds DEF LoopThread, StartLoop, CopyGoal, StopOnEmpty, MarkRunning,
     UpdateRobotstate, ShouldComplete, ClearConstraints, MarkSatisfied, SkipPlanning,
     StartPlanning, PlanAnswers, RestoreChanged, CommandTrajectory, Publish
<1>7. CASE Environment \/ UNCHANGED vars
  BY <1>1, <1>3, <1>7 DEF Environment, PlaybackFinishes, vars
<1> QED
  BY <1>5, <1>6, <1>7 DEF Next

LEMMA TakenIsHeldStep ==
    ASSUME TypeOK, TakenIsHeld, [Next]_vars
    PROVE  TakenIsHeld'
<1> USE DEF TakenIsHeld
<1>1. ASSUME UNCHANGED <<loop_pc, execute>>,
             constraints_are_changed_' \/ UNCHANGED <<constraints_, constraints_are_changed_>>
      PROVE  TakenIsHeld'
  BY <1>1
<1>2. CASE SpinThread \/ Environment \/ UNCHANGED vars
  BY <1>1, <1>2 DEF SpinThread, ReceiveGoal, RegisterGoal, UpdateConstraints, InstallGoal,
     JointStateCallback, BaseControllerStateCallback, Environment, PlaybackFinishes, Tick,
     vars, loop, goals
<1>3. ASSUME execute'.goal = execute.goal, loop_pc \notin {"starting", "idle"},
             UNCHANGED constraints_are_changed_, constraints_'.id = constraints_.id
      PROVE  TakenIsHeld'
  BY <1>3
<1>4. CASE CopyGoal
  BY <1>4 DEF CopyGoal, NoLocals
<1>5. CASE ClearConstraints
  <2>1. constraints_'.id = constraints_.id
    BY <1>5 DEF ClearConstraints, Clear, TypeOK, Goal
  <2> QED
    BY <1>3, <1>5, <2>1 DEF ClearConstraints
<1>6. CASE UpdateRobotstate \/ StartPlanning \/ PlanAnswers \/ \E result : ShouldComplete(result)
  <2>1. loop_pc' = "idle" \/ execute'.goal = execute.goal
    BY <1>6 DEF UpdateRobotstate, StartPlanning, PlanAnswers, ShouldComplete, Return, TypeOK, Locals
  <2> QED
    BY <1>3, <1>6, <2>1 DEF UpdateRobotstate, StartPlanning, PlanAnswers, ShouldComplete, goals
<1>7. CASE StopOnEmpty \/ MarkRunning \/ MarkSatisfied \/ SkipPlanning
  BY <1>3, <1>7 DEF StopOnEmpty, MarkRunning, MarkSatisfied, SkipPlanning, goals
<1>8. CASE StartLoop \/ RestoreChanged \/ CommandTrajectory \/ Publish
  BY <1>8 DEF StartLoop, RestoreChanged, CommandTrajectory, Publish, Return
<1> QED
  BY <1>2, <1>4, <1>5, <1>6, <1>7, <1>8 DEF Next, LoopThread

LEMMA GoneIsClosedStep ==
    ASSUME TypeOK, HeldIsThere, TakenIsHeld, GoneIsClosed, [Next]_vars
    PROVE  GoneIsClosed'
<1> SUFFICES ASSUME cb_pc' = "idle", IsEmpty(constraints_)', ~constraints_are_changed_',
                    Listed(constraints_.id)', loop_pc' \notin {"stop", "satisfied"}
             PROVE  FALSE
  BY DEF GoneIsClosed
<1>2. ASSUME UNCHANGED <<cb_pc, constraints_>>, loop_pc \notin {"stop", "satisfied"},
             ~constraints_are_changed_,
             \/ UNCHANGED statuses
             \/ statuses' = Aged(statuses)
             \/ statuses' = Unexpired(statuses)
      PROVE  FALSE
  <2>1. ~Listed(constraints_.id)
    BY <1>2 DEF GoneIsClosed, IsEmpty
  <2> QED
    BY <1>2, <2>1, NothingOpens, IdsAreIds
<1>3. CASE SpinThread
  BY <1>2, <1>3 DEF SpinThread, ReceiveGoal, RegisterGoal, UpdateConstraints, InstallGoal,
     JointStateCallback, BaseControllerStateCallback, goals, loop
<1>4. CASE StopOnEmpty \/ MarkSatisfied
  <2>1. /\ UNCHANGED <<constraints_, constraints_are_changed_>>
        /\ execute.goal.id = constraints_.id
        /\ \E status \in Terminal :
              statuses' = UpdateConstraintsStatus(statuses, constraints_.id, status)
    BY <1>4 DEF StopOnEmpty, MarkSatisfied, TakenIsHeld, goals, Terminal
  <2>2. constraints_.id \in GoalId
    BY IdsAreIds
  <2>3. statuses'[constraints_.id].value \in Terminal
    <3>1. PICK status \in Terminal :
             statuses' = UpdateConstraintsStatus(statuses, constraints_.id, status)
      BY <2>1
    <3>2. CASE Closed(constraints_.id)
      BY <2>2, <3>1, <3>2, ClosedStays DEF Closed
    <3>3. CASE ~Closed(constraints_.id)
      <4>1. statuses'[constraints_.id] = [value |-> status, age |-> 0]
        BY <2>2, <3>1, <3>3, ClosedStays
      <4> QED
        BY <4>1
    <3> QED
      BY <3>2, <3>3
  <2> QED
    BY <2>1, <2>3 DEF Listed, Live, Terminal
<1>5. CASE MarkRunning
  <2>1. /\ execute.goal.id = constraints_.id /\ UNCHANGED <<constraints_, constraints_are_changed_>>
        /\ statuses' = UpdateConstraintsStatus(statuses, constraints_.id, "RUNNING")
    BY <1>5 DEF MarkRunning, TakenIsHeld, goals
  <2>2. Closed(constraints_.id)
    BY <1>5, <2>1 DEF MarkRunning, HeldIsThere, IsEmpty
  <2>3. statuses'[constraints_.id] = statuses[constraints_.id]
    BY <2>1, <2>2, ClosedStays, IdsAreIds
  <2> QED
    BY <2>1, <2>2, <2>3 DEF Listed, Closed, Live, Terminal
<1>6. CASE CopyGoal
  <2>1. ~constraints_are_changed_ /\ IsEmpty(constraints_)
    BY <1>6 DEF CopyGoal, IsEmpty
  <2> QED
    BY <1>2, <1>6, <2>1 DEF CopyGoal, callback
<1>7. CASE LoopThread
  BY <1>2, <1>4, <1>5, <1>6, <1>7 DEF LoopThread, StartLoop, UpdateRobotstate, ShouldComplete,
     ClearConstraints, SkipPlanning, StartPlanning, PlanAnswers, PublishImpl_, RestoreChanged,
     CommandTrajectory, Publish, callback, goals
<1>8. CASE Environment \/ UNCHANGED vars
  BY <1>2, <1>8 DEF Environment, PlaybackFinishes, Tick, vars, callback, goals, loop
<1> QED
  BY <1>3, <1>7, <1>8 DEF Next

LEMMA NumbersNext == ASSUME TypeOK', NEW id \in GoalId PROVE statuses'[id].age \in Nat
<1>1. statuses'[id] \in [value : Live \cup Terminal, age : Age] \cup {NoEntry}
  BY DEF TypeOK, StatusList
<1>2. CASE statuses'[id] = NoEntry
  BY <1>2 DEF NoEntry
<1>3. CASE statuses'[id] \in [value : Live \cup Terminal, age : Age]
  BY <1>3, RetentionAssumption DEF Age
<1> QED
  BY <1>1, <1>2, <1>3

LEMMA OpenIsFreshStep ==
    ASSUME Assumed, TypeOK, TypeOK', GoalTracking, GoalTracking', Untouched, GoneIsClosed,
           OpenIsFresh, [Next]_vars
    PROVE  OpenIsFresh'
<1> SUFFICES ASSUME NEW id \in GoalId, Listed(id)'
             PROVE  /\ cb_pc' # "idle" => statuses'[id].age <= cb_age'
                    /\ cb_pc' = "idle" /\ ~BeforeMark(id)'
                       => statuses'[id].age <= CallbackMax + unpublished'
  BY DEF OpenIsFresh
<1> DEFINE Fresh == /\ cb_pc' # "idle" => statuses'[id].age <= cb_age'
                    /\ cb_pc' = "idle" /\ ~BeforeMark(id)'
                       => statuses'[id].age <= CallbackMax + unpublished'
<1>1. ASSUME UNCHANGED <<cb_pc, cb_age, unpublished>>, statuses'[id] = statuses[id],
             BeforeMark(id) => BeforeMark(id)'
      PROVE  Fresh
  <2>1. Listed(id)
    BY <1>1 DEF Listed
  <2> QED
    BY <1>1, <2>1 DEF OpenIsFresh
<1>2. ASSUME UNCHANGED <<cb_pc, cb_age, unpublished>>, NEW status,
             statuses' = UpdateConstraintsStatus(statuses, execute.goal.id, status),
             status \in Terminal \/ status = "RUNNING",
             loop_pc \in {"stop", "satisfied", "running"},
             status = "RUNNING" <=> loop_pc = "running"
      PROVE  Fresh
  <2>1. CASE id # execute.goal.id
    <3>1. statuses'[id] = statuses[id] /\ ~BeforeMark(id)
      BY <1>2, <2>1, ClosedStays, IdsAreIds DEF BeforeMark
    <3> QED
      BY <1>1, <1>2, <3>1
  <2>2. CASE id = execute.goal.id /\ Closed(id)
    <3>1. statuses'[id] = statuses[id]
      BY <1>2, <2>2, ClosedStays
    <3> QED
      BY <2>2, <3>1 DEF Closed, Listed, Live, Terminal
  <2>3. CASE id = execute.goal.id /\ ~Closed(id)
    <3>1. statuses'[id] = [value |-> status, age |-> 0]
      BY <1>2, <2>3, ClosedStays
    <3>2. statuses'[id].age = 0
      BY <3>1
    <3> QED
      BY <1>2, <3>2, Numbers
  <2> QED
    BY <2>1, <2>2, <2>3
<1>3. CASE Tick
  <2>1. statuses[id] # NoEntry /\ Listed(id)
    BY <1>3, AgedType DEF Tick, TypeOK, Listed, NoEntry, Live
  <2>2. /\ statuses'[id].age <= statuses[id].age + 1
        /\ unpublished' = unpublished + 1
        /\ cb_pc # "idle" => cb_age' = cb_age + 1
        /\ UNCHANGED <<cb_pc, loop_pc, execute>>
    BY <1>3, <2>1, TickAges DEF Tick, loop
  <2>3. /\ cb_pc # "idle" => statuses[id].age <= cb_age
        /\ cb_pc = "idle" /\ ~BeforeMark(id) => statuses[id].age <= CallbackMax + unpublished
        /\ BeforeMark(id)' <=> BeforeMark(id)
    BY <2>1, <2>2 DEF OpenIsFresh, BeforeMark
  <2>4. statuses[id].age \in Nat /\ statuses'[id].age \in Nat
    BY NumbersNext, Numbers
  <2> QED
    BY <2>2, <2>3, <2>4, Numbers
<1>4. ASSUME PublishImpl_, UNCHANGED <<cb_pc, cb_age>>, BeforeMark(id)'
      PROVE  Fresh
  <2>1. statuses'[id] = statuses[id] /\ Listed(id)
    BY <1>4, UnexpiredType DEF PublishImpl_, TypeOK, Listed, NoEntry, Live
  <2> QED
    BY <1>4, <2>1 DEF OpenIsFresh
<1>5. ASSUME NEW m \in RobotLocalGoalMsgs, ReceiveGoal(m)
      PROVE  Fresh
  <2>1. id = m.id
    BY <1>5 DEF GoalTracking, OnlyNewestGoalIsLive, NewestId, Listed, ReceiveGoal
  <2>2. id # constraints_.id /\ statuses[id] = NoEntry
    BY <1>5, <2>1, MessageIds DEF GoalTracking, IdsAreSent, Sent, ReceiveGoal
  <2>3. statuses'[id] = NoEntry
    BY <1>5, <2>2, ClosedStays, IdsAreIds DEF ReceiveGoal
  <2> QED
    BY <2>3 DEF Listed, NoEntry, Live
<1>6. CASE RegisterGoal
  <2>1. id = cb_msg.id /\ cb_pc' # "idle" /\ UNCHANGED cb_age
    BY <1>6 DEF GoalTracking, OnlyNewestGoalIsLive, NewestId, Listed, RegisterGoal
  <2>2. ~Closed(cb_msg.id)
    BY <1>6 DEF GoalTracking, CallbackIsAhead, RegisterGoal
  <2>3. statuses'[id] = [value |-> "NOT_USED", age |-> 0]
    BY <1>6, <2>1, <2>2, ClosedStays DEF RegisterGoal
  <2>4. statuses'[id].age = 0
    BY <2>3
  <2> QED
    BY <2>1, <2>4, Numbers
<1>7. CASE InstallGoal
  <2>1. statuses' = statuses /\ Listed(id) /\ cb_pc # "idle" /\ cb_pc' = "idle"
    BY <1>7 DEF InstallGoal, Listed
  <2>2. statuses[id].age <= cb_age
    BY <2>1 DEF OpenIsFresh
  <2>3. UNCHANGED unpublished
    BY <1>7 DEF InstallGoal, report
  <2> QED
    BY <2>1, <2>2, <2>3, Numbers
<1>8. CASE CopyGoal
  <2>1. statuses' = statuses /\ Listed(id) /\ UNCHANGED <<cb_pc, cb_age, unpublished>>
    BY <1>8 DEF CopyGoal, Listed, callback, report
  <2>2. CASE cb_pc = "idle"
    <3>1. id = constraints_.id
      BY <2>1, <2>2 DEF GoalTracking, OnlyNewestGoalIsLive, NewestId, Listed
    <3>2. ~(IsEmpty(constraints_) /\ ~constraints_are_changed_)
      BY <1>8, <2>1, <2>2, <3>1 DEF GoneIsClosed, CopyGoal
    <3>3. loop_pc' \in {"running", "stop"} /\ execute'.goal.id = id
      BY <1>8, <3>1, <3>2 DEF CopyGoal, NoLocals
    <3> QED
      BY <2>1, <2>2, <3>3 DEF BeforeMark
  <2>3. CASE cb_pc # "idle"
    BY <2>1, <2>3 DEF OpenIsFresh
  <2> QED
    BY <2>2, <2>3
<1>9. CASE StopOnEmpty \/ MarkRunning \/ MarkSatisfied
  BY <1>2, <1>9 DEF StopOnEmpty, MarkRunning, MarkSatisfied, callback, report, Terminal
<1>10. CASE UpdateRobotstate \/ SkipPlanning \/ StartPlanning \/ ClearConstraints
            \/ \E result : ShouldComplete(result)
  <2>1. ~BeforeMark(id)
    BY <1>10 DEF UpdateRobotstate, SkipPlanning, StartPlanning, ClearConstraints,
       ShouldComplete, BeforeMark
  <2> QED
    BY <1>1, <1>10, <2>1 DEF UpdateRobotstate, SkipPlanning, StartPlanning, ClearConstraints,
       ShouldComplete, callback, report
<1>11. CASE StartLoop \/ RestoreChanged \/ CommandTrajectory
  <2>1. BeforeMark(id)'
    BY <1>11 DEF StartLoop, RestoreChanged, CommandTrajectory, Return, BeforeMark
  <2> QED
    BY <1>1, <1>11, <2>1 DEF StartLoop, RestoreChanged, CommandTrajectory, callback, report
<1>12. CASE PlanAnswers \/ Publish
  <2>1. BeforeMark(id)'
    BY <1>12 DEF PlanAnswers, Publish, Return, BeforeMark
  <2> QED
    BY <1>4, <1>12, <2>1 DEF PlanAnswers, Publish, callback
<1>13. CASE UpdateConstraints
  <2>1. cb_pc # "idle" /\ cb_pc' # "idle" /\ UNCHANGED <<statuses, cb_age>>
    BY <1>13 DEF UpdateConstraints
  <2> QED
    BY <2>1 DEF OpenIsFresh, Listed
<1>14. CASE \/ \E names : JointStateCallback(names)
            \/ BaseControllerStateCallback
            \/ \E c : PlaybackFinishes(c)
            \/ UNCHANGED vars
  BY <1>1, <1>14 DEF JointStateCallback, BaseControllerStateCallback, PlaybackFinishes,
     vars, callback, loop, report, BeforeMark
<1> QED
  BY <1>3, <1>5, <1>6, <1>7, <1>8, <1>9, <1>10, <1>11, <1>12, <1>13, <1>14
     DEF Next, SpinThread, LoopThread, Environment

(* Only a publication removes an entry. *)
LEMMA OnlyPublicationForgets ==
    ASSUME TypeOK, [Next]_vars, NEW id \in GoalId,
           statuses[id] # NoEntry, statuses'[id] = NoEntry
    PROVE  PublishImpl_ /\ loop_pc \in {"publish", "plan"}
<1>1. ASSUME NEW name \in GoalId, NEW status \in Statuses,
             statuses' = UpdateConstraintsStatus(statuses, name, status)
      PROVE  FALSE
  <2>1. statuses'[id].value \in {statuses[id].value, status}
    BY <1>1, ClosedStays
  <2>2. statuses[id].value # "ABSENT"
    BY DEF TypeOK, StatusList, Live, Terminal
  <2> QED
    BY <2>1, <2>2 DEF NoEntry, Statuses, Live, Terminal
<1>2. ~Tick
  <2>1. statuses[id].value # "ABSENT"
    BY DEF TypeOK, StatusList, Live, Terminal
  <2> QED
    BY <2>1, AgedType DEF Tick, TypeOK, NoEntry
<1>3. CASE SpinThread
  BY <1>1, <1>3, IdsAreIds DEF SpinThread, ReceiveGoal, RegisterGoal, UpdateConstraints,
     InstallGoal, JointStateCallback, BaseControllerStateCallback, Statuses, Live, Terminal
<1>4. CASE LoopThread
  BY <1>1, <1>4, IdsAreIds DEF LoopThread, StartLoop, CopyGoal, StopOnEmpty, MarkRunning,
     UpdateRobotstate, ShouldComplete, ClearConstraints, MarkSatisfied, SkipPlanning,
     StartPlanning, PlanAnswers, RestoreChanged, CommandTrajectory, Publish, Statuses, Live,
     Terminal
<1>5. CASE Environment \/ UNCHANGED vars
  BY <1>2, <1>5 DEF Environment, PlaybackFinishes, vars
<1> QED
  BY <1>3, <1>4, <1>5 DEF Next

(* What GoalTracking lacks to say that nothing is forgotten too early.     *)
Reporting ==
    /\ HeldIsThere
    /\ ReportedIsPast
    /\ Untouched
    /\ VerdictsAreFresh
    /\ TakenIsHeld
    /\ GoneIsClosed
    /\ OpenIsFresh

LEMMA InitReporting == Init => Reporting
<1> SUFFICES ASSUME Init PROVE Reporting
  OBVIOUS
<1>1. \A id \in GoalId : statuses[id] = NoEntry /\ ~Closed(id) /\ ~Listed(id) /\ ~Reported(id)
  BY DEF Init, EmptyList, NoEntry, Closed, Listed, Live, Terminal, Reported
<1>2. HeldIsThere /\ ReportedIsPast /\ Untouched /\ TakenIsHeld
  BY <1>1 DEF Init, HeldIsThere, ReportedIsPast, Untouched, TakenIsHeld, NoGoal, IsEmpty
<1>3. VerdictsAreFresh /\ OpenIsFresh /\ GoneIsClosed
  BY <1>1, NodeAssumption DEF Init, VerdictsAreFresh, OpenIsFresh, GoneIsClosed, NoGoal
<1> QED
  BY <1>2, <1>3 DEF Reporting

(* Where Execute stands and what is in the list go on fitting together.    *)
THEOREM ReportingThm == ASSUME Assumed PROVE Spec => []Reporting
<1>1. TypeOK /\ TypeOK' /\ GoalTracking /\ GoalTracking' /\ Reporting /\ [Next]_vars => Reporting'
  BY HeldIsThereStep, ReportedIsPastStep, UntouchedStep, VerdictsAreFreshStep, TakenIsHeldStep,
     GoneIsClosedStep, OpenIsFreshStep DEF Reporting
<1> QED
  BY <1>1, InitReporting, TypeCorrect, TrackingThm, PTL DEF Spec

(* A publication leaves an open entry alone, and a verdict unless it was   *)
(* published before.                                                       *)
LEMMA PublicationForgetsReported ==
    ASSUME Assumed, TypeOK, Reporting, PublishImpl_, loop_pc \in {"publish", "plan"},
           NEW id \in GoalId, statuses'[id] # statuses[id]
    PROVE  /\ statuses'[id] = NoEntry
           /\ Closed(id) /\ statuses[id].value \in seen[id]
           /\ statuses[id].age > Retention
<1>1. statuses'[id] = NoEntry /\ statuses[id].age > Retention
  BY DEF PublishImpl_, Unexpired, Expired
<1>2. Closed(id) \/ Listed(id)
  BY <1>1 DEF TypeOK, StatusList, Closed, Listed
<1>3. Retention >= CallbackMax + PublishGap
  BY Numbers DEF Assumed, TimingBounds
<1>4. ~Listed(id)
  <2>1. ~BeforeMark(id)
    BY DEF BeforeMark
  <2> QED
    BY <1>1, <1>3, <2>1, Numbers DEF Reporting, OpenIsFresh
<1>5. Closed(id) => statuses[id].value \in seen[id]
  BY <1>1, <1>3, Numbers DEF Reporting, VerdictsAreFresh
<1> QED
  BY <1>1, <1>2, <1>4, <1>5

(* PublishImpl_ (utils.cpp:336) erases no open goal and no verdict that was*)
(* not published before, where an entry outlives a callback and the gap    *)
(* between two publications (TimingBounds).                                *)
THEOREM ForgottenOnlyAfterReportHolds == ASSUME Assumed PROVE Spec => ForgottenOnlyAfterReport
<1> DEFINE Step == \A id \in GoalId :
                      statuses[id] # NoEntry /\ statuses'[id] = NoEntry
                      => statuses[id].value \in seen[id]
<1>1. TypeOK /\ Reporting /\ [Next]_vars => Step
  BY OnlyPublicationForgets, PublicationForgetsReported
<1> QED
  BY <1>1, TypeCorrect, ReportingThm, PTL DEF Spec, ForgottenOnlyAfterReport

(* A goal the status list once reported SATISFIED, PREEMPTED or EMPTY is   *)
(* not NOT_USED or RUNNING in it afterwards (utils.cpp:312 appends what    *)
(* line 342 has erased), whatever the interleaving of the two threads.     *)
THEOREM NoGoalReopensHolds == ASSUME Assumed PROVE Spec => []NoGoalReopens
<1>1. Reporting => NoGoalReopens
  BY DEF Reporting, ReportedIsPast, Reported, Listed, NoGoalReopens
<1> QED
  BY <1>1, ReportingThm, PTL

=============================================================================
