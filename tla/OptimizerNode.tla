--------------------------- MODULE OptimizerNode ---------------------------
(***************************************************************************)
(* The action server OptimizerNode with its OptimizerPlugin and the        *)
(* OptimizerPluginCommon they use (optimizer_node.cpp).  Every accepted    *)
(* goal is executed by a detached thread; all of them share one plugin and *)
(* with it the robot state and timeout_point_.  A trajectory filter is     *)
(* external: it may find a trajectory or not, and polls interrupt_func.    *)
(*                                                                         *)
(* Points in time are ticks to go: timeout_left is 0 once now is past      *)
(* timeout_point_.                                                         *)
(***************************************************************************)
EXTENDS Naturals, Sequences

CONSTANTS
    Goals,
    MalformedGoals,         \* those ValidateRobotTrajectory refuses
    UnlimitedGoals,         \* those that name a joint that may lack limits
    optimize_timeout_

ASSUME OptimizerAssumption ==
    /\ MalformedGoals \subseteq Goals
    /\ UnlimitedGoals \subseteq Goals
    /\ optimize_timeout_ \in Nat

VARIABLES
    is_force_succeeded_,    \* read once, before the first goal
    handle,             \* state of each goal, as rclcpp_action keeps it
    thread,             \* where the thread that executes the goal stands
    found,              \* the filters that have found a trajectory for it
    joint_state_, odom_,    \* whether they have arrived
    timeout_left,       \* ticks until timeout_point_ is past
    own_left            \* history: ticks until the goal's own timeout

state == <<is_force_succeeded_, joint_state_, odom_>>
time == <<timeout_left, own_left>>
vars == <<handle, thread, found, state, time>>

Filter == <<"filter", "filter_via_stop">>
Filters == {"filter", "filter_via_stop"}
Final == {"succeeded", "aborted", "canceled"}

(* Its trajectory has the sizes and the two points that are needed.        *)
ValidateRobotTrajectory(g) == g \notin MalformedGoals

(* The parameters that hold the velocity and acceleration limits of the    *)
(* joints are read anew for every goal and may be set in between.          *)
LimitMayBeMissing(g) == g \in UnlimitedGoals

Init ==
    /\ is_force_succeeded_ \in BOOLEAN
    /\ handle = [g \in Goals |-> "unsent"]
    /\ thread = [g \in Goals |-> "none"]
    /\ found = [g \in Goals |-> {}]
    /\ joint_state_ = FALSE /\ odom_ = FALSE
    /\ timeout_left = 0
    /\ own_left = [g \in Goals |-> 0]

-----------------------------------------------------------------------------
(* Callbacks. *)

(* GoalCallback, then FeedbackSetupCallback starts the thread, whatever    *)
(* other threads are under way.                                            *)
GoalCallback(g) ==
    /\ handle[g] = "unsent"
    /\ \/ /\ ~ValidateRobotTrajectory(g)
          /\ handle' = [handle EXCEPT ![g] = "rejected"]
          /\ UNCHANGED thread
       \/ /\ ValidateRobotTrajectory(g)
          /\ handle' = [handle EXCEPT ![g] = "executing"]
          /\ thread' = [thread EXCEPT ![g] = "reset"]
    /\ UNCHANGED <<found, state, time>>

CancelCallback(g) ==
    /\ handle[g] = "executing"
    /\ handle' = [handle EXCEPT ![g] = "canceling"]
    /\ UNCHANGED <<thread, found, state, time>>

(* A message that comes while a thread has the mutex is dropped. *)
JointStateCallback ==
    /\ joint_state_' = TRUE
    /\ UNCHANGED <<is_force_succeeded_, odom_, handle, thread, found, time>>

OdometryCallback ==
    /\ odom_' = TRUE
    /\ UNCHANGED <<is_force_succeeded_, joint_state_, handle, thread, found, time>>

-----------------------------------------------------------------------------
(* Execute. *)

Goto(g, step) == thread' = [thread EXCEPT ![g] = step]

(* A slip: a failure before the filters is not forced to success. *)
GiveUp(g) == Goto(g, "publish_aborted")

(* Optimize fails: forced success sends the input back. *)
Fail(g) == Goto(g, IF is_force_succeeded_ THEN "publish_succeeded" ELSE "publish_aborted")

(* Slips: the time left to an earlier goal is added, or kept. *)
TimeoutOnTop == timeout_left + optimize_timeout_

TimeoutKept == IF timeout_left > 0 THEN timeout_left ELSE optimize_timeout_

Timeout == optimize_timeout_

Reset(g) ==
    /\ thread[g] = "reset"
    /\ \/ /\ joint_state_ /\ odom_
          /\ timeout_left' = Timeout
          /\ own_left' = [own_left EXCEPT ![g] = optimize_timeout_]
          /\ Goto(g, "limits")
       \/ /\ ~(joint_state_ /\ odom_)
          /\ Fail(g)
          /\ UNCHANGED time
    /\ UNCHANGED <<handle, found, state>>

(* JointLimit, UpdateBaseVelocities, UpdateBaseAccelarations: they read    *)
(* parameters and the robot state and change only local variables.         *)
ComputeLimits(g) ==
    /\ thread[g] = "limits"
    /\ \/ Goto(g, "filter")
       \/ LimitMayBeMissing(g) /\ Fail(g)
    /\ UNCHANGED <<handle, found, state, time>>

(* A slip: the filter does not look at the clock. *)
CancelInterrupts(g) == handle[g] = "canceling"

Interrupted(g) == handle[g] = "canceling" \/ timeout_left = 0

(* What follows a filter that found a trajectory, or did not. *)
FilterReturns(g, valid) ==
    /\ thread[g] \in Filters
    /\ found' = [found EXCEPT ![g] = IF valid THEN @ \cup {thread[g]} ELSE @]
    /\ Goto(g, IF thread[g] = "filter" THEN "filter_via_stop" ELSE "collect")
    /\ UNCHANGED <<handle, state, time>>

(* A filter may be done with its last step when it would be interrupted.   *)
FilterEnds(g) == \E valid \in BOOLEAN : FilterReturns(g, valid)

FilterGivesUp(g) ==
    /\ Interrupted(g)
    /\ FilterReturns(g, FALSE)

(* acceleration_rate_for_stop, which may be set at any time, is 0.         *)
SkipFilter(g) ==
    /\ thread[g] = "filter_via_stop"
    /\ FilterReturns(g, FALSE)

(* The shortest of the trajectories that were found is sent. *)
CollectCandidates(g) ==
    /\ thread[g] = "collect"
    /\ IF found[g] # {} THEN Goto(g, "publish_succeeded") ELSE Fail(g)
    /\ UNCHANGED <<handle, found, state, time>>

PublishSucceeded(g) ==
    /\ thread[g] = "publish_succeeded"
    /\ handle' = [handle EXCEPT ![g] = "succeeded"]
    /\ Goto(g, "ended")
    /\ UNCHANGED <<found, state, time>>

(* PublishAborted looks whether the goal is canceling; abort comes later.  *)
PublishAborted(g) ==
    /\ thread[g] = "publish_aborted"
    /\ \/ /\ handle[g] = "canceling"
          /\ handle' = [handle EXCEPT ![g] = "canceled"]
          /\ Goto(g, "ended")
       \/ /\ handle[g] # "canceling"
          /\ Goto(g, "abort")
          /\ UNCHANGED handle
    /\ UNCHANGED <<found, state, time>>

Abort(g) ==
    /\ thread[g] = "abort"
    /\ handle' = [handle EXCEPT ![g] = "aborted"]
    /\ Goto(g, "ended")
    /\ UNCHANGED <<found, state, time>>

Tick ==
    /\ timeout_left > 0
    /\ timeout_left' = timeout_left - 1
    /\ own_left' = [g \in Goals |-> IF own_left[g] = 0 THEN 0 ELSE own_left[g] - 1]
    /\ UNCHANGED <<handle, thread, found, state>>

Execute(g) ==
    \/ Reset(g)
    \/ ComputeLimits(g)
    \/ FilterGivesUp(g)
    \/ CollectCandidates(g)
    \/ PublishSucceeded(g)
    \/ PublishAborted(g)
    \/ Abort(g)

Next ==
    \/ \E g \in Goals : GoalCallback(g) \/ CancelCallback(g)
    \/ \E g \in Goals : Execute(g) \/ FilterEnds(g) \/ SkipFilter(g)
    \/ JointStateCallback \/ OdometryCallback
    \/ Tick

Spec == Init /\ [][Next]_vars

(* Threads run and time passes; a filter need not end before it is told to.*)
FairSpec == Spec /\ WF_vars(Tick) /\ \A g \in Goals : WF_vars(Execute(g))

-----------------------------------------------------------------------------
(* Properties. *)

TypeOK ==
    /\ is_force_succeeded_ \in BOOLEAN
    /\ handle \in [Goals -> {"unsent", "rejected", "executing", "canceling"} \cup Final]
    /\ thread \in [Goals -> {"none", "reset", "limits", "collect", "publish_succeeded",
                             "publish_aborted", "abort", "ended"} \cup Filters]
    /\ found \in [Goals -> SUBSET Filters]
    /\ joint_state_ \in BOOLEAN /\ odom_ \in BOOLEAN
    /\ timeout_left \in 0 .. optimize_timeout_
    /\ own_left \in [Goals -> 0 .. optimize_timeout_]

(* optimize_timeout is the timeout of an optimization (README.md:61), but  *)
(* all that are under way share one: the clock interrupts a filter when    *)
(* the time of every goal is over, that of its own and those another thread*)
(* has reset since, and neither sooner nor later.                          *)
InterruptedByTheLatest ==
    \A g \in Goals :
        thread[g] \in Filters
        => (Interrupted(g) <=> \/ handle[g] = "canceling"
                              \/ \A other \in Goals : own_left[other] = 0)

(* Every goal that is accepted ends, whatever the filters do, and even if  *)
(* no robot state ever arrives; goals reset the timeout of those before    *)
(* them, but there are finitely many.                                      *)
EveryGoalEnds ==
    \A g \in Goals : handle[g] \in {"executing", "canceling"} ~> handle[g] \in Final

(* An action that has ended succeeded if a filter found a trajectory or    *)
(* is_force_succeeded is set (README.md:17), and only then, wherever in    *)
(* Optimize a failure came from and whether it was canceled or not.        *)
SuccessIsDue ==
    \A g \in Goals :
        thread[g] = "ended"
        => (handle[g] = "succeeded" <=> found[g] # {} \/ is_force_succeeded_)

(* OptimizerPlugin runs the two filters of a goal's one trajectory one     *)
(* after the other: for its thread that is a call of Optimize like the one *)
(* OptimizerMultiThread makes of many.                                     *)
Calling(g) == thread[g] \in Filters \cup {"collect"}

AnswerOf(g, filter) ==
    IF thread[g] = "filter" \/ thread[g] = filter THEN "awaited"
    ELSE IF filter \in found[g] THEN "valid" ELSE "null"

Returned(g) ==
    IF found[g] = Filters THEN <<1, 2>>
    ELSE IF "filter" \in found[g] THEN <<1>>
    ELSE IF "filter_via_stop" \in found[g] THEN <<2>> ELSE <<>>

Abstract(g) == INSTANCE OptimizeCall WITH
    MaxTrajectories <- 1,
    answers <- IF Calling(g) THEN [i \in 1 .. 2 |-> AnswerOf(g, Filter[i])] ELSE <<>>,
    result <- IF Calling(g) THEN <<>> ELSE Returned(g)

ImplementsOptimizeCall(g) == Abstract(g)!CallSpec
=============================================================================
