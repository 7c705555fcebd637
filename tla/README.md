# A TLA+ model of the HSR-B robot local planner

The repository holds four ROS 2 packages that move the HSR-B robot towards
*constraints* (goals for its hand, its joints and its base):
`hsrb_robot_local_planner_node` (the planner node, C++),
`hsrb_quick_path_optimizer` (time-optimal retiming of trajectories, C++),
`hsrb_rlp_interface_py` (a Python client) and the meta package
`hsrb_robot_local_planner`. This directory models the parts of them that have
state, threads or timing and those whose arithmetic decides how the robot moves,
checks the models with TLC on small instances and proves most of the safety
properties with TLAPS.

File names without a directory below are those of
`hsrb_robot_local_planner_node/src/hsrb_robot_local_planner_node/` and
`hsrb_quick_path_optimizer/src/`.

## 1. Inventory

### The planner node (`node.cpp`, `utils.cpp`, `joint_trajectories_publisher.cpp`)

Two threads (`RunNode`, node.cpp:443-450). The *spin thread* runs the
subscription callbacks, one at a time. The *loop thread* (`Run`, 106-122) waits
until a joint state and a base state have arrived and then calls `Execute`
again and again. They share

| state | lock | written by |
|---|---|---|
| `constraints_`, `constraints_are_changed_` | `constraints_mutex_` | `ConstraintCallback`; `Execute` (takes the flag, clears a satisfied goal, puts the flag back) |
| the checker's own copy of the constraints and its two previous displacements | `DisplacementChecker::mutex_` (`Execute` only tries it) | `UpdateConstraints`; `ShouldComplete` |
| `constraints_statuses_` | `RobotLocalPlannerStatusPublisher::mutex_` | both threads |
| `joint_state_`, `base_controller_state_` | one mutex each | the state callbacks |

`current_trajectory_` and `enable_base_prev_` belong to the loop thread.
`ConstraintCallback(msg)`: the followed goal becomes PREEMPTED, the new one
NOT_USED, its constraints are transformed (up to 50 ms of waiting per frame) and
given to the checker, then it is installed with the changed flag. Nothing holds
two locks, so `Execute` can run between any two of these steps.

`Execute` copies goal and flag; stops robot and base for an empty goal; else
marks the goal RUNNING, builds the robot's state, asks the checker whether the
goal is reached (and then clears it and marks it SATISFIED), hands goal and
previous trajectory to the planner behind `PlanImpl`, and publishes what comes
back to the joint trajectory controllers and the base controller. Every
execution publishes the status list once; a closed entry is erased ten seconds
after its last change.

In time, `Execute` is due every `kConnectPoint` (0.2 s). It plans from the state
the current trajectory has `kConnectPoint` later, stamps the new trajectory with
that time and sends its first second (`kPublishPeriodScale` periods). When the
current trajectory ends sooner, one execution is skipped. The checker takes a
goal for done when a displacement is below a threshold, or below a wider *check
range* and as large as the one it saw the last time (a *stall*).

*Correct means*: each goal gets one verdict and it is published; a goal is
satisfied only by its own constraints; an old goal is never followed or reopened
when a new one is known; a stop stops; trajectories of an old goal are not
mixed with a new one's; a new trajectory begins where the robot will be; a goal
ends by a stall only when the robot stands.

### The optimizer (`optimizer_node.cpp`, `ThreadPool.h`, `conversions.cpp`, `joint_limit.cpp`, `base_kinematics*.cpp`)

An action server (`OptimizerNode`): `GoalCallback` validates the trajectory, a
detached thread executes each accepted goal, cancels are always accepted. All
goals use one plugin, which has the last joint state and odometry, a
`timeout_point_` and parameters. `OptimizerPlugin` runs two filters (straight
and via a stop) one after the other; `OptimizerPluginMultiThread` gives both to
a `ThreadPool` as tasks that refer to variables of the calling function.
Filters are told to give up by polling a function that looks at the cancel
state and the timeout. `InputTrajectory`, `JointLimit`, `ConvertToWayPoints`
and `ConvertToRobotTrajectory` turn messages into vectors and back.
`BaseKinematics` finds how fast the twin caster drive can go in the direction a
trajectory sets out in, by a search over the limits of its two wheels, and the
limits of the base are raised to that.

*Correct means*: the server never reads what is not in a goal it accepted;
every goal ends, with the right result, in bounded time; no task is lost, run
twice or left running on variables that are gone; the limits let the base move
as fast as its wheels can in its direction, and turn both ways.

### The clients (`robot_local_planner.py`, `example/send_command.py`)

Both publish goals with fresh ids on a topic of depth one and read the status
list from a best-effort topic in a thread of their own, of which they keep the
last message. `wait_for_complete` of the interface gives up after 20 s; the
example waits for ever.

*Correct means*: a wait that returns success is right, and every wait of the
interface returns.

### Parts without a model

The adapter of the external filters, the construction of constraints and poses
in the clients, executables, launch files and
`arrival_percentage_publisher.hpp`, which nothing uses. The
planners themselves (`tmc_robot_local_planner`) and the filters (`tmc_timeopt`)
are not in the repository: what they answer is a free choice of the models.

## 2. Modules

| module | models | used by |
|---|---|---|
| `PlannerStatus` | the status list: operators on it | `LocalPlannerNode` |
| `LocalPlannerNode` | both threads of the node, one action per access to shared state | `MCLocalPlannerNode`, the proofs, `PlannerClient` |
| `GoalLifecycle` | what the node promises about goals, without threads or time | refined by `LocalPlannerNode`, proved in `GoalLifecycleProofs` |
| `OptimizeCall` | what a caller of `IOptimizer::Optimize` is promised, whoever runs the filters | refined by `OptimizerMultiThread` and, goal by goal, `OptimizerNode` |
| `DisplacementChecker` | displacements, thresholds and the stall test | `TrajectoryFollowing` |
| `TrajectoryFollowing` | executions in time: connecting, skipping, planning late, the robot moving | `MCTrajectoryFollowing`, the proofs |
| `PlannerClient` | a client, the topics, and the node in one | `MCPlannerClient`, the proofs |
| `OptimizerMultiThread` | the pool, its queue and workers, `Optimize` on top of it | `MCOptimizerMultiThread`, the proofs |
| `OptimizerNode` | the action server's goals, cancels, threads, timeout | `MCOptimizerNode`, the proofs |
| `BaseKinematics` | the search for the wheels' velocities and the limits that follow | `OptimizerInput` |
| `OptimizerInput` | one goal: validation, limits, extraction, samples | `MCOptimizerInput`, the proofs |
| `LocalPlannerNodeProofs`, which `GoalReportProofs`, `GoalLifecycleProofs` (on top of it) and `PlannerClientProofs` extend; `TrajectoryFollowingProofs`, `OptimizerMultiThreadProofs`, `OptimizerNodeProofs`, `OptimizerInputProofs` | theorems | |

The `MC` modules give the constants values. Operators whose comment begins with
"A slip" are wrong on purpose: each is a plausible mistake in the operator
after it, used to see that a property notices; no specification refers to them.

### LocalPlannerNode against node.cpp

`cb_pc` and `loop_pc` say where each thread stands.

| action | code |
|---|---|
| `ReceiveGoal`, `RegisterGoal`, `UpdateConstraints`, `InstallGoal` | `ConstraintCallback` 328-343, split at its locks |
| `JointStateCallback`, `BaseControllerStateCallback` | 317-326; the spin thread runs them only between two goals |
| `StartLoop` | `Run` with `IsReady` |
| `CopyGoal`, `StopOnEmpty`, `Publish` | 174-198 |
| `MarkRunning`, `UpdateRobotstate` | 199-211; fails if the current trajectory names a joint the state lacks |
| `ShouldComplete`, `ClearConstraints`, `MarkSatisfied` | 212-234 |
| `SkipPlanning` | 235-249: the trajectory ends too soon |
| `StartPlanning`, `PlanAnswers`, `RestoreChanged` | 251-277 and `PlanImpl` |
| `CommandTrajectory` | 279-315 with `JointTrajectoriesPublisher` |
| `PlaybackFinishes`, `Tick` | external: the controllers, the clock |

A goal is an id, a content and whether it moves the base; a trajectory is the
content it was planned for and the joints it names. `playing` is what each
controller was told last. `execute.judged`, `received`, `seen` and
`unpublished` are history: which constraints the checker looked at, what
clients sent, which verdicts were published, how long ago.

Free choices: whether a displacement counts as reached, whether what is left of
the trajectory is long enough, whether the planner fails, plans anew or
returns the previous trajectory. So the safety results hold for any robot
and any planner.

### TrajectoryFollowing and DisplacementChecker against node.cpp and utils.cpp

`LocalPlannerNode` leaves positions and times to choice; these two modules have
them and leave out the interleavings. The robot is on a line, moves one position
in a tick along what it was sent (`course`, external), and points in time are
counted from now, so they go down as `Tick` lets time pass. An execution is one
step up to `PlanImpl` and one after it.

| action or operator | code |
|---|---|
| `ReceiveGoal`, `UpdateConstraints` | `ConstraintCallback`; the checker forgets its displacements (utils.cpp:144-149) |
| `Take` with `RefState` | node.cpp 174-217, `UpdateRobotstate`, judging by the state at the target time or, with `use_current_state_for_displacement`, by the joint state |
| `CompleteGoal`, `SkipPlanning`, `StartPlanning`, `ExecuteEmpty` | the ways `Execute` goes on, 218-263 |
| `Connectable`, `InitialState` | `SearchConnectablePoint`, `CalcInitState` |
| `PlanSucceeds` with `Commanded`, `PlanFails` | 264-315, `DeleteTrajectoryPointsAtTime` |
| `ShouldComplete`, `Judge`, `Stored` | utils.cpp 151-240: joints before links, what each branch stores |

A goal's planned trajectories end in one of `PlannedEnds`, or where the previous
one ends. `looked` is history: whether the checker has judged these constraints
before. Base and joints are one position; that the base's state is extrapolated
from its last message while joints are taken as they are is left out.

### The optimizer and client modules

`OptimizerMultiThread`: `worker`, `tasks` and `stop` are the pool;
`caller`, `next`, `future` and `trajectories_out` are one `Optimize` or the
destructor. A notification is a step after the unlock; wake-ups may be
spurious. Its `Abstract` instance maps the tasks in `future` to the answers of an
`OptimizeCall`, which exist while the call is under way, and hides the rest.
`OptimizerNode`: `handle` is the goal's state in rclcpp_action,
`thread` where its executor stands, `found` the filters that found a trajectory;
`own_left` is history. `CollectCandidates` ends `Optimize`. Its `Abstract(g)` maps what
the two filters of goal `g` answered to an `OptimizeCall` of one trajectory.
`OptimizerInput`
keeps sizes where the code keeps vectors, and of the numbers in them the limits
and the places of the base and its yaw in parts of a turn; a read past the end
of a vector leads to the state "undefined", from where nothing follows. The
velocity and the acceleration limits are two steps, each with the odometry and
joint state of its moment; `moving` is history: what the last of them computed
with. `BaseKinematics` is exact: the code's candidates are integer velocities
of the two wheels, the Jacobian has integer entries when multiplied by
2 * tread / wheel_radius and the body stands at a quarter turn, and angles to a
direction are compared by the squares of their cosines. Where several candidates
are as near, rounding decides in the code, and the model takes any. `PlannerClient`
adds to the node a client thread (`PublishGoal`, `WaitForComplete`,
`SeeComplete`, `GiveUp`), its spin thread (`StatusCallback`) and the two topics
(`OnTopics`, `LoseGoal`); a newer status message replaces one that has not
arrived, so messages can be lost. `times_out` tells the interface from the
example client.

## 3. Runs

Passing runs:

| run | instance | shows |
|---|---|---|
| `core` | two goals, the second moves other joints or stops; Retention 2, a callback lasts one tick, publications are one tick apart | `TypeOK`; verdicts are sent before they are forgotten; no goal reopens; an empty goal stops the base; `is_constraints_empty` is right between executions; while joint states name all joints no old trajectory is offered; the node implements `GoalLifecycle` |
| `answers` | three goals that overtake each other, joint states that may lack the head's joint, fairness, no time | only the newest goal is open, SATISFIED is said on a goal's own constraints, no trajectory is sent for a goal already reported satisfied; every goal is taken, every goal that is over gets its verdict, the fair `GoalLifecycle` is implemented |
| `following` | a line of 14 positions; a goal beyond what is sent of one trajectory, one no trajectory comes near enough to, a link goal nearby; both values of `use_current_state_for_displacement`; planning late by up to one tick | plans connect to where the robot will be; a skipped execution is followed by a plan from at most one tick short of rest, the delay; a stall is a robot that stops (with the parameter's default); no goal is stalled when first judged; every goal ends |
| `pool` | three workers, up to two trajectories (four tasks) | tasks are in one place; none outlives its call; a caller sees an `OptimizeCall`; no lost wake-up; every call and the destructor return |
| `optimizer` | three goals executed at the same time or not, one malformed, one that may find no limits; timeout of three ticks | the filters are interrupted when the time of every goal is over; each goal ends, and succeeds exactly when it should |
| `client` | both clients, two goals, every message of the interface may be lost, timeout of one tick, a list that forgets at once | `True` from a wait is right; every wait of the interface returns; a client that waits for one goal before the next never meets the finding `lost_goal` |
| `input` | sizes 0 and 1, up to three points, every mismatch; up to three base points in quarter turns; 20 directions to set out in, two yaws, two rolls, a body that stands or turns at one of two speeds (the faster is out of the wheels' reach); durations 0 to 5, interval 2 | accepted goals are readable, dimensions agree, the base turns the short way, limits suit the direction and the yaw limit is as large as the body can turn, samples cover the trajectory |

Runs that must find a violation, each of a sentence the repository says:

| run | what happens |
|---|---|
| `lost_goal` | a goal that arrives while `Execute` removes a satisfied one is emptied in its place (node.cpp:222) and then reported EMPTY; it never runs |
| `stale_previous` | `Execute` returns early because a joint state lacks a joint (206-209, or 230-233) after it took `constraints_are_changed_`; the next one offers the planner the old goal's trajectory, against the comment at 253 |
| `cancelled` | the stop for "joints that are no longer used" (302) goes to every controller that has one of them, also to one that was just sent the new trajectory |
| `early_stall` | with `use_current_state_for_displacement`, as the launch file sets it, the second execution of a goal within the check range sees the displacement of the first, because the trajectory has not set out yet, and reports SATISFIED; the package's README (107-109) says a stall is a change that has stopped |
| `wheels` | `ExtractJointVelocity` ignores its `joint_name` (optimizer_node.cpp:148), so the acceleration limits are those of a base whose wheels turn as fast as the axis of the body, against the comment at 153 |

### Bounds and why they are enough

- Ids are fresh (both clients make them so) and the status list is indexed by
  id, so what two threads can disagree on is a goal, its successor and, for
  what an Execute left behind may do, the one after: three goals. Time triples
  the state, so the run with three goals has none and runs with time have two.
- In `core` Retention is 2 and the sum of the bounds on a callback and on the gap
  between publications is 2 as well: the tightest case of `TimingBounds`
  (10 s against callbacks of some 50 ms per frame). Ages stop at Retention + 1,
  where entries are erased and no test tells ages apart.
- One controller with two joints and one with one joint: the smallest case
  where a controller keeps a joint and loses another.
- In `following` the line is longer than what is sent of one trajectory (ten
  positions), so a trajectory is commanded in parts; a period is two ticks, so a
  plan may be late by half of one, and lengths of trajectories are rounded up to
  ticks, so a skipped one may have a whole period left; with
  thresholds of 2 and 1 each of reached, stalled, near and far happens. Goals
  follow each other without end, so what a goal leaves behind for the next
  (displacements, a moving robot) occurs.
- Three workers and two or four tasks: fewer and more tasks than workers, and
  two can sleep while a third runs.
- In `client` the robot has no controllers and no joint names are looked up,
  because a client sees neither; a timeout of one tick is over before a
  goal is done in some behaviours and after it in others. A Retention of 0 makes
  the node forget as early as it can.
- `BaseIsFastEnough` is about accelerations only where the wheels can make up
  for the turning of the body (`WheelsCanCounter`). Beyond, standing still is out
  of their reach, a direction meets the edge of what they can do twice, and the
  candidate nearest in angle may be the slower one; TLC shows it when the
  condition is dropped. With the default parameters the condition
  holds up to the axis's limit: 0.266 m x (1.8 rad/s)^2 = 0.86 m/s^2, and the wheels
  counter up to 2 x 0.11 m x 5.0 rad/s^2 = 1.1 m/s^2.
- In `input` the base has five candidates to a side, the directions lie on
  candidates and between them, and the wheels' limits are below and above what
  the parameters set.
- `CHECK_DEADLOCK FALSE` is in `input` and `wheels`: the read of something
  missing ends the behaviour.

### Fairness and why the code justifies it

Node: the loop thread is scheduled and its planner answers (`WF(LoopThread)`;
`PlanImpl` polls without a limit, so a planner that never answers would stop the
node, see the hazards); a callback that began ends (`WF` of its three later
steps: its waits for transforms have timeouts); the robot publishes its first
joint state and base state. Nothing is assumed of clients, of time, or of what
`Execute` decides. Following: the loop runs and time passes (`WF`), and a planner
asked again and again finds a trajectory now and then (`SF(PlanReturns)`): it is
enabled anew at each plan, and a planner that fails for ever gives no goal its
end. Pool and optimizer: threads are scheduled and time passes; a
filter need not end by itself, but polls `interrupt_func` and gives up when it
is told to (goals are finitely many, so the timeout they share is over at last); spurious wake-ups and new calls are not fair. Client: the loop
thread, one weak fairness for the callbacks of the spin thread that are under
way, the client's thread and the clock; messages may be lost for ever.

## 4. Findings and observations

The five violations above contradict the code's own comments, its README or a
test. Other observations, at the lines listed under the hazards of `PROJECT.json`:

- A goal whose entry was forgotten after its verdict can be reported PREEMPTED
  when its successor comes later (utils.cpp:312). `GoalLifecycle` is refined
  nevertheless because its phase is the first verdict published.
- With `remove_completed_constraints` false a satisfied goal reopens as RUNNING
  once its entry expires; `NoGoalReopens` and the theorems say "true", the
  default.
- With `remove_completed_constraints` false an execution that finds its goal
  satisfied has taken `constraints_are_changed_` and does not put it back, so
  the next one may offer the old goal's trajectory although every joint state is
  complete: the effect of `stale_previous` by another way.
  `OldTrajectoryExcludedHolds` says that there is no third.
- Goals that are executed at the same time share `timeout_point_`
  (optimizer_node.cpp:259): a later goal's `Reset` postpones an earlier one's
  timeout, and a goal that is not canceled is interrupted when the time of every
  goal is over (`InterruptedByTheLatest`). No goal is cut short
  (`NoGoalIsCutShortHolds`), but an endless supply of goals could keep each of
  them from being interrupted; `EveryGoalEnds` is about finitely many.
  `PlanImpl` starts one plan at a time, so the planner has no reason to send
  goals that overlap, but the server would accept them.
- A cancel between the test for canceling and the abort ends ABORTED
  (optimizer_node.cpp:575).
- `is_force_succeeded` is true by default in the code and false in the
  package's README.
- A joint trajectory that names joints but has no points is read at its front by
  the validation (optimizer_node.cpp:107), as is a base trajectory that names a
  joint but has none (115). `AcceptedIsReadable` shows that this and a trajectory
  with points but no names are the only ways to read something missing.
- Removing a satisfied goal forgets its trajectory (node.cpp:219), and an empty
  goal stops the joints that `current_trajectory_` names: an empty goal that
  comes while the controllers still play the satisfied one stops the base and no
  joint. For the same reason the next goal is planned from a robot that moves,
  which `PlannedNearRest` excepts.
- A trajectory of which only the first second was sent stays
  `current_trajectory_`: when planning fails for longer, the robot has stopped
  and the next plan begins further on (`ConnectsToCourse` says that this, and a
  target time that is past, are the only cases).
- A skipped execution that is late is followed by the next one in less than a
  period, which may plan from a robot that still moves although the comment at
  node.cpp:243 says playback should be finished. Any lateness above 0 is enough:
  with 0.19 s left of the trajectory and an execution late by 0.05 s, the next
  one plans 0.15 s later. `PlannedNearRest` says what remains true: the robot
  has no farther to go than it gets in the time an execution can be late.
- A goal with soft constraints only never completes (utils.cpp:239), and with
  joint and link constraints either suffices (213).
- A satisfied goal leaves `enable_base_prev_` as it is, so a later goal that does
  not use the base sends the base a stop; harmless, and what makes
  `EmptyGoalStopsBase` true.
- With the default parameters, wheels at opposite limits turn the base at
  2.556 rad/s and the axis of the body can do 1.8: the smaller of |w - c| and
  |w + c| is 0.76 rad/s although the body can turn one way only, and not slower
  than that. `YawLimitIsSharp` says so of this case.
- A trajectory that takes no time is sampled at time 0 (conversions.cpp:157),
  once, though the comment above it says 0 is not played back.
- Asked for one trajectory, the multi-thread plugin returns the first that a
  filter found (the straight one, if it did), the single-thread plugin the
  shortest.

## 5. Proofs

### The planner node

`LocalPlannerNodeProofs`, `GoalReportProofs` and `GoalLifecycleProofs` prove, for
every set of ids, contents, joints, controllers and messages that satisfies
`NodeAssumption` and `RetentionAssumption`:

| theorem | says | assumes in addition |
|---|---|---|
| `TypeCorrect` | `Spec => []TypeOK` | |
| `EmptyGoalStopsBaseThm` | `Spec => EmptyGoalStopsBase` | |
| `TrackingThm` | `Spec => []GoalTracking` | `Assumed` |
| `OnlyNewestGoalIsLiveThm` | `Spec => []OnlyNewestGoalIsLive` | `Assumed` |
| `SatisfiedIsSoundThm` | `Spec => SatisfiedIsSound` | `Assumed` |
| `EmptyFlagIsTrueHolds` | `Spec => []EmptyFlagIsTrue` | `remove_completed_constraints_` |
| `ReportingThm` | `Spec => []Reporting` | `Assumed` |
| `ForgottenOnlyAfterReportHolds` | `Spec => ForgottenOnlyAfterReport` | `Assumed` |
| `NoGoalReopensHolds` | `Spec => []NoGoalReopens` | `Assumed` |
| `AnsweringThm` | `Spec => []Answering` | `Assumed` |
| `ImplementsLifecycleHolds` | `Spec => ImplementsLifecycle` | `Assumed` |
| `SatisfiedGoalIsNotCommandedHolds` | `Spec => SatisfiedGoalIsNotCommanded` | `Assumed` |
| `OldTrajectoryExcludedHolds` | `Spec => []OldTrajectoryExcluded` | `JointStatesAreComplete`, `remove_completed_constraints_` |
| `UsedControllersPlayHolds` | `Spec => UsedControllersPlay` | `WholeControllersPlan` |
| `OnlyEmptyGoalsEndEmptyHolds` | `Spec => OnlyEmptyGoalsEndEmpty` | `~remove_completed_constraints_` |

`Assumed == TimingBounds /\ remove_completed_constraints_`: a preempted goal's
entry must not expire while the callback that preempted it is still under way
(else the old goal would be appended again as RUNNING), and a satisfied goal
must be removed. Both are limits of the code, not of the model: a callback and
an execution that together last ten seconds, or the parameter set to false, do
break the properties.

*The base.* An empty goal stops the base because the base never plays anything
without `enable_base_prev_` saying so (`BaseRemembered`, inductive): `Execute`
forgets its trajectory when a goal completes but not this flag.

*Tracking.* `OnlyNewestGoalIsLive` and `SatisfiedIsSound` are not inductive: the
callback updates four places one after the other and Execute holds copies.
`GoalTracking` is the strengthening. Its parts: whatever is named was sent
(`IdsAreSent`); the callback's goal is ahead of both threads (`CallbackIsAhead`);
between two callbacks the checker has the constraints of the goal followed
(`CheckerFollows`); that goal is open, and once a callback has begun it is closed
and stays listed, which is where time comes in (`FollowedIsOpen`); Execute
holds the goal followed or one already closed (`HeldIsFollowedOrClosed`), and
what it judged is its own unless closed (`JudgedIsOwn`). One lemma per action
shows that it is preserved; `TrackingUnaffected` covers the actions that touch
none of it.

*Reporting.* That nothing is forgotten before clients could read it needs the
ages of entries. `Reporting` adds to tracking: Execute marks a goal RUNNING only
while the goal followed is there (`HeldIsThere`); a goal whose verdict was
published is neither listed as open nor followed nor carried by the callback
(`ReportedIsPast`), so no later write opens it; an id not sent has no entry
(`Untouched`); and a verdict that no publication has carried is younger than the
time since the last one (`VerdictsAreFresh`), as is an open entry that Execute
has yet to refresh (`OpenIsFresh`). A publication drops entries older than
`Retention`, which is longer than both gaps: what it drops is closed and was
published before.

*The refinement.* `ImplementsLifecycle` maps each goal to a phase that depends on
its entry and on the verdicts seen. `WhoWrites` says which five actions change a
goal's status and how; `Answering` says which goal they meet: the callback's goal
is listed before it is followed (`Registered`), what Execute marks satisfied or
empty was running or waiting (`HeldRuns`, `ChangedWaits`, `EmptyWaits`), and a goal
whose entry has gone was reported (`GoneWasReported`). Then each step of the node
is one step of `GoalLifecycle` or a stutter, and a publication reports all the
verdicts it carries at once. The awkward case is a goal whose published verdict
has expired: the next goal preempts it, because its id is still that of the goal
followed, and the list then says PREEMPTED of it. That changes no phase
(`LateVerdict`).

*Not commanded.* A goal called satisfied has been removed before its status is
written, and Execute returns from there: neither a goal there still is to follow
nor the one Execute is about to command was ever satisfied
(`FollowedUnsatisfied`).

*The old trajectory.* `OldTrajectoryExcluded` says that the planner is offered no
trajectory of another goal than the one it plans for. The invariant is
`TrajectoryFollowsGoal`: between two executions `current_trajectory_` is for the
goal in `constraints_` unless the changed flag is up, and during one it is for the
goal Execute holds unless Execute took the flag. An execution that takes the flag
must therefore either plan, which replaces or drops the trajectory, or put the flag
back. It does neither when it returns for want of a joint or because the goal is
satisfied. The first is excluded by `JointStatesAreComplete` (every `joint_states` message
names the joints of plans and constraints, so that `NoInvalidRobotState` holds),
and in the second the trajectory is dropped with the goal, if goals are removed.
TLC violates the property when either assumption is dropped.

*Where the findings do not occur.* Each finding has a theorem that says which
condition keeps the robot clear of it:

| finding | does not occur | theorem |
|---|---|---|
| `lost_goal` | if satisfied goals are kept (`remove_completed_constraints` false) | `OnlyEmptyGoalsEndEmptyHolds` |
| `lost_goal` | for a client that waits for each goal | `NoGoalIsEmptiedHolds` |
| `stale_previous` | if joint states are complete and satisfied goals are removed | `OldTrajectoryExcludedHolds` |
| `cancelled` | if a plan moves all joints of a controller or none (`WholeControllersPlan`) | `UsedControllersPlayHolds` |
| `early_stall` | if a goal is judged by the plan, has one constraint, and the thresholds suit the robot's speed | `PlannedStallHasStoppedHolds` |
| `wheels` | while the body does not turn (`BodyDoesNotTurn`) | `AccelerationHeedsTheWheelsHolds` |

For `lost_goal` this leaves a choice between two defects: kept goals reopen
(`NoGoalReopens`, section 4).

### Following a trajectory

`TrajectoryFollowingProofs`, for every range of robot positions, goals, thresholds, period
and length of what is sent that satisfy `CheckerAssumption` and
`FollowingAssumption`:

| theorem | says | by the inductive invariant |
|---|---|---|
| `FirstLookNeverStallsHolds` | `Spec => FirstLookNeverStalls` | `Unlooked`: until a goal is judged, both displacements are farther than any stall |
| `ConnectsToCourseHolds` | `Spec => []ConnectsToCourse` | `FollowingInv`: from its stamp on, as far as it was sent, the current trajectory is where the robot is going |
| `PlannedNearRestHolds` | `Spec => []PlannedNearRest` | `TypeInv`, `CourseInv` and `RestInv`: without a trajectory the robot has no farther to go than `MaxDelay` once the next execution is due (`NearRestByDue`), nor while it is planned for (`NearRestWhilePlanned`) |
| `TypeOKHolds` | `Spec => []TypeOK` | `TypeInv`: a trajectory that is kept is no older than it is long, there is one at most, and none without a goal |
| `PlannedStallHasStoppedHolds` | `ChangeIsSeen => (Spec => PlannedStallHasStopped)` | `CourseInv`: one line carries the robot from its last judgement to the next one, and that judgement was made on it |

`ChangeIsSeen` says that each stall threshold is at most what the robot covers, a
position a tick, in the shortest time between two executions (`kConnectPoint -
MaxDelay`). It is needed: with a threshold of 2, a period of 2 and a delay of 1 TLC
finds a robot that creeps between two judgements and is called stalled while it
moves. The code's defaults are 0.005 rad and 0.001 m for a period of at least
0.2 s, that is, a robot slower than 25 mrad/s or 5 mm/s towards its goal can be
taken for one that has stopped; the README of the package gives the threshold
that meaning.

A stall compares the displacements at two judgements, so the invariant has to
remember the earlier one: `Missed` says that it did not complete the goal,
`JudgedFrom` that it was made on the line the robot is on, `e` ticks before the
present one, with a plan in between or not. Two positions on the way to a goal,
`e` ticks apart, have displacements that differ by `e` unless the robot stands or
passes the goal, and a goal it passes is judged reached (`NeverPassesBy` says where
it cannot be passed between two judgements).

### The optimizer

`OptimizerMultiThreadProofs`, for any workers and number of trajectories
(`PoolAssumption`): `PoolTypeCorrect`, `OnePlaceHolds`,
`NoTaskOutlivesCallHolds`, `NoLostWakeupHolds`, `ResultIsSequentialHolds`,
`ImplementsOptimizeCallHolds`, `NobodyWaitsInVainHolds`. The invariant is `PoolInv`: a
task that has not answered is in one place, a worker runs if and only if it has
a task, and the futures tell how far the caller is. A worker waits only if it
saw an empty queue, and from the moment the queue is not empty until
`notify_one` the caller stands at "notify": that is `NoLostWakeup`. Whatever the
order of the answers, what the caller has collected when it waits for future
`next` is what the earlier ones answered, in their order
(`OutFollowsCaller`): that is `ResultIsSequential`.

*The refinement.* A worker's answer is one of the abstract call because what it
runs is a task of the call under way, still awaited (`RunningIsAwaited`, from
`OnePlace` and `FuturesFollowCaller`); the last future collected is the return,
when all have answered, and `OutFollowsCaller` makes the result the list of the
valid ones. All other steps are hidden (`CallStutter`).

*No deadlock.* `NobodyWaitsInVain`: while a call or the destructor is under way,
the caller has a step to take, or a worker runs a task or is awake with a task to
take or the end to return from. A future that is awaited is queued or run
(`OnePlace`); if it is queued a worker does not wait (`NoLostWakeup`), nor has it
returned before the destructor (`StopInv`); and once the destructor has notified all
none waits any more. It is the safety part of `CallReturns` and `PoolIsJoined`,
for any number of workers. `enqueue` throws on a stopped pool; that it never
does is part of it.

`OptimizerNodeProofs`, for any goals: `OptimizerTypeCorrect`,
`SuccessIsDueHolds` (where a thread stands says what was found), and
`InterruptedByTheLatestHolds`, by `TimeoutInv`: the shared timeout is never over
before that of a goal, and is that of some goal, the one reset last, while it
is not over. Its first half alone is `NoGoalIsCutShortHolds`: no goal is
interrupted by the shared timeout before its own is over, however many overlap.
`GoalsEndOnceHolds` says that no goal handle is ended twice nor
canceled without a cancel, on which rclcpp_action (external) would throw.
`ImplementsOptimizeCallHolds` is the refinement for any goal: `ComputeLimits` begins
the call, a filter that returns answers its task, `CollectCandidates` is the return
(`CallOfThread`), and whatever other threads do is hidden (`HiddenFromCall`), so the
two plugins keep one promise. No run has it as a property: TLC does not take an
instance with a parameter, the goal.

`OptimizerInputProofs`, for all trajectories, limits and drives that satisfy
`InputAssumption` and `KinematicsAssumption`:

| theorem | argument |
|---|---|
| `AcceptedIsReadableHolds` | a goal under way passed the three tests, which with names that go with the points give every index the extraction reads |
| `DimensionsAgreeHolds` | `joint_limit`, the initial state and the way points all count `joint_names + 3` |
| `TurnsTheShortWayHolds` | a short way from each yaw to the next, by induction over the points of the recursive function `Yaws` |
| `BaseIsFastEnoughHolds` | see below |
| `SamplesCoverHolds` | while sampling, sample k is at k intervals and before the end; a duration of 0 leaves the last sample alone |
| `YawLimitIsSharpHolds` | the rates are an interval around what the wheels turn the body by, as wide as the axis' limit: a limit that was relaxed is the distance from 0 to its nearer end, whether 0 is inside or not (`RatesOfBody`, `YawLimitSharp`) |
| `AccelerationHeedsTheWheelsHolds` | assumes `BodyDoesNotTurn`: then nothing is added to the acceleration, whichever velocities the wheels are taken to have |

*As fast as the wheels allow.* `GenerateCandidates` tries points of the edge of what
two wheels can do and `Nearest` compares them by angle only; the property
compares the result with every combination of wheel speeds on the same grid,
inside the edge too, that moves the base in the direction it sets out in. In
the frame of the wheels such a combination is a share of each wheel's limit.
If a candidate lies in the direction, `Nearest` takes one that does, and two
that do are the same point as long as standing still is inside the edge:
so it is the fastest (`NearestIsFastest`). The turning of the body shifts the
accelerations by a drift, and inside the edge it stays if the wheels can counter
it (`DriftInFrame`). The invariant (`FastInv`) keeps the
limits of a goal under way to be those computed from the joint state read
for them. The theorem is for every drive, grid and direction.

### The client

`PlannerClientProofs`, for every client and topics that lose and delay messages:

| theorem | says |
|---|---|
| `ClientRunsTheNode` | `ClientSpec => Spec`: the client and its topics add no behaviour to the node's, so each theorem about the node holds in the composition |
| `ClientTypeCorrect` | `ClientSpec => []ClientTypeOK` |
| `WaitIsRightHolds` | `ClientSpec => []WaitIsRight` |
| `NoGoalIsEmptiedHolds` | `has_wait_complete => (ClientSpec => []NoGoalIsEmptied)` |

The invariant of `WaitIsRight` is `MessagesAreTruthful`: every verdict in the message on
the way and in the client's dictionary was published by the node, and what was
published stays published. It needs no bound on time.

`NoGoalIsEmptied` is the other side of the finding `lost_goal`: a client that
waits without a limit (`times_out` is false) for each goal before it sends the
next never meets it. `GoalByGoal` says why: all goals but the one awaited are completed
(`OneAtATime`); from the moment a goal is done until the next is installed the
loop thread is at no step that could clear `constraints_` (`QuietBetween`), for the
verdict a client waits for is written after the goal was removed
(node.cpp:222-227 in that order); so what is handled as an empty goal was sent as
one (`MeantToStop`). `has_wait_complete` is that the client waits at all.

### Only model-checked

Liveness and the fair refinement (temporal reasoning under fairness): `EveryGoalIsTaken`,
`NoGoalLeftUnanswered`, `ImplementsFairLifecycle`, `GoalsEnd`, `CallReturns`,
`PoolIsJoined`, `EveryGoalEnds`, `EveryWaitReturns`. Every invariant and every
safety action property of the passing runs is the subject of a theorem, some of
them under the assumptions in the tables above. `StalledHasStopped` is proved
nowhere as it stands: the theorem about its restriction is
`PlannedStallHasStoppedHolds`.

## 6. What is abstracted or left out

In `LocalPlannerNode` positions, displacements and times along trajectories,
which `TrajectoryFollowing` has for a robot on a line; norms and forward
kinematics; `DeleteTrajectoryFewPoints`; rounding; angles of the base that are
not quarter turns; transforms between frames (the callback goes on whatever they
yield); error codes of the status list; the order of its entries (no reader
uses it); parameters changed while the node runs, except that the optimizer's limits may be set between goals. The list is a function of
the id, which holds at most one entry of it, as the code's list does.

## 7. Plan

Done in the order: status list and node; `GoalLifecycle`; proofs of types, the
base and tracking; pool; action server; clients; input of the optimizer; the
displacement checker and executions in time; base kinematics; proofs of the
pool, the action server, the optimizer's input and of following; proofs of what
the node reports, of the refinement and of the client.
Then proofs of the pool's result, of the base's turns and speeds, of stalls and
types in time, and of a client that waits; then the conditions under which the
findings do not occur, the abstract `Optimize` call that both plugins refine, and
freedom from deadlock of the pool.

What could follow: parameters that change while the node runs, and angles of the base
between quarter turns.
