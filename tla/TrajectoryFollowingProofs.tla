--------------------- MODULE TrajectoryFollowingProofs ---------------------
(***************************************************************************)
(* Theorems about TrajectoryFollowing, for every geometry of goals, every  *)
(* choice of thresholds and timing, and every answer of the planner.       *)
(***************************************************************************)
EXTENDS TrajectoryFollowing, TLAPS

-----------------------------------------------------------------------------
(* The stall test and a goal that has not been judged. *)

(* A checker that has not judged its constraints remembers a distance no   *)
(* displacement within the range of the stall test can be close to.        *)
Unlooked ==
    ~looked => previous_joint_displacement_ = Far /\ previous_link_displacement_ = Far

(* What ShouldComplete leaves behind has been judged. *)
LEMMA JudgedIsLooked ==
    ASSUME NEW state, NEW complete, ShouldComplete(state, complete)
    PROVE  Unlooked'
BY DEF ShouldComplete, Unlooked

(* Nothing within the range of the stall test is as far as Far, so only a  *)
(* displacement within the threshold completes constraints that were not   *)
(* judged before.                                                          *)
LEMMA FirstLookIsReached ==
    ASSUME Unlooked, ~looked, NEW state, ShouldComplete(state, TRUE)
    PROVE  Reached(checked, state)
<1>1. PICK joint \in Displacement, link \in Displacement :
        /\ MinDisplacement(joint, checked.joints, state)
        /\ MinDisplacement(link, checked.links, state)
        /\ Judge(joint, link, TRUE)
  BY DEF ShouldComplete
<1>2. ~JointStalled(joint) /\ ~LinkStalled(link)
  BY CheckerAssumption DEF Unlooked, JointStalled, LinkStalled, Abs, Displacement
<1>3. JointReached(joint) \/ LinkReached(link)
  BY <1>1, <1>2 DEF Judge
<1>4. CASE JointReached(joint)
  <2>1. \E c \in checked.joints : joint = Abs(state - c)
    BY <1>1, <1>4 DEF JointReached, MinDisplacement
  <2> QED
    BY <2>1, <1>4 DEF JointReached, Reached
<1>5. CASE LinkReached(link)
  <2>1. \E c \in checked.links : link = Abs(state - c)
    BY <1>1, <1>5 DEF LinkReached, MinDisplacement
  <2> QED
    BY <2>1, <1>5 DEF LinkReached, Reached
<1> QED
  BY <1>3, <1>4, <1>5

LEMMA UnlookedStep == Unlooked /\ [Next]_vars => Unlooked'
<1> SUFFICES ASSUME Unlooked, [Next]_vars PROVE Unlooked'
  OBVIOUS
<1>1. CASE UNCHANGED vars
  BY <1>1 DEF vars, checker, previous, Unlooked
<1>2. ASSUME NEW constraints \in Goals, ReceiveGoal(constraints) PROVE Unlooked'
  BY <1>2 DEF ReceiveGoal, UpdateConstraints, ForgetPrevious, Unlooked
<1>3. ASSUME NEW complete, Take(complete) PROVE Unlooked'
  BY <1>3, JudgedIsLooked DEF Take
<1>4. CASE CompleteGoal \/ SkipPlanning \/ StartPlanning
  BY <1>4, <1>3 DEF CompleteGoal, SkipPlanning, StartPlanning
<1>5. CASE ExecuteEmpty
  BY <1>5 DEF ExecuteEmpty, checker, previous, Unlooked
<1>6. CASE \E p \in plan : PlanFails(p)
  BY <1>6 DEF PlanFails, checker, previous, Unlooked
<1>7. CASE PlanReturns
  BY <1>7 DEF PlanReturns, PlanSucceeds, checker, previous, Unlooked
<1>8. CASE Tick
  BY <1>8 DEF Tick, checker, previous, Unlooked
<1> QED
  BY <1>1, <1>2, <1>4, <1>5, <1>6, <1>7, <1>8 DEF Next, Loop

(* No goal is taken for stalled the first time it is judged: 1.0e10 is far *)
(* enough (utils.cpp:143), because no callback replaces the constraints    *)
(* without it.                                                             *)
THEOREM FirstLookNeverStallsHolds == Spec => FirstLookNeverStalls
<1>1. Init => Unlooked
  BY DEF Init, CheckerInit, Unlooked
<1>2. Unlooked /\ [Next]_vars
      => [CompleteGoal /\ ~looked => Reached(checked, RefState)]_vars
  <2> SUFFICES ASSUME Unlooked, CompleteGoal, ~looked
               PROVE  Reached(checked, RefState)
    OBVIOUS
  <2> QED
    BY FirstLookIsReached DEF CompleteGoal, Take
<1> QED
  BY <1>1, <1>2, UnlookedStep, PTL DEF Spec, FirstLookNeverStalls

-----------------------------------------------------------------------------
(* The robot and its trajectory. *)

Stamp == {s \in Int : s <= kConnectPoint}
TrajectoryInt == [stamp : Stamp, first : Int, last : Int]
PlanInt == [goal : Goals, initial : Int, stamp : Stamp, changed : BOOLEAN,
            previous : SUBSET Int]

FollowingType ==
    /\ goal \in SUBSET Goals
    /\ changed \in BOOLEAN
    /\ course \in [Horizon -> Int]
    /\ current_trajectory_ \in SUBSET TrajectoryInt
    /\ plan \in SUBSET PlanInt

(* The robot will be where its trajectory says, as far as it was sent.     *)
OnCourse(trajectory) ==
    \A t \in Horizon :
        t >= 1 /\ trajectory.stamp <= t /\ t <= trajectory.stamp + Published
        => course[t] = StateAt(trajectory, t)

OnCurrent == \A trajectory \in current_trajectory_ : OnCourse(trajectory)

FollowingInv == FollowingType /\ OnCurrent /\ ConnectsToCourse

LEMMA Bounds ==
    /\ Position \subseteq Int
    /\ kConnectPoint \in Nat \ {0}
    /\ Published \in Nat
    /\ Horizon = 0 .. kConnectPoint + Published
    /\ 0 \in Horizon /\ kConnectPoint \in Horizon
<1>1. Published \in Nat
  BY FollowingAssumption DEF Published
<1> QED
  BY <1>1, CheckerAssumption, FollowingAssumption DEF Horizon, Displacement

LEMMA StateIsInt ==
    ASSUME NEW trajectory \in TrajectoryInt, NEW t \in Int
    PROVE  StateAt(trajectory, t) \in Int
BY DEF StateAt, EndTime, Length, Abs, TrajectoryInt, Stamp

(* A tick later, a trajectory says the same of the same point in time.     *)
LEMMA LaterState ==
    ASSUME NEW trajectory \in TrajectoryInt, NEW t \in Int
    PROVE  StateAt([trajectory EXCEPT !.stamp = @ - 1], t) = StateAt(trajectory, t + 1)
<1> DEFINE later == [trajectory EXCEPT !.stamp = @ - 1]
<1>1. /\ later.stamp = trajectory.stamp - 1
      /\ later.first = trajectory.first
      /\ later.last = trajectory.last
  BY DEF TrajectoryInt
<1>2. /\ trajectory.stamp \in Int /\ trajectory.first \in Int /\ trajectory.last \in Int
  BY DEF TrajectoryInt, Stamp
<1> HIDE DEF later
<1>3. StateAt(later, t) = StateAt(trajectory, t + 1)
  BY <1>1, <1>2 DEF StateAt, EndTime, Length, Abs
<1> QED
  BY <1>3 DEF later

LEMMA FollowingInit == Init => FollowingInv
BY Bounds, FollowingAssumption
DEF Init, FollowingInv, FollowingType, OnCurrent, ConnectsToCourse

(* What ConnectsToCourse, the trajectory and the plan are not disturbed by.*)
LEMMA FollowingSame ==
    ASSUME FollowingInv, UNCHANGED <<current_trajectory_, course, plan>>,
           goal' \in SUBSET Goals, changed' \in BOOLEAN
    PROVE  FollowingInv'
<1>1. FollowingType'
  BY DEF FollowingInv, FollowingType
<1>2. OnCurrent'
  BY DEF FollowingInv, OnCurrent, OnCourse, StateAt, EndTime, Length
<1>3. ConnectsToCourse'
  BY DEF FollowingInv, ConnectsToCourse, Sent
<1> QED
  BY <1>1, <1>2, <1>3 DEF FollowingInv

LEMMA InitialIsInt ==
    ASSUME FollowingType
    PROVE  InitialState \in Int
<1>1. course[0] \in Int
  BY Bounds DEF FollowingType
<1>2. CASE Connectable
  <2>1. (CHOOSE t \in current_trajectory_ : TRUE) \in current_trajectory_
    BY <1>2 DEF Connectable
  <2>2. (CHOOSE t \in current_trajectory_ : TRUE) \in TrajectoryInt
    BY <2>1 DEF FollowingType
  <2> QED
    BY <1>2, <2>2, StateIsInt, Bounds DEF InitialState, target_time
<1>3. CASE ~Connectable
  BY <1>1, <1>3 DEF InitialState, JointState
<1> QED
  BY <1>2, <1>3

(* Planning that starts from the trajectory starts where the robot will be.*)
LEMMA InitialOnCourse ==
    ASSUME FollowingType, OnCurrent, Connectable, Sent(target_time)
    PROVE  InitialState = course[target_time]
<1> DEFINE trajectory == CHOOSE t \in current_trajectory_ : TRUE
<1>1. trajectory \in current_trajectory_
  BY DEF Connectable
<1>2. trajectory \in TrajectoryInt /\ OnCourse(trajectory)
  BY <1>1 DEF FollowingType, OnCurrent
<1>3. /\ target_time \in Horizon /\ target_time >= 1
      /\ trajectory.stamp <= target_time
  BY <1>2, Bounds DEF target_time, TrajectoryInt, Stamp
<1>4. target_time <= trajectory.stamp + Published
  BY <1>1 DEF Sent
<1>5. course[target_time] = StateAt(trajectory, target_time)
  BY <1>2, <1>3, <1>4 DEF OnCourse
<1> QED
  BY <1>5 DEF InitialState

LEMMA FollowingStart ==
    ASSUME FollowingInv, StartPlanning
    PROVE  FollowingInv'
<1> DEFINE planned(g) == [goal |-> g, initial |-> InitialState, stamp |-> target_time,
                          changed |-> changed, previous |-> GetPreviousTrajectory]
<1>1. /\ UNCHANGED <<current_trajectory_, course, goal>>
      /\ changed' = FALSE
      /\ plan' = {planned(g) : g \in goal}
      /\ current_trajectory_ = {} \/ Connectable
  BY DEF StartPlanning, Take
<1>2. FollowingType'
  <2>1. GetPreviousTrajectory \in SUBSET Int
    BY DEF FollowingInv, FollowingType, GetPreviousTrajectory, TrajectoryInt
  <2>2. target_time \in Stamp
    BY Bounds DEF target_time, Stamp
  <2>3. \A g \in goal : planned(g) \in PlanInt
    BY <2>1, <2>2, InitialIsInt DEF PlanInt, FollowingInv, FollowingType
  <2> QED
    BY <1>1, <2>3 DEF FollowingInv, FollowingType
<1>3. OnCurrent'
  BY <1>1 DEF FollowingInv, OnCurrent, OnCourse, StateAt, EndTime, Length
<1>4. ConnectsToCourse'
  <2> SUFFICES ASSUME NEW p \in plan', current_trajectory_ # {},
                      \A t \in current_trajectory_ : p.stamp <= t.stamp + Published
               PROVE  p.initial = course[p.stamp]
    BY <1>1 DEF ConnectsToCourse, Sent
  <2>1. p.initial = InitialState /\ p.stamp = target_time
    BY <1>1
  <2> QED
    BY <1>1, <2>1, InitialOnCourse DEF FollowingInv, Sent
<1> QED
  BY <1>2, <1>3, <1>4 DEF FollowingInv

LEMMA FollowingPlanned ==
    ASSUME FollowingInv, NEW p \in plan, NEW last \in Position, PlanSucceeds(p, last)
    PROVE  FollowingInv'
<1> DEFINE trajectory == [stamp |-> p.stamp, first |-> p.initial, last |-> last]
<1>1. /\ current_trajectory_' = {trajectory}
      /\ course' = Commanded(trajectory)
      /\ plan' = {}
      /\ UNCHANGED <<goal, changed>>
  BY DEF PlanSucceeds
<1>2. trajectory \in TrajectoryInt
  BY Bounds DEF FollowingInv, FollowingType, PlanInt, TrajectoryInt
<1>3. FollowingType'
  <2>1. trajectory.stamp + Published \in Int
    BY <1>2, Bounds DEF TrajectoryInt, Stamp
  <2>2. \A t \in Horizon : t \in Int /\ course[t] \in Int
    BY Bounds DEF FollowingInv, FollowingType
  <2> HIDE DEF trajectory
  <2>3. Commanded(trajectory) \in [Horizon -> Int]
    BY <1>2, <2>1, <2>2, StateIsInt DEF Commanded
  <2> QED
    BY <1>1, <1>2, <2>3 DEF FollowingInv, FollowingType
<1>4. OnCurrent'
  <2> HIDE DEF trajectory
  <2>0. trajectory.stamp \in Int /\ Published \in Int /\ Horizon \subseteq Int
    BY <1>2, Bounds DEF TrajectoryInt, Stamp
  <2>1. ASSUME NEW t \in Horizon, t >= 1, trajectory.stamp <= t,
               t <= trajectory.stamp + Published
        PROVE  course'[t] = StateAt(trajectory, t)
    <3>1. t \in Int /\ t # 0 /\ ~(t < trajectory.stamp) /\ ~(t > trajectory.stamp + Published)
      BY <2>0, <2>1
    <3> QED
      BY <1>1, <3>1 DEF Commanded
  <2> QED
    BY <1>1, <2>1 DEF OnCurrent, OnCourse, StateAt, EndTime, Length
<1>5. ConnectsToCourse'
  BY <1>1 DEF ConnectsToCourse
<1> QED
  BY <1>3, <1>4, <1>5 DEF FollowingInv

LEMMA FollowingTick ==
    ASSUME FollowingInv, Tick
    PROVE  FollowingInv'
<1>1. /\ course' = [t \in Horizon |-> IF t + 1 \in Horizon THEN course[t + 1] ELSE course[t]]
      /\ current_trajectory_' = {[r EXCEPT !.stamp = @ - 1] : r \in current_trajectory_}
      /\ plan' = {[r EXCEPT !.stamp = @ - 1] : r \in plan}
      /\ UNCHANGED <<goal, changed>>
  BY DEF Tick, Later
<1>2. ASSUME NEW r \in TrajectoryInt
      PROVE  /\ [r EXCEPT !.stamp = @ - 1] \in TrajectoryInt
             /\ [r EXCEPT !.stamp = @ - 1].stamp = r.stamp - 1
  BY Bounds DEF TrajectoryInt, Stamp
<1>3. ASSUME NEW r \in PlanInt
      PROVE  /\ [r EXCEPT !.stamp = @ - 1] \in PlanInt
             /\ [r EXCEPT !.stamp = @ - 1].stamp = r.stamp - 1
             /\ [r EXCEPT !.stamp = @ - 1].initial = r.initial
  BY Bounds DEF PlanInt, Stamp
<1>4. FollowingType'
  BY <1>1, <1>2, <1>3 DEF FollowingInv, FollowingType
<1>5. OnCurrent'
  <2> SUFFICES ASSUME NEW later \in current_trajectory_', NEW t \in Horizon,
                      t >= 1, later.stamp <= t, t <= later.stamp + Published
               PROVE  course'[t] = StateAt(later, t)
    BY DEF OnCurrent, OnCourse, StateAt, EndTime, Length
  <2>1. PICK r \in current_trajectory_ : later = [r EXCEPT !.stamp = @ - 1]
    BY <1>1
  <2>2. r \in TrajectoryInt /\ r.stamp \in Int /\ r.stamp <= kConnectPoint
    BY DEF FollowingInv, FollowingType, TrajectoryInt, Stamp
  <2>3. later.stamp = r.stamp - 1
    BY <1>2, <2>1, <2>2
  <2>4. t \in Int /\ t + 1 \in Horizon /\ t + 1 >= 1
        /\ r.stamp <= t + 1 /\ t + 1 <= r.stamp + Published
    BY <2>2, <2>3, Bounds
  <2>5. course[t + 1] = StateAt(r, t + 1)
    BY <2>4 DEF FollowingInv, OnCurrent, OnCourse
  <2>6. StateAt(later, t) = StateAt(r, t + 1)
    BY <2>1, <2>2, <2>4, LaterState
  <2> QED
    BY <1>1, <2>4, <2>5, <2>6
<1>6. ConnectsToCourse'
  <2> SUFFICES ASSUME NEW later \in plan', current_trajectory_' # {}, later.stamp >= 0,
                      \A r \in current_trajectory_' : later.stamp <= r.stamp + Published
               PROVE  later.initial = course'[later.stamp]
    BY DEF ConnectsToCourse, Sent
  <2>1. PICK p \in plan : later = [p EXCEPT !.stamp = @ - 1]
    BY <1>1
  <2>2. p \in PlanInt /\ p.stamp \in Int /\ p.stamp <= kConnectPoint
    BY DEF FollowingInv, FollowingType, PlanInt, Stamp
  <2>3. later.stamp = p.stamp - 1 /\ later.initial = p.initial
    BY <1>3, <2>1, <2>2
  <2>4. ASSUME NEW r \in current_trajectory_
        PROVE  p.stamp <= r.stamp + Published
    <3>1. r \in TrajectoryInt /\ r.stamp \in Int
      BY DEF FollowingInv, FollowingType, TrajectoryInt, Stamp
    <3>2. [r EXCEPT !.stamp = @ - 1] \in current_trajectory_'
      BY <1>1
    <3>3. later.stamp <= [r EXCEPT !.stamp = @ - 1].stamp + Published
      BY <3>2
    <3> QED
      BY <1>2, <2>2, <2>3, <3>1, <3>3, Bounds
  <2>5. current_trajectory_ # {} /\ Sent(p.stamp) /\ p.stamp >= 0
    BY <1>1, <2>2, <2>3, <2>4 DEF Sent
  <2>6. p.initial = course[p.stamp]
    BY <2>5 DEF FollowingInv, ConnectsToCourse
  <2>7. /\ later.stamp \in Horizon /\ later.stamp + 1 \in Horizon
        /\ later.stamp + 1 = p.stamp
    BY <2>2, <2>3, Bounds
  <2> QED
    BY <1>1, <2>3, <2>6, <2>7
<1> QED
  BY <1>4, <1>5, <1>6 DEF FollowingInv

LEMMA FollowingStep == FollowingInv /\ [Next]_vars => FollowingInv'
<1> SUFFICES ASSUME FollowingInv, [Next]_vars PROVE FollowingInv'
  OBVIOUS
<1> USE DEF FollowingType
<1>1. CASE UNCHANGED vars
  BY <1>1, FollowingSame DEF vars, FollowingInv
<1>2. ASSUME NEW constraints \in Goals, ReceiveGoal(constraints) PROVE FollowingInv'
  BY <1>2, FollowingSame DEF ReceiveGoal
<1>3. CASE ExecuteEmpty
  BY <1>3, FollowingSame DEF ExecuteEmpty, FollowingInv
<1>4. CASE CompleteGoal \/ SkipPlanning
  <2>1. /\ current_trajectory_' = {} /\ UNCHANGED <<course, plan>>
        /\ changed' = FALSE /\ goal' \in SUBSET Goals
    BY <1>4 DEF CompleteGoal, SkipPlanning, Take, FollowingInv
  <2> QED
    BY <2>1 DEF FollowingInv, OnCurrent, ConnectsToCourse
<1>5. CASE StartPlanning
  BY <1>5, FollowingStart
<1>6. ASSUME NEW p \in plan, PlanFails(p) PROVE FollowingInv'
  BY <1>6 DEF PlanFails, FollowingInv, PlanInt, OnCurrent, OnCourse, ConnectsToCourse,
              StateAt, EndTime, Length
<1>7. CASE PlanReturns
  BY <1>7, FollowingPlanned DEF PlanReturns
<1>8. CASE Tick
  BY <1>8, FollowingTick
<1> QED
  BY <1>1, <1>2, <1>3, <1>4, <1>5, <1>6, <1>7, <1>8 DEF Next, Loop

(* What is commanded after a trajectory that can be connected to begins    *)
(* where the robot is by then, for every period, however long planning     *)
(* takes and whatever was sent of the trajectory.                          *)
THEOREM ConnectsToCourseHolds == Spec => []ConnectsToCourse
<1>1. FollowingInv => ConnectsToCourse
  BY DEF FollowingInv
<1> QED
  BY <1>1, FollowingInit, FollowingStep, PTL DEF Spec

-----------------------------------------------------------------------------
(* Types: positions are where the robot can be, and times stay bounded.    *)

(* A trajectory that is kept at an execution ends after it, so that it is  *)
(* no older than it is long; without a goal there is none.                 *)
AgesInv ==
    /\ goal = {} => current_trajectory_ = {} /\ plan = {}
    /\ \A r, s \in current_trajectory_ : r = s
    /\ \A r \in current_trajectory_ : r.stamp >= due - Far
    /\ \A p \in plan : p.stamp >= due

TypeInv == TypeOK /\ AgesInv

LEMMA TypeBounds ==
    /\ Position \subseteq Int /\ \A p \in Position : 0 <= p /\ p <= Far
    /\ \A p, q \in Position : Abs(q - p) \in Nat /\ Abs(q - p) <= Far
    /\ Far \in Nat /\ kConnectPoint \in Nat \ {0} /\ MaxDelay \in Nat /\ MaxDelay < kConnectPoint
    /\ Published \in Nat /\ kConnectPoint <= Published
    /\ Horizon = 0 .. kConnectPoint + Published
<1>1. Far \in Nat /\ Position \subseteq 0 .. Far
  BY CheckerAssumption DEF Displacement
<1>2. \A p, q \in Position : Abs(q - p) \in Nat /\ Abs(q - p) <= Far
  BY <1>1 DEF Abs
<1>3. kConnectPoint \in Nat \ {0} /\ MaxDelay \in Nat /\ MaxDelay < kConnectPoint
  BY FollowingAssumption
<1>4. ASSUME NEW k \in Nat, NEW n \in Nat \ {0} PROVE k * n \in Nat /\ k <= k * n
  OBVIOUS
<1>5. Published \in Nat /\ kConnectPoint <= Published
  BY <1>3, <1>4, FollowingAssumption DEF Published
<1> QED
  BY <1>1, <1>2, <1>3, <1>5 DEF Horizon

LEMMA StateIsPosition ==
    ASSUME NEW r, r.stamp \in Int, r.first \in Position, r.last \in Position, NEW t \in Int
    PROVE  StateAt(r, t) \in Position
<1>1. r.first \in Int /\ r.last \in Int
  BY TypeBounds
<1>2. \/ r.first <= r.last /\ StateAt(r, t) \in r.first .. r.last
      \/ r.last <= r.first /\ StateAt(r, t) \in r.last .. r.first
  BY <1>1 DEF StateAt, EndTime, Length, Abs
<1> QED
  BY <1>2, FollowingAssumption

LEMMA FarIsDisplacement == Far \in Displacement
BY CheckerAssumption DEF Displacement

LEMMA CheckerType ==
    ASSUME CheckerTypeOK, NEW state, NEW complete, ShouldComplete(state, complete)
    PROVE  CheckerTypeOK'
BY DEF CheckerTypeOK, ShouldComplete, Judge, Stored

LEMMA TypeInit == Init => TypeInv
<1> SUFFICES ASSUME Init PROVE TypeInv
  OBVIOUS
<1>1. CheckerTypeOK
  <2>1. NoConstraints \in Constraints
    BY DEF NoConstraints, Constraints
  <2> QED
    BY <2>1, FarIsDisplacement DEF Init, CheckerInit, CheckerTypeOK
<1>2. course \in [Horizon -> Position]
  BY FollowingAssumption DEF Init
<1>3. /\ goal = {} /\ changed = FALSE /\ current_trajectory_ = {} /\ plan = {} /\ due = 0
      /\ use_current_state_for_displacement_ \in BOOLEAN
  BY DEF Init
<1>4. due \in -MaxDelay .. kConnectPoint
  BY <1>3, TypeBounds
<1>5. TypeOK
  BY <1>1, <1>2, <1>3, <1>4 DEF TypeOK
<1> QED
  BY <1>3, <1>5 DEF TypeInv, AgesInv

(* An execution is due a period after the one before it. *)
LEMMA DueNext ==
    ASSUME TypeOK, due <= 0, due' = due + kConnectPoint
    PROVE  due' \in -MaxDelay .. kConnectPoint /\ due' \in Int /\ due' <= kConnectPoint
BY TypeBounds DEF TypeOK

LEMMA TypeStart ==
    ASSUME TypeInv, StartPlanning
    PROVE  TypeInv'
<1>1. /\ UNCHANGED <<use_current_state_for_displacement_, current_trajectory_, course, goal>>
      /\ changed' = FALSE /\ goal # {}
      /\ due <= 0 /\ due' = due + kConnectPoint
      /\ plan' = {[goal |-> g, initial |-> InitialState, stamp |-> target_time,
                   changed |-> changed, previous |-> GetPreviousTrajectory] : g \in goal}
      /\ current_trajectory_ = {} \/ Connectable
  BY DEF StartPlanning, Take
<1>2. CheckerTypeOK'
  BY CheckerType DEF StartPlanning, Take, TypeInv, TypeOK
<1>3. due' \in -MaxDelay .. kConnectPoint /\ due' \in Int /\ due' <= kConnectPoint
  BY <1>1, DueNext DEF TypeInv
<1>4. ASSUME NEW r \in current_trajectory_
      PROVE  /\ r.stamp \in Int /\ r.first \in Position /\ r.last \in Position
             /\ r.stamp >= kConnectPoint - Far
  <2>1. r \in Trajectory
    BY DEF TypeInv, TypeOK
  <2>2. r.stamp \in Int /\ r.first \in Position /\ r.last \in Position
    BY <2>1, TypeBounds DEF Trajectory, Time
  <2>3. EndTime(r) >= kConnectPoint
    BY <1>1 DEF Connectable, TypeInv, AgesInv, target_time
  <2>4. Length(r) \in Nat /\ Length(r) <= Far
    BY <2>2, TypeBounds DEF Length
  <2> QED
    BY <2>2, <2>3, <2>4, TypeBounds DEF EndTime
<1>5. InitialState \in Position
  <2>1. CASE Connectable
    <3>1. (CHOOSE t \in current_trajectory_ : TRUE) \in current_trajectory_
      BY <2>1 DEF Connectable
    <3> QED
      BY <1>4, <2>1, <3>1, StateIsPosition, TypeBounds DEF InitialState, target_time
  <2>2. CASE ~Connectable
    BY <2>2, TypeBounds DEF InitialState, JointState, TypeInv, TypeOK
  <2> QED
    BY <2>1, <2>2
<1>6. GetPreviousTrajectory \in SUBSET Position
  BY <1>4 DEF GetPreviousTrajectory
<1>7. target_time \in Time /\ target_time \in Int
  BY TypeBounds DEF target_time, Time
<1>8. plan' \in SUBSET Plan /\ \A p \in plan' : p.stamp = kConnectPoint
  BY <1>1, <1>5, <1>6, <1>7 DEF Plan, TypeInv, TypeOK, target_time
<1>9. TypeOK'
  BY <1>1, <1>2, <1>3, <1>8 DEF TypeInv, TypeOK
<1>10. \A r \in current_trajectory_' : r.stamp >= due' - Far
  BY <1>1, <1>3, <1>4, TypeBounds
<1>11. \A p \in plan' : p.stamp >= due'
  BY <1>3, <1>8, TypeBounds
<1>12. AgesInv'
  BY <1>1, <1>10, <1>11 DEF TypeInv, AgesInv
<1> QED
  BY <1>9, <1>12 DEF TypeInv

LEMMA TypePlanned ==
    ASSUME TypeInv, NEW p \in plan, NEW last \in Position, PlanSucceeds(p, last)
    PROVE  TypeInv'
<1> DEFINE r == [stamp |-> p.stamp, first |-> p.initial, last |-> last]
<1>1. /\ current_trajectory_' = {r} /\ course' = Commanded(r) /\ plan' = {}
      /\ UNCHANGED <<checker, use_current_state_for_displacement_, goal, changed, due>>
  BY DEF PlanSucceeds
<1>2. p \in Plan /\ p.stamp >= due /\ goal # {}
  BY DEF TypeInv, TypeOK, AgesInv
<1>3. r \in Trajectory /\ r.stamp \in Int /\ r.first \in Position /\ r.last \in Position
  BY <1>2, TypeBounds DEF Plan, Trajectory, Time
<1>4. r.stamp >= due - Far
  BY <1>2, <1>3, TypeBounds DEF TypeInv, TypeOK
<1> HIDE DEF r
<1>5. Commanded(r) \in [Horizon -> Position]
  <2>1. \A t \in Horizon : StateAt(r, t) \in Position
    BY <1>3, StateIsPosition, TypeBounds
  <2>2. StateAt(r, r.stamp + Published) \in Position
    BY <1>3, StateIsPosition, TypeBounds
  <2>3. \A t \in Horizon : course[t] \in Position
    BY DEF TypeInv, TypeOK
  <2> QED
    BY <2>1, <2>2, <2>3 DEF Commanded
<1>6. TypeOK'
  BY <1>1, <1>3, <1>5 DEF TypeInv, TypeOK, CheckerTypeOK, checker, previous
<1>7. AgesInv'
  BY <1>1, <1>2, <1>4 DEF TypeInv, AgesInv
<1> QED
  BY <1>6, <1>7 DEF TypeInv

LEMMA TypeTick ==
    ASSUME TypeInv, Tick
    PROVE  TypeInv'
<1>1. /\ course' = [t \in Horizon |-> IF t + 1 \in Horizon THEN course[t + 1] ELSE course[t]]
      /\ current_trajectory_' = {[r EXCEPT !.stamp = @ - 1] : r \in current_trajectory_}
      /\ plan' = {[r EXCEPT !.stamp = @ - 1] : r \in plan}
      /\ due' = due - 1
      /\ IF plan = {} THEN due > 0 ELSE due > -MaxDelay
      /\ UNCHANGED <<checker, use_current_state_for_displacement_, goal, changed>>
  BY DEF Tick, Later
<1>2. due' \in -MaxDelay .. kConnectPoint /\ due' \in Int /\ due \in Int /\ due' >= -MaxDelay
  BY <1>1, TypeBounds DEF TypeInv, TypeOK
<1>3. ASSUME NEW r \in current_trajectory_
      PROVE  /\ [r EXCEPT !.stamp = @ - 1] \in Trajectory
             /\ [r EXCEPT !.stamp = @ - 1].stamp >= due' - Far
  <2>1. r \in Trajectory /\ r.stamp \in Int /\ r.stamp <= kConnectPoint /\ r.stamp >= due - Far
    BY TypeBounds DEF TypeInv, TypeOK, AgesInv, Trajectory, Time
  <2>2. r.stamp - 1 \in Time /\ r.stamp - 1 >= due' - Far
    BY <1>1, <1>2, <2>1, TypeBounds DEF Time
  <2> QED
    BY <2>1, <2>2 DEF Trajectory
<1>4. ASSUME NEW p \in plan
      PROVE  /\ [p EXCEPT !.stamp = @ - 1] \in Plan
             /\ [p EXCEPT !.stamp = @ - 1].stamp >= due'
  <2>1. p \in Plan /\ p.stamp \in Int /\ p.stamp <= kConnectPoint /\ p.stamp >= due
    BY TypeBounds DEF TypeInv, TypeOK, AgesInv, Plan, Time
  <2>2. p.stamp - 1 \in Time /\ p.stamp - 1 >= due'
    BY <1>1, <1>2, <2>1, TypeBounds DEF Time
  <2> QED
    BY <2>1, <2>2 DEF Plan
<1>5. course' \in [Horizon -> Position]
  BY <1>1 DEF TypeInv, TypeOK
<1>6. TypeOK'
  BY <1>1, <1>2, <1>3, <1>4, <1>5 DEF TypeInv, TypeOK, CheckerTypeOK, checker, previous
<1>7. AgesInv'
  BY <1>1, <1>3, <1>4 DEF TypeInv, AgesInv
<1> QED
  BY <1>6, <1>7 DEF TypeInv

LEMMA TypeStep == TypeInv /\ [Next]_vars => TypeInv'
<1> SUFFICES ASSUME TypeInv, [Next]_vars PROVE TypeInv'
  OBVIOUS
<1>1. CASE UNCHANGED vars
  BY <1>1 DEF vars, checker, previous, TypeInv, TypeOK, CheckerTypeOK, AgesInv
<1>2. ASSUME NEW constraints \in Goals, ReceiveGoal(constraints) PROVE TypeInv'
  <2>1. CheckerTypeOK'
    <3>1. constraints \in Constraints
      BY FollowingAssumption
    <3> QED
      BY <1>2, <3>1, FarIsDisplacement DEF ReceiveGoal, UpdateConstraints, ForgetPrevious, CheckerTypeOK
  <2> QED
    BY <1>2, <2>1 DEF ReceiveGoal, TypeInv, TypeOK, AgesInv
<1>3. CASE ExecuteEmpty
  <2>1. due' \in -MaxDelay .. kConnectPoint
    BY <1>3, DueNext DEF ExecuteEmpty, TypeInv
  <2> QED
    BY <1>3, <2>1 DEF ExecuteEmpty, TypeInv, TypeOK, CheckerTypeOK, checker, previous, AgesInv
<1>4. CASE CompleteGoal \/ SkipPlanning
  <2>1. /\ current_trajectory_' = {} /\ plan' = {} /\ changed' = FALSE
        /\ goal' \in SUBSET Goals
        /\ UNCHANGED <<use_current_state_for_displacement_, course>>
    BY <1>4 DEF CompleteGoal, SkipPlanning, Take, TypeInv, TypeOK
  <2>2. CheckerTypeOK'
    BY <1>4, CheckerType DEF CompleteGoal, SkipPlanning, Take, TypeInv, TypeOK
  <2>3. due' \in -MaxDelay .. kConnectPoint
    BY <1>4, DueNext DEF CompleteGoal, SkipPlanning, Take, TypeInv
  <2> QED
    BY <2>1, <2>2, <2>3 DEF TypeInv, TypeOK, AgesInv
<1>5. CASE StartPlanning
  BY <1>5, TypeStart
<1>6. ASSUME NEW p \in plan, PlanFails(p) PROVE TypeInv'
  <2>1. p.changed \in BOOLEAN
    BY DEF TypeInv, TypeOK, Plan
  <2>2. /\ changed' = (changed \/ p.changed) /\ plan' = {}
        /\ UNCHANGED <<checker, use_current_state_for_displacement_, goal>>
        /\ UNCHANGED <<current_trajectory_, course, due>>
    BY <1>6 DEF PlanFails
  <2>3. changed' \in BOOLEAN
    BY <2>1, <2>2 DEF TypeInv, TypeOK
  <2> QED
    BY <2>2, <2>3 DEF TypeInv, TypeOK, CheckerTypeOK, checker, previous, AgesInv
<1>7. CASE PlanReturns
  BY <1>7, TypePlanned DEF PlanReturns
<1>8. CASE Tick
  BY <1>8, TypeTick
<1> QED
  BY <1>1, <1>2, <1>3, <1>4, <1>5, <1>6, <1>7, <1>8 DEF Next, Loop

(* The robot is commanded to positions between those it is at and goes to, *)
(* and the trajectory that is followed never becomes older than it is long *)
(* by more than a period and the delay of planning: SearchConnectablePoint *)
(* drops it.                                                               *)
THEOREM TypeOKHolds == Spec => []TypeOK
<1>1. TypeInv => TypeOK
  BY DEF TypeInv
<1> QED
  BY <1>1, TypeInit, TypeStep, PTL DEF Spec

-----------------------------------------------------------------------------
(* A stall that is judged by the plan.                                     *)

(* What the robot does of a trajectory: all of it that was sent.           *)
Until(r, t) == IF t <= r.stamp + Published THEN t ELSE r.stamp + Published
Played(r, t) == StateAt(r, Until(r, t))

(* The last trajectory that was planned. It leads the robot even when the  *)
(* node has forgotten it.                                                  *)
LineOf(r) ==
    /\ current_trajectory_ \subseteq {r}
    /\ \A t \in Horizon : t >= 1 /\ t >= r.stamp => course[t] = Played(r, t)
    /\ r.stamp <= due + MaxDelay
    /\ current_trajectory_ = {} =>
          /\ r.stamp <= due - kConnectPoint + MaxDelay
          /\ due <= 0 => course[0] = Played(r, 0)

(* The goal was judged e ticks ago by a state of the robot on its way; what*)
(* is planned sets out from there.                                         *)
JudgedFrom(r, state, e) ==
    /\ kConnectPoint - MaxDelay - due <= e /\ e <= kConnectPoint - due
    /\ current_trajectory_ # {} =>
          r.stamp <= kConnectPoint - e /\ state = StateAt(r, kConnectPoint - e)
    /\ current_trajectory_ = {} =>
          \/ r.stamp + e <= 0 /\ state = Played(r, 0 - e)
          \/ EndTime(r) <= kConnectPoint
    /\ \A p \in plan : p.stamp = kConnectPoint - e /\ p.initial = state

(* It was not near enough then, and its distance is remembered.            *)
Missed(state) ==
    \E p \in Position :
        \/ /\ checked.joints = {p} /\ checked.links = {}
           /\ previous_joint_displacement_ = Abs(state - p)
           /\ previous_joint_displacement_ >= joint_displacement_threshold_
        \/ /\ checked.joints = {} /\ checked.links = {p}
           /\ previous_link_displacement_ = Abs(state - p)
           /\ previous_link_displacement_ >= link_displacement_threshold_

Judging == goal # {} /\ looked /\ ~use_current_state_for_displacement_ /\ SingleConstraint

JudgedOn(r) == Judging => \E state \in Int, e \in Int : Missed(state) /\ JudgedFrom(r, state, e)

CourseInv ==
    /\ \A p \in plan : p.stamp <= due + MaxDelay
    /\ \E r \in TrajectoryInt : LineOf(r) /\ JudgedOn(r)

LEMMA FieldsOfTrajectory ==
    ASSUME NEW r \in TrajectoryInt
    PROVE  /\ r.stamp \in Int /\ r.stamp <= kConnectPoint /\ r.first \in Int /\ r.last \in Int
           /\ Length(r) \in Nat /\ EndTime(r) \in Int /\ EndTime(r) >= r.stamp
           /\ \A t \in Int : Until(r, t) \in Int /\ StateAt(r, t) \in Int /\ Played(r, t) \in Int
<1>1. r.stamp \in Int /\ r.stamp <= kConnectPoint /\ r.first \in Int /\ r.last \in Int
  BY DEF TrajectoryInt, Stamp
<1>2. Length(r) \in Nat
  BY <1>1 DEF Length, Abs
<1>3. EndTime(r) \in Int /\ EndTime(r) >= r.stamp
  BY <1>1, <1>2 DEF EndTime
<1>4. \A t \in Int : StateAt(r, t) \in Int
  BY StateIsInt
<1>5. \A t \in Int : Until(r, t) \in Int
  BY <1>1, Bounds DEF Until
<1> QED
  BY <1>1, <1>2, <1>3, <1>4, <1>5 DEF Played

LEMMA LaterPlayed ==
    ASSUME NEW r \in TrajectoryInt, NEW later, later = [r EXCEPT !.stamp = @ - 1]
    PROVE  /\ later \in TrajectoryInt /\ later.stamp = r.stamp - 1
           /\ EndTime(later) = EndTime(r) - 1
           /\ \A t \in Int : /\ StateAt(later, t) = StateAt(r, t + 1)
                             /\ Played(later, t) = Played(r, t + 1)
<1>1. r.stamp \in Int /\ r.stamp <= kConnectPoint /\ Length(r) \in Nat /\ Published \in Nat
  BY FieldsOfTrajectory, Bounds
<1>2. later.stamp = r.stamp - 1 /\ later.first = r.first /\ later.last = r.last
  BY DEF TrajectoryInt
<1>3. later \in TrajectoryInt
  BY <1>1, Bounds DEF TrajectoryInt, Stamp
<1>4. EndTime(later) = EndTime(r) - 1
  BY <1>1, <1>2 DEF EndTime, Length
<1>5. \A t \in Int : StateAt(later, t) = StateAt(r, t + 1)
  BY LaterState
<1>6. ASSUME NEW t \in Int PROVE Played(later, t) = Played(r, t + 1)
  <2>1. Until(later, t) \in Int /\ Until(later, t) + 1 = Until(r, t + 1)
    BY <1>1, <1>2 DEF Until
  <2> QED
    BY <1>5, <2>1 DEF Played
<1> QED
  BY <1>2, <1>3, <1>4, <1>5, <1>6

(* A trajectory that has set out and not ended moves on by every tick.     *)
LEMMA MovesOn ==
    ASSUME NEW r \in TrajectoryInt, NEW u \in Int, NEW v \in Int,
           r.stamp <= u, u <= v, v <= EndTime(r)
    PROVE  StateAt(r, v) - StateAt(r, u) \in {v - u, u - v}
<1>1. r.stamp \in Int /\ r.first \in Int /\ r.last \in Int /\ EndTime(r) \in Int
  BY FieldsOfTrajectory
<1> QED
  BY <1>1 DEF StateAt

(* Where it has ended, or nothing more of it was sent, the robot stands.   *)
LEMMA StandsOnLine ==
    ASSUME NEW r \in TrajectoryInt, LineOf(r),
           EndTime(r) <= kConnectPoint \/ r.stamp + Published <= kConnectPoint
    PROVE  StandsFrom(target_time)
<1>1. /\ r.stamp \in Int /\ r.stamp <= kConnectPoint /\ EndTime(r) \in Int /\ EndTime(r) >= r.stamp
      /\ Length(r) \in Nat /\ EndTime(r) = r.stamp + Length(r)
  BY FieldsOfTrajectory DEF EndTime
<1>2. kConnectPoint \in Nat \ {0} /\ Published \in Nat /\ Horizon \subseteq Int /\ kConnectPoint \in Horizon
  BY Bounds
<1>3. \A t \in Horizon : t >= kConnectPoint => course[t] = Played(r, t)
  BY <1>1, <1>2 DEF LineOf
<1>4. ASSUME NEW t \in Horizon, t > kConnectPoint PROVE Played(r, t) = Played(r, kConnectPoint)
  <2>1. t \in Int
    BY <1>2
  <2>2. CASE r.stamp + Published <= kConnectPoint
    BY <1>1, <1>2, <1>4, <2>1, <2>2 DEF Played, Until
  <2>3. CASE EndTime(r) <= kConnectPoint /\ r.stamp + Published > kConnectPoint
    <3>1. \A u \in Int : u >= kConnectPoint => StateAt(r, u) = StateAt(r, kConnectPoint)
      BY <1>1, <1>2, <2>3 DEF StateAt
    <3>2. /\ Until(r, t) \in Int /\ Until(r, t) >= kConnectPoint
          /\ Until(r, kConnectPoint) = kConnectPoint
      BY <1>1, <1>2, <1>4, <2>1, <2>3 DEF Until
    <3> QED
      BY <3>1, <3>2 DEF Played
  <2> QED
    BY <1>1, <1>2, <2>2, <2>3
<1> QED
  BY <1>2, <1>3, <1>4 DEF StandsFrom, target_time

(* Displacements from a constraint that is not passed by change by what the*)
(* robot moves.                                                            *)
LEMMA ChangeOfDisplacement ==
    ASSUME NEW p \in Int, NEW ref \in Int, NEW state \in Int, NEW e \in Nat,
           ref - state \in {e, -e}, NEW threshold \in Int, e < 2 * threshold,
           Abs(ref - p) >= threshold, Abs(state - p) >= threshold
    PROVE  Abs(Abs(ref - p) - Abs(state - p)) = e
BY DEF Abs

(* While the robot will be moving, the state a goal is judged by is the one*)
(* it has, or will have, on its way.                                       *)
JudgedAt == IF current_trajectory_ = {} THEN 0 ELSE kConnectPoint

LEMMA TheCurrent ==
    ASSUME NEW r, current_trajectory_ \subseteq {r}, current_trajectory_ # {}
    PROVE  current_trajectory_ = {r} /\ (CHOOSE t \in current_trajectory_ : TRUE) = r
<1>1. current_trajectory_ = {r}
  OBVIOUS
<1>2. (CHOOSE t \in current_trajectory_ : TRUE) \in current_trajectory_
  OBVIOUS
<1> QED
  BY <1>1, <1>2

LEMMA RefOnLine ==
    ASSUME NEW r \in TrajectoryInt, LineOf(r), due \in Int, due <= 0,
           ~use_current_state_for_displacement_, ~StandsFrom(target_time)
    PROVE  /\ EndTime(r) > kConnectPoint /\ r.stamp + Published > kConnectPoint
           /\ RefState = StateAt(r, JudgedAt) /\ Judged = RefState
<1>1. /\ r.stamp \in Int /\ r.stamp <= kConnectPoint /\ EndTime(r) \in Int
      /\ kConnectPoint \in Nat \ {0} /\ Published \in Nat /\ kConnectPoint \in Horizon
  BY FieldsOfTrajectory, Bounds
<1>2. EndTime(r) > kConnectPoint /\ r.stamp + Published > kConnectPoint
  BY <1>1, StandsOnLine
<1>3. \A t \in {0, kConnectPoint} : Played(r, t) = StateAt(r, t)
  BY <1>1, <1>2 DEF Played, Until
<1>4. CASE current_trajectory_ = {}
  <2>1. RefState = course[0] /\ Judged = course[0]
    BY <1>4 DEF RefState, Judged, JointState
  <2>2. course[0] = Played(r, 0)
    BY <1>4 DEF LineOf
  <2> QED
    BY <1>2, <1>3, <1>4, <2>1, <2>2 DEF JudgedAt
<1>5. CASE current_trajectory_ # {}
  <2>1. RefState = StateAt(r, kConnectPoint)
    BY <1>5, TheCurrent DEF RefState, LineOf, target_time
  <2>2. Judged = course[kConnectPoint]
    BY <1>5 DEF Judged, target_time
  <2>3. course[kConnectPoint] = Played(r, kConnectPoint)
    BY <1>1 DEF LineOf
  <2> QED
    BY <1>2, <1>3, <1>5, <2>1, <2>2, <2>3 DEF JudgedAt
<1> QED
  BY <1>4, <1>5

(* Between two executions the robot moves by more than the stall test takes*)
(* for standing.                                                           *)
ChangeIsSeen ==
    /\ joint_stall_threshold_ <= kConnectPoint - MaxDelay
    /\ link_stall_threshold_ <= kConnectPoint - MaxDelay

(* Judged again, a goal the robot is on the way to or from is not stalled. *)
LEMMA MovingIsNoStall ==
    ASSUME ChangeIsSeen, NeverPassesBy, SingleConstraint, TypeOK, due <= 0,
           NEW r \in TrajectoryInt, LineOf(r), ~use_current_state_for_displacement_,
           ~StandsFrom(target_time), plan = {},
           NEW state \in Int, NEW e \in Int, Missed(state), JudgedFrom(r, state, e),
           ShouldComplete(RefState, TRUE)
    PROVE  Reached(checked, RefState)
<1> DEFINE ref == RefState
<1>1. /\ due \in Int /\ due >= -MaxDelay /\ kConnectPoint \in Nat \ {0} /\ MaxDelay \in Nat
      /\ MaxDelay < kConnectPoint /\ Position \subseteq Int
  BY TypeBounds DEF TypeOK
<1>2. /\ EndTime(r) > kConnectPoint /\ r.stamp + Published > kConnectPoint
      /\ ref = StateAt(r, JudgedAt)
  BY <1>1, RefOnLine
<1>3. r.stamp \in Int /\ EndTime(r) \in Int /\ (\A t \in Int : StateAt(r, t) \in Int) /\ Published \in Nat
  BY FieldsOfTrajectory, Bounds
<1>4. e \in Nat /\ kConnectPoint - MaxDelay <= e /\ e <= kConnectPoint + MaxDelay
  BY <1>1 DEF JudgedFrom
<1>5. JudgedAt \in Int /\ JudgedAt <= kConnectPoint
  BY <1>1 DEF JudgedAt
<1>6. r.stamp <= JudgedAt - e /\ state = StateAt(r, JudgedAt - e)
  <2>1. CASE current_trajectory_ = {}
    <3>1. r.stamp + e <= 0 /\ state = Played(r, 0 - e)
      BY <1>1, <1>2, <1>3, <2>1 DEF JudgedFrom
    <3>2. Played(r, 0 - e) = StateAt(r, 0 - e) /\ 0 - e = JudgedAt - e
      BY <1>1, <1>2, <1>3, <1>4, <2>1 DEF Played, Until, JudgedAt
    <3> QED
      BY <1>3, <1>4, <3>1, <3>2
  <2>2. CASE current_trajectory_ # {}
    BY <2>2 DEF JudgedFrom, JudgedAt
  <2> QED
    BY <2>1, <2>2
<1>7. ref \in Int /\ ref - state \in {e, -e}
  <2> DEFINE v == JudgedAt
             u == JudgedAt - e
  <2>1. u \in Int /\ v \in Int /\ r.stamp <= u /\ u <= v /\ v <= EndTime(r) /\ v - u = e /\ u - v = -e
    BY <1>1, <1>2, <1>3, <1>4, <1>5, <1>6
  <2>2. ref = StateAt(r, v) /\ state = StateAt(r, u)
    BY <1>2, <1>6
  <2> HIDE DEF u, v, ref
  <2>3. StateAt(r, v) - StateAt(r, u) \in {v - u, u - v}
    BY <2>1, MovesOn
  <2> QED
    BY <1>3, <2>1, <2>2, <2>3
<1> HIDE DEF ref
<1>8. PICK p \in Position :
        \/ /\ checked.joints = {p} /\ checked.links = {}
           /\ previous_joint_displacement_ = Abs(state - p)
           /\ previous_joint_displacement_ >= joint_displacement_threshold_
        \/ /\ checked.joints = {} /\ checked.links = {p}
           /\ previous_link_displacement_ = Abs(state - p)
           /\ previous_link_displacement_ >= link_displacement_threshold_
  BY DEF Missed
<1>9. PICK joint \in Displacement, link \in Displacement :
        /\ MinDisplacement(joint, checked.joints, ref)
        /\ MinDisplacement(link, checked.links, ref)
        /\ Judge(joint, link, TRUE)
  BY DEF ShouldComplete, ref
<1>10. p \in Int
  BY <1>1, <1>8
<1> SUFFICES ASSUME ~Reached(checked, ref) PROVE FALSE
  BY DEF ref
<1>11. CASE checked.joints = {p} /\ checked.links = {}
  <2> DEFINE threshold == joint_displacement_threshold_
  <2>1. /\ previous_joint_displacement_ = Abs(state - p) /\ Abs(state - p) >= threshold
        /\ threshold \in Int /\ e < 2 * threshold
    BY <1>1, <1>4, <1>8, <1>11, CheckerAssumption DEF NeverPassesBy
  <2>2. joint = Abs(ref - p) /\ Abs(ref - p) \in Int /\ ~(Abs(ref - p) < threshold)
    BY <1>7, <1>9, <1>10, <1>11 DEF MinDisplacement, Reached, Abs
  <2>3. Abs(joint - previous_joint_displacement_) = e
    <3>1. Abs(ref - p) >= threshold /\ threshold \in Int
      BY <2>1, <2>2
    <3> HIDE DEF threshold
    <3>2. Abs(Abs(ref - p) - Abs(state - p)) = e
      BY <1>4, <1>7, <1>10, <2>1, <3>1, ChangeOfDisplacement
    <3> QED
      BY <2>1, <2>2, <3>2
  <2>4. ~JointStalled(joint) /\ ~JointReached(joint) /\ ~LinkReached(link) /\ ~LinkStalled(link)
    BY <1>1, <1>4, <1>11, <2>2, <2>3, CheckerAssumption
    DEF ChangeIsSeen, JointStalled, JointReached, LinkStalled, LinkReached
  <2> QED
    BY <1>9, <2>4 DEF Judge
<1>12. CASE checked.joints = {} /\ checked.links = {p}
  <2> DEFINE threshold == link_displacement_threshold_
  <2>1. /\ previous_link_displacement_ = Abs(state - p) /\ Abs(state - p) >= threshold
        /\ threshold \in Int /\ e < 2 * threshold
    BY <1>1, <1>4, <1>8, <1>12, CheckerAssumption DEF NeverPassesBy
  <2>2. link = Abs(ref - p) /\ Abs(ref - p) \in Int /\ ~(Abs(ref - p) < threshold)
    BY <1>7, <1>9, <1>10, <1>12 DEF MinDisplacement, Reached, Abs
  <2>3. Abs(link - previous_link_displacement_) = e
    <3>1. Abs(ref - p) >= threshold /\ threshold \in Int
      BY <2>1, <2>2
    <3> HIDE DEF threshold
    <3>2. Abs(Abs(ref - p) - Abs(state - p)) = e
      BY <1>4, <1>7, <1>10, <2>1, <3>1, ChangeOfDisplacement
    <3> QED
      BY <2>1, <2>2, <3>2
  <2>4. ~JointStalled(joint) /\ ~JointReached(joint) /\ ~LinkReached(link) /\ ~LinkStalled(link)
    BY <1>1, <1>4, <1>12, <2>2, <2>3, CheckerAssumption
    DEF ChangeIsSeen, JointStalled, JointReached, LinkStalled, LinkReached
  <2> QED
    BY <1>9, <2>4 DEF Judge
<1> QED
  BY <1>8, <1>11, <1>12

LEMMA CompletedOnLine ==
    ASSUME ChangeIsSeen, TypeInv, Unlooked, CourseInv, CompleteGoal,
           SingleConstraint, NeverPassesBy, ~use_current_state_for_displacement_
    PROVE  Reached(checked, Judged) \/ StandsFrom(target_time)
<1> SUFFICES ASSUME ~StandsFrom(target_time) PROVE Reached(checked, Judged)
  OBVIOUS
<1>1. /\ plan = {} /\ due <= 0 /\ goal # {} /\ ShouldComplete(RefState, TRUE)
      /\ due \in Int /\ TypeOK /\ looked \in BOOLEAN
  <2>1. TypeOK
    BY DEF TypeInv
  <2>2. due \in Int /\ looked \in BOOLEAN
    BY <2>1, TypeBounds DEF TypeOK, CheckerTypeOK
  <2> QED
    BY <2>1, <2>2 DEF CompleteGoal, Take
<1>2. PICK r \in TrajectoryInt : LineOf(r) /\ JudgedOn(r)
  BY DEF CourseInv
<1>3. Judged = RefState
  BY <1>1, <1>2, RefOnLine
<1>4. CASE ~looked
  BY <1>1, <1>3, <1>4, FirstLookIsReached
<1>5. CASE looked
  <2>1. PICK state \in Int, e \in Int : Missed(state) /\ JudgedFrom(r, state, e)
    BY <1>1, <1>2, <1>5 DEF JudgedOn, Judging
  <2>2. Reached(checked, RefState)
    BY <1>1, <1>2, <2>1, MovingIsNoStall
  <2> QED
    BY <1>3, <2>2
<1> QED
  BY <1>1, <1>4, <1>5

LEMMA CourseInit == Init => CourseInv
<1> SUFFICES ASSUME Init PROVE CourseInv
  OBVIOUS
<1> DEFINE r == [stamp |-> 0 - kConnectPoint, first |-> Start, last |-> Start]
<1>1. kConnectPoint \in Nat \ {0} /\ MaxDelay \in Nat /\ Start \in Int /\ 0 \in Horizon
  BY Bounds, FollowingAssumption
<1>2. r \in TrajectoryInt
  BY <1>1 DEF TrajectoryInt, Stamp
<1>3. \A t \in Int : Played(r, t) = Start
  BY <1>1, Bounds DEF Played, Until, StateAt, EndTime, Length, Abs
<1>4. /\ current_trajectory_ = {} /\ due = 0 /\ goal = {} /\ plan = {}
      /\ \A t \in Horizon : course[t] = Start
  BY DEF Init
<1>5. r.stamp = 0 - kConnectPoint
  OBVIOUS
<1> HIDE DEF r
<1>6. LineOf(r)
  BY <1>1, <1>3, <1>4, <1>5, Bounds DEF LineOf
<1> QED
  BY <1>2, <1>4, <1>6 DEF CourseInv, JudgedOn, Judging

(* What LineOf is not disturbed by. *)
LEMMA LineSame ==
    ASSUME NEW r, LineOf(r), UNCHANGED <<current_trajectory_, course, due>>
    PROVE  LineOf(r)'
BY DEF LineOf, Played, Until, StateAt, EndTime, Length

(* An execution, which leaves the robot on its way: nothing is due before  *)
(* a period has passed.                                                    *)
LEMMA LineExecuted ==
    ASSUME TypeOK, due <= 0, due' = due + kConnectPoint, course' = course,
           NEW r \in TrajectoryInt, LineOf(r),
           \/ current_trajectory_' = {}
           \/ current_trajectory_' = current_trajectory_
    PROVE  LineOf(r)'
<1>1. /\ due \in Int /\ due >= -MaxDelay /\ kConnectPoint \in Nat \ {0} /\ MaxDelay \in Nat
      /\ MaxDelay < kConnectPoint /\ r.stamp \in Int
  BY TypeBounds, FieldsOfTrajectory DEF TypeOK
<1>2. due' \in Int /\ due' > 0 /\ due' > due
  BY <1>1
<1>3. r.stamp <= due' + MaxDelay /\ r.stamp <= due' - kConnectPoint + MaxDelay
  BY <1>1, <1>2 DEF LineOf
<1>4. \A t \in Horizon : t >= 1 /\ t >= r.stamp => course'[t] = Played(r, t)'
  BY DEF LineOf, Played, Until, StateAt, EndTime, Length
<1> QED
  BY <1>2, <1>3, <1>4 DEF LineOf

(* A goal that is judged and not completed was missed. *)
LEMMA JudgedIsMissed ==
    ASSUME TypeOK, SingleConstraint, NEW state \in Int, ShouldComplete(state, FALSE)
    PROVE  Missed(state)'
<1>1. PICK joint \in Displacement, link \in Displacement :
        /\ MinDisplacement(joint, checked.joints, state)
        /\ MinDisplacement(link, checked.links, state)
        /\ Judge(joint, link, FALSE)
  BY DEF ShouldComplete
<1>2. PICK p \in Position : <<checked.joints, checked.links>> \in {<<{p}, {}>>, <<{}, {p}>>}
  BY DEF SingleConstraint
<1>3. joint \in Int /\ link \in Int /\ checked' = checked
  BY CheckerAssumption DEF Displacement, ShouldComplete
<1>4. CASE checked.joints = {p} /\ checked.links = {}
  <2>1. joint = Abs(state - p)
    BY <1>1, <1>4 DEF MinDisplacement
  <2>2. previous_joint_displacement_' = joint /\ ~(joint < joint_displacement_threshold_)
    BY <1>1, <1>4 DEF Judge, JointReached, Stored
  <2>3. joint >= joint_displacement_threshold_
    BY <1>3, <2>2, CheckerAssumption
  <2> QED
    BY <1>3, <1>4, <2>1, <2>2, <2>3 DEF Missed
<1>5. CASE checked.joints = {} /\ checked.links = {p}
  <2>1. link = Abs(state - p)
    BY <1>1, <1>5 DEF MinDisplacement
  <2>2. previous_link_displacement_' = link /\ ~(link < link_displacement_threshold_)
    BY <1>1, <1>5 DEF Judge, JointReached, JointStalled, LinkReached, Stored
  <2>3. link >= link_displacement_threshold_
    BY <1>3, <2>2, CheckerAssumption
  <2> QED
    BY <1>3, <1>5, <2>1, <2>2, <2>3 DEF Missed
<1> QED
  BY <1>2, <1>4, <1>5

LEMMA RefIsInt ==
    ASSUME FollowingType
    PROVE  RefState \in Int
<1>1. course[0] \in Int
  BY Bounds DEF FollowingType
<1>2. CASE use_current_state_for_displacement_ \/ current_trajectory_ = {}
  BY <1>1, <1>2 DEF RefState, JointState
<1>3. CASE ~(use_current_state_for_displacement_ \/ current_trajectory_ = {})
  <2>1. (CHOOSE t \in current_trajectory_ : TRUE) \in current_trajectory_
    BY <1>3
  <2>2. (CHOOSE t \in current_trajectory_ : TRUE) \in TrajectoryInt
    BY <2>1 DEF FollowingType
  <2> QED
    BY <1>3, <2>2, StateIsInt, Bounds DEF RefState, target_time
<1> QED
  BY <1>2, <1>3

(* A goal that is judged and followed on has been judged 0 ticks ago. *)
LEMMA JudgedNow ==
    ASSUME TypeOK, Take(FALSE), NEW r \in TrajectoryInt, NEW state \in Int, state = RefState,
           ~use_current_state_for_displacement_ => JudgedFrom(r, state, 0)'
    PROVE  JudgedOn(r)'
<1> SUFFICES ASSUME Judging' PROVE Missed(state)' /\ JudgedFrom(r, state, 0)'
  BY DEF JudgedOn
<1>1. /\ SingleConstraint /\ ~use_current_state_for_displacement_
      /\ ShouldComplete(state, FALSE)
  BY DEF Judging, SingleConstraint, Take, ShouldComplete
<1> QED
  BY <1>1, JudgedIsMissed

LEMMA CourseSkip ==
    ASSUME TypeInv, FollowingType, CourseInv, SkipPlanning
    PROVE  CourseInv'
<1>1. /\ Take(FALSE) /\ plan = {} /\ plan' = {} /\ due <= 0 /\ due' = due + kConnectPoint
      /\ course' = course /\ TooShort
      /\ current_trajectory_' = {} /\ TypeOK
  BY DEF SkipPlanning, Take, TypeInv
<1>2. PICK r \in TrajectoryInt : LineOf(r) /\ JudgedOn(r)
  BY DEF CourseInv
<1>3. LineOf(r)'
  BY <1>1, <1>2, LineExecuted
<1>4. PICK state \in Int : state = RefState
  BY RefIsInt
<1>5. JudgedFrom(r, state, 0)'
  <2>1. EndTime(r) <= kConnectPoint
    BY <1>1, <1>2 DEF TooShort, LineOf, target_time
  <2>2. EndTime(r)' = EndTime(r)
    BY DEF EndTime, Length
  <2>3. kConnectPoint - MaxDelay - due' <= 0 /\ 0 <= kConnectPoint - due'
    BY <1>1, TypeBounds DEF TypeOK
  <2> QED
    BY <1>1, <2>1, <2>2, <2>3 DEF JudgedFrom
<1>6. JudgedOn(r)'
  BY <1>1, <1>2, <1>4, <1>5, JudgedNow
<1> QED
  BY <1>1, <1>2, <1>3, <1>6 DEF CourseInv

LEMMA CourseStart ==
    ASSUME TypeInv, FollowingType, CourseInv, StartPlanning
    PROVE  CourseInv'
<1>1. /\ Take(FALSE) /\ plan = {} /\ due <= 0 /\ due' = due + kConnectPoint
      /\ course' = course /\ (current_trajectory_ = {} \/ Connectable)
      /\ current_trajectory_' = current_trajectory_ /\ TypeOK
      /\ \A p \in plan' : p.stamp = kConnectPoint /\ p.initial = InitialState
  <2>1. \A p \in plan' : p.stamp = target_time /\ p.initial = InitialState
    BY DEF StartPlanning
  <2> QED
    BY <2>1 DEF StartPlanning, Take, TypeInv, target_time
<1>2. PICK r \in TrajectoryInt : LineOf(r) /\ JudgedOn(r)
  BY DEF CourseInv
<1>3. LineOf(r)'
  BY <1>1, <1>2, LineExecuted
<1>4. PICK state \in Int : state = RefState
  BY RefIsInt
<1>5. /\ due \in Int /\ due >= -MaxDelay /\ kConnectPoint \in Nat \ {0} /\ MaxDelay \in Nat
      /\ MaxDelay < kConnectPoint /\ r.stamp \in Int /\ r.stamp <= kConnectPoint
  <2>1. due \in -MaxDelay .. kConnectPoint
    BY <1>1 DEF TypeOK
  <2>2. r.stamp \in Int /\ r.stamp <= kConnectPoint
    BY FieldsOfTrajectory
  <2>3. kConnectPoint \in Nat \ {0} /\ MaxDelay \in Nat /\ MaxDelay < kConnectPoint
    BY TypeBounds
  <2> QED
    BY <2>1, <2>2, <2>3
<1>6. ASSUME ~use_current_state_for_displacement_ PROVE JudgedFrom(r, state, 0)'
  <2>1. kConnectPoint - MaxDelay - due' <= 0 /\ 0 <= kConnectPoint - due'
    BY <1>1, <1>5
  <2>2. CASE current_trajectory_ = {}
    <3>1. state = course[0] /\ InitialState = course[0]
      BY <1>4, <2>2 DEF RefState, InitialState, Connectable, JointState
    <3>2. course[0] = Played(r, 0) /\ r.stamp <= 0
      BY <1>1, <1>2, <1>5, <2>2 DEF LineOf
    <3>3. Played(r, 0 - 0)' = Played(r, 0) /\ r.stamp + 0 <= 0
      BY <1>5, <3>2 DEF Played, Until, StateAt, EndTime, Length
    <3> QED
      BY <1>1, <1>5, <2>1, <2>2, <3>1, <3>2, <3>3 DEF JudgedFrom
  <2>3. CASE current_trajectory_ # {}
    <3>1. current_trajectory_ = {r} /\ (CHOOSE t \in current_trajectory_ : TRUE) = r
      BY <1>2, <2>3, TheCurrent DEF LineOf
    <3>2. state = StateAt(r, kConnectPoint) /\ InitialState = StateAt(r, kConnectPoint)
      BY <1>1, <1>4, <1>6, <2>3, <3>1 DEF RefState, InitialState, target_time
    <3>3. StateAt(r, kConnectPoint - 0)' = StateAt(r, kConnectPoint)
      BY <1>5 DEF StateAt, EndTime, Length
    <3> QED
      BY <1>1, <1>5, <2>1, <2>3, <3>2, <3>3 DEF JudgedFrom
  <2> QED
    BY <2>2, <2>3
<1>7. JudgedOn(r)'
  BY <1>1, <1>2, <1>4, <1>6, JudgedNow
<1>8. \A p \in plan' : p.stamp <= due' + MaxDelay
  BY <1>1, <1>5
<1> QED
  BY <1>2, <1>3, <1>7, <1>8 DEF CourseInv

LEMMA CoursePlanned ==
    ASSUME FollowingType, CourseInv, NEW p \in plan, NEW last \in Position, PlanSucceeds(p, last)
    PROVE  CourseInv'
<1> DEFINE r == [stamp |-> p.stamp, first |-> p.initial, last |-> last]
<1>1. /\ current_trajectory_' = {r} /\ course' = Commanded(r) /\ plan' = {}
      /\ UNCHANGED <<checker, use_current_state_for_displacement_, goal, due>>
  BY DEF PlanSucceeds
<1>2. r \in TrajectoryInt /\ r.stamp = p.stamp /\ r.first = p.initial
  BY Bounds DEF FollowingType, PlanInt, TrajectoryInt
<1>3. r.stamp <= due + MaxDelay
  BY <1>2 DEF CourseInv
<1> HIDE DEF r
<1>4. r.stamp \in Int /\ Horizon \subseteq Int /\ Published \in Nat /\ EndTime(r) >= r.stamp
  <2>1. r.stamp \in Int /\ EndTime(r) >= r.stamp
    BY <1>2, FieldsOfTrajectory
  <2> QED
    BY <2>1, Bounds
<1>5. ASSUME NEW t \in Horizon, t >= 1, t >= r.stamp PROVE course'[t] = Played(r, t)
  <2>1. t \in Int /\ ~(t < r.stamp) /\ t # 0
    BY <1>4, <1>5
  <2> QED
    BY <1>1, <1>4, <2>1 DEF Commanded, Played, Until
<1>6. LineOf(r)'
  <2>1. \A t \in Horizon : t >= 1 /\ t >= r.stamp => course'[t] = Played(r, t)'
    BY <1>5 DEF Played, Until, StateAt, EndTime, Length
  <2> QED
    BY <1>1, <1>3, <2>1 DEF LineOf
<1>7. JudgedOn(r)'
  <2> SUFFICES ASSUME Judging'
               PROVE  \E state, e \in Int : Missed(state)' /\ JudgedFrom(r, state, e)'
    BY DEF JudgedOn
  <2>1. Judging
    BY <1>1 DEF Judging, SingleConstraint, checker
  <2>2. PICK old \in TrajectoryInt, state \in Int, e \in Int : Missed(state) /\ JudgedFrom(old, state, e)
    BY <2>1 DEF CourseInv, JudgedOn
  <2>3. Missed(state)'
    BY <1>1, <2>2 DEF Missed, checker, previous
  <2>4. p.stamp = kConnectPoint - e /\ p.initial = state
    BY <2>2 DEF JudgedFrom
  <2>5. StateAt(r, kConnectPoint - e)' = state
    <3>1. StateAt(r, r.stamp) = r.first
      <4>1. r.first \in Int /\ ~(r.stamp < r.stamp) /\ ~(r.stamp > EndTime(r)) /\ r.stamp - r.stamp = 0
        BY <1>2, <1>4, FieldsOfTrajectory
      <4> QED
        BY <4>1 DEF StateAt
    <3> QED
      BY <1>2, <2>4, <3>1 DEF StateAt, EndTime, Length
  <2>6. JudgedFrom(r, state, e)'
    BY <1>1, <1>2, <1>4, <2>2, <2>4, <2>5 DEF JudgedFrom
  <2> QED
    BY <2>3, <2>6
<1> QED
  BY <1>1, <1>2, <1>6, <1>7 DEF CourseInv

LEMMA CourseFails ==
    ASSUME CourseInv, NEW p \in plan, PlanFails(p)
    PROVE  CourseInv'
<1>1. /\ plan' = {}
      /\ UNCHANGED <<checker, use_current_state_for_displacement_, goal>>
      /\ UNCHANGED <<current_trajectory_, course, due>>
  BY DEF PlanFails
<1>2. PICK r \in TrajectoryInt : LineOf(r) /\ JudgedOn(r)
  BY DEF CourseInv
<1>3. LineOf(r)'
  BY <1>1, <1>2, LineSame
<1>4. JudgedOn(r)'
  <2> SUFFICES ASSUME Judging'
               PROVE  \E state, e \in Int : Missed(state)' /\ JudgedFrom(r, state, e)'
    BY DEF JudgedOn
  <2>1. Judging
    BY <1>1 DEF Judging, SingleConstraint, checker
  <2>2. PICK state \in Int, e \in Int : Missed(state) /\ JudgedFrom(r, state, e)
    BY <1>2, <2>1 DEF JudgedOn
  <2>3. Missed(state)'
    BY <1>1, <2>2 DEF Missed, checker, previous
  <2>4. JudgedFrom(r, state, e)'
    BY <1>1, <2>2 DEF JudgedFrom, Played, Until, StateAt, EndTime, Length
  <2> QED
    BY <2>3, <2>4
<1> QED
  BY <1>1, <1>2, <1>3, <1>4 DEF CourseInv

LEMMA CourseTick ==
    ASSUME TypeInv, FollowingType, CourseInv, Tick
    PROVE  CourseInv'
<1>1. /\ course' = [t \in Horizon |-> IF t + 1 \in Horizon THEN course[t + 1] ELSE course[t]]
      /\ current_trajectory_' = {[q EXCEPT !.stamp = @ - 1] : q \in current_trajectory_}
      /\ plan' = {[q EXCEPT !.stamp = @ - 1] : q \in plan}
      /\ due' = due - 1
      /\ UNCHANGED <<checker, use_current_state_for_displacement_, goal>>
  BY DEF Tick, Later
<1>2. PICK r \in TrajectoryInt : LineOf(r) /\ JudgedOn(r)
  BY DEF CourseInv
<1>3. PICK later : later = [r EXCEPT !.stamp = @ - 1]
  OBVIOUS
<1>4. /\ later \in TrajectoryInt /\ later.stamp = r.stamp - 1 /\ EndTime(later) = EndTime(r) - 1
      /\ \A t \in Int : /\ StateAt(later, t) = StateAt(r, t + 1)
                        /\ Played(later, t) = Played(r, t + 1)
  BY <1>3, LaterPlayed
<1>5. due \in Int /\ kConnectPoint \in Nat \ {0} /\ MaxDelay \in Nat /\ MaxDelay < kConnectPoint
  <2>1. due \in -MaxDelay .. kConnectPoint
    BY DEF TypeInv, TypeOK
  <2> QED
    BY <2>1, TypeBounds
<1>6. r.stamp \in Int /\ r.stamp <= kConnectPoint /\ EndTime(r) \in Int
  BY FieldsOfTrajectory
<1>7. Published \in Nat /\ Horizon = 0 .. kConnectPoint + Published
  BY Bounds
<1>8. (current_trajectory_' = {}) = (current_trajectory_ = {})
  <2>1. ASSUME NEW q \in current_trajectory_ PROVE current_trajectory_' # {}
    <3>1. [q EXCEPT !.stamp = @ - 1] \in current_trajectory_'
      BY <1>1
    <3> QED
      BY <3>1
  <2> QED
    BY <1>1, <2>1
<1>9. ASSUME NEW t \in Horizon, t >= 1, t >= later.stamp PROVE course'[t] = Played(later, t)
  <2>1. t \in Int /\ Played(later, t) = Played(r, t + 1)
    BY <1>4, <1>7
  <2>2. CASE t + 1 \in Horizon
    <3>1. t + 1 >= 1 /\ t + 1 >= r.stamp
      BY <1>4, <1>6, <1>9, <2>1
    <3>2. course[t + 1] = Played(r, t + 1)
      BY <1>2, <2>2, <3>1 DEF LineOf
    <3> QED
      BY <1>1, <2>1, <2>2, <3>2
  <2>3. CASE t + 1 \notin Horizon
    <3>1. t = kConnectPoint + Published
      BY <1>5, <1>7, <2>1, <2>3
    <3>2. t >= r.stamp
      BY <1>5, <1>6, <1>7, <3>1
    <3>3. course[t] = Played(r, t)
      BY <1>2, <1>9, <3>2 DEF LineOf
    <3>4. Until(r, t) = Until(r, t + 1)
      BY <1>5, <1>6, <1>7, <3>1 DEF Until
    <3> QED
      BY <1>1, <2>1, <2>3, <3>3, <3>4 DEF Played
  <2> QED
    BY <2>2, <2>3
<1>10. LineOf(later)'
  <2>1. current_trajectory_' \subseteq {later}
    BY <1>1, <1>2, <1>3 DEF LineOf
  <2>2. later.stamp <= due' + MaxDelay
    BY <1>1, <1>2, <1>4, <1>5, <1>6 DEF LineOf
  <2>3. \A t \in Horizon : t >= 1 /\ t >= later.stamp => course'[t] = Played(later, t)'
    BY <1>9 DEF Played, Until, StateAt, EndTime, Length
  <2>4. ASSUME current_trajectory_' = {} PROVE later.stamp <= due' - kConnectPoint + MaxDelay
    BY <1>1, <1>2, <1>4, <1>5, <1>6, <1>8, <2>4 DEF LineOf
  <2>5. ASSUME current_trajectory_' = {}, due' <= 0 PROVE course'[0] = Played(later, 0)'
    <3>1. 0 \in Horizon /\ 1 \in Horizon /\ 0 + 1 = 1 /\ 1 >= 1
      BY <1>5, <1>7
    <3>2. r.stamp <= 1
      BY <1>1, <1>2, <1>5, <1>6, <1>8, <2>5 DEF LineOf
    <3>3. course[1] = Played(r, 1)
      BY <1>2, <1>6, <3>1, <3>2 DEF LineOf
    <3>4. course'[0] = course[1]
      BY <1>1, <3>1
    <3>5. Played(later, 0) = Played(r, 1)
      BY <1>4, <3>1
    <3>6. Played(later, 0)' = Played(later, 0)
      BY DEF Played, Until, StateAt, EndTime, Length
    <3> QED
      BY <3>3, <3>4, <3>5, <3>6
  <2> QED
    BY <2>1, <2>2, <2>3, <2>4, <2>5 DEF LineOf
<1>11. JudgedOn(later)'
  <2> SUFFICES ASSUME Judging'
               PROVE  \E state, e \in Int : Missed(state)' /\ JudgedFrom(later, state, e)'
    BY DEF JudgedOn
  <2>1. Judging
    BY <1>1 DEF Judging, SingleConstraint, checker
  <2>2. PICK state \in Int, before \in Int : Missed(state) /\ JudgedFrom(r, state, before)
    BY <1>2, <2>1 DEF JudgedOn
  <2>3. Missed(state)'
    BY <1>1, <2>2 DEF Missed, checker, previous
  <2>4. PICK e \in Int : e = before + 1
    OBVIOUS
  <2>5. kConnectPoint - MaxDelay - due' <= e /\ e <= kConnectPoint - due'
    BY <1>1, <1>5, <2>2, <2>4 DEF JudgedFrom
  <2>6. ASSUME current_trajectory_' # {}
        PROVE  later.stamp <= kConnectPoint - e /\ state = StateAt(later, kConnectPoint - e)
    <3>1. r.stamp <= kConnectPoint - before /\ state = StateAt(r, kConnectPoint - before)
      BY <1>8, <2>2, <2>6 DEF JudgedFrom
    <3>2. kConnectPoint - e \in Int /\ (kConnectPoint - e) + 1 = kConnectPoint - before
      BY <1>5, <2>4
    <3> QED
      BY <1>4, <1>5, <1>6, <2>4, <3>1, <3>2
  <2>7. ASSUME current_trajectory_' = {}
        PROVE  \/ later.stamp + e <= 0 /\ state = Played(later, 0 - e)
               \/ EndTime(later) <= kConnectPoint
    <3>1. \/ r.stamp + before <= 0 /\ state = Played(r, 0 - before)
          \/ EndTime(r) <= kConnectPoint
      BY <1>8, <2>2, <2>7 DEF JudgedFrom
    <3>2. 0 - e \in Int /\ (0 - e) + 1 = 0 - before
      BY <2>4
    <3>3. Played(later, 0 - e) = Played(r, 0 - before)
      BY <1>4, <3>2
    <3> QED
      BY <1>4, <1>5, <1>6, <2>4, <3>1, <3>3
  <2>8. ASSUME NEW p \in plan' PROVE p.stamp = kConnectPoint - e /\ p.initial = state
    <3>1. PICK q \in plan : p = [q EXCEPT !.stamp = @ - 1]
      BY <1>1
    <3>2. p.stamp = q.stamp - 1 /\ p.initial = q.initial
      BY <3>1 DEF FollowingType, PlanInt
    <3>3. q.stamp = kConnectPoint - before /\ q.initial = state
      BY <2>2 DEF JudgedFrom
    <3> QED
      BY <1>5, <2>4, <3>2, <3>3
  <2>9. JudgedFrom(later, state, e)'
    BY <2>5, <2>6, <2>7, <2>8 DEF JudgedFrom, Played, Until, StateAt, EndTime, Length
  <2> QED
    BY <2>3, <2>9
<1>12. ASSUME NEW p \in plan' PROVE p.stamp <= due' + MaxDelay
  <2>1. PICK q \in plan : p = [q EXCEPT !.stamp = @ - 1]
    BY <1>1
  <2>2. p.stamp = q.stamp - 1 /\ q.stamp \in Int /\ q.stamp <= due + MaxDelay
    BY <2>1 DEF FollowingType, PlanInt, Stamp, CourseInv
  <2> QED
    BY <1>1, <1>5, <2>2
<1> QED
  BY <1>4, <1>10, <1>11, <1>12 DEF CourseInv

LEMMA CourseStep == TypeInv /\ FollowingInv /\ CourseInv /\ [Next]_vars => CourseInv'
<1> SUFFICES ASSUME TypeInv, FollowingInv, CourseInv, [Next]_vars PROVE CourseInv'
  OBVIOUS
<1>1. FollowingType /\ TypeOK /\ AgesInv
  BY DEF FollowingInv, TypeInv
<1>2. PICK r \in TrajectoryInt : LineOf(r) /\ JudgedOn(r)
  BY DEF CourseInv
<1>3. CASE UNCHANGED vars
  <2>1. LineOf(r)'
    BY <1>2, <1>3, LineSame DEF vars
  <2>2. Judging' = Judging
    BY <1>3 DEF vars, checker, Judging, SingleConstraint
  <2>3. ASSUME NEW state \in Int, NEW e \in Int, Missed(state), JudgedFrom(r, state, e)
        PROVE  Missed(state)' /\ JudgedFrom(r, state, e)'
    BY <1>3, <2>3 DEF vars, checker, previous, Missed, JudgedFrom, Played, Until, StateAt, EndTime, Length
  <2>4. JudgedOn(r)'
    BY <1>2, <2>2, <2>3 DEF JudgedOn
  <2> QED
    BY <1>3, <2>1, <2>4 DEF vars, CourseInv
<1>4. ASSUME NEW constraints \in Goals, ReceiveGoal(constraints) PROVE CourseInv'
  <2>1. /\ UNCHANGED <<current_trajectory_, course, due, plan>> /\ looked' = FALSE
    BY <1>4 DEF ReceiveGoal, UpdateConstraints
  <2>2. LineOf(r)' /\ JudgedOn(r)'
    BY <1>2, <2>1, LineSame DEF JudgedOn, Judging
  <2> QED
    BY <2>1, <2>2 DEF CourseInv
<1>5. CASE ExecuteEmpty \/ CompleteGoal
  <2>1. /\ plan' = {} /\ goal' = {} /\ due <= 0 /\ due' = due + kConnectPoint /\ course' = course
        /\ current_trajectory_' \in {{}, current_trajectory_}
    BY <1>5 DEF ExecuteEmpty, CompleteGoal, Take
  <2>2. LineOf(r)' /\ JudgedOn(r)'
    BY <1>1, <1>2, <2>1, LineExecuted DEF JudgedOn, Judging
  <2> QED
    BY <2>1, <2>2 DEF CourseInv
<1>6. CASE SkipPlanning \/ StartPlanning
  BY <1>1, <1>6, CourseSkip, CourseStart
<1>7. ASSUME NEW p \in plan, PlanFails(p) PROVE CourseInv'
  BY <1>7, CourseFails
<1>8. CASE PlanReturns
  BY <1>1, <1>8, CoursePlanned DEF PlanReturns
<1>9. CASE Tick
  BY <1>1, <1>9, CourseTick
<1> QED
  BY <1>3, <1>4, <1>5, <1>6, <1>7, <1>8, <1>9 DEF Next, Loop

(* The stall test of DisplacementChecker finds a robot that stands, if the *)
(* robot is judged by its plan and moves between two executions by more    *)
(* than the test takes for standing: however planning fails, is late or    *)
(* skipped, and whatever became of the goals before.                       *)
THEOREM PlannedStallHasStoppedHolds ==
    ASSUME ChangeIsSeen
    PROVE  Spec => PlannedStallHasStopped
<1> DEFINE Stopped ==
        /\ CompleteGoal
        /\ SingleConstraint /\ NeverPassesBy /\ ~use_current_state_for_displacement_
        => Reached(checked, Judged) \/ StandsFrom(target_time)
<1>1. Init => Unlooked
  BY DEF Init, CheckerInit, Unlooked
<1>2. TypeInv /\ Unlooked /\ CourseInv /\ [Next]_vars => [Stopped]_vars
  BY CompletedOnLine
<1> QED
  BY <1>1, <1>2, TypeInit, TypeStep, FollowingInit, FollowingStep, UnlookedStep,
     CourseInit, CourseStep, PTL DEF Spec, PlannedStallHasStopped

-----------------------------------------------------------------------------
(* The robot near rest. *)

(* From a time on the robot moves by no more than a delay. *)
NearRestFrom(from) ==
    \A t, later \in Horizon :
        from <= t /\ t <= later => Abs(course[later] - course[t]) <= MaxDelay

(* A goal that is not new and has no trajectory was skipped: when the next *)
(* execution is due, the robot has at most the delay of the one that       *)
(* skipped it left to go.                                                  *)
NearRestByDue ==
    goal # {} /\ ~changed /\ current_trajectory_ = {} /\ plan = {} => NearRestFrom(due)

NearRestWhilePlanned ==
    \A p \in plan : current_trajectory_ = {} /\ ~p.changed => NearRestFrom(0)

RestInv == NearRestByDue /\ NearRestWhilePlanned /\ PlannedNearRest

LEMMA RestInit == Init => RestInv
BY DEF Init, RestInv, NearRestByDue, NearRestWhilePlanned, PlannedNearRest

(* Of a trajectory that ends by the target time, few ticks are left a delay*)
(* before it.                                                              *)
LEMMA FewTicksLeft ==
    ASSUME NEW r \in TrajectoryInt, EndTime(r) <= kConnectPoint,
           NEW t \in Int, NEW later \in Int,
           r.stamp <= t, kConnectPoint - MaxDelay <= t, t <= later
    PROVE  Abs(Played(r, later) - Played(r, t)) <= MaxDelay
<1>1. /\ r.stamp \in Int /\ r.first \in Int /\ r.last \in Int
      /\ Length(r) \in Nat /\ EndTime(r) = r.stamp + Length(r)
  BY FieldsOfTrajectory DEF EndTime
<1>2. kConnectPoint \in Nat /\ MaxDelay \in Nat /\ Published \in Nat
  BY TypeBounds
<1>3. /\ Until(r, t) \in Int /\ Until(r, later) \in Int
      /\ \/ Until(r, t) = Until(r, later)
         \/ Until(r, t) = t /\ t <= Until(r, later)
  BY <1>1, <1>2 DEF Until
<1>4. \A u \in Int : StateAt(r, u) \in Int
  BY FieldsOfTrajectory
<1>5. CASE Until(r, t) = Until(r, later)
  BY <1>2, <1>3, <1>4, <1>5 DEF Played, Abs
<1>6. ASSUME NEW v \in Int, t <= v
      PROVE  Abs(StateAt(r, v) - StateAt(r, t)) <= MaxDelay
  BY <1>1, <1>2, <1>6 DEF StateAt, Abs
<1> QED
  BY <1>3, <1>5, <1>6 DEF Played

LEMMA RestSkip ==
    ASSUME TypeInv, CourseInv, SkipPlanning
    PROVE  RestInv'
<1>1. /\ plan' = {} /\ due <= 0 /\ due' = due + kConnectPoint
      /\ course' = course /\ current_trajectory_' = {} /\ TypeOK
  BY DEF SkipPlanning, Take, TypeInv
<1>2. PICK r \in TrajectoryInt : LineOf(r)
  BY DEF CourseInv
<1>3. EndTime(r) <= kConnectPoint
  BY <1>2 DEF SkipPlanning, TooShort, LineOf, target_time
<1>4. /\ due \in Int /\ due >= -MaxDelay /\ kConnectPoint \in Nat \ {0} /\ MaxDelay \in Nat
      /\ MaxDelay < kConnectPoint /\ Horizon \subseteq Int
  BY <1>1, TypeBounds DEF TypeOK
<1>5. r.stamp \in Int /\ r.stamp <= due + MaxDelay
  BY <1>2, FieldsOfTrajectory DEF LineOf
<1>6. ASSUME NEW t \in Horizon, NEW later \in Horizon, due' <= t, t <= later
      PROVE  Abs(course[later] - course[t]) <= MaxDelay
  <2>1. /\ t \in Int /\ later \in Int /\ t >= 1 /\ later >= 1
        /\ r.stamp <= t /\ r.stamp <= later /\ kConnectPoint - MaxDelay <= t
    BY <1>1, <1>4, <1>5, <1>6
  <2>2. course[t] = Played(r, t) /\ course[later] = Played(r, later)
    BY <1>2, <2>1 DEF LineOf
  <2> QED
    BY <1>3, <1>6, <2>1, <2>2, FewTicksLeft
<1>7. NearRestByDue'
  BY <1>1, <1>6 DEF NearRestByDue, NearRestFrom, Abs
<1> QED
  BY <1>1, <1>7 DEF RestInv, NearRestWhilePlanned, PlannedNearRest

LEMMA RestStart ==
    ASSUME TypeInv, RestInv, StartPlanning
    PROVE  RestInv'
<1>1. /\ due <= 0 /\ plan = {} /\ goal # {}
      /\ UNCHANGED <<current_trajectory_, course>>
      /\ \A p \in plan' : p.initial = InitialState /\ p.changed = changed
  BY DEF StartPlanning, Take
<1>2. NearRestByDue'
  <2>1. PICK g \in goal : TRUE
    BY <1>1
  <2>2. plan' # {}
    BY <2>1 DEF StartPlanning
  <2> QED
    BY <2>2 DEF NearRestByDue
<1>3. ASSUME ~changed, current_trajectory_ = {} PROVE NearRestFrom(0)
  <2>1. NearRestFrom(due)
    BY <1>1, <1>3 DEF RestInv, NearRestByDue
  <2>2. \A t \in Horizon : 0 <= t => due <= t
    BY <1>1, TypeBounds DEF TypeInv, TypeOK
  <2> QED
    BY <2>1, <2>2 DEF NearRestFrom
<1>4. NearRestWhilePlanned'
  BY <1>1, <1>3 DEF NearRestWhilePlanned, NearRestFrom, Abs
<1>5. PlannedNearRest'
  <2> SUFFICES ASSUME NEW p \in plan', current_trajectory_ = {}, ~p.changed, NEW t \in Horizon
               PROVE  Abs(course[t] - p.initial) <= MaxDelay
    BY <1>1 DEF PlannedNearRest, Abs
  <2>1. p.initial = course[0] /\ ~changed
    BY <1>1 DEF InitialState, Connectable, JointState
  <2>2. 0 \in Horizon /\ 0 <= 0 /\ 0 <= t
    BY Bounds
  <2> QED
    BY <1>3, <2>1, <2>2 DEF NearRestFrom
<1> QED
  BY <1>2, <1>4, <1>5 DEF RestInv

(* The goal is planned again from there. *)
LEMMA RestFails ==
    ASSUME TypeInv, RestInv, NEW p \in plan, PlanFails(p)
    PROVE  RestInv'
<1>1. /\ changed' = (changed \/ p.changed) /\ plan' = {}
      /\ UNCHANGED <<goal, current_trajectory_, course, due>>
  BY DEF PlanFails
<1>2. ASSUME ~changed, ~p.changed, current_trajectory_ = {} PROVE NearRestFrom(due)
  <2>1. NearRestFrom(0)
    BY <1>2 DEF RestInv, NearRestWhilePlanned
  <2>2. \A t \in Horizon : 0 <= t
    BY Bounds
  <2> QED
    BY <2>1, <2>2 DEF NearRestFrom
<1>3. ~changed' => ~changed /\ ~p.changed
  BY <1>1
<1>4. NearRestByDue'
  BY <1>1, <1>2, <1>3 DEF NearRestByDue, NearRestFrom, Abs
<1> QED
  BY <1>1, <1>4 DEF RestInv, NearRestWhilePlanned, PlannedNearRest

LEMMA LaterIsEmpty ==
    ASSUME NEW s, Later(s) = {}
    PROVE  s = {}
<1>1. ASSUME NEW r \in s PROVE [r EXCEPT !.stamp = @ - 1] \in Later(s)
  BY DEF Later
<1> QED
  BY <1>1

(* The course moves on by a tick, and its last point stays. *)
LEMMA NearRestTick ==
    ASSUME TypeInv, Tick, NEW from \in Int, NearRestFrom(from),
           NEW t \in Horizon, NEW later \in Horizon, from - 1 <= t, t <= later
    PROVE  Abs(course'[later] - course'[t]) <= MaxDelay
<1>1. course' = [u \in Horizon |-> IF u + 1 \in Horizon THEN course[u + 1] ELSE course[u]]
  BY DEF Tick
<1>2. Horizon = 0 .. kConnectPoint + Published /\ kConnectPoint \in Nat /\ Published \in Nat
      /\ MaxDelay \in Nat /\ t \in Int /\ later \in Int
  BY TypeBounds
<1>3. CASE later = t
  <2>1. course' \in [Horizon -> Position]
    BY TypeTick DEF TypeInv, TypeOK
  <2>2. course'[t] \in Int
    BY <2>1, TypeBounds
  <2> QED
    BY <1>2, <1>3, <2>2 DEF Abs
<1>4. CASE later # t
  <2>1. t + 1 \in Horizon /\ from <= t + 1 /\ t + 1 <= later /\ t + 1 <= later + 1
    BY <1>2, <1>4
  <2>2. course'[t] = course[t + 1]
    BY <1>1, <2>1
  <2>3. CASE later + 1 \in Horizon
    BY <1>1, <2>1, <2>2, <2>3 DEF NearRestFrom
  <2>4. CASE later + 1 \notin Horizon
    BY <1>1, <2>1, <2>2, <2>4 DEF NearRestFrom
  <2> QED
    BY <2>3, <2>4
<1> QED
  BY <1>3, <1>4

LEMMA RestTick ==
    ASSUME TypeInv, RestInv, Tick
    PROVE  RestInv'
<1>1. /\ course' = [t \in Horizon |-> IF t + 1 \in Horizon THEN course[t + 1] ELSE course[t]]
      /\ current_trajectory_' = Later(current_trajectory_)
      /\ plan' = Later(plan)
      /\ due' = due - 1
      /\ UNCHANGED <<goal, changed>>
  BY DEF Tick
<1>2. due \in Int /\ \A t \in Horizon : t \in Int /\ 0 <= t /\ 0 - 1 <= t
  BY TypeBounds DEF TypeInv, TypeOK
<1>4. NearRestByDue'
  <2> SUFFICES ASSUME goal # {}, ~changed, current_trajectory_' = {}, plan' = {},
                      NEW t \in Horizon, NEW later \in Horizon, due - 1 <= t, t <= later
               PROVE  Abs(course'[later] - course'[t]) <= MaxDelay
    BY <1>1 DEF NearRestByDue, NearRestFrom, Abs
  <2>1. current_trajectory_ = {} /\ plan = {}
    BY <1>1, LaterIsEmpty
  <2>2. NearRestFrom(due)
    BY <2>1 DEF RestInv, NearRestByDue
  <2> QED
    BY <1>2, <2>2, NearRestTick
<1>5. ASSUME NEW later \in plan', current_trajectory_' = {}, ~later.changed
      PROVE  \E p \in plan : /\ p.changed = later.changed /\ p.initial = later.initial
                             /\ current_trajectory_ = {} /\ ~p.changed
  <2>1. PICK p \in plan : later = [p EXCEPT !.stamp = @ - 1]
    BY <1>1 DEF Later
  <2>2. later.changed = p.changed /\ later.initial = p.initial
    BY <2>1 DEF TypeInv, TypeOK, Plan
  <2> QED
    BY <1>1, <1>5, <2>2, LaterIsEmpty
<1>6. NearRestWhilePlanned'
  <2> SUFFICES ASSUME NEW p \in plan', current_trajectory_' = {}, ~p.changed,
                      NEW t \in Horizon, NEW later \in Horizon, t <= later
               PROVE  Abs(course'[later] - course'[t]) <= MaxDelay
    BY DEF NearRestWhilePlanned, NearRestFrom, Abs
  <2>1. NearRestFrom(0)
    BY <1>5 DEF RestInv, NearRestWhilePlanned
  <2> QED
    BY <1>2, <2>1, NearRestTick
<1>7. PlannedNearRest'
  <2> SUFFICES ASSUME NEW later \in plan', current_trajectory_' = {}, ~later.changed,
                      NEW t \in Horizon
               PROVE  Abs(course'[t] - later.initial) <= MaxDelay
    BY DEF PlannedNearRest, Abs
  <2>1. \A u \in Horizon : Abs(course[u] - later.initial) <= MaxDelay
    BY <1>5 DEF RestInv, PlannedNearRest
  <2> QED
    BY <1>1, <2>1
<1> QED
  BY <1>4, <1>6, <1>7 DEF RestInv

LEMMA RestStep == TypeInv /\ CourseInv /\ RestInv /\ [Next]_vars => RestInv'
<1> SUFFICES ASSUME TypeInv, CourseInv, RestInv, [Next]_vars PROVE RestInv'
  OBVIOUS
<1> USE DEF RestInv, NearRestByDue, NearRestWhilePlanned, PlannedNearRest, NearRestFrom, Abs
<1>1. CASE UNCHANGED vars
  BY <1>1 DEF vars
<1>2. ASSUME NEW constraints \in Goals, ReceiveGoal(constraints) PROVE RestInv'
  BY <1>2 DEF ReceiveGoal
<1>3. CASE ExecuteEmpty
  BY <1>3 DEF ExecuteEmpty
<1>4. CASE CompleteGoal
  BY <1>4 DEF CompleteGoal, Take
<1>5. CASE SkipPlanning
  BY <1>5, RestSkip
<1>6. CASE StartPlanning
  BY <1>6, RestStart
<1>7. ASSUME NEW p \in plan, PlanFails(p) PROVE RestInv'
  BY <1>7, RestFails
<1>8. CASE PlanReturns
  BY <1>8 DEF PlanReturns, PlanSucceeds
<1>9. CASE Tick
  BY <1>9, RestTick
<1> QED
  BY <1>1, <1>2, <1>3, <1>4, <1>5, <1>6, <1>7, <1>8, <1>9 DEF Next, Loop

(* A goal whose last trajectory was skipped is planned from where the robot*)
(* is at most MaxDelay ticks short of rest: at rest if no execution is     *)
(* late, and in any case for every lateness less than a period.            *)
THEOREM PlannedNearRestHolds == Spec => []PlannedNearRest
<1>1. RestInv => PlannedNearRest
  BY DEF RestInv
<1> QED
  BY <1>1, TypeInit, TypeStep, FollowingInit, FollowingStep, CourseInit, CourseStep,
     RestInit, RestStep, PTL DEF Spec
=============================================================================
