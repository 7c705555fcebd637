------------------------ MODULE OptimizerInputProofs ------------------------
(***************************************************************************)
(* Proofs about OptimizerInput, for all trajectories, limits, drives and   *)
(* intervals: an accepted trajectory is read where it has something, what  *)
(* the filter is handed fits together, the samples cover the result, the   *)
(* body turns both ways within a relaxed limit, turns the short way from   *)
(* point to point, and the base sets out as fast as its wheels allow.      *)
(***************************************************************************)
EXTENDS OptimizerInput, TLAPS, WellFoundedInduction

(* Names for a choice between slips are always expanded. *)
USE DEF GoesOn

-----------------------------------------------------------------------------
(* Validation and extraction. *)

Valid(t) == t \in RobotTrajectory /\ ValidateJoints(t) /\ ValidateBase(t) /\ ValidatePoints(t)

(* What the extraction may count on in an accepted goal. *)
AcceptedInv ==
    /\ step \in {"limits", "velocity", "acceleration", "extract", "filter"} => Valid(trajectory)
    /\ step = "undefined" => ~NamesGoWithPoints(trajectory)

LEMMA MissingFrontIsNoPoint ==
    ASSUME NEW t \in RobotTrajectory, ReadsMissingFront(t)
    PROVE  ~NamesGoWithPoints(t)
BY DEF RobotTrajectory, ReadsMissingFront, NamesGoWithPoints

(* The numbers of points of an accepted goal. *)
LEMMA PointsOfValid ==
    ASSUME Valid(trajectory), NamesGoWithPoints(trajectory)
    PROVE  /\ PointNum \in Nat /\ PointNum >= 2
           /\ PointNum = Len(trajectory.base_points)
           /\ \A k \in 1 .. PointNum : trajectory.base_points[k].transforms = 1
           /\ trajectory.base_points[1].velocities = 1
           /\ (JointNum = 0) = (trajectory.joint_names = 0)
           /\ JointNum # 0 => /\ PointNum = JointNum
                              /\ \A k \in 1 .. JointNum :
                                    trajectory.joint_points[k].positions = trajectory.joint_names
                              /\ trajectory.joint_points[1].velocities = trajectory.joint_names
<1> DEFINE j == trajectory.joint_points
           b == trajectory.base_points
<1>1. /\ j \in Seq(JointPoint) /\ b \in Seq(BasePoint)
      /\ trajectory.joint_names \in Nat
  BY DEF Valid, RobotTrajectory
<1>2. /\ Len(j) \in Nat /\ Len(b) \in Nat
      /\ DOMAIN j = 1 .. Len(j) /\ DOMAIN b = 1 .. Len(b)
      /\ (j = <<>>) = (Len(j) = 0) /\ (b = <<>>) = (Len(b) = 0)
  BY <1>1
<1>3. (Len(j) = 0) = (trajectory.joint_names = 0)
  BY <1>1, <1>2 DEF NamesGoWithPoints
<1>4. /\ PointNum = Len(b) /\ Len(b) >= 2
      /\ Len(j) # 0 => Len(j) = Len(b)
  BY <1>1, <1>2, <1>3 DEF Valid, ValidatePoints, PointNum, JointNum
<1>5. /\ \A k \in 1 .. Len(b) : b[k].transforms = 1
      /\ b[1].velocities = 1
  BY <1>2, <1>4 DEF Valid, ValidateBase
<1>6. Len(j) # 0 => /\ \A k \in 1 .. Len(j) : j[k].positions = trajectory.joint_names
                    /\ j[1].velocities = trajectory.joint_names
  BY <1>1, <1>2, <1>3 DEF Valid, ValidateJoints
<1> QED
  BY <1>2, <1>3, <1>4, <1>5, <1>6 DEF JointNum

LEMMA ValidIsReadable ==
    ASSUME Valid(trajectory), NamesGoWithPoints(trajectory)
    PROVE  HasTransform(2) /\ CanExtract
<1>1. \A n \in 0 .. PointNum : HasTransform(n)
  BY PointsOfValid DEF HasTransform
<1> QED
  BY <1>1, PointsOfValid DEF CanExtract

LEMMA AcceptedInit == Init => AcceptedInv
BY DEF Init, AcceptedInv

LEMMA AcceptedStep == AcceptedInv /\ [Next]_vars => AcceptedInv'
<1> SUFFICES ASSUME AcceptedInv, [Next]_vars PROVE AcceptedInv'
  OBVIOUS
<1> USE DEF AcceptedInv
<1>1. ASSUME NEW t \in Trajectories, ValidateRobotTrajectory(t) PROVE AcceptedInv'
  <2>1. t \in RobotTrajectory
    BY InputAssumption
  <2>2. ReadsMissingFront(t) => ~NamesGoWithPoints(t)
    BY <2>1, MissingFrontIsNoPoint
  <2>3. trajectory' = t /\ (\/ ReadsMissingFront(t) /\ step' = "undefined"
                            \/ Valid(t) /\ step' = "limits")
    BY <1>1, <2>1 DEF ValidateRobotTrajectory, Valid
  <2>4. (step' = "undefined" => ~NamesGoWithPoints(t)) /\ (step' = "limits" => Valid(t))
    BY <2>2, <2>3
  <2>5. (Valid(t) => Valid(trajectory)') /\ (~NamesGoWithPoints(t) => ~NamesGoWithPoints(trajectory)')
    BY <2>3
  <2> QED
    BY <2>3, <2>4, <2>5
<1>2. CASE JointLimit
  BY <1>2 DEF JointLimit, Valid
<1>3. ASSUME step \in {"velocity", "acceleration", "extract"},
             trajectory' = trajectory,
             \/ step' \in {"acceleration", "extract", "filter"}
             \/ step' = "undefined" /\ ~(HasTransform(2) /\ CanExtract)
      PROVE  AcceptedInv'
  <2>1. Valid(trajectory) /\ Valid(trajectory)'
    BY <1>3
  <2>2. NamesGoWithPoints(trajectory)' = NamesGoWithPoints(trajectory)
    BY <1>3 DEF NamesGoWithPoints
  <2> QED
    BY <1>3, <2>1, <2>2, ValidIsReadable
<1>4. CASE UpdateBaseVelocities \/ UpdateBaseAccelarations
  BY <1>3, <1>4 DEF UpdateBaseVelocities, UpdateBaseAccelarations, UpdateBaseLimits
<1>5. CASE ExtractInput
  BY <1>3, <1>5 DEF ExtractInput
<1>6. CASE Filter \/ SampleTrajectoryPoint \/ PublishSucceeded
  BY <1>6 DEF Filter, SampleTrajectoryPoint, PublishSucceeded
<1>7. CASE UNCHANGED vars
  BY <1>7 DEF vars, Valid, NamesGoWithPoints
<1> QED
  BY <1>1, <1>2, <1>4, <1>5, <1>6, <1>7 DEF Next

(* Of an accepted goal whose names go with its points, nothing is read     *)
(* past an end: the validation and the extraction in optimizer_node.cpp    *)
(* agree, whatever goals are sent.                                         *)
THEOREM AcceptedIsReadableHolds == Spec => []AcceptedIsReadable
<1>1. AcceptedInv => AcceptedIsReadable
  BY DEF AcceptedInv, AcceptedIsReadable
<1> QED
  BY <1>1, AcceptedInit, AcceptedStep, PTL DEF Spec

-----------------------------------------------------------------------------
(* One dimension throughout. *)

DimensionInv ==
    /\ AcceptedInv
    /\ step \in {"velocity", "acceleration", "extract", "filter"}
          => joint_limit = trajectory.joint_names + kBaseJointNum
    /\ DimensionsAgree

LEMMA DimensionOfPoint ==
    ASSUME Valid(trajectory), NamesGoWithPoints(trajectory)
    PROVE  /\ \A k \in 1 .. PointNum :
                 Dimension(k, "positions") = trajectory.joint_names + kBaseJointNum
           /\ Dimension(1, "velocities") = trajectory.joint_names + kBaseJointNum
<1>1. trajectory.joint_names \in Nat
  BY DEF Valid, RobotTrajectory
<1> QED
  BY <1>1, PointsOfValid DEF Dimension, kBaseJointNum

LEMMA FunctionIsSequence ==
    ASSUME NEW n \in Nat, NEW S, NEW f \in [1 .. n -> S]
    PROVE  f \in Seq(S) /\ Len(f) = n
<1>1. f \in Seq(S)
  OBVIOUS
<1>2. DOMAIN f = 1 .. n /\ DOMAIN f = 1 .. Len(f) /\ Len(f) \in Nat
  BY <1>1
<1> QED
  BY <1>1, <1>2

LEMMA TailOfFunction ==
    ASSUME NEW n \in Nat \ {0}, NEW f, DOMAIN f = 1 .. n, f = [k \in 1 .. n |-> f[k]]
    PROVE  /\ n >= 2 => Tail(f) # <<>>
           /\ DOMAIN Tail(f) = 1 .. n - 1
           /\ \A k \in 1 .. n - 1 : Tail(f)[k] = f[k + 1]
<1> DEFINE S == {f[k] : k \in 1 .. n}
<1>1. f \in [1 .. n -> S]
  OBVIOUS
<1>2. f \in Seq(S) /\ Len(f) = n
  BY ONLY n \in Nat \ {0}, <1>1, FunctionIsSequence
<1>3. Tail(f) \in Seq(S) /\ Len(Tail(f)) = n - 1
  BY <1>2
<1>4. \A k \in 1 .. n - 1 : Tail(f)[k] = f[k + 1]
  BY <1>2
<1> QED
  BY <1>3, <1>4

(* What ExtractInput makes of an accepted goal. *)
LEMMA DimensionExtracted ==
    ASSUME DimensionInv, ExtractInput
    PROVE  DimensionsAgree'
<1> SUFFICES ASSUME step' = "filter", NamesGoWithPoints(trajectory')
             PROVE  /\ initial'.positions = joint_limit' /\ initial'.velocities = joint_limit'
                    /\ way_points' # <<>>
                    /\ \A k \in DOMAIN way_points' : way_points'[k].positions = joint_limit'
  BY DEF DimensionsAgree
<1>1. /\ step = "extract" /\ trajectory' = trajectory /\ joint_limit' = joint_limit
      /\ initial'.positions = Dimension(1, "positions")
      /\ initial'.velocities = Dimension(1, "velocities")
      /\ way_points' = Tail(WayPoints)
  BY DEF ExtractInput
<1>2. Valid(trajectory) /\ NamesGoWithPoints(trajectory)
  BY <1>1 DEF DimensionInv, AcceptedInv
<1>3. joint_limit' = trajectory.joint_names + kBaseJointNum
  BY <1>1 DEF DimensionInv
<1>4. /\ DOMAIN WayPoints = 1 .. PointNum
      /\ WayPoints = [k \in 1 .. PointNum |-> WayPoints[k]]
      /\ \A k \in 1 .. PointNum : WayPoints[k].positions = Dimension(k, "positions")
  BY DEF WayPoints
<1>5. PointNum \in Nat /\ PointNum >= 2
  BY <1>2, PointsOfValid
<1>6. /\ way_points' # <<>>
      /\ DOMAIN way_points' = 1 .. PointNum - 1
      /\ \A k \in 1 .. PointNum - 1 : way_points'[k] = WayPoints[k + 1]
  BY <1>1, <1>4, <1>5, TailOfFunction
<1>7. \A k \in 1 .. PointNum : WayPoints[k].positions = joint_limit'
  BY <1>2, <1>3, <1>4, DimensionOfPoint
<1>8. Dimension(1, "positions") = joint_limit' /\ Dimension(1, "velocities") = joint_limit'
  BY <1>2, <1>3, <1>5, DimensionOfPoint
<1>9. \A k \in 1 .. PointNum - 1 : way_points'[k].positions = joint_limit'
  BY <1>5, <1>6, <1>7
<1> QED
  BY <1>1, <1>6, <1>8, <1>9

LEMMA DimensionInit == Init => DimensionInv
BY AcceptedInit DEF Init, DimensionInv, DimensionsAgree

LEMMA DimensionStep == DimensionInv /\ [Next]_vars => DimensionInv'
<1> SUFFICES ASSUME DimensionInv, [Next]_vars PROVE DimensionInv'
  OBVIOUS
<1>0. AcceptedInv'
  BY AcceptedStep DEF DimensionInv
<1> DEFINE LimitInv == step \in {"velocity", "acceleration", "extract", "filter"}
                         => joint_limit = trajectory.joint_names + kBaseJointNum
<1>1. LimitInv'
  <2> USE DEF DimensionInv
  <2>1. CASE JointLimit
    BY <2>1 DEF JointLimit
  <2>2. CASE UpdateBaseVelocities \/ UpdateBaseAccelarations
    BY <2>2 DEF UpdateBaseVelocities, UpdateBaseAccelarations, UpdateBaseLimits
  <2>3. CASE ExtractInput
    BY <2>3 DEF ExtractInput, limits
  <2>4. ASSUME NEW t \in Trajectories, ValidateRobotTrajectory(t) PROVE LimitInv'
    BY <2>4 DEF ValidateRobotTrajectory
  <2>5. CASE Filter \/ SampleTrajectoryPoint \/ PublishSucceeded
    BY <2>5 DEF Filter, SampleTrajectoryPoint, PublishSucceeded
  <2>6. CASE UNCHANGED vars
    BY <2>6 DEF vars, limits
  <2> QED
    BY <2>1, <2>2, <2>3, <2>4, <2>5, <2>6 DEF Next
<1>2. DimensionsAgree'
  <2>1. CASE ExtractInput
    BY <2>1, DimensionExtracted
  <2>2. ASSUME step' # "filter" PROVE DimensionsAgree'
    BY <2>2 DEF DimensionsAgree
  <2>3. CASE JointLimit
    BY <2>2, <2>3 DEF JointLimit
  <2>4. CASE UpdateBaseVelocities \/ UpdateBaseAccelarations
    BY <2>2, <2>4 DEF UpdateBaseVelocities, UpdateBaseAccelarations, UpdateBaseLimits
  <2>5. ASSUME NEW t \in Trajectories, ValidateRobotTrajectory(t) PROVE DimensionsAgree'
    BY <2>2, <2>5 DEF ValidateRobotTrajectory
  <2>6. CASE Filter \/ SampleTrajectoryPoint \/ PublishSucceeded
    BY <2>2, <2>6 DEF Filter, SampleTrajectoryPoint, PublishSucceeded
  <2>7. CASE UNCHANGED vars
    BY <2>7 DEF vars, limits, input, DimensionInv, DimensionsAgree, NamesGoWithPoints
  <2> QED
    BY <2>1, <2>3, <2>4, <2>5, <2>6, <2>7 DEF Next
<1> QED
  BY <1>0, <1>1, <1>2 DEF DimensionInv

(* JointLimit and the three extracting functions count the joints of an    *)
(* accepted goal alike: the filter is handed vectors of one dimension and  *)
(* at least one way point, for every goal and however many joints.         *)
THEOREM DimensionsAgreeHolds == Spec => []DimensionsAgree
<1>1. DimensionInv => DimensionsAgree
  BY DEF DimensionInv
<1> QED
  BY <1>1, DimensionInit, DimensionStep, PTL DEF Spec

-----------------------------------------------------------------------------
(* Sampling. *)

Interval == sampling_interval_sec_

SamplesInv ==
    /\ samples \in Seq(Nat)
    /\ step \notin {"sample", "done"} => samples = <<>>
    /\ step = "sample" =>
          /\ duration \in Nat
          /\ Len(samples) * Interval < duration \/ (duration = 0 /\ samples = <<>>)
          /\ \A k \in 1 .. Len(samples) : samples[k] = k * Interval
    /\ SamplesCover

LEMMA SamplesInit == Init => SamplesInv
BY DEF Init, SamplesInv, SamplesCover

(* What takes no time is sampled at its end. *)
LEMMA EndSampled ==
    ASSUME SamplesInv, SampleTrajectoryPoint, duration = 0, samples = <<>>
    PROVE  SamplesInv'
<1>1. NextSample = sampling_interval_sec_ /\ sampling_interval_sec_ \in Nat \ {0}
  BY InputAssumption DEF NextSample
<1>2. samples' = <<0>> /\ step' = "done" /\ duration' = 0
  BY <1>1 DEF SampleTrajectoryPoint
<1>3. samples' \in Seq(Nat) /\ Len(samples') = 1 /\ samples'[1] = 0
  BY <1>2
<1>4. SamplesCover'
  BY <1>1, <1>2, <1>3 DEF SamplesCover
<1> QED
  BY <1>2, <1>3, <1>4 DEF SamplesInv

(* One more sample, be it the last one. *)
LEMMA SampleTaken ==
    ASSUME SamplesInv, SampleTrajectoryPoint, ~(duration = 0 /\ samples = <<>>)
    PROVE  SamplesInv'
<1> DEFINE n == Len(samples)
           t == IF NextSample < duration THEN NextSample ELSE duration
<1> USE DEF Interval
<1>1. /\ samples \in Seq(Nat) /\ duration \in Nat /\ n * Interval < duration
      /\ \A k \in 1 .. n : samples[k] = k * Interval
      /\ samples' = Append(samples, t) /\ duration' = duration
      /\ step' = IF NextSample < duration THEN "sample" ELSE "done"
  BY DEF SamplesInv, SampleTrajectoryPoint
<1>2. n \in Nat /\ Interval \in Nat \ {0}
  BY <1>1, InputAssumption
<1>3. /\ \A k \in Nat : k * Interval \in Nat /\ (k + 1) * Interval = k * Interval + Interval
      /\ 0 * Interval = 0 /\ 1 * Interval = Interval
  BY <1>2
<1>4. NextSample \in Nat /\ NextSample = n * Interval + Interval
  BY <1>2, <1>3 DEF NextSample
<1>5. t \in Nat /\ t > n * Interval /\ t <= n * Interval + Interval
  BY <1>1, <1>2, <1>3, <1>4
<1>6. /\ samples' \in Seq(Nat) /\ Len(samples') = n + 1
      /\ DOMAIN samples' = 1 .. n + 1
      /\ samples'[n + 1] = t
      /\ \A k \in 1 .. n : samples'[k] = k * Interval
  BY <1>1, <1>2, <1>5
<1>7. CASE NextSample < duration
  <2>1. t = (n + 1) * Interval
    BY <1>2, <1>3, <1>4, <1>7
  <2>2. \A k \in 1 .. n + 1 : samples'[k] = k * Interval
    BY <1>2, <1>6, <2>1
  <2>3. (n + 1) * Interval < duration
    BY <1>7, <2>1
  <2> QED
    BY <1>1, <1>6, <1>7, <2>2, <2>3 DEF SamplesInv, SamplesCover
<1>8. CASE ~(NextSample < duration)
  <2>1. t = duration
    BY <1>8
  <2>2. ASSUME NEW k \in 1 .. n + 1
        PROVE  LET before == IF k = 1 THEN 0 ELSE samples'[k - 1]
               IN  samples'[k] > before /\ samples'[k] <= before + Interval
    <3>1. (IF k = 1 THEN 0 ELSE samples'[k - 1]) = (k - 1) * Interval
      <4>1. CASE k = 1
        BY <1>3, <4>1
      <4>2. CASE k # 1
        <5>1. k - 1 \in 1 .. n
          BY <1>2, <4>2
        <5> QED
          BY <1>6, <4>2, <5>1
      <4> QED
        BY <4>1, <4>2
    <3>2. (k - 1) * Interval \in Nat /\ k * Interval = (k - 1) * Interval + Interval
      <4>1. k - 1 \in Nat /\ (k - 1) + 1 = k
        BY <1>2
      <4> QED
        BY <1>3, <4>1
    <3>3. CASE k \in 1 .. n
      BY <1>2, <1>6, <3>1, <3>2, <3>3
    <3>4. CASE k = n + 1
      BY <1>2, <1>5, <1>6, <3>1, <3>4
    <3> QED
      BY <1>2, <3>3, <3>4
  <2>3. SamplesCover'
    BY <1>1, <1>6, <2>1, <2>2 DEF SamplesCover
  <2> QED
    BY <1>1, <1>6, <1>8, <2>3 DEF SamplesInv
<1> QED
  BY <1>7, <1>8

LEMMA SamplesStep == SamplesInv /\ [Next]_vars => SamplesInv'
<1> SUFFICES ASSUME SamplesInv, [Next]_vars PROVE SamplesInv'
  OBVIOUS
<1> USE DEF SamplesInv, SamplesCover
<1>1. CASE Filter
  <2>1. PICK d \in Durations : duration' = d
    BY <1>1 DEF Filter
  <2>2. /\ step' = "sample" /\ samples' = <<>>
        /\ duration' \in Nat
    BY <1>1, <2>1, InputAssumption DEF Filter
  <2>3. Interval \in Nat /\ 0 * Interval = 0 /\ Len(samples') = 0
    BY <2>2, InputAssumption DEF Interval
  <2> QED
    BY <1>1, <2>2, <2>3 DEF Filter
<1>2. CASE SampleTrajectoryPoint
  BY <1>2, EndSampled, SampleTaken
<1>3. CASE PublishSucceeded
  BY <1>3 DEF PublishSucceeded
<1>4. CASE JointLimit \/ UpdateBaseVelocities \/ UpdateBaseAccelarations \/ ExtractInput
  BY <1>4 DEF JointLimit, UpdateBaseVelocities, UpdateBaseAccelarations, UpdateBaseLimits,
              ExtractInput, optimized
<1>5. ASSUME NEW t \in Trajectories, ValidateRobotTrajectory(t) PROVE SamplesInv'
  BY <1>5 DEF ValidateRobotTrajectory, optimized
<1>6. CASE UNCHANGED vars
  BY <1>6 DEF vars, optimized
<1> QED
  BY <1>1, <1>2, <1>3, <1>4, <1>5, <1>6 DEF Next

(* Every optimized trajectory is sampled forward, without a gap and to its *)
(* end, whatever its duration and the interval, multiples included.        *)
THEOREM SamplesCoverHolds == Spec => []SamplesCover
<1>1. SamplesInv => SamplesCover
  BY DEF SamplesInv
<1> QED
  BY <1>1, SamplesInit, SamplesStep, PTL DEF Spec

-----------------------------------------------------------------------------
(* The limit of the yaw. *)

Kind == {"velocity", "acceleration"}

(* What the limits of a kind were computed from and have become.           *)
Relaxed(kind, m) ==
    /\ m.kind = kind /\ m.wheels \in Wheels
    /\ base_limit[kind][3] = LargerOf(BaseLimits[kind][3], YawLimit(m.wheels, Limits(kind).caster))

HasBothKinds == base_limit = [kind \in Kind |-> base_limit[kind]]

(* An update relaxes the limits the parameters set. *)
LimitsInv ==
    /\ step \in Kind => HasBothKinds /\ base_limit.acceleration = BaseLimits.acceleration
    /\ step = "velocity" => base_limit.velocity = BaseLimits.velocity
    /\ step \notin {"acceleration", "extract", "undefined"} => moving = {}
    /\ \A m \in moving : \E kind \in Kind : Relaxed(kind, m)

LEMMA LimitsAreNumbers ==
    ASSUME NEW kind \in Kind
    PROVE  /\ Limits(kind).caster \in Nat
           /\ \A wheel \in {Limits(kind).wheel} : wheel \in Int
           /\ BaseLimits[kind] \in Seq(Nat) /\ BaseLimits[kind][3] \in Nat
<1>1. BaseLimits \in BaseLimit /\ DOMAIN BaseLimits = Kind
  BY InputAssumption DEF BaseLimit, Kind
<1>2. BaseLimits[kind] \in Seq(Nat) /\ Len(BaseLimits[kind]) = 3
  BY <1>1, InputAssumption DEF BaseLimit, Kind, kBaseJointNum
<1>3. BaseLimits[kind][3] \in Nat
  BY <1>2
<1> QED
  BY <1>2, <1>3, KinematicsAssumption DEF Limits, Kind

(* The wheels go forward or back in whole steps. *)
LEMMA CandidatesAreWheels ==
    ASSUME NEW limit \in Int
    PROVE  GenerateCandidates(limit) \subseteq Wheels
<1>1. kSteps \in Nat \ {0} /\ limit \div kSteps \in Int
  BY KinematicsAssumption
<1>2. \A n \in Int : Steps(limit, n) \subseteq Int
  BY <1>1 DEF Steps
<1>3. Steps(limit, kSteps - 1) \subseteq Int
  BY <1>1, <1>2
<1> QED
  BY <1>3 DEF GenerateCandidates, Sides, Wheels

LEMMA YawLimitIsNumber ==
    ASSUME NEW wheels \in Wheels, NEW caster \in Nat
    PROVE  YawLimit(wheels, caster) \in Nat
BY DEF Wheels, YawLimit, YawOfWheels, Magnitude, SmallerOf

(* What the wheels leave of the axis, or what the axis leaves of the wheels*)
(* if they turn the base faster.                                           *)
LEMMA RatesOfBody ==
    ASSUME NEW wheels \in Wheels, NEW caster \in Nat
    PROVE  /\ YawOfWheels(wheels) \in Int
           /\ YawRates(wheels, caster) =
                  YawOfWheels(wheels) - caster .. YawOfWheels(wheels) + caster
<1> DEFINE y == YawOfWheels(wheels)
<1>1. y \in Int
  BY DEF Wheels, YawOfWheels
<1>2. ASSUME NEW rate \in y - caster .. y + caster PROVE rate \in YawRates(wheels, caster)
  <2>1. y - rate \in -caster .. caster /\ y - (y - rate) = rate
    BY <1>1
  <2> QED
    BY <2>1 DEF YawRates
<1>3. ASSUME NEW rate \in YawRates(wheels, caster) PROVE rate \in y - caster .. y + caster
  BY <1>1 DEF YawRates
<1> QED
  BY <1>1, <1>2, <1>3

LEMMA YawLimitSharp ==
    ASSUME NEW wheels \in Wheels, NEW caster \in Nat
    PROVE  IsSharp(YawLimit(wheels, caster), wheels, caster)
<1> DEFINE y        == YawOfWheels(wheels)
           l        == YawLimit(wheels, caster)
           rates    == YawRates(wheels, caster)
           bothWays == {rate \in rates : -rate \in rates}
<1>1. y \in Int /\ rates = y - caster .. y + caster
  BY RatesOfBody
<1>2. l = IF Magnitude(y) <= caster THEN caster - Magnitude(y) ELSE Magnitude(y) - caster
  BY <1>1 DEF YawLimit, SmallerOf, Magnitude
<1>3. CASE Magnitude(y) <= caster
  <2>1. l \in rates /\ -l \in rates
    BY <1>1, <1>2, <1>3 DEF Magnitude
  <2>2. ASSUME NEW rate \in rates, -rate \in rates PROVE rate <= l
    BY <1>1, <1>2, <1>3, <2>2 DEF Magnitude
  <2>3. l \in bothWays /\ \A rate \in bothWays : rate <= l
    BY <2>1, <2>2
  <2> QED
    BY <2>3, Zenon DEF IsSharp
<1>4. CASE ~(Magnitude(y) <= caster)
  <2>1. l \in rates \/ -l \in rates
    BY <1>1, <1>2, <1>4 DEF Magnitude
  <2>2. \A rate \in rates : Magnitude(rate) >= l /\ -rate \notin rates
    BY <1>1, <1>2, <1>4 DEF Magnitude
  <2>3. bothWays = {}
    BY <2>2
  <2> QED
    BY <2>1, <2>2, <2>3, Zenon DEF IsSharp
<1> QED
  BY <1>3, <1>4

(* An update, of one kind.  The other limits stay. *)
LEMMA LimitsUpdated ==
    ASSUME NEW kind \in Kind, step = kind, HasBothKinds,
           base_limit[kind] = BaseLimits[kind],
           NEW yaw \in Odometries, NEW joint_state \in JointStates,
           UpdateBase(kind, yaw, joint_state)
    PROVE  /\ \A m \in moving' : Relaxed(kind, m)'
           /\ \A other \in Kind \ {kind} : base_limit'[other] = base_limit[other]
           /\ HasBothKinds'
<1> DEFINE limit == Limits(kind)
           drift == DriftOf(kind, joint_state)
           roll  == joint_state.position.roll
           max(wheels) == CalculateBaseMax(wheels, limit.caster, drift, roll, yaw)
<1>1. PICK wheels \in Nearest(limit.wheel, drift, roll, Turned(ComputeBaseDirection, -yaw)) :
          /\ base_limit' = [base_limit EXCEPT ![kind] = UpdateLimits(@, max(wheels))]
          /\ moving' = {[kind |-> kind, wheels |-> wheels, yaw |-> yaw, joints |-> joint_state]}
  BY DEF UpdateBase
<1>2. wheels \in Wheels
  <2>1. wheels \in GenerateCandidates(limit.wheel)
    BY DEF Nearest
  <2> QED
    BY <2>1, LimitsAreNumbers, CandidatesAreWheels
<1>3. base_limit = [k \in Kind |-> base_limit[k]]
  BY DEF HasBothKinds
<1>4. base_limit'[kind] = UpdateLimits(BaseLimits[kind], max(wheels))
  BY <1>1, <1>3
<1>5. base_limit'[kind][3] = LargerOf(BaseLimits[kind][3], YawLimit(wheels, limit.caster))
  BY <1>4 DEF UpdateLimits, CalculateBaseMax, kBaseJointNum
<1>6. \A other \in Kind \ {kind} : base_limit'[other] = base_limit[other]
  BY <1>1, <1>3
<1>7. \A m \in moving' : Relaxed(kind, m)'
  BY <1>1, <1>2, <1>5 DEF Relaxed
<1>8. HasBothKinds'
  BY <1>1, <1>3 DEF HasBothKinds
<1> QED
  BY <1>6, <1>7, <1>8

LEMMA LimitsStep == LimitsInv /\ [Next]_vars => LimitsInv'
<1> SUFFICES ASSUME LimitsInv, [Next]_vars PROVE LimitsInv'
  OBVIOUS
<1> USE DEF LimitsInv
<1>1. CASE JointLimit
  <2>1. ASSUME base_limit' = BaseLimits
        PROVE  HasBothKinds' /\ base_limit'.acceleration = BaseLimits.acceleration
                             /\ base_limit'.velocity = BaseLimits.velocity
    BY <2>1, InputAssumption DEF HasBothKinds, BaseLimit, Kind
  <2>2. \/ step' = "velocity" /\ base_limit' = BaseLimits /\ moving' = moving
        \/ step' = "idle" /\ UNCHANGED limits
    BY <1>1 DEF JointLimit
  <2>3. moving' = {}
    BY <1>1, <2>2 DEF limits, JointLimit
  <2> QED
    BY <2>1, <2>2, <2>3, <1>1 DEF Kind, JointLimit
<1>2. ASSUME NEW kind \in Kind, NEW next \in {"acceleration", "extract"},
             UpdateBaseLimits(kind, next), kind = "velocity" <=> next = "acceleration"
      PROVE  LimitsInv'
  <2>1. step = kind /\ HasBothKinds /\ base_limit[kind] = BaseLimits[kind]
    BY <1>2 DEF UpdateBaseLimits, Kind
  <2>2. CASE ~HasTransform(2)
    <3>1. step' = "undefined" /\ UNCHANGED <<base_limit, moving>>
      BY <1>2, <2>2 DEF UpdateBaseLimits
    <3> QED
      BY <3>1 DEF Relaxed, Kind
  <2>3. CASE HasTransform(2)
    <3>1. step' = next
      BY <1>2, <2>3 DEF UpdateBaseLimits
    <3>2. PICK yaw \in Odometries, joint_state \in JointStates : UpdateBase(kind, yaw, joint_state)
      BY <1>2, <2>3 DEF UpdateBaseLimits
    <3>3. /\ \A m \in moving' : Relaxed(kind, m)'
          /\ \A other \in Kind \ {kind} : base_limit'[other] = base_limit[other]
          /\ HasBothKinds'
      BY <2>1, <3>2, LimitsUpdated
    <3>4. kind = "velocity" => base_limit'.acceleration = BaseLimits.acceleration
      BY <2>1, <3>3 DEF Kind
    <3> QED
      BY <1>2, <3>1, <3>3, <3>4 DEF Kind
  <2> QED
    BY <2>2, <2>3
<1>3. CASE UpdateBaseVelocities \/ UpdateBaseAccelarations
  BY <1>2, <1>3 DEF UpdateBaseVelocities, UpdateBaseAccelarations, Kind
<1>4. CASE ExtractInput
  BY <1>4 DEF ExtractInput, Kind
<1>5. CASE Filter
  BY <1>5 DEF Filter, NoLocals, Kind
<1>6. CASE SampleTrajectoryPoint \/ PublishSucceeded
  BY <1>6 DEF SampleTrajectoryPoint, PublishSucceeded, limits, Kind
<1>7. ASSUME NEW t \in Trajectories, ValidateRobotTrajectory(t) PROVE LimitsInv'
  BY <1>7 DEF ValidateRobotTrajectory, limits, Kind
<1>8. CASE UNCHANGED vars
  BY <1>8 DEF vars, limits, HasBothKinds, Relaxed
<1> QED
  BY <1>1, <1>3, <1>4, <1>5, <1>6, <1>7, <1>8 DEF Next

LEMMA LimitsInit == Init => LimitsInv
BY DEF Init, LimitsInv, Kind

(* A limit of the yaw that CalculateBaseMaxVelocity or                     *)
(* CalculateBaseMaxAcceleration relaxed is the largest the body can turn by*)
(* both ways or, if there is none, the slowest it has to turn one way, for *)
(* every drive, all limits of its joints and wherever it goes.             *)
THEOREM YawLimitIsSharpHolds == Spec => []YawLimitIsSharp
<1>1. LimitsInv => YawLimitIsSharp
  <2> SUFFICES ASSUME LimitsInv, NEW m \in moving,
                      base_limit[m.kind][3] # BaseLimits[m.kind][3]
               PROVE  IsSharp(base_limit[m.kind][3], m.wheels, Limits(m.kind).caster)
    BY DEF YawLimitIsSharp
  <2>1. PICK kind \in Kind : Relaxed(kind, m)
    BY DEF LimitsInv
  <2> DEFINE l == YawLimit(m.wheels, Limits(kind).caster)
  <2>2. m.kind = kind /\ m.wheels \in Wheels /\ base_limit[kind][3] = LargerOf(BaseLimits[kind][3], l)
    BY <2>1 DEF Relaxed
  <2>3. base_limit[kind][3] = l
    BY <2>2 DEF LargerOf
  <2> QED
    BY <2>2, <2>3, LimitsAreNumbers, YawLimitSharp
<1> QED
  BY <1>1, LimitsInit, LimitsStep, PTL DEF Spec

-----------------------------------------------------------------------------
(* Induction over the natural numbers, for sets instead of predicates. *)
Smaller == {p \in Nat \X Nat : p[1] < p[2]}

LEMMA NatMinimum ==
    ASSUME NEW S, S \subseteq Nat, S # {}
    PROVE  \E n \in S : \A m \in S : n <= m
<1>1. IsWellFoundedOn(Smaller, Nat)
  <2>1. Smaller = OpToRel(<, Nat)
    BY DEF Smaller, OpToRel
  <2> QED
    BY <2>1, NatLessThanWellFounded
<1>2. PICK n \in S : \A m \in S : <<m, n>> \notin Smaller
  BY <1>1, WFMin
<1>3. \A m \in S : n <= m
  <2> TAKE m \in S
  <2>1. <<m, n>> \in Nat \X Nat /\ ~(m < n)
    BY <1>2 DEF Smaller
  <2> QED
    BY <2>1
<1> QED
  BY <1>3

LEMMA InductionOverNat ==
    ASSUME NEW S, 0 \in S, \A n \in Nat : n \in S => n + 1 \in S
    PROVE  Nat \subseteq S
<1> SUFFICES ASSUME Nat \ S # {} PROVE FALSE
  OBVIOUS
<1>1. PICK n \in Nat \ S : \A m \in Nat \ S : n <= m
  BY NatMinimum
<1>2. n # 0 /\ n - 1 \in Nat /\ n - 1 \in S
  BY <1>1
<1> QED
  BY <1>1, <1>2

-----------------------------------------------------------------------------
(* Whole turns and what remains of them. *)

LEMMA DivisionByTurn ==
    ASSUME NEW a \in Int
    PROVE  /\ a % Turn \in 0 .. Turn - 1 /\ a \div Turn \in Int
           /\ a = Turn * (a \div Turn) + (a % Turn)
BY InputAssumption

LEMMA RemainderIsUnique ==
    ASSUME NEW a \in Int, NEW q \in Int, NEW r \in 0 .. Turn - 1, a = Turn * q + r
    PROVE  a % Turn = r
<1> DEFINE p == a \div Turn
           s == a % Turn
<1>1. p \in Int /\ s \in 0 .. Turn - 1 /\ a = Turn * p + s
  BY DivisionByTurn
<1>2. Turn \in Nat \ {0}
  BY InputAssumption
<1> HIDE DEF p, s
<1>3. Turn * (q - p) = s - r
  BY <1>1, <1>2
<1>4. ASSUME q - p >= 1 PROVE FALSE
  <2>1. Turn * (q - p) >= Turn * 1
    BY <1>1, <1>2, <1>4
  <2> QED
    BY <2>1, <1>1, <1>2, <1>3
<1>5. ASSUME p - q >= 1 PROVE FALSE
  <2>1. Turn * (p - q) >= Turn * 1
    BY <1>1, <1>2, <1>5
  <2> QED
    BY <2>1, <1>1, <1>2, <1>3
<1>6. q = p
  BY <1>1, <1>4, <1>5
<1>7. s = r
  BY <1>1, <1>2, <1>6
<1> QED
  BY <1>7 DEF s

LEMMA ShortestIsShort ==
    ASSUME NEW from \in Int, NEW to \in Int
    PROVE  LET d == ShortestAngularDistance(from, to)
           IN  /\ d \in Int /\ 2 * d <= Turn /\ -2 * d <= Turn
               /\ (from + d - to) % Turn = 0
<1> DEFINE r == (to - from) % Turn
           q == (to - from) \div Turn
           d == ShortestAngularDistance(from, to)
<1>1. r \in 0 .. Turn - 1 /\ q \in Int /\ to - from = Turn * q + r
  BY DivisionByTurn
<1>2. Turn \in Nat \ {0} /\ 0 \in 0 .. Turn - 1
  BY InputAssumption
<1>3. d = IF r > Turn \div 2 THEN r - Turn ELSE r
  BY DEF ShortestAngularDistance
<1>4. Turn \div 2 \in Nat /\ (Turn = 2 * (Turn \div 2) \/ Turn = 2 * (Turn \div 2) + 1)
  BY <1>2
<1> HIDE DEF d, r, q
<1>5. d \in Int /\ 2 * d <= Turn /\ -2 * d <= Turn
  BY <1>1, <1>2, <1>3, <1>4
<1>6. PICK p \in {-q, -q - 1} : from + d - to = Turn * p + 0
  BY <1>1, <1>2, <1>3
<1>7. (from + d - to) % Turn = 0
  <2>1. p \in Int /\ from + d - to \in Int
    BY <1>1, <1>5
  <2> QED
    BY <2>1, <1>2, <1>6, RemainderIsUnique
<1> QED
  BY <1>5, <1>7 DEF d

-----------------------------------------------------------------------------
(* The recursion of Yaws. *)

NextYaw(points, k, yaw) == yaw + ShortestAngularDistance(yaw, points[k].yaw)

Theta(points, n, g) == g = [k \in 0 .. n |-> IF k = 0 THEN 0 ELSE NextYaw(points, k, g[k - 1])]

LEMMA ThetaExists ==
    ASSUME NEW points, NEW n \in Nat
    PROVE  \E g : Theta(points, n, g)
<1> DEFINE S == {m \in Nat : \E g : Theta(points, m, g)}
<1>1. 0 \in S
  <2>1. Theta(points, 0, [k \in 0 .. 0 |-> 0])
    BY DEF Theta
  <2> QED
    BY <2>1
<1>2. ASSUME NEW m \in Nat, m \in S PROVE m + 1 \in S
  <2>1. PICK g : Theta(points, m, g)
    BY <1>2
  <2> DEFINE h == [k \in 0 .. m + 1 |->
                      IF k = m + 1 THEN NextYaw(points, k, g[m]) ELSE g[k]]
  <2>2. \A k \in 0 .. m : g[k] = IF k = 0 THEN 0 ELSE NextYaw(points, k, g[k - 1])
    BY <2>1 DEF Theta
  <2>3. \A k \in 0 .. m + 1 : h[k] = IF k = 0 THEN 0 ELSE NextYaw(points, k, h[k - 1])
    <3> TAKE k \in 0 .. m + 1
    <3>1. CASE k = m + 1
      <4>1. k # 0 /\ k - 1 = m /\ h[m] = g[m] /\ h[k] = NextYaw(points, k, g[m])
        BY <3>1
      <4> QED
        BY <4>1
    <3>2. CASE k \in 0 .. m
      <4>1. h[k] = g[k] /\ (k # 0 => h[k - 1] = g[k - 1])
        BY <3>2
      <4> QED
        BY <4>1, <3>2, <2>2
    <3> QED
      BY <3>1, <3>2
  <2>4. Theta(points, m + 1, h)
    BY <2>3 DEF Theta
  <2> QED
    BY <2>4
<1> HIDE DEF S
<1>3. Nat \subseteq S
  BY <1>1, <1>2, InductionOverNat
<1> QED
  BY <1>3 DEF S

LEMMA YawsAreNumbers ==
    ASSUME NEW points \in Seq(BasePoint), NEW k \in 1 .. Len(points)
    PROVE  points[k].yaw \in Int
<1>1. points[k] \in BasePoint /\ Turn \in Nat
  BY InputAssumption
<1> QED
  BY <1>1 DEF BasePoint

LEMMA YawsAreNext ==
    ASSUME NEW points \in Seq(BasePoint)
    PROVE  /\ Len(points) > 0 => Yaws(points)[1] = NextYaw(points, 1, 0)
           /\ \A k \in 1 .. Len(points) - 1 : Yaws(points)[k + 1] = NextYaw(points, k + 1, Yaws(points)[k])
           /\ \A k \in 1 .. Len(points) : Yaws(points)[k] \in Int
<1> DEFINE n == Len(points)
           theta == CHOOSE g : Theta(points, n, g)
<1>1. n \in Nat /\ DOMAIN points = 1 .. n
  OBVIOUS
<1>2. Theta(points, n, theta)
  BY <1>1, ThetaExists
<1>3. Yaws(points) = [k \in 1 .. n |-> theta[k]]
  BY <1>1 DEF Yaws, Theta, NextYaw
<1> HIDE DEF theta
<1>4. \A k \in 0 .. n : theta[k] = IF k = 0 THEN 0 ELSE NextYaw(points, k, theta[k - 1])
  BY <1>2 DEF Theta
<1> DEFINE S == {m \in Nat : m \in 0 .. n => theta[m] \in Int}
<1>5. 0 \in S
  BY <1>1, <1>4
<1>6. ASSUME NEW m \in Nat, m \in S PROVE m + 1 \in S
  <2> SUFFICES ASSUME m + 1 \in 0 .. n PROVE theta[m + 1] \in Int
    OBVIOUS
  <2>1. theta[m] \in Int /\ theta[m + 1] = NextYaw(points, m + 1, theta[m])
    BY <1>1, <1>4, <1>6
  <2>2. points[m + 1].yaw \in Int
    BY <1>1, YawsAreNumbers
  <2>3. ShortestAngularDistance(theta[m], points[m + 1].yaw) \in Int
    BY <2>1, <2>2, ShortestIsShort
  <2> QED
    BY <2>1, <2>3 DEF NextYaw
<1> HIDE DEF S
<1>7. Nat \subseteq S
  BY <1>5, <1>6, InductionOverNat
<1>8. \A k \in 0 .. n : theta[k] \in Int
  BY <1>1, <1>7 DEF S
<1> QED
  BY <1>1, <1>3, <1>4, <1>8

(* The first way point left out, each of the others turns to the yaw of    *)
(* its base point by the shortest way.                                     *)
LEMMA ExtractedTurns ==
    ASSUME AcceptedInv, ExtractInput
    PROVE  TurnsTheShortWay'
<1> DEFINE points == trajectory.base_points
<1> SUFFICES ASSUME step' = "filter" PROVE TurnsTheShortWay'
  BY DEF TurnsTheShortWay
<1>1. /\ CanExtract /\ Valid(trajectory) /\ trajectory' = trajectory
      /\ initial'.yaw = ShortestAngularDistance(0, points[1].yaw)
      /\ way_points' = Tail(WayPoints)
  BY DEF ExtractInput, AcceptedInv
<1>2. /\ points \in Seq(BasePoint) /\ trajectory.joint_points \in Seq(JointPoint)
      /\ trajectory.joint_names \in Nat
  BY <1>1 DEF Valid, RobotTrajectory
<1>3. PointNum \in Nat \ {0} /\ PointNum <= Len(points) /\ Len(points) \in Nat
  BY <1>1, <1>2 DEF CanExtract, HasTransform, PointNum, JointNum, Valid, ValidatePoints
<1>4. /\ DOMAIN WayPoints = 1 .. PointNum
      /\ WayPoints = [k \in 1 .. PointNum |-> WayPoints[k]]
      /\ \A k \in 1 .. PointNum : WayPoints[k].yaw = Yaws(points)[k]
  BY DEF WayPoints
<1>5. DOMAIN way_points' = 1 .. PointNum - 1
  BY <1>1, <1>3, <1>4, TailOfFunction
<1>6. \A k \in 1 .. PointNum - 1 : way_points'[k].yaw = Yaws(points)[k + 1]
  <2> TAKE k \in 1 .. PointNum - 1
  <2>1. k + 1 \in 1 .. PointNum
    BY <1>3
  <2>2. way_points'[k] = WayPoints[k + 1]
    BY <1>1, <1>3, <1>4, TailOfFunction
  <2> QED
    BY <2>1, <2>2, <1>4
<1>7. initial'.yaw = Yaws(points)[1]
  <2>1. points[1].yaw \in Int /\ 0 \in Int
    BY <1>2, <1>3, YawsAreNumbers
  <2>2. ShortestAngularDistance(0, points[1].yaw) \in Int
    BY <2>1, ShortestIsShort
  <2> QED
    BY <1>1, <1>2, <1>3, <2>2, YawsAreNext DEF NextYaw
<1>8. ASSUME NEW k \in 1 .. PointNum - 1
      PROVE  LET before == IF k = 1 THEN initial'.yaw ELSE way_points'[k - 1].yaw
                 turn   == way_points'[k].yaw - before
             IN  /\ 2 * turn <= Turn /\ -2 * turn <= Turn
                 /\ (way_points'[k].yaw - points[k + 1].yaw) % Turn = 0
  <2> DEFINE before == IF k = 1 THEN initial'.yaw ELSE way_points'[k - 1].yaw
             to == points[k + 1].yaw
             turn == ShortestAngularDistance(before, to)
  <2>1. before = Yaws(points)[k]
    BY <1>3, <1>6, <1>7
  <2>2. before \in Int /\ to \in Int
    <3>1. k \in 1 .. Len(points) /\ k + 1 \in 1 .. Len(points)
      BY <1>3
    <3> QED
      BY <3>1, <2>1, <1>2, YawsAreNext, YawsAreNumbers
  <2>3. way_points'[k].yaw = before + turn
    <3>1. k \in 1 .. Len(points) - 1
      BY <1>3
    <3> QED
      BY <3>1, <2>1, <1>2, <1>6, YawsAreNext DEF NextYaw
  <2>4. turn \in Int /\ 2 * turn <= Turn /\ -2 * turn <= Turn /\ (before + turn - to) % Turn = 0
    BY <2>2, ShortestIsShort
  <2> HIDE DEF before, to, turn
  <2>5. way_points'[k].yaw - before = turn
    BY <2>2, <2>3, <2>4
  <2>6. (way_points'[k].yaw - to) % Turn = 0
    <3>1. way_points'[k].yaw - to = before + turn - to
      BY <2>2, <2>3, <2>4
    <3> QED
      BY <3>1, <2>4, Zenon
  <2> QED
    BY <2>4, <2>5, <2>6 DEF before, to
<1> QED
  BY <1>1, <1>5, <1>8 DEF TurnsTheShortWay

(* Between neighbours the base is never sent the long way round, however   *)
(* many points there are and however far they turn in all                  *)
(* (optimizer_node.cpp, ExtractWayPoints).                                 *)
THEOREM TurnsTheShortWayHolds == Spec => []TurnsTheShortWay
<1>1. Init => TurnsTheShortWay
  BY DEF Init, TurnsTheShortWay
<1>2. ASSUME AcceptedInv, TurnsTheShortWay, [Next]_vars PROVE TurnsTheShortWay'
  <2>1. ASSUME step' # "filter" PROVE TurnsTheShortWay'
    BY <2>1 DEF TurnsTheShortWay
  <2>2. CASE UpdateBaseVelocities \/ UpdateBaseAccelarations
    BY <2>1, <2>2 DEF UpdateBaseVelocities, UpdateBaseAccelarations, UpdateBaseLimits
  <2>3. ASSUME NEW t \in Trajectories, ValidateRobotTrajectory(t) PROVE TurnsTheShortWay'
    BY <2>1, <2>3 DEF ValidateRobotTrajectory
  <2>4. CASE JointLimit \/ Filter \/ SampleTrajectoryPoint \/ PublishSucceeded
    <3>1. step' \in {"velocity", "idle", "sample", "done"}
      BY <2>4 DEF JointLimit, Filter, SampleTrajectoryPoint, PublishSucceeded
    <3> QED
      BY <3>1, <2>1
  <2>5. CASE UNCHANGED vars
    <3>1. step' = step /\ trajectory' = trajectory /\ initial' = initial /\ way_points' = way_points
      BY <2>5 DEF vars, input
    <3> QED
      BY <1>2, <3>1, Zenon DEF TurnsTheShortWay
  <2> QED
    BY <1>2, <2>2, <2>3, <2>4, <2>5, ExtractedTurns DEF Next
<1> QED
  BY <1>1, <1>2, AcceptedInit, AcceptedStep, PTL DEF Spec

-----------------------------------------------------------------------------
(* The base is fast enough: what the drive does.                           *)

LEMMA TurnedIsVector ==
    ASSUME NEW v \in Vector, NEW q \in Int
    PROVE  /\ Turned(v, q) \in Vector
           /\ \/ Turned(v, q) = v
              \/ Turned(v, q) = <<-v[2], v[1]>>
              \/ Turned(v, q) = <<-v[1], -v[2]>>
              \/ Turned(v, q) = <<v[2], -v[1]>>
           /\ v # <<0, 0>> => Turned(v, q) # <<0, 0>>
<1>1. v = <<v[1], v[2]>> /\ v[1] \in Int /\ v[2] \in Int
  BY DEF Vector
<1>2. q % 4 = 0 \/ q % 4 = 1 \/ q % 4 = 2 \/ q % 4 = 3
  OBVIOUS
<1> QED
  BY <1>1, <1>2 DEF Turned, Vector

LEMMA StepsWithinLimit ==
    ASSUME NEW limit \in Nat \ {0}, limit % kSteps = 0, NEW x \in Steps(limit, kSteps)
    PROVE  /\ x \in Int /\ -limit <= x /\ x <= limit
           /\ x \notin {limit, -limit} => x \in Steps(limit, kSteps - 1)
<1> DEFINE q == limit \div kSteps
<1>1. kSteps \in Nat \ {0} /\ q \in Nat /\ limit = q * kSteps
  BY KinematicsAssumption
<1>2. PICK i \in -kSteps .. kSteps : x = q * i
  BY DEF Steps
<1> HIDE DEF q
<1>3. q * i <= q * kSteps /\ q * (-kSteps) <= q * i /\ q * (-kSteps) = -limit
  BY <1>1, <1>2
<1>4. ASSUME x \notin {limit, -limit} PROVE i \in -(kSteps - 1) .. kSteps - 1
  <2>1. i # kSteps /\ i # -kSteps
    BY <1>1, <1>2, <1>3, <1>4
  <2> QED
    BY <1>1, <2>1
<1> QED
  BY <1>1, <1>2, <1>3, <1>4 DEF Steps, q

(* All that the wheels can do, on and within the edge. *)
Drives(limit) == [right : Steps(limit, kSteps), left : Steps(limit, kSteps)]
OnEdge(c, limit) == limit \in {Magnitude(c.right), Magnitude(c.left)}

LEMMA EdgeIsGenerated ==
    ASSUME NEW limit \in Nat \ {0}, limit % kSteps = 0, NEW c \in Drives(limit), OnEdge(c, limit)
    PROVE  c \in GenerateCandidates(limit)
<1>1. /\ c.right \in Int /\ c.left \in Int
      /\ c.right \notin {limit, -limit} => c.right \in Steps(limit, kSteps - 1)
      /\ c.left \notin {limit, -limit} => c.left \in Steps(limit, kSteps - 1)
  BY StepsWithinLimit DEF Drives
<1>2. c.right \in {limit, -limit} \/ c.left \in {limit, -limit}
  BY <1>1 DEF OnEdge, Magnitude
<1>3. c = [right |-> c.right, left |-> c.left]
  BY DEF Drives
<1> QED
  BY <1>1, <1>2, <1>3 DEF GenerateCandidates, Sides

LEMMA GeneratedIsEdge ==
    ASSUME NEW limit \in Nat \ {0}, NEW c \in GenerateCandidates(limit)
    PROVE  /\ c.right \in Int /\ c.left \in Int
           /\ c.right \in {limit, -limit} \/ c.left \in {limit, -limit}
<1>1. c \in Wheels
  BY CandidatesAreWheels
<1> QED
  BY <1>1 DEF GenerateCandidates, Sides, Wheels

-----------------------------------------------------------------------------
(* Directions. *)

LEMMA SquareAndProduct ==
    ASSUME NEW a \in Int, NEW b \in Int, NEW x \in Int, NEW y \in Int
    PROVE  (a * x + b * y) * (a * x + b * y) + (a * y - (b * x)) * (a * y - (b * x))
           = (a * a + b * b) * (x * x + y * y)
OBVIOUS

LEMMA SquareIsPositive == ASSUME NEW a \in Int PROVE a * a >= 0 /\ (a * a = 0 => a = 0)
OBVIOUS

LEMMA DotsAreNumbers ==
    ASSUME NEW u \in Vector, NEW v \in Vector
    PROVE  /\ Dot(u, v) \in Int /\ Cross(u, v) \in Int
           /\ Dot(v, v) >= 0 /\ (v # <<0, 0>> => Dot(v, v) > 0)
           /\ Dot(u, v) * Dot(u, v) + Cross(u, v) * Cross(u, v) = Dot(u, u) * Dot(v, v)
<1>1. /\ u = <<u[1], u[2]>> /\ u[1] \in Int /\ u[2] \in Int
      /\ v = <<v[1], v[2]>> /\ v[1] \in Int /\ v[2] \in Int
  BY DEF Vector
<1>2. Dot(u, v) \in Int /\ Cross(u, v) \in Int
  BY <1>1 DEF Dot, Cross
<1>3. v[1] * v[1] >= 0 /\ v[2] * v[2] >= 0 /\ (v[1] * v[1] = 0 => v[1] = 0) /\ (v[2] * v[2] = 0 => v[2] = 0)
  BY <1>1, SquareIsPositive
<1>4. Dot(v, v) >= 0 /\ (v # <<0, 0>> => Dot(v, v) > 0)
  BY <1>1, <1>3 DEF Dot
<1>5. Dot(u, v) * Dot(u, v) + Cross(u, v) * Cross(u, v) = Dot(u, u) * Dot(v, v)
  BY <1>1, SquareAndProduct DEF Dot, Cross
<1> QED
  BY <1>2, <1>4, <1>5

LEMMA Cancelled ==
    ASSUME NEW a \in Int, NEW b \in Int, NEW c \in Int, a > 0, a * b <= a * c
    PROVE  b <= c
OBVIOUS

LEMMA ProductOfPositive == ASSUME NEW a \in Int, NEW b \in Int, a > 0, b > 0 PROVE a * b > 0
OBVIOUS

(* What no vector along d is nearer to d than goes along d itself. *)
LEMMA NoneNearerIsAlong ==
    ASSUME NEW d \in Vector, NEW u \in Vector, NEW v \in Vector,
           d # <<0, 0>>, u # <<0, 0>>, v # <<0, 0>>, Along(d, u), ~Nearer(d, u, v)
    PROVE  Along(d, v)
<1> DEFINE a == Dot(d, u)
           b == Dot(d, v)
           D == Dot(d, d)
           E == Dot(u, u)
           W == Dot(v, v)
           x == Cross(d, v)
<1>1. /\ a \in Int /\ b \in Int /\ D \in Int /\ E \in Int /\ W \in Int /\ x \in Int
      /\ D > 0 /\ E > 0 /\ W > 0
      /\ b * b + x * x = D * W
  BY DotsAreNumbers
<1>2. a > 0 /\ a * a = D * E
  <2>1. a * a + Cross(d, u) * Cross(d, u) = D * E /\ Cross(d, u) = 0
    BY DotsAreNumbers DEF Along
  <2> QED
    BY <1>1, <2>1 DEF Along
<1>3. a * a * W <= b * Magnitude(b) * E
  <2>1. Magnitude(a) = a
    BY <1>1, <1>2 DEF Magnitude
  <2>2. ~(a * Magnitude(a) * W > b * Magnitude(b) * E)
    BY DEF Nearer
  <2>3. Magnitude(b) \in Int
    BY <1>1 DEF Magnitude
  <2> HIDE DEF a, b, E, W
  <2> QED
    BY <1>1, <2>1, <2>2, <2>3
<1> HIDE DEF a, b, D, E, W, x
<1>4. D * W <= b * Magnitude(b)
  <2>1. Magnitude(b) \in Int
    BY <1>1 DEF Magnitude
  <2>2. a * a * W = E * (D * W) /\ b * Magnitude(b) * E = E * (b * Magnitude(b))
    BY <1>1, <1>2, <2>1
  <2>3. D * W \in Int /\ b * Magnitude(b) \in Int
    BY <1>1, <2>1
  <2> QED
    BY <1>1, <1>3, <2>2, <2>3, Cancelled
<1>5. b > 0
  <2>1. D * W > 0
    BY <1>1, ProductOfPositive
  <2>2. ASSUME b <= 0 PROVE b * Magnitude(b) <= 0
    <3>1. Magnitude(b) = -b
      BY <1>1, <2>2 DEF Magnitude
    <3>2. b * Magnitude(b) = -(b * b)
      BY <1>1, <3>1
    <3> QED
      BY <1>1, <3>2, SquareIsPositive
  <2>3. D * W \in Int /\ b * Magnitude(b) \in Int
    BY <1>1 DEF Magnitude
  <2> QED
    BY <1>1, <1>4, <2>1, <2>2, <2>3
<1>6. x = 0
  <2>1. Magnitude(b) = b
    BY <1>1, <1>5 DEF Magnitude
  <2>2. x * x <= 0
    BY <1>1, <1>4, <2>1
  <2> QED
    BY <1>1, <2>2, SquareIsPositive
<1> QED
  BY <1>5, <1>6 DEF Along, b, x

LEMMA Decomposed ==
    ASSUME NEW a \in Int, NEW b \in Int, NEW x \in Int, NEW y \in Int
    PROVE  /\ (a * a + b * b) * x = a * (a * x + b * y) - (b * (a * y - (b * x)))
           /\ (a * a + b * b) * y = b * (a * x + b * y) + a * (a * y - (b * x))
OBVIOUS

(* Vectors along d are multiples of each other. *)
LEMMA AlongIsProportional ==
    ASSUME NEW d \in Vector, NEW u \in Vector, NEW v \in Vector, d # <<0, 0>>,
           Along(d, u), Along(d, v), NEW i \in 1 .. 2
    PROVE  Dot(d, v) * u[i] = Dot(d, u) * v[i]
<1> DEFINE D == Dot(d, d)
           a == Dot(d, v)
           b == Dot(d, u)
<1>1. /\ d = <<d[1], d[2]>> /\ d[1] \in Int /\ d[2] \in Int
      /\ D \in Int /\ a \in Int /\ b \in Int /\ D > 0
  BY DotsAreNumbers DEF Vector
<1>2. ASSUME NEW x \in Vector, Cross(d, x) = 0
      PROVE  D * x[1] = d[1] * Dot(d, x) /\ D * x[2] = d[2] * Dot(d, x)
  <2> DEFINE p == d[1]
             q == d[2]
             y == x[1]
             z == x[2]
  <2>1. p \in Int /\ q \in Int /\ y \in Int /\ z \in Int
    BY DEF Vector
  <2> HIDE DEF p, q, y, z
  <2>2. /\ (p * p + q * q) * y = p * (p * y + q * z) - (q * (p * z - (q * y)))
        /\ (p * p + q * q) * z = q * (p * y + q * z) + p * (p * z - (q * y))
    BY <2>1, Decomposed
  <2>3. /\ D * x[1] = d[1] * Dot(d, x) - (d[2] * Cross(d, x))
        /\ D * x[2] = d[2] * Dot(d, x) + d[1] * Cross(d, x)
    BY <2>2 DEF Dot, Cross, p, q, y, z
  <2>4. Dot(d, x) \in Int
    BY DotsAreNumbers
  <2> HIDE DEF D
  <2> QED
    BY <1>1, <1>2, <2>3, <2>4
<1>3. D * u[i] = d[i] * b /\ D * v[i] = d[i] * a
  BY <1>2 DEF Along
<1>4. u[i] \in Int /\ v[i] \in Int /\ d[i] \in Int
  BY DEF Vector
<1> HIDE DEF D, a, b
<1>5. D * (a * u[i]) = D * (b * v[i])
  <2>1. D * (a * u[i]) = a * (D * u[i]) /\ D * (b * v[i]) = b * (D * v[i])
    BY <1>1, <1>4
  <2>2. a * (d[i] * b) = b * (d[i] * a)
    BY <1>1, <1>4
  <2> QED
    BY <1>3, <2>1, <2>2
<1>6. a * u[i] \in Int /\ b * v[i] \in Int
  BY <1>1, <1>4
<1>7. a * u[i] <= b * v[i] /\ b * v[i] <= a * u[i]
  BY <1>1, <1>5, <1>6, Cancelled
<1> QED
  BY <1>6, <1>7 DEF a, b

-----------------------------------------------------------------------------
(* Wheels at their limit take the base farther in a direction than others. *)

(* What moves the base, as the share of the right and of the left wheel in *)
(* it, in units that keep it an integer.                                   *)
RightShare(x) == 2 * caster_offset * x[1] + tread * x[2]
LeftShare(x) == 2 * caster_offset * x[1] - (tread * x[2])
Unit == 4 * tread * caster_offset

(* The wheels can make up for what else moves the base. *)
Counters(limit, x) ==
    /\ RightShare(x) < Unit * limit /\ -(Unit * limit) < RightShare(x)
    /\ LeftShare(x) < Unit * limit /\ -(Unit * limit) < LeftShare(x)

(* In the frame of the wheels. *)
InFrame(c, x) == <<tread * (c.right + c.left) + x[1],
                   2 * caster_offset * (c.right - c.left) + x[2]>>

LEMMA SharesOfWheels ==
    ASSUME NEW c, c.right \in Int, c.left \in Int, NEW x \in Vector
    PROVE  /\ InFrame(c, x) \in Vector /\ Unit \in Nat \ {0}
           /\ RightShare(x) \in Int /\ LeftShare(x) \in Int
           /\ RightShare(InFrame(c, x)) = Unit * c.right + RightShare(x)
           /\ LeftShare(InFrame(c, x)) = Unit * c.left + LeftShare(x)
<1> DEFINE t == tread
           o == caster_offset
           r == c.right
           l == c.left
           p == x[1]
           q == x[2]
<1>1. /\ t \in Nat \ {0} /\ o \in Nat \ {0} /\ r \in Int /\ l \in Int /\ p \in Int /\ q \in Int
  BY KinematicsAssumption DEF Vector
<1> HIDE DEF t, o, r, l, p, q
<1>2. /\ t * (r + l) + p \in Int /\ 2 * o * (r - l) + q \in Int
      /\ 4 * t * o \in Nat \ {0}
      /\ 2 * o * p + t * q \in Int /\ 2 * o * p - (t * q) \in Int
      /\ 2 * o * (t * (r + l) + p) + t * (2 * o * (r - l) + q) = 4 * t * o * r + (2 * o * p + t * q)
      /\ 2 * o * (t * (r + l) + p) - (t * (2 * o * (r - l) + q)) = 4 * t * o * l + (2 * o * p - (t * q))
  BY <1>1
<1> QED
  BY <1>2 DEF InFrame, Vector, Unit, RightShare, LeftShare, t, o, r, l, p, q

(* A wheel at its limit, another one within: a and b as the courses relate.*)
LEMMA LimitTakesFarther ==
    ASSUME NEW a \in Int, NEW b \in Int, a > 0, b > 0,
           NEW k \in Nat \ {0}, NEW limit \in Nat \ {0}, NEW share \in Int,
           share < k * limit, -(k * limit) < share,
           NEW at \in {limit, -limit}, NEW within \in Int, -limit <= within, within <= limit,
           a * (k * within + share) = b * (k * at + share)
    PROVE  b <= a
<1> SUFFICES ASSUME b - a > 0 PROVE FALSE
  OBVIOUS
<1>1. k * within \in Int /\ k * limit \in Int /\ k * within <= k * limit /\ -(k * limit) <= k * within
  BY SMT
<1> DEFINE far == k * limit
           near == k * within
<1>2. far \in Int /\ near \in Int /\ near <= far /\ -far <= near /\ share < far /\ -far < share
  BY <1>1
<1>3. CASE at = limit
  <2>1. a * (near + share) = b * (far + share)
    BY <1>3
  <2> HIDE DEF far, near
  <2>2. (b - a) * (far + share) > 0
    BY <1>2, ProductOfPositive
  <2>3. a * (near + share) <= a * (far + share)
    BY <1>2
  <2>4. (b - a) * (far + share) = b * (far + share) - (a * (far + share))
    BY <1>2
  <2>5. a * (near + share) \in Int /\ a * (far + share) \in Int /\ b * (far + share) \in Int
    BY <1>2
  <2> QED
    BY <2>1, <2>2, <2>3, <2>4, <2>5
<1>4. CASE at = -limit
  <2>1. k * at = -far
    BY <1>4
  <2>2. a * (near + share) = b * (share - far)
    BY <1>1, <2>1
  <2> HIDE DEF far, near
  <2>3. (b - a) * (far - share) > 0
    BY <1>2, ProductOfPositive
  <2>4. a * (-near - share) <= a * (far - share)
    BY <1>2
  <2>5. /\ (b - a) * (far - share) = b * (far - share) - (a * (far - share))
        /\ a * (-near - share) = -(a * (near + share))
        /\ b * (share - far) = -(b * (far - share))
    BY <1>2
  <2>6. a * (near + share) \in Int /\ a * (far - share) \in Int /\ b * (far - share) \in Int
    BY <1>2
  <2> QED
    BY <2>2, <2>3, <2>4, <2>5, <2>6
<1> QED
  BY <1>3, <1>4

(* Turning keeps how vectors relate. *)
LEMMA TurnedAlike ==
    ASSUME NEW u \in Vector, NEW v \in Vector, NEW q \in Int, NEW a \in Int, NEW b \in Int,
           a * Turned(u, q)[1] = b * Turned(v, q)[1], a * Turned(u, q)[2] = b * Turned(v, q)[2]
    PROVE  a * u[1] = b * v[1] /\ a * u[2] = b * v[2]
<1>1. ASSUME NEW x \in Int, NEW y \in Int PROVE a * (-x) = b * (-y) => a * x = b * y
  <2>1. a * (-x) = -(a * x) /\ b * (-y) = -(b * y) /\ a * x \in Int /\ b * y \in Int
    OBVIOUS
  <2> QED
    BY <2>1
<1>2. u[1] \in Int /\ u[2] \in Int /\ v[1] \in Int /\ v[2] \in Int
  BY DEF Vector
<1>3. q % 4 = 0 \/ q % 4 = 1 \/ q % 4 = 2 \/ q % 4 = 3
  OBVIOUS
<1> QED
  BY <1>1, <1>2, <1>3 DEF Turned

LEMMA SmallerMultiple ==
    ASSUME NEW a \in Int, NEW b \in Int, a > 0, b > 0, b <= a,
           NEW x \in Int, NEW y \in Int, a * x = b * y
    PROVE  Magnitude(x) <= Magnitude(y)
<1>1. ASSUME NEW m \in Nat, NEW n \in Nat, a * m = b * n PROVE m <= n
  <2>1. b * n <= a * n
    BY <1>1
  <2> QED
    BY <1>1, <2>1, Cancelled
<1>2. a * (-x) = b * (-y)
  <2>1. a * (-x) = -(a * x) /\ b * (-y) = -(b * y)
    OBVIOUS
  <2> QED
    BY <2>1
<1>3. (x >= 0 /\ y >= 0) \/ (x <= 0 /\ y <= 0)
  <2>1. x > 0 => a * x > 0
    BY ProductOfPositive
  <2>2. y > 0 => b * y > 0
    BY ProductOfPositive
  <2>3. -x > 0 => a * (-x) > 0
    BY ProductOfPositive
  <2>4. -y > 0 => b * (-y) > 0
    BY ProductOfPositive
  <2>5. a * x \in Int /\ b * y \in Int /\ a * (-x) = -(a * x) /\ b * (-y) = -(b * y)
    OBVIOUS
  <2> QED
    BY <2>1, <2>2, <2>3, <2>4, <2>5
<1>4. CASE x >= 0 /\ y >= 0
  BY <1>1, <1>4 DEF Magnitude
<1>5. CASE x <= 0 /\ y <= 0
  <2>1. -x <= -y
    BY <1>1, <1>2, <1>5
  <2> QED
    BY <1>5, <2>1 DEF Magnitude
<1> QED
  BY <1>3, <1>4, <1>5

LEMMA SmallerOnAxis ==
    ASSUME NEW u \in Vector, NEW v \in Vector, NEW q \in Int,
           \A i \in 1 .. 2 : Magnitude(u[i]) <= Magnitude(v[i]), NEW axis \in 1 .. 2
    PROVE  Magnitude(Turned(u, q)[axis]) <= Magnitude(Turned(v, q)[axis])
<1>1. u[1] \in Int /\ u[2] \in Int /\ v[1] \in Int /\ v[2] \in Int
  BY DEF Vector
<1>2. q % 4 = 0 \/ q % 4 = 1 \/ q % 4 = 2 \/ q % 4 = 3
  OBVIOUS
<1>3. \A x \in Int : Magnitude(-x) = Magnitude(x)
  BY DEF Magnitude
<1>4. axis = 1 \/ axis = 2
  OBVIOUS
<1> QED
  BY <1>1, <1>2, <1>3, <1>4 DEF Turned

(* The velocity or acceleration the wheels give the base, and what it is   *)
(* in the frame of the wheels.                                             *)
LEMMA MovedInFrame ==
    ASSUME NEW c, c.right \in Int, c.left \in Int, NEW x \in Vector, NEW roll \in Int
    PROVE  /\ Sum(Moved(c, roll), Turned(x, roll)) = Turned(InFrame(c, x), roll)
           /\ Turned(InFrame(c, x), roll) \in Vector
<1>1. x[1] \in Int /\ x[2] \in Int /\ x = <<x[1], x[2]>>
  BY DEF Vector
<1> DEFINE y == <<tread * (c.right + c.left), 2 * caster_offset * (c.right - c.left)>>
<1>2. y[1] \in Int /\ y[2] \in Int /\ y \in Vector /\ InFrame(c, x) = <<y[1] + x[1], y[2] + x[2]>>
  BY KinematicsAssumption DEF InFrame, Vector
<1>3. roll % 4 = 0 \/ roll % 4 = 1 \/ roll % 4 = 2 \/ roll % 4 = 3
  OBVIOUS
<1>4. Moved(c, roll) = Turned(y, roll)
  BY DEF Moved
<1> HIDE DEF y
<1>5. Sum(Turned(y, roll), Turned(x, roll)) = Turned(<<y[1] + x[1], y[2] + x[2]>>, roll)
  BY <1>1, <1>2, <1>3 DEF Sum, Turned
<1>6. <<y[1] + x[1], y[2] + x[2]>> \in Vector
  BY <1>1, <1>2 DEF Vector
<1> QED
  BY <1>2, <1>4, <1>5, <1>6, TurnedIsVector

(* The shares relate as the vectors do. *)
LEMMA LinearAlike ==
    ASSUME NEW a \in Int, NEW b \in Int, NEW n \in Int, NEW t \in Int,
           NEW x \in Int, NEW y \in Int, NEW z \in Int, NEW w \in Int,
           a * x = b * z, a * y = b * w
    PROVE  a * (n * x + t * y) = b * (n * z + t * w)
<1>1. a * (n * x + t * y) = n * (a * x) + t * (a * y)
  OBVIOUS
<1>2. b * (n * z + t * w) = n * (b * z) + t * (b * w)
  OBVIOUS
<1> QED
  BY <1>1, <1>2

LEMMA SharesAlike ==
    ASSUME NEW u \in Vector, NEW v \in Vector, NEW a \in Int, NEW b \in Int,
           a * u[1] = b * v[1], a * u[2] = b * v[2]
    PROVE  a * RightShare(u) = b * RightShare(v) /\ a * LeftShare(u) = b * LeftShare(v)
<1> DEFINE n == 2 * caster_offset
           t == tread
           u1 == u[1]
           u2 == u[2]
           v1 == v[1]
           v2 == v[2]
<1>1. /\ n \in Int /\ t \in Int /\ -t \in Int
      /\ u1 \in Int /\ u2 \in Int /\ v1 \in Int /\ v2 \in Int
      /\ a * u1 = b * v1 /\ a * u2 = b * v2
  BY KinematicsAssumption DEF Vector
<1> HIDE DEF n, t, u1, u2, v1, v2
<1>2. a * (n * u1 + t * u2) = b * (n * v1 + t * v2)
  BY <1>1, LinearAlike
<1>3. a * (n * u1 + (-t) * u2) = b * (n * v1 + (-t) * v2)
  BY <1>1, LinearAlike
<1>4. n * u1 + (-t) * u2 = n * u1 - (t * u2) /\ n * v1 + (-t) * v2 = n * v1 - (t * v2)
  BY <1>1
<1>5. a * (n * u1 - (t * u2)) = b * (n * v1 - (t * v2))
  BY <1>3, <1>4
<1> QED
  BY <1>2, <1>5 DEF RightShare, LeftShare, n, t, u1, u2, v1, v2

(* The candidate nearest to a direction in which the edge has a point goes *)
(* that way, and nothing the wheels can do goes farther.                   *)
LEMMA NearestIsFastest ==
    ASSUME NEW limit \in Nat \ {0}, limit % kSteps = 0, NEW roll \in Quarter, NEW yaw \in Int,
           NEW x \in Vector, Counters(limit, x), NEW d \in Vector, d # <<0, 0>>,
           NEW w \in Nearest(limit, Turned(x, roll), roll, d), NEW result,
           \A axis \in 1 .. 2 :
              /\ result[axis] \in Int
              /\ Magnitude(Turned(Sum(Moved(w, roll), Turned(x, roll)), yaw)[axis]) <= result[axis]
    PROVE  IsFastest(result, limit, Turned(x, roll), roll, yaw, d)
<1> DEFINE drift == Turned(x, roll)
           moved(y) == Sum(Moved(y, roll), drift)
           frame(y) == InFrame(y, x)
<1> SUFFICES ASSUME NEW e \in Drives(limit), Along(d, moved(e)), OnEdge(e, limit),
                    NEW c \in Drives(limit), Along(d, moved(c)), NEW axis \in 1 .. 2
             PROVE  Magnitude(Turned(moved(c), yaw)[axis]) <= result[axis]
  BY DEF IsFastest, Drives, OnEdge
<1>1. /\ c.right \in Int /\ -limit <= c.right /\ c.right <= limit
      /\ c.left \in Int /\ -limit <= c.left /\ c.left <= limit
      /\ e.right \in Int /\ e.left \in Int
  BY StepsWithinLimit DEF Drives
<1>2. w \in GenerateCandidates(limit) /\ e \in GenerateCandidates(limit)
  BY EdgeIsGenerated DEF Nearest
<1>3. w.right \in Int /\ w.left \in Int /\ (w.right \in {limit, -limit} \/ w.left \in {limit, -limit})
  BY <1>2, GeneratedIsEdge
<1>4. roll \in Int
  BY DEF Quarter
<1>5. \A y \in {c, e, w} : /\ moved(y) = Turned(frame(y), roll)
                           /\ moved(y) \in Vector /\ frame(y) \in Vector
                           /\ RightShare(frame(y)) = Unit * y.right + RightShare(x)
                           /\ LeftShare(frame(y)) = Unit * y.left + LeftShare(x)
  <2> TAKE y \in {c, e, w}
  <2>1. y.right \in Int /\ y.left \in Int
    BY <1>1, <1>3
  <2>2. moved(y) = Turned(frame(y), roll) /\ Turned(frame(y), roll) \in Vector
    BY <1>4, <2>1, MovedInFrame
  <2>3. moved(y) \in Vector
    BY <2>2
  <2> QED
    BY <2>1, <2>2, <2>3, SharesOfWheels
<1>6. Unit \in Nat \ {0} /\ RightShare(x) \in Int /\ LeftShare(x) \in Int
  BY <1>3, SharesOfWheels
<1>7. Nearer(d, Direction(moved(e)), Direction(moved(w))) = FALSE
  BY <1>2 DEF Nearest
<1> HIDE DEF drift, moved, frame
<1>8. moved(w) # <<0, 0>>
  <2> SUFFICES ASSUME moved(w) = <<0, 0>> PROVE FALSE
    OBVIOUS
  <2>1. frame(w) = <<0, 0>>
    BY <1>4, <1>5, TurnedIsVector
  <2>2. RightShare(frame(w)) = 0 /\ LeftShare(frame(w)) = 0
    BY <2>1, KinematicsAssumption DEF RightShare, LeftShare
  <2>3. Unit * w.right + RightShare(x) = 0 /\ Unit * w.left + LeftShare(x) = 0
    BY <1>5, <2>2
  <2>4. Unit * (-limit) = -(Unit * limit) /\ Unit * limit \in Int
    BY <1>6
  <2> QED
    BY <1>3, <1>6, <2>3, <2>4 DEF Counters
<1>9. Along(d, moved(w))
  <2>1. moved(e) # <<0, 0>>
    BY DEF Along, Dot, Vector
  <2>2. Direction(moved(e)) = moved(e) /\ Direction(moved(w)) = moved(w)
    BY <1>8, <2>1 DEF Direction
  <2> QED
    BY <1>5, <1>7, <1>8, <2>1, <2>2, NoneNearerIsAlong
<1> DEFINE a == Dot(d, moved(w))
           b == Dot(d, moved(c))
<1>10. a \in Int /\ b \in Int /\ a > 0 /\ b > 0
  BY <1>5, <1>9, DotsAreNumbers DEF Along
<1>11. \A i \in 1 .. 2 : a * moved(c)[i] = b * moved(w)[i]
  BY <1>5, <1>9, AlongIsProportional
<1> HIDE DEF a, b
<1>12. a * frame(c)[1] = b * frame(w)[1] /\ a * frame(c)[2] = b * frame(w)[2]
  <2>1. /\ a * Turned(frame(c), roll)[1] = b * Turned(frame(w), roll)[1]
        /\ a * Turned(frame(c), roll)[2] = b * Turned(frame(w), roll)[2]
    BY <1>5, <1>11
  <2>2. frame(c) \in Vector /\ frame(w) \in Vector
    BY <1>5
  <2> QED
    BY <1>4, <1>10, <2>1, <2>2, TurnedAlike
<1>13. /\ a * RightShare(frame(c)) = b * RightShare(frame(w))
       /\ a * LeftShare(frame(c)) = b * LeftShare(frame(w))
  BY <1>5, <1>10, <1>12, SharesAlike
<1>14. b <= a
  <2>1. /\ a * (Unit * c.right + RightShare(x)) = b * (Unit * w.right + RightShare(x))
        /\ a * (Unit * c.left + LeftShare(x)) = b * (Unit * w.left + LeftShare(x))
    BY <1>5, <1>13
  <2>2. CASE w.right \in {limit, -limit}
    <3> DEFINE k == Unit
               share == RightShare(x)
    <3>1. k \in Nat \ {0} /\ share \in Int /\ share < k * limit /\ -(k * limit) < share
      BY <1>6 DEF Counters
    <3>2. a * (k * c.right + share) = b * (k * w.right + share)
      BY <2>1
    <3> HIDE DEF k, share
    <3> QED
      BY <1>1, <1>10, <2>2, <3>1, <3>2, LimitTakesFarther
  <2>3. CASE w.left \in {limit, -limit}
    <3> DEFINE k == Unit
               share == LeftShare(x)
    <3>1. k \in Nat \ {0} /\ share \in Int /\ share < k * limit /\ -(k * limit) < share
      BY <1>6 DEF Counters
    <3>2. a * (k * c.left + share) = b * (k * w.left + share)
      BY <2>1
    <3> HIDE DEF k, share
    <3> QED
      BY <1>1, <1>10, <2>3, <3>1, <3>2, LimitTakesFarther
  <2> QED
    BY <1>3, <2>2, <2>3
<1>15. \A i \in 1 .. 2 : Magnitude(moved(c)[i]) <= Magnitude(moved(w)[i])
  <2> TAKE i \in 1 .. 2
  <2>1. moved(c)[i] \in Int /\ moved(w)[i] \in Int
    BY <1>5 DEF Vector
  <2> QED
    BY <1>10, <1>11, <1>14, <2>1, SmallerMultiple
<1>16. Magnitude(Turned(moved(c), yaw)[axis]) <= Magnitude(Turned(moved(w), yaw)[axis])
  BY <1>5, <1>15, SmallerOnAxis
<1>17. /\ Magnitude(Turned(moved(c), yaw)[axis]) \in Int
       /\ Magnitude(Turned(moved(w), yaw)[axis]) \in Int
  <2>1. Turned(moved(c), yaw) \in Vector /\ Turned(moved(w), yaw) \in Vector
    BY <1>5, TurnedIsVector
  <2> QED
    BY <2>1 DEF Vector, Magnitude
<1>18. Magnitude(Turned(moved(w), yaw)[axis]) <= result[axis] /\ result[axis] \in Int
  BY DEF moved, drift
<1> QED
  BY <1>16, <1>17, <1>18

(* What the wheels have to make up for: nothing, or what the turning of the*)
(* body adds across it.                                                    *)
LEMMA NothingToCounter ==
    ASSUME NEW limit \in Nat \ {0}, NEW roll \in Quarter
    PROVE  <<0, 0>> = Turned(<<0, 0>>, roll) /\ Counters(limit, <<0, 0>>)
<1>1. roll % 4 = 0 \/ roll % 4 = 1 \/ roll % 4 = 2 \/ roll % 4 = 3
  BY DEF Quarter
<1>2. Turned(<<0, 0>>, roll) = <<0, 0>>
  BY <1>1 DEF Turned
<1>3. RightShare(<<0, 0>>) = 0 /\ LeftShare(<<0, 0>>) = 0
  BY KinematicsAssumption DEF RightShare, LeftShare
<1>4. Unit \in Int /\ Unit > 0
  <2>1. tread * caster_offset > 0 /\ tread * caster_offset \in Int
    BY KinematicsAssumption, ProductOfPositive
  <2>2. Unit = 4 * (tread * caster_offset)
    BY KinematicsAssumption DEF Unit
  <2> QED
    BY <2>1, <2>2
<1> DEFINE n == Unit
<1>5. n * limit \in Int /\ n * limit > 0
  <2>1. n \in Int /\ n > 0
    BY <1>4
  <2> HIDE DEF n
  <2> QED
    BY <2>1, ProductOfPositive
<1> QED
  BY <1>2, <1>3, <1>5 DEF Counters

LEMMA NullIsNull == ASSUME NEW n \in Int, n + n = n, NEW w \in Int PROVE w * n = n /\ -n = n
<1>1. w * n = n
  OBVIOUS
<1>2. -n = n
  OBVIOUS
<1> QED
  BY <1>1, <1>2

LEMMA DriftTurns ==
    ASSUME NEW w \in Int, NEW roll \in Quarter
    PROVE  Drift([name \in {"right", "left", "roll"} |-> w], roll) = Turned(<<0, 2 * tread * w * w>>, roll)
<1> DEFINE v == [name \in {"right", "left", "roll"} |-> w]
           l == 2 * tread * w
           z == 0
           m == Moved(v, roll + 1)
<1>1. v.right = w /\ v.left = w /\ v.roll = w
  OBVIOUS
<1>2. l \in Int /\ tread * (w + w) = l /\ 2 * caster_offset * (w - w) = z
  BY KinematicsAssumption
<1>3. m = Turned(<<l, z>>, roll + 1)
  BY <1>1, <1>2 DEF Moved
<1>4. Drift(v, roll) = <<w * m[1], w * m[2]>>
  BY <1>1 DEF Drift
<1>5. 2 * tread * w * w = l * w
  OBVIOUS
<1>6. z \in Int /\ z + z = z
  OBVIOUS
<1> HIDE DEF l, m, v, z
<1>7. l * w = w * l /\ w * l \in Int /\ w * (-l) = -(w * l) /\ w * z = z /\ -z = z
  <2>1. ASSUME NEW n \in Int PROVE n * w = w * n /\ w * n \in Int /\ w * (-n) = -(w * n)
    OBVIOUS
  <2>2. w * z = z /\ -z = z
    BY <1>6, NullIsNull
  <2> QED
    BY <1>2, <2>1, <2>2
<1>8. roll = 0 \/ roll = 1 \/ roll = 2 \/ roll = 3
  BY DEF Quarter
<1>9. m = IF roll = 0 THEN <<-z, l>> ELSE IF roll = 1 THEN <<-l, -z>>
          ELSE IF roll = 2 THEN <<z, -l>> ELSE <<l, z>>
  BY <1>3, <1>8 DEF Turned
<1>10. Turned(<<z, w * l>>, roll) = IF roll = 0 THEN <<z, w * l>> ELSE IF roll = 1 THEN <<-(w * l), z>>
                                  ELSE IF roll = 2 THEN <<-z, -(w * l)>> ELSE <<w * l, -z>>
  BY <1>8 DEF Turned
<1>11. Drift(v, roll) = Turned(<<z, w * l>>, roll)
  BY <1>4, <1>7, <1>8, <1>9, <1>10
<1> QED
  BY <1>5, <1>7, <1>11 DEF v, z

LEMMA TurningIsCountered ==
    ASSUME NEW w \in Int, WheelsCanCounter(w)
    PROVE  Counters(wheel_acceleration, <<0, 2 * tread * w * w>>)
<1> DEFINE x == <<0, 2 * tread * w * w>>
           t == tread
           o == caster_offset
           a == wheel_acceleration
<1>1. t \in Int /\ t > 0 /\ o \in Int /\ a \in Int
  BY KinematicsAssumption
<1>2. RightShare(x) = 2 * o * 0 + t * (2 * t * w * w) /\ LeftShare(x) = 2 * o * 0 - (t * (2 * t * w * w))
  BY DEF RightShare, LeftShare
<1>3. t * w * w < 2 * o * a /\ Unit * a = 4 * t * o * a
  BY DEF WheelsCanCounter, Unit
<1> HIDE DEF x, t, o, a
<1> DEFINE p == t * w * w
           q == 2 * o * a
           k == 2 * t
<1>4. p \in Int /\ q \in Int /\ k \in Int /\ k > 0 /\ p < q
  BY <1>1, <1>3
<1>5. p >= 0
  <2>1. w * w \in Int /\ w * w >= 0 /\ p = t * (w * w)
    BY <1>1, SquareIsPositive
  <2> HIDE DEF p
  <2>2. w * w > 0 => t * (w * w) > 0
    BY <1>1, <2>1, ProductOfPositive
  <2>3. t * 0 = 0
    BY <1>1
  <2> QED
    BY <1>4, <2>1, <2>2, <2>3
<1>6. t * (2 * t * w * w) = k * p /\ 4 * t * o * a = k * q /\ 2 * o * 0 = 0
  BY <1>1
<1> HIDE DEF p, q, k
<1>7. k * p \in Int /\ k * q \in Int /\ k * p < k * q /\ k * p >= 0
  <2>1. k * (q - p) > 0 /\ k * (q - p) = k * q - (k * p)
    BY <1>4, ProductOfPositive
  <2>2. p > 0 => k * p > 0
    BY <1>4, ProductOfPositive
  <2>3. k * 0 = 0 /\ k * p \in Int /\ k * q \in Int
    BY <1>4
  <2> QED
    BY <1>4, <1>5, <2>1, <2>2, <2>3
<1>8. RightShare(x) = k * p /\ LeftShare(x) = -(k * p) /\ Unit * a = k * q
  BY <1>2, <1>3, <1>6, <1>7
<1>9. Counters(a, x)
  BY <1>7, <1>8 DEF Counters
<1> QED
  BY <1>9 DEF a, x

LEMMA DriftInFrame ==
    ASSUME NEW kind \in Kind, NEW joint_state \in JointState,
           kind = "velocity" \/ WheelsCanCounter(joint_state.velocity.roll)
    PROVE  \E x \in Vector : /\ DriftOf(kind, joint_state) = Turned(x, joint_state.position.roll)
                             /\ Counters(Limits(kind).wheel, x)
<1> DEFINE roll == joint_state.position.roll
           w == joint_state.velocity.roll
<1>1. roll \in Quarter /\ w \in Int
  BY DEF JointState
<1>2. CASE kind = "velocity"
  <2>1. DriftOf(kind, joint_state) = <<0, 0>> /\ Limits(kind).wheel = wheel_velocity
    BY <1>2 DEF DriftOf, Limits
  <2>2. <<0, 0>> = Turned(<<0, 0>>, roll) /\ Counters(wheel_velocity, <<0, 0>>)
    BY <1>1, KinematicsAssumption, NothingToCounter
  <2>3. <<0, 0>> \in Vector
    BY DEF Vector
  <2> QED
    BY <2>1, <2>2, <2>3
<1>3. CASE kind # "velocity"
  <2> DEFINE x == <<0, 2 * tread * w * w>>
  <2>1. Limits(kind).wheel = wheel_acceleration
    BY <1>3 DEF Limits
  <2>2. ExtractBaseJointVelocities(joint_state) = [name \in {"right", "left", "roll"} |-> w]
    BY DEF ExtractBaseJointVelocities, ExtractJointVelocity
  <2>3. DriftOf(kind, joint_state) = Turned(x, roll)
    BY <1>1, <1>3, <2>2, DriftTurns DEF DriftOf
  <2>4. Counters(wheel_acceleration, x)
    BY <1>1, <1>3, TurningIsCountered
  <2>5. x \in Vector
    BY <1>1, KinematicsAssumption DEF Vector
  <2> QED
    BY <2>1, <2>3, <2>4, <2>5
<1> QED
  BY <1>2, <1>3

(* An update leaves a limit that is fast enough, for the direction the     *)
(* places of the trajectory give.                                          *)
LEMMA DirectionToGo ==
    ASSUME Valid(trajectory), HasTransform(2), NEW yaw \in Quarter
    PROVE  /\ Turned(ComputeBaseDirection, -yaw) \in Vector
           /\ Turned(ComputeBaseDirection, -yaw) # <<0, 0>>
<1> DEFINE b == trajectory.base_points
           u == b[1].place
           v == b[2].place
           d == <<v[1] - u[1], v[2] - u[2]>>
<1>1. b \in Seq(BasePoint) /\ 1 \in DOMAIN b /\ 2 \in DOMAIN b
  BY DEF Valid, RobotTrajectory, HasTransform
<1>2. b[1] \in BasePoint /\ b[2] \in BasePoint
  BY <1>1
<1>3. u \in Vector /\ v \in Vector
  BY <1>2 DEF BasePoint
<1>4. d \in Vector
  BY <1>3 DEF Vector
<1>5. ComputeBaseDirection = Direction(d)
  BY DEF ComputeBaseDirection
<1> HIDE DEF d
<1>6. Direction(d) \in Vector /\ Direction(d) # <<0, 0>>
  BY <1>4 DEF Direction, Vector
<1>7. -yaw \in Int
  BY DEF Quarter
<1> QED
  BY <1>5, <1>6, <1>7, TurnedIsVector

(* The other arguments of an update as numbers. *)
LEMMA LimitsOfWheels ==
    ASSUME NEW kind \in Kind
    PROVE  /\ Limits(kind).wheel \in Nat \ {0} /\ Limits(kind).wheel % kSteps = 0
           /\ \A axis \in 1 .. 2 : BaseLimits[kind][axis] \in Nat
<1>1. BaseLimits \in BaseLimit /\ DOMAIN BaseLimits = Kind
  BY InputAssumption DEF BaseLimit, Kind
<1>2. BaseLimits[kind] \in Seq(Nat) /\ Len(BaseLimits[kind]) = 3
  BY <1>1, InputAssumption DEF BaseLimit, Kind, kBaseJointNum
<1>3. \A axis \in 1 .. 2 : BaseLimits[kind][axis] \in Nat
  BY <1>2
<1> QED
  BY <1>3, KinematicsAssumption DEF Limits, Kind

LEMMA UpdateIsFast ==
    ASSUME AcceptedInv, NEW kind \in Kind, step = kind, HasTransform(2), HasBothKinds,
           base_limit[kind] = BaseLimits[kind], trajectory' = trajectory,
           NEW yaw \in Odometries, NEW joint_state \in JointStates,
           UpdateBase(kind, yaw, joint_state)
    PROVE  BaseIsFastEnough'
<1> DEFINE limit == Limits(kind)
           drift == DriftOf(kind, joint_state)
           roll  == joint_state.position.roll
           d     == Turned(ComputeBaseDirection, -yaw)
           max(w) == CalculateBaseMax(w, limit.caster, drift, roll, yaw)
           went(w) == Turned(Sum(Moved(w, roll), drift), yaw)
<1>1. PICK wheels \in Nearest(limit.wheel, drift, roll, d) :
          /\ base_limit' = [base_limit EXCEPT ![kind] = UpdateLimits(@, max(wheels))]
          /\ moving' = {[kind |-> kind, wheels |-> wheels, yaw |-> yaw, joints |-> joint_state]}
  BY DEF UpdateBase
<1> DEFINE result == base_limit'[kind]
<1>2. result = UpdateLimits(BaseLimits[kind], max(wheels))
  BY <1>1 DEF HasBothKinds
<1>3. ComputeBaseDirection' = ComputeBaseDirection
  BY DEF ComputeBaseDirection
<1>4. joint_state \in JointState /\ yaw \in Quarter /\ yaw \in Int
  BY InputAssumption DEF Quarter
<1>5. roll \in Quarter /\ roll \in Int
  BY <1>4 DEF JointState, Quarter
<1> SUFFICES ASSUME kind = "velocity" \/ WheelsCanCounter(joint_state.velocity.roll)
             PROVE  IsFastest(result, limit.wheel, drift, roll, yaw, d)
  BY <1>1, <1>3 DEF BaseIsFastEnough
<1>6. PICK x \in Vector : drift = Turned(x, roll) /\ Counters(limit.wheel, x)
  BY <1>4, DriftInFrame
<1>7. d \in Vector /\ d # <<0, 0>>
  <2>1. Valid(trajectory)
    BY DEF AcceptedInv, Kind
  <2> QED
    BY <1>4, <2>1, DirectionToGo
<1>8. /\ limit.wheel \in Nat \ {0} /\ limit.wheel % kSteps = 0
      /\ \A axis \in 1 .. 2 : BaseLimits[kind][axis] \in Nat
  BY LimitsOfWheels
<1>9. went(wheels) \in Vector
  <2>1. wheels \in GenerateCandidates(limit.wheel)
    BY DEF Nearest
  <2>2. wheels.right \in Int /\ wheels.left \in Int
    BY <1>8, <2>1, GeneratedIsEdge
  <2>3. Sum(Moved(wheels, roll), drift) \in Vector
    BY <1>5, <1>6, <2>2, MovedInFrame
  <2> QED
    BY <1>4, <2>3, TurnedIsVector
<1>10. \A axis \in 1 .. 2 : result[axis] \in Int /\ Magnitude(went(wheels)[axis]) <= result[axis]
  <2> TAKE axis \in 1 .. 2
  <2>1. result[axis] = LargerOf(BaseLimits[kind][axis], max(wheels)[axis])
    BY <1>2 DEF UpdateLimits, kBaseJointNum
  <2>2. max(wheels)[axis] = Magnitude(went(wheels)[axis])
    BY DEF CalculateBaseMax
  <2>3. Magnitude(went(wheels)[axis]) \in Int
    BY <1>9 DEF Vector, Magnitude
  <2> QED
    BY <1>8, <2>1, <2>2, <2>3 DEF LargerOf
<1> HIDE DEF limit, roll, d, result
<1> QED
  BY <1>4, <1>5, <1>6, <1>7, <1>8, <1>10, NearestIsFastest

(* What one update computed stays until the next one replaces it. *)
FastInv == AcceptedInv /\ LimitsInv /\ BaseIsFastEnough

LEMMA FastInit == Init => FastInv
BY AcceptedInit, LimitsInit DEF Init, FastInv, BaseIsFastEnough

LEMMA FastStep == FastInv /\ [Next]_vars => FastInv'
<1> SUFFICES ASSUME FastInv, [Next]_vars PROVE BaseIsFastEnough'
  BY AcceptedStep, LimitsStep DEF FastInv
<1>1. AcceptedInv /\ LimitsInv /\ BaseIsFastEnough
  BY DEF FastInv
<1>2. ASSUME moving' = {} PROVE BaseIsFastEnough'
  BY <1>2 DEF BaseIsFastEnough
<1>3. ASSUME UNCHANGED <<trajectory, base_limit, moving>> PROVE BaseIsFastEnough'
  BY <1>1, <1>3 DEF BaseIsFastEnough, ComputeBaseDirection
<1>4. ASSUME NEW t \in Trajectories, ValidateRobotTrajectory(t) PROVE BaseIsFastEnough'
  BY <1>1, <1>2, <1>4 DEF ValidateRobotTrajectory, limits, LimitsInv
<1>5. CASE JointLimit
  BY <1>1, <1>2, <1>5 DEF JointLimit, limits, LimitsInv
<1>6. ASSUME NEW kind \in Kind, NEW next, UpdateBaseLimits(kind, next)
      PROVE  BaseIsFastEnough'
  <2>1. /\ step = kind /\ trajectory' = trajectory
        /\ HasBothKinds /\ base_limit[kind] = BaseLimits[kind]
    BY <1>1, <1>6 DEF UpdateBaseLimits, LimitsInv, Kind
  <2>2. CASE HasTransform(2)
    <3>1. PICK yaw \in Odometries, joint_state \in JointStates : UpdateBase(kind, yaw, joint_state)
      BY <1>6, <2>2 DEF UpdateBaseLimits
    <3> QED
      BY <1>1, <2>1, <2>2, <3>1, UpdateIsFast
  <2>3. CASE ~HasTransform(2)
    BY <1>3, <1>6, <2>1, <2>3 DEF UpdateBaseLimits
  <2> QED
    BY <2>2, <2>3
<1>7. CASE UpdateBaseVelocities \/ UpdateBaseAccelarations
  BY <1>6, <1>7 DEF UpdateBaseVelocities, UpdateBaseAccelarations, Kind
<1>8. CASE ExtractInput
  BY <1>2, <1>8 DEF ExtractInput
<1>9. CASE Filter
  BY <1>2, <1>9 DEF Filter, NoLocals
<1>10. CASE SampleTrajectoryPoint \/ PublishSucceeded
  BY <1>1, <1>2, <1>10 DEF SampleTrajectoryPoint, PublishSucceeded, limits, LimitsInv
<1>11. CASE UNCHANGED vars
  BY <1>3, <1>11 DEF vars, limits
<1> QED
  BY <1>4, <1>5, <1>7, <1>8, <1>9, <1>10, <1>11 DEF Next

(* The limits CalculateBaseMaxVelocity and CalculateBaseMaxAcceleration    *)
(* relax let the base set out as fast as its wheels can take it, for every *)
(* drive, wherever it goes and however it is turned, as long as the wheels *)
(* can make up for what the turning of its body adds.                      *)
THEOREM BaseIsFastEnoughHolds == Spec => []BaseIsFastEnough
<1>1. FastInv => BaseIsFastEnough
  BY DEF FastInv
<1> QED
  BY <1>1, FastInit, FastStep, PTL DEF Spec

-----------------------------------------------------------------------------
(* Where it does not matter that all three velocities are read of one      *)
(* joint: with a body that does not turn nothing is added, whatever the    *)
(* wheels do.                                                              *)
BodyDoesNotTurn == \A joint_state \in JointStates : joint_state.velocity.roll = 0

LEMMA NoTurningNoDrift ==
    ASSUME NEW v, v.roll = 0, v.right \in Int, v.left \in Int, NEW roll \in Quarter
    PROVE  Drift(v, roll) = <<0, 0>>
<1>1. roll + 1 \in Int
  BY DEF Quarter
<1>2. Moved(v, roll + 1) \in Vector
  <2> DEFINE u == <<tread * (v.right + v.left), 2 * caster_offset * (v.right - v.left)>>
  <2>1. u \in Vector
    BY KinematicsAssumption DEF Vector
  <2> HIDE DEF u
  <2>2. Turned(u, roll + 1) \in Vector
    BY <1>1, <2>1, TurnedIsVector
  <2> QED
    BY <2>2 DEF Moved, u
<1>3. \A n \in Int : 0 * n = 0
  OBVIOUS
<1> QED
  BY <1>2, <1>3 DEF Drift, Vector

(* The update of the acceleration, from a state of the joints whose body   *)
(* does not turn.                                                          *)
LEMMA UpdateHeeds ==
    ASSUME BodyDoesNotTurn, step = "acceleration", HasBothKinds,
           base_limit.acceleration = BaseLimits.acceleration, trajectory' = trajectory,
           NEW yaw \in Odometries, NEW joint_state \in JointStates,
           UpdateBase("acceleration", yaw, joint_state)
    PROVE  AccelerationHeedsTheWheels'
<1> DEFINE roll == joint_state.position.roll
           d == Turned(ComputeBaseDirection, -yaw)
           max(wheels, drift) == CalculateBaseMax(wheels, caster_acceleration, drift, roll, yaw)
<1>1. joint_state \in JointState /\ roll \in Quarter /\ joint_state.velocity.roll = 0
  BY InputAssumption DEF BodyDoesNotTurn, JointState
<1>2. Drift(joint_state.velocity, roll) = <<0, 0>>
  BY <1>1, NoTurningNoDrift DEF JointState
<1>3. DriftOf("acceleration", joint_state) = <<0, 0>>
  <2> DEFINE v == ExtractBaseJointVelocities(joint_state)
  <2>1. v.right = 0 /\ v.left = 0 /\ v.roll = 0
    BY <1>1 DEF ExtractBaseJointVelocities, ExtractJointVelocity
  <2> HIDE DEF v
  <2>2. Drift(v, roll) = <<0, 0>>
    BY <1>1, <2>1, NoTurningNoDrift
  <2> QED
    BY <2>2 DEF DriftOf, v
<1>4. PICK wheels \in Nearest(wheel_acceleration, <<0, 0>>, roll, d) :
        /\ base_limit' = [base_limit EXCEPT !["acceleration"] =
                            UpdateLimits(@, max(wheels, <<0, 0>>))]
        /\ moving' = {[kind |-> "acceleration", wheels |-> wheels, yaw |-> yaw,
                       joints |-> joint_state]}
  BY <1>3 DEF UpdateBase, Limits
<1>5. base_limit'.acceleration = UpdateLimits(BaseLimits.acceleration, max(wheels, <<0, 0>>))
  BY <1>4 DEF HasBothKinds, Kind
<1>6. ComputeBaseDirection' = ComputeBaseDirection
  BY DEF ComputeBaseDirection
<1> HIDE DEF roll, d
<1> QED
  BY <1>2, <1>4, <1>5, <1>6 DEF AccelerationHeedsTheWheels, roll, d

LEMMA HeedStep ==
    ASSUME BodyDoesNotTurn, LimitsInv, AccelerationHeedsTheWheels, [Next]_vars
    PROVE  AccelerationHeedsTheWheels'
<1>1. ASSUME \A m \in moving' : m.kind = "velocity" PROVE AccelerationHeedsTheWheels'
  BY <1>1 DEF AccelerationHeedsTheWheels
<1>2. ASSUME UNCHANGED <<trajectory, base_limit, moving>> PROVE AccelerationHeedsTheWheels'
  BY <1>2 DEF AccelerationHeedsTheWheels, ComputeBaseDirection
<1>3. ASSUME NEW t \in Trajectories, ValidateRobotTrajectory(t)
      PROVE  AccelerationHeedsTheWheels'
  BY <1>1, <1>3 DEF ValidateRobotTrajectory, limits, LimitsInv
<1>4. CASE JointLimit
  BY <1>1, <1>4 DEF JointLimit, limits, LimitsInv
<1>5. CASE UpdateBaseVelocities
  <2>1. CASE HasTransform(2)
    BY <1>1, <1>5, <2>1 DEF UpdateBaseVelocities, UpdateBaseLimits, UpdateBase
  <2>2. CASE ~HasTransform(2)
    BY <1>2, <1>5, <2>2 DEF UpdateBaseVelocities, UpdateBaseLimits
  <2> QED
    BY <2>1, <2>2
<1>6. CASE UpdateBaseAccelarations
  <2>1. /\ step = "acceleration" /\ trajectory' = trajectory
        /\ HasBothKinds /\ base_limit.acceleration = BaseLimits.acceleration
    BY <1>6 DEF UpdateBaseAccelarations, UpdateBaseLimits, LimitsInv, Kind
  <2>2. CASE HasTransform(2)
    BY <1>6, <2>1, <2>2, UpdateHeeds DEF UpdateBaseAccelarations, UpdateBaseLimits
  <2>3. CASE ~HasTransform(2)
    BY <1>2, <1>6, <2>1, <2>3 DEF UpdateBaseAccelarations, UpdateBaseLimits
  <2> QED
    BY <2>2, <2>3
<1>7. CASE ExtractInput
  BY <1>1, <1>7 DEF ExtractInput
<1>8. CASE Filter
  BY <1>1, <1>8 DEF Filter, NoLocals
<1>9. CASE SampleTrajectoryPoint \/ PublishSucceeded
  BY <1>1, <1>9 DEF SampleTrajectoryPoint, PublishSucceeded, limits, LimitsInv
<1>10. CASE UNCHANGED vars
  BY <1>2, <1>10 DEF vars, limits
<1> QED
  BY <1>3, <1>4, <1>5, <1>6, <1>7, <1>8, <1>9, <1>10 DEF Next

(* With a body that does not turn the limits of the acceleration are right,*)
(* although optimizer_node.cpp:148 reads the velocity of one joint for all.*)
THEOREM AccelerationHeedsTheWheelsHolds ==
    ASSUME BodyDoesNotTurn
    PROVE  Spec => []AccelerationHeedsTheWheels
<1>1. Init => AccelerationHeedsTheWheels
  BY DEF Init, AccelerationHeedsTheWheels
<1>2. LimitsInv /\ AccelerationHeedsTheWheels /\ [Next]_vars => AccelerationHeedsTheWheels'
  BY HeedStep
<1> QED
  BY <1>1, <1>2, LimitsInit, LimitsStep, PTL DEF Spec
=============================================================================
