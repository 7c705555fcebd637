-------------------------- MODULE MCOptimizerInput --------------------------
(* Trajectories with up to two points and every mismatch of sizes 0 and 1  *)
(* or of numbers of points, none of which turn or move; well-formed ones   *)
(* with up to three points that turn by quarters, and with two points that *)
(* set out in a direction wheels at their limit can take, or between two.  *)
(* A second joint has no limits.                                           *)
EXTENDS OptimizerInput

UpTo(n, S) == UNION {[1 .. k -> S] : k \in 0 .. n}

JointPoints == [positions : 0 .. 1, velocities : 0 .. 1]
StillPoints == [transforms : 0 .. 1, velocities : 0 .. 1, yaw : {0}, place : {<<0, 0>>}]
TurningPoints == [transforms : {1}, velocities : {1}, yaw : 0 .. 3, place : {<<0, 0>>}]
PointOf(n) == [positions |-> n, velocities |-> n]
BasePointAt(v) == [transforms |-> 1, velocities |-> 1, yaw |-> 0, place |-> v]

Ahead == {<<1, 0>>, <<9, 2>>, <<3, 2>>, <<1, 1>>, <<1, 2>>}
Directions == {Turned(v, q) : v \in Ahead, q \in 0 .. 3}

MCSettingOut ==
    [joint_names : {0}, joint_points : {<<>>}, base_names : {1},
     base_points : {<<BasePointAt(<<1, 1>>), BasePointAt(Sum(<<1, 1>>, v))>> : v \in Directions}]

MCTrajectories ==
    [joint_names : 0 .. 1, joint_points : UpTo(2, JointPoints),
     base_names : 0 .. 1, base_points : UpTo(2, StillPoints)]
    \cup
    [joint_names : {0}, joint_points : {<<>>},
     base_names : {1}, base_points : UpTo(3, TurningPoints)]
    \cup
    [joint_names : {1}, joint_points : {<<PointOf(1), PointOf(1), PointOf(1)>>},
     base_names : {1}, base_points : [1 .. 3 -> {BasePointAt(<<0, 0>>)}]]
    \cup
    MCSettingOut
    \cup
    [joint_names : {2}, joint_points : {<<PointOf(2), PointOf(2)>>},
     base_names : {1}, base_points : [1 .. 2 -> TurningPoints]]

MCBaseLimits == [velocity |-> <<2, 2, 2>>, acceleration |-> <<1, 1, 1>>]
MCJointStates ==
    {[position |-> [roll |-> q], velocity |-> [right |-> 2, left |-> -1, roll |-> w]] :
        q \in {0, 1}, w \in {0, 1, 2}}
MCOdometries == {0, 3}
MCDurations == 0 .. 5
=============================================================================
