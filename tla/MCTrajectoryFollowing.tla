----------------------- MODULE MCTrajectoryFollowing -----------------------
(* A robot on a short line; goals that ask for a joint far away, farther   *)
(* than what is sent of one trajectory, for one no trajectory comes near   *)
(* enough to, and for a link nearby.  A goal as near as the stall test     *)
(* begins to look shows a stall too early.                                 *)
EXTENDS TrajectoryFollowing

FarJoint == [joints |-> {13}, links |-> {}]
HardJoint == [joints |-> {5}, links |-> {}]
NearLink == [joints |-> {}, links |-> {3}]

MCPosition == 0 .. 13
MCGoals == {FarJoint, HardJoint, NearLink}
MCPlannedEnds ==
    [g \in MCGoals |-> CASE g = FarJoint  -> {12, 13}
                         [] g = HardJoint -> {2}
                         [] g = NearLink  -> {3}]

MCNearGoals == {NearLink}
MCNearEnds == [g \in MCNearGoals |-> {3}]
=============================================================================
