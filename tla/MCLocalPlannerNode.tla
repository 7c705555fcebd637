------------------------- MODULE MCLocalPlannerNode -------------------------
(* Small instances of LocalPlannerNode for TLC: goals that move the arm and *)
(* the base, the head, or one joint of the arm, and one that stops; an arm  *)
(* and a head controller; joint states that may lack the head's joint.      *)
EXTENDS LocalPlannerNode

CONSTANTS none, reach, look, bend        \* contents of goals
CONSTANTS start, a, b, c                 \* ids
CONSTANTS lift_joint, flex_joint, pan_joint
CONSTANTS arm, head, omni_base              \* controllers

MCConstraints == {none, reach, look, bend}
MCHardConstraints == {reach, look, bend}
MCJoints == {lift_joint, flex_joint, pan_joint}
(* reach is a link constraint; the two others name joints. *)
MCHardJoints ==
    [k \in MCConstraints |-> CASE k = look -> {pan_joint}
                               [] k = bend -> {flex_joint}
                               [] OTHER    -> {}]
MCPlannedJoints ==
    [k \in MCConstraints |-> CASE k = reach -> {lift_joint, flex_joint}
                               [] k = look  -> {pan_joint}
                               [] k = bend  -> {flex_joint}
                               [] k = none  -> {}]
MCControllers == {arm, head}
MCControllerJoints ==
    [k \in MCControllers |-> IF k = arm THEN {lift_joint, flex_joint}
                                        ELSE {pan_joint}]

AllJointNames == {MCJoints}
SomeJointNames == {MCJoints, {lift_joint, flex_joint}}

Reach == [id |-> a, constraints |-> reach, enable_base |-> TRUE]
Look == [id |-> b, constraints |-> look, enable_base |-> FALSE]
Bend == [id |-> b, constraints |-> bend, enable_base |-> FALSE]
Stop == [id |-> c, constraints |-> none, enable_base |-> FALSE]
StopAsB == [Stop EXCEPT !.id = b]

TwoGoals == {Reach, Look, StopAsB}      \* the second one moves or stops
ArmGoals == {Reach, Bend}
ThreeGoals == {Reach, Look, Stop}
TwoIds == {start, a, b}
ThreeIds == {start, a, b, c}
=============================================================================
