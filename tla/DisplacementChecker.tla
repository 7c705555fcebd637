------------------------ MODULE DisplacementChecker ------------------------
(***************************************************************************)
(* DisplacementChecker (utils.cpp): decides whether the robot has done what*)
(* a goal asks for.  A goal is complete when its hard joint constraints or *)
(* its hard link constraints are: within a threshold, or within a wider    *)
(* range and as far away as the last time it was judged, a stall.          *)
(*                                                                         *)
(* The state of the robot is a position on a line, and a constraint is a   *)
(* position; norms, transforms and forward kinematics are left out.        *)
(***************************************************************************)
EXTENDS Integers

CONSTANTS
    Position,               \* states of the robot
    Far,                    \* 1.0e10: farther than any constraint can be
    joint_displacement_threshold_, link_displacement_threshold_,
    joint_stall_threshold_, link_stall_threshold_,
    joint_stall_check_range_, link_stall_check_range_

Displacement == 0 .. Far
Constraints == [joints : SUBSET Position, links : SUBSET Position]
NoConstraints == [joints |-> {}, links |-> {}]

ASSUME CheckerAssumption ==
    /\ Far \in Nat
    /\ Position \subseteq Displacement
    /\ joint_displacement_threshold_ \in Nat /\ link_displacement_threshold_ \in Nat
    /\ joint_stall_threshold_ \in Nat /\ link_stall_threshold_ \in Nat
    /\ joint_stall_check_range_ \in Nat /\ link_stall_check_range_ \in Nat
    /\ joint_stall_check_range_ + joint_stall_threshold_ <= Far
    /\ link_stall_check_range_ + link_stall_threshold_ <= Far

VARIABLES
    checked,                        \* constraints_ of the checker
    previous_joint_displacement_,
    previous_link_displacement_,
    looked                          \* history: checked has been judged before

previous == <<previous_joint_displacement_, previous_link_displacement_>>
checker == <<checked, previous, looked>>

CheckerTypeOK ==
    /\ checked \in Constraints
    /\ previous_joint_displacement_ \in Displacement
    /\ previous_link_displacement_ \in Displacement
    /\ looked \in BOOLEAN

CheckerInit ==
    /\ checked = NoConstraints
    /\ previous_joint_displacement_ = Far
    /\ previous_link_displacement_ = Far
    /\ looked = FALSE

Abs(x) == IF x < 0 THEN -x ELSE x

(* A slip: the distance of the goal before is kept. *)
KeepPrevious == UNCHANGED previous

ForgetPrevious ==
    /\ previous_joint_displacement_' = Far
    /\ previous_link_displacement_' = Far

UpdateConstraints(constraints) ==
    /\ checked' = constraints
    /\ ForgetPrevious
    /\ looked' = FALSE

(* d is the least displacement of the constraints from a robot state, Far  *)
(* without constraints.                                                    *)
MinDisplacement(d, constraints, state) ==
    IF constraints = {} THEN d = Far
    ELSE /\ \E c \in constraints : d = Abs(state - c)
         /\ \A c \in constraints : d <= Abs(state - c)

JointReached(d) == checked.joints # {} /\ d < joint_displacement_threshold_
LinkReached(d) == checked.links # {} /\ d < link_displacement_threshold_

JointStalled(d) ==
    /\ checked.joints # {}
    /\ d < joint_stall_check_range_
    /\ Abs(d - previous_joint_displacement_) < joint_stall_threshold_

LinkStalled(d) ==
    /\ checked.links # {}
    /\ d < link_stall_check_range_
    /\ Abs(d - previous_link_displacement_) < link_stall_threshold_

(* Slips: what the next displacement is compared with is the change, or    *)
(* stays what it was.                                                      *)
StoredChange(previous_displacement, displacement) == displacement - previous_displacement
StoredNever(previous_displacement, displacement) == previous_displacement

Stored(previous_displacement, displacement) == displacement

(* ShouldComplete judges joints before links and stores what it compared;  *)
(* it returns before it stores a displacement within the threshold, and    *)
(* before it looks at links when the joints are complete.                  *)
Judge(joint, link, complete) ==
    LET joints == JointReached(joint) \/ JointStalled(joint)
        links  == LinkReached(link) \/ LinkStalled(link)
    IN  /\ complete = (joints \/ links)
        /\ previous_joint_displacement_' =
             IF checked.joints = {} \/ JointReached(joint)
             THEN previous_joint_displacement_
             ELSE Stored(previous_joint_displacement_, joint)
        /\ previous_link_displacement_' =
             IF checked.links = {} \/ joints \/ LinkReached(link)
             THEN previous_link_displacement_
             ELSE Stored(previous_link_displacement_, link)

ShouldComplete(state, complete) ==
    /\ \E joint \in Displacement :
         /\ MinDisplacement(joint, checked.joints, state)
         /\ \E link \in Displacement :
              /\ MinDisplacement(link, checked.links, state)
              /\ Judge(joint, link, complete)
    /\ looked' = TRUE
    /\ UNCHANGED checked

(* Whether a robot in this state has reached what the goal asks for. *)
Reached(constraints, state) ==
    \/ \E c \in constraints.joints : Abs(state - c) < joint_displacement_threshold_
    \/ \E c \in constraints.links : Abs(state - c) < link_displacement_threshold_
=============================================================================
