--------------------------- MODULE BaseKinematics ---------------------------
(***************************************************************************)
(* BaseKinematics (base_kinematics.cpp): how fast the twin caster drive may*)
(* move in a direction, with two wheels and an axis that turns the body,   *)
(* each of them limited.                                                   *)
(*                                                                         *)
(* Velocities of the base are in units of wheel_radius / (2 * tread), which*)
(* makes them integers.  Angles are quarter turns, but a direction is any  *)
(* vector with integer components, and of several candidates as near to it *)
(* rounding decides.                                                       *)
(***************************************************************************)
EXTENDS Integers

CONSTANTS
    tread, caster_offset,                   \* OmniBaseSize
    wheel_velocity, wheel_acceleration,     \* BaseJointLimits, in steps
    caster_velocity, caster_acceleration,   \* in units of the base
    kSteps                                  \* candidates to a side, 50

ASSUME KinematicsAssumption ==
    /\ tread \in Nat \ {0} /\ caster_offset \in Nat \ {0}
    /\ kSteps \in Nat \ {0}
    /\ wheel_velocity \in Nat \ {0} /\ wheel_velocity % kSteps = 0
    /\ wheel_acceleration \in Nat \ {0} /\ wheel_acceleration % kSteps = 0
    /\ caster_velocity \in Nat /\ caster_acceleration \in Nat

Vector == Int \X Int
Wheels == [right : Int, left : Int]
Quarter == 0 .. 3

Magnitude(x) == IF x < 0 THEN -x ELSE x
Sum(u, v) == <<u[1] + v[1], u[2] + v[2]>>
Dot(u, v) == u[1] * v[1] + u[2] * v[2]
Cross(u, v) == u[1] * v[2] - u[2] * v[1]

Turned(v, quarters) ==
    CASE quarters % 4 = 0 -> v
      [] quarters % 4 = 1 -> <<-v[2], v[1]>>
      [] quarters % 4 = 2 -> <<-v[1], -v[2]>>
      [] quarters % 4 = 3 -> <<v[2], -v[1]>>

(* The edge of what the wheels can do, a loop along the sides and then the *)
(* corners.  The slip does without the corners.                            *)
Steps(limit, number) == {(limit \div kSteps) * i : i \in -number .. number}

Sides(limit) ==
    LET inner == Steps(limit, kSteps - 1)
    IN  [right : {limit, -limit}, left : inner] \cup [right : inner, left : {limit, -limit}]

GenerateCandidates(limit) ==
    Sides(limit) \cup [right : {limit, -limit}, left : {limit, -limit}]

(* The Jacobian applied to the wheels: they drive the base along and, being*)
(* off the axis, across the body.  Its derivative, times the velocities, is*)
(* what accelerates the base while the body turns.                         *)
Moved(wheels, roll) ==
    Turned(<<tread * (wheels.right + wheels.left),
             2 * caster_offset * (wheels.right - wheels.left)>>, roll)

Drift(velocities, roll) ==
    LET v == Moved(velocities, roll + 1)
    IN  <<velocities.roll * v[1], velocities.roll * v[2]>>

(* atan2 of the null vector is 0. *)
Direction(v) == IF v = <<0, 0>> THEN <<1, 0>> ELSE v

(* The angle from d to u is smaller than the one to v: cosines are compared*)
(* by their squares, with their signs.                                     *)
Nearer(d, u, v) ==
    LET Cosine(x, y) == Dot(d, x) * Magnitude(Dot(d, x)) * Dot(y, y)
    IN  Cosine(u, v) > Cosine(v, u)

(* The candidates that move the base nearest to a direction. *)
Nearest(limit, drift, roll, d) ==
    LET moved(c) == Direction(Sum(Moved(c, roll), drift))
    IN  {c \in GenerateCandidates(limit) :
            \A other \in GenerateCandidates(limit) : ~Nearer(d, moved(other), moved(c))}

(* What the wheels leave of the turning axis' limit.  The slip adds them.  *)
YawOfWheels(wheels) == 2 * (wheels.right - wheels.left)

LargerOf(x, y) == IF x > y THEN x ELSE y

SmallerOf(x, y) == IF x < y THEN x ELSE y

YawLimit(wheels, caster) ==
    SmallerOf(Magnitude(YawOfWheels(wheels) - caster),
              Magnitude(YawOfWheels(wheels) + caster))

(* CalculateBaseMaxVelocity and CalculateBaseMaxAcceleration, which differ *)
(* in their limits and in the drift: along x, y and yaw of the origin.     *)
CalculateBaseMax(wheels, caster, drift, roll, yaw) ==
    LET v == Turned(Sum(Moved(wheels, roll), drift), yaw)
    IN  <<Magnitude(v[1]), Magnitude(v[2]), YawLimit(wheels, caster)>>

-----------------------------------------------------------------------------
(* What is expected of them. *)

Along(d, v) == Cross(d, v) = 0 /\ Dot(d, v) > 0

(* If the edge has a point in this direction, nothing the wheels can do in *)
(* it exceeds the result.                                                  *)
IsFastest(result, limit, drift, roll, yaw, d) ==
    LET all      == [right : Steps(limit, kSteps), left : Steps(limit, kSteps)]
        moved(c) == Sum(Moved(c, roll), drift)
        along    == {c \in all : Along(d, moved(c))}
    IN  (\E c \in along : limit \in {Magnitude(c.right), Magnitude(c.left)})
        => \A c \in along : \A axis \in 1 .. 2 :
              Magnitude(Turned(moved(c), yaw)[axis]) <= result[axis]

(* The rates the body can turn by while the wheels do this.                *)
YawRates(wheels, caster) == {YawOfWheels(wheels) - axis : axis \in -caster .. caster}

(* The largest rate the body can turn by both ways or, if the wheels turn  *)
(* the base faster than the axis can turn the body back, the smallest of   *)
(* the rates it can turn by at all, which is one way only.                 *)
IsSharp(yaw, wheels, caster) ==
    LET rates    == YawRates(wheels, caster)
        bothWays == {rate \in rates : -rate \in rates}
    IN  IF bothWays # {}
        THEN yaw \in bothWays /\ \A rate \in bothWays : rate <= yaw
        ELSE {yaw, -yaw} \cap rates # {} /\ \A rate \in rates : Magnitude(rate) >= yaw
=============================================================================
