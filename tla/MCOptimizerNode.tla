-------------------------- MODULE MCOptimizerNode --------------------------
(* Two goals the optimizer can execute, at the same time, one of which may  *)
(* find a joint without limits, and one it must reject.                     *)
EXTENDS OptimizerNode

CONSTANTS good, other, malformed

MCGoals == {good, other, malformed}
MCMalformedGoals == {malformed}
MCUnlimitedGoals == {other}
=============================================================================
