----------------------- MODULE MCOptimizerMultiThread -----------------------
(* Three workers and up to two trajectories: more tasks than workers, and     *)
(* fewer.                                                                   *)
EXTENDS OptimizerMultiThread

CONSTANTS w1, w2, w3

MCWorkers == {w1, w2, w3}
=============================================================================
