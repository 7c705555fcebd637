-------------------------- MODULE MCPlannerClient --------------------------
(* The instance of MCLocalPlannerNode with two goals and a client, which     *)
(* sees no controller.                                                      *)
EXTENDS PlannerClient, MCLocalPlannerNode

ReachOnly == [Reach EXCEPT !.enable_base = FALSE]
ReachAndLook == {ReachOnly, Look}

NoControllers == {}
NoControllerJoints == [k \in NoControllers |-> {}]
NoHardJoints == [k \in MCConstraints |-> {}]
=============================================================================
