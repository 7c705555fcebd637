--------------------------- MODULE PlannerClient ---------------------------
(***************************************************************************)
(* A client of the planner node and the two topics between them: the       *)
(* Python interface (robot_local_planner.py), whose waits time out, or the *)
(* example (send_command.py), whose waits do not.  The client has a thread *)
(* that publishes and waits, and a spin thread that keeps the last status  *)
(* message.                                                                *)
(*                                                                         *)
(* Goals go through a publisher that keeps one message; statuses are best  *)
(* effort and the client looks at the last one only.                       *)
(***************************************************************************)
EXTENDS LocalPlannerNode

CONSTANTS
    has_wait_complete,          \* publish waits for the goal
    WAIT_FOR_COMPLETE_TIMEOUT   \* ticks (20 s)

ASSUME ClientAssumption ==
    /\ has_wait_complete \in BOOLEAN
    /\ WAIT_FOR_COMPLETE_TIMEOUT \in Nat

VARIABLES
    times_out,          \* the interface, not the example
    awaited,            \* the goal being waited for, NoId without one
    wait_left,          \* ticks until the wait times out
    published,          \* goals the client has published
    completed,          \* goals for which a wait returned True
    constraints_topic,  \* the goal on its way to the node
    status_topic,       \* the last status message the node sent
    client_status       \* _status: the last one that arrived

waiting == <<times_out, awaited, wait_left, published, completed>>
client == <<waiting, constraints_topic, status_topic, client_status>>
allvars == <<vars, client>>

StatusMessage(list) == [id \in GoalId |-> list[id].value]
NoStatus == StatusMessage(EmptyList)

ClientInit ==
    /\ Init
    /\ times_out \in BOOLEAN
    /\ awaited = NoId /\ wait_left = 0
    /\ published = {}
    /\ completed = {}
    /\ constraints_topic = {}
    /\ status_topic = NoStatus
    /\ client_status = NoStatus

-----------------------------------------------------------------------------
(* The client's thread. *)

StartWaiting(id) ==
    /\ awaited' = id
    /\ wait_left' = IF times_out THEN WAIT_FOR_COMPLETE_TIMEOUT ELSE 0

(* publish, send_goal_sync: a goal the node has not taken yet is replaced. *)
PublishGoal(m) ==
    /\ awaited = NoId
    /\ m \notin published
    /\ \A other \in published : other.id # m.id
    /\ published' = published \cup {m}
    /\ constraints_topic' = {m}
    /\ IF has_wait_complete THEN StartWaiting(m.id) ELSE UNCHANGED <<awaited, wait_left>>
    /\ UNCHANGED <<vars, times_out, completed, status_topic, client_status>>

(* wait_for_complete, called for a goal published before: because publish *)
(* did not wait, or again after a wait that timed out.  The example's first*)
(* wait, for the id to appear at all (send_command.py:245), is part of this*)
(* one: there is no verdict for an id that does not appear.                *)
WaitForComplete(id) ==
    /\ awaited = NoId
    /\ \E m \in published : m.id = id
    /\ id \notin completed
    /\ StartWaiting(id)
    /\ UNCHANGED <<vars, times_out, published, completed>>
    /\ UNCHANGED <<constraints_topic, status_topic, client_status>>

WaitReturns(answers) ==
    /\ completed' = completed \cup answers
    /\ awaited' = NoId
    /\ wait_left' = 0
    /\ UNCHANGED <<vars, times_out, published>>
    /\ UNCHANGED <<constraints_topic, status_topic, client_status>>

(* Slips: a goal the status list does not show counts as done; the wait    *)
(* does not look at the clock.                                             *)
CompleteOrAbsent == {"SATISFIED", "PREEMPTED", "ABSENT"}
TimedOutNever == FALSE

Complete == {"SATISFIED", "PREEMPTED"}
TimedOut == times_out /\ wait_left = 0

SeeComplete ==
    /\ awaited # NoId
    /\ ~TimedOut
    /\ client_status[awaited] \in Complete
    /\ WaitReturns({awaited})

GiveUp ==
    /\ awaited # NoId
    /\ TimedOut
    /\ WaitReturns({})

-----------------------------------------------------------------------------
(* The client's spin thread, and what happens to messages. *)

StatusCallback ==
    /\ client_status' = status_topic
    /\ UNCHANGED <<vars, waiting, constraints_topic, status_topic>>

(* The interface does not wait until the node has subscribed. *)
LoseGoal ==
    /\ times_out
    /\ constraints_topic' = {}
    /\ UNCHANGED <<vars, waiting, status_topic, client_status>>

-----------------------------------------------------------------------------
(* The node: it receives what the topic holds and sends what it publishes. *)
(* Whether a controller still plays makes no difference to either.         *)

OnTopics(step) ==
    /\ step
    /\ received' \subseteq received \cup constraints_topic
    /\ constraints_topic' = constraints_topic \ received'
    /\ status_topic' = IF loop_pc \in {"plan", "publish"} /\ loop_pc' # loop_pc
                       THEN StatusMessage(statuses') ELSE status_topic
    /\ UNCHANGED <<waiting, client_status>>

TimePasses ==
    /\ Tick
    /\ wait_left' = IF wait_left > 0 THEN wait_left - 1 ELSE 0
    /\ UNCHANGED <<times_out, awaited, published, completed>>
    /\ UNCHANGED <<constraints_topic, status_topic, client_status>>

ClientNext ==
    \/ \E m \in RobotLocalGoalMsgs : PublishGoal(m)
    \/ \E id \in GoalId : WaitForComplete(id)
    \/ SeeComplete
    \/ GiveUp
    \/ StatusCallback
    \/ LoseGoal
    \/ OnTopics(SpinThread)
    \/ OnTopics(LoopThread)
    \/ TimePasses

ClientSpec == ClientInit /\ [][ClientNext]_allvars

(* The threads of both are scheduled, the robot publishes its state, time  *)
(* passes.  Messages may be lost for ever.                                 *)
FairClientSpec ==
    /\ ClientSpec
    /\ WF_allvars(OnTopics(LoopThread))
    /\ WF_allvars(OnTopics(\/ RegisterGoal \/ UpdateConstraints \/ InstallGoal
                           \/ BaseControllerStateCallback
                           \/ joint_state_ = {} /\ \E names \in JointStateNames : JointStateCallback(names)))
    /\ WF_allvars(SeeComplete \/ GiveUp)
    /\ WF_allvars(TimePasses)

-----------------------------------------------------------------------------
(* Properties. *)

ClientTypeOK ==
    /\ TypeOK
    /\ times_out \in BOOLEAN
    /\ awaited \in GoalId
    /\ wait_left \in 0 .. WAIT_FOR_COMPLETE_TIMEOUT
    /\ published \subseteq RobotLocalGoalMsgs
    /\ completed \subseteq GoalId \ {NoId}
    /\ constraints_topic \subseteq published
    /\ \A message \in {status_topic, client_status} :
          message \in [GoalId -> Live \cup Terminal \cup {"ABSENT"}]

(* A wait that returns True is right: the node has published that the goal *)
(* is satisfied or preempted, however old the message it was read from.    *)
WaitIsRight ==
    \A id \in completed : seen[id] \cap {"SATISFIED", "PREEMPTED"} # {}

(* Every wait of the interface returns, whatever becomes of goals and messages. *)
EveryWaitReturns == times_out /\ awaited # NoId ~> awaited = NoId

(* A client that waits for each goal until it is done is not               *)
(* exposed to the node clearing the wrong goal: no goal of it ends EMPTY   *)
(* unless it was sent empty.                                               *)
NoGoalIsEmptied ==
    ~times_out => \A id \in GoalId :
        statuses[id].value = "EMPTY" => \E m \in received : m.id = id /\ IsEmpty(m)
=============================================================================
