--------------------------- MODULE PlannerStatus ---------------------------
(***************************************************************************)
(* The list of goal statuses that RobotLocalPlannerStatusPublisher keeps   *)
(* (utils.cpp) and both threads of the node write.  The code holds a       *)
(* vector with at most one entry per goal id; no reader depends on its     *)
(* order, so the list is a function of the id.  An entry carries its age   *)
(* in ticks since last_updated_stamp instead of the stamp: only the        *)
(* difference to now is ever read, and past Retention all ages are alike.  *)
(***************************************************************************)
EXTENDS Naturals

CONSTANTS
    GoalId,      \* ids of the goals, the id of the initial constraints included
    Retention    \* ticks an entry stays listed after its last update (10 s)

ASSUME RetentionAssumption == Retention \in Nat

Live == {"NOT_USED", "RUNNING"}
Terminal == {"SATISFIED", "PREEMPTED", "EMPTY"}
Age == 0 .. (Retention + 1)

NoEntry == [value |-> "ABSENT", age |-> 0]
StatusList == [GoalId -> [value : Live \cup Terminal, age : Age] \cup {NoEntry}]

EmptyList == [id \in GoalId |-> NoEntry]

(* Slips the runs must notice: a closed goal is overwritten, a preempted   *)
(* one is, or the stamp is not renewed.                                    *)
OverwriteAlways(list, name, status) ==
    [list EXCEPT ![name] = [value |-> status, age |-> 0]]

OverwritePreempted(list, name, status) ==
    IF list[name].value \in Terminal \ {"PREEMPTED"}
    THEN list
    ELSE [list EXCEPT ![name] = [value |-> status, age |-> 0]]

StampKept(list, name, status) ==
    IF list[name].value \in Terminal
    THEN list
    ELSE [list EXCEPT ![name].value = status]

(* A terminal entry is left as it is, its stamp included; any other entry  *)
(* is overwritten and a missing one is appended.                           *)
UpdateConstraintsStatus(list, name, status) ==
    IF list[name].value \in Terminal
    THEN list
    ELSE [list EXCEPT ![name] = [value |-> status, age |-> 0]]

(* A slip: nothing is ever too old, and the list grows for ever. *)
NeverExpired(list, name) == FALSE

(* What PublishImpl_ erases before it sends the list. *)
Expired(list, name) == list[name].age > Retention

(* A slip: closed goals are erased with the old ones, before they are sent.*)
OnlyOpen(list) ==
    [id \in GoalId |-> IF Expired(list, id) \/ list[id].value \in Terminal
                       THEN NoEntry ELSE list[id]]

Unexpired(list) ==
    [id \in GoalId |-> IF Expired(list, id) THEN NoEntry ELSE list[id]]

(* One tick of the clock: every entry gets older. *)
Aged(list) ==
    [id \in GoalId |->
        IF list[id] = NoEntry \/ Expired(list, id)
        THEN list[id]
        ELSE [list[id] EXCEPT !.age = @ + 1]]
=============================================================================
