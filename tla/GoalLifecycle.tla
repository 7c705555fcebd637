--------------------------- MODULE GoalLifecycle ---------------------------
(***************************************************************************)
(* What the planner node promises its clients about the goals they send,   *)
(* without threads, mutexes, status list or time: a goal waits, may run,   *)
(* and is closed once, by one verdict; no goal is accepted while another   *)
(* is open; only a goal that runs is ever called satisfied; every verdict  *)
(* is published in the end.                                                *)
(***************************************************************************)
CONSTANT Goals      \* ids clients use

VARIABLES
    phase,          \* how far each goal has come
    reported        \* the goals whose verdict has been published

Open == {"waiting", "running"}
Verdict == {"satisfied", "preempted", "empty"}
Phase == {"unknown"} \cup Open \cup Verdict

LifecycleInit ==
    /\ phase = [g \in Goals |-> "unknown"]
    /\ reported = {}

Accept(g) ==
    /\ phase[g] = "unknown"
    /\ \A other \in Goals : phase[other] \notin Open
    /\ phase' = [phase EXCEPT ![g] = "waiting"]
    /\ UNCHANGED reported

Run(g) ==
    /\ phase[g] = "waiting"
    /\ phase' = [phase EXCEPT ![g] = "running"]
    /\ UNCHANGED reported

(* A goal is satisfied while it runs, preempted at any time, found empty   *)
(* before it runs.                                                         *)
Close(g, verdict) ==
    /\ \/ verdict = "satisfied" /\ phase[g] = "running"
       \/ verdict = "preempted" /\ phase[g] \in Open
       \/ verdict = "empty" /\ phase[g] = "waiting"
    /\ phase' = [phase EXCEPT ![g] = verdict]
    /\ UNCHANGED reported

Unreported == {g \in Goals : phase[g] \in Verdict /\ g \notin reported}

Report ==
    /\ Unreported # {}
    /\ reported' = reported \cup Unreported
    /\ UNCHANGED phase

LifecycleNext ==
    \/ \E g \in Goals : Accept(g) \/ Run(g)
    \/ \E g \in Goals, verdict \in Verdict : Close(g, verdict)
    \/ Report

LifecycleSpec == LifecycleInit /\ [][LifecycleNext]_<<phase, reported>>

FairLifecycleSpec == LifecycleSpec /\ WF_<<phase, reported>>(Report)
=============================================================================
