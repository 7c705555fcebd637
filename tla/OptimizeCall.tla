---------------------------- MODULE OptimizeCall ----------------------------
(***************************************************************************)
(* What a caller of IOptimizer::Optimize is promised, whoever runs the     *)
(* filters: two tasks for every trajectory, each of which answers once     *)
(* while the call lasts; the call returns when all have, with the valid    *)
(* answers in the order of the tasks; and it may be refused.               *)
(***************************************************************************)
EXTENDS Naturals, Sequences

CONSTANT MaxTrajectories

VARIABLES
    answers,        \* of the tasks of the call under way; <<>> between calls
    result          \* the tasks whose trajectories the last call returned

CallInit == answers = <<>> /\ result = <<>>

RefuseCall == answers = <<>> /\ result' = <<>> /\ UNCHANGED answers

Call(n) ==
    /\ answers = <<>>
    /\ answers' = [i \in 1 .. 2 * n |-> "awaited"]
    /\ result' = <<>>

AnswerTask(i, answer) ==
    /\ answers[i] = "awaited"
    /\ answers' = [answers EXCEPT ![i] = answer]
    /\ UNCHANGED result

(* Whether s lists the valid answers, each once, in the order of the tasks.*)
Lists(s) ==
    /\ {s[k] : k \in DOMAIN s} = {i \in DOMAIN answers : answers[i] = "valid"}
    /\ \A j, k \in DOMAIN s : j < k => s[j] < s[k]

Return ==
    /\ answers # <<>>
    /\ \A i \in DOMAIN answers : answers[i] # "awaited"
    /\ result' \in Seq(DOMAIN answers)
    /\ Lists(result')
    /\ answers' = <<>>

CallNext ==
    \/ RefuseCall
    \/ \E n \in 1 .. MaxTrajectories : Call(n)
    \/ \E i \in DOMAIN answers, answer \in {"valid", "null"} : AnswerTask(i, answer)
    \/ Return

CallSpec == CallInit /\ [][CallNext]_<<answers, result>>
=============================================================================
