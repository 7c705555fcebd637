------------------------ MODULE OptimizerNodeProofs ------------------------
(***************************************************************************)
(* Proofs about OptimizerNode, for any goals, however many of them are     *)
(* executed at the same time, and any timeout: goals succeed exactly when  *)
(* they should, are ended once, and none is cut short by another.          *)
(***************************************************************************)
EXTENDS OptimizerNode, TLAPS

(* Names for reads are always expanded. *)
USE DEF Timeout, ValidateRobotTrajectory, LimitMayBeMissing

LEMMA OptimizerTypeStep == TypeOK /\ [Next]_vars => TypeOK'
<1> SUFFICES ASSUME TypeOK, [Next]_vars PROVE TypeOK'
  OBVIOUS
<1> USE OptimizerAssumption DEF TypeOK, Final, Filters, state, time
<1>1. CASE UNCHANGED vars
  BY <1>1 DEF vars
<1>2. ASSUME NEW g \in Goals, GoalCallback(g) \/ CancelCallback(g) PROVE TypeOK'
  BY <1>2 DEF GoalCallback, CancelCallback
<1>3. CASE JointStateCallback \/ OdometryCallback
  BY <1>3 DEF JointStateCallback, OdometryCallback
<1>4. CASE Tick
  BY <1>4 DEF Tick
<1>5. ASSUME NEW g \in Goals, Reset(g) PROVE TypeOK'
  BY <1>5 DEF Reset, Goto, Fail
<1>6. ASSUME NEW g \in Goals, ComputeLimits(g) \/ CollectCandidates(g) PROVE TypeOK'
  BY <1>6 DEF ComputeLimits, CollectCandidates, Goto, Fail
<1>7. ASSUME NEW g \in Goals, NEW valid \in BOOLEAN, FilterReturns(g, valid) PROVE TypeOK'
  BY <1>7 DEF FilterReturns, Goto
<1>8. ASSUME NEW g \in Goals, PublishSucceeded(g) \/ PublishAborted(g) \/ Abort(g)
      PROVE  TypeOK'
  BY <1>8 DEF PublishSucceeded, PublishAborted, Abort, Goto
<1> QED
  BY <1>1, <1>2, <1>3, <1>4, <1>5, <1>6, <1>7, <1>8
  DEF Next, Execute, FilterEnds, FilterGivesUp, SkipFilter

LEMMA OptimizerTypeInit == Init => TypeOK
<1> SUFFICES ASSUME Init PROVE TypeOK
  OBVIOUS
<1> USE DEF Init
<1>1. found \in [Goals -> SUBSET Filters]
  OBVIOUS
<1>2. timeout_left \in 0 .. optimize_timeout_ /\ own_left \in [Goals -> 0 .. optimize_timeout_]
  BY OptimizerAssumption
<1> QED
  BY <1>1, <1>2 DEF TypeOK

(* All variables have their types; the timeout is never put off beyond     *)
(* optimize_timeout_.                                                      *)
THEOREM OptimizerTypeCorrect == Spec => []TypeOK
BY OptimizerTypeInit, OptimizerTypeStep, PTL DEF Spec

-----------------------------------------------------------------------------
(* What a goal's thread is about to publish is due.                        *)

ThreadOf(g) ==
    /\ thread[g] = "none" => handle[g] \in {"unsent", "rejected"}
    /\ thread[g] \notin {"none", "ended"} => handle[g] \in {"executing", "canceling"}
    /\ thread[g] = "ended" => handle[g] \in Final
    /\ thread[g] \in {"none", "reset", "limits", "filter"} => found[g] = {}
    /\ thread[g] = "publish_succeeded" => found[g] # {} \/ is_force_succeeded_
    /\ thread[g] \in {"publish_aborted", "abort"} => found[g] = {} /\ ~is_force_succeeded_
    /\ thread[g] = "ended" => (handle[g] = "succeeded" <=> found[g] # {} \/ is_force_succeeded_)

DueInv == TypeOK /\ \A g \in Goals : ThreadOf(g)

LEMMA DueStep == DueInv /\ [Next]_vars => DueInv'
<1> SUFFICES ASSUME DueInv, [Next]_vars PROVE DueInv'
  OBVIOUS
<1>1. TypeOK /\ TypeOK'
  BY OptimizerTypeStep DEF DueInv
<1> SUFFICES ASSUME NEW h \in Goals PROVE ThreadOf(h)'
  BY <1>1 DEF DueInv
<1>2. ThreadOf(h)
  BY DEF DueInv
<1> USE <1>1, <1>2 DEF TypeOK, ThreadOf, Final, Filters, state, time
<1>3. CASE UNCHANGED vars
  BY <1>3 DEF vars
<1>4. ASSUME NEW g \in Goals, GoalCallback(g) PROVE ThreadOf(h)'
  <2>1. ThreadOf(g)
    BY DEF DueInv
  <2> QED
    BY <1>4, <2>1 DEF GoalCallback
<1>5. ASSUME NEW g \in Goals, CancelCallback(g) PROVE ThreadOf(h)'
  BY <1>5 DEF CancelCallback
<1>6. CASE JointStateCallback \/ OdometryCallback \/ Tick
  BY <1>6 DEF JointStateCallback, OdometryCallback, Tick
<1>7. ASSUME NEW g \in Goals, Reset(g) PROVE ThreadOf(h)'
  BY <1>7 DEF Reset, Goto, Fail
<1>8. ASSUME NEW g \in Goals, ComputeLimits(g) \/ CollectCandidates(g) PROVE ThreadOf(h)'
  BY <1>8 DEF ComputeLimits, CollectCandidates, Goto, Fail
<1>9. ASSUME NEW g \in Goals, NEW valid \in BOOLEAN, FilterReturns(g, valid) PROVE ThreadOf(h)'
  BY <1>9 DEF FilterReturns, Goto, Fail
<1>10. ASSUME NEW g \in Goals, PublishSucceeded(g) \/ PublishAborted(g) \/ Abort(g)
       PROVE  ThreadOf(h)'
  BY <1>10 DEF PublishSucceeded, PublishAborted, Abort, Goto
<1> QED
  BY <1>3, <1>4, <1>5, <1>6, <1>7, <1>8, <1>9, <1>10
  DEF Next, Execute, FilterEnds, FilterGivesUp, SkipFilter

(* An action ends with success if a filter found a trajectory or success   *)
(* is forced, and only then (optimizer_node.cpp:374 and 408).              *)
THEOREM SuccessIsDueHolds == Spec => []SuccessIsDue
<1>1. Init => DueInv
  BY OptimizerTypeInit DEF Init, DueInv, ThreadOf
<1>2. DueInv => SuccessIsDue
  BY DEF DueInv, ThreadOf, SuccessIsDue
<1> QED
  BY <1>1, <1>2, DueStep, PTL DEF Spec

-----------------------------------------------------------------------------
(* The timeout.  Whoever resets timeout_point_ last, the others may be     *)
(* given more time than their own, never less.                             *)
NoGoalIsCutShort ==
    \A g \in Goals : thread[g] \in Filters /\ timeout_left = 0 => own_left[g] = 0

(* The time that is left is that of the goal which was reset last.         *)
TimeoutInv ==
    /\ TypeOK
    /\ \A g \in Goals : own_left[g] <= timeout_left
    /\ timeout_left > 0 => \E g \in Goals : own_left[g] = timeout_left

LEMMA TimeoutStep == TimeoutInv /\ [Next]_vars => TimeoutInv'
<1> SUFFICES ASSUME TimeoutInv, [Next]_vars PROVE TimeoutInv'
  OBVIOUS
<1>1. TypeOK /\ TypeOK'
  BY OptimizerTypeStep DEF TimeoutInv
<1>2. /\ timeout_left \in Nat /\ own_left \in [Goals -> 0 .. optimize_timeout_]
      /\ \A g \in Goals : own_left[g] \in Nat /\ own_left[g] <= optimize_timeout_
  BY <1>1, OptimizerAssumption DEF TypeOK
<1>3. ASSUME UNCHANGED time PROVE TimeoutInv'
  BY <1>1, <1>3 DEF TimeoutInv, time
<1>4. ASSUME NEW g \in Goals, Reset(g) PROVE TimeoutInv'
  <2>1. CASE UNCHANGED time
    BY <1>3, <2>1
  <2>2. CASE timeout_left' = optimize_timeout_ /\ own_left' = [own_left EXCEPT ![g] = optimize_timeout_]
    <3>1. \A h \in Goals : own_left'[h] <= timeout_left'
      BY <1>2, <2>2, OptimizerAssumption
    <3>2. own_left'[g] = timeout_left'
      BY <1>2, <2>2
    <3> QED
      BY <1>1, <3>1, <3>2 DEF TimeoutInv
  <2> QED
    BY <1>4, <2>1, <2>2 DEF Reset
<1>5. CASE Tick
  <2>1. /\ timeout_left > 0 /\ timeout_left' = timeout_left - 1
        /\ \A g \in Goals : own_left'[g] = IF own_left[g] = 0 THEN 0 ELSE own_left[g] - 1
    BY <1>5 DEF Tick
  <2>2. \A g \in Goals : own_left'[g] <= timeout_left'
    BY <1>2, <2>1 DEF TimeoutInv
  <2>3. PICK g \in Goals : own_left[g] = timeout_left
    BY <2>1 DEF TimeoutInv
  <2>4. own_left'[g] = timeout_left'
    BY <1>2, <2>1, <2>3
  <2> QED
    BY <1>1, <2>2, <2>4 DEF TimeoutInv
<1>6. ASSUME NEW g \in Goals,
             \/ GoalCallback(g) \/ CancelCallback(g) \/ ComputeLimits(g)
             \/ \E valid \in BOOLEAN : FilterReturns(g, valid)
             \/ CollectCandidates(g)
             \/ PublishSucceeded(g) \/ PublishAborted(g) \/ Abort(g)
      PROVE  UNCHANGED time
  BY <1>6 DEF CollectCandidates, GoalCallback, CancelCallback, ComputeLimits, FilterReturns,
              PublishSucceeded, PublishAborted, Abort
<1>7. CASE JointStateCallback \/ OdometryCallback \/ UNCHANGED vars
  BY <1>3, <1>7 DEF JointStateCallback, OdometryCallback, vars
<1> QED
  BY <1>3, <1>4, <1>5, <1>6, <1>7
  DEF Next, Execute, FilterEnds, FilterGivesUp, SkipFilter

LEMMA TimeoutInit == Init => TimeoutInv
BY OptimizerTypeInit DEF Init, TimeoutInv

(* However many goals are executed at once, timeout_point_, which they     *)
(* share (optimizer_node.cpp:259), interrupts none before its own timeout. *)
THEOREM NoGoalIsCutShortHolds == Spec => []NoGoalIsCutShort
<1>1. TimeoutInv => NoGoalIsCutShort
  BY OptimizerAssumption DEF TimeoutInv, NoGoalIsCutShort, TypeOK
<1> QED
  BY <1>1, TimeoutInit, TimeoutStep, PTL DEF Spec

(* The clock interrupts a filter when the time of all goals is over, that  *)
(* of the last one to reset timeout_point_ included, neither sooner nor    *)
(* later.                                                                  *)
THEOREM InterruptedByTheLatestHolds == Spec => []InterruptedByTheLatest
<1>1. TimeoutInv => InterruptedByTheLatest
  <2> SUFFICES ASSUME TimeoutInv
               PROVE  timeout_left = 0 <=> \A other \in Goals : own_left[other] = 0
    BY DEF InterruptedByTheLatest, Interrupted
  <2>1. timeout_left \in Nat /\ \A g \in Goals : own_left[g] \in Nat
    BY OptimizerAssumption DEF TimeoutInv, TypeOK
  <2> QED
    BY <2>1 DEF TimeoutInv
<1> QED
  BY <1>1, TimeoutInit, TimeoutStep, PTL DEF Spec

-----------------------------------------------------------------------------
(* The goal handle.  rclcpp_action throws, in a detached thread, when a    *)
(* goal that has ended is ended again, or one canceled that is not         *)
(* canceling.                                                              *)
EndsOnce(g) ==
    /\ handle[g] \in Final => handle'[g] = handle[g]
    /\ handle'[g] = "canceled" => handle[g] \in {"canceling", "canceled"}

GoalsEndOnce == [][\A g \in Goals : EndsOnce(g)]_vars

(* Cancels, whenever they come, and the thread of a goal never end it      *)
(* twice (optimizer_node.cpp:575).                                         *)
THEOREM GoalsEndOnceHolds == Spec => GoalsEndOnce
<1>1. DueInv /\ [Next]_vars => [\A g \in Goals : EndsOnce(g)]_vars
  <2> SUFFICES ASSUME DueInv, Next, NEW h \in Goals PROVE EndsOnce(h)
    OBVIOUS
  <2>1. handle \in [Goals -> {"unsent", "rejected", "executing", "canceling"} \cup Final] /\ ThreadOf(h)
    BY DEF DueInv, TypeOK
  <2> USE <2>1 DEF EndsOnce, Final
  <2>2. ASSUME UNCHANGED handle PROVE EndsOnce(h)
    BY <2>2
  <2>3. ASSUME NEW g \in Goals, GoalCallback(g) \/ CancelCallback(g) PROVE EndsOnce(h)
    BY <2>3 DEF GoalCallback, CancelCallback
  <2>4. ASSUME NEW g \in Goals, PublishSucceeded(g) \/ PublishAborted(g) \/ Abort(g)
        PROVE  EndsOnce(h)
    BY <2>4 DEF PublishSucceeded, PublishAborted, Abort, ThreadOf
  <2>5. ASSUME NEW g \in Goals,
               \/ Reset(g) \/ ComputeLimits(g) \/ CollectCandidates(g)
               \/ \E valid \in BOOLEAN : FilterReturns(g, valid)
        PROVE  UNCHANGED handle
    BY <2>5 DEF Reset, ComputeLimits, CollectCandidates, FilterReturns
  <2>6. CASE JointStateCallback \/ OdometryCallback \/ Tick
    BY <2>2, <2>6 DEF JointStateCallback, OdometryCallback, Tick
  <2> QED
    BY <2>2, <2>3, <2>4, <2>5, <2>6
    DEF Next, Execute, FilterEnds, FilterGivesUp, SkipFilter
<1>2. Init => DueInv
  BY OptimizerTypeInit DEF Init, DueInv, ThreadOf
<1> QED
  BY <1>1, <1>2, DueStep, PTL DEF Spec, GoalsEndOnce

-----------------------------------------------------------------------------
(* The refinement.  For the thread of a goal g the plugin is one call of   *)
(* Optimize; what is shared with other goals does not show.                *)

CallInv(g) ==
    /\ TypeOK
    /\ thread[g] \in {"none", "reset", "limits", "filter"} => found[g] = {}
    /\ thread[g] = "filter_via_stop" => found[g] \subseteq {"filter"}

Answers(g) == IF Calling(g) THEN [i \in 1 .. 2 |-> AnswerOf(g, Filter[i])] ELSE <<>>
Result(g) == IF Calling(g) THEN <<>> ELSE Returned(g)

(* Other threads and callbacks change neither, nor does a step of the      *)
(* goal's own thread outside the call.                                     *)
LEMMA HiddenFromCall ==
    ASSUME NEW g \in Goals, UNCHANGED found[g],
           UNCHANGED thread[g] \/ (~Calling(g) /\ ~Calling(g)')
    PROVE  UNCHANGED <<Answers(g), Result(g)>>
<1>1. UNCHANGED Calling(g) /\ UNCHANGED Returned(g)
  BY DEF Calling, Returned
<1>2. Calling(g) => \A i \in 1 .. 2 : UNCHANGED AnswerOf(g, Filter[i])
  BY <1>1 DEF AnswerOf
<1> QED
  BY <1>1, <1>2 DEF Answers, Result

LEMMA BeginOfCall ==
    ASSUME NEW g \in Goals, CallInv(g), ComputeLimits(g)
    PROVE  \/ Abstract(g)!Call(1)
           \/ UNCHANGED <<Answers(g), Result(g)>>
<1> USE DEF ComputeLimits, CallInv, TypeOK
<1>1. CASE Goto(g, "filter")
  <2>1. ~Calling(g) /\ thread'[g] = "filter"
    BY <1>1 DEF Calling, Goto, Filters
  <2>2. Calling(g)' /\ \A i \in 1 .. 2 : AnswerOf(g, Filter[i])' = "awaited"
    BY <2>1 DEF Calling, AnswerOf, Filters
  <2>3. 2 * 1 = 2
    OBVIOUS
  <2> QED
    BY <2>1, <2>2, <2>3 DEF Abstract!Call
<1>2. CASE Fail(g)
  <2>1. ~Calling(g) /\ ~Calling(g)'
    BY <1>2 DEF Calling, Goto, Filters, Fail
  <2> QED
    BY <2>1, HiddenFromCall
<1> QED
  BY <1>1, <1>2

LEMMA AnswerOfFilter ==
    ASSUME NEW g \in Goals, CallInv(g), NEW valid \in BOOLEAN, FilterReturns(g, valid)
    PROVE  \E i \in 1 .. 2 : /\ Answers(g) = [j \in 1 .. 2 |-> AnswerOf(g, Filter[j])]
                             /\ Abstract(g)!AnswerTask(i, IF valid THEN "valid" ELSE "null")
<1>1. Calling(g) /\ Calling(g)'
  BY DEF Calling, FilterReturns, CallInv, TypeOK, Goto, Filters
<1>2. ASSUME NEW i \in 1 .. 2, NEW a,
             AnswerOf(g, Filter[i]) = "awaited", AnswerOf(g, Filter[i])' = a,
             \A j \in 1 .. 2 : j # i => UNCHANGED AnswerOf(g, Filter[j])
      PROVE  Abstract(g)!AnswerTask(i, a)
  <2> DEFINE all == [j \in 1 .. 2 |-> AnswerOf(g, Filter[j])]
  <2>1. all[i] = "awaited" /\ all' = [all EXCEPT ![i] = a]
    BY <1>2
  <2> HIDE DEF all
  <2> QED
    BY <1>1, <2>1 DEF Abstract!AnswerTask, all
<1> USE DEF FilterReturns, CallInv, TypeOK, Goto, Filters
<1>3. Filter[1] = "filter" /\ Filter[2] = "filter_via_stop"
  BY DEF Filter
<1> DEFINE answer == IF valid THEN "valid" ELSE "null"
<1>4. CASE thread[g] = "filter"
  <2>1. found[g] = {} /\ thread'[g] = "filter_via_stop" /\ found'[g] = IF valid THEN {"filter"} ELSE {}
    BY <1>4
  <2>2. /\ AnswerOf(g, Filter[1]) = "awaited" /\ AnswerOf(g, Filter[2]) = "awaited"
        /\ AnswerOf(g, Filter[1])' = answer /\ AnswerOf(g, Filter[2])' = "awaited"
    BY <1>3, <1>4, <2>1 DEF AnswerOf
  <2>3. Abstract(g)!AnswerTask(1, answer)
    BY <1>3, <1>2, <2>2
  <2> QED
    BY <1>1, <2>3 DEF Answers
<1>5. CASE thread[g] = "filter_via_stop"
  <2>1. /\ found[g] \subseteq {"filter"} /\ thread'[g] = "collect"
        /\ found'[g] = IF valid THEN found[g] \cup {"filter_via_stop"} ELSE found[g]
    BY <1>5
  <2>2. /\ AnswerOf(g, Filter[2]) = "awaited" /\ AnswerOf(g, Filter[2])' = answer
        /\ AnswerOf(g, Filter[1])' = AnswerOf(g, Filter[1])
    BY <1>3, <1>5, <2>1 DEF AnswerOf
  <2>3. Abstract(g)!AnswerTask(2, answer)
    BY <1>3, <1>2, <2>2
  <2> QED
    BY <1>1, <2>3 DEF Answers
<1> QED
  BY <1>4, <1>5

LEMMA EndOfCall ==
    ASSUME NEW g \in Goals, CallInv(g), CollectCandidates(g)
    PROVE  Abstract(g)!Return
<1> USE DEF CollectCandidates, CallInv, TypeOK, Goto
<1>1. Calling(g) /\ ~Calling(g)' /\ UNCHANGED found
  BY DEF Calling, Filters, Fail
<1>2. Filter[1] = "filter" /\ Filter[2] = "filter_via_stop"
  BY DEF Filter
<1> DEFINE all == [i \in 1 .. 2 |-> AnswerOf(g, Filter[i])]
           s == Returned(g)
<1>3. /\ DOMAIN all = 1 .. 2
      /\ all[1] = IF "filter" \in found[g] THEN "valid" ELSE "null"
      /\ all[2] = IF "filter_via_stop" \in found[g] THEN "valid" ELSE "null"
  BY <1>2 DEF AnswerOf
<1>4. \A i \in DOMAIN all : all[i] # "awaited"
  BY <1>3
<1>5. all # <<>>
  BY <1>3
<1>6. /\ s \in Seq(1 .. 2)
      /\ {s[k] : k \in DOMAIN s} = {i \in DOMAIN all : all[i] = "valid"}
      /\ \A j, k \in DOMAIN s : j < k => s[j] < s[k]
  <2>1. found[g] \subseteq {"filter", "filter_via_stop"}
    BY DEF Filters
  <2>2. CASE found[g] = Filters
    <3>1. s = <<1, 2>>
      BY <2>2 DEF Returned
    <3>2. {i \in DOMAIN all : all[i] = "valid"} = {1, 2}
      BY <1>3, <2>2 DEF Filters
    <3> HIDE DEF s
    <3> QED
      BY <3>1, <3>2
  <2>3. CASE found[g] = {"filter"}
    <3>1. s = <<1>>
      BY <2>3 DEF Returned, Filters
    <3>2. {i \in DOMAIN all : all[i] = "valid"} = {1}
      BY <1>3, <2>3
    <3> HIDE DEF s
    <3> QED
      BY <3>1, <3>2
  <2>4. CASE found[g] = {"filter_via_stop"}
    <3>1. s = <<2>>
      BY <2>4 DEF Returned, Filters
    <3>2. {i \in DOMAIN all : all[i] = "valid"} = {2}
      BY <1>3, <2>4
    <3> HIDE DEF s
    <3> QED
      BY <3>1, <3>2
  <2>5. CASE found[g] = {}
    <3>1. s = <<>>
      BY <2>5 DEF Returned, Filters
    <3>2. {i \in DOMAIN all : all[i] = "valid"} = {}
      BY <1>3, <2>5
    <3> HIDE DEF s
    <3> QED
      BY <3>1, <3>2
  <2>6. found[g] \in {Filters, {"filter"}, {"filter_via_stop"}, {}}
    BY ONLY <2>1 DEF Filters
  <2> HIDE DEF s, all
  <2> QED
    BY ONLY <2>2, <2>3, <2>4, <2>5, <2>6
<1>7. Returned(g)' = s
  BY <1>1 DEF Returned
<1> HIDE DEF s, all
<1>8. Abstract(g)!Lists(s)
  BY <1>1, <1>6 DEF Abstract!Lists, all
<1> QED
  BY <1>1, <1>3, <1>4, <1>5, <1>6, <1>7, <1>8 DEF Abstract!Return, all

LEMMA CallOfThread ==
    ASSUME NEW g \in Goals, DueInv, CallInv(g), [Next]_vars
    PROVE  /\ Abstract(g)!CallNext \/ UNCHANGED <<Answers(g), Result(g)>>
           /\ CallInv(g)'
<1>1. TypeOK /\ TypeOK'
  BY OptimizerTypeStep DEF CallInv
<1> USE <1>1 DEF TypeOK, Filters, state
<1>2. ASSUME UNCHANGED found[g],
             \/ UNCHANGED thread[g]
             \/ /\ ~Calling(g) /\ ~Calling(g)'
                /\ thread[g] \in {"none", "reset", "limits"}
                   \/ thread'[g] \notin {"none", "reset", "limits"}
      PROVE  UNCHANGED <<Answers(g), Result(g)>> /\ CallInv(g)'
  <2>1. UNCHANGED <<Answers(g), Result(g)>>
    <3>1. UNCHANGED thread[g] \/ (~Calling(g) /\ ~Calling(g)')
      BY <1>2
    <3> QED
      BY ONLY <1>2, <3>1, HiddenFromCall, g \in Goals
  <2>2. CallInv(g)'
    <3>1. thread'[g] \notin Filters
          \/ UNCHANGED thread[g]
      BY <1>2 DEF Calling
    <3>2. thread'[g] \in {"none", "reset", "limits", "filter"} => found'[g] = {}
      BY <1>2, <3>1 DEF CallInv
    <3>3. thread'[g] = "filter_via_stop" => found'[g] \subseteq {"filter"}
      BY <1>2, <3>1 DEF CallInv
    <3> QED
      BY <1>1, <3>2, <3>3 DEF CallInv
  <2> QED
    BY <2>1, <2>2
<1>3. ASSUME NEW h \in Goals, h # g, NEW valid \in BOOLEAN,
             \/ GoalCallback(h) \/ CancelCallback(h) \/ Reset(h) \/ ComputeLimits(h)
             \/ FilterReturns(h, valid) \/ CollectCandidates(h)
             \/ PublishSucceeded(h) \/ PublishAborted(h) \/ Abort(h)
      PROVE  UNCHANGED <<found[g], thread[g]>>
  BY <1>3 DEF GoalCallback, CancelCallback, Reset, ComputeLimits, FilterReturns,
              CollectCandidates, PublishSucceeded, PublishAborted, Abort, Goto, Fail
<1>4. CASE JointStateCallback \/ OdometryCallback \/ Tick \/ UNCHANGED vars
  BY <1>2, <1>4 DEF JointStateCallback, OdometryCallback, Tick, vars
<1>5. CASE GoalCallback(g) \/ CancelCallback(g)
  <2>1. (thread[g] = "none" /\ thread'[g] = "reset") \/ UNCHANGED thread[g]
    BY <1>5 DEF GoalCallback, CancelCallback, DueInv, ThreadOf, Final
  <2>2. UNCHANGED found[g]
    BY <1>5 DEF GoalCallback, CancelCallback
  <2> QED
    BY <1>2, <2>1, <2>2 DEF Calling
<1>6. CASE Reset(g)
  BY <1>2, <1>6 DEF Reset, Goto, Fail, Calling
<1>7. CASE PublishSucceeded(g) \/ PublishAborted(g) \/ Abort(g)
  BY <1>2, <1>7 DEF PublishSucceeded, PublishAborted, Abort, Goto, Calling
<1>8. CASE ComputeLimits(g)
  <2>1. CallInv(g)'
    BY <1>8 DEF ComputeLimits, Goto, Fail, CallInv
  <2> QED
    BY <1>8, <2>1, BeginOfCall DEF Abstract!CallNext
<1>9. ASSUME NEW valid \in BOOLEAN, FilterReturns(g, valid)
      PROVE  Abstract(g)!CallNext /\ CallInv(g)'
  <2>1. CallInv(g)'
    BY <1>9 DEF FilterReturns, Goto, CallInv
  <2>2. DOMAIN [j \in 1 .. 2 |-> AnswerOf(g, Filter[j])] = 1 .. 2
    OBVIOUS
  <2> QED
    BY <1>9, <2>1, <2>2, AnswerOfFilter DEF Abstract!CallNext, Answers
<1>10. CASE CollectCandidates(g)
  <2>1. CallInv(g)'
    BY <1>10 DEF CollectCandidates, Goto, Fail, CallInv
  <2> QED
    BY <1>10, <2>1, EndOfCall DEF Abstract!CallNext
<1> QED
  BY <1>2, <1>3, <1>4, <1>5, <1>6, <1>7, <1>8, <1>9, <1>10
  DEF Next, Execute, FilterEnds, FilterGivesUp, SkipFilter

(* The single-thread plugin implements OptimizeCall for each goal          *)
(* (optimizer_node.cpp:384), as the one with a pool does, although all     *)
(* goals share one plugin and may be executed at the same time.            *)
THEOREM ImplementsOptimizeCallHolds ==
    ASSUME NEW g \in Goals
    PROVE  Spec => ImplementsOptimizeCall(g)
<1>1. Init => Abstract(g)!CallInit /\ DueInv /\ CallInv(g)
  BY OptimizerTypeInit
  DEF Init, Abstract!CallInit, Calling, DueInv, ThreadOf, CallInv, Returned, Filters
<1>2. DueInv /\ CallInv(g) /\ [Next]_vars => (DueInv /\ CallInv(g))'
  BY DueStep, CallOfThread
<1>3. DueInv /\ CallInv(g) /\ [Next]_vars => [Abstract(g)!CallNext]_<<Answers(g), Result(g)>>
  BY CallOfThread
<1> QED
  BY <1>1, <1>2, <1>3, PTL
  DEF Spec, ImplementsOptimizeCall, Abstract!CallSpec, Answers, Result
=============================================================================
