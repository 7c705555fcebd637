--------------------- MODULE OptimizerMultiThreadProofs ---------------------
(***************************************************************************)
(* Proofs about OptimizerMultiThread, for any number of workers and of     *)
(* trajectories: a task is in one place, none outlives its call, no wakeup *)
(* is lost, nobody waits for ever, and a caller sees OptimizeCall.         *)
(***************************************************************************)
EXTENDS OptimizerMultiThread, SequenceTheorems, TLAPS

(* Names for a read and for a count are always expanded. *)
USE DEF Answered, LastTask, AfterFront

-----------------------------------------------------------------------------
(* The queue.  Elements(s) is what is in it, Once(s) that nothing is twice.*)

Elements(s) == {s[k] : k \in DOMAIN s}
Once(s) == \A j, k \in DOMAIN s : s[j] = s[k] => j = k

LEMMA EmptyQueue == <<>> \in Seq(Task) /\ Elements(<<>>) = {} /\ Once(<<>>)
<1>1. <<>> \in Seq(Task)
  OBVIOUS
<1>2. Elements(<<>>) = {} /\ Once(<<>>)
  BY DEF Elements, Once
<1> QED
  BY <1>1, <1>2

LEMMA AppendToQueue ==
    ASSUME NEW s \in Seq(Task), NEW i \in Task
    PROVE  /\ Append(s, i) \in Seq(Task)
           /\ Append(s, i) # <<>>
           /\ Elements(Append(s, i)) = Elements(s) \cup {i}
           /\ Once(s) /\ i \notin Elements(s) => Once(Append(s, i))
<1> DEFINE t == Append(s, i)
<1>1. /\ t \in Seq(Task) /\ Len(t) = Len(s) + 1
      /\ t[Len(s) + 1] = i
      /\ \A k \in 1 .. Len(s) : t[k] = s[k]
  OBVIOUS
<1>2. DOMAIN s = 1 .. Len(s) /\ DOMAIN t = 1 .. Len(s) + 1 /\ Len(s) \in Nat
  BY <1>1
<1>3. t # <<>>
  BY <1>1
<1>4. Elements(t) = Elements(s) \cup {i}
  BY <1>1, <1>2 DEF Elements
<1>5. ASSUME Once(s), i \notin Elements(s) PROVE Once(t)
  BY <1>1, <1>2, <1>5 DEF Elements, Once
<1> QED
  BY <1>1, <1>3, <1>4, <1>5

LEMMA TakeFromQueue ==
    ASSUME NEW s \in Seq(Task), s # <<>>
    PROVE  /\ Tail(s) \in Seq(Task)
           /\ Head(s) \in Task
           /\ Elements(s) = Elements(Tail(s)) \cup {Head(s)}
           /\ Once(s) => Once(Tail(s)) /\ Head(s) \notin Elements(Tail(s))
<1> DEFINE t == Tail(s)
<1>1. /\ t \in Seq(Task) /\ Len(t) = Len(s) - 1 /\ Len(s) \in Nat \ {0}
      /\ Head(s) = s[1] /\ s[1] \in Task
      /\ \A k \in 1 .. Len(t) : t[k] = s[k + 1]
  OBVIOUS
<1>2. DOMAIN s = 1 .. Len(s) /\ DOMAIN t = 1 .. Len(s) - 1
  BY <1>1
<1>3. Elements(s) = Elements(t) \cup {s[1]}
  <2>1. ASSUME NEW k \in DOMAIN s PROVE s[k] \in Elements(t) \cup {s[1]}
    <3>1. CASE k = 1
      BY <3>1
    <3>2. CASE k # 1
      <4>1. k - 1 \in DOMAIN t /\ t[k - 1] = s[k]
        BY <1>1, <1>2, <3>2
      <4> QED
        BY <4>1 DEF Elements
    <3> QED
      BY <3>1, <3>2
  <2>2. ASSUME NEW k \in DOMAIN t PROVE t[k] \in Elements(s)
    <3>1. k + 1 \in DOMAIN s /\ t[k] = s[k + 1]
      BY <1>1, <1>2
    <3> QED
      BY <3>1 DEF Elements
  <2>3. s[1] \in Elements(s)
    BY <1>1, <1>2 DEF Elements
  <2> QED
    BY <2>1, <2>2, <2>3 DEF Elements
<1>4. ASSUME Once(s) PROVE Once(t) /\ s[1] \notin Elements(t)
  <2>1. \A k \in DOMAIN t : k + 1 \in DOMAIN s /\ 1 \in DOMAIN s /\ t[k] = s[k + 1]
    BY <1>1, <1>2
  <2>2. Once(t)
    BY <2>1, <1>2, <1>4 DEF Once
  <2>3. s[1] \notin Elements(t)
    BY <2>1, <1>2, <1>4 DEF Once, Elements
  <2> QED
    BY <2>2, <2>3
<1> QED
  BY <1>1, <1>3, <1>4

LEMMA TasksOfCall == Task \subseteq Nat \ {0} /\ \A n \in 0 .. MaxTrajectories : 2 * n \in Nat /\ 1 .. 2 * n \subseteq Task
BY PoolAssumption DEF Task

-----------------------------------------------------------------------------
(* The inductive invariant. *)

BusyHasTask == \A w \in Workers : worker[w] = "running" <=> running[w] # NoTask

(* The tasks made so far are those up to next, before it notifies, or all. *)
Made(n) == \A i \in Task : future[i] # "none" <=> i <= n

FuturesFollowCaller ==
    /\ caller \in {"enqueue", "notify", "wait"} => next \in 1 .. 2 * size
    /\ caller = "enqueue" => Made(next - 1)
    /\ caller = "notify" => Made(next)
    /\ caller = "wait" => Made(2 * size) /\ \A i \in 1 .. next - 1 : future[i] # "pending"
    /\ caller \in {"idle", "notify_all", "join", "destroyed"}
       => \A i \in Task : future[i] # "pending"

PoolInv ==
    /\ TypeOK
    /\ OnePlace
    /\ BusyHasTask
    /\ FuturesFollowCaller

(* OnePlace, in terms of the queue's contents. *)
LEMMA OnePlaceOfQueue ==
    OnePlace <=>
        /\ Once(tasks)
        /\ \A v, w \in Workers : running[v] = running[w] => v = w \/ running[v] = NoTask
        /\ \A w \in Workers : running[w] \notin Elements(tasks)
        /\ \A i \in Task : future[i] = "pending"
                           <=> i \in Elements(tasks) \/ \E w \in Workers : running[w] = i
BY DEF OnePlace, Once, Queued, Elements

(* With no future pending there is no task anywhere. *)
LEMMA NothingPending ==
    ASSUME TypeOK, OnePlace, BusyHasTask, \A i \in Task : future[i] # "pending"
    PROVE  tasks = <<>> /\ \A w \in Workers : running[w] = NoTask /\ worker[w] # "running"
<1>1. Elements(tasks) \cap Task = {}
  BY OnePlaceOfQueue
<1>2. tasks = <<>>
  <2> SUFFICES ASSUME tasks # <<>> PROVE FALSE
    OBVIOUS
  <2>1. Head(tasks) \in Task /\ Head(tasks) \in Elements(tasks)
    BY TakeFromQueue DEF TypeOK
  <2> QED
    BY <1>1, <2>1
<1>3. ASSUME NEW w \in Workers PROVE running[w] = NoTask
  BY OnePlaceOfQueue DEF TypeOK
<1> QED
  BY <1>2, <1>3 DEF BusyHasTask

LEMMA PlacesKept ==
    ASSUME OnePlace, UNCHANGED <<tasks, running, future>>
    PROVE  OnePlace'
BY DEF OnePlace, Queued

LEMMA InitPool == Init => PoolInv
<1> SUFFICES ASSUME Init PROVE PoolInv
  OBVIOUS
<1> USE DEF Init
<1>1. TypeOK
  <2>1. 0 \in 0 .. MaxTrajectories /\ 1 \in 1 .. 2 * MaxTrajectories + 1
    BY PoolAssumption
  <2>2. tasks \in Seq(Task) /\ trajectories_out \in Seq(Task)
    BY EmptyQueue
  <2>3. stop \in BOOLEAN /\ timed_out \in BOOLEAN
    OBVIOUS
  <2> QED
    BY <2>1, <2>2, <2>3 DEF TypeOK
<1>2. OnePlace
  BY OnePlaceOfQueue, EmptyQueue, TasksOfCall DEF NoTask
<1>3. BusyHasTask
  BY DEF BusyHasTask
<1>4. FuturesFollowCaller
  BY DEF FuturesFollowCaller
<1> QED
  BY <1>1, <1>2, <1>3, <1>4 DEF PoolInv

-----------------------------------------------------------------------------
(* Optimize. *)

LEMMA CallPool ==
    ASSUME PoolInv, NEW n \in 1 .. MaxTrajectories, Optimize(n)
    PROVE  PoolInv'
<1> USE DEF PoolInv, Optimize, pool
<1>1. tasks = <<>> /\ \A w \in Workers : running[w] = NoTask
  BY NothingPending DEF FuturesFollowCaller
<1>2. n \in 0 .. MaxTrajectories /\ 1 \in 1 .. 2 * n /\ 1 \in 1 .. 2 * MaxTrajectories + 1
  BY PoolAssumption
<1>3. TypeOK'
  BY <1>2, EmptyQueue DEF TypeOK
<1>4. OnePlace'
  BY <1>1 DEF OnePlace, Queued, Task, NoTask
<1>5. BusyHasTask'
  BY DEF BusyHasTask
<1>6. FuturesFollowCaller'
  BY <1>2, TasksOfCall DEF FuturesFollowCaller, Made
<1> QED
  BY <1>3, <1>4, <1>5, <1>6

LEMMA EnqueuePool == PoolInv /\ Enqueue => PoolInv'
<1> SUFFICES ASSUME PoolInv, Enqueue PROVE PoolInv'
  OBVIOUS
<1> USE DEF PoolInv, Enqueue
<1>1. next \in Task /\ size \in 0 .. MaxTrajectories
  BY TasksOfCall DEF FuturesFollowCaller, TypeOK
<1>2. next \in Nat \ {0} /\ \A i \in Task : i \in Nat
  BY <1>1, TasksOfCall
<1>3. future[next] = "none"
  BY <1>1, <1>2 DEF FuturesFollowCaller, Made
<1>4. /\ tasks' \in Seq(Task)
      /\ Elements(tasks') = Elements(tasks) \cup {next}
      /\ next \notin Elements(tasks) => Once(tasks')
  BY <1>1, AppendToQueue, OnePlaceOfQueue DEF TypeOK
<1>5. next \notin Elements(tasks) /\ \A w \in Workers : running[w] # next
  BY <1>1, <1>3, OnePlaceOfQueue
<1>6. TypeOK'
  BY <1>4 DEF TypeOK
<1>7. OnePlace'
  <2>1. \A w \in Workers : running'[w] \notin Elements(tasks')
    BY <1>4, <1>5, OnePlaceOfQueue
  <2>2. \A i \in Task : future'[i] = "pending"
                        <=> i \in Elements(tasks') \/ \E w \in Workers : running'[w] = i
    BY <1>1, <1>4, OnePlaceOfQueue DEF TypeOK
  <2>3. OnePlace' <=>
          /\ Once(tasks')
          /\ \A v, w \in Workers : running'[v] = running'[w] => v = w \/ running'[v] = NoTask
          /\ \A w \in Workers : running'[w] \notin Elements(tasks')
          /\ \A i \in Task : future'[i] = "pending"
                             <=> i \in Elements(tasks') \/ \E w \in Workers : running'[w] = i
    BY DEF OnePlace, Once, Queued, Elements
  <2> QED
    BY <2>1, <2>2, <2>3, <1>4, <1>5, OnePlaceOfQueue
<1>8. BusyHasTask'
  BY DEF BusyHasTask
<1>9. FuturesFollowCaller'
  BY <1>1, <1>2 DEF FuturesFollowCaller, Made, TypeOK
<1> QED
  BY <1>6, <1>7, <1>8, <1>9

LEMMA NotifyPool == PoolInv /\ NotifyOne => PoolInv'
<1> SUFFICES ASSUME PoolInv, NotifyOne PROVE PoolInv'
  OBVIOUS
<1> USE DEF PoolInv, NotifyOne
<1>1. /\ next \in 1 .. 2 * size /\ size \in 0 .. MaxTrajectories
      /\ MaxTrajectories \in Nat
  BY PoolAssumption DEF FuturesFollowCaller, TypeOK
<1>2. TypeOK'
  BY <1>1 DEF TypeOK, WakeOne, Awaken
<1>3. OnePlace'
  BY PlacesKept
<1>4. BusyHasTask'
  BY DEF BusyHasTask, WakeOne, Awaken, TypeOK
<1>5. FuturesFollowCaller'
  BY <1>1, TasksOfCall DEF FuturesFollowCaller, Made
<1> QED
  BY <1>2, <1>3, <1>4, <1>5

LEMMA CollectPool == PoolInv /\ CollectFuture => PoolInv'
<1> SUFFICES ASSUME PoolInv, CollectFuture PROVE PoolInv'
  OBVIOUS
<1> USE DEF PoolInv, CollectFuture, pool
<1>1. /\ next \in 1 .. 2 * size /\ size \in 0 .. MaxTrajectories
      /\ MaxTrajectories \in Nat /\ next \in Task
  BY PoolAssumption, TasksOfCall DEF FuturesFollowCaller, TypeOK
<1>2. TypeOK'
  <2>1. trajectories_out' \in Seq(Task)
    BY <1>1, AppendToQueue DEF TypeOK
  <2> QED
    BY <1>1, <2>1 DEF TypeOK
<1>3. OnePlace'
  BY PlacesKept
<1>4. BusyHasTask'
  BY DEF BusyHasTask
<1>5. FuturesFollowCaller'
  <2>1. \A i \in 1 .. next : future[i] # "pending"
    BY <1>1 DEF FuturesFollowCaller
  <2>2. CASE next < 2 * size
    BY <1>1, <2>1, <2>2 DEF FuturesFollowCaller, Made
  <2>3. CASE ~(next < 2 * size)
    <3>1. next = 2 * size /\ caller' = "idle"
      BY <1>1, <2>3
    <3>2. \A i \in Task : future[i] # "pending"
      BY <3>1, <2>1, <1>1, TasksOfCall DEF FuturesFollowCaller, Made
    <3> QED
      BY <3>1, <3>2 DEF FuturesFollowCaller
  <2> QED
    BY <2>2, <2>3
<1> QED
  BY <1>2, <1>3, <1>4, <1>5

-----------------------------------------------------------------------------
(* The workers. *)

LEMMA TakePool ==
    ASSUME PoolInv, NEW w \in Workers, TakeTask(w)
    PROVE  PoolInv'
<1> USE DEF PoolInv, TakeTask, call
<1>1. /\ Tail(tasks) \in Seq(Task) /\ Head(tasks) \in Task
      /\ Elements(tasks) = Elements(tasks') \cup {Head(tasks)}
      /\ Once(tasks') /\ Head(tasks) \notin Elements(tasks')
  BY TakeFromQueue, OnePlaceOfQueue DEF TypeOK
<1>2. Head(tasks) # NoTask /\ running[w] = NoTask
  BY <1>1, TasksOfCall DEF NoTask, BusyHasTask
<1>3. TypeOK'
  BY <1>1 DEF TypeOK
<1>4. running' = [running EXCEPT ![w] = Head(tasks)] /\ running \in [Workers -> Task \cup {NoTask}]
  BY DEF TypeOK
<1>5. OnePlace'
  <2>1. \A u, v \in Workers : running'[u] = running'[v] => u = v \/ running'[u] = NoTask
    BY <1>1, <1>2, <1>4, OnePlaceOfQueue
  <2>2. \A v \in Workers : running'[v] \notin Elements(tasks')
    BY <1>1, <1>4, OnePlaceOfQueue
  <2>3. \A i \in Task : future'[i] = "pending"
                        <=> i \in Elements(tasks') \/ \E v \in Workers : running'[v] = i
    <3> SUFFICES ASSUME NEW i \in Task
                 PROVE  i \in Elements(tasks) \/ (\E v \in Workers : running[v] = i)
                        <=> i \in Elements(tasks') \/ \E v \in Workers : running'[v] = i
      BY OnePlaceOfQueue
    <3>1. i # NoTask
      BY TasksOfCall DEF NoTask
    <3> QED
      BY <3>1, <1>1, <1>2, <1>4
  <2>4. OnePlace' <=>
          /\ Once(tasks')
          /\ \A u, v \in Workers : running'[u] = running'[v] => u = v \/ running'[u] = NoTask
          /\ \A v \in Workers : running'[v] \notin Elements(tasks')
          /\ \A i \in Task : future'[i] = "pending"
                             <=> i \in Elements(tasks') \/ \E v \in Workers : running'[v] = i
    BY DEF OnePlace, Once, Queued, Elements
  <2> QED
    BY <2>1, <2>2, <2>3, <2>4, <1>1
<1>6. BusyHasTask'
  BY <1>2, <1>4 DEF BusyHasTask, TypeOK
<1>7. FuturesFollowCaller'
  BY DEF FuturesFollowCaller, Made
<1> QED
  BY <1>3, <1>5, <1>6, <1>7

LEMMA AnswerPool ==
    ASSUME PoolInv, NEW w \in Workers, NEW answer \in Answered, Answer(w, answer)
    PROVE  PoolInv'
<1> USE DEF PoolInv, Answer, call, Awaken
<1>1. running[w] \in Task /\ running[w] # NoTask
  BY DEF BusyHasTask, TypeOK
<1>2. /\ running \in [Workers -> Task \cup {NoTask}]
      /\ future \in [Task -> {"none", "pending", "valid", "null"}]
      /\ worker \in [Workers -> {"awake", "waiting", "running", "joined"}]
  BY DEF TypeOK
<1>3. TypeOK'
  BY <1>1 DEF TypeOK
<1>4. OnePlace'
  <2>1. \A u, v \in Workers : running'[u] = running'[v] => u = v \/ running'[u] = NoTask
    BY <1>1, <1>2 DEF OnePlace
  <2>2. \A v \in Workers : running'[v] \notin Queued'
    <3>1. NoTask \notin Elements(tasks)
      BY TasksOfCall DEF Elements, NoTask, TypeOK
    <3> QED
      BY <3>1, <1>2 DEF OnePlace, Queued, Elements
  <2>3. \A i \in Task : future'[i] = "pending"
                        <=> i \in Queued' \/ \E v \in Workers : running'[v] = i
    <3> SUFFICES ASSUME NEW i \in Task
                 PROVE  future'[i] = "pending"
                        <=> i \in Queued \/ \E v \in Workers : running'[v] = i
      BY DEF Queued
    <3>1. CASE i = running[w]
      <4>1. future'[i] # "pending"
        BY <3>1, <1>2
      <4>2. i \notin Queued /\ \A v \in Workers : running'[v] # i
        BY <3>1, <1>1, <1>2 DEF OnePlace
      <4> QED
        BY <4>1, <4>2
    <3>2. CASE i # running[w]
      <4>1. i # NoTask
        BY TasksOfCall DEF NoTask
      <4>2. (\E v \in Workers : running'[v] = i) <=> \E v \in Workers : running[v] = i
        BY <3>2, <4>1, <1>2
      <4>3. future'[i] = future[i]
        BY <3>2, <1>2
      <4> QED
        BY <4>2, <4>3 DEF OnePlace
    <3> QED
      BY <3>1, <3>2
  <2>4. \A j, k \in DOMAIN tasks' : tasks'[j] = tasks'[k] => j = k
    BY DEF OnePlace
  <2> QED
    BY <2>1, <2>2, <2>3, <2>4 DEF OnePlace
<1>5. BusyHasTask'
  BY <1>2 DEF BusyHasTask
<1>6. FuturesFollowCaller'
  <2>1. future[running[w]] = "pending"
    BY <1>1 DEF OnePlace
  <2>2. \A i \in Task : (future'[i] # "none" <=> future[i] # "none")
                        /\ (future[i] # "pending" => future'[i] # "pending")
    BY <1>1, <1>2, <2>1
  <2>3. \A n : Made(n) => Made(n)'
    BY <2>2 DEF Made
  <2>4. \A i \in 1 .. next - 1 : caller = "wait" => i \in Task
    BY TasksOfCall DEF FuturesFollowCaller, TypeOK
  <2> QED
    BY <2>2, <2>4 DEF FuturesFollowCaller, Made
<1> QED
  BY <1>3, <1>4, <1>5, <1>6

(* What only lets the workers sleep, wake up or end, and the destructor.   *)
LEMMA IdlePool ==
    ASSUME PoolInv,
           \/ \E w \in Workers : WaitForTask(w) \/ SpuriousWakeup(w) \/ ReturnFromThread(w)
           \/ Refuse \/ TimeOut \/ Stop \/ NotifyAll \/ Join
    PROVE  PoolInv'
<1> USE DEF PoolInv
<1>1. ASSUME NEW w \in Workers, WaitForTask(w) \/ SpuriousWakeup(w) \/ ReturnFromThread(w)
      PROVE  PoolInv'
  <2> USE <1>1 DEF WaitForTask, SpuriousWakeup, ReturnFromThread, call, Awaken
  <2>1. TypeOK'
    BY DEF TypeOK
  <2>2. OnePlace'
    BY PlacesKept
  <2>3. BusyHasTask'
    BY DEF BusyHasTask, TypeOK
  <2>4. FuturesFollowCaller'
    BY DEF FuturesFollowCaller, Made
  <2> QED
    BY <2>1, <2>2, <2>3, <2>4
<1>2. CASE Refuse \/ TimeOut \/ Stop \/ NotifyAll \/ Join
  <2> USE <1>2, PoolAssumption DEF Refuse, TimeOut, Stop, NotifyAll, Join, pool, call, WakeAll
  <2>1. TypeOK'
    <3>1. trajectories_out' \in Seq(Task)
      BY EmptyQueue DEF TypeOK
    <3>2. stop' \in BOOLEAN /\ timed_out' \in BOOLEAN
      BY DEF TypeOK
    <3>3. worker' \in [Workers -> {"awake", "waiting", "running", "joined"}]
      BY DEF TypeOK
    <3>4. size' \in 0 .. MaxTrajectories
      BY DEF TypeOK
    <3>5. caller' \in {"idle", "enqueue", "notify", "wait",
                       "notify_all", "join", "destroyed"}
      BY DEF TypeOK
    <3>6. UNCHANGED <<tasks, running, next, future>>
      OBVIOUS
    <3> QED
      BY ONLY PoolInv, <3>1, <3>2, <3>3, <3>4, <3>5, <3>6 DEF TypeOK, PoolInv
  <2>2. OnePlace'
    BY PlacesKept
  <2>3. BusyHasTask'
    BY DEF BusyHasTask, TypeOK
  <2>4. FuturesFollowCaller'
    BY DEF FuturesFollowCaller, Made
  <2> QED
    BY <2>1, <2>2, <2>3, <2>4
<1> QED
  BY <1>1, <1>2

LEMMA PoolInvStep == PoolInv /\ [Next]_vars => PoolInv'
<1> SUFFICES ASSUME PoolInv, [Next]_vars PROVE PoolInv'
  OBVIOUS
<1>1. CASE UNCHANGED vars
  <2> USE <1>1 DEF PoolInv, vars, pool, call
  <2>1. TypeOK' /\ BusyHasTask' /\ FuturesFollowCaller'
    BY DEF TypeOK, BusyHasTask, FuturesFollowCaller, Made
  <2> QED
    BY <2>1, PlacesKept
<1>2. CASE \E n \in 1 .. MaxTrajectories : Optimize(n)
  BY <1>2, CallPool
<1>3. CASE CallerStep
  BY <1>3, EnqueuePool, NotifyPool, CollectPool, IdlePool DEF CallerStep
<1>4. ASSUME NEW w \in Workers, WorkerStep(w) \/ FilterEnds(w) \/ SpuriousWakeup(w)
      PROVE  PoolInv'
  BY <1>4, TakePool, AnswerPool, IdlePool DEF WorkerStep, FilterEnds, FilterGivesUp
<1>5. CASE Refuse \/ TimeOut \/ Stop
  BY <1>5, IdlePool
<1> QED
  BY <1>1, <1>2, <1>3, <1>4, <1>5 DEF Next, Destroyed

-----------------------------------------------------------------------------
(* Theorems. *)

(* All variables have their types: next stays within the futures of the    *)
(* call, and no worker runs what is not a task.                            *)
THEOREM PoolTypeCorrect == Spec => []TypeOK
BY InitPool, PoolInvStep, PTL DEF Spec, PoolInv

(* A task that has not answered is queued once or run by one worker        *)
(* (ThreadPool.h:51), however many workers and tasks there are.            *)
THEOREM OnePlaceHolds == Spec => []OnePlace
BY InitPool, PoolInvStep, PTL DEF Spec, PoolInv

(* Optimize returns only when none of its tasks is left: they hold         *)
(* references to its local variables (optimizer_node.cpp:476).             *)
THEOREM NoTaskOutlivesCallHolds == Spec => []NoTaskOutlivesCall
<1>1. PoolInv => NoTaskOutlivesCall
  BY NothingPending DEF PoolInv, FuturesFollowCaller, NoTaskOutlivesCall
<1> QED
  BY <1>1, InitPool, PoolInvStep, PTL DEF Spec

(* One notification for each task is enough: a worker that waits did so    *)
(* when the queue was empty, and the task that came then wakes one.        *)
LEMMA WakeupStep ==
    ASSUME PoolInv, NoLostWakeup, [Next]_vars
    PROVE  NoLostWakeup'
<1> USE DEF NoLostWakeup
<1>1. CASE UNCHANGED vars
  BY <1>1 DEF vars, pool, call
<1>2. ASSUME NEW n \in 1 .. MaxTrajectories, Optimize(n) PROVE NoLostWakeup'
  BY <1>2 DEF Optimize, pool
<1>3. CASE NotifyOne
  BY <1>3, PoolAssumption DEF NotifyOne, WakeOne, Awaken, PoolInv, TypeOK
<1>4. CASE Enqueue
  BY <1>4 DEF Enqueue
<1>5. CASE CollectFuture \/ Join \/ Refuse \/ TimeOut \/ Stop
  BY <1>5 DEF CollectFuture, Join, Refuse, TimeOut, Stop, pool, call
<1>6. CASE NotifyAll
  <2>1. tasks = <<>>
    BY <1>6, NothingPending DEF NotifyAll, PoolInv, FuturesFollowCaller
  <2> QED
    BY <1>6, <2>1 DEF NotifyAll
<1>7. ASSUME NEW w \in Workers, WaitForTask(w) PROVE NoLostWakeup'
  BY <1>7 DEF WaitForTask
<1>8. ASSUME NEW w \in Workers,
             \/ TakeTask(w) \/ FilterGivesUp(w) \/ FilterEnds(w)
             \/ ReturnFromThread(w) \/ SpuriousWakeup(w)
      PROVE  NoLostWakeup'
  <2>1. worker'[w] # "waiting"
    BY <1>8 DEF TakeTask, FilterGivesUp, FilterEnds, Answer, ReturnFromThread,
                SpuriousWakeup, Awaken, PoolInv, TypeOK
  <2> QED
    BY <2>1
<1> QED
  BY <1>1, <1>2, <1>3, <1>4, <1>5, <1>6, <1>7, <1>8
  DEF Next, CallerStep, WorkerStep, Destroyed

(* No task lies in the queue while every worker waits (ThreadPool.h:82).   *)
THEOREM NoLostWakeupHolds == Spec => []NoLostWakeup
<1>1. Init => NoLostWakeup
  BY DEF Init, NoLostWakeup
<1> QED
  BY <1>1, InitPool, PoolInvStep, WakeupStep, PTL DEF Spec
-----------------------------------------------------------------------------
(* The result. *)

(* The result is the one OptimizerPlugin, which runs the filters one after *)
(* the other, collects from the same answers: all the valid ones, each     *)
(* once, in the order of their tasks.                                      *)
Collected == {trajectories_out[k] : k \in DOMAIN trajectories_out}

ResultIsSequential ==
    caller = "idle" =>
        /\ Collected = {i \in 1 .. 2 * size : future[i] = "valid"}
        /\ \A j, k \in DOMAIN trajectories_out :
              j < k => trajectories_out[j] < trajectories_out[k]

InOrder(s) == \A j, k \in DOMAIN s : j < k => s[j] < s[k]
Valid(n) == {i \in 1 .. n : future[i] = "valid"}

(* What was collected of the futures asked for so far. *)
OutFollowsCaller ==
    /\ InOrder(trajectories_out)
    /\ caller \in {"enqueue", "notify"} => trajectories_out = <<>>
    /\ caller = "wait" => Collected = Valid(next - 1)
    /\ caller = "idle" => Collected = Valid(2 * size)

(* A later task keeps the order. *)
LEMMA AppendInOrder ==
    ASSUME NEW s \in Seq(Task), NEW i \in Task, InOrder(s), \A j \in Elements(s) : j < i
    PROVE  InOrder(Append(s, i))
<1> DEFINE t == Append(s, i)
<1>1. /\ Len(s) \in Nat /\ DOMAIN s = 1 .. Len(s) /\ DOMAIN t = 1 .. Len(s) + 1
      /\ t[Len(s) + 1] = i
      /\ \A k \in 1 .. Len(s) : t[k] = s[k]
  OBVIOUS
<1>2. \A k \in 1 .. Len(s) : s[k] < i
  BY <1>1 DEF Elements
<1> QED
  BY <1>1, <1>2 DEF InOrder

(* No future that was asked for changes any more, nor any after a call. *)
LEMMA AnswersStay ==
    ASSUME PoolInv, NEW w \in Workers, NEW answer \in Answered, Answer(w, answer)
    PROVE  /\ caller \notin {"idle"}
           /\ caller = "wait" => Valid(next - 1)' = Valid(next - 1)
<1>1. running[w] \in Task /\ future[running[w]] = "pending"
  <2>1. running[w] \in Task
    BY DEF PoolInv, BusyHasTask, TypeOK, Answer
  <2> QED
    BY <2>1 DEF PoolInv, OnePlace
<1>2. caller # "idle"
  BY <1>1 DEF PoolInv, FuturesFollowCaller
<1>3. ASSUME caller = "wait" PROVE Valid(next - 1)' = Valid(next - 1)
  <2>1. \A i \in 1 .. next - 1 : i # running[w]
    BY <1>1, <1>3 DEF PoolInv, FuturesFollowCaller
  <2>2. \A i \in 1 .. next - 1 : i \in Task
    BY <1>3, TasksOfCall DEF PoolInv, FuturesFollowCaller, TypeOK
  <2>3. \A i \in 1 .. next - 1 : future'[i] = future[i]
    BY <2>1, <2>2 DEF Answer, PoolInv, TypeOK
  <2>4. UNCHANGED next
    BY DEF Answer, call
  <2> QED
    BY <2>3, <2>4 DEF Valid
<1> QED
  BY <1>2, <1>3

LEMMA CollectOut ==
    ASSUME PoolInv, OutFollowsCaller, CollectFuture
    PROVE  OutFollowsCaller'
<1> USE DEF CollectFuture
<1>1. /\ next \in 1 .. 2 * size /\ size \in 0 .. MaxTrajectories /\ next \in Task
      /\ trajectories_out \in Seq(Task)
  BY TasksOfCall DEF PoolInv, FuturesFollowCaller, TypeOK
<1>2. next \in Nat \ {0} /\ size \in Nat
  BY <1>1, PoolAssumption
<1>3. Elements(trajectories_out) = Valid(next - 1) /\ InOrder(trajectories_out)
  BY DEF OutFollowsCaller, Collected, Elements
<1>4. /\ InOrder(trajectories_out')
      /\ Elements(trajectories_out') = Valid(next)
  <2>1. CASE future[next] = "valid"
    <3>1. trajectories_out' = Append(trajectories_out, next)
      BY <2>1
    <3>2. \A j \in Elements(trajectories_out) : j < next
      BY <1>2, <1>3 DEF Valid
    <3>3. Valid(next) = Valid(next - 1) \cup {next}
      BY <1>2, <2>1 DEF Valid
    <3> QED
      BY <1>1, <1>3, <3>1, <3>2, <3>3, AppendToQueue, AppendInOrder
  <2>2. CASE future[next] # "valid"
    <3>1. Valid(next) = Valid(next - 1)
      BY <1>2, <2>2 DEF Valid
    <3> QED
      BY <1>3, <2>2, <3>1
  <2> QED
    BY <2>1, <2>2
<1>5. next' - 1 = next /\ (caller' = "idle" => next = 2 * size)
  BY <1>1, <1>2
<1>6. Collected' = Valid(next) /\ UNCHANGED <<future, size>> /\ caller' \in {"wait", "idle"}
  BY <1>4 DEF Collected, Elements
<1> QED
  BY <1>4, <1>5, <1>6 DEF OutFollowsCaller, Valid

LEMMA OutStep ==
    ASSUME PoolInv, OutFollowsCaller, [Next]_vars
    PROVE  OutFollowsCaller'
<1>1. ASSUME trajectories_out' = <<>>, caller' \in {"enqueue", "idle"},
             caller' = "idle" => size' = 0
      PROVE  OutFollowsCaller'
  <2>1. InOrder(trajectories_out') /\ Collected' = {}
    BY <1>1 DEF InOrder, Collected
  <2>2. caller' = "idle" => Valid(2 * size)' = {}
    BY <1>1 DEF Valid
  <2> QED
    BY <1>1, <2>1, <2>2 DEF OutFollowsCaller
<1>2. ASSUME trajectories_out' = trajectories_out, size' = size, next' = next, future' = future,
             caller' = caller \/ caller' \in {"notify_all", "join", "destroyed"}
      PROVE  OutFollowsCaller'
  BY <1>2 DEF OutFollowsCaller, InOrder, Collected, Valid
<1>3. CASE Enqueue
  BY <1>3 DEF Enqueue, OutFollowsCaller
<1>4. CASE NotifyOne
  <2>1. trajectories_out' = <<>> /\ (caller' = "enqueue" \/ (caller' = "wait" /\ next' = 1))
    <3>1. caller = "notify" /\ trajectories_out' = trajectories_out
      BY <1>4 DEF NotifyOne
    <3>2. caller' = "enqueue" \/ (caller' = "wait" /\ next' = 1)
      BY <1>4 DEF NotifyOne
    <3> QED
      BY <3>1, <3>2 DEF OutFollowsCaller
  <2>2. InOrder(trajectories_out') /\ Collected' = {} /\ (next' = 1 => Valid(next - 1)' = {})
    BY <2>1 DEF InOrder, Collected, Valid
  <2>3. CASE caller' = "enqueue"
    BY <2>1, <2>2, <2>3 DEF OutFollowsCaller
  <2>4. CASE caller' = "wait" /\ next' = 1
    <3>1. Collected' = Valid(next - 1)'
      BY <2>2, <2>4
    <3> QED
      BY <2>2, <2>4, <3>1 DEF OutFollowsCaller, InOrder
  <2> QED
    BY <2>1, <2>3, <2>4
<1>5. CASE CollectFuture
  BY <1>5, CollectOut
<1>6. ASSUME NEW w \in Workers, NEW answer \in Answered, Answer(w, answer)
      PROVE  OutFollowsCaller'
  BY <1>6, AnswersStay DEF Answer, call, OutFollowsCaller, Collected
<1>7. ASSUME NEW w \in Workers, WorkerStep(w) \/ FilterEnds(w) \/ SpuriousWakeup(w)
      PROVE  OutFollowsCaller'
  <2>1. CASE TakeTask(w) \/ WaitForTask(w) \/ SpuriousWakeup(w) \/ ReturnFromThread(w)
    <3>1. /\ trajectories_out' = trajectories_out /\ size' = size /\ next' = next
          /\ future' = future /\ caller' = caller
      BY <2>1 DEF SpuriousWakeup, TakeTask, WaitForTask, ReturnFromThread, call
    <3> QED
      BY <3>1, <1>2
  <2>2. CASE FilterEnds(w) \/ FilterGivesUp(w)
    BY <1>6, <2>2 DEF FilterEnds, FilterGivesUp
  <2> QED
    BY <1>7, <2>1, <2>2 DEF WorkerStep
<1>8. CASE \/ Refuse \/ \E n \in 1 .. MaxTrajectories : Optimize(n)
  BY <1>1, <1>8 DEF Refuse, Optimize
<1>9. CASE NotifyAll \/ Join \/ TimeOut \/ Stop \/ UNCHANGED vars
  <2>1. /\ trajectories_out' = trajectories_out /\ size' = size /\ next' = next /\ future' = future
        /\ caller' = caller \/ caller' \in {"notify_all", "join", "destroyed"}
    BY <1>9 DEF NotifyAll, Join, TimeOut, Stop, vars, pool, call
  <2> QED
    BY <2>1, <1>2
<1> QED
  BY <1>3, <1>4, <1>5, <1>7, <1>8, <1>9 DEF Next, CallerStep, Destroyed

(* Whatever order the workers end in, the call returns what the filters    *)
(* found, in the order of the input (optimizer_node.cpp:482).              *)
THEOREM ResultIsSequentialHolds == Spec => []ResultIsSequential
<1>1. Init => OutFollowsCaller
  BY DEF Init, OutFollowsCaller, InOrder, Collected, Valid
<1>2. OutFollowsCaller => ResultIsSequential
  BY DEF OutFollowsCaller, ResultIsSequential, InOrder, Valid
<1>3. Spec => []PoolInv
  BY InitPool, PoolInvStep, PTL DEF Spec
<1> QED
  BY <1>1, <1>2, <1>3, OutStep, PTL DEF Spec

-----------------------------------------------------------------------------
(* The refinement.  A worker answers a task of the call under way that has *)
(* not answered, and the last future collected returns what was valid.     *)

LEMMA SeqOfElements ==
    ASSUME NEW S, NEW T, NEW s \in Seq(T), \A k \in DOMAIN s : s[k] \in S
    PROVE  s \in Seq(S)
<1>1. Len(s) \in Nat /\ s \in [1 .. Len(s) -> T] /\ DOMAIN s = 1 .. Len(s)
  BY LenProperties
<1>2. s \in [1 .. Len(s) -> S]
  BY <1>1
<1>3. s \in UNION {[1 .. n -> S] : n \in Nat}
  BY <1>1, <1>2
<1> QED
  BY <1>3, SeqDef

LEMMA CallOfPool ==
    ASSUME PoolInv, NEW n \in 1 .. MaxTrajectories, Optimize(n)
    PROVE  Abstract!Call(n)
<1>1. ~Calling /\ Calling' /\ size' = n
  BY DEF Optimize, Calling
<1>2. \A i \in 1 .. 2 * n : AnswerOf(i)' = "awaited"
  <2>1. n \in 0 .. MaxTrajectories /\ 1 .. 2 * n \subseteq Task
    BY TasksOfCall, PoolAssumption
  <2>2. \A i \in 1 .. 2 * n : future'[i] = "none"
    BY <2>1 DEF Optimize
  <2> QED
    BY <2>2 DEF AnswerOf
<1> QED
  BY <1>1, <1>2 DEF Abstract!Call

(* What a worker runs is a task of the call under way, still awaited.      *)
LEMMA RunningIsAwaited ==
    ASSUME PoolInv, NEW w \in Workers, worker[w] = "running"
    PROVE  Calling /\ running[w] \in 1 .. 2 * size /\ future[running[w]] = "pending"
<1>1. running[w] \in Task
  BY DEF PoolInv, BusyHasTask, TypeOK
<1>2. future[running[w]] = "pending"
  BY <1>1 DEF PoolInv, OnePlace
<1>3. Calling
  BY <1>1, <1>2 DEF PoolInv, FuturesFollowCaller, TypeOK, Calling
<1>4. running[w] \in Nat \ {0} /\ size \in Nat /\ next \in 1 .. 2 * size
  <2>1. running[w] \in Nat \ {0}
    BY <1>1, TasksOfCall
  <2>2. size \in Nat
    BY PoolAssumption DEF PoolInv, TypeOK
  <2>3. next \in 1 .. 2 * size
    BY <1>3 DEF PoolInv, FuturesFollowCaller, Calling
  <2> QED
    BY <2>1, <2>2, <2>3
<1>5. running[w] <= 2 * size
  BY <1>1, <1>2, <1>3, <1>4 DEF PoolInv, FuturesFollowCaller, Made, Calling
<1> QED
  BY <1>2, <1>3, <1>4, <1>5

LEMMA AnswerOfPool ==
    ASSUME PoolInv, NEW w \in Workers, NEW answer \in Answered, Answer(w, answer)
    PROVE  Abstract!AnswerTask(running[w], answer) /\ Calling /\ running[w] \in 1 .. 2 * size
<1>1. Calling /\ running[w] \in 1 .. 2 * size /\ future[running[w]] = "pending"
  BY RunningIsAwaited DEF Answer
<1>2. Calling' /\ UNCHANGED <<size, trajectories_out>>
  BY <1>1 DEF Answer, call, Calling
<1>3. 1 .. 2 * size \subseteq Task
  BY TasksOfCall DEF PoolInv, TypeOK
<1>4. \A i \in 1 .. 2 * size : AnswerOf(i)' = IF i = running[w] THEN answer ELSE AnswerOf(i)
  BY <1>1, <1>3 DEF Answer, AnswerOf, PoolInv, TypeOK
<1>5. AnswerOf(running[w]) = "awaited"
  BY <1>1 DEF AnswerOf
<1> QED
  BY <1>1, <1>2, <1>4, <1>5 DEF Abstract!AnswerTask

(* A future that is passed on is remembered by next alone; the last one    *)
(* ends the call.                                                          *)
LEMMA CollectOfPool ==
    ASSUME PoolInv, OutFollowsCaller, PoolInv', OutFollowsCaller', CollectFuture
    PROVE  \/ Abstract!Return
           \/ UNCHANGED <<IF Calling THEN [i \in 1 .. 2 * size |-> AnswerOf(i)] ELSE <<>>,
                          IF Calling THEN <<>> ELSE trajectories_out>>
<1>1. Calling /\ UNCHANGED <<size, future>> /\ next \in 1 .. 2 * size
  BY DEF CollectFuture, Calling, PoolInv, FuturesFollowCaller
<1>2. CASE next < 2 * size
  <2>1. Calling'
    BY <1>2 DEF CollectFuture, Calling
  <2> QED
    BY <1>1, <2>1 DEF AnswerOf
<1>3. CASE ~(next < 2 * size)
  <2>1. ~Calling' /\ caller' = "idle"
    BY <1>3 DEF CollectFuture, Calling
  <2>2. size \in Nat /\ 1 .. 2 * size \subseteq Task
    <3>1. size \in 0 .. MaxTrajectories
      BY DEF PoolInv, TypeOK
    <3> QED
      BY <3>1, TasksOfCall, PoolAssumption
  <2> DEFINE all == [i \in 1 .. 2 * size |-> AnswerOf(i)]
  <2>3. DOMAIN all = 1 .. 2 * size /\ 1 \in DOMAIN all
    BY <1>1, <2>2
  <2>4. all # <<>>
    BY <2>3
  <2>5. \A i \in 1 .. 2 * size : future[i] \in {"valid", "null"} /\ all[i] = future[i]
    <3>1. \A i \in Task : future[i] # "pending"
      BY <1>1, <2>1 DEF PoolInv, FuturesFollowCaller
    <3>2. \A i \in 1 .. 2 * size : i \in Task /\ future[i] # "none"
      BY <2>2 DEF PoolInv, FuturesFollowCaller, Made, CollectFuture
    <3> QED
      BY <3>1, <3>2 DEF PoolInv, TypeOK, AnswerOf
  <2>6. Elements(trajectories_out') = Valid(2 * size) /\ InOrder(trajectories_out')
    <3>1. Collected' = Valid(2 * size)'
      BY <2>1 DEF OutFollowsCaller
    <3> QED
      BY <1>1, <3>1 DEF OutFollowsCaller, Collected, Elements, Valid
  <2>7. trajectories_out' \in Seq(DOMAIN all)
    <3>1. trajectories_out' \in Seq(Task)
      BY DEF PoolInv, TypeOK
    <3>2. \A k \in DOMAIN trajectories_out' : trajectories_out'[k] \in DOMAIN all
      BY <2>3, <2>6 DEF Elements, Valid
    <3> QED
      BY <3>1, <3>2, SeqOfElements
  <2>8. {i \in DOMAIN all : all[i] = "valid"} = Valid(2 * size)
    BY <2>3, <2>5 DEF Valid
  <2>9. \A i \in DOMAIN all : all[i] # "awaited"
    BY <2>3, <2>5
  <2>10. Abstract!Lists(trajectories_out')
    BY <1>1, <2>6, <2>8 DEF Abstract!Lists, Elements, InOrder
  <2> HIDE DEF all
  <2>11. Abstract!Return
    BY <1>1, <2>1, <2>4, <2>7, <2>9, <2>10 DEF Abstract!Return, all
  <2> QED
    BY <2>11
<1> QED
  BY <1>2, <1>3

(* Every other step leaves what the abstract call shows as it is: the      *)
(* queue, the workers, the order of the notifications and the destructor.  *)
CallStutter ==
    UNCHANGED <<IF Calling THEN [i \in 1 .. 2 * size |-> AnswerOf(i)] ELSE <<>>,
                IF Calling THEN <<>> ELSE trajectories_out>>

LEMMA HiddenStep ==
    ASSUME UNCHANGED <<size, trajectories_out, Calling>>,
           Calling => \A i \in 1 .. 2 * size : AnswerOf(i)' = AnswerOf(i)
    PROVE  CallStutter
BY DEF CallStutter

LEMMA EnqueueOfPool ==
    ASSUME PoolInv, Enqueue
    PROVE  CallStutter
<1>1. UNCHANGED <<size, trajectories_out, Calling>>
  BY DEF Enqueue, Calling
<1>2. next \in Task /\ future[next] = "none"
  <2>1. next \in 1 .. 2 * size /\ size \in 0 .. MaxTrajectories
    BY DEF Enqueue, PoolInv, FuturesFollowCaller, TypeOK
  <2>2. next \in Task /\ next \in Nat
    BY <2>1, TasksOfCall
  <2> QED
    BY <2>2 DEF Enqueue, PoolInv, FuturesFollowCaller, Made
<1>3. \A i \in Task : AnswerOf(i)' = AnswerOf(i)
  BY <1>2 DEF Enqueue, AnswerOf, PoolInv, TypeOK
<1>4. 1 .. 2 * size \subseteq Task
  BY TasksOfCall DEF PoolInv, TypeOK
<1> QED
  BY <1>1, <1>3, <1>4, HiddenStep

LEMMA CallOfPoolStep ==
    ASSUME PoolInv, OutFollowsCaller, [Next]_vars
    PROVE  Abstract!CallNext \/ CallStutter
<1>1. ASSUME NEW n \in 1 .. MaxTrajectories, Optimize(n) PROVE Abstract!CallNext
  BY <1>1, CallOfPool DEF Abstract!CallNext
<1>2. CASE Refuse
  <2>1. ~Calling /\ ~Calling' /\ trajectories_out' = <<>>
    BY <1>2 DEF Refuse, Calling
  <2> QED
    BY <2>1 DEF Abstract!CallNext, Abstract!RefuseCall
<1>3. CASE Enqueue
  BY <1>3, EnqueueOfPool
<1>4. CASE CollectFuture
  <2>1. PoolInv' /\ OutFollowsCaller'
    BY PoolInvStep, OutStep
  <2> QED
    BY <2>1, <1>4, CollectOfPool DEF Abstract!CallNext, CallStutter
<1>5. ASSUME NEW w \in Workers, NEW answer \in Answered, Answer(w, answer)
      PROVE  Abstract!CallNext
  <2>1. /\ Abstract!AnswerTask(running[w], answer)
        /\ Calling /\ running[w] \in 1 .. 2 * size
    BY <1>5, AnswerOfPool
  <2> QED
    BY <2>1 DEF Abstract!CallNext
<1>6. ASSUME UNCHANGED <<size, trajectories_out, future>>,
             \/ UNCHANGED caller
             \/ caller = "notify" /\ caller' \in {"enqueue", "wait"}
             \/ caller \in {"idle", "notify_all", "join"} /\ caller' \in {"notify_all", "join", "destroyed"}
      PROVE  CallStutter
  <2>1. UNCHANGED Calling
    BY <1>6 DEF Calling
  <2>2. \A i \in 1 .. 2 * size : AnswerOf(i)' = AnswerOf(i)
    BY <1>6 DEF AnswerOf
  <2> QED
    BY <1>6, <2>1, <2>2, HiddenStep
<1>7. CASE NotifyOne
  <2>1. caller = "notify" /\ caller' \in {"enqueue", "wait"}
    BY <1>7 DEF NotifyOne
  <2> QED
    BY <1>6, <1>7, <2>1 DEF NotifyOne
<1>8. CASE NotifyAll \/ Join \/ Stop
  BY <1>6, <1>8 DEF NotifyAll, Join, Stop, pool
<1>9. CASE TimeOut \/ UNCHANGED vars
  BY <1>6, <1>9 DEF TimeOut, vars, pool, call
<1>10. ASSUME NEW w \in Workers, WorkerStep(w) \/ FilterEnds(w) \/ SpuriousWakeup(w)
       PROVE  Abstract!CallNext \/ CallStutter
  <2>1. CASE TakeTask(w) \/ WaitForTask(w) \/ ReturnFromThread(w) \/ SpuriousWakeup(w)
    BY <1>6, <2>1 DEF TakeTask, WaitForTask, ReturnFromThread, SpuriousWakeup, call
  <2>2. CASE FilterEnds(w) \/ FilterGivesUp(w)
    BY <1>5, <2>2 DEF FilterEnds, FilterGivesUp
  <2> QED
    BY <1>10, <2>1, <2>2 DEF WorkerStep
<1> QED
  BY <1>1, <1>2, <1>3, <1>4, <1>7, <1>8, <1>9, <1>10 DEF Next, CallerStep, Destroyed

(* The plugin with its pool implements OptimizeCall (optimizer_node.cpp    *)
(* :448): threads, queue and condition variable cannot be seen by a caller,*)
(* for any number of workers and trajectories.                             *)
THEOREM ImplementsOptimizeCallHolds == Spec => ImplementsOptimizeCall
<1>1. Init => Abstract!CallInit
  BY DEF Init, Abstract!CallInit, Calling
<1>2. PoolInv /\ OutFollowsCaller /\ [Next]_vars
      => [Abstract!CallNext]_<<IF Calling THEN [i \in 1 .. 2 * size |-> AnswerOf(i)] ELSE <<>>,
                               IF Calling THEN <<>> ELSE trajectories_out>>
  BY CallOfPoolStep DEF CallStutter
<1>3. Init => OutFollowsCaller
  BY DEF Init, OutFollowsCaller, InOrder, Collected, Valid
<1> QED
  BY <1>1, <1>2, <1>3, InitPool, PoolInvStep, OutStep, PTL
  DEF Spec, ImplementsOptimizeCall, Abstract!CallSpec

-----------------------------------------------------------------------------
(* Deadlock.  As long as a call or the destructor is under way, the caller *)
(* is not blocked, or a worker is not that has something to do.  The guard *)
(* of enqueue is that it does not throw.                                   *)
NobodyWaitsInVain ==
    \/ caller \in {"idle", "destroyed", "notify", "notify_all"}
    \/ caller = "enqueue" /\ ~stop
    \/ caller = "wait" /\ future[next] \in {"valid", "null"}
    \/ caller = "join" /\ \A w \in Workers : worker[w] = "joined"
    \/ \E w \in Workers :
          \/ worker[w] = "running"
          \/ worker[w] = "awake" /\ (tasks # <<>> \/ stop)

(* What stop does to the threads: none returns before it is set, and none  *)
(* waits once all have been notified.                                      *)
StopInv ==
    /\ stop <=> caller \in {"notify_all", "join", "destroyed"}
    /\ \A w \in Workers : worker[w] = "joined" => stop
    /\ caller \in {"join", "destroyed"} => \A w \in Workers : worker[w] # "waiting"

LEMMA StopStep ==
    ASSUME PoolInv, StopInv, [Next]_vars
    PROVE  StopInv'
<1> USE DEF StopInv
<1>1. worker \in [Workers -> {"awake", "waiting", "running", "joined"}]
  BY DEF PoolInv, TypeOK
<1>2. CASE UNCHANGED vars
  BY <1>2 DEF vars, pool, call
<1>3. ASSUME NEW n \in 1 .. MaxTrajectories, Optimize(n) PROVE StopInv'
  BY <1>3 DEF Optimize, pool
<1>4. CASE Enqueue \/ CollectFuture \/ Refuse \/ TimeOut
  BY <1>4 DEF Enqueue, CollectFuture, Refuse, TimeOut, pool, call
<1>5. CASE NotifyOne
  BY <1>1, <1>5 DEF NotifyOne, WakeOne, Awaken
<1>6. CASE NotifyAll
  BY <1>1, <1>6 DEF NotifyAll, WakeAll
<1>7. CASE Stop \/ Join
  BY <1>7 DEF Stop, Join, pool
<1>8. ASSUME NEW w \in Workers,
             \/ WaitForTask(w) \/ TakeTask(w) \/ SpuriousWakeup(w) \/ ReturnFromThread(w)
      PROVE  StopInv'
  BY <1>1, <1>8 DEF WaitForTask, TakeTask, SpuriousWakeup, ReturnFromThread, Awaken, call
<1>9. ASSUME NEW w \in Workers, NEW answer \in Answered, Answer(w, answer)
      PROVE  StopInv'
  BY <1>1, <1>9 DEF Answer, Awaken, call
<1> QED
  BY <1>2, <1>3, <1>4, <1>5, <1>6, <1>7, <1>8, <1>9
  DEF Next, CallerStep, WorkerStep, FilterEnds, FilterGivesUp, Destroyed

LEMMA SomeoneHasToDo ==
    ASSUME PoolInv, NoLostWakeup, StopInv
    PROVE  NobodyWaitsInVain
<1> USE DEF NobodyWaitsInVain
<1>1. worker \in [Workers -> {"awake", "waiting", "running", "joined"}]
  BY DEF PoolInv, TypeOK
<1>2. CASE caller = "enqueue"
  BY <1>2 DEF StopInv
<1>3. CASE caller = "wait" /\ future[next] \notin {"valid", "null"}
  <2>1. next \in Task /\ future[next] = "pending"
    <3>1. size \in 0 .. MaxTrajectories /\ next \in 1 .. 2 * size /\ Made(2 * size)
      BY <1>3 DEF PoolInv, FuturesFollowCaller, TypeOK
    <3>2. next \in Task /\ next <= 2 * size
      BY <3>1, TasksOfCall
    <3>3. future[next] # "none"
      BY <3>1, <3>2 DEF Made
    <3> QED
      BY <1>3, <3>2, <3>3 DEF PoolInv, TypeOK
  <2>2. CASE next \in Queued
    <3>1. tasks # <<>>
      BY <2>2 DEF Queued
    <3>2. PICK w \in Workers : worker[w] # "waiting"
      BY <1>3, <3>1 DEF NoLostWakeup
    <3>3. worker[w] # "joined"
      BY <1>3 DEF StopInv
    <3> QED
      BY <1>1, <3>1, <3>2, <3>3
  <2>3. CASE next \notin Queued
    <3>1. PICK w \in Workers : running[w] = next
      BY <2>1, <2>3 DEF PoolInv, OnePlace
    <3>2. running[w] # NoTask
      BY <2>1, <3>1, TasksOfCall DEF NoTask
    <3> QED
      BY <3>2 DEF PoolInv, BusyHasTask
  <2> QED
    BY <2>2, <2>3
<1>4. CASE caller = "join"
  <2>1. stop /\ \A w \in Workers : worker[w] # "waiting"
    BY <1>4 DEF StopInv
  <2> QED
    BY <1>1, <1>4, <2>1
<1>5. caller \in {"idle", "enqueue", "notify", "wait", "notify_all", "join", "destroyed"}
  BY DEF PoolInv, TypeOK
<1> QED
  BY <1>2, <1>3, <1>4, <1>5

(* Neither a call nor the destructor is ever in a deadlock, nor does the   *)
(* pool throw on a task (ThreadPool.h:76), with any number of workers,     *)
(* tasks and timeouts.                                                     *)
THEOREM NobodyWaitsInVainHolds == Spec => []NobodyWaitsInVain
<1>1. Init => NoLostWakeup /\ StopInv
  BY DEF Init, NoLostWakeup, StopInv
<1> QED
  BY <1>1, InitPool, PoolInvStep, WakeupStep, StopStep, SomeoneHasToDo, PTL DEF Spec
=============================================================================
