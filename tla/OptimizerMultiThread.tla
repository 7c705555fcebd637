------------------------ MODULE OptimizerMultiThread ------------------------
(***************************************************************************)
(* OptimizerPluginMultiThread (optimizer_node.cpp) and the ThreadPool it   *)
(* owns.  Optimize makes two tasks of every input trajectory, one filter   *)
(* that goes straight and one that goes via a stop, puts them on the       *)
(* pool's queue and waits for their futures in order.  The tasks refer to  *)
(* local variables of the call.  Task i is element i of                    *)
(* trajectory_futures: 2k - 1 and 2k belong to trajectory k.               *)
(*                                                                         *)
(* Queue, stop flag and the decision to wait are under queue_mutex, so     *)
(* each is one step; notifications come after the unlock.                  *)
(***************************************************************************)
EXTENDS Naturals, Sequences

CONSTANTS
    Workers,            \* threads of the pool
    MaxTrajectories     \* trajectories_in.size() at most

ASSUME PoolAssumption ==
    /\ Workers # {}
    /\ MaxTrajectories \in Nat

Task == 1 .. 2 * MaxTrajectories
NoTask == 0

VARIABLES
    tasks,              \* the queue
    worker,             \* "awake", "waiting" on the condition, "running", "joined"
    running,            \* the task each worker runs
    stop,
    caller,             \* where Optimize, or the destructor, stands
    size,               \* how many trajectories the last call makes tasks of
    next,               \* the task being enqueued or waited for
    future,             \* what each task of the call has answered
    timed_out,          \* now is past timeout_point_, or interrupt() is true
    trajectories_out

pool == <<tasks, worker, running, stop>>
call == <<caller, size, next, trajectories_out>>
vars == <<pool, call, future, timed_out>>

(* The constructor starts the threads. *)
Init ==
    /\ tasks = <<>>
    /\ worker = [w \in Workers |-> "awake"]
    /\ running = [w \in Workers |-> NoTask]
    /\ stop = FALSE
    /\ caller = "idle"
    /\ size = 0
    /\ next = 1
    /\ future = [i \in Task |-> "none"]
    /\ timed_out = FALSE
    /\ trajectories_out = <<>>

-----------------------------------------------------------------------------
(* Optimize. *)

(* No input, no robot state or no joint limits: nothing is done. *)
Refuse ==
    /\ caller = "idle"
    /\ size' = 0
    /\ trajectories_out' = <<>>
    /\ UNCHANGED <<pool, caller, next, future, timed_out>>

(* Reset arms the timeout.  trajectories_out is what this call appends to  *)
(* the caller's vector.                                                    *)
Optimize(n) ==
    /\ caller = "idle"
    /\ timed_out' = FALSE
    /\ trajectories_out' = <<>>
    /\ size' = n
    /\ next' = 1
    /\ future' = [i \in Task |-> "none"]
    /\ caller' = "enqueue"
    /\ UNCHANGED pool

Enqueue ==
    /\ caller = "enqueue"
    /\ ~stop
    /\ tasks' = Append(tasks, next)
    /\ future' = [future EXCEPT ![next] = "pending"]
    /\ caller' = "notify"
    /\ UNCHANGED <<worker, running, stop, size, next, trajectories_out, timed_out>>

Awaken(w) == worker' = [worker EXCEPT ![w] = "awake"]

(* notify_one and notify_all.  A slip: nobody is notified. *)
WakeNobody == UNCHANGED worker

WakeOne ==
    \/ \E w \in Workers : worker[w] = "waiting" /\ Awaken(w)
    \/ /\ \A w \in Workers : worker[w] # "waiting"
       /\ UNCHANGED worker

WakeAll ==
    worker' = [w \in Workers |-> IF worker[w] = "waiting" THEN "awake" ELSE worker[w]]

(* A slip: one task too many is made. *)
OneTaskMore == 2 * size + 1

LastTask == 2 * size

(* Then comes the next task, or the first future. *)
NotifyOne ==
    /\ caller = "notify"
    /\ WakeOne
    /\ IF next < LastTask
       THEN caller' = "enqueue" /\ next' = next + 1
       ELSE caller' = "wait" /\ next' = 1
    /\ UNCHANGED <<tasks, running, stop, size, trajectories_out, future, timed_out>>

(* A slip: a future is passed over that has no answer yet. *)
AnsweredOrNot == {"pending", "valid", "null"}

Answered == {"valid", "null"}

(* A failed filter answers with a trajectory without joints, left out.     *)
CollectFuture ==
    /\ caller = "wait"
    /\ future[next] \in Answered
    /\ trajectories_out' = IF future[next] = "valid"
                           THEN Append(trajectories_out, next)
                           ELSE trajectories_out
    /\ next' = next + 1
    /\ caller' = IF next < LastTask THEN "wait" ELSE "idle"
    /\ UNCHANGED <<pool, size, future, timed_out>>

TimeOut ==
    /\ ~timed_out
    /\ caller \in {"enqueue", "notify", "wait"}
    /\ timed_out' = TRUE
    /\ UNCHANGED <<pool, call, future>>

-----------------------------------------------------------------------------
(* A worker of the pool. *)

(* A slip: the last task stays in the queue. *)
AllButFront == IF Len(tasks) > 1 THEN Tail(tasks) ELSE tasks

AfterFront == Tail(tasks)

TakeTask(w) ==
    /\ worker[w] = "awake"
    /\ tasks # <<>>
    /\ running' = [running EXCEPT ![w] = Head(tasks)]
    /\ tasks' = AfterFront
    /\ worker' = [worker EXCEPT ![w] = "running"]
    /\ UNCHANGED <<stop, call, future, timed_out>>

WaitForTask(w) ==
    /\ worker[w] = "awake"
    /\ tasks = <<>> /\ ~stop
    /\ worker' = [worker EXCEPT ![w] = "waiting"]
    /\ UNCHANGED <<tasks, running, stop, call, future, timed_out>>

SpuriousWakeup(w) ==
    /\ worker[w] = "waiting"
    /\ Awaken(w)
    /\ UNCHANGED <<tasks, running, stop, call, future, timed_out>>

Answer(w, answer) ==
    /\ worker[w] = "running"
    /\ future' = [future EXCEPT ![running[w]] = answer]
    /\ running' = [running EXCEPT ![w] = NoTask]
    /\ Awaken(w)
    /\ UNCHANGED <<tasks, stop, call, timed_out>>

(* The filter finds a trajectory, be it late, or none. *)
FilterEnds(w) ==
    \E answer \in Answered : Answer(w, answer)

(* The filter asks interrupt_func now and then, and gives up. *)
FilterGivesUp(w) ==
    /\ timed_out
    /\ Answer(w, "null")

ReturnFromThread(w) ==
    /\ worker[w] = "awake"
    /\ stop /\ tasks = <<>>
    /\ worker' = [worker EXCEPT ![w] = "joined"]
    /\ UNCHANGED <<tasks, running, stop, call, future, timed_out>>

-----------------------------------------------------------------------------
(* The destructor: stop, wake all, join. *)

Stop ==
    /\ caller = "idle"
    /\ stop' = TRUE
    /\ caller' = "notify_all"
    /\ UNCHANGED <<tasks, worker, running, size, next, trajectories_out>>
    /\ UNCHANGED <<future, timed_out>>

NotifyAll ==
    /\ caller = "notify_all"
    /\ WakeAll
    /\ caller' = "join"
    /\ UNCHANGED <<tasks, running, stop, size, next, trajectories_out>>
    /\ UNCHANGED <<future, timed_out>>

Join ==
    /\ caller = "join"
    /\ \A w \in Workers : worker[w] = "joined"
    /\ caller' = "destroyed"
    /\ UNCHANGED <<pool, size, next, trajectories_out, future, timed_out>>

Destroyed == caller = "destroyed" /\ UNCHANGED vars

CallerStep ==
    \/ Enqueue
    \/ NotifyOne
    \/ CollectFuture
    \/ NotifyAll
    \/ Join

WorkerStep(w) ==
    \/ TakeTask(w)
    \/ WaitForTask(w)
    \/ FilterGivesUp(w)
    \/ ReturnFromThread(w)

Next ==
    \/ CallerStep
    \/ \E n \in 1 .. MaxTrajectories : Optimize(n)
    \/ Refuse
    \/ TimeOut
    \/ Stop
    \/ \E w \in Workers : WorkerStep(w) \/ FilterEnds(w) \/ SpuriousWakeup(w)
    \/ Destroyed

Spec == Init /\ [][Next]_vars

(* Threads are scheduled and time passes.  A filter need not end before it *)
(* is told to, and a condition variable need not wake up by itself.        *)
FairSpec ==
    /\ Spec
    /\ WF_vars(CallerStep)
    /\ WF_vars(TimeOut)
    /\ \A w \in Workers : WF_vars(WorkerStep(w))

-----------------------------------------------------------------------------
(* Properties. *)

TypeOK ==
    /\ tasks \in Seq(Task)
    /\ worker \in [Workers -> {"awake", "waiting", "running", "joined"}]
    /\ running \in [Workers -> Task \cup {NoTask}]
    /\ stop \in BOOLEAN
    /\ caller \in {"idle", "enqueue", "notify", "wait",
                   "notify_all", "join", "destroyed"}
    /\ size \in 0 .. MaxTrajectories
    /\ next \in 1 .. 2 * MaxTrajectories + 1
    /\ future \in [Task -> {"none", "pending", "valid", "null"}]
    /\ timed_out \in BOOLEAN
    /\ trajectories_out \in Seq(Task)

(* A task of the call that has not answered is in one place: once in the   *)
(* queue or with one worker.  Any other task is in none.                   *)
Queued == {tasks[k] : k \in DOMAIN tasks}

OnePlace ==
    /\ \A j, k \in DOMAIN tasks : tasks[j] = tasks[k] => j = k
    /\ \A v, w \in Workers : running[v] = running[w] => v = w \/ running[v] = NoTask
    /\ \A w \in Workers : running[w] \notin Queued
    /\ \A i \in Task :
          future[i] = "pending"
          <=> i \in Queued \/ \E w \in Workers : running[w] = i

(* When Optimize has returned no task of it is queued or runs, so none     *)
(* reads its joint_limit or trajectories_in, which are gone.               *)
NoTaskOutlivesCall ==
    caller \in {"idle", "notify_all", "join", "destroyed"} =>
        /\ tasks = <<>>
        /\ \A w \in Workers : worker[w] # "running"

(* To its caller the plugin with its pool is one that runs the filters one *)
(* after the other, as OptimizerPlugin does: it waits for every answer,    *)
(* takes none twice, and its result is the valid ones in order.            *)
Calling == caller \in {"enqueue", "notify", "wait"}

AnswerOf(i) == IF future[i] \in {"none", "pending"} THEN "awaited" ELSE future[i]

Abstract == INSTANCE OptimizeCall WITH
    answers <- IF Calling THEN [i \in 1 .. 2 * size |-> AnswerOf(i)] ELSE <<>>,
    result <- IF Calling THEN <<>> ELSE trajectories_out

ImplementsOptimizeCall == Abstract!CallSpec

(* No task lies in the queue while all workers wait for a notification     *)
(* that is not on its way.                                                 *)
NoLostWakeup ==
    tasks # <<>> /\ caller # "notify" => \E w \in Workers : worker[w] # "waiting"

(* Every call returns, however many tasks wait for a worker. *)
CallReturns == caller = "enqueue" ~> caller = "idle"

(* The destructor returns. *)
PoolIsJoined == stop ~> caller = "destroyed"
=============================================================================
