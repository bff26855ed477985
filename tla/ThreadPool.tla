------------------------------ MODULE ThreadPool ------------------------------
(***************************************************************************)
(* The task threads: include/angel/thread_pool.h.                          *)
(*                                                                         *)
(* Every region under mtx is one step; waiting on condvar is the location  *)
(* "waiting", which a worker leaves when it is notified, or spuriously.    *)
(* The producers are threads that call executor(); executor() tests the    *)
(* state before it takes mtx.  The owner calls shutdown() or stop().       *)
(*                                                                         *)
(* join() walks over the vector of workers without mtx.  A worker that has *)
(* ended stays ended, so that waiting for one after the other is waiting   *)
(* for all, as long as the vector stays as it is; a late executor() that   *)
(* adds a worker meanwhile (`raced') is undefined behaviour, after which   *)
(* the properties say nothing.                                             *)
(***************************************************************************)
EXTENDS Integers, Sequences, FiniteSets

CONSTANTS Producers,
          InitWorkers,  \* the constructor's nums
          MaxWorkers,   \* bound: threads ever started
          MaxTasks      \* bound: calls of executor()

ASSUME PoolAssumption ==
    /\ InitWorkers \in Nat \ {0}
    /\ MaxWorkers \in Nat /\ InitWorkers <= MaxWorkers
    /\ MaxTasks \in Nat

Workers == 1..MaxWorkers
Tasks == 1..MaxTasks

VARIABLES policy,     \* thread_pool::policy, "fixed" or "cached"
          state,      \* thread_pool::state
          task_queue,
          started,    \* workers.size()
          wpc,        \* per worker: where it is in thread_func()
          task,       \* per worker: its local task (0: empty)
          ppc,        \* per producer: where it is in executor()
          owner,      \* the thread in shutdown() or stop()
          ntasks,
          done,       \* history: tasks called, in order
          early,      \* history: tasks queued while the state was running
          raced       \* history: workers changed while join() walked over it

vars == <<policy, state, task_queue, started, wpc, task, ppc, owner, ntasks, done, early,
          raced>>

Started == 1..started
Waiting == {w \in Started : wpc[w] = "waiting"}

Init ==
    /\ policy \in {"fixed", "cached"}
    /\ state = "running" /\ task_queue = <<>>
    /\ started = InitWorkers
    /\ wpc = [w \in Workers |-> IF w <= InitWorkers THEN "test" ELSE "none"]
    /\ task = [w \in Workers |-> 0]
    /\ ppc = [p \in Producers |-> "out"]
    /\ owner = "out" /\ ntasks = 0
    /\ done = <<>> /\ early = {} /\ raced = FALSE

-----------------------------------------------------------------------------
(* executor(): the assertion, the push under mtx (with a new worker for    *)
(* policy::cached when there are as many tasks as workers), notify_one().  *)
ExecutorAssert(p) ==
    /\ ppc[p] = "out" /\ ntasks < MaxTasks
    /\ state = "running" /\ started > 0
    /\ ppc' = [ppc EXCEPT ![p] = "push"]
    /\ UNCHANGED <<state, task_queue, started, wpc, task, owner, ntasks, done, early, policy, raced>>

AddWorker == policy = "cached" /\ Len(task_queue) = started

ExecutorPush(p) ==
    /\ ppc[p] = "push" /\ ntasks < MaxTasks
    /\ ntasks' = ntasks + 1
    /\ task_queue' = Append(task_queue, ntasks')
    /\ early' = IF state = "running" THEN early \cup {ntasks'} ELSE early
    /\ \/ /\ AddWorker /\ started < MaxWorkers
          /\ started' = started + 1
          /\ wpc' = [wpc EXCEPT ![started + 1] = "test"]
       \/ ~AddWorker /\ UNCHANGED <<started, wpc>>
    /\ ppc' = [ppc EXCEPT ![p] = "notify"]
    /\ raced' = (raced \/ (AddWorker /\ owner = "join"))
    /\ UNCHANGED <<state, task, owner, done, policy>>

ExecutorNotify_none(p) ==        \* mutant: no notify_one()
    /\ ppc[p] = "notify" /\ ppc' = [ppc EXCEPT ![p] = "out"]
    /\ UNCHANGED <<state, task_queue, started, wpc, task, owner, ntasks, done, early, policy, raced>>

ExecutorNotify(p) ==
    /\ ppc[p] = "notify"
    /\ \/ Waiting = {} /\ UNCHANGED wpc
       \/ \E w \in Waiting : wpc' = [wpc EXCEPT ![w] = "test"]
    /\ ppc' = [ppc EXCEPT ![p] = "out"]
    /\ UNCHANGED <<state, task_queue, started, task, owner, ntasks, done, early, policy, raced>>

-----------------------------------------------------------------------------
(* thread_func(), the first region under mtx: wait, leave, or take a task  *)
(* (none if the pool is shut down and the queue is empty).                 *)
Wait(w) ==
    /\ wpc[w] = "test" /\ state = "running" /\ task_queue = <<>>
    /\ wpc' = [wpc EXCEPT ![w] = "waiting"]
    /\ UNCHANGED <<state, task_queue, started, task, ppc, owner, ntasks, done, early, policy, raced>>

Leave(w) ==
    /\ wpc[w] = "test" /\ state = "stop"
    /\ wpc' = [wpc EXCEPT ![w] = "exited"]
    /\ UNCHANGED <<state, task_queue, started, task, ppc, owner, ntasks, done, early, policy, raced>>

Take_peek(w) ==                  \* mutant: the task stays in the queue
    /\ wpc[w] = "test" /\ state # "stop" /\ task_queue # <<>>
    /\ task' = [task EXCEPT ![w] = Head(task_queue)]
    /\ wpc' = [wpc EXCEPT ![w] = "run"]
    /\ UNCHANGED <<state, task_queue, started, ppc, owner, ntasks, done, early, policy, raced>>

Take(w) ==
    /\ wpc[w] = "test" /\ state # "stop" /\ task_queue # <<>>
    /\ task' = [task EXCEPT ![w] = Head(task_queue)]
    /\ task_queue' = Tail(task_queue)
    /\ wpc' = [wpc EXCEPT ![w] = "run"]
    /\ UNCHANGED <<state, started, ppc, owner, ntasks, done, early, policy, raced>>

TakeNone(w) ==
    /\ wpc[w] = "test" /\ state = "shutdown" /\ task_queue = <<>>
    /\ wpc' = [wpc EXCEPT ![w] = "after"]
    /\ UNCHANGED <<state, task_queue, started, task, ppc, owner, ntasks, done, early, policy, raced>>

SpuriousWakeup(w) ==
    /\ wpc[w] = "waiting"
    /\ wpc' = [wpc EXCEPT ![w] = "test"]
    /\ UNCHANGED <<state, task_queue, started, task, ppc, owner, ntasks, done, early, policy, raced>>

(* The task is called without mtx and returns.                             *)
Call(w) ==
    /\ wpc[w] = "run"
    /\ done' = Append(done, task[w])
    /\ task' = [task EXCEPT ![w] = 0]
    /\ wpc' = [wpc EXCEPT ![w] = "after"]
    /\ UNCHANGED <<state, task_queue, started, ppc, owner, ntasks, early, policy, raced>>

(* The second region under mtx.                                            *)
After(w) ==
    /\ wpc[w] = "after"
    /\ wpc' = [wpc EXCEPT ![w] =
                  IF state = "shutdown" /\ task_queue = <<>> THEN "exited" ELSE "test"]
    /\ UNCHANGED <<state, task_queue, started, task, ppc, owner, ntasks, done, early, policy, raced>>

-----------------------------------------------------------------------------
(* shutdown() and stop(): set the state under mtx, notify_all(), join().   *)
NotifyState(s) ==
    /\ owner = "out"
    /\ state' = s
    /\ owner' = "notify"
    /\ UNCHANGED <<task_queue, started, wpc, task, ppc, ntasks, done, early, policy, raced>>

NotifyAll_one ==                 \* mutant: notify_one()
    /\ owner = "notify" /\ owner' = "join"
    /\ \/ Waiting = {} /\ UNCHANGED wpc
       \/ \E w \in Waiting : wpc' = [wpc EXCEPT ![w] = "test"]
    /\ UNCHANGED <<state, task_queue, started, task, ppc, ntasks, done, early, policy, raced>>

NotifyAll ==
    /\ owner = "notify"
    /\ wpc' = [w \in Workers |-> IF wpc[w] = "waiting" THEN "test" ELSE wpc[w]]
    /\ owner' = "join"
    /\ UNCHANGED <<state, task_queue, started, task, ppc, ntasks, done, early, policy, raced>>

Join ==
    /\ owner = "join" /\ \A w \in Started : wpc[w] = "exited"
    /\ owner' = "joined"
    /\ UNCHANGED <<state, task_queue, started, wpc, task, ppc, ntasks, done, early, policy, raced>>

WorkerStep(w) == Wait(w) \/ Leave(w) \/ Take(w) \/ TakeNone(w) \/ Call(w) \/ After(w)
Executor(p) == ExecutorAssert(p) \/ ExecutorPush(p) \/ ExecutorNotify(p)

Next ==
    \/ \E w \in Workers : WorkerStep(w) \/ SpuriousWakeup(w)
    \/ \E p \in Producers : Executor(p)
    \/ NotifyState("shutdown") \/ NotifyState("stop") \/ NotifyAll \/ Join

Spec == Init /\ [][Next]_vars

(* Threads that can run do, tasks return, and a call of executor() or      *)
(* shutdown() once begun goes on; nobody has to make one.                  *)
FairSpec ==
    /\ Spec
    /\ \A w \in Workers : WF_vars(WorkerStep(w))
    /\ \A p \in Producers : WF_vars(ExecutorPush(p)) /\ WF_vars(ExecutorNotify(p))
    /\ WF_vars(NotifyAll) /\ WF_vars(Join)

-----------------------------------------------------------------------------
TypeOK ==
    /\ policy \in {"fixed", "cached"}
    /\ state \in {"running", "shutdown", "stop"}
    /\ task_queue \in Seq(Tasks)
    /\ started \in Workers
    /\ wpc \in [Workers -> {"none", "test", "waiting", "run", "after", "exited"}]
    /\ task \in [Workers -> Tasks \cup {0}]
    /\ ppc \in [Producers -> {"out", "push", "notify"}]
    /\ owner \in {"out", "notify", "join", "joined"}
    /\ ntasks \in 0..MaxTasks
    /\ done \in Seq(Tasks) /\ early \subseteq Tasks /\ raced \in BOOLEAN

(* No lost wake-up: a task is not left in the queue with every worker      *)
(* asleep and nobody about to notify, although executor() notifies after   *)
(* releasing mtx and a notification may find nobody waiting.               *)
NoTaskOverslept ==
    task_queue # <<>> /\ Waiting = Started /\ state = "running"
        => \E p \in Producers : ppc[p] = "notify"

(* join() cannot hang on a sleeping worker: after the state has left       *)
(* running a worker sleeps only until the notify_all() still to come.      *)
NoWorkerLeftAsleep == state # "running" /\ Waiting # {} => owner = "notify"

Running == {w \in Workers : wpc[w] = "run"}
Taken == ntasks - Len(task_queue)

OnceEach ==
    /\ Taken >= 0 /\ \A i \in 1..Len(task_queue) : task_queue[i] = Taken + i
    /\ {task[w] : w \in Running} \cup {done[i] : i \in 1..Len(done)} = 1..Taken
    /\ \A v, w \in Running : task[v] = task[w] => v = w
    /\ \A i, j \in 1..Len(done) : done[i] = done[j] => i = j
    /\ \A w \in Running : \A i \in 1..Len(done) : task[w] # done[i]

(* Each task is in one place: still queued, with one worker, or called     *)
(* once.  The queue is first in first out, so the tasks taken from it are  *)
(* the first ones pushed, and none of them is lost.                        *)
EachTaskOnce == ~raced => OnceEach

(* When shutdown() returns, every task queued before it was called has     *)
(* been called.                                                            *)
ShutdownDrains ==
    owner = "joined" /\ state = "shutdown"
        => early \subseteq {done[i] : i \in 1..Len(done)}

(* shutdown() and stop() return, however many workers are asleep, busy or  *)
(* between their two regions when the state changes.                       *)
JoinReturns == (owner # "out") ~> (owner = "joined" \/ raced)

(* Unless the pool is stopped, a queued task is called.                    *)
TaskCalled ==
    \A t \in Tasks : (t \in early)
                        ~> (raced \/ state = "stop" \/ \E i \in 1..Len(done) : done[i] = t)

(* thread_pool.h: neither a task nor a worker is forgotten, while the      *)
(* pool runs and when it ends.                                             *)
NoneForgotten == ~raced => NoTaskOverslept /\ NoWorkerLeftAsleep /\ ShutdownDrains

(* What the pool promises in the end: tasks are called, the owner returns. *)
PoolLive == JoinReturns /\ TaskCalled
=============================================================================
