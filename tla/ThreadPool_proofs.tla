--------------------------- MODULE ThreadPool_proofs ---------------------------
(* Theorems about the thread pool, for every set of producers and every    *)
(* number of workers and tasks.                                            *)
EXTENDS ThreadPool, TLAPS

Members(s) == {s[i] : i \in 1..Len(s)}

(* The three operations on task_queue and done, as sets of tasks.          *)
LEMMA SeqMembers ==
    ASSUME NEW S, NEW s \in Seq(S), NEW e \in S
    PROVE  /\ Append(s, e) \in Seq(S) /\ Append(s, e) # <<>>
           /\ Members(Append(s, e)) = Members(s) \cup {e}
           /\ s # <<>> => /\ Head(s) \in S /\ Tail(s) \in Seq(S)
                          /\ Members(s) = Members(Tail(s)) \cup {Head(s)}
<1>1. Append(s, e) \in Seq(S) /\ Append(s, e) # <<>>
  <2>1. /\ Append(s, e) \in Seq(S) /\ Len(Append(s, e)) = Len(s) + 1
        /\ Len(s) \in Nat
    OBVIOUS
  <2>2. Len(Append(s, e)) # 0 /\ Len(<<>>) = 0  BY <2>1
  <2>3. Append(s, e) # <<>>  BY <2>2
  <2> QED  BY <2>1, <2>3
<1>2. Members(Append(s, e)) = Members(s) \cup {e}  BY DEF Members
<1>3. ASSUME s # <<>>
      PROVE  /\ Head(s) \in S /\ Tail(s) \in Seq(S)
             /\ Members(s) = Members(Tail(s)) \cup {Head(s)}
  <2>1. Head(s) \in S /\ Tail(s) \in Seq(S) /\ Len(s) >= 1 /\ Head(s) = s[1]
        /\ Len(Tail(s)) = Len(s) - 1
    BY <1>3
  <2>2. \A i \in 1..Len(Tail(s)) : Tail(s)[i] = s[i + 1]  BY <1>3
  <2>3. Members(s) \subseteq Members(Tail(s)) \cup {Head(s)}
    <3>1. SUFFICES ASSUME NEW i \in 1..Len(s), i # 1
                   PROVE  s[i] \in Members(Tail(s))
      BY <2>1 DEF Members
    <3>2. i - 1 \in 1..Len(Tail(s)) /\ s[i] = Tail(s)[i - 1]  BY <2>1, <2>2, <3>1
    <3> QED  BY <3>2 DEF Members
  <2>4. Members(Tail(s)) \cup {Head(s)} \subseteq Members(s)  BY <2>1, <2>2 DEF Members
  <2> QED  BY <2>1, <2>3, <2>4
<1> QED  BY <1>1, <1>2, <1>3

-----------------------------------------------------------------------------
(* A worker that is to call a task holds one.                              *)
RunHasTask == \A w \in Workers : wpc[w] = "run" => task[w] # 0

TypeInv == TypeOK /\ RunHasTask

(* A pool whose workers have not started.                                  *)
LEMMA TypeInvInit == Init => TypeInv
<1> SUFFICES ASSUME Init PROVE TypeInv  OBVIOUS
<1>1. /\ started \in Workers
      /\ ntasks = 0 /\ ntasks \in 0..MaxTasks
  BY PoolAssumption DEF Init, Workers
<1>2. /\ wpc \in [Workers -> {"none", "test", "waiting", "run", "after", "exited"}]
      /\ \A w \in Workers : wpc[w] # "run"
  BY DEF Init
<1>3. /\ task \in [Workers -> Tasks \cup {0}]
      /\ task_queue \in Seq(Tasks) /\ done \in Seq(Tasks)
  BY DEF Init
<1>4. TypeOK  BY <1>1, <1>2, <1>3 DEF Init, TypeOK
<1> QED  BY <1>2, <1>4 DEF TypeInv, RunHasTask

(* Every step keeps the types.                                             *)
LEMMA TypeInvNext == TypeInv /\ [Next]_vars => TypeInv'
<1> SUFFICES ASSUME TypeInv, [Next]_vars PROVE TypeInv'  OBVIOUS
<1> USE PoolAssumption DEF TypeInv, TypeOK, RunHasTask
<1>1. ASSUME NEW p \in Producers, ExecutorAssert(p) PROVE TypeInv'
  BY <1>1 DEF ExecutorAssert
<1>2. ASSUME NEW p \in Producers, ExecutorPush(p) PROVE TypeInv'
  <2>1. ntasks' \in Tasks /\ ntasks' \in 0..MaxTasks  BY <1>2 DEF ExecutorPush, Tasks
  <2>2. task_queue' \in Seq(Tasks)  BY <1>2, <2>1, SeqMembers DEF ExecutorPush
  <2>3. started' \in Workers
        /\ wpc' \in [Workers -> {"none", "test", "waiting", "run", "after", "exited"}]
        /\ \A w \in Workers : wpc'[w] = "run" => wpc[w] = "run"
    BY <1>2 DEF ExecutorPush, Workers
  <2> QED  BY <1>2, <2>1, <2>2, <2>3 DEF ExecutorPush
<1>3. ASSUME NEW p \in Producers, ExecutorNotify(p) PROVE TypeInv'
  BY <1>3 DEF ExecutorNotify, Waiting, Started, Workers
<1>4. ASSUME NEW w \in Workers, Wait(w) \/ Leave(w) \/ TakeNone(w) \/ After(w)
                                \/ SpuriousWakeup(w)
      PROVE TypeInv'
  BY <1>4 DEF Wait, Leave, TakeNone, After, SpuriousWakeup
<1>5. ASSUME NEW w \in Workers, Take(w) PROVE TypeInv'
  <2>1. Head(task_queue) \in Tasks /\ task_queue' \in Seq(Tasks)
    BY <1>5 DEF Take
  <2>2. Head(task_queue) # 0  BY <2>1 DEF Tasks
  <2> QED  BY <1>5, <2>1, <2>2 DEF Take
<1>6. ASSUME NEW w \in Workers, Call(w) PROVE TypeInv'
  <2>1. task[w] \in Tasks  BY <1>6 DEF Call
  <2>2. done' \in Seq(Tasks)  BY <1>6, <2>1, SeqMembers DEF Call
  <2> QED  BY <1>6, <2>2 DEF Call
<1>7. CASE NotifyState("shutdown") \/ NotifyState("stop")  BY <1>7 DEF NotifyState
<1>8. CASE NotifyAll  BY <1>8 DEF NotifyAll
<1>9. CASE Join  BY <1>9 DEF Join
<1>10. CASE UNCHANGED vars  BY <1>10 DEF vars
<1> QED
  BY <1>1, <1>2, <1>3, <1>4, <1>5, <1>6, <1>7, <1>8, <1>9, <1>10
  DEF Next, WorkerStep, Executor

(* Every reachable state of the pool is well typed: in particular a worker *)
(* that leaves the first region of thread_func() with a task calls one     *)
(* that executor() queued.                                                 *)
THEOREM PoolTypeCorrect == Spec => []TypeOK
<1>1. TypeInv => TypeOK  BY DEF TypeInv
<1> QED  BY TypeInvInit, TypeInvNext, <1>1, PTL DEF Spec

-----------------------------------------------------------------------------
(* No step leaves a task to sleeping workers alone.                        *)
LEMMA OversleptNext == TypeInv /\ NoTaskOverslept /\ [Next]_vars => NoTaskOverslept'
<1> SUFFICES ASSUME TypeInv, NoTaskOverslept, [Next]_vars PROVE NoTaskOverslept'
  OBVIOUS
<1> USE PoolAssumption DEF TypeInv, TypeOK, NoTaskOverslept, Waiting, Started
<1>1. ASSUME NEW p \in Producers, ExecutorAssert(p) PROVE NoTaskOverslept'
  BY <1>1 DEF ExecutorAssert
<1>2. ASSUME NEW p \in Producers, ExecutorPush(p) PROVE NoTaskOverslept'
  <2>1. ppc'[p] = "notify"  BY <1>2 DEF ExecutorPush
  <2> QED  BY <2>1
<1>3. ASSUME NEW p \in Producers, ExecutorNotify(p) PROVE NoTaskOverslept'
  <2>1. CASE Waiting = {} /\ UNCHANGED wpc
    <3>1. 1 \in Started /\ started' = started /\ Waiting' = {}
      BY <1>3, <2>1 DEF ExecutorNotify, Workers
    <3> QED  BY <3>1
  <2>2. ASSUME NEW w \in Waiting, wpc' = [wpc EXCEPT ![w] = "test"]
        PROVE  NoTaskOverslept'
    <3>1. w \in Started' /\ w \notin Waiting'
      BY <1>3, <2>2 DEF ExecutorNotify, Workers
    <3> QED  BY <3>1
  <2> QED  BY <1>3, <2>1, <2>2 DEF ExecutorNotify
<1>4. ASSUME NEW w \in Workers, Wait(w) PROVE NoTaskOverslept'
  BY <1>4 DEF Wait
<1>5. ASSUME NEW w \in Workers, Leave(w) \/ TakeNone(w) \/ After(w) \/ SpuriousWakeup(w)
      PROVE NoTaskOverslept'
  <2>1. wpc'[w] # "waiting" /\ \A v \in Workers \ {w} : wpc'[v] = wpc[v]
    BY <1>5 DEF Leave, TakeNone, After, SpuriousWakeup
  <2>2. UNCHANGED <<task_queue, state, started, ppc>>
    BY <1>5 DEF Leave, TakeNone, After, SpuriousWakeup
  <2> QED  BY <2>1, <2>2 DEF Workers
<1>6. ASSUME NEW w \in Workers, Take(w) \/ Call(w) PROVE NoTaskOverslept'
  <2>1. /\ wpc[w] # "waiting" /\ wpc'[w] # "waiting"
        /\ \A v \in Workers \ {w} : wpc'[v] = wpc[v]
    BY <1>6 DEF Take, Call
  <2>2. UNCHANGED <<state, started, ppc>>  BY <1>6 DEF Take, Call
  <2>3. task_queue' # <<>> => task_queue # <<>>
    BY <1>6 DEF Take, Call
  <2>4. /\ Started' = Started
        /\ \A v \in Started : wpc'[v] = "waiting" <=> wpc[v] = "waiting"
    BY <2>1, <2>2 DEF Workers
  <2>5. Waiting' = Started' => Waiting = Started  BY <2>4
  <2> QED  BY <2>2, <2>3, <2>5
<1>7. CASE NotifyState("shutdown") \/ NotifyState("stop")  BY <1>7 DEF NotifyState
<1>8. CASE NotifyAll
  <2>1. 1 \in Started' /\ 1 \notin Waiting'  BY <1>8 DEF NotifyAll, Workers
  <2> QED  BY <2>1
<1>9. CASE Join  BY <1>9 DEF Join
<1>10. CASE UNCHANGED vars  BY <1>10 DEF vars
<1> QED
  BY <1>1, <1>2, <1>3, <1>4, <1>5, <1>6, <1>7, <1>8, <1>9, <1>10
  DEF Next, WorkerStep, Executor

(* executor() notifies one worker after it has released mtx; nevertheless  *)
(* no task waits in the queue while every worker sleeps and no             *)
(* notification is on its way.                                             *)
THEOREM TaskNotOverslept == Spec => []NoTaskOverslept
<1>1. Init => NoTaskOverslept  BY DEF Init, NoTaskOverslept
<1> QED  BY TypeInvInit, TypeInvNext, <1>1, OversleptNext, PTL DEF Spec

-----------------------------------------------------------------------------
(* The owner has begun shutdown() or stop() exactly when the state has     *)
(* left running.                                                           *)
AwakeInv == NoWorkerLeftAsleep /\ (state = "running" <=> owner = "out")

(* No worker goes to sleep after notify_all().                             *)
LEMMA AwakeNext == TypeInv /\ AwakeInv /\ [Next]_vars => AwakeInv'
<1> SUFFICES ASSUME TypeInv, AwakeInv, [Next]_vars PROVE AwakeInv'  OBVIOUS
<1> USE PoolAssumption DEF TypeInv, TypeOK, AwakeInv, NoWorkerLeftAsleep, Waiting, Started
<1>1. ASSUME NEW p \in Producers, Executor(p) PROVE AwakeInv'
  <2>1. /\ UNCHANGED <<state, owner>>
        /\ \A w \in 1..started' : wpc'[w] = "waiting" => w \in 1..started /\ wpc[w] = "waiting"
    BY <1>1 DEF Executor, ExecutorAssert, ExecutorPush, ExecutorNotify, Workers
  <2> QED  BY <2>1
<1>2. ASSUME NEW w \in Workers, WorkerStep(w) \/ SpuriousWakeup(w) PROVE AwakeInv'
  <2>1. /\ UNCHANGED <<state, owner, started>>
        /\ state # "running" =>
              \A v \in Workers : wpc'[v] = "waiting" => wpc[v] = "waiting"
    BY <1>2 DEF WorkerStep, Wait, Leave, Take, TakeNone, Call, After, SpuriousWakeup
  <2> QED  BY <2>1 DEF Workers
<1>3. CASE NotifyState("shutdown") \/ NotifyState("stop")  BY <1>3 DEF NotifyState
<1>4. CASE NotifyAll
  <2>1. \A w \in Workers : wpc'[w] # "waiting"  BY <1>4 DEF NotifyAll
  <2> QED  BY <1>4, <2>1 DEF NotifyAll, Workers
<1>5. CASE Join  BY <1>5 DEF Join
<1>6. CASE UNCHANGED vars  BY <1>6 DEF vars
<1> QED  BY <1>1, <1>2, <1>3, <1>4, <1>5, <1>6 DEF Next

(* Once shutdown() or stop() has called notify_all() no worker sleeps, so  *)
(* join() does not wait for one that nobody will wake.                     *)
THEOREM WorkersAwake == Spec => []NoWorkerLeftAsleep
<1>1. Init => AwakeInv  BY DEF Init, AwakeInv, NoWorkerLeftAsleep
<1>2. AwakeInv => NoWorkerLeftAsleep  BY DEF AwakeInv
<1> QED  BY TypeInvInit, TypeInvNext, <1>1, <1>2, AwakeNext, PTL DEF Spec

-----------------------------------------------------------------------------
Held == {task[w] : w \in {v \in Workers : wpc[v] = "run"}}

(* Where the tasks queued before the shutdown are: in the queue, with a    *)
(* worker, or called.                                                      *)
EarlyPlaced == early \subseteq Members(task_queue) \cup Held \cup Members(done)

EarlyBelow == \A t \in early : t <= ntasks

(* Workers not yet started do nothing.                                     *)
NotStarted == \A w \in Workers : w > started => wpc[w] = "none"

(* A worker leaves a pool that is shut down only when the queue is empty,  *)
(* and what is pushed later is not early.                                  *)
ExitedAfterDrain ==
    (\E w \in Workers : wpc[w] = "exited")
        => state # "running" /\ (state = "shutdown" => Members(task_queue) \cap early = {})

JoinedAfterCalls ==
    owner = "joined" /\ state = "shutdown"
        => (\E w \in Workers : wpc[w] = "exited") /\ Held \cap early = {}

DrainInv ==
    EarlyPlaced /\ EarlyBelow /\ NotStarted /\ ExitedAfterDrain /\ JoinedAfterCalls

(* A worker leaves only when the queue is empty.                           *)
LEMMA DrainNext == TypeInv /\ AwakeInv /\ DrainInv /\ [Next]_vars => DrainInv'
<1> SUFFICES ASSUME TypeInv, AwakeInv, DrainInv, [Next]_vars PROVE DrainInv'  OBVIOUS
<1>0. TypeOK /\ RunHasTask /\ (state = "running" <=> owner = "out")
      /\ EarlyPlaced /\ EarlyBelow /\ NotStarted /\ ExitedAfterDrain /\ JoinedAfterCalls
  BY DEF TypeInv, AwakeInv, DrainInv
<1> USE PoolAssumption
(* Steps that leave the tasks alone and move workers between the other     *)
(* locations: only `exited' matters, and only the owner's last step.       *)
<1>1. ASSUME UNCHANGED <<task_queue, done, early, started, ntasks>>,
             Held' = Held,
             \A w \in Workers : w > started => wpc'[w] = "none",
             UNCHANGED <<state, owner>>,
             \A w \in Workers : wpc[w] = "exited" => wpc'[w] = "exited",
             (\E w \in Workers : wpc'[w] = "exited" /\ wpc[w] # "exited")
                => state # "running" /\ (state = "shutdown" => task_queue = <<>>)
      PROVE  DrainInv'
  <2>1. EarlyPlaced' /\ EarlyBelow' /\ NotStarted'
    BY <1>0, <1>1 DEF EarlyPlaced, EarlyBelow, NotStarted, Members
  <2>2. Members(<<>>) = {}  BY DEF Members
  <2>3. ExitedAfterDrain' /\ JoinedAfterCalls'
    BY <1>0, <1>1, <2>2 DEF ExitedAfterDrain, JoinedAfterCalls, Members
  <2> QED  BY <2>1, <2>3 DEF DrainInv
<1>2. ASSUME NEW p \in Producers, ExecutorAssert(p) \/ ExecutorNotify(p) PROVE DrainInv'
  <2>1. UNCHANGED <<task_queue, task, done, early, started, ntasks, state, owner>>
    BY <1>2 DEF ExecutorAssert, ExecutorNotify
  <2>2. \/ UNCHANGED wpc
        \/ \E w \in Waiting : wpc' = [wpc EXCEPT ![w] = "test"]
    BY <1>2 DEF ExecutorAssert, ExecutorNotify
  <2>3. \A w \in Workers : \/ wpc'[w] = wpc[w]
                           \/ wpc[w] = "waiting" /\ wpc'[w] = "test"
    BY <1>0, <2>2 DEF Waiting, Started, TypeOK
  <2>4. Held' = Held  BY <2>1, <2>3 DEF Held
  <2> QED  BY <1>0, <1>1, <2>1, <2>3, <2>4 DEF NotStarted
<1>3. ASSUME NEW p \in Producers, ExecutorPush(p) PROVE DrainInv'
  <2>1. ntasks' \in Tasks  BY <1>0, <1>3 DEF ExecutorPush, TypeOK, Tasks
  <2>2. Members(task_queue') = Members(task_queue) \cup {ntasks'}
    BY <1>0, <1>3, <2>1, SeqMembers DEF ExecutorPush, TypeOK
  <2>3. /\ UNCHANGED <<task, done, state, owner>>
        /\ early' = IF state = "running" THEN early \cup {ntasks'} ELSE early
    BY <1>3 DEF ExecutorPush
  <2>3a. /\ started' \in Int /\ started' >= started
        /\ \A w \in Workers : \/ wpc'[w] = wpc[w]
                              \/ w = started' /\ wpc[w] = "none" /\ wpc'[w] = "test"
    <3>1. CASE UNCHANGED <<started, wpc>>  BY <1>0, <3>1 DEF TypeOK, Workers
    <3>2. CASE /\ started < MaxWorkers /\ started' = started + 1
               /\ wpc' = [wpc EXCEPT ![started + 1] = "test"]
      <4>1. started + 1 \in Workers /\ wpc[started + 1] = "none"
        BY <1>0, <3>2 DEF TypeOK, Workers, NotStarted
      <4> QED  BY <1>0, <3>2, <4>1 DEF TypeOK, Workers
    <3> QED  BY <1>3, <3>1, <3>2 DEF ExecutorPush
  <2>4. Held' = Held  BY <2>3, <2>3a DEF Held
  <2>5. EarlyPlaced'  BY <1>0, <2>2, <2>3, <2>4 DEF EarlyPlaced, Members
  <2>6. NotStarted'  BY <1>0, <2>3a DEF NotStarted, TypeOK, Workers
  <2>7. EarlyBelow' /\ ntasks' \notin early
    BY <1>0, <1>3 DEF ExecutorPush, EarlyBelow, TypeOK, Tasks
  <2>8. ExitedAfterDrain' /\ JoinedAfterCalls'
    BY <1>0, <2>2, <2>3, <2>4, <2>7, <2>3a DEF ExitedAfterDrain, JoinedAfterCalls, Members
  <2> QED  BY <2>5, <2>6, <2>7, <2>8 DEF DrainInv
<1>4. ASSUME NEW w \in Workers, Wait(w) \/ Leave(w) \/ TakeNone(w) \/ After(w)
                                \/ SpuriousWakeup(w)
      PROVE DrainInv'
  <2>1. /\ UNCHANGED <<task_queue, task, done, early, started, ntasks, state, owner>>
        /\ \A v \in Workers \ {w} : wpc'[v] = wpc[v]
        /\ wpc[w] \in {"test", "after", "waiting"}
        /\ wpc'[w] \in {"test", "after", "waiting", "exited"}
        /\ wpc'[w] = "exited" => \/ state = "stop"
                                 \/ state = "shutdown" /\ task_queue = <<>>
    BY <1>0, <1>4 DEF Wait, Leave, TakeNone, After, SpuriousWakeup, TypeOK
  <2>2. Held' = Held  BY <2>1 DEF Held
  <2> QED  BY <1>0, <1>1, <2>1, <2>2 DEF NotStarted
<1>5. ASSUME NEW w \in Workers, Take(w) PROVE DrainInv'
  <2>1. /\ Head(task_queue) \in Tasks
        /\ Members(task_queue) = Members(task_queue') \cup {Head(task_queue)}
    BY <1>0, <1>5, SeqMembers DEF Take, TypeOK
  <2>2. /\ UNCHANGED <<done, early, started, ntasks, state, owner>>
        /\ \A v \in Workers \ {w} : wpc'[v] = wpc[v] /\ task'[v] = task[v]
        /\ wpc[w] = "test" /\ wpc'[w] = "run" /\ task'[w] = Head(task_queue)
    BY <1>0, <1>5 DEF Take, TypeOK
  <2>3. Held' = Held \cup {Head(task_queue)}  BY <2>2 DEF Held
  <2>4. EarlyPlaced' /\ EarlyBelow' /\ NotStarted'
    BY <1>0, <2>1, <2>2, <2>3 DEF EarlyPlaced, EarlyBelow, NotStarted
  <2>5. ExitedAfterDrain' /\ JoinedAfterCalls'
    BY <1>0, <2>1, <2>2, <2>3 DEF ExitedAfterDrain, JoinedAfterCalls
  <2> QED  BY <2>4, <2>5 DEF DrainInv
<1>6. ASSUME NEW w \in Workers, Call(w) PROVE DrainInv'
  <2>1. task[w] \in Tasks  BY <1>0, <1>6 DEF Call, TypeOK, RunHasTask
  <2>2. Members(done') = Members(done) \cup {task[w]}
    BY <1>0, <1>6, <2>1, SeqMembers DEF Call, TypeOK
  <2>3. /\ UNCHANGED <<task_queue, early, started, ntasks, state, owner>>
        /\ \A v \in Workers \ {w} : wpc'[v] = wpc[v] /\ task'[v] = task[v]
        /\ wpc[w] = "run" /\ wpc'[w] = "after"
    BY <1>0, <1>6 DEF Call, TypeOK
  <2>4. Held' \subseteq Held /\ Held \subseteq Held' \cup {task[w]}  BY <2>3 DEF Held
  <2>5. EarlyPlaced' /\ EarlyBelow' /\ NotStarted'
    BY <1>0, <2>2, <2>3, <2>4 DEF EarlyPlaced, EarlyBelow, NotStarted, Members
  <2>6. ExitedAfterDrain' /\ JoinedAfterCalls'
    BY <1>0, <2>3, <2>4 DEF ExitedAfterDrain, JoinedAfterCalls, Members
  <2> QED  BY <2>5, <2>6 DEF DrainInv
<1>7. CASE NotifyState("shutdown") \/ NotifyState("stop")
  <2>1. state = "running" /\ state' # "running" /\ owner' = "notify"
        /\ UNCHANGED <<task_queue, done, early, started, ntasks, wpc, task>>
    BY <1>0, <1>7 DEF NotifyState
  <2>2. EarlyPlaced' /\ EarlyBelow' /\ NotStarted'
    BY <1>0, <2>1 DEF EarlyPlaced, EarlyBelow, NotStarted, Members, Held
  <2>3. ExitedAfterDrain' /\ JoinedAfterCalls'
    BY <1>0, <2>1 DEF ExitedAfterDrain, JoinedAfterCalls
  <2> QED  BY <2>2, <2>3 DEF DrainInv
<1>8. CASE NotifyAll
  <2>1. /\ UNCHANGED <<task_queue, task, done, early, started, ntasks, state>>
        /\ owner' = "join"
    BY <1>8 DEF NotifyAll
  <2>1a. \A w \in Workers : wpc'[w] = IF wpc[w] = "waiting" THEN "test" ELSE wpc[w]
    BY <1>8 DEF NotifyAll
  <2>2. Held' = Held  BY <2>1, <2>1a DEF Held
  <2>3. EarlyPlaced' /\ EarlyBelow' /\ NotStarted'
    BY <1>0, <2>1, <2>2, <2>1a DEF EarlyPlaced, EarlyBelow, NotStarted, Members
  <2>4. ExitedAfterDrain' /\ JoinedAfterCalls'
    BY <1>0, <2>1, <2>1a DEF ExitedAfterDrain, JoinedAfterCalls, Members
  <2> QED  BY <2>3, <2>4 DEF DrainInv
<1>9. CASE Join
  <2>1. UNCHANGED <<task_queue, task, done, early, started, ntasks, state, wpc>>
    BY <1>9 DEF Join
  <2>2. Held' = Held  BY <2>1 DEF Held
  <2>3. EarlyPlaced' /\ EarlyBelow' /\ NotStarted' /\ ExitedAfterDrain'
    BY <1>0, <2>1, <2>2
    DEF EarlyPlaced, EarlyBelow, NotStarted, ExitedAfterDrain, Members
  <2>4. \A w \in Workers : wpc[w] \in {"exited", "none"}
    BY <1>0, <1>9 DEF Join, Started, Workers, NotStarted, TypeOK
  <2>5. 1 \in Workers /\ wpc[1] = "exited"
    BY <1>0, <1>9 DEF Join, Started, Workers, TypeOK
  <2>6. Held = {}  BY <2>4 DEF Held
  <2>7. JoinedAfterCalls'  BY <2>1, <2>2, <2>5, <2>6 DEF JoinedAfterCalls
  <2> QED  BY <2>3, <2>7 DEF DrainInv
<1>10. CASE UNCHANGED vars
  <2>1. Held' = Held  BY <1>10 DEF Held, vars
  <2> QED  BY <1>0, <1>1, <1>10, <2>1 DEF vars, NotStarted
<1> QED
  BY <1>2, <1>3, <1>4, <1>5, <1>6, <1>7, <1>8, <1>9, <1>10
  DEF Next, WorkerStep, Executor

(* The invariant of shutdown().                                            *)
LEMMA DrainInvAlways == Spec => []DrainInv
<1>1. Init => AwakeInv  BY DEF Init, AwakeInv, NoWorkerLeftAsleep
<1>2. Init => DrainInv
  <2> SUFFICES ASSUME Init PROVE DrainInv  OBVIOUS
  <2>1. \A w \in Workers : wpc[w] = (IF w <= InitWorkers THEN "test" ELSE "none")
    BY DEF Init
  <2>2. NotStarted  BY <2>1, PoolAssumption DEF Init, NotStarted, Workers
  <2>3. EarlyPlaced /\ EarlyBelow  BY DEF Init, EarlyPlaced, EarlyBelow
  <2>4. ExitedAfterDrain /\ JoinedAfterCalls
    BY <2>1 DEF Init, ExitedAfterDrain, JoinedAfterCalls
  <2> QED  BY <2>2, <2>3, <2>4 DEF DrainInv
<1> QED  BY TypeInvInit, TypeInvNext, AwakeNext, DrainNext, <1>1, <1>2, PTL DEF Spec

(* When shutdown() returns every task queued while the pool was running    *)
(* has been called, whichever workers took them and however many tasks     *)
(* were pushed after the state changed.                                    *)
THEOREM ShutdownDrainsQueue == Spec => []ShutdownDrains
<1>1. DrainInv => ShutdownDrains
  BY DEF DrainInv, EarlyPlaced, ExitedAfterDrain, JoinedAfterCalls, ShutdownDrains, Members
<1> QED  BY DrainInvAlways, <1>1, PTL

(* The pool forgets neither a task nor a worker, for every number of       *)
(* producers, workers and tasks (thread_pool.cc, executor() to join()).    *)
THEOREM PoolForgetsNone == Spec => []NoneForgotten
BY TaskNotOverslept, WorkersAwake, ShutdownDrainsQueue, PTL DEF NoneForgotten

-----------------------------------------------------------------------------
(* OnceEach is inductive: a push appends the next number, a worker         *)
(* takes the smallest one left, and its call moves it from task to done.   *)
LEMMA TaskOnceNext == TypeInv /\ NotStarted /\ OnceEach /\ [Next]_vars => OnceEach'
<1> SUFFICES ASSUME TypeInv, NotStarted, OnceEach, [Next]_vars PROVE OnceEach'  OBVIOUS
<1>0. /\ TypeOK /\ RunHasTask
      /\ Len(task_queue) \in Nat /\ Len(done) \in Nat /\ ntasks \in Nat /\ Taken \in Nat
  BY DEF TypeInv, TypeOK, OnceEach, Taken
<1>1. ASSUME UNCHANGED <<ntasks, task_queue, done, task>>, Running' = Running PROVE OnceEach'
  BY <1>1 DEF OnceEach, Taken
<1>2. ASSUME NEW p \in Producers, ExecutorAssert(p) \/ ExecutorNotify(p) PROVE OnceEach'
  <2>1. UNCHANGED <<ntasks, task_queue, done, task>>
    BY <1>2 DEF ExecutorAssert, ExecutorNotify
  <2>2. \/ UNCHANGED wpc
        \/ \E w \in Waiting : wpc' = [wpc EXCEPT ![w] = "test"]
    BY <1>2 DEF ExecutorAssert, ExecutorNotify
  <2>3. Running' = Running
    BY <1>0, <2>2 DEF Waiting, Started, Running, TypeOK
  <2> QED  BY <1>1, <2>1, <2>3
<1>3. ASSUME NEW p \in Producers, ExecutorPush(p) PROVE OnceEach'
  <2>1. /\ ntasks' = ntasks + 1 /\ ntasks' \in Tasks /\ UNCHANGED <<task, done>>
        /\ task_queue' = Append(task_queue, ntasks')
    BY <1>0, <1>3, PoolAssumption DEF ExecutorPush, TypeOK, Tasks
  <2>2. /\ Len(task_queue') = Len(task_queue) + 1 /\ task_queue'[Len(task_queue) + 1] = ntasks + 1
        /\ \A i \in 1..Len(task_queue) : task_queue'[i] = task_queue[i]
    BY <1>0, <2>1 DEF TypeOK
  <2>3. Taken' = Taken
    BY <1>0, <2>1, <2>2 DEF Taken
  <2>4. \A i \in 1..Len(task_queue') : task_queue'[i] = Taken' + i
    <3>1. \A i \in 1..Len(task_queue) : task_queue'[i] = Taken' + i
      BY <2>2, <2>3 DEF OnceEach
    <3>2. task_queue'[Len(task_queue) + 1] = Taken' + (Len(task_queue) + 1)
      BY <1>0, <2>2, <2>3 DEF Taken
    <3> QED  BY <1>0, <2>2, <3>1, <3>2
  <2>5. Running' = Running
    <3>1. CASE UNCHANGED <<started, wpc>>  BY <3>1 DEF Running
    <3>2. CASE /\ started < MaxWorkers /\ started' = started + 1
               /\ wpc' = [wpc EXCEPT ![started + 1] = "test"]
      <4>1. started + 1 \in Workers /\ wpc[started + 1] = "none"
        BY <1>0, <3>2, PoolAssumption DEF TypeOK, Workers, NotStarted
      <4> QED  BY <1>0, <3>2, <4>1 DEF TypeOK, Running
    <3> QED  BY <1>3, <3>1, <3>2 DEF ExecutorPush
  <2> QED  BY <2>1, <2>3, <2>4, <2>5 DEF OnceEach
<1>4. ASSUME NEW w \in Workers, Wait(w) \/ Leave(w) \/ TakeNone(w) \/ After(w)
                                \/ SpuriousWakeup(w)
      PROVE OnceEach'
  <2>1. /\ UNCHANGED <<ntasks, task_queue, done, task>>
        /\ \A v \in Workers \ {w} : wpc'[v] = wpc[v]
        /\ wpc[w] # "run" /\ wpc'[w] # "run"
    BY <1>0, <1>4 DEF Wait, Leave, TakeNone, After, SpuriousWakeup, TypeOK
  <2>2. Running' = Running  BY <2>1 DEF Running
  <2> QED  BY <1>1, <2>1, <2>2
<1>5. ASSUME NEW w \in Workers, Take(w) PROVE OnceEach'
  <2>1. /\ task_queue # <<>> /\ task_queue' = Tail(task_queue) /\ UNCHANGED <<ntasks, done>>
        /\ task' = [task EXCEPT ![w] = Head(task_queue)]
        /\ wpc[w] = "test" /\ wpc' = [wpc EXCEPT ![w] = "run"]
    BY <1>5 DEF Take
  <2>2. /\ Len(task_queue) > 0 /\ Len(task_queue') = Len(task_queue) - 1
        /\ Head(task_queue) = task_queue[1]
        /\ \A i \in 1..Len(task_queue') : i + 1 \in 1..Len(task_queue)
                                          /\ task_queue'[i] = task_queue[i + 1]
    BY <1>0, <2>1 DEF TypeOK
  <2>3. Taken' = Taken + 1 /\ Head(task_queue) = Taken + 1
    BY <1>0, <2>1, <2>2 DEF Taken, OnceEach
  <2>4. \A i \in 1..Len(task_queue') : task_queue'[i] = Taken' + i
    BY <1>0, <2>2, <2>3 DEF OnceEach
  <2>5. /\ w \notin Running /\ Running' = Running \cup {w} /\ task'[w] = Taken + 1
        /\ \A v \in Running : task'[v] = task[v] /\ task[v] \in 1..Taken
        /\ \A i \in 1..Len(done) : done[i] \in 1..Taken
    BY <1>0, <2>1, <2>3 DEF Running, TypeOK, OnceEach
  <2>6. 1..(Taken + 1) = 1..Taken \cup {Taken + 1} /\ Taken + 1 \notin 1..Taken
    BY <1>0
  <2>7. {task'[v] : v \in Running'} \cup {done'[i] : i \in 1..Len(done')} = 1..Taken'
    <3>1. {task'[v] : v \in Running'} = {task[v] : v \in Running} \cup {Taken + 1}
      BY <2>5
    <3>2. {done'[i] : i \in 1..Len(done')} = {done[i] : i \in 1..Len(done)}
      BY <2>1
    <3>3. {task[v] : v \in Running} \cup {done[i] : i \in 1..Len(done)} = 1..Taken
      BY DEF OnceEach
    <3> QED  BY <2>3, <2>6, <3>1, <3>2, <3>3
  <2>8. \A u, v \in Running' : task'[u] = task'[v] => u = v
    BY <2>5, <2>6 DEF OnceEach
  <2>9. \A v \in Running' : \A i \in 1..Len(done') : task'[v] # done'[i]
    BY <2>1, <2>5, <2>6 DEF OnceEach
  <2>10. Taken' >= 0 /\ \A i, j \in 1..Len(done') : done'[i] = done'[j] => i = j
    BY <1>0, <2>1, <2>3 DEF OnceEach
  <2> QED  BY <2>4, <2>7, <2>8, <2>9, <2>10 DEF OnceEach
<1>6. ASSUME NEW w \in Workers, Call(w) PROVE OnceEach'
  <2>1. /\ UNCHANGED <<ntasks, task_queue>> /\ Taken' = Taken
        /\ done' = Append(done, task[w]) /\ task' = [task EXCEPT ![w] = 0]
        /\ wpc[w] = "run" /\ wpc' = [wpc EXCEPT ![w] = "after"]
    BY <1>6 DEF Call, Taken
  <2>2. task[w] \in Tasks  BY <1>0, <2>1 DEF TypeOK, RunHasTask
  <2>3. /\ Len(done') = Len(done) + 1 /\ done'[Len(done) + 1] = task[w]
        /\ \A i \in 1..Len(done) : done'[i] = done[i]
        /\ 1..Len(done') = 1..Len(done) \cup {Len(done) + 1}
        /\ Len(done) + 1 \notin 1..Len(done)
    BY <1>0, <2>1, <2>2 DEF TypeOK
  <2>4. /\ w \in Running /\ Running' = Running \ {w}
        /\ \A v \in Running' : task'[v] = task[v]
    BY <1>0, <2>1 DEF Running, TypeOK
  <2>5. {task'[v] : v \in Running'} \cup {done'[i] : i \in 1..Len(done')} = 1..Taken'
    <3>1. {done'[i] : i \in 1..Len(done')} = {done[i] : i \in 1..Len(done)} \cup {task[w]}
      BY <2>3
    <3>2. {task'[v] : v \in Running'} \cup {task[w]} = {task[v] : v \in Running}
      BY <2>4
    <3> QED  BY <2>1, <3>1, <3>2 DEF OnceEach
  <2>6. \A u, v \in Running' : task'[u] = task'[v] => u = v
    BY <2>4 DEF OnceEach
  <2>7. \A i, j \in 1..Len(done') : done'[i] = done'[j] => i = j
    BY <2>3, <2>4 DEF OnceEach
  <2>8. \A v \in Running' : \A i \in 1..Len(done') : task'[v] # done'[i]
    BY <2>3, <2>4 DEF OnceEach
  <2> QED  BY <2>1, <2>5, <2>6, <2>7, <2>8 DEF OnceEach
<1>7. CASE NotifyState("shutdown") \/ NotifyState("stop")
  BY <1>1, <1>7 DEF NotifyState, Running
<1>8. CASE NotifyAll
  <2>1. \A w \in Workers : wpc'[w] = IF wpc[w] = "waiting" THEN "test" ELSE wpc[w]
    BY <1>8 DEF NotifyAll
  <2>2. Running' = Running  BY <2>1 DEF Running
  <2> QED  BY <1>1, <1>8, <2>2 DEF NotifyAll
<1>9. CASE Join  BY <1>1, <1>9 DEF Join, Running
<1>10. CASE UNCHANGED vars  BY <1>1, <1>10 DEF vars, Running
<1> QED
  BY <1>2, <1>3, <1>4, <1>5, <1>6, <1>7, <1>8, <1>9, <1>10
  DEF Next, WorkerStep, Executor

(* For any number of workers and producers no task is called twice, lost   *)
(* or taken out of turn: each is in the queue, with one worker, or called. *)
THEOREM TaskOnce == Spec => []EachTaskOnce
<1>1. Init => OnceEach
  <2> SUFFICES ASSUME Init PROVE OnceEach  OBVIOUS
  <2>0. task_queue = <<>> /\ done = <<>> /\ ntasks = 0  BY DEF Init
  <2>1. Len(task_queue) = 0 /\ Len(done) = 0  BY <2>0
  <2>3. Taken = 0
    <3>1. ntasks = 0  BY <2>0
    <3> QED  BY <2>1, <3>1 DEF Taken
  <2>2. Running = {}  BY DEF Init, Running
  <2> QED  BY <2>1, <2>2, <2>3 DEF OnceEach
<1>2. DrainInv => NotStarted  BY DEF DrainInv
<1>3. OnceEach => EachTaskOnce  BY DEF EachTaskOnce
<1> QED  BY DrainInvAlways, <1>1, <1>2, <1>3, TypeInvInit, TypeInvNext, TaskOnceNext, PTL DEF Spec
=============================================================================
