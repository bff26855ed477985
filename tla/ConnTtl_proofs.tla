---------------------------- MODULE ConnTtl_proofs ----------------------------
(* Theorems about the idle TTL, for every set of threads and every number  *)
(* of timers; then about the other parts of a connection (module           *)
(* ConnParts): TLS, its buffers, and the logger, which writes through two. *)
EXTENDS ConnParts, TLAPS, FiniteSetTheorems

Functors == [op : {"add", "cancel", "set_ttl"}, id : Ids \cup {0}]

(* The index arithmetic of appending a functor and of taking the first.    *)
LEMMA AppendAt ==
    ASSUME NEW S, NEW s \in Seq(S), NEW e \in S
    PROVE  /\ Append(s, e) \in Seq(S)
           /\ Len(s) \in Nat /\ Len(Append(s, e)) = Len(s) + 1
           /\ \A i \in 1..Len(s) : Append(s, e)[i] = s[i]
           /\ Append(s, e)[Len(s) + 1] = e
OBVIOUS

(* Tail, by position.                                                      *)
LEMMA TailAt ==
    ASSUME NEW S, NEW s \in Seq(S), s # <<>>
    PROVE  /\ Head(s) \in S /\ Head(s) = s[1] /\ Tail(s) \in Seq(S)
           /\ Len(s) \in Nat \ {0} /\ Len(Tail(s)) = Len(s) - 1
           /\ \A i \in 1..Len(Tail(s)) : Tail(s)[i] = s[i + 1]
OBVIOUS

-----------------------------------------------------------------------------
(* A queued add carries the id of a timer, and ids are handed out in       *)
(* order: none in use is nextTimer or above.                               *)
AddHasId == \A i \in 1..Len(queue) : queue[i].op = "add" => queue[i].id \in Ids

Fresh ==
    /\ \A i \in 1..Len(queue) : queue[i].id < nextTimer
    /\ ttl_timer_id < nextTimer
    /\ \A t \in Others : mine[t] < nextTimer

TypeInv == TypeOK /\ AddHasId /\ Fresh

(* A connection without a TTL.                                             *)
LEMMA TypeInvInit == Init => TypeInv
<1> SUFFICES ASSUME Init PROVE TypeInv  OBVIOUS
<1>1. TypeOK
  <2>1. <<>> \in Seq([op : {"add", "cancel", "set_ttl"}, id : Ids \cup {0}])  OBVIOUS
  <2>2. 1 \in 1..(MaxTimers + 1)  BY TtlAssumption
  <2> QED  BY <2>1, <2>2 DEF Init, TypeOK
<1>2. queue = <<>> /\ Len(queue) = 0  BY DEF Init
<1>3. AddHasId  BY <1>2 DEF AddHasId
<1>4. Fresh  BY <1>2 DEF Init, Fresh
<1> QED  BY <1>1, <1>3, <1>4 DEF TypeInv

(* A queued functor carries a number for an id.                            *)
LEMMA QueueTyped ==
    ASSUME NEW s \in Seq(Functors), NEW i \in 1..Len(s)
    PROVE  s[i] \in Functors /\ s[i].id \in Int
<1>1. s[i] \in Functors  OBVIOUS
<1>2. \A f \in Functors : f.id \in Int  BY TtlAssumption DEF Functors, Ids
<1> QED  BY <1>1, <1>2

(* Appending a functor whose id is in use, or is the one handed out now.   *)
LEMMA AppendTyped ==
    ASSUME TypeInv, NEW f \in Functors, queue' = Append(queue, f),
           nextTimer' \in 1..(MaxTimers + 1), nextTimer' >= nextTimer,
           f.id < nextTimer', f.op = "add" => f.id \in Ids
    PROVE  /\ queue' \in Seq(Functors) /\ AddHasId'
           /\ \A i \in 1..Len(queue') : queue'[i].id < nextTimer'
<1>1. queue \in Seq(Functors) /\ nextTimer \in Int /\ nextTimer' \in Int
  BY TtlAssumption DEF TypeInv, TypeOK, Functors
<1>2. /\ queue' \in Seq(Functors) /\ Len(queue) \in Nat /\ Len(queue') = Len(queue) + 1
      /\ \A i \in 1..Len(queue) : queue'[i] = queue[i]
      /\ queue'[Len(queue) + 1] = f
  BY <1>1, AppendAt
<1>3. \A i \in 1..Len(queue) : queue[i].id \in Int  BY <1>1, QueueTyped
<1>4. \A i \in 1..Len(queue') : i \in 1..Len(queue) \/ i = Len(queue) + 1
  BY <1>2
<1>5. AddHasId'  BY <1>2, <1>4 DEF TypeInv, AddHasId
<1>6. \A i \in 1..Len(queue') : queue'[i].id < nextTimer'
  BY <1>1, <1>2, <1>3, <1>4 DEF TypeInv, Fresh
<1> QED  BY <1>2, <1>5, <1>6

(* Every step keeps the types.                                             *)
LEMMA TypeInvNext == TypeInv /\ [Next]_vars => TypeInv'
<1> SUFFICES ASSUME TypeInv, [Next]_vars PROVE TypeInv'  OBVIOUS
<1>0. TypeOK /\ AddHasId /\ Fresh  BY DEF TypeInv
<1>a. Ids = 1..MaxTimers /\ nextTimer \in 1..(MaxTimers + 1) /\ MaxTimers \in Nat
  BY <1>0, TtlAssumption DEF TypeOK, Ids
<1>1. ASSUME Rearm, UNCHANGED queue, UNCHANGED <<state, at, mine, shared>>,
             ttl' \in BOOLEAN, late' \in BOOLEAN
      PROVE  TypeInv'
  <2>1. /\ nextTimer \in Ids /\ nextTimer' \in 1..(MaxTimers + 1)
        /\ ttl_timer_id' = nextTimer /\ nextTimer' = nextTimer + 1 /\ armed' \subseteq Ids
    BY <1>0, <1>1, <1>a DEF Rearm, TypeOK
  <2>2. TypeOK' /\ AddHasId'  BY <1>0, <1>1, <2>1 DEF TypeOK, AddHasId
  <2>3. \A i \in 1..Len(queue) : queue[i].id \in Int
    BY <1>0, QueueTyped DEF TypeOK, Functors
  <2>4. \A t \in Others : mine[t] \in Int  BY <1>0, <1>a DEF TypeOK
  <2>5. Fresh'  BY <1>0, <1>1, <1>a, <2>1, <2>3, <2>4 DEF Fresh
  <2> QED  BY <2>2, <2>5 DEF TypeInv
<1>2. CASE SetTtlInLoop \/ Activity
  BY <1>0, <1>1, <1>2 DEF SetTtlInLoop, Activity, TypeOK
<1>3. CASE SetTtlFromOther
  <2>1. 0 < nextTimer' /\ nextTimer' = nextTimer /\ nextTimer >= nextTimer
        /\ [op |-> "set_ttl", id |-> 0] \in Functors
    BY <1>3, <1>a DEF SetTtlFromOther, Functors
  <2>2. /\ queue' \in Seq(Functors) /\ AddHasId'
        /\ \A i \in 1..Len(queue') : queue'[i].id < nextTimer'
    BY <1>3, <1>a, <2>1, AppendTyped DEF SetTtlFromOther
  <2> QED  BY <1>0, <1>3, <2>1, <2>2 DEF SetTtlFromOther, TypeInv, TypeOK, Fresh, Functors
<1>4. ASSUME NEW t \in Others, OtherTest(t) \/ OtherStore(t) PROVE TypeInv'
  BY <1>0, <1>4 DEF OtherTest, OtherStore, TypeInv, TypeOK, Fresh, AddHasId
<1>5. ASSUME NEW t \in Others, OtherCancel(t) PROVE TypeInv'
  <2>0. UNCHANGED <<state, ttl, ttl_timer_id, armed, nextTimer, mine, shared, late>>
        /\ at' \in [Others -> {"out", "cancel", "arm", "store"}]
    BY <1>0, <1>5 DEF OtherCancel, TypeOK
  <2>1. CASE ttl_timer_id = 0
    <3>1. UNCHANGED queue  BY <1>5, <2>1 DEF OtherCancel
    <3> QED  BY <1>0, <2>0, <3>1 DEF TypeInv, TypeOK, Fresh, AddHasId
  <2>2. CASE ttl_timer_id # 0
    <3> DEFINE f == [op |-> "cancel", id |-> ttl_timer_id]
    <3>1. f \in Functors /\ f.id < nextTimer' /\ f.op # "add" /\ queue' = Append(queue, f)
      BY <1>0, <1>5, <2>0, <2>2 DEF OtherCancel, TypeOK, Fresh, Functors
    <3>2. /\ queue' \in Seq(Functors) /\ AddHasId'
          /\ \A i \in 1..Len(queue') : queue'[i].id < nextTimer'
      BY <1>a, <2>0, <3>1, AppendTyped
    <3> QED  BY <1>0, <2>0, <3>2 DEF TypeInv, TypeOK, Fresh, Functors
  <2> QED  BY <2>1, <2>2
<1>6. ASSUME NEW t \in Others, OtherArm(t) PROVE TypeInv'
  <2> DEFINE f == [op |-> "add", id |-> nextTimer]
  <2>1. /\ nextTimer \in Ids /\ nextTimer' = nextTimer + 1
        /\ nextTimer' \in 1..(MaxTimers + 1) /\ nextTimer' >= nextTimer
        /\ f \in Functors /\ f.id < nextTimer' /\ f.id \in Ids
        /\ queue' = Append(queue, f)
    BY <1>6, <1>a DEF OtherArm, Functors
  <2>2. /\ queue' \in Seq(Functors) /\ AddHasId'
        /\ \A i \in 1..Len(queue') : queue'[i].id < nextTimer'
    BY <2>1, AppendTyped
  <2>3. ttl_timer_id \in Int /\ \A u \in Others : mine[u] \in Int
    BY <1>0, <1>a DEF TypeOK
  <2>4. ttl_timer_id' < nextTimer' /\ \A u \in Others : mine'[u] < nextTimer'
    BY <1>0, <1>6, <1>a, <2>1, <2>3 DEF OtherArm, Fresh, TypeOK
  <2>5. TypeOK'  BY <1>0, <1>6, <2>1, <2>2 DEF OtherArm, TypeOK, Functors
  <2> QED  BY <2>2, <2>4, <2>5 DEF TypeInv, Fresh
<1>7. CASE Close
  <2>1. /\ UNCHANGED <<ttl, queue, nextTimer, at, mine, shared, late>>
        /\ state' \in {"Closing", "Closed"} /\ ttl_timer_id' = 0 /\ armed' \subseteq armed
    BY <1>7 DEF Close, handle_close
  <2>2. TypeOK'  BY <1>0, <2>1 DEF TypeOK
  <2>3. AddHasId'  BY <1>0, <2>1 DEF AddHasId
  <2>4. Fresh'  BY <1>0, <1>a, <2>1 DEF Fresh
  <2> QED  BY <2>2, <2>3, <2>4 DEF TypeInv
<1>8. ASSUME NEW i \in Ids, Expire(i) PROVE TypeInv'
  <2>1. /\ UNCHANGED <<ttl, queue, nextTimer, at, mine, shared, late>>
        /\ state' = state \/ state' \in {"Closing", "Closed"}
        /\ ttl_timer_id' = 0 \/ ttl_timer_id' = ttl_timer_id
        /\ armed' \subseteq armed
    BY <1>8 DEF Expire
  <2>2. TypeOK'  BY <1>0, <2>1 DEF TypeOK
  <2>3. AddHasId'  BY <1>0, <2>1 DEF AddHasId
  <2>4. Fresh'  BY <1>0, <1>a, <2>1 DEF Fresh
  <2> QED  BY <2>2, <2>3, <2>4 DEF TypeInv
<1>9. CASE RunFunctor
  <2>1. /\ Head(queue) \in Functors /\ Head(queue) = queue[1] /\ queue' \in Seq(Functors)
        /\ Len(queue) \in Nat \ {0} /\ Len(queue') = Len(queue) - 1
        /\ \A i \in 1..Len(queue') : queue'[i] = queue[i + 1]
    BY <1>0, <1>9, TailAt DEF RunFunctor, TypeOK, Functors
  <2>2. \A i \in 1..Len(queue') : i + 1 \in 1..Len(queue)  BY <2>1
  <2>3. AddHasId'  BY <1>0, <2>1, <2>2 DEF AddHasId
  <2>4. \A i \in 1..Len(queue') : queue'[i].id < nextTimer /\ queue'[i].id \in Int
    BY <1>0, <2>1, <2>2, QueueTyped DEF Fresh
  <2>5. CASE Head(queue).op \in {"add", "cancel"} /\ UNCHANGED <<ttl, ttl_timer_id, nextTimer>>
             /\ armed' \in {armed \cup {Head(queue).id}, armed \ {Head(queue).id}}
             /\ (Head(queue).op = "cancel" => armed' \subseteq armed)
    <3>1. armed' \subseteq Ids  BY <1>0, <2>1, <2>5 DEF AddHasId, TypeOK
    <3> QED
      BY <1>0, <1>9, <2>1, <2>3, <2>4, <2>5, <3>1
      DEF RunFunctor, TypeInv, TypeOK, Fresh, Functors
  <2>6. CASE Head(queue).op = "set_ttl" /\ ttl' = TRUE /\ Rearm
    <3>1. /\ nextTimer \in Ids /\ nextTimer' \in 1..(MaxTimers + 1)
          /\ ttl_timer_id' = nextTimer /\ nextTimer' = nextTimer + 1
          /\ armed' \subseteq Ids
      BY <1>0, <1>a, <2>6 DEF Rearm, TypeOK
    <3>2. UNCHANGED <<state, at, mine, shared, late>>  BY <1>9 DEF RunFunctor
    <3>3. TypeOK'  BY <1>0, <2>1, <2>6, <3>1, <3>2 DEF TypeOK, Functors
    <3>4. \A t \in Others : mine[t] \in Int  BY <1>0, <1>a DEF TypeOK
    <3>5. Fresh'  BY <1>0, <1>a, <2>4, <3>1, <3>2, <3>4 DEF Fresh
    <3> QED  BY <2>3, <3>3, <3>5 DEF TypeInv
  <2> QED  BY <1>9, <2>5, <2>6 DEF RunFunctor
<1>10. CASE UNCHANGED vars
  BY <1>0, <1>10 DEF vars, TypeInv, TypeOK, AddHasId, Fresh
<1> QED
  BY <1>2, <1>3, <1>4, <1>5, <1>6, <1>7, <1>8, <1>9, <1>10 DEF Next

(* Every reachable state is well typed: no id is stored or queued that the *)
(* loop has not handed out.                                                *)
THEOREM TtlTypeCorrect == Spec => []TypeOK
<1>1. TypeInv => TypeOK  BY DEF TypeInv
<1> QED  BY TypeInvInit, TypeInvNext, <1>1, PTL DEF Spec

-----------------------------------------------------------------------------
(* As long as only the loop thread calls the connection nothing is queued, *)
(* at most the tracked timer is armed, and a close forgets the id.         *)
LoopOnly ==
    ~shared =>
        /\ queue = <<>> /\ \A t \in Others : at[t] = "out"
        /\ armed \subseteq {ttl_timer_id}
        /\ state # "Connected" /\ ~late => armed = {} /\ ttl_timer_id = 0

(* Steps of the loop thread alone keep its timer tracked.                  *)
LEMMA LoopOnlyNext == TypeInv /\ LoopOnly /\ [Next]_vars => LoopOnly'
<1> SUFFICES ASSUME TypeInv, LoopOnly, [Next]_vars PROVE LoopOnly'  OBVIOUS
<1>0. TypeOK  BY DEF TypeInv
<1>1. CASE SetTtlInLoop \/ Activity
  <2>1. ~shared' => /\ queue' = <<>> /\ \A t \in Others : at'[t] = "out"
                    /\ armed' \subseteq {ttl_timer_id'}
    BY <1>1 DEF SetTtlInLoop, Activity, Rearm, LoopOnly
  <2>2. CASE SetTtlInLoop
    <3>1. state' # "Connected" => late'  BY <2>2 DEF SetTtlInLoop
    <3> QED  BY <2>1, <3>1 DEF LoopOnly
  <2>3. CASE Activity
    <3>1. ttl_timer_id # 0 /\ UNCHANGED <<state, late, shared>>  BY <1>0, <2>3 DEF Activity, TypeOK
    <3> QED  BY <2>1, <3>1 DEF LoopOnly
  <2> QED  BY <1>1, <2>2, <2>3
<1>2. CASE SetTtlFromOther  BY <1>2 DEF SetTtlFromOther, LoopOnly
<1>3. ASSUME NEW t \in Others, OtherTest(t) PROVE LoopOnly'
  BY <1>3 DEF OtherTest, LoopOnly
<1>4. ASSUME NEW t \in Others, OtherCancel(t) \/ OtherArm(t) \/ OtherStore(t)
      PROVE LoopOnly'
  BY <1>4 DEF OtherCancel, OtherArm, OtherStore, LoopOnly
<1>5. CASE Close  BY <1>0, <1>5 DEF Close, handle_close, LoopOnly, TypeOK
<1>6. ASSUME NEW i \in Ids, Expire(i) PROVE LoopOnly'
  BY <1>0, <1>6 DEF Expire, LoopOnly, TypeOK
<1>7. CASE RunFunctor  BY <1>7 DEF RunFunctor, LoopOnly
<1>8. CASE UNCHANGED vars  BY <1>8 DEF vars, LoopOnly
<1> QED  BY <1>1, <1>2, <1>3, <1>4, <1>5, <1>6, <1>7, <1>8 DEF Next

(* Used from the loop thread alone, set_ttl(), update_ttl_timer() and      *)
(* handle_close() never leave a timer armed that nobody tracks.            *)
THEOREM TrackedByLoopThread == Spec => []TrackedOnLoopThread
<1>1. Init => LoopOnly  BY DEF Init, LoopOnly
<1>2. LoopOnly => TrackedOnLoopThread  BY DEF LoopOnly, TrackedOnLoopThread
<1> QED  BY TypeInvInit, TypeInvNext, LoopOnlyNext, <1>1, <1>2, PTL DEF Spec

-----------------------------------------------------------------------------
(* Timer x will still be armed when every functor queued now has been      *)
(* called: it is armed, or added by one of them, and not cancelled later.  *)
CancelsAfter(x, i) == \E j \in 1..Len(queue) :
                         j > i /\ queue[j].op = "cancel" /\ queue[j].id = x

Survives(x) ==
    \/ x \in armed /\ ~CancelsAfter(x, 0)
    \/ \E i \in 1..Len(queue) :
          queue[i].op = "add" /\ queue[i].id = x /\ ~CancelsAfter(x, i)

(* A thread that has queued a cancel is on its way to run_after().         *)
StaysArmed ==
    state = "Connected" /\ ttl
        => (\E t \in Others : at[t] = "arm") \/ (\E x \in Ids : Survives(x))

(* A timer armed by the loop thread itself survives: no functor can cancel *)
(* an id that was not handed out before.                                   *)
LEMMA RearmSurvives ==
    ASSUME TypeInv, Rearm, \A i \in 1..Len(queue') : queue'[i].id < nextTimer
    PROVE  StaysArmed'
<1>1. nextTimer \in Ids /\ nextTimer \in Int
  BY TtlAssumption DEF Rearm, TypeInv, TypeOK, Ids
<1>2. PICK n \in Ids : n = nextTimer  BY <1>1
<1>3. n \in armed'  BY <1>2 DEF Rearm
<1>4. \A i \in 1..Len(queue') : queue'[i].id # n  BY <1>1, <1>2
<1>5. ~CancelsAfter(n, 0)'  BY <1>4 DEF CancelsAfter
<1>6. Survives(n)'  BY <1>3, <1>5 DEF Survives
<1> QED  BY <1>6 DEF StaysArmed

(* Every step leaves a timer running, or a caller that will add one.       *)
LEMMA StaysArmedNext == TypeInv /\ TypeInv' /\ StaysArmed /\ [Next]_vars => StaysArmed'
<1> SUFFICES ASSUME TypeInv, TypeInv', StaysArmed, [Next]_vars PROVE StaysArmed'  OBVIOUS
<1>0. /\ TypeOK /\ AddHasId /\ Fresh /\ TypeOK'
      /\ queue \in Seq(Functors) /\ queue' \in Seq(Functors)
  BY DEF TypeInv, TypeOK, Functors
<1>1. CASE SetTtlInLoop \/ Activity
  BY <1>0, <1>1, RearmSurvives DEF SetTtlInLoop, Activity, Fresh
(* A functor appended that cancels nothing leaves the survivors alone.     *)
<1>2. ASSUME NEW f \in Functors, f.op # "cancel", queue' = Append(queue, f),
             UNCHANGED armed, NEW x, Survives(x)
      PROVE  Survives(x)'
  <2>1. /\ Len(queue) \in Nat /\ Len(queue') = Len(queue) + 1
        /\ \A i \in 1..Len(queue) : queue'[i] = queue[i]
        /\ queue'[Len(queue) + 1] = f
    BY <1>0, <1>2, AppendAt
  <2>2. \A i \in 1..Len(queue') : i \in 1..Len(queue) \/ i = Len(queue) + 1  BY <2>1
  <2>3. \A i : CancelsAfter(x, i)' => CancelsAfter(x, i)
    BY <1>2, <2>1, <2>2 DEF CancelsAfter
  <2>4. CASE x \in armed /\ ~CancelsAfter(x, 0)
    BY <1>2, <2>3, <2>4 DEF Survives
  <2>5. ASSUME NEW i \in 1..Len(queue),
               queue[i].op = "add", queue[i].id = x, ~CancelsAfter(x, i)
        PROVE  Survives(x)'
    <3>1. i \in 1..Len(queue') /\ queue'[i] = queue[i]  BY <2>1
    <3> QED  BY <2>3, <2>5, <3>1 DEF Survives
  <2> QED  BY <1>2, <2>4, <2>5 DEF Survives
<1>3. CASE SetTtlFromOther
  <2>1. [op |-> "set_ttl", id |-> 0] \in Functors  BY DEF Functors
  <2> QED  BY <1>2, <1>3, <2>1 DEF SetTtlFromOther, StaysArmed
<1>4. ASSUME NEW t \in Others, OtherTest(t) \/ OtherStore(t) PROVE StaysArmed'
  <2>1. UNCHANGED <<state, ttl, armed, queue>>
        /\ \A u \in Others : at[u] = "arm" => at'[u] = "arm"
    BY <1>0, <1>4 DEF OtherTest, OtherStore, TypeOK
  <2> QED  BY <2>1 DEF StaysArmed, Survives, CancelsAfter
<1>5. ASSUME NEW t \in Others, OtherCancel(t) PROVE StaysArmed'
  <2>1. at'[t] = "arm"  BY <1>0, <1>5 DEF OtherCancel, TypeOK
  <2> QED  BY <2>1 DEF StaysArmed
<1>6. ASSUME NEW t \in Others, OtherArm(t) PROVE StaysArmed'
  <2>1. nextTimer \in Ids /\ queue' = Append(queue, [op |-> "add", id |-> nextTimer])
    BY <1>0, <1>6, TtlAssumption DEF OtherArm, TypeOK, Ids
  <2>2. PICK n \in Ids : n = nextTimer  BY <2>1
  <2>3. [op |-> "add", id |-> n] \in Functors  BY <2>2 DEF Functors
  <2>4. PICK m \in Nat : m = Len(queue) + 1  BY <1>0
  <2>5. m \in 1..Len(queue') /\ Len(queue') = m /\ queue'[m] = [op |-> "add", id |-> n]
    BY <1>0, <2>1, <2>2, <2>3, <2>4, AppendAt
  <2>6. ~CancelsAfter(n, m)'  BY <2>5 DEF CancelsAfter
  <2>7. Survives(n)'  BY <2>5, <2>6 DEF Survives
  <2> QED  BY <2>7 DEF StaysArmed
<1>7. CASE Close  BY <1>7 DEF Close, handle_close, StaysArmed
<1>8. ASSUME NEW i \in Ids, Expire(i) PROVE StaysArmed'
  BY <1>8 DEF Expire, StaysArmed
<1>9. CASE RunFunctor
  <2>1. /\ queue # <<>> /\ Head(queue) = queue[1]
        /\ Len(queue) \in Nat \ {0} /\ Len(queue') = Len(queue) - 1
        /\ \A i \in 1..Len(queue') : queue'[i] = queue[i + 1]
    BY <1>0, <1>9, TailAt DEF RunFunctor
  <2>2. \A i \in 1..Len(queue') : i + 1 \in 1..Len(queue)  BY <2>1
  <2>3. CASE Head(queue).op = "set_ttl" /\ Rearm
    <3>1. \A i \in 1..Len(queue') : queue'[i].id < nextTimer
      BY <1>0, <2>1, <2>2 DEF Fresh
    <3> QED  BY <2>3, <3>1, RearmSurvives
  <2>4. CASE /\ UNCHANGED ttl
             /\ \/ Head(queue).op = "add" /\ armed' = armed \cup {Head(queue).id}
                \/ Head(queue).op = "cancel" /\ armed' = armed \ {Head(queue).id}
    <3>1. SUFFICES ASSUME NEW x \in Ids, Survives(x) PROVE Survives(x)'
      BY <1>9, <2>4 DEF RunFunctor, StaysArmed
    <3>2. \A i \in Nat : CancelsAfter(x, i)' => CancelsAfter(x, i + 1)
      BY <2>1, <2>2 DEF CancelsAfter
    <3>3. CancelsAfter(x, 1) => CancelsAfter(x, 0)  BY DEF CancelsAfter
    <3>4. CASE x \in armed /\ ~CancelsAfter(x, 0)
      <4>1. ~(queue[1].op = "cancel" /\ queue[1].id = x)
        BY <2>1, <3>4 DEF CancelsAfter
      <4>2. x \in armed'  BY <2>1, <2>4, <3>4, <4>1
      <4> QED  BY <3>2, <3>3, <3>4, <4>2 DEF Survives
    <3>5. ASSUME NEW i \in 1..Len(queue),
                 queue[i].op = "add", queue[i].id = x, ~CancelsAfter(x, i)
          PROVE  Survives(x)'
      <4>1. CASE i = 1
        <5>1. x \in armed'  BY <2>1, <2>4, <3>5, <4>1
        <5> QED  BY <3>2, <3>5, <4>1, <5>1 DEF Survives
      <4>2. CASE i # 1
        <5>1. /\ i - 1 \in 1..Len(queue') /\ i - 1 \in Nat /\ (i - 1) + 1 = i
              /\ queue'[i - 1] = queue[i]
          BY <2>1, <4>2
        <5>2. ~CancelsAfter(x, i - 1)'  BY <3>2, <3>5, <5>1
        <5> QED  BY <3>5, <5>1, <5>2 DEF Survives
      <4> QED  BY <4>1, <4>2
    <3> QED  BY <3>1, <3>4, <3>5 DEF Survives
  <2> QED  BY <1>9, <2>3, <2>4 DEF RunFunctor
<1>10. CASE UNCHANGED vars
  BY <1>10 DEF vars, StaysArmed, Survives, CancelsAfter
<1> QED
  BY <1>1, <1>3, <1>4, <1>5, <1>6, <1>7, <1>8, <1>9, <1>10 DEF Next

(* An open connection with a TTL is never left without a running timer,    *)
(* however many threads race in update_ttl_timer() without a lock: each    *)
(* cancel they queue is followed by an add of a fresh id.                  *)
THEOREM TtlKeepsRunning == Spec => []TtlRunning
<1>1. Init => StaysArmed  BY DEF Init, StaysArmed
<1>2. StaysArmed => TtlRunning
  <2> SUFFICES ASSUME StaysArmed, Quiet, state = "Connected", ttl PROVE armed # {}
    BY DEF TtlRunning
  <2>1. PICK x \in Ids : Survives(x)  BY DEF StaysArmed, Quiet
  <2>2. \A i \in 1..Len(queue) : FALSE  BY DEF Quiet
  <2>3. x \in armed  BY <2>1, <2>2 DEF Survives
  <2> QED  BY <2>3
<1> QED  BY TypeInvInit, TypeInvNext, StaysArmedNext, <1>1, <1>2, PTL DEF Spec

(* The TTL timer is neither lost nor left behind, for every number of      *)
(* threads that call the connection (update_ttl_timer(), set_ttl()).       *)
THEOREM TtlIsTracked == Spec => []TtlTracked
BY TrackedByLoopThread, TtlKeepsRunning, PTL DEF TtlTracked

-----------------------------------------------------------------------------
SslTypes ==
    /\ holder \in [SslFds -> SslConns \cup {Nobody}] /\ shmap \in [SslFds -> SslConns \cup {Nobody}]
    /\ ssl_fd \in [SslConns -> SslFds \cup {Nobody}]
    /\ phase \in [SslConns -> {"new", "queued", "shaking", "creating", "inserting", "failing",
                                "closing", "established", "closed"}]
    /\ ssl_filter \in [SslConns -> SUBSET {"Read", "Write"}]
    /\ ssl \subseteq SslConns /\ used \in [SslConns -> SslConns \cup {Nobody}]
    /\ want \in [SslConns -> {"none", "Read", "Write"}] /\ bad_assert \in BOOLEAN

(* A connection has its descriptor until it is closed; the handshake of a   *)
(* descriptor is the one of the connection that has it, and it runs or its  *)
(* entry is about to be erased.                                             *)
FdHeld == \A c \in SslConns : phase[c] \notin {"new", "closed"}
                              => ssl_fd[c] \in SslFds /\ holder[ssl_fd[c]] = c
ShakingMapped == \A c \in SslConns : phase[c] \in {"queued", "shaking", "creating", "failing"}
                              => shmap[ssl_fd[c]] = c /\ (phase[c] = "failing" \/ c \in ssl)
MappedShakes == \A d \in SslFds : \A c \in SslConns :
                   shmap[d] = c => /\ phase[c] \in {"queued", "shaking", "creating", "failing"}
                                   /\ ssl_fd[c] = d
(* A handshake that waits does so for one event.                            *)
Waits == \A c \in SslConns : phase[c] = "shaking" =>
                   want[c] \in {"Read", "Write"} /\ ssl_filter[c] = {want[c]}
Established == \A c \in SslConns : phase[c] \in {"creating", "inserting", "established"} =>
                   /\ used[c] = c /\ c \in ssl
                   /\ "Read" \in ssl_filter[c] \/ want[c] = "Write"

SslInv == SslTypes /\ FdHeld /\ ShakingMapped /\ MappedShakes /\ Waits /\ Established /\ ~bad_assert

(* No connection has a descriptor yet.                                     *)
LEMMA SslInit == ASSUME Nobody \notin SslConns PROVE Tls!Init => SslInv
<1> SUFFICES ASSUME Tls!Init PROVE SslInv  OBVIOUS
<1>1. SslTypes  BY DEF Tls!Init, SslTypes
<1>2. FdHeld /\ ShakingMapped /\ Waits /\ Established
  BY DEF Tls!Init, FdHeld, ShakingMapped, Waits, Established
<1>3. MappedShakes  BY DEF Tls!Init, MappedShakes
<1>4. ~bad_assert  BY DEF Tls!Init
<1> QED  BY <1>1, <1>2, <1>3, <1>4 DEF SslInv

(* accept(2) returns a descriptor that nobody has, so no handshake is       *)
(* mapped there.                                                            *)
LEMMA SslEstablish ==
    ASSUME Nobody \notin SslConns, SslInv, NEW c \in SslConns, NEW d \in SslFds, NEW l,
           Tls!Establish(c, d, l)
    PROVE  SslInv'
<1>1. shmap[d] = Nobody
  BY DEF SslInv, SslTypes, FdHeld, MappedShakes, Tls!Establish
<1>2. /\ holder' = [holder EXCEPT ![d] = c] /\ ssl_fd' = [ssl_fd EXCEPT ![c] = d]
      /\ shmap' = [shmap EXCEPT ![d] = c] /\ ssl' = ssl \cup {c}
      /\ phase' = [phase EXCEPT ![c] = "queued"] /\ holder[d] = Nobody /\ phase[c] = "new"
      /\ UNCHANGED <<ssl_filter, used, want, bad_assert>>
  BY <1>1 DEF Tls!Establish
<1>3. SslTypes'  BY <1>2 DEF SslInv, SslTypes
<1>4. FdHeld'  BY <1>2 DEF SslInv, SslTypes, FdHeld
<1>5. ShakingMapped'  BY <1>2 DEF SslInv, SslTypes, FdHeld, ShakingMapped
<1>6. MappedShakes'  BY <1>2 DEF SslInv, SslTypes, MappedShakes
<1>7. Waits' /\ Established' /\ ~bad_assert'  BY <1>2 DEF SslInv, SslTypes, Waits, Established
<1> QED  BY <1>3, <1>4, <1>5, <1>6, <1>7 DEF SslInv

(* Whatever SSL_do_handshake() returns to a connection that shakes hands.   *)
LEMMA SslHandshake ==
    ASSUME Nobody \notin SslConns, SslInv, NEW c \in SslConns, NEW ev \in SUBSET {"Read", "Write"},
           phase[c] \in {"queued", "shaking"}, Tls!Handshake(c, ev),
           "Read" \in ev \/ want[c] = "Write"
    PROVE  SslInv'
<1>0. ssl_fd[c] \in SslFds /\ shmap[ssl_fd[c]] = c
  BY DEF SslInv, FdHeld, ShakingMapped
<1>1. CASE Tls!HandshakeDone(c, ev)
  <2>1. /\ phase' = [phase EXCEPT ![c] = "creating"]
        /\ ssl_filter' = [ssl_filter EXCEPT ![c] = ev] /\ used' = [used EXCEPT ![c] = c]
        /\ UNCHANGED <<holder, ssl_fd, shmap, ssl, want, bad_assert>>
    BY <1>0, <1>1 DEF Tls!HandshakeDone, SslInv, SslTypes
  <2>2. SslTypes'  BY <2>1 DEF SslInv, SslTypes
  <2>3. FdHeld' /\ Waits' /\ ~bad_assert'  BY <2>1 DEF SslInv, SslTypes, FdHeld, Waits
  <2>4. ShakingMapped'  BY <1>0, <2>1 DEF SslInv, SslTypes, FdHeld, ShakingMapped
  <2>5. MappedShakes'  BY <1>0, <2>1 DEF SslInv, SslTypes, MappedShakes
  <2>6. Established'  BY <2>1 DEF SslInv, SslTypes, ShakingMapped, Established
  <2> QED  BY <2>2, <2>3, <2>4, <2>5, <2>6 DEF SslInv
<1>2. ASSUME NEW event \in {"Read", "Write"}, Tls!HandshakeWants(c, event) PROVE SslInv'
  <2>1. /\ phase' = [phase EXCEPT ![c] = "shaking"]
        /\ ssl_filter' = [ssl_filter EXCEPT ![c] = {event}] /\ want' = [want EXCEPT ![c] = event]
        /\ UNCHANGED <<holder, ssl_fd, shmap, ssl, used, bad_assert>>
    BY <1>2 DEF Tls!HandshakeWants
  <2> QED
    BY <2>1 DEF SslInv, SslTypes, FdHeld, ShakingMapped, MappedShakes, Waits, Established
<1>3. CASE Tls!HandshakeFails(c)
  <2>1. /\ phase' = [phase EXCEPT ![c] = "failing"] /\ ssl_filter' = [ssl_filter EXCEPT ![c] = {}]
        /\ ssl' = ssl \ {c}
        /\ UNCHANGED <<holder, ssl_fd, shmap, used, want, bad_assert>>
    BY <1>3 DEF Tls!HandshakeFails
  <2>2. SslTypes'  BY <2>1 DEF SslInv, SslTypes
  <2>3. FdHeld' /\ Waits' /\ Established' /\ ~bad_assert'
    BY <2>1 DEF SslInv, SslTypes, FdHeld, Waits, Established
  <2>4. ShakingMapped'  BY <1>0, <2>1 DEF SslInv, SslTypes, FdHeld, ShakingMapped
  <2>5. MappedShakes'  BY <1>0, <2>1 DEF SslInv, SslTypes, MappedShakes
  <2> QED  BY <2>2, <2>3, <2>4, <2>5 DEF SslInv
<1> QED  BY <1>1, <1>2, <1>3 DEF Tls!Handshake

(* Every step of the ssl_server keeps handshakes and descriptors together.  *)
LEMMA SslNext == ASSUME Nobody \notin SslConns PROVE SslInv /\ [Tls!Next]_Tls!ssl_vars => SslInv'
<1> SUFFICES ASSUME SslInv, [Tls!Next]_Tls!ssl_vars PROVE SslInv'  OBVIOUS
<1>1. ASSUME NEW c \in SslConns, Tls!StartHandshake(c) PROVE SslInv'
  BY <1>1, SslHandshake DEF Tls!StartHandshake
<1>2. ASSUME NEW c \in SslConns, Tls!HandshakeEvent(c) PROVE SslInv'
  <2>1. ssl_filter[c] \in SUBSET {"Read", "Write"} /\ phase[c] = "shaking"
        /\ ("Read" \in ssl_filter[c] \/ want[c] = "Write")
    BY <1>2 DEF Tls!HandshakeEvent, SslInv, SslTypes, Waits
  <2> QED  BY <1>2, <2>1, SslHandshake DEF Tls!HandshakeEvent
<1>3. ASSUME NEW c \in SslConns, Tls!ConnectionEnds(c) PROVE SslInv'
  <2>1. /\ phase[c] = "established" /\ phase' = [phase EXCEPT ![c] = "closing"]
        /\ ssl_filter' = [ssl_filter EXCEPT ![c] = {}] /\ ssl' = ssl \ {c}
        /\ UNCHANGED <<holder, ssl_fd, shmap, used, want, bad_assert>>
    BY <1>3 DEF Tls!ConnectionEnds
  <2> QED
    BY <2>1 DEF SslInv, SslTypes, FdHeld, ShakingMapped, MappedShakes, Waits, Established
<1>4. ASSUME NEW c \in SslConns, Tls!DisableWrite(c) PROVE SslInv'
  <2>1. /\ phase[c] = "established" /\ ssl_filter' = [ssl_filter EXCEPT ![c] = @ \ {"Write"}]
        /\ UNCHANGED <<holder, ssl_fd, phase, shmap, ssl, used, want, bad_assert>>
    BY <1>4 DEF Tls!DisableWrite
  <2> QED
    BY <2>1 DEF SslInv, SslTypes, FdHeld, ShakingMapped, MappedShakes, Waits, Established
<1>5. ASSUME NEW c \in SslConns, Tls!CloseFd(c) PROVE SslInv'
  <2>1. /\ phase[c] = "closing" /\ phase' = [phase EXCEPT ![c] = "closed"]
        /\ holder' = [holder EXCEPT ![ssl_fd[c]] = Nobody] /\ ssl_fd[c] \in SslFds
        /\ holder[ssl_fd[c]] = c
        /\ UNCHANGED <<ssl_fd, ssl_filter, shmap, ssl, used, want, bad_assert>>
    BY <1>5 DEF Tls!CloseFd, SslInv, FdHeld
  <2>2. FdHeld'  BY <2>1 DEF SslInv, SslTypes, FdHeld
  <2> QED
    BY <2>1, <2>2 DEF SslInv, SslTypes, ShakingMapped, MappedShakes, Waits, Established
<1>6. ASSUME NEW c \in SslConns, Tls!EraseHandshake(c) PROVE SslInv'
  <2>1. /\ phase[c] = "creating" /\ phase' = [phase EXCEPT ![c] = "inserting"]
        /\ shmap' = [shmap EXCEPT ![ssl_fd[c]] = Nobody]
        /\ UNCHANGED <<holder, ssl_fd, ssl_filter, ssl, used, want, bad_assert>>
    BY <1>6 DEF Tls!EraseHandshake
  <2>2. FdHeld' /\ Waits' /\ Established' /\ ~bad_assert' /\ SslTypes'
    BY <2>1 DEF SslInv, SslTypes, FdHeld, Waits, Established
  <2>3. ssl_fd[c] \in SslFds /\ shmap[ssl_fd[c]] = c  BY <2>1 DEF SslInv, FdHeld, ShakingMapped
  <2>4. ShakingMapped'  BY <2>1, <2>3 DEF SslInv, SslTypes, FdHeld, ShakingMapped
  <2>5. MappedShakes'  BY <2>1, <2>3 DEF SslInv, SslTypes, MappedShakes
  <2> QED  BY <2>2, <2>4, <2>5 DEF SslInv
<1>7. ASSUME NEW c \in SslConns, Tls!OnFail(c) PROVE SslInv'
  <2>1. /\ phase[c] = "failing" /\ phase' = [phase EXCEPT ![c] = "closing"]
        /\ shmap' = [shmap EXCEPT ![ssl_fd[c]] = Nobody]
        /\ UNCHANGED <<holder, ssl_fd, ssl_filter, ssl, used, want, bad_assert>>
    BY <1>7 DEF Tls!OnFail
  <2>2. FdHeld' /\ Waits' /\ Established' /\ ~bad_assert' /\ SslTypes'
    BY <2>1 DEF SslInv, SslTypes, FdHeld, Waits, Established
  <2>3. ssl_fd[c] \in SslFds /\ shmap[ssl_fd[c]] = c  BY <2>1 DEF SslInv, FdHeld, ShakingMapped
  <2>4. ShakingMapped'  BY <2>1, <2>3 DEF SslInv, SslTypes, FdHeld, ShakingMapped
  <2>5. MappedShakes'  BY <2>1, <2>3 DEF SslInv, SslTypes, MappedShakes
  <2> QED  BY <2>2, <2>4, <2>5 DEF SslInv
<1>8. ASSUME NEW c \in SslConns, Tls!Insert(c) PROVE SslInv'
  <2>1. /\ phase[c] = "inserting" /\ phase' = [phase EXCEPT ![c] = "established"]
        /\ UNCHANGED <<holder, ssl_fd, ssl_filter, shmap, ssl, used, want, bad_assert>>
    BY <1>8 DEF Tls!Insert
  <2> QED
    BY <2>1 DEF SslInv, SslTypes, FdHeld, ShakingMapped, MappedShakes, Waits, Established
<1>9. ASSUME NEW c \in SslConns, Tls!RemoveConnection(c) PROVE SslInv'
  <2>1. UNCHANGED <<holder, ssl_fd, phase, ssl_filter, shmap, ssl, used, want, bad_assert>>
    BY <1>9 DEF Tls!RemoveConnection
  <2> QED
    BY <2>1 DEF SslInv, SslTypes, FdHeld, ShakingMapped, MappedShakes, Waits, Established
<1>10. CASE UNCHANGED Tls!ssl_vars
  BY <1>10 DEF Tls!ssl_vars, SslInv, SslTypes, FdHeld, ShakingMapped, MappedShakes, Waits, Established
<1> QED
  BY <1>1, <1>2, <1>3, <1>4, <1>5, <1>6, <1>7, <1>8, <1>9, <1>10, SslEstablish DEF Tls!Next

(* For any number of connections and descriptors, a TLS connection is       *)
(* created with its own handshake, although descriptors are reused while    *)
(* other handshakes fail or wait (ssl_server.cc, ssl_handshake.cc).         *)
THEOREM HandshakesAreOwn == Tls!Spec => []OwnHandshake
<1>0. Nobody \notin SslConns  BY ConnPartsAssumption
<1>1. SslInv => OwnHandshake
  BY DEF SslInv, SslTypes, FdHeld, ShakingMapped, MappedShakes, Established, OwnHandshake, Tls!OwnHandshake
<1> QED  BY <1>0, SslInit, SslNext, <1>1, PTL DEF Tls!Spec

-----------------------------------------------------------------------------
(* Two sequences with the same elements are one.                           *)
LEMMA SeqsEqual ==
    ASSUME NEW S, NEW s \in Seq(S), NEW t \in Seq(S), Len(s) = Len(t),
           \A k \in 1..Len(s) : s[k] = t[k]
    PROVE  s = t
OBVIOUS

(* SubSeq within a sequence, by position.                                  *)
LEMMA SubSeqAt ==
    ASSUME NEW S, NEW s \in Seq(S), NEW m \in Nat, NEW n \in Nat, m <= n, n <= Len(s)
    PROVE  /\ SubSeq(s, m + 1, n) \in Seq(S) /\ Len(SubSeq(s, m + 1, n)) = n - m
           /\ \A k \in 1..(n - m) : SubSeq(s, m + 1, n)[k] = s[m + k]
OBVIOUS

(* Concatenation, by position.                                             *)
Joined(S, u, s, t) ==
    /\ u \in Seq(S) /\ Len(s) \in Nat /\ Len(t) \in Nat /\ Len(u) = Len(s) + Len(t)
    /\ \A k \in 1..Len(s) : u[k] = s[k]
    /\ \A k \in 1..Len(t) : u[Len(s) + k] = t[k]

(* s \o t has the elements of s and then those of t.                       *)
LEMMA ConcatAt == ASSUME NEW S, NEW s \in Seq(S), NEW t \in Seq(S) PROVE Joined(S, s \o t, s, t)
BY DEF Joined

(* A function on 1..n is a sequence.                                       *)
LEMMA SeqOfFunction ==
    ASSUME NEW S, NEW n \in Nat, NEW f \in [1..n -> S] PROVE f \in Seq(S) /\ Len(f) = n
OBVIOUS

(* The bytes of v from r to w, by position.                                *)
Slice(S, c, v, r, w) ==
    c \in Seq(S) /\ Len(c) = w - r /\ \A k \in 1..(w - r) : c[k] = v[r + k]

(* SubSeq takes a slice.                                                   *)
LEMMA SubSeqSlice ==
    ASSUME NEW S, NEW v \in Seq(S), NEW r \in Nat, NEW w \in Nat, r <= w, w <= Len(v)
    PROVE  Slice(S, SubSeq(v, r + 1, w), v, r, w)
BY SubSeqAt DEF Slice

(* All of a sequence; two parts of it.                                     *)
LEMMA SubSeqAll == ASSUME NEW S, NEW s \in Seq(S) PROVE SubSeq(s, 1, Len(s)) = s
<1>1. 0 \in Nat /\ 0 <= Len(s) /\ Len(s) <= Len(s) /\ 0 + 1 = 1 /\ Len(s) \in Nat /\ Len(s) - 0 = Len(s)
      /\ \A k \in 1..Len(s) : 0 + k = k
  OBVIOUS
<1>2. /\ SubSeq(s, 1, Len(s)) \in Seq(S) /\ Len(SubSeq(s, 1, Len(s))) = Len(s)
      /\ \A k \in 1..Len(s) : SubSeq(s, 1, Len(s))[k] = s[k]
  BY <1>1, SubSeqAt
<1> QED  BY <1>2, SeqsEqual

(* What was read in two parts, appended one after the other.               *)
LEMMA ConcatParts ==
    ASSUME NEW S, NEW c \in Seq(S), NEW s \in Seq(S), NEW m \in Nat, m <= Len(s)
    PROVE  (c \o SubSeq(s, 1, m)) \o SubSeq(s, m + 1, Len(s)) = c \o s
<1> DEFINE a == SubSeq(s, 1, m)
           z == SubSeq(s, m + 1, Len(s))
           ca == c \o a
<1>0. PICK l \in Nat, n \in Nat : l = Len(c) /\ n = Len(s)  OBVIOUS
<1>1. a \in Seq(S) /\ Len(a) = m /\ \A k \in 1..m : a[k] = s[k]
  <2>1. 0 \in Nat /\ 0 <= m /\ 0 + 1 = 1 /\ m - 0 = m /\ \A k \in 1..m : 0 + k = k  OBVIOUS
  <2> QED  BY <2>1, SubSeqAt
<1>2. z \in Seq(S) /\ Len(z) = n - m /\ \A k \in 1..(n - m) : z[k] = s[m + k]
  <2>1. n <= Len(s)  BY <1>0
  <2> QED  BY <1>0, <2>1, SubSeqAt
<1> HIDE DEF a, z
<1>3. Joined(S, ca, c, a)  BY <1>1, ConcatAt
<1> HIDE DEF ca
<1>4. /\ ca \in Seq(S) /\ Len(ca) = l + m /\ \A k \in 1..l : ca[k] = c[k]
      /\ \A k \in 1..m : ca[l + k] = s[k]
  BY <1>0, <1>1, <1>3 DEF Joined
<1>5. /\ ca \o z \in Seq(S) /\ Len(ca \o z) = l + n
      /\ \A k \in 1..(l + m) : (ca \o z)[k] = ca[k]
      /\ \A k \in 1..(n - m) : (ca \o z)[(l + m) + k] = s[m + k]
  <2>1. Joined(S, ca \o z, ca, z)  BY <1>2, <1>4, ConcatAt
  <2>2. Len(ca) = l + m /\ Len(z) = n - m /\ (l + m) + (n - m) = l + n  BY <1>0, <1>2, <1>4
  <2> QED  BY <1>2, <2>1, <2>2 DEF Joined
<1>6. /\ c \o s \in Seq(S) /\ Len(c \o s) = l + n
      /\ \A k \in 1..l : (c \o s)[k] = c[k]
      /\ \A k \in 1..n : (c \o s)[l + k] = s[k]
  <2>1. Joined(S, c \o s, c, s)  BY ConcatAt
  <2> QED  BY <1>0, <2>1 DEF Joined
<1>7. ASSUME NEW k \in 1..(l + n) PROVE (ca \o z)[k] = (c \o s)[k]
  <2>0. m <= n  BY <1>0
  <2>1. CASE k <= l
    <3>1. k \in 1..l /\ k \in 1..(l + m)  BY <2>1
    <3> QED  BY <1>4, <1>5, <1>6, <3>1
  <2>2. CASE l < k /\ k <= l + m
    <3>1. PICK j \in 1..m : j = k - l  BY <2>2
    <3>2. l + j = k /\ j \in 1..n /\ k \in 1..(l + m)  BY <2>0, <2>2, <3>1
    <3>3. (ca \o z)[k] = s[j]  BY <1>4, <1>5, <3>1, <3>2
    <3>4. (c \o s)[k] = s[j]  BY <1>6, <3>2
    <3> QED  BY <3>3, <3>4
  <2>3. CASE l + m < k
    <3>1. PICK j \in 1..(n - m) : j = k - (l + m)  BY <2>0, <2>3
    <3>2. (l + m) + j = k /\ l + (m + j) = k /\ m + j \in 1..n  BY <2>0, <2>3, <3>1
    <3>3. (ca \o z)[k] = s[m + j]  BY <1>5, <3>1, <3>2
    <3>4. (c \o s)[k] = s[m + j]  BY <1>6, <3>2
    <3> QED  BY <3>3, <3>4
  <2>4. k <= l \/ (l < k /\ k <= l + m) \/ l + m < k  OBVIOUS
  <2> QED  BY <2>1, <2>2, <2>3, <2>4
<1>8. ca \o z = c \o s  BY <1>5, <1>6, <1>7, SeqsEqual
<1> QED  BY <1>8 DEF ca, a, z

(* class buffer: the indices stay in order within the vector.              *)
ValidBuffers == [buf: Seq(Nat), read_index: Nat, write_index: Nat]
Indexed(x) ==
    /\ x \in ValidBuffers /\ x.read_index <= x.write_index /\ x.write_index <= Len(x.buf)
BuffersOk == buffers \in [1..2 -> ValidBuffers] /\ \A b \in 1..2 : Indexed(buffers[b])
BufferConstants == BufferData \subseteq Seq(Nat) /\ init_size \in Nat /\ MaxReadable \in Nat

Vec(v, r, w) == [buf |-> v, read_index |-> r, write_index |-> w]

(* A buffer by its vector and indices.                                     *)
LEMMA VecOf ==
    ASSUME NEW x, Indexed(x)
    PROVE  \E v \in Seq(Nat), r \in Nat, w \in Nat : x = Vec(v, r, w) /\ r <= w /\ w <= Len(v)
<1>1. x = Vec(x.buf, x.read_index, x.write_index)  BY DEF Indexed, ValidBuffers, Vec
<1>2. x.buf \in Seq(Nat) /\ x.read_index \in Nat /\ x.write_index \in Nat
      /\ x.read_index <= x.write_index /\ x.write_index <= Len(x.buf)
  BY DEF Indexed, ValidBuffers
<1> QED  BY <1>1, <1>2

(* The readable bytes, by position.                                        *)
LEMMA ContentAt ==
    ASSUME NEW v \in Seq(Nat), NEW r \in Nat, NEW w \in Nat, r <= w, w <= Len(v)
    PROVE  /\ Indexed(Vec(v, r, w))
           /\ Buf!readable(Vec(v, r, w)) = w - r /\ w - r \in Nat
           /\ Buf!writeable(Vec(v, r, w)) = Len(v) - w /\ Len(v) - w \in Nat
           /\ Slice(Nat, Buf!content(Vec(v, r, w)), v, r, w)
<1>1. Len(v) \in Nat  OBVIOUS
<1>2. Slice(Nat, SubSeq(v, r + 1, w), v, r, w)  BY SubSeqSlice
<1>3. Buf!content(Vec(v, r, w)) = SubSeq(v, r + 1, w)  BY DEF Buf!content, Vec
<1>4. Indexed(Vec(v, r, w))  BY DEF Indexed, ValidBuffers, Vec
<1>5. Buf!readable(Vec(v, r, w)) = w - r /\ Buf!writeable(Vec(v, r, w)) = Len(v) - w
  BY DEF Buf!readable, Buf!writeable, Vec
<1>6. w - r \in Nat /\ Len(v) - w \in Nat  BY <1>1
<1> QED  BY <1>2, <1>3, <1>4, <1>5, <1>6

(* std::copy() into the vector, by position.                               *)
LEMMA OverwriteAt ==
    ASSUME NEW v \in Seq(Nat), NEW i \in Nat, NEW s \in Seq(Nat), i + Len(s) <= Len(v)
    PROVE  /\ Buf!Overwrite(v, i, s) \in Seq(Nat) /\ Len(Buf!Overwrite(v, i, s)) = Len(v)
           /\ \A k \in 1..i : Buf!Overwrite(v, i, s)[k] = v[k]
           /\ \A k \in 1..Len(s) : Buf!Overwrite(v, i, s)[i + k] = s[k]
<1> DEFINE o == Buf!Overwrite(v, i, s)
<1>0. PICK n \in Nat, m \in Nat : n = Len(v) /\ m = Len(s)  OBVIOUS
<1>1. o = [k \in 1..n |-> IF k > i /\ k <= i + m THEN s[k - i] ELSE v[k]]
  BY <1>0 DEF Buf!Overwrite
<1>2. \A k \in 1..n : o[k] \in Nat
  <2> TAKE k \in 1..n
  <2>1. k > i /\ k <= i + m => k - i \in 1..m  BY <1>0
  <2>2. \A j \in 1..m : s[j] \in Nat  BY <1>0
  <2>3. v[k] \in Nat  BY <1>0
  <2> HIDE DEF o
  <2> QED  BY <1>1, <2>1, <2>2, <2>3
<1> HIDE DEF o
<1>3. o \in [1..n -> Nat]  BY <1>1, <1>2
<1>4. o \in Seq(Nat) /\ Len(o) = n  BY <1>3, SeqOfFunction
<1>5. \A k \in 1..i : k \in 1..n /\ ~(k > i)  BY <1>0
<1>6. \A k \in 1..m : i + k \in 1..n /\ i + k > i /\ i + k <= i + m /\ (i + k) - i = k
  BY <1>0
<1>7. \A k \in 1..i : o[k] = v[k]  BY <1>1, <1>5
<1>8. \A k \in 1..m : o[i + k] = s[k]  BY <1>1, <1>6
<1> QED  BY <1>0, <1>4, <1>7, <1>8 DEF o

(* Bytes written behind the readable ones, of which the first n are made   *)
(* readable.                                                               *)
Behind(v, r, w, s, n) ==
    /\ Indexed(Vec(Buf!Overwrite(v, w, s), r, w + n))
    /\ Buf!content(Vec(Buf!Overwrite(v, w, s), r, w + n))
          = Buf!content(Vec(v, r, w)) \o SubSeq(s, 1, n)

(* They are appended to what is read.                                      *)
LEMMA WriteBehind ==
    ASSUME NEW v \in Seq(Nat), NEW r \in Nat, NEW w \in Nat, r <= w,
           NEW s \in Seq(Nat), w + Len(s) <= Len(v), NEW n \in Nat, n <= Len(s)
    PROVE  Behind(v, r, w, s, n)
<1> DEFINE o == Buf!Overwrite(v, w, s)
           t == SubSeq(s, 1, n)
           cx == Buf!content(Vec(v, r, w))
           cy == Buf!content(Vec(o, r, w + n))
<1>1. Len(s) \in Nat /\ Len(v) \in Nat /\ w <= Len(v) /\ w + n \in Nat /\ r <= w + n
      /\ w + n <= Len(v)
  OBVIOUS
<1>2. /\ o \in Seq(Nat) /\ Len(o) = Len(v) /\ \A k \in 1..w : o[k] = v[k]
      /\ \A k \in 1..Len(s) : o[w + k] = s[k]
  BY OverwriteAt
<1>3. t \in Seq(Nat) /\ Len(t) = n /\ \A k \in 1..n : t[k] = s[k]
  <2>1. 0 \in Nat /\ 0 <= n /\ 0 + 1 = 1 /\ n - 0 = n /\ \A k \in 1..n : 0 + k = k  OBVIOUS
  <2>2. n <= Len(s)  OBVIOUS
  <2>3. /\ SubSeq(s, 0 + 1, n) \in Seq(Nat) /\ Len(SubSeq(s, 0 + 1, n)) = n - 0
        /\ \A k \in 1..(n - 0) : SubSeq(s, 0 + 1, n)[k] = s[0 + k]
    BY <2>1, <2>2, SubSeqAt
  <2> QED  BY <2>1, <2>3
<1> HIDE DEF o, t
<1>a. Slice(Nat, cx, v, r, w)  BY <1>1, ContentAt
<1>b. Slice(Nat, cy, o, r, w + n) /\ Indexed(Vec(o, r, w + n))  BY <1>1, <1>2, ContentAt
<1> HIDE DEF cx, cy
<1>4. /\ cx \in Seq(Nat) /\ Len(cx) = w - r /\ \A k \in 1..(w - r) : cx[k] = v[r + k]
  BY <1>a DEF Slice
<1>5. /\ cy \in Seq(Nat) /\ Len(cy) = (w + n) - r
      /\ \A k \in 1..((w + n) - r) : cy[k] = o[r + k]
  BY <1>b DEF Slice
<1>6. PICK d \in Nat : d = w - r  OBVIOUS
<1>7. /\ cx \o t \in Seq(Nat) /\ Len(cx \o t) = d + n
      /\ \A k \in 1..d : (cx \o t)[k] = cx[k]
      /\ \A k \in 1..n : (cx \o t)[d + k] = t[k]
  <2>1. Len(cx) = d  BY <1>4, <1>6
  <2>2. cx \in Seq(Nat) /\ t \in Seq(Nat) /\ Len(t) = n  BY <1>3, <1>4
  <2>3. Joined(Nat, cx \o t, cx, t)  BY <2>2, ConcatAt
  <2> QED  BY <2>1, <2>2, <2>3 DEF Joined
<1>8. (w + n) - r = d + n  BY <1>6
<1>9. ASSUME NEW k \in 1..(d + n) PROVE cy[k] = (cx \o t)[k]
  <2>1. cy[k] = o[r + k]  BY <1>5, <1>8
  <2>2. CASE k <= d
    <3>1. k \in 1..d /\ r + k \in 1..w /\ k \in 1..(w - r)  BY <1>6, <2>2
    <3>2. (cx \o t)[k] = v[r + k]  BY <1>4, <1>7, <3>1
    <3> QED  BY <1>2, <2>1, <3>1, <3>2
  <2>3. CASE k > d
    <3>1. PICK j \in 1..n : j = k - d  BY <2>3
    <3>2. r + k = w + j /\ d + j = k /\ j \in 1..Len(s)  BY <1>1, <1>6, <3>1
    <3>3. (cx \o t)[k] = s[j]  BY <1>3, <1>7, <3>1, <3>2
    <3> QED  BY <1>2, <2>1, <3>2, <3>3
  <2>4. k <= d \/ k > d  BY <1>6
  <2> QED  BY <2>2, <2>3, <2>4
<1>10. cy = cx \o t  BY <1>5, <1>7, <1>8, <1>9, SeqsEqual
<1> QED  BY <1>b, <1>10 DEF Behind, cx, cy, t, o

(* make_space() keeps the readable bytes, whether it moves them to the     *)
(* front or lets the vector grow.                                          *)
LEMMA MakeSpaceKeeps ==
    ASSUME NEW x, Indexed(x), NEW len \in Nat
    PROVE  \E v \in Seq(Nat), r \in Nat, w \in Nat :
              /\ Buf!make_space(x, len) = Vec(v, r, w) /\ r <= w /\ w + len <= Len(v)
              /\ Buf!content(Vec(v, r, w)) = Buf!content(x)
<1> DEFINE y == Buf!make_space(x, len)
           cx == Buf!content(x)
<1>1. PICK v \in Seq(Nat), r \in Nat, w \in Nat : x = Vec(v, r, w) /\ r <= w /\ w <= Len(v)
  BY VecOf
<1>2. x.buf = v /\ x.read_index = r /\ x.write_index = w  BY <1>1 DEF Vec
<1>3. /\ cx \in Seq(Nat) /\ Len(cx) = w - r /\ \A k \in 1..(w - r) : cx[k] = v[r + k]
      /\ Buf!readable(x) = w - r /\ Buf!writeable(x) = Len(v) - w /\ Len(v) \in Nat
      /\ w - r \in Nat
  <2>1. Slice(Nat, cx, v, r, w) /\ Buf!readable(x) = w - r /\ Buf!writeable(x) = Len(v) - w
        /\ w - r \in Nat
    BY <1>1, ContentAt
  <2> HIDE DEF cx
  <2> QED  BY <2>1 DEF Slice
<1>4. CASE len <= Buf!writeable(x)
  <2>1. y = x  BY <1>4 DEF Buf!make_space
  <2>2. w + len <= Len(v)  BY <1>3, <1>4
  <2> QED  BY <1>1, <2>1, <2>2
<1>5. CASE ~(len <= Buf!writeable(x)) /\ len <= Buf!writeable(x) + r
  <2> DEFINE o == Buf!Overwrite(v, 0, cx)
             d == w - r
  <2>1. y = Vec(o, 0, d)
    BY <1>2, <1>3, <1>5 DEF Buf!make_space, Vec
  <2> HIDE DEF cx
  <2>2. 0 \in Nat /\ 0 + Len(cx) <= Len(v)  BY <1>1, <1>3
  <2>3. /\ o \in Seq(Nat) /\ Len(o) = Len(v)
        /\ \A k \in 1..Len(cx) : o[0 + k] = cx[k]
    BY <1>3, <2>2, OverwriteAt
  <2>4. d \in Nat /\ 0 <= d /\ d <= Len(v) /\ d - 0 = d /\ d + len <= Len(v)
    BY <1>1, <1>3, <1>5
  <2> HIDE DEF o, d
  <2>5. /\ Buf!content(Vec(o, 0, d)) \in Seq(Nat) /\ Len(Buf!content(Vec(o, 0, d))) = d
        /\ \A k \in 1..d : Buf!content(Vec(o, 0, d))[k] = o[0 + k]
    <3>1. Slice(Nat, Buf!content(Vec(o, 0, d)), o, 0, d)  BY <2>2, <2>3, <2>4, ContentAt
    <3> QED  BY <2>4, <3>1 DEF Slice
  <2>6. Len(cx) = d  BY <1>3 DEF d
  <2>7. Buf!content(Vec(o, 0, d)) = cx  BY <1>3, <2>3, <2>5, <2>6, SeqsEqual
  <2> QED  BY <2>1, <2>2, <2>3, <2>4, <2>7 DEF cx
<1>6. CASE ~(len <= Buf!writeable(x)) /\ ~(len <= Buf!writeable(x) + r)
  <2> DEFINE n == len - Buf!writeable(x)
             z == Buf!Zeros(n)
             u == v \o z
  <2>1. n \in Nat /\ n = len - (Len(v) - w)  BY <1>1, <1>3, <1>6
  <2>2. z \in Seq(Nat) /\ Len(z) = n
    <3> HIDE DEF n
    <3>1. z \in [1..n -> Nat]  BY <2>1 DEF Buf!Zeros
    <3> HIDE DEF z
    <3> QED  BY <2>1, <3>1, SeqOfFunction
  <2>3. y = Vec(u, r, w)  BY <1>1, <1>2, <1>6 DEF Buf!make_space, Vec
  <2> HIDE DEF z, n, cx
  <2>4. /\ u \in Seq(Nat) /\ Len(u) = Len(v) + n /\ \A k \in 1..Len(v) : u[k] = v[k]
    <3>1. Joined(Nat, u, v, z)  BY <2>2, ConcatAt
    <3> HIDE DEF u
    <3> QED  BY <2>2, <3>1 DEF Joined
  <2> HIDE DEF u
  <2>5. w <= Len(u) /\ w + len <= Len(u)  BY <1>1, <1>3, <2>1, <2>4
  <2>6. /\ Buf!content(Vec(u, r, w)) \in Seq(Nat) /\ Len(Buf!content(Vec(u, r, w))) = w - r
        /\ \A k \in 1..(w - r) : Buf!content(Vec(u, r, w))[k] = u[r + k]
    <3>0. u \in Seq(Nat) /\ r \in Nat /\ w \in Nat /\ r <= w /\ w <= Len(u)  BY <1>1, <2>4, <2>5
    <3>1. Slice(Nat, Buf!content(Vec(u, r, w)), u, r, w)  BY <3>0, ContentAt
    <3> QED  BY <3>1 DEF Slice
  <2>7. \A k \in 1..(w - r) : r + k \in 1..Len(v)  BY <1>1, <1>3
  <2>8. \A k \in 1..(w - r) : Buf!content(Vec(u, r, w))[k] = cx[k]
    BY <1>3, <2>4, <2>6, <2>7
  <2>9. Buf!content(Vec(u, r, w)) = cx  BY <1>3, <2>6, <2>8, SeqsEqual
  <2> QED  BY <1>1, <2>3, <2>4, <2>5, <2>9 DEF cx
<1> QED  BY <1>4, <1>5, <1>6

(* append() puts the bytes behind the readable ones.                       *)
LEMMA AppendKeeps ==
    ASSUME NEW x, Indexed(x), NEW s \in Seq(Nat)
    PROVE  Indexed(Buf!append(x, s)) /\ Buf!content(Buf!append(x, s)) = Buf!content(x) \o s
<1>0. Len(s) \in Nat /\ Len(s) <= Len(s)  OBVIOUS
<1>1. PICK v \in Seq(Nat), r \in Nat, w \in Nat :
         /\ Buf!make_space(x, Len(s)) = Vec(v, r, w) /\ r <= w /\ w + Len(s) <= Len(v)
         /\ Buf!content(Vec(v, r, w)) = Buf!content(x)
  BY <1>0, MakeSpaceKeeps
<1>2. Buf!append(x, s) = Vec(Buf!Overwrite(v, w, s), r, w + Len(s))
  <2> DEFINE y == Buf!make_space(x, Len(s))
  <2>1. Buf!append(x, s) = [y EXCEPT !.buf = Buf!Overwrite(@, y.write_index, s), !.write_index = @ + Len(s)]
    BY DEF Buf!append
  <2>2. y = [buf |-> v, read_index |-> r, write_index |-> w]  BY <1>1 DEF Vec
  <2> HIDE DEF y
  <2> QED  BY <2>1, <2>2 DEF Vec
<1>3. /\ Indexed(Vec(Buf!Overwrite(v, w, s), r, w + Len(s)))
      /\ Buf!content(Vec(Buf!Overwrite(v, w, s), r, w + Len(s)))
            = Buf!content(Vec(v, r, w)) \o SubSeq(s, 1, Len(s))
  <2>1. Behind(v, r, w, s, Len(s))  BY <1>0, <1>1, WriteBehind
  <2> QED  BY <2>1 DEF Behind
<1>4. SubSeq(s, 1, Len(s)) = s  BY SubSeqAll
<1> QED  BY <1>1, <1>2, <1>3, <1>4

(* read_fd() does so with what readv() put in the vector and in extrabuf.  *)
LEMMA ReadFdKeeps ==
    ASSUME NEW x, Indexed(x), NEW s \in Seq(Nat)
    PROVE  Indexed(Buf!read_fd(x, s)) /\ Buf!content(Buf!read_fd(x, s)) = Buf!content(x) \o s
<1>0. Len(s) \in Nat /\ Len(s) <= Len(s)  OBVIOUS
<1>1. PICK v \in Seq(Nat), r \in Nat, w \in Nat : x = Vec(v, r, w) /\ r <= w /\ w <= Len(v)
  BY VecOf
<1>2. x.buf = v /\ x.read_index = r /\ x.write_index = w  BY <1>1 DEF Vec
<1>3. PICK f \in Nat : f = Buf!writeable(x) /\ f = Len(v) - w  BY <1>1, ContentAt
<1>4. Len(v) \in Nat /\ w + f = Len(v)  BY <1>3
<1>5. CASE Len(s) <= f
  <2>1. Buf!read_fd(x, s) = Vec(Buf!Overwrite(v, w, s), r, w + Len(s))
    BY <1>1, <1>2, <1>3, <1>5 DEF Buf!read_fd, Vec
  <2>2. w + Len(s) <= Len(v)  BY <1>0, <1>4, <1>5
  <2>3. /\ Indexed(Vec(Buf!Overwrite(v, w, s), r, w + Len(s)))
        /\ Buf!content(Vec(Buf!Overwrite(v, w, s), r, w + Len(s)))
              = Buf!content(Vec(v, r, w)) \o SubSeq(s, 1, Len(s))
    <3>1. r <= w /\ v \in Seq(Nat) /\ r \in Nat /\ w \in Nat  BY <1>1
    <3>2. Behind(v, r, w, s, Len(s))  BY <1>0, <2>2, <3>1, WriteBehind
    <3> QED  BY <3>2 DEF Behind
  <2> QED  BY <1>1, <2>1, <2>3, SubSeqAll
<1>6. CASE ~(Len(s) <= f)
  <2> DEFINE a == SubSeq(s, 1, f)
             z == SubSeq(s, f + 1, Len(s))
             y == Vec(Buf!Overwrite(v, w, a), r, w + f)
  <2>1. Buf!read_fd(x, s) = Buf!append(y, z)
    <3> DEFINE x1 == [x EXCEPT !.buf = Buf!Overwrite(@, x.write_index, SubSeq(s, 1, Buf!writeable(x))),
                              !.write_index = Len(x.buf)]
    <3>1. Buf!read_fd(x, s) = Buf!append(x1, SubSeq(s, Buf!writeable(x) + 1, Len(s)))
      BY <1>3, <1>6 DEF Buf!read_fd
    <3>2. x1 = y
      <4>1. x = [buf |-> v, read_index |-> r, write_index |-> w]  BY <1>1 DEF Vec
      <4>2. x1 = [x EXCEPT !.buf = Buf!Overwrite(v, w, a), !.write_index = w + f]
        BY <1>2, <1>3, <1>4, <4>1
      <4> HIDE DEF x1, a
      <4> QED  BY <4>1, <4>2 DEF Vec
    <3> HIDE DEF x1, y
    <3> QED  BY <1>3, <3>1, <3>2
  <2>2. f <= Len(s) /\ 0 \in Nat /\ 0 <= f /\ 0 + 1 = 1 /\ f - 0 = f  BY <1>0, <1>6
  <2>3. a \in Seq(Nat) /\ Len(a) = f  BY <2>2, SubSeqAt
  <2>4. z \in Seq(Nat)  BY <1>0, <2>2, SubSeqAt
  <2>5. f <= Len(a) /\ w + Len(a) <= Len(v)  BY <1>4, <2>3
  <2> HIDE DEF a, z
  <2>6. Indexed(y) /\ Buf!content(y) = Buf!content(Vec(v, r, w)) \o SubSeq(a, 1, f)
    <3>1. r <= w /\ v \in Seq(Nat) /\ r \in Nat /\ w \in Nat  BY <1>1
    <3>2. Behind(v, r, w, a, f)  BY <2>3, <2>5, <3>1, WriteBehind
    <3> QED  BY <3>2 DEF Behind
  <2>7. SubSeq(a, 1, f) = a  BY <2>3, SubSeqAll
  <2> HIDE DEF y
  <2>8. /\ Indexed(Buf!append(y, z))
        /\ Buf!content(Buf!append(y, z)) = Buf!content(y) \o z
    BY <2>4, <2>6, AppendKeeps
  <2>9. Buf!content(x) \in Seq(Nat)  BY <1>1, ContentAt DEF Slice
  <2>10. (Buf!content(x) \o a) \o z = Buf!content(x) \o s
    BY <2>2, <2>9, ConcatParts DEF a, z
  <2> QED  BY <1>1, <2>1, <2>6, <2>7, <2>8, <2>10
<1> QED  BY <1>5, <1>6

(* retrieve() drops the first len of them, or all.                         *)
LEMMA RetrieveKeeps ==
    ASSUME NEW x, Indexed(x), NEW len \in Nat
    PROVE  /\ Indexed(Buf!retrieve(x, len))
           /\ Buf!content(Buf!retrieve(x, len)) = SubSeq(Buf!content(x), len + 1, Len(Buf!content(x)))
<1> DEFINE cx == Buf!content(x)
<1>1. PICK v \in Seq(Nat), r \in Nat, w \in Nat : x = Vec(v, r, w) /\ r <= w /\ w <= Len(v)
  BY VecOf
<1>2. PICK d \in Nat : d = w - r  BY <1>1
<1>3. Slice(Nat, cx, v, r, w) /\ Buf!readable(x) = d  BY <1>1, <1>2, ContentAt
<1> HIDE DEF cx
<1>4. cx \in Seq(Nat) /\ Len(cx) = d /\ \A k \in 1..d : cx[k] = v[r + k]
  BY <1>2, <1>3 DEF Slice
<1>5. CASE len < d
  <2>1. Buf!retrieve(x, len) = Vec(v, r + len, w)
    BY <1>1, <1>3, <1>5 DEF Buf!retrieve, Vec
  <2>2. r + len \in Nat /\ r + len <= w /\ w - (r + len) = d - len /\ d <= Len(cx) /\ len <= d
    BY <1>2, <1>4, <1>5
  <2>3. Indexed(Vec(v, r + len, w)) /\ Slice(Nat, Buf!content(Vec(v, r + len, w)), v, r + len, w)
    BY <1>1, <2>2, ContentAt
  <2> DEFINE cy == Buf!content(Vec(v, r + len, w))
  <2> HIDE DEF cy
  <2>4. cy \in Seq(Nat) /\ Len(cy) = d - len /\ \A k \in 1..(d - len) : cy[k] = v[(r + len) + k]
    BY <2>2, <2>3 DEF Slice, cy
  <2>5. /\ SubSeq(cx, len + 1, d) \in Seq(Nat) /\ Len(SubSeq(cx, len + 1, d)) = d - len
        /\ \A k \in 1..(d - len) : SubSeq(cx, len + 1, d)[k] = cx[len + k]
    <3>1. Slice(Nat, SubSeq(cx, len + 1, d), cx, len, d)  BY <1>4, <2>2, SubSeqSlice
    <3> QED  BY <3>1 DEF Slice
  <2>6. \A k \in 1..(d - len) : len + k \in 1..d /\ (r + len) + k = r + (len + k)  BY <1>5
  <2>7. \A k \in 1..(d - len) : cy[k] = SubSeq(cx, len + 1, d)[k]  BY <1>4, <2>4, <2>5, <2>6
  <2>8. cy = SubSeq(cx, len + 1, d)  BY <2>4, <2>5, <2>7, SeqsEqual
  <2> QED  BY <1>4, <2>1, <2>3, <2>8 DEF cx, cy
<1>6. CASE ~(len < d)
  <2>1. Buf!retrieve(x, len) = Vec(v, 0, 0)
    BY <1>1, <1>3, <1>6 DEF Buf!retrieve, Vec
  <2>2. 0 \in Nat /\ 0 <= 0 /\ 0 <= Len(v)  OBVIOUS
  <2>3. Indexed(Vec(v, 0, 0)) /\ Slice(Nat, Buf!content(Vec(v, 0, 0)), v, 0, 0)
    BY <1>1, <2>2, ContentAt
  <2>4. Buf!content(Vec(v, 0, 0)) = <<>>  BY <2>3 DEF Slice
  <2>5. SubSeq(cx, len + 1, d) = <<>>  BY <1>4, <1>6
  <2> QED  BY <1>4, <2>1, <2>3, <2>4, <2>5 DEF cx
<1> QED  BY <1>5, <1>6

(* c_str() writes its zero behind the readable bytes.                      *)
LEMMA CStrKeeps ==
    ASSUME NEW x, Indexed(x)
    PROVE  Indexed(Buf!c_str(x)) /\ Buf!content(Buf!c_str(x)) = Buf!content(x)
<1>0. 1 \in Nat /\ 0 \in Nat /\ <<0>> \in Seq(Nat) /\ Len(<<0>>) = 1 /\ 0 <= Len(<<0>>)  OBVIOUS
<1>1. PICK v \in Seq(Nat), r \in Nat, w \in Nat :
         /\ Buf!make_space(x, 1) = Vec(v, r, w) /\ r <= w /\ w + 1 <= Len(v)
         /\ Buf!content(Vec(v, r, w)) = Buf!content(x)
  BY <1>0, MakeSpaceKeeps
<1>2. Buf!c_str(x) = Vec(Buf!Overwrite(v, w, <<0>>), r, w + 0)
  <2> DEFINE y == Buf!make_space(x, 1)
  <2>1. Buf!c_str(x) = [y EXCEPT !.buf = Buf!Overwrite(@, y.write_index, <<0>>)]
    BY DEF Buf!c_str
  <2>2. y = [buf |-> v, read_index |-> r, write_index |-> w]  BY <1>1 DEF Vec
  <2> HIDE DEF y
  <2> QED  BY <2>1, <2>2 DEF Vec
<1>3. /\ Indexed(Vec(Buf!Overwrite(v, w, <<0>>), r, w + 0))
      /\ Buf!content(Vec(Buf!Overwrite(v, w, <<0>>), r, w + 0))
            = Buf!content(Vec(v, r, w)) \o SubSeq(<<0>>, 1, 0)
  <2>1. PICK z \in Seq(Nat) : z = <<0>>  BY <1>0
  <2>2. w + Len(z) <= Len(v) /\ 0 <= Len(z) /\ r <= w /\ v \in Seq(Nat) /\ r \in Nat /\ w \in Nat
    BY <1>0, <1>1, <2>1
  <2>3. /\ Indexed(Vec(Buf!Overwrite(v, w, z), r, w + 0))
        /\ Buf!content(Vec(Buf!Overwrite(v, w, z), r, w + 0))
              = Buf!content(Vec(v, r, w)) \o SubSeq(z, 1, 0)
    <3>1. Behind(v, r, w, z, 0)  BY <1>0, <2>2, WriteBehind
    <3> QED  BY <3>1 DEF Behind
  <2> QED  BY <2>1, <2>3
<1>4. Buf!content(x) \in Seq(Nat)
  <2>1. w <= Len(v)  BY <1>1
  <2> QED  BY <1>1, <2>1, ContentAt DEF Slice
<1>5. SubSeq(<<0>>, 1, 0) = <<>>  OBVIOUS
<1>6. Buf!content(x) \o <<>> = Buf!content(x)  BY <1>4
<1> QED  BY <1>1, <1>2, <1>3, <1>5, <1>6

(* Two queues of bytes, as the refinement mapping reads them.              *)
QueueOf(x) == [b \in 1..2 |-> Buf!content(x[b])]

(* A call that changes one buffer.                                         *)
LEMMA CallMaps ==
    ASSUME BuffersOk, NEW b \in 1..2, NEW x, Indexed(x), buffers' = [buffers EXCEPT ![b] = x]
    PROVE  /\ BuffersOk'
           /\ QueueOf(buffers') = [QueueOf(buffers) EXCEPT ![b] = Buf!content(x)]
<1>1. x \in ValidBuffers  BY DEF Indexed
<1>2. BuffersOk'  BY <1>1 DEF BuffersOk
<1>3. \A c \in 1..2 : buffers'[c] = IF c = b THEN x ELSE buffers[c]  BY DEF BuffersOk
<1>4. \A c \in 1..2 : QueueOf(buffers')[c] = IF c = b THEN Buf!content(x) ELSE QueueOf(buffers)[c]
  BY <1>3 DEF QueueOf
<1>5. QueueOf(buffers') = [c \in 1..2 |-> QueueOf(buffers')[c]]
      /\ QueueOf(buffers) = [c \in 1..2 |-> QueueOf(buffers)[c]]
  BY DEF QueueOf
<1>6. ASSUME NEW f, NEW g, f = [c \in 1..2 |-> f[c]], g = [c \in 1..2 |-> g[c]], NEW y,
             \A c \in 1..2 : g[c] = IF c = b THEN y ELSE f[c]
      PROVE  g = [f EXCEPT ![b] = y]
  BY <1>6
<1> QED  BY <1>2, <1>4, <1>5, <1>6

(* Every call of class buffer has the effect of a call on the queues.      *)
LEMMA BufferNext ==
    ASSUME BufferConstants
    PROVE  BuffersOk /\ [Buf!Next]_Buf!buffer_vars => BuffersOk' /\ [Buf!Queue!Next]_<<op, QueueOf(buffers)>>
<1> SUFFICES ASSUME BuffersOk, [Buf!Next]_Buf!buffer_vars
             PROVE  BuffersOk' /\ [Buf!Queue!Next]_<<op, QueueOf(buffers)>>
  OBVIOUS
<1>1. Buf!Queue!Next <=> QueueOf(buffers') = Buf!Queue!Effect(op', QueueOf(buffers))
  BY DEF Buf!Queue!Next, QueueOf
<1>2. \A b \in 1..2 : Indexed(buffers[b]) /\ QueueOf(buffers)[b] = Buf!content(buffers[b])
  BY DEF BuffersOk, QueueOf
<1>3. ASSUME NEW b \in 1..2, NEW s \in BufferData, Buf!Append_(b, s) \/ Buf!ReadFd(b, s)
      PROVE  BuffersOk' /\ Buf!Queue!Next
  <2>1. s \in Seq(Nat)  BY DEF BufferConstants
  <2>2. PICK x : /\ Indexed(x) /\ Buf!content(x) = Buf!content(buffers[b]) \o s
                 /\ buffers' = [buffers EXCEPT ![b] = x]
                 /\ op'.call \in {"append", "read_fd"} /\ op'.buf = b /\ op'.data = s
    <3>1. CASE Buf!Append_(b, s)
      BY <1>2, <2>1, <3>1, AppendKeeps DEF Buf!Append_, Buf!Call
    <3>2. CASE Buf!ReadFd(b, s)
      BY <1>2, <2>1, <3>2, ReadFdKeeps DEF Buf!ReadFd, Buf!Call
    <3> QED  BY <1>3, <3>1, <3>2
  <2>3. BuffersOk' /\ QueueOf(buffers') = [QueueOf(buffers) EXCEPT ![b] = Buf!content(x)]
    BY <2>2, CallMaps
  <2>4. Buf!Queue!Effect(op', QueueOf(buffers)) = [QueueOf(buffers) EXCEPT ![b] = @ \o s]
    BY <2>2 DEF Buf!Queue!Effect
  <2> QED  BY <1>1, <1>2, <2>2, <2>3, <2>4
<1>4. ASSUME NEW b \in 1..2, NEW len \in 1..MaxReadable, Buf!Retrieve(b, len)
      PROVE  BuffersOk' /\ Buf!Queue!Next
  <2>1. len \in Nat  BY DEF BufferConstants
  <2>2. PICK x : /\ Indexed(x)
                 /\ Buf!content(x) = SubSeq(Buf!content(buffers[b]), len + 1, Len(Buf!content(buffers[b])))
                 /\ buffers' = [buffers EXCEPT ![b] = x]
                 /\ op'.call = "retrieve" /\ op'.buf = b /\ op'.len = len
    BY <1>2, <1>4, <2>1, RetrieveKeeps DEF Buf!Retrieve, Buf!Call
  <2>3. BuffersOk' /\ QueueOf(buffers') = [QueueOf(buffers) EXCEPT ![b] = Buf!content(x)]
    BY <2>2, CallMaps
  <2>4. Buf!Queue!Effect(op', QueueOf(buffers))
           = [QueueOf(buffers) EXCEPT ![b] = SubSeq(@, len + 1, Len(@))]
    BY <2>2 DEF Buf!Queue!Effect
  <2> QED  BY <1>1, <1>2, <2>2, <2>3, <2>4
<1>5. ASSUME NEW b \in 1..2, Buf!CStr(b) PROVE BuffersOk' /\ Buf!Queue!Next
  <2>1. PICK x : /\ Indexed(x) /\ Buf!content(x) = Buf!content(buffers[b])
                 /\ buffers' = [buffers EXCEPT ![b] = x] /\ op'.call = "c_str"
    BY <1>2, <1>5, CStrKeeps DEF Buf!CStr, Buf!Call
  <2>2. BuffersOk' /\ QueueOf(buffers') = [QueueOf(buffers) EXCEPT ![b] = Buf!content(x)]
    BY <2>1, CallMaps
  <2>3. Buf!Queue!Effect(op', QueueOf(buffers)) = QueueOf(buffers)
    BY <2>1 DEF Buf!Queue!Effect
  <2>4. [QueueOf(buffers) EXCEPT ![b] = Buf!content(x)] = QueueOf(buffers)
    BY <1>2, <2>1 DEF QueueOf
  <2> QED  BY <1>1, <2>2, <2>3, <2>4
<1>6. CASE Buf!Swap
  <2>1. op'.call = "swap" /\ buffers' = <<buffers[2], buffers[1]>>  BY <1>6 DEF Buf!Swap
  <2>2. buffers'[1] = buffers[2] /\ buffers'[2] = buffers[1] /\ buffers' \in [1..2 -> ValidBuffers]
    BY <2>1 DEF BuffersOk
  <2>3. BuffersOk'
    <3>1. ASSUME NEW b \in 1..2 PROVE Indexed(buffers'[b])
      <4>1. b = 1 \/ b = 2  OBVIOUS
      <4>2. 1 \in 1..2 /\ 2 \in 1..2  OBVIOUS
      <4> QED  BY <1>2, <2>2, <4>1, <4>2
    <3> QED  BY <2>2, <3>1 DEF BuffersOk
  <2>4. Buf!Queue!Effect(op', QueueOf(buffers)) = <<QueueOf(buffers)[2], QueueOf(buffers)[1]>>
    BY <2>1 DEF Buf!Queue!Effect
  <2>5. QueueOf(buffers') = <<Buf!content(buffers[2]), Buf!content(buffers[1])>>
    BY <2>2 DEF QueueOf
  <2>6. QueueOf(buffers)[1] = Buf!content(buffers[1]) /\ QueueOf(buffers)[2] = Buf!content(buffers[2])
    BY DEF QueueOf
  <2> QED  BY <1>1, <2>3, <2>4, <2>5, <2>6
<1>7. CASE UNCHANGED Buf!buffer_vars
  BY <1>7 DEF Buf!buffer_vars, BuffersOk, QueueOf
<1> QED  BY <1>3, <1>4, <1>5, <1>6, <1>7 DEF Buf!Next

(* class buffer implements the queues of bytes, for any data, any first    *)
(* size of the vector and any sequence of calls: bytes are retrieved in    *)
(* the order they were appended, once each (make_space(), retrieve()).     *)
THEOREM BufferImplementsQueue == Buf!Spec => BufferIsQueue
<1>0. BufferConstants  BY ConnPartsAssumption DEF BufferConstants
<1>1. Buf!Init => BuffersOk /\ Buf!Queue!Init
  <2> SUFFICES ASSUME Buf!Init PROVE BuffersOk /\ Buf!Queue!Init
    OBVIOUS
  <2> DEFINE v == Buf!Zeros(init_size)
  <2>1. v \in Seq(Nat) /\ Len(v) = init_size
    <3>1. v \in [1..init_size -> Nat]  BY DEF Buf!Zeros
    <3> HIDE DEF v
    <3> QED  BY <1>0, <3>1, SeqOfFunction DEF BufferConstants
  <2>2. buffers = [b \in 1..2 |-> Vec(v, 0, 0)] /\ op = [call |-> "none"]  BY DEF Buf!Init, Vec
  <2> HIDE DEF v
  <2>3. 0 \in Nat /\ 0 <= 0 /\ 0 <= Len(v)  BY <2>1
  <2>4. Indexed(Vec(v, 0, 0)) /\ Slice(Nat, Buf!content(Vec(v, 0, 0)), v, 0, 0)
    BY <2>1, <2>3, ContentAt
  <2>5. Buf!content(Vec(v, 0, 0)) = <<>>  BY <2>4 DEF Slice
  <2>6. BuffersOk  BY <2>2, <2>4 DEF BuffersOk, Indexed
  <2> QED  BY <2>2, <2>5, <2>6 DEF Buf!Queue!Init
<1>2. BuffersOk /\ [Buf!Next]_Buf!buffer_vars =>
         BuffersOk' /\ [Buf!Queue!Next]_<<op, [b \in 1..2 |-> Buf!content(buffers[b])]>>
  BY <1>0, BufferNext DEF QueueOf
<1> QED  BY <1>1, <1>2, PTL DEF Buf!Spec, BufferIsQueue, Buf!BufferIsQueue, Buf!Queue!Spec

-----------------------------------------------------------------------------
(* The logger.  Lines are pairs of a thread and a number.                  *)
Lines == Writers \X Nat

LogTypes ==
    /\ written \in Seq(Lines) /\ flush_buf \in Seq(Lines) /\ write_buf \in Seq(Lines)
    /\ logged \in Seq(Lines) /\ failed \in BOOLEAN

(* Unless a write failed, flush_buf is empty outside flush().              *)
FlushedOut == failed = FALSE /\ lg_pc # "flush" => flush_buf = <<>>

AllLines == (written \o flush_buf) \o write_buf
LogInv == LogTypes /\ FlushedOut /\ Log!LoggedInOrder

(* The set of lines of a sequence, by position.                            *)
LEMMA ToSetAt ==
    ASSUME NEW S, NEW s \in Seq(S), NEW e
    PROVE  e \in Log!ToSet(s) <=> \E k \in 1..Len(s) : s[k] = e
<1>1. DOMAIN s = 1..Len(s)  OBVIOUS
<1> QED  BY <1>1 DEF Log!ToSet

(* The lines of two buffers, one behind the other.                         *)
LEMMA ToSetConcat ==
    ASSUME NEW S, NEW s \in Seq(S), NEW t \in Seq(S)
    PROVE  Log!ToSet(s \o t) = Log!ToSet(s) \cup Log!ToSet(t)
<1>1. Joined(S, s \o t, s, t)  BY ConcatAt
<1>2. s \o t \in Seq(S)  BY <1>1 DEF Joined
<1>3. ASSUME NEW e, e \in Log!ToSet(s \o t) PROVE e \in Log!ToSet(s) \cup Log!ToSet(t)
  <2>1. PICK k \in 1..Len(s \o t) : (s \o t)[k] = e  BY <1>2, <1>3, ToSetAt
  <2>2. PICK l \in Nat, m \in Nat : l = Len(s) /\ m = Len(t)  OBVIOUS
  <2>3. k \in 1..l \/ (k - l \in 1..m /\ l + (k - l) = k)  BY <1>1, <2>1, <2>2 DEF Joined
  <2>4. CASE k \in 1..l
    <3>1. s[k] = e  BY <1>1, <2>1, <2>2, <2>4 DEF Joined
    <3> QED  BY <2>2, <2>4, <3>1, ToSetAt
  <2>5. CASE k - l \in 1..m /\ l + (k - l) = k
    <3>1. PICK j \in 1..m : j = k - l  BY <2>5
    <3>2. t[j] = e  BY <1>1, <2>1, <2>2, <2>5, <3>1 DEF Joined
    <3> QED  BY <2>2, <3>1, <3>2, ToSetAt
  <2> QED  BY <2>3, <2>4, <2>5
<1>4. ASSUME NEW e, e \in Log!ToSet(s) PROVE e \in Log!ToSet(s \o t)
  <2>1. PICK k \in 1..Len(s) : s[k] = e  BY <1>4, ToSetAt
  <2>2. k \in 1..Len(s \o t) /\ (s \o t)[k] = e  BY <1>1, <2>1 DEF Joined
  <2> QED  BY <1>2, <2>2, ToSetAt
<1>5. ASSUME NEW e, e \in Log!ToSet(t) PROVE e \in Log!ToSet(s \o t)
  <2>1. PICK k \in 1..Len(t) : t[k] = e  BY <1>5, ToSetAt
  <2>2. Len(s) + k \in 1..Len(s \o t) /\ (s \o t)[Len(s) + k] = e  BY <1>1, <2>1 DEF Joined
  <2> QED  BY <1>2, <2>2, ToSetAt
<1> QED  BY <1>3, <1>4, <1>5

(* A line more.                                                            *)
LEMMA ToSetAppend ==
    ASSUME NEW S, NEW s \in Seq(S), NEW e \in S
    PROVE  Log!ToSet(Append(s, e)) = Log!ToSet(s) \cup {e}
<1>1. <<e>> \in Seq(S) /\ Append(s, e) = s \o <<e>>  OBVIOUS
<1>2. \A x : x \in Log!ToSet(<<e>>) <=> x = e
  <2>1. Len(<<e>>) = 1 /\ <<e>>[1] = e /\ 1 \in 1..1 /\ \A k \in 1..1 : k = 1  OBVIOUS
  <2> QED  BY <1>1, <2>1, ToSetAt
<1>3. Log!ToSet(s \o <<e>>) = Log!ToSet(s) \cup Log!ToSet(<<e>>)  BY <1>1, ToSetConcat
<1> QED  BY <1>1, <1>2, <1>3

(* The property, with the lines written and waiting as one sequence.       *)
LEMMA LoggedIs ==
    Log!LoggedInOrder <=> IF failed THEN /\ Len(AllLines) = Len(logged)
                                         /\ Log!ToSet(AllLines) = Log!ToSet(logged)
                          ELSE AllLines = logged
BY DEF Log!LoggedInOrder, AllLines

(* Steps that move no line.                                                *)
LEMMA LinesUnmoved ==
    ASSUME LogInv, UNCHANGED <<written, flush_buf, write_buf, logged, failed>>,
           lg_pc = "flush" => lg_pc' = "flush" \/ flush_buf = <<>>
    PROVE  LogInv'
<1>1. LogTypes'  BY DEF LogInv, LogTypes
<1>2. FlushedOut'  BY DEF LogInv, FlushedOut
<1>3. Log!LoggedInOrder'  BY DEF LogInv, Log!LoggedInOrder
<1> QED  BY <1>1, <1>2, <1>3 DEF LogInv

(* Steps of the logger's thread and of its users.                          *)
LEMMA LogNext == LogInv /\ [Log!Next]_Log!logger_vars => LogInv'
<1> SUFFICES ASSUME LogInv, [Log!Next]_Log!logger_vars PROVE LogInv'  OBVIOUS
<1>0. LogTypes /\ FlushedOut /\ Log!LoggedInOrder  BY DEF LogInv
<1>a. /\ written \in Seq(Lines) /\ flush_buf \in Seq(Lines) /\ write_buf \in Seq(Lines)
      /\ logged \in Seq(Lines) /\ written \o flush_buf \in Seq(Lines) /\ AllLines \in Seq(Lines)
  BY <1>0 DEF LogTypes, AllLines
<1>b. IF failed THEN Len(AllLines) = Len(logged) /\ Log!ToSet(AllLines) = Log!ToSet(logged)
      ELSE AllLines = logged
  BY <1>0, LoggedIs
<1>1. ASSUME NEW w \in Writers, Log!Write(w) PROVE LogInv'
  <2> DEFINE line == <<w, Log!Cardinality({i \in DOMAIN logged : logged[i][1] = w}) + 1>>
  <2>1. line \in Lines
    <3>1. DOMAIN logged = 1..Len(logged) /\ Len(logged) \in Nat  BY <1>a
    <3>2. IsFiniteSet(1..Len(logged))  BY <3>1, FS_Interval
    <3>3. IsFiniteSet({i \in DOMAIN logged : logged[i][1] = w})  BY <3>1, <3>2, FS_Subset
    <3>4. Cardinality({i \in DOMAIN logged : logged[i][1] = w}) \in Nat
      BY <3>3, FS_CardinalityType
    <3>5. Log!Cardinality({i \in DOMAIN logged : logged[i][1] = w})
             = Cardinality({i \in DOMAIN logged : logged[i][1] = w})
      BY DEF Log!Cardinality, Cardinality
    <3> QED  BY <3>4, <3>5 DEF Lines
  <2>2. /\ write_buf' = Append(write_buf, line) /\ logged' = Append(logged, line)
        /\ UNCHANGED <<lg_pc, flush_buf, written, failed>>
    BY <1>1 DEF Log!Write
  <2> HIDE DEF line
  <2>3. AllLines' = Append(AllLines, line)
    <3> DEFINE u == written \o flush_buf
    <3>1. u \in Seq(Lines)  BY <1>a
    <3>2. AllLines = u \o write_buf /\ AllLines' = u \o Append(write_buf, line)
      BY <2>2 DEF AllLines
    <3> HIDE DEF u
    <3> QED  BY <1>a, <2>1, <3>1, <3>2
  <2>4. LogTypes'  BY <1>0, <1>a, <2>1, <2>2 DEF LogTypes
  <2>5. FlushedOut'  BY <1>0, <2>2 DEF FlushedOut
  <2>6. Log!LoggedInOrder'
    <3>1. CASE failed
      <4>1. Len(AllLines') = Len(logged')  BY <1>a, <1>b, <2>1, <2>2, <2>3, <3>1
      <4>2. Log!ToSet(AllLines') = Log!ToSet(logged')
        <5>1. Log!ToSet(AllLines') = Log!ToSet(AllLines) \cup {line}  BY <1>a, <2>1, <2>3, ToSetAppend
        <5>2. Log!ToSet(logged') = Log!ToSet(logged) \cup {line}  BY <1>a, <2>1, <2>2, ToSetAppend
        <5> QED  BY <1>b, <3>1, <5>1, <5>2
      <4>3. failed'  BY <2>2, <3>1
      <4> QED  BY <4>1, <4>2, <4>3 DEF Log!LoggedInOrder, AllLines
    <3>2. CASE ~failed
      <4>1. AllLines' = logged' /\ ~failed'  BY <1>b, <2>2, <2>3, <3>2
      <4> QED  BY <4>1 DEF Log!LoggedInOrder, AllLines
    <3> QED  BY <3>1, <3>2
  <2> QED  BY <2>4, <2>5, <2>6 DEF LogInv
<1>2. CASE Log!Swap
  <2>1. lg_pc = "wait" /\ lg_pc' = "flush" /\ UNCHANGED <<written, logged, failed>>
    BY <1>2 DEF Log!Swap
  <2>2. CASE write_buf # <<>>
    <3>1. write_buf' = flush_buf /\ flush_buf' = write_buf  BY <1>2, <2>2 DEF Log!Swap
    <3>2. LogTypes' /\ FlushedOut'  BY <1>0, <2>1, <3>1 DEF LogTypes, FlushedOut
    <3>3. AllLines' = (written \o write_buf) \o flush_buf  BY <2>1, <3>1 DEF AllLines
    <3>4. CASE failed
      <4>1. Len(AllLines') = Len(AllLines)  BY <1>a, <3>3 DEF AllLines
      <4>2. written \o write_buf \in Seq(Lines)  BY <1>a
      <4>3. Log!ToSet(AllLines') = Log!ToSet(written \o write_buf) \cup Log!ToSet(flush_buf)
        <5> DEFINE u == written \o write_buf
        <5>1. u \in Seq(Lines) /\ flush_buf \in Seq(Lines)  BY <1>a, <4>2
        <5> HIDE DEF u
        <5>2. Log!ToSet(u \o flush_buf) = Log!ToSet(u) \cup Log!ToSet(flush_buf)  BY <5>1, ToSetConcat
        <5> QED  BY <3>3, <5>2 DEF u
      <4>4. Log!ToSet(AllLines) = Log!ToSet(written \o flush_buf) \cup Log!ToSet(write_buf)
        <5> DEFINE u == written \o flush_buf
        <5>1. u \in Seq(Lines) /\ write_buf \in Seq(Lines)  BY <1>a
        <5> HIDE DEF u
        <5>2. Log!ToSet(u \o write_buf) = Log!ToSet(u) \cup Log!ToSet(write_buf)  BY <5>1, ToSetConcat
        <5> QED  BY <5>2 DEF u, AllLines
      <4>5. /\ Log!ToSet(written \o write_buf) = Log!ToSet(written) \cup Log!ToSet(write_buf)
            /\ Log!ToSet(written \o flush_buf) = Log!ToSet(written) \cup Log!ToSet(flush_buf)
        BY <1>a, ToSetConcat
      <4>6. Log!ToSet(AllLines') = Log!ToSet(AllLines)  BY <4>3, <4>4, <4>5
      <4>7. Len(AllLines') = Len(logged') /\ Log!ToSet(AllLines') = Log!ToSet(logged') /\ failed'
        BY <1>b, <2>1, <3>4, <4>1, <4>6
      <4>8. Log!LoggedInOrder'  BY <4>7 DEF Log!LoggedInOrder, AllLines
      <4> QED  BY <3>2, <4>8 DEF LogInv
    <3>5. CASE ~failed
      <4>1. flush_buf = <<>>  BY <1>0, <2>1, <3>5 DEF FlushedOut, LogTypes
      <4>2. written \o <<>> = written /\ (written \o write_buf) \o <<>> = written \o write_buf
        BY <1>a
      <4>3. AllLines' = AllLines  BY <3>3, <4>1, <4>2 DEF AllLines
      <4>4. AllLines' = logged' /\ ~failed'  BY <1>b, <2>1, <3>5, <4>3
      <4>5. Log!LoggedInOrder'  BY <4>4 DEF Log!LoggedInOrder, AllLines
      <4> QED  BY <3>2, <4>5 DEF LogInv
    <3> QED  BY <3>4, <3>5
  <2>3. CASE write_buf = <<>>
    <3>1. UNCHANGED <<write_buf, flush_buf>>  BY <1>2, <2>3 DEF Log!Swap
    <3> QED  BY <2>1, <3>1, LinesUnmoved
  <2> QED  BY <2>2, <2>3
<1>3. ASSUME NEW n \in 1..Len(flush_buf), Log!Flush(n) PROVE LogInv'
  <2>1. /\ lg_pc = "flush" /\ written' = written \o SubSeq(flush_buf, 1, n)
        /\ flush_buf' = SubSeq(flush_buf, n + 1, Len(flush_buf))
        /\ UNCHANGED <<lg_pc, write_buf, logged, failed>>
    BY <1>3 DEF Log!Flush
  <2>2. n \in Nat /\ n <= Len(flush_buf)  BY <1>a
  <2>3. written' \o flush_buf' = written \o flush_buf  BY <1>a, <2>1, <2>2, ConcatParts
  <2>4. AllLines' = AllLines  BY <2>1, <2>3 DEF AllLines
  <2>5. written' \in Seq(Lines) /\ flush_buf' \in Seq(Lines)  BY <1>a, <2>1, <2>2
  <2>6. LogTypes' /\ FlushedOut'  BY <1>0, <2>1, <2>5 DEF LogTypes, FlushedOut
  <2>7. IF failed' THEN Len(AllLines') = Len(logged') /\ Log!ToSet(AllLines') = Log!ToSet(logged')
        ELSE AllLines' = logged'
    BY <1>b, <2>1, <2>4
  <2>8. Log!LoggedInOrder'  BY <2>7 DEF Log!LoggedInOrder, AllLines
  <2> QED  BY <2>6, <2>8 DEF LogInv
<1>4. CASE Log!FlushFails
  <2>1. failed' = TRUE /\ UNCHANGED <<written, flush_buf, write_buf, logged>>
    BY <1>4 DEF Log!FlushFails
  <2>2. AllLines' = AllLines  BY <2>1 DEF AllLines
  <2>3. Len(AllLines') = Len(logged') /\ Log!ToSet(AllLines') = Log!ToSet(logged')
    BY <1>b, <2>1, <2>2
  <2>4. Log!LoggedInOrder'  BY <2>1, <2>3 DEF Log!LoggedInOrder, AllLines
  <2> QED  BY <1>0, <2>1, <2>4 DEF LogInv, LogTypes, FlushedOut
<1>5. CASE Log!SetFlush \/ Log!FlushEnds \/ Log!RollFile \/ Log!TestQuit
  BY <1>5, LinesUnmoved DEF Log!SetFlush, Log!FlushEnds, Log!RollFile, Log!TestQuit
<1>6. CASE Log!Construct \/ Log!CallQuit("quit") \/ Log!CallQuit("restart") \/ Log!Restart \/ Log!SetName
  BY <1>6, LinesUnmoved DEF Log!Construct, Log!CallQuit, Log!Restart, Log!SetName
<1>7. CASE UNCHANGED Log!logger_vars  BY <1>7, LinesUnmoved DEF Log!logger_vars
<1> QED
  BY <1>1, <1>2, <1>3, <1>4, <1>5, <1>6, <1>7 DEF Log!Next, Log!Thread

(* For any number of threads and lines, every line logged is written once  *)
(* or waits in one of the buffers, and unless a write(2) failed in the     *)
(* order logged, over swaps, short writes, quit() and restart().           *)
THEOREM LinesInOrder == Log!Spec => []LoggedInOrder
<1>1. Log!Init => LogInv
  <2> SUFFICES ASSUME Log!Init PROVE LogInv  OBVIOUS
  <2>0. <<>> \in Seq(Lines)  OBVIOUS
  <2>1. LogTypes /\ FlushedOut  BY <2>0 DEF Log!Init, LogTypes, FlushedOut
  <2>2. AllLines = logged /\ ~failed  BY DEF Log!Init, AllLines
  <2> QED  BY <2>1, <2>2, LoggedIs DEF LogInv
<1>2. LogInv => LoggedInOrder  BY DEF LogInv, LoggedInOrder
<1> QED  BY <1>1, <1>2, LogNext, PTL DEF Log!Spec
=============================================================================
