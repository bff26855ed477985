------------------------------- MODULE ConnTtl -------------------------------
(***************************************************************************)
(* The idle TTL of a connection: set_ttl(), set_ttl_timer(),               *)
(* update_ttl_timer() and the ttl part of handle_close() in                *)
(* src/connection.cc.                                                      *)
(*                                                                         *)
(* send() and send_file() call update_ttl_timer() on the thread of their   *)
(* caller, so ttl_timer_id is read and written without a lock by the loop  *)
(* thread and by the threads in Others.  Timers are those of module Timer: *)
(* the loop thread adds and cancels at once, the others through the        *)
(* functors of the loop.  The clock is left out: an armed timer may expire *)
(* at any time.                                                            *)
(***************************************************************************)
EXTENDS Integers, Sequences, FiniteSets

CONSTANTS Others,     \* threads other than the loop's that call the connection
          MaxTimers   \* bound: calls of run_after

ASSUME TtlAssumption == MaxTimers \in Nat

VARIABLES state,         \* connection::state
          ttl,           \* ttl_ms > 0
          ttl_timer_id,
          armed,         \* ids in timer_map of the loop
          queue,         \* functors of the loop
          nextTimer,     \* the id the next run_after() returns
          at,            \* per other thread, where it is in update_ttl_timer()
          mine,          \* per other thread, the id its run_after() returned
          shared,        \* history: another thread has called the connection
          late           \* history: set_ttl() was called after the close began

vars == <<state, ttl, ttl_timer_id, armed, queue, nextTimer, at, mine, shared,
          late>>

Ids == 1..MaxTimers

Init ==
    /\ state = "Connected" /\ ttl = FALSE /\ ttl_timer_id = 0
    /\ armed = {} /\ queue = <<>> /\ nextTimer = 1
    /\ at = [t \in Others |-> "out"] /\ mine = [t \in Others |-> 0]
    /\ shared = FALSE /\ late = FALSE

-----------------------------------------------------------------------------
(* cancel_timer(ttl_timer_id), then set_ttl_timer(), on the loop thread.   *)
Rearm_keep ==                    \* mutant: the old timer is not cancelled
    /\ nextTimer <= MaxTimers
    /\ armed' = armed \cup {nextTimer}
    /\ ttl_timer_id' = nextTimer
    /\ nextTimer' = nextTimer + 1

Rearm ==
    /\ nextTimer <= MaxTimers
    /\ armed' = (armed \ {ttl_timer_id}) \cup {nextTimer}
    /\ ttl_timer_id' = nextTimer
    /\ nextTimer' = nextTimer + 1

(* set_ttl() does not test the state: called for a connection that is      *)
(* Closing or Closed it arms a timer all the same, which holds the         *)
(* connection until it expires (`late').  From another thread it is queued *)
(* (bound: one such call in the queue at a time).                          *)
SetTtlInLoop ==
    /\ ttl' = TRUE
    /\ Rearm
    /\ late' = (late \/ state # "Connected")
    /\ UNCHANGED <<state, queue, at, mine, shared>>

SetTtlFromOther ==
    /\ Others # {}
    /\ [op |-> "set_ttl", id |-> 0] \notin {queue[i] : i \in 1..Len(queue)}
    /\ queue' = Append(queue, [op |-> "set_ttl", id |-> 0])
    /\ shared' = TRUE
    /\ UNCHANGED <<state, ttl, ttl_timer_id, armed, nextTimer, at, mine, late>>

(* update_ttl_timer() on the loop thread: handle_read(), send(),           *)
(* send_file().                                                            *)
Activity ==
    /\ ttl_timer_id > 0
    /\ Rearm
    /\ UNCHANGED <<state, ttl, queue, at, mine, shared, late>>

(* update_ttl_timer() on another thread, one access at a time: the test,   *)
(* the cancel (which reads the id again; 0 is ignored), run_after(), and   *)
(* the assignment of its result.                                           *)
OtherTest(t) ==
    /\ at[t] = "out" /\ ttl_timer_id > 0
    /\ at' = [at EXCEPT ![t] = "cancel"]
    /\ shared' = TRUE
    /\ UNCHANGED <<state, ttl, ttl_timer_id, armed, queue, nextTimer, mine, late>>

OtherCancel(t) ==
    /\ at[t] = "cancel"
    /\ queue' = IF ttl_timer_id = 0 THEN queue
                ELSE Append(queue, [op |-> "cancel", id |-> ttl_timer_id])
    /\ at' = [at EXCEPT ![t] = "arm"]
    /\ UNCHANGED <<state, ttl, ttl_timer_id, armed, nextTimer, mine, shared, late>>

OtherArm(t) ==
    /\ at[t] = "arm" /\ nextTimer <= MaxTimers
    /\ queue' = Append(queue, [op |-> "add", id |-> nextTimer])
    /\ mine' = [mine EXCEPT ![t] = nextTimer]
    /\ nextTimer' = nextTimer + 1
    /\ at' = [at EXCEPT ![t] = "store"]
    /\ UNCHANGED <<state, ttl, ttl_timer_id, armed, shared, late>>

OtherStore(t) ==
    /\ at[t] = "store"
    /\ ttl_timer_id' = mine[t]
    /\ at' = [at EXCEPT ![t] = "out"]
    /\ UNCHANGED <<state, ttl, armed, queue, nextTimer, mine, shared, late>>

-----------------------------------------------------------------------------
(* handle_close(): it cancels the timer first, Closing or Closed.          *)
handle_close(s) ==
    /\ state # "Closed"
    /\ armed' = armed \ {ttl_timer_id}
    /\ ttl_timer_id' = 0
    /\ state' = s
    /\ UNCHANGED <<ttl, queue, nextTimer, at, mine, shared, late>>

Close == handle_close("Closing") \/ handle_close("Closed")

(* The timer expires: it leaves timer_map and calls close().               *)
Expire(i) ==
    /\ i \in armed
    /\ \/ /\ state = "Closed"
          /\ armed' = armed \ {i}
          /\ UNCHANGED <<state, ttl_timer_id>>
       \/ /\ state # "Closed"
          /\ armed' = armed \ {i, ttl_timer_id}
          /\ ttl_timer_id' = 0
          /\ state' \in {"Closing", "Closed"}
    /\ UNCHANGED <<ttl, queue, nextTimer, at, mine, shared, late>>

(* The loop calls the next functor.                                        *)
RunFunctor ==
    /\ queue # <<>>
    /\ queue' = Tail(queue)
    /\ LET f == Head(queue)
       IN \/ /\ f.op = "add"
             /\ armed' = armed \cup {f.id}
             /\ UNCHANGED <<ttl, ttl_timer_id, nextTimer>>
          \/ /\ f.op = "cancel"
             /\ armed' = armed \ {f.id}
             /\ UNCHANGED <<ttl, ttl_timer_id, nextTimer>>
          \/ /\ f.op = "set_ttl"
             /\ ttl' = TRUE
             /\ Rearm
    /\ UNCHANGED <<state, at, mine, shared, late>>

Next ==
    \/ SetTtlInLoop \/ SetTtlFromOther \/ Activity \/ Close \/ RunFunctor
    \/ \E i \in Ids : Expire(i)
    \/ \E t \in Others : OtherTest(t) \/ OtherCancel(t) \/ OtherArm(t) \/ OtherStore(t)

Spec == Init /\ [][Next]_vars

-----------------------------------------------------------------------------
TypeOK ==
    /\ state \in {"Connected", "Closing", "Closed"}
    /\ ttl \in BOOLEAN
    /\ ttl_timer_id \in Ids \cup {0}
    /\ armed \subseteq Ids
    /\ queue \in Seq([op : {"add", "cancel", "set_ttl"}, id : Ids \cup {0}])
    /\ nextTimer \in 1..(MaxTimers + 1)
    /\ at \in [Others -> {"out", "cancel", "arm", "store"}]
    /\ mine \in [Others -> Ids \cup {0}]
    /\ shared \in BOOLEAN /\ late \in BOOLEAN

Quiet == queue = <<>> /\ \A t \in Others : at[t] = "out"

(* connection.h:65, an "idle TTL", and connection.cc:148-149, "We must     *)
(* cancel the ttl timer here": while every call is made on the loop        *)
(* thread, re-arming leaves no older timer behind that would close a       *)
(* connection in use, and handle_close() leaves none that would hold the   *)
(* connection, also while it lingers in Closing, unless set_ttl() is       *)
(* called once more after it.                                              *)
TrackedOnLoopThread ==
    ~shared /\ Quiet => /\ armed \subseteq {ttl_timer_id}
                        /\ state # "Connected" /\ ~late => armed = {}

(* A connection with a TTL that is still Connected has a timer running,    *)
(* or it would stay idle for ever; also when update_ttl_timer() races on   *)
(* several threads.                                                        *)
TtlRunning == Quiet /\ state = "Connected" /\ ttl => armed # {}

(* The TTL timer of a connection is neither lost nor left behind           *)
(* (connection.cc:313-336).                                                *)
TtlTracked == TrackedOnLoopThread /\ TtlRunning
=============================================================================
