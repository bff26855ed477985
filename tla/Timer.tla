-------------------------------- MODULE Timer --------------------------------
(***************************************************************************)
(* The timers of an event loop: src/timer.cc, src/timer.h and the timer    *)
(* calls of src/evloop.cc (run_after, run_every, cancel_timer).            *)
(*                                                                         *)
(* timer_set is the multiset of src/timer.h:70 in its iteration order: by  *)
(* expire, equal ones in the order inserted.  timer_map is the set of keys *)
(* of src/timer.h:72.  A timer is identified by its id; `object' holds the *)
(* ids whose timer_task_t, the one add_timer() was given, is not deleted.  *)
(* Calls from other threads go through run_in_loop() and wait, in order,   *)
(* in `queue' (the functors of EvLoop); the calls of the loop thread take  *)
(* effect at once.                                                         *)
(***************************************************************************)
EXTENDS Integers, Sequences

CONSTANTS MaxTimers,  \* bound: calls of run_after and run_every
          Delays,     \* the timeouts and intervals, in clock units
          MaxTime,    \* bound: the clock stops here
          MaxEvents   \* bound: wake-ups of the loop by other descriptors

ASSUME TimerAssumption ==
    /\ MaxTimers \in Nat \ {0} /\ MaxTime \in Nat /\ MaxEvents \in Nat
    /\ Delays \subseteq Nat

Ids == 1..MaxTimers
Task == [id : Ids, expire : Nat, interval : Nat]

VARIABLES pc,         \* the loop thread: "wait", "user", "tick" or "cb"
          now,        \* get_cur_time_ms()
          deadline,   \* when the wait() in progress times out (-1: never)
          tnow,       \* the local `now' of tick()
          cur,        \* the local `cur' of tick(): the timer being called
          timer_set,
          timer_map,
          object,
          queue,      \* add and cancel functors on their way to the loop
          next_id,    \* timer_id, the counter
          returning,  \* ids whose add_timer() on another thread has not returned
          result,     \* what add_timer() returned: 0 none yet, -1 garbage
          events,     \* descriptor events so far
          base,       \* history: the first expire of each timer
          fires,      \* history: calls of each timer's callback
          called,     \* ids cancel_timer() was called with (bound: once each)
          asked,      \* history: ids a cancel on the loop thread has named
          cancelled   \* history: ids a cancel has found in timer_map

vars == <<pc, now, deadline, tnow, cur, timer_set, timer_map, object, queue,
          next_id, returning, result, events, base, fires, called, asked, cancelled>>

IdsOf(s) == {s[i].id : i \in 1..Len(s)}
Started == 1..(next_id - 1)

Init ==
    /\ pc = "user" /\ now = 0 /\ deadline = -1 /\ tnow = 0
    /\ cur = [id |-> 1, expire |-> 0, interval |-> 0]
    /\ timer_set = <<>> /\ timer_map = {} /\ object = {}
    /\ queue = <<>> /\ next_id = 1
    /\ returning = {} /\ result = [i \in Ids |-> 0]
    /\ events = 0
    /\ base = [i \in Ids |-> 0] /\ fires = [i \in Ids |-> 0]
    /\ called = {} /\ asked = {} /\ cancelled = {}

-----------------------------------------------------------------------------
(* multiset::emplace finds the position behind every element that does not *)
(* expire later.                                                           *)
UpperBound_less(s, k, t) ==      \* mutant: before the ones that expire with it
    /\ \A i \in 1..k : s[i].expire < t.expire - 1
    /\ \A i \in (k + 1)..Len(s) : s[i].expire >= t.expire - 1

UpperBound(s, k, t) ==
    /\ \A i \in 1..k : s[i].expire <= t.expire
    /\ \A i \in (k + 1)..Len(s) : s[i].expire > t.expire

Put(s, k, t) == SubSeq(s, 1, k) \o <<t>> \o SubSeq(s, k + 1, Len(s))
Erase(s, k) == SubSeq(s, 1, k - 1) \o SubSeq(s, k + 1, Len(s))

add_timer_in_loop(t) ==
    /\ \E k \in 0..Len(timer_set) :
          UpperBound(timer_set, k, t) /\ timer_set' = Put(timer_set, k, t)
    /\ timer_map' = timer_map \cup {t.id}

(* cancel_timer_in_loop(): erases the element of timer_set that has the id *)
(* and deletes the task with its entry of timer_map.                       *)
cancel_timer_in_loop_map(i) ==   \* mutant: leaves the element in timer_set
    /\ timer_map' = timer_map \ {i}
    /\ object' = IF i \in timer_map THEN object \ {i} ELSE object
    /\ asked' = IF i \in timer_map THEN asked \cup {i} ELSE asked
    /\ cancelled' = IF i \in timer_map THEN cancelled \cup {i} ELSE cancelled
    /\ UNCHANGED timer_set

cancel_timer_in_loop(i) ==
    /\ asked' = IF i \in timer_map \/ (pc = "cb" /\ i = cur.id)
                  THEN asked \cup {i} ELSE asked
    /\ \/ /\ i \in timer_map
          /\ \E k \in 1..Len(timer_set) :
                timer_set[k].id = i /\ timer_set' = Erase(timer_set, k)
          /\ timer_map' = timer_map \ {i}
          /\ object' = object \ {i}
          /\ cancelled' = cancelled \cup {i}
       \/ /\ i \notin timer_map \cap IdsOf(timer_set)
          /\ UNCHANGED <<timer_set, timer_map, object, cancelled>>

(* run_after(d) is NewTask(d, 0), run_every(d) is NewTask(d, d): the task  *)
(* with its absolute time, and the id of timer_id.fetch_add(1).            *)
NewTask(d, interval) == [id |-> next_id, expire |-> now + d, interval |-> interval]

Create(t) ==
    /\ next_id <= MaxTimers
    /\ next_id' = next_id + 1
    /\ object' = object \cup {t.id}
    /\ base' = [base EXCEPT ![t.id] = t.expire]

(* add_timer() on the loop thread, in a callback: it returns the id.       *)
AddInLoop(d, interval) ==
    /\ pc \in {"user", "cb"}
    /\ LET t == NewTask(d, interval)
       IN  /\ Create(t)
           /\ add_timer_in_loop(t)
           /\ result' = [result EXCEPT ![t.id] = t.id]
    /\ UNCHANGED <<pc, now, deadline, tnow, cur, queue, returning, events,
                   fires, called, asked, cancelled>>

(* add_timer() on another thread up to run_in_loop(), ...                  *)
AddFromOther(d, interval) ==
    /\ LET t == NewTask(d, interval)
       IN  /\ Create(t)
           /\ queue' = Append(queue, [op |-> "add", task |-> t])
           /\ returning' = returning \cup {t.id}
    /\ UNCHANGED <<pc, now, deadline, tnow, cur, timer_set, timer_map, result,
                   events, fires, called, asked, cancelled>>

(* ... and its `return task->id', which reads the task once more: anything *)
(* if the loop thread has deleted it meanwhile.                            *)
ReturnId(i) ==
    /\ i \in returning
    /\ returning' = returning \ {i}
    /\ \E v \in (IF i \in object THEN {i} ELSE {i, -1}) :
          result' = [result EXCEPT ![i] = v]
    /\ UNCHANGED <<pc, now, deadline, tnow, cur, timer_set, timer_map, object,
                   queue, next_id, events, base, fires, called, asked, cancelled>>

(* cancel_timer(id), by a thread that was given the id (0 is ignored).     *)
CancelInLoop(i) ==
    /\ pc \in {"user", "cb"} /\ result[i] = i /\ i \notin called
    /\ called' = called \cup {i}
    /\ cancel_timer_in_loop(i)
    /\ UNCHANGED <<pc, now, deadline, tnow, cur, queue, next_id, returning,
                   result, events, base, fires>>

CancelFromOther(i) ==
    /\ result[i] = i /\ i \notin called
    /\ called' = called \cup {i}
    /\ queue' = Append(queue, [op |-> "cancel", id |-> i])
    /\ UNCHANGED <<pc, now, deadline, tnow, cur, timer_set, timer_map, object,
                   next_id, returning, result, events, base, fires, asked, cancelled>>

-----------------------------------------------------------------------------
(* do_functors() of the loop thread runs the next queued call.             *)
RunAdd ==
    /\ pc = "user" /\ queue # <<>> /\ Head(queue).op = "add"
    /\ queue' = Tail(queue)
    /\ add_timer_in_loop(Head(queue).task)
    /\ UNCHANGED <<pc, now, deadline, tnow, cur, object, next_id, returning,
                   result, events, base, fires, called, asked, cancelled>>

RunCancel ==
    /\ pc = "user" /\ queue # <<>> /\ Head(queue).op = "cancel"
    /\ queue' = Tail(queue)
    /\ cancel_timer_in_loop(Head(queue).id)
    /\ UNCHANGED <<pc, now, deadline, tnow, cur, next_id, returning, result,
                   events, base, fires, called>>

(* The top of run(): timeout() of the earliest timer, then wait().         *)
timeout_raw ==                   \* mutant: a late timer gives a negative timeout
    IF timer_set = <<>> THEN -1 ELSE Head(timer_set).expire - now

timeout ==
    IF timer_set = <<>> THEN -1
    ELSE IF Head(timer_set).expire > now THEN Head(timer_set).expire - now ELSE 0

Block ==
    /\ pc = "user" /\ queue = <<>>
    /\ deadline' = IF timeout < 0 THEN -1 ELSE now + timeout
    /\ pc' = "wait"
    /\ UNCHANGED <<now, tnow, cur, timer_set, timer_map, object, queue, next_id,
                   returning, result, events, base, fires, called, asked, cancelled>>

(* wait() returns with an event: a queued functor (the wake-up byte), or   *)
(* another descriptor.  run() does not call tick() then.                   *)
WakeByFunctor ==
    /\ pc = "wait" /\ queue # <<>>
    /\ pc' = "user"
    /\ UNCHANGED <<now, deadline, tnow, cur, timer_set, timer_map, object, queue,
                   next_id, returning, result, events, base, fires, called, asked,
                   cancelled>>

WakeByEvent ==
    /\ pc = "wait" /\ events < MaxEvents
    /\ events' = events + 1
    /\ pc' = "user"
    /\ UNCHANGED <<now, deadline, tnow, cur, timer_set, timer_map, object, queue,
                   next_id, returning, result, base, fires, called, asked, cancelled>>

(* wait() times out: tick() reads the clock once ...                       *)
TickStart ==
    /\ pc = "wait" /\ queue = <<>> /\ deadline >= 0 /\ now >= deadline
    /\ tnow' = now
    /\ pc' = "tick"
    /\ UNCHANGED <<now, deadline, cur, timer_set, timer_map, object, queue, next_id,
                   returning, result, events, base, fires, called, asked, cancelled>>

(* ... takes the first timer off timer_set and timer_map and calls it ...  *)
Fire ==
    /\ pc = "tick" /\ timer_set # <<>> /\ Head(timer_set).expire <= tnow
    /\ cur' = Head(timer_set)
    /\ timer_set' = Tail(timer_set)
    /\ timer_map' = timer_map \ {cur'.id}
    /\ fires' = [fires EXCEPT ![cur'.id] = @ + 1]
    /\ pc' = "cb"
    /\ UNCHANGED <<now, deadline, tnow, object, queue, next_id, returning, result,
                   events, base, called, asked, cancelled>>

(* ... and, when the callback has returned, adds an interval timer again   *)
(* as a new task with the same id; `guard' deletes the old one.            *)
EndCallback_drift ==             \* mutant: the next turn counts from now
    /\ pc = "cb" /\ object' = object \ {cur.id} /\ pc' = "tick"
    /\ IF cur.interval > 0
         THEN add_timer_in_loop([cur EXCEPT !.expire = now + cur.interval])
         ELSE UNCHANGED <<timer_set, timer_map>>
    /\ UNCHANGED <<now, deadline, tnow, cur, queue, next_id, returning, result,
                   events, base, fires, called, asked, cancelled>>

EndCallback ==
    /\ pc = "cb"
    /\ object' = object \ {cur.id}
    /\ IF cur.interval > 0
         THEN add_timer_in_loop([cur EXCEPT !.expire = @ + cur.interval])
         ELSE UNCHANGED <<timer_set, timer_map>>
    /\ pc' = "tick"
    /\ UNCHANGED <<now, deadline, tnow, cur, queue, next_id, returning, result,
                   events, base, fires, called, asked, cancelled>>

TickDone ==
    /\ pc = "tick"
    /\ timer_set # <<>> => Head(timer_set).expire > tnow
    /\ pc' = "user"
    /\ UNCHANGED <<now, deadline, tnow, cur, timer_set, timer_map, object, queue,
                   next_id, returning, result, events, base, fires, called, asked,
                   cancelled>>

Clock ==
    /\ now < MaxTime
    /\ now' = now + 1
    /\ UNCHANGED <<pc, deadline, tnow, cur, timer_set, timer_map, object, queue,
                   next_id, returning, result, events, base, fires, called, asked,
                   cancelled>>

LoopStep == RunAdd \/ RunCancel \/ Block \/ WakeByFunctor \/ TickStart \/ Fire
            \/ EndCallback \/ TickDone

Callers ==
    \/ \E d \in Delays, every \in BOOLEAN :
          LET interval == IF every THEN d ELSE 0
          IN  AddInLoop(d, interval) \/ AddFromOther(d, interval)
    \/ \E i \in Ids : ReturnId(i) \/ CancelInLoop(i) \/ CancelFromOther(i)

Next == LoopStep \/ Callers \/ WakeByEvent \/ Clock

Spec == Init /\ [][Next]_vars

(* The loop thread runs, callbacks return, time passes.                    *)
FairSpec == Spec /\ WF_vars(LoopStep) /\ WF_vars(Clock)

-----------------------------------------------------------------------------
TypeOK ==
    /\ pc \in {"wait", "user", "tick", "cb"}
    /\ now \in 0..MaxTime /\ tnow \in 0..MaxTime
    /\ deadline \in Int
    /\ cur \in Task
    /\ timer_set \in Seq(Task)
    /\ timer_map \subseteq Ids /\ object \subseteq Ids
    /\ queue \in Seq([op : {"add"}, task : Task] \cup [op : {"cancel"}, id : Ids])
    /\ next_id \in 1..(MaxTimers + 1)
    /\ returning \subseteq Ids
    /\ result \in [Ids -> Ids \cup {0, -1}]
    /\ events \in 0..MaxEvents
    /\ base \in [Ids -> Nat] /\ fires \in [Ids -> Nat]
    /\ called \subseteq Ids /\ asked \subseteq Ids /\ cancelled \subseteq Ids

(* timer_set and timer_map hold the same timers, each once: tick() can     *)
(* look up the id of the task it takes (timer.cc:74-75 dereferences the    *)
(* iterator unchecked), and no element of timer_set is a deleted task.     *)
SetMapAgree ==
    /\ IdsOf(timer_set) = timer_map
    /\ \A i, j \in 1..Len(timer_set) : timer_set[i].id = timer_set[j].id => i = j

(* tick() stops at the first task that has not expired, so timer_set must  *)
(* be in order of expire for no expired timer to be overlooked, and a      *)
(* wait() must not outlast the earliest of them.                           *)
SleepsUntilEarliest ==
    /\ \A i, j \in 1..Len(timer_set) :
          i < j => timer_set[i].expire <= timer_set[j].expire
    /\ pc = "wait" => \A i \in 1..Len(timer_set) :
          deadline >= 0 /\ (deadline <= now \/ deadline <= timer_set[i].expire)

(* timer.cc:83-84, "To avoid timing error accumulation": call n of an      *)
(* interval timer is due exactly n intervals after the first, however late *)
(* the earlier calls were; and no call, neither the first nor one after a  *)
(* late one, is made before it is due: while the callback runs, the time   *)
(* of call `fires', one interval before that of the next, has come.        *)
NoDrift ==
    /\ \A i \in 1..Len(timer_set) :
          LET t == timer_set[i]
          IN  t.expire = base[t.id] + fires[t.id] * t.interval
    /\ pc = "cb" =>
          base[cur.id] + fires[cur.id] * cur.interval <= now + cur.interval

(* A cancelled timer stays cancelled: once cancel_timer_in_loop() has      *)
(* found it, its callback is not called again, also when the cancel came   *)
(* from another thread or from another timer's callback of the same tick.  *)
CancelledNotCalled ==
    [][\A i \in cancelled : fires'[i] = fires[i]]_vars

(* evloop.h:55-58: every timer added is called or cancelled in the end, if *)
(* descriptor events do not keep the loop from timing out.                 *)
TimerCalled ==
    \A i \in Ids :
        (i \in timer_map /\ base[i] <= MaxTime) ~> (fires[i] > 0 \/ i \in cancelled)

(* evloop.h:55-59, the id of run_every() "can be used to cancel a timer",  *)
(* and timer.cc:72, "Current timer may be canceled in timer_cb()": after   *)
(* the loop thread has run a cancel of a timer it knows, in or out of that *)
(* timer's callback, the callback is not called again.  It does not hold   *)
(* for a cancel in the timer's own callback: timer.cc:82-88 adds the timer *)
(* again (README, section 5).                                              *)
CancelStopsTimer == [][\A i \in asked : fires'[i] = fires[i]]_vars

(* The two containers of timer_t agree, are in order, and bound the sleep  *)
(* of the loop (timer.cc:17-91).                                           *)
TimersInOrder == TypeOK /\ SetMapAgree /\ SleepsUntilEarliest
=============================================================================
