----------------------------- MODULE HttpClient -----------------------------
(***************************************************************************)
(* http_client of httplib.cc: the connection pool of one route, the threads *)
(* that call send() and the thread of the sender loop that connects,        *)
(* receives, times out and notices closed connections.                      *)
(*                                                                         *)
(* Every request is made by a thread of its own.  send() holds router_mutex *)
(* throughout; the handlers on the loop thread take it only to put back or  *)
(* to remove a connection.  A request has one timeout timer, so timers are  *)
(* named by requests.                                                       *)
(***************************************************************************)
EXTENDS Integers, FiniteSets, SequencesExt

CONSTANTS
    Requests,               \* requests, each made by a thread of its own
    Conns,                  \* names for connections, never reused
    max_conns_per_route,
    NoOne                   \* neither a request nor a connection

ASSUME PoolAssumption == max_conns_per_route \in Nat /\ NoOne \notin Requests \cup Conns

VARIABLES
    router,     \* the route has a pool
    avail, leased_list,     \* http_connection_pool::avail, leased
    pending,    \* http_connection_pool::pending
    lock,       \* who holds router_mutex: a request, or NoOne
    rpc,        \* the thread of each request
    mine,       \* the connection of each request
    up,         \* connections that client->is_connected()
    starting,   \* connections whose client is connecting
    flag,       \* connections with http_connection::leased
    removed,    \* connections deleted
    bad,        \* connections whose response.err_code has become InvalidResponse
    timer_id,   \* request_timeout_timer_id of each connection, NoOne for 0
    timer,      \* each timer: "none", "queued", "armed", "over"
    promise,    \* the request of response_promise, and whether it has a value
    onwire,     \* requests sent on each connection, not yet answered
    lp,         \* what the loop thread is doing
    result,     \* how each future ended
    crashed,    \* an assertion failed or a promise got a second value
    raced       \* history: a caller leased a connection that the loop thread
                \* was still working on, or that was down, or the loop
                \* thread cancelled a timer that was only queued

pool == <<router, avail, leased_list, pending, lock>>
conns == <<up, starting, flag, removed, bad, timer_id, timer, promise, onwire>>
vars == <<pool, rpc, mine, conns, lp, result, crashed, raced>>

Idle == [at |-> "idle", conn |-> NoOne]
active_conns == Len(avail) + Len(leased_list)
Unused == Conns \ (removed \cup ToSet(avail) \cup ToSet(leased_list))

Init ==
    /\ router = FALSE /\ avail = <<>> /\ leased_list = <<>> /\ pending = FALSE /\ lock = NoOne
    /\ rpc = [r \in Requests |-> "start"] /\ mine = [r \in Requests |-> NoOne]
    /\ up = {} /\ starting = {} /\ flag = {} /\ removed = {} /\ bad = {}
    /\ timer_id = [h \in Conns |-> NoOne] /\ timer = [r \in Requests |-> "none"]
    /\ promise = [h \in Conns |-> [req |-> NoOne, set |-> FALSE]]
    /\ onwire = [h \in Conns |-> <<>>]
    /\ lp = Idle /\ result = [r \in Requests |-> "none"]
    /\ crashed = FALSE /\ raced = FALSE

(***************************************************************************)
(* send(), on the thread of a request                                       *)
(***************************************************************************)
Thread(r, places) == ~crashed /\ rpc[r] \in places
Go(r, where) == rpc' = [rpc EXCEPT ![r] = where]
End(r, how) == result' = [result EXCEPT ![r] = how] /\ Go(r, "done")

\* a request without a valid url or method, and create_connection_pool() with
\* an answer of the resolver or without one
Lock(r) ==
    /\ Thread(r, {"start", "retry"}) /\ lock = NoOne
    /\ lock' = r /\ Go(r, "locked")
    /\ UNCHANGED <<router, avail, leased_list, pending, mine, conns, lp, result, crashed, raced>>

NoAddress(r) ==
    /\ Thread(r, {"locked"}) /\ ~router
    /\ lock' = NoOne /\ End(r, "resolve")
    /\ UNCHANGED <<router, avail, leased_list, pending, mine, conns, lp, crashed, raced>>

\* add_connection(), then client->start()
AddConnection(r) ==
    /\ Thread(r, {"locked"}) /\ avail = <<>> /\ active_conns < max_conns_per_route
    /\ \E h \in Unused :
          /\ leased_list' = Append(leased_list, h) /\ starting' = starting \cup {h}
          /\ flag' = flag \cup {h} /\ mine' = [mine EXCEPT ![r] = h]
          /\ promise' = [promise EXCEPT ![h] = [req |-> r, set |-> FALSE]]
    /\ router' = TRUE /\ Go(r, "got")
    /\ UNCHANGED <<avail, pending, lock, up, removed, bad, timer_id, timer, onwire, lp, result, crashed, raced>>

\* lease_connection(): the last of avail gets a new promise
Lease(r) ==
    LET h == Last(avail) IN
    /\ Thread(r, {"locked"}) /\ avail # <<>>
    /\ avail' = Front(avail) /\ leased_list' = Append(leased_list, h)
    /\ promise' = [promise EXCEPT ![h] = [req |-> r, set |-> FALSE]]
    /\ flag' = flag \cup {h} /\ mine' = [mine EXCEPT ![r] = h]
    /\ raced' = (raced \/ lp.conn = h \/ h \notin up)
    /\ Go(r, "send")
    /\ UNCHANGED <<router, pending, lock, up, starting, removed, bad, timer_id, timer, onwire, lp, result, crashed>>

\* send(http_conn, request): assert(is_connected()), conn()->send() and a timer,
\* which run_after() of another thread queues
SendRequest(r) ==
    LET h == mine[r] IN
    /\ Thread(r, {"send"})
    /\ raced' = (raced \/ lp.conn = h \/ h \notin up)
    /\ IF h \notin up THEN crashed' = TRUE /\ UNCHANGED <<onwire, timer, timer_id>>
       ELSE /\ onwire' = [onwire EXCEPT ![h] = Append(@, r)]
            /\ timer' = [timer EXCEPT ![r] = "queued"]
            /\ timer_id' = [timer_id EXCEPT ![h] = r]
            /\ UNCHANGED crashed
    /\ Go(r, "got")
    /\ UNCHANGED <<pool, mine, up, starting, flag, removed, bad, promise, lp, result>>

\* router_mutex.unlock(); the future is returned
Unlock(r) ==
    /\ Thread(r, {"got"}) /\ lock = r
    /\ lock' = NoOne /\ Go(r, "future")
    /\ UNCHANGED <<router, avail, leased_list, pending, mine, conns, lp, result, crashed, raced>>

\* all connections are leased: unlock, then wait_for()
Full(r) ==
    /\ Thread(r, {"locked"}) /\ avail = <<>> /\ active_conns >= max_conns_per_route
    /\ lock' = NoOne /\ Go(r, "full")
    /\ UNCHANGED <<router, avail, leased_list, pending, mine, conns, lp, result, crashed, raced>>

EnterWait(r) ==
    /\ Thread(r, {"full"})
    /\ pending' = TRUE /\ Go(r, "waiting")
    /\ UNCHANGED <<router, avail, leased_list, lock, mine, conns, lp, result, crashed, raced>>

\* wait_for() of the condition variable ends late
PendingTimeout(r) ==
    /\ Thread(r, {"waiting", "notified"})
    /\ End(r, "pending")
    /\ UNCHANGED <<pool, mine, conns, lp, crashed, raced>>

\* it ends in time: while (pending)
Notified(r) ==
    /\ Thread(r, {"notified"})
    /\ Go(r, IF pending THEN "waiting" ELSE "retry")
    /\ UNCHANGED <<pool, mine, conns, lp, result, crashed, raced>>

(***************************************************************************)
(* The loop thread                                                          *)
(***************************************************************************)
LoopAt(place) == ~crashed /\ lp = place
At(where, h) == lp' = [at |-> where, conn |-> h]
Free == lock = NoOne

\* promise::set_value() throws if there is a value
SetValue(h, how) ==
    IF promise[h].set \/ promise[h].req = NoOne
    THEN crashed' = TRUE /\ UNCHANGED <<promise, result>>
    ELSE /\ promise' = [promise EXCEPT ![h].set = TRUE]
         /\ result' = [result EXCEPT ![promise[h].req] = how]
         /\ UNCHANGED crashed

\* connection_handler: send() on the loop thread, the timer is armed at once
Connected_untimed(h) ==  \* mutant: only reused connections get a timer
    LET r == promise[h].req IN
    /\ LoopAt(Idle) /\ h \in starting
    /\ starting' = starting \ {h} /\ up' = up \cup {h}
    /\ onwire' = [onwire EXCEPT ![h] = Append(@, r)]
    /\ UNCHANGED <<timer, timer_id, pool, rpc, mine, flag, removed, bad, promise, lp, result, crashed, raced>>
Connected(h) ==
    LET r == promise[h].req IN
    /\ LoopAt(Idle) /\ h \in starting
    /\ starting' = starting \ {h} /\ up' = up \cup {h}
    /\ onwire' = [onwire EXCEPT ![h] = Append(@, r)]
    /\ timer' = [timer EXCEPT ![r] = "armed"]
    /\ timer_id' = [timer_id EXCEPT ![h] = r]
    /\ UNCHANGED <<pool, rpc, mine, flag, removed, bad, promise, lp, result, crashed, raced>>

\* connection_timeout_handler()
ConnectionTimeout(h) ==
    /\ LoopAt(Idle) /\ h \in starting
    /\ starting' = starting \ {h}
    /\ SetValue(h, "connect") /\ At("remove", h)
    /\ UNCHANGED <<pool, rpc, mine, up, flag, removed, bad, timer_id, timer, onwire, raced>>

AddTimer(r) ==
    /\ LoopAt(Idle) /\ timer[r] = "queued"
    /\ timer' = [timer EXCEPT ![r] = "armed"]
    /\ UNCHANGED <<pool, rpc, mine, up, starting, flag, removed, bad, timer_id, promise, onwire, lp, result, crashed, raced>>

\* the timer of set_request_timeout_timer(); mine[r] may be deleted
RequestTimeout(r) ==
    LET h == mine[r] IN
    /\ LoopAt(Idle) /\ timer[r] = "armed"
    /\ timer' = [timer EXCEPT ![r] = "over"]
    /\ IF h \in removed THEN crashed' = TRUE /\ UNCHANGED <<promise, result, lp>>
       ELSE SetValue(h, "timeout") /\ At("remove", h)
    /\ UNCHANGED <<pool, rpc, mine, up, starting, flag, removed, bad, timer_id, onwire, raced>>

\* receive() of a complete response; nobody waits for it on an idle connection,
\* and an err_code that response had before is still in it
Receive(h) ==
    /\ LoopAt(Idle) /\ h \in up /\ onwire[h] # <<>>
    /\ onwire' = [onwire EXCEPT ![h] = Tail(@)]
    /\ IF h \in flag
       THEN SetValue(h, IF h \in bad THEN "invalid"
                        ELSE IF promise[h].req = Head(onwire[h]) THEN "ok" ELSE "foreign")
            /\ At("put", h)
       ELSE UNCHANGED <<promise, result, crashed, lp>>
    /\ UNCHANGED <<pool, rpc, mine, up, starting, flag, removed, bad, timer_id, timer, raced>>

\* receive() of bytes that are no response, or of what such bytes have left in the
\* buffer: err.  The connection is put back, the rest may still be on its way
ReceiveBad_reset(h) ==  \* mutant: err_code is reset, as err_notify() does
    /\ LoopAt(Idle) /\ h \in up \cap flag /\ onwire[h] # <<>>
    /\ \E rest \in {onwire[h], Tail(onwire[h])} : onwire' = [onwire EXCEPT ![h] = rest]
    /\ SetValue(h, "invalid") /\ At("put", h)
    /\ UNCHANGED <<pool, rpc, mine, up, starting, flag, removed, bad, timer_id, timer, raced>>
ReceiveBad(h) ==
    /\ LoopAt(Idle) /\ h \in up \cap flag /\ onwire[h] # <<>>
    /\ \E rest \in {onwire[h], Tail(onwire[h])} : onwire' = [onwire EXCEPT ![h] = rest]
    /\ bad' = bad \cup {h}
    /\ SetValue(h, "invalid") /\ At("put", h)
    /\ UNCHANGED <<pool, rpc, mine, up, starting, flag, removed, timer_id, timer, raced>>

\* receive() of a response that goes to complete what bad bytes seem to begin
ReceivePart(h) ==
    /\ LoopAt(Idle) /\ h \in up \cap flag \cap bad /\ onwire[h] # <<>>
    /\ onwire' = [onwire EXCEPT ![h] = Tail(@)]
    /\ UNCHANGED <<pool, rpc, mine, up, starting, flag, removed, bad, timer_id, timer, promise, lp, result, crashed, raced>>

\* std::swap(conn, list.back()), then pop_back()
SwapOut(list, h) ==
    LET i == CHOOSE i \in 1..Len(list) : list[i] = h IN
    IF h \in ToSet(list) THEN Front([list EXCEPT ![i] = Last(list)]) ELSE list

\* put_connection(), release_connection()
Put(h) ==
    /\ LoopAt([at |-> "put", conn |-> h]) /\ Free
    /\ avail' = Append(avail, h) /\ leased_list' = SwapOut(leased_list, h)
    /\ flag' = flag \ {h} /\ At("cancel", h)
    /\ UNCHANGED <<router, pending, lock, rpc, mine, up, starting, removed, bad, timer_id, timer, promise, onwire, result, crashed, raced>>

\* cancel_request_timeout_timer(): a timer still queued is not found
CancelTimer(h) ==
    IF timer_id[h] = NoOne THEN UNCHANGED <<timer, timer_id, raced>>
    ELSE /\ raced' = (raced \/ timer[timer_id[h]] = "queued")
         /\ timer' = [timer EXCEPT ![timer_id[h]] = IF @ = "armed" THEN "over" ELSE @]
         /\ timer_id' = [timer_id EXCEPT ![h] = NoOne]

Cancel(h) ==
    /\ LoopAt([at |-> "cancel", conn |-> h])
    /\ CancelTimer(h) /\ At("wakeup", h)
    /\ UNCHANGED <<pool, rpc, mine, up, starting, flag, removed, bad, promise, onwire, result, crashed>>

\* http_connection_pool::wakeup(): one of the waiting threads
Wakeup(h) ==
    /\ LoopAt([at |-> "wakeup", conn |-> h])
    /\ lp' = Idle /\ pending' = FALSE
    /\ LET waiting == {r \in Requests : rpc[r] = "waiting"} IN
          IF pending /\ waiting # {} THEN \E r \in waiting : Go(r, "notified")
          ELSE UNCHANGED rpc
    /\ UNCHANGED <<router, avail, leased_list, lock, mine, conns, result, crashed, raced>>

\* the peer closes: client.cc calls connection_reset_by_peer(), which tests
\* leased without the lock
ResetByPeer_kept(h) ==  \* mutant: the timer is not cancelled
    /\ LoopAt(Idle) /\ h \in up
    /\ up' = up \ {h} /\ onwire' = [onwire EXCEPT ![h] = <<>>]
    /\ IF h \in flag THEN SetValue(h, "reset") ELSE UNCHANGED <<promise, result, crashed>>
    /\ At("remove", h)
    /\ UNCHANGED <<pool, rpc, mine, starting, flag, removed, bad, timer, timer_id, raced>>
ResetByPeer(h) ==
    /\ LoopAt(Idle) /\ h \in up
    /\ up' = up \ {h} /\ onwire' = [onwire EXCEPT ![h] = <<>>]
    /\ IF h \in flag THEN SetValue(h, "reset") /\ CancelTimer(h)
       ELSE UNCHANGED <<promise, result, crashed, timer, timer_id, raced>>
    /\ At("remove", h)
    /\ UNCHANGED <<pool, rpc, mine, starting, flag, removed, bad>>

\* remove_connection(): the connection is deleted, and with it a promise that
\* has no value yet
Delete(h) ==
    /\ LoopAt([at |-> "remove", conn |-> h]) /\ Free
    /\ IF h \in flag THEN leased_list' = SwapOut(leased_list, h) /\ UNCHANGED avail
       ELSE avail' = SwapOut(avail, h) /\ UNCHANGED leased_list
    /\ removed' = removed \cup {h} /\ up' = up \ {h} /\ flag' = flag \ {h}
    /\ onwire' = [onwire EXCEPT ![h] = <<>>]
    /\ result' = IF promise[h].req # NoOne /\ ~promise[h].set
                 THEN [result EXCEPT ![promise[h].req] = "broken"] ELSE result
    /\ lp' = Idle
    /\ UNCHANGED <<router, pending, lock, rpc, mine, starting, bad, timer_id, timer, promise, crashed, raced>>

Caller(r) ==
    \/ Lock(r) \/ NoAddress(r) \/ AddConnection(r) \/ Lease(r) \/ SendRequest(r)
    \/ Unlock(r) \/ Full(r) \/ EnterWait(r) \/ Notified(r) \/ PendingTimeout(r)
Handler(h) ==
    \/ Connected(h) \/ ConnectionTimeout(h) \/ Receive(h) \/ ReceiveBad(h) \/ ReceivePart(h)
    \/ Put(h) \/ Cancel(h) \/ Wakeup(h) \/ ResetByPeer(h) \/ Delete(h)
Next ==
    \/ \E r \in Requests : Caller(r) \/ AddTimer(r) \/ RequestTimeout(r)
    \/ \E h \in Conns : Handler(h)
Spec == Init /\ [][Next]_vars

\* Threads that can go on do, timers that are armed expire, and an attempt to
\* connect ends.  No peer has to answer, and none has to close.  Every behaviour
\* is finite, so fairness of the steps together is enough.
Progress ==
    \/ \E r \in Requests :
            \/ Lock(r) \/ AddConnection(r) \/ Lease(r) \/ SendRequest(r) \/ Unlock(r)
            \/ Full(r) \/ EnterWait(r) \/ Notified(r) \/ PendingTimeout(r)
            \/ AddTimer(r) \/ RequestTimeout(r)
    \/ \E h \in Conns :
            Connected(h) \/ ConnectionTimeout(h) \/ Put(h) \/ Cancel(h) \/ Wakeup(h) \/ Delete(h)
FairSpec == Spec /\ WF_vars(Progress)

(***************************************************************************)
(* Properties                                                               *)
(***************************************************************************)
\* However callers and the loop thread interleave, the two lists of the pool
\* hold each live connection once, never more than max_conns_per_route, and the
\* leased flag that remove_connection() trusts says which list it is in.
PoolConsistent ==
    /\ active_conns <= max_conns_per_route
    /\ IsInjective(avail \o leased_list)
    /\ (ToSet(avail) \cup ToSet(leased_list)) \cap removed = {}
    /\ flag = ToSet(leased_list)

\* A future never gets the response to another request as its own, although
\* connections are reused, requests on them time out while their answer is on its
\* way, and one whose peer sent no valid response goes back to the pool with what
\* is unread: there err_code tells, and goes on to do so (README, section 5).
OwnResponse == \A r \in Requests : result[r] # "foreign"

\* Without one of these races (a caller leases a connection that the loop
\* thread is still working on or that is down; the loop thread cancels a timer
\* that another thread has only queued) no promise gets a second value or is dropped
\* without one, no assertion fails, and no timer is left that refers to a
\* connection which is deleted ("otherwise http_conn will become a hanging
\* pointer").
EndsCleanly ==
    ~raced =>
        /\ ~crashed
        /\ \A r \in Requests : result[r] # "broken"
        /\ \A r \in Requests : timer[r] \in {"queued", "armed"} => mine[r] \notin removed

\* Every future that send() returns gets its value, even if the peer never
\* answers, and every call of send() returns.
EveryRequestEnds ==
    \A r \in Requests : <>(result[r] # "none" \/ raced)

\* The same without the condition: the comment above
\* connection_reset_by_peer() says the timer is cancelled before the connection
\* goes, so no timer may refer to a deleted connection.  It does not hold when
\* two of the races above meet (README, section 5).
NoHangingPointer ==
    \A r \in Requests : timer[r] \in {"queued", "armed"} => mine[r] \notin removed

\* Every answer goes to the request it was sent for, through a pool whose lists
\* agree (add_connection, put_connection, remove_connection, receive).
LeasedForOwn == PoolConsistent /\ OwnResponse
=============================================================================
