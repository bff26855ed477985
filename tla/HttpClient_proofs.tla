-------------------------- MODULE HttpClient_proofs --------------------------
(***************************************************************************)
(* Theorems about the http client, for every number of requests and        *)
(* connections and every limit of a route.                                 *)
(*                                                                         *)
(*   PoolInv   the two lists hold each live connection once, within the    *)
(*             limit, and the leased flag says in which of them it is      *)
(*   UseInv    what a thread, a timer, an attempt to connect and the loop  *)
(*             thread may refer to: a connection of the pool, or one that  *)
(*             was deleted                                                 *)
(*   WireInv   all that is on the wire of a connection is the request its  *)
(*             promise is for, and only while it is leased, if its peer    *)
(*             has sent valid responses only                               *)
(*   CleanInv  without a race, a promise is open exactly while its         *)
(*             connection is leased and the loop thread is not working on  *)
(*             it, and only the request of such a promise has a timer      *)
(*                                                                         *)
(* Then about two more parts of the libraries (module LibParts): for any   *)
(* requests and files, what an http server answers is what was asked of a  *)
(* version of the file, and success of a mail means the server took it.    *)
(***************************************************************************)
EXTENDS HttpClient, LibParts, TLAPS

Known == ToSet(avail) \cup ToSet(leased_list)
Outside == {"start", "locked", "full", "waiting", "notified", "retry"}
Results == {"none", "resolve", "pending", "connect", "timeout", "ok", "invalid", "reset", "broken"}

HttpType ==
    /\ avail \in Seq(Conns) /\ leased_list \in Seq(Conns)
    /\ rpc \in [Requests -> Outside \cup {"send", "got", "future", "done"}]
    /\ mine \in [Requests -> Conns \cup {NoOne}]
    /\ up \subseteq Conns /\ starting \subseteq Conns /\ removed \subseteq Conns /\ bad \subseteq Conns
    /\ timer_id \in [Conns -> Requests \cup {NoOne}]
    /\ timer \in [Requests -> {"none", "queued", "armed", "over"}]
    /\ promise \in [Conns -> [req : Requests \cup {NoOne}, set : BOOLEAN]]
    /\ onwire \in [Conns -> Seq(Requests)]
    /\ lp \in [at : {"idle", "put", "cancel", "wakeup", "remove"}, conn : Conns \cup {NoOne}]
    /\ result \in [Requests -> Results]

Once(s) == \A i, j \in 1..Len(s) : s[i] = s[j] => i = j

PoolInv ==
    /\ active_conns <= max_conns_per_route
    /\ Once(avail) /\ Once(leased_list)
    /\ ToSet(avail) \cap ToSet(leased_list) = {}
    /\ Known \cap removed = {}
    /\ flag = ToSet(leased_list)

(* A thread between its lease and its send() holds router_mutex over a     *)
(* connection on which nothing is on its way, unless its peer has sent     *)
(* something that is no response.                                          *)
Sending(r) ==
    /\ mine[r] \in flag \ starting
    /\ promise[mine[r]].req = r
    /\ \/ mine[r] \in bad
       \/ onwire[mine[r]] = <<>> /\ lp # [at |-> "put", conn |-> mine[r]]

UseInv ==
    /\ lp.conn = NoOne <=> lp.at = "idle"
    /\ lp.conn \in Known \cup {NoOne}
    /\ up \subseteq Known \ starting
    /\ starting \subseteq flag \ {lp.conn}
    /\ \A h \in flag : promise[h].req # NoOne
    /\ \A h \in Conns : promise[h].req # NoOne => mine[promise[h].req] = h
    /\ \A r \in Requests : rpc[r] \in Outside => mine[r] = NoOne /\ timer[r] = "none"
    /\ \A r \in Requests : mine[r] \in Known \cup removed \cup {NoOne}
    /\ \A r \in Requests : timer[r] # "none" => mine[r] \in Conns \ starting
    /\ \A r \in Requests : rpc[r] \in {"locked", "send", "got"} => lock = r
    /\ \A r \in Requests : rpc[r] = "send" => Sending(r)

WireInv ==
    /\ \A h \in Conns : onwire[h] # <<>> =>
          /\ h \in Known \ starting
          /\ h \notin bad => onwire[h] = <<promise[h].req>> /\ h \in flag
    /\ lp.at = "put" => lp.conn \in flag /\ (onwire[lp.conn] = <<>> \/ lp.conn \in bad)

(* A timer that may still expire is the timer of the request its           *)
(* connection is leased for, unless it is just being cancelled.            *)
Timed(r) ==
    /\ mine[r] \in Conns /\ timer_id[mine[r]] = r
    /\ \/ mine[r] \in flag \ {lp.conn} /\ promise[mine[r]].req = r
       \/ lp.conn = mine[r] /\ lp.at \in {"put", "cancel"}

CleanInv ==
    ~raced =>
        /\ ~crashed
        /\ \A r \in Requests : result[r] # "broken"
        /\ \A h \in Conns : promise[h].req # NoOne => (~promise[h].set <=> h \in flag \ {lp.conn})
        /\ lp.at \in {"cancel", "wakeup"} => lp.conn \notin flag
        /\ \A r \in Requests : timer[r] \in {"queued", "armed"} => Timed(r)

HttpInv == HttpType /\ PoolInv /\ UseInv /\ WireInv /\ CleanInv

-----------------------------------------------------------------------------
(* The lists of the pool, as sets and by position.                         *)
LEMMA InList ==
    ASSUME NEW s \in Seq(Conns), NEW h
    PROVE  /\ h \in ToSet(s) <=> \E i \in 1..Len(s) : s[i] = h
           /\ h \in ToSet(s) => h \in Conns
<1>1. DOMAIN s = 1..Len(s)
  OBVIOUS
<1>2. h \in ToSet(s) <=> \E i \in 1..Len(s) : s[i] = h
  BY <1>1, Zenon DEF ToSet
<1> QED
  BY <1>2

(* emplace_back()                                                          *)
LEMMA PushBack ==
    ASSUME NEW s \in Seq(Conns), NEW h \in Conns, Once(s), h \notin ToSet(s)
    PROVE  /\ Append(s, h) \in Seq(Conns) /\ Len(Append(s, h)) = Len(s) + 1
           /\ ToSet(Append(s, h)) = ToSet(s) \cup {h}
           /\ Once(Append(s, h))
<1> DEFINE t == Append(s, h)
<1>1. t \in Seq(Conns) /\ Len(t) = Len(s) + 1 /\ t[Len(s) + 1] = h /\ Len(s) \in Nat
  OBVIOUS
<1>2. \A i \in 1..Len(s) : t[i] = s[i]
  OBVIOUS
<1> HIDE DEF t
<1>3. \A i \in 1..Len(s) : s[i] # h
  BY InList, Zenon
<1>4. \A g : g \in ToSet(t) <=> g \in ToSet(s) \/ g = h
  <2> SUFFICES ASSUME NEW g PROVE g \in ToSet(t) <=> g \in ToSet(s) \/ g = h
    OBVIOUS
  <2>1. (\E i \in 1..Len(t) : t[i] = g) <=> (\E i \in 1..Len(s) : s[i] = g) \/ g = h
    BY <1>1, <1>2
  <2> QED
    BY <2>1, <1>1, InList, Zenon
<1>5. Once(t)
  BY <1>1, <1>2, <1>3 DEF Once
<1> QED
  BY <1>1, <1>4, <1>5 DEF t

(* back() and pop_back()                                                   *)
LEMMA PopBack ==
    ASSUME NEW s \in Seq(Conns), Once(s), s # <<>>
    PROVE  /\ Last(s) \in ToSet(s) /\ Last(s) \in Conns
           /\ Front(s) \in Seq(Conns) /\ Len(Front(s)) = Len(s) - 1
           /\ ToSet(Front(s)) = ToSet(s) \ {Last(s)}
           /\ Once(Front(s))
<1> DEFINE t == Front(s)
           n == Len(s)
<1>1. n \in Nat /\ n >= 1 /\ Last(s) = s[n]
  BY DEF Last
<1>m. n - 1 \in 0..Len(s)
  BY <1>1
<1>2. t \in Seq(Conns) /\ Len(t) = n - 1 /\ \A i \in 1..(n - 1) : t[i] = s[i]
  <2> DEFINE m == n - 1
  <2>1. t = SubSeq(s, 1, m)
    BY DEF Front
  <2>2. m \in 0..Len(s)
    BY <1>m
  <2> HIDE DEF m
  <2>3. SubSeq(s, 1, m) \in Seq(Conns) /\ Len(SubSeq(s, 1, m)) = m
    BY <2>2
  <2>4. \A i \in 1..m : SubSeq(s, 1, m)[i] = s[i]
    BY <2>2
  <2> QED
    BY <2>1, <2>3, <2>4 DEF m
<1> HIDE DEF t
<1>3. \A g : g \in ToSet(t) <=> g \in ToSet(s) /\ g # s[n]
  <2> SUFFICES ASSUME NEW g PROVE g \in ToSet(t) <=> g \in ToSet(s) /\ g # s[n]
    OBVIOUS
  <2>1. (\E i \in 1..Len(t) : t[i] = g) <=> (\E i \in 1..n : s[i] = g) /\ g # s[n]
    BY <1>1, <1>2 DEF Once
  <2> QED
    BY <2>1, <1>2, InList, Zenon
<1>4. Once(t)
  BY <1>1, <1>2 DEF Once
<1>5. s[n] \in ToSet(s) /\ s[n] \in Conns
  BY <1>1, InList
<1> QED
  BY <1>1, <1>2, <1>3, <1>4, <1>5 DEF t

(* release_connection() and remove_connection() take out one connection.   *)
LEMMA SwappedOut ==
    ASSUME NEW s \in Seq(Conns), NEW h, Once(s), h \in ToSet(s)
    PROVE  /\ SwapOut(s, h) \in Seq(Conns) /\ Len(SwapOut(s, h)) = Len(s) - 1
           /\ ToSet(SwapOut(s, h)) = ToSet(s) \ {h}
           /\ Once(SwapOut(s, h))
<1> DEFINE n == Len(s)
           i == CHOOSE i \in 1..Len(s) : s[i] = h
           u == [s EXCEPT ![i] = Last(s)]
           t == Front(u)
<1>1. i \in 1..n /\ s[i] = h
  BY InList, Zenon
<1> HIDE DEF i
<1>2. n \in Nat /\ n >= 1 /\ Last(s) = s[n] /\ s[n] \in Conns /\ h \in Conns
  BY <1>1 DEF Last
<1>3. u \in Seq(Conns) /\ Len(u) = n /\ \A j \in 1..n : u[j] = IF j = i THEN s[n] ELSE s[j]
  BY <1>1, <1>2
<1> HIDE DEF u
<1>4. t \in Seq(Conns) /\ Len(t) = n - 1 /\ \A j \in 1..(n - 1) : t[j] = u[j]
  BY <1>2, <1>3 DEF Front
<1> HIDE DEF t
<1>5. \A j \in 1..(n - 1) : t[j] = IF j = i THEN s[n] ELSE s[j]
  BY <1>2, <1>3, <1>4
<1>6. \A g : g \in ToSet(t) <=> g \in ToSet(s) /\ g # h
  <2> SUFFICES ASSUME NEW g PROVE g \in ToSet(t) <=> g \in ToSet(s) /\ g # h
    OBVIOUS
  <2>1. ASSUME NEW j \in 1..Len(t), t[j] = g PROVE (\E k \in 1..n : s[k] = g) /\ g # h
    BY <2>1, <1>1, <1>2, <1>4, <1>5 DEF Once
  <2>2. ASSUME NEW k \in 1..n, s[k] = g, g # h PROVE \E j \in 1..Len(t) : t[j] = g
    <3>1. CASE k = n
      <4>1. i \in 1..(n - 1) /\ t[i] = g
        BY <3>1, <2>2, <1>1, <1>2, <1>5
      <4> QED
        BY <4>1, <1>4
    <3>2. CASE k # n
      <4>1. k \in 1..(n - 1) /\ t[k] = g
        BY <3>2, <2>2, <1>1, <1>2, <1>5
      <4> QED
        BY <4>1, <1>4
    <3> QED
      BY <3>1, <3>2
  <2> QED
    BY <2>1, <2>2, <1>4, InList, Zenon
<1>7. Once(t)
  BY <1>1, <1>2, <1>4, <1>5 DEF Once
<1>8. SwapOut(s, h) = t
  BY DEF SwapOut, t, u, i
<1> QED
  BY <1>4, <1>6, <1>7, <1>8

-----------------------------------------------------------------------------
(* Nothing that the invariant says of connections changes when a thread    *)
(* only takes or leaves router_mutex, waits, or ends.                      *)
LEMMA ThreadStep ==
    ASSUME HttpInv, UNCHANGED <<avail, leased_list, mine, conns, lp, crashed, raced>>,
           rpc' \in [Requests -> Outside \cup {"send", "got", "future", "done"}],
           result' \in [Requests -> Results],
           \A q \in Requests : result'[q] = "broken" => result[q] = "broken",
           \A q \in Requests : rpc'[q] \in Outside => rpc[q] \in Outside,
           \A q \in Requests : rpc'[q] = "send" => rpc[q] = "send",
           \A q \in Requests : rpc'[q] \in {"locked", "send", "got"} => lock' = q
    PROVE  HttpInv'
<1> USE DEF HttpInv, conns
<1>1. HttpType'
  BY DEF HttpType
<1>2. PoolInv'
  BY DEF PoolInv, Known, active_conns, Once
<1>k. Known' = Known
  BY DEF Known
<1>3. UseInv'
  <2>1. \A q \in Requests : rpc'[q] \in Outside => mine'[q] = NoOne /\ timer'[q] = "none"
    BY DEF UseInv
  <2>2. \A q \in Requests : rpc'[q] = "send" => Sending(q)'
    BY DEF UseInv, Sending
  <2> QED
    BY <1>k, <2>1, <2>2 DEF UseInv
<1>4. WireInv'
  BY DEF Known, WireInv
<1>5. CleanInv'
  BY DEF CleanInv, Timed
<1> QED
  BY <1>1, <1>2, <1>3, <1>4, <1>5

(* send() before it has a connection, and after it.                        *)
LEMMA CallerSteps ==
    ASSUME HttpInv, NEW r \in Requests,
           \/ Lock(r) \/ NoAddress(r) \/ Unlock(r) \/ Full(r)
           \/ EnterWait(r) \/ PendingTimeout(r) \/ Notified(r)
    PROVE  HttpInv'
<1>t. rpc \in [Requests -> Outside \cup {"send", "got", "future", "done"}]
      /\ result \in [Requests -> Results]
  BY DEF HttpInv, HttpType
<1>l. \A q \in Requests : rpc[q] \in {"locked", "send", "got"} => lock = q
  BY DEF HttpInv, UseInv
<1>n. NoOne \notin Requests
  BY PoolAssumption
<1>1. CASE Lock(r)
  BY <1>1, <1>t, <1>l, <1>n, ThreadStep DEF Lock, Thread, Go, Outside
<1>2. CASE NoAddress(r)
  BY <1>2, <1>t, <1>l, <1>n, ThreadStep DEF NoAddress, Thread, Go, End, Outside, Results
<1>3. CASE Unlock(r)
  BY <1>3, <1>t, <1>l, <1>n, ThreadStep DEF Unlock, Thread, Go, Outside
<1>4. CASE Full(r)
  BY <1>4, <1>t, <1>l, <1>n, ThreadStep DEF Full, Thread, Go, Outside
<1>5. CASE EnterWait(r)
  BY <1>5, <1>t, <1>l, <1>n, ThreadStep DEF EnterWait, Thread, Go, Outside
<1>6. CASE PendingTimeout(r)
  BY <1>6, <1>t, <1>l, <1>n, ThreadStep DEF PendingTimeout, Thread, Go, End, Outside, Results, pool
<1>7. CASE Notified(r)
  BY <1>7, <1>t, <1>l, <1>n, ThreadStep DEF Notified, Thread, Go, Outside, pool
<1> QED
  BY <1>1, <1>2, <1>3, <1>4, <1>5, <1>6, <1>7

(* add_connection(): a connection nobody refers to joins the leased list.  *)
LEMMA AddStep ==
    ASSUME HttpInv, NEW r \in Requests, AddConnection(r)
    PROVE  HttpInv'
<1> PICK h \in Unused :
          /\ leased_list' = Append(leased_list, h) /\ starting' = starting \cup {h}
          /\ flag' = flag \cup {h} /\ mine' = [mine EXCEPT ![r] = h]
          /\ promise' = [promise EXCEPT ![h] = [req |-> r, set |-> FALSE]]
  BY Zenon DEF AddConnection
<1>u. /\ UNCHANGED <<avail, lock, up, removed, bad, timer_id, timer, onwire, lp, result, crashed, raced>>
      /\ rpc' = [rpc EXCEPT ![r] = "got"]
      /\ rpc[r] = "locked" /\ active_conns < max_conns_per_route
  BY DEF AddConnection, Thread, Go
<1>t. HttpType /\ PoolInv /\ UseInv /\ WireInv /\ CleanInv
  BY DEF HttpInv
<1>n. NoOne \notin Requests /\ NoOne \notin Conns
  BY PoolAssumption
<1>h. h \in Conns /\ h \notin Known /\ h \notin removed /\ h \notin ToSet(leased_list)
  BY DEF Unused, Known
<1>f. h \notin flag /\ h # lp.conn /\ \A q \in Requests : mine[q] # h
  BY <1>t, <1>h, <1>n DEF PoolInv, UseInv
<1>r. mine[r] = NoOne /\ timer[r] = "none" /\ lock = r
  BY <1>t, <1>u DEF UseInv, Outside
<1>p. \A g \in Conns : promise[g].req # r
  BY <1>t, <1>r, <1>n DEF UseInv
<1>q. \A g \in Conns : promise'[g] = IF g = h THEN [req |-> r, set |-> FALSE] ELSE promise[g]
  BY <1>t, <1>h DEF HttpType
<1>m. \A q \in Requests : mine'[q] = IF q = r THEN h ELSE mine[q]
  BY <1>t DEF HttpType
<1>c. \A q \in Requests : rpc'[q] = IF q = r THEN "got" ELSE rpc[q]
  BY <1>t, <1>u DEF HttpType
<1>w. onwire[h] = <<>>
  BY <1>t, <1>h, <1>f DEF Known, WireInv
<1>s. /\ leased_list' \in Seq(Conns) /\ Len(leased_list') = Len(leased_list) + 1
      /\ ToSet(leased_list') = ToSet(leased_list) \cup {h} /\ Once(leased_list')
  BY <1>t, <1>h, PushBack, Zenon DEF HttpType, PoolInv
<1>1. HttpType'
  BY <1>t, <1>u, <1>h, <1>s DEF HttpType
<1>2. PoolInv'
  <2>1. active_conns' <= max_conns_per_route
    BY <1>s, <1>u, <1>t, PoolAssumption DEF active_conns, HttpType
  <2> QED
    BY <2>1, <1>s, <1>u, <1>t, <1>h DEF PoolInv, Known, Once
<1>k. Known' = Known \cup {h}
  BY <1>s, <1>u DEF Known
<1>3. UseInv'
  <2>1. starting' \subseteq flag' \ {lp'.conn}
    BY <1>t, <1>f, <1>u DEF UseInv
  <2>2. \A g \in flag' : promise'[g].req # NoOne
    BY <1>t, <1>q, <1>n, <1>h DEF UseInv, PoolInv, HttpType, Known
  <2>3. \A g \in Conns : promise'[g].req # NoOne => mine'[promise'[g].req] = g
    BY <1>t, <1>q, <1>m, <1>p, <1>n DEF UseInv, HttpType
  <2>4. \A q \in Requests : rpc'[q] \in Outside => mine'[q] = NoOne /\ timer'[q] = "none"
    BY <1>t, <1>c, <1>m, <1>u DEF UseInv, Outside
  <2>5. \A q \in Requests : mine'[q] \in Known' \cup removed' \cup {NoOne}
    BY <1>t, <1>m, <1>u, <1>k DEF UseInv
  <2>6. \A q \in Requests : timer'[q] # "none" => mine'[q] \in Conns \ starting'
    BY <1>t, <1>m, <1>u, <1>f, <1>r DEF UseInv
  <2>7. \A q \in Requests : rpc'[q] \in {"locked", "send", "got"} => lock' = q
    BY <1>t, <1>c, <1>u, <1>r DEF UseInv
  <2>8. \A q \in Requests : rpc'[q] = "send" => Sending(q)'
    BY <1>t, <1>c, <1>m, <1>u, <1>q, <1>f DEF UseInv, Sending, HttpType
  <2>9. lp'.conn \in Known' \cup {NoOne} /\ up' \subseteq Known' \ starting' /\ (lp'.conn = NoOne <=> lp'.at = "idle")
    BY <1>t, <1>u, <1>k, <1>h DEF UseInv
  <2> QED
    BY <2>1, <2>2, <2>3, <2>4, <2>5, <2>6, <2>7, <2>8, <2>9 DEF UseInv
<1>4. WireInv'
  BY <1>t, <1>u, <1>q, <1>w, <1>h, <1>k DEF WireInv
<1>5. CleanInv'
  <2>1. ASSUME ~raced, NEW q \in Requests, timer[q] \in {"queued", "armed"} PROVE Timed(q)'
    <3>1. Timed(q) /\ q # r
      BY <2>1, <1>t, <1>r DEF CleanInv
    <3> QED
      BY <3>1, <1>m, <1>q, <1>u, <1>f DEF Timed
  <2>2. ASSUME ~raced
        PROVE  \A g \in Conns : promise'[g].req # NoOne => (~promise'[g].set <=> g \in flag' \ {lp'.conn})
    BY <2>2, <1>t, <1>q, <1>u, <1>f DEF CleanInv
  <2> QED
    BY <2>1, <2>2, <1>t, <1>u, <1>f DEF CleanInv
<1> QED
  BY <1>1, <1>2, <1>3, <1>4, <1>5 DEF HttpInv

(* lease_connection(): a connection with an empty wire and no timer gets a *)
(* new promise.                                                            *)
LEMMA LeaseStep ==
    ASSUME HttpInv, NEW r \in Requests, Lease(r)
    PROVE  HttpInv'
<1> DEFINE h == Last(avail)
<1>u. /\ avail # <<>> /\ avail' = Front(avail) /\ leased_list' = Append(leased_list, h)
      /\ promise' = [promise EXCEPT ![h] = [req |-> r, set |-> FALSE]]
      /\ flag' = flag \cup {h} /\ mine' = [mine EXCEPT ![r] = h]
      /\ UNCHANGED <<lock, up, starting, removed, bad, timer_id, timer, onwire, lp, result, crashed>>
      /\ rpc' = [rpc EXCEPT ![r] = "send"] /\ rpc[r] = "locked"
  BY DEF Lease, Thread, Go
<1>x. ~raced' => ~raced /\ h \in up /\ h # lp.conn
  BY DEF Lease
<1>t. HttpType /\ PoolInv /\ UseInv /\ WireInv /\ CleanInv
  BY DEF HttpInv
<1>n. NoOne \notin Requests /\ NoOne \notin Conns
  BY PoolAssumption
<1>a. /\ h \in ToSet(avail) /\ h \in Conns
      /\ avail' \in Seq(Conns) /\ Len(avail') = Len(avail) - 1
      /\ ToSet(avail') = ToSet(avail) \ {h} /\ Once(avail')
  BY <1>t, <1>u, PopBack, Zenon DEF HttpType, PoolInv
<1> HIDE DEF h
<1>h. h \in Known /\ h \notin removed /\ h \notin ToSet(leased_list) /\ h \notin flag
  BY <1>t, <1>a DEF PoolInv, Known
<1>s. /\ leased_list' \in Seq(Conns) /\ Len(leased_list') = Len(leased_list) + 1
      /\ ToSet(leased_list') = ToSet(leased_list) \cup {h} /\ Once(leased_list')
  BY <1>t, <1>u, <1>a, <1>h, PushBack, Zenon DEF HttpType, PoolInv
<1>r. mine[r] = NoOne /\ timer[r] = "none" /\ lock = r
  BY <1>t, <1>u DEF UseInv, Outside
<1>p. \A g \in Conns : promise[g].req # r
  BY <1>t, <1>r, <1>n DEF UseInv
<1>q. \A g \in Conns : promise'[g] = IF g = h THEN [req |-> r, set |-> FALSE] ELSE promise[g]
  BY <1>t, <1>u, <1>h DEF HttpType
<1>m. \A q \in Requests : mine'[q] = IF q = r THEN h ELSE mine[q]
  BY <1>t, <1>u DEF HttpType
<1>c. \A q \in Requests : rpc'[q] = IF q = r THEN "send" ELSE rpc[q]
  BY <1>t, <1>u DEF HttpType
<1>w. (onwire[h] = <<>> \/ h \in bad) /\ h \notin starting /\ lp # [at |-> "put", conn |-> h]
  BY <1>t, <1>h, <1>a DEF WireInv, UseInv
<1>1. HttpType'
  BY <1>t, <1>u, <1>a, <1>s DEF HttpType
<1>2. PoolInv'
  <2>1. active_conns' <= max_conns_per_route
    BY <1>s, <1>a, <1>t, PoolAssumption DEF active_conns, HttpType, PoolInv
  <2>2. Once(avail)' /\ Once(leased_list)'
    BY <1>a, <1>s DEF Once
  <2> QED
    BY <2>1, <2>2, <1>s, <1>a, <1>u, <1>t, <1>h DEF PoolInv, Known
<1>k. Known' = Known
  BY <1>s, <1>a DEF Known
<1>3. UseInv'
  <2>1. starting' \subseteq flag' \ {lp'.conn}
    BY <1>t, <1>u DEF UseInv
  <2>2. \A g \in flag' : promise'[g].req # NoOne
    BY <1>t, <1>u, <1>q, <1>n, <1>a, InList DEF UseInv, PoolInv, HttpType
  <2>3. \A g \in Conns : promise'[g].req # NoOne => mine'[promise'[g].req] = g
    <3> SUFFICES ASSUME NEW g \in Conns, promise'[g].req # NoOne PROVE mine'[promise'[g].req] = g
      OBVIOUS
    <3>1. CASE g = h
      BY <3>1, <1>q, <1>m
    <3>2. CASE g # h
      <4>1. promise'[g].req = promise[g].req /\ promise[g].req # r
        BY <3>2, <1>q, <1>p
      <4>2. promise[g].req \in Requests /\ mine[promise[g].req] = g
        BY <4>1, <1>t DEF HttpType, UseInv
      <4> QED
        BY <4>1, <4>2, <1>m
    <3> QED
      BY <3>1, <3>2
  <2>4. \A q \in Requests : rpc'[q] \in Outside => mine'[q] = NoOne /\ timer'[q] = "none"
    BY <1>t, <1>c, <1>m, <1>u DEF UseInv, Outside
  <2>5. \A q \in Requests : mine'[q] \in Known' \cup removed' \cup {NoOne}
    BY <1>t, <1>m, <1>u, <1>k, <1>h DEF UseInv
  <2>6. \A q \in Requests : timer'[q] # "none" => mine'[q] \in Conns \ starting'
    BY <1>t, <1>m, <1>u, <1>r DEF UseInv
  <2>7. \A q \in Requests : rpc'[q] \in {"locked", "send", "got"} => lock' = q
    BY <1>t, <1>c, <1>u, <1>r DEF UseInv
  <2>8. \A q \in Requests : rpc'[q] = "send" => Sending(q)'
    <3>1. ASSUME NEW q \in Requests, rpc'[q] = "send" PROVE q = r
      BY <3>1, <1>t, <1>c, <1>r DEF UseInv
    <3>2. Sending(r)'
      BY <1>m, <1>q, <1>w, <1>u, <1>a DEF Sending
    <3> QED
      BY <3>1, <3>2
  <2>9. lp'.conn \in Known' \cup {NoOne} /\ up' \subseteq Known' \ starting' /\ (lp'.conn = NoOne <=> lp'.at = "idle")
    BY <1>t, <1>u, <1>k DEF UseInv
  <2> QED
    BY <2>1, <2>2, <2>3, <2>4, <2>5, <2>6, <2>7, <2>8, <2>9 DEF UseInv
<1>4. WireInv'
  BY <1>t, <1>u, <1>q, <1>w, <1>k DEF WireInv
<1>5. CleanInv'
  <2> SUFFICES ASSUME ~raced' PROVE CleanInv'
    BY DEF CleanInv
  <2>1. ASSUME NEW q \in Requests, timer[q] \in {"queued", "armed"} PROVE Timed(q)'
    <3>1. Timed(q) /\ q # r
      BY <2>1, <1>x, <1>t, <1>r DEF CleanInv
    <3>2. mine[q] # h
      BY <3>1, <1>x, <1>h DEF Timed
    <3> QED
      BY <3>1, <3>2, <1>m, <1>q, <1>u DEF Timed
  <2>2. \A g \in Conns : promise'[g].req # NoOne => (~promise'[g].set <=> g \in flag' \ {lp'.conn})
    BY <1>x, <1>t, <1>q, <1>u DEF CleanInv
  <2> QED
    BY <2>1, <2>2, <1>x, <1>t, <1>u DEF CleanInv
<1> QED
  BY <1>1, <1>2, <1>3, <1>4, <1>5 DEF HttpInv

(* send() on a leased connection: it goes on an empty wire.                *)
LEMMA SendRequestStep ==
    ASSUME HttpInv, NEW r \in Requests, SendRequest(r)
    PROVE  HttpInv'
<1> DEFINE h == mine[r]
<1>u. /\ UNCHANGED <<avail, leased_list, lock, mine, up, starting, flag, removed, bad, promise, lp, result>>
      /\ rpc' = [rpc EXCEPT ![r] = "got"] /\ rpc[r] = "send"
  BY DEF SendRequest, Thread, Go, pool
<1>x. ~raced' => ~raced /\ h \in up /\ h # lp.conn
  BY DEF SendRequest
<1>o. \/ crashed' = TRUE /\ raced' /\ UNCHANGED <<onwire, timer, timer_id>>
      \/ /\ onwire' = [onwire EXCEPT ![h] = Append(@, r)]
         /\ timer' = [timer EXCEPT ![r] = "queued"]
         /\ timer_id' = [timer_id EXCEPT ![h] = r]
         /\ UNCHANGED crashed
  BY DEF SendRequest
<1>t. HttpType /\ PoolInv /\ UseInv /\ WireInv /\ CleanInv
  BY DEF HttpInv
<1>n. NoOne \notin Requests /\ NoOne \notin Conns
  BY PoolAssumption
<1>h. Sending(r) /\ lock = r /\ h \in flag
  BY <1>t, <1>u DEF UseInv, Sending
<1>i. h \in Conns
  BY <1>h, <1>t, InList DEF PoolInv, HttpType
<1>c. \A q \in Requests : rpc'[q] = IF q = r THEN "got" ELSE rpc[q]
  BY <1>t, <1>u DEF HttpType
<1>e. promise[h].req = r /\ (onwire[h] = <<>> \/ h \in bad)
  BY <1>h DEF Sending
<1> HIDE DEF h
<1>f. onwire' = onwire \/ onwire' = [onwire EXCEPT ![h] = Append(@, r)]
  BY <1>o, Zenon
<1>g. timer' = timer \/ timer' = [timer EXCEPT ![r] = "queued"]
  BY <1>o, Zenon
<1>j. timer_id' = timer_id \/ timer_id' = [timer_id EXCEPT ![h] = r]
  BY <1>o, Zenon
<1>y. /\ timer \in [Requests -> {"none", "queued", "armed", "over"}]
      /\ timer_id \in [Conns -> Requests \cup {NoOne}]
      /\ onwire \in [Conns -> Seq(Requests)]
  BY <1>t DEF HttpType
<1>w. /\ onwire' \in [Conns -> Seq(Requests)]
      /\ \A g \in Conns : onwire'[g] = onwire[g] \/ (g = h /\ (g \in bad \/ onwire'[g] = <<promise[g].req>>))
  <2> DEFINE o == onwire[h]
             a == Append(o, r)
  <2>1. a \in Seq(Requests) /\ (o = <<>> => a = <<r>>)
    <3>1. o \in Seq(Requests)
      BY <1>y, <1>i
    <3>2. Append(<<>>, r) = <<r>>
      OBVIOUS
    <3>3. Append(o, r) \in Seq(Requests)
      BY <3>1
    <3> HIDE DEF o
    <3> QED
      BY <3>2, <3>3
  <2>2. onwire' = onwire \/ onwire' = [onwire EXCEPT ![h] = a]
    BY <1>f
  <2>3. o = <<>> \/ h \in bad
    BY <1>e
  <2> HIDE DEF a, o
  <2>4. onwire' \in [Conns -> Seq(Requests)]
    BY <2>1, <2>2, <1>y
  <2>5. ASSUME NEW g \in Conns, onwire'[g] # onwire[g]
        PROVE  g = h /\ (g \in bad \/ onwire'[g] = <<promise[g].req>>)
    BY <2>1, <2>2, <2>3, <2>5, <1>y, <1>i, <1>e
  <2> QED
    BY <2>4, <2>5
<1>v. \A q \in Requests : timer'[q] = timer[q] \/ (q = r /\ timer'[q] = "queued")
  BY <1>g, <1>y
<1>k. Known' = Known
  BY <1>u DEF Known
<1>1. HttpType'
  <2>1. onwire' \in [Conns -> Seq(Requests)]
    BY <1>w
  <2>2. /\ timer' \in [Requests -> {"none", "queued", "armed", "over"}]
        /\ timer_id' \in [Conns -> Requests \cup {NoOne}]
    BY <1>g, <1>j, <1>y, <1>i
  <2> QED
    BY <2>1, <2>2, <1>t, <1>u DEF HttpType
<1>2. PoolInv'
  BY <1>t, <1>u DEF PoolInv, Known, Once, active_conns
<1>3. UseInv'
  <2>4. \A q \in Requests : rpc'[q] \in Outside => mine'[q] = NoOne /\ timer'[q] = "none"
    BY <1>t, <1>c, <1>v, <1>u DEF UseInv, Outside
  <2>6. \A q \in Requests : timer'[q] # "none" => mine'[q] \in Conns \ starting'
    BY <1>t, <1>v, <1>u, <1>h, <1>i DEF UseInv, Sending, h
  <2>7. \A q \in Requests : rpc'[q] \in {"locked", "send", "got"} => lock' = q
    BY <1>t, <1>c, <1>u, <1>h DEF UseInv
  <2>8. \A q \in Requests : rpc'[q] # "send"
    BY <1>t, <1>c, <1>h DEF UseInv
  <2> QED
    BY <2>4, <2>6, <2>7, <2>8, <1>k, <1>t, <1>u DEF UseInv
<1>4. WireInv'
  <2>1. h \notin starting /\ (h \in bad \/ ~(lp.at = "put" /\ lp.conn = h))
    BY <1>h, <1>t DEF Sending, h, HttpType
  <2>2. \A g \in Conns : onwire'[g] # <<>> =>
           /\ g \in Known \ starting
           /\ g \notin bad => onwire'[g] = <<promise[g].req>> /\ g \in flag
    <3>1. h \in Known
      BY <1>h, <1>t DEF PoolInv, Known
    <3> QED
      BY <2>1, <3>1, <1>t, <1>w, <1>h DEF WireInv
  <2>3. lp.at = "put" => lp.conn \in flag /\ (onwire'[lp.conn] = <<>> \/ lp.conn \in bad)
    <3>1. lp.at = "put" => lp.conn \in Conns
      BY <1>t, <1>n DEF UseInv, HttpType
    <3> QED
      BY <2>1, <3>1, <1>t, <1>w DEF WireInv
  <2> QED
    BY <2>2, <2>3, <1>u, <1>k DEF WireInv
<1>5. CleanInv'
  <2> SUFFICES ASSUME ~raced' PROVE CleanInv'
    BY DEF CleanInv
  <2>0. ~raced /\ h # lp.conn
    BY <1>x
  <2>1. /\ \A q \in Requests : timer'[q] = IF q = r THEN "queued" ELSE timer[q]
        /\ \A g \in Conns : timer_id'[g] = IF g = h THEN r ELSE timer_id[g]
        /\ UNCHANGED crashed
    BY <1>o, <1>t, <1>i DEF HttpType
  <2>2. ASSUME NEW q \in Requests, timer'[q] \in {"queued", "armed"} PROVE Timed(q)'
    <3>1. CASE q = r
      BY <3>1, <2>0, <2>1, <1>h, <1>i, <1>u DEF Timed, Sending, h
    <3>2. CASE q # r
      <4>1. Timed(q)
        BY <3>2, <2>0, <2>1, <2>2, <1>t DEF CleanInv
      <4>2. mine[q] # h
        BY <4>1, <3>2, <2>0, <1>h DEF Timed, Sending, h
      <4> QED
        BY <4>1, <4>2, <2>1, <1>u DEF Timed
    <3> QED
      BY <3>1, <3>2
  <2> QED
    BY <2>0, <2>1, <2>2, <1>t, <1>u DEF CleanInv
<1> QED
  BY <1>1, <1>2, <1>3, <1>4, <1>5 DEF HttpInv

-----------------------------------------------------------------------------
(* What the loop thread has to keep outside put_connection() and           *)
(* remove_connection(), which alone change the pool.                       *)
LEMMA LoopStep ==
    ASSUME HttpInv, HttpType', WireInv', CleanInv',
           UNCHANGED <<avail, leased_list, lock, rpc, mine, flag, removed>>,
           \A g \in Conns : promise'[g].req = promise[g].req,
           lp'.conn = NoOne <=> lp'.at = "idle",
           lp'.conn \in Known \cup {NoOne}, up' \subseteq Known \ starting',
           starting' \subseteq starting \ {lp'.conn},
           \A q \in Requests : rpc[q] \in Outside => timer'[q] = "none",
           \A q \in Requests : timer'[q] # "none" => mine[q] \in Conns \ starting',
           \A q \in Requests : rpc[q] = "send" =>
              \/ mine[q] \in bad'
              \/ onwire'[mine[q]] = <<>> /\ lp' # [at |-> "put", conn |-> mine[q]]
    PROVE  HttpInv'
<1>t. HttpType /\ PoolInv /\ UseInv
  BY DEF HttpInv
<1>k. Known' = Known
  BY DEF Known
<1>2. PoolInv'
  BY <1>t DEF PoolInv, Known, Once, active_conns
<1>f. \A g \in flag : g \in Conns
  BY <1>t, InList DEF PoolInv, HttpType
<1>3. UseInv'
  <2>1. starting' \subseteq flag' \ {lp'.conn}
    BY <1>t DEF UseInv
  <2>2. \A g \in flag' : promise'[g].req # NoOne
    BY <1>t, <1>f DEF UseInv
  <2>3. \A g \in Conns : promise'[g].req # NoOne => mine'[promise'[g].req] = g
    BY <1>t DEF UseInv
  <2>4. \A q \in Requests : rpc'[q] \in Outside => mine'[q] = NoOne /\ timer'[q] = "none"
    BY <1>t DEF UseInv
  <2>5. \A q \in Requests : mine'[q] \in Known' \cup removed' \cup {NoOne}
    BY <1>t, <1>k DEF UseInv
  <2>6. \A q \in Requests : timer'[q] # "none" => mine'[q] \in Conns \ starting'
    OBVIOUS
  <2>7. \A q \in Requests : rpc'[q] \in {"locked", "send", "got"} => lock' = q
    BY <1>t DEF UseInv
  <2>8. ASSUME NEW q \in Requests, rpc'[q] = "send" PROVE Sending(q)'
    <3>1. mine[q] \in flag \ starting /\ promise[mine[q]].req = q
      BY <2>8, <1>t DEF UseInv, Sending
    <3> QED
      BY <2>8, <3>1, <1>f DEF Sending
  <2> QED
    BY <2>1, <2>2, <2>3, <2>4, <2>5, <2>6, <2>7, <2>8, <1>k DEF UseInv
<1> QED
  BY <1>2, <1>3 DEF HttpInv

(* set_value() of a promise that is open does not throw.                   *)
LEMMA ValueSet ==
    ASSUME HttpType, NEW h \in Conns, NEW how \in Results, SetValue(h, how)
    PROVE  /\ promise' \in [Conns -> [req : Requests \cup {NoOne}, set : BOOLEAN]]
           /\ result' \in [Requests -> Results]
           /\ \A g \in Conns : promise'[g].req = promise[g].req
           /\ \A g \in Conns : g # h => promise'[g].set = promise[g].set
           /\ how # "broken" => \A q \in Requests : result'[q] = "broken" => result[q] = "broken"
           /\ ~promise[h].set /\ promise[h].req # NoOne => promise'[h].set /\ crashed' = crashed
<1>1. CASE promise[h].set \/ promise[h].req = NoOne
  <2>1. UNCHANGED <<promise, result>>
    BY <1>1 DEF SetValue
  <2> QED
    BY <2>1, <1>1 DEF HttpType
<1>2. CASE ~(promise[h].set \/ promise[h].req = NoOne)
  <2> DEFINE p == promise[h].req
  <2>1. /\ promise' = [promise EXCEPT ![h].set = TRUE]
        /\ result' = [result EXCEPT ![p] = how]
        /\ crashed' = crashed
    BY <1>2 DEF SetValue
  <2>2. promise \in [Conns -> [req : Requests \cup {NoOne}, set : BOOLEAN]]
        /\ result \in [Requests -> Results]
    BY DEF HttpType
  <2>3. /\ promise' \in [Conns -> [req : Requests \cup {NoOne}, set : BOOLEAN]]
        /\ \A g \in Conns : promise'[g].req = promise[g].req
        /\ \A g \in Conns : g # h => promise'[g].set = promise[g].set
        /\ promise'[h].set
    BY <2>1, <2>2
  <2>4. /\ result' \in [Requests -> Results]
        /\ how # "broken" => \A q \in Requests : result'[q] = "broken" => result[q] = "broken"
    <3> HIDE DEF p
    <3> QED
      BY <2>1, <2>2
  <2> QED
    BY <2>1, <2>3, <2>4
<1> QED
  BY <1>1, <1>2

(* cancel_request_timeout_timer() leaves no timer of the connection, or a  *)
(* race is recorded.                                                       *)
LEMMA TimerCancelled ==
    ASSUME HttpType, NEW h \in Conns, CancelTimer(h)
    PROVE  /\ timer_id' \in [Conns -> Requests \cup {NoOne}]
           /\ timer' \in [Requests -> {"none", "queued", "armed", "over"}]
           /\ \A g \in Conns : g # h => timer_id'[g] = timer_id[g]
           /\ \A q \in Requests : timer'[q] = timer[q] \/ (timer'[q] = "over" /\ timer[q] = "armed")
           /\ ~raced' => ~raced
           /\ ~raced' => \A q \in Requests : timer_id[h] = q => timer'[q] \notin {"queued", "armed"}
<1>n. NoOne \notin Requests
  BY PoolAssumption
<1>y. timer_id \in [Conns -> Requests \cup {NoOne}]
      /\ timer \in [Requests -> {"none", "queued", "armed", "over"}]
  BY DEF HttpType
<1>1. CASE timer_id[h] = NoOne
  <2>1. UNCHANGED <<timer, timer_id, raced>>
    BY <1>1 DEF CancelTimer
  <2> QED
    BY <2>1, <1>1, <1>y, <1>n
<1>2. CASE timer_id[h] # NoOne
  <2> DEFINE t == timer_id[h]
  <2>1. /\ raced' = (raced \/ timer[t] = "queued")
        /\ timer' = [timer EXCEPT ![t] = IF @ = "armed" THEN "over" ELSE @]
        /\ timer_id' = [timer_id EXCEPT ![h] = NoOne]
    BY <1>2 DEF CancelTimer
  <2>2. t \in Requests
    BY <1>2, <1>y
  <2>3. timer_id' \in [Conns -> Requests \cup {NoOne}] /\ \A g \in Conns : g # h => timer_id'[g] = timer_id[g]
    BY <2>1, <1>y
  <2> HIDE DEF t
  <2>4. \A q \in Requests : timer'[q] = IF q = t /\ timer[q] = "armed" THEN "over" ELSE timer[q]
    BY <2>1, <2>2, <1>y
  <2>5. timer' \in [Requests -> {"none", "queued", "armed", "over"}]
    BY <2>1, <2>2, <1>y
  <2>6. ~raced' => ~raced /\ timer[t] # "queued"
    BY <2>1
  <2> QED
    BY <2>2, <2>3, <2>4, <2>5, <2>6 DEF t
<1> QED
  BY <1>1, <1>2

(* add_timer_in_loop() of a timer that another thread queued.              *)
LEMMA AddTimerStep ==
    ASSUME HttpInv, NEW r \in Requests, AddTimer(r)
    PROVE  HttpInv'
<1>t. HttpType /\ PoolInv /\ UseInv /\ WireInv /\ CleanInv
  BY DEF HttpInv
<1>u. /\ UNCHANGED <<avail, leased_list, lock, rpc, mine, up, starting, flag, removed, bad, timer_id>>
      /\ UNCHANGED <<promise, onwire, lp, result, crashed, raced>>
      /\ timer[r] = "queued" /\ timer' = [timer EXCEPT ![r] = "armed"]
  BY DEF AddTimer, pool
<1>v. \A q \in Requests : timer'[q] = IF q = r THEN "armed" ELSE timer[q]
  BY <1>t, <1>u DEF HttpType
<1>1. HttpType'
  BY <1>t, <1>u DEF HttpType
<1>2. WireInv'
  BY <1>t, <1>u DEF Known, WireInv
<1>3. CleanInv'
  BY <1>t, <1>u, <1>v DEF CleanInv, Timed
<1>4. \A q \in Requests : rpc[q] \in Outside => timer'[q] = "none"
  BY <1>t, <1>u, <1>v DEF UseInv
<1>5. \A q \in Requests : timer'[q] # "none" => mine[q] \in Conns \ starting'
  BY <1>t, <1>u, <1>v DEF UseInv
<1>6. \A q \in Requests : rpc[q] = "send" =>
         mine[q] \in bad' \/ (onwire'[mine[q]] = <<>> /\ lp' # [at |-> "put", conn |-> mine[q]])
  BY <1>t, <1>u DEF UseInv, Sending
<1>7. (lp'.conn = NoOne <=> lp'.at = "idle") /\ lp'.conn \in Known \cup {NoOne}
      /\ up' \subseteq Known \ starting' /\ starting' \subseteq starting \ {lp'.conn}
  BY <1>t, <1>u DEF UseInv
<1> QED
  BY <1>1, <1>2, <1>3, <1>4, <1>5, <1>6, <1>7, <1>u, LoopStep

(* connection_handler: the request goes on the wire of a new connection.   *)
LEMMA ConnectedStep ==
    ASSUME HttpInv, NEW h \in Conns, Connected(h)
    PROVE  HttpInv'
<1> DEFINE r == promise[h].req
<1>t. HttpType /\ PoolInv /\ UseInv /\ WireInv /\ CleanInv
  BY DEF HttpInv
<1>u. /\ UNCHANGED <<avail, leased_list, lock, rpc, mine, flag, removed, bad, promise, lp, result, crashed, raced>>
      /\ lp = Idle /\ h \in starting
      /\ starting' = starting \ {h} /\ up' = up \cup {h}
      /\ onwire' = [onwire EXCEPT ![h] = Append(@, r)]
      /\ timer' = [timer EXCEPT ![r] = "armed"]
      /\ timer_id' = [timer_id EXCEPT ![h] = r]
  BY DEF Connected, LoopAt, pool
<1>n. NoOne \notin Requests /\ NoOne \notin Conns
  BY PoolAssumption
<1>l. lp.conn = NoOne /\ lp.at = "idle"
  BY <1>u DEF Idle
<1>h. h \in flag /\ h \in Known
  BY <1>t, <1>u DEF UseInv, PoolInv, Known
<1>r. r \in Requests /\ mine[r] = h
  BY <1>t, <1>h DEF UseInv, HttpType
<1>e. onwire[h] = <<>>
  BY <1>t, <1>u DEF Known, WireInv
<1>y. /\ timer \in [Requests -> {"none", "queued", "armed", "over"}]
      /\ timer_id \in [Conns -> Requests \cup {NoOne}]
      /\ onwire \in [Conns -> Seq(Requests)]
  BY <1>t DEF HttpType
<1>s. \A q \in Requests : rpc[q] = "send" => mine[q] # h /\ (onwire[mine[q]] = <<>> \/ mine[q] \in bad) /\ mine[q] \in flag
  BY <1>t, <1>u DEF UseInv, Sending
<1>d. r = promise[h].req
  OBVIOUS
<1> HIDE DEF r
<1>f. onwire' = [onwire EXCEPT ![h] = <<r>>]
  <2>1. Append(<<>>, r) = <<r>>
    BY <1>r
  <2>2. [onwire EXCEPT ![h] = Append(@, r)] = [onwire EXCEPT ![h] = Append(<<>>, r)]
    BY <1>e, <1>y
  <2> QED
    BY <2>1, <2>2, <1>u, Zenon
<1>w. \A g \in Conns : onwire'[g] = IF g = h THEN <<r>> ELSE onwire[g]
  BY <1>f, <1>y
<1>v. \A q \in Requests : timer'[q] = IF q = r THEN "armed" ELSE timer[q]
  BY <1>u, <1>y
<1>i. \A g \in Conns : timer_id'[g] = IF g = h THEN r ELSE timer_id[g]
  BY <1>u, <1>y
<1>1. HttpType'
  <2>1. <<r>> \in Seq(Requests)
    BY <1>r
  <2>2. onwire' \in [Conns -> Seq(Requests)]
    BY <2>1, <1>f, <1>y
  <2>3. /\ timer' \in [Requests -> {"none", "queued", "armed", "over"}]
        /\ timer_id' \in [Conns -> Requests \cup {NoOne}]
    BY <1>u, <1>y, <1>r
  <2> QED
    BY <2>2, <2>3, <1>t, <1>u DEF HttpType
<1>2. WireInv'
  BY <1>t, <1>u, <1>w, <1>d, <1>h, <1>l DEF Known, WireInv
<1>3. CleanInv'
  <2> SUFFICES ASSUME ~raced' PROVE CleanInv'
    BY DEF CleanInv
  <2>1. ASSUME NEW q \in Requests, timer'[q] \in {"queued", "armed"} PROVE Timed(q)'
    <3>1. CASE q = r
      BY <3>1, <1>r, <1>i, <1>h, <1>d, <1>u, <1>l, <1>n DEF Timed
    <3>2. CASE q # r
      <4>1. Timed(q)
        BY <3>2, <2>1, <1>v, <1>t, <1>u DEF CleanInv
      <4>2. mine[q] # h
        BY <4>1, <3>2, <1>l, <1>n, <1>d DEF Timed
      <4> QED
        BY <4>1, <4>2, <1>i, <1>u DEF Timed
    <3> QED
      BY <3>1, <3>2
  <2> QED
    BY <2>1, <1>t, <1>u DEF CleanInv
<1>4. \A q \in Requests : rpc[q] \in Outside => timer'[q] = "none"
  BY <1>t, <1>v, <1>r, <1>n DEF UseInv
<1>5. \A q \in Requests : timer'[q] # "none" => mine[q] \in Conns \ starting'
  BY <1>t, <1>u, <1>v, <1>r DEF UseInv
<1>6. \A q \in Requests : rpc[q] = "send" =>
         mine[q] \in bad' \/ (onwire'[mine[q]] = <<>> /\ lp' # [at |-> "put", conn |-> mine[q]])
  BY <1>s, <1>u, <1>l, <1>w, <1>t, InList DEF PoolInv, HttpType
<1>7. (lp'.conn = NoOne <=> lp'.at = "idle") /\ lp'.conn \in Known \cup {NoOne}
      /\ up' \subseteq Known \ starting' /\ starting' \subseteq starting \ {lp'.conn}
  BY <1>t, <1>u, <1>h DEF UseInv
<1> QED
  BY <1>1, <1>2, <1>3, <1>4, <1>5, <1>6, <1>7, <1>u, LoopStep

(* connection_timeout_handler()                                            *)
LEMMA ConnectionTimeoutStep ==
    ASSUME HttpInv, NEW h \in Conns, ConnectionTimeout(h)
    PROVE  HttpInv'
<1>t. HttpType /\ PoolInv /\ UseInv /\ WireInv /\ CleanInv
  BY DEF HttpInv
<1>u. /\ UNCHANGED <<avail, leased_list, lock, rpc, mine, up, flag, removed, bad, timer_id, timer, onwire, raced>>
      /\ lp = Idle /\ h \in starting
      /\ starting' = starting \ {h}
      /\ SetValue(h, "connect") /\ lp' = [at |-> "remove", conn |-> h]
  BY DEF ConnectionTimeout, LoopAt, pool, At
<1>n. NoOne \notin Requests /\ NoOne \notin Conns
  BY PoolAssumption
<1>l. lp.conn = NoOne /\ lp.at = "idle" /\ lp'.conn = h /\ lp'.at = "remove"
  BY <1>u DEF Idle
<1>h. h \in flag /\ h \in Known /\ promise[h].req # NoOne
  BY <1>t, <1>u DEF UseInv, PoolInv, Known
<1>p. /\ promise' \in [Conns -> [req : Requests \cup {NoOne}, set : BOOLEAN]]
      /\ result' \in [Requests -> Results]
      /\ \A g \in Conns : promise'[g].req = promise[g].req
      /\ \A g \in Conns : g # h => promise'[g].set = promise[g].set
      /\ \A q \in Requests : result'[q] = "broken" => result[q] = "broken"
      /\ ~promise[h].set => promise'[h].set /\ crashed' = crashed
  BY <1>t, <1>u, <1>h, ValueSet DEF Results
<1>1. HttpType'
  BY <1>t, <1>u, <1>p DEF HttpType
<1>2. WireInv'
  BY <1>t, <1>u, <1>p, <1>l DEF Known, WireInv
<1>3. CleanInv'
  <2> SUFFICES ASSUME ~raced' PROVE CleanInv'
    BY DEF CleanInv
  <2>0. ~raced /\ ~promise[h].set
    BY <1>u, <1>t, <1>h, <1>l, <1>n DEF CleanInv
  <2>1. ASSUME NEW q \in Requests, timer'[q] \in {"queued", "armed"} PROVE Timed(q)'
    <3>1. Timed(q) /\ mine[q] # h
      BY <2>0, <2>1, <1>t, <1>u DEF CleanInv, UseInv
    <3> QED
      BY <3>1, <1>u, <1>l, <1>p, <1>n DEF Timed
  <2>2. \A g \in Conns : promise'[g].req # NoOne => (~promise'[g].set <=> g \in flag' \ {lp'.conn})
    BY <2>0, <1>t, <1>p, <1>l, <1>u, <1>n DEF CleanInv
  <2> QED
    BY <2>0, <2>1, <2>2, <1>t, <1>u, <1>p, <1>l DEF CleanInv
<1>4. \A q \in Requests : rpc[q] \in Outside => timer'[q] = "none"
  BY <1>t, <1>u DEF UseInv
<1>5. \A q \in Requests : timer'[q] # "none" => mine[q] \in Conns \ starting'
  BY <1>t, <1>u DEF UseInv
<1>6. \A q \in Requests : rpc[q] = "send" =>
         mine[q] \in bad' \/ (onwire'[mine[q]] = <<>> /\ lp' # [at |-> "put", conn |-> mine[q]])
  BY <1>t, <1>u, <1>l DEF UseInv, Sending
<1>7. (lp'.conn = NoOne <=> lp'.at = "idle") /\ lp'.conn \in Known \cup {NoOne}
      /\ up' \subseteq Known \ starting' /\ starting' \subseteq starting \ {lp'.conn}
  BY <1>t, <1>u, <1>l, <1>h, <1>n DEF UseInv
<1> QED
  BY <1>1, <1>2, <1>3, <1>4, <1>5, <1>6, <1>7, <1>u, <1>p, LoopStep

(* The timer of set_request_timeout_timer(): without a race it finds the   *)
(* promise of its own request open.                                        *)
LEMMA RequestTimeoutStep ==
    ASSUME HttpInv, NEW r \in Requests, RequestTimeout(r)
    PROVE  HttpInv'
<1> DEFINE h == mine[r]
<1>t. HttpType /\ PoolInv /\ UseInv /\ WireInv /\ CleanInv
  BY DEF HttpInv
<1>u. /\ UNCHANGED <<avail, leased_list, lock, rpc, mine, up, starting, flag, removed, bad, timer_id, onwire, raced>>
      /\ lp = Idle /\ timer[r] = "armed" /\ timer' = [timer EXCEPT ![r] = "over"]
  BY DEF RequestTimeout, LoopAt, pool
<1>o. \/ h \in removed /\ UNCHANGED <<promise, result, lp>>
      \/ h \notin removed /\ SetValue(h, "timeout") /\ lp' = [at |-> "remove", conn |-> h]
  BY DEF RequestTimeout, At
<1>n. NoOne \notin Requests /\ NoOne \notin Conns
  BY PoolAssumption
<1>l. lp.conn = NoOne /\ lp.at = "idle"
  BY <1>u DEF Idle
<1>h. h \in Conns /\ h \notin starting /\ (h \notin removed => h \in Known)
  BY <1>t, <1>u, <1>n DEF UseInv
<1>y. timer \in [Requests -> {"none", "queued", "armed", "over"}]
  BY <1>t DEF HttpType
<1>v. \A q \in Requests : timer'[q] = IF q = r THEN "over" ELSE timer[q]
  BY <1>u, <1>y
<1>d. h = mine[r]
  OBVIOUS
<1> HIDE DEF h
<1>p. /\ promise' \in [Conns -> [req : Requests \cup {NoOne}, set : BOOLEAN]]
      /\ result' \in [Requests -> Results]
      /\ \A g \in Conns : promise'[g].req = promise[g].req
      /\ \A q \in Requests : result'[q] = "broken" => result[q] = "broken"
  <2>1. CASE UNCHANGED <<promise, result, lp>>
    BY <2>1, <1>t DEF HttpType
  <2>2. CASE SetValue(h, "timeout")
    BY <2>2, <1>t, <1>h, ValueSet DEF Results
  <2> QED
    BY <2>1, <2>2, <1>o
<1>m. lp' = lp \/ (h \in Known /\ lp' = [at |-> "remove", conn |-> h])
  BY <1>o, <1>h
<1>a. /\ lp' = lp \/ (h \in Known /\ lp'.at = "remove" /\ lp'.conn = h)
      /\ lp' \in [at : {"idle", "put", "cancel", "wakeup", "remove"}, conn : Conns \cup {NoOne}]
  BY <1>m, <1>h, <1>t DEF HttpType
<1>1. HttpType'
  <2>1. timer' \in [Requests -> {"none", "queued", "armed", "over"}]
    BY <1>u, <1>y
  <2> QED
    BY <2>1, <1>t, <1>u, <1>p, <1>a DEF HttpType
<1>2. WireInv'
  BY <1>t, <1>u, <1>p, <1>a DEF Known, WireInv
<1>3. CleanInv'
  <2> SUFFICES ASSUME ~raced' PROVE CleanInv'
    BY DEF CleanInv
  <2>0. ~raced
    BY <1>u
  <2>1. Timed(r)
    BY <2>0, <1>t, <1>u DEF CleanInv
  <2>2. timer_id[h] = r /\ h \in flag /\ promise[h].req = r
    BY <2>1, <1>d, <1>l, <1>n DEF Timed
  <2>3. ~promise[h].set
    BY <2>0, <2>2, <1>t, <1>l, <1>n, <1>h DEF CleanInv
  <2>4. h \notin removed
    BY <2>2, <1>t DEF PoolInv, Known
  <2>5. SetValue(h, "timeout") /\ lp'.at = "remove" /\ lp'.conn = h
    BY <2>4, <1>o
  <2>6. /\ \A g \in Conns : g # h => promise'[g].set = promise[g].set
        /\ promise'[h].set /\ crashed' = crashed
    BY <2>2, <2>3, <2>5, <1>t, <1>h, <1>n, ValueSet DEF Results
  <2>7. ASSUME NEW q \in Requests, timer'[q] \in {"queued", "armed"} PROVE Timed(q)'
    <3>1. q # r /\ Timed(q)
      BY <2>0, <2>7, <1>v, <1>t DEF CleanInv
    <3>2. mine[q] # h
      BY <3>1, <2>2 DEF Timed
    <3> QED
      BY <3>1, <3>2, <1>u, <1>l, <2>5, <1>p, <1>n DEF Timed
  <2>8. \A g \in Conns : promise'[g].req # NoOne => (~promise'[g].set <=> g \in flag' \ {lp'.conn})
    BY <2>0, <2>5, <2>6, <1>t, <1>p, <1>l, <1>u, <1>n DEF CleanInv
  <2> QED
    BY <2>0, <2>5, <2>6, <2>7, <2>8, <1>t, <1>p DEF CleanInv
<1>4. \A q \in Requests : rpc[q] \in Outside => timer'[q] = "none"
  BY <1>t, <1>u, <1>v DEF UseInv
<1>5. \A q \in Requests : timer'[q] # "none" => mine[q] \in Conns \ starting'
  BY <1>t, <1>u, <1>v DEF UseInv
<1>6. \A q \in Requests : rpc[q] = "send" =>
         mine[q] \in bad' \/ (onwire'[mine[q]] = <<>> /\ lp' # [at |-> "put", conn |-> mine[q]])
  BY <1>t, <1>u, <1>a DEF UseInv, Sending
<1>7. (lp'.conn = NoOne <=> lp'.at = "idle") /\ lp'.conn \in Known \cup {NoOne}
      /\ up' \subseteq Known \ starting' /\ starting' \subseteq starting \ {lp'.conn}
  BY <1>t, <1>u, <1>a, <1>h, <1>n DEF UseInv
<1> QED
  BY <1>1, <1>2, <1>3, <1>4, <1>5, <1>6, <1>7, <1>u, <1>p, LoopStep

(* receive(): a future gets a value, and the connection is put back.  If   *)
(* its peer has sent valid responses only, nothing is left on the wire.    *)
LEMMA ReceivedStep ==
    ASSUME HttpInv, NEW h \in Conns, NEW how \in {"ok", "invalid"}, NEW rest \in Seq(Requests),
           SetValue(h, how), lp = Idle, lp' = [at |-> "put", conn |-> h],
           h \in up, h \in flag, onwire[h] # <<>>, onwire' = [onwire EXCEPT ![h] = rest],
           bad' \in {bad, bad \cup {h}}, h \in bad' \/ rest = <<>>,
           UNCHANGED <<avail, leased_list, lock, rpc, mine, up, starting, flag, removed, timer_id, timer, raced>>
    PROVE  HttpInv'
<1>t. HttpType /\ PoolInv /\ UseInv /\ WireInv /\ CleanInv
  BY DEF HttpInv
<1>n. NoOne \notin Requests /\ NoOne \notin Conns
  BY PoolAssumption
<1>l. lp.conn = NoOne /\ lp.at = "idle"
  BY DEF Idle
<1>h. h \notin starting /\ promise[h].req # NoOne
  BY <1>t DEF WireInv, UseInv
<1>k. h \in Known /\ Known' = Known
  BY <1>t DEF PoolInv, Known
<1>a. lp'.at = "put" /\ lp'.conn = h
  OBVIOUS
<1>w. \A g \in Conns : onwire'[g] = IF g = h THEN rest ELSE onwire[g]
  BY <1>t DEF HttpType
<1>b. bad \subseteq bad' /\ bad' \subseteq Conns /\ \A g \in Conns : g # h => (g \in bad' <=> g \in bad)
  BY <1>t DEF HttpType
<1>p. /\ promise' \in [Conns -> [req : Requests \cup {NoOne}, set : BOOLEAN]]
      /\ result' \in [Requests -> Results]
      /\ \A g \in Conns : promise'[g].req = promise[g].req
      /\ \A g \in Conns : g # h => promise'[g].set = promise[g].set
      /\ \A q \in Requests : result'[q] = "broken" => result[q] = "broken"
      /\ ~promise[h].set => promise'[h].set /\ crashed' = crashed
  BY <1>t, <1>h, ValueSet DEF Results
<1>1. HttpType'
  <2>1. onwire' \in [Conns -> Seq(Requests)]
    BY <1>t DEF HttpType
  <2> QED
    BY <2>1, <1>t, <1>p, <1>b DEF HttpType
<1>2. WireInv'
  <2>1. ASSUME NEW g \in Conns, onwire'[g] # <<>>
        PROVE  /\ g \in Known \ starting
               /\ g \notin bad' => onwire'[g] = <<promise'[g].req>> /\ g \in flag
    <3>1. CASE g = h
      BY <2>1, <3>1, <1>w, <1>k, <1>h
    <3>2. CASE g # h
      BY <2>1, <3>2, <1>w, <1>b, <1>t, <1>p DEF WireInv
    <3> QED
      BY <3>1, <3>2
  <2>2. onwire'[h] = <<>> \/ h \in bad'
    BY <1>w
  <2> QED
    BY <2>1, <2>2, <1>k, <1>a DEF WireInv
<1>3. CleanInv'
  <2> SUFFICES ASSUME ~raced' PROVE CleanInv'
    BY DEF CleanInv
  <2>0. ~raced /\ ~promise[h].set
    BY <1>t, <1>h, <1>l, <1>n DEF CleanInv
  <2>1. ASSUME NEW q \in Requests, timer'[q] \in {"queued", "armed"} PROVE Timed(q)'
    <3>1. Timed(q)
      BY <2>0, <2>1, <1>t DEF CleanInv
    <3> QED
      BY <3>1, <1>l, <1>a, <1>p, <1>n DEF Timed
  <2>2. \A g \in Conns : promise'[g].req # NoOne => (~promise'[g].set <=> g \in flag' \ {lp'.conn})
    BY <2>0, <1>t, <1>p, <1>l, <1>a, <1>n DEF CleanInv
  <2> QED
    BY <2>0, <2>1, <2>2, <1>t, <1>p, <1>a DEF CleanInv
<1>4. \A q \in Requests : rpc[q] \in Outside => timer'[q] = "none"
  BY <1>t DEF UseInv
<1>5. \A q \in Requests : timer'[q] # "none" => mine[q] \in Conns \ starting'
  BY <1>t DEF UseInv
<1>6. ASSUME NEW q \in Requests, rpc[q] = "send"
      PROVE  mine[q] \in bad' \/ (onwire'[mine[q]] = <<>> /\ lp' # [at |-> "put", conn |-> mine[q]])
  <2>1. mine[q] \in flag /\ (onwire[mine[q]] = <<>> \/ mine[q] \in bad)
    BY <1>6, <1>t DEF UseInv, Sending
  <2>2. mine[q] \in Conns
    BY <2>1, <1>t, InList DEF PoolInv, HttpType
  <2>3. mine[q] \in bad \/ mine[q] # h
    BY <2>1
  <2> QED
    BY <2>1, <2>2, <2>3, <1>w, <1>a, <1>b
<1>7. (lp'.conn = NoOne <=> lp'.at = "idle") /\ lp'.conn \in Known \cup {NoOne}
      /\ up' \subseteq Known \ starting' /\ starting' \subseteq starting \ {lp'.conn}
  BY <1>t, <1>a, <1>h, <1>k, <1>n DEF UseInv
<1> QED
  BY <1>1, <1>2, <1>3, <1>4, <1>5, <1>6, <1>7, <1>p, LoopStep

(* receive(): what is ignored, or goes into a response that is not whole.  *)
LEMMA IgnoredStep ==
    ASSUME HttpInv, NEW h \in Conns, h \in bad, onwire[h] # <<>>,
           onwire' = [onwire EXCEPT ![h] = Tail(@)],
           UNCHANGED <<avail, leased_list, lock, rpc, mine, up, starting, flag, removed, bad, timer_id, timer,
                       promise, lp, result, crashed, raced>>
    PROVE  HttpInv'
<1>t. HttpType /\ PoolInv /\ UseInv /\ WireInv /\ CleanInv
  BY DEF HttpInv
<1>1. HttpType'
  <2> DEFINE o == onwire[h]
  <2>1. o \in Seq(Requests) /\ o # <<>>
    BY <1>t DEF HttpType
  <2>2. Tail(o) \in Seq(Requests)
    BY <2>1
  <2>3. onwire' = [onwire EXCEPT ![h] = Tail(o)]
    OBVIOUS
  <2> HIDE DEF o
  <2>4. onwire' \in [Conns -> Seq(Requests)]
    BY <2>2, <2>3, <1>t DEF HttpType
  <2> QED
    BY <2>4, <1>t DEF HttpType
<1>2. \A g \in Conns : g # h => onwire'[g] = onwire[g]
  BY <1>t DEF HttpType
<1>k. Known' = Known
  BY DEF Known
<1>3. WireInv'
  <2>1. ASSUME NEW g \in Conns, onwire'[g] # <<>>
        PROVE  /\ g \in Known \ starting
               /\ g \notin bad => onwire'[g] = <<promise[g].req>> /\ g \in flag
    <3>1. CASE g = h
      BY <3>1, <1>t DEF WireInv
    <3>2. CASE g # h
      BY <2>1, <3>2, <1>2, <1>t DEF WireInv
    <3> QED
      BY <3>1, <3>2
  <2>2. ASSUME lp.at = "put" PROVE lp.conn \in flag /\ (onwire'[lp.conn] = <<>> \/ lp.conn \in bad)
    <3>1. lp.conn \in Conns
      BY <2>2, <1>t, PoolAssumption DEF UseInv, HttpType
    <3> QED
      BY <2>2, <3>1, <1>2, <1>t DEF WireInv
  <2> QED
    BY <2>1, <2>2, <1>k DEF WireInv
<1>4. CleanInv'
  BY <1>t DEF CleanInv, Timed
<1>5. ASSUME NEW q \in Requests, rpc[q] = "send"
      PROVE  mine[q] \in bad' \/ (onwire'[mine[q]] = <<>> /\ lp' # [at |-> "put", conn |-> mine[q]])
  <2>1. mine[q] \in flag /\ (mine[q] \in bad \/ (onwire[mine[q]] = <<>> /\ lp # [at |-> "put", conn |-> mine[q]]))
    BY <1>5, <1>t DEF UseInv, Sending
  <2>2. mine[q] \in Conns
    BY <2>1, <1>t, InList DEF PoolInv, HttpType
  <2> QED
    BY <2>1, <2>2, <1>2
<1>6. (lp'.conn = NoOne <=> lp'.at = "idle") /\ lp'.conn \in Known \cup {NoOne}
      /\ up' \subseteq Known \ starting' /\ starting' \subseteq starting \ {lp'.conn}
  BY <1>t DEF UseInv
<1>7. /\ \A q \in Requests : rpc[q] \in Outside => timer'[q] = "none"
      /\ \A q \in Requests : timer'[q] # "none" => mine[q] \in Conns \ starting'
  BY <1>t DEF UseInv
<1> QED
  BY <1>1, <1>3, <1>4, <1>5, <1>6, <1>7, LoopStep

(* receive(): what is on the wire of a connection was asked by the request *)
(* its promise is for, unless the peer has sent something that is no       *)
(* response.                                                               *)
LEMMA ReceiveStep ==
    ASSUME HttpInv, NEW h \in Conns, Receive(h) \/ ReceiveBad(h) \/ ReceivePart(h)
    PROVE  HttpInv'
<1>t. HttpType /\ PoolInv /\ UseInv /\ WireInv /\ CleanInv
  BY DEF HttpInv
<1>u. /\ UNCHANGED <<avail, leased_list, lock, rpc, mine, up, starting, flag, removed, timer_id, timer, raced>>
      /\ lp = Idle /\ h \in up /\ onwire[h] # <<>>
  BY DEF Receive, ReceiveBad, ReceivePart, LoopAt, pool
<1> DEFINE o == onwire[h]
<1>o. o \in Seq(Requests) /\ Tail(o) \in Seq(Requests)
  <2>1. o \in Seq(Requests) /\ o # <<>>
    BY <1>t, <1>u DEF HttpType
  <2> QED
    BY <2>1
<1>1. CASE Receive(h) /\ h \in flag
  <2>1. onwire' = [onwire EXCEPT ![h] = Tail(o)] /\ bad' = bad /\ lp' = [at |-> "put", conn |-> h]
    BY <1>1 DEF Receive, At
  <2>2. CASE h \in bad
    <3>1. SetValue(h, "invalid")
      BY <1>1, <2>2 DEF Receive
    <3> QED
      BY <2>1, <2>2, <3>1, <1>o, <1>u, <1>1, ReceivedStep
  <2>3. CASE h \notin bad
    <3>1. onwire[h] = <<promise[h].req>> /\ promise[h].req \in Requests
      BY <2>3, <1>1, <1>t, <1>u DEF WireInv, UseInv, HttpType
    <3>2. Head(onwire[h]) = promise[h].req /\ Tail(o) = <<>>
      BY <3>1
    <3>3. SetValue(h, "ok")
      BY <1>1, <2>3, <3>2 DEF Receive
    <3> QED
      BY <2>1, <3>2, <3>3, <1>o, <1>u, <1>1, ReceivedStep
  <2> QED
    BY <2>2, <2>3
<1>2. CASE Receive(h) /\ h \notin flag
  <2>1. UNCHANGED <<promise, result, crashed, lp, bad>> /\ onwire' = [onwire EXCEPT ![h] = Tail(@)]
    BY <1>2 DEF Receive
  <2>2. h \in bad
    BY <1>2, <1>t, <1>u DEF WireInv
  <2> QED
    BY <2>1, <2>2, <1>u, IgnoredStep
<1>3. CASE ReceiveBad(h)
  <2>1. PICK rest \in {o, Tail(o)} : onwire' = [onwire EXCEPT ![h] = rest]
    BY <1>3 DEF ReceiveBad
  <2>2. h \in flag /\ bad' = bad \cup {h} /\ SetValue(h, "invalid") /\ lp' = [at |-> "put", conn |-> h]
    BY <1>3 DEF ReceiveBad, At
  <2>3. rest \in Seq(Requests)
    BY <2>1, <1>o
  <2> HIDE DEF o
  <2> QED
    BY <2>1, <2>2, <2>3, <1>u, ReceivedStep
<1>4. CASE ReceivePart(h)
  <2>1. /\ UNCHANGED <<promise, result, crashed, lp, bad>> /\ h \in bad
        /\ onwire' = [onwire EXCEPT ![h] = Tail(@)]
    BY <1>4 DEF ReceivePart
  <2> QED
    BY <2>1, <1>u, IgnoredStep
<1> QED
  BY <1>1, <1>2, <1>3, <1>4

(* cancel_request_timeout_timer() after put_connection()                   *)
LEMMA CancelStep ==
    ASSUME HttpInv, NEW h \in Conns, Cancel(h)
    PROVE  HttpInv'
<1>t. HttpType /\ PoolInv /\ UseInv /\ WireInv /\ CleanInv
  BY DEF HttpInv
<1>u. /\ UNCHANGED <<avail, leased_list, lock, rpc, mine, up, starting, flag, removed, bad, promise, onwire, result, crashed>>
      /\ lp = [at |-> "cancel", conn |-> h] /\ lp' = [at |-> "wakeup", conn |-> h]
      /\ CancelTimer(h)
  BY DEF Cancel, LoopAt, At, pool
<1>n. NoOne \notin Requests /\ NoOne \notin Conns
  BY PoolAssumption
<1>l. lp.conn = h /\ lp.at = "cancel" /\ lp'.conn = h /\ lp'.at = "wakeup"
  BY <1>u
<1>c. /\ timer_id' \in [Conns -> Requests \cup {NoOne}]
      /\ timer' \in [Requests -> {"none", "queued", "armed", "over"}]
      /\ \A g \in Conns : g # h => timer_id'[g] = timer_id[g]
      /\ \A q \in Requests : timer'[q] = timer[q] \/ (timer'[q] = "over" /\ timer[q] = "armed")
      /\ ~raced' => ~raced
      /\ ~raced' => \A q \in Requests : timer_id[h] = q => timer'[q] \notin {"queued", "armed"}
  BY <1>t, <1>u, TimerCancelled
<1>1. HttpType'
  BY <1>t, <1>u, <1>c DEF HttpType
<1>2. WireInv'
  BY <1>t, <1>u, <1>l DEF Known, WireInv
<1>3. CleanInv'
  <2> SUFFICES ASSUME ~raced' PROVE CleanInv'
    BY DEF CleanInv
  <2>1. ASSUME NEW q \in Requests, timer'[q] \in {"queued", "armed"} PROVE Timed(q)'
    <3>1. Timed(q) /\ timer_id[h] # q
      BY <2>1, <1>c, <1>t DEF CleanInv
    <3>2. mine[q] # h
      BY <3>1 DEF Timed
    <3> QED
      BY <3>1, <3>2, <1>u, <1>l, <1>c DEF Timed
  <2> QED
    BY <2>1, <1>c, <1>t, <1>u, <1>l DEF CleanInv
<1>4. \A q \in Requests : rpc[q] \in Outside => timer'[q] = "none"
  BY <1>t, <1>c DEF UseInv
<1>5. \A q \in Requests : timer'[q] # "none" => mine[q] \in Conns \ starting'
  BY <1>t, <1>u, <1>c DEF UseInv
<1>6. \A q \in Requests : rpc[q] = "send" =>
         mine[q] \in bad' \/ (onwire'[mine[q]] = <<>> /\ lp' # [at |-> "put", conn |-> mine[q]])
  BY <1>t, <1>u, <1>l DEF UseInv, Sending
<1>7. (lp'.conn = NoOne <=> lp'.at = "idle") /\ lp'.conn \in Known \cup {NoOne}
      /\ up' \subseteq Known \ starting' /\ starting' \subseteq starting \ {lp'.conn}
  BY <1>t, <1>u, <1>l, <1>n DEF UseInv
<1> QED
  BY <1>1, <1>2, <1>3, <1>4, <1>5, <1>6, <1>7, <1>u, LoopStep

(* connection_reset_by_peer(): the timer goes with the value of the        *)
(* promise.                                                                *)
LEMMA ResetStep ==
    ASSUME HttpInv, NEW h \in Conns, ResetByPeer(h)
    PROVE  HttpInv'
<1>t. HttpType /\ PoolInv /\ UseInv /\ WireInv /\ CleanInv
  BY DEF HttpInv
<1>u. /\ UNCHANGED <<avail, leased_list, lock, rpc, mine, starting, flag, removed, bad>>
      /\ lp = Idle /\ h \in up /\ up' = up \ {h} /\ onwire' = [onwire EXCEPT ![h] = <<>>]
      /\ lp' = [at |-> "remove", conn |-> h]
  BY DEF ResetByPeer, LoopAt, At, pool
<1>o. \/ h \in flag /\ SetValue(h, "reset") /\ CancelTimer(h)
      \/ h \notin flag /\ UNCHANGED <<promise, result, crashed, timer, timer_id, raced>>
  BY DEF ResetByPeer
<1>n. NoOne \notin Requests /\ NoOne \notin Conns
  BY PoolAssumption
<1>l. lp.conn = NoOne /\ lp.at = "idle" /\ lp'.conn = h /\ lp'.at = "remove"
  BY <1>u DEF Idle
<1>k. h \in Known
  BY <1>t, <1>u DEF UseInv
<1>w. \A g \in Conns : onwire'[g] = IF g = h THEN <<>> ELSE onwire[g]
  BY <1>u, <1>t DEF HttpType
<1>p. /\ promise' \in [Conns -> [req : Requests \cup {NoOne}, set : BOOLEAN]]
      /\ result' \in [Requests -> Results]
      /\ \A g \in Conns : promise'[g].req = promise[g].req
      /\ \A g \in Conns : g # h => promise'[g].set = promise[g].set
      /\ \A q \in Requests : result'[q] = "broken" => result[q] = "broken"
  <2>1. CASE h \in flag
    BY <2>1, <1>t, <1>o, ValueSet DEF Results
  <2>2. CASE h \notin flag
    BY <2>2, <1>t, <1>o DEF HttpType
  <2> QED
    BY <2>1, <2>2
<1>c. /\ timer_id' \in [Conns -> Requests \cup {NoOne}]
      /\ timer' \in [Requests -> {"none", "queued", "armed", "over"}]
      /\ \A g \in Conns : g # h => timer_id'[g] = timer_id[g]
      /\ \A q \in Requests : timer'[q] = timer[q] \/ (timer'[q] = "over" /\ timer[q] = "armed")
      /\ ~raced' => ~raced
      /\ h \in flag /\ ~raced' => \A q \in Requests : timer_id[h] = q => timer'[q] \notin {"queued", "armed"}
  <2>1. CASE h \in flag
    BY <2>1, <1>t, <1>o, TimerCancelled
  <2>2. CASE h \notin flag
    BY <2>2, <1>t, <1>o DEF HttpType
  <2> QED
    BY <2>1, <2>2
<1>s. h \notin starting
  BY <1>t, <1>u DEF UseInv
<1>1. HttpType'
  <2>1. onwire' \in [Conns -> Seq(Requests)]
    <3>1. <<>> \in Seq(Requests)
      OBVIOUS
    <3> QED
      BY <3>1, <1>u, <1>t DEF HttpType
  <2> QED
    BY <2>1, <1>t, <1>u, <1>p, <1>c DEF HttpType
<1>2. WireInv'
  BY <1>t, <1>u, <1>w, <1>p, <1>l DEF Known, WireInv
<1>3. CleanInv'
  <2> SUFFICES ASSUME ~raced' PROVE CleanInv'
    BY DEF CleanInv
  <2>0. ~raced
    BY <1>c
  <2>1. ASSUME NEW q \in Requests, timer'[q] \in {"queued", "armed"} PROVE Timed(q)'
    <3>1. Timed(q) /\ (h \in flag => timer_id[h] # q)
      BY <2>1, <1>c, <1>t DEF CleanInv
    <3>2. mine[q] \in flag /\ promise[mine[q]].req = q
      BY <3>1, <1>l, <1>n DEF Timed
    <3>3. mine[q] # h
      BY <3>1, <3>2 DEF Timed
    <3> QED
      BY <3>1, <3>2, <3>3, <1>u, <1>l, <1>c, <1>p DEF Timed
  <2>2. crashed' = crashed /\ (promise[h].req # NoOne => promise'[h].set)
    <3>1. CASE h \in flag
      <4>1. promise[h].req # NoOne /\ ~promise[h].set
        BY <3>1, <2>0, <1>l, <1>t, <1>n DEF UseInv, CleanInv
      <4> QED
        BY <3>1, <4>1, <1>o, <1>t, ValueSet DEF Results
    <3>2. CASE h \notin flag
      BY <3>2, <2>0, <1>o, <1>t DEF CleanInv
    <3> QED
      BY <3>1, <3>2
  <2>3. \A g \in Conns : promise'[g].req # NoOne => (~promise'[g].set <=> g \in flag' \ {lp'.conn})
    BY <2>0, <2>2, <1>t, <1>p, <1>l, <1>u, <1>n DEF CleanInv
  <2> QED
    BY <2>0, <2>1, <2>2, <2>3, <1>t, <1>p, <1>l DEF CleanInv
<1>4. \A q \in Requests : rpc[q] \in Outside => timer'[q] = "none"
  BY <1>t, <1>c DEF UseInv
<1>5. \A q \in Requests : timer'[q] # "none" => mine[q] \in Conns \ starting'
  BY <1>t, <1>u, <1>c DEF UseInv
<1>6. ASSUME NEW q \in Requests, rpc[q] = "send"
      PROVE  mine[q] \in bad' \/ (onwire'[mine[q]] = <<>> /\ lp' # [at |-> "put", conn |-> mine[q]])
  <2>1. mine[q] \in flag /\ (onwire[mine[q]] = <<>> \/ mine[q] \in bad)
    BY <1>6, <1>t DEF UseInv, Sending
  <2>2. mine[q] \in Conns
    BY <2>1, <1>t, InList DEF PoolInv, HttpType
  <2> QED
    BY <2>1, <2>2, <1>u, <1>w, <1>l
<1>7. (lp'.conn = NoOne <=> lp'.at = "idle") /\ lp'.conn \in Known \cup {NoOne}
      /\ up' \subseteq Known \ starting' /\ starting' \subseteq starting \ {lp'.conn}
  BY <1>t, <1>u, <1>l, <1>s, <1>k, <1>n DEF UseInv
<1> QED
  BY <1>1, <1>2, <1>3, <1>4, <1>5, <1>6, <1>7, <1>u, <1>p, LoopStep

(* wakeup()                                                                *)
LEMMA WakeupStep ==
    ASSUME HttpInv, NEW h \in Conns, Wakeup(h)
    PROVE  HttpInv'
<1>t. HttpType /\ PoolInv /\ UseInv /\ WireInv /\ CleanInv
  BY DEF HttpInv
<1>u. /\ UNCHANGED <<avail, leased_list, lock, mine, up, starting, flag, removed, bad>>
      /\ UNCHANGED <<timer_id, timer, promise, onwire, result, crashed, raced>>
      /\ lp = [at |-> "wakeup", conn |-> h] /\ lp' = Idle
  BY DEF Wakeup, LoopAt, conns
<1>n. NoOne \notin Requests /\ NoOne \notin Conns
  BY PoolAssumption
<1>l. lp.conn = h /\ lp.at = "wakeup" /\ lp'.conn = NoOne /\ lp'.at = "idle"
  BY <1>u DEF Idle
<1>c. /\ rpc' \in [Requests -> Outside \cup {"send", "got", "future", "done"}]
      /\ \A q \in Requests : rpc'[q] = rpc[q] \/ (rpc[q] = "waiting" /\ rpc'[q] = "notified")
  <2>1. rpc' = rpc \/ \E r \in Requests : rpc[r] = "waiting" /\ rpc' = [rpc EXCEPT ![r] = "notified"]
    BY DEF Wakeup, Go
  <2>2. rpc \in [Requests -> Outside \cup {"send", "got", "future", "done"}]
    BY <1>t DEF HttpType
  <2> QED
    BY <2>1, <2>2 DEF Outside
<1>k. Known' = Known
  BY <1>u DEF Known
<1>1. HttpType'
  BY <1>t, <1>u, <1>c DEF HttpType, Idle
<1>2. PoolInv'
  BY <1>t, <1>u DEF PoolInv, Known, Once, active_conns
<1>3. UseInv'
  <2>1. starting' \subseteq flag' \ {lp'.conn}
    BY <1>t, <1>u, <1>l, <1>n DEF UseInv, HttpType
  <2>2. \A q \in Requests : rpc'[q] \in Outside => mine'[q] = NoOne /\ timer'[q] = "none"
    BY <1>t, <1>u, <1>c DEF UseInv, Outside
  <2>3. \A q \in Requests : rpc'[q] \in {"locked", "send", "got"} => lock' = q
    BY <1>t, <1>u, <1>c DEF UseInv
  <2>4. ASSUME NEW q \in Requests, rpc'[q] = "send" PROVE Sending(q)'
    <3>1. rpc[q] = "send"
      BY <2>4, <1>c
    <3>2. Sending(q)
      BY <3>1, <1>t DEF UseInv
    <3> QED
      BY <3>2, <1>u, <1>l DEF Sending
  <2> QED
    BY <2>1, <2>2, <2>3, <2>4, <1>t, <1>u, <1>k, <1>l DEF UseInv
<1>4. WireInv'
  BY <1>t, <1>u, <1>l DEF Known, WireInv
<1>5. CleanInv'
  <2> SUFFICES ASSUME ~raced' PROVE CleanInv'
    BY DEF CleanInv
  <2>1. ~raced /\ h \notin flag
    BY <1>u, <1>t, <1>l DEF CleanInv
  <2>2. \A g \in Conns : promise'[g].req # NoOne => (~promise'[g].set <=> g \in flag' \ {lp'.conn})
    BY <2>1, <1>t, <1>u, <1>l, <1>n DEF CleanInv
  <2>3. \A q \in Requests : timer'[q] \in {"queued", "armed"} => Timed(q)'
    BY <2>1, <1>t, <1>u, <1>l, <1>n DEF CleanInv, Timed
  <2> QED
    BY <2>1, <2>2, <2>3, <1>t, <1>u, <1>l DEF CleanInv
<1> QED
  BY <1>1, <1>2, <1>3, <1>4, <1>5 DEF HttpInv

(* put_connection(): nobody is inside send(), so the assertion of          *)
(* release_connection() holds; nothing is on the wire of a connection      *)
(* that got a valid response.                                              *)
LEMMA PutStep ==
    ASSUME HttpInv, NEW h \in Conns, Put(h)
    PROVE  HttpInv'
<1>t. HttpType /\ PoolInv /\ UseInv /\ WireInv /\ CleanInv
  BY DEF HttpInv
<1>u. /\ UNCHANGED <<lock, rpc, mine, up, starting, removed, bad>>
      /\ UNCHANGED <<timer_id, timer, promise, onwire, result, crashed, raced>>
      /\ lp = [at |-> "put", conn |-> h] /\ lp' = [at |-> "cancel", conn |-> h]
      /\ avail' = Append(avail, h) /\ leased_list' = SwapOut(leased_list, h)
      /\ flag' = flag \ {h} /\ lock = NoOne
  BY DEF Put, LoopAt, At, Free
<1>n. NoOne \notin Requests /\ NoOne \notin Conns
  BY PoolAssumption
<1>l. lp.conn = h /\ lp.at = "put" /\ lp'.conn = h /\ lp'.at = "cancel"
  BY <1>u
<1>h. h \in flag /\ (onwire[h] = <<>> \/ h \in bad) /\ h \notin starting
  BY <1>t, <1>l DEF WireInv, UseInv
<1>i. h \in ToSet(leased_list) /\ h \notin ToSet(avail)
  BY <1>t, <1>h DEF PoolInv
<1>a. /\ avail' \in Seq(Conns) /\ Len(avail') = Len(avail) + 1
      /\ ToSet(avail') = ToSet(avail) \cup {h} /\ Once(avail')
  BY <1>t, <1>u, <1>i, PushBack, Zenon DEF HttpType, PoolInv
<1>s. /\ leased_list' \in Seq(Conns) /\ Len(leased_list') = Len(leased_list) - 1
      /\ ToSet(leased_list') = ToSet(leased_list) \ {h} /\ Once(leased_list')
  BY <1>t, <1>u, <1>i, SwappedOut, Zenon DEF HttpType, PoolInv
<1>c. \A q \in Requests : rpc[q] \notin {"locked", "send", "got"}
  BY <1>t, <1>u, <1>n DEF UseInv
<1>k. Known' = Known
  BY <1>a, <1>s, <1>i DEF Known
<1>1. HttpType'
  BY <1>t, <1>u, <1>a, <1>s DEF HttpType
<1>2. PoolInv'
  <2>1. active_conns' <= max_conns_per_route
    BY <1>s, <1>a, <1>t, PoolAssumption DEF active_conns, HttpType, PoolInv
  <2>2. Once(avail)' /\ Once(leased_list)'
    BY <1>a, <1>s DEF Once
  <2> QED
    BY <2>1, <2>2, <1>s, <1>a, <1>u, <1>t DEF PoolInv, Known
<1>3. UseInv'
  <2>1. starting' \subseteq flag' \ {lp'.conn}
    BY <1>t, <1>u, <1>l DEF UseInv
  <2>2. \A q \in Requests : rpc'[q] = "send" => Sending(q)'
    BY <1>c, <1>u
  <2> QED
    BY <2>1, <2>2, <1>t, <1>u, <1>k, <1>l, <1>n DEF UseInv
<1>4. WireInv'
  BY <1>t, <1>u, <1>l, <1>h, <1>k DEF WireInv
<1>5. CleanInv'
  <2> SUFFICES ASSUME ~raced' PROVE CleanInv'
    BY DEF CleanInv
  <2>1. \A q \in Requests : timer'[q] \in {"queued", "armed"} => Timed(q)'
    BY <1>t, <1>u, <1>l DEF CleanInv, Timed
  <2> QED
    BY <2>1, <1>t, <1>u, <1>l DEF CleanInv
<1> QED
  BY <1>1, <1>2, <1>3, <1>4, <1>5 DEF HttpInv

(* remove_connection(): without a race no promise is dropped that has no   *)
(* value, and no timer refers to the connection.                           *)
LEMMA DeleteStep ==
    ASSUME HttpInv, NEW h \in Conns, Delete(h)
    PROVE  HttpInv'
<1>t. HttpType /\ PoolInv /\ UseInv /\ WireInv /\ CleanInv
  BY DEF HttpInv
<1>u. /\ UNCHANGED <<lock, rpc, mine, starting, bad, timer_id, timer, promise, crashed, raced>>
      /\ lp = [at |-> "remove", conn |-> h] /\ lp' = Idle
      /\ removed' = removed \cup {h} /\ up' = up \ {h} /\ flag' = flag \ {h} /\ lock = NoOne
      /\ onwire' = [onwire EXCEPT ![h] = <<>>]
      /\ result' = IF promise[h].req # NoOne /\ ~promise[h].set
                   THEN [result EXCEPT ![promise[h].req] = "broken"] ELSE result
  BY DEF Delete, LoopAt, Free
<1>o. \/ h \in flag /\ leased_list' = SwapOut(leased_list, h) /\ avail' = avail
      \/ h \notin flag /\ avail' = SwapOut(avail, h) /\ leased_list' = leased_list
  BY DEF Delete
<1>n. NoOne \notin Requests /\ NoOne \notin Conns
  BY PoolAssumption
<1>l. lp.conn = h /\ lp.at = "remove" /\ lp'.conn = NoOne /\ lp'.at = "idle"
  BY <1>u DEF Idle
<1>h. h \in Known /\ h \notin starting
  BY <1>t, <1>l, <1>n DEF UseInv
<1>a. /\ avail' \in Seq(Conns) /\ leased_list' \in Seq(Conns)
      /\ Len(avail') + Len(leased_list') = active_conns - 1
      /\ ToSet(avail') = ToSet(avail) \ {h} /\ Once(avail')
      /\ ToSet(leased_list') = ToSet(leased_list) \ {h} /\ Once(leased_list')
  <2>1. /\ avail \in Seq(Conns) /\ leased_list \in Seq(Conns) /\ Once(avail) /\ Once(leased_list)
        /\ Len(avail) \in Nat /\ Len(leased_list) \in Nat
    BY <1>t DEF HttpType, PoolInv
  <2>2. CASE h \in flag
    <3>1. h \in ToSet(leased_list) /\ h \notin ToSet(avail)
      BY <2>2, <1>t DEF PoolInv
    <3>2. avail' = avail /\ leased_list' = SwapOut(leased_list, h)
      BY <2>2, <1>o
    <3>3. /\ leased_list' \in Seq(Conns) /\ Len(leased_list') = Len(leased_list) - 1
          /\ ToSet(leased_list') = ToSet(leased_list) \ {h} /\ Once(leased_list')
      BY <2>1, <3>1, <3>2, SwappedOut, Zenon
    <3> QED
      BY <2>1, <3>1, <3>2, <3>3 DEF active_conns
  <2>3. CASE h \notin flag
    <3>1. h \in ToSet(avail) /\ h \notin ToSet(leased_list)
      BY <2>3, <1>t, <1>h DEF PoolInv, Known
    <3>2. leased_list' = leased_list /\ avail' = SwapOut(avail, h)
      BY <2>3, <1>o
    <3>3. /\ avail' \in Seq(Conns) /\ Len(avail') = Len(avail) - 1
          /\ ToSet(avail') = ToSet(avail) \ {h} /\ Once(avail')
      BY <2>1, <3>1, <3>2, SwappedOut, Zenon
    <3> QED
      BY <2>1, <3>1, <3>2, <3>3 DEF active_conns
  <2> QED
    BY <2>2, <2>3
<1>c. \A q \in Requests : rpc[q] \notin {"locked", "send", "got"}
  BY <1>t, <1>u, <1>n DEF UseInv
<1>k. Known' = Known \ {h}
  BY <1>a DEF Known
<1>w. \A g \in Conns : onwire'[g] = IF g = h THEN <<>> ELSE onwire[g]
  BY <1>u, <1>t DEF HttpType
<1>f. \A g \in flag : g \in Conns
  BY <1>t, InList DEF PoolInv, HttpType
<1>1. HttpType'
  <2>1. onwire' \in [Conns -> Seq(Requests)]
    <3>1. <<>> \in Seq(Requests)
      OBVIOUS
    <3> QED
      BY <3>1, <1>u, <1>t DEF HttpType
  <2>2. result' \in [Requests -> Results]
    BY <1>u, <1>t DEF HttpType, Results
  <2> QED
    BY <2>1, <2>2, <1>t, <1>u, <1>a DEF HttpType, Idle
<1>2. PoolInv'
  <2>1. active_conns' <= max_conns_per_route
    BY <1>a, <1>t, PoolAssumption DEF active_conns, HttpType, PoolInv
  <2>2. Once(avail)' /\ Once(leased_list)'
    BY <1>a DEF Once
  <2> QED
    BY <2>1, <2>2, <1>a, <1>u, <1>t, <1>k DEF PoolInv, Known
<1>3. UseInv'
  <2>1. starting' \subseteq flag' \ {lp'.conn}
    BY <1>t, <1>u, <1>l, <1>n, <1>f DEF UseInv
  <2>2. \A q \in Requests : rpc'[q] = "send" => Sending(q)'
    BY <1>c, <1>u
  <2>3. \A q \in Requests : mine'[q] \in Known' \cup removed' \cup {NoOne}
    BY <1>t, <1>u, <1>k DEF UseInv
  <2>4. up' \subseteq Known' \ starting'
    BY <1>t, <1>u, <1>k DEF UseInv
  <2> QED
    BY <2>1, <2>2, <2>3, <2>4, <1>t, <1>u, <1>l DEF UseInv
<1>4. WireInv'
  BY <1>t, <1>u, <1>w, <1>l, <1>k DEF WireInv
<1>5. CleanInv'
  <2> SUFFICES ASSUME ~raced' PROVE CleanInv'
    BY DEF CleanInv
  <2>0. ~raced
    BY <1>u
  <2>1. promise[h].req # NoOne => promise[h].set
    BY <2>0, <1>t, <1>l DEF CleanInv
  <2>2. result' = result
    BY <2>1, <1>u
  <2>3. \A q \in Requests : timer'[q] \in {"queued", "armed"} => Timed(q)'
    BY <2>0, <1>t, <1>u, <1>l, <1>n DEF CleanInv, Timed
  <2>4. \A g \in Conns : promise'[g].req # NoOne => (~promise'[g].set <=> g \in flag' \ {lp'.conn})
    BY <2>0, <2>1, <1>t, <1>u, <1>l, <1>n DEF CleanInv
  <2> QED
    BY <2>0, <2>2, <2>3, <2>4, <1>t, <1>u, <1>l DEF CleanInv
<1> QED
  BY <1>1, <1>2, <1>3, <1>4, <1>5 DEF HttpInv

-----------------------------------------------------------------------------
(* A client that has sent nothing.                                         *)
LEMMA HttpInit == Init => HttpInv
<1> SUFFICES ASSUME Init PROVE HttpInv
  OBVIOUS
<1>n. NoOne \notin Requests /\ NoOne \notin Conns /\ max_conns_per_route \in Nat
  BY PoolAssumption
<1>e. <<>> \in Seq(Conns) /\ <<>> \in Seq(Requests) /\ Len(<<>>) = 0
  OBVIOUS
<1>s. ToSet(avail) = {} /\ ToSet(leased_list) = {}
  BY DEF Init, ToSet
<1>1. HttpType
  BY <1>e DEF Init, HttpType, Idle, Outside, Results
<1>2. PoolInv
  BY <1>n, <1>e, <1>s DEF Init, PoolInv, Known, active_conns, Once
<1>3. UseInv
  BY <1>n DEF Init, UseInv, Idle, Sending
<1>4. WireInv
  BY DEF Init, WireInv, Idle
<1>5. CleanInv
  BY DEF Init, CleanInv, Idle
<1> QED
  BY <1>1, <1>2, <1>3, <1>4, <1>5 DEF HttpInv

(* Every step of a caller and of the loop thread keeps the invariant.      *)
LEMMA HttpNext == HttpInv /\ [Next]_vars => HttpInv'
<1> SUFFICES ASSUME HttpInv, [Next]_vars PROVE HttpInv'
  OBVIOUS
<1>1. ASSUME NEW r \in Requests, Caller(r) PROVE HttpInv'
  BY <1>1, CallerSteps, AddStep, LeaseStep, SendRequestStep DEF Caller
<1>2. ASSUME NEW r \in Requests, AddTimer(r) \/ RequestTimeout(r) PROVE HttpInv'
  BY <1>2, AddTimerStep, RequestTimeoutStep
<1>3. ASSUME NEW h \in Conns, Handler(h) PROVE HttpInv'
  BY <1>3, ConnectedStep, ConnectionTimeoutStep, ReceiveStep, PutStep, CancelStep, WakeupStep,
     ResetStep, DeleteStep DEF Handler
<1>4. CASE UNCHANGED vars
  BY <1>4 DEF vars, pool, conns, HttpInv, HttpType, PoolInv, UseInv, WireInv, CleanInv, Known, Once,
              active_conns, Sending, Timed
<1> QED
  BY <1>1, <1>2, <1>3, <1>4 DEF Next

(* The inductive invariant of the http client.                             *)
LEMMA HttpInvAlways == Spec => []HttpInv
  BY HttpInit, HttpNext, PTL DEF Spec

(* For any number of requests and connections and any limit of a route:    *)
(* the lists of the pool hold each live connection once and stay within    *)
(* the limit, and no future gets the response to another request without   *)
(* an err_code, however callers, timeouts, resets, responses that cannot   *)
(* be parsed and reuse interleave.                                         *)
THEOREM PoolGivesOwn == Spec => []LeasedForOwn
<1>1. HttpInv => PoolConsistent
  <2> SUFFICES ASSUME HttpInv PROVE PoolConsistent
    OBVIOUS
  <2> DEFINE a == avail
             b == leased_list
             n == Len(avail)
             m == Len(leased_list)
             c == avail \o leased_list
  <2>1. a \in Seq(Conns) /\ b \in Seq(Conns) /\ n \in Nat /\ m \in Nat /\ Once(a) /\ Once(b)
    BY DEF HttpInv, HttpType, PoolInv
  <2>2. \A g : ~(g \in ToSet(a) /\ g \in ToSet(b))
    BY DEF HttpInv, PoolInv
  <2>3. \A i \in 1..n, j \in 1..m : a[i] # b[j]
    BY <2>1, <2>2, InList, Zenon
  <2>4. /\ DOMAIN c = 1..(n + m)
        /\ \A i \in 1..(n + m) : c[i] = IF i <= n THEN a[i] ELSE b[i - n]
    BY <2>1
  <2> HIDE DEF a, b, n, m, c
  <2>5. \A i, j \in 1..(n + m) : c[i] = c[j] => i = j
    <3> SUFFICES ASSUME NEW i \in 1..(n + m), NEW j \in 1..(n + m), c[i] = c[j] PROVE i = j
      OBVIOUS
    <3>1. CASE i <= n /\ j <= n
      BY <3>1, <2>1, <2>4 DEF Once, a, n
    <3>2. CASE i <= n /\ ~(j <= n)
      <4>1. i \in 1..n /\ j - n \in 1..m
        BY <3>2, <2>1
      <4> QED
        BY <4>1, <3>2, <2>3, <2>4
    <3>3. CASE ~(i <= n) /\ j <= n
      <4>1. j \in 1..n /\ i - n \in 1..m
        BY <3>3, <2>1
      <4> QED
        BY <4>1, <3>3, <2>3, <2>4
    <3>4. CASE ~(i <= n) /\ ~(j <= n)
      <4>1. i - n \in 1..m /\ j - n \in 1..m /\ b[i - n] = b[j - n]
        BY <3>4, <2>1, <2>4
      <4>2. i - n = j - n
        BY <4>1, <2>1 DEF Once, b, m
      <4> QED
        BY <4>2, <2>1
    <3> QED
      BY <3>1, <3>2, <3>3, <3>4
  <2>6. IsInjective(c)
    BY <2>4, <2>5, Zenon DEF IsInjective
  <2> QED
    BY <2>6 DEF HttpInv, PoolInv, PoolConsistent, Known, c
<1>2. HttpInv => OwnResponse
  BY DEF HttpInv, HttpType, OwnResponse, Results
<1> QED
  BY <1>1, <1>2, HttpInvAlways, PTL DEF LeasedForOwn

(* Without one of the recorded races, for any number of requests: no       *)
(* promise is set twice or dropped without a value, no assertion fails,    *)
(* and no timer is left that refers to a deleted connection.               *)
THEOREM RequestsEndCleanly == Spec => []EndsCleanly
<1>1. HttpInv => EndsCleanly
  <2> SUFFICES ASSUME HttpInv, ~raced PROVE EndsCleanly
    BY DEF EndsCleanly
  <2>1. ASSUME NEW r \in Requests, timer[r] \in {"queued", "armed"} PROVE mine[r] \notin removed
    <3>1. Timed(r)
      BY <2>1 DEF HttpInv, CleanInv
    <3>2. mine[r] \in Known
      BY <3>1, PoolAssumption DEF Timed, HttpInv, UseInv, PoolInv, Known
    <3> QED
      BY <3>2 DEF HttpInv, PoolInv
  <2> QED
    BY <2>1 DEF HttpInv, CleanInv, EndsCleanly
<1> QED
  BY <1>1, HttpInvAlways, PTL

-----------------------------------------------------------------------------
(* The index arithmetic of appending a functor and of taking the first.    *)
LEMMA AppendAt ==
    ASSUME NEW S, NEW s \in Seq(S), NEW e \in S
    PROVE  /\ Append(s, e) \in Seq(S)
           /\ Len(s) \in Nat /\ Len(Append(s, e)) = Len(s) + 1
           /\ \A i \in 1..Len(s) : Append(s, e)[i] = s[i]
           /\ Append(s, e)[Len(s) + 1] = e
OBVIOUS

(* Tail, by position.                                                      *)
LEMMA TailAt ==
    ASSUME NEW S, NEW s \in Seq(S), s # <<>>
    PROVE  /\ Head(s) \in S /\ Head(s) = s[1] /\ Tail(s) \in Seq(S)
           /\ Len(s) \in Nat \ {0} /\ Len(Tail(s)) = Len(s) - 1
           /\ \A i \in 1..Len(Tail(s)) : Tail(s)[i] = s[i + 1]
OBVIOUS

(* Two sequences with the same elements are one.                           *)
LEMMA SeqsEqual ==
    ASSUME NEW S, NEW s \in Seq(S), NEW t \in Seq(S), Len(s) = Len(t),
           \A k \in 1..Len(s) : s[k] = t[k]
    PROVE  s = t
OBVIOUS

(* Concatenation, by position.                                             *)
Joined(S, u, s, t) ==
    /\ u \in Seq(S) /\ Len(s) \in Nat /\ Len(t) \in Nat /\ Len(u) = Len(s) + Len(t)
    /\ \A k \in 1..Len(s) : u[k] = s[k]
    /\ \A k \in 1..Len(t) : u[Len(s) + k] = t[k]

(* s \o t has the elements of s and then those of t.                       *)
LEMMA ConcatAt == ASSUME NEW S, NEW s \in Seq(S), NEW t \in Seq(S) PROVE Joined(S, s \o t, s, t)
BY DEF Joined

(* A function on 1..n is a sequence.                                       *)
LEMMA SeqOfFunction ==
    ASSUME NEW S, NEW n \in Nat, NEW f \in [1..n -> S] PROVE f \in Seq(S) /\ Len(f) = n
OBVIOUS

(* http_server on files (module HttpFiles).                                *)
(* What the lengths and the requests are; the longest length is the first. *)
FilesConstants ==
    /\ MaxTime \in Nat /\ HttpRequests \subseteq FileRequests /\ Lens \subseteq Nat
    /\ \E n \in Lens : \A m \in Lens : m <= n

FileTypes ==
    /\ path \in 0..(MaxTime + 1) /\ inode \in [Files!Inodes -> [time: Int, len: Nat]] /\ clock \in Nat
    /\ DOMAIN pc = HttpConns /\ DOMAIN req = HttpConns /\ has_file \in [HttpConns -> BOOLEAN]
    /\ mtime \in [HttpConns -> Int] /\ filesize \in [HttpConns -> Nat] /\ fd \in [HttpConns -> 0..(MaxTime + 1)]
    /\ DOMAIN reply = HttpConns /\ DOMAIN seen = HttpConns /\ cut \in [HttpConns -> BOOLEAN]

(* The moments of a request at which it has not answered.                  *)
Unanswered == {"idle", "check", "time", "size", "conditions", "open", "read", "truncate", "write", "unlink"}
Gone(c) == \E v \in seen[c] : v.time = 0
Same(c, i) == i # 0 /\ inode[i].len >= filesize[c]

(* What a request knows of the file at each step: the file as it is is     *)
(* among the versions seen, the time and the size that stat() gave were    *)
(* those of such a version, and what was opened has at least the size that *)
(* was found, unless the file was truncated or deleted since the request   *)
(* came.                                                                   *)
AskedOk(c) == pc[c] # "idle" => req[c] \in FileRequests /\ Files!Version \in seen[c]
SilentOk(c) == pc[c] \in Unanswered => reply[c] = Files!NoReply
TimeOk(c) == pc[c] \in {"size", "conditions"} => Gone(c) \/ \E v \in seen[c] : v.time = mtime[c]
SizeOk(c) == pc[c] \in {"conditions", "open"} => Gone(c) \/ cut[c] = TRUE \/ Same(c, path)
RangeOk(c) ==
    pc[c] = "open" => \/ req[c].range = <<>>
                      \/ filesize[c] > 0 /\ Files!parse_byte_ranges(req[c].range, filesize[c]) # <<>>
OpenOk(c) ==
    pc[c] = "sendfile" => /\ fd[c] = 0 => Gone(c)
                          /\ fd[c] # 0 => Gone(c) \/ cut[c] = TRUE \/ Same(c, fd[c])
SendOk(c) ==
    pc[c] = "sendfile" =>
        /\ reply[c] = [status |-> reply[c].status, ranges |-> reply[c].ranges,
                       declared |-> reply[c].declared, sent |-> reply[c].sent]
        /\ Len(reply[c].ranges) \in Nat /\ reply[c].sent + 1 \in DOMAIN reply[c].ranges
        /\ DOMAIN reply[c].ranges = 1..Len(reply[c].ranges) /\ reply[c].sent \in Nat
        /\ \A k \in DOMAIN reply[c].ranges : /\ reply[c].ranges[k][2] \in Int
                                             /\ reply[c].ranges[k][2] < filesize[c]
WriteOk(c) == pc[c] = "write" => fd[c] # 0

(* The property, of one connection.                                        *)
ExactOk(c) ==
    reply[c] # Files!NoReply =>
        /\ reply[c].status = 206 =>
              \A k \in DOMAIN reply[c].ranges :
                  (reply[c].ranges[k][1])..(reply[c].ranges[k][2])
                      = Files!Positions(req[c].range[k], filesize[c])
        /\ reply[c].status = 416 =>
              \E k \in DOMAIN req[c].range : Files!Positions(req[c].range[k], filesize[c]) = {}
TrueOk(c) ==
    (reply[c].status = 304 /\ req[c].none_match \notin {Files!NoTag, Files!AnyTag}) =>
        \/ \E v \in seen[c] : v.time = req[c].none_match.time
        \/ Gone(c)
StuckOk(c) ==
    /\ pc[c] = "stalled" => cut[c] = TRUE \/ Gone(c)
    /\ pc[c] = "closed" => Gone(c)

RequestOk(c) ==
    /\ AskedOk(c) /\ SilentOk(c) /\ TimeOk(c) /\ SizeOk(c) /\ RangeOk(c) /\ OpenOk(c) /\ SendOk(c)
    /\ WriteOk(c) /\ ExactOk(c) /\ TrueOk(c) /\ StuckOk(c)
FilesInv == FileTypes /\ \A c \in HttpConns : RequestOk(c)

(* A byte-range-spec is refused only if it names no position, and otherwise *)
(* gives the first and the last of those it names.                         *)
LEMMA SpecExact ==
    ASSUME NEW s \in RangeSpecs, NEW size \in Int, size > 0
    PROVE  /\ Files!parse_spec(s, size) = <<>> => Files!Positions(s, size) = {}
           /\ Files!parse_spec(s, size) # <<>> =>
                 LET p == Files!parse_spec(s, size) IN
                 /\ (p[1])..(p[2]) = Files!Positions(s, size) /\ p[2] \in Int /\ p[2] < size
<1>1. PICK f \in Int, l \in Int : s = <<f, l>> /\ f >= -1 /\ l >= -1  BY DEF RangeSpecs
<1>2. s[1] = f /\ s[2] = l  BY <1>1
<1>3. CASE f = -1
  <2>1. Files!Positions(s, size) = {p \in 0..(size - 1) : p >= size - l}
    BY <1>2, <1>3 DEF Files!Positions
  <2>2. Files!parse_spec(s, size) = IF l <= 0 THEN <<>> ELSE <<size - (IF l < size THEN l ELSE size), size - 1>>
    BY <1>2, <1>3 DEF Files!parse_spec, Files!parse_suffix_byte_range_spec
  <2>3. CASE l <= 0  BY <1>1, <2>1, <2>2, <2>3
  <2>4. CASE l > 0
    <3>1. PICK a \in Int : a = size - (IF l < size THEN l ELSE size)  BY <1>1
    <3>2. Files!parse_spec(s, size) = <<a, size - 1>>  BY <1>1, <2>2, <2>4, <3>1
    <3>3. a..(size - 1) = {p \in 0..(size - 1) : p >= size - l}  BY <1>1, <2>4, <3>1
    <3> QED  BY <2>1, <3>2, <3>3
  <2> QED  BY <1>1, <2>3, <2>4
<1>4. CASE f # -1
  <2>1. Files!Positions(s, size) = {p \in 0..(size - 1) : p >= f /\ (l = -1 \/ p <= l)}
    BY <1>2, <1>4 DEF Files!Positions
  <2>2. Files!parse_spec(s, size) = IF f >= size \/ (l # -1 /\ l < f) THEN <<>>
                                    ELSE <<f, IF l # -1 /\ l < size THEN l ELSE size - 1>>
    BY <1>2, <1>4 DEF Files!parse_spec, Files!parse_byte_range_spec
  <2>3. CASE f >= size \/ (l # -1 /\ l < f)  BY <1>1, <2>1, <2>2, <2>3
  <2>4. CASE ~(f >= size \/ (l # -1 /\ l < f))
    <3>1. PICK b \in Int : b = IF l # -1 /\ l < size THEN l ELSE size - 1  BY <1>1
    <3>2. Files!parse_spec(s, size) = <<f, b>> /\ b < size  BY <1>1, <2>2, <2>4, <3>1
    <3>3. f..b = {p \in 0..(size - 1) : p >= f /\ (l = -1 \/ p <= l)}  BY <1>1, <1>4, <2>4, <3>1
    <3> QED  BY <2>1, <3>2, <3>3
  <2> QED  BY <2>3, <2>4
<1> QED  BY <1>3, <1>4

(* All of the Range header, spec by spec.                                  *)
LEMMA RangesExactly ==
    ASSUME NEW range \in Seq(RangeSpecs), range # <<>>, NEW size \in Int, size > 0
    PROVE  LET p == Files!parse_byte_ranges(range, size) IN
           /\ p = <<>> => \E k \in DOMAIN range : Files!Positions(range[k], size) = {}
           /\ p # <<>> => /\ DOMAIN p = 1..Len(range) /\ Len(p) = Len(range)
                          /\ \A k \in 1..Len(range) : /\ (p[k][1])..(p[k][2]) = Files!Positions(range[k], size)
                                                      /\ p[k][2] \in Int /\ p[k][2] < size
<1> DEFINE parsed == [k \in DOMAIN range |-> Files!parse_spec(range[k], size)]
<1>1. DOMAIN range = 1..Len(range) /\ Len(range) \in Nat \ {0}
      /\ \A k \in 1..Len(range) : range[k] \in RangeSpecs
  OBVIOUS
<1>2. Files!parse_byte_ranges(range, size) = IF \E k \in DOMAIN range : parsed[k] = <<>> THEN <<>> ELSE parsed
  BY DEF Files!parse_byte_ranges
<1>3. CASE \E k \in DOMAIN range : parsed[k] = <<>>
  <2>1. PICK k \in DOMAIN range : Files!parse_spec(range[k], size) = <<>>  BY <1>3
  <2>2. Files!Positions(range[k], size) = {}  BY <1>1, <2>1, SpecExact
  <2> QED  BY <1>2, <1>3, <2>2
<1>4. CASE ~ \E k \in DOMAIN range : parsed[k] = <<>>
  <2>1. Files!parse_byte_ranges(range, size) = parsed  BY <1>2, <1>4
  <2>2. DOMAIN parsed = 1..Len(range)  BY <1>1
  <2>3. Len(parsed) = Len(range) /\ parsed # <<>>  BY <1>1
  <2>4. ASSUME NEW k \in 1..Len(range)
        PROVE  /\ (parsed[k][1])..(parsed[k][2]) = Files!Positions(range[k], size)
               /\ parsed[k][2] \in Int /\ parsed[k][2] < size
    <3>1. parsed[k] = Files!parse_spec(range[k], size) /\ parsed[k] # <<>> /\ range[k] \in RangeSpecs
      BY <1>1, <1>4
    <3> QED  BY <3>1, SpecExact
  <2> QED  BY <2>1, <2>2, <2>3, <2>4
<1> QED  BY <1>3, <1>4

(* What a step of another connection leaves of this one.                   *)
Kept(d) ==
    /\ pc'[d] = pc[d] /\ req'[d] = req[d] /\ mtime'[d] = mtime[d] /\ filesize'[d] = filesize[d]
    /\ fd'[d] = fd[d] /\ reply'[d] = reply[d]
NotChanged(d) == path' = path /\ inode' = inode /\ seen'[d] = seen[d] /\ cut'[d] = cut[d]

(* The step of another connection that leaves the file alone.              *)
LEMMA FileLeft == ASSUME NEW d, RequestOk(d), Kept(d), NotChanged(d) PROVE RequestOk(d)'
<1> USE DEF Kept, NotChanged
<1>1. Gone(d)' = Gone(d)  BY DEF Gone
<1>2. AskedOk(d)' /\ SilentOk(d)' /\ TimeOk(d)'
  BY <1>1 DEF RequestOk, AskedOk, SilentOk, TimeOk, Files!Version
<1>3. SizeOk(d)' /\ RangeOk(d)' /\ OpenOk(d)'
  BY <1>1 DEF RequestOk, SizeOk, RangeOk, OpenOk, Same
<1>4. SendOk(d)' /\ WriteOk(d)' /\ StuckOk(d)'
  BY <1>1 DEF RequestOk, SendOk, WriteOk, StuckOk
<1>5. ExactOk(d)' /\ TrueOk(d)'
  BY <1>1 DEF RequestOk, ExactOk, TrueOk
<1> QED  BY <1>2, <1>3, <1>4, <1>5 DEF RequestOk

(* write(2) shortens no file.                                              *)
Grown ==
    /\ path' = path
    /\ \A i \in Files!Inodes : inode'[i].len \in Int /\ inode'[i].len >= inode[i].len

LEMMA StillSame ==
    ASSUME FileTypes, Grown, NEW d \in HttpConns, NEW i \in 0..(MaxTime + 1), filesize'[d] = filesize[d], Same(d, i)
    PROVE  Same(d, i)'
<1>1. i \in Files!Inodes  BY DEF Same, Files!Inodes
<1>2. inode[i].len \in Int /\ filesize[d] \in Int  BY <1>1 DEF FileTypes
<1>3. inode'[i].len \in Int /\ inode'[i].len >= inode[i].len /\ inode[i].len >= filesize[d] /\ i # 0
  BY <1>1 DEF Grown, Same
<1> QED  BY <1>2, <1>3 DEF Same

(* The step of another connection that truncates, writes or deletes it.    *)
LEMMA FileChanged ==
    ASSUME FileTypes, NEW d \in HttpConns, RequestOk(d), Kept(d), pc[d] # "idle", cut[d] = TRUE => cut'[d] = TRUE,
           seen[d] \subseteq seen'[d], Files!Version' \in seen'[d], cut'[d] = TRUE \/ Gone(d)' \/ Grown
    PROVE  RequestOk(d)'
<1> USE DEF Kept
<1>1. Gone(d) => Gone(d)'  BY DEF Gone
<1>2. AskedOk(d)' /\ SilentOk(d)' /\ TimeOk(d)'
  BY <1>1 DEF RequestOk, AskedOk, SilentOk, TimeOk
<1>3. SizeOk(d)' /\ OpenOk(d)'
  <2>1. path \in 0..(MaxTime + 1) /\ fd[d] \in 0..(MaxTime + 1)  BY DEF FileTypes
  <2>2. Grown => path' = path /\ (Same(d, path) => Same(d, path)')
    <3>1. ASSUME Grown, Same(d, path) PROVE Same(d, path)'
      <4>1. PICK i \in 0..(MaxTime + 1) : i = path  BY <2>1
      <4>2. Same(d, i)'  BY <3>1, <4>1, StillSame
      <4> QED  BY <3>1, <4>1, <4>2 DEF Grown, Same
    <3> QED  BY <3>1 DEF Grown
  <2>3. Grown => fd'[d] = fd[d] /\ (Same(d, fd[d]) => Same(d, fd[d])')
    <3>1. ASSUME Grown, Same(d, fd[d]) PROVE Same(d, fd[d])'
      <4>1. PICK i \in 0..(MaxTime + 1) : i = fd[d]  BY <2>1
      <4>2. Same(d, i)'  BY <3>1, <4>1, StillSame
      <4> QED  BY <3>1, <4>1, <4>2 DEF Same
    <3> QED  BY <3>1
  <2> QED  BY <1>1, <2>2, <2>3 DEF RequestOk, SizeOk, OpenOk
<1>4. RangeOk(d)' /\ SendOk(d)' /\ WriteOk(d)' /\ StuckOk(d)'
  BY <1>1 DEF RequestOk, RangeOk, SendOk, WriteOk, StuckOk
<1>5. ExactOk(d)'  BY DEF RequestOk, ExactOk
<1>6. TrueOk(d)'  BY <1>1 DEF RequestOk, TrueOk
<1> QED  BY <1>2, <1>3, <1>4, <1>5, <1>6 DEF RequestOk

(* The file changes under requests: everyone is told of the version v, and *)
(* that it was truncated or deleted, if it did not just grow.              *)
Tells(v) ==
    /\ Files!Changed(v, TRUE) \/ (Files!Changed(v, FALSE) /\ (v.time = 0 \/ Grown))
    /\ Files!Version' = v \/ (Files!Version' = Files!Version /\ v.time = 0)

(* A request on another connection is as it was, but for what it is told.  *)
LEMMA ChangeSeen ==
    ASSUME FilesInv, NEW d \in HttpConns, Kept(d), NEW v, Tells(v)
    PROVE  RequestOk(d)' /\ (pc[d] # "idle" => Files!Version' \in seen'[d])
<1>0. RequestOk(d) /\ FileTypes  BY DEF FilesInv
<1>1. /\ seen'[d] = IF pc[d] = "idle" THEN {} ELSE seen[d] \cup {v}
      /\ cut[d] = TRUE => cut'[d] = TRUE
      /\ (cut'[d] = TRUE \/ v.time = 0 \/ Grown \/ pc[d] = "idle")
  BY <1>0 DEF Files!Changed, FileTypes, Tells
<1>2. CASE pc[d] # "idle"
  <2>1. Files!Version' \in seen'[d] /\ seen[d] \subseteq seen'[d]
    BY <1>0, <1>1, <1>2 DEF RequestOk, AskedOk, Tells
  <2>2. (cut[d] = TRUE => cut'[d] = TRUE) /\ (cut'[d] = TRUE \/ v.time = 0 \/ Grown)  BY <1>1, <1>2
  <2>3. v.time = 0 => Gone(d)'  BY <1>1, <1>2 DEF Gone
  <2> QED  BY <1>0, <1>2, <2>1, <2>2, <2>3, FileChanged
<1>3. CASE pc[d] = "idle"
  <2>1. pc'[d] = "idle" /\ reply'[d] = Files!NoReply
    BY <1>0, <1>3 DEF Kept, RequestOk, SilentOk, Unanswered
  <2>2. reply'[d].status = 0  BY <2>1 DEF Files!NoReply
  <2>3. AskedOk(d)' /\ SilentOk(d)' /\ TimeOk(d)' /\ SizeOk(d)' /\ RangeOk(d)' /\ OpenOk(d)' /\ SendOk(d)'
        /\ WriteOk(d)' /\ StuckOk(d)'
    BY <2>1 DEF AskedOk, SilentOk, TimeOk, SizeOk, RangeOk, OpenOk, SendOk, WriteOk, StuckOk, Files!NoReply
  <2>4. ExactOk(d)' /\ TrueOk(d)'
    BY <2>1, <2>2 DEF ExactOk, TrueOk, Files!NoReply
  <2> QED  BY <1>3, <2>3, <2>4 DEF RequestOk
<1> QED  BY <1>2, <1>3

(* A step of one connection that leaves the file alone.                    *)
LEMMA OneRequest ==
    ASSUME FilesInv, NEW c \in HttpConns, FileTypes', RequestOk(c)',
           \A d \in HttpConns : d # c => Kept(d) /\ NotChanged(d)
    PROVE  FilesInv'
<1>1. ASSUME NEW d \in HttpConns PROVE RequestOk(d)'
  <2>1. CASE d = c  BY <2>1
  <2>2. CASE d # c  BY <2>2, FileLeft DEF FilesInv
  <2> QED  BY <2>1, <2>2
<1> QED  BY <1>1 DEF FilesInv

(* A request that has not answered yet and is at none of the steps that    *)
(* know of the file.                                                       *)
LEMMA NothingKnown ==
    ASSUME NEW c, AskedOk(c)', reply'[c] = Files!NoReply,
           pc'[c] \in {"check", "time", "read", "truncate", "unlink"} \/ (pc'[c] = "write" /\ fd'[c] # 0)
    PROVE  RequestOk(c)'
<1>1. reply'[c].status = 0  BY DEF Files!NoReply
<1>2. SilentOk(c)' /\ TimeOk(c)' /\ SizeOk(c)' /\ RangeOk(c)' /\ OpenOk(c)' /\ SendOk(c)' /\ WriteOk(c)' /\ StuckOk(c)'
  BY DEF SilentOk, TimeOk, SizeOk, RangeOk, OpenOk, SendOk, WriteOk, StuckOk, Files!NoReply
<1>3. ExactOk(c)' /\ TrueOk(c)'
  BY <1>1 DEF ExactOk, TrueOk, Files!NoReply
<1> QED  BY <1>2, <1>3 DEF RequestOk

(* A request that is answered, with a status that promises nothing.        *)
LEMMA Answered ==
    ASSUME NEW c, AskedOk(c)', pc'[c] = "replied", reply'[c].status \notin {206, 304, 416}
    PROVE  RequestOk(c)'
<1>2. SilentOk(c)' /\ TimeOk(c)' /\ SizeOk(c)' /\ RangeOk(c)' /\ OpenOk(c)' /\ SendOk(c)' /\ WriteOk(c)' /\ StuckOk(c)'
  BY DEF SilentOk, TimeOk, SizeOk, RangeOk, OpenOk, SendOk, WriteOk, StuckOk, Unanswered
<1>3. ExactOk(c)' /\ TrueOk(c)'  BY DEF ExactOk, TrueOk
<1> QED  BY <1>2, <1>3 DEF RequestOk

(* process_request()                                                       *)
LEMMA FilesBegin ==
    ASSUME FilesConstants, FilesInv, NEW c \in HttpConns, NEW r \in HttpRequests, Files!Begin(c, r)
    PROVE  FilesInv'
<1>0. FileTypes /\ RequestOk(c) /\ r \in FileRequests  BY DEF FilesInv, FilesConstants
<1>1. /\ pc[c] = "idle" /\ req' = [req EXCEPT ![c] = r] /\ pc' = [pc EXCEPT ![c] = "check"]
      /\ seen' = [seen EXCEPT ![c] = {Files!Version}]
      /\ UNCHANGED <<path, inode, clock, has_file, mtime, filesize, fd, reply, cut>>
  BY DEF Files!Begin, Files!Local, Files!File
<1>2. FileTypes'  BY <1>0, <1>1 DEF FileTypes
<1>3. \A d \in HttpConns : d # c => Kept(d) /\ NotChanged(d)
  BY <1>0, <1>1 DEF FileTypes, Kept, NotChanged
<1>4. pc'[c] = "check" /\ req'[c] = r /\ seen'[c] = {Files!Version} /\ Files!Version' = Files!Version
      /\ reply'[c] = Files!NoReply
  BY <1>0, <1>1 DEF FileTypes, RequestOk, SilentOk, Unanswered, Files!Version
<1>5. AskedOk(c)'  BY <1>0, <1>4 DEF AskedOk
<1>6. RequestOk(c)'  BY <1>4, <1>5, NothingKnown
<1> QED  BY <1>2, <1>3, <1>6, OneRequest

(* is_regular_file()                                                       *)
LEMMA FilesCheck ==
    ASSUME FilesInv, NEW c \in HttpConns, Files!CheckFile(c) PROVE FilesInv'
<1>0. FileTypes /\ RequestOk(c)  BY DEF FilesInv
<1>1. /\ pc[c] = "check" /\ UNCHANGED <<path, inode, clock, req, mtime, filesize, fd, seen, cut>>
  BY DEF Files!CheckFile, Files!File
<1>2. PICK b \in BOOLEAN : has_file' = [has_file EXCEPT ![c] = b]  BY DEF Files!CheckFile
<1>3. PICK s \in {"truncate", "unlink", "time", "replied"} :
        /\ pc' = [pc EXCEPT ![c] = s]
        /\ IF s = "replied" THEN reply' = [reply EXCEPT ![c] = [Files!NoReply EXCEPT !.status = 404]]
           ELSE reply' = reply
  BY DEF Files!CheckFile, Files!Local
<1>4. FileTypes'  BY <1>0, <1>1, <1>2, <1>3 DEF FileTypes
<1>5. \A d \in HttpConns : d # c => Kept(d) /\ NotChanged(d)
  BY <1>0, <1>1, <1>3 DEF FileTypes, Kept, NotChanged
<1>6. pc'[c] = s /\ reply[c] = Files!NoReply /\ req'[c] = req[c] /\ Files!Version' = Files!Version
  BY <1>0, <1>1, <1>3 DEF FileTypes, RequestOk, SilentOk, Unanswered, Files!Version
<1>7. AskedOk(c)'  BY <1>0, <1>1, <1>6 DEF RequestOk, AskedOk
<1>8. CASE s = "replied"
  <2>1. reply'[c].status = 404  BY <1>0, <1>3, <1>8 DEF FileTypes, Files!NoReply
  <2> QED  BY <1>4, <1>5, <1>6, <1>7, <1>8, <2>1, Answered, OneRequest
<1>9. CASE s # "replied"
  BY <1>3, <1>4, <1>5, <1>6, <1>7, <1>9, NothingKnown, OneRequest
<1> QED  BY <1>8, <1>9

(* get_last_modified(): the time of a version seen, or there is no file.   *)
LEMMA FilesStatTime ==
    ASSUME FilesConstants, FilesInv, NEW c \in HttpConns, Files!StatTime(c) PROVE FilesInv'
<1>0. FileTypes /\ RequestOk(c) /\ MaxTime \in Nat  BY DEF FilesInv, FilesConstants
<1>1. /\ pc[c] = "time" /\ pc' = [pc EXCEPT ![c] = "size"]
      /\ UNCHANGED <<path, inode, clock, req, has_file, filesize, fd, reply, seen, cut>>
  BY DEF Files!StatTime, Files!Local, Files!File
<1>2. PICK t \in (IF path # 0 THEN {inode[path].time} ELSE 0..MaxTime) : mtime' = [mtime EXCEPT ![c] = t]
  BY DEF Files!StatTime
<1>3. t \in Int /\ (path # 0 => t = inode[path].time)
  <2>1. path # 0 => path \in Files!Inodes  BY <1>0 DEF FileTypes, Files!Inodes
  <2>2. path # 0 => inode[path].time \in Int  BY <1>0, <2>1 DEF FileTypes
  <2> QED  BY <1>0, <1>2, <2>2
<1>4. FileTypes'  BY <1>0, <1>1, <1>2, <1>3 DEF FileTypes
<1>5. \A d \in HttpConns : d # c => Kept(d) /\ NotChanged(d)
  BY <1>0, <1>1, <1>2 DEF FileTypes, Kept, NotChanged
<1>6. pc'[c] = "size" /\ reply'[c] = Files!NoReply /\ reply'[c].status = 0 /\ mtime'[c] = t
  BY <1>0, <1>1, <1>2 DEF FileTypes, RequestOk, SilentOk, Unanswered, Files!NoReply
<1>7. Files!Version \in seen[c] /\ req[c] \in FileRequests  BY <1>0, <1>1 DEF RequestOk, AskedOk
<1>8. AskedOk(c)'  BY <1>1, <1>7 DEF AskedOk, Files!Version
<1>9. TimeOk(c)'
  <2>1. CASE path = 0
    <3>1. Files!Version.time = 0  BY <2>1 DEF Files!Version
    <3> QED  BY <1>1, <1>7, <3>1 DEF TimeOk, Gone
  <2>2. CASE path # 0
    <3>1. Files!Version.time = t  BY <1>3, <2>2 DEF Files!Version
    <3> QED  BY <1>1, <1>6, <1>7, <3>1 DEF TimeOk
  <2> QED  BY <2>1, <2>2
<1>10. SilentOk(c)' /\ SizeOk(c)' /\ RangeOk(c)' /\ OpenOk(c)' /\ SendOk(c)' /\ WriteOk(c)' /\ StuckOk(c)'
  BY <1>6 DEF SilentOk, SizeOk, RangeOk, OpenOk, SendOk, WriteOk, StuckOk, Files!NoReply
<1>11. ExactOk(c)' /\ TrueOk(c)'  BY <1>6 DEF ExactOk, TrueOk, Files!NoReply
<1>12. RequestOk(c)'  BY <1>8, <1>9, <1>10, <1>11 DEF RequestOk
<1> QED  BY <1>4, <1>5, <1>12, OneRequest

(* get_file_size(): the size the file has, or there is none.               *)
LEMMA FilesStatSize ==
    ASSUME FilesConstants, FilesInv, NEW c \in HttpConns, Files!StatSize(c) PROVE FilesInv'
<1>0. FileTypes /\ RequestOk(c) /\ Lens \subseteq Nat  BY DEF FilesInv, FilesConstants
<1>1. /\ pc[c] = "size" /\ pc' = [pc EXCEPT ![c] = "conditions"]
      /\ UNCHANGED <<path, inode, clock, req, has_file, mtime, fd, reply, seen, cut>>
  BY DEF Files!StatSize, Files!Local, Files!File
<1>2. PICK n \in (IF path # 0 THEN {inode[path].len} ELSE Lens) : filesize' = [filesize EXCEPT ![c] = n]
  BY DEF Files!StatSize
<1>3. n \in Nat /\ (path # 0 => n = inode[path].len)
  <2>1. path # 0 => path \in Files!Inodes  BY <1>0 DEF FileTypes, Files!Inodes
  <2>2. path # 0 => inode[path].len \in Nat  BY <1>0, <2>1 DEF FileTypes
  <2>3. CASE path # 0
    <3>1. n = inode[path].len  BY <1>2, <2>3
    <3> QED  BY <2>2, <2>3, <3>1
  <2>4. CASE path = 0
    <3>1. n \in Lens  BY <1>2, <2>4
    <3> QED  BY <1>0, <2>4, <3>1
  <2> QED  BY <2>3, <2>4
<1>4. FileTypes'  BY <1>0, <1>1, <1>2, <1>3 DEF FileTypes
<1>5. \A d \in HttpConns : d # c => Kept(d) /\ NotChanged(d)
  BY <1>0, <1>1, <1>2 DEF FileTypes, Kept, NotChanged
<1>6. pc'[c] = "conditions" /\ reply'[c] = Files!NoReply /\ reply'[c].status = 0 /\ filesize'[c] = n
  BY <1>0, <1>1, <1>2 DEF FileTypes, RequestOk, SilentOk, Unanswered, Files!NoReply
<1>7. Files!Version \in seen[c] /\ req[c] \in FileRequests  BY <1>0, <1>1 DEF RequestOk, AskedOk
<1>8. AskedOk(c)'  BY <1>1, <1>7 DEF AskedOk, Files!Version
<1>9. SizeOk(c)'
  <2>1. CASE path = 0
    <3>1. Files!Version.time = 0  BY <2>1 DEF Files!Version
    <3> QED  BY <1>1, <1>7, <3>1 DEF SizeOk, Gone
  <2>2. CASE path # 0  BY <1>1, <1>3, <1>6, <2>2 DEF SizeOk, Same
  <2> QED  BY <2>1, <2>2
<1>10. TimeOk(c)'  BY <1>0, <1>1 DEF RequestOk, TimeOk, Gone
<1>11. SilentOk(c)' /\ RangeOk(c)' /\ OpenOk(c)' /\ SendOk(c)' /\ WriteOk(c)' /\ StuckOk(c)'
  BY <1>6 DEF SilentOk, RangeOk, OpenOk, SendOk, WriteOk, StuckOk, Files!NoReply
<1>12. ExactOk(c)' /\ TrueOk(c)'  BY <1>6 DEF ExactOk, TrueOk, Files!NoReply
<1>13. RequestOk(c)'  BY <1>8, <1>9, <1>10, <1>11, <1>12 DEF RequestOk
<1> QED  BY <1>4, <1>5, <1>13, OneRequest

(* A 304 for an entity tag comes from If-None-Match, the first condition.  *)
LEMMA NotModifiedTag ==
    ASSUME NEW c, NEW r \in FileRequests, Files!handle_conditional(c, r) = 304,
           r.none_match \notin {Files!NoTag, Files!AnyTag}
    PROVE  r.none_match.time = mtime[c]
<1> DEFINE codes == <<Files!if_none_match(c, r), Files!if_modified_since(c, r), Files!if_match(c, r),
                      Files!if_unmodified_since(c, r)>>
           given == {k \in 1..4 : codes[k] # Files!NoHeader}
<1>1. Files!if_none_match(c, r) = IF Files!weak_etag_equal(r.none_match, Files!etag(c))
                                  THEN IF Files!Reading(r) THEN 304 ELSE 412 ELSE 1
  BY DEF Files!if_none_match, Files!Successful
<1>2. codes[1] = Files!if_none_match(c, r) /\ codes[1] # 0  BY <1>1
<1>3. Files!handle_conditional(c, r) = IF given = {} THEN Files!NoHeader ELSE codes[Files!Min(given)]
  BY DEF Files!handle_conditional
<1> HIDE DEF codes
<1>4. 1 \in given  BY <1>2 DEF Files!NoHeader
<1>5. given \subseteq 1..4  OBVIOUS
<1> HIDE DEF given
<1>6. \A y \in given : 1 <= y  BY <1>5
<1>7. \A x \in given : (\A y \in given : x <= y) => x = 1
  <2>1. ASSUME NEW x \in given, \A y \in given : x <= y PROVE x = 1
    <3>1. x <= 1 /\ x \in 1..4  BY <1>4, <1>5, <2>1
    <3> QED  BY <3>1
  <2> QED  BY <2>1
<1>8. (CHOOSE x \in given : \A y \in given : x <= y) = 1  BY <1>4, <1>6, <1>7
<1>9. Files!Min(given) = 1  BY <1>8 DEF Files!Min
<1>10. Files!if_none_match(c, r) = 304  BY <1>2, <1>3, <1>4, <1>9
<1>11. Files!weak_etag_equal(r.none_match, Files!etag(c))  BY <1>1, <1>10
<1> QED  BY <1>11 DEF Files!weak_etag_equal, Files!etag, Files!Tag

(* The conditions, and the Range header when they let the request pass.    *)
LEMMA FilesConditions ==
    ASSUME FilesConstants, FilesInv, NEW c \in HttpConns, Files!Conditions(c) PROVE FilesInv'
<1> DEFINE code == Files!handle_conditional(c, req[c])
           range == Files!if_range(c, req[c])
           refused == range # <<>> /\ filesize[c] # 0 /\ Files!parse_byte_ranges(range, filesize[c]) = <<>>
<1>0. FileTypes /\ RequestOk(c)  BY DEF FilesInv
<1>1. pc[c] = "conditions" /\ UNCHANGED <<path, inode, clock, seen, cut>>
  BY DEF Files!Conditions, Files!File
<1>2. /\ req[c] \in FileRequests /\ Files!Version \in seen[c] /\ Files!Version' = Files!Version
      /\ filesize[c] \in Nat
  BY <1>0, <1>1 DEF RequestOk, AskedOk, FileTypes, Files!Version
<1>3. range \in Seq(RangeSpecs) /\ (range = <<>> \/ range = req[c].range)
  BY <1>2 DEF Files!if_range, FileRequests
<1>4. \/ code \in {304, 412} /\ Files!Reply(c, code, <<>>, 0)
      \/ Files!Reply(c, 200, <<>>, filesize[c]) \/ Files!Reply(c, 200, <<>>, 0)
      \/ refused /\ Files!Reply(c, 416, <<>>, 0)
      \/ /\ ~refused /\ (range = <<>> \/ filesize[c] # 0)
         /\ req' = [req EXCEPT ![c].range = range]
         /\ pc' = [pc EXCEPT ![c] = "open"]
         /\ UNCHANGED <<has_file, mtime, filesize, fd, reply>>
  BY DEF Files!Conditions, Files!Local
<1> HIDE DEF code, range, refused
<1>5. ASSUME NEW s, NEW n, Files!Reply(c, s, <<>>, n),
             s = 416 => \E k \in DOMAIN req[c].range : Files!Positions(req[c].range[k], filesize[c]) = {},
             s = 304 => code = 304, s # 206
      PROVE  FilesInv'
  <2>1. /\ reply' = [reply EXCEPT ![c] = [status |-> s, ranges |-> <<>>, declared |-> n, sent |-> 0]]
        /\ pc' = [pc EXCEPT ![c] = "replied"] /\ UNCHANGED <<req, has_file, mtime, filesize, fd>>
    BY <1>5 DEF Files!Reply, Files!Local
  <2>2. FileTypes'  BY <1>0, <1>1, <2>1 DEF FileTypes
  <2>3. \A d \in HttpConns : d # c => Kept(d) /\ NotChanged(d)
    BY <1>0, <1>1, <2>1 DEF FileTypes, Kept, NotChanged
  <2>4. pc'[c] = "replied" /\ reply'[c].status = s  BY <1>0, <2>1 DEF FileTypes
  <2>5. AskedOk(c)'  BY <1>1, <1>2, <2>1 DEF AskedOk
  <2>6. SilentOk(c)' /\ TimeOk(c)' /\ SizeOk(c)' /\ RangeOk(c)' /\ OpenOk(c)' /\ SendOk(c)' /\ WriteOk(c)' /\ StuckOk(c)'
    BY <2>4 DEF SilentOk, TimeOk, SizeOk, RangeOk, OpenOk, SendOk, WriteOk, StuckOk, Unanswered
  <2>7. ExactOk(c)'  BY <1>5, <2>1, <2>4 DEF ExactOk
  <2>8. TrueOk(c)'
    <3>1. ASSUME s = 304, req[c].none_match \notin {Files!NoTag, Files!AnyTag}
          PROVE  (\E v \in seen[c] : v.time = req[c].none_match.time) \/ Gone(c)
      <4>1. req[c].none_match.time = mtime[c]  BY <1>2, <1>5, <3>1, NotModifiedTag DEF code
      <4> QED  BY <1>0, <1>1, <4>1 DEF RequestOk, TimeOk
    <3> QED  BY <1>1, <2>1, <2>4, <3>1 DEF TrueOk, Gone
  <2>9. RequestOk(c)'  BY <2>5, <2>6, <2>7, <2>8 DEF RequestOk
  <2> QED  BY <2>2, <2>3, <2>9, OneRequest
<1>6. CASE refused /\ Files!Reply(c, 416, <<>>, 0)
  <2>1. range # <<>> /\ filesize[c] > 0 /\ Files!parse_byte_ranges(range, filesize[c]) = <<>>
    BY <1>2, <1>6 DEF refused
  <2>2. \E k \in DOMAIN range : Files!Positions(range[k], filesize[c]) = {}
    <3>1. filesize[c] \in Int  BY <1>2
    <3> QED  BY <1>3, <2>1, <3>1, RangesExactly
  <2> QED  BY <1>3, <1>5, <1>6, <2>1, <2>2
<1>7. CASE /\ ~refused /\ (range = <<>> \/ filesize[c] # 0)
           /\ req' = [req EXCEPT ![c].range = range]
           /\ pc' = [pc EXCEPT ![c] = "open"]
           /\ UNCHANGED <<has_file, mtime, filesize, fd, reply>>
  <2>1. FileTypes'  BY <1>0, <1>1, <1>7 DEF FileTypes
  <2>2. \A d \in HttpConns : d # c => Kept(d) /\ NotChanged(d)
    BY <1>0, <1>1, <1>7 DEF FileTypes, Kept, NotChanged
  <2>3. PICK x \in Seq(RangeSpecs) : x = range  BY <1>3
  <2>4. pc'[c] = "open" /\ req'[c] = [req[c] EXCEPT !.range = x] /\ reply'[c] = Files!NoReply /\ reply'[c].status = 0
    BY <1>0, <1>1, <1>7, <2>3 DEF FileTypes, RequestOk, SilentOk, Unanswered, Files!NoReply
  <2>5. req'[c] \in FileRequests /\ req'[c].range = x  BY <1>2, <2>4 DEF FileRequests
  <2>6. AskedOk(c)'  BY <1>1, <1>2, <2>5 DEF AskedOk
  <2>7. SizeOk(c)'  BY <1>0, <1>1, <1>7 DEF RequestOk, SizeOk, Gone, Same
  <2>8. RangeOk(c)'  BY <1>2, <1>7, <2>3, <2>5 DEF RangeOk, refused
  <2>9. SilentOk(c)' /\ TimeOk(c)' /\ OpenOk(c)' /\ SendOk(c)' /\ WriteOk(c)' /\ StuckOk(c)'
    BY <2>4 DEF SilentOk, TimeOk, OpenOk, SendOk, WriteOk, StuckOk, Files!NoReply
  <2>10. ExactOk(c)' /\ TrueOk(c)'  BY <2>4 DEF ExactOk, TrueOk, Files!NoReply
  <2>11. RequestOk(c)'  BY <2>6, <2>7, <2>8, <2>9, <2>10 DEF RequestOk
  <2> QED  BY <2>1, <2>2, <2>11, OneRequest
<1>8. CASE code \in {304, 412} /\ Files!Reply(c, code, <<>>, 0)
  <2>1. code # 416 /\ code # 206 /\ (code = 304 => code = 304)  BY <1>8
  <2> QED  BY <1>5, <1>8, <2>1
<1>9. CASE Files!Reply(c, 200, <<>>, filesize[c]) \/ Files!Reply(c, 200, <<>>, 0)  BY <1>5, <1>9
<1> QED  BY <1>4, <1>6, <1>7, <1>8, <1>9

(* open(): what is opened is the file as it is.                            *)
LEMMA FilesOpen ==
    ASSUME FilesInv, NEW c \in HttpConns, Files!Open(c) PROVE FilesInv'
<1> DEFINE whole == req[c].range = <<>>
           ranges == IF whole THEN <<<<0, filesize[c] - 1>>>>
                     ELSE Files!parse_byte_ranges(req[c].range, filesize[c])
<1>0. FileTypes /\ RequestOk(c)  BY DEF FilesInv
<1>1. /\ pc[c] = "open" /\ fd' = [fd EXCEPT ![c] = path]
      /\ UNCHANGED <<path, inode, clock, req, has_file, mtime, filesize, seen, cut>>
  BY DEF Files!Open, Files!File
<1>2. /\ req[c] \in FileRequests /\ Files!Version \in seen[c] /\ Files!Version' = Files!Version
      /\ filesize[c] \in Int /\ reply[c] = Files!NoReply /\ path \in 0..(MaxTime + 1)
  BY <1>0, <1>1 DEF RequestOk, AskedOk, SilentOk, Unanswered, FileTypes, Files!Version
<1>3. AskedOk(c)'  BY <1>1, <1>2 DEF AskedOk
<1>4. CASE pc' = [pc EXCEPT ![c] = "read"] /\ reply' = reply
  <2>1. FileTypes'  BY <1>0, <1>1, <1>4 DEF FileTypes
  <2>2. \A d \in HttpConns : d # c => Kept(d) /\ NotChanged(d)
    BY <1>0, <1>1, <1>4 DEF FileTypes, Kept, NotChanged
  <2>3. pc'[c] = "read" /\ reply'[c] = Files!NoReply  BY <1>0, <1>2, <1>4 DEF FileTypes
  <2> QED  BY <1>3, <2>1, <2>2, <2>3, NothingKnown, OneRequest
<1>5. CASE /\ pc' = [pc EXCEPT ![c] = "sendfile"]
           /\ reply' = [reply EXCEPT ![c] = [status |-> IF whole THEN 200 ELSE 206, ranges |-> ranges,
                                             declared |-> Files!Length(ranges), sent |-> 0]]
  <2>1. FileTypes'  BY <1>0, <1>1, <1>2, <1>5 DEF FileTypes
  <2>2. \A d \in HttpConns : d # c => Kept(d) /\ NotChanged(d)
    BY <1>0, <1>1, <1>5 DEF FileTypes, Kept, NotChanged
  <2>3. /\ pc'[c] = "sendfile" /\ fd'[c] = path /\ reply'[c].ranges = ranges /\ reply'[c].sent = 0
        /\ reply'[c].status = IF whole THEN 200 ELSE 206
    BY <1>0, <1>1, <1>5 DEF FileTypes
  <2>4. OpenOk(c)'
    <3>1. path = 0 => Gone(c)
      <4>1. path = 0 => Files!Version.time = 0  BY DEF Files!Version
      <4> QED  BY <1>2, <4>1 DEF Gone
    <3>2. Gone(c) \/ cut[c] = TRUE \/ Same(c, path)  BY <1>0, <1>1 DEF RequestOk, SizeOk
    <3>3. Gone(c)' = Gone(c) /\ Same(c, path)' = Same(c, path)  BY <1>1 DEF Gone, Same
    <3> QED  BY <1>1, <2>3, <3>1, <3>2, <3>3 DEF OpenOk, Same
  <2>5. /\ Len(ranges) \in Nat \ {0} /\ DOMAIN ranges = 1..Len(ranges)
        /\ \A k \in DOMAIN ranges : ranges[k][2] \in Int /\ ranges[k][2] < filesize[c]
        /\ ~whole => \A k \in DOMAIN ranges :
                        (ranges[k][1])..(ranges[k][2]) = Files!Positions(req[c].range[k], filesize[c])
    <3>1. CASE whole
      <4>1. ranges = <<<<0, filesize[c] - 1>>>>  BY <3>1
      <4>2. Len(ranges) = 1 /\ DOMAIN ranges = 1..1 /\ ranges[1] = <<0, filesize[c] - 1>>  BY <4>1
      <4>3. ranges[1][2] = filesize[c] - 1  BY <4>2
      <4>4. \A k \in 1..1 : k = 1  OBVIOUS
      <4> QED  BY <1>2, <3>1, <4>2, <4>3, <4>4
    <3>2. CASE ~whole
      <4>1. /\ req[c].range \in Seq(RangeSpecs) /\ req[c].range # <<>> /\ filesize[c] > 0
            /\ ranges = Files!parse_byte_ranges(req[c].range, filesize[c]) /\ ranges # <<>>
        BY <1>0, <1>1, <1>2, <3>2 DEF RequestOk, RangeOk, FileRequests
      <4> DEFINE x == req[c].range
      <4>2. Len(x) \in Nat \ {0}  BY <4>1
      <4>3. /\ DOMAIN ranges = 1..Len(x) /\ Len(ranges) = Len(x)
            /\ \A k \in 1..Len(x) : /\ (ranges[k][1])..(ranges[k][2]) = Files!Positions(x[k], filesize[c])
                                    /\ ranges[k][2] \in Int /\ ranges[k][2] < filesize[c]
        <5> HIDE DEF ranges, whole
        <5> QED  BY <1>2, <4>1, RangesExactly
      <4> HIDE DEF ranges, whole
      <4> QED  BY <4>2, <4>3
    <3> QED  BY <3>1, <3>2
  <2> HIDE DEF ranges, whole
  <2>6. SendOk(c)'
    <3>1. reply'[c] = [status |-> reply'[c].status, ranges |-> reply'[c].ranges,
                       declared |-> reply'[c].declared, sent |-> reply'[c].sent]
      BY <1>0, <1>5 DEF FileTypes
    <3>2. 0 + 1 \in DOMAIN ranges /\ 0 \in Nat /\ Len(ranges) \in Nat  BY <2>5
    <3> QED  BY <1>1, <2>3, <2>5, <3>1, <3>2 DEF SendOk
  <2>7. ExactOk(c)' /\ TrueOk(c)'  BY <1>1, <2>3, <2>5 DEF ExactOk, TrueOk
  <2>8. SilentOk(c)' /\ TimeOk(c)' /\ SizeOk(c)' /\ RangeOk(c)' /\ WriteOk(c)' /\ StuckOk(c)'
    BY <2>3 DEF SilentOk, TimeOk, SizeOk, RangeOk, WriteOk, StuckOk, Unanswered
  <2>9. RequestOk(c)'  BY <1>3, <2>4, <2>6, <2>7, <2>8 DEF RequestOk
  <2> QED  BY <2>1, <2>2, <2>9, OneRequest
<1> QED  BY <1>4, <1>5 DEF Files!Open, Files!Local

(* A small file is read as it is, and what was read is what is declared.   *)
LEMMA FilesRead ==
    ASSUME FilesInv, NEW c \in HttpConns, Files!ReadSmall(c) PROVE FilesInv'
<1>0. FileTypes /\ RequestOk(c)  BY DEF FilesInv
<1>1. /\ pc[c] = "read" /\ pc' = [pc EXCEPT ![c] = "replied"]
      /\ UNCHANGED <<path, inode, clock, req, has_file, mtime, filesize, fd, seen, cut>>
  BY DEF Files!ReadSmall, Files!Local, Files!File
<1>2. PICK x, n : reply' = [reply EXCEPT ![c] = [status |-> 200, ranges |-> x, declared |-> n, sent |-> 1]]
  BY DEF Files!ReadSmall
<1>3. FileTypes'  BY <1>0, <1>1, <1>2 DEF FileTypes
<1>4. \A d \in HttpConns : d # c => Kept(d) /\ NotChanged(d)
  BY <1>0, <1>1, <1>2 DEF FileTypes, Kept, NotChanged
<1>5. pc'[c] = "replied" /\ reply'[c].status = 200  BY <1>0, <1>1, <1>2 DEF FileTypes
<1>6. AskedOk(c)'  BY <1>0, <1>1 DEF RequestOk, AskedOk, Files!Version
<1> QED  BY <1>3, <1>4, <1>5, <1>6, Answered, OneRequest

(* A range is sent, or sendfile() fails or waits: the file is not as it    *)
(* was when its size was found.                                            *)
LEMMA FilesSend ==
    ASSUME FilesInv, NEW c \in HttpConns, Files!SendRange(c) PROVE FilesInv'
<1> DEFINE r == reply[c].ranges[reply[c].sent + 1]
           ok == fd[c] # 0 /\ inode[fd[c]].len > r[2]
           n == IF ok THEN reply[c].sent + 1 ELSE reply[c].sent
           s == IF fd[c] = 0 THEN "closed" ELSE IF ~ok THEN "stalled"
                ELSE IF reply[c].sent + 1 = Len(reply[c].ranges) THEN "replied" ELSE "sendfile"
<1>0. FileTypes /\ RequestOk(c)  BY DEF FilesInv
<1>1. /\ pc[c] = "sendfile" /\ reply' = [reply EXCEPT ![c].sent = n]
      /\ pc' = [pc EXCEPT ![c] = s]
      /\ UNCHANGED <<path, inode, clock, req, has_file, mtime, filesize, fd, seen, cut>>
  BY DEF Files!SendRange, Files!Local, Files!File
<1>2. FileTypes'  BY <1>0, <1>1 DEF FileTypes
<1>3. \A d \in HttpConns : d # c => Kept(d) /\ NotChanged(d)
  BY <1>0, <1>1 DEF FileTypes, Kept, NotChanged
<1>4. /\ Len(reply[c].ranges) \in Nat /\ reply[c].sent + 1 \in DOMAIN reply[c].ranges
      /\ DOMAIN reply[c].ranges = 1..Len(reply[c].ranges) /\ reply[c].sent \in Nat
      /\ \A k \in DOMAIN reply[c].ranges : /\ reply[c].ranges[k][2] \in Int
                                           /\ reply[c].ranges[k][2] < filesize[c]
  BY <1>0, <1>1 DEF RequestOk, SendOk
<1>5. r[2] \in Int /\ r[2] < filesize[c] /\ filesize[c] \in Int  BY <1>0, <1>4 DEF FileTypes
<1>6. s = "closed" => Gone(c)  BY <1>0, <1>1 DEF RequestOk, OpenOk
<1>7. s = "stalled" => cut[c] = TRUE \/ Gone(c)
  <2>1. ASSUME fd[c] # 0, ~ok, Same(c, fd[c]) PROVE FALSE
    <3>1. inode[fd[c]].len >= filesize[c]  BY <2>1 DEF Same
    <3>2. fd[c] \in Files!Inodes  BY <1>0, <2>1 DEF FileTypes, Files!Inodes
    <3>3. inode[fd[c]].len \in Nat  BY <1>0, <3>2 DEF FileTypes
    <3> QED  BY <1>5, <2>1, <3>1, <3>3
  <2>2. s = "stalled" => fd[c] # 0 /\ ~ok  OBVIOUS
  <2> HIDE DEF ok, s
  <2> QED  BY <1>0, <1>1, <2>1, <2>2 DEF RequestOk, OpenOk
<1>8. s = "sendfile" => n + 1 \in DOMAIN reply[c].ranges /\ n \in Nat
  <2>1. ASSUME s = "sendfile" PROVE n = reply[c].sent + 1 /\ reply[c].sent + 1 # Len(reply[c].ranges)
    BY <2>1
  <2> HIDE DEF n, s
  <2> QED  BY <1>4, <2>1
<1>9. s \in {"closed", "stalled", "replied", "sendfile"}  OBVIOUS
<1> HIDE DEF n, s, ok, r
<1>10. pc'[c] = s /\ reply'[c] = [reply[c] EXCEPT !.sent = n]  BY <1>0, <1>1 DEF FileTypes
<1>11. reply'[c].ranges = reply[c].ranges /\ reply'[c].status = reply[c].status /\ reply'[c].sent = n
       /\ reply'[c] = [status |-> reply'[c].status, ranges |-> reply'[c].ranges,
                       declared |-> reply'[c].declared, sent |-> reply'[c].sent]
  <2>1. reply[c] = [status |-> reply[c].status, ranges |-> reply[c].ranges,
                    declared |-> reply[c].declared, sent |-> reply[c].sent]
    BY <1>0, <1>1 DEF RequestOk, SendOk
  <2> QED  BY <1>10, <2>1
<1>12. Gone(c)' = Gone(c)  BY <1>1 DEF Gone
<1>13. AskedOk(c)'  BY <1>0, <1>1 DEF RequestOk, AskedOk, Files!Version
<1>14. OpenOk(c)'  BY <1>0, <1>1, <1>12 DEF RequestOk, OpenOk, Same
<1>15. SendOk(c)'  BY <1>1, <1>4, <1>8, <1>10, <1>11 DEF SendOk
<1>16. StuckOk(c)'  BY <1>1, <1>6, <1>7, <1>10, <1>12 DEF StuckOk
<1>17. SilentOk(c)' /\ TimeOk(c)' /\ SizeOk(c)' /\ RangeOk(c)' /\ WriteOk(c)'
  BY <1>9, <1>10 DEF SilentOk, TimeOk, SizeOk, RangeOk, WriteOk, Unanswered
<1>18. ExactOk(c)'
  <2>1. reply[c] = Files!NoReply => reply[c].status = 0  BY DEF Files!NoReply
  <2>2. /\ reply[c].status = 206 =>
              \A k \in DOMAIN reply[c].ranges :
                  (reply[c].ranges[k][1])..(reply[c].ranges[k][2])
                      = Files!Positions(req[c].range[k], filesize[c])
        /\ reply[c].status = 416 =>
              \E k \in DOMAIN req[c].range : Files!Positions(req[c].range[k], filesize[c]) = {}
    BY <1>0, <2>1 DEF RequestOk, ExactOk
  <2> QED  BY <1>1, <1>11, <2>2 DEF ExactOk
<1>19. TrueOk(c)'  BY <1>0, <1>1, <1>11, <1>12 DEF RequestOk, TrueOk
<1>20. RequestOk(c)'  BY <1>13, <1>14, <1>15, <1>16, <1>17, <1>18, <1>19 DEF RequestOk
<1> QED  BY <1>2, <1>3, <1>20, OneRequest

(* open(O_TRUNC | O_CREAT): every request that goes on is told.            *)
LEMMA FilesPutOpen ==
    ASSUME FilesConstants, FilesInv, NEW c \in HttpConns, Files!PutOpen(c) PROVE FilesInv'
<1>0. FileTypes /\ RequestOk(c) /\ MaxTime \in Nat  BY DEF FilesInv, FilesConstants
<1>1. PICK i : i = IF path # 0 THEN path ELSE clock + 1  OBVIOUS
<1>2. /\ pc[c] = "truncate" /\ clock < MaxTime /\ path' = i /\ clock' = clock + 1
      /\ inode' = [inode EXCEPT ![i] = [time |-> clock + 1, len |-> 0]]
      /\ fd' = [fd EXCEPT ![c] = i] /\ pc' = [pc EXCEPT ![c] = "write"]
      /\ Files!Changed(inode'[i], TRUE) /\ UNCHANGED <<req, has_file, mtime, filesize, reply>>
  BY <1>1 DEF Files!PutOpen, Files!Local
<1>3. i \in Files!Inodes /\ i \in 0..(MaxTime + 1) /\ i # 0
  BY <1>0, <1>1, <1>2 DEF FileTypes, Files!Inodes
<1>4. PICK v : v = inode'[i] /\ Files!Version' = v /\ Files!Changed(v, TRUE)
  BY <1>2, <1>3 DEF Files!Version
<1>5. DOMAIN seen' = HttpConns /\ cut' \in [HttpConns -> BOOLEAN]
  BY <1>0, <1>2 DEF FileTypes, Files!Changed
<1>6. FileTypes'
  <2>1. inode' \in [Files!Inodes -> [time: Int, len: Nat]]  BY <1>0, <1>2, <1>3 DEF FileTypes
  <2>2. path' \in 0..(MaxTime + 1) /\ clock' \in Nat /\ fd' \in [HttpConns -> 0..(MaxTime + 1)]
    BY <1>0, <1>2, <1>3 DEF FileTypes
  <2>3. DOMAIN pc' = HttpConns /\ UNCHANGED <<req, has_file, mtime, filesize, reply>>  BY <1>0, <1>2 DEF FileTypes
  <2> QED  BY <1>0, <1>5, <2>1, <2>2, <2>3 DEF FileTypes
<1>7. ASSUME NEW d \in HttpConns PROVE RequestOk(d)'
  <2>1. CASE d # c
    <3>1. Kept(d)  BY <1>0, <1>2, <2>1 DEF FileTypes, Kept
    <3>2. Tells(v)  BY <1>4 DEF Tells
    <3> QED  BY <3>1, <3>2, ChangeSeen
  <2>2. CASE d = c
    <3>1. pc'[c] = "write" /\ fd'[c] = i /\ reply'[c] = Files!NoReply /\ req[c] \in FileRequests
      BY <1>0, <1>2 DEF FileTypes, RequestOk, SilentOk, AskedOk, Unanswered
    <3>2. inode'[i] \in seen'[c]  BY <1>2 DEF Files!Changed
    <3>3. AskedOk(c)'  BY <1>2, <1>4, <3>1, <3>2 DEF AskedOk
    <3> QED  BY <1>3, <2>2, <3>1, <3>3, NothingKnown
  <2> QED  BY <2>1, <2>2
<1> QED  BY <1>6, <1>7 DEF FilesInv

(* A PUT that fails, at either call, and has written nothing.              *)
LEMMA FilesPutFails ==
    ASSUME FilesInv, NEW c \in HttpConns, pc[c] # "idle", Files!Reply(c, 500, <<>>, 0),
           UNCHANGED <<path, inode, clock, seen, cut>>
    PROVE  FilesInv'
<1>0. FileTypes /\ RequestOk(c)  BY DEF FilesInv
<1>1. /\ reply' = [reply EXCEPT ![c] = [status |-> 500, ranges |-> <<>>, declared |-> 0, sent |-> 0]]
      /\ pc' = [pc EXCEPT ![c] = "replied"] /\ UNCHANGED <<req, has_file, mtime, filesize, fd>>
  BY DEF Files!Reply, Files!Local
<1>2. FileTypes'  BY <1>0, <1>1 DEF FileTypes
<1>3. \A d \in HttpConns : d # c => Kept(d) /\ NotChanged(d)
  BY <1>0, <1>1 DEF FileTypes, Kept, NotChanged
<1>4. pc'[c] = "replied" /\ reply'[c].status = 500  BY <1>0, <1>1 DEF FileTypes
<1>5. AskedOk(c)'  BY <1>0, <1>1 DEF RequestOk, AskedOk, Files!Version
<1> QED  BY <1>2, <1>3, <1>4, <1>5, Answered, OneRequest

(* The answer to a PUT or a DELETE that changed the file, or to a PUT that *)
(* failed after part of its body.                                          *)
LEMMA FilesAnswer ==
    ASSUME FilesInv, NEW c \in HttpConns, pc[c] # "idle", NEW s, s \in {201, 204, 500}, Files!Reply(c, s, <<>>, 0),
           path' \in 0..(MaxTime + 1), inode' \in [Files!Inodes -> [time: Int, len: Nat]], clock' \in Nat,
           NEW v, Tells(v)
    PROVE  FilesInv'
<1>0. FileTypes /\ RequestOk(c)  BY DEF FilesInv
<1>1. /\ reply' = [reply EXCEPT ![c] = [status |-> s, ranges |-> <<>>, declared |-> 0, sent |-> 0]]
      /\ pc' = [pc EXCEPT ![c] = "replied"] /\ UNCHANGED <<req, has_file, mtime, filesize, fd>>
  BY DEF Files!Reply, Files!Local
<1>2. DOMAIN seen' = HttpConns /\ cut' \in [HttpConns -> BOOLEAN]
  <2>1. CASE Files!Changed(v, TRUE)  BY <1>0, <2>1 DEF FileTypes, Files!Changed
  <2>2. CASE Files!Changed(v, FALSE)  BY <1>0, <2>2 DEF FileTypes, Files!Changed
  <2> QED  BY <2>1, <2>2 DEF Tells
<1>3. FileTypes'  BY <1>0, <1>1, <1>2 DEF FileTypes
<1>4. ASSUME NEW d \in HttpConns PROVE RequestOk(d)'
  <2>1. CASE d # c
    <3>1. Kept(d)  BY <1>0, <1>1, <2>1 DEF FileTypes, Kept
    <3> QED  BY <3>1, ChangeSeen
  <2>2. CASE d = c
    <3>1. pc'[c] = "replied" /\ reply'[c].status = s /\ req[c] \in FileRequests /\ Files!Version \in seen[c]
      BY <1>0, <1>1 DEF FileTypes, RequestOk, AskedOk
    <3>2. seen'[c] = seen[c] \cup {v}  BY DEF Files!Changed, Tells
    <3>3. AskedOk(c)'  BY <1>1, <3>1, <3>2 DEF AskedOk, Tells
    <3> QED  BY <2>2, <3>1, <3>3, Answered
  <2> QED  BY <2>1, <2>2
<1> QED  BY <1>3, <1>4 DEF FilesInv

(* write_file(), of all or of part of the body.                            *)
LEMMA FilesWritten ==
    ASSUME FilesConstants, FilesInv, NEW c \in HttpConns, pc[c] = "write", NEW n \in Nat, Files!Written(c, n),
           NEW s, s \in {201, 204, 500}, Files!Reply(c, s, <<>>, 0)
    PROVE  FilesInv'
<1>0. FileTypes /\ RequestOk(c) /\ MaxTime \in Nat  BY DEF FilesInv, FilesConstants
<1>1. PICK v : v = IF path = fd[c] THEN inode'[path] ELSE Files!Version  OBVIOUS
<1>2. PICK len : len = IF inode[fd[c]].len > n THEN inode[fd[c]].len ELSE n  OBVIOUS
<1>3. /\ clock' = clock + 1 /\ path' = path
      /\ inode' = [inode EXCEPT ![fd[c]] = [time |-> clock + 1, len |-> len]]
      /\ Files!Changed(v, FALSE)
  BY <1>1, <1>2 DEF Files!Written
<1>4. fd[c] # 0 /\ fd[c] \in Files!Inodes
  BY <1>0, <1>3 DEF RequestOk, WriteOk, FileTypes, Files!Inodes
<1>5. len \in Nat /\ len >= inode[fd[c]].len
  <2>1. inode[fd[c]].len \in Nat  BY <1>0, <1>4 DEF FileTypes
  <2> QED  BY <1>2, <2>1
<1>6. inode' \in [Files!Inodes -> [time: Int, len: Nat]] /\ clock' \in Nat /\ path' \in 0..(MaxTime + 1)
  BY <1>0, <1>3, <1>4, <1>5 DEF FileTypes
<1>7. Grown
  <2>1. ASSUME NEW i \in Files!Inodes PROVE inode'[i].len \in Int /\ inode'[i].len >= inode[i].len
    <3>1. inode[i].len \in Nat  BY <1>0 DEF FileTypes
    <3>2. CASE i = fd[c]
      <4>1. inode'[i].len = len  BY <1>0, <1>3, <1>4, <3>2 DEF FileTypes
      <4> QED  BY <1>5, <3>2, <4>1
    <3>3. CASE i # fd[c]
      <4>1. inode'[i] = inode[i]  BY <1>0, <1>3, <3>3 DEF FileTypes
      <4> QED  BY <3>1, <4>1
    <3> QED  BY <3>2, <3>3
  <2> QED  BY <1>3, <2>1 DEF Grown
<1>8. Files!Version' = v
  <2>1. CASE path = fd[c]  BY <1>1, <1>3, <1>4, <2>1 DEF Files!Version
  <2>2. CASE path # fd[c] /\ path # 0
    <3>1. path \in Files!Inodes  BY <1>0, <2>2 DEF FileTypes, Files!Inodes
    <3>2. inode'[path] = inode[path]  BY <1>0, <1>3, <2>2, <3>1 DEF FileTypes
    <3> QED  BY <1>1, <1>3, <2>2, <3>2 DEF Files!Version
  <2>3. CASE path # fd[c] /\ path = 0  BY <1>1, <1>3, <2>3 DEF Files!Version
  <2> QED  BY <2>1, <2>2, <2>3
<1>9. pc[c] # "idle" /\ Tells(v)  BY <1>3, <1>7, <1>8 DEF Tells
<1> QED  BY <1>6, <1>9, FilesAnswer

(* A PUT that has opened the file: it is written, or that fails.           *)
LEMMA FilesPutWrite ==
    ASSUME FilesConstants, FilesInv, NEW c \in HttpConns, Files!PutWrite(c) \/ Files!PutWriteFails(c)
    PROVE  FilesInv'
<1>0. pc[c] = "write" /\ RequestOk(c)  BY DEF FilesInv, Files!PutWrite, Files!PutWriteFails
<1>1. req[c].len \in Nat  BY <1>0 DEF RequestOk, AskedOk, FileRequests
<1>2. CASE Files!PutWrite(c)
  <2>1. PICK s \in {201, 204} : Files!Reply(c, s, <<>>, 0)  BY <1>2 DEF Files!PutWrite
  <2>2. Files!Written(c, req[c].len)  BY <1>2 DEF Files!PutWrite
  <2> QED  BY <1>0, <1>1, <2>1, <2>2, FilesWritten
<1>3. CASE Files!PutWriteFails(c)
  <2>1. Files!Reply(c, 500, <<>>, 0)  BY <1>3 DEF Files!PutWriteFails
  <2>2. CASE UNCHANGED <<path, inode, clock, seen, cut>>  BY <1>0, <2>1, <2>2, FilesPutFails
  <2>3. CASE \E n \in 1..(req[c].len - 1) : Files!Written(c, n)
    <3>1. PICK n \in Nat : Files!Written(c, n)  BY <1>1, <2>3
    <3> QED  BY <1>0, <2>1, <3>1, FilesWritten
  <2> QED  BY <1>3, <2>2, <2>3 DEF Files!PutWriteFails, Files!File
<1> QED  BY <1>2, <1>3

(* delete_file()                                                           *)
LEMMA FilesUnlink ==
    ASSUME FilesConstants, FilesInv, NEW c \in HttpConns, Files!Unlink(c) PROVE FilesInv'
<1>0. FileTypes /\ RequestOk(c) /\ MaxTime \in Nat  BY DEF FilesInv, FilesConstants
<1>1. PICK v : v = [time |-> 0, len |-> 0]  OBVIOUS
<1>2. /\ pc[c] = "unlink" /\ path' = (IF has_file[c] THEN 0 ELSE path) /\ UNCHANGED <<inode, clock>>
      /\ Files!Changed(v, FALSE) /\ Files!Reply(c, 204, <<>>, 0)
  BY <1>1 DEF Files!Unlink
<1>3. path' \in 0..(MaxTime + 1) /\ inode' \in [Files!Inodes -> [time: Int, len: Nat]] /\ clock' \in Nat
  BY <1>0, <1>2 DEF FileTypes
<1>4. v.time = 0 /\ (Files!Version' = v \/ Files!Version' = Files!Version)
  BY <1>0, <1>1, <1>2 DEF Files!Version
<1>5. pc[c] # "idle" /\ Tells(v)  BY <1>2, <1>4 DEF Tells
<1> QED  BY <1>2, <1>3, <1>5, FilesAnswer

(* Before the first request.                                               *)
LEMMA FilesInit == ASSUME FilesConstants, Files!Init PROVE FilesInv
<1>1. /\ path = 1 /\ clock = 1 /\ MaxTime \in Nat
      /\ inode = [i \in Files!Inodes |-> [time |-> 1, len |-> CHOOSE n \in Lens : \A m \in Lens : m <= n]]
      /\ pc = [c \in HttpConns |-> "idle"] /\ req = [c \in HttpConns |-> [method |-> "none"]]
      /\ has_file = [c \in HttpConns |-> FALSE]
      /\ mtime = [c \in HttpConns |-> 0] /\ filesize = [c \in HttpConns |-> 0]
      /\ fd = [c \in HttpConns |-> 0] /\ reply = [c \in HttpConns |-> Files!NoReply]
      /\ seen = [c \in HttpConns |-> {}] /\ cut = [c \in HttpConns |-> FALSE]
  BY DEF Files!Init, FilesConstants
<1>2. PICK x \in Nat : x = CHOOSE n \in Lens : \A m \in Lens : m <= n
  <2>1. (\E n \in Lens : \A m \in Lens : m <= n) /\ Lens \subseteq Nat  BY DEF FilesConstants
  <2>2. (CHOOSE n \in Lens : \A m \in Lens : m <= n) \in Lens  BY <2>1, Zenon
  <2> QED  BY <2>1, <2>2, Zenon
<1>3. FileTypes
  <2>1. path \in 0..(MaxTime + 1) /\ clock \in Nat  BY <1>1
  <2>2. inode = [i \in Files!Inodes |-> [time |-> 1, len |-> x]]  BY <1>1, <1>2
  <2>3. inode \in [Files!Inodes -> [time: Int, len: Nat]]  BY <2>2
  <2> QED  BY <1>1, <2>1, <2>3 DEF FileTypes
<1>4. ASSUME NEW c \in HttpConns PROVE RequestOk(c)
  <2>1. pc[c] = "idle" /\ reply[c] = Files!NoReply /\ reply[c].status = 0  BY <1>1 DEF Files!NoReply
  <2>2. AskedOk(c) /\ SilentOk(c) /\ TimeOk(c) /\ SizeOk(c) /\ RangeOk(c) /\ OpenOk(c) /\ SendOk(c)
        /\ WriteOk(c) /\ StuckOk(c)
    BY <2>1 DEF AskedOk, SilentOk, TimeOk, SizeOk, RangeOk, OpenOk, SendOk, WriteOk, StuckOk, Files!NoReply
  <2>3. ExactOk(c) /\ TrueOk(c)  BY <2>1 DEF ExactOk, TrueOk, Files!NoReply
  <2> QED  BY <2>2, <2>3 DEF RequestOk
<1> QED  BY <1>3, <1>4 DEF FilesInv

(* Every step of a request keeps the invariant.                            *)
LEMMA FilesStep == ASSUME FilesConstants, FilesInv, [Files!Next]_(Files!vars) PROVE FilesInv'
<1>1. ASSUME NEW c \in HttpConns, Files!PutOpenFails(c) PROVE FilesInv'
  <2>1. pc[c] # "idle" /\ Files!Reply(c, 500, <<>>, 0) /\ UNCHANGED <<path, inode, clock, seen, cut>>
    BY <1>1 DEF Files!PutOpenFails, Files!File
  <2> QED  BY <2>1, FilesPutFails
<1>2. ASSUME UNCHANGED Files!vars PROVE FilesInv'
  <2>1. UNCHANGED <<path, inode, clock, pc, req, has_file, mtime, filesize, fd, reply, seen, cut>>
    BY <1>2 DEF Files!vars, Files!local
  <2>2. FileTypes'  BY <2>1 DEF FilesInv, FileTypes
  <2>3. ASSUME NEW d \in HttpConns PROVE RequestOk(d)'
    <3>1. Kept(d) /\ NotChanged(d)  BY <2>1 DEF Kept, NotChanged
    <3> QED  BY <3>1, FileLeft DEF FilesInv
  <2> QED  BY <2>2, <2>3 DEF FilesInv
<1>3. ASSUME NEW c \in HttpConns, Files!Step(c) PROVE FilesInv'
  BY <1>1, <1>3, FilesBegin, FilesCheck, FilesStatTime, FilesStatSize, FilesConditions, FilesOpen, FilesRead,
     FilesSend, FilesPutOpen, FilesPutWrite, FilesUnlink
  DEF Files!Step
<1> QED  BY <1>2, <1>3 DEF Files!Next

(* The responses that http_server makes of a file, on any number of        *)
(* connections and for any requests, while others PUT and DELETE it        *)
(* between any two of its system calls: a 206 has exactly the positions    *)
(* asked for, a 416 is sent only for a range that names none, a 304 that   *)
(* answers an entity tag is true of a version the file had during the      *)
(* request, and a body stays short only if the file changed meanwhile.     *)
THEOREM FilesAsAsked == Files!Spec => []BodyAsAsked
<1>0. FilesConstants  BY LibPartsAssumption DEF FilesConstants
<1>1. FilesInv => BodyAsAsked
  <2> SUFFICES ASSUME FilesInv PROVE BodyAsAsked
    OBVIOUS
  <2>1. Files!RangesExact  BY DEF FilesInv, RequestOk, ExactOk, Files!RangesExact
  <2>2. Files!NotModifiedIsTrue  BY DEF FilesInv, RequestOk, TrueOk, Gone, Files!NotModifiedIsTrue
  <2>3. Files!StuckOnlyIfChanged  BY DEF FilesInv, RequestOk, StuckOk, Gone, Files!StuckOnlyIfChanged
  <2> QED  BY <2>1, <2>2, <2>3 DEF BodyAsAsked, Files!BodyAsAsked
<1>2. Files!Init => FilesInv  BY <1>0, FilesInit
<1>3. FilesInv /\ [Files!Next]_(Files!vars) => FilesInv'  BY <1>0, FilesStep
<1> QED  BY <1>1, <1>2, <1>3, PTL DEF Files!Spec

-----------------------------------------------------------------------------
(* smtplib: what a mail of n receivers makes the server accept, in order.  *)
Wanted(k) ==
    IF k = 1 THEN "MAIL" ELSE IF k <= receivers + 1 THEN "RCPT"
    ELSE IF k = receivers + 2 THEN "DATA" ELSE "text"

SmtpCodes == {"220", "334 username:", "334 password:", "334 other", "235", "354", "221", "250", "AUTH", "5xx"}
SmtpLines == [code: SmtpCodes, more: BOOLEAN]
MailCommands == {"MAIL", "RCPT", "DATA", "text"}
SmtpStates == {"INIT", "EHLO", "AUTH", "MAIL", "RCPT", "DATA", "QUIT", "CLOSE"}
MailTypes ==
    /\ sm_state \in SmtpStates /\ rcpt_index \in Nat /\ rcpt_index < receivers /\ task_map \in BOOLEAN
    /\ answers \in Seq(SmtpLines) /\ accepted \in Seq(MailCommands)

(* How many of them it accepted, while the command c waits for its answer, *)
(* and once it has been answered well.                                     *)
Waiting(s, i, c, n) ==
    \/ s = "INIT" /\ c = "greeting" /\ n = 0 /\ i = 0
    \/ s = "EHLO" /\ c = "EHLO" /\ n = 0 /\ i = 0
    \/ s = "AUTH" /\ c \in {"AUTH", "user", "password"} /\ n = 0 /\ i = 0
    \/ s = "MAIL" /\ c = "MAIL" /\ n = 0 /\ i = 0
    \/ s = "MAIL" /\ c = "RCPT" /\ n = i /\ i > 0
    \/ s = "RCPT" /\ c = "RCPT" /\ n = receivers /\ i = 0
    \/ s = "DATA" /\ c = "DATA" /\ n = receivers + 1
    \/ s = "QUIT" /\ c = "text" /\ n = receivers + 2
    \/ s = "CLOSE" /\ c = "QUIT" /\ n = receivers + 3
WellAnswered(n) ==
    \/ sm_state \in {"INIT", "EHLO", "AUTH"} /\ n = 0 /\ rcpt_index = 0
    \/ sm_state = "MAIL" /\ n = rcpt_index + 1
    \/ sm_state = "RCPT" /\ n = receivers + 1
    \/ sm_state = "DATA" /\ n = receivers + 2
    \/ sm_state \in {"QUIT", "CLOSE"} /\ n = receivers + 3

(* One command at a time: what waits for an answer, what was answered.     *)
Accepting == \A k \in 1..Len(accepted) : accepted[k] = Wanted(k)
Asking == command # "none" => task_map = TRUE /\ answers = <<>> /\ Waiting(sm_state, rcpt_index, command, Len(accepted))
Answering ==
    task_map = TRUE /\ answers # <<>> =>
        /\ command = "none"
        /\ answers[1].code = "5xx" \/ WellAnswered(Len(accepted))
        /\ \/ Len(answers) = 1 /\ answers[1].more = FALSE
           \/ Len(answers) = 2 /\ answers[1].more = TRUE /\ answers[1].code # "5xx" /\ answers[2].more = FALSE
              /\ sm_state = "EHLO"
Opening ==
    link \in {"none", "connecting"} /\ task_map = TRUE =>
        command = "none" /\ answers = <<>> /\ sm_state = "INIT" /\ rcpt_index = 0 /\ Len(accepted) = 0
Result ==
    \/ sm_result = <<>> /\ task_map = TRUE
    \/ sm_result = <<FALSE>> /\ task_map = FALSE
    \/ sm_result = <<TRUE>> /\ task_map = FALSE /\ Len(accepted) = receivers + 3

MailInv == MailTypes /\ Accepting /\ Asking /\ Answering /\ Opening /\ Result

(* A line of the server is handled: it is the last one, unless it says     *)
(* that more come, and the mail has come as far as its state says.         *)
LEMMA MailLine ==
    ASSUME MailInv, Mail!Line
    PROVE  /\ Head(answers) = answers[1] /\ answers[1] \in SmtpLines /\ command = "none" /\ task_map = TRUE
           /\ link = "up" /\ link' = "up" /\ accepted' = accepted /\ sm_result = <<>>
           /\ answers[1].code = "5xx" \/ WellAnswered(Len(accepted))
           /\ answers[1].more = FALSE => answers' = <<>>
           /\ answers[1].more # FALSE =>
                 /\ sm_state = "EHLO" /\ answers' # <<>> /\ Len(answers') = 1 /\ answers'[1].more = FALSE
                 /\ WellAnswered(Len(accepted))
           /\ answers' \in Seq(SmtpLines)
<1>0. /\ answers \in Seq(SmtpLines) /\ answers # <<>> /\ answers' = Tail(answers) /\ task_map
      /\ link = "up" /\ link' = link /\ accepted' = accepted
  BY DEF MailInv, MailTypes, Mail!Line
<1>1. task_map = TRUE /\ sm_result = <<>>  BY <1>0 DEF MailInv, MailTypes, Result
<1>2. /\ command = "none"
      /\ answers[1].code = "5xx" \/ WellAnswered(Len(accepted))
      /\ \/ Len(answers) = 1 /\ answers[1].more = FALSE
         \/ Len(answers) = 2 /\ answers[1].more = TRUE /\ answers[1].code # "5xx" /\ answers[2].more = FALSE
            /\ sm_state = "EHLO"
  BY <1>0, <1>1 DEF MailInv, Answering
<1>3. /\ Head(answers) \in SmtpLines /\ Head(answers) = answers[1] /\ answers' \in Seq(SmtpLines)
      /\ Len(answers') = Len(answers) - 1
      /\ \A k \in 1..Len(answers') : answers'[k] = answers[k + 1]
  BY <1>0, TailAt
<1>4. CASE Len(answers) = 1 /\ answers[1].more = FALSE
  <2>1. Len(answers') = 0  BY <1>3, <1>4
  <2>2. answers' = <<>>  BY <1>3, <2>1
  <2> QED  BY <1>0, <1>1, <1>2, <1>3, <1>4, <2>2
<1>5. CASE /\ Len(answers) = 2 /\ answers[1].more = TRUE /\ answers[1].code # "5xx" /\ answers[2].more = FALSE
           /\ sm_state = "EHLO"
  <2>1. Len(answers') = 1  BY <1>3, <1>5
  <2>2. 1 \in 1..Len(answers') /\ 1 + 1 = 2  BY <2>1
  <2>3. answers'[1] = answers[2] /\ answers' # <<>>  BY <1>3, <2>1, <2>2
  <2> QED  BY <1>0, <1>1, <1>2, <1>3, <1>5, <2>1, <2>2, <2>3
<1> QED  BY <1>2, <1>4, <1>5

(* The answer to a command, and the next command or none.                  *)
LEMMA MailNext ==
    ASSUME MailInv, Mail!Line, Mail!NoResult, answers[1].more = FALSE, sm_state' \in SmtpStates,
           rcpt_index' \in Nat, rcpt_index' < receivers,
           command' = "none" \/ Waiting(sm_state', rcpt_index', command', Len(accepted))
    PROVE  MailInv'
<1>1. /\ answers' = <<>> /\ answers' \in Seq(SmtpLines) /\ link' = "up" /\ accepted' = accepted
      /\ task_map = TRUE /\ UNCHANGED <<sm_result, task_map>>
  BY MailLine DEF Mail!NoResult
<1>2. MailTypes'  BY <1>1 DEF MailInv, MailTypes
<1>3. Accepting' /\ Answering' /\ Opening' /\ Result'
  BY <1>1 DEF MailInv, Accepting, Answering, Opening, Result
<1>4. Asking'  BY <1>1 DEF Asking
<1> QED  BY <1>2, <1>3, <1>4 DEF MailInv

(* A line of each state that lets the dialog go on.                        *)
MailGoesOn ==
    \/ Mail!Step("INIT", "220", Mail!ehlo)
    \/ Mail!Step("EHLO", "250", IF need_auth THEN Mail!auth ELSE Mail!mail)
    \/ Mail!Step("AUTH", "334 username:", Mail!do_auth("username:"))
    \/ Mail!Step("AUTH", "334 password:", Mail!do_auth("password:"))
    \/ Mail!Step("AUTH", "334 other", Mail!do_auth("other"))
    \/ Mail!Step("AUTH", "235", Mail!mail) \/ Mail!Step("MAIL", "250", Mail!rcpt)
    \/ Mail!Step("RCPT", "250", Mail!data) \/ Mail!Step("DATA", "354", Mail!do_data)
    \/ Mail!Step("QUIT", "250", Mail!quit)

(* Each of them asks for the next answer.                                  *)
LEMMA MailSteps == ASSUME receivers \in Nat \ {0}, MailInv, MailGoesOn PROVE MailInv'
<1>1. /\ Mail!Line /\ Mail!NoResult /\ ~Head(answers).more /\ Head(answers).code # "5xx"
  BY DEF MailGoesOn, Mail!Step, Mail!Expect
<1>2. /\ answers[1].more = FALSE /\ WellAnswered(Len(accepted)) /\ accepted' = accepted
  BY <1>1, MailLine DEF SmtpLines
<1>3. PICK n \in Nat : n = Len(accepted)
  <2>1. accepted \in Seq(MailCommands)  BY DEF MailInv, MailTypes
  <2>2. Len(accepted) \in Nat  BY <2>1
  <2> QED  BY <2>2
<1>4. rcpt_index \in Nat /\ rcpt_index < receivers  BY DEF MailInv, MailTypes
<1>5. ASSUME sm_state' \in SmtpStates, rcpt_index' \in Nat, rcpt_index' < receivers,
             command' = "none" \/ Waiting(sm_state', rcpt_index', command', n)
      PROVE  MailInv'
  BY <1>1, <1>2, <1>3, <1>5, MailNext
<1>6. WellAnswered(n)  BY <1>2, <1>3
<1>7. CASE Mail!Step("INIT", "220", Mail!ehlo)
  <2>1. sm_state = "INIT" /\ sm_state' = "EHLO" /\ command' = "EHLO" /\ rcpt_index' = rcpt_index
    BY <1>7 DEF Mail!Step, Mail!ehlo, Mail!Say
  <2> QED  BY <1>4, <1>5, <1>6, <2>1 DEF WellAnswered, Waiting, SmtpStates
<1>8. CASE Mail!Step("EHLO", "250", IF need_auth THEN Mail!auth ELSE Mail!mail)
  <2>1. /\ sm_state = "EHLO" /\ rcpt_index' = rcpt_index
        /\ (sm_state' = "AUTH" /\ command' = "AUTH") \/ (sm_state' = "MAIL" /\ command' = "MAIL")
    BY <1>8 DEF Mail!Step, Mail!auth, Mail!mail, Mail!Say
  <2> QED  BY <1>4, <1>5, <1>6, <2>1 DEF WellAnswered, Waiting, SmtpStates
<1>9. CASE \/ Mail!Step("AUTH", "334 username:", Mail!do_auth("username:"))
           \/ Mail!Step("AUTH", "334 password:", Mail!do_auth("password:"))
           \/ Mail!Step("AUTH", "334 other", Mail!do_auth("other"))
  <2>1. /\ sm_state = "AUTH" /\ sm_state' = "AUTH" /\ rcpt_index' = rcpt_index
        /\ command' \in {"user", "password", "none"}
    BY <1>9 DEF Mail!Step, Mail!do_auth
  <2> QED  BY <1>4, <1>5, <1>6, <2>1 DEF WellAnswered, Waiting, SmtpStates
<1>10. CASE Mail!Step("AUTH", "235", Mail!mail)
  <2>1. sm_state = "AUTH" /\ sm_state' = "MAIL" /\ command' = "MAIL" /\ rcpt_index' = rcpt_index
    BY <1>10 DEF Mail!Step, Mail!mail, Mail!Say
  <2> QED  BY <1>4, <1>5, <1>6, <2>1 DEF WellAnswered, Waiting, SmtpStates
<1>11. CASE Mail!Step("MAIL", "250", Mail!rcpt)
  <2>1. /\ sm_state = "MAIL" /\ command' = "RCPT"
        /\ \/ rcpt_index + 1 >= receivers /\ rcpt_index' = 0 /\ sm_state' = "RCPT"
           \/ ~(rcpt_index + 1 >= receivers) /\ rcpt_index' = rcpt_index + 1 /\ sm_state' = "MAIL"
    BY <1>11 DEF Mail!Step, Mail!rcpt
  <2>2. n = rcpt_index + 1  BY <1>6, <2>1 DEF WellAnswered
  <2>3. CASE rcpt_index + 1 >= receivers /\ rcpt_index' = 0 /\ sm_state' = "RCPT"
    <3>1. n = receivers /\ 0 < receivers /\ 0 \in Nat  BY <1>4, <2>2, <2>3
    <3>2. Waiting("RCPT", 0, "RCPT", n)  BY <3>1 DEF Waiting
    <3> QED  BY <1>5, <2>1, <2>3, <3>1, <3>2 DEF SmtpStates
  <2>4. CASE ~(rcpt_index + 1 >= receivers) /\ rcpt_index' = rcpt_index + 1 /\ sm_state' = "MAIL"
    <3>1. rcpt_index' = n /\ n > 0 /\ n < receivers  BY <1>4, <2>2, <2>4
    <3>2. Waiting("MAIL", n, "RCPT", n)  BY <3>1 DEF Waiting
    <3> QED  BY <1>3, <1>5, <2>1, <2>4, <3>1, <3>2 DEF SmtpStates
  <2> QED  BY <2>1, <2>3, <2>4
<1>12. CASE Mail!Step("RCPT", "250", Mail!data)
  <2>1. sm_state = "RCPT" /\ sm_state' = "DATA" /\ command' = "DATA" /\ rcpt_index' = rcpt_index
    BY <1>12 DEF Mail!Step, Mail!data, Mail!Say
  <2> QED  BY <1>4, <1>5, <1>6, <2>1 DEF WellAnswered, Waiting, SmtpStates
<1>13. CASE Mail!Step("DATA", "354", Mail!do_data)
  <2>1. sm_state = "DATA" /\ sm_state' = "QUIT" /\ command' = "text" /\ rcpt_index' = rcpt_index
    BY <1>13 DEF Mail!Step, Mail!do_data, Mail!Say
  <2> QED  BY <1>4, <1>5, <1>6, <2>1 DEF WellAnswered, Waiting, SmtpStates
<1>14. CASE Mail!Step("QUIT", "250", Mail!quit)
  <2>1. sm_state = "QUIT" /\ sm_state' = "CLOSE" /\ command' = "QUIT" /\ rcpt_index' = rcpt_index
    BY <1>14 DEF Mail!Step, Mail!quit, Mail!Say
  <2> QED  BY <1>4, <1>5, <1>6, <2>1 DEF WellAnswered, Waiting, SmtpStates
<1> QED  BY <1>7, <1>8, <1>9, <1>10, <1>11, <1>12, <1>13, <1>14 DEF MailGoesOn

(* A line that more follow, the last line, and any other.                  *)
LEMMA MailLines ==
    ASSUME receivers \in Nat \ {0}, MailInv, Mail!EhloMore \/ Mail!Finish \/ Mail!Error
    PROVE  MailInv'
<1>0. MailTypes /\ Accepting /\ Mail!Line /\ UNCHANGED <<sm_state, rcpt_index, command>>
  BY DEF MailInv, Mail!EhloMore, Mail!Finish, Mail!Error
<1>1. /\ Head(answers) = answers[1] /\ answers[1] \in SmtpLines /\ command = "none" /\ task_map = TRUE
      /\ link' = "up" /\ accepted' = accepted /\ sm_result = <<>> /\ answers' \in Seq(SmtpLines)
      /\ answers[1].code = "5xx" \/ WellAnswered(Len(accepted))
  BY <1>0, MailLine
<1>2. CASE Mail!EhloMore
  <2>1. answers[1].more # FALSE /\ UNCHANGED <<sm_result, task_map>>
    BY <1>1, <1>2 DEF Mail!EhloMore, Mail!NoResult
  <2>2. /\ sm_state = "EHLO" /\ answers' # <<>> /\ Len(answers') = 1 /\ answers'[1].more = FALSE
        /\ WellAnswered(Len(accepted))
    BY <1>0, <2>1, MailLine
  <2>3. MailTypes' /\ Accepting' /\ Asking' /\ Opening' /\ Result'
    BY <1>0, <1>1, <2>1 DEF MailInv, MailTypes, Accepting, Asking, Opening, Result
  <2>4. WellAnswered(Len(accepted))'  BY <1>0, <1>1, <2>2 DEF WellAnswered
  <2>5. Answering'  BY <1>0, <1>1, <2>1, <2>2, <2>4 DEF Answering
  <2> QED  BY <2>3, <2>5 DEF MailInv
<1>3. ASSUME NEW ok \in BOOLEAN, Mail!set_result(ok), ok = TRUE => Len(accepted) = receivers + 3 PROVE MailInv'
  <2>1. sm_result' = <<ok>> /\ task_map' = FALSE  BY <1>1, <1>3 DEF Mail!set_result
  <2>2. MailTypes' /\ Accepting' /\ Asking' /\ Opening' /\ Answering'
    BY <1>0, <1>1, <2>1 DEF MailTypes, Accepting, Asking, Opening, Answering
  <2>3. Result'
    <3>1. CASE ok = TRUE  BY <1>1, <1>3, <2>1, <3>1 DEF Result
    <3>2. CASE ok = FALSE  BY <2>1, <3>2 DEF Result
    <3> QED  BY <1>3, <3>1, <3>2
  <2> QED  BY <2>2, <2>3 DEF MailInv
<1>4. CASE Mail!Finish
  <2>1. sm_state = "CLOSE" /\ Mail!set_result(TRUE) /\ answers[1].code = "221"
    BY <1>1, <1>4 DEF Mail!Finish, Mail!Expect
  <2>2. Len(accepted) = receivers + 3  BY <1>1, <2>1 DEF WellAnswered
  <2> QED  BY <1>3, <2>1, <2>2
<1>5. CASE Mail!Error
  <2>1. Mail!set_result(FALSE)  BY <1>5 DEF Mail!Error
  <2> QED  BY <1>3, <2>1
<1> QED  BY <1>2, <1>4, <1>5

(* The server answers: one more command of the mail is accepted, in turn.  *)
LEMMA MailReplies ==
    ASSUME receivers \in Nat \ {0}, MailInv, NEW lines, Mail!ServerReplies(lines)
    PROVE  MailInv'
<1>0. MailTypes /\ Accepting /\ Asking /\ Opening /\ Result  BY DEF MailInv
<1>1. /\ link = "up" /\ command # "none" /\ lines \in Mail!Replies(command) /\ answers' = answers \o lines
      /\ accepted' = IF lines[1].code # "5xx" /\ command \in MailCommands THEN Append(accepted, command) ELSE accepted
      /\ command' = "none" /\ UNCHANGED <<link, sm_state, rcpt_index, sm_result, task_map>>
  BY DEF Mail!ServerReplies, MailCommands
<1>2. PICK n \in Nat : n = Len(accepted)
  <2>1. accepted \in Seq(MailCommands)  BY <1>0 DEF MailTypes
  <2> QED  BY <2>1
<1>3. task_map = TRUE /\ answers = <<>> /\ Waiting(sm_state, rcpt_index, command, n)
  BY <1>0, <1>1, <1>2 DEF Asking
<1>4. /\ lines \in Seq(SmtpLines)
      /\ \/ Len(lines) = 1 /\ lines[1].more = FALSE
         \/ Len(lines) = 2 /\ lines[1].more = TRUE /\ lines[1].code # "5xx" /\ lines[2].more = FALSE
            /\ command = "EHLO"
  <2>1. Mail!Good(command) \in SmtpCodes  BY DEF Mail!Good, SmtpCodes
  <2>2. \/ \E k \in SmtpCodes : lines = <<[code |-> k, more |-> FALSE]>>
        \/ command = "EHLO" /\ \E k \in {"250", "AUTH"} :
              lines = <<[code |-> k, more |-> TRUE], [code |-> "250", more |-> FALSE]>>
    BY <1>1, <2>1 DEF Mail!Replies, SmtpCodes
  <2>3. ASSUME NEW k \in SmtpCodes, NEW b \in BOOLEAN PROVE [code |-> k, more |-> b] \in SmtpLines
    BY DEF SmtpLines
  <2>4. CASE \E k \in SmtpCodes : lines = <<[code |-> k, more |-> FALSE]>>
    <3>1. PICK l \in SmtpLines : lines = <<l>> /\ l.more = FALSE  BY <2>3, <2>4
    <3> QED  BY <3>1
  <2>5. CASE command = "EHLO" /\ \E k \in {"250", "AUTH"} :
              lines = <<[code |-> k, more |-> TRUE], [code |-> "250", more |-> FALSE]>>
    <3>1. PICK l \in SmtpLines, m \in SmtpLines :
            lines = <<l, m>> /\ l.more = TRUE /\ l.code # "5xx" /\ m.more = FALSE
      BY <2>3, <2>5 DEF SmtpCodes
    <3>2. <<l, m>> \in Seq(SmtpLines) /\ Len(<<l, m>>) = 2 /\ <<l, m>>[1] = l /\ <<l, m>>[2] = m  OBVIOUS
    <3> QED  BY <2>5, <3>1, <3>2
  <2> QED  BY <2>2, <2>4, <2>5
<1>5. answers' = lines /\ lines # <<>>  BY <1>1, <1>3, <1>4
<1>6. rcpt_index \in Nat /\ rcpt_index < receivers /\ accepted \in Seq(MailCommands)  BY <1>0 DEF MailTypes
<1>7. command = "EHLO" => sm_state = "EHLO"  BY <1>3 DEF Waiting
<1>8. CASE lines[1].code # "5xx" /\ command \in MailCommands
  <2>1. accepted' = Append(accepted, command)  BY <1>1, <1>8
  <2>2. /\ accepted' \in Seq(MailCommands) /\ Len(accepted') = n + 1 /\ accepted'[n + 1] = command
        /\ \A k \in 1..n : accepted'[k] = accepted[k]
    BY <1>2, <1>6, <1>8, <2>1, AppendAt
  <2>3. command = Wanted(n + 1)
    BY <1>3, <1>6, <1>8 DEF Waiting, Wanted, MailCommands
  <2>4. Accepting'
    <3>1. \A k \in 1..(n + 1) : k = n + 1 \/ k \in 1..n  OBVIOUS
    <3>2. \A k \in 1..(n + 1) : accepted'[k] = Wanted(k)
      BY <1>0, <1>2, <2>2, <2>3, <3>1 DEF Accepting
    <3> QED  BY <2>2, <3>2 DEF Accepting, Wanted
  <2>5. WellAnswered(n + 1)'
    BY <1>1, <1>3, <1>6, <1>8 DEF Waiting, WellAnswered, MailCommands
  <2>6. Answering'  BY <1>1, <1>4, <1>5, <1>7, <2>2, <2>5 DEF Answering
  <2>7. MailTypes' /\ Asking' /\ Opening' /\ Result'
    BY <1>0, <1>1, <1>3, <1>4, <1>5, <2>2 DEF MailTypes, Asking, Opening, Result
  <2> QED  BY <2>4, <2>6, <2>7 DEF MailInv
<1>9. CASE ~(lines[1].code # "5xx" /\ command \in MailCommands)
  <2>1. accepted' = accepted  BY <1>1, <1>9
  <2>2. lines[1].code = "5xx" \/ WellAnswered(n)'
    BY <1>1, <1>3, <1>6, <1>9 DEF Waiting, WellAnswered, MailCommands
  <2>3. Answering'  BY <1>1, <1>2, <1>4, <1>5, <1>7, <2>1, <2>2 DEF Answering
  <2>4. MailTypes' /\ Accepting' /\ Asking' /\ Opening' /\ Result'
    BY <1>0, <1>1, <1>3, <1>4, <1>5, <2>1 DEF MailTypes, Accepting, Asking, Opening, Result
  <2> QED  BY <2>3, <2>4 DEF MailInv
<1> QED  BY <1>8, <1>9

(* The addresses, the connection, and the server that closes it.           *)
LEMMA MailLink ==
    ASSUME receivers \in Nat \ {0}, MailInv, Mail!Start \/ Mail!Connected \/ Mail!ServerCloses
    PROVE  MailInv'
<1>0. MailTypes /\ Accepting /\ Asking /\ Answering /\ Opening /\ Result
      /\ UNCHANGED <<sm_state, rcpt_index, answers, accepted>>
  BY DEF MailInv, Mail!Start, Mail!Connected, Mail!ServerCloses
<1>1. CASE Mail!Start
  <2>1. task_map = TRUE /\ sm_result = <<>> /\ link \in {"none", "connecting"} /\ command' = command
    BY <1>0, <1>1 DEF Mail!Start, MailTypes, Result
  <2>2. command = "none" /\ answers = <<>> /\ sm_state = "INIT" /\ rcpt_index = 0 /\ Len(accepted) = 0
    BY <1>0, <2>1 DEF Opening
  <2>3. \/ sm_result' = <<FALSE>> /\ task_map' = FALSE
        \/ link' = "connecting" /\ sm_result' = sm_result /\ task_map' = task_map
    <3>1. Append(<<>>, FALSE) = <<FALSE>>  OBVIOUS
    <3> QED  BY <1>1, <2>1, <3>1 DEF Mail!Start, Mail!set_result
  <2> QED  BY <1>0, <2>1, <2>2, <2>3 DEF MailInv, MailTypes, Accepting, Asking, Answering, Opening, Result
<1>2. CASE Mail!Connected
  <2>1. task_map = TRUE /\ link = "connecting" /\ link' = "up" /\ command' = "greeting"
        /\ UNCHANGED <<sm_result, task_map>>
    BY <1>0, <1>2 DEF Mail!Connected, MailTypes
  <2>2. answers = <<>> /\ sm_state = "INIT" /\ rcpt_index = 0 /\ Len(accepted) = 0
    BY <1>0, <2>1 DEF Opening
  <2>3. Waiting("INIT", 0, "greeting", 0)  BY DEF Waiting
  <2> QED  BY <1>0, <2>1, <2>2, <2>3 DEF MailInv, MailTypes, Accepting, Asking, Answering, Opening, Result
<1>3. CASE Mail!ServerCloses
  <2>1. link' = "closed" /\ UNCHANGED <<command, sm_result, task_map>>  BY <1>3 DEF Mail!ServerCloses
  <2>2. MailTypes' /\ Accepting' /\ Asking' /\ Opening' /\ Result'
    BY <1>0, <2>1 DEF MailTypes, Accepting, Asking, Opening, Result
  <2>3. Answering'  BY <1>0, <2>1 DEF Answering, WellAnswered
  <2> QED  BY <2>2, <2>3 DEF MailInv
<1> QED  BY <1>1, <1>2, <1>3

(* Every step of the mail, of its connection and of the server.            *)
LEMMA MailStep ==
    ASSUME receivers \in Nat \ {0}, MailInv, [Mail!Next]_(Mail!smtp_vars) PROVE MailInv'
<1>1. ASSUME UNCHANGED Mail!smtp_vars PROVE MailInv'
  BY <1>1 DEF Mail!smtp_vars, MailInv, MailTypes, Accepting, Asking, Answering, Opening, Result, WellAnswered
<1> QED  BY <1>1, MailSteps, MailLines, MailReplies, MailLink DEF Mail!Next, MailGoesOn

(* send_task tells its caller of success only for a mail whose sender,     *)
(* each of whose receivers, however many, and whose text the server        *)
(* accepted, one after the other; it gives one result, after which no line *)
(* of the server is handled.                                               *)
THEOREM MailIsAccepted == Mail!Spec => []OkMeansAccepted
<1> receivers \in Nat \ {0}  BY LibPartsAssumption
<1>1. Mail!Init => MailInv
  <2> SUFFICES ASSUME Mail!Init PROVE MailInv
    OBVIOUS
  <2>1. /\ link = "none" /\ sm_state = "INIT" /\ rcpt_index = 0 /\ command = "none" /\ answers = <<>>
        /\ accepted = <<>> /\ sm_result = <<>> /\ task_map = TRUE
    BY DEF Mail!Init
  <2>2. MailTypes  BY <2>1 DEF MailTypes, SmtpStates
  <2> QED  BY <2>1, <2>2 DEF MailInv, Accepting, Asking, Answering, Opening, Result
<1>2. MailInv /\ [Mail!Next]_(Mail!smtp_vars) => MailInv'  BY MailStep
<1>3. MailInv => OkMeansAccepted
  <2> SUFFICES ASSUME MailInv PROVE OkMeansAccepted
    OBVIOUS
  <2>0. MailTypes /\ Accepting /\ Result  BY DEF MailInv
  <2>1. Len(sm_result) <= 1 /\ (sm_result = <<>>) = task_map
    <3>1. CASE sm_result = <<>> /\ task_map = TRUE
      <4>1. Len(sm_result) <= 1  BY <3>1
      <4>2. (sm_result = <<>>) = task_map  BY <3>1, Zenon
      <4> QED  BY <4>1, <4>2
    <3>2. CASE (sm_result = <<FALSE>> \/ sm_result = <<TRUE>>) /\ task_map = FALSE
      <4>1. <<FALSE>> # <<>> /\ <<TRUE>> # <<>> /\ Len(<<FALSE>>) = 1 /\ Len(<<TRUE>>) = 1  OBVIOUS
      <4>2. sm_result # <<>> /\ Len(sm_result) = 1  BY <3>2, <4>1
      <4>3. (sm_result = <<>>) = task_map  BY <3>2, <4>2, Zenon
      <4> QED  BY <4>2, <4>3
    <3> QED  BY <2>0, <3>1, <3>2 DEF Result
  <2>2. ASSUME sm_result = <<TRUE>>
        PROVE  accepted = <<"MAIL">> \o [i \in 1..receivers |-> "RCPT"] \o <<"DATA", "text">>
    <3> DEFINE S == MailCommands
               a == <<"MAIL">>
               m == [i \in 1..receivers |-> "RCPT"]
               z == <<"DATA", "text">>
               am == a \o m
    <3>1. Len(accepted) = receivers + 3 /\ accepted \in Seq(S)  BY <2>0, <2>2 DEF Result, MailTypes
    <3>2. \A k \in 1..(receivers + 3) : accepted[k] = Wanted(k)  BY <2>0, <3>1 DEF Accepting
    <3>3. a \in Seq(S) /\ Len(a) = 1 /\ a[1] = "MAIL"  BY DEF MailCommands
    <3>4. z \in Seq(S) /\ Len(z) = 2 /\ z[1] = "DATA" /\ z[2] = "text"  BY DEF MailCommands
    <3>5. m \in Seq(S) /\ Len(m) = receivers /\ \A k \in 1..receivers : m[k] = "RCPT"
      <4>1. m \in [1..receivers -> S]  BY DEF MailCommands
      <4>2. receivers \in Nat  OBVIOUS
      <4>3. m \in Seq(S) /\ Len(m) = receivers  BY <4>1, <4>2, SeqOfFunction
      <4> QED  BY <4>3
    <3> HIDE DEF S, a, m, z
    <3>6. Joined(S, am, a, m)  BY <3>3, <3>5, ConcatAt
    <3> HIDE DEF am
    <3>7. /\ am \in Seq(S) /\ Len(am) = 1 + receivers /\ am[1] = "MAIL"
          /\ \A k \in 1..receivers : am[1 + k] = "RCPT"
      <4>1. /\ am \in Seq(S) /\ Len(am) = Len(a) + Len(m) /\ \A k \in 1..Len(a) : am[k] = a[k]
            /\ \A k \in 1..Len(m) : am[Len(a) + k] = m[k]
        BY <3>6 DEF Joined
      <4>2. 1 \in 1..1  OBVIOUS
      <4> QED  BY <3>3, <3>5, <4>1, <4>2
    <3>8. Joined(S, am \o z, am, z)  BY <3>4, <3>7, ConcatAt
    <3>9. /\ am \o z \in Seq(S) /\ Len(am \o z) = receivers + 3
          /\ \A k \in 1..(1 + receivers) : (am \o z)[k] = am[k]
          /\ (am \o z)[(1 + receivers) + 1] = "DATA" /\ (am \o z)[(1 + receivers) + 2] = "text"
      BY <3>4, <3>7, <3>8 DEF Joined
    <3>10. ASSUME NEW k \in 1..(receivers + 3) PROVE (am \o z)[k] = Wanted(k)
      <4>1. CASE k = 1  BY <3>7, <3>9, <4>1 DEF Wanted
      <4>2. CASE k # 1 /\ k <= receivers + 1
        <5>1. PICK j \in 1..receivers : j = k - 1  BY <4>2
        <5>2. 1 + j = k /\ k \in 1..(1 + receivers)  BY <4>2, <5>1
        <5>3. (am \o z)[k] = "RCPT"  BY <3>7, <3>9, <5>1, <5>2
        <5> QED  BY <4>2, <5>3 DEF Wanted
      <4>3. CASE k = receivers + 2
        <5>1. k = (1 + receivers) + 1 /\ k # 1 /\ ~(k <= receivers + 1)  BY <4>3
        <5> QED  BY <3>9, <4>3, <5>1 DEF Wanted
      <4>4. CASE k = receivers + 3
        <5>1. k = (1 + receivers) + 2 /\ k # 1 /\ ~(k <= receivers + 1) /\ k # receivers + 2  BY <4>4
        <5> QED  BY <3>9, <5>1 DEF Wanted
      <4>5. k = 1 \/ (k # 1 /\ k <= receivers + 1) \/ k = receivers + 2 \/ k = receivers + 3  OBVIOUS
      <4> QED  BY <4>1, <4>2, <4>3, <4>4, <4>5
    <3>11. accepted = am \o z
      <4> DEFINE w == am \o z
      <4>1. w \in Seq(S) /\ Len(accepted) = Len(w)  BY <3>1, <3>9
      <4>2. \A k \in 1..Len(accepted) : accepted[k] = w[k]  BY <3>1, <3>2, <3>10
      <4> HIDE DEF w
      <4>3. accepted = w  BY <3>1, <4>1, <4>2, SeqsEqual
      <4> QED  BY <4>3 DEF w
    <3> QED  BY <3>11 DEF am, a, m, z
  <2> QED  BY <2>1, <2>2 DEF OkMeansAccepted, Mail!OkMeansAccepted
<1> QED  BY <1>1, <1>2, <1>3, PTL DEF Mail!Spec
=============================================================================
