------------------------------ MODULE Resolver ------------------------------
(***************************************************************************)
(* dns::resolver: get_addr_list() on the threads of its callers, queries,   *)
(* retransmission and replies on the loop thread, and the cache of A        *)
(* records.  The network loses, duplicates, delays and reorders: a reply to *)
(* any datagram ever sent may arrive at any time, or never.                 *)
(***************************************************************************)
EXTENDS Integers, FiniteSets, SequencesExt

CONSTANTS
    Queries,    \* calls of get_addr_list(), each on a thread of its own
    Names,      \* domain names
    Ids,        \* transaction ids
    Answers,    \* the ttls of the A records that a reply may hold
    Retries,    \* retries of ExponentialBackoff (4)
    Scan,       \* ScanCacheInterval
    MaxClock,   \* bound on the time
    None        \* no query, no name, no entry

VARIABLES
    qpc, name,  \* where each caller is, and the name it asks for
    tasks,      \* do_query() functors of the loop
    query_map,  \* the outstanding query of each id
    left,       \* max_retries of its back-off
    timer,      \* queries whose retransmit timer is armed
    sent,       \* datagrams sent: the id and the name
    result,     \* res_promise of each query: <<>>, or its one value
    conn,       \* the connection: "up", "again" after the reconnect, "down"
    spin,       \* the loop thread waits in send_query() for a connection
    cache_map, clock, next_scan,
    freed,      \* callers that hold a pointer to an item that evict() has freed
    served,     \* history: what each caller got from the cache, and its age
    twice       \* history: a promise got a second value

queries == <<qpc, name, tasks, query_map, left, timer, sent, result>>
vars == <<queries, conn, spin, cache_map, clock, next_scan, freed, served, twice>>

Outstanding == {query_map[i] : i \in Ids} \ {None}
Empty == [ttls |-> <<>>, put |-> -1, expire |-> -1]
Nothing == [ttls |-> <<>>, age |-> 0]

Init ==
    /\ qpc = [q \in Queries |-> "start"] /\ name \in [Queries -> Names]
    /\ tasks = <<>> /\ query_map = [i \in Ids |-> None]
    /\ left = [q \in Queries |-> Retries] /\ timer = {} /\ sent = {}
    /\ result = [q \in Queries |-> <<>>]
    /\ conn = "up" /\ spin = FALSE
    /\ cache_map = [n \in Names |-> Empty] /\ clock = 0 /\ next_scan = Scan
    /\ freed = {} /\ served = [q \in Queries |-> Nothing] /\ twice = FALSE

(***************************************************************************)
(* get_addr_list()                                                          *)
(***************************************************************************)
\* cache::get(): an entry counts until it is evicted.  What it returns is a
\* pointer to the item, which is used after the lock is released
GetCached(q) ==
    /\ qpc[q] = "start" /\ cache_map[name[q]] # Empty
    /\ qpc' = [qpc EXCEPT ![q] = "copying"]
    /\ UNCHANGED <<name, tasks, query_map, left, timer, sent, result, conn, spin, cache_map,
                   clock, next_scan, freed, served, twice>>

\* the copy of p->addr_list; of a freed item it is undefined what it gives
CopyCached(q) ==
    LET e == cache_map[name[q]] IN
    /\ qpc[q] = "copying"
    /\ IF q \in freed THEN qpc' = [qpc EXCEPT ![q] = "undefined"] /\ UNCHANGED served
       ELSE /\ qpc' = [qpc EXCEPT ![q] = "cached"]
            /\ served' = [served EXCEPT ![q] = [ttls |-> e.ttls, age |-> clock - e.put]]
    /\ UNCHANGED <<name, tasks, query_map, left, timer, sent, result, conn, spin, cache_map,
                   clock, next_scan, freed, twice>>

\* query(): do_query() is queued
Query(q) ==
    /\ qpc[q] = "start" /\ cache_map[name[q]] = Empty
    /\ qpc' = [qpc EXCEPT ![q] = "waiting"] /\ tasks' = Append(tasks, q)
    /\ UNCHANGED <<name, query_map, left, timer, sent, result, conn, spin, cache_map, clock,
                   next_scan, freed, served, twice>>

\* is_ready(): the future is not ready after wait_for_ms
GiveUp(q) ==
    /\ qpc[q] = "waiting"
    /\ qpc' = [qpc EXCEPT ![q] = "gaveup"]
    /\ UNCHANGED <<name, tasks, query_map, left, timer, sent, result, conn, spin, cache_map,
                   clock, next_scan, freed, served, twice>>

\* the smallest ttl, as the loop computes it: a 0 is replaced by what follows
min_ttl(ttls) ==
    LET m[k \in 0..Len(ttls)] ==
            IF k = 0 THEN 0
            ELSE IF m[k - 1] = 0 \/ ttls[k] < m[k - 1] THEN ttls[k] ELSE m[k - 1]
    IN  m[Len(ttls)]

\* f.get() and cache::put(), which keeps an entry that is there
put(n, ttls) ==
    IF min_ttl(ttls) > 0 /\ cache_map[n] = Empty
    THEN [cache_map EXCEPT ![n] = [ttls |-> ttls, put |-> clock, expire |-> clock + min_ttl(ttls)]]
    ELSE cache_map

Finish(q) ==
    LET ttls == IF result[q][1].kind = "ok" THEN result[q][1].ttls ELSE <<>> IN
    /\ qpc[q] = "waiting" /\ result[q] # <<>>
    /\ qpc' = [qpc EXCEPT ![q] = "done"]
    /\ cache_map' = put(name[q], ttls)
    /\ UNCHANGED <<name, tasks, query_map, left, timer, sent, result, conn, spin, clock,
                   next_scan, freed, served, twice>>

(***************************************************************************)
(* The loop thread                                                          *)
(***************************************************************************)
Caller == UNCHANGED <<qpc, name, cache_map, clock, next_scan, freed, served>>
OnLoop == ~spin /\ Caller

\* send_query(): the thread that would connect waits for the connection
send_query(i, q) ==
    IF conn = "down" THEN spin' = TRUE /\ UNCHANGED sent
    ELSE sent' = sent \cup {[id |-> i, name |-> name[q]]} /\ UNCHANGED spin

\* notify(): cancel the timer, set the promise, erase the query
notify_timer(i, value) ==   \* mutant: the retransmit timer is not cancelled
    LET q == query_map[i] IN
    /\ UNCHANGED timer
    /\ result' = [result EXCEPT ![q] = <<value>>]
    /\ twice' = (twice \/ result[q] # <<>>)
    /\ query_map' = [query_map EXCEPT ![i] = None]
notify(i, value) ==
    LET q == query_map[i] IN
    /\ timer' = timer \ {q}
    /\ result' = [result EXCEPT ![q] = <<value>>]
    /\ twice' = (twice \/ result[q] # <<>>)
    /\ query_map' = [query_map EXCEPT ![i] = None]

\* do_query(): an id that is not in use; the first next_back_off()
DoQuery ==
    /\ OnLoop /\ tasks # <<>>
    /\ \E i \in Ids :
          /\ query_map[i] = None
          /\ query_map' = [query_map EXCEPT ![i] = Head(tasks)]
          /\ send_query(i, Head(tasks))
    /\ tasks' = Tail(tasks)
    /\ left' = [left EXCEPT ![Head(tasks)] = @ - 1]
    /\ timer' = timer \cup {Head(tasks)}
    /\ UNCHANGED <<result, conn, twice>>

\* retransmit(): send again, and set_retransmit_timer() or give up
Retransmit_forever(i) ==    \* mutant: the retries are not counted
    LET q == query_map[i] IN
    /\ OnLoop /\ q # None /\ q \in timer
    /\ send_query(i, q)
    /\ UNCHANGED <<left, timer, result, twice, query_map, tasks, conn>>
Retransmit(i) ==
    LET q == query_map[i] IN
    /\ OnLoop /\ q # None /\ q \in timer
    /\ send_query(i, q)
    /\ IF left[q] = 0 THEN notify(i, [kind |-> "timeout"]) /\ UNCHANGED left
       ELSE /\ left' = [left EXCEPT ![q] = @ - 1]
            /\ UNCHANGED <<timer, result, twice, query_map>>
    /\ UNCHANGED <<tasks, conn>>

\* unpack(): a reply to the datagram d.  An error code ends the query with that
\* id; a reply about another name or that does not parse is dropped.
Unpack_anyname(d, reply) == \* mutant: the name in the reply is not compared
    /\ OnLoop /\ d \in sent /\ conn # "down"
    /\ query_map[d.id] # None
    /\ \/ reply.kind = "rcode"
       \/ reply.kind = "ok"
    /\ notify(d.id, reply)
    /\ UNCHANGED <<tasks, left, sent, conn, spin>>
Unpack(d, reply) ==
    /\ OnLoop /\ d \in sent /\ conn # "down"
    /\ query_map[d.id] # None
    /\ \/ reply.kind = "rcode"
       \/ reply.kind = "ok" /\ name[query_map[d.id]] = d.name
    /\ notify(d.id, reply)
    /\ UNCHANGED <<tasks, left, sent, conn, spin>>

\* the name server cannot be reached: the client reconnects, once (client.cc)
ConnectionLost ==
    /\ OnLoop /\ conn # "down"
    /\ conn' = IF conn = "up" THEN "again" ELSE "down"
    /\ UNCHANGED <<tasks, query_map, left, timer, sent, result, spin, twice>>

\* cache::evict(), every ScanCacheInterval: it frees the items it erases
Expired(n) == cache_map[n].expire <= clock
Evict ==
    /\ ~spin /\ clock = next_scan
    /\ next_scan' = next_scan + Scan
    /\ cache_map' = [n \in Names |-> IF Expired(n) THEN Empty ELSE cache_map[n]]
    /\ freed' = freed \cup {q \in Queries : qpc[q] = "copying" /\ Expired(name[q])}
    /\ UNCHANGED <<queries, conn, spin, clock, served, twice>>

\* time passes; the timer of evict() is on time unless the thread spins
Tick ==
    /\ clock < MaxClock /\ (clock < next_scan \/ spin)
    /\ clock' = clock + 1
    /\ UNCHANGED <<queries, conn, spin, cache_map, next_scan, freed, served, twice>>

Replies == {[kind |-> "rcode", about |-> n, ttls |-> <<>>] : n \in Names}
           \cup [kind: {"ok"}, about: Names, ttls: Answers]
Reply(d, r) == r.about = d.name /\ Unpack(d, r)

Next ==
    \/ \E q \in Queries : GetCached(q) \/ CopyCached(q) \/ Query(q) \/ GiveUp(q) \/ Finish(q)
    \/ DoQuery \/ \E i \in Ids : Retransmit(i)
    \/ \E d \in [id: Ids, name: Names], r \in Replies : Reply(d, r)
    \/ ConnectionLost \/ Evict \/ Tick
Spec == Init /\ [][Next]_vars

\* The loop thread runs its functors and its timers expire; nothing of the
\* network is fair.
Fairness == WF_vars(DoQuery) /\ \A i \in Ids : SF_vars(Retransmit(i))
FairSpec == Spec /\ Fairness

(***************************************************************************)
(* Properties                                                               *)
(***************************************************************************)
\* A query is answered only with a reply about its own name, although ids are
\* reused and replies to earlier queries arrive late or twice (match_name).
\* An error code is not compared with the name.
OwnName ==
    \A q \in Queries :
        (result[q] # <<>> /\ result[q][1].kind = "ok") => result[q][1].about = name[q]

\* No promise gets a second value, and a query is in query_map with a timer that
\* will end it exactly as long as its caller has no result.
OutstandingIsTimed ==
    /\ ~twice
    /\ timer = Outstanding
    /\ \A q \in Queries : (qpc[q] = "waiting" /\ q \notin ToSet(tasks)) =>
          (q \in Outstanding) = (result[q] = <<>>)

\* The cache gives no address one ScanCacheInterval after the ttl of its own
\* record ran out, or later, whatever callers put in meanwhile, while the loop
\* thread runs (cache::put, cache::get, cache::evict).  Of a reply in which some
\* ttl is 0 this is not true: the loop in get_addr_list() starts anew behind a 0
\* (ZeroTtlNotCached).  What is copied from a freed item is not counted.
CacheIsFresh ==
    spin \/ \A q \in Queries :
        LET s == served[q] IN
        (\A k \in DOMAIN s.ttls : s.ttls[k] > 0) =>
            \A k \in DOMAIN s.ttls : s.age < s.ttls[k] + Scan

\* Every query ends, with an answer or with "Query timed out", however many
\* replies are lost - unless the connection was lost twice and the loop thread
\* waits in send_query() for one that only it could make.
EveryQueryEnds == \A q \in Queries : [](q \in ToSet(tasks) => <>(result[q] # <<>> \/ conn = "down"))

\* "Zero values are interpreted to mean that the RR can only be used for the
\* transaction in progress, and should not be cached."  (resolver.cc:415-418.)
\* This does not hold: get_addr_list() caches all addresses of a reply if the
\* least ttl it computes is not 0, and behind a ttl of 0 it starts anew.
ZeroTtlNotCached == \A n \in Names : \A k \in DOMAIN cache_map[n].ttls : cache_map[n].ttls[k] > 0

\* What a caller is told is about the name it asked for, and not out of date
\* (unpack, match_name, cache::get, cache::evict).
AnswersRight == OwnName /\ CacheIsFresh
=============================================================================
