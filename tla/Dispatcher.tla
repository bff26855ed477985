----------------------------- MODULE Dispatcher -----------------------------
(***************************************************************************)
(* The dispatchers epoll_base_t, kqueue_base_t, poll_base_t and             *)
(* select_base_t, called by channels as channel.cc calls them: an event is  *)
(* added when the channel does not have it and removed when it has it.      *)
(***************************************************************************)
EXTENDS Integers, FiniteSetsExt, SequencesExt

CONSTANTS Fds,                  \* file descriptors
          EVLIST_INIT_SIZE,     \* 64
          FD_SETSIZE,           \* what an fd_set has room for
          Garbage               \* sets of flags a struct epoll_event may hold that is not
                                \* initialised: Read, Write, Edge (EPOLLET), OneShot, and
                                \* Invalid for any that epoll_ctl() refuses
Events == {"Read", "Write"}
None == [fd \in Fds |-> {}]

VARIABLES backend, call,
          trigger,      \* channel::trigger, when the call is wait(): handled before another call
          filter,       \* channel::filter
          evmap,        \* epoll, kqueue: filter of each fd below evmap_size
          evmap_size, evlist_size, added_fds,
          kernel,       \* epoll, kqueue: what the kernel watches
          pollfds, indexs,              \* poll
          rdset, wrset, fds, maxfd,     \* select
          undefined     \* evmap or an fd_set was indexed out of range

epoll_vars == <<evmap, evmap_size, evlist_size, added_fds, kernel>>
poll_vars == <<pollfds, indexs>>
select_vars == <<rdset, wrset, fds, maxfd>>
dispatcher_vars == <<backend, call, trigger, filter, epoll_vars, poll_vars, select_vars, undefined>>

Init ==
    /\ backend \in {"epoll", "kqueue", "poll", "select"}
    /\ call = [op |-> "none"] /\ trigger = None /\ filter = None
    /\ evmap = None /\ evmap_size = EVLIST_INIT_SIZE /\ evlist_size = EVLIST_INIT_SIZE
    /\ added_fds = 0 /\ kernel = None
    /\ pollfds = <<>> /\ indexs = [fd \in Fds |-> 0]
    /\ rdset = {} /\ wrset = {} /\ fds = {} /\ maxfd = -1
    /\ undefined = FALSE

\* resize_if(): the vector is doubled, once
resize_if(i, size) == IF i >= size THEN size * 2 ELSE size

(***************************************************************************)
(* add(fd, events)                                                          *)
(***************************************************************************)
\* EEV_SET() ors the events into an uninitialised struct epoll_event, and
\* epoll_ctl() adds the descriptor or modifies what it has, or fails and leaves
\* it as it is.  The kernel watches for errors too.
EEV_SET(fd, events) ==
    \E g \in Garbage :
        kernel' = IF "Invalid" \in g \/ (evmap[fd] # {} /\ kernel[fd] = {}) THEN kernel
                  ELSE [kernel EXCEPT ![fd] = events \cup {"Error"} \cup g]

Table(fd, events) ==
    /\ evmap_size' = resize_if(fd, evmap_size)
    /\ evmap' = [evmap EXCEPT ![fd] = @ \cup events]
    /\ added_fds' = added_fds + (IF evmap[fd] = {} THEN 1 ELSE 0)
    /\ evlist_size' = IF evmap[fd] = {} THEN resize_if(added_fds + 1, evlist_size) ELSE evlist_size

EpollAdd(fd, events) == Table(fd, events) /\ EEV_SET(fd, evmap[fd] \cup events)
KqueueAdd(fd, events) ==
    /\ kernel' = [kernel EXCEPT ![fd] = @ \cup events]
    /\ Table(fd, events)

PollAdd(fd, events) ==
    IF indexs[fd] = 0
    THEN /\ pollfds' = Append(pollfds, [fd |-> fd, events |-> events])
         /\ indexs' = [indexs EXCEPT ![fd] = Len(pollfds) + 1]
    ELSE /\ pollfds' = [pollfds EXCEPT ![indexs[fd]].events = @ \cup events]
         /\ UNCHANGED indexs

SelectAdd(fd, events) ==
    /\ rdset' = IF "Read" \in events THEN rdset \cup {fd} ELSE rdset
    /\ wrset' = IF "Write" \in events THEN wrset \cup {fd} ELSE wrset
    /\ fds' = fds \cup {fd}
    /\ maxfd' = IF fd \notin fds /\ fd > maxfd THEN fd ELSE maxfd

Backend(e, k, p, s) ==
    \/ backend = "epoll" /\ e /\ UNCHANGED <<poll_vars, select_vars>>
    \/ backend = "kqueue" /\ k /\ UNCHANGED <<poll_vars, select_vars>>
    \/ backend = "poll" /\ p /\ UNCHANGED <<epoll_vars, select_vars>>
    \/ backend = "select" /\ s /\ UNCHANGED <<epoll_vars, poll_vars>>

\* evmap[fd] of a descriptor that one doubling does not reach, FD_SET() of one
\* that an fd_set has no bit for
OutOfRange(fd) == \/ backend \in {"epoll", "kqueue"} /\ fd >= evmap_size * 2
                  \/ backend = "select" /\ fd >= FD_SETSIZE

AddEvent(fd, e) ==
    /\ ~undefined /\ ~OutOfRange(fd) /\ e \notin filter[fd]
    /\ call' = [op |-> "add", fd |-> fd, events |-> {e}]
    /\ filter' = [filter EXCEPT ![fd] = @ \cup {e}]
    /\ Backend(EpollAdd(fd, {e}), KqueueAdd(fd, {e}), PollAdd(fd, {e}), SelectAdd(fd, {e}))
    /\ trigger' = None /\ UNCHANGED <<backend, undefined>>
AddFar(fd, e) ==
    /\ ~undefined /\ OutOfRange(fd) /\ undefined' = TRUE
    /\ UNCHANGED <<backend, call, trigger, filter, epoll_vars, poll_vars, select_vars>>

(***************************************************************************)
(* remove(fd, events)                                                       *)
(***************************************************************************)
Clear(fd, events) ==
    /\ evmap' = [evmap EXCEPT ![fd] = @ \ events]
    /\ added_fds' = added_fds - (IF evmap[fd] \subseteq events THEN 1 ELSE 0)
    /\ UNCHANGED <<evmap_size, evlist_size>>

EpollRemove(fd, events) ==
    /\ Clear(fd, events)
    /\ IF evmap[fd] \subseteq events THEN kernel' = [kernel EXCEPT ![fd] = {}]
       ELSE EEV_SET(fd, evmap[fd] \ events)
KqueueRemove(fd, events) ==
    /\ kernel' = [kernel EXCEPT ![fd] = @ \ events]
    /\ Clear(fd, events)

\* the last entry takes the place of the one that is removed
PollRemove(fd, events) ==
    LET i == indexs[fd]
        rest == pollfds[i].events \ events
    IN  IF rest # {}
        THEN pollfds' = [pollfds EXCEPT ![i].events = rest] /\ UNCHANGED indexs
        ELSE /\ pollfds' = Front([pollfds EXCEPT ![i] = Last(pollfds)])
             /\ indexs' = [indexs EXCEPT ![Last(pollfds).fd] = i, ![fd] = 0]

SelectRemove_max(fd, events) ==     \* mutant: maxfd is lowered for every descriptor
    /\ rdset' = IF "Read" \in events THEN rdset \ {fd} ELSE rdset
    /\ wrset' = IF "Write" \in events THEN wrset \ {fd} ELSE wrset
    /\ IF fd \in rdset' \cup wrset' THEN UNCHANGED <<fds, maxfd>>
       ELSE fds' = fds \ {fd} /\ maxfd' = maxfd - 1
SelectRemove(fd, events) ==
    /\ rdset' = IF "Read" \in events THEN rdset \ {fd} ELSE rdset
    /\ wrset' = IF "Write" \in events THEN wrset \ {fd} ELSE wrset
    /\ IF fd \in rdset' \cup wrset' THEN UNCHANGED <<fds, maxfd>>
       ELSE fds' = fds \ {fd} /\ maxfd' = IF fd = maxfd THEN maxfd - 1 ELSE maxfd

\* disable_read(), disable_write() or disable_all()
RemoveEvents(fd, events) ==
    /\ ~undefined /\ events # {} /\ events \subseteq filter[fd]
    /\ call' = [op |-> "remove", fd |-> fd, events |-> events]
    /\ filter' = [filter EXCEPT ![fd] = @ \ events]
    /\ Backend(EpollRemove(fd, events), KqueueRemove(fd, events),
               PollRemove(fd, events), SelectRemove(fd, events))
    /\ trigger' = None /\ UNCHANGED <<backend, undefined>>

(***************************************************************************)
(* wait(): the descriptors in hup have hung up (POLLHUP)                    *)
(***************************************************************************)
Pairs(w, ready) == {p \in Fds \X Events : p[2] \in w[p[1]] \cap ready[p[1]]}
AsTrigger(pairs) == [fd \in Fds |-> {e \in Events : <<fd, e>> \in pairs}]

\* at most evlist.size() descriptors (epoll) or events (kqueue) are returned.
\* Of an edge triggered one the event may have been reported before; a one shot
\* one is watched no more until it is modified.
EpollWait(ready) ==
    LET up == {fd \in Fds : kernel[fd] \cap ready[fd] # {}} IN
    \E able \in SUBSET up : \E got \in SUBSET able :
        /\ \A fd \in up \ able : "Edge" \in kernel[fd]
        /\ Cardinality(got) = Min({evlist_size, Cardinality(able)})
        /\ trigger' = [fd \in Fds |-> IF fd \in got THEN kernel[fd] \cap ready[fd] ELSE {}]
        /\ kernel' = [fd \in Fds |-> IF fd \in got /\ "OneShot" \in kernel[fd]
                                     THEN kernel[fd] \cap {"Edge", "OneShot"} ELSE kernel[fd]]
KqueueWait(ready) ==
    \E got \in SUBSET Pairs(kernel, ready) :
        /\ Cardinality(got) = Min({evlist_size, Cardinality(Pairs(kernel, ready))})
        /\ trigger' = AsTrigger(got)

\* evret(): Read and Write for POLLIN with POLLHUP
PollWait(ready, hup) ==
    trigger' = [fd \in Fds |->
        IF indexs[fd] = 0 THEN {}
        ELSE LET revents == (pollfds[indexs[fd]].events \cup {"Error"}) \cap ready[fd] IN
             IF revents = {"Read"} /\ fd \in hup THEN Events ELSE revents]

\* select() looks at the descriptors below maxfd + 1
SelectWait(ready) ==
    LET n == {fd \in fds : fd < maxfd + 1} IN
    trigger' = [fd \in Fds |-> {e \in ready[fd] \cap Events :
        fd \in n /\ fd \in IF e = "Read" THEN rdset ELSE wrset}]

Wait(ready, hup) ==
    /\ ~undefined
    /\ call' = [op |-> "wait", ready |-> ready, hup |-> hup]
    /\ Backend(EpollWait(ready) /\ UNCHANGED <<evmap, evmap_size, evlist_size, added_fds>>,
               KqueueWait(ready) /\ UNCHANGED epoll_vars,
               PollWait(ready, hup) /\ UNCHANGED poll_vars, SelectWait(ready) /\ UNCHANGED select_vars)
    /\ UNCHANGED <<backend, filter, undefined>>

\* Everything is ready, or one descriptor, which also has an error
Readiness == {[fd \in Fds |-> Events]}
             \cup {[fd \in Fds |-> IF fd = up THEN Events \cup {"Error"} ELSE {}] : up \in Fds}

Next ==
    \/ \E fd \in Fds, e \in Events : AddEvent(fd, e) \/ AddFar(fd, e)
    \/ \E fd \in Fds, events \in SUBSET Events : RemoveEvents(fd, events)
    \/ \E ready \in Readiness, hup \in {{}, Fds} :
          (hup = {} \/ backend = "poll") /\ Wait(ready, hup)
Spec == Init /\ [][Next]_dispatcher_vars

\* What the kernel watches of a descriptor when epoll_ctl() got what was meant;
\* flags of the uninitialised struct may have marred it.
Meant(fd) == IF filter[fd] = {} THEN {} ELSE filter[fd] \cup {"Error"}
Marred == IF backend = "epoll" THEN {fd \in Fds : kernel[fd] # Meant(fd)} ELSE {}

\* Every dispatcher implements the table of events that dispatcher.h describes,
\* for every order in which channels come and go: descriptors beyond the first
\* size of the tables, the last entry of pollfds moved, maxfd lowered; epoll for
\* the descriptors that no flag of an uninitialised struct epoll_event has marred.
\* (Up to the first descriptor for which evmap or an fd_set is indexed out of
\* range.)
EventTableOf == INSTANCE EventTable WITH interest <- filter, marred <- Marred
DispatcherIsTable == EventTableOf!Spec

\* dispatcher.h: add() adds interesting events to a descriptor and remove() removes
\* them from those that are monitored.  So epoll reports of a descriptor what is
\* ready of exactly the events added and not removed, and its errors.
\* This does not hold: EEV_SET() ors them into a structure nothing initialises.
EpollAsAsked ==
    backend = "epoll" /\ call.op = "wait" =>
        \A fd \in Fds : trigger[fd] = call.ready[fd] \cap Meant(fd)
=============================================================================
