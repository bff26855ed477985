-------------------------------- MODULE Ssl --------------------------------
(***************************************************************************)
(* The TLS handshakes of an ssl_server: the main loop accepts, the loop of  *)
(* the channel runs the handshake, and its end makes a connection or frees  *)
(* the descriptor, which the next accept(2) may return again.  shmap and    *)
(* connection_map have no lock: two threads in one of them at once are      *)
(* undefined behaviour, where a behaviour of this module ends (`raced').    *)
(***************************************************************************)
EXTENDS Integers, FiniteSets

CONSTANTS Conns,    \* TCP connections that peers make
          Fds,      \* descriptors
          IoLoops,  \* the loops of start_io_threads()
          Nobody

VARIABLES holder,       \* the connection that has each descriptor
          ssl_fd,       \* the descriptor of each connection
          io_loops,     \* the loops that get_next_loop() returns
          ssl_loop,     \* the loop of each connection
          phase,        \* new, queued, shaking, creating, inserting, established,
                        \* failing, closing, closed
          ssl_filter,   \* channel::filter of each connection
          shmap,        \* the handshake of each descriptor, by its connection
          ssl,          \* connections whose SSL object exists
          used,         \* the handshake each connection was created with
          mapped,       \* connection_map
          want,         \* what SSL_do_handshake() last waited for
          bad_assert,   \* create_connection() found no handshake
          raced         \* the maps that two threads were in at once
ssl_vars == <<holder, ssl_fd, io_loops, ssl_loop, phase, ssl_filter, shmap, ssl, used, mapped,
              want, bad_assert, raced>>

Main == "main"

Init ==
    /\ holder = [fd \in Fds |-> Nobody] /\ ssl_fd = [c \in Conns |-> Nobody]
    /\ phase = [c \in Conns |-> "new"] /\ ssl_filter = [c \in Conns |-> {}]
    /\ shmap = [fd \in Fds |-> Nobody] /\ ssl = {}
    /\ used = [c \in Conns |-> Nobody] /\ want = [c \in Conns |-> "none"] /\ bad_assert = FALSE
    /\ io_loops \in {{Main}, IoLoops} /\ ssl_loop = [c \in Conns |-> Main]
    /\ mapped = {} /\ raced = {}

\* A thread that is in a map does nothing else ...
InMap == [shmap |-> {"creating", "failing"}, connection_map |-> {"inserting"}]
Free(l) == \A d \in Conns : ssl_loop[d] = l => phase[d] \notin {"creating", "failing", "inserting"}
\* ... and another that enters the map meanwhile races with it.
Enter(map) == raced' = IF \E d \in Conns : phase[d] \in InMap[map] THEN {map} ELSE {}

\* establish() on the main loop: emplace() keeps an entry that is there
Establish(c, fd, l) ==
    /\ Free(Main) /\ phase[c] = "new" /\ holder[fd] = Nobody /\ l \in io_loops
    /\ holder' = [holder EXCEPT ![fd] = c] /\ ssl_fd' = [ssl_fd EXCEPT ![c] = fd]
    /\ ssl_loop' = [ssl_loop EXCEPT ![c] = l]
    /\ shmap' = IF shmap[fd] = Nobody THEN [shmap EXCEPT ![fd] = c] ELSE shmap
    /\ ssl' = ssl \cup {c} /\ phase' = [phase EXCEPT ![c] = "queued"]
    /\ Enter("shmap")
    /\ UNCHANGED <<io_loops, ssl_filter, used, mapped, want, bad_assert>>

\* handshake() returns 1: server::establish() calls create_connection(), which
\* finds the handshake and takes it out of its entry, ...
HandshakeDone(c, filter) ==
    LET fd == ssl_fd[c] IN
    /\ phase' = [phase EXCEPT ![c] = "creating"] /\ ssl_filter' = [ssl_filter EXCEPT ![c] = filter]
    /\ bad_assert' = (bad_assert \/ shmap[fd] = Nobody)
    /\ used' = [used EXCEPT ![c] = shmap[fd]]
    /\ Enter("shmap")
    /\ UNCHANGED <<holder, ssl_fd, io_loops, ssl_loop, shmap, ssl, mapped, want>>

\* ... then erases the entry, and connection_map.emplace(), on the loop of the channel
EraseHandshake(c) ==
    /\ phase[c] = "creating" /\ phase' = [phase EXCEPT ![c] = "inserting"]
    /\ shmap' = [shmap EXCEPT ![ssl_fd[c]] = Nobody]
    /\ Enter("connection_map")
    /\ UNCHANGED <<holder, ssl_fd, io_loops, ssl_loop, ssl_filter, ssl, used, mapped, want, bad_assert>>
Insert(c) ==
    /\ phase[c] = "inserting" /\ phase' = [phase EXCEPT ![c] = "established"]
    /\ mapped' = mapped \cup {c}
    /\ UNCHANGED <<holder, ssl_fd, io_loops, ssl_loop, ssl_filter, shmap, ssl, used, want, bad_assert, raced>>

\* SSL_ERROR_WANT_READ, SSL_ERROR_WANT_WRITE
HandshakeWants(c, event) ==
    /\ phase' = [phase EXCEPT ![c] = "shaking"] /\ ssl_filter' = [ssl_filter EXCEPT ![c] = {event}]
    /\ want' = [want EXCEPT ![c] = event]
    /\ UNCHANGED <<holder, ssl_fd, io_loops, ssl_loop, shmap, ssl, used, mapped, bad_assert, raced>>

\* a fatal error: shutdown(), then onfail()
HandshakeFails(c) ==
    /\ phase' = [phase EXCEPT ![c] = "failing"] /\ ssl_filter' = [ssl_filter EXCEPT ![c] = {}]
    /\ ssl' = ssl \ {c}
    /\ Enter("shmap")
    /\ UNCHANGED <<holder, ssl_fd, io_loops, ssl_loop, shmap, used, mapped, want, bad_assert>>
OnFail_kept(c) ==   \* mutant: onfail() does not erase the handshake
    /\ phase[c] = "failing" /\ phase' = [phase EXCEPT ![c] = "closing"]
    /\ UNCHANGED <<holder, ssl_fd, io_loops, ssl_loop, ssl_filter, shmap, ssl, used, mapped, want, bad_assert, raced>>
OnFail(c) ==
    /\ phase[c] = "failing" /\ phase' = [phase EXCEPT ![c] = "closing"]
    /\ shmap' = [shmap EXCEPT ![ssl_fd[c]] = Nobody]
    /\ UNCHANGED <<holder, ssl_fd, io_loops, ssl_loop, ssl_filter, ssl, used, mapped, want, bad_assert, raced>>

Handshake(c, filter) ==
    \/ HandshakeDone(c, filter)
    \/ \E event \in {"Read", "Write"} : HandshakeWants(c, event)
    \/ HandshakeFails(c)

\* start_handshake() in the loop of the channel, after channel::add() read-enabled it
StartHandshake(c) == Free(ssl_loop[c]) /\ phase[c] = "queued" /\ Handshake(c, {"Read"})
\* the event it waits for
HandshakeEvent(c) == Free(ssl_loop[c]) /\ phase[c] = "shaking" /\ Handshake(c, ssl_filter[c])

\* the peer closes an established connection, and it reads that; ~ssl_handshake
\* frees the SSL object
ConnectionEnds(c) ==
    /\ Free(ssl_loop[c]) /\ phase[c] = "established" /\ "Read" \in ssl_filter[c]
    /\ phase' = [phase EXCEPT ![c] = "closing"] /\ ssl_filter' = [ssl_filter EXCEPT ![c] = {}]
    /\ ssl' = ssl \ {c}
    /\ UNCHANGED <<holder, ssl_fd, io_loops, ssl_loop, shmap, used, mapped, want, bad_assert, raced>>

\* remove_connection() has queued the erasure in the main loop
RemoveConnection(c) ==
    /\ Free(Main) /\ phase[c] \in {"closing", "closed"} /\ c \in mapped
    /\ mapped' = mapped \ {c}
    /\ Enter("connection_map")
    /\ UNCHANGED <<holder, ssl_fd, io_loops, ssl_loop, phase, ssl_filter, shmap, ssl, used, want, bad_assert>>

\* handle_write() of a connection with nothing to send
DisableWrite(c) ==
    /\ Free(ssl_loop[c]) /\ phase[c] = "established" /\ "Write" \in ssl_filter[c]
    /\ ssl_filter' = [ssl_filter EXCEPT ![c] = @ \ {"Write"}]
    /\ UNCHANGED <<holder, ssl_fd, io_loops, ssl_loop, phase, shmap, ssl, used, mapped, want, bad_assert, raced>>

\* the queued half of channel::remove(): the channel is deleted and its fd closed
CloseFd(c) ==
    /\ Free(ssl_loop[c]) /\ phase[c] = "closing" /\ phase' = [phase EXCEPT ![c] = "closed"]
    /\ holder' = [holder EXCEPT ![ssl_fd[c]] = Nobody]
    /\ UNCHANGED <<ssl_fd, io_loops, ssl_loop, ssl_filter, shmap, ssl, used, mapped, want, bad_assert, raced>>

Next ==
    /\ raced = {}
    /\ \E c \in Conns :
        \/ \E fd \in Fds, l \in IoLoops \cup {Main} : Establish(c, fd, l)
        \/ StartHandshake(c) \/ HandshakeEvent(c)
        \/ EraseHandshake(c) \/ Insert(c) \/ OnFail(c)
        \/ ConnectionEnds(c) \/ RemoveConnection(c) \/ DisableWrite(c) \/ CloseFd(c)
Spec == Init /\ [][Next]_ssl_vars

\* A connection is made with its own handshake, although descriptors are reused:
\* the Assert() of create_connection() holds, shmap has the handshakes that run
\* and no other, and each keeps its SSL object.  An established connection reads,
\* unless its handshake ended while it waited to write.  This is for every order
\* of the accesses of shmap by the main loop and the io loops, up to the first two
\* that overlap.
OwnHandshake ==
    /\ ~bad_assert
    /\ \A c \in Conns : phase[c] \in {"inserting", "established"} => used[c] = c /\ c \in ssl
    /\ \A c \in Conns : phase[c] \in {"queued", "shaking", "creating", "failing"}
                          <=> \E fd \in Fds : shmap[fd] = c
    /\ \A c \in Conns : phase[c] = "established" => "Read" \in ssl_filter[c] \/ want[c] = "Write"

\* server.cc:73-74, "We must remove a connection in the main io loop thread to
\* prevent multiple threads from concurrently modifying the connection_map."
\* Violated: for an ssl_server the emplace() of server::establish() is on the loop
\* of the channel (ssl_server.cc:81), where the handshake has ended.
MapOfOneThread == "connection_map" \notin raced
=============================================================================
