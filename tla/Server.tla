-------------------------------- MODULE Server --------------------------------
(***************************************************************************)
(* A server: src/server.cc, include/angel/server.h, src/evloop_group.h,    *)
(* and the parts of src/connection.cc and src/channel.cc that run on the   *)
(* loop of a connection while the server sets it up or takes it down.      *)
(*                                                                         *)
(* The main loop accepts; each connection lives on one of the io loops,    *)
(* taken round-robin, or on the main loop if start_io_threads() was not    *)
(* called (io = 0).  establish() runs on the main loop one assignment at a *)
(* time, because an io loop may handle events of the channel meanwhile:    *)
(* make_channel() has registered it before the connection and its handlers *)
(* exist.                                                                  *)
(***************************************************************************)
EXTENDS Integers, Sequences, FiniteSets

CONSTANTS Conns,     \* the connections peers make
          MaxIo,     \* bound: io loops started
          MaxMsgs,   \* bound: messages a peer sends
          MaxEach    \* bound: calls of for_each

ASSUME ServerAssumption ==
    Conns # {} /\ MaxIo \in Nat /\ MaxMsgs \in Nat /\ MaxEach \in Nat

Main == 0
Loops == 0..MaxIo

VARIABLES io,           \* the io loops start_io_threads() has started, none if not called
          pc,           \* the main loop: "idle", in establish(), or in for_each()
          cur,          \* the connection establish() works on
          next_index,   \* evloop_group::next_index
          loop,         \* per connection, its loop (-1: not accepted)
          functors,     \* per loop, its queue
          registered,   \* channels enabled in their dispatcher
          handled,      \* channels whose handlers the constructor has set
          on_message,   \* connections whose message_handler is set
          on_close,     \* connections whose close_handler is set
          closed,       \* connections that are Closed
          connection_map,
          todo,         \* for_each(): connections still to visit
          inbox,        \* per connection, messages in the socket (then maybe EOF)
          eof,          \* connections whose peer has closed
          nmsgs, neach,
          opened,       \* history: per connection, calls of connection_handler
          messages,     \* history: per connection, calls of message_handler
          told,         \* history: connections remove_connection() was called for
          discarded,    \* history: messages thrown away for want of a handler
          early,        \* history: a message_handler ran before connection_handler
          broken        \* history: connection_map changed under for_each()

chanVars == <<loop, registered, handled, on_message, on_close>>
histVars == <<opened, messages, discarded, early>>
inVars == <<inbox, eof, nmsgs>>
vars == <<io, pc, cur, next_index, chanVars, functors, closed, connection_map, todo,
          inVars, neach, told, histVars, broken>>

Init ==
    /\ io \in 0..MaxIo
    /\ pc = "idle" /\ cur = CHOOSE c \in Conns : TRUE
    /\ next_index = 0
    /\ loop = [c \in Conns |-> -1]
    /\ functors = [l \in Loops |-> <<>>]
    /\ registered = {} /\ handled = {} /\ on_message = {} /\ on_close = {}
    /\ closed = {} /\ connection_map = {} /\ todo = {}
    /\ inbox = [c \in Conns |-> 0] /\ eof = {} /\ nmsgs = 0 /\ neach = 0
    /\ opened = [c \in Conns |-> 0] /\ messages = [c \in Conns |-> 0]
    /\ told = {} /\ discarded = 0 /\ early = FALSE /\ broken = FALSE

(* A thread runs code of loop l only when l is not busy with establish()   *)
(* or for_each().                                                          *)
Free(l) == l # Main \/ pc = "idle"

-----------------------------------------------------------------------------
(* get_next_loop(): round-robin over the group, or the main loop.          *)
NextLoop ==
    IF io = 0 THEN Main
    ELSE (IF next_index >= io THEN 0 ELSE next_index) + 1

(* onaccept: make_channel() -- add() is inline on the main loop, queued    *)
(* for an io loop -- ...                                                   *)
MakeChannel(c) ==
    /\ pc = "idle" /\ loop[c] = -1
    /\ cur' = c
    /\ loop' = [loop EXCEPT ![c] = NextLoop]
    /\ next_index' = NextLoop
    /\ IF NextLoop = Main
         THEN registered' = registered \cup {c} /\ UNCHANGED functors
         ELSE /\ functors' = [functors EXCEPT ![NextLoop] = Append(@, <<"add", c>>)]
              /\ UNCHANGED registered
    /\ pc' = "create"
    /\ UNCHANGED <<io, handled, on_message, on_close, closed, connection_map, todo, inVars,
                   neach, told, histVars, broken>>

(* ... then establish(): the constructor of connection sets the handlers   *)
(* of the channel, ...                                                     *)
CreateConnection ==
    /\ pc = "create"
    /\ handled' = handled \cup {cur}
    /\ pc' = "message"
    /\ UNCHANGED <<io, cur, next_index, loop, registered, on_message, on_close, functors,
                   closed, connection_map, todo, inVars, neach, told, histVars, broken>>

SetMessageHandler ==
    /\ pc = "message"
    /\ on_message' = on_message \cup {cur}
    /\ pc' = "close"
    /\ UNCHANGED <<io, cur, next_index, loop, registered, handled, on_close, functors,
                   closed, connection_map, todo, inVars, neach, told, histVars, broken>>

SetCloseHandler ==
    /\ pc = "close"
    /\ on_close' = on_close \cup {cur}
    /\ pc' = "map"
    /\ UNCHANGED <<io, cur, next_index, loop, registered, handled, on_message, functors,
                   closed, connection_map, todo, inVars, neach, told, histVars, broken>>

(* ... and the connection enters connection_map before its                 *)
(* connection_handler is run or queued.                                    *)
EmplaceConnection ==
    /\ pc = "map"
    /\ connection_map' = connection_map \cup {cur}
    /\ pc' = "handler"
    /\ UNCHANGED <<io, cur, next_index, chanVars, functors, closed, todo, inVars, neach, told,
                   histVars, broken>>

RunConnectionHandler_inline ==   \* mutant: called here, and queued
    /\ pc = "handler" /\ pc' = "idle"
    /\ opened' = [opened EXCEPT ![cur] = @ + 1]
    /\ functors' = [functors EXCEPT ![loop[cur]] = Append(@, <<"open", cur>>)]
    /\ UNCHANGED <<io, cur, next_index, chanVars, closed, connection_map, todo, inVars, neach,
                   told, messages, discarded, early, broken>>

RunConnectionHandler ==
    /\ pc = "handler"
    /\ IF loop[cur] = Main
         THEN opened' = [opened EXCEPT ![cur] = @ + 1] /\ UNCHANGED functors
         ELSE /\ functors' = [functors EXCEPT ![loop[cur]] = Append(@, <<"open", cur>>)]
              /\ UNCHANGED opened
    /\ pc' = "idle"
    /\ UNCHANGED <<io, cur, next_index, chanVars, closed, connection_map, todo, inVars, neach,
                   told, messages, discarded, early, broken>>

-----------------------------------------------------------------------------
(* handle_close(true) of c on its loop, with the queues q: the channel is  *)
(* removed, and the close handler, if it is set by now, is                 *)
(* server::remove_connection(), which erases on the main loop.             *)
CloseConnection_now(c, q) ==     \* mutant: erases on the thread that closes
    /\ closed' = closed \cup {c}
    /\ registered' = registered \ {c}
    /\ connection_map' = connection_map \ {c} /\ functors' = q
    /\ broken' = (broken \/ pc = "each")
    /\ told' = IF c \in on_close THEN told \cup {c} ELSE told
    /\ UNCHANGED <<loop, handled, on_message, on_close>>

CloseConnection(c, q) ==
    /\ closed' = closed \cup {c}
    /\ registered' = registered \ {c}
    /\ IF c \notin on_close
         THEN functors' = q /\ UNCHANGED <<connection_map, broken>>
         ELSE IF loop[c] = Main
                THEN /\ connection_map' = connection_map \ {c}
                     /\ broken' = (broken \/ pc = "each")
                     /\ functors' = q
                ELSE /\ functors' = [q EXCEPT ![Main] = Append(@, <<"remove", c>>)]
                     /\ UNCHANGED <<connection_map, broken>>
    /\ told' = IF c \in on_close THEN told \cup {c} ELSE told
    /\ UNCHANGED <<loop, handled, on_message, on_close>>

(* The dispatcher reports c readable: handle_event() finds the handlers    *)
(* the constructor has set (or none yet, and the event comes again), and   *)
(* handle_read() the message_handler (or none, and discards).              *)
ReadMessage(c) ==
    /\ c \in registered /\ c \in handled /\ Free(loop[c])
    /\ inbox[c] > 0
    /\ inbox' = [inbox EXCEPT ![c] = @ - 1]
    /\ IF c \in on_message
         THEN /\ messages' = [messages EXCEPT ![c] = @ + 1]
              /\ early' = (early \/ opened[c] = 0)
              /\ UNCHANGED discarded
         ELSE discarded' = discarded + 1 /\ UNCHANGED <<messages, early>>
    /\ UNCHANGED <<io, pc, cur, next_index, chanVars, functors, closed, connection_map, todo,
                   eof, nmsgs, neach, told, opened, broken>>

ReadEof(c) ==
    /\ c \in registered /\ c \in handled /\ Free(loop[c])
    /\ inbox[c] = 0 /\ c \in eof
    /\ CloseConnection(c, functors)
    /\ UNCHANGED <<io, pc, cur, next_index, todo, inVars, neach, histVars>>

(* A loop calls its next functor.                                          *)
RunAdd(l) ==
    /\ functors[l] # <<>> /\ Head(functors[l])[1] = "add"
    /\ functors' = [functors EXCEPT ![l] = Tail(@)]
    /\ registered' = registered \cup {Head(functors[l])[2]}
    /\ UNCHANGED <<io, pc, cur, next_index, loop, handled, on_message, on_close, closed,
                   connection_map, todo, inVars, neach, told, histVars, broken>>

RunOpen(l) ==
    /\ functors[l] # <<>> /\ Head(functors[l])[1] = "open"
    /\ functors' = [functors EXCEPT ![l] = Tail(@)]
    /\ opened' = [opened EXCEPT ![Head(functors[l])[2]] = @ + 1]
    /\ UNCHANGED <<io, pc, cur, next_index, chanVars, closed, connection_map, todo, inVars,
                   neach, told, messages, discarded, early, broken>>

(* A send queued by for_each() fails on the loop of the connection.        *)
RunSend(l) ==
    /\ functors[l] # <<>> /\ Head(functors[l])[1] = "send"
    /\ LET c == Head(functors[l])[2]
           q == [functors EXCEPT ![l] = Tail(@)]
       IN  \/ functors' = q /\ UNCHANGED <<chanVars, closed, connection_map, told, broken>>
           \/ c \notin closed /\ CloseConnection(c, q)
    /\ UNCHANGED <<io, pc, cur, next_index, todo, inVars, neach, histVars>>

RunRemove ==
    /\ pc = "idle" /\ functors[Main] # <<>> /\ Head(functors[Main])[1] = "remove"
    /\ functors' = [functors EXCEPT ![Main] = Tail(@)]
    /\ connection_map' = connection_map \ {Head(functors[Main])[2]}
    /\ UNCHANGED <<io, pc, cur, next_index, chanVars, closed, todo, inVars, neach, told,
                   histVars, broken>>

-----------------------------------------------------------------------------
(* for_each() on the main loop, with a functor that sends: a failing send  *)
(* closes the connection at once if it is on this loop.                    *)
ForEach ==
    /\ pc = "idle" /\ neach < MaxEach
    /\ neach' = neach + 1
    /\ todo' = connection_map
    /\ pc' = "each"
    /\ UNCHANGED <<io, cur, next_index, chanVars, functors, closed, connection_map, inVars,
                   told, histVars, broken>>

Visit(c) ==
    /\ pc = "each" /\ c \in todo
    /\ todo' = todo \ {c}
    /\ IF loop[c] = Main
         THEN \/ UNCHANGED <<chanVars, functors, closed, connection_map, told, broken>>
              \/ c \notin closed /\ CloseConnection(c, functors)
         ELSE /\ functors' = [functors EXCEPT ![loop[c]] = Append(@, <<"send", c>>)]
              /\ UNCHANGED <<chanVars, closed, connection_map, told, broken>>
    /\ UNCHANGED <<io, pc, cur, next_index, inVars, neach, histVars>>

EndForEach ==
    /\ pc = "each" /\ todo = {}
    /\ pc' = "idle"
    /\ UNCHANGED <<io, cur, next_index, chanVars, functors, closed, connection_map, todo,
                   inVars, neach, told, histVars, broken>>

-----------------------------------------------------------------------------
(* The peers: a message or an end of file arrives in the socket.           *)
PeerSend(c) ==
    /\ loop[c] # -1 /\ c \notin eof /\ nmsgs < MaxMsgs
    /\ nmsgs' = nmsgs + 1
    /\ inbox' = [inbox EXCEPT ![c] = @ + 1]
    /\ UNCHANGED <<io, pc, cur, next_index, chanVars, functors, closed, connection_map, todo,
                   eof, neach, told, histVars, broken>>

PeerClose(c) ==
    /\ loop[c] # -1 /\ c \notin eof
    /\ eof' = eof \cup {c}
    /\ UNCHANGED <<io, pc, cur, next_index, chanVars, functors, closed, connection_map, todo,
                   inbox, nmsgs, neach, told, histVars, broken>>

Establish ==
    \/ CreateConnection \/ SetMessageHandler \/ SetCloseHandler \/ EmplaceConnection
    \/ RunConnectionHandler

IoStep(l) == RunAdd(l) \/ RunOpen(l) \/ RunSend(l)

Handle(c) == ReadMessage(c) \/ ReadEof(c)

Next ==
    \/ Establish \/ RunRemove \/ ForEach \/ EndForEach
    \/ \E c \in Conns : \/ MakeChannel(c) \/ Handle(c) \/ Visit(c)
                        \/ PeerSend(c) \/ PeerClose(c)
    \/ \E l \in Loops \ {Main} : IoStep(l)

Spec == Init /\ [][Next]_vars

(* Every loop thread keeps running: functors are called, ready descriptors *)
(* are handled, establish() and for_each() end.                            *)
FairSpec ==
    /\ Spec
    /\ WF_vars(Establish) /\ WF_vars(EndForEach) /\ SF_vars(RunRemove)
    /\ \A c \in Conns : WF_vars(Visit(c)) /\ SF_vars(Handle(c))
    /\ \A l \in Loops \ {Main} : WF_vars(IoStep(l))

-----------------------------------------------------------------------------
TypeOK ==
    /\ io \in 0..MaxIo
    /\ pc \in {"idle", "create", "message", "close", "map", "handler", "each"}
    /\ cur \in Conns
    /\ next_index \in Loops
    /\ loop \in [Conns -> (0..io) \cup {-1}]
    /\ functors \in [Loops -> Seq({"add", "open", "send", "remove"} \X Conns)]
    /\ registered \subseteq Conns /\ handled \subseteq Conns
    /\ on_message \subseteq Conns /\ on_close \subseteq Conns
    /\ closed \subseteq Conns /\ connection_map \subseteq Conns /\ todo \subseteq Conns
    /\ inbox \in [Conns -> 0..MaxMsgs] /\ eof \subseteq Conns
    /\ nmsgs \in 0..MaxMsgs /\ neach \in 0..MaxEach
    /\ opened \in [Conns -> Nat] /\ messages \in [Conns -> Nat]
    /\ told \subseteq Conns /\ discarded \in Nat /\ early \in BOOLEAN /\ broken \in BOOLEAN

(* A connection whose close handler ran stays out of connection_map in     *)
(* the end, also when it closes while establish() has not yet put it there.*)
ClosedIsErased == \A c \in Conns : (c \in told) ~> [](c \notin connection_map)

(* Every connection accepted gets its connection_handler called once.      *)
OpenedOnce ==
    \A c \in Conns : (loop[c] # -1) ~> [](opened[c] = 1)

(* connection.h:26, "Called after the connection is closed.", and          *)
(* server.cc:59-61: the server learns of every close, so a closed          *)
(* connection does not stay in connection_map.  With io loops it does not  *)
(* hold: the close may come before the close handler is set (README,       *)
(* section 5).                                                             *)
NoClosedLeft ==
    pc = "idle" /\ functors[Main] = <<>> => connection_map \cap closed = {}

(* Without io loops a peer meets an established connection: its first     *)
(* message finds the message handler set (connection.h:24) and             *)
(* connection_handler already called (connection.h:61-62, "Generally       *)
(* set_context() in connection_handler(), and get_context() in             *)
(* message_handler()"), and its close finds the close handler set.         *)
EstablishedFirst == io = 0 => discarded = 0 /\ ~early /\ NoClosedLeft

(* server.h:40, "traverse all connections (thread-safe)": with io loops    *)
(* connection_map does not change under for_each(), whichever loop closes  *)
(* connections meanwhile.                                                  *)
TraversalSafe == io > 0 => ~broken

(* The connection_handler of c is among the functors q of the loops.       *)
OpenQueued(q, c) == \E l \in Loops : \E i \in 1..Len(q[l]) : q[l][i] = <<"open", c>>

InEstablish(c) == c = cur /\ pc \notin {"idle", "each"}

(* Once establish() is done with a connection its connection_handler       *)
(* (connection.h:21) has been called or is queued on its loop, never both  *)
(* and never twice, whatever the loops do meanwhile.                       *)
OpenedOrQueued ==
    \A c \in Conns :
        /\ opened[c] <= 1
        /\ opened[c] = 1 => ~OpenQueued(functors, c)
        /\ loop[c] # -1 /\ ~InEstablish(c) => opened[c] = 1 \/ OpenQueued(functors, c)

(* The safety of a server: its callbacks come once and, without io loops,  *)
(* in order, and for_each() is undisturbed with them.                      *)
ServerSafe == EstablishedFirst /\ OpenedOrQueued /\ TraversalSafe
=============================================================================
