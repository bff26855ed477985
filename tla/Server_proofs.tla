----------------------------- MODULE Server_proofs -----------------------------
(* Theorems about the server, for every set of connections and every       *)
(* number of io loops, and about a connection of the WebSocket server.     *)
EXTENDS Server, WsPart, TLAPS, WellFoundedInduction

Queued == {"add", "open", "send", "remove"} \X Conns

(* A functor appended to, or taken from, the queue of one loop.            *)
LEMMA QueueUpdate ==
    ASSUME NEW q \in [Loops -> Seq(Queued)], NEW l
    PROVE  /\ \A f \in Queued : [q EXCEPT ![l] = Append(@, f)] \in [Loops -> Seq(Queued)]
           /\ l \in Loops /\ q[l] # <<>> =>
                 /\ [q EXCEPT ![l] = Tail(@)] \in [Loops -> Seq(Queued)]
                 /\ Head(q[l])[2] \in Conns
<1>1. ASSUME NEW f \in Queued
      PROVE  [q EXCEPT ![l] = Append(@, f)] \in [Loops -> Seq(Queued)]
  <2>1. l \in Loops => Append(q[l], f) \in Seq(Queued)  OBVIOUS
  <2> QED  BY <2>1
<1>2. ASSUME l \in Loops, q[l] # <<>>
      PROVE  /\ [q EXCEPT ![l] = Tail(@)] \in [Loops -> Seq(Queued)]
             /\ Head(q[l])[2] \in Conns
  <2>1. q[l] \in Seq(Queued)  BY <1>2
  <2>2. Tail(q[l]) \in Seq(Queued) /\ Head(q[l]) \in Queued  BY <1>2, <2>1
  <2>3. \A f \in Queued : f[2] \in Conns  BY DEF Queued
  <2> QED  BY <2>2, <2>3
<1> QED  BY <1>1, <1>2

(* A count per connection that goes up by one stays a count.               *)
LEMMA CountOne ==
    ASSUME NEW n \in [Conns -> Nat], NEW c
    PROVE  [n EXCEPT ![c] = @ + 1] \in [Conns -> Nat]
<1>1. c \in Conns => n[c] + 1 \in Nat
  <2>1. c \in Conns => n[c] \in Nat  OBVIOUS
  <2> QED  BY <2>1
<1> QED  BY <1>1

(* The sockets hold no more than the peers have sent.                      *)
TypeInv == TypeOK /\ \A c \in Conns : inbox[c] <= nmsgs

(* A server before start().                                                *)
LEMMA TypeInvInit == Init => TypeInv
<1> SUFFICES ASSUME Init PROVE TypeInv  OBVIOUS
<1>1. cur \in Conns  BY ServerAssumption DEF Init
<1>2. 0 \in Loops /\ -1 \in (0..io) \cup {-1} /\ 0 \in 0..MaxMsgs /\ 0 \in 0..MaxEach
  BY ServerAssumption DEF Loops
<1>3. functors \in [Loops -> Seq(Queued)]
  <2>1. <<>> \in Seq(Queued)  OBVIOUS
  <2> QED  BY <2>1 DEF Init
<1>4. opened \in [Conns -> Nat] /\ messages \in [Conns -> Nat]  BY DEF Init
<1>5. inbox \in [Conns -> 0..MaxMsgs] /\ \A c \in Conns : inbox[c] <= nmsgs
  BY <1>2 DEF Init
<1>6. loop \in [Conns -> (0..io) \cup {-1}]  BY <1>2 DEF Init
<1> QED  BY <1>1, <1>2, <1>3, <1>4, <1>5, <1>6 DEF Init, TypeInv, TypeOK, Queued

(* What handle_close() and remove_connection() change.                     *)
LEMMA CloseTyped ==
    ASSUME TypeOK, NEW c \in Conns, NEW q \in [Loops -> Seq(Queued)], CloseConnection(c, q)
    PROVE  /\ closed' = closed \cup {c} /\ registered' \subseteq registered
           /\ connection_map' \subseteq connection_map /\ told' \subseteq Conns
           /\ broken' \in BOOLEAN /\ functors' \in [Loops -> Seq(Queued)]
           /\ UNCHANGED <<loop, handled, on_message, on_close>>
           /\ loop[c] # Main => broken' = broken
<1>1. <<"remove", c>> \in Queued  BY DEF Queued
<1>2. [q EXCEPT ![Main] = Append(@, <<"remove", c>>)] \in [Loops -> Seq(Queued)]
  BY <1>1, QueueUpdate
<1>3. functors' \in [Loops -> Seq(Queued)]  BY <1>2 DEF CloseConnection
<1>4. broken' \in BOOLEAN /\ told' \subseteq Conns /\ connection_map' \subseteq connection_map
      /\ (loop[c] # Main => broken' = broken)
  BY DEF CloseConnection, TypeOK
<1> QED  BY <1>3, <1>4 DEF CloseConnection

(* Every step keeps the types.                                             *)
LEMMA TypeInvNext == TypeInv /\ [Next]_vars => TypeInv'
<1> SUFFICES ASSUME TypeInv, [Next]_vars PROVE TypeInv'  OBVIOUS
<1>0. /\ TypeOK /\ functors \in [Loops -> Seq(Queued)]
      /\ \A c \in Conns : inbox[c] \in Nat /\ inbox[c] <= nmsgs
      /\ MaxMsgs \in Nat /\ nmsgs \in Nat
  <2>1. TypeOK /\ functors \in [Loops -> Seq(Queued)] /\ nmsgs \in Nat /\ MaxMsgs \in Nat
        /\ \A c \in Conns : inbox[c] <= nmsgs
    <3>1. TypeOK /\ \A c \in Conns : inbox[c] <= nmsgs  BY DEF TypeInv
    <3>2. functors \in [Loops -> Seq(Queued)]  BY <3>1 DEF TypeOK, Queued
    <3>3. nmsgs \in Nat /\ MaxMsgs \in Nat  BY <3>1, ServerAssumption DEF TypeOK
    <3> QED  BY <3>1, <3>2, <3>3
  <2>2. \A c \in Conns : inbox[c] \in 0..MaxMsgs  BY <2>1 DEF TypeOK
  <2> QED  BY <2>1, <2>2
<1> USE ServerAssumption DEF chanVars, histVars, inVars, vars
<1>1. ASSUME NEW c \in Conns, MakeChannel(c) PROVE TypeInv'
  <2>1. NextLoop \in 0..io /\ NextLoop \in Loops
    BY <1>0 DEF NextLoop, TypeOK, Loops, Main
  <2>2. <<"add", c>> \in Queued  BY DEF Queued
  <2>3. functors' \in [Loops -> Seq(Queued)]
    <3>1. [functors EXCEPT ![NextLoop] = Append(@, <<"add", c>>)] \in [Loops -> Seq(Queued)]
      BY <1>0, <2>2, QueueUpdate
    <3> QED  BY <1>0, <1>1, <3>1 DEF MakeChannel
  <2>4. loop' \in [Conns -> (0..io) \cup {-1}] /\ registered' \subseteq Conns
    BY <1>0, <1>1, <2>1 DEF MakeChannel, TypeOK
  <2>5. UNCHANGED <<io, handled, on_message, on_close, closed, connection_map, todo, inbox,
                    eof, nmsgs, neach, told, opened, messages, discarded, early, broken>>
        /\ cur' = c /\ next_index' = NextLoop /\ pc' = "create"
    BY <1>1 DEF MakeChannel
  <2> QED  BY <1>0, <2>1, <2>3, <2>4, <2>5 DEF TypeInv, TypeOK, Queued
<1>2. CASE CreateConnection \/ SetMessageHandler \/ SetCloseHandler \/ EmplaceConnection
  BY <1>0, <1>2
  DEF CreateConnection, SetMessageHandler, SetCloseHandler, EmplaceConnection, TypeInv, TypeOK
<1>3. CASE RunConnectionHandler
  <2>1. cur \in Conns /\ <<"open", cur>> \in Queued  BY <1>0 DEF TypeOK, Queued
  <2>2. functors' \in [Loops -> Seq(Queued)]
    <3>1. [functors EXCEPT ![loop[cur]] = Append(@, <<"open", cur>>)] \in [Loops -> Seq(Queued)]
      BY <1>0, <2>1, QueueUpdate
    <3> QED  BY <1>0, <1>3, <3>1 DEF RunConnectionHandler
  <2>3. opened' \in [Conns -> Nat]
    <3>1. [opened EXCEPT ![cur] = @ + 1] \in [Conns -> Nat]  BY <1>0, CountOne DEF TypeOK
    <3> QED  BY <1>0, <1>3, <3>1 DEF RunConnectionHandler, TypeOK
  <2> QED  BY <1>0, <1>3, <2>2, <2>3 DEF RunConnectionHandler, TypeInv, TypeOK, Queued
<1>4. ASSUME NEW c \in Conns, ReadMessage(c) PROVE TypeInv'
  <2>1. inbox' \in [Conns -> 0..MaxMsgs] /\ \A d \in Conns : inbox'[d] <= nmsgs
    <3>1. inbox \in [Conns -> 0..MaxMsgs] /\ inbox' = [inbox EXCEPT ![c] = @ - 1]
          /\ inbox[c] > 0
      BY <1>0, <1>4 DEF ReadMessage, TypeOK
    <3>2. inbox[c] - 1 \in 0..MaxMsgs /\ inbox[c] - 1 <= nmsgs  BY <1>0, <3>1
    <3> QED  BY <1>0, <3>1, <3>2
  <2>2. messages' \in [Conns -> Nat] /\ discarded' \in Nat /\ early' \in BOOLEAN
    <3>1. [messages EXCEPT ![c] = @ + 1] \in [Conns -> Nat]  BY <1>0, CountOne DEF TypeOK
    <3>2. messages' \in [Conns -> Nat]  BY <1>0, <1>4, <3>1 DEF ReadMessage, TypeOK
    <3>3. discarded' \in Nat  BY <1>0, <1>4 DEF ReadMessage, TypeOK
    <3>4. early' \in BOOLEAN  BY <1>0, <1>4 DEF ReadMessage, TypeOK
    <3> QED  BY <3>2, <3>3, <3>4
  <2> QED  BY <1>0, <1>4, <2>1, <2>2 DEF ReadMessage, TypeInv, TypeOK
<1>5. ASSUME NEW c \in Conns, NEW q \in [Loops -> Seq(Queued)], CloseConnection(c, q),
             todo' \subseteq todo,
             UNCHANGED <<io, pc, cur, next_index, inVars, neach, histVars>>
      PROVE  TypeInv'
  <2>1. /\ closed' = closed \cup {c} /\ registered' \subseteq registered
        /\ connection_map' \subseteq connection_map /\ told' \subseteq Conns
        /\ broken' \in BOOLEAN /\ functors' \in [Loops -> Seq(Queued)]
        /\ UNCHANGED <<loop, handled, on_message, on_close>>
    BY <1>0, <1>5, CloseTyped
  <2> QED  BY <1>0, <1>5, <2>1 DEF TypeInv, TypeOK, Queued
<1>6. ASSUME NEW c \in Conns, ReadEof(c) PROVE TypeInv'
  BY <1>0, <1>5, <1>6 DEF ReadEof
<1>7. ASSUME NEW l \in Loops, IoStep(l) PROVE TypeInv'
  <2> DEFINE q == [functors EXCEPT ![l] = Tail(@)]
  <2>1. q \in [Loops -> Seq(Queued)] /\ Head(functors[l])[2] \in Conns
    BY <1>0, <1>7, QueueUpdate DEF IoStep, RunAdd, RunOpen, RunSend
  <2>2. CASE RunAdd(l)
    BY <1>0, <2>1, <2>2 DEF RunAdd, TypeInv, TypeOK, Queued
  <2>3. CASE RunOpen(l)
    <3>1. opened' \in [Conns -> Nat]  BY <1>0, <2>3, CountOne DEF RunOpen, TypeOK
    <3> QED  BY <1>0, <2>1, <2>3, <3>1 DEF RunOpen, TypeInv, TypeOK, Queued
  <2>4. CASE RunSend(l)
    <3>1. CASE functors' = q /\ UNCHANGED <<chanVars, closed, connection_map, told, broken>>
      BY <1>0, <2>1, <2>4, <3>1 DEF RunSend, TypeInv, TypeOK, Queued
    <3>2. CASE CloseConnection(Head(functors[l])[2], q)
      BY <1>5, <2>1, <2>4, <3>2 DEF RunSend
    <3> QED  BY <2>4, <3>1, <3>2 DEF RunSend
  <2> QED  BY <1>7, <2>2, <2>3, <2>4 DEF IoStep
<1>8. CASE RunRemove
  <2>1. Main \in Loops  BY DEF Main, Loops
  <2>2. functors' \in [Loops -> Seq(Queued)]
    BY <1>0, <1>8, <2>1, QueueUpdate DEF RunRemove
  <2> QED  BY <1>0, <1>8, <2>2 DEF RunRemove, TypeInv, TypeOK, Queued
<1>9. CASE ForEach \/ EndForEach
  <2>1. neach' \in 0..MaxEach  BY <1>0, <1>9 DEF ForEach, EndForEach, TypeOK
  <2> QED  BY <1>0, <1>9, <2>1 DEF ForEach, EndForEach, TypeInv, TypeOK
<1>10. ASSUME NEW c \in Conns, Visit(c) PROVE TypeInv'
  <2>1. <<"send", c>> \in Queued  BY DEF Queued
  <2>2. CASE loop[c] # Main
    <3>1. functors' \in [Loops -> Seq(Queued)]
      <4>1. [functors EXCEPT ![loop[c]] = Append(@, <<"send", c>>)] \in [Loops -> Seq(Queued)]
        BY <1>0, <2>1, QueueUpdate
      <4> QED  BY <1>10, <2>2, <4>1 DEF Visit
    <3> QED  BY <1>0, <1>10, <2>2, <3>1 DEF Visit, TypeInv, TypeOK, Queued
  <2>3. CASE UNCHANGED <<chanVars, functors, closed, connection_map, told, broken>>
    BY <1>0, <1>10, <2>3 DEF Visit, TypeInv, TypeOK
  <2>4. CASE CloseConnection(c, functors)
    BY <1>0, <1>5, <1>10, <2>4 DEF Visit
  <2> QED  BY <1>10, <2>2, <2>3, <2>4 DEF Visit
<1>11. ASSUME NEW c \in Conns, PeerSend(c) PROVE TypeInv'
  <2>1. nmsgs' = nmsgs + 1 /\ nmsgs' \in 0..MaxMsgs  BY <1>0, <1>11 DEF PeerSend, TypeOK
  <2>2. inbox' \in [Conns -> 0..MaxMsgs] /\ \A d \in Conns : inbox'[d] <= nmsgs'
    <3>1. inbox \in [Conns -> 0..MaxMsgs] /\ inbox' = [inbox EXCEPT ![c] = @ + 1]
      BY <1>0, <1>11 DEF PeerSend, TypeOK
    <3>2. inbox[c] + 1 \in 0..MaxMsgs /\ inbox[c] + 1 <= nmsgs'  BY <1>0, <2>1
    <3> QED  BY <1>0, <2>1, <3>1, <3>2
  <2> QED  BY <1>0, <1>11, <2>1, <2>2 DEF PeerSend, TypeInv, TypeOK
<1>12. ASSUME NEW c \in Conns, PeerClose(c) PROVE TypeInv'
  BY <1>0, <1>12 DEF PeerClose, TypeInv, TypeOK
<1>13. CASE UNCHANGED vars  BY <1>0, <1>13 DEF TypeInv, TypeOK
<1> QED
  BY <1>1, <1>2, <1>3, <1>4, <1>6, <1>7, <1>8, <1>9, <1>10, <1>11, <1>12, <1>13
  DEF Next, Establish, Handle

(* Every reachable state of the server is well typed: round-robin stays    *)
(* within the io loops there are, and functors name real connections.      *)
THEOREM ServerTypeCorrect == Spec => []TypeOK
<1>1. TypeInv => TypeOK  BY DEF TypeInv
<1> QED  BY TypeInvInit, TypeInvNext, <1>1, PTL DEF Spec

-----------------------------------------------------------------------------
(* With io loops no connection lives on the main loop, so no close erases  *)
(* inline.                                                                 *)
OffMain == io > 0 => (\A c \in Conns : loop[c] # Main) /\ ~broken

(* No step makes a connection on the main loop when there are io loops.    *)
LEMMA OffMainNext == TypeInv /\ OffMain /\ [Next]_vars => OffMain'
<1>a. [Next]_vars => io' = io
  BY DEF Next, vars, Establish, CreateConnection, SetMessageHandler, SetCloseHandler,
         EmplaceConnection, RunConnectionHandler, RunRemove, ForEach, EndForEach,
         MakeChannel, Handle, ReadMessage, ReadEof, Visit, PeerSend, PeerClose,
         IoStep, RunAdd, RunOpen, RunSend
<1> SUFFICES ASSUME TypeInv, OffMain, [Next]_vars, io > 0
             PROVE  (\A c \in Conns : loop'[c] # Main) /\ ~broken'
  BY <1>a DEF OffMain
<1>0. /\ TypeOK /\ functors \in [Loops -> Seq(Queued)] /\ ~broken
      /\ \A c \in Conns : loop[c] # Main
  BY DEF TypeInv, TypeOK, Queued, OffMain
<1> USE DEF chanVars, histVars, inVars, vars
<1>1. ASSUME NEW c \in Conns, MakeChannel(c)
      PROVE  (\A d \in Conns : loop'[d] # Main) /\ ~broken'
  <2>1. NextLoop # Main  BY <1>0, ServerAssumption DEF NextLoop, Main, TypeOK, Loops
  <2>2. loop' = [loop EXCEPT ![c] = NextLoop] /\ UNCHANGED broken
    BY <1>1 DEF MakeChannel
  <2> QED  BY <1>0, <2>1, <2>2 DEF TypeOK
<1>2. ASSUME NEW c \in Conns, NEW q \in [Loops -> Seq(Queued)], CloseConnection(c, q)
      PROVE  (\A d \in Conns : loop'[d] # Main) /\ ~broken'
  BY <1>0, <1>2, CloseTyped
<1>3. ASSUME NEW l \in Loops, RunSend(l)
      PROVE  (\A c \in Conns : loop'[c] # Main) /\ ~broken'
  <2>1. /\ [functors EXCEPT ![l] = Tail(@)] \in [Loops -> Seq(Queued)]
        /\ Head(functors[l])[2] \in Conns
    BY <1>0, <1>3, QueueUpdate DEF RunSend
  <2>2. CASE UNCHANGED <<loop, broken>>  BY <1>0, <2>2
  <2>3. CASE CloseConnection(Head(functors[l])[2], [functors EXCEPT ![l] = Tail(@)])
    BY <1>2, <2>1, <2>3
  <2> QED  BY <1>3, <2>2, <2>3 DEF RunSend
<1>4. ASSUME NEW c \in Conns, ReadEof(c) \/ Visit(c)
      PROVE  (\A d \in Conns : loop'[d] # Main) /\ ~broken'
  BY <1>0, <1>2, <1>4 DEF ReadEof, Visit
<1>5. ASSUME UNCHANGED <<loop, broken>>
      PROVE  (\A c \in Conns : loop'[c] # Main) /\ ~broken'
  BY <1>0, <1>5
<1>6. CASE Establish \/ RunRemove \/ ForEach \/ EndForEach
  BY <1>5, <1>6 DEF Establish, CreateConnection, SetMessageHandler, SetCloseHandler,
                    EmplaceConnection, RunConnectionHandler, RunRemove, ForEach, EndForEach
<1>7. ASSUME NEW c \in Conns, ReadMessage(c) \/ PeerSend(c) \/ PeerClose(c)
      PROVE  (\A d \in Conns : loop'[d] # Main) /\ ~broken'
  BY <1>5, <1>7 DEF ReadMessage, PeerSend, PeerClose
<1>8. ASSUME NEW l \in Loops, RunAdd(l) \/ RunOpen(l)
      PROVE  (\A c \in Conns : loop'[c] # Main) /\ ~broken'
  BY <1>5, <1>8 DEF RunAdd, RunOpen
<1>9. CASE UNCHANGED vars  BY <1>5, <1>9
<1> QED
  BY <1>1, <1>3, <1>4, <1>6, <1>7, <1>8, <1>9 DEF Next, Handle, IoStep

(* With io loops, however many, for_each() traverses a connection_map that *)
(* no close changes under it.                                              *)
THEOREM TraversalIsSafe == Spec => []TraversalSafe
<1>1. Init => OffMain
  <2> SUFFICES ASSUME Init PROVE OffMain  OBVIOUS
  <2>1. broken = FALSE /\ \A c \in Conns : loop[c] = -1  BY DEF Init
  <2> QED  BY <2>1 DEF Main, OffMain
<1>2. OffMain => TraversalSafe  BY DEF OffMain, TraversalSafe
<1> QED  BY TypeInvInit, TypeInvNext, OffMainNext, <1>1, <1>2, PTL DEF Spec
-----------------------------------------------------------------------------
(* The queues of the loops by position: where a step that appends a        *)
(* functor, or takes the first one, leaves the others.                     *)
At(q, l, i, f) == i \in 1..Len(q[l]) /\ q[l][i] = f

(* queue_in_loop() on loop l.                                              *)
LEMMA AtAppend ==
    ASSUME NEW q \in [Loops -> Seq(Queued)], NEW l \in Loops, NEW f \in Queued,
           NEW g, NEW k \in Loops, NEW i \in Nat
    PROVE  At([q EXCEPT ![l] = Append(@, f)], k, i, g)
              <=> At(q, k, i, g) \/ (k = l /\ i = Len(q[l]) + 1 /\ g = f)
<1> DEFINE r == [q EXCEPT ![l] = Append(@, f)]
<1>1. CASE k # l
  <2>1. r[k] = q[k]  BY <1>1
  <2> QED  BY <1>1, <2>1 DEF At
<1>2. CASE k = l
  <2>1. r[l] = Append(q[l], f)  OBVIOUS
  <2>2. q[l] \in Seq(Queued) /\ Len(q[l]) \in Nat  OBVIOUS
  <2>3. /\ Len(r[l]) = Len(q[l]) + 1 /\ r[l][Len(q[l]) + 1] = f
        /\ \A j \in 1..Len(q[l]) : r[l][j] = q[l][j]
    BY <2>1, <2>2
  <2> HIDE DEF r
  <2>4. i \in 1..Len(r[l]) <=> i \in 1..Len(q[l]) \/ i = Len(q[l]) + 1  BY <2>2, <2>3
  <2>5. Len(q[l]) + 1 \notin 1..Len(q[l])  BY <2>2
  <2>6. At(r, l, i, g) <=> At(q, l, i, g) \/ (i = Len(q[l]) + 1 /\ g = f)
    BY <2>3, <2>4, <2>5 DEF At
  <2> QED  BY <1>2, <2>6 DEF r
<1> QED  BY <1>1, <1>2

(* The next functor of loop l is called.                                   *)
LEMMA AtTail ==
    ASSUME NEW q \in [Loops -> Seq(Queued)], NEW l \in Loops, q[l] # <<>>,
           NEW g, NEW k \in Loops, NEW i \in Nat \ {0}
    PROVE  /\ At([q EXCEPT ![l] = Tail(@)], k, i, g)
                 <=> At(q, k, IF k = l THEN i + 1 ELSE i, g)
           /\ At(q, l, 1, g) <=> g = Head(q[l])
<1> DEFINE r == [q EXCEPT ![l] = Tail(@)]
<1>0. q[l] \in Seq(Queued) /\ Len(q[l]) \in Nat \ {0}  OBVIOUS
<1>1. CASE k # l
  <2>1. r[k] = q[k]  BY <1>1
  <2> QED  BY <1>0, <1>1, <2>1 DEF At
<1>2. CASE k = l
  <2>1. r[l] = Tail(q[l])  OBVIOUS
  <2>2. Len(r[l]) = Len(q[l]) - 1 /\ \A j \in 1..(Len(q[l]) - 1) : r[l][j] = q[l][j + 1]
    BY <1>0, <2>1
  <2> HIDE DEF r
  <2>3. i \in 1..Len(r[l]) <=> i + 1 \in 1..Len(q[l])  BY <1>0, <2>2
  <2>4. i \in 1..Len(r[l]) => r[l][i] = q[l][i + 1]  BY <1>0, <2>2
  <2>5. At(r, l, i, g) <=> At(q, l, i + 1, g)  BY <2>3, <2>4 DEF At
  <2> QED  BY <1>0, <1>2, <2>5 DEF At, r
<1> QED  BY <1>1, <1>2

(* No connection_handler is queued twice.                                  *)
Once(q, c) ==
    \A l, k \in Loops, i, j \in Nat :
        At(q, l, i, <<"open", c>>) /\ At(q, k, j, <<"open", c>>) => l = k /\ i = j

(* Queueing something else does not change which handlers are queued ...   *)
LEMMA AppendOther ==
    ASSUME NEW q \in [Loops -> Seq(Queued)], NEW l \in Loops, NEW f \in Queued, NEW c,
           f # <<"open", c>>
    PROVE  LET r == [q EXCEPT ![l] = Append(@, f)]
           IN  /\ OpenQueued(r, c) <=> OpenQueued(q, c)
               /\ Once(q, c) => Once(r, c)
<1> DEFINE r == [q EXCEPT ![l] = Append(@, f)]
<1>1. \A k \in Loops, i \in Nat : At(r, k, i, <<"open", c>>) <=> At(q, k, i, <<"open", c>>)
  BY AtAppend
<1>2. \A k \in Loops : Len(q[k]) \in Nat /\ Len(r[k]) \in Nat
  <2>1. r \in [Loops -> Seq(Queued)]  BY QueueUpdate
  <2> HIDE DEF r
  <2> QED  BY <2>1
<1> HIDE DEF r
<1>3. OpenQueued(r, c) <=> \E k \in Loops, i \in Nat : At(r, k, i, <<"open", c>>)
  BY <1>2 DEF OpenQueued, At
<1>4. OpenQueued(q, c) <=> \E k \in Loops, i \in Nat : At(q, k, i, <<"open", c>>)
  BY <1>2 DEF OpenQueued, At
<1>5. Once(q, c) => Once(r, c)
  <2> SUFFICES ASSUME Once(q, c), NEW k \in Loops, NEW m \in Loops, NEW i \in Nat, NEW j \in Nat,
                      At(r, k, i, <<"open", c>>), At(r, m, j, <<"open", c>>)
               PROVE  k = m /\ i = j
    BY DEF Once
  <2>1. At(q, k, i, <<"open", c>>) /\ At(q, m, j, <<"open", c>>)  BY <1>1
  <2> QED  BY <2>1 DEF Once
<1>6. OpenQueued(r, c) <=> OpenQueued(q, c)  BY <1>1, <1>3, <1>4, Zenon
<1> QED  BY <1>5, <1>6 DEF r

(* ... nor does calling something else.                                    *)
LEMMA TailOther ==
    ASSUME NEW q \in [Loops -> Seq(Queued)], NEW l \in Loops, q[l] # <<>>, NEW c
    PROVE  LET r == [q EXCEPT ![l] = Tail(@)]
           IN  /\ Head(q[l]) # <<"open", c>> => (OpenQueued(r, c) <=> OpenQueued(q, c))
               /\ Once(q, c) => Once(r, c)
               /\ Head(q[l]) = <<"open", c>> => OpenQueued(q, c)
               /\ Head(q[l]) = <<"open", c>> /\ Once(q, c) => ~OpenQueued(r, c)
<1> DEFINE r == [q EXCEPT ![l] = Tail(@)]
           o == <<"open", c>>
<1>1. \A k \in Loops, i \in Nat \ {0} :
         At(r, k, i, o) <=> At(q, k, IF k = l THEN i + 1 ELSE i, o)
  BY AtTail
<1>2. At(q, l, 1, o) <=> o = Head(q[l])
  <2>1. 1 \in Nat \ {0}  OBVIOUS
  <2> QED  BY <2>1, AtTail
<1>3. \A k \in Loops : Len(q[k]) \in Nat /\ Len(r[k]) \in Nat
  <2>1. r \in [Loops -> Seq(Queued)]  BY QueueUpdate
  <2> HIDE DEF r
  <2> QED  BY <2>1
<1> HIDE DEF r
<1>4. /\ OpenQueued(r, c) <=> \E k \in Loops, i \in Nat \ {0} : At(r, k, i, o)
      /\ OpenQueued(q, c) <=> \E k \in Loops, i \in Nat \ {0} : At(q, k, i, o)
  BY <1>3 DEF OpenQueued, At
<1>5. \A k \in Loops, i \in Nat : /\ At(r, k, i, o) => i \in Nat \ {0}
                                  /\ At(q, k, i, o) => i \in Nat \ {0}
  BY <1>3 DEF At
<1> HIDE DEF o
<1>6. OpenQueued(r, c) => OpenQueued(q, c)
  <2> SUFFICES ASSUME NEW k \in Loops, NEW i \in Nat \ {0}, At(r, k, i, o)
               PROVE  \E j \in Nat \ {0} : At(q, k, j, o)
    BY <1>4
  <2>1. i + 1 \in Nat \ {0}  OBVIOUS
  <2> QED  BY <1>1, <2>1
<1>7. Head(q[l]) # o /\ OpenQueued(q, c) => OpenQueued(r, c)
  <2> SUFFICES ASSUME Head(q[l]) # o, NEW k \in Loops, NEW i \in Nat \ {0}, At(q, k, i, o)
               PROVE  \E j \in Nat \ {0} : At(r, k, j, o)
    BY <1>4
  <2>1. CASE k # l  BY <1>1, <2>1
  <2>2. CASE k = l
    <3>1. i # 1  BY <1>2, <2>2
    <3>2. i - 1 \in Nat \ {0} /\ (i - 1) + 1 = i  BY <3>1
    <3> QED  BY <1>1, <2>2, <3>2
  <2> QED  BY <2>1, <2>2
<1>8. Once(q, c) => Once(r, c)
  <2> SUFFICES ASSUME Once(q, c), NEW k \in Loops, NEW m \in Loops, NEW i \in Nat, NEW j \in Nat,
                      At(r, k, i, o), At(r, m, j, o)
               PROVE  k = m /\ i = j
    BY DEF Once, o
  <2>1. i \in Nat \ {0} /\ j \in Nat \ {0}  BY <1>5
  <2> DEFINE a == IF k = l THEN i + 1 ELSE i
             b == IF m = l THEN j + 1 ELSE j
  <2>2. At(q, k, a, o) /\ At(q, m, b, o)  BY <1>1, <2>1
  <2>3. a \in Nat /\ b \in Nat  OBVIOUS
  <2>4. k = m /\ a = b  BY <2>2, <2>3 DEF Once, o
  <2> QED  BY <2>1, <2>4
<1>9. Head(q[l]) = o => OpenQueued(q, c)
  <2>1. 1 \in Nat \ {0}  OBVIOUS
  <2> QED  BY <1>2, <1>4, <2>1
<1>10. Head(q[l]) = o /\ Once(q, c) => ~OpenQueued(r, c)
  <2> SUFFICES ASSUME Head(q[l]) = o, Once(q, c), NEW k \in Loops, NEW i \in Nat \ {0},
                      At(r, k, i, o)
               PROVE  FALSE
    BY <1>4
  <2> DEFINE a == IF k = l THEN i + 1 ELSE i
  <2>1. At(q, k, a, o) /\ At(q, l, 1, o)  BY <1>1, <1>2
  <2>2. a \in Nat /\ 1 \in Nat  OBVIOUS
  <2>3. k = l /\ a = 1  BY <2>1, <2>2 DEF Once, o
  <2> QED  BY <2>3
<1> QED  BY <1>6, <1>7, <1>8, <1>9, <1>10 DEF r, o

(* A handler that is queued for the first time is queued once.             *)
LEMMA AppendOpen ==
    ASSUME NEW q \in [Loops -> Seq(Queued)], NEW l \in Loops, NEW c \in Conns, ~OpenQueued(q, c)
    PROVE  LET r == [q EXCEPT ![l] = Append(@, <<"open", c>>)]
           IN  OpenQueued(r, c) /\ Once(r, c)
<1> DEFINE r == [q EXCEPT ![l] = Append(@, <<"open", c>>)]
           o == <<"open", c>>
<1>0. o \in Queued  BY DEF Queued
<1>1. \A k \in Loops, i \in Nat :
         At(r, k, i, o) <=> At(q, k, i, o) \/ (k = l /\ i = Len(q[l]) + 1)
  BY <1>0, AtAppend
<1>2. \A k \in Loops : Len(q[k]) \in Nat /\ Len(r[k]) \in Nat
  <2>1. r \in [Loops -> Seq(Queued)]  BY <1>0, QueueUpdate
  <2> HIDE DEF r
  <2> QED  BY <2>1
<1> HIDE DEF r
<1>3. \A k \in Loops, i \in Nat : ~At(q, k, i, o)  BY DEF OpenQueued, At
<1>4. Len(q[l]) + 1 \in Nat  BY <1>2
<1>5. At(r, l, Len(q[l]) + 1, o)  BY <1>1, <1>4
<1>6. OpenQueued(r, c)  BY <1>5 DEF OpenQueued, At
<1>7. Once(r, c)  BY <1>1, <1>3 DEF Once
<1> QED  BY <1>6, <1>7 DEF r
-----------------------------------------------------------------------------
(* Why OpenedOrQueued is kept: before establish() has come to the          *)
(* connection_handler it is neither called nor queued, and it is never     *)
(* queued twice.                                                           *)
OpenInv ==
    /\ OpenedOrQueued
    /\ \A c \in Conns :
          /\ Once(functors, c)
          /\ loop[c] = -1 \/ InEstablish(c) => opened[c] = 0 /\ ~OpenQueued(functors, c)
          /\ InEstablish(c) => loop[c] # -1

(* A step that neither calls nor queues a connection_handler.              *)
LEMMA OpenKept ==
    ASSUME OpenInv, opened' = opened,
           \A c \in Conns : /\ OpenQueued(functors', c) <=> OpenQueued(functors, c)
                            /\ Once(functors, c) => Once(functors', c)
                            /\ loop'[c] = -1 <=> loop[c] = -1
                            /\ InEstablish(c)' <=> InEstablish(c)
    PROVE  OpenInv'
BY DEF OpenInv, OpenedOrQueued

(* The same for a close, which may queue a remove_connection().            *)
LEMMA CloseOpens ==
    ASSUME TypeOK, NEW c \in Conns, NEW q \in [Loops -> Seq(Queued)], CloseConnection(c, q)
    PROVE  /\ loop' = loop
           /\ \A d \in Conns : /\ OpenQueued(functors', d) <=> OpenQueued(q, d)
                               /\ Once(q, d) => Once(functors', d)
<1>1. functors' = q \/ functors' = [q EXCEPT ![Main] = Append(@, <<"remove", c>>)]
  BY DEF CloseConnection
<1>2. Main \in Loops /\ <<"remove", c>> \in Queued
  BY ServerAssumption DEF Main, Loops, Queued
<1>3. \A d \in Conns : <<"remove", c>> # <<"open", d>>  OBVIOUS
<1>4. loop' = loop  BY DEF CloseConnection
<1>5. CASE functors' = q  BY <1>4, <1>5
<1>6. CASE functors' = [q EXCEPT ![Main] = Append(@, <<"remove", c>>)]
  BY <1>2, <1>3, <1>4, <1>6, AppendOther
<1> QED  BY <1>1, <1>5, <1>6

(* Every step keeps OpenInv.                                               *)
LEMMA OpenInvNext == TypeInv /\ OpenInv /\ [Next]_vars => OpenInv'
<1> SUFFICES ASSUME TypeInv, OpenInv, [Next]_vars PROVE OpenInv'  OBVIOUS
<1>0. /\ TypeOK /\ functors \in [Loops -> Seq(Queued)]
      /\ opened \in [Conns -> Nat] /\ cur \in Conns
      /\ loop \in [Conns -> (0..io) \cup {-1}]
  BY DEF TypeInv, TypeOK, Queued
<1>l. \A c \in Conns : loop[c] # -1 => loop[c] \in Loops
  BY <1>0, ServerAssumption DEF TypeOK, Loops
<1> USE DEF chanVars, histVars, inVars, vars
<1>1. ASSUME NEW c \in Conns, MakeChannel(c) PROVE OpenInv'
  <2>1. NextLoop \in 0..io /\ NextLoop \in Loops
    BY <1>0, ServerAssumption DEF NextLoop, TypeOK, Loops, Main
  <2>2. <<"add", c>> \in Queued /\ \A d \in Conns : <<"add", c>> # <<"open", d>>
    BY DEF Queued
  <2>3. \/ functors' = functors
        \/ functors' = [functors EXCEPT ![NextLoop] = Append(@, <<"add", c>>)]
    BY <1>1 DEF MakeChannel
  <2>4. \A d \in Conns : /\ OpenQueued(functors', d) <=> OpenQueued(functors, d)
                         /\ Once(functors, d) => Once(functors', d)
    <3>1. CASE functors' = functors  BY <3>1
    <3>2. CASE functors' = [functors EXCEPT ![NextLoop] = Append(@, <<"add", c>>)]
      BY <1>0, <2>1, <2>2, <3>2, AppendOther
    <3> QED  BY <2>3, <3>1, <3>2
  <2>5. /\ opened' = opened /\ cur' = c /\ pc' = "create" /\ pc = "idle"
        /\ loop[c] = -1 /\ loop' = [loop EXCEPT ![c] = NextLoop]
    BY <1>1 DEF MakeChannel
  <2>6. /\ loop'[c] # -1 /\ \A d \in Conns \ {c} : loop'[d] = loop[d]
    BY <1>0, <2>1, <2>5
  <2>7. \A d \in Conns : (InEstablish(d)' <=> d = c) /\ ~InEstablish(d)
    BY <2>5 DEF InEstablish
  <2> QED  BY <2>4, <2>5, <2>6, <2>7 DEF OpenInv, OpenedOrQueued
<1>2. ASSUME UNCHANGED <<functors, opened, loop, cur>>,
             pc \in {"idle", "each"} <=> pc' \in {"idle", "each"}
      PROVE  OpenInv'
  <2>1. \A c \in Conns : InEstablish(c)' <=> InEstablish(c)  BY <1>2 DEF InEstablish
  <2> QED  BY <1>2, <2>1, OpenKept
<1>3. CASE CreateConnection \/ SetMessageHandler \/ SetCloseHandler \/ EmplaceConnection
           \/ ForEach \/ EndForEach
  BY <1>2, <1>3 DEF CreateConnection, SetMessageHandler, SetCloseHandler, EmplaceConnection,
                    ForEach, EndForEach
<1>4. CASE RunConnectionHandler
  <2>1. /\ pc = "handler" /\ pc' = "idle" /\ cur' = cur /\ loop' = loop
    BY <1>4 DEF RunConnectionHandler
  <2>2. /\ \A d \in Conns : (InEstablish(d) <=> d = cur) /\ ~InEstablish(d)'
    BY <2>1 DEF InEstablish
  <2>3. /\ loop[cur] # -1 /\ opened[cur] = 0 /\ ~OpenQueued(functors, cur)
    BY <1>0, <2>2 DEF OpenInv
  <2>4. CASE loop[cur] = Main
    <3>1. opened' = [opened EXCEPT ![cur] = @ + 1] /\ functors' = functors
      BY <1>4, <2>4 DEF RunConnectionHandler
    <3>2. opened'[cur] = 1 /\ \A d \in Conns \ {cur} : opened'[d] = opened[d]
      BY <1>0, <2>3, <3>1
    <3> QED  BY <1>0, <2>1, <2>2, <2>3, <3>1, <3>2 DEF OpenInv, OpenedOrQueued
  <2>5. CASE loop[cur] # Main
    <3>1. /\ functors' = [functors EXCEPT ![loop[cur]] = Append(@, <<"open", cur>>)]
          /\ opened' = opened
      BY <1>4, <2>5 DEF RunConnectionHandler
    <3>2. OpenQueued(functors', cur) /\ Once(functors', cur)
      BY <1>0, <1>l, <2>3, <3>1, AppendOpen
    <3>3. <<"open", cur>> \in Queued /\ \A d \in Conns \ {cur} : <<"open", cur>> # <<"open", d>>
      BY <1>0 DEF Queued
    <3>4. \A d \in Conns \ {cur} : /\ OpenQueued(functors', d) <=> OpenQueued(functors, d)
                                   /\ Once(functors, d) => Once(functors', d)
      BY <1>0, <1>l, <2>3, <3>1, <3>3, AppendOther
    <3>5. OpenedOrQueued'
      <4>1. opened'[cur] = 0  BY <2>3, <3>1
      <4>2. ASSUME NEW d \in Conns \ {cur}
            PROVE  /\ opened'[d] <= 1 /\ (opened'[d] = 1 => ~OpenQueued(functors', d))
                   /\ loop'[d] # -1 => opened'[d] = 1 \/ OpenQueued(functors', d)
        <5>1. /\ opened[d] <= 1 /\ (opened[d] = 1 => ~OpenQueued(functors, d))
              /\ loop[d] # -1 => opened[d] = 1 \/ OpenQueued(functors, d)
          BY <2>2 DEF OpenInv, OpenedOrQueued
        <5> QED  BY <2>1, <3>1, <3>4, <5>1
      <4> QED  BY <3>2, <4>1, <4>2 DEF OpenedOrQueued
    <3>6. \A d \in Conns : Once(functors', d)  BY <3>2, <3>4 DEF OpenInv
    <3>7. \A d \in Conns : loop[d] = -1 => opened[d] = 0 /\ ~OpenQueued(functors', d)
      BY <2>3, <3>4 DEF OpenInv
    <3> QED  BY <2>1, <2>2, <3>1, <3>5, <3>6, <3>7 DEF OpenInv
  <2> QED  BY <2>4, <2>5
<1>5. ASSUME NEW c \in Conns, ReadMessage(c) \/ PeerSend(c) \/ PeerClose(c) PROVE OpenInv'
  BY <1>2, <1>5 DEF ReadMessage, PeerSend, PeerClose
<1>6. ASSUME NEW c \in Conns, NEW q \in [Loops -> Seq(Queued)], CloseConnection(c, q),
             UNCHANGED <<opened, cur, pc>>,
             \A d \in Conns : /\ OpenQueued(q, d) <=> OpenQueued(functors, d)
                              /\ Once(functors, d) => Once(q, d)
      PROVE  OpenInv'
  <2>1. /\ loop' = loop
        /\ \A d \in Conns : /\ OpenQueued(functors', d) <=> OpenQueued(functors, d)
                            /\ Once(functors, d) => Once(functors', d)
    BY <1>0, <1>6, CloseOpens
  <2>2. \A d \in Conns : InEstablish(d)' <=> InEstablish(d)  BY <1>6 DEF InEstablish
  <2> QED  BY <1>6, <2>1, <2>2, OpenKept
<1>7. ASSUME NEW c \in Conns, ReadEof(c) PROVE OpenInv'
  <2>1. CloseConnection(c, functors) /\ UNCHANGED <<opened, cur, pc>>  BY <1>7 DEF ReadEof
  <2> QED  BY <1>0, <1>6, <2>1
(* A loop calls a functor that is no connection_handler.                   *)
<1>8. ASSUME NEW l \in Loops, functors[l] # <<>>, Head(functors[l])[1] # "open"
      PROVE  LET q == [functors EXCEPT ![l] = Tail(@)]
             IN  /\ q \in [Loops -> Seq(Queued)]
                 /\ \A d \in Conns : /\ OpenQueued(q, d) <=> OpenQueued(functors, d)
                                     /\ Once(functors, d) => Once(q, d)
  <2>1. \A d \in Conns : Head(functors[l]) # <<"open", d>>  BY <1>8
  <2> QED  BY <1>0, <1>8, <2>1, QueueUpdate, TailOther
<1>9. ASSUME NEW l \in Loops, RunAdd(l) \/ (l = Main /\ RunRemove) PROVE OpenInv'
  <2>1. /\ functors[l] # <<>> /\ Head(functors[l])[1] # "open"
        /\ functors' = [functors EXCEPT ![l] = Tail(@)]
        /\ UNCHANGED <<opened, loop, cur, pc>>
    BY <1>9 DEF RunAdd, RunRemove
  <2>2. \A d \in Conns : InEstablish(d)' <=> InEstablish(d)  BY <2>1 DEF InEstablish
  <2>3. \A d \in Conns : /\ OpenQueued(functors', d) <=> OpenQueued(functors, d)
                         /\ Once(functors, d) => Once(functors', d)
    BY <1>8, <2>1
  <2> QED  BY <2>1, <2>2, <2>3, OpenKept
<1>10. ASSUME NEW l \in Loops, RunSend(l) PROVE OpenInv'
  <2> DEFINE q == [functors EXCEPT ![l] = Tail(@)]
             c == Head(functors[l])[2]
  <2>1. /\ functors[l] # <<>> /\ Head(functors[l])[1] # "open"
        /\ UNCHANGED <<opened, cur, pc>>
        /\ (functors' = q /\ UNCHANGED loop) \/ CloseConnection(c, q)
    BY <1>10 DEF RunSend
  <2>2. c \in Conns  BY <1>0, <2>1, QueueUpdate
  <2>3. /\ q \in [Loops -> Seq(Queued)]
        /\ \A d \in Conns : /\ OpenQueued(q, d) <=> OpenQueued(functors, d)
                            /\ Once(functors, d) => Once(q, d)
    BY <1>8, <2>1
  <2> HIDE DEF q, c
  <2>4. CASE functors' = q /\ UNCHANGED loop
    <3>1. \A d \in Conns : InEstablish(d)' <=> InEstablish(d)  BY <2>1 DEF InEstablish
    <3> QED  BY <2>1, <2>3, <2>4, <3>1, OpenKept
  <2>5. CASE CloseConnection(c, q)  BY <1>6, <2>1, <2>2, <2>3, <2>5
  <2> QED  BY <2>1, <2>4, <2>5
<1>11. ASSUME NEW l \in Loops, RunOpen(l) PROVE OpenInv'
  <2> DEFINE q == [functors EXCEPT ![l] = Tail(@)]
             c == Head(functors[l])[2]
  <2>1. /\ functors[l] # <<>> /\ Head(functors[l])[1] = "open" /\ functors' = q
        /\ opened' = [opened EXCEPT ![c] = @ + 1]
        /\ UNCHANGED <<loop, cur, pc>>
    BY <1>11 DEF RunOpen
  <2>2. c \in Conns  BY <1>0, <2>1, QueueUpdate
  <2>3. Head(functors[l]) = <<"open", c>>
    <3>1. functors[l] \in Seq(Queued)  BY <1>0
    <3>2. Head(functors[l]) \in Queued  BY <2>1, <3>1
    <3> QED  BY <2>1, <3>2 DEF Queued
  <2>4. /\ OpenQueued(functors, c) /\ ~OpenQueued(q, c) /\ Once(q, c)
    <3>1. Once(functors, c)  BY <2>2 DEF OpenInv
    <3>2. ASSUME NEW d \in Conns, Head(functors[l]) = <<"open", d>>, Once(functors, d)
          PROVE  OpenQueued(functors, d) /\ ~OpenQueued(q, d) /\ Once(q, d)
      BY <1>0, <2>1, <3>2, TailOther
    <3> HIDE DEF q, c
    <3> QED  BY <2>2, <2>3, <3>1, <3>2
  <2>5. \A d \in Conns \ {c} : /\ OpenQueued(q, d) <=> OpenQueued(functors, d)
                               /\ Once(functors, d) => Once(q, d)
    <3>1. \A d \in Conns \ {c} : Head(functors[l]) # <<"open", d>>  BY <2>3
    <3> QED  BY <1>0, <2>1, <3>1, TailOther
  <2> HIDE DEF q, c
  <2>6. \A d \in Conns : InEstablish(d)' <=> InEstablish(d)  BY <2>1 DEF InEstablish
  <2>7. /\ opened[c] = 0 /\ loop[c] # -1 /\ ~InEstablish(c)
    BY <1>0, <2>2, <2>4 DEF OpenInv, OpenedOrQueued
  <2>8. opened'[c] = 1 /\ \A d \in Conns \ {c} : opened'[d] = opened[d]
    BY <1>0, <2>1, <2>2, <2>7
  <2> QED  BY <2>1, <2>2, <2>4, <2>5, <2>6, <2>7, <2>8 DEF OpenInv, OpenedOrQueued
<1>12. ASSUME NEW c \in Conns, Visit(c) PROVE OpenInv'
  <2>1. UNCHANGED <<opened, cur, pc>>  BY <1>12 DEF Visit
  <2>2. \A d \in Conns : InEstablish(d)' <=> InEstablish(d)  BY <2>1 DEF InEstablish
  <2>3. CASE CloseConnection(c, functors)  BY <1>0, <1>6, <2>1, <2>3
  <2>4. CASE UNCHANGED <<functors, loop>>  BY <1>2, <2>1, <2>4
  <2>5. CASE loop' = loop
             /\ functors' = [functors EXCEPT ![loop[c]] = Append(@, <<"send", c>>)]
    <3>1. <<"send", c>> \in Queued /\ \A d \in Conns : <<"send", c>> # <<"open", d>>
      BY DEF Queued
    <3>2. CASE loop[c] \in Loops
      <4>1. \A d \in Conns : /\ OpenQueued(functors', d) <=> OpenQueued(functors, d)
                             /\ Once(functors, d) => Once(functors', d)
        BY <1>0, <2>5, <3>1, <3>2, AppendOther
      <4> QED  BY <2>1, <2>2, <2>5, <4>1, OpenKept
    <3>3. CASE loop[c] \notin Loops
      <4>1. functors' = functors  BY <1>0, <2>5, <3>3
      <4> QED  BY <1>2, <2>1, <2>5, <4>1
    <3> QED  BY <3>2, <3>3
  <2> QED  BY <1>12, <2>3, <2>4, <2>5 DEF Visit
<1>13. CASE UNCHANGED vars  BY <1>2, <1>13
<1>14. Main \in Loops  BY ServerAssumption DEF Main, Loops
<1> QED
  BY <1>1, <1>3, <1>4, <1>5, <1>7, <1>9, <1>10, <1>11, <1>12, <1>13, <1>14
  DEF Next, Establish, Handle, IoStep

(* No connection has been accepted, and no functor is queued.              *)
LEMMA OpenInvInit == Init => OpenInv
<1> SUFFICES ASSUME Init PROVE OpenInv  OBVIOUS
<1>1. /\ \A c \in Conns : opened[c] = 0 /\ loop[c] = -1 /\ ~InEstablish(c)
      /\ \A l \in Loops : Len(functors[l]) = 0
  BY DEF Init, InEstablish
<1>2. \A c \in Conns : ~OpenQueued(functors, c) /\ Once(functors, c)
  BY <1>1 DEF OpenQueued, Once, At
<1> QED  BY <1>1, <1>2 DEF OpenInv, OpenedOrQueued
(* Once establish() is done with a connection its connection_handler has   *)
(* been called or is queued on its loop, never both and never twice.       *)
THEOREM OpenedExactlyOnce == Spec => []OpenedOrQueued
<1>1. OpenInv => OpenedOrQueued  BY DEF OpenInv
<1> QED  BY TypeInvInit, TypeInvNext, OpenInvInit, OpenInvNext, <1>1, PTL DEF Spec

-----------------------------------------------------------------------------
(* Without io loops all runs on the main loop: nothing is ever queued, and *)
(* while establish() works on a connection no event is handled, so every   *)
(* other connection that was accepted has all its handlers.                *)
SingleInv ==
    io = 0 =>
        /\ discarded = 0 /\ ~early
        /\ \A l \in Loops : functors[l] = <<>>
        /\ connection_map \cap closed = {}
        /\ \A c \in Conns : c \in registered \cup closed \cup connection_map \cup todo => loop[c] # -1
        /\ \A c \in Conns : InEstablish(c) => c \notin closed /\ loop[c] # -1
        /\ pc \in {"close", "map", "handler"} => cur \in on_message
        /\ pc \in {"map", "handler"} => cur \in on_close
        /\ \A c \in Conns : loop[c] # -1 /\ ~InEstablish(c) =>
              c \in on_message /\ c \in on_close /\ opened[c] > 0

(* A close without io loops erases at once.                                *)
LEMMA SingleClose ==
    ASSUME TypeOK, SingleInv, io = 0, NEW c \in Conns, CloseConnection(c, functors),
           pc \in {"idle", "each"}, loop[c] # -1, todo' \subseteq todo,
           UNCHANGED <<io, pc, cur, discarded, early, opened>>
    PROVE  SingleInv'
<1>1. loop[c] = Main  BY DEF TypeOK, Main
<1>2. ~InEstablish(c) /\ \A d \in Conns : ~InEstablish(d)'
  BY DEF InEstablish
<1>3. c \in on_close  BY <1>2 DEF SingleInv
<1>4. /\ closed' = closed \cup {c} /\ registered' \subseteq registered
      /\ connection_map' = connection_map \ {c} /\ functors' = functors
      /\ UNCHANGED <<loop, handled, on_message, on_close>>
  BY <1>1, <1>3 DEF CloseConnection
<1> QED  BY <1>2, <1>4 DEF SingleInv, InEstablish

(* Every step keeps SingleInv.                                             *)
LEMMA SingleInvNext == TypeInv /\ SingleInv /\ [Next]_vars => SingleInv'
<1>a. [Next]_vars => io' = io
  BY DEF Next, vars, Establish, CreateConnection, SetMessageHandler, SetCloseHandler,
         EmplaceConnection, RunConnectionHandler, RunRemove, ForEach, EndForEach,
         MakeChannel, Handle, ReadMessage, ReadEof, Visit, PeerSend, PeerClose,
         IoStep, RunAdd, RunOpen, RunSend
<1> SUFFICES ASSUME TypeInv, SingleInv, [Next]_vars, io = 0 PROVE SingleInv'
  BY <1>a DEF SingleInv
<1>0. /\ TypeOK /\ io' = 0 /\ cur \in Conns /\ opened \in [Conns -> Nat]
      /\ \A c \in Conns : loop[c] \in {Main, -1}
      /\ \A l \in Loops : functors[l] = <<>>
      /\ Main \in Loops
  BY <1>a, ServerAssumption DEF TypeInv, TypeOK, SingleInv, Main, Loops
<1> USE DEF chanVars, histVars, inVars, vars
<1>1. ASSUME NEW c \in Conns, MakeChannel(c) PROVE SingleInv'
  <2>1. NextLoop = Main  BY DEF NextLoop
  <2>2. /\ pc = "idle" /\ loop[c] = -1 /\ cur' = c /\ pc' = "create"
        /\ registered' = registered \cup {c}
        /\ UNCHANGED <<functors, on_message, on_close, closed, connection_map, todo, discarded,
                       early, opened>>
        /\ loop' = [loop EXCEPT ![c] = Main]
    BY <1>1, <2>1 DEF MakeChannel
  <2>3. loop'[c] # -1 /\ \A d \in Conns \ {c} : loop'[d] = loop[d]
    BY <1>0, <2>2 DEF TypeOK, Main
  <2>4. \A d \in Conns : ~InEstablish(d) /\ (InEstablish(d)' <=> d = c)
    BY <2>2 DEF InEstablish
  <2> QED  BY <2>2, <2>3, <2>4 DEF SingleInv
<1>2. CASE CreateConnection \/ SetMessageHandler \/ SetCloseHandler
  BY <1>0, <1>2 DEF CreateConnection, SetMessageHandler, SetCloseHandler, SingleInv, InEstablish
<1>3. CASE EmplaceConnection
  <2>1. InEstablish(cur)  BY <1>3 DEF EmplaceConnection, InEstablish
  <2> QED  BY <1>0, <1>3, <2>1 DEF EmplaceConnection, SingleInv, InEstablish
<1>4. CASE RunConnectionHandler
  <2>1. /\ pc = "handler" /\ pc' = "idle"
        /\ UNCHANGED <<io, cur, loop, registered, on_message, on_close, closed,
                       connection_map, todo, discarded, early>>
    BY <1>4 DEF RunConnectionHandler
  <2>2. \A d \in Conns : (InEstablish(d) <=> d = cur) /\ ~InEstablish(d)'
    BY <2>1 DEF InEstablish
  <2>3. loop[cur] = Main  BY <1>0, <2>2 DEF SingleInv
  <2>4. opened' = [opened EXCEPT ![cur] = @ + 1] /\ functors' = functors
    BY <1>4, <2>3 DEF RunConnectionHandler
  <2>5. opened'[cur] > 0 /\ \A d \in Conns \ {cur} : opened'[d] = opened[d]
    BY <1>0, <2>4
  <2> QED  BY <2>1, <2>2, <2>4, <2>5 DEF SingleInv
<1>5. ASSUME NEW c \in Conns, ReadMessage(c) PROVE SingleInv'
  <2>1. loop[c] = Main /\ loop[c] # -1  BY <1>0, <1>5 DEF SingleInv, ReadMessage, Main
  <2>2. pc = "idle"  BY <1>5, <2>1 DEF ReadMessage, Free
  <2>3. c \in on_message /\ opened[c] > 0  BY <2>1, <2>2 DEF SingleInv, InEstablish
  <2>4. early' = early /\ discarded' = discarded
    <3>1. discarded' = discarded  BY <1>5, <2>3 DEF ReadMessage
    <3>2. early' = (early \/ opened[c] = 0)  BY <1>5, <2>3 DEF ReadMessage
    <3>3. opened[c] # 0  BY <1>0, <2>3
    <3>4. early \in BOOLEAN  BY <1>0 DEF TypeOK
    <3> QED  BY <3>1, <3>2, <3>3, <3>4
  <2>5. UNCHANGED <<io, pc, cur, loop, registered, on_message, on_close, functors, closed,
                    connection_map, todo, opened>>
    BY <1>5 DEF ReadMessage
  <2> QED  BY <2>4, <2>5 DEF SingleInv, InEstablish
<1>6. ASSUME NEW c \in Conns, ReadEof(c) PROVE SingleInv'
  <2>1. loop[c] = Main /\ loop[c] # -1  BY <1>0, <1>6 DEF SingleInv, ReadEof, Main
  <2>2. pc = "idle"  BY <1>6, <2>1 DEF ReadEof, Free
  <2> QED  BY <1>0, <1>6, <2>1, <2>2, SingleClose DEF ReadEof
<1>7. ASSUME NEW c \in Conns, Visit(c) PROVE SingleInv'
  <2>1. pc = "each" /\ loop[c] = Main /\ loop[c] # -1 /\ todo' \subseteq todo
    BY <1>0, <1>7 DEF SingleInv, Visit, Main
  <2>2. UNCHANGED <<io, pc, cur, discarded, early, opened>>  BY <1>7 DEF Visit
  <2>3. CASE CloseConnection(c, functors)  BY <1>0, <2>1, <2>2, <2>3, SingleClose
  <2>4. CASE UNCHANGED <<chanVars, functors, closed, connection_map>>
    BY <2>1, <2>2, <2>4 DEF SingleInv, InEstablish
  <2> QED  BY <1>7, <2>1, <2>3, <2>4 DEF Visit
<1>8. CASE ForEach \/ EndForEach
  BY <1>8 DEF ForEach, EndForEach, SingleInv, InEstablish
<1>9. ASSUME NEW c \in Conns, PeerSend(c) \/ PeerClose(c) PROVE SingleInv'
  BY <1>9 DEF PeerSend, PeerClose, SingleInv, InEstablish
<1>10. ~RunRemove /\ \A l \in Loops : ~IoStep(l)
  BY <1>0 DEF RunRemove, IoStep, RunAdd, RunOpen, RunSend
<1>11. CASE UNCHANGED vars  BY <1>11 DEF SingleInv, InEstablish
<1> QED
  BY <1>1, <1>2, <1>3, <1>4, <1>5, <1>6, <1>7, <1>8, <1>9, <1>10, <1>11
  DEF Next, Establish, Handle

(* Without io loops no message is discarded or handled before the          *)
(* connection_handler, and no closed connection stays in connection_map.   *)
THEOREM EstablishedBeforeEvents == Spec => []EstablishedFirst
<1>1. Init => SingleInv
  BY DEF Init, SingleInv, InEstablish
<1>2. SingleInv => EstablishedFirst  BY DEF SingleInv, EstablishedFirst, NoClosedLeft
<1> QED  BY TypeInvInit, TypeInvNext, SingleInvNext, <1>1, <1>2, PTL DEF Spec

(* All three: the callbacks of a server come once and, without io loops,   *)
(* in order, and with them for_each() is undisturbed.                      *)
THEOREM ServerIsSafe == Spec => []ServerSafe
BY EstablishedBeforeEvents, OpenedExactlyOnce, TraversalIsSafe, PTL DEF ServerSafe

(***************************************************************************)
(* The connections of a WebSocket server (module WsPart): facts about       *)
(* sequences, how messages are put together, what arrives, what is sent.    *)
(***************************************************************************)

(* The index arithmetic of appending an element and of taking the first.   *)
LEMMA AppendAt ==
    ASSUME NEW S, NEW s \in Seq(S), NEW e \in S
    PROVE  /\ Append(s, e) \in Seq(S)
           /\ Len(s) \in Nat /\ Len(Append(s, e)) = Len(s) + 1
           /\ \A i \in 1..Len(s) : Append(s, e)[i] = s[i]
           /\ Append(s, e)[Len(s) + 1] = e
OBVIOUS

(* Tail, by position.                                                      *)
LEMMA TailAt ==
    ASSUME NEW S, NEW s \in Seq(S), s # <<>>
    PROVE  /\ Head(s) \in S /\ Head(s) = s[1] /\ Tail(s) \in Seq(S)
           /\ Len(s) \in Nat \ {0} /\ Len(Tail(s)) = Len(s) - 1
           /\ \A i \in 1..Len(Tail(s)) : Tail(s)[i] = s[i + 1]
OBVIOUS

(* Two sequences with the same elements are one.                           *)
LEMMA SeqsEqual ==
    ASSUME NEW S, NEW s \in Seq(S), NEW t \in Seq(S), Len(s) = Len(t),
           \A k \in 1..Len(s) : s[k] = t[k]
    PROVE  s = t
OBVIOUS

(* SubSeq within a sequence, by position.                                  *)
LEMMA SubSeqAt ==
    ASSUME NEW S, NEW s \in Seq(S), NEW m \in Nat, NEW n \in Nat, m <= n, n <= Len(s)
    PROVE  /\ SubSeq(s, m + 1, n) \in Seq(S) /\ Len(SubSeq(s, m + 1, n)) = n - m
           /\ \A k \in 1..(n - m) : SubSeq(s, m + 1, n)[k] = s[m + k]
OBVIOUS

(* Concatenation, by position.                                             *)
Joined(S, u, s, t) ==
    /\ u \in Seq(S) /\ Len(s) \in Nat /\ Len(t) \in Nat /\ Len(u) = Len(s) + Len(t)
    /\ \A k \in 1..Len(s) : u[k] = s[k]
    /\ \A k \in 1..Len(t) : u[Len(s) + k] = t[k]

(* s \o t has the elements of s and then those of t.                       *)
LEMMA ConcatAt == ASSUME NEW S, NEW s \in Seq(S), NEW t \in Seq(S) PROVE Joined(S, s \o t, s, t)
BY DEF Joined

(* A function on 1..n is a sequence.                                       *)
LEMMA SeqOfFunction ==
    ASSUME NEW S, NEW n \in Nat, NEW f \in [1..n -> S] PROVE f \in Seq(S) /\ Len(f) = n
OBVIOUS

(* All of a sequence; two parts of it.                                     *)
LEMMA SubSeqAll == ASSUME NEW S, NEW s \in Seq(S) PROVE SubSeq(s, 1, Len(s)) = s
<1>1. 0 \in Nat /\ 0 <= Len(s) /\ Len(s) <= Len(s) /\ 0 + 1 = 1 /\ Len(s) \in Nat /\ Len(s) - 0 = Len(s)
      /\ \A k \in 1..Len(s) : 0 + k = k
  OBVIOUS
<1>2. /\ SubSeq(s, 1, Len(s)) \in Seq(S) /\ Len(SubSeq(s, 1, Len(s))) = Len(s)
      /\ \A k \in 1..Len(s) : SubSeq(s, 1, Len(s))[k] = s[k]
  BY <1>1, SubSeqAt
<1> QED  BY <1>2, SeqsEqual

(* What was read in two parts, appended one after the other.               *)
LEMMA ConcatParts ==
    ASSUME NEW S, NEW c \in Seq(S), NEW s \in Seq(S), NEW m \in Nat, m <= Len(s)
    PROVE  (c \o SubSeq(s, 1, m)) \o SubSeq(s, m + 1, Len(s)) = c \o s
<1> DEFINE a == SubSeq(s, 1, m)
           z == SubSeq(s, m + 1, Len(s))
           ca == c \o a
<1>0. PICK l \in Nat, n \in Nat : l = Len(c) /\ n = Len(s)  OBVIOUS
<1>1. a \in Seq(S) /\ Len(a) = m /\ \A k \in 1..m : a[k] = s[k]
  <2>1. 0 \in Nat /\ 0 <= m /\ 0 + 1 = 1 /\ m - 0 = m /\ \A k \in 1..m : 0 + k = k  OBVIOUS
  <2> QED  BY <2>1, SubSeqAt
<1>2. z \in Seq(S) /\ Len(z) = n - m /\ \A k \in 1..(n - m) : z[k] = s[m + k]
  <2>1. n <= Len(s)  BY <1>0
  <2> QED  BY <1>0, <2>1, SubSeqAt
<1> HIDE DEF a, z
<1>3. Joined(S, ca, c, a)  BY <1>1, ConcatAt
<1> HIDE DEF ca
<1>4. /\ ca \in Seq(S) /\ Len(ca) = l + m /\ \A k \in 1..l : ca[k] = c[k]
      /\ \A k \in 1..m : ca[l + k] = s[k]
  BY <1>0, <1>1, <1>3 DEF Joined
<1>5. /\ ca \o z \in Seq(S) /\ Len(ca \o z) = l + n
      /\ \A k \in 1..(l + m) : (ca \o z)[k] = ca[k]
      /\ \A k \in 1..(n - m) : (ca \o z)[(l + m) + k] = s[m + k]
  <2>1. Joined(S, ca \o z, ca, z)  BY <1>2, <1>4, ConcatAt
  <2>2. Len(ca) = l + m /\ Len(z) = n - m /\ (l + m) + (n - m) = l + n  BY <1>0, <1>2, <1>4
  <2> QED  BY <1>2, <2>1, <2>2 DEF Joined
<1>6. /\ c \o s \in Seq(S) /\ Len(c \o s) = l + n
      /\ \A k \in 1..l : (c \o s)[k] = c[k]
      /\ \A k \in 1..n : (c \o s)[l + k] = s[k]
  <2>1. Joined(S, c \o s, c, s)  BY ConcatAt
  <2> QED  BY <1>0, <2>1 DEF Joined
<1>7. ASSUME NEW k \in 1..(l + n) PROVE (ca \o z)[k] = (c \o s)[k]
  <2>0. m <= n  BY <1>0
  <2>1. CASE k <= l
    <3>1. k \in 1..l /\ k \in 1..(l + m)  BY <2>1
    <3> QED  BY <1>4, <1>5, <1>6, <3>1
  <2>2. CASE l < k /\ k <= l + m
    <3>1. PICK j \in 1..m : j = k - l  BY <2>2
    <3>2. l + j = k /\ j \in 1..n /\ k \in 1..(l + m)  BY <2>0, <2>2, <3>1
    <3>3. (ca \o z)[k] = s[j]  BY <1>4, <1>5, <3>1, <3>2
    <3>4. (c \o s)[k] = s[j]  BY <1>6, <3>2
    <3> QED  BY <3>3, <3>4
  <2>3. CASE l + m < k
    <3>1. PICK j \in 1..(n - m) : j = k - (l + m)  BY <2>0, <2>3
    <3>2. (l + m) + j = k /\ l + (m + j) = k /\ m + j \in 1..n  BY <2>0, <2>3, <3>1
    <3>3. (ca \o z)[k] = s[m + j]  BY <1>5, <3>1, <3>2
    <3>4. (c \o s)[k] = s[m + j]  BY <1>6, <3>2
    <3> QED  BY <3>3, <3>4
  <2>4. k <= l \/ (l < k /\ k <= l + m) \/ l + m < k  OBVIOUS
  <2> QED  BY <2>1, <2>2, <2>3, <2>4
<1>8. ca \o z = c \o s  BY <1>5, <1>6, <1>7, SeqsEqual
<1> QED  BY <1>8 DEF ca, a, z

(* Induction over the natural numbers, for a set.                          *)
LEMMA SetInduction ==
    ASSUME NEW S, 0 \in S, \A n \in Nat : n \in S => n + 1 \in S
    PROVE  Nat \subseteq S
<1> DEFINE T == Nat \ S
           R == OpToRel(<, Nat)
<1>1. SUFFICES ASSUME T # {} PROVE FALSE  OBVIOUS
<1>2. IsWellFoundedOn(R, Nat)  BY NatLessThanWellFounded
<1>3. T \subseteq Nat  OBVIOUS
<1> HIDE DEF R, T
<1>4. PICK x \in T : \A y \in T : ~(<<y, x>> \in R)  BY <1>1, <1>2, <1>3, WFMin
<1>5. \A y, z \in Nat : <<y, z>> \in R <=> y < z  BY DEF R, OpToRel
<1>6. x \in Nat /\ x \notin S BY <1>3 DEF T
<1>7. x # 0 BY <1>6
<1>8. x - 1 \in Nat /\ x - 1 < x /\ (x - 1) + 1 = x BY <1>6, <1>7
<1>9. x - 1 \notin T  BY <1>3, <1>4, <1>5, <1>6, <1>8
<1> QED BY <1>6, <1>8, <1>9 DEF T

(* The loop of Assemble() over the parts, as a function of how many of     *)
(* them it has taken.                                                      *)
NoMessage == [open |-> <<>>, done |-> <<>>]
Turn(P, f, n) == IF n = 0 THEN NoMessage ELSE Ws!AddPart(f[n - 1], P[n])
Turns(P, n, f) == f = [k \in 0..n |-> Turn(P, f, k)]
Taken(P) == CHOOSE f : Turns(P, Len(P), f)

(* There is such a function for any parts, by induction on their number.   *)
LEMMA TakenExists ==
    ASSUME NEW P, Len(P) \in Nat
    PROVE  Turns(P, Len(P), Taken(P)) /\ Ws!Assemble(P) = Taken(P)[Len(P)]
<1> DEFINE S == {n \in Nat : \E f : Turns(P, n, f)}
<1>1. 0 \in S
  <2> DEFINE f == [k \in 0..0 |-> NoMessage]
  <2>1. f = [k \in 0..0 |-> Turn(P, f, k)]
    <3>1. \A k \in 0..0 : Turn(P, f, k) = NoMessage  BY DEF Turn
    <3> HIDE DEF f
    <3> QED  BY <3>1 DEF f
  <2> HIDE DEF f
  <2>2. Turns(P, 0, f)  BY <2>1 DEF Turns
  <2> QED  BY <2>2
<1>2. ASSUME NEW n \in Nat, n \in S PROVE n + 1 \in S
  <2>1. PICK f : Turns(P, n, f)  BY <1>2
  <2> DEFINE g == [k \in 0..(n + 1) |-> IF k = n + 1 THEN Turn(P, f, n + 1) ELSE f[k]]
  <2>2. \A k \in 0..n : f[k] = Turn(P, f, k)  BY <2>1 DEF Turns
  <2>3. ASSUME NEW k \in 0..(n + 1) PROVE g[k] = Turn(P, g, k)
    <3>1. k # 0 => k - 1 \in 0..(n + 1) /\ k - 1 # n + 1 /\ g[k - 1] = f[k - 1]  OBVIOUS
    <3>2. Turn(P, g, k) = Turn(P, f, k)
      <4> HIDE DEF g
      <4> QED  BY <3>1 DEF Turn
    <3>3. CASE k = n + 1
      <4>1. g[k] = Turn(P, f, k)  BY <3>3
      <4> QED  BY <3>2, <4>1
    <3>4. CASE k # n + 1
      <4>1. k \in 0..n /\ g[k] = f[k]  BY <3>4
      <4> QED  BY <2>2, <3>2, <4>1
    <3> QED  BY <3>3, <3>4
  <2>4. g = [k \in 0..(n + 1) |-> g[k]]  OBVIOUS
  <2> HIDE DEF g
  <2>5. Turns(P, n + 1, g)  BY <2>3, <2>4 DEF Turns
  <2> QED  BY <2>5
<1>3. Nat \subseteq S
  <2> HIDE DEF S
  <2> QED  BY <1>1, <1>2, SetInduction
<1>4. \E f : Turns(P, Len(P), f)  BY <1>3
<1>5. Turns(P, Len(P), Taken(P))  BY <1>4 DEF Taken
<1>6. Ws!Assemble(P) = Taken(P)[Len(P)]
  BY DEF Ws!Assemble, Taken, Turns, Turn, NoMessage
<1> QED  BY <1>5, <1>6

(* No part, no message; one part more is one AddPart() more.               *)
LEMMA AssembleEmpty == Ws!Assemble(<<>>) = NoMessage
<1>1. Len(<<>>) = 0 /\ 0 \in 0..0  OBVIOUS
<1>2. Turns(<<>>, 0, Taken(<<>>)) /\ Ws!Assemble(<<>>) = Taken(<<>>)[0]  BY <1>1, TakenExists
<1>3. Taken(<<>>)[0] = Turn(<<>>, Taken(<<>>), 0)  BY <1>1, <1>2 DEF Turns
<1> QED  BY <1>2, <1>3 DEF Turn

(* The parts taken first do not depend on those that follow.               *)
LEMMA AssembleAppend ==
    ASSUME NEW S, NEW P \in Seq(S), NEW p \in S
    PROVE  Ws!Assemble(Append(P, p)) = Ws!AddPart(Ws!Assemble(P), p)
<1> DEFINE Q == Append(P, p)
           f == Taken(P)
           g == Taken(Q)
<1>1. PICK l \in Nat : l = Len(P)  OBVIOUS
<1>2. Len(Q) = l + 1 /\ Q[l + 1] = p /\ \A k \in 1..l : Q[k] = P[k]  BY <1>1, AppendAt
<1> HIDE DEF Q
<1>3. Turns(P, l, f) /\ Ws!Assemble(P) = f[l]  BY <1>1, TakenExists
<1>4. Turns(Q, l + 1, g) /\ Ws!Assemble(Q) = g[l + 1]
  <2>1. Len(Q) \in Nat  BY <1>2
  <2> QED  BY <1>2, <2>1, TakenExists
<1> HIDE DEF f, g
<1>5. \A k \in 0..l : f[k] = Turn(P, f, k)  BY <1>3 DEF Turns
<1>6. \A k \in 0..(l + 1) : g[k] = Turn(Q, g, k)  BY <1>4 DEF Turns
<1> DEFINE U == {n \in Nat : n <= l => f[n] = g[n]}
<1>7. 0 \in U
  <2>1. 0 \in 0..l /\ 0 \in 0..(l + 1)  OBVIOUS
  <2>2. f[0] = NoMessage /\ g[0] = NoMessage  BY <1>5, <1>6, <2>1 DEF Turn
  <2> QED  BY <2>2
<1>8. ASSUME NEW n \in Nat, n \in U PROVE n + 1 \in U
  <2>1. SUFFICES ASSUME n + 1 <= l PROVE f[n + 1] = g[n + 1]  OBVIOUS
  <2>2. /\ n + 1 \in 0..l /\ n + 1 \in 0..(l + 1) /\ n + 1 # 0 /\ (n + 1) - 1 = n
        /\ n + 1 \in 1..l /\ f[n] = g[n]
    BY <1>8, <2>1
  <2>3. f[n + 1] = Ws!AddPart(f[n], P[n + 1]) /\ g[n + 1] = Ws!AddPart(g[n], Q[n + 1])
    BY <1>5, <1>6, <2>2 DEF Turn
  <2> QED  BY <1>2, <2>2, <2>3
<1>9. Nat \subseteq U
  <2> HIDE DEF U
  <2> QED  BY <1>7, <1>8, SetInduction
<1>10. f[l] = g[l]  BY <1>9
<1>11. l + 1 \in 0..(l + 1) /\ l + 1 # 0 /\ (l + 1) - 1 = l  OBVIOUS
<1>12. g[l + 1] = Ws!AddPart(g[l], Q[l + 1])  BY <1>6, <1>11 DEF Turn
<1> QED  BY <1>2, <1>3, <1>4, <1>10, <1>12 DEF Q

(* The same for lines and frames.                                          *)
LEMMA UnitsAppend ==
    ASSUME NEW S, NEW s \in Seq(S), NEW u \in S
    PROVE  Ws!OfUnits(Append(s, u)) = Ws!AddPart(Ws!OfUnits(s), Ws!UnitPart(u))
<1> DEFINE V == {Ws!UnitPart(x) : x \in S}
           P == [i \in 1..Len(s) |-> Ws!UnitPart(s[i])]
           t == Append(s, u)
           Q == [i \in 1..Len(t) |-> Ws!UnitPart(t[i])]
<1>1. PICK l \in Nat : l = Len(s)  OBVIOUS
<1>2. t \in Seq(S) /\ Len(t) = l + 1 /\ t[l + 1] = u /\ \A k \in 1..l : t[k] = s[k]  BY <1>1, AppendAt
<1> HIDE DEF t
<1>3. P \in [1..l -> V] /\ Q \in [1..(l + 1) -> V]  BY <1>1, <1>2
<1>4. \A k \in 1..l : P[k] = Ws!UnitPart(s[k]) /\ k \in 1..(l + 1)  BY <1>1
<1>5. \A k \in 1..(l + 1) : Q[k] = Ws!UnitPart(t[k])  BY <1>2
<1>6. Ws!OfUnits(s) = Ws!Assemble(P) /\ Ws!OfUnits(t) = Ws!Assemble(Q)  BY DEF Ws!OfUnits
<1> HIDE DEF P, Q
<1>7. P \in Seq(V) /\ Len(P) = l  BY <1>3, SeqOfFunction
<1>8. Q \in Seq(V) /\ Len(Q) = l + 1
  <2>1. l + 1 \in Nat  OBVIOUS
  <2> QED  BY <1>3, <2>1, SeqOfFunction
<1> DEFINE p == Ws!UnitPart(u)
<1>9. p \in V  OBVIOUS
<1> HIDE DEF V, p
<1>10. /\ Append(P, p) \in Seq(V) /\ Len(Append(P, p)) = l + 1 /\ Append(P, p)[l + 1] = p
       /\ \A k \in 1..l : Append(P, p)[k] = P[k]
  BY <1>7, <1>9, AppendAt
<1>11. \A k \in 1..(l + 1) : Append(P, p)[k] = Q[k]
  <2> TAKE k \in 1..(l + 1)
  <2>1. CASE k = l + 1  BY <1>2, <1>5, <1>10, <2>1 DEF p
  <2>2. CASE k # l + 1
    <3>1. k \in 1..l  BY <2>2
    <3> QED  BY <1>2, <1>4, <1>5, <1>10, <3>1
  <2> QED  BY <2>1, <2>2
<1>12. Append(P, p) = Q  BY <1>8, <1>10, <1>11, SeqsEqual
<1>13. Ws!Assemble(Append(P, p)) = Ws!AddPart(Ws!Assemble(P), p)  BY <1>7, <1>9, AssembleAppend
<1> QED  BY <1>6, <1>12, <1>13 DEF t, p

(* The same for calls.                                                    *)
LEMMA CallsAppend ==
    ASSUME NEW S, NEW s \in Seq(S), NEW u \in S
    PROVE  Ws!OfCalls(Append(s, u)) = Ws!AddPart(Ws!OfCalls(s), Ws!CallPart(u))
<1> DEFINE V == {Ws!CallPart(x) : x \in S}
           P == [i \in 1..Len(s) |-> Ws!CallPart(s[i])]
           t == Append(s, u)
           Q == [i \in 1..Len(t) |-> Ws!CallPart(t[i])]
<1>1. PICK l \in Nat : l = Len(s)  OBVIOUS
<1>2. t \in Seq(S) /\ Len(t) = l + 1 /\ t[l + 1] = u /\ \A k \in 1..l : t[k] = s[k]  BY <1>1, AppendAt
<1> HIDE DEF t
<1>3. P \in [1..l -> V] /\ Q \in [1..(l + 1) -> V]  BY <1>1, <1>2
<1>4. \A k \in 1..l : P[k] = Ws!CallPart(s[k]) /\ k \in 1..(l + 1)  BY <1>1
<1>5. \A k \in 1..(l + 1) : Q[k] = Ws!CallPart(t[k])  BY <1>2
<1>6. Ws!OfCalls(s) = Ws!Assemble(P) /\ Ws!OfCalls(t) = Ws!Assemble(Q)  BY DEF Ws!OfCalls
<1> HIDE DEF P, Q
<1>7. P \in Seq(V) /\ Len(P) = l  BY <1>3, SeqOfFunction
<1>8. Q \in Seq(V) /\ Len(Q) = l + 1
  <2>1. l + 1 \in Nat  OBVIOUS
  <2> QED  BY <1>3, <2>1, SeqOfFunction
<1> DEFINE p == Ws!CallPart(u)
<1>9. p \in V  OBVIOUS
<1> HIDE DEF V, p
<1>10. /\ Append(P, p) \in Seq(V) /\ Len(Append(P, p)) = l + 1 /\ Append(P, p)[l + 1] = p
       /\ \A k \in 1..l : Append(P, p)[k] = P[k]
  BY <1>7, <1>9, AppendAt
<1>11. \A k \in 1..(l + 1) : Append(P, p)[k] = Q[k]
  <2> TAKE k \in 1..(l + 1)
  <2>1. CASE k = l + 1  BY <1>2, <1>5, <1>10, <2>1 DEF p
  <2>2. CASE k # l + 1
    <3>1. k \in 1..l  BY <2>2
    <3> QED  BY <1>2, <1>4, <1>5, <1>10, <3>1
  <2> QED  BY <2>1, <2>2
<1>12. Append(P, p) = Q  BY <1>8, <1>10, <1>11, SeqsEqual
<1>13. Ws!Assemble(Append(P, p)) = Ws!AddPart(Ws!Assemble(P), p)  BY <1>7, <1>9, AssembleAppend
<1> QED  BY <1>6, <1>12, <1>13 DEF t, p

(* The same for events.                                                   *)
LEMMA EventsAppend ==
    ASSUME NEW S, NEW s \in Seq(S), NEW u \in S
    PROVE  Ws!OfEvents(Append(s, u)) = Ws!AddPart(Ws!OfEvents(s), Ws!EventPart(u))
<1> DEFINE V == {Ws!EventPart(x) : x \in S}
           P == [i \in 1..Len(s) |-> Ws!EventPart(s[i])]
           t == Append(s, u)
           Q == [i \in 1..Len(t) |-> Ws!EventPart(t[i])]
<1>1. PICK l \in Nat : l = Len(s)  OBVIOUS
<1>2. t \in Seq(S) /\ Len(t) = l + 1 /\ t[l + 1] = u /\ \A k \in 1..l : t[k] = s[k]  BY <1>1, AppendAt
<1> HIDE DEF t
<1>3. P \in [1..l -> V] /\ Q \in [1..(l + 1) -> V]  BY <1>1, <1>2
<1>4. \A k \in 1..l : P[k] = Ws!EventPart(s[k]) /\ k \in 1..(l + 1)  BY <1>1
<1>5. \A k \in 1..(l + 1) : Q[k] = Ws!EventPart(t[k])  BY <1>2
<1>6. Ws!OfEvents(s) = Ws!Assemble(P) /\ Ws!OfEvents(t) = Ws!Assemble(Q)  BY DEF Ws!OfEvents
<1> HIDE DEF P, Q
<1>7. P \in Seq(V) /\ Len(P) = l  BY <1>3, SeqOfFunction
<1>8. Q \in Seq(V) /\ Len(Q) = l + 1
  <2>1. l + 1 \in Nat  OBVIOUS
  <2> QED  BY <1>3, <2>1, SeqOfFunction
<1> DEFINE p == Ws!EventPart(u)
<1>9. p \in V  OBVIOUS
<1> HIDE DEF V, p
<1>10. /\ Append(P, p) \in Seq(V) /\ Len(Append(P, p)) = l + 1 /\ Append(P, p)[l + 1] = p
       /\ \A k \in 1..l : Append(P, p)[k] = P[k]
  BY <1>7, <1>9, AppendAt
<1>11. \A k \in 1..(l + 1) : Append(P, p)[k] = Q[k]
  <2> TAKE k \in 1..(l + 1)
  <2>1. CASE k = l + 1  BY <1>2, <1>5, <1>10, <2>1 DEF p
  <2>2. CASE k # l + 1
    <3>1. k \in 1..l  BY <2>2
    <3> QED  BY <1>2, <1>4, <1>5, <1>10, <3>1
  <2> QED  BY <2>1, <2>2
<1>12. Append(P, p) = Q  BY <1>8, <1>10, <1>11, SeqsEqual
<1>13. Ws!Assemble(Append(P, p)) = Ws!AddPart(Ws!Assemble(P), p)  BY <1>7, <1>9, AssembleAppend
<1> QED  BY <1>6, <1>12, <1>13 DEF t, p

(* Nothing yet, so no message yet.                                         *)
LEMMA NothingYet ==
    Ws!OfUnits(<<>>) = NoMessage /\ Ws!OfCalls(<<>>) = NoMessage /\ Ws!OfEvents(<<>>) = NoMessage
<1>1. Len(<<>>) = 0 /\ 1..0 = {}  OBVIOUS
<1>2. /\ [i \in 1..Len(<<>>) |-> Ws!UnitPart(<<>>[i])] = <<>>
      /\ [i \in 1..Len(<<>>) |-> Ws!CallPart(<<>>[i])] = <<>>
      /\ [i \in 1..Len(<<>>) |-> Ws!EventPart(<<>>[i])] = <<>>
  BY <1>1
<1> QED  BY <1>2, AssembleEmpty DEF Ws!OfUnits, Ws!OfCalls, Ws!OfEvents

(* What a client sends, and the messages made of it.                       *)
WsUnits == WsLine \cup WsFrame
Messages(P) == [open: Seq(P), done: Seq(Seq(P))]
PartOf(u, P) ==
    \/ Ws!UnitPart(u).of = "none"
    \/ /\ Ws!UnitPart(u).of \in {"data", "cont"} /\ Ws!UnitPart(u).final \in BOOLEAN
       /\ Ws!UnitPart(u).payload \in P
Ahead(a, b) == Len(a) <= Len(b) /\ \A i \in 1..Len(a) : a[i] = b[i]

(* The first n + 1 units are the first n and one more.                     *)
LEMMA FirstAppend ==
    ASSUME NEW S, NEW s \in Seq(S), NEW n \in Nat, n + 1 <= Len(s)
    PROVE  /\ SubSeq(s, 1, n) \in Seq(S) /\ s[n + 1] \in S
           /\ SubSeq(s, 1, n + 1) = Append(SubSeq(s, 1, n), s[n + 1])
<1>1. PICK l \in Nat : l = Len(s)  OBVIOUS
<1>2. /\ 0 \in Nat /\ 0 <= n /\ 0 <= n + 1 /\ n + 1 \in Nat /\ n <= l /\ n + 1 <= l /\ 0 + 1 = 1 /\ n - 0 = n
      /\ (n + 1) - 0 = n + 1 /\ \A k \in Nat : 0 + k = k
  BY <1>1
<1> DEFINE a == SubSeq(s, 1, n)
           b == SubSeq(s, 1, n + 1)
<1>3. a \in Seq(S) /\ Len(a) = n /\ \A k \in 1..n : a[k] = s[k]
  <2>1. /\ SubSeq(s, 0 + 1, n) \in Seq(S) /\ Len(SubSeq(s, 0 + 1, n)) = n - 0
        /\ \A k \in 1..(n - 0) : SubSeq(s, 0 + 1, n)[k] = s[0 + k]
    BY <1>1, <1>2, SubSeqAt
  <2> QED  BY <1>2, <2>1
<1>4. b \in Seq(S) /\ Len(b) = n + 1 /\ \A k \in 1..(n + 1) : b[k] = s[k]
  <2>1. /\ SubSeq(s, 0 + 1, n + 1) \in Seq(S) /\ Len(SubSeq(s, 0 + 1, n + 1)) = (n + 1) - 0
        /\ \A k \in 1..((n + 1) - 0) : SubSeq(s, 0 + 1, n + 1)[k] = s[0 + k]
    BY <1>1, <1>2, SubSeqAt
  <2> QED  BY <1>2, <2>1
<1>5. s[n + 1] \in S
  <2>1. n + 1 \in 1..Len(s)  OBVIOUS
  <2> QED  BY <2>1
<1> HIDE DEF a, b
<1> DEFINE c == Append(a, s[n + 1])
<1>6. c \in Seq(S) /\ Len(c) = n + 1 /\ c[n + 1] = s[n + 1] /\ \A k \in 1..n : c[k] = a[k]
  BY <1>3, <1>5, AppendAt
<1> HIDE DEF c
<1>7. \A k \in 1..(n + 1) : b[k] = c[k]
  <2> TAKE k \in 1..(n + 1)
  <2>1. CASE k = n + 1  BY <1>4, <1>6, <2>1
  <2>2. CASE k # n + 1
    <3>1. k \in 1..n  BY <2>2
    <3> QED  BY <1>3, <1>4, <1>6, <3>1
  <2> QED  BY <2>1, <2>2
<1>8. b = c  BY <1>4, <1>6, <1>7, SeqsEqual
<1> QED  BY <1>3, <1>5, <1>8 DEF a, b, c

(* One unit more leaves the messages that are done where they are.         *)
LEMMA AddPartGrows ==
    ASSUME NEW P, NEW acc \in Messages(P), NEW u, PartOf(u, P)
    PROVE  /\ Ws!AddPart(acc, Ws!UnitPart(u)) \in Messages(P)
           /\ Ahead(acc.done, Ws!AddPart(acc, Ws!UnitPart(u)).done)
<1> DEFINE p == Ws!UnitPart(u)
           new == Ws!AddPart(acc, p)
<1>1. PICK o, m : acc.open = o /\ acc.done = m /\ o \in Seq(P) /\ m \in Seq(Seq(P))
  BY DEF Messages
<1>2. CASE p.of = "none"
  <2>1. new = acc  BY <1>2 DEF Ws!AddPart
  <2> QED  BY <1>1, <2>1 DEF Ahead
<1>3. CASE p.of # "none"
  <2>1. p.of \in {"data", "cont"} /\ p.final \in BOOLEAN /\ p.payload \in P  BY <1>3 DEF PartOf
  <2>2. PICK e, x, b : e = p.of /\ x = p.payload /\ b = p.final /\ x \in P /\ e \in {"data", "cont"} /\ b \in BOOLEAN
    BY <2>1
  <2> DEFINE ps == IF e = "data" THEN <<x>> ELSE Append(o, x)
  <2>4. ps \in Seq(P)
    <3>1. <<x>> \in Seq(P) /\ Append(o, x) \in Seq(P)  BY <1>1, <2>2
    <3> QED  BY <3>1
  <2>5. /\ b = TRUE => new = [open |-> <<>>, done |-> Append(m, ps)]
        /\ b # TRUE => new = [open |-> ps, done |-> m]
    <3> HIDE DEF p
    <3> QED  BY <1>1, <2>2 DEF Ws!AddPart
  <2> HIDE DEF ps, new
  <2>6. CASE b = TRUE
    <3>1. /\ Append(m, ps) \in Seq(Seq(P)) /\ Len(m) \in Nat /\ Len(Append(m, ps)) = Len(m) + 1
          /\ \A i \in 1..Len(m) : Append(m, ps)[i] = m[i]
      BY <1>1, <2>4, AppendAt
    <3>2. <<>> \in Seq(P)  OBVIOUS
    <3>3. new = [open |-> <<>>, done |-> Append(m, ps)]  BY <2>5, <2>6
    <3>4. PICK d : d = Append(m, ps)  OBVIOUS
    <3>5. new.done = d /\ new \in Messages(P)  BY <3>1, <3>2, <3>3, <3>4 DEF Messages
    <3>6. Ahead(m, d)  BY <3>1, <3>4 DEF Ahead
    <3> QED  BY <1>1, <3>5, <3>6 DEF new
  <2>7. CASE b # TRUE
    <3>1. new.done = m /\ new \in Messages(P)  BY <1>1, <2>4, <2>5, <2>7 DEF Messages
    <3>2. Ahead(m, m)  BY <1>1 DEF Ahead
    <3> QED  BY <1>1, <3>1, <3>2 DEF new
  <2> QED  BY <2>6, <2>7
<1> QED  BY <1>2, <1>3

(* By induction: the messages of the first units are a prefix of those of  *)
(* all.                                                                    *)
LEMMA UnitsGrow ==
    ASSUME NEW P, NEW S, \A u \in S : PartOf(u, P), NEW s \in Seq(S), NEW m \in Nat, m <= Len(s)
    PROVE  Ws!IsPrefix(Ws!OfUnits(SubSeq(s, 1, m)).done, Ws!OfUnits(s).done)
<1> DEFINE A(n) == Ws!OfUnits(SubSeq(s, 1, n))
           T == {n \in Nat : n <= Len(s) => A(n) \in Messages(P)}
           G == {n \in Nat : m <= n /\ n <= Len(s) => Ahead(A(m).done, A(n).done)}
<1>0. PICK l \in Nat : l = Len(s)  OBVIOUS
<1>1. A(0) = NoMessage
  <2>1. SubSeq(s, 1, 0) = <<>>  OBVIOUS
  <2> QED  BY <2>1, NothingYet
<1>2. ASSUME NEW n \in Nat, n + 1 <= l
      PROVE  s[n + 1] \in S /\ A(n + 1) = Ws!AddPart(A(n), Ws!UnitPart(s[n + 1]))
  <2>1. /\ SubSeq(s, 1, n) \in Seq(S) /\ s[n + 1] \in S
        /\ SubSeq(s, 1, n + 1) = Append(SubSeq(s, 1, n), s[n + 1])
    BY <1>0, <1>2, FirstAppend
  <2> QED  BY <2>1, UnitsAppend
<1> HIDE DEF A
<1>3. 0 \in T
  <2>1. <<>> \in Seq(P) /\ <<>> \in Seq(Seq(P))  OBVIOUS
  <2>2. NoMessage \in Messages(P)  BY <2>1 DEF NoMessage, Messages
  <2> QED  BY <1>1, <2>2
<1>4. ASSUME NEW n \in Nat, n \in T PROVE n + 1 \in T
  <2>1. SUFFICES ASSUME n + 1 <= l PROVE A(n + 1) \in Messages(P)  BY <1>0
  <2>2. A(n) \in Messages(P)  BY <1>0, <1>4, <2>1
  <2> QED  BY <1>2, <2>1, <2>2, AddPartGrows
<1>5. Nat \subseteq T
  <2> HIDE DEF T
  <2> QED  BY <1>3, <1>4, SetInduction
<1>6. \A n \in Nat : n <= l => A(n) \in Messages(P) /\ A(n).done \in Seq(Seq(P)) /\ Len(A(n).done) \in Nat
  <2> TAKE n \in Nat
  <2> HAVE n <= l
  <2>1. A(n) \in Messages(P)  BY <1>0, <1>5
  <2>2. A(n).done \in Seq(Seq(P))  BY <2>1 DEF Messages
  <2> QED  BY <2>1, <2>2
<1>7. 0 \in G
  <2>1. SUFFICES ASSUME m <= 0 PROVE Ahead(A(m).done, A(0).done)  OBVIOUS
  <2>2. m = 0 /\ 0 <= l  BY <2>1
  <2> QED  BY <1>6, <2>2 DEF Ahead
<1>8. ASSUME NEW n \in Nat, n \in G PROVE n + 1 \in G
  <2>1. SUFFICES ASSUME m <= n + 1, n + 1 <= l PROVE Ahead(A(m).done, A(n + 1).done)  BY <1>0
  <2>2. CASE m = n + 1  BY <1>6, <2>1, <2>2 DEF Ahead
  <2>3. CASE m # n + 1
    <3>1. m <= n /\ n <= l  BY <2>1, <2>3
    <3>2. Ahead(A(m).done, A(n).done)  BY <1>0, <1>8, <3>1
    <3>3. Ahead(A(n).done, A(n + 1).done)  BY <1>2, <1>6, <2>1, <3>1, AddPartGrows
    <3>4. PICK x, y, z \in Nat : x = Len(A(m).done) /\ y = Len(A(n).done) /\ z = Len(A(n + 1).done)
      <4>1. m <= l /\ n + 1 \in Nat  BY <2>1, <3>1
      <4> QED  BY <1>6, <2>1, <3>1, <4>1
    <3>5. x <= y /\ y <= z /\ \A i \in 1..x : i \in 1..y  BY <3>2, <3>3, <3>4 DEF Ahead
    <3> QED  BY <3>2, <3>3, <3>4, <3>5 DEF Ahead
  <2> QED  BY <2>2, <2>3
<1>9. Nat \subseteq G
  <2> HIDE DEF G
  <2> QED  BY <1>7, <1>8, SetInduction
<1>10. l \in G /\ m <= l  BY <1>0, <1>9
<1>11. Ahead(A(m).done, A(l).done)  BY <1>0, <1>10
<1>12. A(l) = Ws!OfUnits(s)  BY <1>0, SubSeqAll DEF A
<1> DEFINE a == A(m).done
           b == A(l).done
<1>13. a \in Seq(Seq(P)) /\ b \in Seq(Seq(P))  BY <1>6, <1>10
<1> HIDE DEF a, b
<1>14. PICK n \in Nat : n = Len(a)  BY <1>13
<1>15. n <= Len(b) /\ \A i \in 1..n : a[i] = b[i]  BY <1>11, <1>14 DEF Ahead, a, b
<1>16. SubSeq(a, 1, n) = SubSeq(b, 1, n)
  <2>1. SubSeq(a, 1, n) = a  BY <1>13, <1>14, SubSeqAll
  <2>2. 0 \in Nat /\ 0 <= n /\ 0 + 1 = 1 /\ n - 0 = n /\ \A k \in Nat : 0 + k = k  OBVIOUS
  <2>3. /\ SubSeq(b, 0 + 1, n) \in Seq(Seq(P)) /\ Len(SubSeq(b, 0 + 1, n)) = n - 0
        /\ \A k \in 1..(n - 0) : SubSeq(b, 0 + 1, n)[k] = b[0 + k]
    BY <1>13, <1>15, <2>2, SubSeqAt
  <2>4. /\ SubSeq(b, 1, n) \in Seq(Seq(P)) /\ Len(SubSeq(b, 1, n)) = n
        /\ \A k \in 1..n : SubSeq(b, 1, n)[k] = b[k]
    BY <2>2, <2>3
  <2>5. SubSeq(b, 1, n) = a  BY <1>13, <1>14, <1>15, <2>4, SeqsEqual
  <2> QED  BY <2>1, <2>5
<1>17. Ws!IsPrefix(a, b)  BY <1>14, <1>15, <1>16 DEF Ws!IsPrefix
<1> QED  BY <1>12, <1>17 DEF a, b, A

(* Of what has arrived, d units have been handled, and the others are in   *)
(* the input buffer.                                                       *)
Place(got, raw, d) ==
    d \in Nat /\ Len(got) = d + Len(raw) /\ \A k \in 1..Len(raw) : raw[k] = got[d + k]

(* The next unit is handled.                                               *)
LEMMA PlaceNext ==
    ASSUME NEW got \in Seq(WsUnits), NEW raw \in Seq(WsUnits), NEW d, Place(got, raw, d), raw # <<>>
    PROVE  /\ d + 1 \in 1..Len(got) /\ Head(raw) = got[d + 1] /\ Head(raw) \in WsUnits
           /\ Tail(raw) \in Seq(WsUnits) /\ Place(got, Tail(raw), d + 1)
           /\ Ws!OfUnits(SubSeq(got, 1, d + 1))
                = Ws!AddPart(Ws!OfUnits(SubSeq(got, 1, d)), Ws!UnitPart(Head(raw)))
<1>1. PICK l, r \in Nat : l = Len(got) /\ r = Len(raw) /\ r # 0 /\ d \in Nat /\ l = d + r
  <2>1. Len(raw) \in Nat /\ Len(raw) # 0 /\ Len(got) \in Nat  OBVIOUS
  <2> QED  BY <2>1 DEF Place
<1>2. \A k \in 1..r : raw[k] = got[d + k]  BY <1>1 DEF Place
<1>3. /\ Head(raw) \in WsUnits /\ Head(raw) = raw[1] /\ Tail(raw) \in Seq(WsUnits)
      /\ Len(Tail(raw)) = r - 1 /\ \A i \in 1..(r - 1) : Tail(raw)[i] = raw[i + 1]
  <2>1. /\ Head(raw) \in WsUnits /\ Head(raw) = raw[1] /\ Tail(raw) \in Seq(WsUnits)
        /\ Len(Tail(raw)) = Len(raw) - 1
        /\ \A i \in 1..Len(Tail(raw)) : Tail(raw)[i] = raw[i + 1]
    BY TailAt
  <2> QED  BY <1>1, <2>1
<1>4. 1 \in 1..r /\ d + 1 <= l /\ d + 1 \in 1..l  BY <1>1
<1>5. Head(raw) = got[d + 1]  BY <1>2, <1>3, <1>4
<1>6. Place(got, Tail(raw), d + 1)
  <2>1. d + 1 \in Nat /\ l = (d + 1) + (r - 1)  BY <1>1
  <2>2. ASSUME NEW i \in 1..(r - 1) PROVE Tail(raw)[i] = got[(d + 1) + i]
    <3>1. i + 1 \in 1..r /\ (d + 1) + i = d + (i + 1)  BY <1>1
    <3> QED  BY <1>2, <1>3, <3>1
  <2> QED  BY <1>1, <1>3, <2>1, <2>2 DEF Place
<1>7. /\ SubSeq(got, 1, d) \in Seq(WsUnits) /\ got[d + 1] \in WsUnits
      /\ SubSeq(got, 1, d + 1) = Append(SubSeq(got, 1, d), got[d + 1])
  BY <1>1, <1>4, FirstAppend
<1>8. Ws!OfUnits(SubSeq(got, 1, d + 1))
        = Ws!AddPart(Ws!OfUnits(SubSeq(got, 1, d)), Ws!UnitPart(got[d + 1]))
  BY <1>7, UnitsAppend
<1> QED  BY <1>1, <1>3, <1>4, <1>5, <1>6, <1>8

(* More units arrive.                                                      *)
PlaceKept(got, raw, x, d) ==
    Place(got \o x, raw \o x, d) /\ SubSeq(got \o x, 1, d) = SubSeq(got, 1, d)

(* They change nothing about those handled.                                *)
LEMMA PlaceMore ==
    ASSUME NEW got \in Seq(WsUnits), NEW raw \in Seq(WsUnits), NEW x \in Seq(WsUnits), NEW d,
           Place(got, raw, d)
    PROVE  PlaceKept(got, raw, x, d)
<1>1. PICK l, r, n \in Nat : l = Len(got) /\ r = Len(raw) /\ n = Len(x) /\ d \in Nat /\ l = d + r
  <2>1. Len(raw) \in Nat /\ Len(x) \in Nat /\ Len(got) \in Nat  OBVIOUS
  <2> QED  BY <2>1 DEF Place
<1>2. \A k \in 1..r : raw[k] = got[d + k]  BY <1>1 DEF Place
<1> DEFINE gx == got \o x
           rx == raw \o x
<1>3. /\ gx \in Seq(WsUnits) /\ Len(gx) = l + n /\ \A k \in 1..l : gx[k] = got[k]
      /\ \A k \in 1..n : gx[l + k] = x[k]
  <2>1. Joined(WsUnits, gx, got, x)  BY ConcatAt
  <2> QED  BY <1>1, <2>1 DEF Joined
<1>4. /\ rx \in Seq(WsUnits) /\ Len(rx) = r + n /\ \A k \in 1..r : rx[k] = raw[k]
      /\ \A k \in 1..n : rx[r + k] = x[k]
  <2>1. Joined(WsUnits, rx, raw, x)  BY ConcatAt
  <2> QED  BY <1>1, <2>1 DEF Joined
<1> HIDE DEF gx, rx
<1>5. ASSUME NEW k \in 1..(r + n) PROVE rx[k] = gx[d + k]
  <2>1. CASE k <= r
    <3>1. k \in 1..r /\ d + k \in 1..l  BY <1>1, <2>1
    <3> QED  BY <1>2, <1>3, <1>4, <3>1
  <2>2. CASE ~(k <= r)
    <3>0. k - r \in 1..n  BY <2>2
    <3>1. PICK j \in 1..n : j = k - r  BY <3>0
    <3>2. r + j = k /\ l + j = d + k  BY <1>1, <3>1
    <3> QED  BY <1>3, <1>4, <3>1, <3>2
  <2> QED  BY <2>1, <2>2
<1>6. Place(gx, rx, d)
  <2>1. l + n = d + (r + n)  BY <1>1
  <2> QED  BY <1>1, <1>3, <1>4, <1>5, <2>1 DEF Place
<1>7. SubSeq(gx, 1, d) = SubSeq(got, 1, d)
  <2>1. 0 \in Nat /\ 0 <= d /\ 0 + 1 = 1 /\ d - 0 = d /\ d <= l /\ d <= l + n /\ \A k \in Nat : 0 + k = k
    BY <1>1
  <2>2. /\ SubSeq(gx, 0 + 1, d) \in Seq(WsUnits) /\ Len(SubSeq(gx, 0 + 1, d)) = d - 0
        /\ \A k \in 1..(d - 0) : SubSeq(gx, 0 + 1, d)[k] = gx[0 + k]
    BY <1>1, <1>3, <2>1, SubSeqAt
  <2>3. /\ SubSeq(got, 0 + 1, d) \in Seq(WsUnits) /\ Len(SubSeq(got, 0 + 1, d)) = d - 0
        /\ \A k \in 1..(d - 0) : SubSeq(got, 0 + 1, d)[k] = got[0 + k]
    <3>1. d \in Nat /\ d <= Len(got)  BY <1>1, <2>1
    <3> QED  BY <2>1, <3>1, SubSeqAt
  <2> DEFINE a == SubSeq(gx, 1, d)
             b == SubSeq(got, 1, d)
  <2>4. a \in Seq(WsUnits) /\ Len(a) = d /\ \A k \in 1..d : a[k] = gx[k]  BY <2>1, <2>2
  <2>5. b \in Seq(WsUnits) /\ Len(b) = d /\ \A k \in 1..d : b[k] = got[k]  BY <2>1, <2>3
  <2> HIDE DEF a, b
  <2>6. \A k \in 1..d : k \in 1..l  BY <1>1
  <2>7. \A k \in 1..d : a[k] = b[k]  BY <1>3, <2>4, <2>5, <2>6
  <2>8. a = b  BY <2>4, <2>5, <2>7, SeqsEqual
  <2> QED  BY <2>8 DEF a, b
<1> QED  BY <1>6, <1>7 DEF PlaceKept, gx, rx

(* A connection that receives.  The stream never changes: its first n      *)
(* units are lines.                                                        *)
WsEvents == {<<"open">>, <<"close">>, <<"error">>} \cup {<<"message", m>> : m \in Seq(Nat)}
WsTypes ==
    /\ ws_got \in Seq(WsUnits) /\ ws_in \in Seq(WsUnits) /\ raw_buf \in Seq(WsUnits)
    /\ handling \in BOOLEAN /\ ws_state \in {"Handshake", "HandshakeError", "Establish"}
    /\ read_request_line \in BOOLEAN /\ rcvfragment \in BOOLEAN /\ decoded_buffer \in Seq(Nat)
    /\ ws_events \in Seq(WsEvents)

(* Lines are handled in the handshake and frames after it.  What onmessage *)
(* got are the messages of the units handled, and decoded_buffer has what  *)
(* is there of the next one.                                               *)
Received(d, n) ==
    /\ Place(ws_got, raw_buf, d) /\ n \in Nat /\ n > 1 /\ Shaped(ws_got \o ws_in, n)
    /\ ws_state = "Handshake" => d < n /\ (read_request_line = TRUE => d = 0)
    /\ ws_state = "Establish" => d >= n
    /\ Ws!OfEvents(ws_events).done = Ws!OfUnits(SubSeq(ws_got, 1, d)).done
    /\ Ws!OfUnits(SubSeq(ws_got, 1, d)).open = IF rcvfragment = TRUE THEN decoded_buffer ELSE <<>>
AllHandled == handling = FALSE /\ ws_conn = "open" => raw_buf = <<>>
RecvInv == WsTypes /\ AllHandled /\ \E d, n : Received(d, n)

(* An event that is no message changes nothing; a message is added.        *)
LEMMA EventAdded ==
    ASSUME WsTypes, NEW e \in WsEvents
    PROVE  /\ Append(ws_events, e) \in Seq(WsEvents)
           /\ e[1] # "message" => Ws!OfEvents(Append(ws_events, e)) = Ws!OfEvents(ws_events)
           /\ \A m : e = <<"message", m>> =>
                 Ws!OfEvents(Append(ws_events, e)).done = Append(Ws!OfEvents(ws_events).done, m)
<1>1. ws_events \in Seq(WsEvents)  BY DEF WsTypes
<1>2. Append(ws_events, e) \in Seq(WsEvents)  BY <1>1, AppendAt
<1> DEFINE a == Ws!OfEvents(ws_events)
           p == Ws!EventPart(e)
<1>3. Ws!OfEvents(Append(ws_events, e)) = Ws!AddPart(a, p)  BY <1>1, EventsAppend
<1> HIDE DEF a
<1>4. ASSUME e[1] # "message" PROVE Ws!AddPart(a, p) = a
  <2>1. p.of = "none"  BY <1>4 DEF Ws!EventPart
  <2> QED  BY <2>1 DEF Ws!AddPart
<1>5. ASSUME NEW m, e = <<"message", m>> PROVE Ws!AddPart(a, p).done = Append(a.done, m)
  <2>1. p = [of |-> "whole", payload |-> m]  BY <1>5 DEF Ws!EventPart
  <2>2. p.of = "whole" /\ p.payload = m  BY <2>1
  <2> HIDE DEF p
  <2> QED  BY <2>2 DEF Ws!AddPart
<1> QED  BY <1>2, <1>3, <1>4, <1>5 DEF a

(* Before the client has sent anything.                                    *)
LEMMA RecvInit == Ws!Init => RecvInv
<1> SUFFICES ASSUME Ws!Init PROVE RecvInv
  OBVIOUS
<1>1. /\ ws_in \in WsStreams /\ ws_got = <<>> /\ raw_buf = <<>> /\ handling = FALSE
      /\ ws_state = "Handshake" /\ read_request_line = TRUE /\ rcvfragment = FALSE
      /\ decoded_buffer = <<>> /\ ws_events = <<>>
  BY DEF Ws!Init
<1>2. ws_in \in Seq(WsUnits) /\ \E n \in 2..Len(ws_in) : Shaped(ws_in, n)
  BY <1>1, WsPartAssumption DEF WsUnits
<1>3. PICK n \in 2..Len(ws_in) : Shaped(ws_in, n)  BY <1>2
<1>4. n \in Nat /\ n > 1 /\ 0 < n  BY <1>2
<1>5. <<>> \in Seq(WsUnits) /\ <<>> \in Seq(Nat) /\ <<>> \in Seq(WsEvents) /\ Len(<<>>) = 0  OBVIOUS
<1>6. WsTypes  BY <1>1, <1>2, <1>5 DEF WsTypes
<1>7. AllHandled  BY <1>1 DEF AllHandled
<1>8. <<>> \o ws_in = ws_in /\ SubSeq(<<>>, 1, 0) = <<>>
  <2>1. <<>> \o ws_in = ws_in  BY <1>2
  <2>2. SubSeq(<<>>, 1, 0) = <<>>  OBVIOUS
  <2> QED  BY <2>1, <2>2
<1>9. Place(<<>>, <<>>, 0)  BY <1>5 DEF Place
<1>10. Received(0, n)
  <2>1. Place(ws_got, raw_buf, 0) /\ Shaped(ws_got \o ws_in, n)  BY <1>1, <1>3, <1>8, <1>9
  <2>2. Ws!OfEvents(ws_events) = NoMessage /\ Ws!OfUnits(SubSeq(ws_got, 1, 0)) = NoMessage
    BY <1>1, <1>8, NothingYet
  <2>3. NoMessage.open = <<>>  BY DEF NoMessage
  <2> QED  BY <1>1, <1>4, <2>1, <2>2, <2>3 DEF Received
<1> QED  BY <1>6, <1>7, <1>10 DEF RecvInv

(* Units arrive, cut anywhere.                                             *)
LEMMA RecvRead ==
    ASSUME RecvInv, NEW m \in 0..Len(ws_in), NEW h, Ws!Read(m, h)
    PROVE  RecvInv'
<1>0. WsTypes /\ AllHandled  BY DEF RecvInv
<1>1. PICK d, n : Received(d, n)  BY DEF RecvInv
<1> DEFINE x == SubSeq(ws_in, 1, m)
           z == SubSeq(ws_in, m + 1, Len(ws_in))
<1>2. /\ raw_buf' = raw_buf \o x /\ ws_got' = ws_got \o x /\ ws_in' = z /\ handling' = TRUE
      /\ UNCHANGED <<ws_state, read_request_line, rcvfragment, decoded_buffer, ws_conn, ws_events>>
  BY DEF Ws!Read, Ws!shake_vars, Ws!decode_vars
<1>3. ws_in \in Seq(WsUnits) /\ ws_got \in Seq(WsUnits) /\ raw_buf \in Seq(WsUnits) /\ Len(ws_in) \in Nat
      /\ m \in Nat /\ m <= Len(ws_in)
  BY <1>0 DEF WsTypes
<1>4. x \in Seq(WsUnits) /\ z \in Seq(WsUnits)
  <2>1. 0 \in Nat /\ 0 <= m /\ 0 + 1 = 1  BY <1>3
  <2>2. SubSeq(ws_in, 0 + 1, m) \in Seq(WsUnits)  BY <1>3, <2>1, SubSeqAt
  <2>3. z \in Seq(WsUnits)
    <3>1. Len(ws_in) <= Len(ws_in)  BY <1>3
    <3> QED  BY <1>3, <3>1, SubSeqAt
  <2> QED  BY <2>1, <2>2, <2>3
<1>5. (ws_got \o x) \o z = ws_got \o ws_in  BY <1>3, ConcatParts
<1> HIDE DEF x, z
<1>6. Place(ws_got, raw_buf, d)  BY <1>1 DEF Received
<1>7. Place(ws_got \o x, raw_buf \o x, d) /\ SubSeq(ws_got \o x, 1, d) = SubSeq(ws_got, 1, d)
  <2>1. PlaceKept(ws_got, raw_buf, x, d)  BY <1>3, <1>4, <1>6, PlaceMore
  <2> QED  BY <2>1 DEF PlaceKept
<1>8. ws_got \o x \in Seq(WsUnits) /\ raw_buf \o x \in Seq(WsUnits)
  <2>1. Joined(WsUnits, ws_got \o x, ws_got, x) /\ Joined(WsUnits, raw_buf \o x, raw_buf, x)
    BY <1>3, <1>4, ConcatAt
  <2> QED  BY <2>1 DEF Joined
<1>9. WsTypes'  BY <1>0, <1>2, <1>4, <1>8 DEF WsTypes
<1>10. AllHandled'  BY <1>2 DEF AllHandled
<1>11. Received(d, n)'  BY <1>1, <1>2, <1>5, <1>7 DEF Received
<1> QED  BY <1>9, <1>10, <1>11 DEF RecvInv

(* What is at the front of the buffer, by its place in the stream.         *)
LEMMA FrontShaped ==
    ASSUME WsTypes, NEW d, NEW n, Received(d, n), raw_buf # <<>>
    PROVE  /\ d < n => Head(raw_buf) \in WsLine /\ (Head(raw_buf).what = "crlf" <=> d + 1 = n)
           /\ d >= n => /\ Head(raw_buf) \in WsFrame
                        /\ Head(raw_buf).opcode \in {"ping", "pong", "close"} => Head(raw_buf).fin = TRUE
<1>1. ws_got \in Seq(WsUnits) /\ ws_in \in Seq(WsUnits) /\ raw_buf \in Seq(WsUnits)  BY DEF WsTypes
<1>2. Place(ws_got, raw_buf, d) /\ n \in Nat /\ Shaped(ws_got \o ws_in, n)  BY DEF Received
<1>3. d + 1 \in 1..Len(ws_got) /\ Head(raw_buf) = ws_got[d + 1] /\ d \in Nat
  BY <1>1, <1>2, PlaceNext DEF Place
<1> DEFINE s == ws_got \o ws_in
<1>4. s[d + 1] = ws_got[d + 1] /\ d + 1 \in 1..Len(s)
  <2>1. Joined(WsUnits, s, ws_got, ws_in)  BY <1>1, ConcatAt
  <2>2. Len(ws_got) \in Nat /\ Len(ws_in) \in Nat /\ Len(s) = Len(ws_got) + Len(ws_in)
    BY <2>1 DEF Joined
  <2> QED  BY <1>3, <2>1, <2>2 DEF Joined
<1> HIDE DEF s
<1>5. /\ d + 1 <= n => Head(raw_buf) \in WsLine /\ (Head(raw_buf).what = "crlf") = (d + 1 = n)
      /\ d + 1 > n => /\ Head(raw_buf) \in WsFrame
                      /\ Head(raw_buf).opcode \in {"ping", "pong", "close"} => Head(raw_buf).fin
  BY <1>2, <1>3, <1>4 DEF Shaped, s
<1>6. /\ d < n => d + 1 <= n
      /\ d >= n => d + 1 > n
  BY <1>2, <1>3
<1>7. d >= n /\ Head(raw_buf).opcode \in {"ping", "pong", "close"} => Head(raw_buf).fin = TRUE
  BY <1>5, <1>6 DEF WsFrame
<1> QED  BY <1>5, <1>6, <1>7

(* One line of the handshake.                                              *)
LEMMA RecvLine ==
    ASSUME RecvInv, Ws!HandshakeLine
    PROVE  RecvInv'
<1>0. WsTypes /\ AllHandled  BY DEF RecvInv
<1>1. PICK d, n : Received(d, n)  BY DEF RecvInv
<1> DEFINE u == Head(raw_buf)
           bad == \/ (read_request_line \/ u.what = "required") /\ ~u.ok
                  \/ ~read_request_line /\ u.what = "crlf" /\ required_request_headers # 0
           done == ~read_request_line /\ u.what = "crlf" /\ required_request_headers = 0
<1>2. /\ handling /\ ws_state = "Handshake" /\ raw_buf # <<>> /\ read_request_line' = FALSE
      /\ raw_buf' = IF bad /\ u.what # "crlf" THEN raw_buf ELSE Tail(raw_buf)
      /\ \/ bad /\ ws_state' = "HandshakeError" /\ Ws!CloseWith(<<"error">>)
         \/ done /\ ws_state' = "Establish" /\ ws_events' = Append(ws_events, <<"open">>)
                 /\ UNCHANGED <<handling, ws_conn>>
         \/ ~bad /\ ~done /\ UNCHANGED <<ws_state, handling, ws_conn, ws_events>>
      /\ UNCHANGED <<ws_in, ws_got, rcvfragment, decoded_buffer>>
  BY DEF Ws!HandshakeLine, Ws!net_vars, Ws!decode_vars
<1>3. /\ ws_got \in Seq(WsUnits) /\ raw_buf \in Seq(WsUnits) /\ Place(ws_got, raw_buf, d)
      /\ n \in Nat /\ n > 1 /\ d < n /\ d \in Nat /\ (read_request_line = TRUE => d = 0)
  BY <1>0, <1>1, <1>2 DEF WsTypes, Received, Place
<1>4. u \in WsLine /\ (u.what = "crlf" <=> d + 1 = n)  BY <1>0, <1>1, <1>2, <1>3, FrontShaped
<1>5. /\ Tail(raw_buf) \in Seq(WsUnits) /\ Place(ws_got, Tail(raw_buf), d + 1)
      /\ Ws!OfUnits(SubSeq(ws_got, 1, d + 1)) = Ws!OfUnits(SubSeq(ws_got, 1, d))
  <2>1. /\ Tail(raw_buf) \in Seq(WsUnits) /\ Place(ws_got, Tail(raw_buf), d + 1)
        /\ Ws!OfUnits(SubSeq(ws_got, 1, d + 1))
             = Ws!AddPart(Ws!OfUnits(SubSeq(ws_got, 1, d)), Ws!UnitPart(u))
    BY <1>2, <1>3, PlaceNext
  <2>2. Ws!UnitPart(u).of = "none"  BY <1>4 DEF WsLine, Ws!UnitPart, Ws!IsLine
  <2> QED  BY <2>1, <2>2 DEF Ws!AddPart
<1>6. u.what = "crlf" => bad \/ done
  <2>1. ASSUME u.what = "crlf" PROVE read_request_line # TRUE
    <3>1. d + 1 = n  BY <1>4, <2>1
    <3>2. d # 0  BY <1>3, <3>1
    <3> QED  BY <1>3, <3>2
  <2> QED  BY <1>0, <2>1 DEF WsTypes
<1>7. <<"error">> \in WsEvents /\ <<"open">> \in WsEvents /\ <<"error">>[1] # "message" /\ <<"open">>[1] # "message"
  BY DEF WsEvents
<1>8. /\ ws_events' \in Seq(WsEvents) /\ Ws!OfEvents(ws_events') = Ws!OfEvents(ws_events)
      /\ ws_state' \in {"Handshake", "HandshakeError", "Establish"} /\ handling' \in BOOLEAN
  <2> HIDE DEF bad, done
  <2>1. ws_events' \in {ws_events, Append(ws_events, <<"error">>), Append(ws_events, <<"open">>)}
    BY <1>2 DEF Ws!CloseWith
  <2>2. ws_events' \in Seq(WsEvents) /\ Ws!OfEvents(ws_events') = Ws!OfEvents(ws_events)
    <3>1. /\ Append(ws_events, <<"error">>) \in Seq(WsEvents)
          /\ Ws!OfEvents(Append(ws_events, <<"error">>)) = Ws!OfEvents(ws_events)
      BY <1>0, <1>7, EventAdded
    <3>2. /\ Append(ws_events, <<"open">>) \in Seq(WsEvents)
          /\ Ws!OfEvents(Append(ws_events, <<"open">>)) = Ws!OfEvents(ws_events)
      BY <1>0, <1>7, EventAdded
    <3>3. ws_events \in Seq(WsEvents)  BY <1>0 DEF WsTypes
    <3> QED  BY <2>1, <3>1, <3>2, <3>3
  <2>3. ws_state' \in {"Handshake", "HandshakeError", "Establish"} /\ handling' \in BOOLEAN
    BY <1>0, <1>2 DEF WsTypes, Ws!CloseWith
  <2> QED  BY <2>2, <2>3
<1>9. WsTypes'
  <2> HIDE DEF bad, done
  <2>1. raw_buf' \in Seq(WsUnits)  BY <1>2, <1>3, <1>5
  <2> QED  BY <1>0, <1>2, <1>8, <2>1 DEF WsTypes
<1>10. AllHandled'
  <2> HIDE DEF bad, done
  <2> QED  BY <1>0, <1>2 DEF AllHandled, Ws!CloseWith, WsTypes
<1>11. ws_got' \o ws_in' = ws_got \o ws_in  BY <1>2
<1>12. CASE raw_buf' = raw_buf /\ bad /\ u.what # "crlf"
  <2> HIDE DEF bad, done
  <2>1. ws_state' = "HandshakeError"
    <3>1. ~(u.what = "crlf")  BY <1>12
    <3> QED  BY <1>2, <1>12, <3>1 DEF done
  <2>2. Received(d, n)'  BY <1>1, <1>2, <1>8, <1>11, <1>12, <2>1 DEF Received
  <2> QED  BY <1>9, <1>10, <2>2 DEF RecvInv
<1>13. CASE raw_buf' = Tail(raw_buf) /\ ~(bad /\ u.what # "crlf")
  <2>1. d + 1 = n \/ d + 1 < n  BY <1>3
  <2>2. ws_state' = "Handshake" => d + 1 < n
    <3>1. ASSUME ws_state' = "Handshake" PROVE ~bad /\ ~done
      <4> HIDE DEF bad, done
      <4> QED  BY <1>2, <3>1
    <3>2. ASSUME ws_state' = "Handshake" PROVE d + 1 # n  BY <1>4, <1>6, <3>1, <3>2
    <3> QED  BY <2>1, <3>2
  <2>3. ws_state' = "Establish" => d + 1 >= n
    <3>1. ASSUME ws_state' = "Establish" PROVE done
      <4> HIDE DEF bad, done
      <4> QED  BY <1>2, <3>1
    <3>2. ASSUME ws_state' = "Establish" PROVE d + 1 = n  BY <1>4, <3>1, <3>2
    <3> QED  BY <1>3, <3>2
  <2>4. read_request_line' = FALSE  BY <1>2
  <2>5. ws_got' = ws_got /\ rcvfragment' = rcvfragment /\ decoded_buffer' = decoded_buffer  BY <1>2
  <2> HIDE DEF bad, done
  <2>6. Received(d + 1, n)'
    BY <1>1, <1>3, <1>5, <1>8, <1>11, <1>13, <2>2, <2>3, <2>4, <2>5 DEF Received
  <2> QED  BY <1>9, <1>10, <2>6 DEF RecvInv
<1>14. (raw_buf' = raw_buf /\ bad /\ u.what # "crlf") \/ (raw_buf' = Tail(raw_buf) /\ ~(bad /\ u.what # "crlf"))
  <2> HIDE DEF bad, done
  <2> QED  BY <1>2
<1> QED  BY <1>12, <1>13, <1>14

(* A frame is decoded.                                                     *)
LEMMA RecvDecode ==
    ASSUME RecvInv, Ws!Decode
    PROVE  RecvInv'
<1>0. WsTypes /\ AllHandled  BY DEF RecvInv
<1>1. PICK d, n : Received(d, n)  BY DEF RecvInv
<1> DEFINE f == Head(raw_buf)
           before == IF rcvfragment THEN decoded_buffer ELSE <<>>
           now == Append(before, f.payload)
<1>2. /\ handling /\ ws_state = "Establish" /\ raw_buf # <<>>
      /\ ~Ws!Refused(f)
      /\ decoded_buffer' = now /\ raw_buf' = Tail(raw_buf) /\ rcvfragment' = ~f.fin
      /\ \/ f.opcode = "close" /\ Ws!CloseWith(<<"close">>)
         \/ f.opcode \in {"ping", "pong"} /\ UNCHANGED <<handling, ws_conn, ws_events>>
         \/ /\ f.opcode \in {"data", "cont"} /\ UNCHANGED <<handling, ws_conn>>
            /\ ws_events' = IF f.fin THEN Append(ws_events, <<"message", now>>) ELSE ws_events
      /\ UNCHANGED <<ws_in, ws_got, ws_state, read_request_line>>
  BY DEF Ws!Decode, Ws!net_vars, Ws!shake_vars
<1>3. /\ ws_got \in Seq(WsUnits) /\ raw_buf \in Seq(WsUnits) /\ Place(ws_got, raw_buf, d)
      /\ n \in Nat /\ d >= n /\ d \in Nat
  BY <1>0, <1>1, <1>2 DEF WsTypes, Received, Place
<1>4. f \in WsFrame /\ (f.opcode \in {"ping", "pong", "close"} => f.fin = TRUE)
  BY <1>0, <1>1, <1>2, <1>3, FrontShaped
<1>5. PICK x \in Nat, o \in {"data", "cont", "ping", "pong", "close"}, fin \in BOOLEAN :
          x = f.payload /\ o = f.opcode /\ fin = f.fin /\ f.type = "frame"
  BY <1>4 DEF WsFrame
<1> DEFINE acc == Ws!OfUnits(SubSeq(ws_got, 1, d))
           new == Ws!OfUnits(SubSeq(ws_got, 1, d + 1))
<1>6. /\ Tail(raw_buf) \in Seq(WsUnits) /\ Place(ws_got, Tail(raw_buf), d + 1)
      /\ new = Ws!AddPart(acc, Ws!UnitPart(f))
  BY <1>2, <1>3, PlaceNext
<1>7. acc.open = before /\ Ws!OfEvents(ws_events).done = acc.done
  <2>1. acc.open = IF rcvfragment = TRUE THEN decoded_buffer ELSE <<>>  BY <1>1 DEF Received
  <2>2. Ws!OfEvents(ws_events).done = acc.done  BY <1>1 DEF Received
  <2> QED  BY <1>0, <2>1, <2>2 DEF WsTypes
<1>8. before \in Seq(Nat) /\ now \in Seq(Nat)
  <2>1. decoded_buffer \in Seq(Nat) /\ <<>> \in Seq(Nat)  BY <1>0 DEF WsTypes
  <2>2. before \in Seq(Nat)  BY <2>1
  <2> HIDE DEF before
  <2> QED  BY <1>5, <2>2, AppendAt
<1>9. (o # "cont" => before = <<>>) /\ (o = "data" => now = <<x>>)
  <2>1. o # "cont" => ~rcvfragment  BY <1>2, <1>5 DEF Ws!Refused, Ws!check_fragmentation
  <2>2. o # "cont" => before = <<>>  BY <2>1
  <2>3. Append(<<>>, x) = <<x>>  BY <1>5
  <2>4. now = Append(before, x)  BY <1>5
  <2> HIDE DEF before, now
  <2> QED  BY <2>2, <2>3, <2>4
<1> HIDE DEF f, acc, new
<1>10. /\ o \in {"ping", "pong", "close"} => new = acc
       /\ o \in {"data", "cont"} /\ fin = TRUE => new = [open |-> <<>>, done |-> Append(acc.done, now)]
       /\ o \in {"data", "cont"} /\ fin = FALSE => new = [open |-> now, done |-> acc.done]
  <2> DEFINE p == Ws!UnitPart(f)
  <2>1. ASSUME o \in {"ping", "pong", "close"} PROVE new = acc
    <3>1. p.of = "none"  BY <1>5, <2>1 DEF Ws!UnitPart, Ws!IsLine
    <3> QED  BY <1>6, <3>1 DEF Ws!AddPart
  <2>2. ASSUME o \in {"data", "cont"}
        PROVE  new = IF fin THEN [open |-> <<>>, done |-> Append(acc.done, now)]
                     ELSE [open |-> now, done |-> acc.done]
    <3>1. p = [of |-> o, final |-> fin, payload |-> x]  BY <1>5, <2>2 DEF Ws!UnitPart, Ws!IsLine
    <3>2. p.of = o /\ p.final = fin /\ p.payload = x  BY <3>1
    <3>3. now = Append(acc.open, x)  BY <1>5, <1>7
    <3>4. now = IF p.of = "data" THEN <<p.payload>> ELSE Append(acc.open, p.payload)
      <4> HIDE DEF p, now
      <4> QED  BY <1>9, <3>2, <3>3
    <3> HIDE DEF p, now
    <3> QED  BY <1>6, <2>2, <3>2, <3>4 DEF Ws!AddPart, p
  <2> QED  BY <2>1, <2>2
<1>11. ws_events' \in Seq(WsEvents) /\ Ws!OfEvents(ws_events').done = new.done
  <2> HIDE DEF now, before
  <2>1. CASE o = "close"
    <3>1. ws_events' = Append(ws_events, <<"close">>)  BY <1>2, <1>5, <2>1 DEF Ws!CloseWith
    <3>2. <<"close">> \in WsEvents /\ <<"close">>[1] # "message"  BY DEF WsEvents
    <3>3. ws_events' \in Seq(WsEvents) /\ Ws!OfEvents(ws_events') = Ws!OfEvents(ws_events)
      BY <1>0, <3>1, <3>2, EventAdded
    <3> QED  BY <1>7, <1>10, <2>1, <3>3
  <2>2. CASE o \in {"ping", "pong"}
    <3>1. ws_events' = ws_events  BY <1>2, <1>5, <2>2
    <3> QED  BY <1>0, <1>7, <1>10, <2>2, <3>1 DEF WsTypes
  <2>3. CASE o \in {"data", "cont"} /\ fin = FALSE
    <3>1. ws_events' = ws_events  BY <1>2, <1>5, <2>3
    <3> QED  BY <1>0, <1>7, <1>10, <2>3, <3>1 DEF WsTypes
  <2>4. CASE o \in {"data", "cont"} /\ fin = TRUE
    <3>1. ws_events' = Append(ws_events, <<"message", now>>)  BY <1>2, <1>5, <2>4
    <3>2. <<"message", now>> \in WsEvents  BY <1>8 DEF WsEvents
    <3>3. /\ Append(ws_events, <<"message", now>>) \in Seq(WsEvents)
          /\ Ws!OfEvents(Append(ws_events, <<"message", now>>)).done
               = Append(Ws!OfEvents(ws_events).done, now)
      BY <1>0, <3>2, EventAdded
    <3>4. new.done = Append(acc.done, now)  BY <1>10, <2>4
    <3> QED  BY <1>7, <3>1, <3>3, <3>4
  <2> QED  BY <1>5, <2>1, <2>2, <2>3, <2>4
<1>12. rcvfragment' \in BOOLEAN /\ (rcvfragment' = TRUE <=> fin = FALSE)  BY <1>2, <1>5
<1>13. new.open = IF rcvfragment' = TRUE THEN decoded_buffer' ELSE <<>>
  <2>0. decoded_buffer' = now  BY <1>2
  <2> HIDE DEF now, before
  <2>1. CASE o \in {"ping", "pong", "close"}
    <3>1. fin = TRUE  BY <1>4, <1>5, <2>1
    <3> QED  BY <1>7, <1>9, <1>10, <1>12, <2>1, <3>1
  <2>2. CASE o \in {"data", "cont"}  BY <1>10, <1>12, <2>0, <2>2
  <2> QED  BY <1>5, <2>1, <2>2
<1>14. WsTypes'
  <2> HIDE DEF before, now
  <2>1. handling' \in BOOLEAN  BY <1>0, <1>2 DEF WsTypes, Ws!CloseWith
  <2> QED  BY <1>0, <1>2, <1>6, <1>8, <1>11, <1>12, <2>1 DEF WsTypes
<1>15. AllHandled'
  <2> HIDE DEF before, now
  <2> QED  BY <1>0, <1>2 DEF AllHandled, Ws!CloseWith, WsTypes
<1>16. Received(d + 1, n)'
  <2> HIDE DEF before, now
  <2>1. Shaped(ws_got \o ws_in, n) /\ n > 1  BY <1>1 DEF Received
  <2>2. ws_state' # "Handshake" /\ d + 1 >= n  BY <1>2, <1>3
  <2> QED  BY <1>2, <1>3, <1>6, <1>11, <1>13, <2>1, <2>2 DEF Received, new
<1> QED  BY <1>14, <1>15, <1>16 DEF RecvInv

(* A frame is refused, message_handler() returns, the connection closes,   *)
(* or the user sends.                                                      *)
LEMMA RecvRest ==
    ASSUME RecvInv, \/ \E f \in Ws!ToSet(ws_in) \cup Ws!ToSet(raw_buf) : Ws!DecodeError(f)
                    \/ Ws!Return \/ Ws!Flushed \/ Ws!UserCall \/ UNCHANGED Ws!websocket_vars
    PROVE  RecvInv'
<1>0. WsTypes /\ AllHandled  BY DEF RecvInv
<1>1. PICK d, n : Received(d, n)  BY DEF RecvInv
<1>2. /\ UNCHANGED <<ws_in, ws_got, raw_buf, ws_state, read_request_line, rcvfragment, decoded_buffer>>
      /\ ws_events' = ws_events \/ ws_events' = Append(ws_events, <<"error">>)
      /\ handling' = handling \/ handling' = FALSE
      /\ \/ handling' = handling /\ ws_conn' = ws_conn
         \/ ws_conn' # "open" \/ (ws_conn' = ws_conn /\ raw_buf = <<>>)
  BY DEF Ws!DecodeError, Ws!Return, Ws!Flushed, Ws!UserCall, Ws!websocket_vars, Ws!net_vars,
         Ws!shake_vars, Ws!decode_vars, Ws!snd_vars, Ws!CloseWith
<1>3. <<"error">> \in WsEvents /\ <<"error">>[1] # "message"  BY DEF WsEvents
<1>4. ws_events' \in Seq(WsEvents) /\ Ws!OfEvents(ws_events') = Ws!OfEvents(ws_events)
  <2>1. /\ Append(ws_events, <<"error">>) \in Seq(WsEvents)
        /\ Ws!OfEvents(Append(ws_events, <<"error">>)) = Ws!OfEvents(ws_events)
    BY <1>0, <1>3, EventAdded
  <2>2. ws_events \in Seq(WsEvents)  BY <1>0 DEF WsTypes
  <2> QED  BY <1>2, <2>1, <2>2
<1>5. WsTypes'  BY <1>0, <1>2, <1>4 DEF WsTypes
<1>6. AllHandled'  BY <1>0, <1>2 DEF AllHandled, WsTypes
<1>7. Received(d, n)'  BY <1>1, <1>2, <1>4 DEF Received
<1> QED  BY <1>5, <1>6, <1>7 DEF RecvInv

(* What the user sends: the frames the connection has got, and those that  *)
(* are encoded and not sent yet.                                           *)
SentFrame == [type: {"frame"}, fin: BOOLEAN, opcode: {"data", "cont"}, payload: [id: Nat, size: Nat]]
Encoded == ws_out \o encoded_buffer
Ended(F) == F = <<>> \/ F[Len(F)].fin = TRUE
Accepted(F) ==
    \A i \in 1..Len(F) : Ws!check_fragmentation(i > 1 /\ ~F[i - 1].fin, F[i].fin, F[i].opcode)
SndTypes ==
    /\ ws_calls \in Seq(WsCall) /\ ws_made \in Seq(WsCall) /\ ws_out \in Seq(SentFrame)
    /\ encoded_buffer \in Seq(SentFrame) /\ sndfragment \in {"First", "Middle"}

(* The frames encoded make up what the user sent, the finished messages of *)
(* it have left, and sndfragment tells whether the last one is finished.   *)
SndInv ==
    /\ SndTypes /\ Ordered(ws_calls) /\ Accepted(Encoded)
    /\ ws_calls # <<>> /\ ws_calls[1].kind = "send" => sndfragment = "First"
    /\ Ws!OfUnits(Encoded) = Ws!OfCalls(ws_made)
    /\ Ws!OfUnits(ws_out).done = Ws!OfCalls(ws_made).done
    /\ sndfragment = "First" <=> Ended(Encoded)
    /\ sndfragment = "First" => Ws!OfCalls(ws_made).open = <<>>

(* One frame more at the end.                                              *)
LEMMA EncodedMore ==
    ASSUME NEW S, NEW o \in Seq(S), NEW e \in Seq(S), NEW f \in S
    PROVE  /\ o \o e \in Seq(S) /\ Append(e, f) \in Seq(S)
           /\ o \o Append(e, f) = Append(o \o e, f) /\ o \o <<>> = o
<1>1. PICK l, n \in Nat : l = Len(o) /\ n = Len(e)  OBVIOUS
<1> DEFINE b == Append(e, f)
           a == o \o e
           x == o \o b
           y == Append(a, f)
<1>2. b \in Seq(S) /\ Len(b) = n + 1 /\ b[n + 1] = f /\ \A k \in 1..n : b[k] = e[k]  BY <1>1, AppendAt
<1> HIDE DEF b
<1>3. /\ a \in Seq(S) /\ Len(a) = l + n /\ \A k \in 1..l : a[k] = o[k]
      /\ \A k \in 1..n : a[l + k] = e[k]
  <2>1. Joined(S, a, o, e)  BY ConcatAt
  <2> QED  BY <1>1, <2>1 DEF Joined
<1>4. /\ x \in Seq(S) /\ Len(x) = l + (n + 1) /\ \A k \in 1..l : x[k] = o[k]
      /\ \A k \in 1..(n + 1) : x[l + k] = b[k]
  <2>1. Joined(S, x, o, b)  BY <1>2, ConcatAt
  <2> QED  BY <1>1, <1>2, <2>1 DEF Joined
<1> HIDE DEF a, x
<1>5. /\ y \in Seq(S) /\ Len(y) = (l + n) + 1 /\ y[(l + n) + 1] = f
      /\ \A k \in 1..(l + n) : y[k] = a[k]
  BY <1>3, AppendAt
<1> HIDE DEF y
<1>6. l + (n + 1) = (l + n) + 1  OBVIOUS
<1>7. ASSUME NEW k \in 1..((l + n) + 1) PROVE x[k] = y[k]
  <2>1. CASE k <= l
    <3>1. k \in 1..l /\ k \in 1..(l + n)  BY <2>1
    <3> QED  BY <1>3, <1>4, <1>5, <3>1
  <2>2. CASE ~(k <= l) /\ k # (l + n) + 1
    <3>1. k - l \in 1..n /\ k \in 1..(l + n)  BY <2>2
    <3>2. PICK j \in 1..n : j = k - l  BY <3>1
    <3>3. l + j = k /\ j \in 1..(n + 1)  BY <3>2
    <3>4. x[l + j] = b[j] /\ b[j] = e[j] /\ a[l + j] = e[j]  BY <1>2, <1>3, <1>4, <3>3
    <3>5. y[k] = a[k]  BY <1>5, <3>1
    <3> QED  BY <3>3, <3>4, <3>5
  <2>3. CASE k = (l + n) + 1
    <3>1. n + 1 \in 1..(n + 1) /\ k = l + (n + 1)  BY <2>3
    <3> QED  BY <1>2, <1>4, <1>5, <2>3, <3>1
  <2> QED  BY <2>1, <2>2, <2>3
<1>8. x = y  BY <1>4, <1>5, <1>6, <1>7, SeqsEqual
<1>9. o \o <<>> = o  OBVIOUS
<1> QED  BY <1>2, <1>3, <1>8, <1>9 DEF a, b, x, y

(* A frame says of a message what the call says that it was made for.      *)
LEMMA FrameOfCall ==
    ASSUME NEW acc, NEW c \in WsCall, NEW f \in SentFrame, f.payload = c.payload,
           f.fin = (c.kind # "fragment"), c.kind = "send" => f.opcode = "data",
           f.opcode = "data" /\ c.kind # "send" => acc.open = <<>>
    PROVE  /\ Ws!AddPart(acc, Ws!UnitPart(f)) = Ws!AddPart(acc, Ws!CallPart(c))
           /\ c.kind # "fragment" => Ws!AddPart(acc, Ws!CallPart(c)).open = <<>>
           /\ c.kind = "fragment" => Ws!AddPart(acc, Ws!CallPart(c)).done = acc.done
<1> DEFINE p == Ws!UnitPart(f)
           q == Ws!CallPart(c)
<1>1. PICK x, g, b : x = c.payload /\ g = f.opcode /\ b = f.fin /\ g \in {"data", "cont"} /\ b \in BOOLEAN
  BY DEF SentFrame
<1>2. p.of = g /\ p.final = b /\ p.payload = x
  BY <1>1 DEF Ws!UnitPart, Ws!IsLine, SentFrame
<1>3. /\ q.of = (IF c.kind = "send" THEN "data" ELSE "cont") /\ q.payload = x
      /\ q.final = (c.kind # "fragment")
  BY <1>1 DEF Ws!CallPart
<1>4. (b = TRUE <=> c.kind # "fragment") /\ q.final \in BOOLEAN /\ (q.final = TRUE <=> c.kind # "fragment")
  BY <1>1, <1>3
<1> HIDE DEF p, q
<1>5. p.final = q.final
  <2>1. p.final \in BOOLEAN /\ (p.final = TRUE <=> q.final = TRUE)  BY <1>1, <1>2, <1>4
  <2>2. q.final = TRUE \/ q.final = FALSE  BY <1>4
  <2>3. p.final = TRUE \/ p.final = FALSE  BY <2>1
  <2> QED  BY <2>1, <2>2, <2>3, Zenon
<1> DEFINE ps == IF p.of = "data" THEN <<p.payload>> ELSE Append(acc.open, p.payload)
           qs == IF q.of = "data" THEN <<q.payload>> ELSE Append(acc.open, q.payload)
<1>6. ps = qs
  <2>1. Append(<<>>, x) = <<x>>  OBVIOUS
  <2>2. CASE c.kind = "send"  BY <1>1, <1>2, <1>3, <2>2
  <2>3. CASE c.kind # "send" /\ g = "data"
    <3>1. acc.open = <<>>  BY <1>1, <2>3
    <3> QED  BY <1>2, <1>3, <2>1, <2>3, <3>1
  <2>4. CASE c.kind # "send" /\ g = "cont"  BY <1>2, <1>3, <2>4
  <2> QED  BY <1>1, <2>2, <2>3, <2>4
<1>7. /\ Ws!AddPart(acc, p) = IF p.final THEN [open |-> <<>>, done |-> Append(acc.done, ps)]
                              ELSE [open |-> ps, done |-> acc.done]
      /\ Ws!AddPart(acc, q) = IF q.final THEN [open |-> <<>>, done |-> Append(acc.done, qs)]
                              ELSE [open |-> qs, done |-> acc.done]
  <2>1. p.of # "none" /\ p.of # "whole" /\ q.of # "none" /\ q.of # "whole"  BY <1>1, <1>2, <1>3
  <2> QED  BY <2>1 DEF Ws!AddPart
<1> HIDE DEF ps, qs
<1>8. Ws!AddPart(acc, p) = Ws!AddPart(acc, q)  BY <1>5, <1>6, <1>7
<1>9. c.kind # "fragment" => Ws!AddPart(acc, q).open = <<>>  BY <1>4, <1>7
<1>10. c.kind = "fragment" => Ws!AddPart(acc, q).done = acc.done  BY <1>4, <1>7
<1> QED  BY <1>8, <1>9, <1>10 DEF p, q

(* A frame that fits the last one is accepted after it.                    *)
LEMMA AcceptedMore ==
    ASSUME NEW F \in Seq(SentFrame), Accepted(F), NEW f \in SentFrame,
           Ended(F) => (f.fin = FALSE => f.opcode # "cont"), ~Ended(F) => f.opcode = "cont"
    PROVE  /\ Accepted(Append(F, f)) /\ Append(F, f) \in Seq(SentFrame)
           /\ Ended(Append(F, f)) <=> f.fin = TRUE
<1>1. PICK l \in Nat : l = Len(F)  OBVIOUS
<1> DEFINE G == Append(F, f)
<1>2. G \in Seq(SentFrame) /\ Len(G) = l + 1 /\ G[l + 1] = f /\ \A k \in 1..l : G[k] = F[k]
  BY <1>1, AppendAt
<1> HIDE DEF G
<1>3. G # <<>>  BY <1>2
<1>4. Ended(G) <=> f.fin = TRUE  BY <1>2, <1>3 DEF Ended
<1>5. ASSUME NEW i \in 1..(l + 1)
      PROVE  Ws!check_fragmentation(i > 1 /\ ~G[i - 1].fin, G[i].fin, G[i].opcode)
  <2>1. CASE i # l + 1
    <3>1. i \in 1..l /\ (i > 1 => i - 1 \in 1..l)  BY <2>1
    <3>2. G[i] = F[i] /\ (i > 1 => G[i - 1] = F[i - 1])  BY <1>2, <3>1
    <3>3. Ws!check_fragmentation(i > 1 /\ ~F[i - 1].fin, F[i].fin, F[i].opcode)
      BY <1>1, <3>1 DEF Accepted
    <3> QED  BY <3>2, <3>3 DEF Ws!check_fragmentation
  <2>2. CASE i = l + 1
    <3>1. G[i] = f /\ f.fin \in BOOLEAN  BY <1>2, <2>2 DEF SentFrame
    <3>2. CASE l = 0
      <4>1. Len(F) = 0 /\ i = 1  BY <1>1, <2>2, <3>2
      <4>2. F = <<>>  BY <4>1
      <4>3. ~(i > 1) /\ Ended(F)  BY <4>1, <4>2 DEF Ended
      <4> QED  BY <3>1, <4>3 DEF Ws!check_fragmentation
    <3>3. CASE l # 0
      <4>1. i > 1 /\ i - 1 = l /\ l \in 1..l  BY <2>2, <3>3
      <4>2. G[i - 1] = F[l] /\ F[l] \in SentFrame  BY <1>1, <1>2, <4>1
      <4>3. F[l].fin \in BOOLEAN  BY <4>2 DEF SentFrame
      <4>4. F # <<>>  BY <1>1, <3>3
      <4>5. Ended(F) <=> F[l].fin = TRUE  BY <1>1, <4>4 DEF Ended
      <4> QED  BY <3>1, <4>1, <4>2, <4>3, <4>5 DEF Ws!check_fragmentation
    <3> QED  BY <3>2, <3>3
  <2> QED  BY <2>1, <2>2
<1>6. Accepted(G)  BY <1>2, <1>5 DEF Accepted
<1> QED  BY <1>2, <1>4, <1>6 DEF G

(* Before the user has called anything.                                    *)
LEMMA SndInit == Ws!Init => SndInv
<1> SUFFICES ASSUME Ws!Init PROVE SndInv
  OBVIOUS
<1>1. /\ ws_calls \in WsCalls /\ ws_made = <<>> /\ sndfragment = "First"
      /\ encoded_buffer = <<>> /\ ws_out = <<>>
  BY DEF Ws!Init
<1>2. ws_calls \in Seq(WsCall) /\ Ordered(ws_calls)  BY <1>1, WsPartAssumption
<1>3. <<>> \in Seq(WsCall) /\ <<>> \in Seq(SentFrame) /\ Len(<<>>) = 0 /\ <<>> \o <<>> = <<>>  OBVIOUS
<1>4. SndTypes  BY <1>1, <1>2, <1>3 DEF SndTypes
<1>5. Encoded = <<>>  BY <1>1, <1>3 DEF Encoded
<1>6. Accepted(<<>>) /\ Ended(<<>>)  BY <1>3 DEF Accepted, Ended
<1>7. NoMessage.open = <<>>  BY DEF NoMessage
<1> QED  BY <1>1, <1>2, <1>4, <1>5, <1>6, <1>7, NothingYet DEF SndInv

(* What send(), send_file() and send_fragment() do: the frame they encode, *)
(* and that it and those before it are sent, or all kept.                  *)
SentAs(c, f) ==
    /\ f \in SentFrame /\ f.payload = c.payload /\ f.fin = (c.kind # "fragment")
    /\ f.opcode = IF c.kind = "send" \/ (c.kind = "fragment" /\ sndfragment = "First") THEN "data" ELSE "cont"
    /\ sndfragment' = IF c.kind = "fragment" THEN "Middle" ELSE "First"
    /\ \/ ws_out' = ws_out \o Append(encoded_buffer, f) /\ encoded_buffer' = <<>>
       \/ c.kind = "fragment" /\ ws_out' = ws_out /\ encoded_buffer' = Append(encoded_buffer, f)

(* Each call encodes one frame.                                            *)
LEMMA CallEncodes ==
    ASSUME SndInv, Ws!UserCall
    PROVE  \E f : SentAs(Head(ws_calls), f)
<1> DEFINE c == Head(ws_calls)
<1>1. /\ ws_calls # <<>>
      /\ \/ c.kind = "send" /\ Ws!Send(c.payload)
         \/ c.kind = "fragment" /\ Ws!SendFragment(c.payload, FALSE)
         \/ c.kind = "final" /\ Ws!SendFragment(c.payload, TRUE)
  BY DEF Ws!UserCall
<1>2. c \in WsCall /\ c = ws_calls[1] /\ SndTypes
  <2>1. ws_calls \in Seq(WsCall) /\ SndTypes  BY DEF SndInv, SndTypes
  <2> QED  BY <1>1, <2>1, TailAt
<1>3. PICK p \in [id: Nat, size: Nat] : p = c.payload  BY <1>2 DEF WsCall
<1>4. CASE c.kind = "send"
  <2> DEFINE f == Ws!Frame(TRUE, "data", p)
  <2>1. /\ ws_out' = ws_out \o Append(encoded_buffer, f) /\ encoded_buffer' = <<>>
        /\ sndfragment' = sndfragment
    BY <1>1, <1>3, <1>4 DEF Ws!Send
  <2>2. f \in SentFrame /\ f.payload = p /\ f.fin = TRUE /\ f.opcode = "data"
    BY <1>3 DEF Ws!Frame, SentFrame
  <2>3. sndfragment = "First"  BY <1>1, <1>2, <1>4 DEF SndInv
  <2> HIDE DEF f, c
  <2>4. SentAs(c, f)  BY <1>3, <1>4, <2>1, <2>2, <2>3 DEF SentAs
  <2> QED  BY <2>4 DEF c
<1>5. CASE c.kind = "final"
  <2> DEFINE f == Ws!Frame(TRUE, "cont", p)
  <2>1. /\ ws_out' = ws_out \o Append(encoded_buffer, f) /\ encoded_buffer' = <<>>
        /\ sndfragment' = "First"
    <3>1. Ws!SendFragment(p, TRUE)  BY <1>1, <1>3, <1>5
    <3> QED  BY <3>1 DEF Ws!SendFragment
  <2>2. f \in SentFrame /\ f.payload = p /\ f.fin = TRUE /\ f.opcode = "cont"
    BY <1>3 DEF Ws!Frame, SentFrame
  <2> HIDE DEF f, c
  <2>3. SentAs(c, f)  BY <1>3, <1>5, <2>1, <2>2 DEF SentAs
  <2> QED  BY <2>3 DEF c
<1>6. CASE c.kind = "fragment"
  <2> DEFINE g == IF sndfragment = "First" THEN "data" ELSE "cont"
             f == Ws!Frame(FALSE, g, p)
  <2>1. /\ \/ ws_out' = ws_out \o Append(encoded_buffer, f) /\ encoded_buffer' = <<>>
           \/ ws_out' = ws_out /\ encoded_buffer' = Append(encoded_buffer, f)
        /\ sndfragment' = "Middle"
    <3>1. Ws!SendFragment(p, FALSE)  BY <1>1, <1>3, <1>6
    <3> DEFINE flush == p.size >= BufferedSize \/ Ws!Total(Append(encoded_buffer, f)) >= BufferedSize
    <3>2. /\ sndfragment' = "Middle"
          /\ ws_out' = IF flush THEN ws_out \o Append(encoded_buffer, f) ELSE ws_out
          /\ encoded_buffer' = IF flush THEN <<>> ELSE Append(encoded_buffer, f)
      BY <3>1 DEF Ws!SendFragment
    <3> HIDE DEF flush, f
    <3> QED  BY <3>2
  <2>2. f \in SentFrame /\ f.payload = p /\ f.fin = FALSE /\ f.opcode = g
    BY <1>3 DEF Ws!Frame, SentFrame
  <2> HIDE DEF f, c
  <2>3. SentAs(c, f)  BY <1>3, <1>6, <2>1, <2>2 DEF SentAs
  <2> QED  BY <2>3 DEF c
<1> QED  BY <1>1, <1>4, <1>5, <1>6

(* The user makes a call.                                                  *)
LEMMA SndCall ==
    ASSUME SndInv, Ws!UserCall
    PROVE  SndInv'
<1> DEFINE c == Head(ws_calls)
           F == Encoded
           acc == Ws!OfCalls(ws_made)
           new == Ws!OfCalls(Append(ws_made, c))
<1>1. ws_calls # <<>> /\ ws_calls' = Tail(ws_calls) /\ ws_made' = Append(ws_made, c)  BY DEF Ws!UserCall
<1>2. PICK f : SentAs(c, f)  BY CallEncodes
<1>3. /\ ws_calls \in Seq(WsCall) /\ ws_made \in Seq(WsCall) /\ ws_out \in Seq(SentFrame)
      /\ encoded_buffer \in Seq(SentFrame) /\ sndfragment \in {"First", "Middle"}
  BY DEF SndInv, SndTypes
<1>4. PICK l \in Nat : l = Len(ws_calls) /\ l # 0  BY <1>1, <1>3
<1>5. /\ c \in WsCall /\ c = ws_calls[1] /\ Tail(ws_calls) \in Seq(WsCall)
      /\ Len(Tail(ws_calls)) = l - 1 /\ \A i \in 1..(l - 1) : Tail(ws_calls)[i] = ws_calls[i + 1]
  <2>1. /\ c \in WsCall /\ c = ws_calls[1] /\ Tail(ws_calls) \in Seq(WsCall)
        /\ Len(Tail(ws_calls)) = Len(ws_calls) - 1
        /\ \A i \in 1..Len(Tail(ws_calls)) : Tail(ws_calls)[i] = ws_calls[i + 1]
    BY <1>1, <1>3, TailAt
  <2> QED  BY <1>4, <2>1
<1> HIDE DEF c
<1>6. /\ f \in SentFrame /\ f.payload = c.payload /\ f.fin = (c.kind # "fragment") /\ f.fin \in BOOLEAN
      /\ f.opcode = IF c.kind = "send" \/ (c.kind = "fragment" /\ sndfragment = "First") THEN "data" ELSE "cont"
      /\ sndfragment' = IF c.kind = "fragment" THEN "Middle" ELSE "First"
  BY <1>2 DEF SentAs
<1>7. f.fin = TRUE <=> c.kind # "fragment"  BY <1>6
<1>8. /\ F \in Seq(SentFrame) /\ Append(encoded_buffer, f) \in Seq(SentFrame)
      /\ ws_out \o Append(encoded_buffer, f) = Append(F, f) /\ ws_out \o <<>> = ws_out
  BY <1>3, <1>6, EncodedMore DEF Encoded
<1>9. /\ Accepted(F) /\ Ws!OfUnits(F) = acc /\ Ws!OfUnits(ws_out).done = acc.done
      /\ sndfragment = "First" <=> Ended(F)
      /\ sndfragment = "First" => acc.open = <<>>
      /\ c.kind = "send" => sndfragment = "First"
      /\ Ordered(ws_calls)
  BY <1>1, <1>5 DEF SndInv
<1> HIDE DEF F
<1>10. /\ Accepted(Append(F, f)) /\ Append(F, f) \in Seq(SentFrame)
       /\ Ended(Append(F, f)) <=> f.fin = TRUE
  <2>1. Ended(F) => (f.fin = FALSE => f.opcode # "cont")  BY <1>6, <1>7, <1>9
  <2>2. ~Ended(F) => f.opcode = "cont"  BY <1>6, <1>9
  <2> QED  BY <1>6, <1>8, <1>9, <2>1, <2>2, AcceptedMore
<1>11. /\ new = Ws!AddPart(acc, Ws!CallPart(c))
       /\ Ws!OfUnits(Append(F, f)) = Ws!AddPart(acc, Ws!UnitPart(f))
  <2>1. new = Ws!AddPart(acc, Ws!CallPart(c))  BY <1>3, <1>5, CallsAppend
  <2>2. Ws!OfUnits(Append(F, f)) = Ws!AddPart(Ws!OfUnits(F), Ws!UnitPart(f))  BY <1>6, <1>8, UnitsAppend
  <2> QED  BY <1>9, <2>1, <2>2
<1> HIDE DEF acc, new
<1>12. /\ Ws!OfUnits(Append(F, f)) = new
       /\ c.kind # "fragment" => new.open = <<>>
       /\ c.kind = "fragment" => new.done = acc.done
  <2>1. c.kind = "send" => f.opcode = "data"  BY <1>6
  <2>2. f.opcode = "data" /\ c.kind # "send" => acc.open = <<>>  BY <1>6, <1>9
  <2>3. /\ Ws!AddPart(acc, Ws!UnitPart(f)) = Ws!AddPart(acc, Ws!CallPart(c))
        /\ c.kind # "fragment" => Ws!AddPart(acc, Ws!CallPart(c)).open = <<>>
        /\ c.kind = "fragment" => Ws!AddPart(acc, Ws!CallPart(c)).done = acc.done
    BY <1>5, <1>6, <2>1, <2>2, FrameOfCall
  <2> QED  BY <1>11, <2>3
<1>13. /\ Encoded' = Append(F, f) /\ ws_out' \in Seq(SentFrame) /\ encoded_buffer' \in Seq(SentFrame)
       /\ Ws!OfUnits(ws_out').done = new.done
  <2>1. CASE ws_out' = ws_out \o Append(encoded_buffer, f) /\ encoded_buffer' = <<>>
    <3>1. ws_out' = Append(F, f) /\ ws_out' \in Seq(SentFrame)  BY <1>8, <1>10, <2>1
    <3>2. ws_out' \o <<>> = ws_out'  BY <3>1
    <3>3. <<>> \in Seq(SentFrame)  OBVIOUS
    <3> QED  BY <1>12, <2>1, <3>1, <3>2, <3>3 DEF Encoded
  <2>2. CASE c.kind = "fragment" /\ ws_out' = ws_out /\ encoded_buffer' = Append(encoded_buffer, f)
    BY <1>3, <1>8, <1>9, <1>12, <2>2 DEF Encoded
  <2> QED  BY <1>2, <2>1, <2>2 DEF SentAs
<1>14. ws_made' \in Seq(WsCall) /\ Ws!OfCalls(ws_made') = new
  <2>1. Append(ws_made, c) \in Seq(WsCall)  BY <1>3, <1>5, AppendAt
  <2> QED  BY <1>1, <2>1 DEF new
<1>15. SndTypes'
  <2>1. sndfragment' \in {"First", "Middle"}  BY <1>6
  <2> QED  BY <1>1, <1>5, <1>13, <1>14, <2>1 DEF SndTypes
<1>16. Ordered(ws_calls')
  <2>1. ASSUME NEW k \in 1..(l - 1), k > 1, Tail(ws_calls)[k].kind = "send"
        PROVE  Tail(ws_calls)[k - 1].kind # "fragment"
    <3>1. k - 1 \in 1..(l - 1) /\ (k - 1) + 1 = k /\ k + 1 \in 1..l /\ k + 1 > 1 /\ (k + 1) - 1 = k
      BY <1>4, <2>1
    <3>2. Tail(ws_calls)[k] = ws_calls[k + 1] /\ Tail(ws_calls)[k - 1] = ws_calls[k]  BY <1>5, <3>1
    <3>3. ws_calls[k + 1].kind = "send" => ws_calls[(k + 1) - 1].kind # "fragment"
      BY <1>4, <1>9, <3>1 DEF Ordered
    <3> QED  BY <2>1, <3>1, <3>2, <3>3
  <2> QED  BY <1>1, <1>5, <2>1 DEF Ordered
<1>17. ws_calls' # <<>> /\ ws_calls'[1].kind = "send" => sndfragment' = "First"
  <2>1. SUFFICES ASSUME Tail(ws_calls) # <<>>, Tail(ws_calls)[1].kind = "send" PROVE c.kind # "fragment"
    BY <1>1, <1>6
  <2>2. l - 1 # 0  BY <1>5, <2>1
  <2>3. 1 \in 1..(l - 1) /\ 1 + 1 = 2 /\ 2 \in 1..l /\ 2 > 1 /\ 2 - 1 = 1  BY <1>4, <2>2
  <2>4. ws_calls[2].kind = "send"  BY <1>5, <2>1, <2>3
  <2>5. ws_calls[2 - 1].kind # "fragment"  BY <1>4, <1>9, <2>3, <2>4 DEF Ordered
  <2> QED  BY <1>5, <2>3, <2>5
<1>18. sndfragment' = "First" <=> c.kind # "fragment"  BY <1>6
<1> QED  BY <1>7, <1>10, <1>12, <1>13, <1>14, <1>15, <1>16, <1>17, <1>18 DEF SndInv

(* The other steps leave what is sent alone.                               *)
LEMMA SndRest ==
    ASSUME SndInv, \/ \E m \in 0..Len(ws_in), h \in 0..2 : Ws!Read(m, h)
                   \/ Ws!HandshakeLine \/ (\E f \in Ws!ToSet(ws_in) \cup Ws!ToSet(raw_buf) : Ws!DecodeError(f))
                   \/ Ws!Decode \/ Ws!Return \/ Ws!Flushed \/ UNCHANGED Ws!websocket_vars
    PROVE  SndInv'
<1>1. UNCHANGED Ws!snd_vars
  BY DEF Ws!Read, Ws!HandshakeLine, Ws!DecodeError, Ws!Decode, Ws!Return, Ws!Flushed, Ws!websocket_vars
<1>2. UNCHANGED <<ws_calls, ws_made, sndfragment, encoded_buffer, ws_out>>  BY <1>1 DEF Ws!snd_vars
<1> QED  BY <1>2 DEF SndInv, SndTypes, Encoded

(* What has been received says that no message is lost or changed.         *)
LEMMA RecvSays == RecvInv => Ws!MessagesAsSent
<1> SUFFICES ASSUME RecvInv PROVE Ws!MessagesAsSent
  OBVIOUS
<1>0. WsTypes /\ AllHandled  BY DEF RecvInv
<1>1. PICK d, n : Received(d, n)  BY DEF RecvInv
<1>2. ws_got \in Seq(WsUnits) /\ raw_buf \in Seq(WsUnits)  BY <1>0 DEF WsTypes
<1>3. d \in Nat /\ Len(ws_got) = d + Len(raw_buf)  BY <1>1 DEF Received, Place
<1>4. d <= Len(ws_got)  BY <1>2, <1>3
<1>5. Ws!OfEvents(ws_events).done = Ws!OfUnits(SubSeq(ws_got, 1, d)).done  BY <1>1 DEF Received
<1>6. Ws!IsPrefix(Ws!OfUnits(SubSeq(ws_got, 1, d)).done, Ws!OfUnits(ws_got).done)
  <2>1. \A u \in WsUnits : PartOf(u, Nat)
    BY DEF PartOf, Ws!UnitPart, Ws!IsLine, WsUnits, WsLine, WsFrame
  <2> QED  BY <1>2, <1>3, <1>4, <2>1, UnitsGrow
<1>7. ASSUME ~handling, ws_conn = "open" PROVE SubSeq(ws_got, 1, d) = ws_got
  <2>1. handling = FALSE  BY <1>0, <1>7 DEF WsTypes
  <2>2. raw_buf = <<>>  BY <1>0, <1>7, <2>1 DEF AllHandled
  <2>3. d = Len(ws_got)  BY <1>3, <2>2
  <2> QED  BY <1>2, <2>3, SubSeqAll
<1> QED  BY <1>5, <1>6, <1>7 DEF Ws!MessagesAsSent

(* The answers to pings and closes: each has its place after what the user *)
(* has sent before.                                                        *)
WsAnswer == [after: Nat, frame: [fin: BOOLEAN, opcode: {"cont", "close", "pong"}, len: Nat]]
AnsInv ==
    /\ ws_answers \in Seq(WsAnswer)
    /\ ws_answers # <<>> => ws_answers[1].after \in 0..Len(ws_out)

(* A ping or a close is answered.                                          *)
LEMMA AnsDecode ==
    ASSUME SndInv, AnsInv, Ws!Decode
    PROVE  AnsInv'
<1>1. ws_out' = ws_out  BY DEF Ws!Decode, Ws!snd_vars
<1>2. PICK l \in Nat : l = Len(ws_out)
  <2>1. ws_out \in Seq(SentFrame)  BY DEF SndInv, SndTypes
  <2> QED  BY <2>1
<1>3. ws_answers \in Seq(WsAnswer)  BY DEF AnsInv
<1>4. CASE ws_answers' = ws_answers  BY <1>1, <1>4 DEF AnsInv
<1>5. ASSUME NEW o \in {"close", "pong"}, Ws!Answer(o) PROVE AnsInv'
  <2> DEFINE g == IF ws_host = "big" THEN [fin |-> TRUE, opcode |-> o, len |-> 0]
                  ELSE [fin |-> FALSE, opcode |-> "cont", len |-> IF o = "close" THEN 8 ELSE 10]
             a == [after |-> Len(ws_out), frame |-> g]
  <2>1. ws_answers' = Append(ws_answers, a)  BY <1>5 DEF Ws!Answer
  <2>2. g \in [fin: BOOLEAN, opcode: {"cont", "close", "pong"}, len: Nat]  BY <1>5
  <2> HIDE DEF g
  <2>3. a \in WsAnswer /\ a.after = l  BY <1>2, <2>2 DEF WsAnswer
  <2> HIDE DEF a
  <2>4. PICK n \in Nat : n = Len(ws_answers)  BY <1>3
  <2>5. /\ ws_answers' \in Seq(WsAnswer) /\ ws_answers'[n + 1] = a
        /\ \A k \in 1..n : ws_answers'[k] = ws_answers[k]
    BY <1>3, <2>1, <2>3, <2>4, AppendAt
  <2>6. ws_answers'[1].after \in 0..l
    <3>1. CASE n = 0
      <4>1. ws_answers'[1] = a  BY <2>5, <3>1
      <4> QED  BY <2>3, <4>1
    <3>2. CASE n # 0
      <4>1. 1 \in 1..n /\ ws_answers # <<>>  BY <1>3, <2>4, <3>2
      <4> QED  BY <1>2, <2>5, <4>1 DEF AnsInv
    <3> QED  BY <3>1, <3>2
  <2> QED  BY <1>1, <1>2, <2>5, <2>6 DEF AnsInv
<1>6. ws_answers' = ws_answers \/ \E o \in {"close", "pong"} : Ws!Answer(o)
  BY DEF Ws!Decode
<1> QED  BY <1>4, <1>5, <1>6

(* The other steps answer nothing, and take back nothing that was sent.    *)
LEMMA AnsRest ==
    ASSUME SndInv, AnsInv,
           \/ \E m \in 0..Len(ws_in), h \in 0..2 : Ws!Read(m, h)
           \/ Ws!HandshakeLine \/ (\E f \in Ws!ToSet(ws_in) \cup Ws!ToSet(raw_buf) : Ws!DecodeError(f))
           \/ Ws!Return \/ Ws!Flushed \/ Ws!UserCall \/ UNCHANGED Ws!websocket_vars
    PROVE  AnsInv'
<1>1. ws_answers' = ws_answers
  BY DEF Ws!Read, Ws!HandshakeLine, Ws!DecodeError, Ws!Return, Ws!Flushed, Ws!UserCall, Ws!websocket_vars
<1>2. ws_out \in Seq(SentFrame) /\ encoded_buffer \in Seq(SentFrame)  BY DEF SndInv, SndTypes
<1>3. ws_out' = ws_out \/ \E f \in SentFrame : ws_out' = ws_out \o Append(encoded_buffer, f)
  <2>1. CASE Ws!UserCall
    <3>1. PICK f : SentAs(Head(ws_calls), f)  BY <2>1, CallEncodes
    <3> QED  BY <3>1 DEF SentAs
  <2>2. CASE UNCHANGED Ws!snd_vars  BY <2>2 DEF Ws!snd_vars
  <2>3. Ws!UserCall \/ UNCHANGED Ws!snd_vars
    BY DEF Ws!Read, Ws!HandshakeLine, Ws!DecodeError, Ws!Return, Ws!Flushed, Ws!websocket_vars
  <2> QED  BY <2>1, <2>2, <2>3
<1>4. Len(ws_out) \in Nat /\ Len(ws_out') \in Nat /\ Len(ws_out) <= Len(ws_out')
  <2>1. CASE ws_out' = ws_out  BY <1>2, <2>1
  <2>2. ASSUME NEW f \in SentFrame, ws_out' = ws_out \o Append(encoded_buffer, f)
        PROVE  Len(ws_out) \in Nat /\ Len(ws_out') \in Nat /\ Len(ws_out) <= Len(ws_out')
    <3>1. Append(encoded_buffer, f) \in Seq(SentFrame)  BY <1>2, <2>2, AppendAt
    <3> QED  BY <1>2, <2>2, <3>1
  <2> QED  BY <1>3, <2>1, <2>2
<1> QED  BY <1>1, <1>4 DEF AnsInv

(* What has been sent says that a client that checks frames as decode()    *)
(* does gets the messages, of the frames that it can read.                 *)
LEMMA SndSays == SndInv /\ AnsInv => Ws!SentReassembles
<1> SUFFICES ASSUME SndInv, AnsInv PROVE Ws!SentReassembles
  OBVIOUS
<1>1. ws_out \in Seq(SentFrame) /\ encoded_buffer \in Seq(SentFrame)  BY DEF SndInv, SndTypes
<1>2. PICK l, n \in Nat : l = Len(ws_out) /\ n = Len(encoded_buffer)  BY <1>1
<1>3. Len(Encoded) = l + n /\ \A k \in 1..l : Encoded[k] = ws_out[k]
  <2>1. Joined(SentFrame, Encoded, ws_out, encoded_buffer)  BY <1>1, ConcatAt DEF Encoded
  <2> QED  BY <1>2, <2>1 DEF Joined
<1>4. ASSUME NEW i \in 1..l
      PROVE  Ws!check_fragmentation(i > 1 /\ ~ws_out[i - 1].fin, ws_out[i].fin, ws_out[i].opcode)
  <2>1. i \in 1..(l + n) /\ (i > 1 => i - 1 \in 1..l)  OBVIOUS
  <2>2. Encoded[i] = ws_out[i] /\ (i > 1 => Encoded[i - 1] = ws_out[i - 1])  BY <1>3, <2>1
  <2>3. Ws!check_fragmentation(i > 1 /\ ~Encoded[i - 1].fin, Encoded[i].fin, Encoded[i].opcode)
    BY <1>3, <2>1 DEF SndInv, Accepted
  <2> QED  BY <2>2, <2>3 DEF Ws!check_fragmentation
<1>5. PICK r \in 0..l : r = Ws!Readable
  BY <1>2 DEF Ws!Readable, AnsInv
<1>6. Ws!OfUnits(ws_out).done = Ws!OfCalls(ws_made).done  BY DEF SndInv
<1>7. Ws!IsPrefix(Ws!OfUnits(SubSeq(ws_out, 1, r)).done, Ws!OfCalls(ws_made).done)
  <2>1. \A u \in SentFrame : PartOf(u, [id: Nat, size: Nat])
    BY DEF PartOf, Ws!UnitPart, Ws!IsLine, SentFrame
  <2>2. r \in Nat /\ r <= Len(ws_out)  BY <1>2, <1>5
  <2> QED  BY <1>1, <1>6, <2>1, <2>2, UnitsGrow
<1>8. \A i \in 1..r : i \in 1..l  BY <1>5
<1> QED  BY <1>4, <1>5, <1>6, <1>7, <1>8 DEF Ws!SentReassembles

(* ws-server.cc: whatever the client sends and however the network cuts    *)
(* it, onmessage gets the client's messages whole and in order, and what   *)
(* the user sends reaches the connection as frames of the same messages:   *)
(* all of it with the high byte first, and otherwise what comes before the *)
(* first answer to a ping or a close.                                      *)
THEOREM MessagesPassWhole == Ws!Spec => []MessagesWhole
<1>1. Ws!Init => RecvInv /\ SndInv /\ AnsInv
  <2>1. Ws!Init => AnsInv  BY DEF Ws!Init, AnsInv
  <2> QED  BY <2>1, RecvInit, SndInit
<1>2. RecvInv /\ SndInv /\ AnsInv /\ [Ws!Next]_Ws!websocket_vars => (RecvInv /\ SndInv /\ AnsInv)'
  <2> SUFFICES ASSUME RecvInv, SndInv, AnsInv, [Ws!Next]_Ws!websocket_vars
      PROVE  RecvInv' /\ SndInv' /\ AnsInv'
    OBVIOUS
  <2>1. CASE \E m \in 0..Len(ws_in), h \in 0..2 : Ws!Read(m, h)  BY <2>1, RecvRead, SndRest, AnsRest
  <2>2. CASE Ws!HandshakeLine  BY <2>2, RecvLine, SndRest, AnsRest
  <2>3. CASE \E f \in Ws!ToSet(ws_in) \cup Ws!ToSet(raw_buf) : Ws!DecodeError(f)
    BY <2>3, RecvRest, SndRest, AnsRest
  <2>4. CASE Ws!Decode  BY <2>4, RecvDecode, SndRest, AnsDecode
  <2>5. CASE Ws!Return \/ Ws!Flushed  BY <2>5, RecvRest, SndRest, AnsRest
  <2>6. CASE Ws!UserCall  BY <2>6, RecvRest, SndCall, AnsRest
  <2>7. CASE UNCHANGED Ws!websocket_vars  BY <2>7, RecvRest, SndRest, AnsRest
  <2> QED  BY <2>1, <2>2, <2>3, <2>4, <2>5, <2>6, <2>7 DEF Ws!Next
<1>3. RecvInv /\ SndInv /\ AnsInv => MessagesWhole  BY RecvSays, SndSays DEF MessagesWhole, Ws!MessagesWhole
<1> QED  BY <1>1, <1>2, <1>3, PTL DEF Ws!Spec
=============================================================================
