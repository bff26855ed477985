--------------------------- MODULE Connection_proofs ---------------------------
(***************************************************************************)
(* Proofs about Connection, for every number of calls and every size.      *)
(*                                                                         *)
(*   StateInv    what the state, the channel and the functors say of each  *)
(*               other: the close handler is called once, and what is      *)
(*               queued is armed                                           *)
(*   IdsInv      the pending ids are the positions of the three queues     *)
(*   CallsInv    no call number is used for two send-complete handlers     *)
(*   LayoutInv   there are offsets at which the entries of the queues lie  *)
(*               in the stream of accepted units: what is pending is what  *)
(*               was accepted and is not on the wire, in the order of ids  *)
(*   WirePrefix  the wire is a prefix of what was accepted                 *)
(*                                                                         *)
(* BaseNext proves that every step keeps StateInv and the types. The data  *)
(* is argued in two layers: each operation is first shown to be one of a   *)
(* few changes of the queues (Adds..., Stay, Go), and each of those is     *)
(* shown to keep the offsets (the ...Layout lemmas). DataNext combines     *)
(* them, and the four theorems at the end follow from ConnInvariant.       *)
(***************************************************************************)
EXTENDS Connection, TLAPS

-----------------------------------------------------------------------------
(* handle_write() is not inside a queue of a Closed connection, only       *)
(* remove() queues an erase, and a queued call is one that was made.       *)
StateInv ==
    /\ pc \in {"bytes", "file", "handlers"} => ~is_closed
    /\ pc = "complete" => HandlerNext
    /\ \A i \in 1..Len(functors) : functors[i].op = "erase" => is_closed
    /\ \A i \in 1..Len(functors) :
          functors[i].op \in {"send", "file", "handler"} => functors[i].k \in 1..ncalls

(* Three queues hold the ids from n to m - 1, each one at one position.    *)
Ids(s, t, u, n, m) ==
    /\ n <= m
    /\ Len(s) + Len(t) + Len(u) = m - n
    /\ \A a \in n..(m - 1) : \/ \E i \in 1..Len(s) : s[i].id = a
                             \/ \E i \in 1..Len(t) : t[i].id = a
                             \/ \E i \in 1..Len(u) : u[i].id = a
    /\ \A i \in 1..Len(s) : s[i].id \in n..(m - 1)
    /\ \A i \in 1..Len(t) : t[i].id \in n..(m - 1)
    /\ \A i \in 1..Len(u) : u[i].id \in n..(m - 1)
    /\ \A i, j \in 1..Len(s) : s[i].id = s[j].id => i = j
    /\ \A i, j \in 1..Len(t) : t[i].id = t[j].id => i = j
    /\ \A i, j \in 1..Len(u) : u[i].id = u[j].id => i = j
    /\ \A i \in 1..Len(s), j \in 1..Len(t) : s[i].id # t[j].id
    /\ \A i \in 1..Len(s), j \in 1..Len(u) : s[i].id # u[j].id
    /\ \A i \in 1..Len(t), j \in 1..Len(u) : t[i].id # u[j].id

IdsInv == Ids(bsq, sfq, schq, next_id, send_id)

(* A handler that is still a functor of the loop has a number of its own.  *)
IsNew(k, q) ==
    /\ \A i \in 1..Len(q) : q[i].op = "handler" => q[i].k # k
    /\ \A i \in 1..Len(schq) : schq[i].k # k
    /\ \A i \in 1..Len(handled) : handled[i] # k

CallsOf(q, s, h, n) ==
    /\ \A i, j \in 1..Len(q) :
          q[i].op = "handler" /\ q[j].op = "handler" /\ q[i].k = q[j].k => i = j
    /\ \A i \in 1..Len(q), j \in 1..Len(s) : q[i].op = "handler" => q[i].k # s[j].k
    /\ \A i \in 1..Len(q), j \in 1..Len(h) : q[i].op = "handler" => q[i].k # h[j]
    /\ \A i \in 1..Len(s) : s[i].k \in 1..n
    /\ \A i \in 1..Len(h) : h[i] \in 1..n

CallsInv == CallsOf(functors, schq, handled, ncalls)

Mono(st, n, m) == \A a, b \in n..m : a <= b => st[a] <= st[b]

(* Entry id lies behind the first st[id] accepted units, and the i-th byte *)
(* stream behind the first os[i] units of output_buf.                      *)
Offsets(st) ==
    /\ st[next_id] = Len(wire) /\ st[send_id] = Len(accepted)
    /\ Mono(st, next_id, send_id)
    /\ \A i \in 1..Len(bsq) : st[bsq[i].id + 1] = st[bsq[i].id] + bsq[i].len
    /\ \A i \in 1..Len(sfq) : st[sfq[i].id + 1] = st[sfq[i].id] + Len(sfq[i].rest)
    /\ \A i \in 1..Len(schq) : /\ st[schq[i].id + 1] = st[schq[i].id]
                               /\ mark[schq[i].k] = st[schq[i].id]

BufferOffsets(os) ==
    /\ os[1] = 0 /\ os[Len(bsq) + 1] = Len(out)
    /\ Mono(os, 1, Len(bsq) + 1)
    /\ \A i \in 1..Len(bsq) : os[i + 1] = os[i] + bsq[i].len

Contents(st, os) ==
    /\ \A i \in 1..Len(bsq) : \A j \in 1..bsq[i].len :
          out[os[i] + j] = accepted[st[bsq[i].id] + j]
    /\ \A i \in 1..Len(sfq) : \A j \in 1..Len(sfq[i].rest) :
          sfq[i].rest[j] = accepted[st[sfq[i].id] + j]

(* With nothing but send-complete handlers from id a on, all is sent       *)
(* before a.                                                               *)
DataBefore(a) ==
    /\ \A i \in 1..Len(bsq) : bsq[i].id < a
    /\ \A i \in 1..Len(sfq) : sfq[i].id < a

LastData(st) == \A a \in next_id..send_id : DataBefore(a) => st[a] = Len(accepted)

Layout(st, os) ==
    /\ Offsets(st) /\ BufferOffsets(os) /\ LastData(st)
    /\ ~blocked => Contents(st, os)

(* The queues of a connection that is not Closed.                          *)
LayoutInv == ~is_closed => \E st, os \in [Nat -> Nat] : Layout(st, os)

WirePrefix ==
    ~blocked => /\ Len(wire) <= Len(accepted)
                /\ \A j \in 1..Len(wire) : wire[j] = accepted[j]

-----------------------------------------------------------------------------
(* The parts of the state the operations change.                           *)
OpType ==
    /\ state \in {"Connected", "Closing", "Closed"}
    /\ chan \in {"open", "disabled", "erased"}
    /\ writing \in BOOLEAN
    /\ out \in Seq(Unit) /\ wire \in Seq(Unit) /\ accepted \in Seq(Unit)
    /\ bsq \in Seq(ByteStream)
    /\ sfq \in Seq(SendFile)
    /\ schq \in Seq(SendComplete)
    /\ send_id \in Nat /\ next_id \in Nat
    /\ functors \in Seq(Functor)
    /\ mark \in [Calls -> Nat] /\ handled \in Seq(Calls)
    /\ closes \in Nat /\ failed \in BOOLEAN /\ blocked \in BOOLEAN

ThreadType ==
    /\ pc \in {"idle", "message", "bytes", "file", "handlers", "complete", "end"}
    /\ ncalls \in 0..MaxCalls /\ ncloses \in 0..MaxCloses
    /\ waiters \subseteq 1..MaxCloses

(* What the operations keep, wherever they are called from.                *)
OpInv ==
    /\ OpType
    /\ is_closed <=> chan # "open"
    /\ ClosedOnce
    /\ WriteArmed

(* What an operation called with the functors q leaves in the loop.        *)
Leaves(q) ==
    \/ functors' = q
    \/ functors' = Append(q, [op |-> "erase", k |-> 0]) /\ is_closed'
    \/ functors' = Append(q, [op |-> "hwm", k |-> 0])

Kept ==
    /\ is_closed => is_closed'
    /\ next_id' = next_id
    /\ HandlerNext => HandlerNext'

(* The lengths of the queues are numbers.                                  *)
LEMMA Lens ==
    ASSUME OpType
    PROVE  /\ Len(out) \in Nat /\ Len(wire) \in Nat /\ Len(accepted) \in Nat
           /\ Len(bsq) \in Nat /\ Len(sfq) \in Nat /\ Len(schq) \in Nat
           /\ Len(handled) \in Nat /\ Len(functors) \in Nat
BY DEF OpType

(* The units of a call, ...                                                *)
LEMMA UnitsType ==
    ASSUME NEW k \in Nat
    PROVE  /\ Units(k) \in Seq(Unit) /\ Len(Units(k)) = Size
           /\ \A i \in 1..Size : Units(k)[i] = <<k, i>>
<1>1. \A i \in 1..Size : <<k, i>> \in Unit
  BY ConnectionAssumption DEF Unit
<1> QED
  BY <1>1, ConnectionAssumption DEF Units

(* ... what is behind the first n of a sequence of units, and those.       *)
LEMMA Cut ==
    ASSUME NEW u \in Seq(Unit), NEW n \in 0..Len(u)
    PROVE  /\ SubSeq(u, 1, n) \in Seq(Unit) /\ Len(SubSeq(u, 1, n)) = n
           /\ \A j \in 1..n : SubSeq(u, 1, n)[j] = u[j]
           /\ SubSeq(u, n + 1, Len(u)) \in Seq(Unit)
           /\ Len(SubSeq(u, n + 1, Len(u))) = Len(u) - n
           /\ \A j \in 1..(Len(u) - n) : SubSeq(u, n + 1, Len(u))[j] = u[n + j]
OBVIOUS

(* Concatenation, by position.                                             *)
LEMMA Joined ==
    ASSUME NEW u \in Seq(Unit), NEW v \in Seq(Unit)
    PROVE  /\ u \o v \in Seq(Unit) /\ Len(u \o v) = Len(u) + Len(v)
           /\ \A j \in 1..Len(u) : (u \o v)[j] = u[j]
           /\ \A j \in 1..Len(v) : (u \o v)[Len(u) + j] = v[j]
<1> DEFINE w == u \o v
<1>1. w \in Seq(Unit) /\ Len(w) = Len(u) + Len(v) /\ Len(u) \in Nat /\ Len(v) \in Nat
  OBVIOUS
<1>2. \A j \in 1..Len(u) : w[j] = u[j]
  OBVIOUS
<1>3. ASSUME NEW j \in 1..Len(v) PROVE w[Len(u) + j] = v[j]
  <2>1. Len(u) + j \in 1..(Len(u) + Len(v)) /\ ~(Len(u) + j <= Len(u)) /\ Len(u) + j - Len(u) = j
    BY <1>1
  <2> QED
    BY <1>1, <2>1
<1> QED
  BY <1>1, <1>2, <1>3

(* What a direct write that reports EAGAIN leaves to be queued.            *)
LEMMA JunkUnits ==
    ASSUME NEW k \in Nat
    PROVE  /\ <<Junk>> \o SubSeq(Units(k), 1, Size - 1) \in Seq(Unit)
           /\ Len(<<Junk>> \o SubSeq(Units(k), 1, Size - 1)) = Size
<1>1. SubSeq(Units(k), 1, Size - 1) \in Seq(Unit) /\ Len(SubSeq(Units(k), 1, Size - 1)) = Size - 1
  BY UnitsType, Cut, ConnectionAssumption
<1>2. <<Junk>> \in Seq(Unit) /\ Len(<<Junk>>) = 1
  BY DEF Junk, Unit
<1> HIDE DEF Junk
<1> QED
  BY <1>1, <1>2, ConnectionAssumption

-----------------------------------------------------------------------------
(* The operations.                                                         *)
LEMMA CloseNowInv ==
    ASSUME OpInv, NEW q \in Seq(Functor), NEW f \in BOOLEAN, ~is_closed, CloseNow(q, f)
    PROVE  /\ state' = "Closed" /\ chan' = "disabled" /\ writing' \in BOOLEAN
           /\ is_closed' /\ ClosedOnce' /\ Leaves(q)
           /\ functors' \in Seq(Functor) /\ closes' \in Nat /\ failed' \in BOOLEAN
<1>1. [op |-> "erase", k |-> 0] \in Functor
  BY DEF Functor
<1>2. /\ state' = "Closed" /\ chan' = "disabled" /\ writing' = FALSE /\ failed' = f
      /\ functors' = Append(q, [op |-> "erase", k |-> 0])
      /\ closes' = closes + 1
  BY DEF CloseNow
<1>3. functors' \in Seq(Functor)
  BY <1>1, <1>2
<1>4. closes = 0
  BY DEF OpInv, ClosedOnce
<1>5. is_closed' /\ ClosedOnce' /\ closes' \in Nat
  BY <1>2, <1>4 DEF ClosedOnce, is_closed
<1>6. Leaves(q)
  BY <1>2, <1>5 DEF Leaves
<1> QED
  BY <1>2, <1>3, <1>5, <1>6

(* handle_close() closes at once, or leaves that to handle_write().        *)
LEMMA HandleCloseInv ==
    ASSUME OpInv, NEW q \in Seq(Functor), handle_close(q), UNCHANGED <<histVars, blocked>>
    PROVE  OpInv' /\ Leaves(q) /\ Kept
<1> USE DEF histVars, closeVars, OpInv
<1>1. CASE is_closed
  <2>1. functors' = q /\ UNCHANGED <<state, chan, closes, failed, writing>>
    BY <1>1 DEF handle_close
  <2> QED
    BY <1>1, <2>1 DEF handle_close, OpType, ClosedOnce, WriteArmed, is_closed, Leaves, Kept,
                      HandlerNext, send_queue_is_empty
<1>2. CASE ~is_closed /\ ~send_queue_is_empty
  <2>1. functors' = q /\ state' = "Closing" /\ UNCHANGED <<chan, closes, failed, writing>>
    BY <1>2 DEF handle_close
  <2> QED
    BY <1>2, <2>1 DEF handle_close, OpType, ClosedOnce, WriteArmed, is_closed, Leaves, Kept,
                      HandlerNext, send_queue_is_empty
<1>3. CASE ~is_closed /\ send_queue_is_empty
  <2>1. CloseNow(q, FALSE)
    BY <1>3 DEF handle_close
  <2>2. /\ state' = "Closed" /\ chan' = "disabled" /\ writing' \in BOOLEAN
        /\ is_closed' /\ ClosedOnce' /\ Leaves(q)
        /\ functors' \in Seq(Functor) /\ closes' \in Nat /\ failed' \in BOOLEAN
    BY <2>1, <1>3, CloseNowInv
  <2> QED
    BY <1>3, <2>2 DEF handle_close, OpType, WriteArmed, Kept, HandlerNext
<1> QED
  BY <1>1, <1>2, <1>3

(* What is left of a send() joins byte_stream_queue and arms the channel.  *)
LEMMA EnqueueInv ==
    ASSUME OpInv, NEW q \in Seq(Functor), NEW rest \in Seq(Unit), Enqueue(rest, q),
           UNCHANGED <<sfq, schq, next_id, closeVars>>
    PROVE  /\ out' \in Seq(Unit) /\ bsq' \in Seq(ByteStream) /\ send_id' \in Nat
           /\ writing' \in BOOLEAN /\ functors' \in Seq(Functor) /\ Leaves(q)
           /\ is_closed <=> chan' # "open"
           /\ WriteArmed'
<1> USE DEF closeVars, OpInv, OpType
<1>1. CASE rest = <<>>
  BY <1>1 DEF Enqueue, Leaves, WriteArmed, send_queue_is_empty, is_closed
<1>2. CASE rest # <<>>
  <2>1. /\ out' = out \o rest
        /\ bsq' = Append(bsq, [id |-> send_id, len |-> Len(rest)])
        /\ send_id' = send_id + 1 /\ writing' = TRUE
        /\ functors' = q \/ functors' = Append(q, [op |-> "hwm", k |-> 0])
    BY <1>2 DEF Enqueue
  <2>2. [id |-> send_id, len |-> Len(rest)] \in ByteStream
    BY DEF ByteStream, OpInv, OpType
  <2>3. [op |-> "hwm", k |-> 0] \in Functor
    BY DEF Functor
  <2>4. out' \in Seq(Unit)
    BY <2>1
  <2>5. bsq' \in Seq(ByteStream)
    BY <2>1, <2>2
  <2>6. functors' \in Seq(Functor)
    <3>1. CASE functors' = q
      BY <3>1
    <3>2. CASE functors' = Append(q, [op |-> "hwm", k |-> 0])
      BY <3>2, <2>3
    <3> QED
      BY <2>1, <3>1, <3>2
  <2>7. Leaves(q)
    BY <2>1 DEF Leaves
  <2> QED
    BY <2>1, <2>4, <2>5, <2>6, <2>7 DEF WriteArmed, is_closed
<1> QED
  BY <1>1, <1>2

(* What is left of a file joins send_file_queue and arms the channel.      *)
LEMMA EnqueueFileInv ==
    ASSUME OpInv, NEW q \in Seq(Functor), NEW rest \in Seq(Unit), EnqueueFile(rest, q),
           UNCHANGED <<out, bsq, schq, next_id, closeVars>>
    PROVE  /\ sfq' \in Seq(SendFile) /\ send_id' \in Nat
           /\ writing' \in BOOLEAN /\ functors' = q
           /\ is_closed <=> chan' # "open"
           /\ WriteArmed'
<1> USE DEF closeVars, OpInv, OpType
<1>1. CASE rest = <<>>
  BY <1>1 DEF EnqueueFile, WriteArmed, send_queue_is_empty, is_closed
<1>2. CASE rest # <<>>
  <2>1. /\ sfq' = Append(sfq, [id |-> send_id, rest |-> rest])
        /\ send_id' = send_id + 1 /\ writing' = TRUE /\ functors' = q
    BY <1>2 DEF EnqueueFile
  <2>2. [id |-> send_id, rest |-> rest] \in SendFile
    BY DEF SendFile, OpInv, OpType
  <2>3. sfq' \in Seq(SendFile)
    BY <2>1, <2>2
  <2> QED
    BY <2>1, <2>3 DEF WriteArmed, is_closed
<1> QED
  BY <1>1, <1>2

(* send_in_loop(), refused, written at once or queued.                     *)
LEMMA SendInv ==
    ASSUME OpInv, NEW k \in Calls, NEW q \in Seq(Functor), send_in_loop(k, q)
    PROVE  OpInv' /\ Leaves(q) /\ Kept
<1> DEFINE u == Units(k)
<1> USE DEF histVars, closeVars, sendVars
<1>1. CASE is_closed
  <2>1. functors' = q /\ UNCHANGED <<sendVars, histVars, closeVars, blocked>>
    BY <1>1 DEF send_in_loop, Refuse
  <2> QED
    BY <1>1, <2>1 DEF OpInv, OpType, ClosedOnce, WriteArmed, is_closed, Leaves, Kept,
                      HandlerNext, send_queue_is_empty
<1>2. CASE ~is_closed
  <2>k. k \in Nat /\ Size \in Nat /\ Size >= 1
    BY ConnectionAssumption DEF Calls
  <2>u. u \in Seq(Unit) /\ Len(u) = Size
    BY UnitsType, <2>k
  <2> HIDE DEF u
  <2>1. /\ accepted' = accepted \o u
        /\ UNCHANGED <<sfq, schq, next_id, mark, handled>>
        /\ \/ DirectSend(u, q)
           \/ Enqueue(u, q) /\ UNCHANGED <<wire, closeVars, blocked>>
    BY <1>2 DEF send_in_loop, u
  <2>2. accepted' \in Seq(Unit)
    BY <2>1, <2>u DEF OpInv, OpType
  <2>3. ASSUME NEW r \in Seq(Unit), Enqueue(r, q), wire' \in Seq(Unit),
               blocked' \in BOOLEAN, UNCHANGED closeVars
        PROVE  OpInv' /\ Leaves(q) /\ Kept
    <3>1. /\ out' \in Seq(Unit) /\ bsq' \in Seq(ByteStream) /\ send_id' \in Nat
          /\ writing' \in BOOLEAN /\ functors' \in Seq(Functor) /\ Leaves(q)
          /\ is_closed <=> chan' # "open"
          /\ WriteArmed'
      BY <2>1, <2>3, EnqueueInv
    <3> QED
      BY <2>1, <2>2, <2>3, <3>1 DEF OpInv, OpType, ClosedOnce, is_closed, Kept, HandlerNext
  <2>4. CASE Enqueue(u, q) /\ UNCHANGED <<wire, closeVars, blocked>>
    BY <2>3, <2>4, <2>u DEF OpInv, OpType
  <2>5. ASSUME NEW n \in 1..Size, wire' = wire \o SubSeq(u, 1, n),
               Enqueue(SubSeq(u, n + 1, Size), q), UNCHANGED <<closeVars, blocked>>
        PROVE  OpInv' /\ Leaves(q) /\ Kept
    <3>1. n \in 0..Len(u) /\ Size = Len(u)
      BY <2>u, <2>k
    <3>2. SubSeq(u, 1, n) \in Seq(Unit) /\ SubSeq(u, n + 1, Size) \in Seq(Unit)
      BY <3>1, <2>u, Cut
    <3>3. wire' \in Seq(Unit) /\ blocked' \in BOOLEAN
      BY <2>5, <3>2 DEF OpInv, OpType
    <3> QED
      BY <2>3, <2>5, <3>2, <3>3
  <2>6. CASE /\ Enqueue(<<Junk>> \o SubSeq(u, 1, Size - 1), q)
             /\ blocked' = TRUE /\ UNCHANGED <<wire, closeVars>>
    <3>1. <<Junk>> \o SubSeq(u, 1, Size - 1) \in Seq(Unit)
      BY JunkUnits, <2>k DEF u
    <3> QED
      BY <2>3, <2>6, <3>1 DEF OpInv, OpType
  <2>7. CASE CloseNow(q, TRUE) /\ UNCHANGED <<wire, out, bsq, send_id, blocked>>
    <3>1. /\ state' = "Closed" /\ chan' = "disabled" /\ writing' \in BOOLEAN
          /\ is_closed' /\ ClosedOnce' /\ Leaves(q)
          /\ functors' \in Seq(Functor) /\ closes' \in Nat /\ failed' \in BOOLEAN
      BY <2>7, <1>2, CloseNowInv
    <3> QED
      BY <2>1, <2>2, <2>7, <3>1 DEF OpInv, OpType, WriteArmed, Kept, HandlerNext
  <2> QED
    BY <2>1, <2>4, <2>5, <2>6, <2>7 DEF DirectSend
<1> QED
  BY <1>1, <1>2

(* send_file_in_loop()                                                     *)
LEMMA SendFileInv ==
    ASSUME OpInv, NEW k \in Calls, NEW q \in Seq(Functor), send_file_in_loop(k, q)
    PROVE  OpInv' /\ Leaves(q) /\ Kept
<1> DEFINE u == Units(k)
<1> USE DEF histVars, closeVars, sendVars
<1>1. CASE is_closed
  <2>1. functors' = q /\ UNCHANGED <<sendVars, histVars, closeVars, blocked>>
    BY <1>1 DEF send_file_in_loop, Refuse
  <2> QED
    BY <1>1, <2>1 DEF OpInv, OpType, ClosedOnce, WriteArmed, is_closed, Leaves, Kept,
                      HandlerNext, send_queue_is_empty
<1>2. CASE ~is_closed
  <2>k. k \in Nat /\ Size \in Nat /\ Size >= 1
    BY ConnectionAssumption DEF Calls
  <2>u. u \in Seq(Unit) /\ Len(u) = Size
    BY UnitsType, <2>k
  <2> HIDE DEF u
  <2>1. /\ accepted' = accepted \o u
        /\ UNCHANGED <<out, bsq, schq, next_id, mark, handled, blocked>>
        /\ \/ DirectSendFile(u, q)
           \/ EnqueueFile(u, q) /\ UNCHANGED <<wire, closeVars>>
    BY <1>2 DEF send_file_in_loop, u
  <2>2. accepted' \in Seq(Unit)
    BY <2>1, <2>u DEF OpInv, OpType
  <2>3. ASSUME NEW r \in Seq(Unit), EnqueueFile(r, q), wire' \in Seq(Unit),
               UNCHANGED closeVars
        PROVE  OpInv' /\ Leaves(q) /\ Kept
    <3>1. /\ sfq' \in Seq(SendFile) /\ send_id' \in Nat
          /\ writing' \in BOOLEAN /\ functors' = q
          /\ is_closed <=> chan' # "open"
          /\ WriteArmed'
      BY <2>1, <2>3, EnqueueFileInv
    <3> QED
      BY <2>1, <2>2, <2>3, <3>1
         DEF OpInv, OpType, ClosedOnce, is_closed, Kept, HandlerNext, Leaves
  <2>4. CASE EnqueueFile(u, q) /\ UNCHANGED <<wire, closeVars>>
    BY <2>3, <2>4, <2>u DEF OpInv, OpType
  <2>5. ASSUME NEW n \in 0..Size, wire' = wire \o SubSeq(u, 1, n),
               EnqueueFile(SubSeq(u, n + 1, Size), q), UNCHANGED closeVars
        PROVE  OpInv' /\ Leaves(q) /\ Kept
    <3>1. n \in 0..Len(u) /\ Size = Len(u)
      BY <2>u, <2>k
    <3>2. SubSeq(u, 1, n) \in Seq(Unit) /\ SubSeq(u, n + 1, Size) \in Seq(Unit)
      BY <3>1, <2>u, Cut
    <3>3. wire' \in Seq(Unit)
      BY <2>5, <3>2 DEF OpInv, OpType
    <3> QED
      BY <2>3, <2>5, <3>2, <3>3
  <2>7. CASE CloseNow(q, TRUE) /\ UNCHANGED <<wire, sfq, send_id>>
    <3>1. /\ state' = "Closed" /\ chan' = "disabled" /\ writing' \in BOOLEAN
          /\ is_closed' /\ ClosedOnce' /\ Leaves(q)
          /\ functors' \in Seq(Functor) /\ closes' \in Nat /\ failed' \in BOOLEAN
      BY <2>7, <1>2, CloseNowInv
    <3> QED
      BY <2>1, <2>2, <2>7, <3>1 DEF OpInv, OpType, WriteArmed, Kept, HandlerNext
  <2> QED
    BY <2>1, <2>4, <2>5, <2>7 DEF DirectSendFile
<1> QED
  BY <1>1, <1>2

(* set_send_complete_handler()                                             *)
LEMMA SetHandlerInv ==
    ASSUME OpInv, NEW k \in Calls, NEW q \in Seq(Functor), set_send_complete_handler(k, q)
    PROVE  OpInv' /\ Leaves(q) /\ Kept
<1>1. /\ schq' = Append(schq, [id |-> send_id, k |-> k])
      /\ send_id' = send_id + 1 /\ writing' = TRUE
      /\ mark' = [mark EXCEPT ![k] = Len(accepted)]
      /\ functors' = q
      /\ UNCHANGED <<out, bsq, sfq, next_id, wire, accepted, handled, state, chan, closes,
                     failed, blocked>>
  BY DEF set_send_complete_handler, closeVars
<1>2. [id |-> send_id, k |-> k] \in SendComplete
  BY DEF OpInv, OpType, SendComplete
<1>3. schq' \in Seq(SendComplete)
  BY <1>1, <1>2 DEF OpInv, OpType
<1>4. mark' \in [Calls -> Nat]
  BY <1>1 DEF OpInv, OpType
<1>5. HandlerNext => HandlerNext'
  <2>1. HAVE HandlerNext
  <2>2. schq \in Seq(SendComplete) /\ Len(schq) > 0
    BY <2>1 DEF OpInv, OpType, HandlerNext
  <2>3. Len(schq') > 0 /\ schq'[1] = schq[1]
    BY <2>2, <1>1, <1>2
  <2>4. Head(schq') = Head(schq) /\ schq' # <<>>
    BY <2>2, <2>3, <1>3
  <2> QED
    BY <2>1, <2>4, <1>1 DEF HandlerNext
<1>6. OpType'
  BY <1>1, <1>3, <1>4 DEF OpInv, OpType
<1> QED
  BY <1>1, <1>5, <1>6 DEF OpInv, ClosedOnce, is_closed, WriteArmed, Leaves, Kept

-----------------------------------------------------------------------------
(* Every step keeps the types, what the operations keep and StateInv.      *)
BaseInv == ThreadType /\ OpInv /\ StateInv

(* The functors q are some of the loop's.                                  *)
Some(q) ==
    /\ q \in Seq(Functor)
    /\ \A i \in 1..Len(q) : \E j \in 1..Len(functors) : q[i] = functors[j]

(* All functors are some of them.                                          *)
LEMMA SomeAll == ASSUME OpInv PROVE Some(functors)
BY DEF OpInv, OpType, Some

(* So are the ones behind the first, which do_functors() calls.            *)
LEMMA SomeTail ==
    ASSUME OpInv, functors # <<>>
    PROVE  /\ Some(Tail(functors)) /\ Head(functors) \in Functor
           /\ Head(functors) = functors[1] /\ 1 \in 1..Len(functors)
           /\ Len(Tail(functors)) = Len(functors) - 1
           /\ \A i \in 1..(Len(functors) - 1) : Tail(functors)[i] = functors[i + 1]
<1> DEFINE q == Tail(functors)
<1>1. /\ functors \in Seq(Functor) /\ Len(functors) \in Nat /\ Len(functors) >= 1
      /\ q \in Seq(Functor)
  BY DEF OpInv, OpType
<1>2. /\ Len(q) = Len(functors) - 1
      /\ \A i \in 1..(Len(functors) - 1) : q[i] = functors[i + 1]
  BY <1>1
<1>3. Head(functors) = functors[1] /\ 1 \in 1..Len(functors) /\ Head(functors) \in Functor
  BY <1>1
<1> HIDE DEF q
<1>4. ASSUME NEW i \in 1..Len(q) PROVE \E j \in 1..Len(functors) : q[i] = functors[j]
  BY <1>1, <1>2
<1> QED
  BY <1>1, <1>2, <1>3, <1>4 DEF Some, q

(* An operation keeps what StateInv says of the functors it was called     *)
(* with.                                                                   *)
LEMMA StateNext ==
    ASSUME BaseInv, NEW q, Some(q), Leaves(q), is_closed => is_closed',
           ncalls' \in Nat, ncalls <= ncalls', functors' \in Seq(Functor)
    PROVE  /\ \A i \in 1..Len(functors') : functors'[i].op = "erase" => is_closed'
           /\ \A i \in 1..Len(functors') :
                 functors'[i].op \in {"send", "file", "handler"} => functors'[i].k \in 1..ncalls'
<1>0. q \in Seq(Functor) /\ Len(q) \in Nat
  BY DEF Some
<1>1. ASSUME NEW i \in 1..Len(q)
      PROVE  /\ q[i].op = "erase" => is_closed'
             /\ q[i].op \in {"send", "file", "handler"} => q[i].k \in 1..ncalls'
  <2>1. PICK j \in 1..Len(functors) : q[i] = functors[j]
    BY DEF Some
  <2>2. /\ functors[j].op = "erase" => is_closed
        /\ functors[j].op \in {"send", "file", "handler"} => functors[j].k \in 1..ncalls
    BY DEF BaseInv, StateInv
  <2>3. ncalls \in Nat
    BY DEF BaseInv, ThreadType
  <2> QED
    BY <2>1, <2>2, <2>3
<1>2. CASE functors' = q
  BY <1>1, <1>2
<1>3. ASSUME NEW f \in Functor, functors' = Append(q, f), f.op = "erase" => is_closed',
             f.op \notin {"send", "file", "handler"}, NEW i \in 1..Len(functors')
      PROVE  /\ functors'[i].op = "erase" => is_closed'
             /\ functors'[i].op \in {"send", "file", "handler"} => functors'[i].k \in 1..ncalls'
  <2>1. Len(functors') = Len(q) + 1 /\ functors'[Len(q) + 1] = f
        /\ \A j \in 1..Len(q) : functors'[j] = q[j]
    BY <1>3, <1>0
  <2>2. i \in 1..Len(q) \/ i = Len(q) + 1
    BY <2>1, <1>0
  <2> QED
    BY <1>1, <1>3, <2>1, <2>2
<1>4. CASE functors' = Append(q, [op |-> "erase", k |-> 0]) /\ is_closed'
  <2>1. [op |-> "erase", k |-> 0] \in Functor
    BY DEF Functor
  <2> QED
    BY <1>3, <1>4, <2>1
<1>5. CASE functors' = Append(q, [op |-> "hwm", k |-> 0])
  <2>1. [op |-> "hwm", k |-> 0] \in Functor
    BY DEF Functor
  <2> QED
    BY <1>3, <1>5, <2>1
<1> QED
  BY <1>2, <1>4, <1>5 DEF Leaves

(* The queues as handle_write() takes from them, by position: ...           *)
LEMMA BytesTaken ==
    ASSUME OpType, BytesNext, NEW n \in 1..Head(bsq).len, n <= Len(out), TakeBytes(n)
    PROVE  /\ bsq # <<>> /\ 1 \in 1..Len(bsq) /\ Head(bsq) = bsq[1] /\ bsq[1].id = next_id
           /\ wire' \in Seq(Unit) /\ Len(wire') = Len(wire) + n
           /\ \A j \in 1..Len(wire) : wire'[j] = wire[j]
           /\ \A j \in 1..n : wire'[Len(wire) + j] = out[j]
           /\ out' \in Seq(Unit) /\ Len(out') = Len(out) - n
           /\ \A j \in 1..(Len(out) - n) : out'[j] = out[n + j]
           /\ bsq' \in Seq(ByteStream)
           /\ \/ /\ n = bsq[1].len /\ next_id' = next_id + 1
                 /\ Len(bsq') = Len(bsq) - 1
                 /\ \A i \in 1..(Len(bsq) - 1) : bsq'[i] = bsq[i + 1]
              \/ /\ n < bsq[1].len /\ next_id' = next_id
                 /\ Len(bsq') = Len(bsq)
                 /\ bsq'[1].id = next_id /\ bsq'[1].len = bsq[1].len - n
                 /\ \A i \in 2..Len(bsq) : bsq'[i] = bsq[i]
<1>1. /\ bsq \in Seq(ByteStream) /\ out \in Seq(Unit) /\ wire \in Seq(Unit)
      /\ bsq # <<>> /\ Head(bsq).id = next_id
  BY DEF OpType, BytesNext
<1>0. bsq \in Seq(ByteStream)
  BY <1>1
<1>2. Len(bsq) \in Nat /\ Len(bsq) >= 1 /\ Head(bsq) = bsq[1] /\ 1 \in 1..Len(bsq)
  BY <1>1
<1>3. bsq[1] \in ByteStream
  BY <1>0, <1>2
<1>4. n \in 1..bsq[1].len /\ n \in Nat /\ n \in 0..Len(out) /\ bsq[1].id = next_id
  BY <1>1, <1>2, <1>3
<1>5. /\ wire' = wire \o SubSeq(out, 1, n) /\ out' = SubSeq(out, n + 1, Len(out))
      /\ IF n = bsq[1].len THEN bsq' = Tail(bsq) /\ next_id' = next_id + 1
         ELSE bsq' = [bsq EXCEPT ![1].len = @ - n] /\ next_id' = next_id
  BY <1>2 DEF TakeBytes
<1> DEFINE a == SubSeq(out, 1, n)
           b == SubSeq(out, n + 1, Len(out))
<1>6. /\ a \in Seq(Unit) /\ Len(a) = n /\ \A j \in 1..n : a[j] = out[j]
      /\ b \in Seq(Unit) /\ Len(b) = Len(out) - n
      /\ \A j \in 1..(Len(out) - n) : b[j] = out[n + j]
  BY <1>1, <1>4, Cut
<1> HIDE DEF a, b
<1>w. wire' = wire \o a /\ wire \in Seq(Unit) /\ a \in Seq(Unit)
  BY <1>1, <1>5, <1>6 DEF a
<1>11. /\ wire' \in Seq(Unit) /\ Len(wire') = Len(wire) + Len(a)
       /\ \A j \in 1..Len(wire) : wire'[j] = wire[j]
       /\ \A j \in 1..Len(a) : wire'[Len(wire) + j] = a[j]
  BY <1>w, Joined
<1>7. /\ wire' \in Seq(Unit) /\ Len(wire') = Len(wire) + n
      /\ \A j \in 1..Len(wire) : wire'[j] = wire[j]
      /\ \A j \in 1..n : wire'[Len(wire) + j] = out[j]
  BY <1>11, <1>6
<1>8. /\ out' \in Seq(Unit) /\ Len(out') = Len(out) - n
      /\ \A j \in 1..(Len(out) - n) : out'[j] = out[n + j]
  BY <1>5, <1>6 DEF b
<1>9. CASE n = bsq[1].len
  <2>1. bsq' = Tail(bsq) /\ next_id' = next_id + 1
    BY <1>5, <1>9
  <2>3. Len(bsq) \in Nat /\ Len(bsq) >= 1
    BY <1>2
  <2>2. /\ bsq' \in Seq(ByteStream) /\ Len(bsq') = Len(bsq) - 1
        /\ \A i \in 1..(Len(bsq) - 1) : bsq'[i] = bsq[i + 1]
    BY <2>1, <1>0, <2>3
  <2> QED
    BY <1>1, <1>2, <1>4, <1>7, <1>8, <1>9, <2>1, <2>2
<1>10. CASE n # bsq[1].len
  <2>1. bsq' = [bsq EXCEPT ![1].len = @ - n] /\ next_id' = next_id
    BY <1>5, <1>10
  <2>2. bsq' = [bsq EXCEPT ![1] = [bsq[1] EXCEPT !.len = @ - n]]
    BY <2>1
  <2>3. [bsq[1] EXCEPT !.len = @ - n] \in ByteStream
    BY <1>3, <1>4, <1>10 DEF ByteStream
  <2>4. /\ bsq' \in Seq(ByteStream) /\ Len(bsq') = Len(bsq)
        /\ bsq'[1] = [bsq[1] EXCEPT !.len = @ - n]
        /\ \A i \in 2..Len(bsq) : bsq'[i] = bsq[i]
    BY <2>2, <2>3, <1>0, <1>2
  <2>5. bsq'[1].id = next_id /\ bsq'[1].len = bsq[1].len - n /\ n < bsq[1].len
    BY <2>4, <1>3, <1>4, <1>10 DEF ByteStream
  <2> QED
    BY <1>1, <1>2, <1>4, <1>7, <1>8, <2>1, <2>4, <2>5
<1> QED
  BY <1>9, <1>10

(* ... the files ...                                                       *)
TakeFile(n) ==
    /\ wire' = wire \o SubSeq(Head(sfq).rest, 1, n)
    /\ IF n = Len(Head(sfq).rest)
         THEN sfq' = Tail(sfq) /\ next_id' = next_id + 1
         ELSE /\ sfq' = [sfq EXCEPT ![1].rest = SubSeq(Head(sfq).rest, n + 1, Len(Head(sfq).rest))]
              /\ UNCHANGED next_id

(* handle_write() puts n units of the first file on the wire.              *)
LEMMA FileTaken ==
    ASSUME OpType, FileNext, NEW n \in 1..Len(Head(sfq).rest), TakeFile(n)
    PROVE  /\ sfq # <<>> /\ 1 \in 1..Len(sfq) /\ Head(sfq) = sfq[1] /\ sfq[1].id = next_id
           /\ wire' \in Seq(Unit) /\ Len(wire') = Len(wire) + n
           /\ \A j \in 1..Len(wire) : wire'[j] = wire[j]
           /\ \A j \in 1..n : wire'[Len(wire) + j] = sfq[1].rest[j]
           /\ sfq' \in Seq(SendFile)
           /\ \/ /\ n = Len(sfq[1].rest) /\ next_id' = next_id + 1
                 /\ Len(sfq') = Len(sfq) - 1
                 /\ \A i \in 1..(Len(sfq) - 1) : sfq'[i] = sfq[i + 1]
              \/ /\ n < Len(sfq[1].rest) /\ next_id' = next_id
                 /\ Len(sfq') = Len(sfq)
                 /\ sfq'[1].id = next_id /\ Len(sfq'[1].rest) = Len(sfq[1].rest) - n
                 /\ \A j \in 1..(Len(sfq[1].rest) - n) : sfq'[1].rest[j] = sfq[1].rest[n + j]
                 /\ \A i \in 2..Len(sfq) : sfq'[i] = sfq[i]
<1>1. /\ sfq \in Seq(SendFile) /\ wire \in Seq(Unit)
      /\ sfq # <<>> /\ Head(sfq).id = next_id
  BY DEF OpType, FileNext
<1>0. sfq \in Seq(SendFile)
  BY <1>1
<1>2. Len(sfq) \in Nat /\ Len(sfq) >= 1 /\ Head(sfq) = sfq[1] /\ 1 \in 1..Len(sfq)
  BY <1>1
<1>3. sfq[1] \in SendFile
  BY <1>0, <1>2
<1> DEFINE r == sfq[1].rest
           a == SubSeq(r, 1, n)
           b == SubSeq(r, n + 1, Len(r))
<1>4. r \in Seq(Unit) /\ n \in 0..Len(r) /\ n \in Nat /\ sfq[1].id = next_id
  BY <1>1, <1>2, <1>3 DEF SendFile
<1>5. /\ wire' = wire \o a
      /\ IF n = Len(r) THEN sfq' = Tail(sfq) /\ next_id' = next_id + 1
         ELSE sfq' = [sfq EXCEPT ![1].rest = b] /\ next_id' = next_id
  BY <1>2 DEF TakeFile
<1>6. /\ a \in Seq(Unit) /\ Len(a) = n /\ \A j \in 1..n : a[j] = r[j]
      /\ b \in Seq(Unit) /\ Len(b) = Len(r) - n
      /\ \A j \in 1..(Len(r) - n) : b[j] = r[n + j]
  <2> HIDE DEF r
  <2> QED
    BY <1>4, Cut
<1> HIDE DEF a, b
<1>7. /\ wire' \in Seq(Unit) /\ Len(wire') = Len(wire) + n
      /\ \A j \in 1..Len(wire) : wire'[j] = wire[j]
      /\ \A j \in 1..n : wire'[Len(wire) + j] = r[j]
  <2> HIDE DEF r
  <2>1. wire' = wire \o a /\ wire \in Seq(Unit) /\ a \in Seq(Unit)
    BY <1>1, <1>5, <1>6
  <2>2. /\ wire' \in Seq(Unit) /\ Len(wire') = Len(wire) + Len(a)
        /\ \A j \in 1..Len(wire) : wire'[j] = wire[j]
        /\ \A j \in 1..Len(a) : wire'[Len(wire) + j] = a[j]
    BY <2>1, Joined
  <2> QED
    BY <2>2, <1>6
<1>9. CASE n = Len(r)
  <2>1. sfq' = Tail(sfq) /\ next_id' = next_id + 1
    BY <1>5, <1>9
  <2>2. /\ sfq' \in Seq(SendFile) /\ Len(sfq') = Len(sfq) - 1
        /\ \A i \in 1..(Len(sfq) - 1) : sfq'[i] = sfq[i + 1]
    BY <2>1, <1>0, <1>2
  <2> QED
    BY <1>1, <1>2, <1>4, <1>7, <1>9, <2>1, <2>2
<1>10. CASE n # Len(r)
  <2>1. sfq' = [sfq EXCEPT ![1].rest = b] /\ next_id' = next_id
    BY <1>5, <1>10
  <2>2. sfq' = [sfq EXCEPT ![1] = [sfq[1] EXCEPT !.rest = b]]
    BY <2>1
  <2>3. [sfq[1] EXCEPT !.rest = b] \in SendFile
    BY <1>3, <1>6 DEF SendFile
  <2>4. /\ sfq' \in Seq(SendFile) /\ Len(sfq') = Len(sfq)
        /\ sfq'[1] = [sfq[1] EXCEPT !.rest = b]
        /\ \A i \in 2..Len(sfq) : sfq'[i] = sfq[i]
    BY <2>2, <2>3, <1>0, <1>2
  <2>5. sfq'[1].id = next_id /\ sfq'[1].rest = b
    BY <2>4, <1>3, <1>4
  <2>6. n < Len(r)
    BY <1>4, <1>10
  <2> QED
    BY <1>1, <1>2, <1>4, <1>6, <1>7, <2>1, <2>4, <2>5, <2>6
<1> QED
  BY <1>9, <1>10

(* ... and the send-complete handlers.                                     *)
LEMMA HandlerTaken ==
    ASSUME OpType, HandlerNext, schq' = Tail(schq)
    PROVE  /\ schq # <<>> /\ 1 \in 1..Len(schq) /\ Head(schq) = schq[1]
           /\ schq[1].id = next_id /\ schq[1].k \in Calls
           /\ schq' \in Seq(SendComplete) /\ Len(schq') = Len(schq) - 1
           /\ \A i \in 1..(Len(schq) - 1) : schq'[i] = schq[i + 1]
<1>1. schq \in Seq(SendComplete) /\ schq # <<>> /\ Head(schq).id = next_id
  BY DEF OpType, HandlerNext
<1>0. schq \in Seq(SendComplete)
  BY <1>1
<1>2. Len(schq) \in Nat /\ Len(schq) >= 1 /\ Head(schq) = schq[1] /\ 1 \in 1..Len(schq)
  BY <1>1
<1>3. schq[1] \in SendComplete
  BY <1>0, <1>2
<1>4. /\ schq' \in Seq(SendComplete) /\ Len(schq') = Len(schq) - 1
      /\ \A i \in 1..(Len(schq) - 1) : schq'[i] = schq[i + 1]
  BY <1>0, <1>2
<1> QED
  BY <1>1, <1>2, <1>3, <1>4 DEF SendComplete

(* The byte stream that is next is in output_buf.                          *)
LEMMA BytesAreThere ==
    ASSUME OpType, BytesNext, LayoutInv, ~is_closed
    PROVE  Head(bsq).len \in Nat /\ Head(bsq).len <= Len(out)
<1>1. bsq \in Seq(ByteStream) /\ bsq # <<>> /\ out \in Seq(Unit)
  BY DEF OpType, BytesNext
<1>0. bsq \in Seq(ByteStream)
  BY <1>1
<1>6. Len(bsq) \in Nat /\ Len(bsq) >= 1 /\ Head(bsq) = bsq[1] /\ 1 \in 1..Len(bsq)
  BY <1>1
<1>7. bsq[1] \in ByteStream
  BY <1>0, <1>6
<1>2. Len(bsq) \in Nat /\ Len(bsq) >= 1 /\ Head(bsq) = bsq[1] /\ bsq[1].len \in Nat
  BY <1>6, <1>7 DEF ByteStream
<1>3. PICK st, os \in [Nat -> Nat] : Layout(st, os)
  BY DEF LayoutInv
<1>4. BufferOffsets(os)
  BY <1>3 DEF Layout
<1>5. os[1] = 0 /\ os[Len(bsq) + 1] = Len(out) /\ os[1 + 1] = os[1] + bsq[1].len
  BY <1>4, <1>6 DEF BufferOffsets
<1> DEFINE m == Len(bsq)
<1>m. m \in Nat /\ m >= 1
  BY <1>6
<1> HIDE DEF m
<1>8. 2 \in 1..(m + 1) /\ m + 1 \in 1..(m + 1) /\ 2 <= m + 1
  BY <1>m
<1>9. os[2] <= os[m + 1]
  BY <1>4, <1>8 DEF BufferOffsets, Mono, m
<1>10. os[2] = bsq[1].len
  <2>1. os[1 + 1] = 0 + bsq[1].len /\ bsq[1].len \in Nat
    BY <1>2, <1>5
  <2> QED
    BY <2>1
<1> QED
  BY <1>2, <1>5, <1>9, <1>10 DEF m

(* Every step keeps the types and StateInv.                                *)
LEMMA BaseNext ==
    ASSUME BaseInv, LayoutInv, [Next]_vars
    PROVE  BaseInv'
<1>c. ConnectionAssumption
  BY ConnectionAssumption
<1>s. Some(functors)
  BY SomeAll DEF BaseInv
<1>f. functors \in Seq(Functor)
  BY DEF BaseInv, OpInv, OpType
<1>0. ASSUME NEW q, Some(q), Leaves(q), Kept, OpInv', ThreadType', ncalls <= ncalls',
             pc' \in {"bytes", "file", "handlers"} => ~is_closed',
             pc' = "complete" => pc = "complete"
      PROVE  BaseInv'
  <2>1. functors' \in Seq(Functor) /\ ncalls' \in Nat
    BY <1>0 DEF OpInv, OpType, ThreadType
  <2>2. /\ \A i \in 1..Len(functors') : functors'[i].op = "erase" => is_closed'
        /\ \A i \in 1..Len(functors') :
              functors'[i].op \in {"send", "file", "handler"} => functors'[i].k \in 1..ncalls'
    BY <1>0, <2>1, StateNext DEF Kept
  <2>3. pc' = "complete" => HandlerNext'
    BY <1>0 DEF Kept, BaseInv, StateInv
  <2> QED
    BY <1>0, <2>2, <2>3 DEF BaseInv, StateInv
<1>p. ASSUME UNCHANGED <<sendVars, histVars, closeVars, callVars, functors, blocked>>,
             pc' \in {"idle", "message", "bytes", "file", "handlers", "complete", "end"},
             pc' \in {"bytes", "file", "handlers"} => ~is_closed,
             pc' = "complete" => pc = "complete"
      PROVE  BaseInv'
  <2>1. OpInv'
    BY <1>p DEF sendVars, histVars, closeVars, BaseInv, OpInv, OpType, ClosedOnce, WriteArmed,
                is_closed, send_queue_is_empty
  <2>2. ThreadType' /\ ncalls <= ncalls'
    BY <1>p DEF callVars, BaseInv, ThreadType
  <2>3. Leaves(functors) /\ Kept /\ is_closed' = is_closed
    BY <1>p DEF sendVars, closeVars, Leaves, Kept, HandlerNext, is_closed
  <2> QED
    BY <1>p, <1>s, <1>0, <2>1, <2>2, <2>3
<1>k. ASSUME InUserCode, ncalls < MaxCalls, ncalls' = ncalls + 1
      PROVE  ncalls' \in Calls /\ ncalls' \in 0..MaxCalls /\ ncalls <= ncalls'
  BY <1>k, <1>c DEF Calls, BaseInv, ThreadType, ConnectionAssumption
<1>u. InUserCode => pc \notin {"bytes", "file", "handlers"}
  BY DEF InUserCode
<1>1. CASE CallInLoop
  <2>1. /\ InUserCode /\ ncalls < MaxCalls /\ ncalls' = ncalls + 1
        /\ UNCHANGED <<pc, ncloses, waiters>>
        /\ \/ send_in_loop(ncalls', functors) \/ send_file_in_loop(ncalls', functors)
           \/ set_send_complete_handler(ncalls', functors)
    BY <1>1 DEF CallInLoop
  <2>2. ncalls' \in Calls /\ ncalls' \in 0..MaxCalls /\ ncalls <= ncalls'
    BY <1>k, <2>1
  <2>3. OpInv' /\ Leaves(functors) /\ Kept
    BY <2>1, <2>2, <1>f, SendInv, SendFileInv, SetHandlerInv DEF BaseInv
  <2>4. ThreadType'
    BY <2>1, <2>2 DEF BaseInv, ThreadType
  <2> QED
    BY <1>0, <1>s, <1>u, <2>1, <2>2, <2>3, <2>4
<1>3. CASE CloseInLoop
  <2>1. /\ InUserCode /\ ncloses < MaxCloses /\ ncloses' = ncloses + 1
        /\ UNCHANGED <<pc, ncalls, waiters>>
        /\ handle_close(functors) /\ UNCHANGED <<histVars, blocked>>
    BY <1>3 DEF CloseInLoop
  <2>3. OpInv' /\ Leaves(functors) /\ Kept
    BY <2>1, <1>f, HandleCloseInv DEF BaseInv
  <2>4. ThreadType' /\ ncalls <= ncalls'
    BY <2>1, <1>c DEF BaseInv, ThreadType, ConnectionAssumption
  <2> QED
    BY <1>0, <1>s, <1>u, <2>1, <2>3, <2>4
<1>t. ASSUME UNCHANGED <<pc, sendVars, histVars, closeVars, blocked>>, NEW f \in Functor,
             functors' = Append(functors, f), ThreadType', ncalls <= ncalls',
             f.op # "erase", f.op \in {"send", "file", "handler"} => f.k \in 1..ncalls'
      PROVE  BaseInv'
  <2>1. functors' \in Seq(Functor)
    BY <1>t, <1>f
  <2>2. OpInv'
    BY <1>t, <2>1 DEF sendVars, histVars, closeVars, BaseInv, OpInv, OpType, ClosedOnce,
                WriteArmed, is_closed, send_queue_is_empty
  <2>3. ASSUME NEW i \in 1..Len(functors')
        PROVE  /\ functors'[i].op = "erase" => is_closed'
               /\ functors'[i].op \in {"send", "file", "handler"} => functors'[i].k \in 1..ncalls'
    <3>1. /\ Len(functors') = Len(functors) + 1 /\ functors'[Len(functors) + 1] = f
          /\ \A j \in 1..Len(functors) : functors'[j] = functors[j]
      BY <1>t, <1>f
    <3>2. CASE i \in 1..Len(functors)
      <4>1. /\ functors[i].op = "erase" => is_closed
            /\ functors[i].op \in {"send", "file", "handler"} => functors[i].k \in 1..ncalls
        BY <3>2 DEF BaseInv, StateInv
      <4>2. ncalls \in Nat /\ ncalls' \in Nat /\ is_closed' = is_closed
        BY <1>t DEF BaseInv, ThreadType, closeVars, is_closed
      <4> QED
        BY <3>1, <3>2, <4>1, <4>2, <1>t
    <3>3. CASE i = Len(functors) + 1
      BY <3>1, <3>3, <1>t
    <3> QED
      BY <3>1, <3>2, <3>3, <1>f
  <2>4. /\ pc' \in {"bytes", "file", "handlers"} => ~is_closed'
        /\ pc' = "complete" => HandlerNext'
    BY <1>t DEF BaseInv, StateInv, is_closed, HandlerNext, sendVars, closeVars
  <2> QED
    BY <1>t, <2>2, <2>3, <2>4 DEF BaseInv, StateInv
<1>2. CASE CallFromOther
  <2>1. PICK op \in {"send", "file", "handler"} :
          functors' = Append(functors, [op |-> op, k |-> ncalls'])
    BY <1>2 DEF CallFromOther
  <2>2. /\ ncalls < MaxCalls /\ ncalls' = ncalls + 1
        /\ UNCHANGED <<pc, sendVars, histVars, closeVars, ncloses, waiters, blocked>>
    BY <1>2 DEF CallFromOther
  <2>3. ncalls' \in 1..ncalls' /\ ncalls' \in Nat /\ ncalls <= ncalls' /\ ThreadType'
    BY <2>2, <1>c DEF BaseInv, ThreadType, ConnectionAssumption
  <2>4. [op |-> op, k |-> ncalls'] \in Functor
    BY <2>3 DEF Functor
  <2> QED
    BY <2>1, <2>2, <2>3, <2>4, <1>t
<1>4. CASE CloseFromOther
  <2>1. /\ functors' = Append(functors, [op |-> "close", k |-> 0])
        /\ ncloses < MaxCloses /\ ncloses' = ncloses + 1
        /\ UNCHANGED <<pc, sendVars, histVars, closeVars, ncalls, waiters, blocked>>
    BY <1>4 DEF CloseFromOther
  <2>2. ncalls <= ncalls' /\ ThreadType'
    BY <2>1, <1>c DEF BaseInv, ThreadType, ConnectionAssumption
  <2>3. [op |-> "close", k |-> 0] \in Functor
    BY DEF Functor
  <2> QED
    BY <2>1, <2>2, <2>3, <1>t
<1>5. CASE CloseWaitFromOther
  <2>1. /\ functors' = Append(functors, [op |-> "close_wait", k |-> ncloses'])
        /\ ncloses < MaxCloses /\ ncloses' = ncloses + 1
        /\ waiters' = waiters \cup {ncloses'}
        /\ UNCHANGED <<pc, sendVars, histVars, closeVars, ncalls, blocked>>
    BY <1>5 DEF CloseWaitFromOther
  <2>2. ncalls <= ncalls' /\ ThreadType' /\ ncloses' \in Nat
    BY <2>1, <1>c DEF BaseInv, ThreadType, ConnectionAssumption
  <2>3. [op |-> "close_wait", k |-> ncloses'] \in Functor
    BY <2>2 DEF Functor
  <2> QED
    BY <2>1, <2>2, <2>3, <1>t
<1>6. CASE RunFunctor
  <2> DEFINE f == Head(functors)
             q == Tail(functors)
  <2>1. pc = "idle" /\ functors # <<>> /\ UNCHANGED <<pc, ncalls, ncloses>>
    BY <1>6 DEF RunFunctor
  <2>2. Some(q) /\ f \in Functor /\ f = functors[1] /\ 1 \in 1..Len(functors)
    BY <2>1, SomeTail DEF BaseInv
  <2>q. q \in Seq(Functor)
    BY <2>2 DEF Some
  <2>3. f.op \in {"send", "file", "handler"} => f.k \in Calls
    <3>1. f.op \in {"send", "file", "handler"} => f.k \in 1..ncalls
      BY <2>2 DEF BaseInv, StateInv
    <3> QED
      BY <3>1, <1>c DEF BaseInv, ThreadType, Calls, ConnectionAssumption
  <2>4. \/ f.op = "send" /\ send_in_loop(f.k, q) /\ UNCHANGED waiters
        \/ f.op = "file" /\ send_file_in_loop(f.k, q) /\ UNCHANGED waiters
        \/ f.op = "handler" /\ set_send_complete_handler(f.k, q) /\ UNCHANGED waiters
        \/ /\ f.op \in {"close", "close_wait"}
           /\ handle_close(q)
           /\ waiters' = IF f.op = "close_wait" THEN waiters \ {f.k} ELSE waiters
           /\ UNCHANGED <<histVars, blocked>>
        \/ /\ f.op = "erase"
           /\ chan' = "erased" /\ writing' = FALSE
           /\ functors' = q
           /\ UNCHANGED <<out, bsq, sfq, schq, send_id, next_id, wire, histVars,
                          state, closes, failed, waiters, blocked>>
        \/ /\ f.op = "hwm"
           /\ functors' = q
           /\ UNCHANGED <<sendVars, histVars, closeVars, waiters, blocked>>
    BY <1>6 DEF RunFunctor
  <2>5. f.op = "erase" => is_closed
    BY <2>2 DEF BaseInv, StateInv
  <2>6. waiters' \subseteq waiters
    BY <2>4
  <2>7. ThreadType' /\ ncalls <= ncalls'
    BY <2>1, <2>6 DEF BaseInv, ThreadType
  <2> HIDE DEF f, q
  <2>8. OpInv' /\ Leaves(q) /\ Kept
    <3>1. CASE f.op = "send" /\ send_in_loop(f.k, q)
      BY <3>1, <2>3, <2>q, SendInv DEF BaseInv
    <3>2. CASE f.op = "file" /\ send_file_in_loop(f.k, q)
      BY <3>2, <2>3, <2>q, SendFileInv DEF BaseInv
    <3>3. CASE f.op = "handler" /\ set_send_complete_handler(f.k, q)
      BY <3>3, <2>3, <2>q, SetHandlerInv DEF BaseInv
    <3>4. CASE handle_close(q) /\ UNCHANGED <<histVars, blocked>>
      BY <3>4, <2>q, HandleCloseInv DEF BaseInv
    <3>5. CASE /\ f.op = "erase"
               /\ chan' = "erased" /\ writing' = FALSE
               /\ functors' = q
               /\ UNCHANGED <<out, bsq, sfq, schq, send_id, next_id, wire, histVars,
                              state, closes, failed, waiters, blocked>>
      BY <3>5, <2>5, <2>q DEF histVars, BaseInv, OpInv, OpType, ClosedOnce, WriteArmed,
                    is_closed, Leaves, Kept, HandlerNext
    <3>6. CASE functors' = q /\ UNCHANGED <<sendVars, histVars, closeVars, blocked>>
      BY <3>6, <2>q DEF sendVars, histVars, closeVars, BaseInv, OpInv, OpType, ClosedOnce,
                    WriteArmed, is_closed, Leaves, Kept, HandlerNext, send_queue_is_empty
    <3> QED
      BY <2>4, <3>1, <3>2, <3>3, <3>4, <3>5, <3>6
  <2> QED
    BY <1>0, <2>1, <2>2, <2>7, <2>8
<1>7. CASE ReadMessage
  BY <1>7, <1>p DEF ReadMessage
<1>8. CASE EndMessage
  BY <1>8, <1>p DEF EndMessage
<1>n. ASSUME NEW f \in BOOLEAN, ~is_closed, CloseNow(functors, f), pc' = "idle",
             UNCHANGED <<out, bsq, sfq, schq, send_id, next_id, wire, histVars,
                         callVars, blocked>>
      PROVE  BaseInv'
  <2>1. /\ state' = "Closed" /\ chan' = "disabled" /\ writing' \in BOOLEAN
        /\ is_closed' /\ ClosedOnce' /\ Leaves(functors)
        /\ functors' \in Seq(Functor) /\ closes' \in Nat /\ failed' \in BOOLEAN
    BY <1>n, <1>f, CloseNowInv DEF BaseInv
  <2>2. OpInv' /\ Kept
    BY <1>n, <2>1 DEF BaseInv, OpInv, OpType, histVars, WriteArmed, Kept, HandlerNext
  <2>3. ThreadType' /\ ncalls <= ncalls'
    BY <1>n DEF callVars, BaseInv, ThreadType
  <2> QED
    BY <1>0, <1>n, <1>s, <2>1, <2>2, <2>3
<1>9. CASE ReadEnd
  <2>1. ~is_closed
    BY <1>9 DEF ReadEnd, BaseInv, OpInv
  <2> QED
    BY <1>9, <2>1, <1>n DEF ReadEnd
<1>10. CASE HandleWrite
  <2>1. ~is_closed
    BY <1>10 DEF HandleWrite, BaseInv, OpInv
  <2> QED
    BY <1>10, <2>1, <1>p DEF HandleWrite
<1>12. CASE WriteNoBytes
  BY <1>12, <1>p DEF WriteNoBytes, BaseInv, StateInv
<1>14. CASE WriteNoFile
  BY <1>14, <1>p DEF WriteNoFile, BaseInv, StateInv
<1>18. CASE CallNoHandler
  BY <1>18, <1>p DEF CallNoHandler
<1>20. CASE UNCHANGED vars
  BY <1>20, <1>p DEF vars, BaseInv, StateInv, ThreadType
<1>15. CASE WriteError
  <2>1. ~is_closed
    BY <1>15 DEF WriteError, BaseInv, StateInv
  <2> QED
    BY <1>15, <2>1, <1>n DEF WriteError
<1>w. ASSUME OpType', UNCHANGED <<closeVars, callVars, functors>>, writing' = writing,
             ~is_closed \/ pc = "complete",
             pc' \in {"file", "handlers", "complete", "end"},
             pc' \in {"file", "handlers"} => ~is_closed,
             pc' = "complete" => HandlerNext',
             ~is_closed => (bsq' # <<>> \/ sfq' # <<>> \/ schq' # <<>>
                            => bsq # <<>> \/ sfq # <<>> \/ schq # <<>>)
      PROVE  BaseInv'
  <2>1. OpInv'
    BY <1>w DEF BaseInv, OpInv, closeVars, ClosedOnce, WriteArmed, is_closed, send_queue_is_empty
  <2>2. ThreadType'
    BY <1>w DEF callVars, BaseInv, ThreadType
  <2> QED
    BY <1>w, <2>1, <2>2 DEF BaseInv, StateInv, closeVars, callVars, is_closed
<1>o. OpType
  BY DEF BaseInv, OpInv
<1>11. CASE WriteBytes
  <2>1. /\ pc = "bytes" /\ BytesNext /\ pc' = "file"
        /\ UNCHANGED <<writing, sfq, schq, send_id, histVars, closeVars, callVars,
                       functors, blocked>>
    BY <1>11 DEF WriteBytes
  <2>2. ~is_closed
    BY <2>1 DEF BaseInv, StateInv
  <2>3. Head(bsq).len \in Nat /\ Head(bsq).len <= Len(out)
    BY <1>o, <2>1, <2>2, BytesAreThere
  <2>4. PICK n \in 1..Head(bsq).len : TakeBytes(n)
    BY <1>11 DEF WriteBytes
  <2>5. n <= Len(out)
    BY <2>3, <2>4, <1>o DEF OpType
  <2>6. /\ bsq # <<>> /\ wire' \in Seq(Unit) /\ out' \in Seq(Unit)
        /\ bsq' \in Seq(ByteStream)
        /\ next_id' \in {next_id, next_id + 1}
    BY <1>o, <2>1, <2>4, <2>5, BytesTaken
  <2>7. OpType'
    BY <1>o, <2>1, <2>6 DEF OpType, histVars, closeVars
  <2> QED
    BY <1>w, <2>1, <2>2, <2>6, <2>7
<1>13. CASE WriteFile
  <2>1. /\ pc = "file" /\ FileNext /\ pc' = "handlers"
        /\ UNCHANGED <<writing, out, bsq, schq, send_id, histVars, closeVars, callVars,
                       functors, blocked>>
    BY <1>13 DEF WriteFile
  <2>2. ~is_closed
    BY <2>1 DEF BaseInv, StateInv
  <2>4. PICK n \in 1..Len(Head(sfq).rest) : TakeFile(n)
    BY <1>13 DEF WriteFile, TakeFile
  <2>6. /\ sfq # <<>> /\ wire' \in Seq(Unit)
        /\ sfq' \in Seq(SendFile)
        /\ next_id' \in {next_id, next_id + 1}
    BY <1>o, <2>1, <2>4, FileTaken
  <2>7. OpType'
    BY <1>o, <2>1, <2>6 DEF OpType, histVars, closeVars
  <2> QED
    BY <1>w, <2>1, <2>2, <2>6, <2>7
<1>16. CASE CallHandler
  <2>1. /\ pc = "handlers" /\ HandlerNext /\ pc' = "complete"
        /\ handled' = Append(handled, Head(schq).k)
        /\ UNCHANGED <<sendVars, accepted, mark, closeVars, callVars, functors, blocked>>
    BY <1>16 DEF CallHandler
  <2>2. ~is_closed
    BY <2>1 DEF BaseInv, StateInv
  <2>3. Head(schq).k \in Calls
    <3>1. schq \in Seq(SendComplete) /\ schq # <<>>
      BY <1>o, <2>1 DEF OpType, HandlerNext
    <3>2. Head(schq) \in SendComplete
      BY <3>1
    <3> QED
      BY <3>2 DEF SendComplete
  <2>4. handled' \in Seq(Calls)
    BY <1>o, <2>1, <2>3 DEF OpType
  <2>5. OpType' /\ HandlerNext'
    BY <1>o, <2>1, <2>4 DEF OpType, sendVars, closeVars, HandlerNext
  <2> QED
    BY <1>w, <2>1, <2>2, <2>5 DEF sendVars
<1>17. CASE EndHandler
  <2>1. /\ pc = "complete" /\ pc' = "end" /\ schq' = Tail(schq) /\ next_id' = next_id + 1
        /\ UNCHANGED <<writing, out, bsq, sfq, send_id, wire, histVars, closeVars, callVars,
                       functors, blocked>>
    BY <1>17 DEF EndHandler
  <2>2. HandlerNext
    BY <2>1 DEF BaseInv, StateInv
  <2>3. schq # <<>> /\ schq' \in Seq(SendComplete)
    BY <1>o, <2>1, <2>2, HandlerTaken
  <2>4. OpType'
    BY <1>o, <2>1, <2>3 DEF OpType, histVars, closeVars
  <2> QED
    BY <1>w, <2>1, <2>3, <2>4
<1>19. CASE EndWrite
  <2>1. CASE state = "Closing" /\ CloseNow(functors, FALSE)
    BY <1>19, <2>1, <1>n DEF EndWrite, is_closed
  <2>2. CASE UNCHANGED <<writing, closeVars, functors>>
    BY <1>19, <2>2, <1>p DEF EndWrite, sendVars
  <2>3. CASE send_queue_is_empty /\ schq = <<>> /\ writing' = FALSE /\ UNCHANGED <<closeVars, functors>>
    <3>1. /\ pc' = "idle"
          /\ UNCHANGED <<out, bsq, sfq, schq, send_id, next_id, wire, histVars, callVars, blocked>>
      BY <1>19 DEF EndWrite
    <3>2. OpInv'
      BY <2>3, <3>1 DEF histVars, closeVars, BaseInv, OpInv, OpType, ClosedOnce,
                        WriteArmed, is_closed, send_queue_is_empty
    <3>3. ThreadType' /\ ncalls <= ncalls'
      BY <3>1 DEF callVars, BaseInv, ThreadType
    <3>4. Leaves(functors) /\ Kept
      BY <2>3, <3>1 DEF closeVars, Leaves, Kept, HandlerNext, is_closed
    <3> QED
      BY <1>0, <1>s, <3>1, <3>2, <3>3, <3>4
  <2> QED
    BY <1>19, <2>1, <2>2, <2>3 DEF EndWrite
<1> QED
  BY <1>1, <1>2, <1>3, <1>4, <1>5, <1>6, <1>7, <1>8, <1>9, <1>10, <1>11, <1>12, <1>13, <1>14,
     <1>15, <1>16, <1>17, <1>18, <1>19, <1>20 DEF Next, LoopStep, Progress

-----------------------------------------------------------------------------
(* The pending ids.  The order of the three queues does not matter, ...    *)
LEMMA IdsSwap ==
    ASSUME NEW s, NEW t, NEW u, NEW n \in Nat, NEW m \in Nat,
           Len(s) \in Nat, Len(t) \in Nat, Len(u) \in Nat, Ids(s, t, u, n, m)
    PROVE  Ids(t, s, u, n, m) /\ Ids(u, t, s, n, m)
BY DEF Ids

(* ... an entry at the end of one takes the next id, ...                   *)
LEMMA IdsPush ==
    ASSUME NEW s, NEW t, NEW u, NEW n \in Nat, NEW m \in Nat, NEW v,
           Len(s) \in Nat, Len(t) \in Nat, Len(u) \in Nat, Ids(s, t, u, n, m),
           Len(v) = Len(s) + 1, v[Len(s) + 1].id = m,
           \A i \in 1..Len(s) : v[i].id = s[i].id
    PROVE  Ids(v, t, u, n, m + 1)
<1> DEFINE l == Len(s)
<1>0. l \in Nat /\ Len(v) = l + 1 /\ v[l + 1].id = m /\ \A i \in 1..l : v[i].id = s[i].id
  OBVIOUS
<1>1. /\ n <= m /\ l + Len(t) + Len(u) = m - n
      /\ \A i \in 1..l : s[i].id \in n..(m - 1)
      /\ \A i \in 1..Len(t) : t[i].id \in n..(m - 1)
      /\ \A i \in 1..Len(u) : u[i].id \in n..(m - 1)
  BY DEF Ids
<1>i. \A i \in 1..(l + 1) : i \in 1..l \/ i = l + 1
  BY <1>0
<1>2. \A i, j \in 1..l : s[i].id = s[j].id => i = j
  BY DEF Ids
<1>3. /\ \A i \in 1..l, j \in 1..Len(t) : s[i].id # t[j].id
      /\ \A i \in 1..l, j \in 1..Len(u) : s[i].id # u[j].id
  BY DEF Ids
<1>4. /\ \A i, j \in 1..Len(t) : t[i].id = t[j].id => i = j
      /\ \A i, j \in 1..Len(u) : u[i].id = u[j].id => i = j
      /\ \A i \in 1..Len(t), j \in 1..Len(u) : t[i].id # u[j].id
  BY DEF Ids
<1>5. \A a \in n..(m - 1) : \/ \E i \in 1..l : s[i].id = a
                            \/ \E i \in 1..Len(t) : t[i].id = a
                            \/ \E i \in 1..Len(u) : u[i].id = a
  BY DEF Ids
<1>a. n <= m /\ l + Len(t) + Len(u) = m - n
  BY <1>1
<1> HIDE DEF l
<1>b. ASSUME NEW i \in 1..l PROVE v[i].id = s[i].id /\ v[i].id \in n..(m - 1) /\ v[i].id < m
  BY <1>0, <1>1
<1>6. ASSUME NEW i \in 1..(l + 1) PROVE v[i].id \in n..m
  BY <1>0, <1>a, <1>b, <1>i
<1>7. \A i, j \in 1..(l + 1) : v[i].id = v[j].id => i = j
  <2> SUFFICES ASSUME NEW i \in 1..(l + 1), NEW j \in 1..(l + 1), v[i].id = v[j].id PROVE i = j
    OBVIOUS
  <2>1. CASE i \in 1..l /\ j \in 1..l
    BY <2>1, <1>0, <1>2
  <2> QED
    BY <2>1, <1>0, <1>b, <1>i
<1>8. ASSUME NEW i \in 1..(l + 1)
      PROVE  /\ \A j \in 1..Len(t) : v[i].id # t[j].id
             /\ \A j \in 1..Len(u) : v[i].id # u[j].id
  <2>1. CASE i \in 1..l
    BY <2>1, <1>b, <1>3
  <2>2. CASE i = l + 1
    BY <2>2, <1>0, <1>1
  <2> QED
    BY <2>1, <2>2, <1>i
<1>9. ASSUME NEW a \in n..m
      PROVE  \/ \E i \in 1..(l + 1) : v[i].id = a
             \/ \E i \in 1..Len(t) : t[i].id = a
             \/ \E i \in 1..Len(u) : u[i].id = a
  <2>1. CASE a = m
    BY <2>1, <1>0
  <2>2. CASE a \in n..(m - 1)
    <3>1. ASSUME NEW i \in 1..l, s[i].id = a PROVE i \in 1..(l + 1) /\ v[i].id = a
      BY <3>1, <1>0
    <3> QED
      BY <2>2, <3>1, <1>5
  <2> QED
    BY <2>1, <2>2
<1> DEFINE p == m + 1
<1>10. n <= p /\ p - 1 = m /\ (l + 1) + Len(t) + Len(u) = p - n
  BY <1>0, <1>a DEF p
<1> HIDE DEF p
<1>11. /\ \A i \in 1..Len(t) : t[i].id \in n..m
       /\ \A i \in 1..Len(u) : u[i].id \in n..m
  BY <1>1
<1>v. Len(v) = l + 1
  BY <1>0
<1>12. /\ \A i \in 1..Len(v) : v[i].id \in n..(p - 1)
       /\ \A i \in 1..Len(t) : t[i].id \in n..(p - 1)
       /\ \A i \in 1..Len(u) : u[i].id \in n..(p - 1)
  BY <1>v, <1>6, <1>10, <1>11
<1>13. ASSUME NEW a \in n..(p - 1)
       PROVE  \/ \E i \in 1..Len(v) : v[i].id = a
              \/ \E i \in 1..Len(t) : t[i].id = a
              \/ \E i \in 1..Len(u) : u[i].id = a
  <2>1. a \in n..m
    BY <1>10
  <2> QED
    BY <2>1, <1>9, <1>v
<1>14. /\ \A i, j \in 1..Len(v) : v[i].id = v[j].id => i = j
       /\ \A i \in 1..Len(v), j \in 1..Len(t) : v[i].id # t[j].id
       /\ \A i \in 1..Len(v), j \in 1..Len(u) : v[i].id # u[j].id
  BY <1>v, <1>7, <1>8
<1>15. n <= p /\ Len(v) + Len(t) + Len(u) = p - n
  BY <1>v, <1>10
<1>16. Ids(v, t, u, n, p)
  BY <1>4, <1>12, <1>13, <1>14, <1>15, Zenon DEF Ids
<1> QED
  BY <1>16 DEF p

(* ... the first entry of one, if it is next, takes its id with it, ...    *)
LEMMA IdsPop ==
    ASSUME NEW s, NEW t, NEW u, NEW n \in Nat, NEW m \in Nat, NEW v,
           Len(s) \in Nat, Len(t) \in Nat, Len(u) \in Nat, Ids(s, t, u, n, m),
           Len(s) >= 1, s[1].id = n, Len(v) = Len(s) - 1,
           \A i \in 1..(Len(s) - 1) : v[i].id = s[i + 1].id
    PROVE  Ids(v, t, u, n + 1, m)
<1> DEFINE l == Len(s)
<1>0. /\ l \in Nat /\ l >= 1 /\ Len(v) = l - 1 /\ s[1].id = n /\ 1 \in 1..l
      /\ \A i \in 1..(l - 1) : v[i].id = s[i + 1].id
  OBVIOUS
<1>1. /\ n <= m /\ l + Len(t) + Len(u) = m - n
      /\ \A i \in 1..l : s[i].id \in n..(m - 1)
      /\ \A i \in 1..Len(t) : t[i].id \in n..(m - 1)
      /\ \A i \in 1..Len(u) : u[i].id \in n..(m - 1)
  BY DEF Ids
<1>i. \A i \in 1..(l - 1) : i + 1 \in 1..l /\ i + 1 # 1
  BY <1>0
<1>2. \A i, j \in 1..l : s[i].id = s[j].id => i = j
  BY DEF Ids
<1>3. /\ \A i \in 1..l, j \in 1..Len(t) : s[i].id # t[j].id
      /\ \A i \in 1..l, j \in 1..Len(u) : s[i].id # u[j].id
  BY DEF Ids
<1>4. /\ \A i, j \in 1..Len(t) : t[i].id = t[j].id => i = j
      /\ \A i, j \in 1..Len(u) : u[i].id = u[j].id => i = j
      /\ \A i \in 1..Len(t), j \in 1..Len(u) : t[i].id # u[j].id
  BY DEF Ids
<1>5. \A a \in n..(m - 1) : \/ \E i \in 1..l : s[i].id = a
                            \/ \E i \in 1..Len(t) : t[i].id = a
                            \/ \E i \in 1..Len(u) : u[i].id = a
  BY DEF Ids
<1> HIDE DEF l
<1>6. ASSUME NEW i \in 1..(l - 1) PROVE v[i].id \in (n + 1)..(m - 1)
  <2>1. v[i].id = s[i + 1].id /\ i + 1 \in 1..l /\ i + 1 # 1
    BY <1>0, <1>i
  <2>2. s[i + 1].id # n
    BY <2>1, <1>0, <1>2
  <2> QED
    BY <2>1, <2>2, <1>1
<1>7. ASSUME NEW i \in 1..(l - 1), NEW j \in 1..(l - 1), v[i].id = v[j].id PROVE i = j
  <2>1. i + 1 = j + 1
    BY <1>0, <1>i, <1>2, <1>7
  <2> QED
    BY <2>1
<1>8. /\ \A i \in 1..(l - 1), j \in 1..Len(t) : v[i].id # t[j].id
      /\ \A i \in 1..(l - 1), j \in 1..Len(u) : v[i].id # u[j].id
  BY <1>0, <1>3, <1>i
<1>9. ASSUME NEW a \in (n + 1)..(m - 1)
      PROVE  \/ \E i \in 1..(l - 1) : v[i].id = a
             \/ \E i \in 1..Len(t) : t[i].id = a
             \/ \E i \in 1..Len(u) : u[i].id = a
  <2>1. a \in n..(m - 1) /\ a # n
    OBVIOUS
  <2>2. ASSUME NEW i \in 1..l, s[i].id = a PROVE \E j \in 1..(l - 1) : v[j].id = a
    <3>1. i # 1
      BY <2>1, <2>2, <1>0
    <3>2. i - 1 \in 1..(l - 1) /\ i - 1 + 1 = i
      BY <3>1, <1>0
    <3> QED
      BY <3>2, <2>2, <1>0
  <2> QED
    BY <2>1, <2>2, <1>5
<1>10. (l - 1) + Len(t) + Len(u) = m - (n + 1)
  BY <1>0, <1>1
<1>11. /\ \A i \in 1..Len(t) : t[i].id \in (n + 1)..(m - 1)
       /\ \A i \in 1..Len(u) : u[i].id \in (n + 1)..(m - 1)
  <2>1. ASSUME NEW i \in 1..Len(t) PROVE t[i].id \in (n + 1)..(m - 1)
    <3>1. t[i].id \in n..(m - 1) /\ t[i].id # n
      BY <1>0, <1>1, <1>3
    <3> QED
      BY <3>1
  <2>2. ASSUME NEW i \in 1..Len(u) PROVE u[i].id \in (n + 1)..(m - 1)
    <3>1. u[i].id \in n..(m - 1) /\ u[i].id # n
      BY <1>0, <1>1, <1>3
    <3> QED
      BY <3>1
  <2> QED
    BY <2>1, <2>2
<1>12. n + 1 <= m /\ Len(v) = l - 1
  BY <1>0, <1>1
<1> QED
  BY <1>4, <1>6, <1>7, <1>8, <1>9, <1>10, <1>11, <1>12, Zenon DEF Ids

(* ... and what is taken of an entry leaves it its id.                     *)
LEMMA IdsSame ==
    ASSUME NEW s, NEW t, NEW u, NEW n, NEW m, NEW v, Ids(s, t, u, n, m),
           Len(v) = Len(s), \A i \in 1..Len(s) : v[i].id = s[i].id
    PROVE  Ids(v, t, u, n, m)
<1>1. ASSUME NEW a \in n..(m - 1)
      PROVE  \/ \E i \in 1..Len(v) : v[i].id = a
             \/ \E i \in 1..Len(t) : t[i].id = a
             \/ \E i \in 1..Len(u) : u[i].id = a
  <2>1. \/ \E i \in 1..Len(s) : s[i].id = a
        \/ \E i \in 1..Len(t) : t[i].id = a
        \/ \E i \in 1..Len(u) : u[i].id = a
    BY DEF Ids
  <2>2. ASSUME NEW i \in 1..Len(s), s[i].id = a PROVE i \in 1..Len(v) /\ v[i].id = a
    BY <2>2
  <2> QED
    BY <2>1, <2>2
<1>2. /\ \A i \in 1..Len(v) : v[i].id \in n..(m - 1)
      /\ \A i, j \in 1..Len(v) : v[i].id = v[j].id => i = j
      /\ \A i \in 1..Len(v), j \in 1..Len(t) : v[i].id # t[j].id
      /\ \A i \in 1..Len(v), j \in 1..Len(u) : v[i].id # u[j].id
  BY DEF Ids
<1>3. Len(v) + Len(t) + Len(u) = m - n
  BY DEF Ids
<1> QED
  BY <1>1, <1>2, <1>3, Zenon DEF Ids

-----------------------------------------------------------------------------
(* The offsets.  A call adds w units to the wire and z to the queues: w    *)
(* units only if the queues are empty.                                     *)
Grown(st, t, n, m, w, z) ==
    /\ t[n] = st[n] + w /\ t[m] = st[m] + w /\ t[m + 1] = st[m] + w + z
    /\ n < m => \A a \in n..m : t[a] = st[a]
    /\ Mono(t, n, m + 1)

(* Offsets for one more entry at the end exist.                            *)
LEMMA GrowOffsets ==
    ASSUME NEW st \in [Nat -> Nat], NEW n \in Nat, NEW m \in Nat, n <= m, Mono(st, n, m),
           NEW w \in Nat, NEW z \in Nat, w = 0 \/ n = m
    PROVE  \E t \in [Nat -> Nat] : Grown(st, t, n, m, w, z)
<1> DEFINE t == [st EXCEPT ![m] = @ + w, ![m + 1] = st[m] + w + z]
<1>1. t \in [Nat -> Nat] /\ t[m] = st[m] + w /\ t[m + 1] = st[m] + w + z
  OBVIOUS
<1>2. \A a \in n..m : a # m => t[a] = st[a]
  OBVIOUS
<1>3. st[m] \in Nat /\ st[n] \in Nat
  OBVIOUS
<1> HIDE DEF t
<1>4. n < m => w = 0 /\ \A a \in n..m : t[a] = st[a]
  BY <1>1, <1>2, <1>3
<1>5. t[n] = st[n] + w
  BY <1>1, <1>3, <1>4
<1>6. ASSUME NEW a \in n..(m + 1), NEW b \in n..(m + 1), a <= b PROVE t[a] <= t[b]
  <2>1. a \in Nat /\ b \in Nat /\ t[a] \in Nat /\ t[b] \in Nat /\ st[a] \in Nat /\ st[b] \in Nat
    BY <1>1
  <2>2. CASE b = m + 1
    <3>1. CASE a = m + 1
      BY <2>1, <2>2, <3>1
    <3>2. CASE a = m
      BY <2>1, <2>2, <3>2, <1>1, <1>3
    <3>3. CASE a < m
      <4>1. a \in n..m /\ m \in n..m /\ a <= m /\ n < m
        BY <3>3, <2>1
      <4>2. t[a] = st[a] /\ st[a] <= st[m]
        BY <4>1, <1>4 DEF Mono
      <4> QED
        BY <2>1, <2>2, <4>2, <1>1, <1>3
    <3> QED
      BY <2>1, <3>1, <3>2, <3>3
  <2>3. CASE b <= m
    <3>1. a \in n..m /\ b \in n..m
      BY <2>1, <2>3, <1>6
    <3>2. CASE n < m
      BY <3>1, <3>2, <1>4, <1>6 DEF Mono
    <3>3. CASE n = m
      <4>1. a = b
        BY <3>1, <3>3
      <4> QED
        BY <4>1, <2>1
    <3> QED
      BY <3>2, <3>3
  <2> QED
    BY <2>1, <2>2, <2>3
<1> QED
  BY <1>1, <1>4, <1>5, <1>6 DEF Grown, Mono

(* handle_write() takes w units of the entry that is next.                 *)
Advanced(st, t, n, m, w) ==
    /\ t[n] = st[n] + w
    /\ \A a \in Nat : a # n => t[a] = st[a]
    /\ Mono(t, n, m)

(* Offsets for a first entry that has shrunk exist.                        *)
LEMMA AdvanceOffsets ==
    ASSUME NEW st \in [Nat -> Nat], NEW n \in Nat, NEW m \in Nat, n < m, Mono(st, n, m),
           NEW w \in Nat, st[n] + w <= st[n + 1]
    PROVE  \E t \in [Nat -> Nat] : Advanced(st, t, n, m, w)
<1> DEFINE t == [st EXCEPT ![n] = @ + w]
<1>1. t \in [Nat -> Nat] /\ t[n] = st[n] + w /\ \A a \in Nat : a # n => t[a] = st[a]
  OBVIOUS
<1> HIDE DEF t
<1>2. ASSUME NEW a \in n..m, NEW b \in n..m, a <= b PROVE t[a] <= t[b]
  <2>1. a \in Nat /\ b \in Nat /\ st[a] \in Nat /\ st[b] \in Nat /\ st[n] \in Nat /\ st[n + 1] \in Nat
    OBVIOUS
  <2>2. CASE a = b
    BY <2>1, <2>2, <1>1
  <2>3. CASE a = n /\ b # n
    <3>1. n + 1 \in n..m /\ n + 1 <= b
      BY <2>3, <2>1
    <3>2. st[n + 1] <= st[b]
      BY <3>1 DEF Mono
    <3>3. t[a] = st[n] + w /\ t[b] = st[b]
      BY <2>1, <2>3, <1>1
    <3> QED
      BY <3>2, <3>3, <2>1
  <2>4. CASE a # n /\ b # n
    <3>1. st[a] <= st[b]
      BY <1>2 DEF Mono
    <3> QED
      BY <3>1, <2>1, <2>4, <1>1
  <2> QED
    BY <2>1, <2>2, <2>3, <2>4, <1>2
<1> QED
  BY <1>1, <1>2 DEF Advanced, Mono

-----------------------------------------------------------------------------
(* Where the entries lie.                                                  *)
LEMMA Bounds ==
    ASSUME OpType, IdsInv, NEW st \in [Nat -> Nat], NEW os \in [Nat -> Nat],
           Offsets(st), BufferOffsets(os)
    PROVE  /\ \A i \in 1..Len(bsq) :
                 /\ bsq[i].id \in Nat /\ bsq[i].len \in Nat
                 /\ bsq[i].id \in next_id..send_id /\ bsq[i].id + 1 \in next_id..send_id
                 /\ bsq[i].id + 1 <= send_id
                 /\ st[bsq[i].id] + bsq[i].len <= Len(accepted)
                 /\ os[i] + bsq[i].len <= Len(out)
           /\ \A i \in 1..Len(sfq) :
                 /\ sfq[i].id \in Nat /\ sfq[i].rest \in Seq(Unit)
                 /\ sfq[i].id \in next_id..send_id /\ sfq[i].id + 1 \in next_id..send_id
                 /\ sfq[i].id + 1 <= send_id
                 /\ st[sfq[i].id] + Len(sfq[i].rest) <= Len(accepted)
           /\ \A i \in 1..Len(schq) :
                 /\ schq[i].id \in Nat /\ schq[i].k \in Calls
                 /\ schq[i].id \in next_id..send_id /\ schq[i].id + 1 \in next_id..send_id
                 /\ schq[i].id + 1 <= send_id
<1>1. /\ bsq \in Seq(ByteStream) /\ sfq \in Seq(SendFile) /\ schq \in Seq(SendComplete)
      /\ next_id \in Nat /\ send_id \in Nat
  BY DEF OpType
<1>2. /\ \A i \in 1..Len(bsq) : bsq[i].id \in next_id..(send_id - 1)
      /\ \A i \in 1..Len(sfq) : sfq[i].id \in next_id..(send_id - 1)
      /\ \A i \in 1..Len(schq) : schq[i].id \in next_id..(send_id - 1)
  BY DEF IdsInv, Ids
<1>3. ASSUME NEW a \in next_id..(send_id - 1)
      PROVE  /\ a \in Nat /\ a \in next_id..send_id /\ a + 1 \in next_id..send_id
             /\ a + 1 <= send_id /\ st[a + 1] <= Len(accepted)
  <2>1. a \in Nat /\ a \in next_id..send_id /\ a + 1 \in next_id..send_id /\ a + 1 <= send_id
        /\ send_id \in next_id..send_id
    BY <1>1
  <2>2. st[a + 1] <= st[send_id]
    BY <2>1 DEF Offsets, Mono
  <2> QED
    BY <2>1, <2>2 DEF Offsets
<1>4. ASSUME NEW i \in 1..Len(bsq)
      PROVE  /\ bsq[i].id \in Nat /\ bsq[i].len \in Nat
             /\ bsq[i].id \in next_id..send_id /\ bsq[i].id + 1 \in next_id..send_id
             /\ bsq[i].id + 1 <= send_id
             /\ st[bsq[i].id] + bsq[i].len <= Len(accepted)
             /\ os[i] + bsq[i].len <= Len(out)
  <2>1. bsq[i] \in ByteStream
    BY <1>1
  <2>2. bsq[i].len \in Nat
    BY <2>1 DEF ByteStream
  <2>3. /\ bsq[i].id \in Nat /\ bsq[i].id \in next_id..send_id
        /\ bsq[i].id + 1 \in next_id..send_id /\ bsq[i].id + 1 <= send_id
        /\ st[bsq[i].id + 1] <= Len(accepted)
    BY <1>2, <1>3
  <2>4. st[bsq[i].id + 1] = st[bsq[i].id] + bsq[i].len
    BY DEF Offsets
  <2>5. /\ os[Len(bsq) + 1] = Len(out) /\ os[i + 1] = os[i] + bsq[i].len
    BY DEF BufferOffsets
  <2>6. i + 1 \in 1..(Len(bsq) + 1) /\ Len(bsq) + 1 \in 1..(Len(bsq) + 1) /\ i + 1 <= Len(bsq) + 1
    BY <1>1
  <2>7. os[i + 1] <= os[Len(bsq) + 1]
    BY <2>6 DEF BufferOffsets, Mono
  <2>8. st[bsq[i].id] + bsq[i].len <= Len(accepted)
    BY <2>3, <2>4
  <2>9. os[i] + bsq[i].len <= Len(out)
    BY <2>5, <2>7
  <2> QED
    BY <2>2, <2>3, <2>8, <2>9
<1>5. ASSUME NEW i \in 1..Len(sfq)
      PROVE  /\ sfq[i].id \in Nat /\ sfq[i].rest \in Seq(Unit)
             /\ sfq[i].id \in next_id..send_id /\ sfq[i].id + 1 \in next_id..send_id
             /\ sfq[i].id + 1 <= send_id
             /\ st[sfq[i].id] + Len(sfq[i].rest) <= Len(accepted)
  <2>1. sfq[i] \in SendFile
    BY <1>1
  <2>2. sfq[i].rest \in Seq(Unit)
    BY <2>1 DEF SendFile
  <2>3. /\ sfq[i].id \in Nat /\ sfq[i].id \in next_id..send_id
        /\ sfq[i].id + 1 \in next_id..send_id /\ sfq[i].id + 1 <= send_id
        /\ st[sfq[i].id + 1] <= Len(accepted)
    BY <1>2, <1>3
  <2>4. st[sfq[i].id + 1] = st[sfq[i].id] + Len(sfq[i].rest)
    BY DEF Offsets
  <2>5. st[sfq[i].id] + Len(sfq[i].rest) <= Len(accepted)
    BY <2>3, <2>4
  <2> QED
    BY <2>2, <2>3, <2>5
<1>6. ASSUME NEW i \in 1..Len(schq)
      PROVE  /\ schq[i].id \in Nat /\ schq[i].k \in Calls
             /\ schq[i].id \in next_id..send_id /\ schq[i].id + 1 \in next_id..send_id
             /\ schq[i].id + 1 <= send_id
  <2>1. schq[i] \in SendComplete
    BY <1>1
  <2>2. schq[i].k \in Calls
    BY <2>1 DEF SendComplete
  <2> QED
    BY <2>2, <1>2, <1>3
<1> QED
  BY <1>4, <1>5, <1>6

(* A call moves none of the entries that are queued.                       *)
Stay(st, t, w, z) ==
    /\ t[next_id] = Len(wire) + w /\ t[send_id] = Len(accepted) + w
    /\ t[send_id + 1] = Len(accepted) + w + z
    /\ Mono(t, next_id, send_id) /\ Mono(t, next_id, send_id + 1)
    /\ \A i \in 1..Len(bsq) : t[bsq[i].id] = st[bsq[i].id]
                              /\ t[bsq[i].id + 1] = t[bsq[i].id] + bsq[i].len
    /\ \A i \in 1..Len(sfq) : t[sfq[i].id] = st[sfq[i].id]
                              /\ t[sfq[i].id + 1] = t[sfq[i].id] + Len(sfq[i].rest)
    /\ \A i \in 1..Len(schq) : t[schq[i].id] = st[schq[i].id]
                               /\ t[schq[i].id + 1] = t[schq[i].id]

(* Entries that were there stay where they were.                           *)
LEMMA GrowOld ==
    ASSUME OpType, IdsInv, NEW st \in [Nat -> Nat], NEW os \in [Nat -> Nat],
           Offsets(st), BufferOffsets(os), NEW w \in Nat, NEW z \in Nat,
           NEW t \in [Nat -> Nat], Grown(st, t, next_id, send_id, w, z)
    PROVE  Stay(st, t, w, z)
<1>1. next_id \in Nat /\ send_id \in Nat /\ next_id <= send_id /\ Mono(st, next_id, send_id)
  BY DEF OpType, IdsInv, Ids, Offsets
<1>2. st[next_id] = Len(wire) /\ st[send_id] = Len(accepted)
  BY DEF Offsets
<1>0. /\ t[next_id] = st[next_id] + w /\ t[send_id] = st[send_id] + w
      /\ t[send_id + 1] = st[send_id] + w + z
      /\ next_id < send_id => \A a \in next_id..send_id : t[a] = st[a]
      /\ Mono(t, next_id, send_id + 1)
  BY DEF Grown
<1>3. /\ t[next_id] = Len(wire) + w /\ t[send_id] = Len(accepted) + w
      /\ t[send_id + 1] = Len(accepted) + w + z
      /\ next_id < send_id => \A a \in next_id..send_id : t[a] = st[a]
      /\ Mono(t, next_id, send_id + 1)
  BY <1>0, <1>2
<1>4. Mono(t, next_id, send_id)
  <2>1. \A a \in next_id..send_id : a \in next_id..(send_id + 1)
    BY <1>1
  <2> QED
    BY <2>1, <1>3 DEF Mono
<1>5. ASSUME NEW a \in next_id..send_id, a + 1 \in next_id..send_id
      PROVE  t[a] = st[a] /\ t[a + 1] = st[a + 1]
  <2>1. next_id < send_id
    BY <1>1, <1>5
  <2> QED
    BY <2>1, <1>3, <1>5
<1>6. ASSUME NEW i \in 1..Len(bsq)
      PROVE  t[bsq[i].id] = st[bsq[i].id] /\ t[bsq[i].id + 1] = t[bsq[i].id] + bsq[i].len
  <2>1. bsq[i].id \in next_id..send_id /\ bsq[i].id + 1 \in next_id..send_id
    BY Bounds
  <2>2. st[bsq[i].id + 1] = st[bsq[i].id] + bsq[i].len
    BY DEF Offsets
  <2> QED
    BY <2>1, <2>2, <1>5
<1>7. ASSUME NEW i \in 1..Len(sfq)
      PROVE  t[sfq[i].id] = st[sfq[i].id] /\ t[sfq[i].id + 1] = t[sfq[i].id] + Len(sfq[i].rest)
  <2>1. sfq[i].id \in next_id..send_id /\ sfq[i].id + 1 \in next_id..send_id
    BY Bounds
  <2>2. st[sfq[i].id + 1] = st[sfq[i].id] + Len(sfq[i].rest)
    BY DEF Offsets
  <2> QED
    BY <2>1, <2>2, <1>5
<1>8. ASSUME NEW i \in 1..Len(schq)
      PROVE  t[schq[i].id] = st[schq[i].id] /\ t[schq[i].id + 1] = t[schq[i].id]
  <2>1. schq[i].id \in next_id..send_id /\ schq[i].id + 1 \in next_id..send_id
    BY Bounds
  <2>2. st[schq[i].id + 1] = st[schq[i].id]
    BY DEF Offsets
  <2> QED
    BY <2>1, <2>2, <1>5
<1> QED
  BY <1>3, <1>4, <1>6, <1>7, <1>8, Zenon DEF Stay

(* The units of the entries are in the stream, and in output_buf.          *)
LEMMA Within ==
    ASSUME NEW a \in Nat, NEW l \in Nat, NEW j \in 1..l, NEW m \in Nat, a + l <= m
    PROVE  a + j \in 1..m
OBVIOUS

(* An entry lies within what was accepted, and within output_buf.          *)
LEMMA InRange ==
    ASSUME OpType, IdsInv, NEW st \in [Nat -> Nat], NEW os \in [Nat -> Nat],
           Offsets(st), BufferOffsets(os)
    PROVE  /\ \A i \in 1..Len(bsq) : \A j \in 1..bsq[i].len :
                 st[bsq[i].id] + j \in 1..Len(accepted) /\ os[i] + j \in 1..Len(out)
           /\ \A i \in 1..Len(sfq) : \A j \in 1..Len(sfq[i].rest) :
                 st[sfq[i].id] + j \in 1..Len(accepted)
<1>0. Len(accepted) \in Nat /\ Len(out) \in Nat /\ Len(bsq) \in Nat
  BY Lens, Zenon
<1>1. ASSUME NEW i \in 1..Len(bsq), NEW j \in 1..bsq[i].len
      PROVE  st[bsq[i].id] + j \in 1..Len(accepted) /\ os[i] + j \in 1..Len(out)
  <2>1. /\ bsq[i].id \in Nat /\ bsq[i].len \in Nat
        /\ st[bsq[i].id] + bsq[i].len <= Len(accepted) /\ os[i] + bsq[i].len <= Len(out)
    BY Bounds
  <2>2. st[bsq[i].id] \in Nat
    BY <2>1
  <2>3. i \in Nat
    BY <1>0
  <2>4. os[i] \in Nat
    BY <2>3
  <2> QED
    BY <2>1, <2>2, <2>4, <1>0, Within, Zenon
<1>2. ASSUME NEW i \in 1..Len(sfq), NEW j \in 1..Len(sfq[i].rest)
      PROVE  st[sfq[i].id] + j \in 1..Len(accepted)
  <2>1. /\ sfq[i].id \in Nat /\ sfq[i].rest \in Seq(Unit)
        /\ st[sfq[i].id] + Len(sfq[i].rest) <= Len(accepted)
    BY Bounds
  <2>2. st[sfq[i].id] \in Nat
    BY <2>1
  <2>3. Len(sfq[i].rest) \in Nat
    <3> DEFINE r == sfq[i].rest
    <3>1. r \in Seq(Unit)
      BY <2>1
    <3> HIDE DEF r
    <3>2. Len(r) \in Nat
      BY <3>1
    <3> QED
      BY <3>2 DEF r
  <2> QED
    BY <2>1, <2>2, <2>3, <1>0, Within, Zenon
<1> QED
  BY <1>1, <1>2, Zenon

(* What the entries hold stays what was accepted, as accepted grows.       *)
Extends(s, t) == \A x \in 1..Len(s) : t[x] = s[x]

Held(st, os, a, o) ==
    /\ \A i \in 1..Len(bsq) : \A j \in 1..bsq[i].len : o[os[i] + j] = a[st[bsq[i].id] + j]
    /\ \A i \in 1..Len(sfq) : \A j \in 1..Len(sfq[i].rest) :
          sfq[i].rest[j] = a[st[sfq[i].id] + j]

(* An entry keeps its contents when both only grow.                        *)
LEMMA OldContents ==
    ASSUME OpType, IdsInv, NEW st \in [Nat -> Nat], NEW os \in [Nat -> Nat],
           Offsets(st), BufferOffsets(os), Contents(st, os), NEW a, NEW o,
           Extends(accepted, a), Extends(out, o)
    PROVE  Held(st, os, a, o)
<1>1. ASSUME NEW i \in 1..Len(bsq), NEW j \in 1..bsq[i].len
      PROVE  o[os[i] + j] = a[st[bsq[i].id] + j]
  <2>1. st[bsq[i].id] + j \in 1..Len(accepted) /\ os[i] + j \in 1..Len(out)
    BY InRange, Zenon
  <2>2. out[os[i] + j] = accepted[st[bsq[i].id] + j]
    BY Zenon DEF Contents
  <2> QED
    BY <2>1, <2>2, Zenon DEF Extends
<1>2. ASSUME NEW i \in 1..Len(sfq), NEW j \in 1..Len(sfq[i].rest)
      PROVE  sfq[i].rest[j] = a[st[sfq[i].id] + j]
  <2>1. st[sfq[i].id] + j \in 1..Len(accepted)
    BY InRange, Zenon
  <2>2. sfq[i].rest[j] = accepted[st[sfq[i].id] + j]
    BY Zenon DEF Contents
  <2> QED
    BY <2>1, <2>2, Zenon DEF Extends
<1> QED
  BY <1>1, <1>2, Zenon DEF Held

-----------------------------------------------------------------------------
(* A call that is accepted: w of its units u go to the wire, z are queued. *)
Accepts(u, w, z) ==
    /\ accepted' = accepted \o u /\ Len(u) = w + z
    /\ Len(wire') = Len(wire) + w
    /\ w = 0 \/ next_id = send_id
    /\ UNCHANGED <<schq, next_id, mark>>

(* The rest becomes a byte stream, or a file; unless a direct write has    *)
(* reported EAGAIN, it is what the wire did not take.                      *)
IsRest(u, w, rest) == ~blocked' => ~blocked /\ \A j \in 1..Len(rest) : rest[j] = u[w + j]

AddsBytes(u, w, rest) ==
    /\ Accepts(u, w, Len(rest)) /\ IsRest(u, w, rest)
    /\ out' = out \o rest
    /\ bsq' = Append(bsq, [id |-> send_id, len |-> Len(rest)])
    /\ send_id' = send_id + 1 /\ UNCHANGED sfq

AddsFile(u, w, rest) ==
    /\ Accepts(u, w, Len(rest)) /\ IsRest(u, w, rest)
    /\ sfq' = Append(sfq, [id |-> send_id, rest |-> rest])
    /\ send_id' = send_id + 1 /\ UNCHANGED <<out, bsq>>

AddsNone(u) ==
    /\ Accepts(u, Len(u), 0)
    /\ ~blocked' => ~blocked
    /\ UNCHANGED <<out, bsq, sfq, send_id>>

(* The new entry of byte_stream_queue, by position.                        *)
LEMMA BytesAppended ==
    ASSUME OpType, NEW l \in Nat
    PROVE  LET b == Append(bsq, [id |-> send_id, len |-> l])
           IN  /\ Len(b) = Len(bsq) + 1
               /\ \A i \in 1..Len(bsq) : b[i] = bsq[i]
               /\ b[Len(bsq) + 1].id = send_id /\ b[Len(bsq) + 1].len = l
               /\ Len(bsq) \in Nat
<1> DEFINE e == [id |-> send_id, len |-> l]
<1>1. bsq \in Seq(ByteStream) /\ Len(bsq) \in Nat /\ e \in ByteStream
  BY DEF OpType, ByteStream
<1>2. e.id = send_id /\ e.len = l
  OBVIOUS
<1> HIDE DEF e
<1>3. Len(Append(bsq, e)) = Len(bsq) + 1 /\ Append(bsq, e)[Len(bsq) + 1] = e
  BY <1>1
<1>4. \A i \in 1..Len(bsq) : Append(bsq, e)[i] = bsq[i]
  BY <1>1
<1> QED
  BY <1>1, <1>2, <1>3, <1>4 DEF e

(* The new entry of send_file_queue, by position.                          *)
LEMMA FileAppended ==
    ASSUME OpType, NEW r \in Seq(Unit)
    PROVE  LET b == Append(sfq, [id |-> send_id, rest |-> r])
           IN  /\ Len(b) = Len(sfq) + 1
               /\ \A i \in 1..Len(sfq) : b[i] = sfq[i]
               /\ b[Len(sfq) + 1].id = send_id /\ b[Len(sfq) + 1].rest = r
               /\ Len(sfq) \in Nat
<1> DEFINE e == [id |-> send_id, rest |-> r]
<1>1. sfq \in Seq(SendFile) /\ Len(sfq) \in Nat /\ e \in SendFile
  BY DEF OpType, SendFile
<1>2. e.id = send_id /\ e.rest = r
  OBVIOUS
<1> HIDE DEF e
<1>3. Len(Append(sfq, e)) = Len(sfq) + 1 /\ Append(sfq, e)[Len(sfq) + 1] = e
  BY <1>1
<1>4. \A i \in 1..Len(sfq) : Append(sfq, e)[i] = sfq[i]
  BY <1>1
<1> QED
  BY <1>1, <1>2, <1>3, <1>4 DEF e

(* The new entry of send_complete_handler_queue, by position.              *)
LEMMA HandlerAppended ==
    ASSUME OpType, NEW k \in Calls
    PROVE  LET b == Append(schq, [id |-> send_id, k |-> k])
           IN  /\ Len(b) = Len(schq) + 1
               /\ \A i \in 1..Len(schq) : b[i] = schq[i]
               /\ b[Len(schq) + 1].id = send_id /\ b[Len(schq) + 1].k = k
               /\ Len(schq) \in Nat
<1> DEFINE e == [id |-> send_id, k |-> k]
<1>1. schq \in Seq(SendComplete) /\ Len(schq) \in Nat /\ e \in SendComplete
  BY DEF OpType, SendComplete
<1>2. e.id = send_id /\ e.k = k
  OBVIOUS
<1> HIDE DEF e
<1>3. Len(Append(schq, e)) = Len(schq) + 1 /\ Append(schq, e)[Len(schq) + 1] = e
  BY <1>1
<1>4. \A i \in 1..Len(schq) : Append(schq, e)[i] = schq[i]
  BY <1>1
<1> QED
  BY <1>1, <1>2, <1>3, <1>4 DEF e

(* Arithmetic used with opaque terms.                                      *)
LEMMA Minus ==
    ASSUME NEW a \in Nat, NEW b \in Nat, NEW c \in Nat, a + b = c
    PROVE  a = c - b
OBVIOUS

(* A position that fits in what is left.                                   *)
LEMMA Left ==
    ASSUME NEW x \in Nat, NEW n \in Nat, NEW m \in Nat, x >= 1, n + x <= m
    PROVE  x \in 1..(m - n)
OBVIOUS

(* A position in a sequence that got one more.                             *)
LEMMA LastOrOld ==
    ASSUME NEW l \in Nat, NEW i \in 1..(l + 1)
    PROVE  i \in 1..l \/ i = l + 1
OBVIOUS

(* The units of the call are behind those accepted before.                 *)
LEMMA AcceptedGrows ==
    ASSUME OpType, NEW u \in Seq(Unit), NEW w \in Nat, NEW z \in Nat, Accepts(u, w, z)
    PROVE  /\ Extends(accepted, accepted')
           /\ Len(accepted') = Len(accepted) + w + z
           /\ \A j \in 1..z : accepted'[Len(accepted) + w + j] = u[w + j]
<1>1. accepted \in Seq(Unit) /\ accepted' = accepted \o u /\ Len(u) = w + z /\ Len(accepted) \in Nat
  BY DEF OpType, Accepts
<1>2. Len(accepted') = Len(accepted) + Len(u) /\ \A j \in 1..Len(accepted) : accepted'[j] = accepted[j]
  BY <1>1, Joined
<1>3. \A j \in 1..Len(u) : accepted'[Len(accepted) + j] = u[j]
  BY <1>1, Joined
<1>4. ASSUME NEW j \in 1..z PROVE accepted'[Len(accepted) + w + j] = u[w + j]
  <2>1. w + j \in 1..Len(u) /\ Len(accepted) + w + j = Len(accepted) + (w + j)
    BY <1>1
  <2> QED
    BY <2>1, <1>3
<1>5. Len(accepted') = Len(accepted) + w + z
  BY <1>1, <1>2
<1> QED
  BY <1>2, <1>4, <1>5 DEF Extends

(* Offsets for what was accepted, sent directly as far as it was.          *)
LEMMA AcceptOffsets ==
    ASSUME OpType, IdsInv, NEW st \in [Nat -> Nat], NEW os \in [Nat -> Nat],
           Offsets(st), BufferOffsets(os),
           NEW u, NEW w \in Nat, NEW z \in Nat, Accepts(u, w, z)
    PROVE  \E t \in [Nat -> Nat] : Grown(st, t, next_id, send_id, w, z)
<1>1. next_id \in Nat /\ send_id \in Nat /\ next_id <= send_id /\ Mono(st, next_id, send_id)
  BY DEF OpType, IdsInv, Ids, Offsets
<1>2. w = 0 \/ next_id = send_id
  BY DEF Accepts
<1> QED
  BY <1>1, <1>2, GrowOffsets, Zenon

(* Offsets in output_buf for one more byte stream.                         *)
LEMMA AppendOffsets ==
    ASSUME OpType, NEW os \in [Nat -> Nat], BufferOffsets(os), NEW z \in Nat
    PROVE  \E p \in [Nat -> Nat] :
              /\ \A i \in 1..(Len(bsq) + 1) : p[i] = os[i]
              /\ p[Len(bsq) + 2] = Len(out) + z
              /\ Mono(p, 1, Len(bsq) + 2)
<1> DEFINE l == Len(bsq)
<1>1. l \in Nat
  BY Lens
<1>2. os[l + 1] = Len(out) /\ Mono(os, 1, l + 1)
  BY DEF BufferOffsets
<1> HIDE DEF l
<1>3. l + 1 \in Nat /\ 1 \in Nat /\ 1 <= l + 1 /\ 0 \in Nat
  BY <1>1
<1>4. PICK p \in [Nat -> Nat] : Grown(os, p, 1, l + 1, 0, z)
  BY <1>2, <1>3, GrowOffsets, Zenon
<1>5. /\ p[1] = os[1] + 0 /\ p[l + 1 + 1] = os[l + 1] + 0 + z
      /\ 1 < l + 1 => \A a \in 1..(l + 1) : p[a] = os[a]
      /\ Mono(p, 1, l + 1 + 1)
  BY <1>4 DEF Grown
<1>6. l + 1 + 1 = l + 2
  BY <1>1
<1>7. ASSUME NEW i \in 1..(l + 1) PROVE p[i] = os[i]
  <2>1. CASE l = 0
    <3>1. i = 1
      BY <2>1
    <3>2. os[1] \in Nat
      OBVIOUS
    <3> QED
      BY <3>1, <3>2, <1>5
  <2>2. CASE l # 0
    <3>1. 1 < l + 1
      BY <2>2, <1>1
    <3> QED
      BY <3>1, <1>5
  <2> QED
    BY <2>1, <2>2
<1>8. os[l + 1] \in Nat
  BY <1>3
<1>9. p[l + 2] = os[l + 1] + 0 + z
  BY <1>5, <1>6
<1>10. p[l + 2] = Len(out) + z
  BY <1>2, <1>8, <1>9
<1>11. Mono(p, 1, l + 2)
  BY <1>5, <1>6
<1> QED
  BY <1>7, <1>10, <1>11 DEF l

(* Where the last data ends.                                               *)
LEMMA LastPushed ==
    ASSUME OpType, NEW t, send_id' = send_id + 1, next_id' = next_id,
           t[send_id + 1] = Len(accepted'),
           \/ \E i \in 1..Len(bsq') : bsq'[i].id = send_id
           \/ \E i \in 1..Len(sfq') : sfq'[i].id = send_id
    PROVE  LastData(t)'
<1>1. send_id \in Nat /\ next_id \in Nat
  BY DEF OpType
<1>2. ASSUME NEW a \in next_id..(send_id + 1), DataBefore(a)' PROVE t[a] = Len(accepted')
  <2>1. send_id < a
    BY <1>2, Zenon DEF DataBefore
  <2>2. a = send_id + 1
    BY <1>1, <2>1
  <2> QED
    BY <2>2
<1> QED
  BY <1>2, Zenon DEF LastData

(* LastData carries over to new offsets that agree where it counts.        *)
LEMMA LastKept ==
    ASSUME NEW st, NEW t, LastData(st), accepted' = accepted,
           \A a \in next_id'..send_id' :
              DataBefore(a)' => a \in next_id..send_id /\ DataBefore(a) /\ t[a] = st[a]
    PROVE  LastData(t)'
BY Zenon DEF LastData

(* A byte stream behind what is pending.                                   *)
LEMMA AddsBytesLayout ==
    ASSUME OpType, IdsInv, NEW st \in [Nat -> Nat], NEW os \in [Nat -> Nat], Layout(st, os),
           NEW u \in Seq(Unit), NEW w \in Nat, NEW rest \in Seq(Unit), AddsBytes(u, w, rest)
    PROVE  \E t, p \in [Nat -> Nat] : Layout(t, p)'
<1> DEFINE z == Len(rest)
           l == Len(bsq)
<1>o. Offsets(st) /\ BufferOffsets(os)
  BY DEF Layout
<1>z. z \in Nat /\ l \in Nat /\ Len(accepted) \in Nat /\ Len(wire) \in Nat /\ Len(out) \in Nat
  BY Lens
<1>a. /\ Accepts(u, w, z) /\ IsRest(u, w, rest) /\ out' = out \o rest
      /\ bsq' = Append(bsq, [id |-> send_id, len |-> z])
      /\ send_id' = send_id + 1 /\ sfq' = sfq
  BY DEF AddsBytes
<1>b. next_id' = next_id /\ schq' = schq /\ mark' = mark /\ Len(wire') = Len(wire) + w
  BY <1>a DEF Accepts
<1>1. /\ Extends(accepted, accepted') /\ Len(accepted') = Len(accepted) + w + z
      /\ \A j \in 1..z : accepted'[Len(accepted) + w + j] = u[w + j]
  BY <1>a, <1>z, AcceptedGrows, Zenon
<1>2. /\ Len(bsq') = l + 1 /\ \A i \in 1..l : bsq'[i] = bsq[i]
      /\ bsq'[l + 1].id = send_id /\ bsq'[l + 1].len = z
  BY <1>a, <1>z, BytesAppended
<1>3. PICK t \in [Nat -> Nat] : Grown(st, t, next_id, send_id, w, z)
  BY <1>o, <1>z, <1>a, AcceptOffsets, Zenon
<1>4. /\ t[next_id] = Len(wire) + w /\ t[send_id] = Len(accepted) + w
      /\ t[send_id + 1] = Len(accepted) + w + z
      /\ Mono(t, next_id, send_id + 1)
      /\ \A i \in 1..l : t[bsq[i].id] = st[bsq[i].id]
                         /\ t[bsq[i].id + 1] = t[bsq[i].id] + bsq[i].len
      /\ \A i \in 1..Len(sfq) : t[sfq[i].id] = st[sfq[i].id]
                                /\ t[sfq[i].id + 1] = t[sfq[i].id] + Len(sfq[i].rest)
      /\ \A i \in 1..Len(schq) : t[schq[i].id] = st[schq[i].id]
                                 /\ t[schq[i].id + 1] = t[schq[i].id]
  <2>1. Stay(st, t, w, z)
    BY <1>o, <1>z, <1>3, GrowOld, Zenon
  <2> QED
    BY <2>1, Zenon DEF Stay
<1>5. PICK p \in [Nat -> Nat] : /\ \A i \in 1..(l + 1) : p[i] = os[i]
                                /\ p[l + 2] = Len(out) + z /\ Mono(p, 1, l + 2)
  BY <1>o, <1>z, AppendOffsets, Zenon
<1>6. Len(out') = Len(out) + z /\ Extends(out, out')
      /\ \A j \in 1..z : out'[Len(out) + j] = rest[j]
  <2>1. out \in Seq(Unit)
    BY DEF OpType
  <2> QED
    BY <2>1, <1>a, Joined, Zenon DEF Extends
<1> HIDE DEF z, l
<1>7. Offsets(t)'
  <2>1. ASSUME NEW i \in 1..(l + 1)
        PROVE  t[bsq'[i].id + 1] = t[bsq'[i].id] + bsq'[i].len
    <3>1. CASE i \in 1..l
      BY <3>1, <1>2, <1>4, Zenon DEF l
    <3>2. CASE i = l + 1
      BY <3>2, <1>2, <1>4
    <3> QED
      BY <3>1, <3>2, <1>z, LastOrOld
  <2>2. ASSUME NEW i \in 1..Len(schq) PROVE mark[schq[i].k] = t[schq[i].id]
    BY <1>o, <1>4, Zenon DEF Offsets
  <2> QED
    BY <1>1, <1>2, <1>4, <1>a, <1>b, <2>1, <2>2, Zenon DEF Offsets
<1>8. BufferOffsets(p)'
  <2>0. l + 2 = l + 1 + 1 /\ 1 \in 1..(l + 1) /\ l + 1 \in 1..(l + 1)
    BY <1>z
  <2>1. p[1] = 0 /\ p[l + 1] = Len(out)
    BY <1>o, <1>5, <2>0, Zenon DEF BufferOffsets, l
  <2>2. ASSUME NEW i \in 1..(l + 1) PROVE p[i + 1] = p[i] + bsq'[i].len
    <3>1. CASE i \in 1..l
      <4>1. i \in 1..(l + 1) /\ i + 1 \in 1..(l + 1)
        BY <3>1, <1>z
      <4>2. os[i + 1] = os[i] + bsq[i].len
        BY <3>1, <1>o, Zenon DEF BufferOffsets, l
      <4> QED
        BY <4>1, <4>2, <3>1, <1>2, <1>5, Zenon
    <3>2. CASE i = l + 1
      <4>1. p[i + 1] = p[l + 2] /\ p[i] = Len(out) /\ bsq'[i].len = z
        BY <3>2, <1>2, <2>0, <2>1
      <4> QED
        BY <4>1, <1>5
    <3> QED
      BY <3>1, <3>2, <1>z, LastOrOld
  <2>3. p[l + 1 + 1] = Len(out') /\ Mono(p, 1, l + 1 + 1)
    BY <1>5, <1>6, <2>0
  <2> QED
    BY <2>1, <2>2, <2>3, <1>2, Zenon DEF BufferOffsets
<1>9. ~blocked' => Contents(t, p)'
  <2> SUFFICES ASSUME ~blocked' PROVE Contents(t, p)'
    OBVIOUS
  <2>1. ~blocked /\ \A j \in 1..z : rest[j] = u[w + j]
    BY <1>a DEF IsRest, z
  <2>2. Contents(st, os)
    BY <2>1 DEF Layout
  <2>3. /\ \A i \in 1..l : \A j \in 1..bsq[i].len : out'[os[i] + j] = accepted'[st[bsq[i].id] + j]
        /\ \A i \in 1..Len(sfq) : \A j \in 1..Len(sfq[i].rest) :
              sfq[i].rest[j] = accepted'[st[sfq[i].id] + j]
    <3>1. Held(st, os, accepted', out')
      BY <2>2, <1>o, <1>1, <1>6, OldContents, Zenon
    <3> QED
      BY <3>1, Zenon DEF Held, l
  <2>4. ASSUME NEW i \in 1..(l + 1), NEW j \in 1..bsq'[i].len
        PROVE  out'[p[i] + j] = accepted'[t[bsq'[i].id] + j]
    <3>1. CASE i \in 1..l
      <4>1. i \in 1..(l + 1)
        OBVIOUS
      <4>2. bsq'[i] = bsq[i] /\ p[i] = os[i] /\ t[bsq[i].id] = st[bsq[i].id]
        BY <3>1, <4>1, <1>2, <1>4, <1>5, Zenon
      <4>3. out'[os[i] + j] = accepted'[st[bsq[i].id] + j]
        BY <3>1, <4>2, <2>3, <2>4, Zenon
      <4> QED
        BY <4>2, <4>3, Zenon
    <3>2. CASE i = l + 1
      <4>0. l + 1 \in 1..(l + 1)
        BY <1>z
      <4>1. os[l + 1] = Len(out)
        BY <1>o, Zenon DEF BufferOffsets, l
      <4>2. p[i] = Len(out) /\ bsq'[i].id = send_id /\ bsq'[i].len = z
        BY <3>2, <4>0, <4>1, <1>2, <1>5, Zenon
      <4>3. j \in 1..z
        BY <4>2
      <4>4. t[bsq'[i].id] = Len(accepted) + w
        BY <4>2, <1>4, Zenon
      <4>5. out'[Len(out) + j] = accepted'[Len(accepted) + w + j]
        BY <4>3, <1>1, <1>6, <2>1, Zenon
      <4> QED
        BY <4>2, <4>4, <4>5, Zenon
    <3> QED
      BY <3>1, <3>2, <1>z, LastOrOld
  <2>5. ASSUME NEW i \in 1..Len(sfq), NEW j \in 1..Len(sfq[i].rest)
        PROVE  sfq[i].rest[j] = accepted'[t[sfq[i].id] + j]
    BY <2>3, <1>4, Zenon
  <2>6. \A i \in 1..Len(bsq') : \A j \in 1..bsq'[i].len :
           out'[p[i] + j] = accepted'[t[bsq'[i].id] + j]
    BY <2>4, <1>2, Zenon
  <2>7. sfq' = sfq
    BY <1>a
  <2> QED
    BY <2>5, <2>6, <2>7, Zenon DEF Contents
<1>y. LastData(t)'
  <2>1. l + 1 \in 1..Len(bsq')
    BY <1>2, <1>z DEF l
  <2> QED
    BY <2>1, <1>1, <1>2, <1>4, <1>a, <1>b, LastPushed, Zenon
<1>10. Layout(t, p)'
  BY <1>7, <1>8, <1>9, <1>y, Zenon DEF Layout
<1> QED
  BY <1>10, Zenon

(* A file behind what is pending.                                          *)
LEMMA AddsFileLayout ==
    ASSUME OpType, IdsInv, NEW st \in [Nat -> Nat], NEW os \in [Nat -> Nat], Layout(st, os),
           NEW u \in Seq(Unit), NEW w \in Nat, NEW rest \in Seq(Unit), AddsFile(u, w, rest)
    PROVE  \E t, p \in [Nat -> Nat] : Layout(t, p)'
<1> DEFINE z == Len(rest)
           l == Len(sfq)
<1>o. Offsets(st) /\ BufferOffsets(os)
  BY DEF Layout
<1>z. z \in Nat /\ l \in Nat /\ Len(accepted) \in Nat /\ Len(wire) \in Nat /\ Len(out) \in Nat
  BY Lens
<1>a. /\ Accepts(u, w, z) /\ IsRest(u, w, rest)
      /\ sfq' = Append(sfq, [id |-> send_id, rest |-> rest])
      /\ send_id' = send_id + 1 /\ bsq' = bsq /\ out' = out
  BY DEF AddsFile
<1>b. next_id' = next_id /\ schq' = schq /\ mark' = mark /\ Len(wire') = Len(wire) + w
  BY <1>a DEF Accepts
<1>1. /\ Extends(accepted, accepted') /\ Len(accepted') = Len(accepted) + w + z
      /\ \A j \in 1..z : accepted'[Len(accepted) + w + j] = u[w + j]
  BY <1>a, <1>z, AcceptedGrows, Zenon
<1>2. /\ Len(sfq') = l + 1 /\ \A i \in 1..l : sfq'[i] = sfq[i]
      /\ sfq'[l + 1].id = send_id /\ sfq'[l + 1].rest = rest
  BY <1>a, <1>z, FileAppended
<1>3. PICK t \in [Nat -> Nat] : Grown(st, t, next_id, send_id, w, z)
  BY <1>o, <1>z, <1>a, AcceptOffsets, Zenon
<1>4. /\ t[next_id] = Len(wire) + w /\ t[send_id] = Len(accepted) + w
      /\ t[send_id + 1] = Len(accepted) + w + z
      /\ Mono(t, next_id, send_id + 1)
      /\ \A i \in 1..Len(bsq) : t[bsq[i].id] = st[bsq[i].id]
                                /\ t[bsq[i].id + 1] = t[bsq[i].id] + bsq[i].len
      /\ \A i \in 1..l : t[sfq[i].id] = st[sfq[i].id]
                         /\ t[sfq[i].id + 1] = t[sfq[i].id] + Len(sfq[i].rest)
      /\ \A i \in 1..Len(schq) : t[schq[i].id] = st[schq[i].id]
                                 /\ t[schq[i].id + 1] = t[schq[i].id]
  <2>1. Stay(st, t, w, z)
    BY <1>o, <1>z, <1>3, GrowOld, Zenon
  <2> QED
    BY <2>1, Zenon DEF Stay
<1>6. Extends(out, out')
  BY <1>a DEF Extends
<1> HIDE DEF z, l
<1>7. Offsets(t)'
  <2>1. ASSUME NEW i \in 1..(l + 1)
        PROVE  t[sfq'[i].id + 1] = t[sfq'[i].id] + Len(sfq'[i].rest)
    <3>1. CASE i \in 1..l
      BY <3>1, <1>2, <1>4, Zenon
    <3>2. CASE i = l + 1
      <4>1. t[send_id + 1] = t[send_id] + z
        BY <1>4
      <4> QED
        BY <3>2, <4>1, <1>2, Zenon DEF z
    <3> QED
      BY <3>1, <3>2, <1>z, LastOrOld
  <2>2. ASSUME NEW i \in 1..Len(schq) PROVE mark[schq[i].k] = t[schq[i].id]
    BY <1>o, <1>4, Zenon DEF Offsets
  <2> QED
    BY <1>1, <1>2, <1>4, <1>a, <1>b, <2>1, <2>2, Zenon DEF Offsets
<1>8. BufferOffsets(os)'
  BY <1>o, <1>a, Zenon DEF BufferOffsets
<1>9. ~blocked' => Contents(t, os)'
  <2> SUFFICES ASSUME ~blocked' PROVE Contents(t, os)'
    OBVIOUS
  <2>1. ~blocked /\ \A j \in 1..z : rest[j] = u[w + j]
    BY <1>a DEF IsRest, z
  <2>2. Contents(st, os)
    BY <2>1 DEF Layout
  <2>3. /\ \A i \in 1..Len(bsq) : \A j \in 1..bsq[i].len :
              out'[os[i] + j] = accepted'[st[bsq[i].id] + j]
        /\ \A i \in 1..l : \A j \in 1..Len(sfq[i].rest) :
              sfq[i].rest[j] = accepted'[st[sfq[i].id] + j]
    <3>1. Held(st, os, accepted', out')
      BY <2>2, <1>o, <1>1, <1>6, OldContents, Zenon
    <3> QED
      BY <3>1, Zenon DEF Held, l
  <2>4. ASSUME NEW i \in 1..(l + 1), NEW j \in 1..Len(sfq'[i].rest)
        PROVE  sfq'[i].rest[j] = accepted'[t[sfq'[i].id] + j]
    <3>1. CASE i \in 1..l
      <4>2. sfq'[i] = sfq[i] /\ t[sfq[i].id] = st[sfq[i].id]
        BY <3>1, <1>2, <1>4, Zenon
      <4>3. sfq[i].rest[j] = accepted'[st[sfq[i].id] + j]
        BY <3>1, <4>2, <2>3, <2>4, Zenon
      <4> QED
        BY <4>2, <4>3, Zenon
    <3>2. CASE i = l + 1
      <4>2. sfq'[i].id = send_id /\ sfq'[i].rest = rest
        BY <3>2, <1>2, Zenon
      <4>3. j \in 1..z
        BY <4>2, Zenon DEF z
      <4>4. t[sfq'[i].id] = Len(accepted) + w
        BY <4>2, <1>4, Zenon
      <4>5. rest[j] = accepted'[Len(accepted) + w + j]
        BY <4>3, <1>1, <2>1, Zenon
      <4> QED
        BY <4>2, <4>4, <4>5, Zenon
    <3> QED
      BY <3>1, <3>2, <1>z, LastOrOld
  <2>5. ASSUME NEW i \in 1..Len(bsq), NEW j \in 1..bsq[i].len
        PROVE  out'[os[i] + j] = accepted'[t[bsq[i].id] + j]
    BY <2>3, <1>4, Zenon
  <2>6. \A i \in 1..Len(sfq') : \A j \in 1..Len(sfq'[i].rest) :
           sfq'[i].rest[j] = accepted'[t[sfq'[i].id] + j]
    BY <2>4, <1>2, Zenon
  <2>7. bsq' = bsq
    BY <1>a
  <2> QED
    BY <2>5, <2>6, <2>7, Zenon DEF Contents
<1>y. LastData(t)'
  <2>1. l + 1 \in 1..Len(sfq')
    BY <1>2, <1>z DEF l
  <2> QED
    BY <2>1, <1>1, <1>2, <1>4, <1>a, <1>b, LastPushed, Zenon
<1>10. Layout(t, os)'
  BY <1>7, <1>8, <1>9, <1>y, Zenon DEF Layout
<1> QED
  BY <1>10, Zenon

(* Nothing, when the direct write took it all.                             *)
LEMMA AddsNoneLayout ==
    ASSUME OpType, IdsInv, NEW st \in [Nat -> Nat], NEW os \in [Nat -> Nat], Layout(st, os),
           NEW u \in Seq(Unit), AddsNone(u)
    PROVE  \E t, p \in [Nat -> Nat] : Layout(t, p)'
<1> DEFINE w == Len(u)
<1>o. Offsets(st) /\ BufferOffsets(os)
  BY DEF Layout
<1>z. w \in Nat /\ 0 \in Nat /\ Len(accepted) \in Nat /\ Len(wire) \in Nat
  BY Lens
<1>a. /\ Accepts(u, w, 0)
      /\ ~blocked' => ~blocked
      /\ send_id' = send_id /\ bsq' = bsq /\ out' = out /\ sfq' = sfq
  BY DEF AddsNone
<1> HIDE DEF w
<1>b. next_id' = next_id /\ schq' = schq /\ mark' = mark /\ Len(wire') = Len(wire) + w
  BY <1>a DEF Accepts
<1>1. Extends(accepted, accepted') /\ Len(accepted') = Len(accepted) + w + 0
  BY <1>a, <1>z, AcceptedGrows, Zenon
<1>c. Len(accepted') = Len(accepted) + w
  BY <1>1, <1>z
<1>3. PICK t \in [Nat -> Nat] : Grown(st, t, next_id, send_id, w, 0)
  BY <1>o, <1>z, <1>a, AcceptOffsets, Zenon
<1>4. Stay(st, t, w, 0)
  BY <1>o, <1>z, <1>3, GrowOld, Zenon
<1>6. Extends(out, out')
  BY <1>a DEF Extends
<1>7. Offsets(t)'
  <2>2. ASSUME NEW i \in 1..Len(schq) PROVE mark[schq[i].k] = t[schq[i].id]
    BY <1>o, <1>4, Zenon DEF Offsets, Stay
  <2> QED
    BY <1>c, <1>4, <1>a, <1>b, <2>2, Zenon DEF Offsets, Stay
<1>8. BufferOffsets(os)'
  BY <1>o, <1>a, Zenon DEF BufferOffsets
<1>9. ~blocked' => Contents(t, os)'
  <2> SUFFICES ASSUME ~blocked' PROVE Contents(t, os)'
    OBVIOUS
  <2>2. Contents(st, os)
    BY <1>a DEF Layout
  <2>3. Held(st, os, accepted', out')
    BY <2>2, <1>o, <1>1, <1>6, OldContents, Zenon
  <2>4. ASSUME NEW i \in 1..Len(bsq), NEW j \in 1..bsq[i].len
        PROVE  out'[os[i] + j] = accepted'[t[bsq[i].id] + j]
    BY <2>3, <1>4, Zenon DEF Held, Stay
  <2>5. ASSUME NEW i \in 1..Len(sfq), NEW j \in 1..Len(sfq[i].rest)
        PROVE  sfq[i].rest[j] = accepted'[t[sfq[i].id] + j]
    BY <2>3, <1>4, Zenon DEF Held, Stay
  <2>7. bsq' = bsq /\ sfq' = sfq
    BY <1>a
  <2> QED
    BY <2>4, <2>5, <2>7, Zenon DEF Contents
<1>y. LastData(t)'
  <2>0. LastData(st) /\ next_id \in Nat /\ send_id \in Nat /\ next_id <= send_id
    BY DEF Layout, OpType, IdsInv, Ids
  <2>1. CASE next_id = send_id
    <3>1. ASSUME NEW a \in next_id..send_id PROVE t[a] = Len(accepted')
      <4>1. a = send_id
        BY <2>0, <2>1
      <4> QED
        BY <4>1, <1>4, <1>c, Zenon DEF Stay
    <3> QED
      BY <3>1, <1>a, <1>b, Zenon DEF LastData
  <2>2. CASE next_id # send_id
    <3>0. w = 0
      BY <2>2, <1>a, Zenon DEF Accepts
    <3>4. next_id < send_id
      BY <2>2, <2>0
    <3>1. w = 0 /\ next_id < send_id
      BY <3>0, <3>4
    <3>2. Len(accepted') = Len(accepted)
      BY <3>1, <1>c, <1>z
    <3>3. \A a \in next_id..send_id : t[a] = st[a]
      BY <3>1, <1>3, Zenon DEF Grown
    <3> QED
      BY <2>0, <3>2, <3>3, <1>a, <1>b, Zenon DEF LastData, DataBefore
  <2> QED
    BY <2>1, <2>2
<1>10. Layout(t, os)'
  BY <1>7, <1>8, <1>9, <1>y, Zenon DEF Layout
<1> QED
  BY <1>10, Zenon

(* A send-complete handler: its mark is the end of the stream.             *)
AddsHandler(k) ==
    /\ schq' = Append(schq, [id |-> send_id, k |-> k])
    /\ send_id' = send_id + 1
    /\ mark' = [mark EXCEPT ![k] = Len(accepted)]
    /\ UNCHANGED <<out, bsq, sfq, next_id, wire, accepted, blocked>>
    /\ \A i \in 1..Len(schq) : schq[i].k # k

(* A send-complete handler lies where the accepted units end.              *)
LEMMA AddsHandlerLayout ==
    ASSUME OpType, IdsInv, NEW st \in [Nat -> Nat], NEW os \in [Nat -> Nat], Layout(st, os),
           NEW k \in Calls, AddsHandler(k)
    PROVE  \E t, p \in [Nat -> Nat] : Layout(t, p)'
<1> DEFINE l == Len(schq)
<1>o. Offsets(st) /\ BufferOffsets(os)
  BY DEF Layout
<1>z. 0 \in Nat /\ l \in Nat /\ Len(accepted) \in Nat /\ Len(wire) \in Nat
  BY Lens
<1>a. /\ schq' = Append(schq, [id |-> send_id, k |-> k]) /\ send_id' = send_id + 1
      /\ mark' = [mark EXCEPT ![k] = Len(accepted)]
      /\ out' = out /\ bsq' = bsq /\ sfq' = sfq /\ next_id' = next_id /\ wire' = wire
      /\ accepted' = accepted /\ blocked' = blocked
      /\ \A i \in 1..l : schq[i].k # k
  BY DEF AddsHandler
<1>2. /\ Len(schq') = l + 1 /\ \A i \in 1..l : schq'[i] = schq[i]
      /\ schq'[l + 1].id = send_id /\ schq'[l + 1].k = k
  BY <1>a, HandlerAppended
<1>m. mark'[k] = Len(accepted) /\ \A x \in Calls : x # k => mark'[x] = mark[x]
  BY <1>a DEF OpType
<1>3. PICK t \in [Nat -> Nat] : Grown(st, t, next_id, send_id, 0, 0)
  <2>1. next_id \in Nat /\ send_id \in Nat /\ next_id <= send_id /\ Mono(st, next_id, send_id)
    BY <1>o DEF OpType, IdsInv, Ids, Offsets
  <2> QED
    BY <2>1, <1>z, GrowOffsets, Zenon
<1>s. Stay(st, t, 0, 0)
  BY <1>o, <1>z, <1>3, GrowOld, Zenon
<1>4. /\ t[next_id] = Len(wire) + 0 /\ t[send_id] = Len(accepted) + 0
      /\ t[send_id + 1] = Len(accepted) + 0 + 0 /\ Mono(t, next_id, send_id + 1)
  BY <1>s, Zenon DEF Stay
<1>5. /\ t[next_id] = Len(wire) /\ t[send_id] = Len(accepted) /\ t[send_id + 1] = Len(accepted)
  BY <1>4, <1>z
<1> HIDE DEF l
<1>7. Offsets(t)'
  <2>1. ASSUME NEW i \in 1..(l + 1)
        PROVE  t[schq'[i].id + 1] = t[schq'[i].id] /\ mark'[schq'[i].k] = t[schq'[i].id]
    <3>1. CASE i \in 1..l
      <4>1. schq[i].k \in Calls /\ schq[i].k # k
        BY <3>1, <1>a, <1>o, Bounds, Zenon DEF l
      <4>2. mark'[schq[i].k] = st[schq[i].id]
        BY <3>1, <4>1, <1>m, <1>o, Zenon DEF Offsets, l
      <4> QED
        BY <3>1, <4>2, <1>2, <1>s, Zenon DEF Stay, l
    <3>2. CASE i = l + 1
      BY <3>2, <1>2, <1>5, <1>m, Zenon
    <3> QED
      BY <3>1, <3>2, <1>z, LastOrOld
  <2>2. /\ \A i \in 1..Len(bsq) : t[bsq[i].id + 1] = t[bsq[i].id] + bsq[i].len
        /\ \A i \in 1..Len(sfq) : t[sfq[i].id + 1] = t[sfq[i].id] + Len(sfq[i].rest)
    BY <1>s, Zenon DEF Stay
  <2> QED
    BY <1>2, <1>4, <1>5, <1>a, <2>1, <2>2, Zenon DEF Offsets
<1>8. BufferOffsets(os)'
  BY <1>o, <1>a, Zenon DEF BufferOffsets
<1>9. ~blocked' => Contents(t, os)'
  <2> SUFFICES ASSUME ~blocked' PROVE Contents(t, os)'
    OBVIOUS
  <2>2. Contents(st, os)
    BY <1>a DEF Layout
  <2>4. ASSUME NEW i \in 1..Len(bsq), NEW j \in 1..bsq[i].len
        PROVE  out[os[i] + j] = accepted[t[bsq[i].id] + j]
    BY <2>2, <1>s, Zenon DEF Contents, Stay
  <2>5. ASSUME NEW i \in 1..Len(sfq), NEW j \in 1..Len(sfq[i].rest)
        PROVE  sfq[i].rest[j] = accepted[t[sfq[i].id] + j]
    BY <2>2, <1>s, Zenon DEF Contents, Stay
  <2>7. bsq' = bsq /\ sfq' = sfq /\ out' = out /\ accepted' = accepted
    BY <1>a
  <2> QED
    BY <2>4, <2>5, <2>7, Zenon DEF Contents
<1>y. LastData(t)'
  <2>0. LastData(st) /\ next_id \in Nat /\ send_id \in Nat /\ next_id <= send_id
    BY DEF Layout, OpType, IdsInv, Ids
  <2>1. ASSUME NEW a \in next_id..(send_id + 1), DataBefore(a)' PROVE t[a] = Len(accepted)
    <3>1. CASE a = send_id + 1
      BY <3>1, <1>5, Zenon
    <3>2. CASE a = send_id
      BY <3>2, <1>5, Zenon
    <3>3. CASE a \in next_id..send_id /\ next_id < send_id
      <4>1. DataBefore(a)
        BY <2>1, <1>a, Zenon DEF DataBefore
      <4>2. st[a] = Len(accepted)
        BY <4>1, <3>3, <2>0, Zenon DEF LastData
      <4>3. t[a] = st[a]
        BY <3>3, <1>3, Zenon DEF Grown
      <4> QED
        BY <4>2, <4>3
    <3> QED
      BY <3>1, <3>2, <3>3, <2>0
  <2> QED
    BY <2>1, <1>a, Zenon DEF LastData
<1>10. Layout(t, os)'
  BY <1>7, <1>8, <1>9, <1>y, Zenon DEF Layout
<1> QED
  BY <1>10, Zenon

-----------------------------------------------------------------------------
(* handle_write() takes from the entry that is next.                       *)
LEMMA HeadOnly ==
    ASSUME NEW s, NEW t, NEW u, NEW n \in Nat, NEW m \in Nat, Ids(s, t, u, n, m),
           Len(s) \in Nat, Len(s) >= 1, s[1].id = n
    PROVE  /\ n < m
           /\ \A i \in 2..Len(s) : s[i].id # n
           /\ \A i \in 1..Len(t) : t[i].id # n
           /\ \A i \in 1..Len(u) : u[i].id # n
<1>1. 1 \in 1..Len(s) /\ \A i \in 2..Len(s) : i \in 1..Len(s) /\ i # 1
  OBVIOUS
<1>2. s[1].id \in n..(m - 1)
  BY <1>1 DEF Ids
<1>3. n < m
  BY <1>2
<1>4. \A i \in 2..Len(s) : s[i].id # n
  BY <1>1, Zenon DEF Ids
<1>5. /\ \A i \in 1..Len(t) : t[i].id # n
      /\ \A i \in 1..Len(u) : u[i].id # n
  BY <1>1, Zenon DEF Ids
<1> QED
  BY <1>3, <1>4, <1>5

(* Offsets stay monotonic without the first.                               *)
LEMMA MonoNext ==
    ASSUME NEW st, NEW n \in Nat, NEW m \in Nat, Mono(st, n, m)
    PROVE  Mono(st, n + 1, m)
<1>1. \A a \in (n + 1)..m : a \in n..m
  OBVIOUS
<1> QED
  BY <1>1, Zenon DEF Mono

(* output_buf loses n units at its front.                                  *)
Shift(os, n) == [i \in Nat |-> IF os[i] >= n THEN os[i] - n ELSE 0]

(* Shift, by position.                                                     *)
LEMMA ShiftBy ==
    ASSUME NEW os \in [Nat -> Nat], NEW n \in Nat
    PROVE  /\ Shift(os, n) \in [Nat -> Nat]
           /\ \A i \in Nat : os[i] >= n => Shift(os, n)[i] + n = os[i]
           /\ \A i \in Nat : os[i] < n => Shift(os, n)[i] = 0
<1>1. \A i \in Nat : os[i] \in Nat
  OBVIOUS
<1> QED
  BY <1>1 DEF Shift

(* Shifted offsets stay monotonic.                                         *)
LEMMA ShiftMono ==
    ASSUME NEW os \in [Nat -> Nat], NEW n \in Nat, NEW m \in Nat, Mono(os, 1, m)
    PROVE  Mono(Shift(os, n), 1, m)
<1>1. ASSUME NEW a \in 1..m, NEW b \in 1..m, a <= b PROVE Shift(os, n)[a] <= Shift(os, n)[b]
  <2>1. os[a] <= os[b]
    BY <1>1 DEF Mono
  <2>2. os[a] \in Nat /\ os[b] \in Nat
    OBVIOUS
  <2>3. /\ Shift(os, n)[a] = IF os[a] >= n THEN os[a] - n ELSE 0
        /\ Shift(os, n)[b] = IF os[b] >= n THEN os[b] - n ELSE 0
    BY DEF Shift
  <2> QED
    BY <2>1, <2>2, <2>3
<1> QED
  BY <1>1 DEF Mono

(* The offsets of a buffer that starts with a byte stream.                 *)
LEMMA BufferHead ==
    ASSUME OpType, NEW os \in [Nat -> Nat], BufferOffsets(os), Len(bsq) >= 1,
           bsq[1].len \in Nat
    PROVE  /\ os[1] = 0 /\ os[2] = bsq[1].len /\ os[Len(bsq) + 1] = Len(out)
           /\ \A i \in 2..(Len(bsq) + 1) : os[i] >= bsq[1].len
<1>0. Len(bsq) \in Nat /\ Len(out) \in Nat
  BY Lens
<1>1. os[1] = 0 /\ os[Len(bsq) + 1] = Len(out) /\ os[1 + 1] = os[1] + bsq[1].len
  <2>1. 1 \in 1..Len(bsq)
    BY <1>0
  <2> QED
    BY <2>1, Zenon DEF BufferOffsets
<1>2. os[1 + 1] = 0 + bsq[1].len
  BY <1>1
<1>3. os[2] = bsq[1].len
  BY <1>2
<1>4. ASSUME NEW i \in 2..(Len(bsq) + 1) PROVE os[i] >= bsq[1].len
  <2>1. 2 \in 1..(Len(bsq) + 1) /\ i \in 1..(Len(bsq) + 1) /\ 2 <= i
    BY <1>0
  <2>2. os[2] <= os[i]
    BY <2>1, Zenon DEF BufferOffsets, Mono
  <2>3. i \in Nat
    BY <1>0
  <2>4. os[i] \in Nat
    BY <2>3
  <2> QED
    BY <2>2, <2>4, <1>3
<1> QED
  BY <1>1, <1>3, <1>4, Zenon

(* The first byte stream is next and n of its units leave output_buf; it   *)
(* keeps the rest, or goes.                                                *)
Drains(n) ==
    /\ Len(bsq) >= 1 /\ bsq[1].id = next_id /\ bsq[1].len \in Nat
    /\ n \in Nat /\ n <= bsq[1].len /\ n <= Len(out)
    /\ Len(wire') = Len(wire) + n /\ Len(out') = Len(out) - n
    /\ \A j \in 1..(Len(out) - n) : out'[j] = out[n + j]
    /\ UNCHANGED <<sfq, schq, send_id, accepted, mark, blocked>>

BytesStay(n) ==
    /\ Drains(n) /\ next_id' = next_id /\ Len(bsq') = Len(bsq)
    /\ bsq'[1].id = next_id /\ bsq'[1].len = bsq[1].len - n
    /\ \A i \in 2..Len(bsq) : bsq'[i] = bsq[i]

BytesGo(n) ==
    /\ Drains(n) /\ next_id' = next_id + 1 /\ Len(bsq') = Len(bsq) - 1
    /\ n = bsq[1].len
    /\ \A i \in 1..(Len(bsq) - 1) : bsq'[i] = bsq[i + 1]

(* The byte streams behind the first keep their place in what is left.     *)
Shifted(os, r, n) ==
    /\ r \in [Nat -> Nat]
    /\ r[1] = 0 /\ r[2] = bsq[1].len - n /\ r[Len(bsq) + 1] = Len(out')
    /\ Mono(r, 1, Len(bsq) + 1)
    /\ \A i \in 2..Len(bsq) : r[i + 1] = r[i] + bsq[i].len
    /\ \A i \in 2..Len(bsq) : \A j \in 1..bsq[i].len : out'[r[i] + j] = out[os[i] + j]

(* The byte streams behind the first move to the front of output_buf with  *)
(* it.                                                                     *)
LEMMA ShiftedBuffer ==
    ASSUME OpType, IdsInv, NEW st \in [Nat -> Nat], NEW os \in [Nat -> Nat],
           Offsets(st), BufferOffsets(os), NEW n, Drains(n)
    PROVE  Shifted(os, Shift(os, n), n)
<1> DEFINE l == Len(bsq)
           h == bsq[1].len
           p == Shift(os, n)
<1>z. l \in Nat /\ Len(out) \in Nat
  BY Lens DEF OpType
<1>a. /\ l >= 1 /\ h \in Nat /\ n \in Nat /\ n <= h /\ n <= Len(out)
      /\ Len(out') = Len(out) - n
  BY DEF Drains
<1>c. \A j \in 1..(Len(out) - n) : out'[j] = out[n + j]
  BY DEF Drains
<1>n. n \in Nat /\ h \in Nat /\ n <= h
  BY <1>a
<1>q. Len(out) \in Nat /\ n <= Len(out)
  BY <1>a, <1>z
<1>l. l \in Nat /\ l >= 1
  BY <1>a, <1>z
<1>h. /\ os[1] = 0 /\ os[2] = h /\ os[l + 1] = Len(out)
      /\ \A i \in 2..(l + 1) : os[i] >= h
  BY <1>a, BufferHead, Zenon
<1> HIDE DEF l, h
<1>s. /\ p \in [Nat -> Nat]
      /\ \A i \in Nat : os[i] >= n => p[i] + n = os[i]
      /\ \A i \in Nat : os[i] < n => p[i] = 0
  BY <1>a, ShiftBy
<1>m. Mono(p, 1, l + 1)
  <2>1. l + 1 \in Nat
    BY <1>z
  <2> QED
    BY <2>1, <1>a, ShiftMono, Zenon DEF BufferOffsets, l
<1> HIDE DEF p
<1>i. p[1] = 0
  <2>1. CASE n = 0
    <3>1. p[1] + 0 = 0 /\ p[1] \in Nat
      BY <2>1, <1>s, <1>h
    <3> QED
      BY <3>1
  <2>2. CASE n # 0
    BY <2>2, <1>s, <1>h, <1>a
  <2> QED
    BY <2>1, <2>2
<1>j. ASSUME NEW i \in 2..(l + 1) PROVE p[i] + n = os[i] /\ p[i] \in Nat /\ os[i] \in Nat
  <2>1. i \in Nat
    BY <1>z
  <2>2. os[i] \in Nat
    BY <2>1
  <2>3. os[i] >= n
    <3>1. os[i] >= h
      BY <1>h
    <3> QED
      BY <3>1, <2>2, <1>n
  <2>4. p[i] \in Nat
    BY <2>1, <1>s
  <2> QED
    BY <2>1, <2>2, <2>3, <2>4, <1>s, Zenon
<1>1. p[l + 1] = Len(out')
  <2>1. l + 1 \in 2..(l + 1)
    BY <1>l
  <2>2. p[l + 1] + n = Len(out) /\ p[l + 1] \in Nat
    BY <2>1, <1>j, <1>h
  <2>3. Len(out') = Len(out) - n
    BY <1>a
  <2> QED
    BY <2>2, <2>3, <1>q, <1>n, Minus, Zenon
<1>2. p[2] = h - n
  <2>1. 2 \in 2..(l + 1)
    BY <1>l
  <2>2. p[2] + n = h /\ p[2] \in Nat
    BY <2>1, <1>j, <1>h
  <2> QED
    BY <2>2, <1>n, Minus, Zenon
<1>3. ASSUME NEW i \in 2..l
      PROVE  /\ i \in 1..l /\ i \in 2..(l + 1) /\ i + 1 \in 2..(l + 1)
  BY <1>l
<1>4. ASSUME NEW i \in 2..l PROVE p[i + 1] = p[i] + bsq[i].len
  <2>2. os[i + 1] = os[i] + bsq[i].len
    BY <1>3, Zenon DEF BufferOffsets, l
  <2>3. bsq[i].len \in Nat
    BY <1>3, Bounds, Zenon DEF l
  <2>4. p[i + 1] + n = os[i + 1] /\ p[i + 1] \in Nat
    BY <1>3, <1>j
  <2>5. p[i] + n = os[i] /\ p[i] \in Nat
    BY <1>3, <1>j
  <2> DEFINE x == p[i + 1]
             y == p[i]
             c == bsq[i].len
  <2>6. x \in Nat /\ y \in Nat /\ c \in Nat /\ x + n = (y + n) + c
    BY <2>2, <2>3, <2>4, <2>5, Zenon
  <2> HIDE DEF x, y, c
  <2>7. x = y + c
    BY <2>6, <1>n
  <2> QED
    BY <2>7, Zenon DEF x, y, c
<1>5. ASSUME NEW i \in 2..l, NEW j \in 1..bsq[i].len PROVE out'[p[i] + j] = out[os[i] + j]
  <2>1. os[i] + j \in 1..Len(out) /\ bsq[i].len \in Nat
    BY <1>3, InRange, Bounds, Zenon DEF l
  <2>2. p[i] + n = os[i] /\ p[i] \in Nat
    BY <1>3, <1>j
  <2>3. j \in Nat /\ j >= 1
    BY <2>1
  <2>4. os[i] + j \in Nat /\ os[i] + j <= Len(out)
    BY <2>1, <1>q
  <2>5. n + (p[i] + j) = os[i] + j
    BY <2>2, <2>3, <1>n
  <2>6. p[i] + j \in Nat /\ p[i] + j >= 1
    BY <2>2, <2>3
  <2>7. n + (p[i] + j) <= Len(out)
    BY <2>4, <2>5
  <2>8. p[i] + j \in 1..(Len(out) - n)
    BY <2>6, <2>7, <1>n, <1>q, Left, Zenon
  <2> QED
    BY <2>5, <2>8, <1>c
<1>6. p \in [Nat -> Nat]
  BY <1>s
<1> QED
  BY <1>1, <1>2, <1>4, <1>5, <1>6, <1>i, <1>m, Zenon DEF Shifted, l, h, p

(* A part of the first byte stream is on the wire.                         *)
LEMMA BytesStayLayout ==
    ASSUME OpType, IdsInv, NEW st \in [Nat -> Nat], NEW os \in [Nat -> Nat], Layout(st, os),
           NEW n, BytesStay(n)
    PROVE  \E t, p \in [Nat -> Nat] : Layout(t, p)'
<1> DEFINE l == Len(bsq)
           h == bsq[1].len
           p == Shift(os, n)
<1>o. Offsets(st) /\ BufferOffsets(os)
  BY DEF Layout
<1>z. /\ l \in Nat /\ Len(accepted) \in Nat /\ Len(wire) \in Nat /\ Len(out) \in Nat
      /\ next_id \in Nat /\ send_id \in Nat
  BY Lens DEF OpType
<1>a. /\ l >= 1 /\ bsq[1].id = next_id /\ h \in Nat /\ n \in Nat /\ n <= h /\ n <= Len(out)
      /\ Len(wire') = Len(wire) + n /\ Len(out') = Len(out) - n
      /\ sfq' = sfq /\ schq' = schq /\ send_id' = send_id /\ accepted' = accepted
      /\ mark' = mark /\ blocked' = blocked /\ next_id' = next_id
      /\ Len(bsq') = l /\ bsq'[1].id = next_id /\ bsq'[1].len = h - n
  BY DEF BytesStay, Drains
<1>b. \A i \in 2..l : bsq'[i] = bsq[i]
  BY DEF BytesStay
<1>c. \A j \in 1..(Len(out) - n) : out'[j] = out[n + j]
  BY DEF BytesStay, Drains
<1>1. /\ next_id < send_id /\ \A i \in 2..l : bsq[i].id # next_id
      /\ \A i \in 1..Len(sfq) : sfq[i].id # next_id
      /\ \A i \in 1..Len(schq) : schq[i].id # next_id
  BY <1>z, <1>a, HeadOnly, Zenon DEF IdsInv
<1>n. n \in Nat /\ h \in Nat /\ n <= h
  BY <1>a
<1>q. Len(out) \in Nat /\ n <= Len(out)
  BY <1>a, <1>z
<1>l. l \in Nat /\ l >= 1
  BY <1>a, <1>z
<1> HIDE DEF l
<1>d. 1 \in 1..l /\ \A i \in 1..l : i = 1 \/ i \in 2..l
  BY <1>l
<1>2. st[next_id + 1] = st[next_id] + h /\ st[next_id] = Len(wire)
  BY <1>o, <1>a, <1>d, Zenon DEF Offsets, l
<1>u. st[next_id] \in Nat
  BY <1>z
<1>v. next_id + 1 \in Nat
  BY <1>z
<1>w. st[next_id + 1] \in Nat
  BY <1>v
<1>t. st[next_id] \in Nat /\ st[next_id + 1] \in Nat
  BY <1>u, <1>w
<1> HIDE DEF h
<1>3. st[next_id] + n <= st[next_id + 1]
  BY <1>2, <1>n, <1>t
<1>g. Mono(st, next_id, send_id)
  BY <1>o DEF Offsets
<1>5. PICK t \in [Nat -> Nat] : Advanced(st, t, next_id, send_id, n)
  <2>1. next_id \in Nat /\ send_id \in Nat /\ next_id < send_id
    BY <1>1, <1>z
  <2> QED
    BY <2>1, <1>3, <1>n, <1>g, AdvanceOffsets, Zenon
<1>4. /\ t[next_id] = st[next_id] + n
      /\ \A a \in Nat : a # next_id => t[a] = st[a]
      /\ Mono(t, next_id, send_id)
  BY <1>5 DEF Advanced
<1>e. ASSUME NEW a \in Nat, a # next_id, a \in next_id..send_id
      PROVE  t[a] = st[a] /\ t[a + 1] = st[a + 1]
  <2>1. a + 1 \in Nat /\ a + 1 # next_id
    BY <1>e, <1>z
  <2> QED
    BY <2>1, <1>4, <1>e
<1>f. /\ \A i \in 2..l : t[bsq[i].id] = st[bsq[i].id] /\ t[bsq[i].id + 1] = st[bsq[i].id + 1]
      /\ \A i \in 1..Len(sfq) : t[sfq[i].id] = st[sfq[i].id] /\ t[sfq[i].id + 1] = st[sfq[i].id + 1]
      /\ \A i \in 1..Len(schq) :
            t[schq[i].id] = st[schq[i].id] /\ t[schq[i].id + 1] = st[schq[i].id + 1]
  <2>1. \A i \in 2..l : i \in 1..l
    BY <1>z
  <2>2. /\ \A i \in 1..l : bsq[i].id \in Nat /\ bsq[i].id \in next_id..send_id
        /\ \A i \in 1..Len(sfq) : sfq[i].id \in Nat /\ sfq[i].id \in next_id..send_id
        /\ \A i \in 1..Len(schq) : schq[i].id \in Nat /\ schq[i].id \in next_id..send_id
    BY <1>o, Bounds, Zenon DEF l
  <2> QED
    BY <2>1, <2>2, <1>1, <1>e, Zenon
<1>7. Offsets(t)'
  <2>1. ASSUME NEW i \in 1..l PROVE t[bsq'[i].id + 1] = t[bsq'[i].id] + bsq'[i].len
    <3>1. CASE i = 1
      <4>1. t[next_id + 1] = st[next_id + 1]
        BY <1>4, <1>z
      <4>2. t[next_id + 1] = t[next_id] + (h - n)
        BY <4>1, <1>2, <1>4, <1>n, <1>t
      <4> QED
        BY <4>2, <3>1, <1>a
    <3>2. CASE i \in 2..l
      <4>1. st[bsq[i].id + 1] = st[bsq[i].id] + bsq[i].len
        BY <1>o, Zenon DEF Offsets, l
      <4> QED
        BY <4>1, <3>2, <1>b, <1>f, Zenon
    <3> QED
      BY <3>1, <3>2, <1>d
  <2>2. ASSUME NEW i \in 1..Len(sfq) PROVE t[sfq[i].id + 1] = t[sfq[i].id] + Len(sfq[i].rest)
    BY <1>f, <1>o, Zenon DEF Offsets
  <2>3. ASSUME NEW i \in 1..Len(schq)
        PROVE  t[schq[i].id + 1] = t[schq[i].id] /\ mark[schq[i].k] = t[schq[i].id]
    BY <1>f, <1>o, Zenon DEF Offsets
  <2>4. t[next_id] = Len(wire')
    BY <1>2, <1>4, <1>a
  <2>5. t[send_id] = Len(accepted)
    <3>1. t[send_id] = st[send_id]
      BY <1>1, <1>4, <1>z
    <3> QED
      BY <3>1, <1>o, Zenon DEF Offsets
  <2>6. Len(bsq') = l
    BY <1>a
  <2> QED
    BY <1>a, <1>4, <2>1, <2>2, <2>3, <2>4, <2>5, <2>6, Zenon DEF Offsets
<1>h. os[1] = 0
  BY <1>o, Zenon DEF BufferOffsets
<1>s. Shifted(os, p, n)
  <2>1. Drains(n)
    BY DEF BytesStay
  <2> QED
    BY <2>1, <1>o, ShiftedBuffer, Zenon
<1> HIDE DEF p
<1>i. p[1] = 0 /\ p[2] = h - n /\ p[l + 1] = Len(out') /\ Mono(p, 1, l + 1)
  BY <1>s, Zenon DEF Shifted, h, l
<1>8. BufferOffsets(p)'
  <2>2. ASSUME NEW i \in 1..l PROVE p[i + 1] = p[i] + bsq'[i].len
    <3>1. CASE i = 1
      <4>4. i + 1 = 2
        BY <3>1
      <4>5. h - n = 0 + (h - n)
        BY <1>n
      <4>6. bsq'[i].len = h - n /\ p[i] = 0
        BY <3>1, <1>a, <1>i, Zenon
      <4> QED
        BY <4>4, <4>5, <4>6, <1>i, Zenon
    <3>2. CASE i \in 2..l
      BY <3>2, <1>s, <1>b, Zenon DEF Shifted, l
    <3> QED
      BY <3>1, <3>2, <1>d
  <2> QED
    BY <2>2, <1>i, <1>a, Zenon DEF BufferOffsets
<1>9. ~blocked' => Contents(t, p)'
  <2> SUFFICES ASSUME ~blocked' PROVE Contents(t, p)'
    OBVIOUS
  <2>1. Contents(st, os)
    BY <1>a DEF Layout
  <2>2. ASSUME NEW i \in 1..l, NEW j \in 1..bsq'[i].len
        PROVE  out'[p[i] + j] = accepted[t[bsq'[i].id] + j]
    <3>1. CASE i = 1
      <4>1. j \in 1..(h - n)
        BY <3>1, <1>a
      <4>2. n + j \in 1..h /\ j \in 1..(Len(out) - n) /\ 0 + j = j
        <5>1. h <= Len(out)
          <6>1. os[1] + h <= Len(out)
            BY <1>o, <1>d, Bounds, Zenon DEF h, l
          <6> QED
            BY <6>1, <1>h, <1>a
        <5> QED
          BY <5>1, <4>1, <1>a, <1>z
      <4>3. out[os[1] + (n + j)] = accepted[st[bsq[1].id] + (n + j)]
        BY <4>2, <2>1, <1>d, Zenon DEF Contents, h, l
      <4>4. out'[j] = out[n + j]
        BY <4>2, <1>c
      <4>5. os[1] + (n + j) = n + j
        BY <4>1, <1>h, <1>a
      <4>6. st[next_id] + (n + j) = t[next_id] + j
        BY <4>1, <1>4, <1>2, <1>z, <1>a
      <4>7. out'[j] = accepted[t[next_id] + j]
        BY <4>3, <4>4, <4>5, <4>6, <1>a, Zenon
      <4> QED
        BY <4>7, <4>2, <3>1, <1>a, <1>i, Zenon
    <3>2. CASE i \in 2..l
      <4>1. bsq'[i] = bsq[i] /\ t[bsq[i].id] = st[bsq[i].id]
        BY <3>2, <1>b, <1>f, Zenon
      <4>2. j \in 1..bsq[i].len /\ bsq[i].len \in Nat
        BY <4>1, <1>o, <2>2, Bounds, Zenon DEF l
      <4>3. out[os[i] + j] = accepted[st[bsq[i].id] + j]
        BY <4>2, <2>1, Zenon DEF Contents, l
      <4>7. out'[p[i] + j] = out[os[i] + j]
        BY <3>2, <4>2, <1>s, Zenon DEF Shifted, l
      <4> QED
        BY <4>1, <4>3, <4>7, Zenon
    <3> QED
      BY <3>1, <3>2, <1>d
  <2>3. ASSUME NEW i \in 1..Len(sfq), NEW j \in 1..Len(sfq[i].rest)
        PROVE  sfq[i].rest[j] = accepted[t[sfq[i].id] + j]
    <3>1. sfq[i].rest[j] = accepted[st[sfq[i].id] + j]
      BY <2>1, Zenon DEF Contents
    <3>2. t[sfq[i].id] = st[sfq[i].id]
      BY <1>f, Zenon
    <3> QED
      BY <3>1, <3>2, Zenon
  <2>4. Len(bsq') = l /\ sfq' = sfq /\ accepted' = accepted
    BY <1>a
  <2> QED
    BY <2>2, <2>3, <2>4, Zenon DEF Contents
<1>y. LastData(t)'
  <2>0. LastData(st) /\ send_id' = send_id /\ next_id' = next_id /\ accepted' = accepted
    BY <1>a DEF Layout
  <2>1. ASSUME NEW a \in next_id..send_id, DataBefore(a)' PROVE DataBefore(a) /\ t[a] = st[a]
    <3>1. next_id < a
      BY <2>1, <1>a, <1>d, Zenon DEF DataBefore
    <3>2. a \in Nat /\ a # next_id
      BY <3>1, <1>z
    <3>3. ASSUME NEW i \in 1..l PROVE bsq[i].id < a
      <4>1. bsq'[i].id = bsq[i].id
        BY <1>a, <1>b, <1>d, Zenon
      <4>2. Len(bsq') = l
        BY <1>a
      <4> QED
        BY <2>1, <4>1, <4>2, Zenon DEF DataBefore
    <3>4. \A i \in 1..Len(sfq) : sfq[i].id < a
      BY <2>1, <1>a, Zenon DEF DataBefore
    <3> QED
      BY <3>2, <3>3, <3>4, <1>4, Zenon DEF DataBefore, l
  <2> QED
    BY <2>0, <2>1, LastKept, Zenon
<1>10. Layout(t, p)'
  BY <1>7, <1>8, <1>9, <1>y, Zenon DEF Layout
<1>11. p \in [Nat -> Nat]
  BY <1>s, Zenon DEF Shifted
<1> QED
  BY <1>10, <1>11, Zenon

(* The whole first byte stream is on the wire, the next id is due.         *)
LEMMA BytesGoLayout ==
    ASSUME OpType, IdsInv, NEW st \in [Nat -> Nat], NEW os \in [Nat -> Nat], Layout(st, os),
           NEW n, BytesGo(n)
    PROVE  \E t, p \in [Nat -> Nat] : Layout(t, p)'
<1> DEFINE l == Len(bsq)
           r == Shift(os, n)
           p == [i \in Nat |-> r[i + 1]]
<1>o. Offsets(st) /\ BufferOffsets(os)
  BY DEF Layout
<1>z. l \in Nat /\ next_id \in Nat /\ send_id \in Nat
  BY Lens DEF OpType
<1>a. /\ l >= 1 /\ bsq[1].id = next_id /\ n \in Nat /\ n = bsq[1].len
      /\ Len(wire') = Len(wire) + n
      /\ sfq' = sfq /\ schq' = schq /\ send_id' = send_id /\ accepted' = accepted
      /\ mark' = mark /\ blocked' = blocked /\ next_id' = next_id + 1
      /\ Len(bsq') = l - 1
  BY DEF BytesGo, Drains
<1>b. \A i \in 1..(l - 1) : bsq'[i] = bsq[i + 1]
  BY DEF BytesGo
<1>s. Shifted(os, r, n)
  <2>1. Drains(n)
    BY DEF BytesGo
  <2> QED
    BY <2>1, <1>o, ShiftedBuffer, Zenon
<1> HIDE DEF r
<1>r. r \in [Nat -> Nat]
  BY <1>s, Zenon DEF Shifted
<1>p. p \in [Nat -> Nat] /\ \A i \in Nat : p[i] = r[i + 1]
  BY <1>r
<1> HIDE DEF p
<1>l. l \in Nat /\ l >= 1
  BY <1>a, <1>z
<1>i. /\ r[2] = bsq[1].len - n /\ r[l + 1] = Len(out') /\ Mono(r, 1, l + 1)
      /\ \A i \in 2..l : r[i + 1] = r[i] + bsq[i].len
      /\ \A i \in 2..l : \A j \in 1..bsq[i].len : out'[r[i] + j] = out[os[i] + j]
  BY <1>s, Zenon DEF Shifted
<1>f. /\ \A i \in 1..l : st[bsq[i].id + 1] = st[bsq[i].id] + bsq[i].len
      /\ \A i \in 1..Len(sfq) : st[sfq[i].id + 1] = st[sfq[i].id] + Len(sfq[i].rest)
      /\ \A i \in 1..Len(schq) : /\ st[schq[i].id + 1] = st[schq[i].id]
                                 /\ mark[schq[i].k] = st[schq[i].id]
      /\ st[next_id] = Len(wire) /\ st[send_id] = Len(accepted) /\ Mono(st, next_id, send_id)
  BY <1>o, Zenon DEF Offsets
<1> HIDE DEF l
<1>d. /\ 1 \in 1..l
      /\ \A i \in 1..(l - 1) : i + 1 \in 2..l /\ i + 1 \in 1..l /\ i \in Nat /\ i + 1 \in Nat
  BY <1>l
<1>7. Offsets(st)'
  <2>1. ASSUME NEW i \in 1..(l - 1) PROVE st[bsq'[i].id + 1] = st[bsq'[i].id] + bsq'[i].len
    BY <1>b, <1>d, <1>f, Zenon
  <2>2. st[next_id + 1] = Len(wire')
    BY <1>a, <1>d, <1>f, Zenon
  <2>3. Mono(st, next_id + 1, send_id)
    BY <1>f, <1>z, MonoNext, Zenon
  <2> QED
    BY <1>a, <1>f, <2>1, <2>2, <2>3, Zenon DEF Offsets
<1>8. BufferOffsets(p)'
  <2>1. p[1] = 0
    <3>1. p[1] = r[2]
      BY <1>p
    <3>0. n \in Nat
      BY <1>a
    <3>2. n - n = 0
      BY <3>0
    <3> QED
      BY <3>1, <3>2, <1>a, <1>i, Zenon
  <2>2. (l - 1) + 1 = l /\ l \in Nat
    BY <1>l
  <2>3. p[l] = Len(out')
    BY <1>p, <1>i, <2>2, Zenon
  <2>4. ASSUME NEW i \in 1..(l - 1) PROVE p[i + 1] = p[i] + bsq'[i].len
    BY <1>b, <1>d, <1>p, <1>i, Zenon
  <2>5. Mono(p, 1, l)
    <3>1. ASSUME NEW a \in 1..l, NEW b \in 1..l, a <= b PROVE p[a] <= p[b]
      <4>1. a \in Nat /\ b \in Nat /\ a + 1 \in 1..(l + 1) /\ b + 1 \in 1..(l + 1) /\ a + 1 <= b + 1
        BY <3>1, <1>l
      <4>2. r[a + 1] <= r[b + 1]
        BY <4>1, <1>i, Zenon DEF Mono
      <4> QED
        BY <4>1, <4>2, <1>p, Zenon
    <3> QED
      BY <3>1, Zenon DEF Mono
  <2> QED
    BY <2>1, <2>2, <2>3, <2>4, <2>5, <1>a, Zenon DEF BufferOffsets
<1>9. ~blocked' => Contents(st, p)'
  <2> SUFFICES ASSUME ~blocked' PROVE Contents(st, p)'
    OBVIOUS
  <2>1. Contents(st, os)
    BY <1>a DEF Layout
  <2>2. ASSUME NEW i \in 1..(l - 1), NEW j \in 1..bsq'[i].len
        PROVE  out'[p[i] + j] = accepted[st[bsq'[i].id] + j]
    <3>1. bsq'[i] = bsq[i + 1] /\ p[i] = r[i + 1] /\ i + 1 \in 2..l /\ i + 1 \in 1..l
      BY <1>b, <1>d, <1>p, Zenon
    <3>2. j \in 1..bsq[i + 1].len
      BY <3>1
    <3>3. out[os[i + 1] + j] = accepted[st[bsq[i + 1].id] + j]
      BY <2>1, <3>1, <3>2, Zenon DEF Contents, l
    <3>4. out'[r[i + 1] + j] = out[os[i + 1] + j]
      BY <3>1, <3>2, <1>i, Zenon
    <3> QED
      BY <3>1, <3>3, <3>4, Zenon
  <2>3. \A i \in 1..Len(sfq) : \A j \in 1..Len(sfq[i].rest) :
           sfq[i].rest[j] = accepted[st[sfq[i].id] + j]
    BY <2>1, Zenon DEF Contents
  <2>4. Len(bsq') = l - 1 /\ sfq' = sfq /\ accepted' = accepted
    BY <1>a
  <2> QED
    BY <2>2, <2>3, <2>4, Zenon DEF Contents
<1>y. LastData(st)'
  <2>0. LastData(st) /\ send_id' = send_id /\ next_id' = next_id + 1 /\ accepted' = accepted
    BY <1>a DEF Layout
  <2>1. ASSUME NEW a \in (next_id + 1)..send_id, DataBefore(a)'
        PROVE  a \in next_id..send_id /\ DataBefore(a)
    <3>1. a \in next_id..send_id /\ next_id < a
      BY <1>z
    <3>3. ASSUME NEW i \in 1..l PROVE bsq[i].id < a
      <4>1. CASE i = 1
        BY <4>1, <3>1, <1>a, Zenon
      <4>2. CASE i # 1
        <5>1. i - 1 \in 1..(l - 1) /\ (i - 1) + 1 = i
          BY <4>2, <1>l
        <5>2. bsq'[i - 1] = bsq[i]
          BY <5>1, <1>b
        <5>3. Len(bsq') = l - 1
          BY <1>a
        <5>4. bsq'[i - 1].id < a
          BY <2>1, <5>1, <5>3, Zenon DEF DataBefore
        <5> QED
          BY <5>2, <5>4, Zenon
      <4> QED
        BY <4>1, <4>2
    <3>4. \A i \in 1..Len(sfq) : sfq[i].id < a
      BY <2>1, <1>a, Zenon DEF DataBefore
    <3> QED
      BY <3>1, <3>3, <3>4, Zenon DEF DataBefore, l
  <2> QED
    BY <2>0, <2>1, LastKept, Zenon
<1>10. Layout(st, p)'
  BY <1>7, <1>8, <1>9, <1>y, Zenon DEF Layout
<1> QED
  BY <1>10, <1>p, Zenon

(* The same of the first file, if it is next ...                           *)
Reads(n) ==
    /\ Len(sfq) >= 1 /\ sfq[1].id = next_id /\ Len(sfq[1].rest) \in Nat
    /\ n \in Nat /\ n <= Len(sfq[1].rest)
    /\ Len(wire') = Len(wire) + n
    /\ UNCHANGED <<out, bsq, schq, send_id, accepted, mark, blocked>>

FileStay(n) ==
    /\ Reads(n) /\ next_id' = next_id /\ Len(sfq') = Len(sfq)
    /\ sfq'[1].id = next_id /\ Len(sfq'[1].rest) = Len(sfq[1].rest) - n
    /\ \A j \in 1..(Len(sfq[1].rest) - n) : sfq'[1].rest[j] = sfq[1].rest[n + j]
    /\ \A i \in 2..Len(sfq) : sfq'[i] = sfq[i]

FileGo(n) ==
    /\ Reads(n) /\ next_id' = next_id + 1 /\ Len(sfq') = Len(sfq) - 1
    /\ n = Len(sfq[1].rest)
    /\ \A i \in 1..(Len(sfq) - 1) : sfq'[i] = sfq[i + 1]

(* A part of the first file is on the wire.                                *)
LEMMA FileStayLayout ==
    ASSUME OpType, IdsInv, NEW st \in [Nat -> Nat], NEW os \in [Nat -> Nat], Layout(st, os),
           NEW n, FileStay(n)
    PROVE  \E t, p \in [Nat -> Nat] : Layout(t, p)'
<1> DEFINE l == Len(sfq)
           h == Len(sfq[1].rest)
<1>o. Offsets(st) /\ BufferOffsets(os)
  BY DEF Layout
<1>z. l \in Nat /\ next_id \in Nat /\ send_id \in Nat
  BY Lens DEF OpType
<1>a. /\ l >= 1 /\ sfq[1].id = next_id /\ h \in Nat /\ n \in Nat /\ n <= h
      /\ Len(wire') = Len(wire) + n
      /\ out' = out /\ bsq' = bsq /\ schq' = schq /\ send_id' = send_id /\ accepted' = accepted
      /\ mark' = mark /\ blocked' = blocked /\ next_id' = next_id
      /\ Len(sfq') = l /\ sfq'[1].id = next_id /\ Len(sfq'[1].rest) = h - n
  BY DEF FileStay, Reads
<1>b. \A i \in 2..l : sfq'[i] = sfq[i]
  BY DEF FileStay
<1>c. \A j \in 1..(h - n) : sfq'[1].rest[j] = sfq[1].rest[n + j]
  BY DEF FileStay
<1>1. /\ next_id < send_id /\ \A i \in 2..l : sfq[i].id # next_id
      /\ \A i \in 1..Len(bsq) : bsq[i].id # next_id
      /\ \A i \in 1..Len(schq) : schq[i].id # next_id
  <2>1. Len(bsq) \in Nat /\ Len(schq) \in Nat
    BY Lens
  <2>2. Ids(sfq, bsq, schq, next_id, send_id)
    BY <2>1, <1>z, IdsSwap, Zenon DEF IdsInv
  <2> QED
    BY <2>2, <1>z, <1>a, HeadOnly, Zenon
<1>n. n \in Nat /\ h \in Nat /\ n <= h
  BY <1>a
<1>l. l \in Nat /\ l >= 1
  BY <1>a, <1>z
<1> HIDE DEF l
<1>d. 1 \in 1..l /\ \A i \in 1..l : i = 1 \/ i \in 2..l
  BY <1>l
<1>2. st[next_id + 1] = st[next_id] + h /\ st[next_id] = Len(wire)
  BY <1>o, <1>a, <1>d, Zenon DEF Offsets, l
<1>u. st[next_id] \in Nat
  BY <1>z
<1>v. next_id + 1 \in Nat
  BY <1>z
<1>w. st[next_id + 1] \in Nat
  BY <1>v
<1> HIDE DEF h
<1>3. st[next_id] + n <= st[next_id + 1]
  BY <1>2, <1>n, <1>u, <1>w
<1>g. Mono(st, next_id, send_id)
  BY <1>o DEF Offsets
<1>5. PICK t \in [Nat -> Nat] : Advanced(st, t, next_id, send_id, n)
  <2>1. next_id \in Nat /\ send_id \in Nat /\ next_id < send_id
    BY <1>1, <1>z
  <2> QED
    BY <2>1, <1>3, <1>n, <1>g, AdvanceOffsets, Zenon
<1>4. /\ t[next_id] = st[next_id] + n
      /\ \A a \in Nat : a # next_id => t[a] = st[a]
      /\ Mono(t, next_id, send_id)
  BY <1>5 DEF Advanced
<1>e. ASSUME NEW a \in Nat, a # next_id, a \in next_id..send_id
      PROVE  t[a] = st[a] /\ t[a + 1] = st[a + 1]
  <2>1. a + 1 \in Nat /\ a + 1 # next_id
    BY <1>e, <1>z
  <2> QED
    BY <2>1, <1>4, <1>e
<1>f. /\ \A i \in 2..l : t[sfq[i].id] = st[sfq[i].id] /\ t[sfq[i].id + 1] = st[sfq[i].id + 1]
      /\ \A i \in 1..Len(bsq) : t[bsq[i].id] = st[bsq[i].id] /\ t[bsq[i].id + 1] = st[bsq[i].id + 1]
      /\ \A i \in 1..Len(schq) :
            t[schq[i].id] = st[schq[i].id] /\ t[schq[i].id + 1] = st[schq[i].id + 1]
  <2>1. \A i \in 2..l : i \in 1..l
    BY <1>z
  <2>2. /\ \A i \in 1..l : sfq[i].id \in Nat /\ sfq[i].id \in next_id..send_id
        /\ \A i \in 1..Len(bsq) : bsq[i].id \in Nat /\ bsq[i].id \in next_id..send_id
        /\ \A i \in 1..Len(schq) : schq[i].id \in Nat /\ schq[i].id \in next_id..send_id
    BY <1>o, Bounds, Zenon DEF l
  <2> QED
    BY <2>1, <2>2, <1>1, <1>e, Zenon
<1>7. Offsets(t)'
  <2>1. ASSUME NEW i \in 1..l PROVE t[sfq'[i].id + 1] = t[sfq'[i].id] + Len(sfq'[i].rest)
    <3>1. CASE i = 1
      <4>1. t[next_id + 1] = st[next_id + 1]
        BY <1>4, <1>z
      <4>2. t[next_id + 1] = t[next_id] + (h - n)
        BY <4>1, <1>2, <1>4, <1>n, <1>u, <1>w
      <4> QED
        BY <4>2, <3>1, <1>a
    <3>2. CASE i \in 2..l
      <4>1. st[sfq[i].id + 1] = st[sfq[i].id] + Len(sfq[i].rest)
        BY <1>o, Zenon DEF Offsets, l
      <4> QED
        BY <4>1, <3>2, <1>b, <1>f, Zenon
    <3> QED
      BY <3>1, <3>2, <1>d
  <2>2. ASSUME NEW i \in 1..Len(bsq) PROVE t[bsq[i].id + 1] = t[bsq[i].id] + bsq[i].len
    BY <1>f, <1>o, Zenon DEF Offsets
  <2>3. ASSUME NEW i \in 1..Len(schq)
        PROVE  t[schq[i].id + 1] = t[schq[i].id] /\ mark[schq[i].k] = t[schq[i].id]
    BY <1>f, <1>o, Zenon DEF Offsets
  <2>4. t[next_id] = Len(wire')
    BY <1>2, <1>4, <1>a
  <2>5. t[send_id] = Len(accepted)
    <3>1. t[send_id] = st[send_id]
      BY <1>1, <1>4, <1>z
    <3> QED
      BY <3>1, <1>o, Zenon DEF Offsets
  <2>6. Len(sfq') = l
    BY <1>a
  <2> QED
    BY <1>a, <1>4, <2>1, <2>2, <2>3, <2>4, <2>5, <2>6, Zenon DEF Offsets
<1>8. BufferOffsets(os)'
  BY <1>o, <1>a, Zenon DEF BufferOffsets
<1>9. ~blocked' => Contents(t, os)'
  <2> SUFFICES ASSUME ~blocked' PROVE Contents(t, os)'
    OBVIOUS
  <2>1. Contents(st, os)
    BY <1>a DEF Layout
  <2>2. ASSUME NEW i \in 1..l, NEW j \in 1..Len(sfq'[i].rest)
        PROVE  sfq'[i].rest[j] = accepted[t[sfq'[i].id] + j]
    <3>1. CASE i = 1
      <4>1. j \in 1..(h - n)
        BY <3>1, <1>a
      <4>2. n + j \in 1..h
        BY <4>1, <1>n
      <4>3. sfq[1].rest[n + j] = accepted[st[sfq[1].id] + (n + j)]
        BY <4>2, <2>1, <1>d, Zenon DEF Contents, h, l
      <4>4. sfq'[1].rest[j] = sfq[1].rest[n + j]
        BY <4>1, <1>c
      <4>5. j \in Int
        BY <4>1
      <4>6. st[next_id] + (n + j) = t[next_id] + j
        <5> DEFINE x == st[next_id]
        <5>1. t[next_id] = x + n /\ x \in Nat
          BY <1>4, <1>u
        <5> HIDE DEF x
        <5>2. x + (n + j) = (x + n) + j
          BY <5>1, <4>5, <1>n
        <5> QED
          BY <5>1, <5>2, Zenon DEF x
      <4>7. sfq'[1].rest[j] = accepted[t[next_id] + j]
        BY <4>3, <4>4, <4>6, <1>a, Zenon
      <4> QED
        BY <4>7, <3>1, <1>a, Zenon
    <3>2. CASE i \in 2..l
      <4>1. sfq'[i] = sfq[i] /\ t[sfq[i].id] = st[sfq[i].id]
        BY <3>2, <1>b, <1>f, Zenon
      <4>2. j \in 1..Len(sfq[i].rest)
        BY <4>1
      <4>3. sfq[i].rest[j] = accepted[st[sfq[i].id] + j]
        BY <4>2, <2>1, Zenon DEF Contents, l
      <4> QED
        BY <4>1, <4>3, Zenon
    <3> QED
      BY <3>1, <3>2, <1>d
  <2>3. ASSUME NEW i \in 1..Len(bsq), NEW j \in 1..bsq[i].len
        PROVE  out[os[i] + j] = accepted[t[bsq[i].id] + j]
    <3>1. out[os[i] + j] = accepted[st[bsq[i].id] + j]
      BY <2>1, Zenon DEF Contents
    <3>2. t[bsq[i].id] = st[bsq[i].id]
      BY <1>f, Zenon
    <3> QED
      BY <3>1, <3>2, Zenon
  <2>4. Len(sfq') = l /\ bsq' = bsq /\ accepted' = accepted /\ out' = out
    BY <1>a
  <2> QED
    BY <2>2, <2>3, <2>4, Zenon DEF Contents
<1>y. LastData(t)'
  <2>0. LastData(st) /\ send_id' = send_id /\ next_id' = next_id /\ accepted' = accepted
    BY <1>a DEF Layout
  <2>1. ASSUME NEW a \in next_id..send_id, DataBefore(a)' PROVE DataBefore(a) /\ t[a] = st[a]
    <3>1. next_id < a
      BY <2>1, <1>a, <1>d, Zenon DEF DataBefore
    <3>2. a \in Nat /\ a # next_id
      BY <3>1, <1>z
    <3>3. ASSUME NEW i \in 1..l PROVE sfq[i].id < a
      <4>1. sfq'[i].id = sfq[i].id
        BY <1>a, <1>b, <1>d, Zenon
      <4>2. Len(sfq') = l
        BY <1>a
      <4> QED
        BY <2>1, <4>1, <4>2, Zenon DEF DataBefore
    <3>4. \A i \in 1..Len(bsq) : bsq[i].id < a
      BY <2>1, <1>a, Zenon DEF DataBefore
    <3> QED
      BY <3>2, <3>3, <3>4, <1>4, Zenon DEF DataBefore, l
  <2> QED
    BY <2>0, <2>1, LastKept, Zenon
<1>10. Layout(t, os)'
  BY <1>7, <1>8, <1>9, <1>y, Zenon DEF Layout
<1> QED
  BY <1>10, Zenon

(* The whole first file is on the wire, the next id is due.                *)
LEMMA FileGoLayout ==
    ASSUME OpType, IdsInv, NEW st \in [Nat -> Nat], NEW os \in [Nat -> Nat], Layout(st, os),
           NEW n, FileGo(n)
    PROVE  \E t, p \in [Nat -> Nat] : Layout(t, p)'
<1> DEFINE l == Len(sfq)
<1>o. Offsets(st) /\ BufferOffsets(os)
  BY DEF Layout
<1>z. l \in Nat /\ next_id \in Nat /\ send_id \in Nat
  BY Lens DEF OpType
<1>a. /\ l >= 1 /\ sfq[1].id = next_id /\ n = Len(sfq[1].rest)
      /\ Len(wire') = Len(wire) + n
      /\ out' = out /\ bsq' = bsq /\ schq' = schq /\ send_id' = send_id /\ accepted' = accepted
      /\ mark' = mark /\ blocked' = blocked /\ next_id' = next_id + 1
      /\ Len(sfq') = l - 1
  BY DEF FileGo, Reads
<1>b. \A i \in 1..(l - 1) : sfq'[i] = sfq[i + 1]
  BY DEF FileGo
<1>l. l \in Nat /\ l >= 1
  BY <1>a, <1>z
<1>f. /\ \A i \in 1..l : st[sfq[i].id + 1] = st[sfq[i].id] + Len(sfq[i].rest)
      /\ \A i \in 1..Len(bsq) : st[bsq[i].id + 1] = st[bsq[i].id] + bsq[i].len
      /\ \A i \in 1..Len(schq) : /\ st[schq[i].id + 1] = st[schq[i].id]
                                 /\ mark[schq[i].k] = st[schq[i].id]
      /\ st[next_id] = Len(wire) /\ st[send_id] = Len(accepted) /\ Mono(st, next_id, send_id)
  BY <1>o, Zenon DEF Offsets
<1> HIDE DEF l
<1>d. 1 \in 1..l /\ \A i \in 1..(l - 1) : i + 1 \in 1..l
  BY <1>l
<1>7. Offsets(st)'
  <2>1. ASSUME NEW i \in 1..(l - 1) PROVE st[sfq'[i].id + 1] = st[sfq'[i].id] + Len(sfq'[i].rest)
    BY <1>b, <1>d, <1>f, Zenon
  <2>2. st[next_id + 1] = Len(wire')
    BY <1>a, <1>d, <1>f, Zenon
  <2>3. Mono(st, next_id + 1, send_id)
    BY <1>f, <1>z, MonoNext, Zenon
  <2> QED
    BY <1>a, <1>f, <2>1, <2>2, <2>3, Zenon DEF Offsets
<1>8. BufferOffsets(os)'
  BY <1>o, <1>a, Zenon DEF BufferOffsets
<1>9. ~blocked' => Contents(st, os)'
  <2> SUFFICES ASSUME ~blocked' PROVE Contents(st, os)'
    OBVIOUS
  <2>1. Contents(st, os)
    BY <1>a DEF Layout
  <2>2. ASSUME NEW i \in 1..(l - 1), NEW j \in 1..Len(sfq'[i].rest)
        PROVE  sfq'[i].rest[j] = accepted[st[sfq'[i].id] + j]
    <3>1. sfq'[i] = sfq[i + 1] /\ i + 1 \in 1..l
      BY <1>b, <1>d, Zenon
    <3>2. j \in 1..Len(sfq[i + 1].rest)
      BY <3>1
    <3>3. sfq[i + 1].rest[j] = accepted[st[sfq[i + 1].id] + j]
      BY <2>1, <3>1, <3>2, Zenon DEF Contents, l
    <3> QED
      BY <3>1, <3>3, Zenon
  <2>3. \A i \in 1..Len(bsq) : \A j \in 1..bsq[i].len :
           out[os[i] + j] = accepted[st[bsq[i].id] + j]
    BY <2>1, Zenon DEF Contents
  <2>4. Len(sfq') = l - 1 /\ bsq' = bsq /\ accepted' = accepted /\ out' = out
    BY <1>a
  <2> QED
    BY <2>2, <2>3, <2>4, Zenon DEF Contents
<1>y. LastData(st)'
  <2>0. LastData(st) /\ send_id' = send_id /\ next_id' = next_id + 1 /\ accepted' = accepted
    BY <1>a DEF Layout
  <2>1. ASSUME NEW a \in (next_id + 1)..send_id, DataBefore(a)'
        PROVE  a \in next_id..send_id /\ DataBefore(a)
    <3>1. a \in next_id..send_id /\ next_id < a
      BY <1>z
    <3>3. ASSUME NEW i \in 1..l PROVE sfq[i].id < a
      <4>1. CASE i = 1
        BY <4>1, <3>1, <1>a, Zenon
      <4>2. CASE i # 1
        <5>1. i - 1 \in 1..(l - 1) /\ (i - 1) + 1 = i
          BY <4>2, <1>l
        <5>2. sfq'[i - 1] = sfq[i]
          BY <5>1, <1>b
        <5>3. Len(sfq') = l - 1
          BY <1>a
        <5>4. sfq'[i - 1].id < a
          BY <2>1, <5>1, <5>3, Zenon DEF DataBefore
        <5> QED
          BY <5>2, <5>4, Zenon
      <4> QED
        BY <4>1, <4>2
    <3>4. \A i \in 1..Len(bsq) : bsq[i].id < a
      BY <2>1, <1>a, Zenon DEF DataBefore
    <3> QED
      BY <3>1, <3>3, <3>4, Zenon DEF DataBefore, l
  <2> QED
    BY <2>0, <2>1, LastKept, Zenon
<1>10. Layout(st, os)'
  BY <1>7, <1>8, <1>9, <1>y, Zenon DEF Layout
<1> QED
  BY <1>10, Zenon

(* ... and of the first send-complete handler.                             *)
HandlerGo ==
    /\ Len(schq) >= 1 /\ schq[1].id = next_id
    /\ next_id' = next_id + 1 /\ Len(schq') = Len(schq) - 1
    /\ \A i \in 1..(Len(schq) - 1) : schq'[i] = schq[i + 1]
    /\ UNCHANGED <<wire, out, bsq, sfq, send_id, accepted, mark, blocked>>

(* The handler whose turn it was leaves its queue.                         *)
LEMMA HandlerGoLayout ==
    ASSUME OpType, IdsInv, NEW st \in [Nat -> Nat], NEW os \in [Nat -> Nat], Layout(st, os),
           HandlerGo
    PROVE  \E t, p \in [Nat -> Nat] : Layout(t, p)'
<1> DEFINE l == Len(schq)
<1>o. Offsets(st) /\ BufferOffsets(os)
  BY DEF Layout
<1>z. l \in Nat /\ next_id \in Nat /\ send_id \in Nat
  BY Lens DEF OpType
<1>a. /\ l >= 1 /\ schq[1].id = next_id /\ wire' = wire
      /\ out' = out /\ bsq' = bsq /\ sfq' = sfq /\ send_id' = send_id /\ accepted' = accepted
      /\ mark' = mark /\ blocked' = blocked /\ next_id' = next_id + 1
      /\ Len(schq') = l - 1
  BY DEF HandlerGo
<1>b. \A i \in 1..(l - 1) : schq'[i] = schq[i + 1]
  BY DEF HandlerGo
<1>l. l \in Nat /\ l >= 1
  BY <1>a, <1>z
<1>f. /\ \A i \in 1..l : /\ st[schq[i].id + 1] = st[schq[i].id]
                         /\ mark[schq[i].k] = st[schq[i].id]
      /\ \A i \in 1..Len(bsq) : st[bsq[i].id + 1] = st[bsq[i].id] + bsq[i].len
      /\ \A i \in 1..Len(sfq) : st[sfq[i].id + 1] = st[sfq[i].id] + Len(sfq[i].rest)
      /\ st[next_id] = Len(wire) /\ st[send_id] = Len(accepted) /\ Mono(st, next_id, send_id)
  BY <1>o, Zenon DEF Offsets
<1> HIDE DEF l
<1>d. 1 \in 1..l /\ \A i \in 1..(l - 1) : i + 1 \in 1..l
  BY <1>l
<1>7. Offsets(st)'
  <2>1. ASSUME NEW i \in 1..(l - 1)
        PROVE  st[schq'[i].id + 1] = st[schq'[i].id] /\ mark[schq'[i].k] = st[schq'[i].id]
    BY <1>b, <1>d, <1>f, Zenon
  <2>2. st[next_id + 1] = Len(wire)
    BY <1>a, <1>d, <1>f, Zenon
  <2>3. Mono(st, next_id + 1, send_id)
    BY <1>f, <1>z, MonoNext, Zenon
  <2> QED
    BY <1>a, <1>f, <2>1, <2>2, <2>3, Zenon DEF Offsets
<1>8. BufferOffsets(os)'
  BY <1>o, <1>a, Zenon DEF BufferOffsets
<1>9. ~blocked' => Contents(st, os)'
  BY <1>a, Zenon DEF Layout, Contents
<1>y. LastData(st)'
  <2>0. LastData(st)
    BY DEF Layout
  <2>1. \A a \in (next_id + 1)..send_id : a \in next_id..send_id
    BY <1>z
  <2>2. ASSUME NEW a, DataBefore(a)' PROVE DataBefore(a)
    BY <2>2, <1>a, Zenon DEF DataBefore
  <2> QED
    BY <2>0, <2>1, <2>2, <1>a, LastKept, Zenon
<1>10. Layout(st, os)'
  BY <1>7, <1>8, <1>9, <1>y, Zenon DEF Layout
<1> QED
  BY <1>10, Zenon

-----------------------------------------------------------------------------
(* Each step changes the queues and the wire in one of these ways: the     *)
(* wire gets the first n units of s, ...                                   *)
Gets(s, n) ==
    /\ Len(wire') = Len(wire) + n
    /\ \A j \in 1..Len(wire) : wire'[j] = wire[j]
    /\ \A j \in 1..n : wire'[Len(wire) + j] = s[j]

Sends(u, w) ==
    /\ ~is_closed /\ Gets(u, w)
    /\ \/ AddsNone(u) /\ w = Len(u)
       \/ \E rest \in Seq(Unit) : AddsBytes(u, w, rest) \/ AddsFile(u, w, rest)

Writes(n) ==
    /\ ~is_closed
    /\ \/ Gets(out, n) /\ (BytesStay(n) \/ BytesGo(n))
       \/ Gets(sfq[1].rest, n) /\ (FileStay(n) \/ FileGo(n))

(* ... nothing changes, ...                                                *)
Quiet == UNCHANGED <<out, bsq, sfq, schq, send_id, next_id, wire, accepted, mark, blocked>>

(* ... or a direct write fails and closes the connection.                  *)
Fails ==
    /\ is_closed' /\ failed'
    /\ Extends(accepted, accepted')
    /\ Len(accepted') \in Nat /\ Len(accepted) <= Len(accepted')
    /\ UNCHANGED <<out, bsq, sfq, schq, send_id, next_id, wire, mark, blocked>>

DataStep ==
    \/ Quiet
    \/ Fails
    \/ \E u \in Seq(Unit), w \in Nat : Sends(u, w)
    \/ \E k \in Calls : AddsHandler(k)
    \/ \E n \in Nat : Writes(n)
    \/ HandlerGo

(* Every change of the queues keeps the ids in order.                      *)
LEMMA IdsStep ==
    ASSUME OpType, IdsInv, DataStep
    PROVE  IdsInv'
<1>1. /\ Len(bsq) \in Nat /\ Len(sfq) \in Nat /\ Len(schq) \in Nat
      /\ next_id \in Nat /\ send_id \in Nat
  BY Lens DEF OpType
<1>2. /\ Ids(bsq, sfq, schq, next_id, send_id) /\ Ids(sfq, bsq, schq, next_id, send_id)
      /\ Ids(schq, sfq, bsq, next_id, send_id)
  BY <1>1, IdsSwap, Zenon DEF IdsInv
<1>3. ASSUME NEW v, NEW n \in Nat, NEW m \in Nat, Len(v) \in Nat, Ids(v, bsq, schq, n, m)
      PROVE  Ids(bsq, v, schq, n, m)
  BY <1>1, <1>3, IdsSwap, Zenon
<1>4. ASSUME NEW v, NEW n \in Nat, NEW m \in Nat, Len(v) \in Nat, Ids(v, sfq, bsq, n, m)
      PROVE  Ids(bsq, sfq, v, n, m)
  BY <1>1, <1>4, IdsSwap, Zenon
<1>5. next_id + 1 \in Nat /\ send_id + 1 \in Nat
  BY <1>1
<1>6. CASE Quiet \/ Fails
  BY <1>6, Zenon DEF Quiet, Fails, IdsInv
<1>7. ASSUME NEW u \in Seq(Unit), NEW w \in Nat, Sends(u, w) PROVE IdsInv'
  <2>1. CASE AddsNone(u)
    BY <2>1, Zenon DEF AddsNone, Accepts, IdsInv
  <2>2. ASSUME NEW rest \in Seq(Unit), AddsBytes(u, w, rest) PROVE IdsInv'
    <3>1. Len(rest) \in Nat
      OBVIOUS
    <3>2. /\ bsq' = Append(bsq, [id |-> send_id, len |-> Len(rest)])
          /\ send_id' = send_id + 1 /\ sfq' = sfq /\ schq' = schq /\ next_id' = next_id
      BY <2>2 DEF AddsBytes, Accepts
    <3>3. /\ Len(bsq') = Len(bsq) + 1 /\ bsq'[Len(bsq) + 1].id = send_id
          /\ \A i \in 1..Len(bsq) : bsq'[i].id = bsq[i].id
      BY <3>1, <3>2, BytesAppended
    <3>4. Ids(bsq', sfq, schq, next_id, send_id + 1)
      BY <3>3, <1>1, <1>2, IdsPush, Zenon
    <3> QED
      BY <3>2, <3>4, Zenon DEF IdsInv
  <2>3. ASSUME NEW rest \in Seq(Unit), AddsFile(u, w, rest) PROVE IdsInv'
    <3>2. /\ sfq' = Append(sfq, [id |-> send_id, rest |-> rest])
          /\ send_id' = send_id + 1 /\ bsq' = bsq /\ schq' = schq /\ next_id' = next_id
      BY <2>3 DEF AddsFile, Accepts
    <3>3. /\ Len(sfq') = Len(sfq) + 1 /\ sfq'[Len(sfq) + 1].id = send_id
          /\ \A i \in 1..Len(sfq) : sfq'[i].id = sfq[i].id
      BY <3>2, FileAppended
    <3>4. Ids(sfq', bsq, schq, next_id, send_id + 1)
      BY <3>3, <1>1, <1>2, IdsPush, Zenon
    <3>5. Len(sfq') \in Nat
      BY <3>3, <1>1
    <3>6. Ids(bsq, sfq', schq, next_id, send_id + 1)
      BY <3>4, <3>5, <1>1, <1>3, <1>5, Zenon
    <3> QED
      BY <3>2, <3>6, Zenon DEF IdsInv
  <2> QED
    BY <1>7, <2>1, <2>2, <2>3, Zenon DEF Sends
<1>8. ASSUME NEW k \in Calls, AddsHandler(k) PROVE IdsInv'
  <2>2. /\ schq' = Append(schq, [id |-> send_id, k |-> k])
        /\ send_id' = send_id + 1 /\ bsq' = bsq /\ sfq' = sfq /\ next_id' = next_id
    BY <1>8 DEF AddsHandler
  <2>3. /\ Len(schq') = Len(schq) + 1 /\ schq'[Len(schq) + 1].id = send_id
        /\ \A i \in 1..Len(schq) : schq'[i].id = schq[i].id
    BY <2>2, HandlerAppended
  <2>4. Ids(schq', sfq, bsq, next_id, send_id + 1)
    BY <2>3, <1>1, <1>2, IdsPush, Zenon
  <2>5. Len(schq') \in Nat
    BY <2>3, <1>1
  <2>6. Ids(bsq, sfq, schq', next_id, send_id + 1)
    BY <2>4, <2>5, <1>1, <1>4, <1>5, Zenon
  <2> QED
    BY <2>2, <2>6, Zenon DEF IdsInv
<1>9. ASSUME NEW n \in Nat, Writes(n) PROVE IdsInv'
  <2>1. CASE BytesStay(n)
    <3>1. /\ Len(bsq) >= 1 /\ bsq[1].id = next_id /\ next_id' = next_id /\ Len(bsq') = Len(bsq)
          /\ bsq'[1].id = next_id /\ \A i \in 2..Len(bsq) : bsq'[i] = bsq[i]
          /\ sfq' = sfq /\ schq' = schq /\ send_id' = send_id
      BY <2>1 DEF BytesStay, Drains
    <3>2. \A i \in 1..Len(bsq) : i = 1 \/ i \in 2..Len(bsq)
      BY <1>1
    <3>3. \A i \in 1..Len(bsq) : bsq'[i].id = bsq[i].id
      BY <3>1, <3>2, Zenon
    <3>4. Ids(bsq', sfq, schq, next_id, send_id)
      BY <3>1, <3>3, <1>2, IdsSame, Zenon
    <3> QED
      BY <3>1, <3>4, Zenon DEF IdsInv
  <2>2. CASE BytesGo(n)
    <3>1. /\ Len(bsq) >= 1 /\ bsq[1].id = next_id /\ next_id' = next_id + 1
          /\ Len(bsq') = Len(bsq) - 1 /\ \A i \in 1..(Len(bsq) - 1) : bsq'[i] = bsq[i + 1]
          /\ sfq' = sfq /\ schq' = schq /\ send_id' = send_id
      BY <2>2 DEF BytesGo, Drains
    <3>2. \A i \in 1..(Len(bsq) - 1) : bsq'[i].id = bsq[i + 1].id
      BY <3>1, Zenon
    <3>3. Ids(bsq', sfq, schq, next_id + 1, send_id)
      BY <3>1, <3>2, <1>1, <1>2, IdsPop, Zenon
    <3> QED
      BY <3>1, <3>3, Zenon DEF IdsInv
  <2>3. CASE FileStay(n)
    <3>1. /\ Len(sfq) >= 1 /\ sfq[1].id = next_id /\ next_id' = next_id /\ Len(sfq') = Len(sfq)
          /\ sfq'[1].id = next_id /\ \A i \in 2..Len(sfq) : sfq'[i] = sfq[i]
          /\ bsq' = bsq /\ schq' = schq /\ send_id' = send_id
      BY <2>3 DEF FileStay, Reads
    <3>2. \A i \in 1..Len(sfq) : i = 1 \/ i \in 2..Len(sfq)
      BY <1>1
    <3>3. \A i \in 1..Len(sfq) : sfq'[i].id = sfq[i].id
      BY <3>1, <3>2, Zenon
    <3>4. Ids(sfq', bsq, schq, next_id, send_id)
      BY <3>1, <3>3, <1>2, IdsSame, Zenon
    <3>5. Ids(bsq, sfq', schq, next_id, send_id)
      BY <3>1, <3>4, <1>1, <1>3, Zenon
    <3> QED
      BY <3>1, <3>5, Zenon DEF IdsInv
  <2>4. CASE FileGo(n)
    <3>1. /\ Len(sfq) >= 1 /\ sfq[1].id = next_id /\ next_id' = next_id + 1
          /\ Len(sfq') = Len(sfq) - 1 /\ \A i \in 1..(Len(sfq) - 1) : sfq'[i] = sfq[i + 1]
          /\ bsq' = bsq /\ schq' = schq /\ send_id' = send_id
      BY <2>4 DEF FileGo, Reads
    <3>2. \A i \in 1..(Len(sfq) - 1) : sfq'[i].id = sfq[i + 1].id
      BY <3>1, Zenon
    <3>3. Ids(sfq', bsq, schq, next_id + 1, send_id)
      BY <3>1, <3>2, <1>1, <1>2, IdsPop, Zenon
    <3>4. Len(sfq') \in Nat
      BY <3>1, <1>1
    <3>5. Ids(bsq, sfq', schq, next_id + 1, send_id)
      BY <3>3, <3>4, <1>1, <1>3, <1>5, Zenon
    <3> QED
      BY <3>1, <3>5, Zenon DEF IdsInv
  <2> QED
    BY <1>9, <2>1, <2>2, <2>3, <2>4 DEF Writes
<1>10. CASE HandlerGo
  <2>1. /\ Len(schq) >= 1 /\ schq[1].id = next_id /\ next_id' = next_id + 1
        /\ Len(schq') = Len(schq) - 1 /\ \A i \in 1..(Len(schq) - 1) : schq'[i] = schq[i + 1]
        /\ bsq' = bsq /\ sfq' = sfq /\ send_id' = send_id
    BY <1>10 DEF HandlerGo
  <2>2. \A i \in 1..(Len(schq) - 1) : schq'[i].id = schq[i + 1].id
    BY <2>1, Zenon
  <2>3. Ids(schq', sfq, bsq, next_id + 1, send_id)
    BY <2>1, <2>2, <1>1, <1>2, IdsPop, Zenon
  <2>4. Len(schq') \in Nat
    BY <2>1, <1>1
  <2>5. Ids(bsq, sfq, schq', next_id + 1, send_id)
    BY <2>3, <2>4, <1>1, <1>4, <1>5, Zenon
  <2> QED
    BY <2>1, <2>5, Zenon DEF IdsInv
<1> QED
  BY <1>6, <1>7, <1>8, <1>9, <1>10, Zenon DEF DataStep

(* Every change of the queues keeps the layout.                            *)
LEMMA LayoutStep ==
    ASSUME OpType, IdsInv, LayoutInv, DataStep, is_closed => is_closed'
    PROVE  LayoutInv'
<1> SUFFICES ASSUME ~is_closed' PROVE \E t, p \in [Nat -> Nat] : Layout(t, p)'
  BY Zenon DEF LayoutInv
<1>1. PICK st, os \in [Nat -> Nat] : Layout(st, os)
  BY Zenon DEF LayoutInv
<1>2. CASE Quiet
  <2>1. Layout(st, os)'
    BY <1>1, <1>2, Zenon DEF Quiet, Layout, Offsets, BufferOffsets, LastData, DataBefore, Contents
  <2> QED
    BY <2>1, Zenon
<1>3. ASSUME NEW u \in Seq(Unit), NEW w \in Nat, Sends(u, w)
      PROVE  \E t, p \in [Nat -> Nat] : Layout(t, p)'
  BY <1>1, <1>3, AddsNoneLayout, AddsBytesLayout, AddsFileLayout, Zenon DEF Sends
<1>4. ASSUME NEW k \in Calls, AddsHandler(k) PROVE \E t, p \in [Nat -> Nat] : Layout(t, p)'
  BY <1>1, <1>4, AddsHandlerLayout, Zenon
<1>5. ASSUME NEW n \in Nat, Writes(n) PROVE \E t, p \in [Nat -> Nat] : Layout(t, p)'
  BY <1>1, <1>5, BytesStayLayout, BytesGoLayout, FileStayLayout, FileGoLayout, Zenon DEF Writes
<1>6. CASE HandlerGo
  BY <1>1, <1>6, HandlerGoLayout, Zenon
<1> QED
  BY <1>2, <1>3, <1>4, <1>5, <1>6, Zenon DEF DataStep, Fails

-----------------------------------------------------------------------------
(* What is on the wire stays the beginning of what was accepted.           *)
LEMMA Longer ==
    ASSUME OpType, WirePrefix, ~blocked' => ~blocked, NEW s, NEW n \in Nat, Gets(s, n),
           Extends(accepted, accepted'),
           ~blocked' => /\ Len(wire) + n <= Len(accepted')
                        /\ \A j \in 1..n : s[j] = accepted'[Len(wire) + j]
    PROVE  WirePrefix'
<1> SUFFICES ASSUME ~blocked'
             PROVE  /\ Len(wire') <= Len(accepted')
                    /\ \A j \in 1..Len(wire') : wire'[j] = accepted'[j]
  BY Zenon DEF WirePrefix
<1>1. Len(wire) \in Nat /\ Len(accepted) \in Nat
  BY Lens
<1>2. Len(wire) <= Len(accepted) /\ \A j \in 1..Len(wire) : wire[j] = accepted[j]
  BY DEF WirePrefix
<1>3. /\ Len(wire') = Len(wire) + n /\ \A j \in 1..Len(wire) : wire'[j] = wire[j]
      /\ \A j \in 1..n : wire'[Len(wire) + j] = s[j]
  BY DEF Gets
<1>4. ASSUME NEW j \in 1..(Len(wire) + n) PROVE wire'[j] = accepted'[j]
  <2>1. CASE j <= Len(wire)
    <3>1. j \in 1..Len(wire) /\ j \in 1..Len(accepted)
      BY <2>1, <1>1, <1>2
    <3> QED
      BY <3>1, <1>2, <1>3, Zenon DEF Extends
  <2>2. CASE ~(j <= Len(wire))
    <3>1. j - Len(wire) \in 1..n /\ Len(wire) + (j - Len(wire)) = j
      BY <2>2, <1>1
    <3>2. wire'[Len(wire) + (j - Len(wire))] = accepted'[Len(wire) + (j - Len(wire))]
      BY <3>1, <1>3, Zenon
    <3> QED
      BY <3>1, <3>2
  <2> QED
    BY <2>1, <2>2
<1> QED
  BY <1>3, <1>4

(* A call writes directly only what comes next, ...                        *)
LEMMA SendsInOrder ==
    ASSUME OpType, IdsInv, LayoutInv, WirePrefix,
           NEW u \in Seq(Unit), NEW w \in Nat, Sends(u, w)
    PROVE  WirePrefix'
<1>1. ~is_closed /\ Gets(u, w)
  BY DEF Sends
<1>2. /\ accepted' = accepted \o u /\ w <= Len(u) /\ (w = 0 \/ next_id = send_id)
      /\ ~blocked' => ~blocked
  <2>1. CASE AddsNone(u) /\ w = Len(u)
    <3>1. Accepts(u, Len(u), 0) /\ (~blocked' => ~blocked)
      BY <2>1 DEF AddsNone
    <3>2. w <= Len(u)
      BY <2>1
    <3> QED
      BY <2>1, <3>1, <3>2, Zenon DEF Accepts
  <2>2. ASSUME NEW rest \in Seq(Unit), AddsBytes(u, w, rest) \/ AddsFile(u, w, rest)
        PROVE  /\ accepted' = accepted \o u /\ w <= Len(u) /\ (w = 0 \/ next_id = send_id)
               /\ ~blocked' => ~blocked
    <3>1. Accepts(u, w, Len(rest)) /\ IsRest(u, w, rest)
      BY <2>2 DEF AddsBytes, AddsFile
    <3>2. Len(u) = w + Len(rest) /\ Len(rest) \in Nat
      BY <3>1 DEF Accepts
    <3>3. w <= Len(u)
      BY <3>2
    <3> QED
      BY <3>1, <3>3, Zenon DEF Accepts, IsRest
  <2> QED
    BY <2>1, <2>2, Zenon DEF Sends
<1>3. accepted \in Seq(Unit) /\ Len(accepted) \in Nat /\ Len(wire) \in Nat /\ Len(u) \in Nat
  BY Lens DEF OpType
<1>4. /\ Len(accepted') = Len(accepted) + Len(u)
      /\ \A j \in 1..Len(accepted) : accepted'[j] = accepted[j]
      /\ \A j \in 1..Len(u) : accepted'[Len(accepted) + j] = u[j]
  BY <1>2, <1>3, Joined, Zenon
<1>5. PICK st, os \in [Nat -> Nat] : Layout(st, os)
  BY <1>1, Zenon DEF LayoutInv
<1>6. next_id = send_id => Len(wire) = Len(accepted)
  BY <1>5, Zenon DEF Layout, Offsets
<1>7. ASSUME ~blocked'
      PROVE  /\ Len(wire) + w <= Len(accepted')
             /\ \A j \in 1..w : u[j] = accepted'[Len(wire) + j]
  <2>1. CASE w = 0
    <3>1. Len(wire) <= Len(accepted)
      BY <1>2, <1>7 DEF WirePrefix
    <3> QED
      BY <2>1, <3>1, <1>3, <1>4
  <2>2. CASE w # 0
    <3>1. Len(wire) = Len(accepted)
      BY <2>2, <1>2, <1>6
    <3>2. \A j \in 1..w : j \in 1..Len(u)
      BY <1>2, <1>3
    <3>3. Len(wire) + w <= Len(accepted')
      BY <3>1, <1>2, <1>3, <1>4
    <3> QED
      BY <3>1, <3>2, <3>3, <1>4, Zenon
  <2> QED
    BY <2>1, <2>2
<1>8. Extends(accepted, accepted')
  BY <1>4 DEF Extends
<1> QED
  BY <1>1, <1>2, <1>7, <1>8, Longer, Zenon

(* ... and so does handle_write().                                         *)
LEMMA WritesInOrder ==
    ASSUME OpType, IdsInv, LayoutInv, WirePrefix, NEW n \in Nat, Writes(n)
    PROVE  WirePrefix'
<1>1. PICK st, os \in [Nat -> Nat] : Layout(st, os)
  BY Zenon DEF LayoutInv, Writes
<1>o. Offsets(st) /\ BufferOffsets(os) /\ (~blocked => Contents(st, os))
  BY <1>1, Zenon DEF Layout
<1>2. st[next_id] = Len(wire) /\ os[1] = 0
  BY <1>o, Zenon DEF Offsets, BufferOffsets
<1>3. /\ Len(accepted) \in Nat /\ Len(wire) \in Nat /\ Len(bsq) \in Nat /\ Len(sfq) \in Nat
  BY Lens
<1>4. ASSUME accepted' = accepted, blocked' = blocked, NEW s, Gets(s, n), NEW h \in Nat, n <= h,
             Len(wire) + h <= Len(accepted),
             ~blocked => \A j \in 1..h : s[j] = accepted[Len(wire) + j]
      PROVE  WirePrefix'
  <2>1. Len(wire) + n <= Len(accepted')
    BY <1>3, <1>4
  <2>2. \A j \in 1..n : j \in 1..h
    BY <1>4
  <2>3. ~blocked' => \A j \in 1..n : s[j] = accepted'[Len(wire) + j]
    BY <1>4, <2>2, Zenon
  <2>4. Extends(accepted, accepted')
    BY <1>4, Zenon DEF Extends
  <2> QED
    BY <1>4, <2>1, <2>3, <2>4, Longer, Zenon
<1>5. CASE Gets(out, n) /\ (BytesStay(n) \/ BytesGo(n))
  <2>1. Drains(n)
    BY <1>5 DEF BytesStay, BytesGo
  <2>2. /\ Len(bsq) >= 1 /\ bsq[1].id = next_id /\ bsq[1].len \in Nat /\ n <= bsq[1].len
        /\ accepted' = accepted /\ blocked' = blocked
    BY <2>1 DEF Drains
  <2>3. 1 \in 1..Len(bsq)
    BY <2>2, <1>3
  <2>4. Len(wire) + bsq[1].len <= Len(accepted)
    <3>1. st[bsq[1].id] + bsq[1].len <= Len(accepted)
      BY <2>3, <1>o, Bounds, Zenon
    <3> QED
      BY <3>1, <2>2, <1>2, Zenon
  <2>5. ASSUME ~blocked, NEW j \in 1..bsq[1].len PROVE out[j] = accepted[Len(wire) + j]
    <3>1. out[os[1] + j] = accepted[st[bsq[1].id] + j]
      BY <2>3, <2>5, <1>o, Zenon DEF Contents
    <3>2. 0 + j = j
      BY <2>2
    <3> QED
      BY <3>1, <3>2, <2>2, <1>2, Zenon
  <2> QED
    BY <1>5, <2>2, <2>4, <2>5, <1>4, Zenon
<1>6. CASE Gets(sfq[1].rest, n) /\ (FileStay(n) \/ FileGo(n))
  <2>1. Reads(n)
    BY <1>6 DEF FileStay, FileGo
  <2>2. /\ Len(sfq) >= 1 /\ sfq[1].id = next_id /\ Len(sfq[1].rest) \in Nat
        /\ n <= Len(sfq[1].rest) /\ accepted' = accepted /\ blocked' = blocked
    BY <2>1 DEF Reads
  <2>3. 1 \in 1..Len(sfq)
    BY <2>2, <1>3
  <2>4. Len(wire) + Len(sfq[1].rest) <= Len(accepted)
    <3>1. st[sfq[1].id] + Len(sfq[1].rest) <= Len(accepted)
      BY <2>3, <1>o, Bounds, Zenon
    <3> QED
      BY <3>1, <2>2, <1>2, Zenon
  <2>5. ASSUME ~blocked, NEW j \in 1..Len(sfq[1].rest)
        PROVE  sfq[1].rest[j] = accepted[Len(wire) + j]
    <3>1. sfq[1].rest[j] = accepted[st[sfq[1].id] + j]
      BY <2>3, <2>5, <1>o, Zenon DEF Contents
    <3> QED
      BY <3>1, <2>2, <1>2, Zenon
  <2> QED
    BY <1>6, <2>2, <2>4, <2>5, <1>4, Zenon
<1> QED
  BY <1>5, <1>6, Zenon DEF Writes

(* The wire grows by what was accepted next.                               *)
LEMMA WireStep ==
    ASSUME OpType, IdsInv, LayoutInv, WirePrefix, DataStep
    PROVE  WirePrefix' /\ Len(wire) <= Len(wire')
<1>1. Len(accepted) \in Nat /\ Len(wire) \in Nat
  BY Lens
<1>2. CASE Quiet \/ HandlerGo \/ \E k \in Calls : AddsHandler(k)
  <2>1. wire' = wire /\ accepted' = accepted /\ blocked' = blocked
    BY <1>2 DEF Quiet, HandlerGo, AddsHandler
  <2>2. Len(wire) <= Len(wire)
    BY <1>1
  <2> QED
    BY <2>1, <2>2, Zenon DEF WirePrefix
<1>3. CASE Fails
  <2>1. /\ wire' = wire /\ blocked' = blocked /\ Extends(accepted, accepted')
        /\ Len(accepted') \in Nat /\ Len(accepted) <= Len(accepted')
    BY <1>3 DEF Fails
  <2>2. ASSUME ~blocked'
        PROVE  Len(wire') <= Len(accepted') /\ \A j \in 1..Len(wire') : wire'[j] = accepted'[j]
    <3>1. Len(wire) <= Len(accepted) /\ \A j \in 1..Len(wire) : wire[j] = accepted[j]
      BY <2>1, <2>2 DEF WirePrefix
    <3>2. \A j \in 1..Len(wire) : j \in 1..Len(accepted)
      BY <3>1, <1>1
    <3>3. Len(wire) <= Len(accepted')
      BY <3>1, <2>1, <1>1
    <3> QED
      BY <2>1, <3>1, <3>2, <3>3, Zenon DEF Extends
  <2>3. Len(wire) <= Len(wire)
    BY <1>1
  <2> QED
    BY <2>1, <2>2, <2>3, Zenon DEF WirePrefix
<1>4. ASSUME NEW u \in Seq(Unit), NEW w \in Nat, Sends(u, w)
      PROVE  WirePrefix' /\ Len(wire) <= Len(wire')
  <2>1. Len(wire') = Len(wire) + w
    BY <1>4 DEF Sends, Gets
  <2>2. Len(wire) <= Len(wire')
    BY <2>1, <1>1
  <2> QED
    BY <1>4, <2>2, SendsInOrder, Zenon
<1>5. ASSUME NEW n \in Nat, Writes(n) PROVE WirePrefix' /\ Len(wire) <= Len(wire')
  <2>1. Len(wire') = Len(wire) + n
    BY <1>5 DEF Writes, Gets
  <2>2. Len(wire) <= Len(wire')
    BY <2>1, <1>1
  <2> QED
    BY <1>5, <2>2, WritesInOrder, Zenon
<1> QED
  BY <1>2, <1>3, <1>4, <1>5, Zenon DEF DataStep

-----------------------------------------------------------------------------
(* A connection gets Closed by a failure, or with nothing left to send;    *)
(* and then it sends nothing any more.                                     *)
Ends ==
    /\ is_closed => is_closed' /\ UNCHANGED <<wire, accepted, failed, blocked>>
    /\ ~is_closed /\ is_closed'
       => failed' \/ (send_queue_is_empty /\ UNCHANGED <<wire, accepted, blocked>>)

(* With both data queues empty all that was accepted is on the wire.       *)
LEMMA AllSent ==
    ASSUME OpType, IdsInv, LayoutInv, ~is_closed, send_queue_is_empty
    PROVE  Len(wire) = Len(accepted)
<1>1. PICK st, os \in [Nat -> Nat] : Layout(st, os)
  BY Zenon DEF LayoutInv
<1>2. st[next_id] = Len(wire) /\ LastData(st)
  BY <1>1, Zenon DEF Layout, Offsets
<1>3. next_id \in next_id..send_id
  BY DEF OpType, IdsInv, Ids
<1>4. bsq = <<>> /\ sfq = <<>>
  BY DEF send_queue_is_empty
<1>5. \A i \in 1..Len(<<>>) : FALSE
  OBVIOUS
<1>6. DataBefore(next_id)
  BY <1>4, <1>5, Zenon DEF DataBefore
<1> QED
  BY <1>2, <1>3, <1>6, Zenon DEF LastData

(* Extensionality, for sequences of units.                                 *)
LEMMA SameUnits ==
    ASSUME NEW s \in Seq(Unit), NEW t \in Seq(Unit), Len(s) = Len(t),
           \A j \in 1..Len(s) : s[j] = t[j]
    PROVE  s = t
OBVIOUS

(* A step that closes without a failure finds everything sent.             *)
LEMMA CloseStep ==
    ASSUME OpType, IdsInv, LayoutInv, WirePrefix, GracefulCloseSendsAll, Ends
    PROVE  GracefulCloseSendsAll'
<1> SUFFICES ASSUME is_closed', ~failed', ~blocked' PROVE wire' = accepted'
  BY Zenon DEF GracefulCloseSendsAll
<1>1. CASE is_closed
  <2>1. wire' = wire /\ accepted' = accepted /\ failed' = failed /\ blocked' = blocked
    BY <1>1 DEF Ends
  <2> QED
    BY <1>1, <2>1 DEF GracefulCloseSendsAll
<1>2. CASE ~is_closed
  <2>1. send_queue_is_empty /\ wire' = wire /\ accepted' = accepted /\ blocked' = blocked
    BY <1>2 DEF Ends
  <2>2. Len(wire) = Len(accepted)
    BY <1>2, <2>1, AllSent
  <2>3. \A j \in 1..Len(wire) : wire[j] = accepted[j]
    BY <2>1 DEF WirePrefix
  <2>4. wire \in Seq(Unit) /\ accepted \in Seq(Unit)
    BY DEF OpType
  <2>5. wire = accepted
    BY <2>2, <2>3, <2>4, SameUnits, Zenon
  <2> QED
    BY <2>1, <2>5
<1> QED
  BY <1>1, <1>2

-----------------------------------------------------------------------------
(* The send-complete handlers: a step with the functors q leaves them      *)
(* alone, or queues one more whose number is new.                          *)
Notes(q) ==
    /\ Leaves(q) /\ handled' = handled
    /\ \/ schq' = schq /\ mark' = mark
       \/ \E k \in Calls :
             /\ IsNew(k, q) /\ k \in 1..ncalls'
             /\ schq' = Append(schq, [id |-> send_id, k |-> k])
             /\ mark' = [mark EXCEPT ![k] = Len(accepted)]

(* The functor that is called takes its number with it.                    *)
LEMMA CallsTail ==
    ASSUME OpInv, functors # <<>>, CallsInv
    PROVE  /\ CallsOf(Tail(functors), schq, handled, ncalls)
           /\ Head(functors).op = "handler" => IsNew(Head(functors).k, Tail(functors))
<1> DEFINE q == Tail(functors)
           l == Len(functors)
<1>1. /\ Head(functors) = functors[1] /\ 1 \in 1..l /\ Len(q) = l - 1
      /\ \A i \in 1..(l - 1) : q[i] = functors[i + 1]
  BY SomeTail
<1>2. l \in Nat
  BY Lens DEF OpInv
<1> HIDE DEF q, l
<1>3. \A i \in 1..(l - 1) : i + 1 \in 1..l /\ i + 1 # 1
  BY <1>2
<1>4. \A i, j \in 1..(l - 1) : i + 1 = j + 1 => i = j
  BY <1>2
<1>5. \A i, j \in 1..l :
         functors[i].op = "handler" /\ functors[j].op = "handler" /\ functors[i].k = functors[j].k
         => i = j
  BY Zenon DEF CallsInv, CallsOf, l
<1>6. /\ \A i \in 1..l, j \in 1..Len(schq) : functors[i].op = "handler" => functors[i].k # schq[j].k
      /\ \A i \in 1..l, j \in 1..Len(handled) :
            functors[i].op = "handler" => functors[i].k # handled[j]
      /\ \A i \in 1..Len(schq) : schq[i].k \in 1..ncalls
      /\ \A i \in 1..Len(handled) : handled[i] \in 1..ncalls
  BY Zenon DEF CallsInv, CallsOf, l
<1>7. ASSUME NEW i \in 1..(l - 1), NEW j \in 1..(l - 1),
             q[i].op = "handler", q[j].op = "handler", q[i].k = q[j].k
      PROVE  i = j
  BY <1>1, <1>3, <1>4, <1>5, <1>7, Zenon
<1>8. /\ \A i \in 1..(l - 1), j \in 1..Len(schq) : q[i].op = "handler" => q[i].k # schq[j].k
      /\ \A i \in 1..(l - 1), j \in 1..Len(handled) : q[i].op = "handler" => q[i].k # handled[j]
  <2>1. ASSUME NEW i \in 1..(l - 1), NEW j \in 1..Len(schq), q[i].op = "handler"
        PROVE  q[i].k # schq[j].k
    <3>1. q[i] = functors[i + 1] /\ i + 1 \in 1..l
      BY <1>1, <1>3, Zenon
    <3> QED
      BY <2>1, <3>1, <1>6, Zenon
  <2>2. ASSUME NEW i \in 1..(l - 1), NEW j \in 1..Len(handled), q[i].op = "handler"
        PROVE  q[i].k # handled[j]
    <3>1. q[i] = functors[i + 1] /\ i + 1 \in 1..l
      BY <1>1, <1>3, Zenon
    <3> QED
      BY <2>2, <3>1, <1>6, Zenon
  <2> QED
    BY <2>1, <2>2, Zenon
<1>9. CallsOf(q, schq, handled, ncalls)
  BY <1>1, <1>6, <1>7, <1>8, Zenon DEF CallsOf
<1>10. ASSUME functors[1].op = "handler" PROVE IsNew(functors[1].k, q)
  <2>1. ASSUME NEW i \in 1..(l - 1), q[i].op = "handler" PROVE q[i].k # functors[1].k
    BY <1>1, <1>3, <1>5, <1>10, <2>1, Zenon
  <2>2. /\ \A i \in 1..Len(schq) : schq[i].k # functors[1].k
        /\ \A i \in 1..Len(handled) : handled[i] # functors[1].k
    BY <1>1, <1>6, <1>10, Zenon
  <2> QED
    BY <2>1, <2>2, <1>1, Zenon DEF IsNew
<1> QED
  BY <1>1, <1>9, <1>10, Zenon DEF q

(* Numbers in use stay in use after further calls.                         *)
LEMMA CallsMore ==
    ASSUME NEW q, NEW s, NEW h, NEW n \in Nat, NEW m \in Nat, n <= m, CallsOf(q, s, h, n)
    PROVE  CallsOf(q, s, h, m)
<1>1. \A x \in 1..n : x \in 1..m
  OBVIOUS
<1> QED
  BY <1>1, Zenon DEF CallsOf

(* A functor at the end, ...                                               *)
LEMMA CallsAppend ==
    ASSUME NEW q \in Seq(Functor), NEW f \in Functor, NEW s, NEW h, NEW n, CallsOf(q, s, h, n),
           f.op = "handler" => /\ \A i \in 1..Len(q) : q[i].op = "handler" => q[i].k # f.k
                               /\ \A i \in 1..Len(s) : s[i].k # f.k
                               /\ \A i \in 1..Len(h) : h[i] # f.k
    PROVE  CallsOf(Append(q, f), s, h, n)
<1> DEFINE p == Append(q, f)
           l == Len(q)
<1>1. l \in Nat /\ Len(p) = l + 1 /\ p[l + 1] = f /\ \A i \in 1..l : p[i] = q[i]
  OBVIOUS
<1>2. \A i \in 1..(l + 1) : i \in 1..l \/ i = l + 1
  BY <1>1
<1>f. f.op = "handler" => /\ \A i \in 1..l : q[i].op = "handler" => q[i].k # f.k
                          /\ \A i \in 1..Len(s) : s[i].k # f.k
                          /\ \A i \in 1..Len(h) : h[i] # f.k
  OBVIOUS
<1>q. \A i, j \in 1..l : q[i].op = "handler" /\ q[j].op = "handler" /\ q[i].k = q[j].k => i = j
  BY Zenon DEF CallsOf
<1>s. /\ \A i \in 1..l, j \in 1..Len(s) : q[i].op = "handler" => q[i].k # s[j].k
      /\ \A i \in 1..l, j \in 1..Len(h) : q[i].op = "handler" => q[i].k # h[j]
      /\ \A i \in 1..Len(s) : s[i].k \in 1..n
      /\ \A i \in 1..Len(h) : h[i] \in 1..n
  BY Zenon DEF CallsOf
<1> HIDE DEF p, l
<1>3. ASSUME NEW i \in 1..(l + 1), NEW j \in 1..(l + 1),
             p[i].op = "handler", p[j].op = "handler", p[i].k = p[j].k
      PROVE  i = j
  <2>1. CASE i \in 1..l /\ j \in 1..l
    BY <2>1, <1>1, <1>3, <1>q, Zenon
  <2>2. CASE i = l + 1 /\ j \in 1..l
    BY <2>2, <1>1, <1>3, <1>f, Zenon
  <2>3. CASE i \in 1..l /\ j = l + 1
    BY <2>3, <1>1, <1>3, <1>f, Zenon
  <2> QED
    BY <2>1, <2>2, <2>3, <1>2, Zenon
<1>4. /\ \A i \in 1..(l + 1), j \in 1..Len(s) : p[i].op = "handler" => p[i].k # s[j].k
      /\ \A i \in 1..(l + 1), j \in 1..Len(h) : p[i].op = "handler" => p[i].k # h[j]
  BY <1>1, <1>2, <1>f, <1>s, Zenon
<1> QED
  BY <1>1, <1>3, <1>4, <1>s, Zenon DEF CallsOf, p

(* An erase or a high-water-mark functor uses no number.                   *)
LEMMA CallsLeave ==
    ASSUME NEW q \in Seq(Functor), NEW s, NEW h, NEW n, CallsOf(q, s, h, n), Leaves(q)
    PROVE  CallsOf(functors', s, h, n)
<1> DEFINE e == [op |-> "erase", k |-> 0]
           w == [op |-> "hwm", k |-> 0]
<1>1. e \in Functor /\ w \in Functor /\ e.op # "handler" /\ w.op # "handler"
  BY DEF Functor
<1>2. functors' = q \/ functors' = Append(q, e) \/ functors' = Append(q, w)
  BY DEF Leaves
<1> HIDE DEF e, w
<1> QED
  BY <1>1, <1>2, CallsAppend, Zenon

(* ... a handler that is set, ...                                          *)
LEMMA CallsSet ==
    ASSUME OpType, NEW q, NEW k \in Calls, NEW n \in Nat, k \in 1..n,
           CallsOf(q, schq, handled, n), IsNew(k, q)
    PROVE  CallsOf(q, Append(schq, [id |-> send_id, k |-> k]), handled, n)
<1> DEFINE s == Append(schq, [id |-> send_id, k |-> k])
           l == Len(schq)
<1>1. Len(s) = l + 1 /\ (\A i \in 1..l : s[i] = schq[i]) /\ s[l + 1].k = k /\ l \in Nat
  BY HandlerAppended
<1>2. \A i \in 1..(l + 1) : i \in 1..l \/ i = l + 1
  BY <1>1
<1> HIDE DEF s, l
<1>3. \A i \in 1..Len(q), j \in 1..(l + 1) : q[i].op = "handler" => q[i].k # s[j].k
  BY <1>1, <1>2, Zenon DEF CallsOf, IsNew, l
<1>4. \A i \in 1..(l + 1) : s[i].k \in 1..n
  BY <1>1, <1>2, Zenon DEF CallsOf, l
<1> QED
  BY <1>1, <1>3, <1>4, Zenon DEF CallsOf, s

(* ... and the marks of the handlers that were called stay.                *)
LEMMA NotesStep ==
    ASSUME OpType, NEW q \in Seq(Functor), CallsOf(q, schq, handled, ncalls), Notes(q),
           ncalls \in Nat, ncalls' \in Nat, ncalls <= ncalls',
           HandlerAfterData, Len(wire) <= Len(wire'), Len(wire') \in Nat
    PROVE  CallsInv' /\ HandlerAfterData'
<1>1. CallsOf(q, schq, handled, ncalls')
  BY CallsMore, Zenon
<1>2. Leaves(q) /\ handled' = handled
  BY DEF Notes
<1>3. CallsInv'
  <2>1. CASE schq' = schq
    <3>1. CallsOf(functors', schq, handled, ncalls')
      BY <1>1, <1>2, CallsLeave, Zenon
    <3> QED
      BY <2>1, <3>1, <1>2, Zenon DEF CallsInv
  <2>2. ASSUME NEW k \in Calls, IsNew(k, q), k \in 1..ncalls',
               schq' = Append(schq, [id |-> send_id, k |-> k])
        PROVE  CallsInv'
    <3>1. CallsOf(q, schq', handled, ncalls')
      BY <2>2, <1>1, CallsSet, Zenon
    <3>2. CallsOf(functors', schq', handled, ncalls')
      BY <3>1, <1>2, CallsLeave, Zenon
    <3> QED
      BY <3>2, <1>2, Zenon DEF CallsInv
  <2> QED
    BY <2>1, <2>2, Zenon DEF Notes
<1>4. \A i \in 1..Len(handled) : mark'[handled[i]] = mark[handled[i]] /\ mark[handled[i]] \in Nat
  <2>0. ASSUME NEW i \in 1..Len(handled) PROVE handled[i] \in Calls
    BY DEF OpType
  <2>1. mark \in [Calls -> Nat]
    BY DEF OpType
  <2>2. CASE mark' = mark
    BY <2>0, <2>1, <2>2
  <2>3. ASSUME NEW k \in Calls, IsNew(k, q), mark' = [mark EXCEPT ![k] = Len(accepted)]
        PROVE  \A i \in 1..Len(handled) : /\ mark'[handled[i]] = mark[handled[i]]
                                          /\ mark[handled[i]] \in Nat
    <3>1. \A i \in 1..Len(handled) : handled[i] # k
      BY <2>3 DEF IsNew
    <3> QED
      BY <2>0, <2>1, <2>3, <3>1
  <2> QED
    BY <2>2, <2>3, Zenon DEF Notes
<1>5. Len(wire) \in Nat
  BY Lens
<1>6. ASSUME NEW i \in 1..Len(handled) PROVE Len(wire') >= mark'[handled[i]]
  <2>1. Len(wire) >= mark[handled[i]]
    BY DEF HandlerAfterData
  <2>2. mark'[handled[i]] = mark[handled[i]] /\ mark[handled[i]] \in Nat
    BY <1>4
  <2> DEFINE x == mark[handled[i]]
  <2>3. Len(wire) >= x /\ x \in Nat
    BY <2>1, <2>2
  <2> HIDE DEF x
  <2>4. Len(wire') >= x
    BY <2>3, <1>5
  <2> QED
    BY <2>2, <2>4, Zenon DEF x
<1>7. \A i, j \in 1..Len(handled) : i < j => mark'[handled[i]] <= mark'[handled[j]]
  BY <1>4, Zenon DEF HandlerAfterData
<1> QED
  BY <1>2, <1>3, <1>6, <1>7, Zenon DEF HandlerAfterData

-----------------------------------------------------------------------------
(* What the operations do to the queues.  A rest that is not empty is      *)
(* queued.                                                                 *)
LEMMA EnqueueSends ==
    ASSUME ~is_closed, NEW u \in Seq(Unit), NEW w \in Nat, NEW rest \in Seq(Unit), NEW q,
           Enqueue(rest, q), Accepts(u, w, Len(rest)), IsRest(u, w, rest), Gets(u, w), sfq' = sfq
    PROVE  Sends(u, w)
<1>1. CASE rest = <<>>
  <2>1. Len(rest) = 0 /\ Len(u) \in Nat
    BY <1>1
  <2>2. Len(u) = w + Len(rest)
    BY DEF Accepts
  <2>3. w = Len(u)
    BY <2>1, <2>2
  <2>4. Accepts(u, Len(u), 0)
    BY <2>1, <2>3
  <2>5. UNCHANGED <<out, bsq, send_id>>
    BY <1>1 DEF Enqueue
  <2>6. ~blocked' => ~blocked
    BY DEF IsRest
  <2>7. AddsNone(u)
    BY <2>4, <2>5, <2>6 DEF AddsNone
  <2> QED
    BY <2>3, <2>7, Zenon DEF Sends
<1>2. CASE rest # <<>>
  <2>1. AddsBytes(u, w, rest)
    BY <1>2 DEF Enqueue, AddsBytes
  <2> QED
    BY <2>1, Zenon DEF Sends
<1> QED
  BY <1>1, <1>2

(* EnqueueFile as a change of the queues.                                  *)
LEMMA EnqueueFileSends ==
    ASSUME ~is_closed, NEW u \in Seq(Unit), NEW w \in Nat, NEW rest \in Seq(Unit), NEW q,
           EnqueueFile(rest, q), Accepts(u, w, Len(rest)), IsRest(u, w, rest), Gets(u, w),
           UNCHANGED <<out, bsq>>
    PROVE  Sends(u, w)
<1>1. CASE rest = <<>>
  <2>1. Len(rest) = 0 /\ Len(u) \in Nat
    BY <1>1
  <2>2. Len(u) = w + Len(rest)
    BY DEF Accepts
  <2>3. w = Len(u)
    BY <2>1, <2>2
  <2>4. Accepts(u, Len(u), 0)
    BY <2>1, <2>3
  <2>5. UNCHANGED <<sfq, send_id>>
    BY <1>1 DEF EnqueueFile
  <2>6. ~blocked' => ~blocked
    BY DEF IsRest
  <2>7. AddsNone(u)
    BY <2>4, <2>5, <2>6 DEF AddsNone
  <2> QED
    BY <2>3, <2>7, Zenon DEF Sends
<1>2. CASE rest # <<>>
  <2>1. AddsFile(u, w, rest)
    BY <1>2 DEF EnqueueFile, AddsFile
  <2> QED
    BY <2>1, Zenon DEF Sends
<1> QED
  BY <1>1, <1>2

(* A direct write finds nothing pending: the ids are used up.              *)
LEMMA NothingPending ==
    ASSUME OpInv, IdsInv, ~is_closed, ~writing, send_queue_is_empty
    PROVE  next_id = send_id
<1>1. bsq = <<>> /\ sfq = <<>> /\ schq = <<>>
  BY DEF OpInv, WriteArmed, send_queue_is_empty
<1>2. Len(bsq) + Len(sfq) + Len(schq) = send_id - next_id
  BY DEF IdsInv, Ids
<1>3. Len(bsq) = 0 /\ Len(sfq) = 0 /\ Len(schq) = 0
  BY <1>1
<1>4. send_id \in Nat /\ next_id \in Nat
  BY DEF OpInv, OpType
<1> QED
  BY <1>2, <1>3, <1>4

(* The wire gets the first n units of u, and u is cut there.               *)
LEMMA GetsSome ==
    ASSUME OpType, NEW u \in Seq(Unit), NEW n \in 0..Len(u), wire' = wire \o SubSeq(u, 1, n)
    PROVE  Gets(u, n)
<1> DEFINE s == SubSeq(u, 1, n)
<1>1. s \in Seq(Unit) /\ Len(s) = n /\ \A j \in 1..n : s[j] = u[j]
  BY Cut
<1>2. wire \in Seq(Unit) /\ wire' = wire \o s
  BY DEF OpType
<1> HIDE DEF s
<1>3. /\ Len(wire') = Len(wire) + Len(s) /\ \A j \in 1..Len(wire) : wire'[j] = wire[j]
      /\ \A j \in 1..Len(s) : wire'[Len(wire) + j] = s[j]
  <2>1. s \in Seq(Unit)
    BY <1>1
  <2>2. /\ Len(wire \o s) = Len(wire) + Len(s)
        /\ \A j \in 1..Len(wire) : (wire \o s)[j] = wire[j]
        /\ \A j \in 1..Len(s) : (wire \o s)[Len(wire) + j] = s[j]
    BY <2>1, <1>2, Joined, Zenon
  <2> QED
    BY <2>2, <1>2
<1> QED
  BY <1>1, <1>3, Zenon DEF Gets

(* Nothing was written.                                                    *)
LEMMA GetsNone ==
    ASSUME OpType, NEW u, wire' = wire
    PROVE  Gets(u, 0)
<1>1. Len(wire) \in Nat
  BY Lens
<1>2. Len(wire) = Len(wire) + 0 /\ \A j \in 1..0 : FALSE
  BY <1>1
<1> QED
  BY <1>2, Zenon DEF Gets

(* send_in_loop() as a change of the queues.                               *)
LEMMA SendStep ==
    ASSUME OpInv, IdsInv, NEW k \in Calls, NEW q \in Seq(Functor), send_in_loop(k, q)
    PROVE  DataStep /\ Ends /\ Notes(q)
<1> DEFINE u == Units(k)
<1>l. Leaves(q)
  BY SendInv
<1>t. OpType
  BY DEF OpInv
<1>1. CASE is_closed
  <2>1. functors' = q /\ UNCHANGED <<sendVars, histVars, closeVars, blocked>>
    BY <1>1 DEF send_in_loop, Refuse
  <2>2. DataStep
    BY <2>1 DEF DataStep, Quiet, sendVars, histVars
  <2>3. Ends
    BY <1>1, <2>1 DEF Ends, sendVars, histVars, closeVars, is_closed
  <2> QED
    BY <2>1, <2>2, <2>3, <1>l DEF Notes, sendVars, histVars
<1>2. CASE ~is_closed
  <2>k. k \in Nat /\ Size \in Nat /\ Size >= 1
    BY ConnectionAssumption DEF Calls
  <2>u. u \in Seq(Unit) /\ Len(u) = Size
    BY UnitsType, <2>k
  <2>j. /\ <<Junk>> \o SubSeq(u, 1, Size - 1) \in Seq(Unit)
        /\ Len(<<Junk>> \o SubSeq(u, 1, Size - 1)) = Size
    BY JunkUnits, <2>k
  <2> HIDE DEF u
  <2>1. /\ accepted' = accepted \o u
        /\ UNCHANGED <<sfq, schq, next_id, mark, handled>>
        /\ \/ ~writing /\ send_queue_is_empty /\ DirectSend(u, q)
           \/ Enqueue(u, q) /\ UNCHANGED <<wire, closeVars, blocked>>
    BY <1>2 DEF send_in_loop, u
  <2>2. Notes(q)
    BY <2>1, <1>l DEF Notes
  <2>3. ASSUME NEW w \in Nat, Sends(u, w), UNCHANGED closeVars PROVE DataStep /\ Ends
    <3>1. is_closed' = is_closed
      BY <2>3 DEF closeVars, is_closed
    <3>2. Ends
      BY <1>2, <3>1, Zenon DEF Ends
    <3>3. DataStep
      BY <2>3, <2>u, Zenon DEF DataStep
    <3> QED
      BY <3>2, <3>3
  <2>4. CASE Enqueue(u, q) /\ UNCHANGED <<wire, closeVars, blocked>>
    <3>1. 0 \in Nat /\ Len(u) = 0 + Len(u) /\ Len(wire) = Len(wire) + 0
      BY <1>t, <2>k, <2>u, Lens
    <3>2. Accepts(u, 0, Len(u))
      BY <2>1, <2>4, <3>1 DEF Accepts
    <3>3. IsRest(u, 0, u)
      <4>1. \A j \in 1..Len(u) : 0 + j = j
        BY <2>u, <2>k
      <4> QED
        BY <2>4, <4>1 DEF IsRest
    <3>4. Gets(u, 0)
      BY <2>4, <1>t, GetsNone
    <3>5. Sends(u, 0)
      BY <1>2, <2>1, <2>4, <2>u, <3>1, <3>2, <3>3, <3>4, EnqueueSends
    <3> QED
      BY <2>2, <2>3, <2>4, <3>1, <3>5
  <2>5. CASE ~writing /\ send_queue_is_empty /\ DirectSend(u, q)
    <3>0. next_id = send_id
      BY <1>2, <2>5, NothingPending
    <3>1. ASSUME NEW n \in 1..Size, wire' = wire \o SubSeq(u, 1, n),
                 Enqueue(SubSeq(u, n + 1, Size), q), UNCHANGED <<closeVars, blocked>>
          PROVE  DataStep /\ Ends
      <4> DEFINE rest == SubSeq(u, n + 1, Size)
      <4>1. n \in Nat /\ n \in 0..Len(u)
        BY <2>k, <2>u
      <4>2. /\ rest \in Seq(Unit) /\ Len(rest) = Size - n
            /\ \A j \in 1..(Size - n) : rest[j] = u[n + j]
        BY <2>u, <4>1, Cut
      <4>3. Enqueue(rest, q)
        BY <3>1
      <4> HIDE DEF rest
      <4>4. Gets(u, n)
        BY <1>t, <2>u, <3>1, <4>1, GetsSome
      <4>5. Len(wire') = Len(wire) + n
        BY <4>4 DEF Gets
      <4>6. Len(u) = n + Len(rest)
        BY <4>1, <4>2, <2>k, <2>u
      <4>7. Accepts(u, n, Len(rest))
        BY <2>1, <3>0, <4>5, <4>6 DEF Accepts
      <4>8. IsRest(u, n, rest)
        BY <3>1, <4>2 DEF IsRest
      <4>9. Sends(u, n)
        BY <1>2, <2>1, <2>u, <4>1, <4>2, <4>3, <4>4, <4>7, <4>8, EnqueueSends
      <4> QED
        BY <2>3, <3>1, <4>1, <4>9
    <3>2. ASSUME Enqueue(<<Junk>> \o SubSeq(u, 1, Size - 1), q), blocked' = TRUE,
                 UNCHANGED <<wire, closeVars>>
          PROVE  DataStep /\ Ends
      <4> DEFINE rest == <<Junk>> \o SubSeq(u, 1, Size - 1)
      <4>1. rest \in Seq(Unit) /\ Len(rest) = Size /\ Enqueue(rest, q)
        BY <2>j, <3>2
      <4> HIDE DEF rest
      <4>2. 0 \in Nat /\ Len(u) = 0 + Len(rest) /\ Len(wire) = Len(wire) + 0
        BY <1>t, <2>k, <2>u, <4>1, Lens
      <4>3. Accepts(u, 0, Len(rest))
        BY <2>1, <3>2, <4>2 DEF Accepts
      <4>4. IsRest(u, 0, rest)
        BY <3>2 DEF IsRest
      <4>5. Gets(u, 0)
        BY <3>2, <1>t, GetsNone
      <4>6. Sends(u, 0)
        BY <1>2, <2>1, <2>u, <4>1, <4>2, <4>3, <4>4, <4>5, EnqueueSends
      <4> QED
        BY <2>3, <3>2, <4>2, <4>6
    <3>3. ASSUME CloseNow(q, TRUE), UNCHANGED <<wire, out, bsq, send_id, blocked>>
          PROVE  DataStep /\ Ends
      <4>1. is_closed' /\ failed'
        BY <3>3 DEF CloseNow, is_closed
      <4>2. accepted \in Seq(Unit) /\ Len(accepted) \in Nat /\ Len(u) \in Nat
        BY <1>t, <2>u, <2>k, Lens DEF OpType
      <4>3. /\ Len(accepted') = Len(accepted) + Len(u)
            /\ \A j \in 1..Len(accepted) : accepted'[j] = accepted[j]
        BY <2>1, <2>u, <4>2, Joined, Zenon
      <4>4. Len(accepted') \in Nat /\ Len(accepted) <= Len(accepted')
        BY <4>2, <4>3
      <4>5. Fails
        BY <2>1, <3>3, <4>1, <4>3, <4>4 DEF Fails, Extends
      <4> QED
        BY <1>2, <4>1, <4>5 DEF DataStep, Ends
    <3> QED
      BY <2>2, <2>5, <3>1, <3>2, <3>3 DEF DirectSend
  <2> QED
    BY <2>1, <2>4, <2>5
<1> QED
  BY <1>1, <1>2

(* send_file_in_loop() as a change of the queues.                          *)
LEMMA SendFileStep ==
    ASSUME OpInv, IdsInv, NEW k \in Calls, NEW q \in Seq(Functor), send_file_in_loop(k, q)
    PROVE  DataStep /\ Ends /\ Notes(q)
<1> DEFINE u == Units(k)
<1>l. Leaves(q)
  BY SendFileInv
<1>t. OpType
  BY DEF OpInv
<1>1. CASE is_closed
  <2>1. functors' = q /\ UNCHANGED <<sendVars, histVars, closeVars, blocked>>
    BY <1>1 DEF send_file_in_loop, Refuse
  <2>2. DataStep
    BY <2>1 DEF DataStep, Quiet, sendVars, histVars
  <2>3. Ends
    BY <1>1, <2>1 DEF Ends, sendVars, histVars, closeVars, is_closed
  <2> QED
    BY <2>1, <2>2, <2>3, <1>l DEF Notes, sendVars, histVars
<1>2. CASE ~is_closed
  <2>k. k \in Nat /\ Size \in Nat /\ Size >= 1
    BY ConnectionAssumption DEF Calls
  <2>u. u \in Seq(Unit) /\ Len(u) = Size
    BY UnitsType, <2>k
  <2> HIDE DEF u
  <2>1. /\ accepted' = accepted \o u
        /\ UNCHANGED <<out, bsq, schq, next_id, mark, handled, blocked>>
        /\ \/ ~writing /\ send_queue_is_empty /\ DirectSendFile(u, q)
           \/ EnqueueFile(u, q) /\ UNCHANGED <<wire, closeVars>>
    BY <1>2 DEF send_file_in_loop, u
  <2>2. Notes(q)
    BY <2>1, <1>l DEF Notes
  <2>3. ASSUME NEW w \in Nat, Sends(u, w), UNCHANGED closeVars PROVE DataStep /\ Ends
    <3>1. is_closed' = is_closed
      BY <2>3 DEF closeVars, is_closed
    <3>2. Ends
      BY <1>2, <3>1, Zenon DEF Ends
    <3>3. DataStep
      BY <2>3, <2>u, Zenon DEF DataStep
    <3> QED
      BY <3>2, <3>3
  <2>4. CASE EnqueueFile(u, q) /\ UNCHANGED <<wire, closeVars>>
    <3>1. 0 \in Nat /\ Len(u) = 0 + Len(u) /\ Len(wire) = Len(wire) + 0
      BY <1>t, <2>k, <2>u, Lens
    <3>2. Accepts(u, 0, Len(u))
      BY <2>1, <2>4, <3>1 DEF Accepts
    <3>3. IsRest(u, 0, u)
      <4>1. \A j \in 1..Len(u) : 0 + j = j
        BY <2>u, <2>k
      <4> QED
        BY <2>1, <4>1 DEF IsRest
    <3>4. Gets(u, 0)
      BY <2>4, <1>t, GetsNone
    <3>5. Sends(u, 0)
      BY <1>2, <2>1, <2>4, <2>u, <3>1, <3>2, <3>3, <3>4, EnqueueFileSends
    <3> QED
      BY <2>2, <2>3, <2>4, <3>1, <3>5
  <2>5. CASE ~writing /\ send_queue_is_empty /\ DirectSendFile(u, q)
    <3>0. next_id = send_id
      BY <1>2, <2>5, NothingPending
    <3>1. ASSUME NEW n \in 0..Size, wire' = wire \o SubSeq(u, 1, n),
                 EnqueueFile(SubSeq(u, n + 1, Size), q), UNCHANGED closeVars
          PROVE  DataStep /\ Ends
      <4> DEFINE rest == SubSeq(u, n + 1, Size)
      <4>1. n \in Nat /\ n \in 0..Len(u)
        BY <2>k, <2>u
      <4>2. /\ rest \in Seq(Unit) /\ Len(rest) = Size - n
            /\ \A j \in 1..(Size - n) : rest[j] = u[n + j]
        BY <2>u, <4>1, Cut
      <4>3. EnqueueFile(rest, q)
        BY <3>1
      <4> HIDE DEF rest
      <4>4. Gets(u, n)
        BY <1>t, <2>u, <3>1, <4>1, GetsSome
      <4>5. Len(wire') = Len(wire) + n
        BY <4>4 DEF Gets
      <4>6. Len(u) = n + Len(rest)
        BY <4>1, <4>2, <2>k, <2>u
      <4>7. Accepts(u, n, Len(rest))
        BY <2>1, <3>0, <4>5, <4>6 DEF Accepts
      <4>8. IsRest(u, n, rest)
        BY <2>1, <4>2 DEF IsRest
      <4>9. Sends(u, n)
        BY <1>2, <2>1, <2>u, <4>1, <4>2, <4>3, <4>4, <4>7, <4>8, EnqueueFileSends
      <4> QED
        BY <2>3, <3>1, <4>1, <4>9
    <3>3. ASSUME CloseNow(q, TRUE), UNCHANGED <<wire, sfq, send_id>>
          PROVE  DataStep /\ Ends
      <4>1. is_closed' /\ failed'
        BY <3>3 DEF CloseNow, is_closed
      <4>2. accepted \in Seq(Unit) /\ Len(accepted) \in Nat /\ Len(u) \in Nat
        BY <1>t, <2>u, <2>k, Lens DEF OpType
      <4>3. /\ Len(accepted') = Len(accepted) + Len(u)
            /\ \A j \in 1..Len(accepted) : accepted'[j] = accepted[j]
        BY <2>1, <2>u, <4>2, Joined, Zenon
      <4>4. Len(accepted') \in Nat /\ Len(accepted) <= Len(accepted')
        BY <4>2, <4>3
      <4>5. Fails
        BY <2>1, <3>3, <4>1, <4>3, <4>4 DEF Fails, Extends
      <4> QED
        BY <1>2, <4>1, <4>5 DEF DataStep, Ends
    <3> QED
      BY <2>2, <2>5, <3>1, <3>3 DEF DirectSendFile
  <2> QED
    BY <2>1, <2>4, <2>5
<1> QED
  BY <1>1, <1>2

(* set_send_complete_handler() as a change of the queues.                  *)
LEMMA SetHandlerStep ==
    ASSUME OpInv, NEW k \in Calls, NEW q \in Seq(Functor), IsNew(k, q), k \in 1..ncalls',
           set_send_complete_handler(k, q)
    PROVE  DataStep /\ Ends /\ Notes(q)
<1>1. /\ schq' = Append(schq, [id |-> send_id, k |-> k]) /\ send_id' = send_id + 1
      /\ mark' = [mark EXCEPT ![k] = Len(accepted)] /\ functors' = q
      /\ UNCHANGED <<out, bsq, sfq, next_id, wire, accepted, handled, closeVars, blocked>>
  BY DEF set_send_complete_handler
<1>2. AddsHandler(k)
  BY <1>1 DEF AddsHandler, IsNew
<1>3. Ends
  BY <1>1 DEF Ends, closeVars, is_closed
<1>4. Notes(q)
  BY <1>1 DEF Notes, Leaves
<1> QED
  BY <1>2, <1>3, <1>4, Zenon DEF DataStep

(* handle_close() as a change of the queues: it changes none.              *)
LEMMA HandleCloseStep ==
    ASSUME OpInv, NEW q \in Seq(Functor), handle_close(q), UNCHANGED <<histVars, blocked>>
    PROVE  DataStep /\ Ends /\ Notes(q)
<1>1. Leaves(q)
  BY HandleCloseInv
<1>2. UNCHANGED <<out, bsq, sfq, schq, send_id, next_id, wire, accepted, mark, handled, blocked>>
  BY DEF handle_close, histVars
<1>3. Ends
  <2>1. CASE is_closed
    BY <1>2, <2>1 DEF handle_close, Ends, closeVars, is_closed
  <2>2. CASE ~is_closed /\ ~send_queue_is_empty
    BY <2>2 DEF handle_close, Ends, is_closed
  <2>3. CASE ~is_closed /\ send_queue_is_empty
    BY <1>2, <2>3 DEF Ends
  <2> QED
    BY <2>1, <2>2, <2>3
<1> QED
  BY <1>1, <1>2, <1>3 DEF DataStep, Quiet, Notes

(* What handle_write() takes.                                              *)
LEMMA WriteBytesStep ==
    ASSUME OpType, ~is_closed, BytesNext, NEW n \in 1..Head(bsq).len, Head(bsq).len \in Nat,
           n <= Len(out), TakeBytes(n), UNCHANGED <<sfq, schq, send_id, histVars, blocked>>
    PROVE  DataStep
<1>1. /\ 1 \in 1..Len(bsq) /\ Head(bsq) = bsq[1] /\ bsq[1].id = next_id
      /\ Len(wire') = Len(wire) + n
      /\ \A j \in 1..Len(wire) : wire'[j] = wire[j]
      /\ \A j \in 1..n : wire'[Len(wire) + j] = out[j]
      /\ Len(out') = Len(out) - n
      /\ \A j \in 1..(Len(out) - n) : out'[j] = out[n + j]
  BY BytesTaken, Zenon
<1>2. \/ /\ n = bsq[1].len /\ next_id' = next_id + 1
         /\ Len(bsq') = Len(bsq) - 1
         /\ \A i \in 1..(Len(bsq) - 1) : bsq'[i] = bsq[i + 1]
      \/ /\ n < bsq[1].len /\ next_id' = next_id
         /\ Len(bsq') = Len(bsq)
         /\ bsq'[1].id = next_id /\ bsq'[1].len = bsq[1].len - n
         /\ \A i \in 2..Len(bsq) : bsq'[i] = bsq[i]
  BY BytesTaken, Zenon
<1>3. Len(bsq) \in Nat
  BY Lens
<1>4. Len(bsq) >= 1 /\ n \in Nat /\ n <= bsq[1].len /\ bsq[1].len \in Nat
  BY <1>1, <1>3
<1>5. Gets(out, n)
  BY <1>1, Zenon DEF Gets
<1>6. Drains(n)
  BY <1>1, <1>4 DEF Drains, histVars
<1>7. BytesStay(n) \/ BytesGo(n)
  BY <1>2, <1>6, Zenon DEF BytesStay, BytesGo
<1>8. Writes(n)
  BY <1>5, <1>7, Zenon DEF Writes
<1> QED
  BY <1>4, <1>8, Zenon DEF DataStep

(* A write of the first file as a change of the queues.                    *)
LEMMA WriteFileStep ==
    ASSUME OpType, ~is_closed, FileNext, NEW n \in 1..Len(Head(sfq).rest), TakeFile(n),
           UNCHANGED <<out, bsq, schq, send_id, histVars, blocked>>
    PROVE  DataStep
<1>1. /\ 1 \in 1..Len(sfq) /\ Head(sfq) = sfq[1] /\ sfq[1].id = next_id
      /\ Len(wire') = Len(wire) + n
      /\ \A j \in 1..Len(wire) : wire'[j] = wire[j]
      /\ \A j \in 1..n : wire'[Len(wire) + j] = sfq[1].rest[j]
  BY FileTaken, Zenon
<1>2. \/ /\ n = Len(sfq[1].rest) /\ next_id' = next_id + 1
         /\ Len(sfq') = Len(sfq) - 1
         /\ \A i \in 1..(Len(sfq) - 1) : sfq'[i] = sfq[i + 1]
      \/ /\ n < Len(sfq[1].rest) /\ next_id' = next_id
         /\ Len(sfq') = Len(sfq)
         /\ sfq'[1].id = next_id /\ Len(sfq'[1].rest) = Len(sfq[1].rest) - n
         /\ \A j \in 1..(Len(sfq[1].rest) - n) : sfq'[1].rest[j] = sfq[1].rest[n + j]
         /\ \A i \in 2..Len(sfq) : sfq'[i] = sfq[i]
  BY FileTaken, Zenon
<1>3. Len(sfq) \in Nat /\ sfq \in Seq(SendFile)
  BY Lens DEF OpType
<1>r. Len(sfq[1].rest) \in Nat
  <2>1. sfq[1] \in SendFile
    BY <1>1, <1>3
  <2> DEFINE r == sfq[1].rest
  <2>2. r \in Seq(Unit)
    BY <2>1 DEF SendFile
  <2> HIDE DEF r
  <2>3. Len(r) \in Nat
    BY <2>2
  <2> QED
    BY <2>3 DEF r
<1>4. Len(sfq) >= 1 /\ n \in Nat /\ n <= Len(sfq[1].rest)
  BY <1>1, <1>3, <1>r
<1>5. Gets(sfq[1].rest, n)
  BY <1>1, Zenon DEF Gets
<1>6. Reads(n)
  BY <1>1, <1>4, <1>r DEF Reads, histVars
<1>7. FileStay(n) \/ FileGo(n)
  BY <1>2, <1>6, Zenon DEF FileStay, FileGo
<1>8. Writes(n)
  BY <1>5, <1>7, Zenon DEF Writes
<1> QED
  BY <1>4, <1>8, Zenon DEF DataStep

(* The send-complete handler that is next is called when the wire has      *)
(* reached its mark.                                                       *)
LEMMA CallHandlerStep ==
    ASSUME OpType, IdsInv, CallsInv, LayoutInv, ~is_closed, HandlerNext, HandlerAfterData,
           handled' = Append(handled, Head(schq).k),
           UNCHANGED <<schq, functors, ncalls, wire, mark>>
    PROVE  CallsInv' /\ HandlerAfterData'
<1> DEFINE l == Len(handled)
           k == schq[1].k
<1>1. schq \in Seq(SendComplete) /\ schq # <<>> /\ handled \in Seq(Calls) /\ Head(schq).id = next_id
  BY DEF OpType, HandlerNext
<1>2. Len(schq) \in Nat /\ Len(schq) >= 1 /\ Head(schq) = schq[1] /\ 1 \in 1..Len(schq)
  BY <1>1
<1>s. schq \in Seq(SendComplete)
  BY <1>1
<1>3. k \in Calls
  <2>1. schq[1] \in SendComplete
    BY <1>2, <1>s
  <2> QED
    BY <2>1 DEF SendComplete
<1>4. handled' = Append(handled, k)
  BY <1>2
<1> HIDE DEF k
<1>5. l \in Nat /\ Len(handled') = l + 1 /\ handled'[l + 1] = k /\ \A i \in 1..l : handled'[i] = handled[i]
  BY <1>1, <1>3, <1>4
<1> HIDE DEF l
<1>6. \A i \in 1..(l + 1) : i \in 1..l \/ i = l + 1
  BY <1>5
<1>c. /\ \A i \in 1..Len(functors), j \in 1..Len(schq) :
            functors[i].op = "handler" => functors[i].k # schq[j].k
      /\ \A i \in 1..Len(functors), j \in 1..l :
            functors[i].op = "handler" => functors[i].k # handled[j]
      /\ \A i \in 1..Len(schq) : schq[i].k \in 1..ncalls
      /\ \A i \in 1..l : handled[i] \in 1..ncalls
  BY Zenon DEF CallsInv, CallsOf, l
<1>7. CallsInv'
  <2>1. \A i \in 1..Len(functors), j \in 1..(l + 1) :
           functors[i].op = "handler" => functors[i].k # handled'[j]
    <3>1. ASSUME NEW i \in 1..Len(functors), NEW j \in 1..(l + 1), functors[i].op = "handler"
          PROVE  functors[i].k # handled'[j]
      <4>1. CASE j \in 1..l
        BY <3>1, <4>1, <1>5, <1>c, Zenon
      <4>2. CASE j = l + 1
        BY <3>1, <4>2, <1>2, <1>5, <1>c, Zenon DEF k
      <4> QED
        BY <4>1, <4>2, <1>6
    <3> QED
      BY <3>1, Zenon
  <2>2. \A i \in 1..(l + 1) : handled'[i] \in 1..ncalls
    <3>1. ASSUME NEW i \in 1..(l + 1) PROVE handled'[i] \in 1..ncalls
      <4>1. CASE i \in 1..l
        BY <4>1, <1>5, <1>c, Zenon
      <4>2. CASE i = l + 1
        BY <4>2, <1>2, <1>5, <1>c, Zenon DEF k
      <4> QED
        BY <4>1, <4>2, <1>6
    <3> QED
      BY <3>1, Zenon
  <2> QED
    BY <2>1, <2>2, <1>5, Zenon DEF CallsInv, CallsOf
<1>8. mark[k] = Len(wire)
  <2>1. PICK st, os \in [Nat -> Nat] : Layout(st, os)
    BY Zenon DEF LayoutInv
  <2>2. mark[schq[1].k] = st[schq[1].id] /\ st[next_id] = Len(wire)
    BY <2>1, <1>2, Zenon DEF Layout, Offsets
  <2> QED
    BY <2>2, <1>1, <1>2 DEF k
<1>9. Len(wire) \in Nat
  BY Lens
<1>10. ASSUME NEW i \in 1..(l + 1) PROVE Len(wire) >= mark[handled'[i]]
  <2>1. CASE i \in 1..l
    BY <2>1, <1>5, Zenon DEF HandlerAfterData, l
  <2>2. CASE i = l + 1
    BY <2>2, <1>5, <1>8, <1>9
  <2> QED
    BY <2>1, <2>2, <1>6
<1>11. ASSUME NEW i \in 1..(l + 1), NEW j \in 1..(l + 1), i < j
       PROVE  mark[handled'[i]] <= mark[handled'[j]]
  <2>1. CASE j \in 1..l
    <3>1. i \in 1..l
      BY <1>11, <2>1, <1>5
    <3>2. mark[handled[i]] <= mark[handled[j]]
      BY <1>11, <2>1, <3>1, Zenon DEF HandlerAfterData, l
    <3> QED
      BY <2>1, <3>1, <3>2, <1>5, Zenon
  <2>2. CASE j = l + 1
    <3>1. i \in 1..l
      BY <1>11, <2>2, <1>5
    <3>2. Len(wire) >= mark[handled[i]]
      BY <3>1, Zenon DEF HandlerAfterData, l
    <3>3. mark[handled'[j]] = Len(wire) /\ handled'[i] = handled[i]
      BY <2>2, <3>1, <1>5, <1>8, Zenon
    <3> QED
      BY <3>2, <3>3
  <2> QED
    BY <2>1, <2>2, <1>6
<1> QED
  BY <1>5, <1>7, <1>10, <1>11, Zenon DEF HandlerAfterData

(* handle_write() pops the handler when the call has returned.             *)
LEMMA EndHandlerStep ==
    ASSUME OpType, CallsInv, HandlerNext, schq' = Tail(schq), next_id' = next_id + 1,
           UNCHANGED <<out, bsq, sfq, send_id, wire, histVars, closeVars, callVars, functors, blocked>>
    PROVE  DataStep /\ Ends /\ CallsInv'
<1>1. /\ schq[1].id = next_id /\ 1 \in 1..Len(schq) /\ Len(schq') = Len(schq) - 1
      /\ \A i \in 1..(Len(schq) - 1) : schq'[i] = schq[i + 1]
  BY HandlerTaken, Zenon
<1>2. Len(schq) \in Nat
  BY Lens
<1>3. Len(schq) >= 1
  BY <1>1, <1>2
<1>4. HandlerGo
  BY <1>1, <1>3 DEF HandlerGo, histVars
<1>5. Ends
  BY DEF Ends, histVars, closeVars, is_closed
<1>6. \A i \in 1..(Len(schq) - 1) : i + 1 \in 1..Len(schq)
  BY <1>2
<1>7. functors' = functors /\ handled' = handled /\ ncalls' = ncalls
  BY DEF histVars, callVars
<1>8. \A i \in 1..Len(schq') : schq'[i].k \in 1..ncalls
  BY <1>1, <1>6, Zenon DEF CallsInv, CallsOf
<1>9. ASSUME NEW i \in 1..Len(functors), NEW j \in 1..Len(schq'), functors[i].op = "handler"
      PROVE  functors[i].k # schq'[j].k
  <2>1. schq'[j] = schq[j + 1] /\ j + 1 \in 1..Len(schq)
    BY <1>1, <1>6, Zenon
  <2> QED
    BY <1>9, <2>1, Zenon DEF CallsInv, CallsOf
<1>10. CallsOf(functors, schq', handled, ncalls)
  <2>1. /\ \A i, j \in 1..Len(functors) :
              /\ functors[i].op = "handler" /\ functors[j].op = "handler"
              /\ functors[i].k = functors[j].k
              => i = j
        /\ \A i \in 1..Len(functors), j \in 1..Len(handled) :
              functors[i].op = "handler" => functors[i].k # handled[j]
        /\ \A i \in 1..Len(handled) : handled[i] \in 1..ncalls
    BY Zenon DEF CallsInv, CallsOf
  <2> QED
    BY <2>1, <1>8, <1>9, Zenon DEF CallsOf
<1>11. CallsInv'
  BY <1>7, <1>10, Zenon DEF CallsInv
<1> QED
  BY <1>4, <1>5, <1>11 DEF DataStep

-----------------------------------------------------------------------------
DataInv ==
    /\ IdsInv /\ CallsInv /\ LayoutInv /\ WirePrefix
    /\ HandlerAfterData /\ GracefulCloseSendsAll

ConnInv == BaseInv /\ DataInv

(* Every step keeps the ids, the layout, the order on the wire and the     *)
(* calls.                                                                  *)
LEMMA DataNext ==
    ASSUME ConnInv, [Next]_vars
    PROVE  DataInv'
<1>b. BaseInv /\ BaseInv' /\ OpInv /\ OpType /\ StateInv
  BY BaseNext DEF ConnInv, DataInv, BaseInv, OpInv
<1>i. /\ IdsInv /\ CallsInv /\ LayoutInv /\ WirePrefix
      /\ HandlerAfterData /\ GracefulCloseSendsAll
  BY DEF ConnInv, DataInv
<1>t. functors \in Seq(Functor) /\ ncalls \in Nat /\ ncalls' \in Nat /\ Len(wire') \in Nat
  <2>1. wire' \in Seq(Unit) /\ functors \in Seq(Functor)
    BY <1>b DEF BaseInv, OpInv, OpType
  <2> QED
    BY <2>1, <1>b, ConnectionAssumption DEF BaseInv, ThreadType
<1>d. ASSUME DataStep, Ends
      PROVE  IdsInv' /\ LayoutInv' /\ WirePrefix' /\ GracefulCloseSendsAll' /\ Len(wire) <= Len(wire')
  <2>1. is_closed => is_closed'
    BY <1>d, Zenon DEF Ends
  <2> QED
    BY <1>b, <1>d, <1>i, <2>1, IdsStep, LayoutStep, WireStep, CloseStep, Zenon
<1>0. ASSUME NEW q \in Seq(Functor), CallsOf(q, schq, handled, ncalls), ncalls <= ncalls',
             DataStep, Ends, Notes(q)
      PROVE  DataInv'
  <2>1. CallsInv' /\ HandlerAfterData'
    BY <1>0, <1>b, <1>d, <1>i, <1>t, NotesStep, Zenon
  <2> QED
    BY <1>0, <1>d, <2>1, Zenon DEF DataInv
<1>c. CallsOf(functors, schq, handled, ncalls)
  BY <1>i DEF CallsInv
<1>k. ASSUME ncalls < MaxCalls, ncalls' = ncalls + 1
      PROVE  ncalls' \in Calls /\ ncalls' \in 1..ncalls' /\ ncalls <= ncalls'
  BY <1>k, <1>t, ConnectionAssumption DEF Calls
<1>p. ASSUME UNCHANGED <<out, bsq, sfq, schq, send_id, next_id, wire, histVars, closeVars,
                         callVars, functors, blocked>>
      PROVE  DataInv'
  <2>1. DataStep
    BY <1>p DEF DataStep, Quiet, histVars
  <2>2. Ends
    BY <1>p DEF Ends, histVars, closeVars, is_closed
  <2>3. Notes(functors)
    BY <1>p DEF Notes, Leaves, histVars
  <2>4. ncalls <= ncalls'
    BY <1>p, <1>t DEF callVars
  <2> QED
    BY <1>0, <1>c, <1>t, <2>1, <2>2, <2>3, <2>4, Zenon
<1>n. ASSUME NEW f \in BOOLEAN, ~is_closed, CloseNow(functors, f), f \/ send_queue_is_empty,
             UNCHANGED <<out, bsq, sfq, schq, send_id, next_id, wire, histVars, callVars, blocked>>
      PROVE  DataInv'
  <2>0. is_closed' /\ Leaves(functors)
    BY <1>b, <1>n, <1>t, CloseNowInv
  <2>1. DataStep
    BY <1>n DEF DataStep, Quiet, histVars
  <2>2. failed' = f
    BY <1>n DEF CloseNow
  <2>3. Ends
    BY <1>n, <2>2 DEF Ends, histVars
  <2>4. Notes(functors)
    BY <1>n, <2>0 DEF Notes, histVars
  <2>5. ncalls <= ncalls'
    BY <1>n, <1>t DEF callVars
  <2> QED
    BY <1>0, <1>c, <1>t, <2>1, <2>3, <2>4, <2>5, Zenon
<1>1. CASE CallInLoop
  <2>1. /\ ncalls < MaxCalls /\ ncalls' = ncalls + 1
        /\ \/ send_in_loop(ncalls', functors) \/ send_file_in_loop(ncalls', functors)
           \/ set_send_complete_handler(ncalls', functors)
    BY <1>1 DEF CallInLoop
  <2>2. ncalls' \in Calls /\ ncalls' \in 1..ncalls' /\ ncalls <= ncalls'
    BY <1>k, <2>1
  <2>3. IsNew(ncalls', functors)
    <3>1. \A x \in 1..ncalls : x # ncalls'
      BY <2>1, <1>t
    <3>2. \A i \in 1..Len(functors) : functors[i].op = "handler" => functors[i].k \in 1..ncalls
      BY <1>b DEF StateInv
    <3> QED
      BY <3>1, <3>2, <1>c, Zenon DEF IsNew, CallsOf
  <2>4. DataStep /\ Ends /\ Notes(functors)
    BY <1>b, <1>i, <1>t, <2>1, <2>2, <2>3, SendStep, SendFileStep, SetHandlerStep, Zenon
  <2> QED
    BY <1>0, <1>c, <1>t, <2>2, <2>4, Zenon
<1>a. ASSUME UNCHANGED <<sendVars, histVars, closeVars, blocked>>, NEW f \in Functor,
             functors' = Append(functors, f), ncalls <= ncalls',
             f.op = "handler" => f.k = ncalls + 1
      PROVE  DataInv'
  <2>1. DataStep
    BY <1>a DEF DataStep, Quiet, histVars, sendVars
  <2>2. Ends
    BY <1>a DEF Ends, histVars, sendVars, closeVars, is_closed
  <2>3. CallsOf(functors, schq, handled, ncalls')
    BY <1>a, <1>c, <1>t, CallsMore, Zenon
  <2>4. ASSUME f.op = "handler"
        PROVE  /\ \A i \in 1..Len(functors) : functors[i].op = "handler" => functors[i].k # f.k
               /\ \A i \in 1..Len(schq) : schq[i].k # f.k
               /\ \A i \in 1..Len(handled) : handled[i] # f.k
    <3>1. \A x \in 1..ncalls : x # f.k
      BY <1>a, <2>4, <1>t
    <3>2. \A i \in 1..Len(functors) : functors[i].op = "handler" => functors[i].k \in 1..ncalls
      BY <1>b DEF StateInv
    <3>3. /\ \A i \in 1..Len(schq) : schq[i].k \in 1..ncalls
          /\ \A i \in 1..Len(handled) : handled[i] \in 1..ncalls
      BY <1>c, Zenon DEF CallsOf
    <3> QED
      BY <3>1, <3>2, <3>3, Zenon
  <2>5. CallsOf(functors', schq, handled, ncalls')
    BY <1>a, <1>t, <2>3, <2>4, CallsAppend, Zenon
  <2>6. schq' = schq /\ handled' = handled /\ mark' = mark /\ wire' = wire
    BY <1>a DEF sendVars, histVars
  <2>7. CallsInv'
    BY <2>5, <2>6, Zenon DEF CallsInv
  <2>8. HandlerAfterData'
    BY <1>i, <2>6, Zenon DEF HandlerAfterData
  <2> QED
    BY <1>d, <2>1, <2>2, <2>7, <2>8, Zenon DEF DataInv
<1>2. CASE CallFromOther
  <2>1. PICK op \in {"send", "file", "handler"} :
          functors' = Append(functors, [op |-> op, k |-> ncalls'])
    BY <1>2 DEF CallFromOther
  <2>2. /\ ncalls < MaxCalls /\ ncalls' = ncalls + 1
        /\ UNCHANGED <<sendVars, histVars, closeVars, blocked>>
    BY <1>2 DEF CallFromOther
  <2>3. ncalls <= ncalls'
    BY <2>2, <1>t
  <2>4. [op |-> op, k |-> ncalls'] \in Functor
    BY <1>t DEF Functor
  <2>5. [op |-> op, k |-> ncalls'].k = ncalls + 1
    BY <2>2
  <2> QED
    BY <1>a, <2>1, <2>2, <2>3, <2>4, <2>5
<1>3. CASE CloseInLoop
  <2>1. handle_close(functors) /\ UNCHANGED <<histVars, blocked>> /\ ncalls' = ncalls
    BY <1>3 DEF CloseInLoop
  <2>2. DataStep /\ Ends /\ Notes(functors)
    BY <1>b, <1>t, <2>1, HandleCloseStep
  <2>3. ncalls <= ncalls'
    BY <2>1, <1>t
  <2> QED
    BY <1>0, <1>c, <1>t, <2>2, <2>3, Zenon
<1>4. CASE CloseFromOther \/ CloseWaitFromOther
  <2>1. PICK f \in {[op |-> "close", k |-> 0], [op |-> "close_wait", k |-> ncloses']} :
          functors' = Append(functors, f)
    BY <1>4 DEF CloseFromOther, CloseWaitFromOther
  <2>2. UNCHANGED <<sendVars, histVars, closeVars, blocked>> /\ ncalls' = ncalls
    BY <1>4 DEF CloseFromOther, CloseWaitFromOther
  <2>3. ncloses' \in Nat
    BY <1>b, ConnectionAssumption DEF BaseInv, ThreadType
  <2>4. f \in Functor /\ f.op # "handler"
    BY <2>1, <2>3 DEF Functor
  <2>5. ncalls <= ncalls'
    BY <2>2, <1>t
  <2> QED
    BY <1>a, <2>1, <2>2, <2>4, <2>5
<1>6. CASE RunFunctor
  <2> DEFINE f == Head(functors)
             q == Tail(functors)
  <2>1. functors # <<>> /\ ncalls' = ncalls
    BY <1>6 DEF RunFunctor
  <2>2. Some(q) /\ f \in Functor /\ f = functors[1] /\ 1 \in 1..Len(functors)
    BY <1>b, <2>1, SomeTail
  <2>q. q \in Seq(Functor)
    BY <2>2 DEF Some
  <2>3. f.op \in {"send", "file", "handler"} => f.k \in Calls /\ f.k \in 1..ncalls'
    <3>1. f.op \in {"send", "file", "handler"} => f.k \in 1..ncalls
      BY <1>b, <2>2 DEF StateInv
    <3>2. \A x \in 1..ncalls : x \in Calls
      BY <1>b, ConnectionAssumption DEF BaseInv, ThreadType, Calls
    <3> QED
      BY <2>1, <3>1, <3>2
  <2>4. CallsOf(q, schq, handled, ncalls) /\ (f.op = "handler" => IsNew(f.k, q))
    BY <1>b, <1>i, <2>1, CallsTail
  <2>5. \/ f.op = "send" /\ send_in_loop(f.k, q)
        \/ f.op = "file" /\ send_file_in_loop(f.k, q)
        \/ f.op = "handler" /\ set_send_complete_handler(f.k, q)
        \/ handle_close(q) /\ UNCHANGED <<histVars, blocked>>
        \/ /\ functors' = q
           /\ UNCHANGED <<out, bsq, sfq, schq, send_id, next_id, wire, histVars,
                          state, failed, blocked>>
    BY <1>6 DEF RunFunctor, sendVars, closeVars
  <2> HIDE DEF f, q
  <2>6. DataStep /\ Ends /\ Notes(q)
    <3>1. CASE f.op = "send" /\ send_in_loop(f.k, q)
      BY <1>b, <1>i, <3>1, <2>3, <2>q, SendStep
    <3>2. CASE f.op = "file" /\ send_file_in_loop(f.k, q)
      BY <1>b, <1>i, <3>2, <2>3, <2>q, SendFileStep
    <3>3. CASE f.op = "handler" /\ set_send_complete_handler(f.k, q)
      BY <1>b, <3>3, <2>3, <2>4, <2>q, SetHandlerStep
    <3>4. CASE handle_close(q) /\ UNCHANGED <<histVars, blocked>>
      BY <1>b, <3>4, <2>q, HandleCloseStep
    <3>5. CASE /\ functors' = q
               /\ UNCHANGED <<out, bsq, sfq, schq, send_id, next_id, wire, histVars,
                              state, failed, blocked>>
      <4>1. DataStep
        BY <3>5 DEF DataStep, Quiet, histVars
      <4>2. Ends
        BY <3>5 DEF Ends, histVars, is_closed
      <4>3. Notes(q)
        BY <3>5 DEF Notes, Leaves, histVars
      <4> QED
        BY <4>1, <4>2, <4>3
    <3> QED
      BY <2>5, <3>1, <3>2, <3>3, <3>4, <3>5
  <2>7. ncalls <= ncalls'
    BY <2>1, <1>t
  <2> QED
    BY <1>0, <2>4, <2>6, <2>7, <2>q, Zenon
<1>7. CASE ReadMessage \/ EndMessage \/ HandleWrite \/ WriteNoBytes \/ WriteNoFile
           \/ CallNoHandler \/ UNCHANGED vars
  BY <1>7, <1>p DEF ReadMessage, EndMessage, HandleWrite, WriteNoBytes, WriteNoFile,
                    CallNoHandler, vars, sendVars
<1>8. CASE ReadEnd
  <2>1. ~is_closed
    BY <1>8, <1>b DEF ReadEnd, OpInv
  <2> QED
    BY <1>8, <2>1, <1>n DEF ReadEnd
<1>9. CASE WriteError
  <2>1. ~is_closed
    BY <1>9, <1>b DEF WriteError, StateInv
  <2> QED
    BY <1>9, <2>1, <1>n DEF WriteError
<1>w. ASSUME DataStep, UNCHANGED <<schq, histVars, closeVars, callVars, functors, blocked>>, ~is_closed
      PROVE  DataInv'
  <2>1. Ends
    BY <1>w DEF Ends, closeVars, is_closed
  <2>2. Notes(functors)
    BY <1>w DEF Notes, Leaves, histVars
  <2>3. ncalls <= ncalls'
    BY <1>w, <1>t DEF callVars
  <2> QED
    BY <1>0, <1>c, <1>t, <1>w, <2>1, <2>2, <2>3, Zenon
<1>10. CASE WriteBytes
  <2>1. /\ pc = "bytes" /\ BytesNext
        /\ UNCHANGED <<sfq, schq, send_id, histVars, closeVars, callVars, functors, blocked>>
    BY <1>10 DEF WriteBytes
  <2>2. ~is_closed
    BY <1>b, <2>1 DEF StateInv
  <2>3. Head(bsq).len \in Nat /\ Head(bsq).len <= Len(out)
    BY <1>b, <1>i, <2>1, <2>2, BytesAreThere
  <2>4. PICK n \in 1..Head(bsq).len : TakeBytes(n)
    BY <1>10 DEF WriteBytes
  <2>5. n <= Len(out)
    BY <2>3, <2>4, <1>b DEF OpType
  <2>6. DataStep
    BY <1>b, <2>1, <2>2, <2>3, <2>4, <2>5, WriteBytesStep
  <2> QED
    BY <1>w, <2>1, <2>2, <2>6
<1>11. CASE WriteFile
  <2>1. /\ pc = "file" /\ FileNext
        /\ UNCHANGED <<out, bsq, schq, send_id, histVars, closeVars, callVars, functors, blocked>>
    BY <1>11 DEF WriteFile
  <2>2. ~is_closed
    BY <1>b, <2>1 DEF StateInv
  <2>4. PICK n \in 1..Len(Head(sfq).rest) : TakeFile(n)
    BY <1>11 DEF WriteFile, TakeFile
  <2>6. DataStep
    BY <1>b, <2>1, <2>2, <2>4, WriteFileStep
  <2> QED
    BY <1>w, <2>1, <2>2, <2>6
<1>12. CASE CallHandler
  <2>1. /\ pc = "handlers" /\ HandlerNext
        /\ handled' = Append(handled, Head(schq).k)
        /\ UNCHANGED <<sendVars, accepted, mark, closeVars, callVars, functors, blocked>>
    BY <1>12 DEF CallHandler
  <2>2. ~is_closed
    BY <1>b, <2>1 DEF StateInv
  <2>3. UNCHANGED <<schq, functors, ncalls, wire, mark>>
    BY <2>1 DEF sendVars, callVars
  <2>4. CallsInv' /\ HandlerAfterData'
    BY <1>b, <1>i, <2>1, <2>2, <2>3, CallHandlerStep
  <2>5. DataStep
    BY <2>1 DEF DataStep, Quiet, sendVars
  <2>6. Ends
    BY <2>1 DEF Ends, sendVars, closeVars, is_closed
  <2> QED
    BY <1>d, <2>4, <2>5, <2>6, Zenon DEF DataInv
<1>13. CASE EndHandler
  <2>1. /\ pc = "complete" /\ schq' = Tail(schq) /\ next_id' = next_id + 1
        /\ UNCHANGED <<out, bsq, sfq, send_id, wire, histVars, closeVars, callVars, functors, blocked>>
    BY <1>13 DEF EndHandler
  <2>2. HandlerNext
    BY <1>b, <2>1 DEF StateInv
  <2>3. DataStep /\ Ends /\ CallsInv'
    BY <1>b, <1>i, <2>1, <2>2, EndHandlerStep
  <2>4. wire' = wire /\ mark' = mark /\ handled' = handled
    BY <2>1 DEF histVars
  <2>5. HandlerAfterData'
    BY <1>i, <2>4, Zenon DEF HandlerAfterData
  <2> QED
    BY <1>d, <2>3, <2>5, Zenon DEF DataInv
<1>14. CASE EndWrite
  <2>1. CASE state = "Closing" /\ CloseNow(functors, FALSE) /\ send_queue_is_empty
    BY <1>14, <2>1, <1>n DEF EndWrite, is_closed
  <2>2. CASE UNCHANGED <<closeVars, functors>>
    BY <1>14, <2>2, <1>p DEF EndWrite
  <2> QED
    BY <1>14, <2>1, <2>2 DEF EndWrite
<1> QED
  BY <1>1, <1>2, <1>3, <1>4, <1>6, <1>7, <1>8, <1>9, <1>10, <1>11, <1>12, <1>13, <1>14
     DEF Next, LoopStep, Progress

(* A new connection has nothing queued and nothing sent.                   *)
LEMMA ConnInit ==
    ASSUME Init
    PROVE  ConnInv
<1>1. /\ pc = "idle" /\ state = "Connected" /\ chan = "open" /\ writing = FALSE
      /\ out = <<>> /\ bsq = <<>> /\ sfq = <<>> /\ schq = <<>>
      /\ send_id = 1 /\ next_id = 1 /\ functors = <<>> /\ wire = <<>>
      /\ ncalls = 0 /\ ncloses = 0 /\ waiters = {} /\ accepted = <<>>
      /\ mark = [k \in Calls |-> 0] /\ handled = <<>>
      /\ closes = 0 /\ failed = FALSE /\ blocked = FALSE
  BY DEF Init
<1>c. ~is_closed
  BY <1>1 DEF is_closed
<1>2. ThreadType
  BY <1>1, ConnectionAssumption DEF ThreadType
<1>m. mark \in [Calls -> Nat]
  BY <1>1
<1>q. /\ <<>> \in Seq(Unit) /\ <<>> \in Seq(ByteStream) /\ <<>> \in Seq(SendFile)
      /\ <<>> \in Seq(SendComplete) /\ <<>> \in Seq(Functor) /\ <<>> \in Seq(Calls)
  OBVIOUS
<1>3. OpType
  BY <1>1, <1>m, <1>q DEF OpType
<1>4. OpInv
  BY <1>1, <1>3, <1>c DEF OpInv, ClosedOnce, WriteArmed, send_queue_is_empty
<1>5. StateInv
  BY <1>1, <1>c DEF StateInv
<1>6. Len(<<>>) = 0 /\ (\A i \in 1..0 : FALSE) /\ (\A a \in 1..(1 - 1) : FALSE)
  OBVIOUS
<1>7. IdsInv
  BY <1>1, <1>6 DEF IdsInv, Ids
<1>8. CallsInv
  BY <1>1, <1>6 DEF CallsInv, CallsOf
<1>9. WirePrefix /\ HandlerAfterData /\ GracefulCloseSendsAll
  BY <1>1, <1>6, <1>c DEF WirePrefix, HandlerAfterData, GracefulCloseSendsAll
<1>10. LayoutInv
  <2> DEFINE z == [a \in Nat |-> 0]
  <2>1. z \in [Nat -> Nat] /\ z[1] = 0 /\ \A a \in 1..1 : z[a] = 0
    OBVIOUS
  <2> HIDE DEF z
  <2>2. Mono(z, 1, 1)
    BY <2>1 DEF Mono
  <2>3. Offsets(z)
    BY <1>1, <1>6, <2>1, <2>2 DEF Offsets
  <2>4. BufferOffsets(z)
    <3>1. Len(bsq) + 1 = 1 /\ Len(out) = 0
      BY <1>1, <1>6
    <3> QED
      BY <1>1, <1>6, <3>1, <2>1, <2>2 DEF BufferOffsets
  <2>5. LastData(z)
    BY <1>1, <1>6, <2>1 DEF LastData
  <2>6. Contents(z, z)
    BY <1>1, <1>6 DEF Contents
  <2>7. Layout(z, z)
    BY <2>3, <2>4, <2>5, <2>6 DEF Layout
  <2> QED
    BY <2>1, <2>7, Zenon DEF LayoutInv
<1> QED
  BY <1>2, <1>4, <1>5, <1>7, <1>8, <1>9, <1>10 DEF ConnInv, BaseInv, DataInv

(* The inductive invariant of a connection.                                *)
LEMMA ConnInvariant == Spec => []ConnInv
<1>1. Init => ConnInv
  BY ConnInit
<1>2. ConnInv /\ [Next]_vars => ConnInv'
  BY BaseNext, DataNext DEF ConnInv, DataInv
<1> QED
  BY <1>1, <1>2, PTL DEF Spec

(* Write stays enabled while anything is queued on an open connection      *)
(* (enable_write() and disable_write() in connection.cc).                  *)
THEOREM WriteStaysArmed == Spec => []WriteArmed
<1>1. ConnInv => WriteArmed
  BY DEF ConnInv, BaseInv, OpInv
<1> QED
  BY <1>1, ConnInvariant, PTL

(* The peer gets the accepted bytes in the order of the calls, and the     *)
(* ids of what is pending are those from next_id to send_id (send(),       *)
(* send_file() and handle_write()).                                        *)
THEOREM BytesInOrder == Spec => []SentInOrder
<1>1. ASSUME ConnInv PROVE TypeOK
  BY <1>1 DEF ConnInv, BaseInv, ThreadType, OpInv, OpType, TypeOK
<1>2. ASSUME ConnInv PROVE WireInOrder
  <2>0. OpType /\ WirePrefix
    BY <1>2 DEF ConnInv, BaseInv, OpInv, DataInv
  <2> SUFFICES ASSUME ~blocked PROVE IsPrefixOf(wire, accepted)
    BY DEF WireInOrder
  <2>1. wire \in Seq(Unit) /\ accepted \in Seq(Unit) /\ Len(wire) \in Nat /\ Len(accepted) \in Nat
    BY <2>0 DEF OpType
  <2>2. Len(wire) <= Len(accepted) /\ \A j \in 1..Len(wire) : wire[j] = accepted[j]
    BY <2>0 DEF WirePrefix
  <2>3. Len(wire) \in 0..Len(accepted)
    BY <2>1, <2>2
  <2> DEFINE s == SubSeq(accepted, 1, Len(wire))
  <2>4. s \in Seq(Unit) /\ Len(s) = Len(wire) /\ \A j \in 1..Len(wire) : s[j] = accepted[j]
    BY <2>1, <2>3, Cut
  <2> HIDE DEF s
  <2>5. \A j \in 1..Len(wire) : wire[j] = s[j]
    BY <2>2, <2>4, Zenon
  <2>6. wire = s
    BY <2>1, <2>4, <2>5, SameUnits, Zenon
  <2> QED
    BY <2>2, <2>6 DEF IsPrefixOf, s
<1>3. ASSUME ConnInv PROVE PendingIdsContiguous
  <2>1. IdsInv
    BY <1>3 DEF ConnInv, DataInv
  <2>2. Len(bsq) + Len(sfq) + Len(schq) = send_id - next_id
    BY <2>1 DEF IdsInv, Ids
  <2> DEFINE r == next_id..(send_id - 1)
  <2>a. ASSUME NEW a \in r
        PROVE  \/ \E i \in 1..Len(bsq) : bsq[i].id = a
               \/ \E i \in 1..Len(sfq) : sfq[i].id = a
               \/ \E i \in 1..Len(schq) : schq[i].id = a
    BY <2>1 DEF IdsInv, Ids
  <2>i. /\ \A i \in 1..Len(bsq) : bsq[i].id \in r
        /\ \A i \in 1..Len(sfq) : sfq[i].id \in r
        /\ \A i \in 1..Len(schq) : schq[i].id \in r
    BY <2>1, Zenon DEF IdsInv, Ids
  <2> HIDE DEF r
  <2>3. ASSUME NEW a \in r PROVE a \in QueueIds
    BY <2>a, Zenon DEF QueueIds
  <2>4. \A a \in QueueIds : a \in r
    BY <2>i DEF QueueIds
  <2>5. QueueIds = next_id..(send_id - 1)
    BY <2>3, <2>4, Zenon DEF r
  <2> QED
    BY <2>2, <2>5 DEF PendingIdsContiguous
<1>4. ConnInv => SentInOrder
  BY <1>1, <1>2, <1>3 DEF SentInOrder
<1> QED
  BY <1>4, ConnInvariant, PTL

(* A send-complete handler is called behind the data sent before it was    *)
(* set, in the order set, and the close handler once.                      *)
THEOREM CallbacksComeInOrder == Spec => []CallbacksInOrder
<1>1. ConnInv => CallbacksInOrder
  BY DEF ConnInv, BaseInv, OpInv, DataInv, CallbacksInOrder
<1> QED
  BY <1>1, ConnInvariant, PTL

(* A connection that was closed by close(), and not by an end of file or   *)
(* an error, has sent all it accepted.                                     *)
THEOREM CloseSendsAll == Spec => []GracefulCloseSendsAll
<1>1. ConnInv => GracefulCloseSendsAll
  BY DEF ConnInv, DataInv
<1> QED
  BY <1>1, ConnInvariant, PTL
=============================================================================
