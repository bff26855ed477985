------------------------------ MODULE Connection ------------------------------
(***************************************************************************)
(* One TCP connection: src/connection.cc and include/angel/connection.h,   *)
(* its sending side and its way from Connected to Closed.                  *)
(*                                                                         *)
(* All handlers run on the loop thread of the connection; calls from other *)
(* threads are functors of that loop, called in the order queued (what     *)
(* EvLoop shows).  handle_write() is split at the points where it moves    *)
(* from one queue to the next, because a send-complete handler is user     *)
(* code and may call back.  A byte stream or a file is a sequence of Size  *)
(* units <<k, i>>, k being the number of the call that sends it.  The idle *)
(* TTL is in module ConnTtl: here its expiry is one more call of close().  *)
(***************************************************************************)
EXTENDS Integers, Sequences

CONSTANTS MaxCalls,         \* bound: send, send_file and set_send_complete_handler calls
          MaxCloses,        \* bound: close and close_wait calls
          Size,             \* units in a byte stream or a file
          HighWaterMark     \* units of output_buf that trigger the handler, 0 for none

ASSUME ConnectionAssumption ==
    /\ MaxCalls \in Nat /\ MaxCloses \in Nat
    /\ Size \in Nat \ {0} /\ HighWaterMark \in Nat

VARIABLES pc,          \* the loop thread: "idle", in user code, or in handle_write()
          state,       \* connection::state
          chan,        \* the channel: "open", "disabled" by remove(), "erased"
          writing,     \* channel->is_writing()
          out,         \* output_buf
          bsq,         \* byte_stream_queue: ids and lengths
          sfq,         \* send_file_queue: ids and what is left of the file
          schq,        \* send_complete_handler_queue: ids and calls
          send_id, next_id,
          functors,    \* functors of the loop that concern this connection
          wire,        \* what the kernel has taken, in order
          ncalls, ncloses,
          waiters,     \* the close_wait() calls whose threads are blocked
          accepted,    \* history: the units of the sends the connection accepted
          mark,        \* history: per send-complete handler, Len(accepted) when set
          handled,     \* history: send-complete handlers called, in order
          closes,      \* history: calls of close_handler
          failed,      \* history: closed by end of file or an error
          blocked      \* history: a direct write reported EAGAIN

sendVars == <<writing, out, bsq, sfq, schq, send_id, next_id, wire>>
histVars == <<accepted, mark, handled>>
closeVars == <<state, chan, closes, failed>>
callVars == <<ncalls, ncloses, waiters>>
vars == <<pc, sendVars, histVars, closeVars, callVars, functors, blocked>>

Calls == 1..MaxCalls
Unit == Nat \X Nat
Units(k) == [i \in 1..Size |-> <<k, i>>]
Junk == <<0, 0>>   \* the byte in front of the caller's data

Functor == [op : {"send", "file", "handler", "close", "close_wait", "erase", "hwm"},
            k : Nat]

(* The entries of the three queues.                                        *)
ByteStream == [id : Nat, len : Nat]
SendFile == [id : Nat, rest : Seq(Unit)]
SendComplete == [id : Nat, k : Calls]

Init ==
    /\ pc = "idle" /\ state = "Connected" /\ chan = "open" /\ writing = FALSE
    /\ out = <<>> /\ bsq = <<>> /\ sfq = <<>> /\ schq = <<>>
    /\ send_id = 1 /\ next_id = 1
    /\ functors = <<>> /\ wire = <<>>
    /\ ncalls = 0 /\ ncloses = 0 /\ waiters = {}
    /\ accepted = <<>> /\ mark = [k \in Calls |-> 0] /\ handled = <<>>
    /\ closes = 0 /\ failed = FALSE /\ blocked = FALSE

is_closed == state = "Closed"
send_queue_is_empty == bsq = <<>> /\ sfq = <<>>

-----------------------------------------------------------------------------
(* The end of handle_close(): remove() disables the channel at once and    *)
(* queues its erase behind the functors q, then the close handler runs.    *)
CloseNow(q, failure) ==
    /\ state' = "Closed"
    /\ chan' = "disabled" /\ writing' = FALSE
    /\ functors' = Append(q, [op |-> "erase", k |-> 0])
    /\ closes' = closes + 1
    /\ failed' = failure

(* handle_close(false) with the functors q left in the loop.               *)
handle_close_now(q) ==           \* mutant: does not look at the queues
    /\ IF is_closed THEN functors' = q /\ UNCHANGED <<closeVars, writing>> ELSE CloseNow(q, FALSE)
    /\ UNCHANGED <<out, bsq, sfq, schq, send_id, next_id, wire>>

handle_close(q) ==
    /\ \/ /\ is_closed
          /\ functors' = q
          /\ UNCHANGED <<closeVars, writing>>
       \/ /\ ~is_closed /\ ~send_queue_is_empty
          /\ state' = "Closing"
          /\ functors' = q
          /\ UNCHANGED <<chan, closes, failed, writing>>
       \/ /\ ~is_closed /\ send_queue_is_empty
          /\ CloseNow(q, FALSE)
    /\ UNCHANGED <<out, bsq, sfq, schq, send_id, next_id, wire>>

(* What send_in_loop() keeps for handle_write().                           *)
Enqueue(rest, q) ==
    IF rest = <<>>
      THEN functors' = q /\ UNCHANGED <<out, bsq, send_id, writing>>
      ELSE /\ out' = out \o rest
           /\ bsq' = Append(bsq, [id |-> send_id, len |-> Len(rest)])
           /\ send_id' = send_id + 1
           /\ writing' = TRUE
           /\ functors' = IF HighWaterMark > 0 /\ Len(out') >= HighWaterMark
                            THEN Append(q, [op |-> "hwm", k |-> 0]) ELSE q

(* The direct ::write() takes n units; or EAGAIN (what was written before  *)
(* fills the socket buffer), n = -1, and what is queued starts at data - 1;*)
(* or an error closes the connection.                                      *)
DirectSend(u, q) ==
    \/ \E n \in 1..Size :
          /\ wire' = wire \o SubSeq(u, 1, n)
          /\ Enqueue(SubSeq(u, n + 1, Size), q)
          /\ UNCHANGED <<closeVars, blocked>>
    \/ /\ wire # <<>>
       /\ Enqueue(<<Junk>> \o SubSeq(u, 1, Size - 1), q)
       /\ blocked' = TRUE
       /\ UNCHANGED <<wire, closeVars>>
    \/ CloseNow(q, TRUE) /\ UNCHANGED <<wire, out, bsq, send_id, blocked>>

(* A refused call is logged.                                               *)
Refuse(q) ==
    /\ functors' = q
    /\ UNCHANGED <<sendVars, histVars, closeVars, blocked>>

send_in_loop_direct(k, q) ==     \* mutant: writes directly past what is queued
    \/ is_closed /\ Refuse(q)
    \/ /\ ~is_closed
       /\ accepted' = accepted \o Units(k)
       /\ DirectSend(Units(k), q)
       /\ UNCHANGED <<sfq, schq, next_id, mark, handled>>

send_in_loop(k, q) ==
    \/ is_closed /\ Refuse(q)
    \/ /\ ~is_closed
       /\ accepted' = accepted \o Units(k)
       /\ IF ~writing /\ send_queue_is_empty
            THEN DirectSend(Units(k), q)
            ELSE Enqueue(Units(k), q) /\ UNCHANGED <<wire, closeVars, blocked>>
       /\ UNCHANGED <<sfq, schq, next_id, mark, handled>>

(* send_file_in_loop(): the same shape, offset and count instead of data.  *)
EnqueueFile(rest, q) ==
    /\ functors' = q
    /\ IF rest = <<>>
         THEN UNCHANGED <<sfq, send_id, writing>>
         ELSE /\ sfq' = Append(sfq, [id |-> send_id, rest |-> rest])
              /\ send_id' = send_id + 1
              /\ writing' = TRUE

DirectSendFile(u, q) ==
    \/ \E n \in 0..Size :
          /\ wire' = wire \o SubSeq(u, 1, n)
          /\ EnqueueFile(SubSeq(u, n + 1, Size), q)
          /\ UNCHANGED closeVars
    \/ CloseNow(q, TRUE) /\ UNCHANGED <<wire, sfq, send_id>>

send_file_in_loop(k, q) ==
    \/ is_closed /\ Refuse(q)
    \/ /\ ~is_closed
       /\ accepted' = accepted \o Units(k)
       /\ IF ~writing /\ send_queue_is_empty
            THEN DirectSendFile(Units(k), q)
            ELSE EnqueueFile(Units(k), q) /\ UNCHANGED <<wire, closeVars>>
       /\ UNCHANGED <<out, bsq, schq, next_id, mark, handled, blocked>>

(* set_send_complete_handler(): no test of the state; enable_write() works *)
(* on the channel whatever has become of it.                               *)
set_send_complete_handler(k, q) ==
    /\ schq' = Append(schq, [id |-> send_id, k |-> k])
    /\ send_id' = send_id + 1
    /\ writing' = TRUE
    /\ mark' = [mark EXCEPT ![k] = Len(accepted)]
    /\ functors' = q
    /\ UNCHANGED <<out, bsq, sfq, next_id, wire, accepted, handled, closeVars, blocked>>

-----------------------------------------------------------------------------
(* The public calls.  On the loop thread, from a callback or a functor of  *)
(* the user, they take effect at once; from another thread they are queued.*)
InUserCode == pc \in {"idle", "message", "complete"}

CallInLoop ==
    /\ InUserCode /\ ncalls < MaxCalls
    /\ ncalls' = ncalls + 1
    /\ \/ send_in_loop(ncalls', functors)
       \/ send_file_in_loop(ncalls', functors)
       \/ set_send_complete_handler(ncalls', functors)
    /\ UNCHANGED <<pc, ncloses, waiters>>

CallFromOther ==
    /\ ncalls < MaxCalls
    /\ ncalls' = ncalls + 1
    /\ \E op \in {"send", "file", "handler"} :
          functors' = Append(functors, [op |-> op, k |-> ncalls'])
    /\ UNCHANGED <<pc, sendVars, histVars, closeVars, ncloses, waiters, blocked>>

(* close(), close_wait() or the TTL timer on the loop thread.              *)
CloseInLoop ==
    /\ InUserCode /\ ncloses < MaxCloses
    /\ ncloses' = ncloses + 1
    /\ handle_close(functors)
    /\ UNCHANGED <<pc, histVars, ncalls, waiters, blocked>>

CloseFromOther ==
    /\ ncloses < MaxCloses
    /\ ncloses' = ncloses + 1
    /\ functors' = Append(functors, [op |-> "close", k |-> 0])
    /\ UNCHANGED <<pc, sendVars, histVars, closeVars, ncalls, waiters, blocked>>

CloseWaitFromOther_silent ==     \* mutant: the functor does not notify
    /\ ncloses < MaxCloses /\ ncloses' = ncloses + 1
    /\ functors' = Append(functors, [op |-> "close", k |-> 0])
    /\ waiters' = waiters \cup {ncloses'}
    /\ UNCHANGED <<pc, sendVars, histVars, closeVars, ncalls, blocked>>

CloseWaitFromOther ==
    /\ ncloses < MaxCloses
    /\ ncloses' = ncloses + 1
    /\ functors' = Append(functors, [op |-> "close_wait", k |-> ncloses'])
    /\ waiters' = waiters \cup {ncloses'}
    /\ UNCHANGED <<pc, sendVars, histVars, closeVars, ncalls, blocked>>

(* The loop calls the next functor.                                        *)
RunFunctor ==
    /\ pc = "idle" /\ functors # <<>>
    /\ LET f == Head(functors)
           q == Tail(functors)
       IN \/ f.op = "send" /\ send_in_loop(f.k, q) /\ UNCHANGED waiters
          \/ f.op = "file" /\ send_file_in_loop(f.k, q) /\ UNCHANGED waiters
          \/ f.op = "handler" /\ set_send_complete_handler(f.k, q) /\ UNCHANGED waiters
          \/ /\ f.op \in {"close", "close_wait"}
             /\ handle_close(q)
             /\ waiters' = IF f.op = "close_wait" THEN waiters \ {f.k} ELSE waiters
             /\ UNCHANGED <<histVars, blocked>>
          \/ /\ f.op = "erase"
             /\ chan' = "erased" /\ writing' = FALSE
             /\ functors' = q
             /\ UNCHANGED <<out, bsq, sfq, schq, send_id, next_id, wire, histVars,
                            state, closes, failed, waiters, blocked>>
          \/ /\ f.op = "hwm"
             /\ functors' = q
             /\ UNCHANGED <<sendVars, histVars, closeVars, waiters, blocked>>
    /\ UNCHANGED <<pc, ncalls, ncloses>>

-----------------------------------------------------------------------------
(* handle_read(): a message for the user, end of file, or an error.  The   *)
(* channel has no handlers any more once remove() was called.              *)
ReadMessage ==
    /\ pc = "idle" /\ chan = "open"
    /\ pc' = "message"
    /\ UNCHANGED <<sendVars, histVars, closeVars, callVars, functors, blocked>>

EndMessage ==
    /\ pc = "message"
    /\ pc' = "idle"
    /\ UNCHANGED <<sendVars, histVars, closeVars, callVars, functors, blocked>>

(* n = 0 and errors other than EAGAIN, of read(2) or reported by the       *)
(* dispatcher (handle_error() as the error handler).                       *)
ReadEnd ==
    /\ pc = "idle" /\ chan = "open"
    /\ CloseNow(functors, TRUE)
    /\ UNCHANGED <<pc, out, bsq, sfq, schq, send_id, next_id, wire, histVars,
                   callVars, blocked>>

(* handle_write() starts when the descriptor is writable and Write is      *)
(* enabled, ...                                                            *)
HandleWrite ==
    /\ pc = "idle" /\ chan = "open" /\ writing
    /\ pc' = "bytes"
    /\ UNCHANGED <<sendVars, histVars, closeVars, callVars, functors, blocked>>

(* ... writes from output_buf if a byte stream is next: some units, none   *)
(* (EAGAIN), or an error closes the connection and ends the handler; ...   *)
BytesNext == bsq # <<>> /\ Head(bsq).id = next_id

TakeBytes(n) ==
    /\ wire' = wire \o SubSeq(out, 1, n)
    /\ out' = SubSeq(out, n + 1, Len(out))
    /\ IF n = Head(bsq).len
         THEN bsq' = Tail(bsq) /\ next_id' = next_id + 1
         ELSE bsq' = [bsq EXCEPT ![1].len = @ - n] /\ UNCHANGED next_id

WriteBytes ==
    /\ pc = "bytes" /\ BytesNext
    /\ \E n \in 1..Head(bsq).len : TakeBytes(n)
    /\ pc' = "file"
    /\ UNCHANGED <<writing, sfq, schq, send_id, histVars, closeVars, callVars,
                   functors, blocked>>

WriteNoBytes ==
    /\ pc = "bytes"
    /\ pc' = "file"
    /\ UNCHANGED <<sendVars, histVars, closeVars, callVars, functors, blocked>>

(* ... then from the file if one is next, ...                              *)
FileNext == sfq # <<>> /\ Head(sfq).id = next_id

WriteFile ==
    /\ pc = "file" /\ FileNext
    /\ LET rest == Head(sfq).rest
       IN  \E n \in 1..Len(rest) :
              /\ wire' = wire \o SubSeq(rest, 1, n)
              /\ IF n = Len(rest)
                   THEN sfq' = Tail(sfq) /\ next_id' = next_id + 1
                   ELSE /\ sfq' = [sfq EXCEPT ![1].rest = SubSeq(rest, n + 1, Len(rest))]
                        /\ UNCHANGED next_id
    /\ pc' = "handlers"
    /\ UNCHANGED <<writing, out, bsq, schq, send_id, histVars, closeVars, callVars,
                   functors, blocked>>

WriteNoFile ==
    /\ pc = "file"
    /\ pc' = "handlers"
    /\ UNCHANGED <<sendVars, histVars, closeVars, callVars, functors, blocked>>

WriteError ==
    /\ (pc = "bytes" /\ BytesNext) \/ (pc = "file" /\ FileNext)
    /\ CloseNow(functors, TRUE)
    /\ pc' = "idle"
    /\ UNCHANGED <<out, bsq, sfq, schq, send_id, next_id, wire, histVars, callVars,
                   blocked>>

(* ... then calls the send-complete handler if it is next, ...             *)
HandlerNext_any == schq # <<>>   \* mutant: does not wait for the data before it

HandlerNext == schq # <<>> /\ Head(schq).id = next_id

CallHandler ==
    /\ pc = "handlers" /\ HandlerNext
    /\ handled' = Append(handled, Head(schq).k)
    /\ pc' = "complete"
    /\ UNCHANGED <<sendVars, accepted, mark, closeVars, callVars, functors, blocked>>

EndHandler ==
    /\ pc = "complete"
    /\ schq' = Tail(schq)
    /\ next_id' = next_id + 1
    /\ pc' = "end"
    /\ UNCHANGED <<writing, out, bsq, sfq, send_id, wire, histVars, closeVars, callVars,
                   functors, blocked>>

CallNoHandler ==
    /\ pc = "handlers" /\ ~HandlerNext
    /\ pc' = "end"
    /\ UNCHANGED <<sendVars, histVars, closeVars, callVars, functors, blocked>>

(* ... and, with nothing left, disables Write and finishes a graceful      *)
(* close.                                                                  *)
EndWrite_idle ==                 \* mutant: handlers do not keep Write enabled
    /\ pc = "end" /\ pc' = "idle"
    /\ IF send_queue_is_empty
         THEN IF state = "Closing" THEN CloseNow(functors, FALSE)
              ELSE writing' = FALSE /\ UNCHANGED <<closeVars, functors>>
         ELSE UNCHANGED <<writing, closeVars, functors>>
    /\ UNCHANGED <<out, bsq, sfq, schq, send_id, next_id, wire, histVars, callVars, blocked>>

EndWrite ==
    /\ pc = "end"
    /\ IF send_queue_is_empty /\ schq = <<>>
         THEN IF state = "Closing"
                THEN CloseNow(functors, FALSE)
                ELSE writing' = FALSE /\ UNCHANGED <<closeVars, functors>>
         ELSE UNCHANGED <<writing, closeVars, functors>>
    /\ pc' = "idle"
    /\ UNCHANGED <<out, bsq, sfq, schq, send_id, next_id, wire, histVars, callVars,
                   blocked>>

Progress == WriteBytes \/ WriteFile

LoopStep ==
    \/ RunFunctor \/ EndMessage \/ HandleWrite \/ Progress
    \/ WriteNoBytes \/ WriteNoFile \/ CallHandler \/ CallNoHandler
    \/ EndHandler \/ EndWrite

Next ==
    \/ LoopStep \/ ReadMessage \/ ReadEnd \/ WriteError
    \/ CallInLoop \/ CallFromOther
    \/ CloseInLoop \/ CloseFromOther \/ CloseWaitFromOther

Spec == Init /\ [][Next]_vars

(* The loop runs on: it calls its functors and the write handler of a      *)
(* writable descriptor again and again, user callbacks return, and a peer  *)
(* that keeps reading lets write(2) make progress again and again.         *)
FairSpec ==
    /\ Spec
    /\ WF_vars(LoopStep)
    /\ SF_vars(RunFunctor) /\ SF_vars(HandleWrite)
    /\ SF_vars(WriteBytes) /\ SF_vars(WriteFile)

-----------------------------------------------------------------------------
TypeOK ==
    /\ pc \in {"idle", "message", "bytes", "file", "handlers", "complete", "end"}
    /\ state \in {"Connected", "Closing", "Closed"}
    /\ chan \in {"open", "disabled", "erased"}
    /\ writing \in BOOLEAN
    /\ out \in Seq(Unit) /\ wire \in Seq(Unit) /\ accepted \in Seq(Unit)
    /\ bsq \in Seq(ByteStream)
    /\ sfq \in Seq(SendFile)
    /\ schq \in Seq(SendComplete)
    /\ send_id \in Nat /\ next_id \in Nat
    /\ functors \in Seq(Functor)
    /\ ncalls \in 0..MaxCalls /\ ncloses \in 0..MaxCloses
    /\ waiters \subseteq 1..MaxCloses
    /\ mark \in [Calls -> Nat] /\ handled \in Seq(Calls)
    /\ closes \in Nat /\ failed \in BOOLEAN /\ blocked \in BOOLEAN

IsPrefixOf(s, t) == Len(s) <= Len(t) /\ s = SubSeq(t, 1, Len(s))

(* The peer gets the bytes of send() and send_file() in the order of the   *)
(* calls, none twice, none missing, none added, whether they were written  *)
(* directly, from output_buf or by sendfile(2), unless a direct write      *)
(* reported EAGAIN (see PeerGetsWhatWasSent).                              *)
WireInOrder == ~blocked => IsPrefixOf(wire, accepted)

(* connection.cc:91-92, "handle_write() is responsible for sending the     *)
(* unsent data to the peer": also when the direct write sent none of it.   *)
PeerGetsWhatWasSent == IsPrefixOf(wire, accepted)

(* connection.h:71-73: a close() with unsent data closes "after sending":  *)
(* without an error or an end of file nothing accepted is lost.            *)
GracefulCloseSendsAll == is_closed /\ ~failed /\ ~blocked => wire = accepted

(* connection.h:30: a send-complete handler runs after all data sent       *)
(* before it was set is out, and handlers run in the order set.            *)
HandlerAfterData ==
    /\ \A i \in 1..Len(handled) : Len(wire) >= mark[handled[i]]
    /\ \A i, j \in 1..Len(handled) : i < j => mark[handled[i]] <= mark[handled[j]]

QueueIds == {bsq[i].id : i \in 1..Len(bsq)} \cup {sfq[i].id : i \in 1..Len(sfq)}
            \cup {schq[i].id : i \in 1..Len(schq)}

(* The three queues share the ids from next_id on: each pending id is in   *)
(* exactly one queue, so the entry handle_write() waits for exists and the *)
(* connection cannot stall on an id nobody holds.                          *)
PendingIdsContiguous ==
    /\ QueueIds = next_id..(send_id - 1)
    /\ Len(bsq) + Len(sfq) + Len(schq) = send_id - next_id

(* Whatever is queued on an open connection has the write event enabled,   *)
(* or handle_write() would never be called for it; inside handle_write()   *)
(* too.                                                                    *)
WriteArmed ==
    ~is_closed /\ (~send_queue_is_empty \/ schq # <<>>) => writing

(* The close handler is called once, when the connection becomes Closed,   *)
(* however many of close(), end of file and write errors meet.             *)
ClosedOnce == closes = IF is_closed THEN 1 ELSE 0

(* A connection that is Closing gets Closed, if the peer reads on, and     *)
(* also if more is sent meanwhile.                                         *)
ClosingEnds == (state = "Closing") ~> is_closed

(* close_wait() returns to each of its callers.                            *)
CloseWaitReturns == \A c \in 1..MaxCloses : (c \in waiters) ~> (c \notin waiters)

(* The three queues of a connection reproduce the order of the calls, on   *)
(* the wire and in their ids (connection.cc:91-236).                       *)
SentInOrder == TypeOK /\ WireInOrder /\ PendingIdsContiguous

(* The callbacks of a connection come when they should: send-complete      *)
(* handlers behind their data, the close handler once.                     *)
CallbacksInOrder == HandlerAfterData /\ ClosedOnce

(* close() and close_wait() come to an end.                                *)
CloseEnds == ClosingEnds /\ CloseWaitReturns
=============================================================================
