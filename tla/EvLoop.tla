------------------------------- MODULE EvLoop -------------------------------
(***************************************************************************)
(* The event loop of angel: src/evloop.cc, include/angel/evloop.h and the  *)
(* part of src/channel.cc that enters and leaves a loop.                   *)
(*                                                                         *)
(* One thread runs evloop::run(); any thread may call queue_in_loop(),     *)
(* channel::add(), channel::remove() and quit().  Every region of the code *)
(* under evloop::mtx, every one-byte read or write of wake_pair and every  *)
(* call of user code is a step of its own.  A user callback (an event      *)
(* handler, a timer callback or a queued functor) is the loop thread being *)
(* at "handler", "timers" or "functor": while it is there it may itself    *)
(* call the loop, until an End... action returns from the callback.        *)
(***************************************************************************)
EXTENDS Integers, Sequences, FiniteSets

CONSTANTS Chans,      \* the channels user code may add, one file descriptor each
          Wake,       \* wake_channel, reading wake_pair[0]
          MaxTasks,   \* bound: user functors queued in one behaviour
          MaxQuits    \* bound: calls of quit() in one behaviour

ASSUME ConstantsAssumption ==
    /\ Wake \notin Chans
    /\ MaxTasks \in Nat
    /\ MaxQuits \in Nat

VARIABLES pc,          \* where the loop thread is in run()
          is_quit,     \* evloop::is_quit, loop thread only
          functors,    \* evloop::functors, protected by mtx
          batch,       \* the local tfuncs of do_functors(), from the next one on
          pipe,        \* the bytes in wake_pair, in the order written
          active,      \* active_channels not yet done with (any order)
          cur,         \* the channel whose handler is running, else Wake
          channel_map, \* the channels the loop owns
          filter,      \* the channels registered with the dispatcher
          life,        \* per channel, how far its add()/remove() calls are
          ready,       \* channels whose descriptor the kernel reports ready
          due,         \* some timer of the loop has expired
          ntasks,      \* history: user functors queued so far
          ran,         \* history: user functors called, in order
          nquits       \* history: calls of quit()

vars == <<pc, is_quit, functors, batch, pipe, active, cur, channel_map, filter,
          life, ready, due, ntasks, ran, nquits>>
chanVars == <<channel_map, filter, life>>

PCs == {"init", "wait", "dispatch", "handler", "timers", "swap", "exec",
        "functor", "drain", "done"}

(* "half": another thread is inside remove(), between its two calls;       *)
(* "gone": remove() was called on the loop thread.                         *)
Lives == {"new", "added", "half", "removed", "gone"}

Functor == [op : {"task"}, arg : Nat] \cup [op : {"add", "disable", "erase"}, arg : Chans]

(* The loop thread is in user code (or has not called run() yet) and may   *)
(* call into the loop.                                                     *)
InUserCode == pc \in {"init", "handler", "timers", "functor"}

Init ==
    /\ pc = "init"
    /\ is_quit = FALSE
    /\ functors = <<>> /\ batch = <<>> /\ pipe = <<>>
    /\ active = {} /\ cur = Wake
    /\ channel_map = {} /\ filter = {}
    /\ life = [c \in Chans |-> "new"]
    /\ ready = {}
    /\ due = FALSE
    /\ ntasks = 0 /\ ran = <<>> /\ nquits = 0

-----------------------------------------------------------------------------
(* queue_in_loop(): the push and the wake-up byte are one region under mtx; *)
(* only the functor that makes the queue non-empty writes the byte.         *)
queue_in_loop_batch(f) ==        \* mutant: no byte while a batch is running
    /\ functors' = Append(functors, f)
    /\ pipe' = IF functors = <<>> /\ pc # "functor" THEN Append(pipe, 0) ELSE pipe

queue_in_loop(f) ==
    /\ functors' = Append(functors, f)
    /\ pipe' = IF Len(functors') = 1 THEN Append(pipe, 0) ELSE pipe

(* Any thread, the loop thread in a callback included, queues a functor.   *)
Post ==
    /\ ntasks < MaxTasks
    /\ ntasks' = ntasks + 1
    /\ queue_in_loop([op |-> "task", arg |-> ntasks + 1])
    /\ UNCHANGED <<pc, is_quit, batch, active, cur, chanVars, ready, due, ran, nquits>>

(* quit() writes the byte 1, from any thread and at any time.              *)
Quit ==
    /\ nquits < MaxQuits
    /\ nquits' = nquits + 1
    /\ pipe' = Append(pipe, 1)
    /\ UNCHANGED <<pc, is_quit, functors, batch, active, cur, chanVars, ready, due,
                   ntasks, ran>>

-----------------------------------------------------------------------------
(* channel::add() goes through run_in_loop(): inline on the loop thread,   *)
(* queued from any other.                                                  *)
AddInLoop(c) ==
    /\ InUserCode /\ life[c] = "new"
    /\ life' = [life EXCEPT ![c] = "added"]
    /\ channel_map' = channel_map \cup {c}
    /\ filter' = filter \cup {c}
    /\ UNCHANGED <<pc, is_quit, functors, batch, pipe, active, cur, ready, due,
                   ntasks, ran, nquits>>

AddFromOther(c) ==
    /\ life[c] = "new"
    /\ life' = [life EXCEPT ![c] = "added"]
    /\ queue_in_loop([op |-> "add", arg |-> c])
    /\ UNCHANGED <<pc, is_quit, batch, active, cur, channel_map, filter, ready, due,
                   ntasks, ran, nquits>>

(* channel::remove() on the loop thread: disable_all() inline, the erase   *)
(* queued.  The caller owns a channel the loop already holds.              *)
RemoveInLoop_erase(c) ==         \* mutant: erases at once
    /\ InUserCode /\ life[c] = "added" /\ c \in channel_map
    /\ life' = [life EXCEPT ![c] = "gone"]
    /\ filter' = filter \ {c} /\ channel_map' = channel_map \ {c}
    /\ UNCHANGED <<pc, is_quit, functors, pipe, batch, active, cur, ready, due,
                   ntasks, ran, nquits>>

RemoveInLoop(c) ==
    /\ InUserCode /\ life[c] = "added" /\ c \in channel_map
    /\ life' = [life EXCEPT ![c] = "gone"]
    /\ filter' = filter \ {c}
    /\ queue_in_loop([op |-> "erase", arg |-> c])
    /\ UNCHANGED <<pc, is_quit, batch, active, cur, channel_map, ready, due,
                   ntasks, ran, nquits>>

(* channel::remove() on another thread queues two functors, one at a time. *)
RemoveFromOther1(c) ==
    /\ life[c] = "added"
    /\ life' = [life EXCEPT ![c] = "half"]
    /\ queue_in_loop([op |-> "disable", arg |-> c])
    /\ UNCHANGED <<pc, is_quit, batch, active, cur, channel_map, filter, ready, due,
                   ntasks, ran, nquits>>

RemoveFromOther2(c) ==
    /\ life[c] = "half"
    /\ life' = [life EXCEPT ![c] = "removed"]
    /\ queue_in_loop([op |-> "erase", arg |-> c])
    /\ UNCHANGED <<pc, is_quit, batch, active, cur, channel_map, filter, ready, due,
                   ntasks, ran, nquits>>

-----------------------------------------------------------------------------
(* run() starts by clearing is_quit: a quit() called before is not lost,   *)
(* its byte waits in wake_pair.                                            *)
Run ==
    /\ pc = "init"
    /\ is_quit' = FALSE
    /\ pc' = "wait"
    /\ UNCHANGED <<functors, batch, pipe, active, cur, chanVars, ready, due,
                   ntasks, ran, nquits>>

(* What dispatcher->wait() finds: the registered descriptors that are      *)
(* ready, and wake_pair[0] while a byte is in it.                          *)
Reported == (filter \cap ready) \cup (IF pipe = <<>> THEN {} ELSE {Wake})

WaitEvents ==
    /\ pc = "wait" /\ Reported # {}
    /\ active' = Reported
    /\ pc' = "dispatch"
    /\ UNCHANGED <<cur, is_quit, functors, batch, pipe, chanVars, ready, due,
                   ntasks, ran, nquits>>

(* wait() returns 0: the timeout computed from the earliest timer is over. *)
WaitTimeout ==
    /\ pc = "wait" /\ Reported = {} /\ due
    /\ pc' = "timers"
    /\ UNCHANGED <<is_quit, functors, batch, pipe, active, cur, chanVars, ready, due,
                   ntasks, ran, nquits>>

(* A signal interrupts a wait() that blocks, so it returns -1 (EINTR) and  *)
(* neither branch of run() is taken.                                       *)
WaitError ==
    /\ pc = "wait" /\ Reported = {} /\ ~due
    /\ pc' = "swap"
    /\ UNCHANGED <<is_quit, functors, batch, pipe, active, cur, chanVars, ready, due,
                   ntasks, ran, nquits>>

-----------------------------------------------------------------------------
(* wakeup_read() takes one byte, whatever else is in the pair.             *)
DispatchWake ==
    /\ pc = "dispatch" /\ Wake \in active
    /\ pipe' = Tail(pipe)
    /\ is_quit' = (is_quit \/ Head(pipe) # 0)
    /\ active' = active \ {Wake}
    /\ UNCHANGED <<cur, pc, functors, batch, chanVars, ready, due, ntasks, ran, nquits>>

(* channel::handle_event(): disable_all() has cleared the handlers of a    *)
(* channel removed since wait() returned.                                  *)
HasHandler_always(c) == TRUE     \* mutant: calls whatever wait() reported

HasHandler(c) == c \in filter

HandleEvent(c) ==
    /\ pc = "dispatch" /\ c \in active /\ c # Wake
    /\ \/ HasHandler(c) /\ pc' = "handler" /\ cur' = c /\ UNCHANGED active
       \/ ~HasHandler(c) /\ active' = active \ {c} /\ UNCHANGED <<pc, cur>>
    /\ UNCHANGED <<is_quit, functors, batch, pipe, chanVars, ready, due,
                   ntasks, ran, nquits>>

(* The handler of cur returns, having taken all the input or not; run() goes *)
(* on to the next element of active_channels.                              *)
EndHandler ==
    /\ pc = "handler"
    /\ pc' = "dispatch"
    /\ active' = active \ {cur}
    /\ cur' = Wake
    /\ ready' \in {ready, ready \ {cur}}
    /\ UNCHANGED <<is_quit, functors, batch, pipe, chanVars, due,
                   ntasks, ran, nquits>>

DispatchDone ==
    /\ pc = "dispatch" /\ active = {}
    /\ pc' = "swap"
    /\ UNCHANGED <<is_quit, functors, batch, pipe, active, cur, chanVars, ready, due,
                   ntasks, ran, nquits>>

(* timer->tick() has called the expired timers.                            *)
EndTimers ==
    /\ pc = "timers"
    /\ due' = FALSE
    /\ pc' = "swap"
    /\ UNCHANGED <<is_quit, functors, batch, pipe, active, cur, chanVars, ready,
                   ntasks, ran, nquits>>

-----------------------------------------------------------------------------
(* do_functors(): the swap under mtx, then the batch without it.           *)
Swap_copy ==                     \* mutant: copies functors, does not clear it
    /\ pc = "swap"
    /\ batch' = functors
    /\ pc' = "exec"
    /\ UNCHANGED <<functors, is_quit, pipe, active, cur, chanVars, ready, due, ntasks,
                   ran, nquits>>

Swap ==
    /\ pc = "swap"
    /\ batch' = functors
    /\ functors' = <<>>
    /\ pc' = "exec"
    /\ UNCHANGED <<is_quit, pipe, active, cur, chanVars, ready, due, ntasks, ran, nquits>>

(* The effect of a functor of channel::add() or channel::remove() ...      *)
ChannelFunctor(f) ==
    /\ channel_map' = CASE f.op = "add"   -> channel_map \cup {f.arg}
                        [] f.op = "erase" -> channel_map \ {f.arg}
                        [] OTHER          -> channel_map
    /\ filter' = CASE f.op = "add"     -> filter \cup {f.arg}
                   [] f.op = "disable" -> filter \ {f.arg}
                   [] OTHER            -> filter

ExecChannel ==
    /\ pc = "exec" /\ batch # <<>> /\ Head(batch).op # "task"
    /\ ChannelFunctor(Head(batch))
    /\ batch' = Tail(batch)
    /\ UNCHANGED <<pc, is_quit, functors, pipe, active, cur, life, ready, due,
                   ntasks, ran, nquits>>

(* ... and the call of a user functor.                                     *)
ExecTask ==
    /\ pc = "exec" /\ batch # <<>> /\ Head(batch).op = "task"
    /\ ran' = Append(ran, Head(batch).arg)
    /\ batch' = Tail(batch)
    /\ pc' = "functor"
    /\ UNCHANGED <<is_quit, functors, pipe, active, cur, chanVars, ready, due,
                   ntasks, nquits>>

EndFunctor ==
    /\ pc = "functor"
    /\ pc' = "exec"
    /\ UNCHANGED <<is_quit, functors, batch, pipe, active, cur, chanVars, ready, due,
                   ntasks, ran, nquits>>

(* The batch is done: the while condition, or the next turn of the loop    *)
(* after it.                                                               *)
ExecDone_exit ==                 \* mutant: leaves run() without draining
    /\ pc = "exec" /\ batch = <<>>
    /\ pc' = IF is_quit THEN "done" ELSE "wait"
    /\ UNCHANGED <<is_quit, functors, batch, pipe, active, cur, chanVars, ready, due,
                   ntasks, ran, nquits>>

ExecDone ==
    /\ pc = "exec" /\ batch = <<>>
    /\ pc' = IF is_quit THEN "drain" ELSE "wait"
    /\ UNCHANGED <<is_quit, functors, batch, pipe, active, cur, chanVars, ready, due,
                   ntasks, ran, nquits>>

(* The exit loop of run(): the emptiness test is a region of its own.      *)
Drain ==
    /\ pc = "drain"
    /\ pc' = IF functors = <<>> THEN "done" ELSE "swap"
    /\ UNCHANGED <<is_quit, functors, batch, pipe, active, cur, chanVars, ready, due,
                   ntasks, ran, nquits>>

-----------------------------------------------------------------------------
(* The environment: input arrives on a descriptor, time passes.            *)
Arrive(c) ==
    /\ c \notin ready
    /\ ready' = ready \cup {c}
    /\ UNCHANGED <<pc, is_quit, functors, batch, pipe, active, cur, chanVars, due,
                   ntasks, ran, nquits>>

Expire ==
    /\ ~due
    /\ due' = TRUE
    /\ UNCHANGED <<pc, is_quit, functors, batch, pipe, active, cur, chanVars, ready,
                   ntasks, ran, nquits>>

(* The steps of the loop thread itself; returning from a callback is one.  *)
LoopStep ==
    \/ Run \/ WaitEvents \/ WaitTimeout \/ DispatchWake \/ DispatchDone
    \/ \E c \in Chans : HandleEvent(c)
    \/ EndHandler \/ EndTimers \/ Swap \/ ExecChannel \/ ExecTask \/ EndFunctor
    \/ ExecDone \/ Drain

Callers ==
    \/ Post \/ Quit
    \/ \E c \in Chans : \/ AddInLoop(c) \/ AddFromOther(c)
                        \/ RemoveInLoop(c)
                        \/ RemoveFromOther1(c) \/ RemoveFromOther2(c)

Environment == WaitError \/ Expire \/ \E c \in Chans : Arrive(c)

Next == LoopStep \/ Callers \/ Environment

Spec == Init /\ [][Next]_vars

(* The scheduler keeps running the loop thread and its callbacks return;   *)
(* nothing is assumed of the callers or of the environment, except that a  *)
(* thread inside remove() finishes the call.                               *)
FairSpec ==
    /\ Spec
    /\ WF_vars(LoopStep)
    /\ \A c \in Chans : WF_vars(RemoveFromOther2(c))

-----------------------------------------------------------------------------
TypeOK ==
    /\ pc \in PCs
    /\ is_quit \in BOOLEAN
    /\ functors \in Seq(Functor) /\ batch \in Seq(Functor)
    /\ pipe \in Seq({0, 1})
    /\ active \subseteq Chans \cup {Wake} /\ cur \in Chans \cup {Wake}
    /\ channel_map \subseteq Chans /\ filter \subseteq Chans
    /\ life \in [Chans -> Lives]
    /\ ready \subseteq Chans
    /\ due \in BOOLEAN
    /\ ntasks \in Nat /\ ran \in Seq(Nat) /\ nquits \in Nat

(* No lost wake-up.  While the loop thread has not yet passed through      *)
(* dispatcher->wait() again, a non-empty functors has its byte in          *)
(* wake_pair, so wait() cannot block over queued functors, although only   *)
(* the first functor writes a byte (evloop.cc:165-173).                    *)
NoLostWakeup ==
    functors # <<>> /\ pc \in {"init", "wait", "exec", "functor"}
        => pipe # <<>>

(* The reason queue_in_loop() does not write for every functor             *)
(* (evloop.cc:168-170): until a quit is seen, at most two bytes that are   *)
(* not quit()'s are in wake_pair, however many functors are queued, so a   *)
(* writer never blocks on it with mtx held.                                *)
WakePipeBounded == ~is_quit => Len(pipe) <= nquits + 2

(* channel.cc:55-57: run() is never left with a hanging pointer, neither   *)
(* for the channel whose handler is running nor for those still to come.   *)
NoDanglingChannel == active \ {Wake} \subseteq channel_map

(* search_channel() finds every descriptor the dispatcher can report: a    *)
(* registered channel is in channel_map, whichever threads called add()    *)
(* and remove() and in whatever order their functors interleave.           *)
RegisteredIsMapped == filter \subseteq channel_map

(* What is still to be called: the rest of the batch, then functors.       *)
Queued == batch \o functors

(* Functors are called once each and in the order they were queued, over   *)
(* all threads, across the swap of do_functors() and the exit loop: those  *)
(* called are the first ones queued, in order, and every other one is      *)
(* still in the batch or in functors, in order as well.                    *)
CalledInOrder ==
    /\ Len(ran) <= ntasks /\ \A i \in 1..Len(ran) : ran[i] = i
    /\ \A n \in (Len(ran) + 1)..ntasks :
           \E i \in 1..Len(Queued) : Queued[i] = [op |-> "task", arg |-> n]
    /\ \A i \in 1..Len(Queued) :
           Queued[i].op = "task" =>
               /\ Queued[i].arg \in (Len(ran) + 1)..ntasks
               /\ \A j \in 1..(i - 1) : Queued[j].op = "task" => Queued[j].arg < Queued[i].arg

(* After remove() on the loop thread no handler of the channel starts, not *)
(* even for an event wait() had already reported.                          *)
NoCallbackAfterRemove ==
    [][\A c \in Chans : HandleEvent(c) /\ life[c] = "gone" => pc' # "handler"]_vars

(* evloop.cc:80, "Ensure that all tasks are executed when exiting.": what  *)
(* is queued before run() has made its last test of functors is called,    *)
(* quit() or not.                                                          *)
QueuedIsCalled ==
    \A n \in 1..MaxTasks :
        (n <= ntasks /\ pc # "done") ~> (\E i \in 1..Len(ran) : ran[i] = n)

(* evloop.h:33-38: run() returns after quit(), also when quit() came       *)
(* before run(), whose first statement clears is_quit, and also while      *)
(* descriptors stay ready.                                                 *)
QuitEnds == (nquits > 0) ~> (pc = "done")

(* The wake-up protocol of queue_in_loop(), evloop.cc:165-173: a byte for  *)
(* every batch that needs one, and never a flood of them.                  *)
WakesUp == NoLostWakeup /\ WakePipeBounded

(* The pointers the loop thread follows, from active_channels and from the *)
(* dispatcher through search_channel(), lead to channels it owns.          *)
ChannelsMapped == NoDanglingChannel /\ RegisteredIsMapped

(* evloop.cc:78-87: run() ends when asked to, and not before it has called *)
(* what was queued.                                                        *)
LoopLive == QueuedIsCalled /\ QuitEnds
=============================================================================
