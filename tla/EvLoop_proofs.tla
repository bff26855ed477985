---------------------------- MODULE EvLoop_proofs ----------------------------
(***************************************************************************)
(* Proofs about EvLoop for any set of channels and any number of functors  *)
(* and quit() calls: type correctness, that no wake-up is lost and that    *)
(* wake_pair never fills up, that every registered channel is in           *)
(* channel_map and a removed one gets no callback, and that functors are   *)
(* called in the order queued.  Then about the parts of a loop (module     *)
(* LoopParts): for any descriptors, every dispatcher is the table of       *)
(* events of EventTable, and for any signals, the maps of signaler_t agree *)
(* and are what is installed.                                              *)
(***************************************************************************)
EXTENDS EvLoop, LoopParts, TLAPS, FiniteSetTheorems

(* EvLoop keeps its types: run(), the callers and the environment only     *)
(* store functors, bytes and channels where the members of evloop hold     *)
(* them.                                                                   *)
THEOREM TypeCorrect == Spec => []TypeOK
<1>1. Init => TypeOK
  <2> SUFFICES ASSUME Init PROVE TypeOK
    OBVIOUS
  <2>1. is_quit \in BOOLEAN /\ due \in BOOLEAN
    BY Zenon DEF Init
  <2> QED
    BY <2>1 DEF Init, TypeOK, PCs, Lives
<1>2. TypeOK /\ [Next]_vars => TypeOK'
  <2> SUFFICES ASSUME TypeOK, [Next]_vars
               PROVE  TypeOK'
    OBVIOUS
  <2> USE ConstantsAssumption DEF TypeOK, PCs, Lives, chanVars
  <2>1. CASE Post
    BY <2>1 DEF Post, queue_in_loop, Functor
  <2>2. CASE Quit
    BY <2>2 DEF Quit
  <2>3. ASSUME NEW c \in Chans, AddInLoop(c) PROVE TypeOK'
    BY <2>3 DEF AddInLoop
  <2>4. ASSUME NEW c \in Chans, AddFromOther(c) PROVE TypeOK'
    BY <2>4 DEF AddFromOther, queue_in_loop, Functor
  <2>5. ASSUME NEW c \in Chans, RemoveInLoop(c) PROVE TypeOK'
    BY <2>5 DEF RemoveInLoop, queue_in_loop, Functor
  <2>6. ASSUME NEW c \in Chans, RemoveFromOther1(c) PROVE TypeOK'
    BY <2>6 DEF RemoveFromOther1, queue_in_loop, Functor
  <2>7. ASSUME NEW c \in Chans, RemoveFromOther2(c) PROVE TypeOK'
    BY <2>7 DEF RemoveFromOther2, queue_in_loop, Functor
  <2>8. CASE Run
    BY <2>8 DEF Run
  <2>9. CASE WaitEvents
    BY <2>9 DEF WaitEvents, Reported
  <2>10. CASE WaitTimeout
    BY <2>10 DEF WaitTimeout
  <2>11. CASE WaitError
    BY <2>11 DEF WaitError
  <2>12. CASE DispatchWake /\ pipe # <<>>
    BY <2>12 DEF DispatchWake
  <2>13. CASE DispatchWake /\ pipe = <<>>
    BY <2>13 DEF DispatchWake
  <2>14. ASSUME NEW c \in Chans, HandleEvent(c) PROVE TypeOK'
    BY <2>14 DEF HandleEvent
  <2>15. CASE EndHandler
    BY <2>15 DEF EndHandler
  <2>16. CASE DispatchDone
    BY <2>16 DEF DispatchDone
  <2>17. CASE EndTimers
    BY <2>17 DEF EndTimers
  <2>18. CASE Swap
    BY <2>18 DEF Swap
  <2>19. CASE ExecChannel
    BY <2>19 DEF ExecChannel, ChannelFunctor, Functor
  <2>20. CASE ExecTask
    <3>1. Head(batch) \in Functor /\ Tail(batch) \in Seq(Functor)
      BY <2>20 DEF ExecTask
    <3>2. Head(batch).arg \in Nat
      BY <3>1, <2>20 DEF ExecTask, Functor
    <3> QED
      BY <3>1, <3>2, <2>20 DEF ExecTask
  <2>21. CASE EndFunctor
    BY <2>21 DEF EndFunctor
  <2>22. CASE ExecDone
    BY <2>22 DEF ExecDone
  <2>23. CASE Drain
    BY <2>23 DEF Drain
  <2>24. ASSUME NEW c \in Chans, Arrive(c) PROVE TypeOK'
    BY <2>24 DEF Arrive
  <2>25. CASE Expire
    BY <2>25 DEF Expire
  <2>26. CASE UNCHANGED vars
    BY <2>26 DEF vars
  <2> QED
    BY <2>1, <2>2, <2>3, <2>4, <2>5, <2>6, <2>7, <2>8, <2>9, <2>10, <2>11,
       <2>12, <2>13, <2>14, <2>15, <2>16, <2>17, <2>18, <2>19, <2>20, <2>21,
       <2>22, <2>23, <2>24, <2>25, <2>26
       DEF Next, LoopStep, Callers, Environment
<1> QED
  BY <1>1, <1>2, PTL DEF Spec

-----------------------------------------------------------------------------
(* 1 while functors is not empty, whose first element wrote a byte.        *)
Pending == IF functors = <<>> THEN 0 ELSE 1

(* The loop thread has taken its byte of this turn, if there was one.      *)
AfterRead ==
    \/ pc \in {"init", "timers", "swap"}
    \/ pc \in {"dispatch", "handler"} /\ Wake \notin active

(* The inductive invariant behind NoLostWakeup and WakePipeBounded: after  *)
(* the read of a turn the pair holds, besides the bytes of quit(), only    *)
(* the byte of the functors now queued; before it, one more.               *)
WakeInv ==
    /\ NoLostWakeup
    /\ pc = "init" => ~is_quit
    /\ pc \in {"drain", "done"} => is_quit
    /\ pc \notin {"dispatch", "handler"} => active = {}
    /\ pc = "handler" => cur # Wake
    /\ Wake \in active => pipe # <<>>
    /\ ~is_quit => /\ Len(pipe) <= nquits + 1 + Pending
                   /\ AfterRead => Len(pipe) <= nquits + Pending

(* Every step keeps the wake-up protocol.                                  *)
LEMMA WakeInvInductive == TypeOK /\ WakeInv /\ [Next]_vars => WakeInv'
<1> SUFFICES ASSUME TypeOK, WakeInv, [Next]_vars
             PROVE  WakeInv'
  OBVIOUS
<1> USE ConstantsAssumption
        DEF TypeOK, WakeInv, NoLostWakeup, Pending, AfterRead, PCs, chanVars
(* queue_in_loop() by any thread, whatever the functor.                    *)
<1>0. ASSUME NEW f \in Functor, queue_in_loop(f), UNCHANGED <<pc, is_quit, active, cur, nquits>>
      PROVE  WakeInv'
  <2>1. /\ functors' # <<>> /\ Len(functors) \in Nat
        /\ functors = <<>> => Len(functors') = 1
        /\ functors # <<>> => Len(functors') # 1
    BY <1>0 DEF queue_in_loop
  <2>2. CASE functors = <<>>
    <3>1. pipe' = Append(pipe, 0)  BY <1>0, <2>1, <2>2 DEF queue_in_loop
    <3>2. Len(pipe) \in Nat /\ Len(pipe') = Len(pipe) + 1  BY <3>1
    <3>3. pipe' # <<>>  BY <3>2
    <3>4. Pending = 0 /\ Pending' = 1  BY <2>1, <2>2
    <3> QED  BY <1>0, <2>1, <2>2, <3>2, <3>3, <3>4
  <2>3. CASE functors # <<>>
    <3>1. pipe' = pipe /\ Pending' = Pending  BY <1>0, <2>1, <2>3 DEF queue_in_loop
    <3> QED  BY <1>0, <2>1, <2>3, <3>1
  <2> QED  BY <2>2, <2>3
<1>1. CASE Post
  <2>1. [op |-> "task", arg |-> ntasks + 1] \in Functor  BY DEF Functor
  <2> QED  BY <1>0, <1>1, <2>1 DEF Post
<1>2. CASE Quit
  BY <1>2 DEF Quit
<1>3. ASSUME NEW c \in Chans, AddInLoop(c) PROVE WakeInv'
  BY <1>3 DEF AddInLoop
<1>4. ASSUME NEW c \in Chans, AddFromOther(c) PROVE WakeInv'
  BY <1>0, <1>4 DEF AddFromOther, Functor
<1>5. ASSUME NEW c \in Chans, RemoveInLoop(c) PROVE WakeInv'
  BY <1>0, <1>5 DEF RemoveInLoop, Functor
<1>6. ASSUME NEW c \in Chans, RemoveFromOther1(c) PROVE WakeInv'
  BY <1>0, <1>6 DEF RemoveFromOther1, Functor
<1>7. ASSUME NEW c \in Chans, RemoveFromOther2(c) PROVE WakeInv'
  BY <1>0, <1>7 DEF RemoveFromOther2, Functor
<1>8. CASE Run
  BY <1>8 DEF Run
<1>9. CASE WaitEvents
  <2>1. Wake \in active' <=> pipe # <<>>
    BY <1>9 DEF WaitEvents, Reported
  <2> QED
    BY <1>9, <2>1 DEF WaitEvents
<1>10. CASE WaitTimeout
  BY <1>10 DEF WaitTimeout, Reported
<1>11. CASE WaitError
  BY <1>11 DEF WaitError, Reported
<1>12. CASE DispatchWake
  <2>1. pipe # <<>> /\ Len(pipe') = Len(pipe) - 1
    BY <1>12 DEF DispatchWake
  <2> QED
    BY <1>12, <2>1 DEF DispatchWake
<1>13. ASSUME NEW c \in Chans, HandleEvent(c) PROVE WakeInv'
  BY <1>13 DEF HandleEvent
<1>14. CASE EndHandler
  BY <1>14 DEF EndHandler
<1>15. CASE DispatchDone
  BY <1>15 DEF DispatchDone
<1>16. CASE EndTimers
  BY <1>16 DEF EndTimers
<1>17. CASE Swap
  BY <1>17 DEF Swap
<1>18. CASE ExecChannel
  BY <1>18 DEF ExecChannel
<1>19. CASE ExecTask
  BY <1>19 DEF ExecTask
<1>20. CASE EndFunctor
  BY <1>20 DEF EndFunctor
<1>21. CASE ExecDone
  BY <1>21 DEF ExecDone
<1>22. CASE Drain
  BY <1>22 DEF Drain
<1>23. ASSUME NEW c \in Chans, Arrive(c) PROVE WakeInv'
  BY <1>23 DEF Arrive
<1>24. CASE Expire
  BY <1>24 DEF Expire
<1>25. CASE UNCHANGED vars
  BY <1>25 DEF vars
<1> QED
  BY <1>1, <1>2, <1>3, <1>4, <1>5, <1>6, <1>7, <1>8, <1>9, <1>10, <1>11,
     <1>12, <1>13, <1>14, <1>15, <1>16, <1>17, <1>18, <1>19, <1>20, <1>21,
     <1>22, <1>23, <1>24, <1>25
     DEF Next, LoopStep, Callers, Environment

(* The invariant of the wake-up protocol.                                  *)
LEMMA WakeInvAlways == Spec => []WakeInv
<1>1. Init => WakeInv
  BY DEF Init, WakeInv, NoLostWakeup, Pending, AfterRead
<1> QED
  BY <1>1, TypeCorrect, WakeInvInductive, PTL DEF Spec

(* No wake-up is lost: run() never blocks in dispatcher->wait() with a     *)
(* functor queued and no byte in wake_pair, for any number of threads      *)
(* calling queue_in_loop().                                                *)
THEOREM WakeupNotLost == Spec => []NoLostWakeup
  BY WakeInvAlways, PTL DEF WakeInv

(* A writer of wake_pair never finds it full because of queue_in_loop():   *)
(* at most two bytes in it are not quit()'s.                               *)
THEOREM PipeStaysShort == Spec => []WakePipeBounded
<1>1. TypeOK /\ WakeInv => WakePipeBounded
  BY DEF TypeOK, WakeInv, Pending, WakePipeBounded
<1> QED
  BY <1>1, TypeCorrect, WakeInvAlways, PTL

(* The wake-up protocol of queue_in_loop() and wakeup_read() as a whole,   *)
(* for every number of channels, functors and calls of quit().             *)
THEOREM WakeProtocol == Spec => []WakesUp
BY WakeupNotLost, PipeStaysShort, PTL DEF WakesUp
-----------------------------------------------------------------------------
Add(c) == [op |-> "add", arg |-> c]
Disable(c) == [op |-> "disable", arg |-> c]
Erase(c) == [op |-> "erase", arg |-> c]

(* f is still to be called.                                                *)
InQueue(f) == \E i \in 1..Len(Queued) : Queued[i] = f

(* The batch of do_functors() is empty outside its loop.                   *)
BatchInLoop == pc \notin {"exec", "functor"} => batch = <<>>

(* The functors of add() and remove() that are queued for a channel say    *)
(* how far its life is.                                                    *)
QueuedByLife ==
    \A c \in Chans :
        /\ InQueue(Add(c)) => life[c] \in {"added", "half", "removed"} /\ c \notin channel_map
        /\ InQueue(Disable(c)) => life[c] \in {"half", "removed"}
        /\ InQueue(Erase(c)) => life[c] \in {"removed", "gone"}
        /\ life[c] = "new" => c \notin channel_map
        /\ life[c] = "half" => InQueue(Disable(c)) \/ (c \notin filter /\ ~InQueue(Add(c)))
        /\ life[c] = "gone" => c \notin filter /\ ~InQueue(Add(c))

(* A channel is added once, and its add comes before its disable.          *)
AddOnceFirst ==
    \A c \in Chans : \A i, j \in 1..Len(Queued) :
        Queued[i] = Add(c) =>
            /\ Queued[j] = Add(c) => i = j
            /\ Queued[j] = Disable(c) => i < j

(* An erase that the loop will reach finds the channel unregistered: a     *)
(* disable comes before it, unless the channel is already out of filter    *)
(* and will not come back.                                                 *)
DisabledBeforeErase ==
    \A c \in Chans : \A i \in 1..Len(Queued) :
        Queued[i] = Erase(c) =>
            \/ \E j \in 1..(i - 1) : Queued[j] = Disable(c)
            \/ c \notin filter /\ ~InQueue(Add(c))

(* The inductive invariant behind ChannelsMapped.                          *)
ChannelInv ==
    /\ BatchInLoop
    /\ QueuedByLife /\ AddOnceFirst /\ DisabledBeforeErase
    /\ ChannelsMapped

(* A functor queued by queue_in_loop() is called after all the others.     *)
LEMMA QueuedAppend ==
    ASSUME TypeOK, NEW f \in Functor, functors' = Append(functors, f), batch' = batch
    PROVE  /\ Len(Queued) \in Nat /\ Len(Queued') = Len(Queued) + 1
           /\ Queued'[Len(Queued) + 1] = f
           /\ \A i \in 1..Len(Queued) : Queued'[i] = Queued[i]
BY DEF TypeOK, Queued

(* The loop of do_functors() calls the first one.                          *)
LEMMA QueuedTail ==
    ASSUME TypeOK, batch # <<>>, functors' = functors, batch' = Tail(batch)
    PROVE  /\ Len(Queued) \in Nat /\ Len(Queued) > 0 /\ Len(Queued') = Len(Queued) - 1
           /\ Queued[1] = Head(batch)
           /\ \A i \in 1..Len(Queued') : Queued'[i] = Queued[i + 1]
BY DEF TypeOK, Queued

(* The swap of do_functors() neither loses nor moves one.                  *)
LEMMA QueuedSwap ==
    ASSUME TypeOK, batch = <<>>, batch' = functors, functors' = <<>>
    PROVE  Queued' = Queued
BY DEF TypeOK, Queued

(* Every step keeps what the loop knows of its channels.                   *)
LEMMA ChannelInvInductive ==
    TypeOK /\ WakeInv /\ ChannelInv /\ [Next]_vars => ChannelInv'
<1> SUFFICES ASSUME TypeOK, WakeInv, ChannelInv, [Next]_vars
             PROVE  ChannelInv'
  OBVIOUS
<1> USE ConstantsAssumption
        DEF ChannelInv, BatchInLoop, ChannelsMapped, NoDanglingChannel, RegisteredIsMapped
<1>t. /\ channel_map \subseteq Chans /\ filter \subseteq Chans
      /\ life \in [Chans -> Lives] /\ Len(Queued) \in Nat
      /\ functors \in Seq(Functor) /\ batch \in Seq(Functor)
  BY DEF TypeOK, Queued
(* What is in the queue after a step that appends a functor or takes the   *)
(* first one.                                                              *)
<1>a. ASSUME NEW f \in Functor, queue_in_loop(f), batch' = batch
      PROVE  /\ Len(Queued') = Len(Queued) + 1 /\ Queued'[Len(Queued) + 1] = f
             /\ \A i \in 1..Len(Queued) : Queued'[i] = Queued[i]
             /\ \A g : InQueue(g)' <=> InQueue(g) \/ g = f
  <2>1. /\ Len(Queued') = Len(Queued) + 1 /\ Queued'[Len(Queued) + 1] = f
        /\ \A i \in 1..Len(Queued) : Queued'[i] = Queued[i]
    BY <1>a, QueuedAppend DEF queue_in_loop
  <2>2. \A i \in 1..Len(Queued') : i \in 1..Len(Queued) \/ i = Len(Queued) + 1
    BY <1>t, <2>1
  <2>3. Len(Queued) + 1 \in 1..Len(Queued') /\ \A i \in 1..Len(Queued) : i \in 1..Len(Queued')
    BY <1>t, <2>1
  <2> QED
    BY <2>1, <2>2, <2>3 DEF InQueue
<1>b. ASSUME pc = "exec", batch # <<>>, batch' = Tail(batch), functors' = functors
      PROVE  /\ Len(Queued) > 0 /\ Len(Queued') = Len(Queued) - 1
             /\ Queued[1] = Head(batch) /\ Head(batch) \in Functor
             /\ \A i \in 1..Len(Queued') : Queued'[i] = Queued[i + 1]
             /\ \A g : InQueue(g) <=> InQueue(g)' \/ g = Head(batch)
  <2>1. /\ Len(Queued) > 0 /\ Len(Queued') = Len(Queued) - 1
        /\ Queued[1] = Head(batch)
        /\ \A i \in 1..Len(Queued') : Queued'[i] = Queued[i + 1]
    BY <1>b, QueuedTail
  <2>2. \A i \in 1..Len(Queued) : i = 1 \/ (i - 1 \in 1..Len(Queued') /\ Queued'[i - 1] = Queued[i])
    BY <1>t, <2>1
  <2>3. \A i \in 1..Len(Queued') : i + 1 \in 1..Len(Queued)
    BY <1>t, <2>1
  <2>4. \A g : InQueue(g) <=> InQueue(g)' \/ g = Head(batch)
    BY <1>t, <2>1, <2>2, <2>3 DEF InQueue
  <2> QED
    BY <1>b, <1>t, <2>1, <2>4
(* The two orders in the queue, after a functor is appended.               *)
<1>d. ASSUME NEW f \in Functor, queue_in_loop(f), batch' = batch,
             \A c \in Chans : f = Add(c) => ~InQueue(Add(c)) /\ ~InQueue(Disable(c))
      PROVE  AddOnceFirst'
  <2> SUFFICES ASSUME NEW c \in Chans, NEW i \in 1..Len(Queued'), NEW j \in 1..Len(Queued'),
                      Queued'[i] = Add(c)
               PROVE  /\ Queued'[j] = Add(c) => i = j
                      /\ Queued'[j] = Disable(c) => i < j
    BY DEF AddOnceFirst
  <2>0. /\ Len(Queued') = Len(Queued) + 1 /\ Queued'[Len(Queued) + 1] = f
        /\ \A k \in 1..Len(Queued) : Queued'[k] = Queued[k]
    BY <1>a, <1>d
  <2>x. Add(c) # Disable(c)
    BY DEF Add, Disable
  <2>1. CASE i \in 1..Len(Queued) /\ j \in 1..Len(Queued)
    BY <2>0, <2>1 DEF AddOnceFirst
  <2>2. CASE i = Len(Queued) + 1 /\ j \in 1..Len(Queued)
    BY <1>d, <2>0, <2>2 DEF InQueue
  <2>3. CASE i \in 1..Len(Queued) /\ j = Len(Queued) + 1
    BY <1>d, <1>t, <2>0, <2>3 DEF InQueue
  <2>4. CASE i = Len(Queued) + 1 /\ j = Len(Queued) + 1
    BY <2>0, <2>4, <2>x
  <2> QED
    BY <1>t, <2>0, <2>1, <2>2, <2>3, <2>4
<1>e. ASSUME NEW f \in Functor, queue_in_loop(f), batch' = batch, filter' \subseteq filter,
             \A c \in Chans : f = Add(c) => ~InQueue(Erase(c)),
             \A c \in Chans : f = Erase(c) =>
                 InQueue(Disable(c)) \/ (c \notin filter' /\ ~InQueue(Add(c)))
      PROVE  DisabledBeforeErase'
  <2> SUFFICES ASSUME NEW c \in Chans, NEW i \in 1..Len(Queued'), Queued'[i] = Erase(c)
               PROVE  \/ \E j \in 1..(i - 1) : Queued'[j] = Disable(c)
                      \/ c \notin filter' /\ ~InQueue(Add(c))'
    BY DEF DisabledBeforeErase
  <2>0. /\ Len(Queued') = Len(Queued) + 1 /\ Queued'[Len(Queued) + 1] = f
        /\ \A k \in 1..Len(Queued) : Queued'[k] = Queued[k]
        /\ InQueue(Add(c))' <=> InQueue(Add(c)) \/ Add(c) = f
    BY <1>a, <1>e
  <2>x. Add(c) # Erase(c)
    BY DEF Add, Erase
  <2>1. CASE i \in 1..Len(Queued)
    <3>1. Queued[i] = Erase(c) /\ InQueue(Erase(c))
      BY <2>0, <2>1 DEF InQueue
    <3>2. \/ \E j \in 1..(i - 1) : Queued[j] = Disable(c)
          \/ c \notin filter /\ ~InQueue(Add(c))
      BY <2>1, <3>1 DEF DisabledBeforeErase
    <3>3. \A j \in 1..(i - 1) : Queued'[j] = Queued[j]
      BY <1>t, <2>0, <2>1
    <3> QED
      BY <1>e, <2>0, <3>1, <3>2, <3>3
  <2>2. CASE i = Len(Queued) + 1
    <3>1. f = Erase(c)
      BY <2>0, <2>2
    <3>2. CASE InQueue(Disable(c))
      BY <1>t, <2>0, <2>2, <3>2 DEF InQueue
    <3>3. CASE c \notin filter' /\ ~InQueue(Add(c))
      BY <2>0, <2>x, <3>1, <3>3
    <3> QED
      BY <1>e, <3>1, <3>2, <3>3
  <2> QED
    BY <1>t, <2>0, <2>1, <2>2
(* The first one keeps the order of the others.                            *)
<1>f. ASSUME pc = "exec", batch # <<>>, batch' = Tail(batch), functors' = functors
      PROVE  AddOnceFirst'
  <2> SUFFICES ASSUME NEW c \in Chans, NEW i \in 1..Len(Queued'), NEW j \in 1..Len(Queued'),
                      Queued'[i] = Add(c)
               PROVE  /\ Queued'[j] = Add(c) => i = j
                      /\ Queued'[j] = Disable(c) => i < j
    BY DEF AddOnceFirst
  <2>1. /\ i + 1 \in 1..Len(Queued) /\ j + 1 \in 1..Len(Queued)
        /\ Queued'[i] = Queued[i + 1] /\ Queued'[j] = Queued[j + 1]
    BY <1>b, <1>f, <1>t
  <2>2. /\ Queued[j + 1] = Add(c) => i + 1 = j + 1
        /\ Queued[j + 1] = Disable(c) => i + 1 < j + 1
    BY <2>1 DEF AddOnceFirst
  <2> QED
    BY <2>1, <2>2
<1>g. ASSUME pc = "exec", batch # <<>>, batch' = Tail(batch), functors' = functors,
             NEW c \in Chans, c \in filter' => c \in filter \/ Head(batch) = Add(c),
             NEW i \in 1..Len(Queued'), Queued'[i] = Erase(c),
             Head(batch) # Disable(c)
      PROVE  \/ \E j \in 1..(i - 1) : Queued'[j] = Disable(c)
             \/ c \notin filter' /\ ~InQueue(Add(c))'
  <2>1. i + 1 \in 1..Len(Queued) /\ Queued[i + 1] = Erase(c)
    BY <1>b, <1>g, <1>t
  <2>2. InQueue(Add(c)) <=> InQueue(Add(c))' \/ Add(c) = Head(batch)
    BY <1>b, <1>g
  <2>3. CASE c \notin filter /\ ~InQueue(Add(c))
    BY <1>g, <2>2, <2>3
  <2>4. ASSUME NEW j \in 1..((i + 1) - 1), Queued[j] = Disable(c)
        PROVE  \E k \in 1..(i - 1) : Queued'[k] = Disable(c)
    <3>1. j # 1
      BY <1>b, <1>g, <2>4
    <3>2. j - 1 \in 1..(i - 1) /\ j - 1 \in 1..Len(Queued')
      BY <3>1
    <3>3. Queued'[j - 1] = Disable(c)
      BY <1>b, <1>g, <2>4, <3>2
    <3> QED
      BY <3>2, <3>3
  <2> QED
    BY <2>1, <2>3, <2>4 DEF DisabledBeforeErase
(* A step that leaves the queue and the channels alone.                    *)
<1>c. ASSUME Queued' = Queued, UNCHANGED chanVars, BatchInLoop', NoDanglingChannel'
      PROVE  ChannelInv'
  BY <1>c DEF chanVars, QueuedByLife, AddOnceFirst, DisabledBeforeErase, InQueue
<1>1. CASE Post
  <2> DEFINE f == [op |-> "task", arg |-> ntasks + 1]
  <2>1. f \in Functor /\ \A c : f # Add(c) /\ f # Disable(c) /\ f # Erase(c)
    BY DEF TypeOK, Functor, Add, Disable, Erase
  <2> HIDE DEF f
  <2>2. queue_in_loop(f) /\ batch' = batch /\ UNCHANGED <<pc, active, chanVars>>
    BY <1>1 DEF Post, f
  <2>3. QueuedByLife'
    BY <1>a, <2>1, <2>2 DEF QueuedByLife, chanVars
  <2>4. AddOnceFirst'
    BY <1>d, <2>1, <2>2
  <2>5. DisabledBeforeErase'
    BY <1>e, <2>1, <2>2 DEF chanVars
  <2> QED
    BY <2>2, <2>3, <2>4, <2>5 DEF chanVars
<1>2. ASSUME NEW c \in Chans, AddFromOther(c) PROVE ChannelInv'
  <2>1. Add(c) \in Functor /\ \A d : /\ Add(c) # Disable(d) /\ Add(c) # Erase(d)
                                     /\ Add(c) = Add(d) => d = c
    BY DEF Functor, Add, Disable, Erase
  <2>2. /\ queue_in_loop(Add(c)) /\ batch' = batch
        /\ UNCHANGED <<pc, active, channel_map, filter>>
        /\ life[c] = "new" /\ life' = [life EXCEPT ![c] = "added"]
    BY <1>2 DEF AddFromOther, Add
  <2>3. ~InQueue(Add(c)) /\ ~InQueue(Disable(c)) /\ ~InQueue(Erase(c))
    BY <2>2 DEF QueuedByLife
  <2>4. QueuedByLife'
    BY <1>a, <1>t, <2>1, <2>2, <2>3 DEF QueuedByLife
  <2>5. AddOnceFirst'
    BY <1>d, <2>1, <2>2, <2>3
  <2>6. DisabledBeforeErase'
    BY <1>e, <2>1, <2>2, <2>3
  <2> QED
    BY <2>2, <2>4, <2>5, <2>6
<1>3. ASSUME NEW c \in Chans, RemoveInLoop(c) PROVE ChannelInv'
  <2>1. Erase(c) \in Functor /\ \A d : /\ Erase(c) # Disable(d) /\ Erase(c) # Add(d)
                                       /\ Erase(c) = Erase(d) => d = c
    BY DEF Functor, Add, Disable, Erase
  <2>2. /\ queue_in_loop(Erase(c)) /\ batch' = batch
        /\ UNCHANGED <<pc, active, channel_map>> /\ filter' = filter \ {c}
        /\ life[c] = "added" /\ life' = [life EXCEPT ![c] = "gone"] /\ c \in channel_map
    BY <1>3 DEF RemoveInLoop, Erase
  <2>3. ~InQueue(Add(c)) /\ ~InQueue(Disable(c)) /\ ~InQueue(Erase(c))
    BY <2>2 DEF QueuedByLife
  <2>4. QueuedByLife'
    BY <1>a, <1>t, <2>1, <2>2, <2>3 DEF QueuedByLife
  <2>5. AddOnceFirst'
    BY <1>d, <2>1, <2>2, <2>3
  <2>6. DisabledBeforeErase'
    BY <1>e, <2>1, <2>2, <2>3
  <2> QED
    BY <2>2, <2>4, <2>5, <2>6
<1>4. ASSUME NEW c \in Chans, RemoveFromOther1(c) PROVE ChannelInv'
  <2>1. Disable(c) \in Functor /\ \A d : /\ Disable(c) # Erase(d) /\ Disable(c) # Add(d)
                                         /\ Disable(c) = Disable(d) => d = c
    BY DEF Functor, Add, Disable, Erase
  <2>2. /\ queue_in_loop(Disable(c)) /\ batch' = batch
        /\ UNCHANGED <<pc, active, channel_map, filter>>
        /\ life[c] = "added" /\ life' = [life EXCEPT ![c] = "half"]
    BY <1>4 DEF RemoveFromOther1, Disable
  <2>3. ~InQueue(Disable(c)) /\ ~InQueue(Erase(c))
    BY <2>2 DEF QueuedByLife
  <2>4. QueuedByLife'
    BY <1>a, <1>t, <2>1, <2>2, <2>3 DEF QueuedByLife
  <2>5. AddOnceFirst'
    BY <1>d, <2>1, <2>2, <2>3
  <2>6. DisabledBeforeErase'
    BY <1>e, <2>1, <2>2, <2>3
  <2> QED
    BY <2>2, <2>4, <2>5, <2>6
<1>5. ASSUME NEW c \in Chans, RemoveFromOther2(c) PROVE ChannelInv'
  <2>1. Erase(c) \in Functor /\ \A d : /\ Erase(c) # Disable(d) /\ Erase(c) # Add(d)
                                       /\ Erase(c) = Erase(d) => d = c
    BY DEF Functor, Add, Disable, Erase
  <2>2. /\ queue_in_loop(Erase(c)) /\ batch' = batch
        /\ UNCHANGED <<pc, active, channel_map, filter>>
        /\ life[c] = "half" /\ life' = [life EXCEPT ![c] = "removed"]
    BY <1>5 DEF RemoveFromOther2, Erase
  <2>3. InQueue(Disable(c)) \/ (c \notin filter /\ ~InQueue(Add(c)))
    BY <2>2 DEF QueuedByLife
  <2>4. QueuedByLife'
    BY <1>a, <1>t, <2>1, <2>2, <2>3 DEF QueuedByLife
  <2>5. AddOnceFirst'
    BY <1>d, <2>1, <2>2
  <2>6. DisabledBeforeErase'
    BY <1>e, <2>1, <2>2, <2>3
  <2> QED
    BY <2>2, <2>4, <2>5, <2>6
<1>6. ASSUME NEW c \in Chans, AddInLoop(c) PROVE ChannelInv'
  <2>1. /\ Queued' = Queued /\ UNCHANGED <<pc, batch, active>>
        /\ channel_map' = channel_map \cup {c} /\ filter' = filter \cup {c}
        /\ life[c] = "new" /\ life' = [life EXCEPT ![c] = "added"]
    BY <1>6 DEF AddInLoop, Queued
  <2>2. ~InQueue(Add(c)) /\ ~InQueue(Disable(c)) /\ ~InQueue(Erase(c))
    BY <2>1 DEF QueuedByLife
  <2>3. \A g : InQueue(g)' <=> InQueue(g)
    BY <2>1 DEF InQueue
  <2>4. QueuedByLife'
    BY <1>t, <2>1, <2>2, <2>3 DEF QueuedByLife
  <2>5. AddOnceFirst'
    BY <2>1 DEF AddOnceFirst
  <2>6. DisabledBeforeErase'
    BY <2>1, <2>2, <2>3 DEF DisabledBeforeErase, InQueue
  <2> QED
    BY <2>1, <2>4, <2>5, <2>6
<1>7. CASE ExecChannel
  <2> DEFINE f == Head(batch)
  <2>1. /\ pc = "exec" /\ batch # <<>> /\ batch' = Tail(batch) /\ functors' = functors
        /\ UNCHANGED <<pc, active, life>> /\ ChannelFunctor(f) /\ f.op # "task"
    BY <1>7 DEF ExecChannel
  <2>2. active = {}
    BY <2>1 DEF WakeInv
  <2>3. PICK c \in Chans : f \in {Add(c), Disable(c), Erase(c)}
    BY <1>b, <2>1 DEF Functor, Add, Disable, Erase
  <2>4. \A d \in Chans : /\ Add(c) # Disable(d) /\ Add(c) # Erase(d) /\ (Add(c) = Add(d) => d = c)
                         /\ Disable(c) # Erase(d) /\ Disable(c) # Add(d)
                         /\ Disable(c) = Disable(d) => d = c
                         /\ Erase(c) # Disable(d) /\ Erase(c) # Add(d)
                         /\ Erase(c) = Erase(d) => d = c
    BY DEF Add, Disable, Erase
  <2> HIDE DEF f
  <2>5. CASE f = Add(c)
    <3>1. channel_map' = channel_map \cup {c} /\ filter' = filter \cup {c}
      BY <2>1, <2>5 DEF ChannelFunctor, Add
    <3>2. InQueue(Add(c)) /\ ~InQueue(Add(c))'
      <4>1. Queued[1] = Add(c) /\ 1 \in 1..Len(Queued)
        BY <1>b, <1>t, <2>1, <2>5 DEF f
      <4>2. ASSUME NEW i \in 1..Len(Queued'), Queued'[i] = Add(c) PROVE FALSE
        <5>1. i + 1 \in 1..Len(Queued) /\ Queued[i + 1] = Add(c) /\ i + 1 # 1
          BY <1>b, <1>t, <2>1, <4>2
        <5> QED
          BY <4>1, <5>1 DEF AddOnceFirst
      <4> QED
        BY <4>1, <4>2 DEF InQueue
    <3>3. QueuedByLife'
      BY <1>b, <2>1, <2>4, <2>5, <3>1, <3>2 DEF QueuedByLife, f
    <3>4. DisabledBeforeErase'
      <4>1. \A d \in Chans : /\ d \in filter' => d \in filter \/ f = Add(d)
                             /\ f # Disable(d)
        BY <2>4, <2>5, <3>1
      <4> QED
        BY <1>g, <2>1, <4>1 DEF DisabledBeforeErase, f
    <3> QED
      BY <1>f, <2>1, <2>2, <3>1, <3>3, <3>4
  <2>6. CASE f = Disable(c)
    <3>1. channel_map' = channel_map /\ filter' = filter \ {c}
      BY <2>1, <2>6 DEF ChannelFunctor, Disable
    <3>2. ~InQueue(Add(c)) /\ ~InQueue(Add(c))'
      <4>1. Queued[1] = Disable(c) /\ 1 \in 1..Len(Queued)
        BY <1>b, <1>t, <2>1, <2>6 DEF f
      <4>2. ~InQueue(Add(c))
        BY <1>t, <4>1 DEF AddOnceFirst, InQueue
      <4> QED
        BY <1>b, <2>1, <4>2
    <3>3. QueuedByLife'
      BY <1>b, <2>1, <2>4, <2>6, <3>1, <3>2 DEF QueuedByLife, f
    <3>4. DisabledBeforeErase'
      <4>1. \A d \in Chans : d # c => f # Disable(d) /\ (d \in filter' => d \in filter)
        BY <2>4, <2>6, <3>1
      <4>2. c \notin filter' /\ ~InQueue(Add(c))'
        BY <3>1, <3>2
      <4> QED
        BY <1>g, <2>1, <4>1, <4>2 DEF DisabledBeforeErase, f
    <3> QED
      BY <1>f, <2>1, <2>2, <3>1, <3>3, <3>4
  <2>7. CASE f = Erase(c)
    <3>1. channel_map' = channel_map \ {c} /\ filter' = filter
      BY <2>1, <2>7 DEF ChannelFunctor, Erase
    <3>2. c \notin filter /\ ~InQueue(Add(c))
      <4>1. Queued[1] = Erase(c) /\ 1 \in 1..Len(Queued) /\ 1..(1 - 1) = {}
        BY <1>b, <1>t, <2>1, <2>7 DEF f
      <4> QED
        BY <4>1 DEF DisabledBeforeErase
    <3>3. QueuedByLife'
      BY <1>b, <2>1, <2>4, <2>7, <3>1, <3>2 DEF QueuedByLife, f
    <3>4. DisabledBeforeErase'
      <4>1. \A d \in Chans : f # Disable(d) /\ (d \in filter' => d \in filter)
        BY <2>4, <2>7, <3>1
      <4> QED
        BY <1>g, <2>1, <4>1 DEF DisabledBeforeErase, f
    <3> QED
      BY <1>f, <2>1, <2>2, <3>1, <3>2, <3>3, <3>4
  <2> QED
    BY <2>3, <2>5, <2>6, <2>7
<1>8. CASE ExecTask
  <2>1. /\ pc = "exec" /\ batch # <<>> /\ batch' = Tail(batch) /\ functors' = functors
        /\ pc' = "functor" /\ UNCHANGED <<active, chanVars>> /\ Head(batch).op = "task"
    BY <1>8 DEF ExecTask
  <2>2. \A c \in Chans : Head(batch) # Add(c) /\ Head(batch) # Disable(c) /\ Head(batch) # Erase(c)
    BY <2>1 DEF Add, Disable, Erase
  <2>3. QueuedByLife'
    BY <1>b, <2>1, <2>2 DEF QueuedByLife, chanVars
  <2>4. DisabledBeforeErase'
    BY <1>g, <2>1, <2>2 DEF DisabledBeforeErase, chanVars
  <2> QED
    BY <1>f, <2>1, <2>3, <2>4 DEF chanVars
<1>9. CASE Swap
  <2>1. batch = <<>> /\ batch' = functors /\ functors' = <<>>
    BY <1>9 DEF Swap
  <2>2. Queued' = Queued
    BY <2>1, QueuedSwap
  <2>3. UNCHANGED chanVars /\ BatchInLoop' /\ NoDanglingChannel'
    BY <1>9 DEF Swap, chanVars
  <2> QED
    BY <1>c, <2>2, <2>3
<1>10. CASE WaitEvents
  BY <1>10, <1>c DEF WaitEvents, Reported, Queued, chanVars
<1>11. ASSUME UNCHANGED <<functors, batch, chanVars>>, active' \subseteq active,
              pc \in {"exec", "functor"} => batch = <<>> \/ pc' \in {"exec", "functor"}
       PROVE  ChannelInv'
  <2>1. Queued' = Queued
    BY <1>11 DEF Queued
  <2> QED
    BY <1>11, <1>c, <2>1 DEF chanVars
<1>12. CASE Quit \/ Run \/ WaitTimeout \/ WaitError \/ DispatchWake \/ DispatchDone
  BY <1>12, <1>11 DEF Quit, Run, WaitTimeout, WaitError, DispatchWake, DispatchDone
<1>13. ASSUME NEW c \in Chans, HandleEvent(c) PROVE ChannelInv'
  BY <1>13, <1>11 DEF HandleEvent
<1>14. CASE EndHandler \/ EndTimers \/ EndFunctor \/ ExecDone \/ Drain \/ Expire
  BY <1>14, <1>11 DEF EndHandler, EndTimers, EndFunctor, ExecDone, Drain, Expire
<1>15. ASSUME NEW c \in Chans, Arrive(c) PROVE ChannelInv'
  BY <1>15, <1>11 DEF Arrive
<1>16. CASE UNCHANGED vars
  BY <1>16, <1>11 DEF vars, chanVars
<1> QED
  BY <1>1, <1>2, <1>3, <1>4, <1>5, <1>6, <1>7, <1>8, <1>9, <1>10, <1>12, <1>13,
     <1>14, <1>15, <1>16 DEF Next, LoopStep, Callers, Environment

(* The invariant of the channels.                                          *)
LEMMA ChannelInvAlways == Spec => []ChannelInv
<1>1. Init => ChannelInv
  <2> SUFFICES ASSUME Init PROVE ChannelInv
    OBVIOUS
  <2>1. Len(Queued) = 0
    BY DEF Init, Queued
  <2> QED
    BY <2>1 DEF Init, ChannelInv, BatchInLoop, QueuedByLife, AddOnceFirst,
                DisabledBeforeErase, InQueue, ChannelsMapped, NoDanglingChannel,
                RegisteredIsMapped
<1> QED
  BY <1>1, TypeCorrect, WakeInvAlways, ChannelInvInductive, PTL DEF Spec

(* The loop never follows a pointer to a channel it does not own: neither  *)
(* active_channels nor the dispatcher's table leads to one, whatever       *)
(* add() and remove() calls of however many threads interleave.            *)
THEOREM ChannelsStayMapped == Spec => []ChannelsMapped
BY ChannelInvAlways, PTL DEF ChannelInv

(* After remove() on the loop thread no handler of the channel starts, for *)
(* any number of channels: a channel that is gone has no handler and no    *)
(* queued add() that could give it one back.                               *)
THEOREM RemovedIsSilent == Spec => NoCallbackAfterRemove
<1>1. TypeOK /\ ChannelInv =>
        [\A c \in Chans : HandleEvent(c) /\ life[c] = "gone" => pc' # "handler"]_vars
  BY DEF TypeOK, ChannelInv, QueuedByLife, HandleEvent, HasHandler
<1> QED
  BY <1>1, TypeCorrect, ChannelInvAlways, PTL DEF NoCallbackAfterRemove

-----------------------------------------------------------------------------
Task(n) == [op |-> "task", arg |-> n]

(* CalledInOrder is inductive, once the batch is empty outside its loop.   *)
LEMMA CalledInOrderInductive ==
    TypeOK /\ BatchInLoop /\ CalledInOrder /\ [Next]_vars => CalledInOrder'
<1> SUFFICES ASSUME TypeOK, BatchInLoop, CalledInOrder, [Next]_vars
             PROVE  CalledInOrder'
  OBVIOUS
<1>t. /\ Len(Queued) \in Nat /\ functors \in Seq(Functor) /\ batch \in Seq(Functor)
      /\ ntasks \in Nat /\ Len(ran) \in Nat /\ ran \in Seq(Nat)
  BY DEF TypeOK, Queued
<1>a. ASSUME Queued' = Queued, UNCHANGED <<ran, ntasks>>
      PROVE  CalledInOrder'
  BY <1>a DEF CalledInOrder
<1>b. ASSUME NEW f \in Functor, queue_in_loop(f), batch' = batch, ran' = ran,
             \/ f.op # "task" /\ ntasks' = ntasks
             \/ f = Task(ntasks + 1) /\ ntasks' = ntasks + 1
      PROVE  CalledInOrder'
  <2>0. /\ Len(Queued') = Len(Queued) + 1 /\ Queued'[Len(Queued) + 1] = f
        /\ \A i \in 1..Len(Queued) : Queued'[i] = Queued[i]
    BY <1>b, QueuedAppend DEF queue_in_loop
  <2>1. ASSUME NEW n \in (Len(ran') + 1)..ntasks'
        PROVE  \E i \in 1..Len(Queued') : Queued'[i] = Task(n)
    <3>1. CASE n \in (Len(ran) + 1)..ntasks
      BY <1>t, <2>0, <3>1 DEF CalledInOrder, Task
    <3>2. CASE n = ntasks + 1 /\ ntasks' = ntasks + 1
      <4>1. f = Task(n)
        BY <1>b, <1>t, <3>2
      <4>2. Len(Queued) + 1 \in 1..Len(Queued')
        BY <1>t, <2>0
      <4> QED
        BY <2>0, <4>1, <4>2
    <3>3. \/ n \in (Len(ran) + 1)..ntasks
          \/ n = ntasks + 1 /\ ntasks' = ntasks + 1
      BY <1>b, <1>t
    <3> QED
      BY <3>1, <3>2, <3>3
  <2>2. ASSUME NEW i \in 1..Len(Queued'), Queued'[i].op = "task"
        PROVE  /\ Queued'[i].arg \in (Len(ran') + 1)..ntasks'
               /\ \A j \in 1..(i - 1) :
                     Queued'[j].op = "task" => Queued'[j].arg < Queued'[i].arg
    <3>1. CASE i \in 1..Len(Queued)
      <4>1. /\ Queued[i].arg \in (Len(ran) + 1)..ntasks
            /\ \A j \in 1..(i - 1) : Queued[j].op = "task" => Queued[j].arg < Queued[i].arg
        BY <2>0, <2>2, <3>1 DEF CalledInOrder
      <4>2. Queued[i].arg \in (Len(ran') + 1)..ntasks'
        BY <1>b, <1>t, <4>1
      <4>3. \A j \in 1..(i - 1) : j \in 1..Len(Queued)
        BY <1>t, <3>1
      <4> QED
        BY <2>0, <3>1, <4>1, <4>2, <4>3
    <3>2. CASE i = Len(Queued) + 1
      <4>1. f.op = "task" /\ f.arg = ntasks + 1 /\ ntasks' = ntasks + 1
        BY <1>b, <2>0, <2>2, <3>2 DEF Task
      <4>2. \A j \in 1..Len(Queued) :
               Queued[j].op = "task" => Queued[j].arg \in (Len(ran) + 1)..ntasks
        BY DEF CalledInOrder
      <4>3. \A j \in 1..Len(Queued) : Queued[j].op = "task" => Queued[j].arg < ntasks + 1
        BY <1>t, <4>2
      <4>4. ntasks + 1 \in (Len(ran') + 1)..ntasks'
        <5>1. Len(ran) <= ntasks
          BY DEF CalledInOrder
        <5> QED
          BY <1>b, <1>t, <4>1, <5>1
      <4>5. Queued'[i].arg = ntasks + 1 /\ \A j \in 1..(i - 1) : j \in 1..Len(Queued)
        BY <1>t, <2>0, <3>2, <4>1
      <4> QED
        BY <2>0, <4>3, <4>4, <4>5
    <3> QED
      BY <1>t, <2>0, <3>1, <3>2
  <2>3. Len(ran') <= ntasks' /\ \A i \in 1..Len(ran') : ran'[i] = i
    BY <1>b, <1>t DEF CalledInOrder
  <2> QED
    BY <2>1, <2>2, <2>3 DEF CalledInOrder, Task
<1>1. CASE Post
  BY <1>1, <1>b, <1>t DEF Post, Task, Functor
<1>2. ASSUME NEW c \in Chans,
             AddFromOther(c) \/ RemoveInLoop(c) \/ RemoveFromOther1(c) \/ RemoveFromOther2(c)
      PROVE  CalledInOrder'
  BY <1>2, <1>b DEF AddFromOther, RemoveInLoop, RemoveFromOther1, RemoveFromOther2, Functor
<1>3. CASE ExecTask \/ ExecChannel
  <2> DEFINE f == Head(batch)
  <2>0. /\ batch # <<>> /\ batch' = Tail(batch) /\ functors' = functors /\ ntasks' = ntasks
        /\ \/ f.op = "task" /\ ran' = Append(ran, f.arg)
           \/ f.op # "task" /\ ran' = ran
    BY <1>3 DEF ExecTask, ExecChannel
  <2>1. /\ Len(Queued) > 0 /\ Len(Queued') = Len(Queued) - 1 /\ Queued[1] = f
        /\ \A i \in 1..Len(Queued') : Queued'[i] = Queued[i + 1]
    BY <2>0, QueuedTail
  <2> HIDE DEF f
  <2>2. ASSUME f.op = "task" PROVE f.arg = Len(ran) + 1
    <3>1. f.arg \in (Len(ran) + 1)..ntasks
      <4>1. 1 \in 1..Len(Queued)
        BY <1>t, <2>1
      <4> QED
        BY <2>1, <2>2, <4>1 DEF CalledInOrder
    <3>2. PICK i \in 1..Len(Queued) : Queued[i] = Task(Len(ran) + 1)
      <4>1. Len(ran) + 1 \in (Len(ran) + 1)..ntasks
        BY <1>t, <3>1
      <4> QED
        BY <4>1 DEF CalledInOrder, Task
    <3>3. Queued[i].op = "task" /\ Queued[i].arg = Len(ran) + 1
      BY <3>2 DEF Task
    <3>4. CASE i # 1
      <4>1. 1 \in 1..(i - 1)
        BY <3>4
      <4>2. Queued[1].arg < Queued[i].arg
        BY <2>1, <2>2, <3>3, <4>1 DEF CalledInOrder
      <4> QED
        BY <1>t, <2>1, <3>1, <3>3, <4>2
    <3> QED
      BY <2>1, <3>3, <3>4
  <2>3. /\ \A i \in 1..Len(ran') : ran'[i] = i
        /\ Len(ran') = IF f.op = "task" THEN Len(ran) + 1 ELSE Len(ran)
    <3>1. CASE f.op = "task"
      <4>1. ran' = Append(ran, Len(ran) + 1)
        BY <2>0, <2>2, <3>1
      <4>2. Len(ran') = Len(ran) + 1 /\ \A i \in 1..Len(ran) : ran'[i] = ran[i]
        BY <1>t, <4>1
      <4>3. ran'[Len(ran) + 1] = Len(ran) + 1
        BY <1>t, <4>1
      <4> QED
        <5>1. \A i \in 1..Len(ran) : ran'[i] = i
          BY <4>2 DEF CalledInOrder
        <5>2. \A i \in 1..Len(ran') : i \in 1..Len(ran) \/ i = Len(ran) + 1
          BY <1>t, <4>2
        <5> QED
          BY <3>1, <4>2, <4>3, <5>1, <5>2
    <3>2. CASE f.op # "task"
      BY <1>t, <2>0, <3>2 DEF CalledInOrder
    <3> QED
      BY <3>1, <3>2
  <2>4. ASSUME NEW n \in (Len(ran') + 1)..ntasks'
        PROVE  \E i \in 1..Len(Queued') : Queued'[i] = Task(n)
    <3>1. n \in (Len(ran) + 1)..ntasks
      BY <1>t, <2>0, <2>3
    <3>2. PICK i \in 1..Len(Queued) : Queued[i] = Task(n)
      BY <3>1 DEF CalledInOrder, Task
    <3>3. i # 1
      BY <1>t, <2>1, <2>2, <2>3, <3>2 DEF Task
    <3>4. i - 1 \in 1..Len(Queued') /\ (i - 1) + 1 = i
      BY <1>t, <2>1, <3>3
    <3> QED
      BY <2>1, <3>2, <3>4
  <2>5. ASSUME NEW i \in 1..Len(Queued'), Queued'[i].op = "task"
        PROVE  /\ Queued'[i].arg \in (Len(ran') + 1)..ntasks'
               /\ \A j \in 1..(i - 1) :
                     Queued'[j].op = "task" => Queued'[j].arg < Queued'[i].arg
    <3>1. i + 1 \in 1..Len(Queued) /\ Queued'[i] = Queued[i + 1]
      BY <1>t, <2>1
    <3>2. /\ Queued[i + 1].arg \in (Len(ran) + 1)..ntasks
          /\ \A j \in 1..((i + 1) - 1) :
                Queued[j].op = "task" => Queued[j].arg < Queued[i + 1].arg
      BY <2>5, <3>1 DEF CalledInOrder
    <3>3. f.op = "task" => Len(ran) + 1 < Queued[i + 1].arg
      BY <2>1, <2>2, <3>2
    <3>4. Queued'[i].arg \in (Len(ran') + 1)..ntasks'
      BY <1>t, <2>0, <2>3, <3>1, <3>2, <3>3
    <3>5. \A j \in 1..(i - 1) : j + 1 \in 1..((i + 1) - 1) /\ Queued'[j] = Queued[j + 1]
      <4>1. \A j \in 1..(i - 1) : j + 1 \in 1..((i + 1) - 1) /\ j \in 1..Len(Queued')
        BY <1>t, <2>1
      <4> QED
        BY <2>1, <4>1
    <3> QED
      BY <3>1, <3>2, <3>4, <3>5
  <2>6. Len(ran') <= ntasks'
    BY <1>t, <2>0, <2>1, <2>3 DEF CalledInOrder
  <2> QED
    BY <2>3, <2>4, <2>5, <2>6 DEF CalledInOrder, Task
<1>4. CASE Swap
  BY <1>4, <1>a, QueuedSwap DEF Swap, BatchInLoop
<1>5. CASE UNCHANGED <<functors, batch, ran, ntasks>>
  BY <1>5, <1>a DEF Queued
<1>6. \/ Post \/ ExecTask \/ ExecChannel \/ Swap
      \/ \E c \in Chans : \/ AddFromOther(c) \/ RemoveInLoop(c)
                          \/ RemoveFromOther1(c) \/ RemoveFromOther2(c)
      \/ UNCHANGED <<functors, batch, ran, ntasks>>
  BY DEF Next, LoopStep, Callers, Environment, Quit, AddInLoop, Run, WaitEvents,
         WaitTimeout, WaitError, DispatchWake, HandleEvent, EndHandler, DispatchDone,
         EndTimers, EndFunctor, ExecDone, Drain, Arrive, Expire, vars
<1> QED
  BY <1>1, <1>2, <1>3, <1>4, <1>5, <1>6

(* For any number of threads and functors: every functor is called at most *)
(* once and in the order queue_in_loop() was called, and none is lost      *)
(* between functors, the batch of do_functors() and the exit loop.         *)
THEOREM FunctorsInOrder == Spec => []CalledInOrder
<1>1. Init => CalledInOrder
  <2> SUFFICES ASSUME Init PROVE CalledInOrder
    OBVIOUS
  <2>1. Len(Queued) = 0 /\ Len(ran) = 0 /\ ntasks = 0
    BY DEF Init, Queued
  <2> QED
    BY <2>1 DEF CalledInOrder
<1>2. ChannelInv => BatchInLoop
  BY DEF ChannelInv
<1> QED
  BY <1>1, <1>2, TypeCorrect, ChannelInvAlways, CalledInOrderInductive, PTL DEF Spec

-----------------------------------------------------------------------------
(* The index arithmetic of appending a functor and of taking the first.    *)
LEMMA AppendAt ==
    ASSUME NEW S, NEW s \in Seq(S), NEW e \in S
    PROVE  /\ Append(s, e) \in Seq(S)
           /\ Len(s) \in Nat /\ Len(Append(s, e)) = Len(s) + 1
           /\ \A i \in 1..Len(s) : Append(s, e)[i] = s[i]
           /\ Append(s, e)[Len(s) + 1] = e
OBVIOUS

(* Tail, by position.                                                      *)
LEMMA TailAt ==
    ASSUME NEW S, NEW s \in Seq(S), s # <<>>
    PROVE  /\ Head(s) \in S /\ Head(s) = s[1] /\ Tail(s) \in Seq(S)
           /\ Len(s) \in Nat \ {0} /\ Len(Tail(s)) = Len(s) - 1
           /\ \A i \in 1..Len(Tail(s)) : Tail(s)[i] = s[i + 1]
OBVIOUS

(* SubSeq within a sequence, by position.                                  *)
LEMMA SubSeqAt ==
    ASSUME NEW S, NEW s \in Seq(S), NEW m \in Nat, NEW n \in Nat, m <= n, n <= Len(s)
    PROVE  /\ SubSeq(s, m + 1, n) \in Seq(S) /\ Len(SubSeq(s, m + 1, n)) = n - m
           /\ \A k \in 1..(n - m) : SubSeq(s, m + 1, n)[k] = s[m + k]
OBVIOUS

(* Concatenation, by position.                                             *)
Joined(S, u, s, t) ==
    /\ u \in Seq(S) /\ Len(s) \in Nat /\ Len(t) \in Nat /\ Len(u) = Len(s) + Len(t)
    /\ \A k \in 1..Len(s) : u[k] = s[k]
    /\ \A k \in 1..Len(t) : u[Len(s) + k] = t[k]

(* s \o t has the elements of s and then those of t.                       *)
LEMMA ConcatAt == ASSUME NEW S, NEW s \in Seq(S), NEW t \in Seq(S) PROVE Joined(S, s \o t, s, t)
BY DEF Joined

(* The bytes of v from r to w, by position.                                *)
Slice(S, c, v, r, w) ==
    c \in Seq(S) /\ Len(c) = w - r /\ \A k \in 1..(w - r) : c[k] = v[r + k]

(* SubSeq takes a slice.                                                   *)
LEMMA SubSeqSlice ==
    ASSUME NEW S, NEW v \in Seq(S), NEW r \in Nat, NEW w \in Nat, r <= w, w <= Len(v)
    PROVE  Slice(S, SubSeq(v, r + 1, w), v, r, w)
BY SubSeqAt DEF Slice

(* The dispatchers.  Descriptors are small integers, and one process has   *)
(* only so many.                                                           *)
DispatcherConstants ==
    /\ Fds \subseteq Nat /\ IsFiniteSet(Fds) /\ EVLIST_INIT_SIZE \in Nat \ {0}

TwoEvents == {"Read", "Write"}
Watched == {f \in Fds : chan_filter[f] # {}}

(* epoll and kqueue: evmap is what the channels asked for, the kernel      *)
(* watches nothing of other descriptors, kqueue exactly that of these, and *)
(* evlist has room for all that are added.                                 *)
EvmapOk ==
    backend \in {"epoll", "kqueue"} =>
        /\ evmap = chan_filter /\ DOMAIN kernel = Fds /\ evlist_size \in Nat
        /\ \A f \in Fds : chan_filter[f] = {} => kernel[f] = {}
        /\ backend = "kqueue" => kernel = chan_filter
        /\ added_fds = Cardinality(Watched) /\ added_fds < evlist_size

(* pollfds and indexs, of the table fl: where each descriptor is, and what *)
(* is at each place.                                                       *)
PollEntries == [fd: Fds, events: SUBSET TwoEvents]
PlacesOk(fl, pl, ix) ==
    /\ pl \in Seq(PollEntries) /\ ix \in [Fds -> Nat]
    /\ \A f \in Fds : fl[f] = {} => ix[f] = 0
    /\ \A f \in Fds : fl[f] # {} => ix[f] \in 1..Len(pl) /\ pl[ix[f]] = [fd |-> f, events |-> fl[f]]
    /\ \A k \in 1..Len(pl) : ix[pl[k].fd] = k

(* poll: pollfds has one entry of each descriptor, where indexs says.      *)
PollfdsOk == backend = "poll" => PlacesOk(chan_filter, pollfds, indexs)

(* select: the sets are what was asked for, and no descriptor is above     *)
(* maxfd.                                                                  *)
SetsOk ==
    backend = "select" =>
        /\ rdset = {f \in Fds : "Read" \in chan_filter[f]} /\ wrset = {f \in Fds : "Write" \in chan_filter[f]}
        /\ fds = Watched /\ maxfd \in Int /\ \A f \in fds : f <= maxfd

DispInv ==
    /\ backend \in {"epoll", "kqueue", "poll", "select"} /\ chan_filter \in [Fds -> SUBSET TwoEvents]
    /\ EvmapOk /\ PollfdsOk /\ SetsOk

(* The descriptors with events, after an event was added to one.           *)
LEMMA WatchedAfterAdd ==
    ASSUME DispatcherConstants, DispInv, NEW f \in Fds, NEW e \in TwoEvents,
           chan_filter' = [chan_filter EXCEPT ![f] = @ \cup {e}]
    PROVE  /\ chan_filter' \in [Fds -> SUBSET TwoEvents] /\ chan_filter'[f] = chan_filter[f] \cup {e}
           /\ \A g \in Fds : g # f => chan_filter'[g] = chan_filter[g]
           /\ Watched' = Watched \cup {f} /\ IsFiniteSet(Watched)
<1>1. chan_filter \in [Fds -> SUBSET TwoEvents]  BY DEF DispInv
<1>2. /\ chan_filter' \in [Fds -> SUBSET TwoEvents] /\ chan_filter'[f] = chan_filter[f] \cup {e}
      /\ \A g \in Fds : g # f => chan_filter'[g] = chan_filter[g]
  BY <1>1
<1>3. Watched' = Watched \cup {f}  BY <1>2 DEF Watched
<1>4. Watched \in SUBSET Fds /\ IsFiniteSet(Fds)  BY DEF Watched, DispatcherConstants
<1> QED  BY <1>2, <1>3, <1>4, FS_Subset

(* And after events were removed from one.                                 *)
LEMMA WatchedAfterRemove ==
    ASSUME DispatcherConstants, DispInv, NEW f \in Fds, NEW ev \in SUBSET TwoEvents, ev # {},
           ev \subseteq chan_filter[f], chan_filter' = [chan_filter EXCEPT ![f] = @ \ ev]
    PROVE  /\ chan_filter' \in [Fds -> SUBSET TwoEvents] /\ chan_filter'[f] = chan_filter[f] \ ev
           /\ \A g \in Fds : g # f => chan_filter'[g] = chan_filter[g]
           /\ f \in Watched /\ IsFiniteSet(Watched)
           /\ (chan_filter'[f] = {} <=> chan_filter[f] \subseteq ev)
           /\ Watched' = IF chan_filter[f] \subseteq ev THEN Watched \ {f} ELSE Watched
<1>1. chan_filter \in [Fds -> SUBSET TwoEvents]  BY DEF DispInv
<1>2. /\ chan_filter' \in [Fds -> SUBSET TwoEvents] /\ chan_filter'[f] = chan_filter[f] \ ev
      /\ \A g \in Fds : g # f => chan_filter'[g] = chan_filter[g]
  BY <1>1
<1>3. f \in Watched /\ (chan_filter'[f] = {} <=> chan_filter[f] \subseteq ev)  BY <1>2 DEF Watched
<1>4. Watched' = IF chan_filter[f] \subseteq ev THEN Watched \ {f} ELSE Watched  BY <1>2, <1>3 DEF Watched
<1>5. Watched \in SUBSET Fds /\ IsFiniteSet(Fds)  BY DEF Watched, DispatcherConstants
<1> QED  BY <1>2, <1>3, <1>4, <1>5, FS_Subset

(* epoll_base_t::add() and kqueue_base_t::add()                            *)
LEMMA EvmapAdd ==
    ASSUME DispatcherConstants, DispInv, backend \in {"epoll", "kqueue"}, backend' = backend,
           NEW f \in Fds, NEW e \in TwoEvents, e \notin chan_filter[f],
           chan_filter' = [chan_filter EXCEPT ![f] = @ \cup {e}],
           IF backend = "epoll" THEN Disp!EpollAdd(f, {e}) ELSE Disp!KqueueAdd(f, {e})
    PROVE  EvmapOk'
<1>0. /\ evmap = chan_filter /\ DOMAIN kernel = Fds /\ evlist_size \in Nat
      /\ \A g \in Fds : chan_filter[g] = {} => kernel[g] = {}
      /\ backend = "kqueue" => kernel = chan_filter
      /\ added_fds = Cardinality(Watched) /\ added_fds < evlist_size
  BY DEF DispInv, EvmapOk
<1>1. Disp!Table(f, {e})  BY DEF Disp!EpollAdd, Disp!KqueueAdd
<1>2. /\ evmap' = [evmap EXCEPT ![f] = @ \cup {e}]
      /\ added_fds' = added_fds + (IF evmap[f] = {} THEN 1 ELSE 0)
      /\ evlist_size' = IF evmap[f] = {} THEN Disp!resize_if(added_fds + 1, evlist_size) ELSE evlist_size
  BY <1>1 DEF Disp!Table
<1>3. /\ chan_filter'[f] = chan_filter[f] \cup {e} /\ \A g \in Fds : g # f => chan_filter'[g] = chan_filter[g]
      /\ Watched' = Watched \cup {f} /\ IsFiniteSet(Watched) /\ DOMAIN chan_filter = Fds
  BY WatchedAfterAdd DEF DispInv
<1>4. Cardinality(Watched) \in Nat  BY <1>3, FS_CardinalityType
<1>5. Cardinality(Watched') = IF f \in Watched THEN Cardinality(Watched) ELSE Cardinality(Watched) + 1
  BY <1>3, FS_AddElement
<1>6. f \in Watched <=> chan_filter[f] # {}  BY DEF Watched
<1>7. added_fds' = Cardinality(Watched') /\ added_fds' < evlist_size' /\ evlist_size' \in Nat
  <2>1. CASE chan_filter[f] = {}
    <3>1. added_fds' = added_fds + 1 /\ evlist_size' = Disp!resize_if(added_fds + 1, evlist_size)
      BY <1>0, <1>2, <2>1
    <3>2. added_fds + 1 < evlist_size' /\ evlist_size' \in Nat  BY <1>0, <1>4, <3>1 DEF Disp!resize_if
    <3> QED  BY <1>0, <1>5, <1>6, <2>1, <3>1, <3>2
  <2>2. CASE chan_filter[f] # {}
    <3>1. added_fds' = added_fds /\ evlist_size' = evlist_size  BY <1>0, <1>2, <1>4, <2>2
    <3> QED  BY <1>0, <1>5, <1>6, <2>2, <3>1
  <2> QED  BY <2>1, <2>2
<1>8. /\ DOMAIN kernel' = Fds /\ \A g \in Fds : g # f => kernel'[g] = kernel[g]
      /\ backend = "kqueue" => kernel' = [chan_filter EXCEPT ![f] = @ \cup {e}]
  <2>1. CASE backend = "epoll"
    <3>1. PICK g \in Garbage :
            kernel' = IF "Invalid" \in g \/ (evmap[f] # {} /\ kernel[f] = {}) THEN kernel
                      ELSE [kernel EXCEPT ![f] = (evmap[f] \cup {e}) \cup {"Error"} \cup g]
      BY <2>1 DEF Disp!EpollAdd, Disp!EEV_SET
    <3> QED  BY <1>0, <2>1, <3>1
  <2>2. CASE backend = "kqueue"
    <3>1. kernel' = [kernel EXCEPT ![f] = @ \cup {e}]  BY <2>2 DEF Disp!KqueueAdd
    <3> QED  BY <1>0, <2>2, <3>1
  <2> QED  BY <2>1, <2>2
<1>9. \A g \in Fds : chan_filter'[g] = {} => kernel'[g] = {}
  BY <1>0, <1>3, <1>8
<1>10. backend = "kqueue" => kernel' = chan_filter'  BY <1>8
<1>11. evmap' = chan_filter'  BY <1>0, <1>2
<1> QED  BY <1>7, <1>8, <1>9, <1>10, <1>11 DEF EvmapOk

(* epoll_base_t::remove() and kqueue_base_t::remove()                      *)
LEMMA EvmapRemove ==
    ASSUME DispatcherConstants, DispInv, backend \in {"epoll", "kqueue"}, backend' = backend,
           NEW f \in Fds, NEW ev \in SUBSET TwoEvents, ev # {}, ev \subseteq chan_filter[f],
           chan_filter' = [chan_filter EXCEPT ![f] = @ \ ev],
           IF backend = "epoll" THEN Disp!EpollRemove(f, ev) ELSE Disp!KqueueRemove(f, ev)
    PROVE  EvmapOk'
<1>0. /\ evmap = chan_filter /\ DOMAIN kernel = Fds /\ evlist_size \in Nat
      /\ \A g \in Fds : chan_filter[g] = {} => kernel[g] = {}
      /\ backend = "kqueue" => kernel = chan_filter
      /\ added_fds = Cardinality(Watched) /\ added_fds < evlist_size
  BY DEF DispInv, EvmapOk
<1>1. Disp!Clear(f, ev)  BY DEF Disp!EpollRemove, Disp!KqueueRemove
<1>2. /\ evmap' = [evmap EXCEPT ![f] = @ \ ev] /\ evlist_size' = evlist_size
      /\ added_fds' = added_fds - (IF evmap[f] \subseteq ev THEN 1 ELSE 0)
  BY <1>1 DEF Disp!Clear
<1>3. /\ chan_filter'[f] = chan_filter[f] \ ev /\ \A g \in Fds : g # f => chan_filter'[g] = chan_filter[g]
      /\ f \in Watched /\ IsFiniteSet(Watched) /\ (chan_filter'[f] = {} <=> chan_filter[f] \subseteq ev)
      /\ Watched' = IF chan_filter[f] \subseteq ev THEN Watched \ {f} ELSE Watched
  BY WatchedAfterRemove
<1>4. Cardinality(Watched) \in Nat  BY <1>3, FS_CardinalityType
<1>5. Cardinality(Watched \ {f}) = Cardinality(Watched) - 1  BY <1>3, FS_RemoveElement
<1>6. added_fds' = Cardinality(Watched') /\ added_fds' < evlist_size' /\ evlist_size' \in Nat
  <2>1. CASE chan_filter[f] \subseteq ev
    <3>1. added_fds' = added_fds - 1 /\ Watched' = Watched \ {f}  BY <1>0, <1>2, <1>3, <2>1
    <3> QED  BY <1>0, <1>2, <1>4, <1>5, <3>1
  <2>2. CASE ~(chan_filter[f] \subseteq ev)
    <3>1. added_fds' = added_fds - 0 /\ Watched' = Watched  BY <1>0, <1>2, <1>3, <2>2
    <3> QED  BY <1>0, <1>2, <1>4, <3>1
  <2> QED  BY <2>1, <2>2
<1>7. /\ DOMAIN kernel' = Fds /\ \A g \in Fds : g # f => kernel'[g] = kernel[g]
      /\ chan_filter[f] \subseteq ev => kernel'[f] = {}
      /\ backend = "kqueue" => kernel' = [chan_filter EXCEPT ![f] = @ \ ev]
  <2>1. CASE backend = "epoll" /\ chan_filter[f] \subseteq ev
    <3>1. kernel' = [kernel EXCEPT ![f] = {}]  BY <1>0, <2>1 DEF Disp!EpollRemove
    <3> QED  BY <1>0, <2>1, <3>1
  <2>2. CASE backend = "epoll" /\ ~(chan_filter[f] \subseteq ev)
    <3>1. PICK g \in Garbage :
            kernel' = IF "Invalid" \in g \/ (evmap[f] # {} /\ kernel[f] = {}) THEN kernel
                      ELSE [kernel EXCEPT ![f] = (evmap[f] \ ev) \cup {"Error"} \cup g]
      BY <1>0, <2>2 DEF Disp!EpollRemove, Disp!EEV_SET
    <3> QED  BY <1>0, <2>2, <3>1
  <2>3. CASE backend = "kqueue"
    <3>1. kernel' = [kernel EXCEPT ![f] = @ \ ev]  BY <2>3 DEF Disp!KqueueRemove
    <3>2. chan_filter[f] \subseteq ev => chan_filter[f] \ ev = {}  OBVIOUS
    <3> QED  BY <1>0, <2>3, <3>1, <3>2
  <2> QED  BY <2>1, <2>2, <2>3
<1>8. \A g \in Fds : chan_filter'[g] = {} => kernel'[g] = {}
  BY <1>0, <1>3, <1>7
<1>9. backend = "kqueue" => kernel' = chan_filter'  BY <1>7
<1>10. evmap' = chan_filter'  BY <1>0, <1>2
<1> QED  BY <1>6, <1>7, <1>8, <1>9, <1>10 DEF EvmapOk

(* select_base_t::add() and remove()                                       *)
LEMMA SetsAdd ==
    ASSUME DispatcherConstants, DispInv, backend = "select", NEW f \in Fds, NEW e \in TwoEvents,
           chan_filter' = [chan_filter EXCEPT ![f] = @ \cup {e}], Disp!SelectAdd(f, {e})
    PROVE  SetsOk'
<1>0. /\ rdset = {g \in Fds : "Read" \in chan_filter[g]} /\ wrset = {g \in Fds : "Write" \in chan_filter[g]}
      /\ fds = Watched /\ maxfd \in Int /\ \A g \in fds : g <= maxfd
  BY DEF DispInv, SetsOk
<1>1. /\ chan_filter'[f] = chan_filter[f] \cup {e} /\ \A g \in Fds : g # f => chan_filter'[g] = chan_filter[g]
      /\ Watched' = Watched \cup {f}
  BY WatchedAfterAdd
<1>2. /\ rdset' = IF "Read" \in {e} THEN rdset \cup {f} ELSE rdset
      /\ wrset' = IF "Write" \in {e} THEN wrset \cup {f} ELSE wrset
      /\ fds' = fds \cup {f} /\ maxfd' = IF f \notin fds /\ f > maxfd THEN f ELSE maxfd
  BY DEF Disp!SelectAdd
<1>3. rdset' = {g \in Fds : "Read" \in chan_filter'[g]}  BY <1>0, <1>1, <1>2
<1>4. wrset' = {g \in Fds : "Write" \in chan_filter'[g]}  BY <1>0, <1>1, <1>2
<1>5. f \in Int /\ Watched \subseteq Int
  <2>1. \A g \in Fds : g \in Int  BY DEF DispatcherConstants
  <2>2. Watched \subseteq Fds  BY DEF Watched
  <2> QED  BY <2>1, <2>2
<1>6. maxfd' \in Int /\ \A g \in fds' : g <= maxfd'  BY <1>0, <1>2, <1>5
<1> QED  BY <1>0, <1>1, <1>2, <1>3, <1>4, <1>6 DEF SetsOk

(* The descriptor that goes may be the highest.                            *)
LEMMA SetsRemove ==
    ASSUME DispatcherConstants, DispInv, backend = "select",
           NEW f \in Fds, NEW ev \in SUBSET TwoEvents, ev # {}, ev \subseteq chan_filter[f],
           chan_filter' = [chan_filter EXCEPT ![f] = @ \ ev], Disp!SelectRemove(f, ev)
    PROVE  SetsOk'
<1>0. /\ rdset = {g \in Fds : "Read" \in chan_filter[g]} /\ wrset = {g \in Fds : "Write" \in chan_filter[g]}
      /\ fds = Watched /\ maxfd \in Int /\ \A g \in fds : g <= maxfd
  BY DEF DispInv, SetsOk
<1>1. /\ chan_filter'[f] = chan_filter[f] \ ev /\ \A g \in Fds : g # f => chan_filter'[g] = chan_filter[g]
      /\ (chan_filter'[f] = {} <=> chan_filter[f] \subseteq ev)
      /\ Watched' = IF chan_filter[f] \subseteq ev THEN Watched \ {f} ELSE Watched
      /\ chan_filter' \in [Fds -> SUBSET TwoEvents]
  BY WatchedAfterRemove
<1>2. /\ rdset' = IF "Read" \in ev THEN rdset \ {f} ELSE rdset
      /\ wrset' = IF "Write" \in ev THEN wrset \ {f} ELSE wrset
      /\ IF f \in rdset' \cup wrset' THEN UNCHANGED <<fds, maxfd>>
         ELSE fds' = fds \ {f} /\ maxfd' = IF f = maxfd THEN maxfd - 1 ELSE maxfd
  BY DEF Disp!SelectRemove
<1>3. rdset' = {g \in Fds : "Read" \in chan_filter'[g]}  BY <1>0, <1>1, <1>2
<1>4. wrset' = {g \in Fds : "Write" \in chan_filter'[g]}  BY <1>0, <1>1, <1>2
<1>5. f \in rdset' \cup wrset' <=> chan_filter'[f] # {}
  <2>1. chan_filter'[f] \subseteq {"Read", "Write"}  BY <1>1 DEF TwoEvents
  <2> QED  BY <1>3, <1>4, <2>1
<1>6. f \in Int /\ Watched \subseteq Int
  <2>1. \A g \in Fds : g \in Int  BY DEF DispatcherConstants
  <2>2. Watched \subseteq Fds  BY DEF Watched
  <2> QED  BY <2>1, <2>2
<1>7. CASE chan_filter'[f] # {}
  <2>1. fds' = fds /\ maxfd' = maxfd /\ Watched' = Watched  BY <1>1, <1>2, <1>5, <1>7
  <2> QED  BY <1>0, <1>3, <1>4, <2>1 DEF SetsOk
<1>8. CASE chan_filter'[f] = {}
  <2>1. fds' = fds \ {f} /\ (maxfd' = IF f = maxfd THEN maxfd - 1 ELSE maxfd) /\ Watched' = Watched \ {f}
    BY <1>1, <1>2, <1>5, <1>8
  <2>2. maxfd' \in Int /\ \A g \in fds' : g <= maxfd'  BY <1>0, <1>6, <2>1
  <2> QED  BY <1>0, <1>3, <1>4, <2>1, <2>2 DEF SetsOk
<1> QED  BY <1>7, <1>8

(* The events of one entry are replaced.                                   *)
LEMMA PollSet ==
    ASSUME NEW fl, NEW pl, NEW ix, PlacesOk(fl, pl, ix), NEW f \in Fds, fl[f] # {},
           NEW ev \in SUBSET TwoEvents, ev # {}, NEW fl2, fl2[f] = ev,
           \A g \in Fds : g # f => fl2[g] = fl[g]
    PROVE  PlacesOk(fl2, [pl EXCEPT ![ix[f]].events = ev], ix)
<1> DEFINE i == ix[f]
           p == [pl EXCEPT ![i].events = ev]
<1>1. /\ pl \in Seq(PollEntries) /\ ix \in [Fds -> Nat]
      /\ i \in 1..Len(pl) /\ pl[i] = [fd |-> f, events |-> fl[f]]
  BY DEF PlacesOk
<1>2. PICK n \in Nat : n = Len(pl)  BY <1>1
<1> HIDE DEF i
<1>3. p = [pl EXCEPT ![i] = [fd |-> f, events |-> ev]]
  <2>1. [pl[i] EXCEPT !.events = ev] = [fd |-> f, events |-> ev]  BY <1>1
  <2>2. p = [pl EXCEPT ![i] = [pl[i] EXCEPT !.events = ev]]  OBVIOUS
  <2> QED  BY <2>1, <2>2
<1>4. [fd |-> f, events |-> ev] \in PollEntries  BY DEF PollEntries
<1>5. p \in Seq(PollEntries) /\ Len(p) = n /\ p[i] = [fd |-> f, events |-> ev]
      /\ \A k \in 1..n : k # i => p[k] = pl[k]
  BY <1>1, <1>2, <1>3, <1>4
<1> HIDE DEF p
<1>6. \A g \in Fds : fl2[g] = {} => ix[g] = 0  BY DEF PlacesOk
<1>7. ASSUME NEW g \in Fds, fl2[g] # {} PROVE ix[g] \in 1..n /\ p[ix[g]] = [fd |-> g, events |-> fl2[g]]
  <2>1. CASE g = f  BY <1>1, <1>2, <1>5, <2>1 DEF i
  <2>2. CASE g # f
    <3>1. ix[g] \in 1..n /\ pl[ix[g]] = [fd |-> g, events |-> fl[g]] /\ fl2[g] = fl[g]
      BY <1>2, <1>7, <2>2 DEF PlacesOk
    <3>2. pl[ix[g]].fd = g /\ pl[i].fd = f  BY <1>1, <3>1
    <3>3. ix[g] # i  BY <2>2, <3>2
    <3> QED  BY <1>5, <3>1, <3>3
  <2> QED  BY <2>1, <2>2
<1>8. ASSUME NEW k \in 1..n PROVE ix[p[k].fd] = k
  <2>1. CASE k = i
    <3>1. p[k].fd = f  BY <1>5, <2>1
    <3> QED  BY <2>1, <3>1 DEF i
  <2>2. CASE k # i  BY <1>2, <1>5, <2>2 DEF PlacesOk
  <2> QED  BY <2>1, <2>2
<1>9. PlacesOk(fl2, p, ix)  BY <1>1, <1>5, <1>6, <1>7, <1>8 DEF PlacesOk
<1> QED  BY <1>9 DEF p, i

(* An entry is appended.                                                   *)
LEMMA PollAppend ==
    ASSUME NEW fl, NEW pl, NEW ix, PlacesOk(fl, pl, ix), NEW f \in Fds, fl[f] = {},
           NEW ev \in SUBSET TwoEvents, ev # {}, NEW fl2, fl2[f] = ev,
           \A g \in Fds : g # f => fl2[g] = fl[g]
    PROVE  PlacesOk(fl2, Append(pl, [fd |-> f, events |-> ev]), [ix EXCEPT ![f] = Len(pl) + 1])
<1>1. pl \in Seq(PollEntries) /\ ix \in [Fds -> Nat]  BY DEF PlacesOk
<1>2. PICK n \in Nat : n = Len(pl)  BY <1>1
<1> DEFINE x == [fd |-> f, events |-> ev]
           p == Append(pl, x)
           j == [ix EXCEPT ![f] = n + 1]
<1>3. x \in PollEntries /\ x.fd = f  BY DEF PollEntries
<1> HIDE DEF x
<1>4. p \in Seq(PollEntries) /\ Len(p) = n + 1 /\ p[n + 1] = x /\ \A k \in 1..n : p[k] = pl[k]
  BY <1>1, <1>2, <1>3, AppendAt
<1>5. j \in [Fds -> Nat] /\ j[f] = n + 1 /\ \A g \in Fds : g # f => j[g] = ix[g]  BY <1>1
<1> HIDE DEF p, j
<1>6. \A g \in Fds : fl2[g] = {} => j[g] = 0  BY <1>5 DEF PlacesOk
<1>7. ASSUME NEW g \in Fds, fl2[g] # {} PROVE j[g] \in 1..(n + 1) /\ p[j[g]] = [fd |-> g, events |-> fl2[g]]
  <2>1. CASE g = f  BY <1>4, <1>5, <2>1 DEF x
  <2>2. CASE g # f
    <3>1. ix[g] \in 1..n /\ pl[ix[g]] = [fd |-> g, events |-> fl[g]] /\ fl2[g] = fl[g]
      BY <1>2, <1>7, <2>2 DEF PlacesOk
    <3>2. ix[g] \in 1..(n + 1)  BY <3>1
    <3> QED  BY <1>4, <1>5, <2>2, <3>1, <3>2
  <2> QED  BY <2>1, <2>2
<1>8. ASSUME NEW k \in 1..(n + 1) PROVE j[p[k].fd] = k
  <2>1. CASE k = n + 1  BY <1>3, <1>4, <1>5, <2>1
  <2>2. CASE k # n + 1
    <3>1. k \in 1..n /\ p[k] = pl[k]  BY <1>4, <2>2
    <3>2. ix[pl[k].fd] = k /\ pl[k] \in PollEntries  BY <1>1, <1>2, <3>1 DEF PlacesOk
    <3>3. pl[k].fd \in Fds /\ ix[f] = 0  BY <3>2 DEF PollEntries, PlacesOk
    <3>4. pl[k].fd # f  BY <3>1, <3>2, <3>3
    <3> QED  BY <1>5, <3>1, <3>2, <3>3, <3>4
  <2> QED  BY <2>1, <2>2
<1>9. PlacesOk(fl2, p, j)  BY <1>4, <1>5, <1>6, <1>7, <1>8 DEF PlacesOk
<1> QED  BY <1>2, <1>9 DEF p, j, x

(* The last entry takes the place of the one that is removed.              *)
LEMMA PollSwap ==
    ASSUME NEW fl, NEW pl, NEW ix, PlacesOk(fl, pl, ix), NEW f \in Fds, fl[f] # {},
           NEW fl2, fl2[f] = {}, \A g \in Fds : g # f => fl2[g] = fl[g]
    PROVE  PlacesOk(fl2, Disp!Front([pl EXCEPT ![ix[f]] = Disp!Last(pl)]),
                    [ix EXCEPT ![Disp!Last(pl).fd] = ix[f], ![f] = 0])
<1>1. pl \in Seq(PollEntries) /\ ix \in [Fds -> Nat]  BY DEF PlacesOk
<1>2. PICK n \in Nat : n = Len(pl)  BY <1>1
<1>3. PICK i \in 1..n : i = ix[f] /\ pl[i] = [fd |-> f, events |-> fl[f]]  BY <1>2 DEF PlacesOk
<1>4. n \in 1..n /\ n - 1 \in Nat /\ i \in 1..n /\ i <= n  BY <1>3
<1>5. PICK l \in PollEntries : l = pl[n] /\ l = Disp!Last(pl)  BY <1>1, <1>2, <1>4 DEF Disp!Last
<1>6. PICK h \in Fds : h = l.fd  BY <1>5 DEF PollEntries
<1>7. ix[h] = n /\ (h = f <=> i = n)
  <2>1. ix[h] = n  BY <1>2, <1>4, <1>5, <1>6 DEF PlacesOk
  <2>2. h = f => i = n  BY <1>3, <2>1
  <2>3. pl[i].fd = f  BY <1>3
  <2>4. i = n => h = f  BY <1>5, <1>6, <2>3
  <2> QED  BY <2>1, <2>2, <2>4
<1> DEFINE m == [pl EXCEPT ![i] = l]
           p == SubSeq(m, 0 + 1, n - 1)
           j == [ix EXCEPT ![h] = i, ![f] = 0]
<1>8. m \in Seq(PollEntries) /\ Len(m) = n /\ m[i] = l /\ \A k \in 1..n : k # i => m[k] = pl[k]
  BY <1>1, <1>2, <1>4, <1>5
<1> HIDE DEF m
<1>9. Slice(PollEntries, p, m, 0, n - 1)
  <2>1. 0 \in Nat /\ 0 <= n - 1 /\ n - 1 <= Len(m) /\ n - 1 \in Nat  BY <1>4, <1>8
  <2> QED  BY <1>8, <2>1, SubSeqSlice
<1> HIDE DEF p
<1>10. p \in Seq(PollEntries) /\ Len(p) = n - 1 /\ \A k \in 1..(n - 1) : p[k] = m[k]
  BY <1>4, <1>9 DEF Slice
<1>11. j \in [Fds -> Nat] /\ j[f] = 0 /\ (h # f => j[h] = i) /\ \A g \in Fds : g # f /\ g # h => j[g] = ix[g]
  BY <1>1, <1>4
<1> HIDE DEF j
<1>12. \A g \in Fds : g = h /\ h # f => fl[g] # {}
  <2>1. ASSUME h # f, fl[h] = {} PROVE FALSE
    <3>1. ix[h] = 0  BY <2>1 DEF PlacesOk
    <3> QED  BY <1>4, <1>7, <3>1
  <2> QED  BY <2>1
<1>13. \A g \in Fds : fl2[g] = {} => j[g] = 0
  BY <1>11, <1>12 DEF PlacesOk
<1>14. ASSUME NEW g \in Fds, fl2[g] # {} PROVE j[g] \in 1..(n - 1) /\ p[j[g]] = [fd |-> g, events |-> fl2[g]]
  <2>1. g # f /\ fl2[g] = fl[g] /\ ix[g] \in 1..n /\ pl[ix[g]] = [fd |-> g, events |-> fl2[g]]
    BY <1>2, <1>14 DEF PlacesOk
  <2>2. CASE g = h
    <3>1. i # n /\ j[g] = i /\ pl[n] = [fd |-> g, events |-> fl2[g]]  BY <1>7, <1>11, <2>1, <2>2
    <3>2. i \in 1..(n - 1)  BY <1>4, <3>1
    <3> QED  BY <1>5, <1>8, <1>10, <3>1, <3>2
  <2>3. CASE g # h
    <3>1. j[g] = ix[g]  BY <1>11, <2>1, <2>3
    <3>2. pl[ix[g]].fd = g /\ pl[i].fd = f /\ pl[n].fd = h  BY <1>3, <1>5, <1>6, <2>1
    <3>3. ix[g] # i /\ ix[g] # n  BY <2>1, <2>3, <3>2
    <3>4. ix[g] \in 1..(n - 1)  BY <1>4, <2>1, <3>3
    <3> QED  BY <1>8, <1>10, <2>1, <3>1, <3>3, <3>4
  <2> QED  BY <2>2, <2>3
<1>15. ASSUME NEW k \in 1..(n - 1) PROVE j[p[k].fd] = k
  <2>1. k \in 1..n /\ k # n  BY <1>4
  <2>2. CASE k = i
    <3>1. p[k] = l /\ h # f  BY <1>7, <1>8, <1>10, <2>1, <2>2
    <3> QED  BY <1>6, <1>11, <2>2, <3>1
  <2>3. CASE k # i
    <3>1. p[k] = pl[k]  BY <1>8, <1>10, <2>1, <2>3
    <3>2. ix[pl[k].fd] = k /\ pl[k] \in PollEntries  BY <1>1, <1>2, <2>1 DEF PlacesOk
    <3>3. pl[k].fd \in Fds  BY <3>2 DEF PollEntries
    <3>4. pl[k].fd # f /\ pl[k].fd # h  BY <1>3, <1>7, <2>1, <2>3, <3>2
    <3> QED  BY <1>11, <3>1, <3>2, <3>3, <3>4
  <2> QED  BY <2>2, <2>3
<1>16. PlacesOk(fl2, p, j)  BY <1>10, <1>11, <1>13, <1>14, <1>15 DEF PlacesOk
<1>17. p = Disp!Front([pl EXCEPT ![ix[f]] = Disp!Last(pl)])
  <2>1. m = [pl EXCEPT ![ix[f]] = Disp!Last(pl)]  BY <1>3, <1>5 DEF m
  <2>2. Disp!Front(m) = SubSeq(m, 1, n - 1)  BY <1>8 DEF Disp!Front
  <2>3. p = SubSeq(m, 1, n - 1)  BY DEF p
  <2> QED  BY <2>1, <2>2, <2>3
<1>18. j = [ix EXCEPT ![Disp!Last(pl).fd] = ix[f], ![f] = 0]  BY <1>3, <1>5, <1>6 DEF j
<1> QED  BY <1>16, <1>17, <1>18

(* poll_base_t::add()                                                      *)
LEMMA PollfdsAdd ==
    ASSUME DispatcherConstants, DispInv, backend = "poll", NEW f \in Fds, NEW e \in TwoEvents,
           chan_filter' = [chan_filter EXCEPT ![f] = @ \cup {e}], Disp!PollAdd(f, {e})
    PROVE  PlacesOk(chan_filter', pollfds', indexs')
<1>0. PlacesOk(chan_filter, pollfds, indexs)  BY DEF DispInv, PollfdsOk
<1>1. /\ chan_filter'[f] = chan_filter[f] \cup {e} /\ chan_filter' \in [Fds -> SUBSET TwoEvents]
      /\ \A g \in Fds : g # f => chan_filter'[g] = chan_filter[g]
  BY WatchedAfterAdd
<1>2. chan_filter'[f] \in SUBSET TwoEvents /\ chan_filter'[f] # {}  BY <1>1
<1>3. CASE chan_filter[f] = {}
  <2>1. indexs[f] = 0  BY <1>0, <1>3 DEF PlacesOk
  <2>2. chan_filter'[f] = {e}  BY <1>1, <1>3
  <2>3. pollfds' = Append(pollfds, [fd |-> f, events |-> chan_filter'[f]])
        /\ indexs' = [indexs EXCEPT ![f] = Len(pollfds) + 1]
    BY <2>1, <2>2 DEF Disp!PollAdd
  <2>4. PlacesOk(chan_filter', Append(pollfds, [fd |-> f, events |-> chan_filter'[f]]),
                 [indexs EXCEPT ![f] = Len(pollfds) + 1])
    BY <1>0, <1>1, <1>2, <1>3, PollAppend
  <2> QED  BY <2>3, <2>4
<1>4. CASE chan_filter[f] # {}
  <2>1. /\ indexs[f] \in 1..Len(pollfds) /\ pollfds[indexs[f]] = [fd |-> f, events |-> chan_filter[f]]
        /\ pollfds \in Seq(PollEntries)
    BY <1>0, <1>4 DEF PlacesOk
  <2>2. indexs[f] # 0  BY <2>1
  <2>3. pollfds' = [pollfds EXCEPT ![indexs[f]].events = @ \cup {e}] /\ indexs' = indexs
    BY <2>2 DEF Disp!PollAdd
  <2>4. pollfds[indexs[f]].events \cup {e} = chan_filter'[f]  BY <1>1, <2>1
  <2>5. pollfds' = [pollfds EXCEPT ![indexs[f]].events = chan_filter'[f]]  BY <2>3, <2>4
  <2>6. PlacesOk(chan_filter', [pollfds EXCEPT ![indexs[f]].events = chan_filter'[f]], indexs)
    BY <1>0, <1>1, <1>2, <1>4, PollSet
  <2> QED  BY <2>3, <2>5, <2>6
<1> QED  BY <1>3, <1>4

(* poll_base_t::remove()                                                   *)
LEMMA PollfdsRemove ==
    ASSUME DispatcherConstants, DispInv, backend = "poll",
           NEW f \in Fds, NEW ev \in SUBSET TwoEvents, ev # {}, ev \subseteq chan_filter[f],
           chan_filter' = [chan_filter EXCEPT ![f] = @ \ ev], Disp!PollRemove(f, ev)
    PROVE  PlacesOk(chan_filter', pollfds', indexs')
<1>0. PlacesOk(chan_filter, pollfds, indexs)  BY DEF DispInv, PollfdsOk
<1>1. /\ chan_filter'[f] = chan_filter[f] \ ev /\ chan_filter' \in [Fds -> SUBSET TwoEvents]
      /\ \A g \in Fds : g # f => chan_filter'[g] = chan_filter[g]
  BY WatchedAfterRemove
<1>2. chan_filter[f] # {} /\ chan_filter'[f] \in SUBSET TwoEvents  BY <1>1
<1>3. pollfds[indexs[f]] = [fd |-> f, events |-> chan_filter[f]]  BY <1>0, <1>2 DEF PlacesOk
<1>4. pollfds[indexs[f]].events \ ev = chan_filter'[f]  BY <1>1, <1>3
<1>5. IF chan_filter'[f] # {}
      THEN pollfds' = [pollfds EXCEPT ![indexs[f]].events = chan_filter'[f]] /\ indexs' = indexs
      ELSE /\ pollfds' = Disp!Front([pollfds EXCEPT ![indexs[f]] = Disp!Last(pollfds)])
           /\ indexs' = [indexs EXCEPT ![Disp!Last(pollfds).fd] = indexs[f], ![f] = 0]
  BY <1>4 DEF Disp!PollRemove
<1>6. CASE chan_filter'[f] # {}
  <2>1. PlacesOk(chan_filter', [pollfds EXCEPT ![indexs[f]].events = chan_filter'[f]], indexs)
    BY <1>0, <1>1, <1>2, <1>6, PollSet
  <2> QED  BY <1>5, <1>6, <2>1
<1>7. CASE chan_filter'[f] = {}
  <2>1. PlacesOk(chan_filter', Disp!Front([pollfds EXCEPT ![indexs[f]] = Disp!Last(pollfds)]),
                 [indexs EXCEPT ![Disp!Last(pollfds).fd] = indexs[f], ![f] = 0])
    BY <1>0, <1>1, <1>2, <1>7, PollSwap
  <2> QED  BY <1>5, <1>7, <2>1
<1> QED  BY <1>6, <1>7

(* channel::enable_read() and enable_write()                               *)
LEMMA DispAddEvent ==
    ASSUME DispatcherConstants, DispInv, NEW f \in Fds, NEW e \in TwoEvents, Disp!AddEvent(f, e)
    PROVE  DispInv'
<1>1. /\ e \notin chan_filter[f] /\ chan_filter' = [chan_filter EXCEPT ![f] = @ \cup {e}] /\ backend' = backend
      /\ Disp!Backend(Disp!EpollAdd(f, {e}), Disp!KqueueAdd(f, {e}), Disp!PollAdd(f, {e}), Disp!SelectAdd(f, {e}))
  BY DEF Disp!AddEvent
<1>2. chan_filter' \in [Fds -> SUBSET TwoEvents]  BY <1>1, WatchedAfterAdd
<1>3. CASE backend = "epoll" /\ Disp!EpollAdd(f, {e})
  <2>1. EvmapOk'  BY <1>1, <1>3, EvmapAdd
  <2>2. PollfdsOk' /\ SetsOk'  BY <1>1, <1>3 DEF PollfdsOk, SetsOk
  <2> QED  BY <1>1, <1>2, <2>1, <2>2 DEF DispInv
<1>4. CASE backend = "kqueue" /\ Disp!KqueueAdd(f, {e})
  <2>1. EvmapOk'  BY <1>1, <1>4, EvmapAdd
  <2>2. PollfdsOk' /\ SetsOk'  BY <1>1, <1>4 DEF PollfdsOk, SetsOk
  <2> QED  BY <1>1, <1>2, <2>1, <2>2 DEF DispInv
<1>5. CASE backend = "poll" /\ Disp!PollAdd(f, {e})
  <2>1. PollfdsOk'  BY <1>1, <1>5, PollfdsAdd DEF PollfdsOk
  <2>2. EvmapOk' /\ SetsOk'  BY <1>1, <1>5 DEF EvmapOk, SetsOk
  <2> QED  BY <1>1, <1>2, <2>1, <2>2 DEF DispInv
<1>6. CASE backend = "select" /\ Disp!SelectAdd(f, {e})
  <2>1. SetsOk'  BY <1>1, <1>6, SetsAdd
  <2>2. EvmapOk' /\ PollfdsOk'  BY <1>1, <1>6 DEF EvmapOk, PollfdsOk
  <2> QED  BY <1>1, <1>2, <2>1, <2>2 DEF DispInv
<1> QED  BY <1>1, <1>3, <1>4, <1>5, <1>6 DEF Disp!Backend

(* channel::disable_read(), disable_write() and disable_all()              *)
LEMMA DispRemoveEvents ==
    ASSUME DispatcherConstants, DispInv, NEW f \in Fds, NEW ev \in SUBSET TwoEvents, Disp!RemoveEvents(f, ev)
    PROVE  DispInv'
<1>1. /\ ev # {} /\ ev \subseteq chan_filter[f] /\ chan_filter' = [chan_filter EXCEPT ![f] = @ \ ev] /\ backend' = backend
      /\ Disp!Backend(Disp!EpollRemove(f, ev), Disp!KqueueRemove(f, ev), Disp!PollRemove(f, ev), Disp!SelectRemove(f, ev))
  BY DEF Disp!RemoveEvents
<1>2. chan_filter' \in [Fds -> SUBSET TwoEvents]  BY <1>1, WatchedAfterRemove
<1>3. CASE backend = "epoll" /\ Disp!EpollRemove(f, ev)
  <2>1. EvmapOk'  BY <1>1, <1>3, EvmapRemove
  <2>2. PollfdsOk' /\ SetsOk'  BY <1>1, <1>3 DEF PollfdsOk, SetsOk
  <2> QED  BY <1>1, <1>2, <2>1, <2>2 DEF DispInv
<1>4. CASE backend = "kqueue" /\ Disp!KqueueRemove(f, ev)
  <2>1. EvmapOk'  BY <1>1, <1>4, EvmapRemove
  <2>2. PollfdsOk' /\ SetsOk'  BY <1>1, <1>4 DEF PollfdsOk, SetsOk
  <2> QED  BY <1>1, <1>2, <2>1, <2>2 DEF DispInv
<1>5. CASE backend = "poll" /\ Disp!PollRemove(f, ev)
  <2>1. PollfdsOk'  BY <1>1, <1>5, PollfdsRemove DEF PollfdsOk
  <2>2. EvmapOk' /\ SetsOk'  BY <1>1, <1>5 DEF EvmapOk, SetsOk
  <2> QED  BY <1>1, <1>2, <2>1, <2>2 DEF DispInv
<1>6. CASE backend = "select" /\ Disp!SelectRemove(f, ev)
  <2>1. SetsOk'  BY <1>1, <1>6, SetsRemove
  <2>2. EvmapOk' /\ PollfdsOk'  BY <1>1, <1>6 DEF EvmapOk, PollfdsOk
  <2> QED  BY <1>1, <1>2, <2>1, <2>2 DEF DispInv
<1> QED  BY <1>1, <1>3, <1>4, <1>5, <1>6 DEF Disp!Backend

(* What no step of wait() touches.                                         *)
LEMMA DispUntouched ==
    ASSUME DispInv, UNCHANGED <<backend, chan_filter, evmap, evlist_size, added_fds, kernel, pollfds, indexs,
                                rdset, wrset, fds, maxfd>>
    PROVE  DispInv'
<1>1. Watched' = Watched  BY DEF Watched
<1>2. EvmapOk'  BY <1>1 DEF DispInv, EvmapOk
<1>3. PollfdsOk' /\ SetsOk'  BY <1>1 DEF DispInv, PollfdsOk, SetsOk
<1> QED  BY <1>2, <1>3 DEF DispInv

(* An epoll_ctl() of one descriptor leaves the others alone.              *)
LEMMA EpollElsewhere ==
    ASSUME DispInv, backend = "epoll", NEW f \in Fds, NEW ev,
           Disp!EpollAdd(f, ev) \/ Disp!EpollRemove(f, ev)
    PROVE  \A g \in Fds : g # f => kernel'[g] = kernel[g]
<1>1. DOMAIN kernel = Fds  BY DEF DispInv, EvmapOk
<1>2. ASSUME NEW x, Disp!EEV_SET(f, x) PROVE \A g \in Fds : g # f => kernel'[g] = kernel[g]
  <2>1. PICK m \in Garbage :
          kernel' = IF "Invalid" \in m \/ (evmap[f] # {} /\ kernel[f] = {}) THEN kernel
                    ELSE [kernel EXCEPT ![f] = x \cup {"Error"} \cup m]
    BY <1>2 DEF Disp!EEV_SET
  <2> QED  BY <1>1, <2>1
<1>3. CASE Disp!EpollAdd(f, ev)
  <2>1. Disp!EEV_SET(f, evmap[f] \cup ev)  BY <1>3 DEF Disp!EpollAdd
  <2> QED  BY <1>2, <2>1
<1>4. CASE Disp!EpollRemove(f, ev)
  <2>1. CASE evmap[f] \subseteq ev
    <3>1. kernel' = [kernel EXCEPT ![f] = {}]  BY <1>4, <2>1 DEF Disp!EpollRemove
    <3> QED  BY <1>1, <3>1
  <2>2. CASE ~(evmap[f] \subseteq ev)
    <3>1. Disp!EEV_SET(f, evmap[f] \ ev)  BY <1>4, <2>2 DEF Disp!EpollRemove
    <3> QED  BY <1>2, <3>1
  <2> QED  BY <2>1, <2>2
<1> QED  BY <1>3, <1>4

(* So only that one may become marred.                                     *)
LEMMA MarredElsewhere ==
    ASSUME DispInv, NEW f \in Fds, backend' = backend,
           \A g \in Fds : g # f => chan_filter'[g] = chan_filter[g],
           backend = "epoll" => \A g \in Fds : g # f => kernel'[g] = kernel[g]
    PROVE  Disp!Marred' \ {f} = Disp!Marred \ {f}
<1>1. \A g \in Fds : g # f => Disp!Meant(g)' = Disp!Meant(g)  BY DEF Disp!Meant
<1>2. CASE backend = "epoll"
  <2>1. \A g \in Fds : g # f => (kernel'[g] # Disp!Meant(g)' <=> kernel[g] # Disp!Meant(g))  BY <1>1, <1>2
  <2> QED  BY <1>2, <2>1 DEF Disp!Marred
<1>3. CASE backend # "epoll"  BY <1>3 DEF Disp!Marred
<1> QED  BY <1>2, <1>3

(* A descriptor without events is not marred.                              *)
LEMMA MarredRegistered ==
    ASSUME DispInv' PROVE Disp!Marred' \subseteq Watched'
<1>1. CASE backend' = "epoll"
  <2>1. \A f \in Fds : chan_filter'[f] = {} => kernel'[f] = {}  BY <1>1 DEF DispInv, EvmapOk
  <2> QED  BY <1>1, <2>1 DEF Disp!Marred, Disp!Meant, Watched
<1>2. CASE backend' # "epoll"  BY <1>2 DEF Disp!Marred
<1> QED  BY <1>1, <1>2

(* What wait() promises of the events t it reports, when rdy are ready and *)
(* the descriptors in hup have hung up.                                    *)
Readies == [Fds -> SUBSET (TwoEvents \cup {"Error"})]
CanReport(rdy, hup, f) ==
    {e \in rdy[f] : e \in chan_filter[f] \/ (e = "Error" /\ chan_filter[f] # {})}
    \cup {e \in TwoEvents : f \in hup /\ "Read" \in chan_filter[f] \cap rdy[f]}
TableWait(rdy, hup, t) ==
    /\ \A f \in Fds \ Disp!Marred : t[f] \subseteq CanReport(rdy, hup, f)
    /\ \A f \in Disp!Marred : t[f] \subseteq rdy[f]
    /\ \/ \A f \in Fds \ Disp!Marred : rdy[f] \cap chan_filter[f] \subseteq t[f]
       \/ Cardinality(Disp!EventTableOf!Reported(t)) >= Cardinality(Watched)

(* One of the two is the smaller.                                          *)
LEMMA DispMin ==
    ASSUME NEW a \in Nat, NEW b \in Nat
    PROVE  Disp!Min({a, b}) \in {a, b}
<1>1. Disp!Min({a, b}) = CHOOSE x \in {a, b} : \A y \in {a, b} : x <= y  BY DEF Disp!Min
<1>2. \E x \in {a, b} : \A y \in {a, b} : x <= y
  <2>1. a <= b \/ b <= a  OBVIOUS
  <2> QED  BY <2>1
<1> QED  BY <1>1, <1>2

(* The list of events is never short for epoll: it is longer than the      *)
(* descriptors added, and epoll_wait() returns each at most once.  A one   *)
(* shot descriptor that was reported stays marred.                         *)
LEMMA EpollReports ==
    ASSUME DispatcherConstants, DispInv, backend = "epoll", NEW rdy \in Readies, NEW hup, Disp!EpollWait(rdy),
           UNCHANGED <<backend, chan_filter, evmap, evlist_size, added_fds>>
    PROVE  TableWait(rdy, hup, trigger') /\ EvmapOk' /\ Disp!Marred' = Disp!Marred
<1> DEFINE R == {f \in Fds : kernel[f] \cap rdy[f] # {}}
<1>0. /\ evlist_size \in Nat /\ Cardinality(Watched) < evlist_size /\ DOMAIN kernel = Fds
      /\ \A f \in Fds : chan_filter[f] = {} => kernel[f] = {}
  BY DEF DispInv, EvmapOk
<1>1. PICK able \in SUBSET R : \E got \in SUBSET able :
        /\ \A f \in R \ able : "Edge" \in kernel[f]
        /\ Disp!Cardinality(got) = Disp!Min({evlist_size, Disp!Cardinality(able)})
        /\ trigger' = [f \in Fds |-> IF f \in got THEN kernel[f] \cap rdy[f] ELSE {}]
        /\ kernel' = [f \in Fds |-> IF f \in got /\ "OneShot" \in kernel[f]
                                    THEN kernel[f] \cap {"Edge", "OneShot"} ELSE kernel[f]]
  BY DEF Disp!EpollWait
<1>2. PICK got \in SUBSET able :
        /\ \A f \in R \ able : "Edge" \in kernel[f]
        /\ Disp!Cardinality(got) = Disp!Min({evlist_size, Disp!Cardinality(able)})
        /\ trigger' = [f \in Fds |-> IF f \in got THEN kernel[f] \cap rdy[f] ELSE {}]
        /\ kernel' = [f \in Fds |-> IF f \in got /\ "OneShot" \in kernel[f]
                                    THEN kernel[f] \cap {"Edge", "OneShot"} ELSE kernel[f]]
  BY <1>1
<1>3. R \subseteq Watched  BY <1>0 DEF Watched
<1>4. IsFiniteSet(Watched)
  <2>1. Watched \in SUBSET Fds /\ IsFiniteSet(Fds)  BY DEF Watched, DispatcherConstants
  <2> QED  BY <2>1, FS_Subset
<1>5. able \in SUBSET Watched /\ got \in SUBSET able  BY <1>1, <1>2, <1>3
<1>6. /\ IsFiniteSet(able) /\ IsFiniteSet(got) /\ Cardinality(able) <= Cardinality(Watched)
      /\ (Cardinality(got) = Cardinality(able) => got = able)
      /\ Cardinality(got) <= Cardinality(able)
  BY <1>4, <1>5, FS_Subset
<1>7. Cardinality(able) \in Nat /\ Cardinality(got) \in Nat /\ Cardinality(Watched) \in Nat
  BY <1>4, <1>6, FS_CardinalityType
<1>8. Disp!Cardinality(got) = Cardinality(got) /\ Disp!Cardinality(able) = Cardinality(able)
  BY DEF Disp!Cardinality, Cardinality
<1>9. Cardinality(got) \in {evlist_size, Cardinality(able)}  BY <1>0, <1>2, <1>7, <1>8, DispMin
<1>10. got = able  BY <1>0, <1>6, <1>7, <1>9
<1>11. \A f \in Fds : trigger'[f] = IF f \in able THEN kernel[f] \cap rdy[f] ELSE {}  BY <1>2, <1>10
<1>12. \A f \in Fds : chan_filter[f] \subseteq TwoEvents /\ rdy[f] \subseteq TwoEvents \cup {"Error"}
  BY DEF DispInv, Readies
<1>13. ASSUME NEW f \in Fds, f \notin Disp!Marred
       PROVE  trigger'[f] \subseteq CanReport(rdy, hup, f) /\ rdy[f] \cap chan_filter[f] \subseteq trigger'[f]
  <2>1. kernel[f] = IF chan_filter[f] = {} THEN {} ELSE chan_filter[f] \cup {"Error"}
    BY <1>13 DEF Disp!Marred, Disp!Meant
  <2>2. "Edge" \notin kernel[f]  BY <1>12, <2>1 DEF TwoEvents
  <2>3. f \in able <=> f \in R  BY <1>1, <1>2, <2>2
  <2>4. trigger'[f] = kernel[f] \cap rdy[f]  BY <1>11, <2>3
  <2> QED  BY <2>1, <2>4 DEF CanReport
<1>14. \A f \in Disp!Marred : trigger'[f] \subseteq rdy[f]  BY <1>11 DEF Disp!Marred
<1>15. TableWait(rdy, hup, trigger')  BY <1>13, <1>14 DEF TableWait
<1>16. ASSUME NEW f \in Fds
       PROVE  /\ chan_filter[f] = {} => kernel'[f] = {}
              /\ kernel'[f] # Disp!Meant(f)' <=> kernel[f] # Disp!Meant(f)
  <2>1. Disp!Meant(f)' = Disp!Meant(f) /\ "OneShot" \notin Disp!Meant(f)  BY <1>12 DEF Disp!Meant, TwoEvents
  <2>2. CASE f \in got /\ "OneShot" \in kernel[f]
    <3>1. "OneShot" \in kernel'[f] /\ f \in Watched  BY <1>2, <1>5, <2>2
    <3> QED  BY <2>1, <2>2, <3>1 DEF Watched
  <2>3. CASE ~(f \in got /\ "OneShot" \in kernel[f])
    <3>1. kernel'[f] = kernel[f]  BY <1>2, <2>3
    <3> QED  BY <1>0, <2>1, <3>1
  <2> QED  BY <2>2, <2>3
<1>17. Disp!Marred' = Disp!Marred  BY <1>16 DEF Disp!Marred
<1>18. Watched' = Watched /\ DOMAIN kernel' = Fds  BY <1>2 DEF Watched
<1>19. EvmapOk'  BY <1>16, <1>18 DEF DispInv, EvmapOk
<1> QED  BY <1>15, <1>17, <1>19

(* kevent() returns events: a full list has more of them than descriptors  *)
(* are added.                                                              *)
LEMMA KqueueReports ==
    ASSUME DispatcherConstants, DispInv, backend = "kqueue", NEW rdy \in Readies, NEW hup,
           Disp!KqueueWait(rdy)
    PROVE  TableWait(rdy, hup, trigger')
<1> DEFINE R == Disp!Pairs(kernel, rdy)
<1>0. /\ evlist_size \in Nat /\ Cardinality(Watched) < evlist_size /\ kernel = chan_filter
  BY DEF DispInv, EvmapOk
<1>1. PICK got \in SUBSET R :
        /\ Disp!Cardinality(got) = Disp!Min({evlist_size, Disp!Cardinality(R)})
        /\ trigger' = Disp!AsTrigger(got)
  BY DEF Disp!KqueueWait
<1>2. R = {p \in Fds \X TwoEvents : p[2] \in chan_filter[p[1]] \cap rdy[p[1]]}
  BY <1>0 DEF Disp!Pairs, Disp!Events, TwoEvents
<1>3. IsFiniteSet(R)
  <2>1. IsFiniteSet(TwoEvents)
    <3>1. IsFiniteSet({"Read"})  BY FS_Singleton
    <3>2. IsFiniteSet({"Read"} \cup {"Write"})  BY <3>1, FS_AddElement
    <3>3. {"Read"} \cup {"Write"} = TwoEvents  BY DEF TwoEvents
    <3> QED  BY <3>2, <3>3
  <2>2. IsFiniteSet(Fds \X TwoEvents)  BY <2>1, FS_Product DEF DispatcherConstants
  <2>3. R \in SUBSET (Fds \X TwoEvents)  BY <1>2
  <2> QED  BY <2>2, <2>3, FS_Subset
<1>4. IsFiniteSet(Watched)
  <2>1. Watched \in SUBSET Fds /\ IsFiniteSet(Fds)  BY DEF Watched, DispatcherConstants
  <2> QED  BY <2>1, FS_Subset
<1> HIDE DEF R
<1>5. IsFiniteSet(got) /\ (Cardinality(got) = Cardinality(R) => got = R)  BY <1>1, <1>3, FS_Subset
<1>6. Cardinality(R) \in Nat /\ Cardinality(got) \in Nat /\ Cardinality(Watched) \in Nat
  BY <1>3, <1>4, <1>5, FS_CardinalityType
<1>7. Disp!Cardinality(got) = Cardinality(got) /\ Disp!Cardinality(R) = Cardinality(R)
  BY DEF Disp!Cardinality, Cardinality
<1>8. Cardinality(got) \in {evlist_size, Cardinality(R)}  BY <1>0, <1>1, <1>6, <1>7, DispMin
<1>9. \A f \in Fds : trigger'[f] = {e \in TwoEvents : <<f, e>> \in got}
  BY <1>1 DEF Disp!AsTrigger, Disp!Events, TwoEvents
<1>10. \A p \in got : p \in Fds \X TwoEvents /\ p[2] \in chan_filter[p[1]] /\ p[2] \in rdy[p[1]]
  BY <1>1, <1>2
<1>11. \A f \in Fds : trigger'[f] \subseteq CanReport(rdy, hup, f)
  <2>1. SUFFICES ASSUME NEW f \in Fds, NEW e \in TwoEvents, <<f, e>> \in got PROVE e \in CanReport(rdy, hup, f)
    BY <1>9
  <2>2. e \in chan_filter[f] /\ e \in rdy[f]  BY <1>10, <2>1
  <2> QED  BY <2>2 DEF CanReport
<1>m. Disp!Marred = {}  BY DEF Disp!Marred
<1>12. CASE Cardinality(got) = evlist_size
  <2>1. Disp!EventTableOf!Reported(trigger') = {p \in Fds \X TwoEvents : p[2] \in trigger'[p[1]]}
    BY DEF Disp!EventTableOf!Reported, Disp!EventTableOf!Events, TwoEvents
  <2>2. ASSUME NEW f \in Fds, NEW e \in TwoEvents PROVE e \in trigger'[f] <=> <<f, e>> \in got
    BY <1>9
  <2>3. Disp!EventTableOf!Reported(trigger') = got  BY <1>10, <2>1, <2>2
  <2>4. Cardinality(got) >= Cardinality(Watched)  BY <1>0, <1>6, <1>12
  <2> QED  BY <1>11, <1>m, <2>3, <2>4 DEF TableWait
<1>13. CASE got = R
  <2>1. ASSUME NEW f \in Fds, NEW e \in rdy[f] \cap chan_filter[f] PROVE e \in trigger'[f]
    <3>1. e \in TwoEvents  BY DEF DispInv
    <3>2. <<f, e>> \in got  BY <1>2, <1>13, <3>1
    <3> QED  BY <1>9, <3>1, <3>2
  <2>2. \A f \in Fds : rdy[f] \cap chan_filter[f] \subseteq trigger'[f]  BY <2>1
  <2> QED  BY <1>11, <1>m, <2>2 DEF TableWait
<1> QED  BY <1>5, <1>8, <1>12, <1>13

(* poll() looks at every entry of pollfds, and for errors.                 *)
LEMMA PollReports ==
    ASSUME DispatcherConstants, DispInv, backend = "poll", NEW rdy \in Readies,
           NEW hup, Disp!PollWait(rdy, hup)
    PROVE  TableWait(rdy, hup, trigger')
<1>0. PlacesOk(chan_filter, pollfds, indexs)  BY DEF DispInv, PollfdsOk
<1>m. Disp!Marred = {}  BY DEF Disp!Marred
<1>1. ASSUME NEW f \in Fds, chan_filter[f] = {} PROVE trigger'[f] = {}
  <2>1. indexs[f] = 0  BY <1>0, <1>1 DEF PlacesOk
  <2> QED  BY <2>1 DEF Disp!PollWait
<1>2. ASSUME NEW f \in Fds, chan_filter[f] # {}
      PROVE  rdy[f] \cap chan_filter[f] \subseteq trigger'[f] /\ trigger'[f] \subseteq CanReport(rdy, hup, f)
  <2>1. indexs[f] \in 1..Len(pollfds) /\ pollfds[indexs[f]] = [fd |-> f, events |-> chan_filter[f]]
        /\ pollfds \in Seq(PollEntries)
    BY <1>0, <1>2 DEF PlacesOk
  <2>2. indexs[f] # 0 /\ pollfds[indexs[f]].events = chan_filter[f]  BY <2>1
  <2> DEFINE rev == (chan_filter[f] \cup {"Error"}) \cap rdy[f]
  <2>3. trigger'[f] = IF rev = {"Read"} /\ f \in hup THEN TwoEvents ELSE rev
    BY <2>2 DEF Disp!PollWait, Disp!Events, TwoEvents
  <2>4. CASE rev = {"Read"} /\ f \in hup
    <3>1. "Read" \in chan_filter[f] /\ "Read" \in rdy[f]  BY <2>4
    <3>2. TwoEvents \subseteq CanReport(rdy, hup, f)  BY <2>4, <3>1 DEF CanReport
    <3>3. rdy[f] \cap chan_filter[f] \subseteq TwoEvents  BY DEF DispInv
    <3> QED  BY <2>3, <2>4, <3>2, <3>3
  <2>5. CASE ~(rev = {"Read"} /\ f \in hup)  BY <1>2, <2>3, <2>5 DEF CanReport
  <2> QED  BY <2>4, <2>5
<1>3. \A f \in Fds : trigger'[f] \subseteq CanReport(rdy, hup, f)
  <2>1. \A f \in Fds : chan_filter[f] = {} => trigger'[f] \subseteq CanReport(rdy, hup, f)  BY <1>1
  <2> QED  BY <1>2, <2>1
<1>4. \A f \in Fds : rdy[f] \cap chan_filter[f] \subseteq trigger'[f]  BY <1>2
<1> QED  BY <1>3, <1>4, <1>m DEF TableWait

(* select() looks at the descriptors up to maxfd.                          *)
LEMMA SelectReports ==
    ASSUME DispatcherConstants, DispInv, backend = "select", NEW rdy \in Readies, NEW hup,
           Disp!SelectWait(rdy)
    PROVE  TableWait(rdy, hup, trigger')
<1>0. /\ rdset = {f \in Fds : "Read" \in chan_filter[f]} /\ wrset = {f \in Fds : "Write" \in chan_filter[f]}
      /\ fds = Watched /\ maxfd \in Int /\ \A f \in fds : f <= maxfd
  BY DEF DispInv, SetsOk
<1>m. Disp!Marred = {}  BY DEF Disp!Marred
<1>1. \A f \in Fds : trigger'[f] = {e \in rdy[f] \cap TwoEvents : f \in {g \in fds : g < maxfd + 1}
                                                    /\ f \in IF e = "Read" THEN rdset ELSE wrset}
  BY DEF Disp!SelectWait, Disp!Events, TwoEvents
<1>2. ASSUME NEW f \in Fds, NEW e \in trigger'[f] PROVE e \in CanReport(rdy, hup, f)
  <2>1. e \in rdy[f] /\ e \in TwoEvents /\ f \in IF e = "Read" THEN rdset ELSE wrset  BY <1>1
  <2>2. e \in {"Read", "Write"}  BY <2>1 DEF TwoEvents
  <2>3. e \in chan_filter[f]  BY <1>0, <2>1, <2>2
  <2> QED  BY <2>1, <2>3 DEF CanReport
<1>3. ASSUME NEW f \in Fds, NEW e \in rdy[f] \cap chan_filter[f] PROVE e \in trigger'[f]
  <2>1. f \in Watched /\ f \in Int  BY DEF Watched, DispatcherConstants
  <2>2. f < maxfd + 1  BY <1>0, <2>1
  <2>3. e \in TwoEvents  BY DEF DispInv
  <2>4. f \in IF e = "Read" THEN rdset ELSE wrset  BY <1>0, <2>3 DEF TwoEvents
  <2> QED  BY <1>0, <1>1, <2>1, <2>2, <2>3, <2>4
<1>4. \A f \in Fds : rdy[f] \cap chan_filter[f] \subseteq trigger'[f]  BY <1>3
<1>5. \A f \in Fds : trigger'[f] \subseteq CanReport(rdy, hup, f)  BY <1>2
<1> QED  BY <1>4, <1>5, <1>m DEF TableWait

(* One turn of wait(), whichever the dispatcher.                           *)
LEMMA DispWait ==
    ASSUME DispatcherConstants, DispInv, NEW rdy \in Readies, NEW hup,
           Disp!Wait(rdy, hup)
    PROVE  DispInv' /\ Disp!EventTableOf!Next
<1>1. /\ call' = [op |-> "wait", ready |-> rdy, hup |-> hup] /\ UNCHANGED <<backend, chan_filter>>
      /\ Disp!Backend(Disp!EpollWait(rdy) /\ UNCHANGED <<evmap, evmap_size, evlist_size, added_fds>>,
                      Disp!KqueueWait(rdy) /\ UNCHANGED Disp!epoll_vars,
                      Disp!PollWait(rdy, hup) /\ UNCHANGED Disp!poll_vars,
                      Disp!SelectWait(rdy) /\ UNCHANGED Disp!select_vars)
  BY DEF Disp!Wait
<1>2. ASSUME backend = "epoll"
      PROVE  DispInv' /\ TableWait(rdy, hup, trigger') /\ Disp!Marred' = Disp!Marred
  <2>1. /\ Disp!EpollWait(rdy)
        /\ UNCHANGED <<evmap, evlist_size, added_fds, pollfds, indexs, rdset, wrset, fds, maxfd>>
    BY <1>1, <1>2 DEF Disp!Backend, Disp!poll_vars, Disp!select_vars
  <2>2. TableWait(rdy, hup, trigger') /\ EvmapOk' /\ Disp!Marred' = Disp!Marred
    BY <1>1, <1>2, <2>1, EpollReports
  <2>3. PollfdsOk' /\ SetsOk'  BY <1>1, <1>2 DEF PollfdsOk, SetsOk
  <2>4. DispInv'  BY <1>1, <2>2, <2>3 DEF DispInv
  <2> QED  BY <2>2, <2>4
<1>3. ASSUME backend # "epoll"
      PROVE  DispInv' /\ TableWait(rdy, hup, trigger') /\ Disp!Marred' = Disp!Marred
  <2>1. UNCHANGED <<backend, chan_filter, evmap, evlist_size, added_fds, kernel, pollfds, indexs,
                    rdset, wrset, fds, maxfd>>
    BY <1>1, <1>3 DEF Disp!Backend, Disp!epoll_vars, Disp!poll_vars, Disp!select_vars
  <2>2. TableWait(rdy, hup, trigger')
    BY <1>1, <1>3, KqueueReports, PollReports, SelectReports DEF Disp!Backend
  <2>3. DispInv'  BY <2>1, DispUntouched
  <2>4. Disp!Marred' = Disp!Marred  BY <1>3, <2>1 DEF Disp!Marred
  <2> QED  BY <2>2, <2>3, <2>4
<1>4. DispInv' /\ TableWait(rdy, hup, trigger') /\ Disp!Marred' = Disp!Marred  BY <1>2, <1>3
<1>5. call'.op = "wait" /\ call'.ready = rdy /\ call'.hup = hup  BY <1>1
<1>6. Disp!EventTableOf!Registered = Watched  BY DEF Disp!EventTableOf!Registered, Watched
<1>7. \A S : Disp!EventTableOf!Cardinality(S) = Cardinality(S)
  BY DEF Disp!EventTableOf!Cardinality, Cardinality
<1>8. ASSUME NEW f PROVE Disp!EventTableOf!Reportable(call', f) = CanReport(rdy, hup, f)
  BY <1>5 DEF Disp!EventTableOf!Reportable, CanReport, Disp!EventTableOf!Events, TwoEvents
<1>9. Disp!EventTableOf!Wait(call')
  <2> HIDE DEF Disp!Marred
  <2> QED  BY <1>1, <1>4, <1>5, <1>6, <1>7, <1>8 DEF TableWait, Disp!EventTableOf!Wait
<1> QED  BY <1>4, <1>5, <1>9 DEF Disp!EventTableOf!Next

(* A step of a dispatcher is a step of the table, or none.                 *)
LEMMA DispStep ==
    ASSUME DispatcherConstants, DispInv, [Disp!Next]_(Disp!dispatcher_vars)
    PROVE  DispInv' /\ [Disp!EventTableOf!Next]_<<call, chan_filter, Disp!Marred, trigger>>
<1>r. Disp!EventTableOf!Registered' = Watched'  BY DEF Disp!EventTableOf!Registered, Watched
<1>1. ASSUME NEW f \in Fds, NEW e \in TwoEvents, Disp!AddEvent(f, e)
      PROVE  DispInv' /\ Disp!EventTableOf!Next
  <2>1. /\ call' = [op |-> "add", fd |-> f, events |-> {e}] /\ trigger' = [g \in Fds |-> {}]
        /\ chan_filter' = [chan_filter EXCEPT ![f] = @ \cup {e}] /\ backend' = backend
        /\ Disp!Backend(Disp!EpollAdd(f, {e}), Disp!KqueueAdd(f, {e}), Disp!PollAdd(f, {e}), Disp!SelectAdd(f, {e}))
    BY <1>1 DEF Disp!AddEvent, Disp!None
  <2>2. call'.op = "add" /\ call'.fd = f /\ call'.events = {e}  BY <2>1
  <2>3. backend = "epoll" => Disp!EpollAdd(f, {e})  BY <2>1 DEF Disp!Backend
  <2>4. \A g \in Fds : g # f => chan_filter'[g] = chan_filter[g]  BY <2>1, WatchedAfterAdd
  <2>5. backend = "epoll" => \A g \in Fds : g # f => kernel'[g] = kernel[g]  BY <2>3, EpollElsewhere
  <2>6. Disp!Marred' \ {f} = Disp!Marred \ {f}  BY <2>1, <2>4, <2>5, MarredElsewhere
  <2>7. Disp!EventTableOf!Add(call')  BY <2>1, <2>2, <2>6 DEF Disp!EventTableOf!Add
  <2>8. DispInv'  BY <1>1, DispAddEvent
  <2> QED  BY <2>2, <2>7, <2>8 DEF Disp!EventTableOf!Next
<1>2. ASSUME NEW f \in Fds, NEW ev \in SUBSET TwoEvents, Disp!RemoveEvents(f, ev)
      PROVE  DispInv' /\ Disp!EventTableOf!Next
  <2>1. /\ call' = [op |-> "remove", fd |-> f, events |-> ev] /\ trigger' = [g \in Fds |-> {}]
        /\ chan_filter' = [chan_filter EXCEPT ![f] = @ \ ev] /\ backend' = backend
        /\ ev # {} /\ ev \subseteq chan_filter[f]
        /\ Disp!Backend(Disp!EpollRemove(f, ev), Disp!KqueueRemove(f, ev), Disp!PollRemove(f, ev),
                        Disp!SelectRemove(f, ev))
    BY <1>2 DEF Disp!RemoveEvents, Disp!None
  <2>2. call'.op = "remove" /\ call'.fd = f /\ call'.events = ev  BY <2>1
  <2>3. backend = "epoll" => Disp!EpollRemove(f, ev)  BY <2>1 DEF Disp!Backend
  <2>4. \A g \in Fds : g # f => chan_filter'[g] = chan_filter[g]  BY <2>1, WatchedAfterRemove
  <2>5. backend = "epoll" => \A g \in Fds : g # f => kernel'[g] = kernel[g]  BY <2>3, EpollElsewhere
  <2>6. Disp!Marred' \ {f} = Disp!Marred \ {f}  BY <2>1, <2>4, <2>5, MarredElsewhere
  <2>7. DispInv'  BY <1>2, DispRemoveEvents
  <2>8. Disp!Marred' \subseteq Watched'  BY <2>7, MarredRegistered
  <2>9. Disp!EventTableOf!Remove(call')  BY <1>r, <2>1, <2>2, <2>6, <2>8 DEF Disp!EventTableOf!Remove
  <2> QED  BY <2>2, <2>7, <2>9 DEF Disp!EventTableOf!Next
<1>3. ASSUME NEW f \in Fds, NEW e \in TwoEvents, Disp!AddFar(f, e)
      PROVE  DispInv' /\ UNCHANGED <<call, chan_filter, Disp!Marred, trigger>>
  <2>1. UNCHANGED <<backend, call, trigger, chan_filter, evmap, evlist_size, added_fds, kernel, pollfds, indexs,
                    rdset, wrset, fds, maxfd>>
    BY <1>3 DEF Disp!AddFar, Disp!epoll_vars, Disp!poll_vars, Disp!select_vars
  <2> QED  BY <2>1, DispUntouched DEF Disp!Marred, Disp!Meant
<1>4. ASSUME NEW rdy \in Disp!Readiness, NEW hup, Disp!Wait(rdy, hup)
      PROVE  DispInv' /\ Disp!EventTableOf!Next
  <2>1. rdy \in Readies
    BY DEF Disp!Readiness, Readies, Disp!Events, TwoEvents
  <2> QED  BY <1>4, <2>1, DispWait
<1>5. ASSUME UNCHANGED Disp!dispatcher_vars
      PROVE  DispInv' /\ UNCHANGED <<call, chan_filter, Disp!Marred, trigger>>
  <2>1. UNCHANGED <<backend, call, trigger, chan_filter, evmap, evlist_size, added_fds, kernel, pollfds, indexs,
                    rdset, wrset, fds, maxfd>>
    BY <1>5 DEF Disp!dispatcher_vars, Disp!epoll_vars, Disp!poll_vars, Disp!select_vars
  <2> QED  BY <2>1, DispUntouched DEF Disp!Marred, Disp!Meant
<1>6. CASE Disp!Next
  <2>1. Disp!Events = TwoEvents  BY DEF Disp!Events, TwoEvents
  <2> QED  BY <1>1, <1>2, <1>3, <1>4, <1>6, <2>1 DEF Disp!Next
<1> QED  BY <1>5, <1>6

(* At the start nothing is watched.                                        *)
LEMMA DispInit ==
    ASSUME DispatcherConstants, Disp!Init
    PROVE  DispInv /\ Disp!EventTableOf!Init
<1>1. /\ backend \in {"epoll", "kqueue", "poll", "select"} /\ chan_filter = [g \in Fds |-> {}]
      /\ call = [op |-> "none"] /\ trigger = [g \in Fds |-> {}]
      /\ evmap = chan_filter /\ kernel = chan_filter /\ evlist_size = EVLIST_INIT_SIZE /\ added_fds = 0
      /\ pollfds = <<>> /\ indexs = [g \in Fds |-> 0]
      /\ rdset = {} /\ wrset = {} /\ fds = {} /\ maxfd = -1
  BY DEF Disp!Init, Disp!None
<1>2. Watched = {}  BY <1>1 DEF Watched
<1>3. Cardinality(Watched) = 0  BY <1>2, FS_EmptySet
<1>4. EvmapOk  BY <1>1, <1>3 DEF EvmapOk, DispatcherConstants
<1>5. PollfdsOk
  <2>1. pollfds \in Seq(PollEntries) /\ Len(pollfds) = 0  BY <1>1
  <2>2. indexs \in [Fds -> Nat]  BY <1>1
  <2> QED  BY <1>1, <2>1, <2>2 DEF PollfdsOk, PlacesOk
<1>6. SetsOk  BY <1>1, <1>2 DEF SetsOk
<1>7. chan_filter \in [Fds -> SUBSET TwoEvents]  BY <1>1
<1>8. Disp!Marred = {}  BY <1>1 DEF Disp!Marred, Disp!Meant
<1> QED  BY <1>1, <1>4, <1>5, <1>6, <1>7, <1>8 DEF DispInv, Disp!EventTableOf!Init

(* Every dispatcher is the table of events of dispatcher.h, up to the      *)
(* first descriptor that evmap or an fd_set has no room for: whatever is   *)
(* added and removed in whatever order, wait() misses no event of interest *)
(* unless its list is full, and reports nothing else but errors and the    *)
(* Write of a descriptor that hung up, nothing of one that is not          *)
(* registered; for epoll, of the descriptors that no flag of an            *)
(* uninitialised struct epoll_event has marred, a state that the other     *)
(* descriptors' calls do not spread and that a removal ends (dispatcher.h, *)
(* epoll.cc, kqueue.cc, poll.cc, select.cc).                               *)
THEOREM DispatchersAreTables == Disp!Spec => DispatcherIsTable
<1>0. DispatcherConstants  BY LoopPartsAssumption DEF DispatcherConstants
<1>1. Disp!Init => DispInv /\ Disp!EventTableOf!Init  BY <1>0, DispInit
<1>2. DispInv /\ [Disp!Next]_(Disp!dispatcher_vars)
        => DispInv' /\ [Disp!EventTableOf!Next]_<<call, chan_filter, Disp!Marred, trigger>>
  BY <1>0, DispStep
<1> QED  BY <1>1, <1>2, PTL DEF Disp!Spec, DispatcherIsTable, Disp!DispatcherIsTable, Disp!EventTableOf!Spec

(* signaler_t.  A functor adds, ignores or cancels.                        *)
SigTasks ==
    [op: {"add"}, id: Sig!HandlerIds, signo: Signos] \cup [op: {"ignore"}, signo: Signos]
    \cup [op: {"cancel"}, id: Sig!HandlerIds]

SigTypes ==
    /\ sg_tasks \in Seq(SigTasks) /\ sig_map \in [Signos -> Seq(Sig!HandlerIds)]
    /\ disposition \in [Signos -> {"default", "ignored", "handler"}]
    /\ resets \subseteq Signos \X {"default", "ignored"}
    /\ in_handler \in Seq(Signos) /\ sig_pair \in Seq(Signos) /\ sig_ids \in Nat /\ sg_calls \in Nat
    /\ sig_ids <= sg_calls /\ sg_calls <= MaxCalls
    /\ dropped \in BOOLEAN /\ aborted \in BOOLEAN

Held(i, l) == \E k \in 1..Len(l) : l[k] = i

(* sig_id hands out each id once: it is queued to be added, or at one      *)
(* place of one list.                                                      *)
ListedOnce ==
    \A s, t \in Signos : \A j \in 1..Len(sig_map[s]), k \in 1..Len(sig_map[t]) :
        sig_map[s][j] = sig_map[t][k] => s = t /\ j = k
AddsFresh ==
    \A k \in 1..Len(sg_tasks) : sg_tasks[k].op = "add" =>
        /\ sg_tasks[k].id <= sig_ids /\ \A s \in Signos : ~Held(sg_tasks[k].id, sig_map[s])
        /\ \A j \in 1..Len(sg_tasks) : sg_tasks[j].op = "add" /\ sg_tasks[j].id = sg_tasks[k].id => j = k
ListedGiven == \A s \in Signos : \A k \in 1..Len(sig_map[s]) : sig_map[s][k] <= sig_ids

(* id_map has the handlers of the lists; sig_handler() is installed where  *)
(* there are any, and where one functor is about to call sigaction(); and  *)
(* a signal on its way has a handler unless it was dropped.                *)
MapsAgree ==
    \A p : p \in id_map <=> \E i \in Sig!HandlerIds, s \in Signos : p = <<i, s>> /\ Held(i, sig_map[s])
Installed ==
    /\ \A s \in Signos : sig_map[s] # <<>> => disposition[s] = "handler"
    /\ \A s \in Signos : disposition[s] = "handler" => sig_map[s] # <<>> \/ \E r \in resets : r[1] = s
    /\ \A q, r \in resets : q = r
    /\ \A r \in resets : sig_map[r[1]] = <<>>
Followed(q) == \A k \in 1..Len(q) : sig_map[q[k]] # <<>> \/ dropped = TRUE
OnTheWay == Followed(sig_pair) /\ Followed(in_handler)
AbortsDropped == aborted = TRUE => dropped = TRUE

SigInv == /\ SigTypes /\ ListedOnce /\ AddsFresh /\ ListedGiven /\ MapsAgree /\ Installed /\ OnTheWay
          /\ AbortsDropped

(* The elements of a sequence, by position.                                *)
LEMMA SigToSetAt ==
    ASSUME NEW S, NEW s \in Seq(S), NEW e
    PROVE  e \in Sig!ToSet(s) <=> \E k \in 1..Len(s) : s[k] = e
<1>1. DOMAIN s = 1..Len(s)  OBVIOUS
<1> QED  BY <1>1 DEF Sig!ToSet

(* A list without the element at k.                                        *)
LEMMA RemovedAt ==
    ASSUME NEW S, NEW s \in Seq(S), NEW k \in 1..Len(s)
    PROVE  /\ Sig!RemoveAt(s, k) \in Seq(S) /\ Len(Sig!RemoveAt(s, k)) = Len(s) - 1
           /\ \A j \in 1..(Len(s) - 1) : Sig!RemoveAt(s, k)[j] = IF j < k THEN s[j] ELSE s[j + 1]
<1> DEFINE a == SubSeq(s, 1, k - 1)
           z == SubSeq(s, k + 1, Len(s))
<1>0. PICK n \in Nat : n = Len(s)  OBVIOUS
<1>1. k \in 1..n /\ k - 1 \in Nat /\ n <= Len(s) /\ k - 1 <= Len(s) /\ k \in Nat /\ k <= n
      /\ 0 \in Nat /\ 0 <= k - 1 /\ (k - 1) - 0 = k - 1 /\ 0 + 1 = 1
  BY <1>0
<1>2. Slice(S, SubSeq(s, 0 + 1, k - 1), s, 0, k - 1)  BY <1>1, SubSeqSlice
<1>3. a \in Seq(S) /\ Len(a) = k - 1 /\ \A j \in 1..(k - 1) : a[j] = s[j]
  BY <1>1, <1>2 DEF Slice
<1>4. Slice(S, SubSeq(s, k + 1, n), s, k, n)  BY <1>1, SubSeqSlice
<1>5. z \in Seq(S) /\ Len(z) = n - k /\ \A j \in 1..(n - k) : z[j] = s[k + j]
  BY <1>0, <1>4 DEF Slice
<1> HIDE DEF a, z
<1>6. Joined(S, a \o z, a, z)  BY <1>3, <1>5, ConcatAt
<1>7. Sig!RemoveAt(s, k) = a \o z  BY DEF Sig!RemoveAt, a, z
<1>8. a \o z \in Seq(S) /\ Len(a \o z) = n - 1  BY <1>1, <1>3, <1>5, <1>6 DEF Joined
<1>9. ASSUME NEW j \in 1..(n - 1) PROVE (a \o z)[j] = IF j < k THEN s[j] ELSE s[j + 1]
  <2>1. CASE j < k
    <3>1. j \in 1..(k - 1)  BY <1>1, <2>1
    <3> QED  BY <1>3, <1>6, <2>1, <3>1 DEF Joined
  <2>2. CASE ~(j < k)
    <3>1. PICK i \in 1..(n - k) : i = j - (k - 1)  BY <1>1, <2>2
    <3>2. (k - 1) + i = j /\ k + i = j + 1  BY <1>1, <3>1
    <3>3. (a \o z)[j] = z[i]  BY <1>3, <1>5, <1>6, <3>1, <3>2 DEF Joined
    <3> QED  BY <1>5, <2>2, <3>1, <3>2, <3>3
  <2> QED  BY <2>1, <2>2
<1> QED  BY <1>0, <1>7, <1>8, <1>9

(* One list changes, to L: its ids are unique and of no other signal.      *)
LEMMA ListChanges ==
    ASSUME SigTypes, ListedOnce, NEW x \in Signos, NEW L \in Seq(Sig!HandlerIds),
           sig_map' = [sig_map EXCEPT ![x] = L],
           \A j, k \in 1..Len(L) : L[j] = L[k] => j = k,
           \A k \in 1..Len(L), s \in Signos : s # x => ~Held(L[k], sig_map[s])
    PROVE  /\ ListedOnce' /\ sig_map' \in [Signos -> Seq(Sig!HandlerIds)]
           /\ sig_map'[x] = L /\ \A s \in Signos : s # x => sig_map'[s] = sig_map[s]
           /\ \A i : Held(i, sig_map'[x]) <=> \E k \in 1..Len(L) : L[k] = i
           /\ \A i : \A s \in Signos : s # x => (Held(i, sig_map'[s]) <=> Held(i, sig_map[s]))
<1>1. /\ sig_map' \in [Signos -> Seq(Sig!HandlerIds)]
      /\ sig_map'[x] = L /\ \A s \in Signos : s # x => sig_map'[s] = sig_map[s]
  BY DEF SigTypes
<1>2. \A i : Held(i, sig_map'[x]) <=> \E k \in 1..Len(L) : L[k] = i  BY <1>1 DEF Held
<1>3. \A i : \A s \in Signos : s # x => (Held(i, sig_map'[s]) <=> Held(i, sig_map[s]))  BY <1>1 DEF Held
<1>4. ListedOnce'
  <2> SUFFICES ASSUME NEW s \in Signos, NEW t \in Signos,
                      NEW j \in 1..Len(sig_map'[s]), NEW k \in 1..Len(sig_map'[t]),
                      sig_map'[s][j] = sig_map'[t][k]
               PROVE  s = t /\ j = k
    BY DEF ListedOnce
  <2>1. CASE s = x /\ t = x  BY <1>1, <2>1
  <2>2. CASE s # x /\ t # x  BY <1>1, <2>2 DEF ListedOnce
  <2>3. CASE s = x /\ t # x  BY <1>1, <2>3 DEF Held
  <2>4. CASE s # x /\ t = x  BY <1>1, <2>4 DEF Held
  <2> QED  BY <2>1, <2>2, <2>3, <2>4
<1> QED  BY <1>1, <1>2, <1>3, <1>4

(* The first functor is taken from the queue.                              *)
LEMMA SigRun ==
    ASSUME SigInv, Sig!Run
    PROVE  /\ Head(sg_tasks) \in SigTasks /\ sg_tasks' \in Seq(SigTasks)
           /\ Len(sg_tasks) \in Nat \ {0} /\ Len(sg_tasks') = Len(sg_tasks) - 1
           /\ Head(sg_tasks) = sg_tasks[1] /\ 1 \in 1..Len(sg_tasks)
           /\ \A k \in 1..Len(sg_tasks') : /\ sg_tasks'[k] = sg_tasks[k + 1] /\ k + 1 # 1
                                           /\ k + 1 \in 1..Len(sg_tasks)
           /\ UNCHANGED <<in_handler, sig_pair, sig_ids, sg_calls, aborted>> /\ resets = {}
<1>1. sg_tasks \in Seq(SigTasks) /\ sg_tasks # <<>> /\ sg_tasks' = Tail(sg_tasks)
      /\ UNCHANGED <<in_handler, sig_pair, sig_ids, sg_calls, aborted>> /\ resets = {}
  BY DEF SigInv, SigTypes, Sig!Run
<1>2. /\ Head(sg_tasks) \in SigTasks /\ Head(sg_tasks) = sg_tasks[1] /\ sg_tasks' \in Seq(SigTasks)
      /\ Len(sg_tasks) \in Nat \ {0} /\ Len(sg_tasks') = Len(sg_tasks) - 1
      /\ \A k \in 1..Len(sg_tasks') : sg_tasks'[k] = sg_tasks[k + 1]
  BY <1>1, TailAt
<1>3. 1 \in 1..Len(sg_tasks)
      /\ \A k \in 1..Len(sg_tasks') : k + 1 # 1 /\ k + 1 \in 1..Len(sg_tasks)
  BY <1>2
<1> QED  BY <1>1, <1>2, <1>3

(* What is queued to be added stays unlisted, if only an id that is listed *)
(* or that of the first functor gets listed.                               *)
LEMMA FreshAfterRun ==
    ASSUME SigInv, Sig!Run,
           \A i : \A s \in Signos : Held(i, sig_map'[s]) =>
              Held(i, sig_map[s]) \/ (Head(sg_tasks).op = "add" /\ i = Head(sg_tasks).id)
    PROVE  AddsFresh'
<1> SUFFICES ASSUME NEW k \in 1..Len(sg_tasks'), sg_tasks'[k].op = "add"
             PROVE  /\ sg_tasks'[k].id <= sig_ids'
                    /\ \A s \in Signos : ~Held(sg_tasks'[k].id, sig_map'[s])
                    /\ \A j \in 1..Len(sg_tasks') :
                          sg_tasks'[j].op = "add" /\ sg_tasks'[j].id = sg_tasks'[k].id => j = k
  BY DEF AddsFresh
<1>1. /\ sg_tasks'[k] = sg_tasks[k + 1] /\ k + 1 # 1 /\ k + 1 \in 1..Len(sg_tasks)
      /\ sig_ids' = sig_ids /\ Head(sg_tasks) = sg_tasks[1] /\ 1 \in 1..Len(sg_tasks)
  BY SigRun
<1>2. sg_tasks[k + 1].op = "add"  BY <1>1
<1>3. /\ sg_tasks[k + 1].id <= sig_ids /\ \A s \in Signos : ~Held(sg_tasks[k + 1].id, sig_map[s])
      /\ \A j \in 1..Len(sg_tasks) :
            sg_tasks[j].op = "add" /\ sg_tasks[j].id = sg_tasks[k + 1].id => j = k + 1
  BY <1>1, <1>2 DEF SigInv, AddsFresh
<1>4. ~(Head(sg_tasks).op = "add" /\ Head(sg_tasks).id = sg_tasks[k + 1].id)  BY <1>1, <1>3
<1>5. \A s \in Signos : ~Held(sg_tasks'[k].id, sig_map'[s])  BY <1>1, <1>3, <1>4
<1>6. ASSUME NEW j \in 1..Len(sg_tasks'), sg_tasks'[j].op = "add", sg_tasks'[j].id = sg_tasks'[k].id
      PROVE  j = k
  <2>1. sg_tasks'[j] = sg_tasks[j + 1] /\ j + 1 \in 1..Len(sg_tasks)  BY SigRun
  <2>2. j + 1 = k + 1  BY <1>1, <1>3, <1>6, <2>1
  <2>3. j \in Int /\ k \in Int  OBVIOUS
  <2> QED  BY <2>2, <2>3
<1> QED  BY <1>1, <1>3, <1>5, <1>6

(* add_signal_in_loop()                                                    *)
LEMMA SigAdd == ASSUME MaxCalls \in Nat, SigInv, Sig!AddInLoop PROVE SigInv'
<1>0. SigTypes /\ ListedOnce /\ AddsFresh /\ ListedGiven /\ MapsAgree /\ Installed /\ OnTheWay
      /\ AbortsDropped /\ Sig!Run /\ UNCHANGED <<resets, dropped>>
  BY DEF SigInv, Sig!AddInLoop
<1>1. /\ Head(sg_tasks) = sg_tasks[1] /\ Head(sg_tasks) \in SigTasks /\ 1 \in 1..Len(sg_tasks)
      /\ sg_tasks' \in Seq(SigTasks) /\ UNCHANGED <<in_handler, sig_pair, sig_ids, sg_calls, aborted>> /\ resets = {}
  BY <1>0, SigRun
<1>2. Head(sg_tasks).op = "add"  BY DEF Sig!AddInLoop
<1>3. PICK x \in Signos, i \in Sig!HandlerIds : x = Head(sg_tasks).signo /\ i = Head(sg_tasks).id
  BY <1>1, <1>2 DEF SigTasks
<1>4. /\ disposition' = IF sig_map[x] = <<>> THEN [disposition EXCEPT ![x] = "handler"] ELSE disposition
      /\ id_map' = id_map \cup {<<i, x>>}
      /\ sig_map' = [sig_map EXCEPT ![x] = <<i>> \o @]
  BY <1>3 DEF Sig!AddInLoop
<1>5. i <= sig_ids /\ \A s \in Signos : ~Held(i, sig_map[s])
  BY <1>0, <1>1, <1>2, <1>3 DEF AddsFresh
<1> DEFINE o == sig_map[x]
           L == <<i>> \o o
<1>6. o \in Seq(Sig!HandlerIds) /\ <<i>> \in Seq(Sig!HandlerIds) /\ Len(<<i>>) = 1 /\ <<i>>[1] = i
  BY <1>0 DEF SigTypes
<1>7. PICK n \in Nat : n = Len(o)  BY <1>6
<1>8. Joined(Sig!HandlerIds, L, <<i>>, o)  BY <1>6, ConcatAt
<1>9. /\ L \in Seq(Sig!HandlerIds) /\ Len(L) = 1 + n /\ L[1] = i /\ \A k \in 1..n : L[1 + k] = o[k]
  <2> HIDE DEF L, o
  <2> QED  BY <1>6, <1>7, <1>8 DEF Joined
<1>10. sig_map' = [sig_map EXCEPT ![x] = L]  BY <1>4
<1> HIDE DEF L
<1>11. \A k \in 1..(1 + n) : k = 1 \/ (k - 1 \in 1..n /\ 1 + (k - 1) = k /\ L[k] = o[k - 1])
  BY <1>9
<1>12. \A k \in 1..n : o[k] # i /\ Held(o[k], sig_map[x])  BY <1>5, <1>7 DEF Held
<1>13. \A j, k \in 1..n : o[j] = o[k] => j = k  BY <1>0, <1>7 DEF ListedOnce
<1>14. ASSUME NEW j \in 1..Len(L), NEW k \in 1..Len(L), L[j] = L[k] PROVE j = k
  <2>1. j \in 1..(1 + n) /\ k \in 1..(1 + n)  BY <1>9
  <2>2. CASE j = 1 /\ k = 1  BY <2>2
  <2>3. CASE j = 1 /\ k # 1  BY <1>9, <1>11, <1>12, <1>14, <2>1, <2>3
  <2>4. CASE j # 1 /\ k = 1  BY <1>9, <1>11, <1>12, <1>14, <2>1, <2>4
  <2>5. CASE j # 1 /\ k # 1
    <3>1. j - 1 = k - 1  BY <1>11, <1>13, <1>14, <2>1, <2>5
    <3> QED  BY <2>1, <3>1
  <2> QED  BY <2>2, <2>3, <2>4, <2>5
<1>15. ASSUME NEW k \in 1..Len(L), NEW s \in Signos, s # x PROVE ~Held(L[k], sig_map[s])
  <2>1. k \in 1..(1 + n)  BY <1>9
  <2>2. CASE k = 1  BY <1>5, <1>9, <2>2
  <2>3. CASE k # 1
    <3>1. k - 1 \in 1..n /\ L[k] = o[k - 1]  BY <1>11, <2>1, <2>3
    <3> QED  BY <1>0, <1>7, <1>15, <3>1 DEF Held, ListedOnce
  <2> QED  BY <2>2, <2>3
<1>16. /\ ListedOnce' /\ sig_map' \in [Signos -> Seq(Sig!HandlerIds)]
       /\ sig_map'[x] = L /\ \A s \in Signos : s # x => sig_map'[s] = sig_map[s]
       /\ \A e : Held(e, sig_map'[x]) <=> \E k \in 1..Len(L) : L[k] = e
       /\ \A e : \A s \in Signos : s # x => (Held(e, sig_map'[s]) <=> Held(e, sig_map[s]))
  BY <1>0, <1>9, <1>10, <1>14, <1>15, ListChanges
<1>17. \A e : Held(e, sig_map'[x]) <=> Held(e, sig_map[x]) \/ e = i
  <2>1. ASSUME NEW e, NEW k \in 1..Len(L), L[k] = e PROVE Held(e, sig_map[x]) \/ e = i
    BY <1>7, <1>9, <1>11, <2>1 DEF Held
  <2>2. ASSUME NEW e, Held(e, sig_map[x]) PROVE \E k \in 1..Len(L) : L[k] = e
    <3>1. PICK k \in 1..n : o[k] = e  BY <1>7, <2>2 DEF Held
    <3>2. 1 + k \in 1..Len(L) /\ L[1 + k] = e  BY <1>9, <3>1
    <3> QED  BY <3>2
  <2>3. 1 \in 1..Len(L) /\ L[1] = i  BY <1>9
  <2> QED  BY <1>16, <2>1, <2>2, <2>3
<1>18. \A e : \A s \in Signos : s # x => (Held(e, sig_map'[s]) <=> Held(e, sig_map[s]))  BY <1>16
<1>19. L # <<>>  BY <1>9
<1>20. disposition' \in [Signos -> {"default", "ignored", "handler"}] /\ Installed'
  BY <1>0, <1>1, <1>4, <1>16, <1>19 DEF SigTypes, Installed
<1>21. SigTypes'  BY <1>0, <1>1, <1>16, <1>20 DEF SigTypes
<1>22. MapsAgree'
  <2> SUFFICES ASSUME NEW p
               PROVE  p \in id_map' <=>
                        \E e \in Sig!HandlerIds, s \in Signos : p = <<e, s>> /\ Held(e, sig_map'[s])
    BY DEF MapsAgree
  <2>1. p \in id_map' <=> p \in id_map \/ p = <<i, x>>  BY <1>4
  <2>2. p \in id_map <=> \E e \in Sig!HandlerIds, s \in Signos : p = <<e, s>> /\ Held(e, sig_map[s])
    BY <1>0 DEF MapsAgree
  <2>3. \A e : \A s \in Signos : Held(e, sig_map'[s]) <=> Held(e, sig_map[s]) \/ (s = x /\ e = i)
    BY <1>17, <1>18
  <2> QED  BY <2>1, <2>2, <2>3
<1>23. ListedGiven'
  <2>0. \A e : \A s \in Signos : Held(e, sig_map[s]) => e <= sig_ids
    BY <1>0 DEF ListedGiven, Held
  <2>1. \A e : \A s \in Signos : Held(e, sig_map'[s]) => e <= sig_ids
    BY <1>5, <1>17, <1>18, <2>0
  <2>2. sig_ids' = sig_ids  BY <1>1
  <2> QED  BY <2>1, <2>2 DEF ListedGiven, Held
<1>24. AddsFresh'  BY <1>0, <1>2, <1>3, <1>17, <1>18, FreshAfterRun
<1>25. OnTheWay' /\ AbortsDropped'
  <2>1. \A s \in Signos : sig_map[s] # <<>> => sig_map'[s] # <<>>  BY <1>16, <1>19
  <2>2. /\ \A k \in 1..Len(sig_pair) : sig_pair[k] \in Signos
        /\ \A k \in 1..Len(in_handler) : in_handler[k] \in Signos
    BY <1>0 DEF SigTypes
  <2>3. sig_pair' = sig_pair /\ in_handler' = in_handler /\ dropped' = dropped /\ aborted' = aborted
    BY <1>0, <1>1
  <2> QED  BY <1>0, <2>1, <2>2, <2>3 DEF OnTheWay, Followed, AbortsDropped
<1> QED  BY <1>16, <1>20, <1>21, <1>22, <1>23, <1>24, <1>25 DEF SigInv

(* One list loses handlers, none gets one.                                 *)
LEMMA ListShrinks ==
    ASSUME SigInv, Sig!Run, NEW x \in Signos, NEW L \in Seq(Sig!HandlerIds),
           sig_map' = [sig_map EXCEPT ![x] = L],
           \A j, k \in 1..Len(L) : L[j] = L[k] => j = k,
           \A e : Held(e, L) => Held(e, sig_map[x])
    PROVE  /\ ListedOnce' /\ ListedGiven' /\ AddsFresh'
           /\ sig_map' \in [Signos -> Seq(Sig!HandlerIds)] /\ sig_map'[x] = L
           /\ \A s \in Signos : s # x => sig_map'[s] = sig_map[s]
<1>0. SigTypes /\ ListedOnce /\ AddsFresh /\ ListedGiven /\ sig_ids' = sig_ids
  BY DEF SigInv, Sig!Run
<1>1. ASSUME NEW k \in 1..Len(L), NEW s \in Signos, s # x PROVE ~Held(L[k], sig_map[s])
  <2>1. Held(L[k], L)  BY DEF Held
  <2>2. PICK j \in 1..Len(sig_map[x]) : sig_map[x][j] = L[k]  BY <2>1 DEF Held
  <2> QED  BY <1>0, <1>1, <2>2 DEF Held, ListedOnce
<1>2. /\ ListedOnce' /\ sig_map' \in [Signos -> Seq(Sig!HandlerIds)] /\ sig_map'[x] = L
      /\ \A s \in Signos : s # x => sig_map'[s] = sig_map[s]
  BY <1>0, <1>1, ListChanges
<1>3. \A e : \A s \in Signos : Held(e, sig_map'[s]) => Held(e, sig_map[s])  BY <1>2
<1>4. AddsFresh'  BY <1>3, FreshAfterRun
<1>5. \A e : \A s \in Signos : Held(e, sig_map[s]) => e <= sig_ids  BY <1>0 DEF ListedGiven, Held
<1>6. \A e : \A s \in Signos : Held(e, sig_map'[s]) => e <= sig_ids  BY <1>3, <1>5
<1>7. ListedGiven'  BY <1>0, <1>6 DEF ListedGiven, Held
<1> QED  BY <1>2, <1>4, <1>7

(* The removal of a handler is noted when it leaves a signal without one   *)
(* that is on its way.                                                     *)
LEMMA DropNoted ==
    ASSUME SigInv, Sig!Run, NEW x \in Signos,
           \A s \in Signos : s # x => sig_map'[s] = sig_map[s],
           dropped' = (dropped \/ (sig_map'[x] = <<>> /\ Sig!OnItsWay(x)))
    PROVE  OnTheWay' /\ AbortsDropped' /\ dropped' \in BOOLEAN
<1>0. /\ OnTheWay /\ AbortsDropped /\ sig_pair \in Seq(Signos) /\ in_handler \in Seq(Signos)
      /\ dropped \in BOOLEAN /\ sig_pair' = sig_pair /\ in_handler' = in_handler /\ aborted' = aborted
  BY DEF SigInv, SigTypes, Sig!Run
<1>1. dropped' \in BOOLEAN /\ (dropped = TRUE => dropped' = TRUE)  BY <1>0
<1>2. ASSUME NEW q \in Seq(Signos), Followed(q), x \in Sig!ToSet(q) => Sig!OnItsWay(x),
             NEW k \in 1..Len(q)
      PROVE  sig_map'[q[k]] # <<>> \/ dropped' = TRUE
  <2>1. q[k] \in Signos  OBVIOUS
  <2>2. CASE q[k] # x  BY <1>1, <1>2, <2>1, <2>2 DEF Followed
  <2>3. CASE q[k] = x
    <3>1. x \in Sig!ToSet(q)  BY <2>3, SigToSetAt
    <3> QED  BY <1>0, <1>2, <2>3, <3>1
  <2> QED  BY <2>2, <2>3
<1>3. /\ x \in Sig!ToSet(sig_pair) => Sig!OnItsWay(x)
      /\ x \in Sig!ToSet(in_handler) => Sig!OnItsWay(x)
  BY DEF Sig!OnItsWay
<1>4. OnTheWay'  BY <1>0, <1>2, <1>3 DEF OnTheWay, Followed
<1>5. AbortsDropped'  BY <1>0, <1>1 DEF AbortsDropped
<1> QED  BY <1>1, <1>4, <1>5

(* ignore_signal_in_loop()                                                 *)
LEMMA SigIgnore == ASSUME SigInv, Sig!IgnoreInLoop PROVE SigInv'
<1>0. SigTypes /\ MapsAgree /\ Installed /\ Sig!Run
  BY DEF SigInv, Sig!IgnoreInLoop
<1>1. /\ Head(sg_tasks) \in SigTasks /\ sg_tasks' \in Seq(SigTasks)
      /\ UNCHANGED <<in_handler, sig_pair, sig_ids, sg_calls, aborted>> /\ resets = {}
  BY <1>0, SigRun
<1>2. PICK x \in Signos : x = Head(sg_tasks).signo
  BY <1>1 DEF SigTasks, Sig!IgnoreInLoop
<1>3. /\ id_map' = {p \in id_map : p[1] \notin Sig!ToSet(sig_map[x])}
      /\ sig_map' = [sig_map EXCEPT ![x] = <<>>]
      /\ resets' = {<<x, "ignored">>} /\ disposition' = disposition
      /\ dropped' = (dropped \/ Sig!OnItsWay(x))
  BY <1>2 DEF Sig!IgnoreInLoop
<1>4. <<>> \in Seq(Sig!HandlerIds) /\ (\A j, k \in 1..Len(<<>>) : <<>>[j] = <<>>[k] => j = k)
      /\ \A e : ~Held(e, <<>>)
  BY DEF Held
<1>5. /\ ListedOnce' /\ ListedGiven' /\ AddsFresh'
      /\ sig_map' \in [Signos -> Seq(Sig!HandlerIds)] /\ sig_map'[x] = <<>>
      /\ \A s \in Signos : s # x => sig_map'[s] = sig_map[s]
  BY <1>0, <1>3, <1>4, ListShrinks
<1>6. OnTheWay' /\ AbortsDropped' /\ dropped' \in BOOLEAN  BY <1>0, <1>3, <1>5, DropNoted
<1>7. resets' \subseteq Signos \X {"default", "ignored"} /\ Installed'
  <2>1. \A r : r \in resets' <=> r = <<x, "ignored">>  BY <1>3
  <2>2. <<x, "ignored">>[1] = x  OBVIOUS
  <2>3. \A s \in Signos : sig_map'[s] # <<>> => disposition'[s] = "handler"
    BY <1>0, <1>3, <1>5 DEF Installed
  <2>4. \A s \in Signos : disposition'[s] = "handler" => sig_map'[s] # <<>> \/ \E r \in resets' : r[1] = s
    BY <1>0, <1>1, <1>3, <1>5, <2>1, <2>2 DEF Installed
  <2> QED  BY <1>5, <2>1, <2>2, <2>3, <2>4 DEF Installed
<1>8. SigTypes'  BY <1>0, <1>1, <1>3, <1>5, <1>6, <1>7 DEF SigTypes
<1>9. \A e : e \in Sig!ToSet(sig_map[x]) <=> Held(e, sig_map[x])
  BY <1>0, SigToSetAt DEF SigTypes, Held
<1>10. ASSUME NEW e, NEW s \in Signos
       PROVE  Held(e, sig_map'[s]) <=> Held(e, sig_map[s]) /\ ~Held(e, sig_map[x])
  <2>1. CASE s = x  BY <1>4, <1>5, <2>1
  <2>2. CASE s # x  BY <1>5, <2>2, SigInv DEF Held, SigInv, ListedOnce
  <2> QED  BY <2>1, <2>2
<1>11. MapsAgree'
  <2> SUFFICES ASSUME NEW p
               PROVE  p \in id_map' <=>
                        \E e \in Sig!HandlerIds, s \in Signos : p = <<e, s>> /\ Held(e, sig_map'[s])
    BY DEF MapsAgree
  <2>1. p \in id_map' <=> p \in id_map /\ ~Held(p[1], sig_map[x])  BY <1>3, <1>9
  <2>2. p \in id_map <=> \E e \in Sig!HandlerIds, s \in Signos : p = <<e, s>> /\ Held(e, sig_map[s])
    BY <1>0 DEF MapsAgree
  <2>3. \A e, s : p = <<e, s>> => p[1] = e  OBVIOUS
  <2> QED  BY <1>10, <2>1, <2>2, <2>3
<1> QED  BY <1>5, <1>6, <1>7, <1>8, <1>11 DEF SigInv

(* cancel_signal_in_loop()                                                 *)
LEMMA SigCancel == ASSUME SigInv, Sig!CancelInLoop PROVE SigInv'
<1>0. SigTypes /\ ListedOnce /\ ListedGiven /\ MapsAgree /\ Installed /\ OnTheWay /\ AbortsDropped /\ Sig!Run
  BY DEF SigInv, Sig!CancelInLoop
<1>1. /\ Head(sg_tasks) \in SigTasks /\ sg_tasks' \in Seq(SigTasks)
      /\ UNCHANGED <<in_handler, sig_pair, sig_ids, sg_calls, aborted>> /\ resets = {}
  BY <1>0, SigRun
<1>2. PICK i \in Sig!HandlerIds : i = Head(sg_tasks).id
  BY <1>1 DEF SigTasks, Sig!CancelInLoop
<1> DEFINE own == {p \in id_map : p[1] = i}
<1>3. CASE own = {}
  <2>1. UNCHANGED <<id_map, sig_map, disposition, resets, dropped>>  BY <1>2, <1>3 DEF Sig!CancelInLoop
  <2>2. AddsFresh'  BY <1>0, <2>1, FreshAfterRun
  <2>3. SigTypes' /\ ListedOnce' /\ ListedGiven' /\ MapsAgree' /\ Installed' /\ OnTheWay' /\ AbortsDropped'
    BY <1>0, <1>1, <2>1 DEF SigTypes, ListedOnce, ListedGiven, MapsAgree, Installed, OnTheWay, Followed, AbortsDropped
  <2> QED  BY <2>2, <2>3 DEF SigInv
<1>4. CASE own # {}
  <2>1. PICK q \in own : q = CHOOSE p \in own : TRUE  BY <1>4
  <2>2. PICK x \in Signos : q = <<i, x>> /\ Held(i, sig_map[x])
    <3>1. q \in id_map /\ q[1] = i  BY <2>1
    <3>2. PICK e \in Sig!HandlerIds, s \in Signos : q = <<e, s>> /\ Held(e, sig_map[s])
      BY <1>0, <3>1 DEF MapsAgree
    <3>3. e = i  BY <3>1, <3>2
    <3> QED  BY <3>2, <3>3
  <2> DEFINE o == sig_map[x]
             L == Sig!erase_after(o, i)
  <2>3. /\ id_map' = id_map \ own /\ sig_map' = [sig_map EXCEPT ![x] = L]
        /\ disposition' = disposition /\ resets' = IF L = <<>> THEN {<<x, "default">>} ELSE {}
        /\ dropped' = (dropped \/ (L = <<>> /\ Sig!OnItsWay(x)))
    <3>1. q[2] = x  BY <2>2
    <3> QED  BY <1>2, <1>4, <2>1, <3>1 DEF Sig!CancelInLoop
  <2>4. o \in Seq(Sig!HandlerIds)  BY <1>0 DEF SigTypes
  <2>5. PICK n \in Nat : n = Len(o)  BY <2>4
  <2>6. PICK m \in 1..n : o[m] = i  BY <2>2, <2>5 DEF Held
  <2>7. \A j, k \in 1..n : o[j] = o[k] => j = k  BY <1>0, <2>5 DEF ListedOnce
  <2>8. L = Sig!RemoveAt(o, m)
    <3> DEFINE found == {k \in DOMAIN o : o[k] = i}
    <3>1. DOMAIN o = 1..n  BY <2>4, <2>5
    <3>2. found = {m}  BY <2>6, <2>7, <3>1
    <3>3. m <= m  OBVIOUS
    <3>4. (CHOOSE k \in {m} : \A j \in {m} : k <= j) = m  BY <3>3
    <3>5. L = IF found = {} THEN o ELSE Sig!RemoveAt(o, CHOOSE k \in found : \A j \in found : k <= j)
      BY DEF Sig!erase_after
    <3> HIDE DEF found
    <3>6. found # {}  BY <3>2
    <3> QED  BY <3>2, <3>4, <3>5, <3>6
  <2> HIDE DEF L
  <2>9. /\ L \in Seq(Sig!HandlerIds) /\ Len(L) = n - 1
        /\ \A j \in 1..(n - 1) : L[j] = IF j < m THEN o[j] ELSE o[j + 1]
    <3>1. m \in 1..Len(o)  BY <2>5
    <3> QED  BY <2>4, <2>5, <2>8, <3>1, RemovedAt
  <2>10. n \in Nat \ {0} /\ m \in 1..n  BY <2>6
  <2>11. \A j \in 1..(n - 1) : /\ j < m => j \in 1..n /\ L[j] = o[j] /\ j # m
                               /\ ~(j < m) => j + 1 \in 1..n /\ L[j] = o[j + 1] /\ j + 1 # m
    BY <2>9, <2>10
  <2>12. ASSUME NEW j \in 1..Len(L), NEW k \in 1..Len(L), L[j] = L[k] PROVE j = k
    <3>1. j \in 1..(n - 1) /\ k \in 1..(n - 1) /\ j \in Int /\ k \in Int /\ m \in Int  BY <2>9, <2>10
    <3>2. CASE j < m /\ k < m  BY <2>7, <2>11, <2>12, <3>1, <3>2
    <3>3. CASE j < m /\ ~(k < m)
      <4>1. j = k + 1  BY <2>7, <2>11, <2>12, <3>1, <3>3
      <4> QED  BY <3>1, <3>3, <4>1
    <3>4. CASE ~(j < m) /\ k < m
      <4>1. j + 1 = k  BY <2>7, <2>11, <2>12, <3>1, <3>4
      <4> QED  BY <3>1, <3>4, <4>1
    <3>5. CASE ~(j < m) /\ ~(k < m)
      <4>1. j + 1 = k + 1  BY <2>7, <2>11, <2>12, <3>1, <3>5
      <4> QED  BY <3>1, <4>1
    <3> QED  BY <3>2, <3>3, <3>4, <3>5
  <2>13. \A e : Held(e, L) <=> Held(e, o) /\ e # i
    <3>1. ASSUME NEW e, Held(e, L) PROVE Held(e, o) /\ e # i
      <4>1. PICK j \in 1..(n - 1) : L[j] = e  BY <2>9, <3>1 DEF Held
      <4>2. CASE j < m  BY <2>5, <2>6, <2>7, <2>11, <4>1, <4>2 DEF Held
      <4>3. CASE ~(j < m)  BY <2>5, <2>6, <2>7, <2>11, <4>1, <4>3 DEF Held
      <4> QED  BY <4>2, <4>3
    <3>2. ASSUME NEW e, Held(e, o), e # i PROVE Held(e, L)
      <4>1. PICK j \in 1..n : o[j] = e  BY <2>5, <3>2 DEF Held
      <4>2. j # m  BY <2>6, <3>2, <4>1
      <4>3. CASE j < m
        <5>1. j \in 1..(n - 1) /\ L[j] = o[j]  BY <2>9, <2>10, <4>3
        <5> QED  BY <2>9, <4>1, <5>1 DEF Held
      <4>4. CASE m < j
        <5>1. PICK k \in 1..(n - 1) : k = j - 1  BY <2>10, <4>4
        <5>2. k + 1 = j /\ ~(k < m)  BY <2>10, <4>4, <5>1
        <5>3. L[k] = e  BY <2>11, <4>1, <5>1, <5>2
        <5> QED  BY <2>9, <5>1, <5>3 DEF Held
      <4> QED  BY <2>10, <4>2, <4>3, <4>4
    <3> QED  BY <3>1, <3>2
  <2>14. /\ ListedOnce' /\ ListedGiven' /\ AddsFresh'
         /\ sig_map' \in [Signos -> Seq(Sig!HandlerIds)] /\ sig_map'[x] = L
         /\ \A s \in Signos : s # x => sig_map'[s] = sig_map[s]
    BY <1>0, <2>3, <2>9, <2>12, <2>13, ListShrinks
  <2>15. OnTheWay' /\ AbortsDropped' /\ dropped' \in BOOLEAN  BY <1>0, <2>3, <2>14, DropNoted
  <2>16. o # <<>>  BY <2>5, <2>10
  <2>17. resets' \subseteq Signos \X {"default", "ignored"} /\ Installed'
    <3>1. \A r : r \in resets' <=> L = <<>> /\ r = <<x, "default">>  BY <2>3
    <3>2. <<x, "default">>[1] = x /\ <<x, "default">> \in Signos \X {"default", "ignored"}  OBVIOUS
    <3>3. \A s \in Signos : sig_map'[s] # <<>> => disposition'[s] = "handler"
      BY <1>0, <2>3, <2>14, <2>16 DEF Installed
    <3>4. \A s \in Signos : disposition'[s] = "handler" => sig_map'[s] # <<>> \/ \E r \in resets' : r[1] = s
      BY <1>0, <1>1, <2>3, <2>14, <3>1, <3>2 DEF Installed
    <3>5. (\A q1, r \in resets' : q1 = r) /\ \A r \in resets' : sig_map'[r[1]] = <<>>
      BY <2>14, <3>1, <3>2
    <3> QED  BY <3>1, <3>2, <3>3, <3>4, <3>5 DEF Installed
  <2>18. SigTypes'  BY <1>0, <1>1, <2>3, <2>14, <2>15, <2>17 DEF SigTypes
  <2>19. ASSUME NEW e, NEW s \in Signos
         PROVE  Held(e, sig_map'[s]) <=> Held(e, sig_map[s]) /\ e # i
    <3>1. CASE s = x  BY <2>13, <2>14, <3>1
    <3>2. CASE s # x
      <4>1. ~Held(i, sig_map[s])  BY <1>0, <2>5, <2>6, <3>2 DEF Held, ListedOnce
      <4> QED  BY <2>14, <3>2, <4>1
    <3> QED  BY <3>1, <3>2
  <2>20. MapsAgree'
    <3> SUFFICES ASSUME NEW p
                 PROVE  p \in id_map' <=>
                          \E e \in Sig!HandlerIds, s \in Signos : p = <<e, s>> /\ Held(e, sig_map'[s])
      BY DEF MapsAgree
    <3>1. p \in id_map' <=> p \in id_map /\ p[1] # i  BY <2>3
    <3>2. p \in id_map <=> \E e \in Sig!HandlerIds, s \in Signos : p = <<e, s>> /\ Held(e, sig_map[s])
      BY <1>0 DEF MapsAgree
    <3>3. \A e, s : p = <<e, s>> => p[1] = e  OBVIOUS
    <3> QED  BY <2>19, <3>1, <3>2, <3>3
  <2> QED  BY <2>14, <2>15, <2>17, <2>18, <2>20 DEF SigInv
<1> QED  BY <1>3, <1>4

(* A call queues its functor; only that of add_signal() takes an id.       *)
LEMMA SigCall ==
    ASSUME MaxCalls \in Nat, SigInv, NEW t \in SigTasks, Sig!Call(t),
           t.op = "add" => t.id = sig_ids + 1
    PROVE  SigInv'
<1>0. SigTypes /\ ListedOnce /\ AddsFresh /\ ListedGiven /\ MapsAgree /\ Installed /\ OnTheWay /\ AbortsDropped
  BY DEF SigInv
<1>1. /\ sg_calls < MaxCalls /\ sg_calls' = sg_calls + 1 /\ sg_tasks' = Append(sg_tasks, t)
      /\ sig_ids' = IF t.op = "add" THEN t.id ELSE sig_ids
      /\ UNCHANGED <<sig_map, id_map, disposition, resets, in_handler, sig_pair, dropped, aborted>>
  BY DEF Sig!Call
<1>2. sig_ids \in Nat /\ sig_ids' \in Nat /\ sig_ids <= sig_ids' /\ sig_ids' <= sg_calls'
      /\ sg_calls' \in Nat /\ sg_calls' <= MaxCalls /\ (t.op = "add" => t.id = sig_ids' /\ sig_ids < t.id)
  BY <1>0, <1>1 DEF SigTypes
<1>3. PICK n \in Nat : n = Len(sg_tasks)  BY <1>0 DEF SigTypes
<1>4. /\ sg_tasks' \in Seq(SigTasks) /\ Len(sg_tasks') = n + 1 /\ sg_tasks'[n + 1] = t
      /\ \A k \in 1..n : sg_tasks'[k] = sg_tasks[k]
  BY <1>0, <1>1, <1>3, AppendAt DEF SigTypes
<1>5. SigTypes' /\ ListedOnce' /\ MapsAgree' /\ Installed' /\ OnTheWay' /\ AbortsDropped'
  <2>1. SigTypes'  BY <1>0, <1>1, <1>2, <1>4 DEF SigTypes
  <2>2. ListedOnce' /\ AbortsDropped'  BY <1>0, <1>1 DEF ListedOnce, AbortsDropped
  <2>3. MapsAgree'  BY <1>0, <1>1 DEF MapsAgree
  <2>4. Installed' /\ OnTheWay'  BY <1>0, <1>1 DEF Installed, OnTheWay, Followed
  <2> QED  BY <2>1, <2>2, <2>3, <2>4
<1>6. ListedGiven'
  <2>1. \A s \in Signos : \A k \in 1..Len(sig_map[s]) : sig_map[s][k] \in Int
    BY <1>0 DEF SigTypes, Sig!HandlerIds
  <2> QED  BY <1>0, <1>1, <1>2, <2>1 DEF ListedGiven
<1>7. ASSUME NEW k \in 1..(n + 1), sg_tasks'[k].op = "add"
      PROVE  /\ sg_tasks'[k].id <= sig_ids' /\ \A s \in Signos : ~Held(sg_tasks'[k].id, sig_map'[s])
             /\ \A j \in 1..(n + 1) : sg_tasks'[j].op = "add" /\ sg_tasks'[j].id = sg_tasks'[k].id => j = k
  <2>1. \A j \in 1..n : sg_tasks[j].op = "add" => sg_tasks[j].id <= sig_ids /\ sg_tasks[j].id \in Int
    <3> SUFFICES ASSUME NEW j \in 1..n, sg_tasks[j].op = "add"
                 PROVE  sg_tasks[j].id <= sig_ids /\ sg_tasks[j].id \in Int
      OBVIOUS
    <3>1. sg_tasks[j] \in SigTasks  BY <1>0, <1>3 DEF SigTypes
    <3>2. sg_tasks[j].id \in Sig!HandlerIds  BY <3>1 DEF SigTasks
    <3> QED  BY <1>0, <1>3, <3>2 DEF AddsFresh, Sig!HandlerIds
  <2>2. CASE k = n + 1
    <3>1. sg_tasks'[k] = t /\ t.op = "add" /\ t.id = sig_ids' /\ sig_ids < t.id
      BY <1>2, <1>4, <1>7, <2>2
    <3>2. ASSUME NEW s \in Signos, Held(t.id, sig_map[s]) PROVE FALSE
      <4>1. t.id <= sig_ids  BY <1>0, <3>2 DEF Held, ListedGiven
      <4> QED  BY <1>2, <3>1, <4>1
    <3>3. ASSUME NEW j \in 1..(n + 1), sg_tasks'[j].op = "add", sg_tasks'[j].id = t.id, j # n + 1
          PROVE  FALSE
      <4>1. j \in 1..n  BY <3>3
      <4>2. t.id <= sig_ids  BY <1>4, <2>1, <3>3, <4>1
      <4> QED  BY <1>2, <3>1, <4>2
    <3>4. t.id <= sig_ids'  BY <1>2, <3>1
    <3> QED  BY <1>1, <2>2, <3>1, <3>2, <3>3, <3>4
  <2>3. CASE k # n + 1
    <3>1. k \in 1..n /\ sg_tasks'[k] = sg_tasks[k]  BY <1>4, <2>3
    <3>2. /\ sg_tasks[k].id <= sig_ids /\ \A s \in Signos : ~Held(sg_tasks[k].id, sig_map[s])
          /\ \A j \in 1..n : sg_tasks[j].op = "add" /\ sg_tasks[j].id = sg_tasks[k].id => j = k
      BY <1>0, <1>3, <1>7, <3>1 DEF AddsFresh
    <3>3. sg_tasks[k].id <= sig_ids' /\ (t.op = "add" => t.id # sg_tasks[k].id)
      BY <1>2, <1>7, <2>1, <3>1, <3>2
    <3>4. ASSUME NEW j \in 1..(n + 1), sg_tasks'[j].op = "add", sg_tasks'[j].id = sg_tasks[k].id
          PROVE  j = k
      <4>1. j # n + 1  BY <1>4, <3>3, <3>4
      <4>2. j \in 1..n  BY <4>1
      <4> QED  BY <1>4, <3>2, <3>4, <4>2
    <3> QED  BY <1>1, <3>1, <3>2, <3>3, <3>4
  <2> QED  BY <2>2, <2>3
<1>8. AddsFresh'  BY <1>4, <1>7 DEF AddsFresh
<1> QED  BY <1>5, <1>6, <1>8 DEF SigInv

(* What a step that leaves the maps and the functors alone keeps.          *)
LEMMA SigMapsKept ==
    ASSUME SigInv, UNCHANGED <<sg_tasks, sig_map, id_map, sig_ids>>
    PROVE  ListedOnce' /\ AddsFresh' /\ ListedGiven' /\ MapsAgree'
<1>0. ListedOnce /\ AddsFresh /\ ListedGiven /\ MapsAgree  BY DEF SigInv
<1>1. ListedOnce' /\ ListedGiven'  BY <1>0 DEF ListedOnce, ListedGiven
<1>2. AddsFresh'  BY <1>0 DEF AddsFresh
<1>3. MapsAgree'  BY <1>0 DEF MapsAgree
<1> QED  BY <1>1, <1>2, <1>3

(* A signal is delivered: it has a handler, or comes before sigaction().   *)
LEMMA SigRaise == ASSUME SigInv, NEW s \in Signos, Sig!Raise(s) PROVE SigInv'
<1>0. SigTypes /\ Installed /\ OnTheWay /\ AbortsDropped
  BY DEF SigInv
<1>1. /\ disposition[s] = "handler" /\ in_handler' = Append(in_handler, s)
      /\ dropped' = (dropped \/ \E r \in resets : r[1] = s)
      /\ UNCHANGED <<sg_tasks, sig_map, id_map, disposition, resets, sig_pair, sig_ids, sg_calls, aborted>>
  BY DEF Sig!Raise
<1>2. dropped' \in BOOLEAN /\ (dropped = TRUE => dropped' = TRUE)  BY <1>0, <1>1 DEF SigTypes
<1>3. sig_map[s] # <<>> \/ dropped' = TRUE
  <2>1. CASE sig_map[s] # <<>>  BY <2>1
  <2>2. CASE sig_map[s] = <<>>
    <3>1. \E r \in resets : r[1] = s  BY <1>0, <1>1, <2>2 DEF Installed
    <3> QED  BY <1>1, <3>1
  <2> QED  BY <2>1, <2>2
<1>4. PICK n \in Nat : n = Len(in_handler)  BY <1>0 DEF SigTypes
<1>5. /\ in_handler' \in Seq(Signos) /\ Len(in_handler') = n + 1 /\ in_handler'[n + 1] = s
      /\ \A k \in 1..n : in_handler'[k] = in_handler[k]
  BY <1>0, <1>1, <1>4, AppendAt DEF SigTypes
<1>6. SigTypes'  BY <1>0, <1>1, <1>2, <1>5 DEF SigTypes
<1>7. Installed'  BY <1>0, <1>1 DEF Installed
<1>8. AbortsDropped'  BY <1>0, <1>1, <1>2 DEF AbortsDropped
<1>9. \A k \in 1..(n + 1) : k = n + 1 \/ k \in 1..n  OBVIOUS
<1>10. OnTheWay'  BY <1>0, <1>1, <1>2, <1>3, <1>4, <1>5, <1>9 DEF OnTheWay, Followed
<1>11. ListedOnce' /\ AddsFresh' /\ ListedGiven' /\ MapsAgree'  BY <1>1, SigMapsKept
<1> QED  BY <1>6, <1>7, <1>8, <1>10, <1>11 DEF SigInv

(* sig_handler() writes its byte.                                          *)
LEMMA SigWritten == ASSUME SigInv, NEW m \in 1..Len(in_handler), Sig!SigHandler(m) PROVE SigInv'
<1>0. SigTypes /\ Installed /\ OnTheWay /\ AbortsDropped
  BY DEF SigInv
<1>1. /\ sig_pair' = Append(sig_pair, in_handler[m]) /\ in_handler' = Sig!RemoveAt(in_handler, m)
      /\ UNCHANGED <<sg_tasks, sig_map, id_map, disposition, resets, sig_ids, sg_calls, dropped, aborted>>
  BY DEF Sig!SigHandler
<1>2. in_handler \in Seq(Signos) /\ sig_pair \in Seq(Signos) /\ in_handler[m] \in Signos
  BY <1>0 DEF SigTypes
<1>3. PICK h \in Nat : h = Len(in_handler)  BY <1>2
<1>4. /\ in_handler' \in Seq(Signos) /\ Len(in_handler') = h - 1
      /\ \A k \in 1..(h - 1) : in_handler'[k] = IF k < m THEN in_handler[k] ELSE in_handler[k + 1]
  BY <1>1, <1>2, <1>3, RemovedAt
<1>5. \A k \in 1..(h - 1) : k \in 1..h /\ k + 1 \in 1..h  BY <1>3
<1>6. Followed(in_handler)'  BY <1>0, <1>1, <1>3, <1>4, <1>5 DEF OnTheWay, Followed
<1>7. PICK n \in Nat : n = Len(sig_pair)  BY <1>2
<1>8. /\ sig_pair' \in Seq(Signos) /\ Len(sig_pair') = n + 1 /\ sig_pair'[n + 1] = in_handler[m]
      /\ \A k \in 1..n : sig_pair'[k] = sig_pair[k]
  BY <1>1, <1>2, <1>7, AppendAt
<1>9. \A k \in 1..(n + 1) : k = n + 1 \/ k \in 1..n  OBVIOUS
<1>10. Followed(sig_pair)'  BY <1>0, <1>1, <1>7, <1>8, <1>9 DEF OnTheWay, Followed
<1>11. SigTypes'  BY <1>0, <1>1, <1>4, <1>8 DEF SigTypes
<1>12. Installed' /\ AbortsDropped'  BY <1>0, <1>1 DEF Installed, AbortsDropped
<1>13. ListedOnce' /\ AddsFresh' /\ ListedGiven' /\ MapsAgree'  BY <1>1, SigMapsKept
<1> QED  BY <1>6, <1>10, <1>11, <1>12, <1>13 DEF SigInv, OnTheWay

(* sigaction() of a functor that left a signal without handlers.           *)
LEMMA SigReset == ASSUME SigInv, Sig!Sigaction PROVE SigInv'
<1>0. SigTypes /\ Installed /\ OnTheWay /\ AbortsDropped
  BY DEF SigInv
<1>1. PICK r \in resets : disposition' = [disposition EXCEPT ![r[1]] = r[2]]
  BY DEF Sig!Sigaction
<1>2. /\ resets' = {}
      /\ UNCHANGED <<sg_tasks, sig_map, id_map, in_handler, sig_pair, sig_ids, sg_calls, dropped, aborted>>
  BY DEF Sig!Sigaction
<1>3. PICK x \in Signos, d \in {"default", "ignored"} : r = <<x, d>>
  BY <1>0, <1>1 DEF SigTypes
<1>4. disposition' = [disposition EXCEPT ![x] = d] /\ sig_map[x] = <<>> /\ d # "handler"
      /\ \A q \in resets : q[1] = x
  BY <1>0, <1>1, <1>3 DEF Installed
<1>5. SigTypes'  BY <1>0, <1>2, <1>4 DEF SigTypes
<1>6. /\ disposition'[x] = d
      /\ \A s \in Signos : s # x => disposition'[s] = disposition[s] /\ ~\E q \in resets : q[1] = s
  BY <1>0, <1>4 DEF SigTypes
<1>7. Installed'  BY <1>0, <1>2, <1>4, <1>6 DEF Installed
<1>8. OnTheWay' /\ AbortsDropped'  BY <1>0, <1>2 DEF OnTheWay, Followed, AbortsDropped
<1>9. ListedOnce' /\ AddsFresh' /\ ListedGiven' /\ MapsAgree'  BY <1>2, SigMapsKept
<1> QED  BY <1>5, <1>7, <1>8, <1>9 DEF SigInv

(* sig_catch(): it fails its assertion only on a signal that was dropped.  *)
LEMMA SigCaught == ASSUME SigInv, Sig!SigCatch PROVE SigInv'
<1>0. SigTypes /\ ListedOnce /\ AddsFresh /\ ListedGiven /\ MapsAgree /\ Installed /\ OnTheWay /\ AbortsDropped
  BY DEF SigInv
<1>1. /\ sig_pair' = <<>> /\ aborted' = (\E s \in Sig!ToSet(sig_pair) : sig_map[s] = <<>>)
      /\ UNCHANGED <<sg_tasks, sig_map, id_map, disposition, resets, in_handler, sig_ids, sg_calls, dropped>>
  BY DEF Sig!SigCatch
<1>2. sig_pair' \in Seq(Signos) /\ Len(sig_pair') = 0 /\ aborted' \in BOOLEAN  BY <1>1
<1>3. AbortsDropped'
  <2>1. ASSUME aborted' = TRUE PROVE dropped = TRUE
    <3>1. PICK s \in Sig!ToSet(sig_pair) : sig_map[s] = <<>>  BY <1>1, <2>1
    <3>2. PICK k \in 1..Len(sig_pair) : sig_pair[k] = s  BY <1>0, <3>1, SigToSetAt DEF SigTypes
    <3> QED  BY <1>0, <3>1, <3>2 DEF OnTheWay, Followed
  <2> QED  BY <1>1, <2>1 DEF AbortsDropped
<1>4. SigTypes' /\ ListedOnce' /\ AddsFresh' /\ ListedGiven' /\ MapsAgree' /\ Installed' /\ OnTheWay'
  <2>1. SigTypes'  BY <1>0, <1>1, <1>2 DEF SigTypes
  <2>2. ListedOnce' /\ AddsFresh' /\ ListedGiven' /\ MapsAgree'  BY <1>1, SigMapsKept
  <2>3. Installed' /\ OnTheWay'  BY <1>0, <1>1, <1>2 DEF Installed, OnTheWay, Followed
  <2> QED  BY <2>1, <2>2, <2>3
<1> QED  BY <1>3, <1>4 DEF SigInv

(* Nothing is added, nothing is on its way.                                *)
LEMMA SigInit == ASSUME MaxCalls \in Nat, Sig!Init PROVE SigInv
<1>1. /\ sg_tasks = <<>> /\ sig_map = [s \in Signos |-> <<>>] /\ id_map = {}
      /\ disposition = [s \in Signos |-> "default"] /\ sig_pair = <<>> /\ sig_ids = 0 /\ sg_calls = 0
      /\ resets = {} /\ in_handler = <<>> /\ dropped = FALSE /\ aborted = FALSE
  BY DEF Sig!Init
<1>2. \A s \in Signos : sig_map[s] = <<>> /\ Len(sig_map[s]) = 0 /\ disposition[s] = "default"  BY <1>1
<1>3. SigTypes
  <2>1. sg_tasks \in Seq(SigTasks) /\ sig_pair \in Seq(Signos) /\ in_handler \in Seq(Signos)  BY <1>1
  <2>2. sig_map \in [Signos -> Seq(Sig!HandlerIds)]  BY <1>1
  <2>3. disposition \in [Signos -> {"default", "ignored", "handler"}]  BY <1>1
  <2>4. sig_ids \in Nat /\ sg_calls \in Nat /\ sig_ids <= sg_calls /\ sg_calls <= MaxCalls  BY <1>1
  <2> QED  BY <1>1, <2>1, <2>2, <2>3, <2>4 DEF SigTypes
<1>4. \A e : \A s \in Signos : ~Held(e, sig_map[s])  BY <1>2 DEF Held
<1>5. ListedOnce /\ AddsFresh /\ ListedGiven  BY <1>1, <1>2 DEF ListedOnce, AddsFresh, ListedGiven
<1>6. MapsAgree  BY <1>1, <1>4 DEF MapsAgree
<1>7. Installed /\ OnTheWay /\ AbortsDropped  BY <1>1, <1>2 DEF Installed, OnTheWay, Followed, AbortsDropped
<1> QED  BY <1>3, <1>5, <1>6, <1>7 DEF SigInv

(* Every step of the signaler keeps the invariant.                         *)
LEMMA SigStep == ASSUME MaxCalls \in Nat, SigInv, [Sig!Next]_(Sig!signal_vars) PROVE SigInv'
<1>0. SigTypes  BY DEF SigInv
<1>1. ASSUME NEW s \in Signos, Sig!Call([op |-> "add", id |-> sig_ids + 1, signo |-> s]) PROVE SigInv'
  <2> DEFINE t == [op |-> "add", id |-> sig_ids + 1, signo |-> s]
  <2>1. sig_ids + 1 \in Sig!HandlerIds  BY <1>0, <1>1 DEF SigTypes, Sig!Call, Sig!HandlerIds
  <2>2. t \in SigTasks /\ t.id = sig_ids + 1  BY <2>1 DEF SigTasks
  <2> HIDE DEF t
  <2>3. Sig!Call(t)  BY <1>1 DEF t
  <2> QED  BY <2>2, <2>3, SigCall
<1>2. ASSUME NEW s \in Signos, Sig!Call([op |-> "ignore", signo |-> s]) PROVE SigInv'
  <2> DEFINE t == [op |-> "ignore", signo |-> s]
  <2>1. t \in SigTasks /\ t.op # "add"  BY DEF SigTasks
  <2> HIDE DEF t
  <2>2. Sig!Call(t)  BY <1>2 DEF t
  <2> QED  BY <2>1, <2>2, SigCall
<1>3. ASSUME NEW i \in 1..sig_ids, Sig!Call([op |-> "cancel", id |-> i]) PROVE SigInv'
  <2> DEFINE t == [op |-> "cancel", id |-> i]
  <2>1. i \in Sig!HandlerIds  BY <1>0 DEF SigTypes, Sig!HandlerIds
  <2>2. t \in SigTasks /\ t.op # "add"  BY <2>1 DEF SigTasks
  <2> HIDE DEF t
  <2>3. Sig!Call(t)  BY <1>3 DEF t
  <2> QED  BY <2>2, <2>3, SigCall
<1>4. ASSUME UNCHANGED Sig!signal_vars PROVE SigInv'
  BY <1>4 DEF Sig!signal_vars, SigInv, SigTypes, ListedOnce, AddsFresh, ListedGiven, MapsAgree,
              Installed, OnTheWay, Followed, AbortsDropped
<1> QED  BY <1>1, <1>2, <1>3, <1>4, SigAdd, SigIgnore, SigCancel, SigRaise, SigWritten, SigReset, SigCaught
         DEF Sig!Next

(* sig_map and id_map are changed by functors of the loop, in the order of *)
(* the calls; a functor that leaves a signal without handlers then calls   *)
(* sigaction(), and signals come in between.  Each id is of one handler of *)
(* one signal, sig_handler() is installed for every signal with handlers   *)
(* and for no other but the one of that functor, and the assertion of      *)
(* sig_catch() fails only when the last handler of a signal was removed    *)
(* with the signal on its way, or the signal came before sigaction().      *)
THEOREM SignalMapsAgree == Sig!Spec => []SignalsAgree
<1>0. MaxCalls \in Nat  BY LoopPartsAssumption
<1>1. SigInv => SignalsAgree
  <2> SUFFICES ASSUME SigInv PROVE SignalsAgree
    OBVIOUS
  <2>0. SigTypes /\ MapsAgree /\ Installed /\ AbortsDropped  BY DEF SigInv
  <2>1. \A e : \A s \in Signos : e \in Sig!ToSet(sig_map[s]) <=> Held(e, sig_map[s])
    BY <2>0, SigToSetAt DEF SigTypes, Held
  <2> DEFINE listed == {p \in Sig!HandlerIds \X Signos : p[1] \in Sig!ToSet(sig_map[p[2]])}
  <2>2. ASSUME NEW p \in id_map PROVE p \in listed
    <3>1. PICK e \in Sig!HandlerIds, s \in Signos : p = <<e, s>> /\ Held(e, sig_map[s])
      BY <2>0 DEF MapsAgree
    <3> QED  BY <2>1, <3>1
  <2>3. ASSUME NEW p \in listed PROVE p \in id_map
    <3>1. PICK e \in Sig!HandlerIds, s \in Signos : p = <<e, s>>  OBVIOUS
    <3>2. Held(e, sig_map[s])  BY <2>1, <3>1
    <3> QED  BY <2>0, <3>1, <3>2 DEF MapsAgree
  <2>4. id_map = listed  BY <2>2, <2>3
  <2>5. \A s \in Signos :
           /\ sig_map[s] # <<>> => disposition[s] = "handler"
           /\ disposition[s] = "handler" => sig_map[s] # <<>> \/ \E r \in resets : r[1] = s
    BY <2>0 DEF Installed
  <2>6. aborted => dropped  BY <2>0 DEF AbortsDropped, SigTypes
  <2> QED  BY <2>4, <2>5, <2>6 DEF SignalsAgree, Sig!SignalsAgree
<1>2. Sig!Init => SigInv  BY <1>0, SigInit
<1>3. SigInv /\ [Sig!Next]_(Sig!signal_vars) => SigInv'  BY <1>0, SigStep
<1> QED  BY <1>1, <1>2, <1>3, PTL DEF Sig!Spec
=============================================================================
