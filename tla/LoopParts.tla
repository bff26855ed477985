----------------------------- MODULE LoopParts -----------------------------
(***************************************************************************)
(* Parts of an event loop, side by side: the dispatchers it waits on and    *)
(* its signals.  They share no state.                                       *)
(***************************************************************************)
EXTENDS Integers, FiniteSets

CONSTANTS Fds, EVLIST_INIT_SIZE, FD_SETSIZE, Garbage,   \* Dispatcher
          Signos, MaxCalls, MaxRaised                   \* Signal

VARIABLES backend, call, trigger,
          chan_filter,      \* channel::filter
          evmap, evmap_size, evlist_size, added_fds, kernel, pollfds, indexs,
          rdset, wrset, fds, maxfd, undefined,
          sg_tasks, sig_map, id_map, disposition, resets, in_handler, sig_pair, sig_ids, sg_calls,
          raised, dropped, aborted

dispatcherVars == <<backend, call, trigger, chan_filter, evmap, evmap_size, evlist_size,
                    added_fds, kernel, pollfds, indexs, rdset, wrset, fds, maxfd, undefined>>
signalVars == <<sg_tasks, sig_map, id_map, disposition, resets, in_handler, sig_pair, sig_ids,
                sg_calls, raised, dropped, aborted>>

\* Descriptors are small integers, and one process has only so many.
ASSUME LoopPartsAssumption ==
    /\ Fds \subseteq Nat /\ IsFiniteSet(Fds) /\ EVLIST_INIT_SIZE \in Nat \ {0}
    /\ MaxCalls \in Nat

Disp == INSTANCE Dispatcher WITH filter <- chan_filter
Sig == INSTANCE Signal

\* epoll.cc, kqueue.cc, poll.cc and select.cc: each is a table of events.
DispatcherIsTable == Disp!DispatcherIsTable

\* signal.cc: the handlers and the disposition of a signal agree.
SignalsAgree == Sig!SignalsAgree
=============================================================================
