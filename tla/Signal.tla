------------------------------- MODULE Signal -------------------------------
(***************************************************************************)
(* signaler_t: signals become bytes in a socket pair that the loop of a     *)
(* special thread reads.  The user adds, ignores and cancels through        *)
(* functors of that loop; the kernel delivers a signal at any time.         *)
(***************************************************************************)
EXTENDS Integers, SequencesExt

CONSTANTS Signos,       \* signals
          MaxCalls,     \* bound: calls of add_signal(), ignore_signal(), cancel_signal()
          MaxRaised     \* bound: signals sent to the process

VARIABLES sg_tasks,     \* functors of the loop
          sig_map,      \* ids of the handlers of each signal, the last added first
          id_map,       \* the signal of each id
          disposition,  \* of each signal: default, ignored or sig_handler
          resets,       \* the sigaction() that the functor being run has yet to call
          in_handler,     \* signals whose sig_handler() runs and has not written yet
          sig_pair,     \* bytes in the socket pair
          sig_ids,      \* sig_id: ids given out
          sg_calls, raised,
          dropped,      \* a signal was on its way when its last handler was removed,
                        \* or was delivered between that and sigaction()
          aborted       \* the Assert() of sig_catch() failed
signal_vars == <<sg_tasks, sig_map, id_map, disposition, resets, in_handler, sig_pair, sig_ids,
                 sg_calls, raised, dropped, aborted>>

HandlerIds == 1..MaxCalls
Init ==
    /\ sg_tasks = <<>> /\ sig_map = [s \in Signos |-> <<>>] /\ id_map = {}
    /\ disposition = [s \in Signos |-> "default"] /\ resets = {}
    /\ in_handler = <<>> /\ sig_pair = <<>>
    /\ sig_ids = 0 /\ sg_calls = 0 /\ raised = 0
    /\ dropped = FALSE /\ aborted = FALSE

\* add_signal(), ignore_signal() and cancel_signal() on a thread of the user
Call(task) ==
    /\ ~aborted /\ sg_calls < MaxCalls /\ sg_calls' = sg_calls + 1
    /\ sg_tasks' = Append(sg_tasks, task)
    /\ sig_ids' = IF task.op = "add" THEN task.id ELSE sig_ids
    /\ UNCHANGED <<sig_map, id_map, disposition, resets, in_handler, sig_pair, raised, dropped, aborted>>

\* A functor is run, once the one before it has ended
Run == /\ ~aborted /\ resets = {} /\ sg_tasks # <<>> /\ sg_tasks' = Tail(sg_tasks)
       /\ UNCHANGED <<in_handler, sig_pair, sig_ids, sg_calls, raised, aborted>>

\* sigaction() comes before the handler is listed, but a signal in between is
\* read only after this functor: the order makes no difference.
AddInLoop ==
    LET t == Head(sg_tasks) IN
    /\ Run /\ t.op = "add"
    /\ disposition' = IF sig_map[t.signo] = <<>> THEN [disposition EXCEPT ![t.signo] = "handler"]
                      ELSE disposition
    /\ id_map' = id_map \cup {<<t.id, t.signo>>}
    /\ sig_map' = [sig_map EXCEPT ![t.signo] = <<t.id>> \o @]
    /\ UNCHANGED <<resets, dropped>>

OnItsWay(s) == s \in ToSet(sig_pair) \/ s \in ToSet(in_handler)

\* The handlers of a signal are removed, then sigaction() is called: a signal
\* may come between the two.
IgnoreInLoop ==
    LET t == Head(sg_tasks) IN
    /\ Run /\ t.op = "ignore"
    /\ id_map' = {p \in id_map : p[1] \notin ToSet(sig_map[t.signo])}
    /\ sig_map' = [sig_map EXCEPT ![t.signo] = <<>>]
    /\ resets' = {<<t.signo, "ignored">>}
    /\ dropped' = (dropped \/ OnItsWay(t.signo))
    /\ UNCHANGED disposition

\* the list of a signal without the handler of that id
erase_after(sl, id) ==
    LET found == {k \in DOMAIN sl : sl[k] = id} IN
    IF found = {} THEN sl
    ELSE RemoveAt(sl, CHOOSE k \in found : \A j \in found : k <= j)

CancelInLoop_first ==   \* mutant: the signal gets its default back with the first cancel
    LET t == Head(sg_tasks)
        mine == {p \in id_map : p[1] = t.id}
    IN  /\ Run /\ t.op = "cancel" /\ UNCHANGED disposition
        /\ IF mine = {} THEN UNCHANGED <<id_map, sig_map, resets, dropped>>
           ELSE LET s == (CHOOSE p \in mine : TRUE)[2]
                    rest == erase_after(sig_map[s], t.id)
                IN  /\ id_map' = id_map \ mine
                    /\ sig_map' = [sig_map EXCEPT ![s] = rest]
                    /\ resets' = {<<s, "default">>}
                    /\ dropped' = (dropped \/ (rest = <<>> /\ OnItsWay(s)))
CancelInLoop ==
    LET t == Head(sg_tasks)
        mine == {p \in id_map : p[1] = t.id}
    IN  /\ Run /\ t.op = "cancel" /\ UNCHANGED disposition
        /\ IF mine = {} THEN UNCHANGED <<id_map, sig_map, resets, dropped>>
           ELSE LET s == (CHOOSE p \in mine : TRUE)[2]
                    rest == erase_after(sig_map[s], t.id)
                IN  /\ id_map' = id_map \ mine
                    /\ sig_map' = [sig_map EXCEPT ![s] = rest]
                    /\ resets' = IF rest = <<>> THEN {<<s, "default">>} ELSE {}
                    /\ dropped' = (dropped \/ (rest = <<>> /\ OnItsWay(s)))

\* sigaction() of the functor that removed the last handler, which then ends
Sigaction ==
    /\ ~aborted
    /\ \E r \in resets : disposition' = [disposition EXCEPT ![r[1]] = r[2]]
    /\ resets' = {}
    /\ UNCHANGED <<sg_tasks, sig_map, id_map, in_handler, sig_pair, sig_ids, sg_calls, raised,
                   dropped, aborted>>

\* A signal is delivered on some thread: sig_handler() starts
Raise(s) ==
    /\ ~aborted /\ raised < MaxRaised /\ disposition[s] = "handler"
    /\ raised' = raised + 1 /\ in_handler' = Append(in_handler, s)
    /\ dropped' = (dropped \/ \E r \in resets : r[1] = s)
    /\ UNCHANGED <<sg_tasks, sig_map, id_map, disposition, resets, sig_pair, sig_ids, sg_calls,
                   aborted>>

\* sig_handler() writes its byte
SigHandler(k) ==
    /\ ~aborted
    /\ sig_pair' = Append(sig_pair, in_handler[k]) /\ in_handler' = RemoveAt(in_handler, k)
    /\ UNCHANGED <<sg_tasks, sig_map, id_map, disposition, resets, sig_ids, sg_calls, raised,
                   dropped, aborted>>

\* sig_catch(): the handlers of the signals in the pair are called.  A signal
\* without handlers fails the assertion.
SigCatch ==
    /\ ~aborted /\ resets = {} /\ sig_pair # <<>> /\ sig_pair' = <<>>
    /\ aborted' = (\E s \in ToSet(sig_pair) : sig_map[s] = <<>>)
    /\ UNCHANGED <<sg_tasks, sig_map, id_map, disposition, resets, in_handler, sig_ids, sg_calls,
                   raised, dropped>>

Next ==
    \/ \E s \in Signos : \/ Call([op |-> "add", id |-> sig_ids + 1, signo |-> s])
                         \/ Call([op |-> "ignore", signo |-> s])
                         \/ Raise(s)
    \/ \E i \in 1..sig_ids : Call([op |-> "cancel", id |-> i])
    \/ \E k \in 1..Len(in_handler) : SigHandler(k)
    \/ AddInLoop \/ IgnoreInLoop \/ CancelInLoop \/ Sigaction \/ SigCatch
Spec == Init /\ [][Next]_signal_vars

\* The two maps agree on the handlers; sig_handler() is installed for every signal
\* that has one, and for no other but the one whose functor is about to call
\* sigaction(); and the assertion of sig_catch() can fail only for a signal whose
\* last handler was removed while the signal was on its way, or that came between
\* this removal and sigaction().
SignalsAgree ==
    /\ id_map = {p \in HandlerIds \X Signos : p[1] \in ToSet(sig_map[p[2]])}
    /\ \A s \in Signos :
          /\ sig_map[s] # <<>> => disposition[s] = "handler"
          /\ disposition[s] = "handler" => sig_map[s] # <<>> \/ \E r \in resets : r[1] = s
    /\ aborted => dropped

\* Assert(it != sig_map.end()) in sig_catch(): every signal read from the pair has
\* a handler.  This does not hold: the entry may be erased while the byte is on its
\* way, or just before a signal that comes ahead of the sigaction() (signal.cc:200).
SignalHasHandler == ~aborted
=============================================================================
