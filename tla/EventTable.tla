----------------------------- MODULE EventTable -----------------------------
(***************************************************************************)
(* What a dispatcher promises the loop: a table of the events each          *)
(* descriptor is interested in, and a wait() that reports those that are    *)
(* ready.  It holds of the descriptors that are not marred.                 *)
(***************************************************************************)
EXTENDS Naturals, FiniteSets

CONSTANT Fds
Events == {"Read", "Write"}

VARIABLES call,       \* the call: its name and its arguments
          interest,   \* the events of each descriptor, {} when it is not registered
          marred,     \* descriptors that are watched for something else than that
          trigger     \* the events reported, when the call is wait()

Init ==
    /\ call = [op |-> "none"] /\ interest = [fd \in Fds |-> {}] /\ marred = {}
    /\ trigger = [fd \in Fds |-> {}]

Registered == {fd \in Fds : interest[fd] # {}}
Reported(t) == {p \in Fds \X Events : p[2] \in t[p[1]]}

\* Only the descriptor of the call may become marred, and only as long as it is
\* registered.
Add(c) ==
    /\ interest' = [interest EXCEPT ![c.fd] = @ \cup c.events]
    /\ marred' \ {c.fd} = marred \ {c.fd}
    /\ trigger' = [fd \in Fds |-> {}]
Remove(c) ==
    /\ interest' = [interest EXCEPT ![c.fd] = @ \ c.events]
    /\ marred' \ {c.fd} = marred \ {c.fd} /\ marred' \subseteq Registered'
    /\ trigger' = [fd \in Fds |-> {}]

\* What may be reported of a descriptor: what is ready of what was asked for, an
\* error, and Write for the one that has hung up with something to read.
Reportable(c, fd) ==
    {e \in c.ready[fd] : e \in interest[fd] \/ (e = "Error" /\ interest[fd] # {})}
    \cup {e \in Events : fd \in c.hup /\ "Read" \in interest[fd] \cap c.ready[fd]}

\* Nothing else is reported, of a marred descriptor nothing that is not ready.  And
\* no event of interest is missed, unless the list of events is full: it has room
\* for one event of every registered descriptor.
Wait(c) ==
    /\ \A fd \in Fds \ marred : trigger'[fd] \subseteq Reportable(c, fd)
    /\ \A fd \in marred : trigger'[fd] \subseteq c.ready[fd]
    /\ \/ \A fd \in Fds \ marred : c.ready[fd] \cap interest[fd] \subseteq trigger'[fd]
       \/ Cardinality(Reported(trigger')) >= Cardinality(Registered)
    /\ UNCHANGED <<interest, marred>>

Next ==
    \/ call'.op = "add" /\ Add(call')
    \/ call'.op = "remove" /\ Remove(call')
    \/ call'.op = "wait" /\ Wait(call')
Spec == Init /\ [][Next]_<<call, interest, marred, trigger>>
=============================================================================
