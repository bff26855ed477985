-------------------------------- MODULE Client --------------------------------
(***************************************************************************)
(* A client and its connector: src/client.cc, src/connector.cc and the     *)
(* close of a connection as src/connection.cc does it for them.            *)
(*                                                                         *)
(* Everything runs on the loop thread, so a call is cut only where the     *)
(* code goes on to another part of it: while pc is not "idle" the thread   *)
(* is inside restart(), connector_t::connect() or establish(), and no      *)
(* event is handled.  Each start() makes a new connector, numbered by      *)
(* `gen', and a connection has the number of the connector that made it.   *)
(* One that is closed with unsent data lingers in "Closing" while the      *)
(* client may already have another.  User code (restart, close, delete) is *)
(* called at the end of every handler, where the loop is "idle" again.     *)
(* What still refers to a deleted client is not followed any further.      *)
(***************************************************************************)
EXTENDS Integers, FiniteSets

CONSTANTS MaxStarts,   \* bound: calls of start(), those of restart() included
          MaxRetries   \* bound: retry timers

ASSUME ClientAssumption ==
    MaxStarts \in Nat /\ MaxRetries \in Nat

Gens == 1..MaxStarts
Conns == Gens

VARIABLES keep_reconnect, is_quit_loop, with_timeout,   \* options, never changed
          is_reconnect,      \* ops.is_reconnect, which the client changes
          wanted,            \* ops.is_reconnect as the user set it
          pc,
          alive,             \* the client has not been deleted
          gen,               \* start() calls so far; the connector is the last one's
          connector,         \* the client has a connector
          connecting,        \* connect_channel is not null
          retry_armed,       \* connectors whose retry timer is armed
          nretries,
          cli_conn,          \* 0: none yet
          state,             \* per connection
          connected,
          timeout_id,        \* connection_timeout_timer_id: the start() that armed it
          timeout_armed,     \* the start() calls whose connect timeout is armed
          quit,              \* loop->quit() was called
          lingered,          \* history: a connection was left Closing by restart()
          replaced,          \* history: start() armed a timeout beside another
          fatal              \* history: connect(2) of this connector failed at once

optVars == <<keep_reconnect, is_quit_loop, with_timeout, wanted>>
connectorVars == <<connector, connecting, retry_armed, nretries>>
timeoutVars == <<timeout_id, timeout_armed>>
histVars == <<lingered, replaced, fatal>>
vars == <<optVars, is_reconnect, pc, alive, gen, connectorVars, cli_conn, state,
          connected, timeoutVars, quit, histVars>>

Live(c) == c \in Conns /\ state[c] \in {"Connected", "Closing"}

Init ==
    /\ keep_reconnect \in BOOLEAN /\ is_quit_loop \in BOOLEAN /\ with_timeout \in BOOLEAN
    /\ is_reconnect \in BOOLEAN /\ wanted = is_reconnect
    /\ pc = "idle" /\ alive = TRUE
    /\ gen = 0 /\ connector = FALSE /\ connecting = FALSE
    /\ retry_armed = {} /\ nretries = 0
    /\ cli_conn = 0 /\ state = [c \in Conns |-> "none"]
    /\ connected = FALSE
    /\ timeout_id = 0 /\ timeout_armed = {}
    /\ quit = FALSE /\ lingered = FALSE /\ replaced = FALSE /\ fatal = FALSE

-----------------------------------------------------------------------------
(* connector_t::shutdown(), also its destructor.                           *)
ConnectorShutdown ==
    /\ connecting' = FALSE
    /\ retry_armed' = IF keep_reconnect THEN retry_armed \ {gen} ELSE retry_armed

(* start(): the connect timeout, then a new connector.                     *)
Start ==
    /\ gen < MaxStarts
    /\ gen' = gen + 1
    /\ timeout_id' = IF with_timeout THEN gen' ELSE timeout_id
    /\ timeout_armed' = IF with_timeout THEN timeout_armed \cup {gen'} ELSE timeout_armed
    /\ replaced' = (replaced \/ timeout_armed # {})
    /\ connector' = TRUE /\ fatal' = FALSE
    /\ pc' = "connect"

FirstStart ==
    /\ pc = "idle" /\ alive /\ gen = 0
    /\ Start
    /\ UNCHANGED <<optVars, is_reconnect, alive, connecting, retry_armed, nretries,
                   cli_conn, state, connected, quit, lingered>>

(* active_shutdown(): the connector is deleted, then close_wait() on the   *)
(* loop thread is handle_close(false): the connection is closed, which     *)
(* calls shutdown(), or lingers with unsent data.                          *)
ActiveShutdown ==
    /\ ConnectorShutdown
    /\ connector' = FALSE
    /\ connected' = FALSE
    /\ is_reconnect' = IF cli_conn # 0 THEN FALSE ELSE is_reconnect
    /\ \/ /\ ~Live(cli_conn)
          /\ UNCHANGED <<state, timeoutVars, quit, lingered>>
       \/ /\ Live(cli_conn)
          /\ state' = [state EXCEPT ![cli_conn] = "Closed"]
          /\ timeout_armed' = timeout_armed \ {timeout_id}
          /\ quit' = (quit \/ is_quit_loop)
          /\ UNCHANGED <<timeout_id, lingered>>
       \/ /\ Live(cli_conn)
          /\ state' = [state EXCEPT ![cli_conn] = "Closing"]
          /\ lingered' = TRUE
          /\ UNCHANGED <<timeoutVars, quit>>

(* restart() by the user, or by shutdown(): active_shutdown() and start(). *)
Restart ==
    /\ pc = "idle" /\ alive /\ gen \in 1..(MaxStarts - 1)
    /\ pc' = "restart"
    /\ UNCHANGED <<optVars, is_reconnect, alive, gen, connectorVars, cli_conn, state,
                   connected, timeoutVars, quit, histVars>>

RestartShutdown ==
    /\ pc = "restart"
    /\ ActiveShutdown
    /\ pc' = "start"
    /\ UNCHANGED <<optVars, alive, gen, nretries, cli_conn, replaced, fatal>>

RestartStart ==
    /\ pc = "start"
    /\ Start
    /\ UNCHANGED <<optVars, is_reconnect, alive, connecting, retry_armed, nretries,
                   cli_conn, state, connected, quit, lingered>>

(* ~client().                                                              *)
Delete ==
    /\ pc = "idle" /\ alive
    /\ ActiveShutdown
    /\ alive' = FALSE
    /\ UNCHANGED <<optVars, pc, gen, nretries, cli_conn, replaced, fatal>>

-----------------------------------------------------------------------------
(* connector_t::connect(): connect(2) fails at once, succeeds at once, or  *)
(* is in progress.                                                         *)
ConnectFatal ==
    /\ pc = "connect"
    /\ fatal' = TRUE
    /\ pc' = "idle"
    /\ UNCHANGED <<optVars, is_reconnect, alive, gen, connectorVars, cli_conn, state,
                   connected, timeoutVars, quit, lingered, replaced>>

ConnectNow ==
    /\ pc = "connect"
    /\ connecting' = TRUE
    /\ pc' = "connected"
    /\ UNCHANGED <<optVars, is_reconnect, alive, gen, connector, retry_armed, nretries,
                   cli_conn, state, connected, timeoutVars, quit, histVars>>

ConnectLater ==
    /\ pc = "connect"
    /\ connecting' = TRUE
    /\ pc' = "idle"
    /\ UNCHANGED <<optVars, is_reconnect, alive, gen, connector, retry_armed, nretries,
                   cli_conn, state, connected, timeoutVars, quit, histVars>>

(* check(): the socket is writable, with no error or with one; on an error *)
(* shutdown() and then retry() or onfail.                                  *)
CheckOk ==
    /\ pc = "idle" /\ connecting
    /\ pc' = "connected"
    /\ UNCHANGED <<optVars, is_reconnect, alive, gen, connectorVars, cli_conn, state,
                   connected, timeoutVars, quit, histVars>>

CheckError_keep ==               \* mutant: connect_channel is not given up
    /\ pc = "idle" /\ connecting
    /\ \/ /\ keep_reconnect /\ nretries < MaxRetries
          /\ retry_armed' = retry_armed \cup {gen} /\ nretries' = nretries + 1
       \/ ~keep_reconnect /\ UNCHANGED <<retry_armed, nretries>>
    /\ UNCHANGED <<optVars, is_reconnect, pc, alive, gen, connector, connecting, cli_conn,
                   state, connected, timeoutVars, quit, histVars>>

CheckError_stop ==               \* mutant: the first error is the last attempt
    /\ pc = "idle" /\ connecting /\ connecting' = FALSE
    /\ UNCHANGED <<optVars, is_reconnect, pc, alive, gen, connector, retry_armed, nretries,
                   cli_conn, state, connected, timeoutVars, quit, histVars>>

CheckError ==
    /\ pc = "idle" /\ connecting
    /\ connecting' = FALSE
    /\ \/ /\ keep_reconnect /\ nretries < MaxRetries
          /\ retry_armed' = retry_armed \cup {gen}
          /\ nretries' = nretries + 1
       \/ ~keep_reconnect /\ UNCHANGED <<retry_armed, nretries>>
    /\ UNCHANGED <<optVars, is_reconnect, pc, alive, gen, connector, cli_conn, state,
                   connected, timeoutVars, quit, histVars>>

RetryExpires(g) ==
    /\ pc = "idle" /\ g \in retry_armed
    /\ retry_armed' = retry_armed \ {g}
    /\ pc' = "connect"
    /\ UNCHANGED <<optVars, is_reconnect, alive, gen, connector, connecting, nretries,
                   cli_conn, state, connected, timeoutVars, quit, histVars>>

(* connected(), and establish() of the client, which takes the channel.    *)
Establish ==
    /\ pc = "connected"
    /\ retry_armed' = IF keep_reconnect THEN retry_armed \ {gen} ELSE retry_armed
    /\ cli_conn' = gen
    /\ state' = [state EXCEPT ![gen] = "Connected"]
    /\ timeout_armed' = timeout_armed \ {timeout_id}
    /\ connected' = TRUE
    /\ connecting' = FALSE
    /\ pc' = "idle"
    /\ UNCHANGED <<optVars, is_reconnect, alive, gen, connector, nretries, timeout_id,
                   quit, histVars>>

-----------------------------------------------------------------------------
(* shutdown(conn), the close handler of a connection: `reset' says whether *)
(* the peer closed it.  It goes on to restart(), or the handler returns.   *)
Reconnects(reset) == ~is_quit_loop /\ is_reconnect /\ reset

Shutdown(c, reset) ==
    /\ state' = [state EXCEPT ![c] = "Closed"]
    /\ connected' = FALSE
    /\ timeout_armed' = timeout_armed \ {timeout_id}
    /\ quit' = (quit \/ is_quit_loop)
    /\ pc' = IF Reconnects(reset) THEN "restart" ELSE "idle"
    /\ UNCHANGED <<optVars, is_reconnect, alive, gen, connectorVars, cli_conn,
                   timeout_id, histVars>>

(* The peer closes; a lingering connection is out of data; an error; or    *)
(* the user closes the connection, which may linger.                       *)
PeerCloses(c) ==
    /\ pc = "idle" /\ alive /\ Live(c)
    /\ Reconnects(TRUE) => gen < MaxStarts
    /\ Shutdown(c, TRUE)

Ends(c) ==
    /\ pc = "idle" /\ alive /\ Live(c)
    /\ Shutdown(c, FALSE)

UserCloses(c) ==
    /\ pc = "idle" /\ alive /\ state[c] = "Connected"
    /\ state' = [state EXCEPT ![c] = "Closing"]
    /\ UNCHANGED <<optVars, is_reconnect, pc, alive, gen, connectorVars, cli_conn,
                   connected, timeoutVars, quit, histVars>>

(* The connect timeout of start() number g expires: the handler is called  *)
(* unless the client is connected.                                         *)
TimeoutExpires(g) ==
    /\ pc = "idle" /\ alive /\ g \in timeout_armed
    /\ timeout_armed' = timeout_armed \ {g}
    /\ UNCHANGED <<optVars, is_reconnect, pc, alive, gen, connectorVars, cli_conn, state,
                   connected, timeout_id, quit, histVars>>

Inside == RestartShutdown \/ RestartStart \/ ConnectFatal \/ ConnectNow \/ ConnectLater
          \/ Establish

Next ==
    \/ FirstStart \/ Restart \/ Delete \/ Inside \/ CheckOk \/ CheckError
    \/ \E g \in Gens : RetryExpires(g) \/ TimeoutExpires(g)
    \/ \E c \in Conns : PeerCloses(c) \/ Ends(c) \/ UserCloses(c)

Spec == Init /\ [][Next]_vars

(* The loop thread runs on: a call once begun goes on, an expired retry    *)
(* timer is served, and connect(2) comes to an end.  MaxRetries also says  *)
(* that the peer can be reached after so many failures.                    *)
Fairness ==
    /\ WF_vars(Inside)
    /\ WF_vars(CheckOk \/ CheckError)
    /\ \A g \in Gens : WF_vars(RetryExpires(g))
FairSpec == Spec /\ Fairness

-----------------------------------------------------------------------------
TypeOK ==
    /\ keep_reconnect \in BOOLEAN /\ is_quit_loop \in BOOLEAN /\ with_timeout \in BOOLEAN
    /\ is_reconnect \in BOOLEAN /\ wanted \in BOOLEAN
    /\ pc \in {"idle", "restart", "start", "connect", "connected"}
    /\ alive \in BOOLEAN /\ gen \in 0..MaxStarts
    /\ connector \in BOOLEAN /\ connecting \in BOOLEAN
    /\ retry_armed \subseteq Gens /\ nretries \in 0..MaxRetries
    /\ cli_conn \in 0..MaxStarts
    /\ state \in [Conns -> {"none", "Connected", "Closing", "Closed"}]
    /\ connected \in BOOLEAN
    /\ timeout_id \in 0..MaxStarts /\ timeout_armed \subseteq Gens
    /\ quit \in BOOLEAN
    /\ lingered \in BOOLEAN /\ replaced \in BOOLEAN /\ fatal \in BOOLEAN

(* connector.cc:40, Assert(!connect_channel): whenever connect() is called *)
(* again, by a retry timer or for a new connector, the channel of the      *)
(* attempt before has been given up or handed over.                        *)
OneAttempt == pc = "connect" => ~connecting

(* The retry timer captures the raw connector: it is never armed for one   *)
(* that restart() or the destructor of the client has deleted, nor beside  *)
(* an attempt in progress or a connection it would replace.                *)
RetryOwned ==
    retry_armed # {} =>
        /\ retry_armed = {gen} /\ alive /\ connector
        /\ ~connecting /\ state[gen] = "none"

(* A connect timeout does not outlive the connection attempt it is for:    *)
(* connected, no timer is left that would call the timeout handler after a *)
(* later disconnection, unless start() armed a second one beside it.       *)
TimeoutDisarmed == connected /\ ~replaced => timeout_armed = {}

(* is_connected() tells the truth about conn(), whoever closed it, unless  *)
(* a connection was left lingering by restart(), whose close handler then  *)
(* speaks for the new one.                                                 *)
ConnectedIsCurrent ==
    pc = "idle" /\ alive /\ ~lingered => (connected <=> Live(cli_conn))

(* With keep_reconnect an attempt that is in progress leads to a connection *)
(* if the peer can be reached in the end: an error that check() finds is   *)
(* followed by a retry.  This is less than client.h:17 says: connect(2) of *)
(* a retry may fail at once, and then there is no further one              *)
(* (IgnoresConnectError).                                                  *)
KeepsTrying ==
    (keep_reconnect /\ connecting) ~> (connected \/ fatal \/ ~alive)

(* client.h:17, "Ignore connect(2) error and keep trying to reconnect.":   *)
(* with keep_reconnect a client that has been started and was never        *)
(* connected has an attempt in progress or a retry timer.  It does not     *)
(* hold: connect() calls onfail and returns if connect(2) fails at once.   *)
IgnoresConnectError ==
    keep_reconnect /\ alive /\ pc = "idle" /\ gen > 0 =>
        connecting \/ gen \in retry_armed \/ state[gen] # "none"

(* client.h:19, "Whether to try to reconnect after disconnecting from the  *)
(* peer.": with the option set, every disconnection by the peer leads to   *)
(* restart().  It does not hold after the first restart(), which clears    *)
(* the option in active_shutdown() (README, section 5).                    *)
ReconnectsAgain ==
    [][\A c \in Conns :
          wanted /\ ~is_quit_loop /\ connected /\ c = cli_conn /\ PeerCloses(c)
             => pc' = "restart"]_vars

(* One attempt, one retry timer, one connect timeout and one connection at *)
(* a time, each belonging to the current start() (client.cc, connector.cc).*)
OneConnection == OneAttempt /\ RetryOwned /\ TimeoutDisarmed /\ ConnectedIsCurrent
=============================================================================
