----------------------------- MODULE Client_proofs -----------------------------
(* Theorems about the client and its connector, for every number of        *)
(* start() calls and retries; then about the DNS resolver (module          *)
(* ResolverPart), for any callers, names, ids and answers.                 *)
EXTENDS Client, ResolverPart, TLAPS, Sequences, WellFoundedInduction

(* While the client is inside a call it exists, and past start() it has a  *)
(* connector.                                                              *)
InsideCall ==
    /\ pc # "idle" => alive
    /\ pc \in {"connect", "connected"} \/ connecting => alive /\ connector /\ gen \in Gens

(* Connections not yet made.                                               *)
NotMade ==
    /\ \A c \in Conns : c > gen => state[c] = "none"
    /\ gen = 0 => ~connecting /\ retry_armed = {} /\ ~connected /\ timeout_armed = {}

(* An attempt, its retry timer and the connection that comes of it         *)
(* exclude each other.                                                     *)
Attempt ==
    /\ pc \in {"start", "connect"} => ~connecting
    /\ pc \in {"start", "connect", "connected"} \/ connecting => retry_armed = {}
    /\ pc \in {"connect", "connected"} \/ connecting => state[gen] = "none"
    /\ retry_armed # {} => keep_reconnect /\ gen \in Gens
    /\ RetryOwned

(* Unless one was left lingering, only cli_conn can be open, and nothing   *)
(* is open while another attempt is under way.                             *)
OneOpen ==
    ~lingered =>
        /\ \A c \in Conns : Live(c) => c = cli_conn
        /\ (\/ pc \in {"start", "connect", "connected"} \/ connecting
            \/ retry_armed # {})
              => \A c \in Conns : ~Live(c)
        /\ alive => (connected <=> Live(cli_conn))

(* One connect timeout at a time is remembered; it is gone when the client *)
(* is connected.                                                           *)
Timeouts ==
    /\ pc = "start" => ~connected
    /\ ~replaced => timeout_armed \subseteq {timeout_id}
    /\ TimeoutDisarmed

ClientInv == TypeOK /\ InsideCall /\ NotMade /\ Attempt /\ OneOpen /\ Timeouts

(* A client before start().                                                *)
LEMMA ClientInvInit == Init => ClientInv
<1> SUFFICES ASSUME Init PROVE ClientInv  OBVIOUS
<1> USE ClientAssumption DEF Init, Gens, Conns
<1>1. TypeOK
  <2>1. /\ 0 \in 0..MaxStarts /\ 0 \in 0..MaxRetries /\ {} \subseteq Gens
        /\ [c \in Conns |-> "none"] \in [Conns -> {"none", "Connected", "Closing", "Closed"}]
    OBVIOUS
  <2> QED  BY <2>1, Zenon DEF TypeOK
<1>2. InsideCall /\ NotMade  BY DEF InsideCall, NotMade
<1>3. Attempt /\ Timeouts  BY DEF Attempt, RetryOwned, Timeouts, TimeoutDisarmed
<1>4. OneOpen  BY DEF OneOpen, Live
<1> QED  BY <1>1, <1>2, <1>3, <1>4 DEF ClientInv

(* Every step of the client keeps the invariant.                           *)
LEMMA ClientInvNext == ClientInv /\ [Next]_vars => ClientInv'
<1> SUFFICES ASSUME ClientInv, [Next]_vars PROVE ClientInv'  OBVIOUS
<1>0. TypeOK /\ InsideCall /\ NotMade /\ Attempt /\ OneOpen /\ Timeouts  BY DEF ClientInv
<1> USE ClientAssumption, <1>0
    DEF Gens, Conns, vars, optVars, connectorVars, timeoutVars, histVars
<1>1. CASE FirstStart
  <2> USE <1>1 DEF FirstStart, Start
  <2>1. TypeOK'
    <3>1. /\ gen' \in 0..MaxStarts /\ timeout_id' \in 0..MaxStarts /\ timeout_armed' \subseteq Gens
          /\ retry_armed' \subseteq Gens /\ nretries' \in 0..MaxRetries /\ cli_conn' \in 0..MaxStarts
          /\ pc' \in {"idle", "restart", "start", "connect", "connected"}
          /\ state' \in [Conns -> {"none", "Connected", "Closing", "Closed"}]
      BY DEF TypeOK
    <3>2. /\ connector' \in BOOLEAN /\ fatal' \in BOOLEAN /\ replaced' \in BOOLEAN
          /\ UNCHANGED <<keep_reconnect, is_quit_loop, with_timeout, wanted, is_reconnect, alive, connecting,
                         connected, quit, lingered>>
      OBVIOUS
    <3> QED  BY <3>1, <3>2 DEF TypeOK
  <2>2. InsideCall' /\ NotMade'  BY DEF TypeOK, InsideCall, NotMade
  <2>3. Attempt'  BY DEF TypeOK, NotMade, Attempt, RetryOwned
  <2>4. OneOpen'  BY DEF TypeOK, NotMade, OneOpen, Live
  <2>5. Timeouts'  BY DEF TypeOK, NotMade, Timeouts, TimeoutDisarmed
  <2> QED  BY <2>1, <2>2, <2>3, <2>4, <2>5 DEF ClientInv
<1>2. CASE Restart
  <2> USE <1>2 DEF Restart
  <2>1. TypeOK' /\ InsideCall' /\ NotMade'  BY DEF TypeOK, InsideCall, NotMade
  <2>2. Attempt' /\ Timeouts'
    BY DEF Attempt, RetryOwned, Timeouts, TimeoutDisarmed
  <2>3. OneOpen'  BY DEF OneOpen, Live
  <2> QED  BY <2>1, <2>2, <2>3 DEF ClientInv
(* What active_shutdown() leaves, for restart() and for the destructor.    *)
<1>3. ASSUME ActiveShutdown, UNCHANGED <<gen, nretries, cli_conn, replaced, keep_reconnect>>
      PROVE  /\ connecting' = FALSE /\ retry_armed' = {}
             /\ connector' = FALSE /\ connected' = FALSE
             /\ \A c \in Conns : state[c] = "none" => state'[c] = "none"
             /\ state' \in [Conns -> {"none", "Connected", "Closing", "Closed"}]
             /\ \A c \in Conns : Live(c)' => Live(c)
             /\ ~lingered' => ~lingered /\ ~Live(cli_conn)'
             /\ timeout_armed' \subseteq timeout_armed /\ timeout_id' = timeout_id
             /\ lingered' \in BOOLEAN /\ quit' \in BOOLEAN /\ is_reconnect' \in BOOLEAN
  <2>1. connecting' = FALSE /\ connector' = FALSE /\ connected' = FALSE
        /\ retry_armed' = IF keep_reconnect THEN retry_armed \ {gen} ELSE retry_armed
    BY <1>3 DEF ActiveShutdown, ConnectorShutdown
  <2>2. retry_armed' = {}  BY <2>1 DEF Attempt, RetryOwned
  <2>3. /\ timeout_armed' \subseteq timeout_armed /\ timeout_id' = timeout_id
        /\ lingered' \in BOOLEAN /\ quit' \in BOOLEAN /\ is_reconnect' \in BOOLEAN
    BY <1>3 DEF ActiveShutdown, TypeOK
  <2>4. \/ ~Live(cli_conn) /\ UNCHANGED <<state, lingered>>
        \/ Live(cli_conn) /\ state' = [state EXCEPT ![cli_conn] = "Closed"] /\ UNCHANGED lingered
        \/ Live(cli_conn) /\ state' = [state EXCEPT ![cli_conn] = "Closing"] /\ lingered'
    BY <1>3 DEF ActiveShutdown
  <2>5. /\ \A c \in Conns : state[c] = "none" => state'[c] = "none"
        /\ state' \in [Conns -> {"none", "Connected", "Closing", "Closed"}]
        /\ \A c \in Conns : Live(c)' => Live(c)
        /\ ~lingered' => ~lingered /\ ~Live(cli_conn)'
    BY <1>3, <2>4 DEF Live, TypeOK
  <2> QED  BY <2>1, <2>2, <2>3, <2>5
<1>4. CASE RestartShutdown
  <2>1. ActiveShutdown /\ pc = "restart" /\ pc' = "start"
        /\ UNCHANGED <<gen, nretries, cli_conn, replaced, keep_reconnect, alive, fatal,
                       is_quit_loop, with_timeout, wanted>>
    BY <1>4 DEF RestartShutdown
  <2>2. /\ connecting' = FALSE /\ retry_armed' = {}
        /\ connector' = FALSE /\ connected' = FALSE
        /\ \A c \in Conns : state[c] = "none" => state'[c] = "none"
        /\ state' \in [Conns -> {"none", "Connected", "Closing", "Closed"}]
        /\ \A c \in Conns : Live(c)' => Live(c)
        /\ ~lingered' => ~lingered /\ ~Live(cli_conn)'
        /\ timeout_armed' \subseteq timeout_armed /\ timeout_id' = timeout_id
        /\ lingered' \in BOOLEAN /\ quit' \in BOOLEAN /\ is_reconnect' \in BOOLEAN
    BY <1>3, <2>1
  <2>3. TypeOK' /\ InsideCall' /\ NotMade'
    BY <2>1, <2>2 DEF TypeOK, InsideCall, NotMade
  <2>4. Attempt'  BY <2>1, <2>2 DEF Attempt, RetryOwned
  <2>5. OneOpen'  BY <2>1, <2>2 DEF OneOpen
  <2>6. Timeouts'  BY <2>1, <2>2 DEF Timeouts, TimeoutDisarmed
  <2> QED  BY <2>3, <2>4, <2>5, <2>6 DEF ClientInv
<1>5. CASE RestartStart
  <2> USE <1>5 DEF RestartStart, Start
  <2>1. TypeOK'
    <3>1. /\ gen' \in 0..MaxStarts /\ timeout_id' \in 0..MaxStarts /\ timeout_armed' \subseteq Gens
          /\ retry_armed' \subseteq Gens /\ nretries' \in 0..MaxRetries /\ cli_conn' \in 0..MaxStarts
          /\ pc' \in {"idle", "restart", "start", "connect", "connected"}
          /\ state' \in [Conns -> {"none", "Connected", "Closing", "Closed"}]
      BY DEF TypeOK
    <3>2. /\ connector' \in BOOLEAN /\ fatal' \in BOOLEAN /\ replaced' \in BOOLEAN
          /\ UNCHANGED <<keep_reconnect, is_quit_loop, with_timeout, wanted, is_reconnect, alive, connecting,
                         connected, quit, lingered>>
      OBVIOUS
    <3> QED  BY <3>1, <3>2 DEF TypeOK
  <2>2. InsideCall' /\ NotMade'  BY DEF TypeOK, InsideCall, NotMade
  <2>3. Attempt'  BY DEF TypeOK, NotMade, Attempt, RetryOwned
  <2>4. OneOpen'  BY DEF TypeOK, NotMade, OneOpen, Live
  <2>5. Timeouts'  BY DEF TypeOK, NotMade, Timeouts, TimeoutDisarmed
  <2> QED  BY <2>1, <2>2, <2>3, <2>4, <2>5 DEF ClientInv
<1>6. CASE Delete
  <2>1. ActiveShutdown /\ pc = "idle" /\ alive' = FALSE
        /\ UNCHANGED <<gen, nretries, cli_conn, replaced, keep_reconnect, pc, fatal,
                       is_quit_loop, with_timeout, wanted>>
    BY <1>6 DEF Delete
  <2>2. /\ connecting' = FALSE /\ retry_armed' = {}
        /\ connector' = FALSE /\ connected' = FALSE
        /\ \A c \in Conns : state[c] = "none" => state'[c] = "none"
        /\ state' \in [Conns -> {"none", "Connected", "Closing", "Closed"}]
        /\ \A c \in Conns : Live(c)' => Live(c)
        /\ ~lingered' => ~lingered /\ ~Live(cli_conn)'
        /\ timeout_armed' \subseteq timeout_armed /\ timeout_id' = timeout_id
        /\ lingered' \in BOOLEAN /\ quit' \in BOOLEAN /\ is_reconnect' \in BOOLEAN
    BY <1>3, <2>1
  <2>3. TypeOK' /\ InsideCall' /\ NotMade'
    BY <2>1, <2>2 DEF TypeOK, InsideCall, NotMade
  <2>4. Attempt'  BY <2>1, <2>2 DEF Attempt, RetryOwned
  <2>5. OneOpen'  BY <2>1, <2>2 DEF OneOpen
  <2>6. Timeouts'  BY <2>1, <2>2 DEF Timeouts, TimeoutDisarmed
  <2> QED  BY <2>3, <2>4, <2>5, <2>6 DEF ClientInv
<1>7. CASE ConnectFatal \/ ConnectNow \/ ConnectLater \/ CheckOk
  <2> USE <1>7 DEF ConnectFatal, ConnectNow, ConnectLater, CheckOk
  <2>1. TypeOK' /\ InsideCall' /\ NotMade'
    <3>1. TypeOK'
      <4>1. CASE ConnectFatal  BY <4>1 DEF TypeOK
      <4>2. CASE ConnectNow  BY <4>2 DEF TypeOK
      <4>3. CASE ConnectLater  BY <4>3 DEF TypeOK
      <4>4. CASE CheckOk  BY <4>4 DEF TypeOK
      <4> QED  BY <4>1, <4>2, <4>3, <4>4
    <3>2. InsideCall'  BY DEF InsideCall
    <3>3. NotMade'  BY DEF NotMade, InsideCall
    <3> QED  BY <3>1, <3>2, <3>3
  <2>2. Attempt'  BY DEF Attempt, RetryOwned
  <2>3. OneOpen'  BY DEF OneOpen, Live
  <2>4. Timeouts'  BY DEF Timeouts, TimeoutDisarmed
  <2> QED  BY <2>1, <2>2, <2>3, <2>4 DEF ClientInv
<1>8. CASE CheckError
  <2>0. /\ pc = "idle" /\ connecting /\ connecting' = FALSE
        /\ UNCHANGED <<keep_reconnect, is_quit_loop, with_timeout, wanted, is_reconnect, pc,
                       alive, gen, connector, cli_conn, state, connected, timeout_id,
                       timeout_armed, quit, lingered, replaced, fatal>>
    BY <1>8 DEF CheckError
  <2>1. \/ /\ keep_reconnect /\ nretries < MaxRetries
           /\ retry_armed' = retry_armed \cup {gen} /\ nretries' = nretries + 1
        \/ UNCHANGED <<retry_armed, nretries>>
    BY <1>8 DEF CheckError
  <2>2. gen \in Gens  BY <2>0 DEF InsideCall
  <2>3. retry_armed' \subseteq Gens /\ nretries' \in 0..MaxRetries
    <3>1. retry_armed \subseteq Gens /\ nretries \in 0..MaxRetries  BY DEF TypeOK
    <3>2. nretries < MaxRetries => nretries + 1 \in 0..MaxRetries  BY <3>1
    <3>3. retry_armed \cup {gen} \subseteq Gens  BY <2>2, <3>1
    <3> QED  BY <2>1, <3>1, <3>2, <3>3
  <2>4. TypeOK'
    <3>1. connecting' \in BOOLEAN  BY <2>0
    <3>2. TypeOK  OBVIOUS
    <3> HIDE <1>0, ClientAssumption DEF Gens, Conns
    <3> QED  BY <2>0, <2>3, <3>1, <3>2 DEF TypeOK
  <2>5. InsideCall' /\ NotMade'  BY <2>0, <2>2 DEF InsideCall, NotMade
  <2>6. Attempt'  BY <2>0, <2>1, <2>2 DEF Attempt, RetryOwned, InsideCall
  <2>7. OneOpen'  BY <2>0, <2>1 DEF OneOpen, Live
  <2>8. Timeouts'  BY <2>0 DEF Timeouts, TimeoutDisarmed
  <2> QED  BY <2>4, <2>5, <2>6, <2>7, <2>8 DEF ClientInv
<1>9. ASSUME NEW g \in Gens, RetryExpires(g) PROVE ClientInv'
  <2> USE <1>9 DEF RetryExpires
  <2>1. TypeOK' /\ InsideCall' /\ NotMade'
    BY DEF TypeOK, InsideCall, NotMade, Attempt, RetryOwned
  <2>2. Attempt'  BY DEF Attempt, RetryOwned
  <2>3. OneOpen'  BY DEF OneOpen, Live
  <2>4. Timeouts'  BY DEF Timeouts, TimeoutDisarmed
  <2> QED  BY <2>1, <2>2, <2>3, <2>4 DEF ClientInv
<1>10. CASE Establish
  <2> USE <1>10 DEF Establish
  <2>1. gen \in Conns /\ retry_armed' = {}  BY DEF InsideCall, Attempt
  <2>2. state' = [state EXCEPT ![gen] = "Connected"] /\ state'[gen] = "Connected"
        /\ \A c \in Conns : c # gen => state'[c] = state[c]
    BY <2>1 DEF TypeOK
  <2>3. TypeOK' /\ InsideCall' /\ NotMade'
    <3>1. TypeOK'  BY <2>1 DEF TypeOK
    <3>2. InsideCall'  BY DEF InsideCall
    <3>3. NotMade'  BY <2>1, <2>2 DEF NotMade
    <3> QED  BY <3>1, <3>2, <3>3
  <2>4. Attempt'  BY <2>1 DEF Attempt, RetryOwned
  <2>5. OneOpen'  BY <2>1, <2>2 DEF OneOpen, Live
  <2>6. Timeouts'  BY DEF Timeouts, TimeoutDisarmed
  <2> QED  BY <2>3, <2>4, <2>5, <2>6 DEF ClientInv
<1>11. ASSUME NEW c \in Conns, PeerCloses(c) \/ Ends(c) PROVE ClientInv'
  <2>1. /\ pc = "idle" /\ alive /\ Live(c) /\ pc' \in {"idle", "restart"}
        /\ state' = [state EXCEPT ![c] = "Closed"] /\ connected' = FALSE
        /\ timeout_armed' = timeout_armed \ {timeout_id} /\ quit' \in BOOLEAN
        /\ UNCHANGED <<optVars, is_reconnect, alive, gen, connectorVars, cli_conn,
                       timeout_id, histVars>>
    BY <1>11 DEF PeerCloses, Ends, Shutdown, TypeOK
  <2>2. state'[c] = "Closed" /\ state[c] # "none"
        /\ \A d \in Conns : d # c => state'[d] = state[d]
    BY <2>1 DEF TypeOK, Live
  <2>3. TypeOK' /\ InsideCall' /\ NotMade'
    <3>1. TypeOK'  BY <2>1 DEF TypeOK
    <3>2. InsideCall'  BY <2>1 DEF InsideCall
    <3>3. NotMade'  BY <2>1, <2>2 DEF NotMade
    <3> QED  BY <3>1, <3>2, <3>3
  <2>4. Attempt'  BY <2>1, <2>2 DEF Attempt, RetryOwned
  <2>5. OneOpen'  BY <2>1, <2>2 DEF OneOpen, Live
  <2>6. Timeouts'  BY <2>1 DEF Timeouts, TimeoutDisarmed
  <2> QED  BY <2>3, <2>4, <2>5, <2>6 DEF ClientInv
<1>12. ASSUME NEW c \in Conns, UserCloses(c) PROVE ClientInv'
  <2> USE <1>12 DEF UserCloses
  <2>1. state'[c] = "Closing" /\ state[c] = "Connected"
        /\ \A d \in Conns : d # c => state'[d] = state[d]
    BY DEF TypeOK
  <2>2. TypeOK' /\ InsideCall' /\ NotMade'  BY <2>1 DEF TypeOK, InsideCall, NotMade
  <2>3. Attempt'  BY <2>1 DEF Attempt, RetryOwned
  <2>4. OneOpen'  BY <2>1 DEF OneOpen, Live
  <2>5. Timeouts'  BY DEF Timeouts, TimeoutDisarmed
  <2> QED  BY <2>2, <2>3, <2>4, <2>5 DEF ClientInv
<1>13. ASSUME NEW g \in Gens, TimeoutExpires(g) PROVE ClientInv'
  <2> USE <1>13 DEF TimeoutExpires
  <2>1. TypeOK' /\ InsideCall' /\ NotMade'  BY DEF TypeOK, InsideCall, NotMade
  <2>2. Attempt' /\ Timeouts'  BY DEF Attempt, RetryOwned, Timeouts, TimeoutDisarmed
  <2>3. OneOpen'  BY DEF OneOpen, Live
  <2> QED  BY <2>1, <2>2, <2>3 DEF ClientInv
<1>14. CASE UNCHANGED vars
  <2> USE <1>14
  <2>1. TypeOK' /\ InsideCall' /\ NotMade'  BY DEF TypeOK, InsideCall, NotMade
  <2>2. Attempt' /\ Timeouts'  BY DEF Attempt, RetryOwned, Timeouts, TimeoutDisarmed
  <2>3. OneOpen'  BY DEF OneOpen, Live
  <2> QED  BY <2>1, <2>2, <2>3 DEF ClientInv
<1> QED
  BY <1>1, <1>2, <1>4, <1>5, <1>6, <1>7, <1>8, <1>9, <1>10, <1>11, <1>12, <1>13, <1>14
  DEF Next, Inside

(* The inductive invariant of the client.                                  *)
LEMMA ClientInvariant == Spec => []ClientInv
BY ClientInvInit, ClientInvNext, PTL DEF Spec

(* Every reachable state of the client is well typed.                      *)
THEOREM ClientTypeCorrect == Spec => []TypeOK
<1>1. ClientInv => TypeOK  BY DEF ClientInv
<1> QED  BY ClientInvariant, <1>1, PTL

(* connector_t::connect() never finds a channel of an earlier attempt,     *)
(* through any number of retries and restarts.                             *)
THEOREM AttemptsOneByOne == Spec => []OneAttempt
<1>1. ClientInv => OneAttempt  BY DEF ClientInv, Attempt, OneAttempt
<1> QED  BY ClientInvariant, <1>1, PTL

(* The retry timer never outlives the connector whose address it holds.    *)
THEOREM RetryTimerOwned == Spec => []RetryOwned
<1>1. ClientInv => RetryOwned  BY DEF ClientInv, Attempt
<1> QED  BY ClientInvariant, <1>1, PTL

(* A connected client has no connect timeout armed, unless start() armed   *)
(* one beside another.                                                     *)
THEOREM TimeoutGone == Spec => []TimeoutDisarmed
<1>1. ClientInv => TimeoutDisarmed  BY DEF ClientInv, Timeouts
<1> QED  BY ClientInvariant, <1>1, PTL

(* is_connected() tells whether conn() is open, unless restart() has left  *)
(* a connection lingering.                                                 *)
THEOREM ConnectedTellsTruth == Spec => []ConnectedIsCurrent
<1>1. ClientInv => ConnectedIsCurrent  BY DEF ClientInv, OneOpen, ConnectedIsCurrent
<1> QED  BY ClientInvariant, <1>1, PTL

(* A client has one attempt, timer and connection at a time, for every     *)
(* number of restarts and retries (client.cc, connector.cc).               *)
THEOREM ClientHasOne == Spec => []OneConnection
BY AttemptsOneByOne, RetryTimerOwned, TimeoutGone, ConnectedTellsTruth, PTL DEF OneConnection

-----------------------------------------------------------------------------
(* The index arithmetic of appending a functor and of taking the first.    *)
LEMMA AppendAt ==
    ASSUME NEW S, NEW s \in Seq(S), NEW e \in S
    PROVE  /\ Append(s, e) \in Seq(S)
           /\ Len(s) \in Nat /\ Len(Append(s, e)) = Len(s) + 1
           /\ \A i \in 1..Len(s) : Append(s, e)[i] = s[i]
           /\ Append(s, e)[Len(s) + 1] = e
OBVIOUS

(* Tail, by position.                                                      *)
LEMMA TailAt ==
    ASSUME NEW S, NEW s \in Seq(S), s # <<>>
    PROVE  /\ Head(s) \in S /\ Head(s) = s[1] /\ Tail(s) \in Seq(S)
           /\ Len(s) \in Nat \ {0} /\ Len(Tail(s)) = Len(s) - 1
           /\ \A i \in 1..Len(Tail(s)) : Tail(s)[i] = s[i + 1]
OBVIOUS


(* dns::resolver, under the assumptions on its constants.                  *)
ResolverOk == /\ None \notin Queries /\ Answers \subseteq Seq(Nat) /\ Scan \in Nat \ {0}

(* Induction over the natural numbers, for a set.                          *)
LEMMA SetInduction ==
    ASSUME NEW S, 0 \in S, \A n \in Nat : n \in S => n + 1 \in S
    PROVE  Nat \subseteq S
<1> DEFINE T == Nat \ S
           R == OpToRel(<, Nat)
<1>1. SUFFICES ASSUME T # {} PROVE FALSE  OBVIOUS
<1>2. IsWellFoundedOn(R, Nat)  BY NatLessThanWellFounded
<1>3. T \subseteq Nat  OBVIOUS
<1> HIDE DEF R, T
<1>4. PICK x \in T : \A y \in T : ~(<<y, x>> \in R)  BY <1>1, <1>2, <1>3, WFMin
<1>5. \A y, z \in Nat : <<y, z>> \in R <=> y < z  BY DEF R, OpToRel
<1>6. x \in Nat /\ x \notin S BY <1>3 DEF T
<1>7. x # 0 BY <1>6
<1>8. x - 1 \in Nat /\ x - 1 < x /\ (x - 1) + 1 = x BY <1>6, <1>7
<1>9. x - 1 \notin T  BY <1>3, <1>4, <1>5, <1>6, <1>8
<1> QED BY <1>6, <1>8, <1>9 DEF T

(* The records of a reply none of which has a ttl of 0.                    *)
NoZero(t) == \A k \in DOMAIN t : t[k] > 0
Least(n, t) == \A k \in DOMAIN t : n <= t[k]

(* The loop of get_addr_list() over unsigned ttls computes an unsigned ttl, *)
(* which is at most that of any record unless one of them is 0.            *)
LEMMA MinTtlNat ==
    ASSUME NEW t \in Seq(Nat) PROVE Res!min_ttl(t) \in Nat /\ (NoZero(t) => Least(Res!min_ttl(t), t))
<1> DEFINE Body(f, k) == IF k = 0 THEN 0
                         ELSE IF f[k - 1] = 0 \/ t[k] < f[k - 1] THEN t[k] ELSE f[k - 1]
           IsLoop(f) == f = [k \in 0..Len(t) |-> Body(f, k)]
           Part(n, f) == \A k \in 0..n : f[k] = Body(f, k)
           S == {n \in Nat : n <= Len(t) => \E f \in [0..n -> Nat] : Part(n, f)}
<1>0. Len(t) \in Nat /\ \A k \in 1..Len(t) : t[k] \in Nat  OBVIOUS
<1>1. 0 \in S
  <2>1. Part(0, [k \in 0..0 |-> 0])  OBVIOUS
  <2>2. [k \in 0..0 |-> 0] \in [0..0 -> Nat]  OBVIOUS
  <2> QED  BY <2>1, <2>2
<1>2. ASSUME NEW n \in Nat, n \in S PROVE n + 1 \in S
  <2>1. SUFFICES ASSUME n + 1 <= Len(t) PROVE \E f \in [0..(n + 1) -> Nat] : Part(n + 1, f)
    <3> HIDE DEF Part, Body
    <3>1. n + 1 \in Nat  OBVIOUS
    <3> QED  BY <3>1
  <2>2. PICK f \in [0..n -> Nat] : Part(n, f)  BY <1>0, <1>2, <2>1
  <2> DEFINE g == [k \in 0..(n + 1) |-> IF k = n + 1 THEN Body(f, n + 1) ELSE f[k]]
  <2>3. Body(f, n + 1) \in Nat
    <3>1. f[n] \in Nat /\ t[n + 1] \in Nat /\ (n + 1) - 1 = n /\ n + 1 # 0  BY <1>0, <2>1, <2>2
    <3> QED  BY <3>1
  <2>4. g \in [0..(n + 1) -> Nat]  BY <2>2, <2>3
  <2>5. ASSUME NEW k \in 0..(n + 1) PROVE g[k] = Body(g, k)
    <3>1. k # 0 => k - 1 \in 0..n /\ k - 1 # n + 1 /\ g[k - 1] = f[k - 1]  BY <2>4
    <3>2. Body(g, k) = Body(f, k)  BY <3>1
    <3>3. CASE k = n + 1  BY <3>2, <3>3
    <3>4. CASE k # n + 1
      <4>1. k \in 0..n /\ g[k] = f[k]  BY <3>4
      <4> QED  BY <2>2, <3>2, <4>1
    <3> QED  BY <3>3, <3>4
  <2> HIDE DEF g
  <2> QED  BY <2>4, <2>5
<1>3. Nat \subseteq S
  <2> HIDE DEF S
  <2> QED  BY <1>1, <1>2, SetInduction
<1>4. PICK f \in [0..Len(t) -> Nat] : Part(Len(t), f)
  <2>1. Len(t) \in S  BY <1>0, <1>3
  <2> QED  BY <1>0, <2>1
<1>5. IsLoop(f)  BY <1>4
<1> DEFINE m == CHOOSE x : IsLoop(x)
<1>6. IsLoop(m)
  <2> HIDE DEF IsLoop
  <2> QED  BY <1>5
<1>7. Res!min_ttl(t) = m[Len(t)]  BY DEF Res!min_ttl
<1>8. \A k \in 0..Len(t) : m[k] = Body(m, k)
  <2> HIDE DEF m
  <2> QED  BY <1>6
<1> HIDE DEF m
<1> DEFINE U == {n \in Nat : n <= Len(t) => m[n] \in Nat}
<1>9. 0 \in U  BY <1>0, <1>8
<1>10. ASSUME NEW n \in Nat, n \in U PROVE n + 1 \in U
  <2>1. SUFFICES ASSUME n + 1 <= Len(t) PROVE m[n + 1] \in Nat  OBVIOUS
  <2>2. m[n] \in Nat /\ t[n + 1] \in Nat /\ (n + 1) - 1 = n /\ n + 1 # 0 /\ n + 1 \in 0..Len(t)
    BY <1>0, <1>10, <2>1
  <2> QED  BY <1>8, <2>2
<1>11. Nat \subseteq U
  <2> HIDE DEF U
  <2> QED  BY <1>9, <1>10, SetInduction
<1> DEFINE V == {n \in Nat : n <= Len(t) => (n > 0 => m[n] > 0) /\ \A k \in 1..n : m[n] <= t[k]}
<1>12. \A n \in 0..Len(t) : m[n] \in Nat  BY <1>0, <1>11
<1>13. ASSUME NoZero(t) PROVE Least(m[Len(t)], t)
  <2>0. \A k \in 1..Len(t) : t[k] > 0  BY <1>0, <1>13 DEF NoZero
  <2>1. 0 \in V  BY <1>0, <1>8
  <2>2. ASSUME NEW n \in Nat, n \in V PROVE n + 1 \in V
    <3>1. SUFFICES ASSUME n + 1 <= Len(t)
                   PROVE  (n + 1 > 0 => m[n + 1] > 0) /\ \A k \in 1..(n + 1) : m[n + 1] <= t[k]
      OBVIOUS
    <3>2. /\ n <= Len(t) /\ m[n] \in Nat /\ t[n + 1] \in Nat /\ t[n + 1] > 0 /\ n + 1 \in 0..Len(t)
          /\ (n + 1) - 1 = n /\ n + 1 # 0
      BY <1>0, <1>12, <2>0, <3>1
    <3>3. (n > 0 => m[n] > 0) /\ \A k \in 1..n : m[n] <= t[k]  BY <2>2, <3>2
    <3>4. m[n + 1] = IF m[n] = 0 \/ t[n + 1] < m[n] THEN t[n + 1] ELSE m[n]  BY <1>8, <3>2
    <3>5. m[n + 1] > 0 /\ m[n + 1] \in Nat /\ m[n + 1] <= t[n + 1]  BY <3>2, <3>4
    <3>6. ASSUME NEW k \in 1..n PROVE m[n + 1] <= t[k]
      <4>1. n > 0 /\ m[n] > 0 /\ m[n] <= t[k] /\ t[k] \in Nat /\ m[n + 1] <= m[n]
        BY <1>0, <3>2, <3>3, <3>4
      <4> QED  BY <3>2, <3>5, <4>1
    <3>7. \A k \in 1..(n + 1) : k \in 1..n \/ k = n + 1  OBVIOUS
    <3> QED  BY <3>5, <3>6, <3>7
  <2>3. Nat \subseteq V
    <3> HIDE DEF V
    <3> QED  BY <2>1, <2>2, SetInduction
  <2>4. \A k \in 1..Len(t) : m[Len(t)] <= t[k]  BY <1>0, <2>3
  <2> QED  BY <1>0, <2>4 DEF Least
<1> QED  BY <1>0, <1>7, <1>11, <1>13

ResValues == Res!Replies \cup {[kind |-> "timeout"]}
CacheEntries == [ttls: Seq(Nat), put: Int, expire: Int]
Copies == [ttls: Seq(Nat), age: Int]

ResTypes ==
    /\ qpc \in [Queries -> {"start", "copying", "cached", "undefined", "waiting", "gaveup", "done"}]
    /\ name \in [Queries -> Names] /\ tasks \in Seq(Queries)
    /\ query_map \in [Ids -> Queries \cup {None}]
    /\ result \in [Queries -> {<<>>} \cup {<<v>> : v \in ResValues}]
    /\ spin \in BOOLEAN /\ cache_map \in [Names -> CacheEntries]
    /\ clock \in Int /\ next_scan \in Int /\ served \in [Queries -> Copies]

(* A caller's query is nowhere before it asks, then among the functors,    *)
(* then outstanding under one id, then it has its result.                  *)
Queued(q) == \E k \in 1..Len(tasks) : tasks[k] = q
Mapped(q) == \E i \in Ids : query_map[i] = q

QueuedOnce == \A j, k \in 1..Len(tasks) : tasks[j] = tasks[k] => j = k
MappedOnce == \A i, j \in Ids : query_map[i] = query_map[j] /\ query_map[i] # None => i = j
OnePlace ==
    \A q \in Queries :
        /\ qpc[q] = "start" => ~Queued(q) /\ ~Mapped(q) /\ result[q] = <<>>
        /\ Queued(q) => ~Mapped(q) /\ result[q] = <<>>
        /\ Mapped(q) => result[q] = <<>>
        /\ qpc[q] = "waiting" /\ ~Queued(q) /\ result[q] = <<>> => Mapped(q)
Timed == timer = Res!Outstanding /\ twice = FALSE

(* An entry expires before any of its records does, if none has a ttl of   *)
(* 0.  While the loop thread runs, the scan is on time, and what a scan    *)
(* leaves in the cache expires after it; so what was copied was fresh.     *)
Expires(e) == NoZero(e.ttls) => \A k \in DOMAIN e.ttls : e.expire <= e.put + e.ttls[k]
Fresh(c) == NoZero(c.ttls) => \A k \in DOMAIN c.ttls : c.age < c.ttls[k] + Scan
ScannedInTime ==
    /\ \A n \in Names : cache_map[n] # Res!Empty => Expires(cache_map[n])
    /\ spin = FALSE =>
        /\ next_scan - Scan <= clock /\ clock <= next_scan
        /\ \A q \in Queries : Fresh(served[q])
        /\ \A n \in Names : cache_map[n] # Res!Empty => cache_map[n].expire > next_scan - Scan

(* A pointer that cache::get() gave is to an entry, or to a freed one.     *)
Pointers == \A q \in Queries : qpc[q] = "copying" /\ q \notin freed => cache_map[name[q]] # Res!Empty

QueryInv == QueuedOnce /\ MappedOnce /\ OnePlace /\ Timed
ResInv == ResTypes /\ QueryInv /\ Res!OwnName /\ ScannedInTime /\ Pointers

(* Before the first query there is none to answer.                         *)
LEMMA ResInit == ASSUME ResolverOk PROVE Res!Init => ResInv
<1> SUFFICES ASSUME Res!Init PROVE ResInv  OBVIOUS
<1>1. Res!Empty \in CacheEntries
  BY DEF Res!Empty, CacheEntries
<1>2. tasks = <<>> /\ Len(tasks) = 0 /\ tasks \in Seq(Queries)  BY DEF Res!Init
<1>3. ResTypes
  <2>1. clock \in Int /\ next_scan \in Int /\ served \in [Queries -> Copies]
    BY DEF Res!Init, ResolverOk, Res!Nothing, Copies
  <2>2. cache_map \in [Names -> CacheEntries] /\ spin \in BOOLEAN  BY <1>1 DEF Res!Init
  <2>3. /\ qpc \in [Queries -> {"start", "copying", "cached", "undefined", "waiting", "gaveup", "done"}]
        /\ name \in [Queries -> Names]
        /\ query_map \in [Ids -> Queries \cup {None}]
        /\ result \in [Queries -> {<<>>} \cup {<<v>> : v \in ResValues}]
    BY DEF Res!Init
  <2> QED  BY <1>2, <2>1, <2>2, <2>3 DEF ResTypes
<1>4. QueuedOnce /\ \A q : ~Queued(q)  BY <1>2 DEF QueuedOnce, Queued
<1>5. MappedOnce /\ \A q \in Queries : ~Mapped(q)
  BY DEF Res!Init, MappedOnce, Mapped, ResolverOk
<1>6. OnePlace  BY <1>4, <1>5 DEF Res!Init, OnePlace
<1>7. Timed  BY DEF Res!Init, Timed, Res!Outstanding
<1>8. Res!OwnName  BY DEF Res!Init, Res!OwnName
<1>9. ScannedInTime
  <2>1. \A q \in Queries : served[q].ttls = <<>>  BY DEF Res!Init, Res!Nothing
  <2>2. \A q \in Queries : Fresh(served[q])  BY <2>1 DEF Fresh
  <2> QED  BY <2>2 DEF Res!Init, ScannedInTime, ResolverOk
<1>10. Pointers  BY DEF Res!Init, Pointers
<1> QED  BY <1>3, <1>4, <1>5, <1>6, <1>7, <1>8, <1>9, <1>10 DEF ResInv, QueryInv

(* Steps of the loop thread or of the caller that leave the cache alone.   *)
CacheUntouched ==
    /\ UNCHANGED <<cache_map, clock, next_scan, freed, served, name>> /\ (spin' = FALSE => spin = FALSE)
    /\ \A q \in Queries : qpc'[q] = "copying" => qpc[q] = "copying"

(* Steps that leave the cache and the clock alone.                         *)
LEMMA CacheUntouchedFresh ==
    ASSUME ScannedInTime, Pointers, CacheUntouched PROVE ScannedInTime' /\ Pointers'
<1>1. ScannedInTime'  BY DEF ScannedInTime, CacheUntouched
<1>2. Pointers'  BY DEF Pointers, CacheUntouched
<1> QED  BY <1>1, <1>2

(* Steps that leave the queries alone.                                     *)
LEMMA QueriesUntouched ==
    ASSUME QueryInv, Res!OwnName, UNCHANGED <<name, tasks, query_map, timer, result, twice>>,
           \A q \in Queries : qpc'[q] = qpc[q] \/ (qpc[q] # "start" /\ qpc'[q] \notin {"start", "waiting"})
                              \/ qpc'[q] = "copying"
    PROVE  QueryInv' /\ Res!OwnName'
<1>1. QueuedOnce' /\ MappedOnce' /\ Timed'
  BY DEF QueryInv, QueuedOnce, MappedOnce, Timed, Res!Outstanding
<1>2. \A q : (Queued(q)' <=> Queued(q)) /\ (Mapped(q)' <=> Mapped(q))
  BY DEF Queued, Mapped
<1>3. OnePlace'  BY <1>2 DEF QueryInv, OnePlace
<1>4. Res!OwnName'  BY DEF Res!OwnName
<1> QED  BY <1>1, <1>3, <1>4 DEF QueryInv

(* notify() takes a query out of query_map and gives it its one value.     *)
LEMMA NotifyKeeps ==
    ASSUME ResolverOk, ResTypes, QueryInv, Res!OwnName, NEW i \in Ids, NEW v \in ResValues,
           query_map[i] # None, Res!notify(i, v), UNCHANGED <<qpc, name, tasks>>,
           v.kind = "ok" => v.about = name[query_map[i]]
    PROVE  /\ QueryInv' /\ Res!OwnName'
           /\ query_map' \in [Ids -> Queries \cup {None}]
           /\ result' \in [Queries -> {<<>>} \cup {<<w>> : w \in ResValues}]
<1>1. PICK q \in Queries : q = query_map[i]  BY DEF ResTypes
<1>2. /\ timer' = timer \ {q} /\ result' = [result EXCEPT ![q] = <<v>>]
      /\ twice' = (twice \/ result[q] # <<>>)
      /\ query_map' = [query_map EXCEPT ![i] = None]
  BY <1>1 DEF Res!notify
<1>3. q # None  BY DEF ResolverOk
<1>4. Mapped(q) /\ result[q] = <<>> /\ ~Queued(q) /\ qpc[q] # "start"
  BY <1>1 DEF Mapped, QueryInv, OnePlace
<1>5. query_map' \in [Ids -> Queries \cup {None}]
      /\ result' \in [Queries -> {<<>>} \cup {<<w>> : w \in ResValues}]
  BY <1>2 DEF ResTypes
<1>6. QueuedOnce'  BY DEF QueryInv, QueuedOnce
<1>7. MappedOnce'  BY <1>2 DEF QueryInv, MappedOnce, ResTypes
<1>8. \A p \in Queries : (Mapped(p)' <=> Mapped(p) /\ p # q)
  <2>1. ~Mapped(q)'
    BY <1>1, <1>2, <1>3 DEF QueryInv, MappedOnce, Mapped, ResTypes
  <2>2. ASSUME NEW p \in Queries, p # q PROVE Mapped(p)' <=> Mapped(p)
    <3>1. p # None  BY DEF ResolverOk
    <3> QED  BY <1>1, <1>2, <2>2, <3>1 DEF Mapped, ResTypes
  <2> QED  BY <2>1, <2>2
<1>9. \A p : Queued(p)' <=> Queued(p)  BY DEF Queued
<1>10. result'[q] = <<v>> /\ <<v>> # <<>> /\ \A p \in Queries : p # q => result'[p] = result[p]
  BY <1>2 DEF ResTypes
<1>11. OnePlace'
  BY <1>4, <1>8, <1>9, <1>10 DEF QueryInv, OnePlace
<1>12. Timed'
  <2>1. twice' = FALSE  BY <1>2, <1>4 DEF QueryInv, Timed
  <2>2. Res!Outstanding' = Res!Outstanding \ {q}
    <3>1. \A p : p \in Res!Outstanding <=> p \in Queries /\ Mapped(p)
      BY DEF Res!Outstanding, Mapped, ResTypes, ResolverOk
    <3>2. \A p : p \in Res!Outstanding' <=> p \in Queries /\ Mapped(p)'
      BY <1>5 DEF Res!Outstanding, Mapped, ResolverOk
    <3> QED  BY <1>8, <3>1, <3>2
  <2> QED  BY <1>2, <2>1, <2>2 DEF QueryInv, Timed
<1>13. Res!OwnName'
  <2>1. <<v>>[1] = v  OBVIOUS
  <2> QED  BY <1>1, <1>10, <2>1 DEF Res!OwnName
<1> QED  BY <1>5, <1>6, <1>7, <1>11, <1>12, <1>13 DEF QueryInv

(* The first functor becomes an outstanding query with an id of its own.   *)
LEMMA DoQueryKeeps == ASSUME ResolverOk, ResInv, Res!DoQuery PROVE ResInv'
<1>0. ResTypes /\ QueryInv  BY DEF ResInv
<1>1. PICK i \in Ids : /\ query_map[i] = None
                            /\ query_map' = [query_map EXCEPT ![i] = Head(tasks)]
                            /\ Res!send_query(i, Head(tasks))
  BY DEF Res!DoQuery
<1>2. /\ tasks # <<>> /\ tasks' = Tail(tasks) /\ timer' = timer \cup {Head(tasks)}
      /\ UNCHANGED <<qpc, name, cache_map, clock, next_scan, freed, served, result, twice>>
      /\ spin = FALSE
  BY <1>0 DEF Res!DoQuery, Res!OnLoop, Res!Caller, ResTypes
<1>3. /\ Head(tasks) \in Queries /\ Head(tasks) = tasks[1] /\ tasks' \in Seq(Queries)
      /\ Len(tasks) \in Nat \ {0} /\ Len(tasks') = Len(tasks) - 1
      /\ \A k \in 1..Len(tasks') : tasks'[k] = tasks[k + 1]
  BY <1>0, <1>2, TailAt DEF ResTypes
<1>4. PICK h \in Queries : h = Head(tasks)  BY <1>3
<1>5. h # None  BY DEF ResolverOk
<1>6. Queued(h) /\ ~Mapped(h) /\ result[h] = <<>> /\ qpc[h] # "start"
  BY <1>0, <1>3, <1>4 DEF Queued, QueryInv, OnePlace
<1>7. spin' \in BOOLEAN  BY <1>0, <1>1 DEF Res!send_query, ResTypes
<1>8. ResTypes'
  BY <1>0, <1>1, <1>2, <1>3, <1>7 DEF ResTypes
<1>9. \A k \in 1..Len(tasks') : k + 1 \in 1..Len(tasks) /\ k + 1 # 1  BY <1>3
<1>10. QueuedOnce'
  <2> SUFFICES ASSUME NEW j \in 1..Len(tasks'), NEW k \in 1..Len(tasks'), tasks'[j] = tasks'[k]
               PROVE  j = k
    BY DEF QueuedOnce
  <2>1. j + 1 = k + 1  BY <1>0, <1>3, <1>9 DEF QueryInv, QueuedOnce
  <2> QED  BY <1>3, <2>1
<1>11. \A p : Queued(p)' <=> Queued(p) /\ p # h
  <2>1. ASSUME NEW p, Queued(p)' PROVE Queued(p) /\ p # h
    <3>1. PICK k \in 1..Len(tasks') : tasks'[k] = p  BY <2>1 DEF Queued
    <3>2. tasks[k + 1] = p /\ k + 1 \in 1..Len(tasks) /\ k + 1 # 1 /\ 1 \in 1..Len(tasks)
      BY <1>3, <1>9, <3>1
    <3> QED  BY <1>0, <1>3, <1>4, <3>2 DEF Queued, QueryInv, QueuedOnce
  <2>2. ASSUME NEW p, Queued(p), p # h PROVE Queued(p)'
    <3>1. PICK k \in 1..Len(tasks) : tasks[k] = p  BY <2>2 DEF Queued
    <3>2. k # 1  BY <1>3, <1>4, <2>2, <3>1
    <3>3. k - 1 \in 1..Len(tasks') /\ (k - 1) + 1 = k  BY <1>3, <3>2
    <3>4. tasks'[k - 1] = p  BY <1>3, <3>1, <3>3
    <3> QED  BY <3>3, <3>4 DEF Queued
  <2> QED  BY <2>1, <2>2
<1>12. query_map'[i] = h /\ \A j \in Ids : j # i => query_map'[j] = query_map[j]
  BY <1>0, <1>1, <1>4 DEF ResTypes
<1>13. \A p \in Queries : Mapped(p)' <=> Mapped(p) \/ p = h
  <2>1. ASSUME NEW p \in Queries PROVE p # query_map[i]  BY <1>1 DEF ResolverOk
  <2> QED  BY <1>12, <2>1 DEF Mapped
<1>14. MappedOnce'
  <2>1. \A j \in Ids : query_map[j] # h  BY <1>6 DEF Mapped
  <2> QED  BY <1>0, <1>12, <2>1 DEF QueryInv, MappedOnce
<1>15. OnePlace'
  BY <1>0, <1>2, <1>6, <1>11, <1>13 DEF QueryInv, OnePlace
<1>16. Timed'
  <2>1. \A p : p \in Res!Outstanding <=> p \in Queries /\ Mapped(p)
    BY <1>0 DEF Res!Outstanding, Mapped, ResTypes, ResolverOk
  <2>2. \A p : p \in Res!Outstanding' <=> p \in Queries /\ Mapped(p)'
    BY <1>8 DEF Res!Outstanding, Mapped, ResTypes, ResolverOk
  <2>3. Res!Outstanding' = Res!Outstanding \cup {h}  BY <1>13, <2>1, <2>2
  <2> QED  BY <1>0, <1>2, <1>4, <2>3 DEF QueryInv, Timed
<1>17. Res!OwnName'  BY <1>2 DEF ResInv, Res!OwnName
<1>18. ScannedInTime' /\ Pointers'
  BY <1>2, CacheUntouchedFresh DEF ResInv, CacheUntouched
<1> QED  BY <1>8, <1>10, <1>14, <1>15, <1>16, <1>17, <1>18 DEF ResInv, QueryInv

(* A caller whose name is not cached queues its query.                     *)
LEMMA QueryKeeps == ASSUME ResolverOk, ResInv, NEW q \in Queries, Res!Query(q) PROVE ResInv'
<1>0. ResTypes /\ QueryInv  BY DEF ResInv
<1>1. /\ qpc[q] = "start" /\ qpc' = [qpc EXCEPT ![q] = "waiting"] /\ tasks' = Append(tasks, q)
      /\ UNCHANGED <<name, query_map, timer, result, spin, cache_map, clock, next_scan, freed, served,
                     twice>>
  BY DEF Res!Query
<1>2. /\ tasks' \in Seq(Queries) /\ Len(tasks) \in Nat /\ Len(tasks') = Len(tasks) + 1
      /\ \A k \in 1..Len(tasks) : tasks'[k] = tasks[k]
      /\ tasks'[Len(tasks) + 1] = q
  BY <1>0, <1>1, AppendAt DEF ResTypes
<1>3. ResTypes'  BY <1>0, <1>1, <1>2 DEF ResTypes
<1>4. ~Queued(q) /\ ~Mapped(q) /\ result[q] = <<>>  BY <1>0, <1>1 DEF QueryInv, OnePlace
<1>5. \A k \in 1..Len(tasks') : k \in 1..Len(tasks) \/ k = Len(tasks) + 1  BY <1>2
<1>6. QueuedOnce'  BY <1>0, <1>2, <1>4, <1>5 DEF QueryInv, QueuedOnce, Queued
<1>7. \A p : Queued(p)' <=> Queued(p) \/ p = q
  <2>1. \A k \in 1..Len(tasks) : k \in 1..Len(tasks')  BY <1>2
  <2>2. Len(tasks) + 1 \in 1..Len(tasks')  BY <1>2
  <2> QED  BY <1>2, <1>5, <2>1, <2>2 DEF Queued
<1>8. MappedOnce' /\ Timed' /\ \A p : Mapped(p)' <=> Mapped(p)
  BY <1>0, <1>1 DEF QueryInv, MappedOnce, Timed, Mapped, Res!Outstanding
<1>9. \A p \in Queries : qpc'[p] = IF p = q THEN "waiting" ELSE qpc[p]  BY <1>0, <1>1 DEF ResTypes
<1>10. OnePlace'  BY <1>0, <1>1, <1>4, <1>7, <1>8, <1>9 DEF QueryInv, OnePlace
<1>11. Res!OwnName'  BY <1>1 DEF ResInv, Res!OwnName
<1>12. ScannedInTime' /\ Pointers'
  <2>1. \A p \in Queries : qpc'[p] = "copying" => qpc[p] = "copying"  BY <1>9
  <2>2. CacheUntouched  BY <1>1, <2>1 DEF CacheUntouched
  <2> QED  BY <2>2, CacheUntouchedFresh DEF ResInv
<1> QED  BY <1>3, <1>6, <1>8, <1>10, <1>11, <1>12 DEF ResInv, QueryInv

(* A caller that takes its result puts it in the cache, unless an entry is *)
(* there.                                                                  *)
LEMMA FinishKeeps == ASSUME ResolverOk, ResInv, NEW q \in Queries, Res!Finish(q) PROVE ResInv'
<1>0. ResTypes /\ QueryInv /\ ScannedInTime /\ Pointers /\ Res!OwnName  BY DEF ResInv
<1> DEFINE t == IF result[q][1].kind = "ok" THEN result[q][1].ttls ELSE <<>>
<1>1. /\ qpc[q] = "waiting" /\ result[q] # <<>> /\ qpc' = [qpc EXCEPT ![q] = "done"]
      /\ cache_map' = Res!put(name[q], t)
      /\ UNCHANGED <<name, tasks, query_map, timer, result, spin, clock, next_scan, freed, served, twice>>
  BY DEF Res!Finish
<1>2. t \in Seq(Nat)
  <2>1. PICK v \in ResValues : result[q] = <<v>>  BY <1>0, <1>1 DEF ResTypes
  <2>2. result[q][1] = v  BY <2>1
  <2>3. CASE v.kind = "ok"
    <3>1. v \in [kind: {"ok"}, about: Names, ttls: Answers]
      BY <2>3 DEF ResValues, Res!Replies
    <3> QED  BY <2>2, <2>3, <3>1 DEF ResolverOk
  <2>4. CASE v.kind # "ok"  BY <2>2, <2>4
  <2> QED  BY <2>3, <2>4
<1>3. PICK m \in Nat : m = Res!min_ttl(t) /\ (NoZero(t) => Least(m, t))
  <2> HIDE DEF t
  <2> QED  BY <1>2, MinTtlNat
<1> HIDE DEF t
<1>4. name[q] \in Names  BY <1>0 DEF ResTypes
<1>5. /\ ScannedInTime' /\ cache_map' \in [Names -> CacheEntries]
      /\ \A n \in Names : cache_map[n] # Res!Empty => cache_map'[n] # Res!Empty
  <2>1. CASE m > 0 /\ cache_map[name[q]] = Res!Empty
    <3> DEFINE e == [ttls |-> t, put |-> clock, expire |-> clock + m]
    <3>1. cache_map' = [cache_map EXCEPT ![name[q]] = e]  BY <1>1, <1>3, <2>1 DEF Res!put
    <3>2. e \in CacheEntries /\ e.expire > clock  BY <1>0, <1>2, <2>1 DEF CacheEntries, ResTypes
    <3>5. Expires(e) /\ e # Res!Empty
      <4>1. e.ttls = t /\ e.put = clock /\ e.expire = clock + m /\ clock \in Int  BY <1>0 DEF ResTypes
      <4>2. \A k \in DOMAIN t : t[k] \in Nat  BY <1>2
      <4>3. ASSUME NoZero(t), NEW k \in DOMAIN t PROVE clock + m <= clock + t[k]
        <5>1. m <= t[k] /\ t[k] \in Nat  BY <1>3, <4>2, <4>3 DEF Least
        <5> QED  BY <4>1, <5>1
      <4>4. Expires(e)
        <5> HIDE DEF e
        <5> QED  BY <4>1, <4>3 DEF Expires
      <4>5. ASSUME e = Res!Empty PROVE FALSE
        <5>1. t = <<>> /\ clock + m = -1 /\ clock = -1  BY <4>5 DEF Res!Empty
        <5> QED  BY <2>1, <5>1
      <4> QED  BY <4>4, <4>5
    <3> HIDE DEF e
    <3>3. cache_map' \in [Names -> CacheEntries]  BY <1>0, <3>1, <3>2 DEF ResTypes
    <3>4. ScannedInTime'
      <4> SUFFICES ASSUME NEW n \in Names, cache_map'[n] # Res!Empty
                   PROVE  Expires(cache_map'[n]) /\ (spin = FALSE => cache_map'[n].expire > next_scan - Scan)
        BY <1>0, <1>1 DEF ScannedInTime
      <4>1. CASE n = name[q]
        <5>1. cache_map'[n] = e /\ e.expire \in Int  BY <1>0, <1>4, <3>1, <3>2, <4>1 DEF ResTypes, CacheEntries
        <5>2. clock \in Int /\ next_scan \in Int /\ Scan \in Int /\ (spin = FALSE => next_scan - Scan <= clock)
          BY <1>0 DEF ResTypes, ScannedInTime, ResolverOk
        <5> QED  BY <3>2, <3>5, <5>1, <5>2
      <4>2. CASE n # name[q]
        <5>1. cache_map'[n] = cache_map[n]  BY <1>0, <3>1, <4>2 DEF ResTypes
        <5> QED  BY <1>0, <5>1 DEF ScannedInTime
      <4> QED  BY <4>1, <4>2
    <3>6. \A n \in Names : cache_map[n] # Res!Empty => cache_map'[n] # Res!Empty
      BY <1>0, <1>4, <3>1, <3>5 DEF ResTypes
    <3> QED  BY <3>3, <3>4, <3>6
  <2>2. CASE ~(m > 0 /\ cache_map[name[q]] = Res!Empty)
    <3>1. UNCHANGED cache_map  BY <1>1, <1>3, <2>2 DEF Res!put
    <3> QED  BY <1>0, <1>1, <3>1 DEF ScannedInTime, ResTypes
  <2> QED  BY <2>1, <2>2
<1>6. ResTypes'  BY <1>0, <1>1, <1>5 DEF ResTypes
<1>7. \A p \in Queries : qpc'[p] = qpc[p] \/ (qpc[p] # "start" /\ qpc'[p] \notin {"start", "waiting"})
  BY <1>0, <1>1 DEF ResTypes
<1>8. QueryInv' /\ Res!OwnName'
  BY <1>0, <1>1, <1>7, QueriesUntouched
<1>9. Pointers'
  <2>1. \A p \in Queries : name[p] \in Names /\ (qpc'[p] = "copying" => qpc[p] = "copying")
    BY <1>0, <1>1 DEF ResTypes
  <2> QED  BY <1>0, <1>1, <1>5, <2>1 DEF Pointers
<1> QED  BY <1>5, <1>6, <1>8, <1>9 DEF ResInv

(* A retransmission, the last one of which ends the query.                 *)
LEMMA RetransmitKeeps ==
    ASSUME ResolverOk, ResInv, NEW i \in Ids, Res!Retransmit(i) PROVE ResInv'
<1>0. ResTypes /\ QueryInv /\ ScannedInTime /\ Pointers /\ Res!OwnName  BY DEF ResInv
<1>1. /\ query_map[i] # None /\ spin = FALSE
      /\ UNCHANGED <<qpc, name, tasks, cache_map, clock, next_scan, freed, served>>
  BY <1>0 DEF Res!Retransmit, Res!OnLoop, Res!Caller, ResTypes
<1>2. spin' \in BOOLEAN
  BY <1>0 DEF Res!Retransmit, Res!send_query, ResTypes
<1>3. ScannedInTime' /\ Pointers'  BY <1>0, <1>1, CacheUntouchedFresh DEF CacheUntouched
<1>4. CASE Res!notify(i, [kind |-> "timeout"])
  <2>1. PICK v \in ResValues : v = [kind |-> "timeout"]  BY DEF ResValues
  <2>2. v.kind # "ok"  BY <2>1
  <2>3. /\ QueryInv' /\ Res!OwnName'
        /\ query_map' \in [Ids -> Queries \cup {None}]
        /\ result' \in [Queries -> {<<>>} \cup {<<w>> : w \in ResValues}]
    BY <1>0, <1>1, <1>4, <2>1, <2>2, NotifyKeeps
  <2>4. ResTypes'  BY <1>0, <1>1, <1>2, <2>3 DEF ResTypes
  <2> QED  BY <1>3, <2>3, <2>4 DEF ResInv
<1>5. CASE UNCHANGED <<timer, result, twice, query_map>>
  <2>1. QueryInv' /\ Res!OwnName'  BY <1>0, <1>1, <1>5, QueriesUntouched
  <2>2. ResTypes'  BY <1>0, <1>1, <1>2, <1>5 DEF ResTypes
  <2> QED  BY <1>3, <2>1, <2>2 DEF ResInv
<1> QED  BY <1>4, <1>5 DEF Res!Retransmit

(* A reply ends the query with its id, if the names agree or it is an      *)
(* error code.                                                             *)
LEMMA ReplyKeeps ==
    ASSUME ResolverOk, ResInv, NEW d \in [id: Ids, name: Names], NEW r \in Res!Replies,
           Res!Reply(d, r)
    PROVE  ResInv'
<1>0. ResTypes /\ QueryInv /\ ScannedInTime /\ Pointers /\ Res!OwnName  BY DEF ResInv
<1>1. /\ d.id \in Ids /\ query_map[d.id] # None /\ Res!notify(d.id, r)
      /\ spin = FALSE /\ UNCHANGED <<qpc, name, tasks, cache_map, clock, next_scan, freed, served, spin>>
  BY <1>0 DEF Res!Reply, Res!Unpack, Res!OnLoop, Res!Caller, ResTypes
<1>2. r.kind = "ok" => r.about = name[query_map[d.id]]
  BY DEF Res!Reply, Res!Unpack
<1>3. r \in ResValues  BY DEF ResValues
<1>4. /\ QueryInv' /\ Res!OwnName'
      /\ query_map' \in [Ids -> Queries \cup {None}]
      /\ result' \in [Queries -> {<<>>} \cup {<<w>> : w \in ResValues}]
  BY <1>0, <1>1, <1>2, <1>3, NotifyKeeps
<1>5. ResTypes'  BY <1>0, <1>1, <1>4 DEF ResTypes
<1>6. ScannedInTime' /\ Pointers'  BY <1>0, <1>1, CacheUntouchedFresh DEF CacheUntouched
<1> QED  BY <1>4, <1>5, <1>6 DEF ResInv

(* cache::get(): a pointer to an entry.                                    *)
LEMMA GetCachedKeeps ==
    ASSUME ResolverOk, ResInv, NEW q \in Queries, Res!GetCached(q) PROVE ResInv'
<1>0. ResTypes /\ QueryInv /\ ScannedInTime /\ Pointers /\ Res!OwnName  BY DEF ResInv
<1>1. /\ qpc' = [qpc EXCEPT ![q] = "copying"] /\ cache_map[name[q]] # Res!Empty
      /\ UNCHANGED <<name, tasks, query_map, timer, result, spin, cache_map, clock, next_scan, freed, served, twice>>
  BY DEF Res!GetCached
<1>2. ResTypes'  BY <1>0, <1>1 DEF ResTypes
<1>3. \A p \in Queries : qpc'[p] = qpc[p] \/ (p = q /\ qpc'[p] = "copying")  BY <1>0, <1>1 DEF ResTypes
<1>4. QueryInv' /\ Res!OwnName'  BY <1>0, <1>1, <1>3, QueriesUntouched
<1>5. ScannedInTime'  BY <1>0, <1>1 DEF ScannedInTime
<1>6. Pointers'  BY <1>0, <1>1, <1>3 DEF Pointers
<1> QED  BY <1>2, <1>4, <1>5, <1>6 DEF ResInv

(* What is copied from an entry is less than one scan past its ttl.        *)
LEMMA CopyCachedKeeps ==
    ASSUME ResolverOk, ResInv, NEW q \in Queries, Res!CopyCached(q) PROVE ResInv'
<1>0. ResTypes /\ QueryInv /\ ScannedInTime /\ Pointers /\ Res!OwnName  BY DEF ResInv
<1>1. PICK n \in Names : n = name[q]  BY <1>0 DEF ResTypes
<1>2. PICK c : c = [ttls |-> cache_map[n].ttls, age |-> clock - cache_map[n].put]  OBVIOUS
<1>3. PICK w \in {"undefined", "cached"} :
        /\ qpc[q] = "copying" /\ qpc' = [qpc EXCEPT ![q] = w]
        /\ served' = served \/ (q \notin freed /\ served' = [served EXCEPT ![q] = c])
        /\ UNCHANGED <<name, tasks, query_map, timer, result, spin, cache_map, clock, next_scan, freed, twice>>
  BY <1>1, <1>2 DEF Res!CopyCached
<1>4. /\ cache_map[n] \in CacheEntries /\ clock \in Int /\ next_scan \in Int /\ Scan \in Nat \ {0}
  BY <1>0 DEF ResTypes, ResolverOk
<1>5. c \in Copies /\ c.ttls = cache_map[n].ttls /\ c.age = clock - cache_map[n].put
  BY <1>2, <1>4 DEF CacheEntries, Copies
<1>6. ResTypes'  BY <1>0, <1>3, <1>5 DEF ResTypes
<1>7. \A p \in Queries : qpc'[p] = qpc[p] \/ (qpc[p] # "start" /\ qpc'[p] \notin {"start", "waiting", "copying"})
  BY <1>0, <1>3 DEF ResTypes
<1>8. QueryInv' /\ Res!OwnName'  BY <1>0, <1>3, <1>7, QueriesUntouched
<1>9. Pointers'  BY <1>0, <1>3, <1>7 DEF Pointers
<1>10. ASSUME spin = FALSE, q \notin freed PROVE Fresh(c)
  <2>1. cache_map[n] # Res!Empty  BY <1>0, <1>1, <1>3, <1>10 DEF Pointers
  <2>2. Expires(cache_map[n]) /\ cache_map[n].expire > next_scan - Scan /\ clock <= next_scan
    BY <1>0, <1>10, <2>1 DEF ScannedInTime
  <2> SUFFICES ASSUME NoZero(c.ttls), NEW k \in DOMAIN c.ttls PROVE c.age < c.ttls[k] + Scan
    BY DEF Fresh
  <2>3. cache_map[n].expire <= cache_map[n].put + c.ttls[k]  BY <1>5, <2>2 DEF Expires
  <2>4. c.ttls[k] \in Nat /\ cache_map[n].expire \in Int /\ cache_map[n].put \in Int
    BY <1>4, <1>5 DEF CacheEntries
  <2> QED  BY <1>4, <1>5, <2>2, <2>3, <2>4
<1>11. spin = FALSE => \A p \in Queries : Fresh(served'[p])
  <2> SUFFICES ASSUME spin = FALSE, NEW p \in Queries PROVE Fresh(served'[p])
    OBVIOUS
  <2>1. Fresh(served[p])  BY <1>0 DEF ScannedInTime
  <2>2. CASE served' = served  BY <2>1, <2>2
  <2>3. CASE q \notin freed /\ served' = [served EXCEPT ![q] = c]
    <3>1. served'[p] = IF p = q THEN c ELSE served[p]  BY <1>0, <2>3 DEF ResTypes
    <3> QED  BY <1>10, <2>1, <2>3, <3>1
  <2> QED  BY <1>3, <2>2, <2>3
<1>12. ScannedInTime'  BY <1>0, <1>3, <1>11 DEF ScannedInTime
<1> QED  BY <1>6, <1>8, <1>9, <1>12 DEF ResInv

(* A scan leaves only what has not expired.                                *)
LEMMA EvictKeeps == ASSUME ResolverOk, ResInv, Res!Evict PROVE ResInv'
<1>0. ResTypes /\ QueryInv /\ ScannedInTime /\ Pointers /\ Res!OwnName  BY DEF ResInv
<1>1. /\ spin = FALSE /\ clock = next_scan /\ next_scan' = next_scan + Scan
      /\ cache_map' = [n \in Names |-> IF Res!Expired(n) THEN Res!Empty ELSE cache_map[n]]
      /\ freed' = freed \cup {q \in Queries : qpc[q] = "copying" /\ Res!Expired(name[q])}
      /\ UNCHANGED <<qpc, name, tasks, query_map, timer, result, spin, clock, served, twice>>
  BY <1>0 DEF Res!Evict, Res!queries, ResTypes
<1>2. Res!Empty \in CacheEntries  BY DEF Res!Empty, CacheEntries
<1>3. clock \in Int /\ next_scan \in Int /\ Scan \in Nat \ {0}
  BY <1>0 DEF ResTypes, ResolverOk
<1>4. ResTypes'  BY <1>0, <1>1, <1>2, <1>3 DEF ResTypes
<1>5. QueryInv' /\ Res!OwnName'  BY <1>0, <1>1, QueriesUntouched
<1>6. ScannedInTime'
  <2>1. /\ next_scan' - Scan = clock /\ clock <= next_scan' /\ \A q \in Queries : Fresh(served[q])
    BY <1>0, <1>1, <1>3 DEF ScannedInTime
  <2>2. ASSUME NEW n \in Names, cache_map'[n] # Res!Empty
        PROVE  Expires(cache_map'[n]) /\ cache_map'[n].expire > next_scan' - Scan
    <3>1. cache_map'[n] = cache_map[n] /\ ~(cache_map[n].expire <= clock)  BY <1>1, <2>2 DEF Res!Expired
    <3>2. cache_map[n].expire \in Int  BY <1>0 DEF ResTypes, CacheEntries
    <3>3. Expires(cache_map[n])  BY <1>0, <2>2, <3>1 DEF ScannedInTime
    <3> QED  BY <1>3, <2>1, <3>1, <3>2, <3>3
  <2> QED  BY <1>1, <1>3, <2>1, <2>2 DEF ScannedInTime
<1>7. Pointers'
  <2> SUFFICES ASSUME NEW q \in Queries, qpc[q] = "copying", q \notin freed' PROVE cache_map'[name[q]] # Res!Empty
    BY <1>1 DEF Pointers
  <2>1. name[q] \in Names /\ ~Res!Expired(name[q]) /\ q \notin freed  BY <1>0, <1>1 DEF ResTypes
  <2> QED  BY <1>0, <1>1, <2>1 DEF Pointers
<1> QED  BY <1>4, <1>5, <1>6, <1>7 DEF ResInv

(* Every step of the resolver keeps its invariant.                         *)
LEMMA ResNext == ASSUME ResolverOk PROVE ResInv /\ [Res!Next]_Res!vars => ResInv'
<1> SUFFICES ASSUME ResInv, [Res!Next]_Res!vars PROVE ResInv'  OBVIOUS
<1>0. ResTypes /\ QueryInv /\ ScannedInTime /\ Pointers /\ Res!OwnName  BY DEF ResInv
<1>1. ASSUME NEW q \in Queries, Res!GiveUp(q) PROVE ResInv'
  <2>1. /\ qpc[q] = "waiting" /\ qpc' = [qpc EXCEPT ![q] = "gaveup"]
        /\ UNCHANGED <<name, tasks, query_map, timer, result, spin, cache_map, clock, next_scan,
                       freed, served, twice>>
    BY <1>1 DEF Res!GiveUp
  <2>2. \A p \in Queries : qpc'[p] = qpc[p] \/ (qpc[p] # "start" /\ qpc'[p] \notin {"start", "waiting"})
    BY <1>0, <2>1 DEF ResTypes
  <2>3. QueryInv' /\ Res!OwnName'  BY <1>0, <2>1, <2>2, QueriesUntouched
  <2>4. ResTypes'  BY <1>0, <2>1 DEF ResTypes
  <2>5. ScannedInTime' /\ Pointers'
    <3>1. CacheUntouched  BY <1>0, <2>1 DEF CacheUntouched, ResTypes
    <3> QED  BY <1>0, <3>1, CacheUntouchedFresh
  <2> QED  BY <2>3, <2>4, <2>5 DEF ResInv
<1>2. CASE Res!ConnectionLost
  <2>1. UNCHANGED <<qpc, name, tasks, query_map, timer, result, spin, cache_map, clock, next_scan,
                    freed, served, twice>>
    BY <1>2 DEF Res!ConnectionLost, Res!OnLoop, Res!Caller
  <2>2. QueryInv' /\ Res!OwnName'  BY <1>0, <2>1, QueriesUntouched
  <2>3. ResTypes'  BY <1>0, <2>1 DEF ResTypes
  <2>4. ScannedInTime' /\ Pointers'  BY <1>0, <2>1, CacheUntouchedFresh DEF CacheUntouched
  <2> QED  BY <2>2, <2>3, <2>4 DEF ResInv
<1>3. CASE Res!Tick
  <2>1. UNCHANGED <<qpc, name, tasks, query_map, timer, result, spin, cache_map, next_scan,
                    freed, served, twice>>
    BY <1>3 DEF Res!Tick, Res!queries
  <2>2. QueryInv' /\ Res!OwnName'  BY <1>0, <2>1, QueriesUntouched
  <2>3. clock' = clock + 1 /\ (clock < next_scan \/ spin)  BY <1>3 DEF Res!Tick
  <2>4. ResTypes'  BY <1>0, <2>1, <2>3 DEF ResTypes
  <2>5. clock \in Int /\ next_scan \in Int /\ Scan \in Nat  BY <1>0 DEF ResTypes, ResolverOk
  <2>6. ScannedInTime'  BY <1>0, <2>1, <2>3, <2>5 DEF ScannedInTime
  <2>7. Pointers'  BY <1>0, <2>1 DEF Pointers
  <2> QED  BY <2>2, <2>4, <2>6, <2>7 DEF ResInv
<1>4. CASE UNCHANGED Res!vars
  <2>1. UNCHANGED <<qpc, name, tasks, query_map, timer, result, spin, cache_map, clock, next_scan,
                    freed, served, twice>>
    BY <1>4 DEF Res!vars, Res!queries
  <2>2. QueryInv' /\ Res!OwnName'  BY <1>0, <2>1, QueriesUntouched
  <2>3. ResTypes'  BY <1>0, <2>1 DEF ResTypes
  <2>4. ScannedInTime' /\ Pointers'  BY <1>0, <2>1, CacheUntouchedFresh DEF CacheUntouched
  <2> QED  BY <2>2, <2>3, <2>4 DEF ResInv
<1>5. ASSUME Res!Next PROVE ResInv'
  <2>1. ASSUME NEW q \in Queries, Res!GetCached(q) \/ Res!CopyCached(q) \/ Res!Query(q) \/ Res!GiveUp(q) \/ Res!Finish(q)
        PROVE  ResInv'
    BY <1>1, <2>1, GetCachedKeeps, CopyCachedKeeps, QueryKeeps, FinishKeeps
  <2>2. ASSUME NEW i \in Ids, Res!Retransmit(i) PROVE ResInv'  BY <2>2, RetransmitKeeps
  <2>3. ASSUME NEW d \in [id: Ids, name: Names], NEW r \in Res!Replies, Res!Reply(d, r)
        PROVE  ResInv'
    BY <2>3, ReplyKeeps
  <2> QED  BY <1>2, <1>3, <1>5, <2>1, <2>2, <2>3, DoQueryKeeps, EvictKeeps DEF Res!Next
<1> QED  BY <1>4, <1>5

(* For any number of callers, names, ids and replies, lost, late or        *)
(* repeated, what a caller is told is about the name it asked for, and an  *)
(* address that it copies from the cache is less than one scan past the    *)
(* ttl of its own record, if no record of that reply had a ttl of 0 and    *)
(* the item was not freed before the copy (unpack(), match_name(),         *)
(* cache::put(), cache::get(), cache::evict()).                            *)
THEOREM ResolverAnswersRight == Res!Spec => []AnswersRight
<1>0. ResolverOk  BY ResolverAssumption DEF ResolverOk
<1>1. ResInv => AnswersRight
  <2> SUFFICES ASSUME ResInv PROVE AnswersRight
    OBVIOUS
  <2>1. spin = TRUE \/ \A q \in Queries : Fresh(served[q])  BY DEF ResInv, ResTypes, ScannedInTime
  <2>2. Res!CacheIsFresh  BY <2>1 DEF Res!CacheIsFresh, Fresh, NoZero
  <2> QED  BY <2>2 DEF ResInv, AnswersRight, Res!AnswersRight
<1> QED  BY <1>0, ResInit, ResNext, <1>1, PTL DEF Res!Spec

(* A query has a retransmit timer exactly as long as it is outstanding, it *)
(* is outstanding exactly until it has its result, and no promise gets a   *)
(* second value, however ids are reused (do_query(), notify()).            *)
THEOREM QueriesAreTimed == Res!Spec => []OutstandingIsTimed
<1>0. ResolverOk  BY ResolverAssumption DEF ResolverOk
<1>1. ASSUME ResInv PROVE OutstandingIsTimed
  <2>0. ResTypes /\ QueryInv  BY <1>1 DEF ResInv
  <2>1. ~twice /\ timer = Res!Outstanding  BY <2>0 DEF QueryInv, Timed
  <2>2. ASSUME NEW q \in Queries, qpc[q] = "waiting", q \notin Res!ToSet(tasks)
        PROVE  (q \in Res!Outstanding) = (result[q] = <<>>)
    <3>1. ~Queued(q)
      BY <2>0, <2>2 DEF Queued, Res!ToSet, ResTypes
    <3>2. q \in Res!Outstanding <=> Mapped(q)
      BY <1>0, <2>0 DEF Res!Outstanding, Mapped, ResTypes, ResolverOk
    <3> QED  BY <2>0, <2>2, <3>1, <3>2 DEF QueryInv, OnePlace
  <2> QED  BY <2>1, <2>2 DEF OutstandingIsTimed, Res!OutstandingIsTimed
<1> QED  BY <1>0, ResInit, ResNext, <1>1, PTL DEF Res!Spec
=============================================================================
