------------------------------- MODULE WsPart -------------------------------
(***************************************************************************)
(* The connections of a WebSocket server, with what is assumed of the       *)
(* client and of the user.                                                  *)
(***************************************************************************)
EXTENDS Integers, Sequences

CONSTANTS WsStreams, WsCalls, BufferedSize

VARIABLES ws_in, ws_half, raw_buf, ws_got, handling, ws_state, read_request_line,
          required_request_headers, rcvfragment, decoded_buffer, ws_conn, ws_events,
          ws_calls, ws_made, sndfragment, encoded_buffer, ws_out, ws_host, ws_answers

websocketVars == <<ws_in, ws_half, raw_buf, ws_got, handling, ws_state, read_request_line,
                   required_request_headers, rcvfragment, decoded_buffer, ws_conn, ws_events,
                   ws_calls, ws_made, sndfragment, encoded_buffer, ws_out, ws_host, ws_answers>>

\* A client sends lines, of which the last one and no other is empty, and then
\* frames, of which it does not fragment control frames (RFC 6455, 5.5).
WsLine == [type: {"line"}, what: {"request", "required", "other", "crlf"}, ok: BOOLEAN]
WsFrame == [type: {"frame"}, fin: BOOLEAN, opcode: {"data", "cont", "ping", "pong", "close"},
            payload: Nat, len: Nat]
Shaped(s, n) ==
    \A k \in 1..Len(s) :
        /\ k <= n => s[k] \in WsLine /\ (s[k].what = "crlf") = (k = n)
        /\ k > n => s[k] \in WsFrame /\ (s[k].opcode \in {"ping", "pong", "close"} => s[k].fin)

\* A user does not send a message between the fragments of another.
WsCall == [kind: {"send", "fragment", "final"}, payload: [id: Nat, size: Nat]]
Ordered(s) ==
    \A k \in 1..Len(s) : k > 1 /\ s[k].kind = "send" => s[k - 1].kind # "fragment"

ASSUME WsPartAssumption ==
    /\ \A s \in WsStreams : s \in Seq(WsLine \cup WsFrame) /\ \E n \in 2..Len(s) : Shaped(s, n)
    /\ \A s \in WsCalls : s \in Seq(WsCall) /\ Ordered(s)

Ws == INSTANCE WebSocket WITH Streams <- WsStreams, Calls <- WsCalls

\* ws-server.cc: messages pass whole and in order, both ways.
MessagesWhole == Ws!MessagesWhole
=============================================================================
