----------------------------- MODULE WebSocket -----------------------------
(***************************************************************************)
(* WebSocketContext of one connection: the handshake, the decoding of       *)
(* frames that arrive cut anywhere, and the frames that the user sends.     *)
(*                                                                          *)
(* A line of the handshake is two units, its text and its CRLF; a frame is  *)
(* three: its first byte, its second byte, and what its second byte         *)
(* announces (extended length, masking key and payload).                    *)
(***************************************************************************)
EXTENDS Integers, SequencesExt

CONSTANTS Streams,      \* what a client may send: sequences of lines and frames
          Calls,        \* the calls a user may make: sequences
          BufferedSize  \* fragments are sent when so many bytes have been encoded (4096)

VARIABLES ws_in,        \* lines and frames of the client that have not arrived
          ws_half,      \* units of the first of them that have
          raw_buf,      \* lines and frames in the input buffer
          ws_got,       \* history: lines and frames that arrived
          handling,     \* message_handler() runs
          ws_state, read_request_line, required_request_headers,
          rcvfragment, decoded_buffer,
          ws_conn,      \* open, closing (with output pending) or closed
          ws_events,    \* calls of onopen, onmessage, onclose and onerror
          ws_calls, ws_made,    \* calls the user will make, and has made
          sndfragment, encoded_buffer,
          ws_out,       \* frames of the user, handed to the connection
          ws_host,      \* byte order of the machine
          ws_answers    \* frames message_handler() hands to it, by the frames of ws_out before

net_vars == <<ws_in, ws_half, ws_got>>
shake_vars == <<ws_state, read_request_line, required_request_headers, ws_host>>
decode_vars == <<rcvfragment, decoded_buffer>>
snd_vars == <<ws_calls, ws_made, sndfragment, encoded_buffer, ws_out>>
websocket_vars == <<net_vars, raw_buf, handling, shake_vars, decode_vars, ws_conn, ws_events, snd_vars,
                    ws_answers>>

Init ==
    /\ ws_in \in Streams /\ ws_half = 0 /\ ws_got = <<>> /\ raw_buf = <<>> /\ handling = FALSE
    /\ ws_state = "Handshake" /\ read_request_line = TRUE /\ required_request_headers = 6
    /\ rcvfragment = FALSE /\ decoded_buffer = <<>> /\ ws_conn = "open" /\ ws_events = <<>>
    /\ ws_calls \in Calls /\ ws_made = <<>>
    /\ sndfragment = "First" /\ encoded_buffer = <<>> /\ ws_out = <<>>
    /\ ws_host \in {"little", "big"} /\ ws_answers = <<>>

IsLine(u) == u.type = "line"
Units(u) == IF IsLine(u) THEN 2 ELSE 3

\* handle_read(): n lines or frames arrive, and h units of the one that follows
Read(n, h) ==
    /\ ~handling /\ ws_conn # "closed" /\ (n > 0 \/ h > ws_half)
    /\ IF n = Len(ws_in) THEN h = 0 ELSE h < Units(ws_in[n + 1])
    /\ raw_buf' = raw_buf \o SubSeq(ws_in, 1, n)
    /\ ws_got' = ws_got \o SubSeq(ws_in, 1, n)
    /\ ws_in' = SubSeq(ws_in, n + 1, Len(ws_in)) /\ ws_half' = h
    /\ handling' = TRUE
    /\ UNCHANGED <<shake_vars, decode_vars, ws_conn, ws_events, snd_vars, ws_answers>>

\* an event after which message_handler() closes the connection and returns
CloseWith(event) ==
    /\ ws_events' = Append(ws_events, event) /\ handling' = FALSE
    /\ ws_conn' \in {"closing", "closed"}

\* one line: the request line, a header that is required (its value accepted or
\* not), another header, or the empty line
HandshakeLine ==
    LET u == Head(raw_buf)
        bad == \/ (read_request_line \/ u.what = "required") /\ ~u.ok
               \/ ~read_request_line /\ u.what = "crlf" /\ required_request_headers # 0
        done == ~read_request_line /\ u.what = "crlf" /\ required_request_headers = 0
    IN  /\ handling /\ ws_state = "Handshake" /\ raw_buf # <<>>
        /\ read_request_line' = FALSE
        /\ required_request_headers' =
              required_request_headers - (IF ~read_request_line /\ u.what = "required" THEN 1 ELSE 0)
        /\ raw_buf' = IF bad /\ u.what # "crlf" THEN raw_buf ELSE Tail(raw_buf)
        /\ \/ bad /\ ws_state' = "HandshakeError" /\ CloseWith(<<"error">>)
           \/ done /\ ws_state' = "Establish" /\ ws_events' = Append(ws_events, <<"open">>)
                   /\ UNCHANGED <<handling, ws_conn>>
           \/ ~bad /\ ~done /\ UNCHANGED <<ws_state, handling, ws_conn, ws_events>>
        /\ UNCHANGED <<net_vars, decode_vars, ws_host, snd_vars, ws_answers>>

check_fragmentation(fragment, fin, opcode) ==
    /\ (~fin /\ ~fragment) => opcode # "cont"
    /\ fragment => opcode = "cont"

\* what decode() does not accept of the first two bytes of a frame: a fragment
\* out of place, or a control frame of more than 125 bytes
Refused(f) ==
    \/ ~check_fragmentation(rcvfragment, f.fin, f.opcode)
    \/ f.opcode \in {"close", "ping", "pong"} /\ f.len > 125

\* decode(): a frame that is refused, when two of its bytes are there
DecodeError(f) ==
    /\ handling /\ ws_state = "Establish"
    /\ \/ raw_buf # <<>> /\ f = Head(raw_buf)
       \/ raw_buf = <<>> /\ ws_half = 2 /\ f = Head(ws_in)
    /\ Refused(f) /\ CloseWith(<<"error">>)
    /\ UNCHANGED <<net_vars, raw_buf, shake_vars, decode_vars, snd_vars, ws_answers>>

\* The frame that is sent for a close or a ping: 0x88 or 0x8A and a length of 0,
\* kept in a uint16_t and sent as it is in memory.  With the low byte first it is
\* 00 88 or 00 8A: an unfinished continuation with a mask and 8 or 10 bytes,
\* which are whatever follows.
Answer(opcode) ==
    ws_answers' = Append(ws_answers,
        [after |-> Len(ws_out),
         frame |-> IF ws_host = "big" THEN [fin |-> TRUE, opcode |-> opcode, len |-> 0]
                   ELSE [fin |-> FALSE, opcode |-> "cont", len |-> IF opcode = "close" THEN 8 ELSE 10]])

\* decode() of a whole frame, and what message_handler() does with its result
Decode_keep ==      \* mutant: decoded_buffer is not cleared before a new message
    LET f == Head(raw_buf) IN
    /\ handling /\ ws_state = "Establish" /\ raw_buf # <<>>
    /\ ~Refused(f)
    /\ decoded_buffer' = Append(decoded_buffer, f.payload)
    /\ raw_buf' = Tail(raw_buf) /\ rcvfragment' = ~f.fin
    /\ \/ f.opcode = "close" /\ CloseWith(<<"close">>) /\ Answer("close")
       \/ f.opcode = "ping" /\ Answer("pong") /\ UNCHANGED <<handling, ws_conn, ws_events>>
       \/ f.opcode = "pong" /\ UNCHANGED <<handling, ws_conn, ws_events, ws_answers>>
       \/ /\ f.opcode \in {"data", "cont"} /\ UNCHANGED <<handling, ws_conn, ws_answers>>
          /\ ws_events' = IF f.fin THEN Append(ws_events, <<"message", decoded_buffer'>>) ELSE ws_events
    /\ UNCHANGED <<net_vars, shake_vars, snd_vars>>
Decode ==
    LET f == Head(raw_buf) IN
    /\ handling /\ ws_state = "Establish" /\ raw_buf # <<>>
    /\ ~Refused(f)
    /\ decoded_buffer' = Append(IF rcvfragment THEN decoded_buffer ELSE <<>>, f.payload)
    /\ raw_buf' = Tail(raw_buf) /\ rcvfragment' = ~f.fin
    /\ \/ f.opcode = "close" /\ CloseWith(<<"close">>) /\ Answer("close")
       \/ f.opcode = "ping" /\ Answer("pong") /\ UNCHANGED <<handling, ws_conn, ws_events>>
       \/ f.opcode = "pong" /\ UNCHANGED <<handling, ws_conn, ws_events, ws_answers>>
       \/ /\ f.opcode \in {"data", "cont"} /\ UNCHANGED <<handling, ws_conn, ws_answers>>
          /\ ws_events' = IF f.fin THEN Append(ws_events, <<"message", decoded_buffer'>>) ELSE ws_events
    /\ UNCHANGED <<net_vars, shake_vars, snd_vars>>

\* the buffer is empty, or holds the begin of a line or of a frame.  With bytes
\* left in HandshakeError there is no way out of the loop.
Return ==
    /\ handling /\ raw_buf = <<>>
    /\ ws_state = "HandshakeError" => ws_half = 0
    /\ (ws_state = "Establish" /\ ws_half = 2) => ~Refused(Head(ws_in))
    /\ handling' = FALSE
    /\ UNCHANGED <<net_vars, raw_buf, shake_vars, decode_vars, ws_conn, ws_events, snd_vars, ws_answers>>

\* the pending output of a closing connection is written (connection.cc)
Flushed ==
    /\ ~handling /\ ws_conn = "closing" /\ ws_conn' = "closed"
    /\ UNCHANGED <<net_vars, raw_buf, handling, shake_vars, decode_vars, ws_events, snd_vars, ws_answers>>

(***************************************************************************)
(* send(), send_fragment() and send_file()                                  *)
(***************************************************************************)
\* encode(): the header of a frame, before its payload
Frame(fin, opcode, payload) ==
    [type |-> "frame", fin |-> fin, opcode |-> opcode, payload |-> payload]
\* encoded_buffer.size(): headers of 2, 4 or 10 bytes, and payloads
HeaderSize(n) == IF n <= 125 THEN 2 ELSE IF n <= 65535 THEN 4 ELSE 10
Total(frames) == FoldLeft(LAMBDA n, f : n + HeaderSize(f.payload.size) + f.payload.size, 0, frames)

\* send() and send_file(): whatever is encoded is sent
Send(p) ==
    /\ ws_out' = ws_out \o Append(encoded_buffer, Frame(TRUE, "data", p))
    /\ encoded_buffer' = <<>> /\ UNCHANGED sndfragment

SendFragment(p, final) ==
    LET kind == IF final THEN "Final" ELSE sndfragment
        frames == Append(encoded_buffer, Frame(final, IF kind = "First" THEN "data" ELSE "cont", p))
        flush == final \/ p.size >= BufferedSize \/ Total(frames) >= BufferedSize
    IN  /\ sndfragment' = IF final THEN "First" ELSE "Middle"
        /\ ws_out' = IF flush THEN ws_out \o frames ELSE ws_out
        /\ encoded_buffer' = IF flush THEN <<>> ELSE frames

UserCall ==
    /\ ws_calls # <<>>
    /\ ws_calls' = Tail(ws_calls) /\ ws_made' = Append(ws_made, Head(ws_calls))
    /\ LET c == Head(ws_calls) IN
       \/ c.kind = "send" /\ Send(c.payload)
       \/ c.kind = "fragment" /\ SendFragment(c.payload, FALSE)
       \/ c.kind = "final" /\ SendFragment(c.payload, TRUE)
    /\ UNCHANGED <<net_vars, raw_buf, handling, shake_vars, decode_vars, ws_conn, ws_events, ws_answers>>

Next ==
    \/ \E n \in 0..Len(ws_in), h \in 0..2 : Read(n, h)
    \/ HandshakeLine \/ (\E f \in ToSet(ws_in) \cup ToSet(raw_buf) : DecodeError(f)) \/ Decode
    \/ Return \/ Flushed \/ UserCall
Spec == Init /\ [][Next]_websocket_vars

(***************************************************************************)
(* Properties                                                               *)
(***************************************************************************)
\* What a line or a frame, a call of the user and an event are to a message: no
\* part of one, the first or a further part, or a whole one
UnitPart(u) == IF IsLine(u) \/ u.opcode \notin {"data", "cont"} THEN [of |-> "none"]
               ELSE [of |-> u.opcode, final |-> u.fin, payload |-> u.payload]
CallPart(c) == [of |-> IF c.kind = "send" THEN "data" ELSE "cont",
                final |-> c.kind # "fragment", payload |-> c.payload]
EventPart(e) == IF e[1] # "message" THEN [of |-> "none"] ELSE [of |-> "whole", payload |-> e[2]]

\* messages out of parts: the one that is open, and those that are done
AddPart(acc, p) ==
    LET parts == IF p.of = "data" THEN <<p.payload>> ELSE Append(acc.open, p.payload) IN
    IF p.of = "none" THEN acc
    ELSE IF p.of = "whole" THEN [open |-> acc.open, done |-> Append(acc.done, p.payload)]
    ELSE IF p.final THEN [open |-> <<>>, done |-> Append(acc.done, parts)]
    ELSE [open |-> parts, done |-> acc.done]
Assemble(parts) ==
    LET acc[n \in 0..Len(parts)] ==
            IF n = 0 THEN [open |-> <<>>, done |-> <<>>] ELSE AddPart(acc[n - 1], parts[n])
    IN  acc[Len(parts)]
OfUnits(units) == Assemble([i \in 1..Len(units) |-> UnitPart(units[i])])
OfCalls(calls) == Assemble([i \in 1..Len(calls) |-> CallPart(calls[i])])
OfEvents(events) == Assemble([i \in 1..Len(events) |-> EventPart(events[i])])

\* However the network cuts the frames, onmessage gets every message the client
\* has completely sent, once, in order and whole, as long as the connection is
\* open: no cut in the handshake, in a frame or between fragments shows.
MessagesAsSent ==
    /\ IsPrefix(OfEvents(ws_events).done, OfUnits(ws_got).done)
    /\ (~handling /\ ws_conn = "open") => OfEvents(ws_events).done = OfUnits(ws_got).done

\* What the user sends, as messages and as fragments, reaches the connection as
\* frames that check_fragmentation() accepts and that make up the same messages;
\* nothing of a finished message stays behind in encoded_buffer.  A client that
\* takes control frames between fragments reads them all where the high byte is
\* first, and elsewhere those before the first answer to a ping or a close.
Readable == IF ws_host = "big" \/ ws_answers = <<>> THEN Len(ws_out) ELSE ws_answers[1].after
SentReassembles ==
    /\ \A i \in 1..Readable :
          check_fragmentation(i > 1 /\ ~ws_out[i - 1].fin, ws_out[i].fin, ws_out[i].opcode)
    /\ IsPrefix(OfUnits(SubSeq(ws_out, 1, Readable)).done, OfCalls(ws_made).done)
    /\ Readable = Len(ws_out) => OfUnits(ws_out).done = OfCalls(ws_made).done

\* Messages pass whole and in order, both ways.
MessagesWhole == MessagesAsSent /\ SentReassembles

\* ws-server.cc:264: a frame that is not final and belongs to no message begun has
\* an opcode.  So should the frames that answer a ping or a close; where the low byte
\* is first they go out as 00 8A and 00 88, and this does not hold.
AnswersDecode ==
    \A i \in 1..Len(ws_answers) :
        check_fragmentation(FALSE, ws_answers[i].frame.fin, ws_answers[i].frame.opcode)
=============================================================================
