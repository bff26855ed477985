---------------------------- MODULE HttpMessage ----------------------------
(***************************************************************************)
(* The incremental parser of httplib.cc: struct message, request and       *)
(* http_response parse_line(), and the loops that drive it, message_handler *)
(* of http_server and receive() of http_client.                             *)
(*                                                                         *)
(* A message is a line, at most one header line (which stands for all the   *)
(* header lines and what they say), an empty line and a body.  The bytes    *)
(* are units: the text of a line is one unit, CR and LF are one each, and   *)
(* so are the bytes of a body, so that the stream may be cut anywhere the   *)
(* code can tell apart.                                                     *)
(***************************************************************************)
EXTENDS Integers, SequencesExt

CONSTANTS
    Streams     \* the sequences of messages a peer may send

VARIABLES
    role,       \* "server": message_handler(); "client": receive()
    msgs,       \* the messages of this peer
    wire,       \* what has not been read from the socket
    buf,        \* input_buf of the connection
    pc,         \* "idle", or "loop" in while (buf.readable() > 0)
    state,      \* ParseLine, ParseHeader, ParseBody
    line,       \* the message whose line was parsed
    headers,    \* its header line was parsed
    length, chunked, chunk_size, body,  \* struct message
    done,       \* process_request() or response_promise.set_value(), in order
    err_code,   \* http_response::err_code, which nothing resets on this way
    leased,     \* http_connection::leased: a request waits for its response
    answers,    \* responses handed to conn->send()
    res_headers,\* the Connection header left in response::headers
    conn,       \* the connection: "open", "closing" or "closed"
    cutAtData   \* history: some read ended right behind the data of a chunk

parser == <<state, line, headers, length, chunked, chunk_size, body>>
output == <<done, err_code, leased, answers, res_headers, conn>>
vars == <<role, msgs, wire, buf, pc, parser, output, cutAtData>>

(***************************************************************************)
(* Messages and their bytes                                                 *)
(***************************************************************************)
\* head: its header lines; "none" is none at all, not even Host, and "nocolon" one
\* that is not field-name ":" field-value
Message == [line: {"ok", "bad", "long", "version"}, head: {"ok", "none", "nocolon"},
            expect: {"none", "other"}, keep: BOOLEAN, routed: BOOLEAN,
            kind: {"none", "length", "badlength", "chunked"}, chunks: Seq(Nat \ {0}), trailer: BOOLEAN]

CR == <<"cr">>
LF == <<"lf">>
CRLF == <<CR, LF>>

Total(chunks) == FoldLeft(+, 0, chunks)
Data(i, first, n) == [k \in 1..n |-> <<"data", i, first + k>>]
ChunkBytes(i, cs, k) ==
    <<<<"size", cs[k]>>>> \o CRLF \o Data(i, Total(SubSeq(cs, 1, k - 1)), cs[k]) \o CRLF
BodyBytes(i, m) ==
    CASE m.kind = "length"  -> Data(i, 0, Total(m.chunks))
      [] m.kind = "chunked" -> FlattenSeq([k \in DOMAIN m.chunks |-> ChunkBytes(i, m.chunks, k)])
                                \o <<<<"size", 0>>>> \o CRLF
                                \o (IF m.trailer THEN <<<<"header", i>>>> \o CRLF ELSE <<>>) \o CRLF
      [] OTHER -> <<>>
Bytes(i, m) ==
    <<<<"line", i>>>> \o CRLF
        \o (IF m.head = "none" THEN <<>>
            ELSE <<<<(IF m.head = "ok" THEN "header" ELSE "nocolon"), i>>>> \o CRLF)
        \o CRLF \o BodyBytes(i, m)

\* The reference: what a parser of the whole message finds.
Reference(i) == <<i, Data(i, 0, Total(msgs[i].chunks)), "None">>

\* request::parse_line(): 414 for a line above UriMaxLength, 505 for HTTP/2.0, else
\* 400; http_response::parse_line() limits no length and has one code for the rest
LineStatus(m) ==
    CASE m.line = "ok"      -> 200
      [] m.line = "long"    -> IF role = "server" THEN 414 ELSE 200
      [] m.line = "version" -> IF role = "server" THEN 505 ELSE 400
      [] OTHER              -> 400

\* What a parser of the whole message makes of it: 200, or the error it has
Status(m) ==
    IF LineStatus(m) # 200 THEN LineStatus(m)
    ELSE IF \/ m.head = "nocolon" \/ m.kind = "badlength"
            \/ role = "server" /\ m.head = "none"
    THEN 400 ELSE 200

(***************************************************************************)
(* buffer: find_crlf() and retrieve()                                       *)
(***************************************************************************)
find_crlf ==
    LET at == {k \in 1..(Len(buf) - 1) : buf[k] = CR /\ buf[k + 1] = LF}
    IN  IF at = {} THEN -1 ELSE Min(at) - 1
retrieve(n) == buf' = SubSeq(buf, n + 1, Len(buf))

Init ==
    /\ role \in {"server", "client"}
    /\ msgs \in Streams
    /\ wire = [i \in DOMAIN msgs |-> Bytes(i, msgs[i])]
    /\ buf = <<>> /\ pc = "idle"
    /\ state = "ParseLine" /\ line = 0 /\ headers = FALSE
    /\ length = 0 /\ chunked = FALSE /\ chunk_size = -1 /\ body = <<>>
    /\ done = <<>> /\ err_code = "None" /\ leased = TRUE
    /\ answers = <<>> /\ res_headers = "none" /\ conn = "open"
    /\ cutAtData = FALSE

(***************************************************************************)
(* handle_read(): n bytes arrive and the handler is called.  A server may   *)
(* be sent the next request at once; a client is sent the next response     *)
(* when it has asked for it, behind what it has not read of the last one.   *)
(***************************************************************************)
Asked == IF role = "server" THEN Len(msgs) ELSE Len(done) + (IF leased THEN 1 ELSE 0)
Arrives == FlattenSeq(SubSeq(wire, 1, Asked))
Unread(n) == [i \in DOMAIN wire |-> IF i = 1 THEN SubSeq(Arrives, n + 1, Len(Arrives))
                                    ELSE IF i <= Asked THEN <<>> ELSE wire[i]]

Receive(n) ==
    /\ pc = "idle" /\ n \in 1..Len(Arrives)
    /\ conn = "open"        \* is_connected(); a closing connection discards it
    /\ IF leased THEN buf' = buf \o SubSeq(Arrives, 1, n) /\ pc' = "loop"
       ELSE buf' = <<>> /\ UNCHANGED pc    \* idle, ignoring all received messages
    /\ wire' = Unread(n)
    /\ cutAtData' = (cutAtData \/ (/\ Arrives[n][1] = "data" /\ n < Len(Arrives)
                                   /\ Arrives[n + 1] = CR))
    /\ UNCHANGED <<role, msgs, parser, output>>

\* The client takes the connection from the pool and sends the next request.
Lease ==
    /\ pc = "idle" /\ ~leased /\ Len(done) < Len(msgs)
    /\ leased' = TRUE
    /\ UNCHANGED <<role, msgs, wire, buf, pc, parser, done, err_code, answers, res_headers,
                   conn, cutAtData>>

(***************************************************************************)
(* Ends of a turn of the loop                                               *)
(***************************************************************************)
Return == pc' = "idle" /\ UNCHANGED <<buf, parser, output>>

\* request::clear(): headers, body and state, but not length and chunked
Clear ==
    /\ state' = "ParseLine" /\ line' = 0 /\ headers' = FALSE /\ body' = <<>>

\* add_header() does not replace a header that is there
Emplace(h) == IF res_headers = "none" THEN h ELSE res_headers

\* response::send(): everything in headers goes out, if not closed
Send(i, status, h) ==
    /\ answers' = IF conn = "closed" THEN answers
                  ELSE Append(answers, [req |-> i, status |-> status, connection |-> Emplace(h)])
    /\ res_headers' = "none"

\* conn->close(): queued output keeps the connection closing
Close == conn' \in (IF conn = "closed" THEN {"closed"} ELSE {"closing", "closed"})

\* response_promise.set_value(), and the connection goes back to the pool
SetValue(i, data, err) ==
    /\ done' = Append(done, <<i, data, err>>)
    /\ leased' = FALSE
    /\ Clear
    /\ pc' = "idle" /\ UNCHANGED <<answers, res_headers, conn>>

\* the labels err of message_handler() and of receive(), which leaves length,
\* chunked and chunk_size to the next response
Err(i, status) ==
    IF role = "server"
    THEN /\ Send(i, status, "close")
         /\ Close
         /\ pc' = "idle" /\ UNCHANGED <<done, err_code, leased, parser>>
    ELSE /\ err_code' = "InvalidResponse"
         /\ SetValue(i, <<>>, "InvalidResponse")
         /\ UNCHANGED <<length, chunked, chunk_size>>

\* mutant: the handler returns after one request and leaves the rest in the buffer
ProcessRequest_return(i, data) ==
    LET h == IF msgs[i].keep THEN "keep-alive" ELSE "close" IN
    /\ done' = Append(done, <<i, data, "None">>)
    /\ IF msgs[i].routed THEN Send(i, 200, h)
       ELSE res_headers' = Emplace(h) /\ UNCHANGED answers
    /\ Clear
    /\ IF msgs[i].keep THEN UNCHANGED conn ELSE Close
    /\ UNCHANGED <<err_code, leased>>
    /\ pc' = "idle"
\* process_request(): a POST without a route is not answered
ProcessRequest(i, data) ==
    LET h == IF msgs[i].keep THEN "keep-alive" ELSE "close" IN
    /\ done' = Append(done, <<i, data, "None">>)
    /\ IF msgs[i].routed THEN Send(i, 200, h)
       ELSE res_headers' = Emplace(h) /\ UNCHANGED answers
    /\ Clear
    /\ IF msgs[i].keep THEN UNCHANGED conn ELSE Close
    /\ UNCHANGED <<err_code, leased>>
    /\ pc' = "loop"

\* the label end of receive(): one response, then the handler returns
Deliver(i, data) == SetValue(i, data, err_code) /\ UNCHANGED err_code

Complete(i, data) ==
    IF role = "server" THEN ProcessRequest(i, data) ELSE Deliver(i, data)

(***************************************************************************)
(* The turns of while (buf.readable() > 0)                                  *)
(***************************************************************************)
InLoop(s) ==
    /\ pc = "loop" /\ buf # <<>> /\ state = s
    /\ UNCHANGED <<role, msgs, wire, cutAtData>>

LoopEnds ==
    /\ pc = "loop" /\ buf = <<>>
    /\ UNCHANGED <<role, msgs, wire, cutAtData>> /\ Return

\* Only the text of a line that says what it should parses as a line.
ParseLine ==
    /\ InLoop("ParseLine")
    /\ IF find_crlf < 0 THEN Return
       ELSE IF find_crlf = 1 /\ buf[1][1] = "line" /\ LineStatus(msgs[buf[1][2]]) = 200
            THEN /\ retrieve(3)
                 /\ state' = "ParseHeader" /\ line' = buf[1][2]
                 /\ UNCHANGED <<pc, headers, length, chunked, chunk_size, body, output>>
            ELSE /\ UNCHANGED buf
                 /\ IF buf[1][1] = "line" THEN Err(buf[1][2], LineStatus(msgs[buf[1][2]]))
                    ELSE Err(0, 400)

\* parse_body_length(), after the empty line
HeadersDone ==
    LET m == msgs[line] IN
    /\ retrieve(2)
    /\ IF role = "server" /\ ~headers THEN Err(line, 400)
       ELSE IF role = "server" /\ m.expect = "other"
       THEN /\ Send(line, 417, "none")
            /\ Clear /\ pc' = "idle"
            /\ UNCHANGED <<length, chunked, chunk_size, done, err_code, leased, conn>>
       ELSE IF m.kind = "badlength" THEN Err(line, 400)
       ELSE IF m.kind = "none"
       THEN Complete(line, body) /\ UNCHANGED <<length, chunked, chunk_size>>
       ELSE /\ chunked' = (chunked \/ m.kind = "chunked")
            /\ length' = IF m.kind = "chunked" THEN length ELSE Total(m.chunks)
            /\ state' = "ParseBody"
            /\ UNCHANGED <<pc, line, headers, chunk_size, body, output>>

\* parse_header() looks for ':' in the whole buffer, not in the line: one that is
\* found behind the line gives the value a negative length, and anything may happen
Undefined == pc' = "undefined" /\ UNCHANGED <<parser, output>>

ParseHeader ==
    /\ InLoop("ParseHeader")
    /\ IF find_crlf < 0 THEN Return
       ELSE IF find_crlf = 0 THEN HeadersDone
       ELSE IF buf[1][1] # "header"
       THEN UNCHANGED buf /\ (IF \E k \in DOMAIN buf : buf[k][1] = "header" THEN Undefined ELSE Err(line, 400))
       ELSE /\ retrieve(find_crlf + 2)
            /\ headers' = TRUE
            /\ UNCHANGED <<pc, state, line, length, chunked, chunk_size, body, output>>

\* mutant: the bytes already taken are not subtracted
ParseByContentLength_whole ==
    /\ InLoop("ParseBody") /\ ~chunked
    /\ IF Len(buf) >= length
       THEN /\ retrieve(length)
            /\ Complete(line, body \o SubSeq(buf, 1, length))
            /\ UNCHANGED <<length, chunked, chunk_size>>
       ELSE /\ body' = body \o buf /\ buf' = <<>> /\ pc' = "idle"
            /\ UNCHANGED <<state, line, headers, length, chunked, chunk_size, output>>
ParseByContentLength ==
    /\ InLoop("ParseBody") /\ ~chunked
    /\ IF Len(buf) >= length
       THEN /\ retrieve(length)
            /\ Complete(line, body \o SubSeq(buf, 1, length))
            /\ UNCHANGED <<length, chunked, chunk_size>>
       ELSE /\ body' = body \o buf /\ length' = length - Len(buf)
            /\ buf' = <<>> /\ pc' = "idle"
            /\ UNCHANGED <<state, line, headers, chunked, chunk_size, output>>

\* chunk-size <CRLF>; two more bytes must be there
enough_for_chunk_size == find_crlf >= 0 /\ Len(buf) >= find_crlf + 4

ParseChunkSize ==
    /\ InLoop("ParseBody") /\ chunked /\ chunk_size = -1
    /\ IF ~enough_for_chunk_size THEN Return
       ELSE IF buf[1][1] # "size"   \* chunk_size < 0, and stays so
       THEN retrieve(find_crlf + 2) /\ Err(line, 400)
       ELSE /\ retrieve(find_crlf + 2)
            /\ chunk_size' = buf[1][2]
            /\ UNCHANGED <<pc, state, line, headers, length, chunked, body, output>>

\* trailer <CRLF>, with parse_header()
ParseTrailer ==
    /\ InLoop("ParseBody") /\ chunked /\ chunk_size = 0
    /\ IF find_crlf < 0 THEN Return
       ELSE IF find_crlf > 0
       THEN /\ retrieve(find_crlf + 2)
            /\ UNCHANGED <<pc, parser, output>>
       ELSE /\ retrieve(2)
            /\ chunk_size' = -1 /\ chunked' = FALSE
            /\ Complete(line, body)
            /\ UNCHANGED length

\* chunk-data <CRLF>; data that is not complete is taken as far as it goes
ParseChunkData ==
    /\ InLoop("ParseBody") /\ chunked /\ chunk_size > 0
    /\ IF Len(buf) > chunk_size
       THEN IF Len(buf) < chunk_size + 2 THEN Return
            ELSE IF SubSeq(buf, chunk_size + 1, chunk_size + 2) # CRLF
            THEN retrieve(chunk_size) /\ Err(line, 400)
            ELSE /\ body' = body \o SubSeq(buf, 1, chunk_size)
                 /\ retrieve(chunk_size + 2)
                 /\ chunk_size' = -1
                 /\ UNCHANGED <<pc, state, line, headers, length, chunked, output>>
       ELSE /\ body' = body \o buf /\ chunk_size' = chunk_size - Len(buf)
            /\ buf' = <<>> /\ pc' = "idle"
            /\ UNCHANGED <<state, line, headers, length, chunked, output>>

Next ==
    \/ \E n \in 1..Len(Arrives) : Receive(n)
    \/ Lease
    \/ LoopEnds \/ ParseLine \/ ParseHeader
    \/ ParseByContentLength \/ ParseChunkSize \/ ParseTrailer \/ ParseChunkData

Spec == Init /\ [][Next]_vars

(***************************************************************************)
(* Properties                                                               *)
(***************************************************************************)
\* What the loops of message_handler() and receive() hand over is what a
\* parser of the whole stream finds, in order, and only a message that is
\* malformed is refused, with the status of what is wrong with it, however the
\* stream is cut - unless a read ends right behind the data of a chunk (see
\* CutsDoNotMatter).  A client whose connection has met an invalid response goes
\* on among what is left of it: then nothing that it hands over as valid is
\* anything but the response of that request.
ParsedAsSent ==
    ~cutAtData =>
        /\ \A k \in DOMAIN done :
              \/ done[k] = Reference(IF role = "server" THEN done[k][1] ELSE k)
              \/ /\ done[k][3] = "InvalidResponse"
                 /\ \E i \in 1..k : Status(msgs[i]) # 200
        /\ \A k \in 2..Len(done) : done[k - 1][1] < done[k][1] \/ role = "client"
        /\ \A k \in DOMAIN answers :
              answers[k].status \in {400, 414, 505} =>
                  answers[k].req > 0 /\ answers[k].status = Status(msgs[answers[k].req])

Answered(i) == \E k \in DOMAIN answers : answers[k].req = i
AllRead == pc = "idle" /\ Arrives = <<>>

\* When everything sent has been read and the server waits for more, no
\* request lies unprocessed in the buffer and each was answered; excepted are a
\* POST without a route, which process_request() never answers, and requests
\* behind a failed Expect, which message_handler() leaves in the buffer.
NoneLeftBehind ==
    (role = "server" /\ AllRead /\ conn = "open" /\ ~cutAtData) =>
        \A i \in DOMAIN msgs :
            \/ Answered(i) \/ ~msgs[i].routed
            \/ \E j \in 1..(i - 1) : msgs[j].expect = "other"

\* Responses go out in the order of the requests, one for each, and the
\* Connection header of each says what process_request() decided for it, as long
\* as no request before it went unanswered (its header stays in response).
AnswersTellTruth ==
    ~cutAtData =>
        /\ \A k \in DOMAIN answers : k > 1 => answers[k - 1].req < answers[k].req
        /\ \A k \in DOMAIN answers :
              (answers[k].status = 200 /\ \A i \in 1..answers[k].req : msgs[i].routed) =>
                  /\ (answers[k].connection = "keep-alive") = msgs[answers[k].req].keep
                  /\ answers[k].connection = "close" => conn # "open"

\* Each request gets its own answer, in order, and none is left in the buffer.
EachAnswered == NoneLeftBehind /\ AnswersTellTruth

\* "Continue: data not enough" (the return codes of the parsers): where the
\* stream is cut makes no difference to the bodies that are handed over.
CutsDoNotMatter == \A k \in DOMAIN done : done[k] = Reference(done[k][1])
=============================================================================
