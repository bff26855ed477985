------------------------------ MODULE MCParts ------------------------------
(***************************************************************************)
(* One instance for TLC of the components that share no state with another: *)
(* a behaviour is one of the component that part names, and the variables   *)
(* of the others keep one initial value.                                    *)
(***************************************************************************)
EXTENDS ConnParts, LoopParts, LibParts, WsPart

CONSTANTS WordBytes, MaxWord, MaxRecords, max_line_limit,       \* Codec
          max_label_size, max_name_size,
          Parts         \* the components a run is about

VARIABLES part,
          role, msgs, wire, buf, http_pc, http_state, line, headers, length, chunked,
          chunk_size, body, done, err_code, leased, http_answers, res_headers, conn, cutAtData,
          word, rrs

messageVars == <<role, msgs, wire, buf, http_pc, http_state, line, headers, length, chunked,
                 chunk_size, body, done, err_code, leased, http_answers, res_headers, conn, cutAtData>>
codecVars == <<word, rrs>>

-----------------------------------------------------------------------------
\* What is appended to a buffer
MCData == {<<1>>, <<2, 1>>}

\* What the peer of an HTTP server may ask of the file
NoTag == [kind |-> "none"]
Tag(t, n) == [kind |-> "tag", weak |-> FALSE, time |-> t, size |-> n]
Plain == [method |-> "GET", none_match |-> NoTag, modified_since |-> -1, match |-> NoTag,
          unmodified_since |-> -1, if_range |-> NoTag, range |-> <<>>, len |-> 0]
MCRequests ==
    {Plain, [Plain EXCEPT !.method = "DELETE"], [Plain EXCEPT !.method = "HEAD"],
     [Plain EXCEPT !.method = "HEAD", !.none_match = [kind |-> "any"]],
     [Plain EXCEPT !.modified_since = 0], [Plain EXCEPT !.unmodified_since = 0],
     [Plain EXCEPT !.match = [Tag(1, 4) EXCEPT !.weak = TRUE]],
     [Plain EXCEPT !.range = <<<<1, 2>>>>, !.if_range = Tag(1, 4)]}
    \cup {[Plain EXCEPT !.method = "PUT", !.len = n] : n \in {1, 4}}
    \cup {[Plain EXCEPT !.none_match = Tag(t, n)] : t \in {1, 3}, n \in {1, 4}}
    \cup {[Plain EXCEPT !.range = r] :
            r \in {<<<<f, l>>>> : f \in {-1, 0, 3, 4}, l \in {-1, 0, 3, 4, 5}} \cup {<<<<0, 0>>, <<-1, 1>>>>}}

\* What the peer of an HTTP parser may send: three messages, pipelined
Get == [line |-> "ok", head |-> "ok", expect |-> "none", keep |-> TRUE, routed |-> TRUE,
        kind |-> "none", chunks |-> <<>>, trailer |-> FALSE]
Shapes ==
    {Get,
     [Get EXCEPT !.keep = FALSE],
     [Get EXCEPT !.routed = FALSE, !.kind = "length", !.chunks = <<2>>],
     [Get EXCEPT !.kind = "length", !.chunks = <<3>>],
     [Get EXCEPT !.kind = "chunked", !.chunks = <<2, 1>>],
     [Get EXCEPT !.kind = "chunked", !.chunks = <<1>>, !.trailer = TRUE],
     [Get EXCEPT !.expect = "other"],
     [Get EXCEPT !.head = "none"],
     [Get EXCEPT !.head = "nocolon"],
     [Get EXCEPT !.line = "bad"],
     [Get EXCEPT !.line = "long"],
     [Get EXCEPT !.line = "version"],
     [Get EXCEPT !.kind = "badlength"]}
HttpStreams == Shapes \X Shapes \X {Get}

\* What a WebSocket client may send: a handshake, complete or not, then frames
Line(what, ok) == [type |-> "line", what |-> what, ok |-> ok]
Required == [i \in 1..6 |-> Line("required", TRUE)]
Shake == <<Line("request", TRUE)>> \o Required \o <<Line("other", TRUE), Line("crlf", TRUE)>>
Frame(fin, opcode, p) == [type |-> "frame", fin |-> fin, opcode |-> opcode, payload |-> p, len |-> 125]
MCStreams ==
    {Shake \o <<Frame(TRUE, "data", 1), Frame(FALSE, "data", 2), Frame(FALSE, "cont", 3),
                Frame(TRUE, "cont", 4), Frame(TRUE, "ping", 5), Frame(TRUE, "close", 6)>>,
     Shake \o <<Frame(TRUE, "pong", 1), [Frame(TRUE, "ping", 2) EXCEPT !.len = 126], Frame(TRUE, "data", 3)>>,
     Shake \o <<Frame(FALSE, "data", 1), Frame(TRUE, "ping", 2), Frame(TRUE, "cont", 3)>>,
     <<Line("request", TRUE)>> \o Tail(Required) \o <<Line("crlf", TRUE), Frame(TRUE, "data", 1)>>,
     <<Line("request", TRUE), Line("required", FALSE), Line("crlf", TRUE)>>}

\* The messages and fragments a WebSocket server may send, each with its length
Sent(kind, n, size) == [kind |-> kind, payload |-> [id |-> n, size |-> size]]
MCCalls ==
    {<<Sent("send", 1, 1), Sent("fragment", 2, 4088), Sent("fragment", 3, 1), Sent("final", 4, 1),
       Sent("send", 5, 65536)>>,
     <<Sent("fragment", 1, 4096), Sent("fragment", 2, 4092), Sent("fragment", 3, 126), Sent("final", 4, 4096)>>}

\* The records a name server may answer with: bytes of the owner and of the data,
\* whose names are spelled out or point back to the question "a.b", and what
\* they stand for
DnsName(bytes, name) == [bytes |-> bytes, name |-> name]
Back == DnsName(<<192, 12>>, <<97, 46, 98>>)
Below == DnsName(<<1, 99, 192, 14>>, <<99, 46, 98>>)
Spelled == DnsName(<<2, 97, 98, 0>>, <<97, 98>>)
Rooted(n) == Append(n.name, 46)
RData ==       \* <<type, bytes, what they say>>
    {<<1, <<10, 0, 0, 1>>, <<10, 0, 0, 1>>>>, <<16, <<2, 7, 8>>, <<7, 8>>>>}
    \cup {<<t, n.bytes, Rooted(n)>> : t \in {2, 5, 12}, n \in {Back, Below, Spelled}}
    \cup {<<15, <<0, 5>> \o n.bytes, Rooted(n)>> : n \in {Back, Spelled}}
    \cup {<<6, n.bytes \o Back.bytes \o [i \in 1..20 |-> i], Rooted(n) \o Rooted(Back)>> : n \in {Back, Spelled}}
DnsRecords == {[owner |-> n.bytes, name |-> n.name, type |-> d[1], rdata |-> d[2], data |-> d[3]] :
                 n \in {Back, Below, Spelled}, d \in RData}

Msg == INSTANCE HttpMessage WITH Streams <- HttpStreams, pc <- http_pc, state <- http_state,
                                 answers <- http_answers
Cod == INSTANCE Codec WITH Records <- DnsRecords, Bytes <- WordBytes

-----------------------------------------------------------------------------
PartsInit ==
    /\ part \in Parts
    /\ Init /\ Buf!Init /\ Disp!Init /\ Msg!Init /\ Files!Init /\ Ws!Init /\ Log!Init /\ Sig!Init
    /\ Mail!Init /\ Tls!Init /\ Cod!Init
    /\ part = "dispatcher" \/ backend = "epoll"
    /\ part = "message" \/ <<role, msgs>> = <<"server", <<Get, Get, Get>>>>
    /\ part = "websocket" \/ <<ws_in, ws_calls, ws_host>> = CHOOSE s \in WsStreams \X WsCalls \X {"little"} : TRUE
    /\ part = "ssl" \/ io_loops = {Tls!Main}
    /\ part = "smtp" \/ try_addrs = CHOOSE a \in Addrs : TRUE

PartsNext ==
    \/ /\ part = "ttl" /\ Next
       /\ UNCHANGED <<part, bufferVars, dispatcherVars, messageVars, filesVars, websocketVars,
                      loggerVars, signalVars, smtpVars, sslVars, codecVars>>
    \/ /\ part = "buffer" /\ Buf!Next
       /\ UNCHANGED <<part, vars, dispatcherVars, messageVars, filesVars, websocketVars,
                      loggerVars, signalVars, smtpVars, sslVars, codecVars>>
    \/ /\ part = "dispatcher" /\ Disp!Next
       /\ UNCHANGED <<part, vars, bufferVars, messageVars, filesVars, websocketVars,
                      loggerVars, signalVars, smtpVars, sslVars, codecVars>>
    \/ /\ part = "message" /\ Msg!Next
       /\ UNCHANGED <<part, vars, bufferVars, dispatcherVars, filesVars, websocketVars,
                      loggerVars, signalVars, smtpVars, sslVars, codecVars>>
    \/ /\ part = "files" /\ Files!Next
       /\ UNCHANGED <<part, vars, bufferVars, dispatcherVars, messageVars, websocketVars,
                      loggerVars, signalVars, smtpVars, sslVars, codecVars>>
    \/ /\ part = "websocket" /\ Ws!Next
       /\ UNCHANGED <<part, vars, bufferVars, dispatcherVars, messageVars, filesVars,
                      loggerVars, signalVars, smtpVars, sslVars, codecVars>>
    \/ /\ part = "logger" /\ Log!Next
       /\ UNCHANGED <<part, vars, bufferVars, dispatcherVars, messageVars, filesVars,
                      websocketVars, signalVars, smtpVars, sslVars, codecVars>>
    \/ /\ part = "signal" /\ Sig!Next
       /\ UNCHANGED <<part, vars, bufferVars, dispatcherVars, messageVars, filesVars,
                      websocketVars, loggerVars, smtpVars, sslVars, codecVars>>
    \/ /\ part = "smtp" /\ Mail!Next
       /\ UNCHANGED <<part, vars, bufferVars, dispatcherVars, messageVars, filesVars,
                      websocketVars, loggerVars, signalVars, sslVars, codecVars>>
    \/ /\ part = "ssl" /\ Tls!Next
       /\ UNCHANGED <<part, vars, bufferVars, dispatcherVars, messageVars, filesVars,
                      websocketVars, loggerVars, signalVars, smtpVars, codecVars>>
    \/ /\ part = "codec" /\ Cod!Next
       /\ UNCHANGED <<part, vars, bufferVars, dispatcherVars, messageVars, filesVars,
                      websocketVars, loggerVars, signalVars, smtpVars, sslVars>>

partsVars == <<part, vars, bufferVars, dispatcherVars, messageVars, filesVars, websocketVars,
               loggerVars, signalVars, smtpVars, sslVars, codecVars>>
PartsSpec == PartsInit /\ [][PartsNext]_partsVars

-----------------------------------------------------------------------------
\* httplib.cc: messages are parsed as they were sent, however they are cut.
ParsedAsSent == part = "message" => Msg!ParsedAsSent

\* message_handler() and process_request(): every request gets its own answer.
EachAnswered == part = "message" => Msg!EachAnswered

\* base64.cc, qp.cc, httplib.cc (uri) and resolver.cc (names and records): every
\* conversion is undone by its counterpart.
CodecsInvert == part = "codec" => Cod!CodecsInvert
=============================================================================
