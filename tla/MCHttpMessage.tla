--------------------------- MODULE MCHttpMessage ---------------------------
(* The instance of HttpMessage that shows where cuts do matter.            *)
EXTENDS HttpMessage

Chunked == [line |-> "ok", head |-> "ok", expect |-> "none", keep |-> TRUE, routed |-> TRUE,
            kind |-> "chunked", chunks |-> <<2, 1>>, trailer |-> FALSE]
MCStreams == {<<Chunked>>, <<Chunked, [Chunked EXCEPT !.kind = "none", !.chunks = <<>>]>>}
=============================================================================
