----------------------------- MODULE ConnParts -----------------------------
(***************************************************************************)
(* Parts of a connection, side by side: its idle TTL (module ConnTtl), the  *)
(* TLS handshakes, the buffers, and the logger, which writes through two    *)
(* buffers.  They share no state.                                           *)
(***************************************************************************)
EXTENDS ConnTtl

CONSTANTS SslConns, SslFds, IoLoops, Nobody,                    \* Ssl
          BufferData, init_size, Extra, MaxReadable,                  \* Buffer
          Writers, MaxLines, log_roll_file_size, MaxRestarts    \* Logger

VARIABLES holder, ssl_fd, io_loops, ssl_loop, phase, ssl_filter, shmap, ssl, used, mapped,
          want, bad_assert, raced,
          op, buffers,
          lg_pc, write_buf, flush_buf, is_quit, flush_to, cur_fd, cur_file, written,
          removed, logged, failed, qpc_log, restarts, constructed

sslVars == <<holder, ssl_fd, io_loops, ssl_loop, phase, ssl_filter, shmap, ssl, used, mapped,
             want, bad_assert, raced>>
bufferVars == <<op, buffers>>
loggerVars == <<lg_pc, write_buf, flush_buf, is_quit, flush_to, cur_fd, cur_file, written,
                removed, logged, failed, qpc_log, restarts, constructed>>

\* Bytes are numbers; sizes are size_t.
ASSUME ConnPartsAssumption ==
    /\ Nobody \notin SslConns
    /\ BufferData \subseteq Seq(Nat) /\ init_size \in Nat /\ MaxReadable \in Nat

Tls == INSTANCE Ssl WITH Conns <- SslConns, Fds <- SslFds
Buf == INSTANCE Buffer WITH Data <- BufferData
Log == INSTANCE Logger

\* ssl_server.cc, ssl_handshake.cc: a connection has its own handshake.
OwnHandshake == Tls!OwnHandshake

\* buffer.cc: class buffer is a queue of bytes.
BufferIsQueue == Buf!BufferIsQueue

\* logger.cc: every line once and in order.
LoggedInOrder == Log!LoggedInOrder
=============================================================================
