------------------------------ MODULE Buffer ------------------------------
(***************************************************************************)
(* class buffer: a vector of bytes and two indices.  The two buffers stand  *)
(* for any pair of which one is swapped with the other (write_buf and       *)
(* flush_buf of the logger).                                                *)
(***************************************************************************)
EXTENDS Naturals, SequencesExt

CONSTANTS Data,         \* the strings that are appended or read
          init_size,    \* the first size of the vector (1024)
          Extra,        \* size of extrabuf (65536)
          MaxReadable   \* bound on the bytes in a buffer

VARIABLES op, buffers
buffer_vars == <<op, buffers>>

readable(x) == x.write_index - x.read_index
writeable(x) == Len(x.buf) - x.write_index
content(x) == SubSeq(x.buf, x.read_index + 1, x.write_index)
Zeros(n) == [i \in 1..n |-> 0]

Init ==
    /\ op = [call |-> "none"]
    /\ buffers = [b \in 1..2 |-> [buf |-> Zeros(init_size), read_index |-> 0, write_index |-> 0]]

\* bytes s written over the vector from index i on
Overwrite(buf, i, s) ==
    [k \in 1..Len(buf) |-> IF k > i /\ k <= i + Len(s) THEN s[k - i] ELSE buf[k]]

make_space_stale(x, len) ==     \* mutant: read_index is not reset after the move
    IF len <= writeable(x) THEN x
    ELSE IF len <= writeable(x) + x.read_index
    THEN [x EXCEPT !.buf = Overwrite(@, 0, content(x)), !.write_index = readable(x)]
    ELSE [x EXCEPT !.buf = @ \o Zeros(len - writeable(x))]
make_space(x, len) ==
    IF len <= writeable(x) THEN x
    ELSE IF len <= writeable(x) + x.read_index
    THEN [buf |-> Overwrite(x.buf, 0, content(x)), read_index |-> 0, write_index |-> readable(x)]
    ELSE [x EXCEPT !.buf = @ \o Zeros(len - writeable(x))]

append(x, s) ==
    LET y == make_space(x, Len(s)) IN
    [y EXCEPT !.buf = Overwrite(@, y.write_index, s), !.write_index = @ + Len(s)]

retrieve(x, len) ==
    IF len < readable(x) THEN [x EXCEPT !.read_index = @ + len]
    ELSE [x EXCEPT !.read_index = 0, !.write_index = 0]

\* readv() fills the vector first, then extrabuf, which is appended
read_fd(x, s) ==
    IF Len(s) <= writeable(x)
    THEN [x EXCEPT !.buf = Overwrite(@, x.write_index, s), !.write_index = @ + Len(s)]
    ELSE append([x EXCEPT !.buf = Overwrite(@, x.write_index, SubSeq(s, 1, writeable(x))),
                          !.write_index = Len(x.buf)],
                SubSeq(s, writeable(x) + 1, Len(s)))

c_str(x) == LET y == make_space(x, 1) IN [y EXCEPT !.buf = Overwrite(@, y.write_index, <<0>>)]

Call(b, name, data, len, x) ==
    /\ op' = [call |-> name, buf |-> b, data |-> data, len |-> len]
    /\ buffers' = [buffers EXCEPT ![b] = x]

Append_(b, s) ==
    /\ readable(buffers[b]) + Len(s) <= MaxReadable
    /\ Call(b, "append", s, 0, append(buffers[b], s))
ReadFd(b, s) ==
    /\ readable(buffers[b]) + Len(s) <= MaxReadable /\ Len(s) <= writeable(buffers[b]) + Extra
    /\ Call(b, "read_fd", s, 0, read_fd(buffers[b], s))
Retrieve(b, len) == Call(b, "retrieve", <<>>, len, retrieve(buffers[b], len))
CStr(b) == Call(b, "c_str", <<>>, 0, c_str(buffers[b]))
Swap == op' = [call |-> "swap"] /\ buffers' = <<buffers[2], buffers[1]>>

Next ==
    \/ \E b \in 1..2 :
          \/ \E s \in Data : Append_(b, s) \/ ReadFd(b, s)
          \/ \E len \in 1..MaxReadable : Retrieve(b, len)
          \/ CStr(b)
    \/ Swap
Spec == Init /\ [][Next]_buffer_vars

\* class buffer implements two queues of bytes: whatever the sequence of calls,
\* bytes are retrieved in the order they were appended, once each, over every
\* move and every growth of the vector.
Queue == INSTANCE ByteQueue WITH queue <- [b \in 1..2 |-> content(buffers[b])]
BufferIsQueue == Queue!Spec
=============================================================================
