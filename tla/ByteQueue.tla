----------------------------- MODULE ByteQueue -----------------------------
(***************************************************************************)
(* What class buffer promises its users: a pair of buffers are two queues   *)
(* of bytes.  A step is a call, given by op', and its effect.               *)
(***************************************************************************)
EXTENDS Naturals, Sequences

VARIABLES op,       \* the call: its name, the buffer, the bytes, the length
          queue     \* the readable bytes of each buffer

Init == op = [call |-> "none"] /\ queue = [b \in 1..2 |-> <<>>]

Effect(o, q) ==
    CASE o.call \in {"append", "read_fd"} -> [q EXCEPT ![o.buf] = @ \o o.data]
      [] o.call = "retrieve" -> [q EXCEPT ![o.buf] = SubSeq(@, o.len + 1, Len(@))]
      [] o.call = "swap"     -> <<q[2], q[1]>>
      [] OTHER               -> q      \* c_str() only looks

Next == queue' = Effect(op', queue)
Spec == Init /\ [][Next]_<<op, queue>>
=============================================================================
