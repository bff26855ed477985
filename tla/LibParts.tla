------------------------------ MODULE LibParts ------------------------------
(***************************************************************************)
(* Parts of the protocol libraries, side by side: the files an HTTP server  *)
(* serves and the mail client.  They share no state.                        *)
(***************************************************************************)
EXTENDS Integers, Sequences

CONSTANTS HttpConns, HttpRequests, Lens, Small, PerSecond, MaxTime,  \* HttpFiles
          Addrs, receivers                                           \* Smtp

VARIABLES path, inode, clock, pc, req, has_file, mtime, filesize, fd, reply, seen, cut,
          try_addrs, link, sm_state, rcpt_index, need_auth, command, answers, accepted,
          sm_result, task_map

filesVars == <<path, inode, clock, pc, req, has_file, mtime, filesize, fd, reply, seen, cut>>
smtpVars == <<try_addrs, link, sm_state, rcpt_index, need_auth, command, answers, accepted,
              sm_result, task_map>>

Files == INSTANCE HttpFiles WITH Conns <- HttpConns, Requests <- HttpRequests
Mail == INSTANCE Smtp

\* A request is a record of what its headers say: entity tags, times (-1: none)
\* and ranges, of which -1 stands for a number that is left out.
Tags == {Files!NoTag, Files!AnyTag} \cup [kind: {"tag"}, weak: BOOLEAN, time: Int, size: Int]
RangeSpecs == {n \in Int : n >= -1} \X {n \in Int : n >= -1}
FileRequests ==
    [method: {"GET", "HEAD", "PUT", "DELETE"}, none_match: Tags, modified_since: Int, match: Tags,
     unmodified_since: Int, if_range: Tags, range: Seq(RangeSpecs), len: Nat]

\* There is a longest file; a mail has a receiver.
ASSUME LibPartsAssumption ==
    /\ MaxTime \in Nat /\ HttpRequests \subseteq FileRequests
    /\ Lens \subseteq Nat /\ \E n \in Lens : \A m \in Lens : m <= n
    /\ receivers \in Nat \ {0}

\* Files that the HTTP server sends: the ranges asked for, all of them, and
\* "304 Not Modified" only of what the peer has.
BodyAsAsked == Files!BodyAsAsked

\* smtplib.cc: success is reported of a mail the server took.
OkMeansAccepted == Mail!OkMeansAccepted
=============================================================================
