----------------------------- MODULE HttpFiles -----------------------------
(***************************************************************************)
(* http_server on files: handle_static_file_request(), the conditional      *)
(* requests, byte ranges, PUT and DELETE, for connections on different io   *)
(* threads (set_parallel) that work on the same file.  Each system call is  *)
(* a step.  A file is an inode with a modification time and a length; the   *)
(* time is a counter, PerSecond ticks of which make one second of a date.   *)
(***************************************************************************)
EXTENDS Integers, FiniteSets, SequencesExt

CONSTANTS
    Conns,      \* connections, each on its own io thread
    Requests,   \* the requests a peer may make
    MaxTime,    \* bound on changes of the file
    Small,      \* files shorter than this are read into a buffer (256K)
    PerSecond,  \* ticks of the modification time in a second
    Lens        \* lengths the file can have

VARIABLES
    path,       \* the inode the name refers to, 0 if there is no file
    inode,      \* the time and the length of the inodes
    clock,      \* the last modification time used
    pc, req,    \* what each connection is doing, for which request
    has_file, mtime, filesize,  \* request::has_file, last_modified, filesize
    fd,         \* the inode opened, 0 if open() failed
    reply,      \* the response
    seen,       \* history: the versions of the file since the request came
    cut         \* history: open() truncated the file since then

local == <<pc, req, has_file, mtime, filesize, fd, reply>>
vars == <<path, inode, clock, local, seen, cut>>

Inodes == 1..(MaxTime + 1)
\* a header with an entity tag: none, "*", or a tag; a date is -1 if there is none
NoTag == [kind |-> "none"]
AnyTag == [kind |-> "any"]
Tag(t, n) == [kind |-> "tag", weak |-> FALSE, time |-> t, size |-> n]
NoReply == [status |-> 0, ranges |-> <<>>, declared |-> 0, sent |-> 0]

Version == IF path = 0 THEN [time |-> 0, len |-> 0] ELSE inode[path]

Init ==
    /\ path = 1 /\ clock = 1
    /\ inode = [i \in Inodes |-> [time |-> 1, len |-> CHOOSE n \in Lens : \A m \in Lens : m <= n]]
    /\ pc = [c \in Conns |-> "idle"] /\ req = [c \in Conns |-> [method |-> "none"]]
    /\ has_file = [c \in Conns |-> FALSE]
    /\ mtime = [c \in Conns |-> 0] /\ filesize = [c \in Conns |-> 0]
    /\ fd = [c \in Conns |-> 0] /\ reply = [c \in Conns |-> NoReply]
    /\ seen = [c \in Conns |-> {}] /\ cut = [c \in Conns |-> FALSE]

(***************************************************************************)
(* Entity tags and dates (httplib/util.cc)                                  *)
(***************************************************************************)
strong_etag_equal(a, b) == ~a.weak /\ ~b.weak /\ a = b
weak_etag_equal(a, b) == a.time = b.time /\ a.size = b.size
etag(c) == Tag(mtime[c], filesize[c])

\* last_modified is a date: whole seconds
last_modified(t) == t \div PerSecond

(***************************************************************************)
(* The conditions, each NoHeader, Successful or a status that ends the  *)
(* request (Failed).  A header is None, "*", a tag or a date.               *)
(***************************************************************************)
NoHeader == 0
Successful == 1
Reading(r) == r.method \in {"GET", "HEAD"}

if_none_match(c, r) ==
    IF r.none_match = NoTag THEN NoHeader
    ELSE IF \/ r.none_match = AnyTag
            \/ r.none_match # AnyTag /\ weak_etag_equal(r.none_match, etag(c))
         THEN IF Reading(r) THEN 304 ELSE 412
         ELSE Successful

if_modified_since(c, r) ==
    IF r.modified_since = -1 THEN NoHeader
    ELSE IF r.modified_since # last_modified(mtime[c]) THEN Successful ELSE 304

if_match(c, r) ==
    IF r.match = NoTag THEN NoHeader
    ELSE IF r.match = AnyTag THEN Successful
    ELSE IF strong_etag_equal(r.match, etag(c)) THEN Successful ELSE 412

if_unmodified_since(c, r) ==
    IF r.unmodified_since = -1 THEN NoHeader
    ELSE IF r.unmodified_since = last_modified(mtime[c]) THEN Successful ELSE 412

\* the first header that is there decides
handle_conditional(c, r) ==
    LET codes == <<if_none_match(c, r), if_modified_since(c, r), if_match(c, r),
                   if_unmodified_since(c, r)>>
        given == {k \in 1..4 : codes[k] # NoHeader}
    IN  IF given = {} THEN NoHeader ELSE codes[Min(given)]

\* If-Range: the Range header is dropped when the entity has changed
if_range(c, r) ==
    IF r.if_range # NoTag /\ ~strong_etag_equal(r.if_range, etag(c)) THEN <<>> ELSE r.range

(***************************************************************************)
(* Byte ranges.  A spec is <<first, last>>; last = -1 in "first-", and      *)
(* first = -1 in "-last".  A Range of <<>> is none.                         *)
(***************************************************************************)
parse_byte_range_spec_long(spec, size) ==   \* mutant: last is not cut at the end
    IF spec[1] >= size \/ (spec[2] # -1 /\ spec[2] < spec[1]) THEN <<>>
    ELSE <<spec[1], IF spec[2] # -1 THEN spec[2] ELSE size - 1>>

parse_byte_range_spec(spec, size) ==
    IF spec[1] >= size \/ (spec[2] # -1 /\ spec[2] < spec[1]) THEN <<>>
    ELSE <<spec[1], IF spec[2] # -1 /\ spec[2] < size THEN spec[2] ELSE size - 1>>

parse_suffix_byte_range_spec(spec, size) ==
    IF spec[2] <= 0 THEN <<>>
    ELSE <<size - (IF spec[2] < size THEN spec[2] ELSE size), size - 1>>

parse_spec(spec, size) ==
    IF spec[1] = -1 THEN parse_suffix_byte_range_spec(spec, size)
    ELSE parse_byte_range_spec(spec, size)

\* <<>>: RequestedRangeNotSatisfiable, because one of the specs is not valid
parse_byte_ranges(range, size) ==
    LET parsed == [k \in DOMAIN range |-> parse_spec(range[k], size)]
    IN  IF \E k \in DOMAIN range : parsed[k] = <<>> THEN <<>> ELSE parsed

(***************************************************************************)
(* Steps of a request                                                       *)
(***************************************************************************)
Local(c, where) == pc' = [pc EXCEPT ![c] = where]
File == <<path, inode, clock>>

\* response::send(), and what follows it is the end of the request
Reply(c, status, ranges, declared) ==
    /\ reply' = [reply EXCEPT ![c] = [status |-> status, ranges |-> ranges,
                                      declared |-> declared, sent |-> 0]]
    /\ Local(c, "replied")
    /\ UNCHANGED <<req, has_file, mtime, filesize, fd>>

\* process_request() for a peer that knows versions of the file
Begin(c, r) ==
    /\ pc[c] = "idle"
    /\ req' = [req EXCEPT ![c] = r]
    /\ Local(c, "check")
    /\ seen' = [seen EXCEPT ![c] = {Version}]
    /\ UNCHANGED <<File, has_file, mtime, filesize, fd, reply, cut>>

\* is_regular_file() does not test the result of stat(): without a file the
\* answer depends on memory that is not initialised
CheckFile(c) ==
    /\ pc[c] = "check"
    /\ \E b \in (IF path # 0 THEN {TRUE} ELSE BOOLEAN) : has_file' = [has_file EXCEPT ![c] = b]
    /\ IF req[c].method = "PUT" THEN Local(c, "truncate") /\ UNCHANGED reply
       ELSE IF req[c].method = "DELETE" THEN Local(c, "unlink") /\ UNCHANGED reply
       ELSE IF has_file'[c] THEN Local(c, "time") /\ UNCHANGED reply
       ELSE /\ Local(c, "replied")
            /\ reply' = [reply EXCEPT ![c] = [NoReply EXCEPT !.status = 404]]
    /\ UNCHANGED <<File, req, mtime, filesize, fd, seen, cut>>

\* get_last_modified(): the result of stat() is not tested, so that after a
\* DELETE the structure is not initialised
StatTime(c) ==
    /\ pc[c] = "time"
    /\ \E t \in (IF path # 0 THEN {inode[path].time} ELSE 0..MaxTime) :
          mtime' = [mtime EXCEPT ![c] = t]
    /\ Local(c, "size")
    /\ UNCHANGED <<File, req, has_file, filesize, fd, reply, seen, cut>>

\* get_file_size() also ignores it; then the conditions
StatSize(c) ==
    /\ pc[c] = "size"
    /\ \E n \in (IF path # 0 THEN {inode[path].len} ELSE Lens) :
          filesize' = [filesize EXCEPT ![c] = n]
    /\ Local(c, "conditions")
    /\ UNCHANGED <<File, req, has_file, mtime, fd, reply, seen, cut>>

Conditions(c) ==
    LET code == handle_conditional(c, req[c])
        range == if_range(c, req[c]) IN
    /\ pc[c] = "conditions"
    /\ IF code \in {304, 412} THEN Reply(c, code, <<>>, 0)
       ELSE IF req[c].method = "HEAD" THEN Reply(c, 200, <<>>, filesize[c])
       ELSE IF range # <<>> /\ filesize[c] = 0 THEN Reply(c, 200, <<>>, 0)
       ELSE IF range # <<>> /\ parse_byte_ranges(range, filesize[c]) = <<>>
       THEN Reply(c, 416, <<>>, 0)      \* and res.conn->close()
       ELSE /\ req' = [req EXCEPT ![c].range = range]
            /\ Local(c, "open")
            /\ UNCHANGED <<has_file, mtime, filesize, fd, reply>>
    /\ UNCHANGED <<File, seen, cut>>

\* Content-Length of ranges; the headers and the boundaries of the parts that
\* build_multipart_header() adds to it are left out
Length(ranges) == SumFunction([k \in DOMAIN ranges |-> ranges[k][2] - ranges[k][1] + 1])

\* open(); its result is not tested
Open(c) ==
    LET whole == req[c].range = <<>>
        ranges == IF whole THEN <<<<0, filesize[c] - 1>>>>
                  ELSE parse_byte_ranges(req[c].range, filesize[c]) IN
    /\ pc[c] = "open"
    /\ fd' = [fd EXCEPT ![c] = path]
    /\ Local(c, IF whole /\ filesize[c] < Small THEN "read" ELSE "sendfile")
    /\ reply' = IF whole /\ filesize[c] < Small THEN reply
                ELSE [reply EXCEPT ![c] = [status |-> IF whole THEN 200 ELSE 206, ranges |-> ranges,
                                           declared |-> Length(ranges), sent |-> 0]]
    /\ UNCHANGED <<File, req, has_file, mtime, filesize, seen, cut>>

\* send_file() of a small file: what was read is what is declared
ReadSmall(c) ==
    LET n == IF fd[c] = 0 THEN 0 ELSE inode[fd[c]].len IN
    /\ pc[c] = "read"
    /\ reply' = [reply EXCEPT ![c] = [status |-> 200, ranges |-> <<<<0, n - 1>>>>,
                                      declared |-> n, sent |-> 1]]
    /\ Local(c, "replied")
    /\ UNCHANGED <<File, req, has_file, mtime, filesize, fd, seen, cut>>

\* connection::sendfile() of the next range: all of it, or the connection fails
\* (no descriptor), or it waits for bytes that are not there
SendRange(c) ==
    LET r == reply[c].ranges[reply[c].sent + 1]
        ok == fd[c] # 0 /\ inode[fd[c]].len > r[2] IN
    /\ pc[c] = "sendfile"
    /\ reply' = [reply EXCEPT ![c].sent = IF ok THEN @ + 1 ELSE @]
    /\ Local(c, IF fd[c] = 0 THEN "closed" ELSE IF ~ok THEN "stalled"
                ELSE IF reply[c].sent + 1 = Len(reply[c].ranges) THEN "replied" ELSE "sendfile")
    /\ UNCHANGED <<File, req, has_file, mtime, filesize, fd, seen, cut>>

(***************************************************************************)
(* PUT and DELETE                                                           *)
(***************************************************************************)
Changed(version, truncated) ==
    /\ seen' = [c \in Conns |-> IF pc[c] = "idle" THEN {} ELSE seen[c] \cup {version}]
    /\ cut' = [c \in Conns |-> cut[c] \/ (truncated /\ pc[c] # "idle")]

\* update_file(): open(O_TRUNC | O_CREAT)
PutOpen(c) ==
    LET i == IF path # 0 THEN path ELSE clock + 1 IN
    /\ pc[c] = "truncate" /\ clock < MaxTime
    /\ path' = i /\ clock' = clock + 1
    /\ inode' = [inode EXCEPT ![i] = [time |-> clock + 1, len |-> 0]]
    /\ fd' = [fd EXCEPT ![c] = i]
    /\ Local(c, "write")
    /\ Changed(inode'[i], TRUE)
    /\ UNCHANGED <<req, has_file, mtime, filesize, reply>>

PutOpenFails(c) ==
    /\ pc[c] = "truncate"
    /\ Reply(c, 500, <<>>, 0) /\ UNCHANGED <<File, seen, cut>>

\* write(2) of n bytes at offset 0: what another PUT wrote behind them stays
Written(c, n) ==
    LET len == IF inode[fd[c]].len > n THEN inode[fd[c]].len ELSE n IN
    /\ clock < MaxTime /\ clock' = clock + 1
    /\ inode' = [inode EXCEPT ![fd[c]] = [time |-> clock + 1, len |-> len]]
    /\ Changed(IF path = fd[c] THEN inode'[path] ELSE Version, FALSE)
    /\ UNCHANGED path

PutWrite(c) ==
    /\ pc[c] = "write"
    /\ Written(c, req[c].len)
    /\ Reply(c, IF has_file[c] THEN 204 ELSE 201, <<>>, 0)

\* write_file() fails, at its first write(2) or after part of the body
PutWriteFails(c) ==
    /\ pc[c] = "write"
    /\ \/ UNCHANGED <<File, seen, cut>>
       \/ \E n \in 1..(req[c].len - 1) : Written(c, n)
    /\ Reply(c, 500, <<>>, 0)

\* delete_file()
Unlink(c) ==
    /\ pc[c] = "unlink"
    /\ path' = IF has_file[c] THEN 0 ELSE path
    /\ Changed([time |-> 0, len |-> 0], FALSE)
    /\ Reply(c, 204, <<>>, 0)
    /\ UNCHANGED <<inode, clock>>

Step(c) ==
    \/ \E r \in Requests : Begin(c, r)
    \/ CheckFile(c) \/ StatTime(c) \/ StatSize(c) \/ Conditions(c)
    \/ Open(c) \/ ReadSmall(c) \/ SendRange(c)
    \/ PutOpen(c) \/ PutOpenFails(c) \/ PutWrite(c) \/ PutWriteFails(c) \/ Unlink(c)
Next == \E c \in Conns : Step(c)
Spec == Init /\ [][Next]_vars

(***************************************************************************)
(* Properties                                                               *)
(***************************************************************************)
\* The positions that a byte-range-spec names in an entity of this size.
Positions(spec, size) ==
    IF spec[1] = -1 THEN {p \in 0..(size - 1) : p >= size - spec[2]}
    ELSE {p \in 0..(size - 1) : p >= spec[1] /\ (spec[2] = -1 \/ p <= spec[2])}

\* A 206 sends exactly the positions of the size that stat() reported which the
\* Range header names, range by range, and 416 is sent only if some range names
\* none (parse_byte_ranges and the two parsers of a spec).
RangesExact ==
    \A c \in Conns : reply[c] # NoReply =>
        /\ reply[c].status = 206 =>
              \A k \in DOMAIN reply[c].ranges :
                  (reply[c].ranges[k][1])..(reply[c].ranges[k][2])
                      = Positions(req[c].range[k], filesize[c])
        /\ reply[c].status = 416 =>
              \E k \in DOMAIN req[c].range :
                  Positions(req[c].range[k], filesize[c]) = {}

\* A 304 that answers an entity tag is true: the file had the version the peer
\* holds at some moment of the request, whatever PUTs and DELETEs went on
\* between the two stat() calls; or it had none and stat() failed.
NotModifiedIsTrue ==
    \A c \in Conns :
        (reply[c].status = 304 /\ req[c].none_match \notin {NoTag, AnyTag}) =>
            \/ \E v \in seen[c] : v.time = req[c].none_match.time
            \/ \E v \in seen[c] : v.time = 0

\* A response gets stuck in sendfile() or is cut off only if the file was
\* truncated by the open() of a PUT or deleted while it was being answered; the
\* write of a PUT that was under way before takes nothing away.
StuckOnlyIfChanged ==
    \A c \in Conns :
        /\ pc[c] = "stalled" => cut[c] \/ \E v \in seen[c] : v.time = 0
        /\ pc[c] = "closed" => \E v \in seen[c] : v.time = 0

\* The response is what was asked for: the right ranges, a 304 only if it is true,
\* and all of the body unless the file changed under it.
BodyAsAsked == RangesExact /\ NotModifiedIsTrue /\ StuckOnlyIfChanged
=============================================================================
