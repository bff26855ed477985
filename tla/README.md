# angel in TLA+

angel is a C++ network library: event loops with timers and cross-thread task
queues, TCP servers and clients on top of them, and protocol libraries (HTTP,
WebSocket, SMTP, DNS, TLS) on top of those.  This directory holds TLA+ models of
its core and of these protocols, the TLC runs that check them on small instances,
and TLAPS proofs of what matters most for every instance.  All paths below are relative to the
repository; file names without a directory are in `src/` or `include/angel/`.

## 1. Inventory

Each part with its state, its operations, how it interacts, what is hard about
it and what makes it correct.

| Part | State | Operations | Hard | Correct when |
|---|---|---|---|---|
| event loop (`evloop.cc`) | `functors` under `mtx`, `wake_pair`, `channel_map`, `active_channels`, `is_quit` | `run`, `queue_in_loop`, `run_in_loop`, `quit` | any thread queues; the byte is written for the first functor only; handlers remove channels while they are iterated | no functor waits without a wake-up; each is called once, in order; no deleted channel is used; `quit()` ends `run()` |
| channel (`channel.cc`) | the event filter, the handlers, `trigger` | `add`, `remove`, `enable_*`, `disable_*`, `handle_event` | `remove` is two functors from another thread | registered channels are owned by the loop; none is called after `remove` |
| dispatchers (`epoll.cc`, `kqueue.cc`, `poll.cc`, `select.cc`) | table of filters per descriptor | `add`, `remove`, `wait` | swap-remove in the poll array, `maxfd` of select | the tables agree with the filters of the channels |
| timer (`timer.cc`) | `timer_set` by expiry, `timer_map` by id | `run_after`, `run_every`, `cancel_timer`, `tick` | callbacks that add and cancel during `tick`; calls from other threads | containers agree; nothing overslept, called twice, or called after a cancel; no drift |
| connection (`connection.cc`) | `state`, `output_buf`, three queues that share ids | `send`, `send_file`, `set_send_complete_handler`, `close`, `close_wait`, `handle_read/write/error`, idle TTL | partial writes, user code inside `handle_write`, close with data pending, TTL updated by any thread | bytes arrive in order; graceful close loses none; the write event is enabled when needed; closed once |
| server (`server.cc`, `evloop_group.h`, `evloop_thread.h`) | `connection_map`, io loops | accept, `establish`, `remove_connection`, `for_each` | an io loop handles a channel that the main loop is still setting up | one thread changes the map; closed connections leave it; messages find their handler |
| listener (`listener.cc`) | the listening channel, `idle_fd` | `listen`, `handle_accept` | the descriptor limit | the loop does not spin at the limit |
| client, connector (`client.cc`, `connector.cc`) | `connector`, `cli_conn`, `connected`, retry and timeout timers | `start`, `restart`, delete, connect, retry | timers that capture raw pointers; an old connection that lingers after `restart` | one attempt at a time; no timer of a deleted object; `is_connected` is right |
| thread pool (`thread_pool.h`) | `task_queue`, `workers`, `state` | `executor`, `shutdown`, `stop` | notifications after the unlock, state tests before a wait | nothing oversleeps; each task once; `shutdown` drains and returns |
| logger (`logger.cc`) | `write_buf`, `flush_buf`, the file, the flush thread | log call, swap, flush, roll, `set_flush`, `quit`, `restart` | short and failed writes, lines logged while the thread swaps or quits | every line once, in order |
| signals (`signal.cc`) | `sig_map`, `id_map`, a pair of descriptors | `add_signal`, `cancel_signal`, `ignore_signal`, `sig_catch` | a signal on its way while its last handler is cancelled, or between that and `sigaction()` | maps and dispositions agree |
| buffer (`buffer.cc`) | a vector, read and write index | `append`, `retrieve`, `read_fd`, `c_str`, `swap` | compaction and growth | a queue of bytes |
| resolver (`dns/`) | `query_map` by id, timers, the cache | query, retransmit, reply, cache and its scan | ids that are reused, late replies, expiry, a lost connection | answers are about the name asked; each query ends once |
| HTTP messages (`httplib/`) | parser state, length, chunk size | request and response parsing, `process_request` | messages cut anywhere, pipelining | same result for every cut; each request answered in order |
| HTTP files (`httplib/`) | a file others change, conditions, ranges | GET, HEAD, PUT, DELETE | several system calls on a changing file | the ranges asked for; a true 304 |
| HTTP client (`httplib/`) | the pool of a route, promises, timers | `send`, lease, put back, remove, time out | callers against the loop thread, a full pool | own answers only; each request ends once |
| WebSocket (`websocket/`) | handshake, frame decoder, fragments | `handshake`, `decode`, `send`, `send_fragment`, answers to pings | frames cut anywhere, answers between fragments | same messages for every cut, both ways |
| SMTP (`smtplib/`) | the state of a mail | the command sequence | refusals at any step, a list of receivers | success is told of a mail that was taken |
| TLS (`ssl/`) | `shmap`, handshakes, event filters | handshake, hand-over to a connection | descriptors reused, `shmap` and `connection_map` used by several loops | a connection has its own handshake; one thread at a time in a map |
| codecs (`base64.cc`, `mime/`, `sha1.cc`, names and records of `dns/`) | none | conversions | ends of groups, lines and labels; compressed names | round trips |
| wrappers (`util.cc`, `inet_addr.cc`, `sockops.cc`) | none | system calls | - | - |

Interaction: every other part runs as handlers, timers or functors of an event
loop; the promise the others build on is that functors are called once, in the
order queued, on the loop thread (module EvLoop), and that timers behave as in
module Timer.  A server owns connections on several loops, a client owns one
connection and a connector, both own thread pools.  Hazards, each with its line,
are listed in `PROJECT.json`.

## 2. Modules

| Module | Models | Proofs |
|---|---|---|
| `EvLoop` | `evloop.cc`, the loop side of `channel.cc`, `wait()` of `epoll.cc` | `EvLoop_proofs` |
| `Timer` | `timer.cc` and the timer calls of `evloop.cc` | `Timer_proofs` |
| `Connection` | `connection.cc`: sending and closing | `Connection_proofs` |
| `ConnTtl` | `connection.cc`: the idle TTL | `ConnTtl_proofs` |
| `Server` | `server.cc`, `evloop_group.h`, the connection side of set-up and close | `Server_proofs` |
| `Client` | `client.cc`, `connector.cc` | `Client_proofs` |
| `ThreadPool` | `thread_pool.h` | `ThreadPool_proofs` |
| `ByteQueue`, `Buffer` | what `class buffer` promises, and `buffer.cc` | `ConnTtl_proofs` |
| `EventTable`, `Dispatcher` | what a dispatcher promises, and `epoll.cc`, `kqueue.cc`, `poll.cc`, `select.cc` | `EvLoop_proofs` |
| `HttpMessage` | `httplib.cc`: the incremental parser and the loops around it | |
| `HttpFiles` | `httplib.cc`, `httplib/util.cc`: files, conditions, ranges | `HttpClient_proofs` |
| `HttpClient` | `httplib.cc`: the connection pool of the client | `HttpClient_proofs` |
| `Resolver` | `dns/resolver.cc`, `dns/cache.h`, `backoff.h` | `Client_proofs` |
| `WebSocket` | `websocket/ws-server.cc` | `Server_proofs` |
| `Smtp` | `smtplib/smtplib.cc` | `HttpClient_proofs` |
| `Ssl` | `ssl/ssl_server.cc`, `ssl/ssl_handshake.cc` | `ConnTtl_proofs` |
| `Logger` | `logger.cc` | `ConnTtl_proofs` |
| `Signal` | `signal.cc` | `EvLoop_proofs` |
| `Codec` | `base64.cc`, `mime/qp.cc`, `uri` of `httplib.cc`, names and records of `dns/resolver.cc` | |
| `ConnParts` | `ConnTtl`, `Ssl`, `Buffer` and `Logger` side by side | `ConnTtl_proofs` |
| `LoopParts` | `Dispatcher` and `Signal` side by side | `EvLoop_proofs` |
| `LibParts` | `HttpFiles` and `Smtp` side by side | `HttpClient_proofs` |
| `ResolverPart` | `Resolver` with what is assumed of its constants | `Client_proofs` |
| `WsPart` | `WebSocket` with what is assumed of the client and of the user | `Server_proofs` |

`MC<module>` extends a module for TLC; the `.cfg` files give the constants.
The five `...Part(s)` modules instantiate components that share no state, state
the assumptions on their constants and name their properties; the runs and the
proof modules extend them, so both are about the same definitions.  `MCParts`
extends all but `ResolverPart`: its variable `part` is chosen from `Parts` at the
start and says which component a behaviour is of, so one run checks them all.
`MCClient` puts the resolver beside the client in the same way.  `_name`
suffixes mark mutants: the definition before the real one that a plausible bug
would turn it into, used to show that a property can fail.

A property that a run checks is often the conjunction of parts that are stated
and explained one by one above it (`WakesUp` is `NoLostWakeup` and
`WakePipeBounded`, for instance).

**EvLoop.**  `pc` is where the loop thread is in `run()`; callbacks are the
locations "handler", "timers" and "functor", in which the loop thread may call
the loop again (`AddInLoop`, `RemoveInLoop`, `Post`, `Quit`).  Other threads do
the same at any time (`AddFromOther`, `RemoveFromOther1/2`, `Post`, `Quit`).
Regions under `mtx` are single steps, and so are reads and writes of one byte of
`wake_pair`.  The order in which ready channels are handled is arbitrary.
`WaitError` is a `wait()` interrupted by a signal.  `RemoveInLoop` asks that the
loop already holds the channel: removing on the loop thread a channel whose `add`
by another thread is still queued would register it after its removal.

**Timer.**  `timer_set` is the multiset as a sequence in the order of expiry: a task
is put behind those that expire no later (`UpperBound`, `Put`) and taken out by
position (`Erase`).  `queue` holds the add and cancel functors of other threads; the loop
thread, in callbacks too, acts at once.  `Fire` takes the task out of both
containers and is the call; until `EndCallback` the callback may add and cancel.
`ReturnId` is the `return task->id` of another thread, which may read a deleted
task and then returns anything.

**Connection.**  `handle_write()` is cut between its three queues and around the
send-complete handler, because that is user code that may send, set handlers and
close.  A byte stream is a sequence of units `<<call, index>>`; writes take any
number of them.  The direct write may report EAGAIN once something is on the
wire; what the code then queues starts one byte before the data (`Junk`).
`waiters` are the calls of `close_wait()` that block, each of which has to return.

**ConnTtl.**  The loop thread re-arms in one step; other threads go through
`update_ttl_timer()` one access of `ttl_timer_id` at a time.  A timer that is
armed may expire at any time, so no clock is needed.  `set_ttl()` tests no state:
`late` records that it was called on a connection no longer open.

**Server.**  `establish()` is one step per assignment, since an io loop may
handle events of the channel meanwhile.  `io`, the number of io loops, is chosen
at the start: 0 is a server that did not call `start_io_threads()`.  `for_each()`
runs a functor that sends, and a send may fail.

**Client.**  Options are chosen at the start.  All steps are on the loop thread;
while `pc` is not "idle" it is inside `restart()`, `connect()` or `establish()`.
`fatal` records that `connect(2)` of the current start failed at once.

**ThreadPool.**  Waiting on the condition variable is a location; a worker leaves
it when notified or spuriously.  `executor()` is three steps: the assertion, the
push under `mtx`, the notification.  `join()` walks over `workers` without `mtx`; a
worker that an `executor()` adds meanwhile sets `raced`, after which nothing is
said.

**Buffer** has the vector and its two indexes, and is shown to implement
`ByteQueue`, two queues of bytes, under the mapping of a buffer to the bytes
between its indexes.  **Dispatcher** has the tables of each back end (`evmap` and
the kernel's table; `pollfds` and `indexs`; the descriptor sets and `maxfd`) and
is shown to implement `EventTable`, under the mapping of the table to the filters
of the channels: what `wait()` reports of a descriptor is what is ready of its
filter, an error, or `Write` for a poll that found it hung up.  `EEV_SET` ors the
events into memory that nobody initialised: `Garbage` is what may be there (events,
`EPOLLET`, `EPOLLONESHOT`, or flags that `epoll_ctl()` refuses).  A descriptor
that the kernel then watches for something else is `marred`, and the table says
of it only that nothing is reported which is not ready.

**HttpMessage.**  The stream of the peer is a sequence of units: the text of a
line, CR, LF and bytes of a body.  `Receive` delivers any prefix of what is left,
so messages are cut wherever the code can tell; one action per parser function
and per way out of the loop of `message_handler()` or `receive()`.  `Reference`
and `Status` are what a parser of the whole message finds, also for lines that are
too long, of another version or malformed.  The client asks for one response
after the other; one it refuses (`Err`) goes to its future as `InvalidResponse`, and
the connection, with what is unread, is leased again.  A header line without a
colon is refused, unless there is a colon in the buffer behind it: then
`parse_header()` makes a string of negative length and the behaviour ends at
"undefined".

**HttpFiles.**  Each `stat`, `open`, `sendfile`, `write` and `unlink` is a step,
on connections that run in parallel on one file.  Times are ticks of which
`PerSecond` make one second of a date.  Only `open(O_TRUNC)` shortens a file; the
`write` behind it lets it grow.  A `Content-Length` counts the bytes of the file,
without the headers between the parts of a multipart body.

**HttpClient.**  Each call of `send()` is a thread; regions under `router_mutex`
and handlers of the loop thread are cut where they unlock or hand over.  A
connection leaves a list as in the code, by a swap with the last one
(`SwapOut`), so the lists are not in the order of use.  `raced`
records that a caller leased a connection which the loop thread was still working
on, or that the loop thread cancelled a timer which was not yet added.
`ReceiveBad` is a response that `receive()` refuses: the rest of it may stay on the
wire, the connection goes back to the pool, and it is `bad` from then on, since
`err_code` is set and nothing resets it; `ReceivePart` is a later one that goes to
complete what those bytes seem to begin.

**Resolver.**  A reply to any datagram ever sent may arrive at any time, any
number of times, or never.  `spin` is the busy wait of `send_query()`.
`GetCached` is the lookup under the lock of the cache and `CopyCached` the use of
the pointer it returned; if the scan has freed the item in between (`freed`) what
the caller gets is undefined.  `served` keeps the ttls and the age of what was
copied; the age counts from `put()`.

**WebSocket.**  Lines of the handshake and frames are units that arrive in any
portions; the payload of a frame is its number.  The sending half has the calls
of a user, with sizes around the limit at which fragments are sent.  What the
messages are is defined once, for units, calls and events alike: `Assemble` goes
over the parts and adds each to the open message or finishes it.  `ws_answers` are
the frames for a ping and a close with their place among the frames of the user,
as they leave a host with the high byte first or last (`ws_host`): in the second case
a client takes the bytes behind such an answer for its payload, so `SentReassembles`
counts what the user sent before it (`Readable`).

**Smtp.**  The server answers a command with any answer that SMTP has for it, in
one or several lines, closes, or stays silent.

**Ssl.**  A handshake finishes, wants to read or write, or fails; a descriptor that
is closed may be accepted again.  Handshakes run on the main loop or, with io
threads, on theirs.  A thread is in `shmap` from `find()` to `erase()` and in
`connection_map` during `emplace()`; another that enters the same map meanwhile
sets `raced`, and the behaviour ends there.

**Logger.**  A write takes any number of lines, or fails.  The thread starts before
the members behind it are initialised (zero until then, the logger being static):
`Construct` comes at any time and forgets a file that the thread has opened.

**Signal.**  A signal may be delivered at any time, also between the removal of the
last handler and `Sigaction`; `sig_handler()` then runs on some thread and writes its
byte later (`SigHandler`).  The functors of the calls run on the loop.

**Codec.**  Bytes are numbers; base64 text is places in the alphabet.  The
behaviours only let the input grow: the property compares each decoder with its
encoder, and the parser of answers with the packet a name server writes.  The name
of the root alone ends the process (`Aborts`, `resolver.cc:142`), so records that
have it are left out.

## 3. Runs

| Run | Shows | Bounds |
|---|---|---|
| `evloop` | `WakesUp`: no lost wake-up, a short wake pair; `ChannelsMapped`: no dangling or unmapped channel; functors once and in order; no callback after removal | 2 channels (one handler removes the other's channel), 2 user functors beside 4 to 6 channel functors, 1 quit |
| `evloop_live` | queued functors are called around `quit()`, `quit()` ends `run()` | 1 channel, 2 functors, 1 quit |
| `timer` | `TimersInOrder`: containers agree and nothing is overslept; no drift; cancelled stays cancelled; timers are called | 2 timers, delays 0 to 2, clock to 3: two equal expiries, a late tick, an interval of three turns |
| `connection` | bytes in order, graceful close complete, `CallbacksInOrder`: handlers after their data and closed once; write event enabled; `CloseEnds`: `Closing` ends and `close_wait()` returns | 3 calls of 2 units (one of each queue), 1 close beside end of file and errors, high-water mark 3 |
| `connection_eagain` (violation) | EAGAIN of the direct write puts a foreign byte on the wire | 2 calls |
| `server` | closed connections leave the map, each is opened in the end; `ServerSafe`: none is opened twice or forgotten, without io loops no event comes before `establish()` is done, with them `for_each()` is undisturbed | 2 peers, 0 to 2 io loops, 1 message, 1 `for_each` |
| `client` | `OneConnection`: `Assert(!connect_channel)` holds, retry timers belong to the live connector, no timeout is left, `is_connected()` is right; `keep_reconnect` succeeds, unless `connect(2)` fails at once | 3 starts, 2 retries, all options |
| `client`, the resolver | answers about the name asked and not out of date, every outstanding query has its timer, every query ends | 2 queries, 2 names, 2 ids (so ids clash and are reused), 2 retries, answers with ttls 0 and 2 or 3 and 1, clock to 4 with a scan every 2: an entry expires between two scans, and between the lookup and the copy |
| `client_gives_up` (violation) | `connect(2)` that fails at once is not retried | the same |
| `thread_pool` | `NoneForgotten`: nothing overslept, `shutdown` drains; each task once; `PoolLive`: tasks are called, `join` returns, unless a worker is added under `join`; both policies | 2 producers, 2 to 3 workers, 3 tasks |
| `http_client` | the lists of the pool agree, no foreign answer is taken for the own one, promises get one value, every request ends | 3 callers, a pool of 1 connection, 3 connections in all: lease, wait, time out, a refused response with and without leftovers, reconnect |
| `parts` | one property per module of `MCParts`, see below | see below |
| `http_cuts` (violation) | a read that ends behind the data of a chunk loses the rest of the body | one chunked message, alone or with one behind it |

Of the run `parts`:

| Module | Property | Bounds |
|---|---|---|
| `ConnTtl` | `TtlTracked`: tracked and disarmed when used on the loop thread; an open connection with a TTL always has a timer, with races too | 2 other threads, 3 timers |
| `Buffer` | `BufferIsQueue`: refines `ByteQueue` | first size 1, extra space 2, 2 readable bytes: every way `make_space()` and `read_fd()` can go |
| `Dispatcher` | `DispatcherIsTable`: refines `EventTable`, each back end | descriptors 1, 3, 4 with a first size of 2 and `FD_SETSIZE` 4: below, at and beyond both; uninitialised memory that is clear or has `EPOLLOUT`, `EPOLLET` and `EPOLLONESHOT` set (the proof is for any contents, also ones `epoll_ctl()` refuses) |
| `HttpMessage` | `ParsedAsSent`, `EachAnswered` | up to three messages, valid or refused at the line, the headers or the length, cut anywhere; pipelined requests, and responses asked for one by one |
| `HttpFiles` | `BodyAsAsked`: ranges exact, 304 true, stuck only if the file changed | 2 connections, files of 0, 1 or 4 bytes, every range around their ends, 3 changes |
| `WebSocket` | `MessagesWhole` | client streams with pings and closes between fragments, calls around `BufferedSize` (4096, headers counted), both orders of bytes |
| `Logger` | `LoggedInOrder` | 1 logging thread, 3 lines, 2 lines per file, 1 restart |
| `Signal` | `SignalsAgree` | 2 signals, 4 calls, 2 raised |
| `Smtp` | `OkMeansAccepted` | 0 to 2 addresses, 2 receivers |
| `Ssl` | `OwnHandshake` | 3 connections on 2 descriptors, without io threads or with one |
| `Codec` | `CodecsInvert` | words of up to 4 of 7 bytes with line and label limits of 4 and 2, so that every limit is met; answers of up to 2 records of 7 types, with spelled and compressed names |

One logging thread is enough for `Logger`: `write()` is one step under `mlock`, so
a second thread adds only a second name.  Types are proved, alone or as a part of
the inductive invariant, for every module that has proofs; in the others a wrong
type shows in the properties.

Runs say `CHECK_DEADLOCK FALSE` because these systems do stop: a loop that has
quit, a closed connection, callers that have used up their bound.

**Fairness.**  Every `FairSpec` assumes what a scheduler and terminating user
callbacks give: a thread that can take a step of its own code does so in the end.
Nobody has to call anything.  Some places assume more.  `Connection` takes
strong fairness of `HandleWrite`, `WriteBytes` and `WriteFile`: a peer that reads
on makes the socket writable again and again.  `Server` takes strong fairness of
handling a ready descriptor and of `RunRemove`: the main loop returns to its
queue and to `wait()` between accepts.  `Client` needs a peer that can be reached
after at most `MaxRetries` failures.  `Resolver` takes strong fairness of a
retransmission timer, which stays armed until the query ends; nothing of the
network is fair.  In `HttpClient` behaviours are finite, so weak fairness of all
that threads and timers do is enough; no peer has to answer.  No fairness is
assumed of `Timer`'s descriptor events; they are bounded (`MaxEvents`), since
`run()` calls `tick()` only on a turn without events and a descriptor that is
always ready would starve the timers.

## 4. Proofs

`EvLoop_proofs` proves for every set of channels and every bound:

- `TypeCorrect`: `Spec => []TypeOK`.
- `WakeupNotLost`: `Spec => []NoLostWakeup`.
- `PipeStaysShort`: `Spec => []WakePipeBounded`.
- `WakeProtocol`: `Spec => []WakesUp`, both of them, which is what the run checks.

`NoLostWakeup` is not inductive: a byte is consumed by `DispatchWake` while
functors may remain.  `WakeInv` strengthens it with where the byte is: until the
byte has been read in this turn a non-empty `functors` has a zero byte in the
pipe, and after it has been read the thread is on its way to the swap, so the
queue will be emptied before the next `wait()`.  The same invariant counts the
bytes that are not quits, which gives `PipeStaysShort`.

- `ChannelsStayMapped`: `Spec => []ChannelsMapped`, no functor and no event finds
  a channel that is deleted.
- `RemovedIsSilent`: `Spec => NoCallbackAfterRemove`.
- `FunctorsInOrder`: `Spec => []CalledInOrder`.

`ChannelsMapped` speaks of the channels alone and is not inductive, because what
is registered next is decided by functors that are still queued.  `ChannelInv` is
about `batch \o functors`, all that is still to be called in its order
(`Queued`): the functors queued for a channel say how far its life is
(`QueuedByLife`), its add comes once and before its disable (`AddOnceFirst`), and
an erase has a disable before it, or finds the channel out of the filter for good
(`DisabledBeforeErase`).  `RemovedIsSilent` follows in the same state: what is
erased is in no filter.  `CalledInOrder` is about the same sequence and is
inductive once the batch is known to be empty outside `do_functors()`.

`ThreadPool_proofs` proves for any producers, workers and tasks:

- `PoolTypeCorrect`: `Spec => []TypeOK`, with the invariant that a worker about
  to call a task holds one.
- `TaskNotOverslept`: `Spec => []NoTaskOverslept`, inductive with the types: only
  an empty queue lets a worker wait, and a push leaves its producer about to
  notify.
- `WorkersAwake`: `Spec => []NoWorkerLeftAsleep`; it needs that the state is
  running exactly until the owner has begun.
- `ShutdownDrainsQueue`: `Spec => []ShutdownDrains`.  `DrainInv` follows the tasks
  queued before the shutdown: each is queued, held or called; once a worker has
  left a pool that is shut down none is in the queue any more, and what is pushed
  later is not one of them.
- `PoolForgetsNone`: `Spec => []NoneForgotten`, the three together.
- `TaskOnce`: `Spec => []EachTaskOnce`.  The queue holds the numbers that follow
  those taken, so a worker takes the smallest one left, and a call moves it from
  the worker to `done`; it needs that workers which have not started hold nothing.

All of them are about behaviours in which no worker is added while `join()` walks
over the vector (`~raced`); after that the code is undefined.

`Timer_proofs`, for any number of timers, any delays and any bound of the clock:

- `ContainersInOrder`: `Spec => []TimersInOrder`: the two containers agree, the
  multiset is in order, and no `wait()` outlasts the first timer.
- `IntervalsDoNotDrift`: `Spec => []NoDrift`.
- `CancelledStaysSilent`: `Spec => CancelledNotCalled`.

They share `TimerInv`.  An id is in one place at a time: with a functor on its
way to the loop, in the containers, or with `tick()` while its callback runs, and
a cancelled one is nowhere (`IdsOnce`).  That is what makes the agreement of the
containers inductive, since `Fire` takes a task out and `EndCallback` puts it
back, with other adds and cancels in between.  `DriftInv` gives the time of the
next call at each of these places, which differ by one interval while the
callback runs, and says that the task whose callback runs was due, so no call is
early; `WaitInv` says that a `wait()` in progress ends by then.  Lemmas
about `Put` and `Erase` give the order by position.

`Connection_proofs`, for any number of calls and closes, any size of the data and
any high-water mark:

- `WriteStaysArmed`: `Spec => []WriteArmed`.
- `BytesInOrder`: `Spec => []SentInOrder`.
- `CallbacksComeInOrder`: `Spec => []CallbacksInOrder`.
- `CloseSendsAll`: `Spec => []GracefulCloseSendsAll`.

What is on the wire says nothing about what will be: the proof has to say where
in the stream of accepted units each pending entry lies.  `IdsInv` says that the
three queues share out the ids from `next_id` to `send_id`, each at one position.
`LayoutInv` says that there are offsets, one per id into the accepted units
and one per entry of `byte_stream_queue` into `output_buf`, such that the first
id is where the wire ends, each entry begins where the one before it ends, and
the contents are those of `accepted` from there on.  A send-complete handler has
a length of zero, so its offset is its mark.  `StateInv` relates the state, the
channel and the queued functors.  The argument has two layers: each operation is
shown to be one of a few changes of the queues (an entry is added, the first one
is shortened or leaves), and each such change is shown to keep offsets of this
kind, by giving the new ones.  As in the properties, what is said of the order
of bytes is on the condition that no direct write reported EAGAIN (`~blocked`,
section 5); ids, offsets and the write event are not.

`HttpClient_proofs`, for any number of requests and connections and any limit of
a route:

- `PoolGivesOwn`: `Spec => []LeasedForOwn`: the lists of the pool agree, and a
  request gets its own response or an error.
- `RequestsEndCleanly`: `Spec => []EndsCleanly`: unless `raced`, no promise is
  set twice or left without a value when it is deleted, and no timer outlives its
  connection.

`PoolInv` says that each live connection is once in one of the lists, and the
flag says in which.  `UseInv` says what a thread, a timer, an attempt to connect
and the loop thread may refer to; a caller between its lease and its `send()`
has a connection on which nothing is on its way, unless a response on it was
refused.  `WireInv` says that on any other connection the only request on the wire
is the one the promise is for, and that a connection on which one was refused
reports `InvalidResponse` ever after: nothing resets its `err_code`, and this alone
keeps leftovers from being taken for an answer.  Both give `OwnResponse`.
`CleanInv` says that without a race a promise is open exactly while its
connection is leased and the loop thread is not working on it, and that a
timer which may expire is that of this request; so whoever sets a promise is
the only one who can.

`ConnTtl_proofs`, for any number of threads and timers:

- `TtlTypeCorrect`: `Spec => []TypeOK`, with ids handed out in order (`Fresh`).
- `TrackedByLoopThread`: `Spec => []TrackedOnLoopThread`; a closed connection has
  no timer unless `set_ttl()` was called on it afterwards (`late`).
- `TtlKeepsRunning`: `Spec => []TtlRunning`.  The invariant `StaysArmed` looks
  ahead in the queue of the loop: some thread is between its cancel and its
  `run_after()`, or some timer is armed, or added by a queued functor, with no
  cancel of it behind.  `Fresh` is needed because a timer that the loop thread
  arms meanwhile survives only if no queued cancel can name it.
- `TtlIsTracked`: `Spec => []TtlTracked`, both.

`Client_proofs`, for any number of starts and retries: `ClientTypeCorrect`,
`AttemptsOneByOne` (`OneAttempt`), `RetryTimerOwned` (`RetryOwned`), `TimeoutGone`
(`TimeoutDisarmed`), `ConnectedTellsTruth` (`ConnectedIsCurrent`) and their
conjunction `ClientHasOne` (`OneConnection`), all from one inductive invariant, `ClientInv`: an attempt, its retry timer and its connection
exclude each other, connections have the numbers of past starts, and unless one
lingers only `cli_conn` can be open.

`Server_proofs`, for any connections and io loops:

- `ServerTypeCorrect`: `Spec => []TypeOK`.
- `TraversalIsSafe` (`TraversalSafe`), from the fact that with io loops no
  connection lives on the main loop (`OffMain`).
- `OpenedExactlyOnce` (`OpenedOrQueued`): the safety half of `OpenedOnce`.
  `OpenInv` adds that until `establish()` has come to the handler it is neither
  called nor queued, and that no two places of all the queues hold the same one;
  lemmas give the places by position for an append and for a call.
- `EstablishedBeforeEvents` (`EstablishedFirst`).  `SingleInv` says that without
  io loops nothing is ever queued and that every connection but the one
  `establish()` is working on has all its handlers.
- `ServerIsSafe`: `Spec => []ServerSafe`, the last three together.

The parts of a connection, in `ConnTtl_proofs` (module `ConnParts`):

- `HandshakesAreOwn`: `Tls!Spec => []OwnHandshake`, for any connections and
  descriptors.  The table is by descriptor and descriptors are reused, so
  `SslInv` says who holds what: a connection has its descriptor until it is
  closed (`FdHeld`), a handshake is in `shmap` under that descriptor until its
  thread has erased it (`ShakingMapped`) and nothing else is (`MappedShakes`).  The
  theorem reaches up to the first two accesses of `shmap` or `connection_map` that
  overlap.
- `BufferImplementsQueue`: `Buf!Spec => BufferIsQueue`, the refinement of
  `ByteQueue`, for any bytes, first size and limit.  The inductive invariant is
  only that the indexes are in order and within the vector (`BuffersOk`); the
  work is in lemmas about what `make_space()`, `read_fd()` and `retrieve()` leave
  between the indexes, position by position, and in one step of `ByteQueue` for
  each action.
- `LinesInOrder`: `Log!Spec => []LoggedInOrder`, for any threads, lines and
  restarts.  `LogInv` adds that `flush_buf` is empty outside a flush unless a
  write failed: the swap puts what it holds behind what is written.  The
  constructor may end at any time and forgets the open file, not a line.

The parts of a loop, in `EvLoop_proofs` (module `LoopParts`):

- `DispatchersAreTables`: `Disp!Spec => DispatcherIsTable`, the refinement of
  `EventTable` by all four back ends, for any finite set of descriptors, any
  contents of the uninitialised `epoll_event`, and up to the first descriptor that
  is out of range of `evmap` or of an `fd_set`.
  `DispInv` has one part for each: `EvmapOk` (the tables are the filters, the
  kernel watches nothing whose filter is empty, and
  `evlist` has room for every descriptor that is added, which needs the
  cardinality of that set), `PlacesOk` (`indexs` and `pollfds` are inverse to each
  other, which the swap in `remove()` has to keep) and `SetsOk` (no descriptor of
  the sets is beyond `maxfd`).
- `SignalMapsAgree`: `Sig!Spec => []SignalsAgree`, for any signals and calls.
  The calls are queued, so `SigInv` is also about ids on their way: each is queued
  to be added once, or at one place of one list (`AddsFresh`, `ListedOnce`); a
  disposition agrees with the map unless its `sigaction()` is still to come
  (`Installed`); and a signal whose byte is unread, or is about to be written by
  `sig_handler()`, has a handler unless `dropped` (`OnTheWay`).

The parts of the protocol libraries, in `HttpClient_proofs` (module `LibParts`):

- `FilesAsAsked`: `Files!Spec => []BodyAsAsked`, for any requests and
  connections.  `FilesInv` says at each step of a request what is still true of
  the last `stat()`: the file as it is is among the versions seen since the
  request came, the time and size found were those of such a version, and what
  was opened has at least that size, unless the file was truncated or deleted
  under it.
- `MailIsAccepted`: `Mail!Spec => []OkMeansAccepted`, for any number of
  receivers.  `MailInv` counts: the state and `rcpt_index` determine how many
  commands have been accepted, before and after the answer to the pending one
  (`Waiting`, `WellAnswered`), and the k-th one accepted is the k-th one wanted.

The resolver, in `Client_proofs` (module `ResolverPart`), for any queries, names,
ids and answers:

- `ResolverAnswersRight`: `Res!Spec => []AnswersRight`.
- `QueriesAreTimed`: `Res!Spec => []OutstandingIsTimed`.

Both are from `ResInv`.  A query is among the functors, outstanding under one id,
or has its result, never two of these (`OnePlace`, `MappedOnce`), which keeps
`query_map` and the timers together when ids are reused; while the loop thread
runs, the scan is on time and leaves only what expires after it, and what a caller
has copied was not too old (`ScannedInTime`).  A caller between its lookup and
its copy has an entry of its own name, unless it was freed (`Pointers`).  `Expires`
relates an entry to its records: it expires no later than any of them if no ttl
is 0.  This is about the least ttl, a loop over the records: `min_ttl` is a
recursive function, and lemmas show by induction on the length (`SetInduction`,
from the well-foundedness of `<`) that one satisfying its equation exists, has
natural values and bounds the ttls so.  Lateness is thus measured by the ttl of the
records, not by the expiry the code computes.

A connection of the WebSocket server, in `Server_proofs` (module `WsPart`), for
any streams of the client, any calls of the user, any cuts and any buffer size:

- `MessagesPassWhole`: `Ws!Spec => []MessagesWhole`, from two invariants.

`RecvInv` says that of what arrived some number of units has been handled and the
others are the input buffer; the handshake handles the lines and `decode()` the
frames; the messages that `onmessage` got are those of the units handled, and
`decoded_buffer` is what is there of the next one exactly while `rcvfragment` is
set.  `SndInv` says the same of the frames encoded and the calls made, that
`sndfragment` tells whether the last frame ended a message, and that a finished
message has left `encoded_buffer`; `AnsInv` gives the answers to pings and closes
their places between these frames.  Both rest on lemmas about `Assemble`, a
recursive function: one part more at the end is one `AddPart` more
(`AssembleAppend`), and messages that are done stay where they are (`UnitsGrow`),
both by `SetInduction`.  Assumed of the client: lines, the last one empty, and then
frames, with control frames in one piece, and that it takes control frames between
the fragments of a message (RFC 6455, 5.4 and 5.5).  Assumed of the user: calls on the
loop thread, and no `send()` between the fragments of a message, which
`sndfragment` does not guard against.

The only assumptions are those on the constants, named in the modules and
evaluated by TLC in the runs.

Only model-checked:

- liveness (`LoopLive`, `TimerCalled`, `CloseEnds`, `ClosedIsErased`,
  `OpenedOnce`, `KeepsTrying`, `PoolLive`, `EveryRequestEnds`, `EveryQueryEnds`):
  it needs fairness, and `ENABLED` is out of the prover's reach;
- `ParsedAsSent` and `EachAnswered` of HttpMessage: what a stream means is defined
  by folds and by filtering a sequence, about which every step of the parser
  would need an induction over the data;
- `CodecsInvert`: `Codec` declares RECURSIVE operators, which the prover does not
  take.

## 5. What the code does otherwise than it says

Shown by the violation runs (see `findings` in `PROJECT.json`):

- `connection.cc:195`: after EAGAIN of the direct write the data is queued from
  one byte before its start (`connection_eagain`).
- `httplib.cc:171`: a read that ends right behind the data of a chunk makes the
  parser take the rest of the body for the trailer (`http_cuts`).
- `connector.cc:33`: `client.h:17` says of `keep_reconnect` that `connect(2)` errors
  are ignored and retried, but an error that `connect(2)` returns at once ends the
  attempts; only one that `check()` finds is retried (`client_gives_up`).
  `KeepsTrying` is therefore about attempts without such an error.

Stated in the modules as properties that do not hold; no run checks them:

- `CancelStopsTimer` (Timer): a timer cancelled in its own callback is in neither
  container, so `cancel_timer()` finds nothing and an interval timer is added
  again (`timer.cc:82`).
- `NoClosedLeft` (Server): with io loops a connection that closes before
  `establish()` has set its close handler stays in `connection_map`
  (`server.cc:59`).
- `ReconnectsAgain` (Client): `restart()` calls `active_shutdown()`, which
  clears the reconnect option, so it works once (`client.cc:74`).
- `NoHangingPointer` (HttpClient): when the races described there meet, a request
  timer refers to a connection that is deleted, against the comment above
  `connection_reset_by_peer()`.
- `ZeroTtlNotCached` (Resolver): `resolver.cc:823` takes a least ttl of 0 for none
  yet, so a record of ttl 0 with another behind it is cached, against
  `resolver.cc:415-418`.
- `SignalHasHandler` (Signal): the last handler of a signal may be removed while its
  byte is in the pair, while `sig_handler()` is about to write it, or just before a
  signal that comes ahead of `sigaction()` (`signal.cc:200-201`, `175-176`); then the
  assertion of `signal.cc:215` ends the process.
- `EpollAsAsked` (Dispatcher): `EEV_SET()` ors the events into an uninitialised
  structure (`epoll.cc:32`, `47`, `56`).  With `EPOLLOUT` in that memory an event is
  reported that nobody asked for, with `EPOLLET` or `EPOLLONESHOT` events are missed,
  against `dispatcher.h`.
- `AnswersDecode` (WebSocket): the answers to a ping and a close are sent as a
  `uint16_t` lies in memory (`ws-server.cc:73-79`).  With the low byte first 00 8A or
  00 88 goes out, an unfinished masked continuation frame, which
  `check_fragmentation()` (`ws-server.cc:264`) would refuse.
- `MapOfOneThread` (Ssl): an `ssl_server` calls `server::establish()` on the io loop
  on which the handshake ended, so `connection_map.emplace()` (`server.cc:62`) runs
  there while the main loop may be in the map, against `server.cc:73-74`.

Seen while modelling, and excluded in the properties where it matters:

- loop and timers: `run()` starves timers while a descriptor is always ready
  (`evloop.cc:74`); `add_timer()` reads a task it no longer owns (`timer.cc:32`);
  a failed write or read of the wake pair is only logged (`evloop.cc:125`); expiry
  times are of the wall clock (`util.cc:51`); a channel added by another thread
  and removed on the loop thread before that functor ran is registered after its
  removal (`channel.cc:43`).
- connection: `close()` drops queued send-complete handlers; calls after a close
  use the deleted channel; closing cancels the TTL timer, so a peer that stops
  reading keeps a connection Closing (`connection.cc:150`); without io threads the
  close handler may delete the connection under `handle_read()`
  (`connection.cc:83`); `sendfile(2)` of a truncated file returns 0 for ever
  (`connection.cc:119`); `update_ttl_timer()` races.
- server and client: an io loop may discard a first message or handle it before
  `connection_handler`; `for_each()` without io loops can erase from the map it
  traverses; a lingering old connection resets `connected` of a restarted client;
  a connect timeout may outlive its client; a `connection_handler` that calls
  `restart()` deletes the connector it runs in (`connector.cc:72`).
- thread pool: `join()` walks over `workers` without the lock, while an `executor()`
  that tested the state before may add one (`thread_pool.h:98`).
- dispatchers: `resize_if()` doubles once, so a descriptor of twice the size or
  more is out of range; `select.cc:66` does not test for `FD_SETSIZE`.
- HTTP: requests behind a failed Expect wait for the next read and a POST without
  a route is never answered; a caller may lease a connection whose timer the loop
  thread is about to cancel; a waiting caller is not woken when a connection is
  removed; a refused response puts its connection back into the pool with the rest of
  it unread and `err_code` set for good (`httplib.cc:1752`), so that all later
  requests on it fail; the colon of a header line is searched in the whole buffer
  (`httplib.cc:58`).
- resolver: an error reply is taken without a comparison of the name; a lost
  connection leaves the loop thread in the busy wait of `send_query()`; a record
  of an unknown type uses the record before it (`resolver.cc:641`); `cache::get()`
  returns a pointer past its lock (`cache.h:26`); a ttl counts from `put()`, not
  from the reply, and its milliseconds are computed in 32 bits (`cache.h:33`); the
  name of the root fails an assertion (`resolver.cc:142`).
- TLS: `shmap` is changed by several loops without a lock.
- base64: the decoder's table has 0 for 'A' as for characters outside the
  alphabet, so every 'A' of a text is skipped, although `base64.cc:132` says that
  only characters not in the alphabet are ignored.
- WebSocket: bytes behind a refused handshake leave `message_handler()` in its
  loop while the answer is being sent (`ws-server.cc:50`).  Logger: a line logged
  between the last swap and the test of `is_quit` stays in `write_buf`; a failed
  write changes the order; the thread runs before the members behind it are
  initialised (`logger.cc:31`).  SMTP: a server that closes or falls silent in the
  dialog leaves the future without a value.

## 6. Not modelled, and what is left

- `listener.cc` beyond a successful accept: what the idle descriptor achieves at
  the descriptor limit depends on which thread opens one in between.
- SHA-1 (there is nothing to compare it with but itself), the formatting and
  parsing of MIME headers (wording), and thin wrappers of system calls.
- The client side of TLS and the filters over OpenSSL; `send_chunk()`, the
  `File()` route and directories of the HTTP server; several routes of the HTTP
  client; `get_mx_name_list()`; the start and join of `evloop_thread`;
  daemonising; wording of logs; samples, benchmarks and build files.
- Memory of objects beyond the lifetime of channels, timers, connectors and
  pooled connections.

Proofs that are left: that the parser of HttpMessage finds the same messages for
every cut, which would first need the meaning of a stream as recursive functions
with lemmas about appending to it, in the way of `AssembleAppend`.
