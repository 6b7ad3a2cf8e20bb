# A TLA+ development of the middleware examples

The repository collects small C programs around MySQL, Redis and nginx.  The
code with state and behaviour of its own is a hand-written network stack
(`4.3 Redis/4.3.2Redis协议与异步方式/src/example/evnet/`, below *evnet*): a ring
buffer, an epoll reactor, a timer tree, a line echo server, and an adapter that
drives the asynchronous context of the vendored *hiredis* library.  Beside it
stand two nginx modules, a Lua script that carries MySQL row events to Redis, and
two SQL scripts that stage concurrency anomalies.

Paths in this file are relative to `4.3 Redis/4.3.2Redis协议与异步方式/` unless
they begin with another chapter; `evnet/` is `src/example/evnet/`.

## 1. Inventory

| component | code | state | operations | here |
|---|---|---|---|---|
| ring buffer | `evnet/ringbuf.h` | bytes, `size`, `read_pos`, `write_pos` (unsigned, free-running) | write, read, readline, clear, free; drained in place by `flush_socket` | **RingBuf** |
| reactor, echo server | `evnet/reactor.h`, `evnet/server.c` | interest sets, two rings per event, the batch of fired events | wait, dispatch, accept, read, echo, flush, close | **EchoServer** (in part) |
| event table | `reactor.h:69-75` | slots, `iter` | slot search | in **EchoServer** |
| asynchronous Redis client | `evnet/async.c`, `evnet/adapter_evnet.h`, `hiredis/async.c` | context flags, output buffer, reader, callback list; the adapter's mask and event | command, connect, read, write, disconnect, free | **RedisAsync** (in part) |
| timers | `evnet/rbt-timer.h`, `reactor.h:166-181` | a tree keyed by 32-bit milliseconds | add, delete, nearest, expire | **Timer** |
| red-black tree | `evnet/rbtree.c`, `rbtree.h` | nodes, colours | insert, delete, minimum, next | **RBTree** |
| nginx page counter | `4.5 Nginx/.../ngx_http_pagecount_module.c` | tree in shared memory, a slab, a mutex | count a request, render a page, respond | **Pagecount** |
| nginx prefix filter | `4.5 Nginx/.../ngx_http_prefix_filter_module.c` | a per-request flag, the announced length | header filter, body filter | **PrefixFilter**, in **Pagecount** |
| cache script | `4.1 MySQL/4.1.4缓存策略/src/lua/t_user.lua`, `app.yml` | a Redis hash per row | one command per column | **CacheSync** |
| transaction scripts | `4.1 MySQL/4.1.3MySQL事务原理/SQL/` | none of their own | statements for two sessions | not modelled, see section 8 |
| libevent demos | `src/example/evmain*.c` | a bufferevent | thin callbacks | not modelled |
| blocking client | `evnet/sync.c` | one counter in Redis | straight-line calls | not modelled |
| vendored libraries, SQL exercises, practice copies | `hiredis/` otherwise, `libevent/`, `src/practice/` | | | not modelled |

How they interact.  One thread runs `eventloop`: it asks the timers for the
nearest expiry, waits in `epoll_wait`, for each fired event calls `read_fn`
and then `write_fn` (`reactor.h:130-163`), and then expires timers, whose handlers
add and delete others.  The echo server installs `accept_cb`, `read_cb` and
`write_cb`; `read_cb` pulls the socket into the event's *in* ring, takes one line
out of it and answers through `write_socket`, which writes at once or queues behind
the *out* ring; `write_cb` drains that ring.  The Redis client installs the
adapter's two handlers instead, which call into hiredis, which calls back into
the adapter (`addRead`, `addWrite`, `delWrite`, `cleanup`) and into the user's
callbacks, which may ask hiredis to disconnect.  So almost everything runs in
callbacks of callbacks on one thread, and the concurrency is with the peers and
the kernel: every system call is a point where they may have moved.  The nginx
modules run in several processes that share one tree, and each response of the
page counter passes through the prefix filter where both are configured.  The
cache script is called by a transfer process for each row event of MySQL's log; its
commands reach Redis one by one while others read.

What is hard here, and the property that makes each component correct:

* **ring buffer**: arithmetic on wrapping unsigned positions; a line scan that may
  leave the live bytes.  It should be a bounded FIFO of bytes.
* **echo server**: an event freed in its own callback, with `write_fn` still to
  run and other events of the batch waiting; interest in `EPOLLOUT` kept in step
  with a backlog; short writes; all-or-nothing rings whose refusals are ignored;
  a process that a client can end.  Lines should come back once, in order; closed
  events should stay quiet.
* **Redis client**: replies matched to callbacks by position alone; a deferred
  disconnect; two records of what is being watched for (the adapter's mask and
  epoll's); frees below the feet of the reactor; uninitialised pointers.
* **timers**: a clock that wraps, compared in one way by the tree and in another by
  the loop; handlers that change the tree they are called from.  No timer should
  run early, be slept past, or be lost.
* **tree**: long sequences of operations through mirrored cases.  It should be an
  ordered queue, first come first served among equals.
* **nginx modules**: a tree read outside its lock, one-byte counters, one zone shared
  by several locations, a length announced before the body is changed.
* **cache script**: five commands for one row; events delivered twice.  The cache
  should come to be the table.

`PROJECT.json` lists these hazards line by line, each with the properties that
cover it.

## 2. Modules

| module | models | |
|---|---|---|
| `ByteFifo` | what a user of the ring may rely on | abstract |
| `RingBuf` | `ringbuf.h`, and the in-place drain in `reactor.h:255-315` | refines `ByteFifo` |
| `EchoChannel` | what a client of the echo server may rely on | abstract |
| `EchoServer` | `server.c` on `reactor.h`, its event table, clients, kernel | refines `EchoChannel` |
| `Pipeline` | what hiredis promises its user | abstract |
| `RedisAsync` | `async.c`, `adapter_evnet.h`, hiredis's context, Redis, kernel | refines `Pipeline` |
| `Lists` | a list of nodes: what is ahead of what, insertion, removal | shared by the next four |
| `TimerOrder` | how keys compare across a wrap, and the orders an insertion may give | shared by the next three |
| `TimerQueue` | what users of a red-black tree rely on | abstract |
| `RBTree` | `rbtree.c`, `rbtree.h` | refines `TimerQueue` |
| `Timer` | `rbt-timer.h` under `eventloop` or `wait_timer_expire` | its tree is a `TimerOrder` queue |
| `PrefixFilter` | header and body filter, as operators on a response | |
| `Pagecount` | the page counter in several workers | composed with `PrefixFilter` |
| `CacheSync` | `t_user.lua`, with the log, the transfer process and Redis | |
| `MC...` | constants, symmetry and views for TLC | |
| `RingBufProofs`, `EchoServerProofs`, `RedisAsyncProofs`, `TimerProofs`, `RBTreeProofs`, `PagecountProofs`, `CacheSyncProofs` | theorems | TLAPS |
| `DataTheorems` | lemmas on quotients and remainders, and on `Lists` | TLAPS |

Each specification ends with its properties; an operator whose comment begins
with "Mutant:" stands before the definition it is a broken variant of, and is
there to show that the properties notice.

**RingBuf.**  State variables have the names of the C fields.  A byte is a model
value or string, positions are numbers modulo `M` (2^32 in the code) and every
addition and subtraction is done in that range by `UAdd` and `USub`.  The two
`memcpy` calls of a write and a read are one function each (`Copied`,
`Segments`), in two parts as in the code, so that a wrong split would show.
`rb_readline` keeps the code's loop bound, which is wider than the live bytes.
`flush_socket` here is the ring's side of `reactor.h`'s drain: how many bytes each
of the two `write(2)` calls took is a parameter.  `FlushError` is the drain one of
whose writes fails: `write_socket_` frees the ring and returns -1, which
`n < len` takes for a short write (`reactor.h:287`, 296, 305), so that the read
position of the freed ring becomes 2^32 - 1.  Such a ring is `Torn`: it has size 0 and
one byte to read.  A further drain fails again; any other use but `rb_clear` and
`rb_free` copies through a null pointer (`Crash`).  A ring is drained only while its
positions are in order, since the drained ring is `e->out`, which `rb_readline`
is never called on.  `call`, `out` and `moved` record what the caller got; `overrun` how far a call wrote past the caller's buffer.  The
buffer starts with any contents, as `malloc` leaves it.

**EchoServer.**  Actions are the stretches between two system calls: one
`epoll_wait`, one `accept`, one `read` with what is done to the ring, one line
echoed or queued, one flush, one close.  Clients connect, send, receive, end the
stream or reset the connection between any two of them.  `fire` is the batch of
events, each with the mask it was *fired* with, handled in any order; `cur` is
the one being handled.  The rings are FIFOs (what `RingBuf` implements) of lines
and half-lines: an echo is the line and the NUL byte `server.c:10` sends after it,
so that a send can end inside an echo.  `rb_write`'s refusal of what does not fit
is modelled, and remembered in `dropped`.  `flush_socket`'s quirk on a failed
write, which adds -1 to the read position of the ring it has just freed, is the
variable `torn`: such a ring looks non-empty, and a later `write_fn` of the event
would write to a closed descriptor, which `late` records.  `NextSlot` is the search
of `_get_event_t`: an entry is tested at the masked index and returned at the
unmasked one, the last masked index lies one past the table, and an entry whose
event was closed is never free again, since its `fd` stays positive.  An event
outside the table either ends the process (`AcceptOverrun`) or goes unnoticed
(`Accept`).  A client that resets a connection it has already ended (`"gone"`) makes
the next write raise SIGPIPE (`Sigpipe`).  To its client a connection is a channel:
of the lines sent, some are `waiting` (in the socket or the *in* ring), the units of
the others are `echoed` (in the *out* ring, in the kernel or read by the client), and
`intact` are the connections that are open, or not accepted yet, and of which no ring
has refused anything.  `IsChannel` says that under this mapping, and as long as
lines arrive whole (section 7), every step of the server echoes the oldest waiting
line, or loses neighbouring lines and unread echoes of a connection that is intact no
more, or changes nothing.

**RedisAsync.**  The k-th command is the number k and so is its reply.  Between
the user and the server stand four queues: `obuf` (hiredis's output buffer),
`wire` (sent, not executed), `inbox` (replies arrived), `reader` (replies read),
and beside them `replies`, the list of pending callbacks.  A `send` takes any
non-empty part of `obuf` that fits.  `ad` is the adapter's `redis_event_t`: the
mask it believes in, whether epoll has the descriptor and with which interest,
its two function pointers, what its rings point to, whether it is still allocated.
`redisAttach` sets none of the pointers, so they start as any element of `Heap`.
Redis may end the stream (`"fin"`), reset the connection (`"rst"`: a send
returns an error) or reset one it has ended (`"gone"`: a send raises SIGPIPE, which
nothing here ignores, and the process dies, `Sigpipe`).  `HandleConnectFailure` is the
refused connection, and also `redisSetTcpNoDelay` failing on one that is made.
A use of something freed or never set is recorded in `ad.faults`; from then on the
process may crash at any step, and may also go on, as the compiled program would.
hiredis's asserts are the state `pc = "abort"`.  `__redisAsyncDisconnect`,
`__redisAsyncFree` and `redisEventUpdate` are operators of those names used by
every handler that calls them.

**TimerOrder, TimerQueue, RBTree.**  `Precedes` is the signed difference of two
unsigned keys (`rbtree.c:136`).  It orders keys that lie within half a turn of the
clock (`SmallRange`); outside that range where a node goes depends on the shape of
the tree, and `Insertions` allows any place.  `RBTree` is the code pointer by
pointer: root, children, parents, colours, both insertion orders, the deletion with
its substitution of the successor.  `child` has a side as its first index, so that the
mirrored halves of the code are one action, and `ngx_rbtree_left_rotate` and
`ngx_rbtree_right_rotate` are one `Rotate`.  A step is one round of one of the code's
loops: a way down (`Descend`, then `Attach`), a round of the re-balancing of an
insertion (`Recolour`, or `RotateUp`, with `Straighten` before it for an inner node),
a step of a walk (`ngx_rbtree_min`, `Climb`), the unlinking of a node (`DeleteRoot`,
`DeleteNode`, `Substitute`), a round of the fixup of a deletion (`Lighten`,
`BringNephew`, `Settle`, with `RotateSibling` before them for a red sibling).  `pc`
says which loop the program is in, `node` and `temp` are its cursors.  No call can
come between the rounds of another; they are steps so that what holds between them
can be stated.  `temp->parent` may be the parent of the sentinel, which the code writes
and reads back in the fixup, and the parent of the root may be stale; both are as in
the code.  `order` (the nodes in the tree, in order), `under` (the nodes of each
subtree) and `height` (the black nodes on the paths below a node) are history, read by
guards only for what a caller knows, whether a node is in the tree.  An insertion puts its node into `order` beside the leaf's parent, a
deletion takes it out, and that the pointers agree with it is what the invariant
says.  The refinement maps the queue to `order`.

**Timer.**  `time` does not wrap; the program sees `Shown(time)`, modulo `M`.  The
clock may tick between any two steps, also while handlers run.  Both drivers are
there: `eventloop`, which passes the remaining time to `epoll_wait` as an `int`, and
`wait_timer_expire`, which polls.  `Ask` computes the `timeout` from the clock and
`EpollWait` enters the call; time may pass in between.  Callbacks and handlers may add timers of any of
the `Delays`; a handler may delete its own entry, in which case `expire_timer`
deletes it again: what then happens depends on whether `add_timer` has been given
the same chunk (`HandlerDone`).  `due`, `wake`, `slip` (the time between the two), `overdue` and `scattered` are history.

**Pagecount, PrefixFilter.**  A worker's request is a sequence of labelled steps:
lock, lookup, the load and the store of `data++` apart, link, unlock, then the walk
through the tree, one node at a time, outside the lock, then the header and the
parts of the body through the filters.  While another worker is linking a node
(`Linking`), the walk may find any node or a bad pointer.  The tree is its set of
keys.  All `count` locations share one zone and only one location's configuration
(`zone`) is filled by the zone's initialisation, so a request to another location
uses uninitialised memory (`Request`).  Workers die and are replaced, and the
configuration is reloaded at any moment while the tree survives: a worker at a request
goes on with the configuration it was started with beside the new ones (`wants` keeps
what it says of the request), and takes no further request.  `Rows` says how many rows may
fit `html[1024]`; one more overruns it (`RowTooMany`).  `Other` is a response of
another handler, with a known length, any status and type, sent in parts.

**CacheSync.**  A row is the number of the event that wrote it, in all its columns,
so that a hash with two different numbers is a mixture of two rows.  `OnEvent` runs
the script for one event and queues its commands; `Execute` is one command in
Redis; `Save` records the position once nothing is queued; `Restart` goes back to
it, and events come again.  `Move` is an UPDATE of the primary key, of which the
script sees only the new row.

## 3. Runs

| run | question | constants | result |
|---|---|---|---|
| `ring_lines` | Is the ring a bounded FIFO when every write ends a line, until a drain fails, and does each line fit the caller's buffer? | 4 slots, 4-bit positions, 3 byte values, lines of 1 to 3 | holds |
| `ring_pieces` | How can a ring fed with pieces of lines depart from the FIFO? | the same | only by the reader passing the writer of a ring in use |
| `ring_overtaken` | Can the reader pass the writer? | the same | **yes** |
| `echo_burst` | When lines arrive whole, is a connection a channel of them, and order, loss, interest, closes and death, with rings that overflow | 2 connections, 3 lines each, rings of 1 line and 2 units, 1 unit in the kernel, a table of 3 | holds |
| `echo_polite` | Does a client that waits for each echo get all of them? | 2 connections, 2 lines each, a table of 7 | holds |
| `redis` | Does the context keep hiredis's promise, whatever the connection does, and does its loop end? | 4 commands, room for all, any part sent, resets, SIGPIPE, stray pointers | holds |
| `tree` | Is the tree an ordered queue, balanced and coloured right, and do walks find its nodes in order? | 6 nodes, keys modulo 4, both orders | holds |
| `timers` | Early, late, lost or left behind? | 3 entries, a clock of 8, delays 0, 1, 3, up to time 10 | holds |
| `nginx` | Counts, pages and prefixes with several workers | 2 workers, 3 clients, 2 locations, counters modulo 2, a slab of 2 nodes, 1 or 2 rows, 3 requests | holds |
| `cache` | Does the cache come to be the table? | 2 users, 4 changes, 2 restarts | holds, but for moved rows |
| `redis_stalls` | Is a write scheduled while commands wait? | 3 commands, 2 fit | **no** |
| `redis_reset` | Does the reactor leave a cleaned-up event alone? | resets | **no** |

**Why these bounds are enough.**  A ring of four slots with lines of up to three bytes
has every alignment of a line against the edge, including lines that wrap and
reads that stop on it; positions run modulo 16, four rings long, so that they wrap
while the ring is empty, part full and full, and a drain fails before and after the
edge (5,627 states with lines, 16,498 with pieces).  The echo rings are smaller than one
burst, and the kernel takes half of an echo at a time: every short write,
refusal and backlog occurs; two connections suffice for the batch to hold another
event when one is freed.  With `MAX_CONN` 3 the listener and one connection fill
the table, and the second connection lands outside it (1,584,207 states); with 7
it does not fill up, so that the polite clients are served (208,507 states).
Four commands over a kernel buffer of four, of which a send may take any part, give
a short write with a rest, a reply that arrives before the rest is sent, and
callbacks pending when the connection fails.  Six nodes are the fewest with which
every round of both loops occurs (a red sibling in a fixup needs them); keys modulo 4
give equal keys and keys half a turn apart (574,497 states).  A clock of 8 up to time 10 wraps once with timers on
both sides; the greatest delay, 3, is just under half a turn, so that timers that
stay overdue scatter the keys (679,052 states).  A slab of two nodes for three clients runs out; a
counter of one bit wraps on the second request, and three requests let one client
count twice beside another (1,231,488 states); two rows in a page of one overrun
it.  Two users and four changes give a row that is inserted, moved, deleted and
inserted again; two restarts give events delivered three times.  The theorems
below need none of these bounds.

**Symmetry and views.**  Connections, timer entries and workers are permuted only in
runs without liveness properties, and no formula names one of them; the refinements
`IsChannel` and `KeepsPromise` are checked as step properties of the abstract
specifications, which state no fairness.  `tree` looks at
states through `Unnamed`: shape, keys and colours of the tree, the loop it is in and
where its cursors are, without the names of its nodes.  It is sound because the code
never compares nodes except for identity, a step from one of two states with the
same view has a counterpart from the other, and the properties depend on nothing
else.  `echo_burst` looks through `Indexed`, which takes all indices outside the table
for one: with `MAX_CONN` 3 such an index is given out only to the second and last
connection, after which nobody searches the table, and what lies outside it is all the
properties ask of it.  The theorems below do without either view.

**Deadlock** is checked for the tree, which can always be called, and where it means
that every round of a loop has a next one or ends it.  The
other systems really stop: a torn ring has been used, the clients have nothing left to
say, the context is gone, the process has died, the clock or the log has reached its
bound.  Whether
one stops too early is what the liveness properties ask.

**Fairness.**  `WF(Server)` and `WF(Client)`: each program is one thread in a loop,
which the scheduler runs; nothing more than weak fairness of the whole thread is
assumed, so any fired event may wait behind another of its batch.  `WF(Recv(c))`: a
client reads what it has been sent, else its socket buffer stays full for ever.
`WF(Handshake)` and `WF(Execute)`: TCP decides whether a connection is made, and
Redis executes what it receives.  In `CacheSync`, `WF(OnEvent)` and `WF(Execute)`: the
transfer process delivers what is in the log and Redis executes it; nothing
obliges the process to save its position.  No fairness is put on a client's
sending, on ends of streams, resets, changes or restarts.

## 4. What the runs found

1. **A line in two pieces** (`ring_overtaken`, `ringbuf.h:124`).  The loop of
   `rb_readline` runs while `i < rb_len(r) || i <= sz`: it looks at bytes that were
   consumed long ago, and on finding an old newline there moves `read_pos` beyond
   `write_pos`.  From then on `rb_len` is close to 2^32.  `ring_pieces` shows that
   nothing else goes wrong with a ring in use, and theorem `RingInvariant` that it
   does not happen as long as each write ends a line.  Both except the ring a failed
   drain has freed.
2. **The rest of a short write** (`redis_stalls`, `adapter_evnet.h:63`).
   `redisEventUpdate` calls `enable_event` with the one flag that changed, which
   replaces the whole interest set; the mask still holds both, so later calls
   return early.  After one `send` that does not take everything, epoll watches
   only for replies and the rest of the commands is never sent.
   `ListensForReplies` shows the other direction to be safe: the replies
   are always watched for, because `DEL_WRITE` comes before `ADD_READ`.  `Finishes`
   holds on every behaviour without such a write.
3. **A reset** (`redis_reset`, `reactor.h:154-157`).  An error is turned into
   readable and writable; the read handler disconnects and frees the adapter's
   event; the reactor then reads `write_fn` from it.  The echo server, whose
   events live in a table, does not have this problem (`NoLateWrite`,
   `EventsOK`).

The passing runs hold in spite of some behaviour a reader should know of; each
property names its exception:

* *A failed drain.*  When a `write(2)` of `flush_socket` fails, -1 is added to the read
  position of the ring that has just been freed (`reactor.h:287`, 296, 305): it has no
  buffer, but one byte to read.  `PositionsOK` excepts this state (`Torn`), and
  `ByteFifo` knows it as `broken`.  The echo server never uses such a ring again
  (`NoLateWrite`, `EventsOK`), and its event's entry is never given back.
* *Timers around the wrap.*  `rbt-timer.h:90` compares keys as plain unsigned
  numbers, the tree compares them by their signed difference (the comment at
  `rbtree.c:129` says why).  A timer due after the next wrap of the clock (every 49
  days) therefore runs at once, and one from before the wrap bars the way of those
  behind it until the clock has come round (`EarlyOnlyAcrossWrap`, `NoneLeftBehind`).
* *An overdue timer.*  `find_nearest_expire_timer` computes the time left in an
  unsigned variable; passed to `epoll_wait` as an `int` it is negative, so a timer
  that became due between `expire_timer` and the next `epoll_wait` waits for the next
  event, for ever if there is none (`WakesInTime` excepts `overdue`).  One that was not
  overdue may be late by the time between the reading of the clock and the call
  (`slip`).
* *A handler that deletes its own timer* has it deleted and freed twice; if it has
  added another in the meantime, that one is lost (`LeavesOnceRun`).
* *SIGPIPE and the table.*  A Redis server that resets a connection it has ended kills
  the client (`hiredis/net.c:83` sends with no flags), and a client that does so kills
  the echo server, and so may the accept after the table is used up: entries are never given
  back, so that is the number of accepts in the life of the process
  (`SurvivesItsClients`).
* *Two `count` locations* share one zone, whose data is the last location's
  configuration; a request to the other locks a mutex through a pointer that was
  never set (`ngx_http_pagecount_module.c:137`).
* *A page rendered while a node is linked* may list anything, and more rows than
  fit `html[1024]` damage the stack (`PageWhole` excepts `torn`).
* *An empty HTML body* is announced with length 0 but still gets the prefix
  (`ngx_http_prefix_filter_module.c:138`, `LengthKept`).
* *A changed primary key* leaves the hash of the old one in Redis for good
  (`StaleIsMoved`).  The script's comment (`t_user.lua:6`) says it listens for inserts
  only; the code handles updates and deletions too, and `EventuallyInSync` needs it to.
* *A burst of lines* is echoed one line for each readable event; the rest stays in
  the ring until more bytes arrive (`EveryLineEchoed` is claimed of polite clients).

Seen in reading and not checked: `async.c` run with no commands never disconnects
(`async.c:29`), a HEAD request gets a body from the page counter, and its body is an
array on the handler's stack (`ngx_http_pagecount_module.c:335`), which what nginx
sends later would be read from after the handler has returned.

## 5. What is proved

For all values of the constants that satisfy the named assumptions
(`RingAssumption`, `EchoAssumption`, `AsyncAssumption`, `ClockAssumption`,
`TimerAssumption`, `PointerAssumption`, `PagecountAssumption`, `CacheAssumption`):

| theorem | says |
|---|---|
| `RingBufProofs!RingInvariant`, `PositionsInOrder` | if every write ends a line (`LinesOnly`), the reader stays between the writer and one ring behind it, but for the ring a failed drain has freed (`Torn`) |
| `RingBufProofs!RingImplementsFifo` | under the same assumption `RingBuf` implements `ByteFifo`, whose `broken` is `Torn` |
| `RingBufProofs!LinesStayShort`, `ReadersBufferHolds` | if besides no write is longer than `LineSz` (`ShortWrites`), no line in a ring that is not torn is (`FitInv`), and `rb_readline` never writes past its caller's buffer |
| `RingBufProofs!RingTyped`, `FifoUnlessOvertaken` | whatever is written, all variables keep their types, and a call departs from `ByteFifo` only by moving the reader of a ring in use past the writer |
| `EchoServerProofs!ServerInvariant` | `ServerInv`: types, events, and the batch being dispatched |
| `EchoServerProofs!InterestMatchesBacklog`, `NoWriteAfterClose` | the two safety properties it contains |
| `EchoServerProofs!ServerSurvives` | until the table is full events lie in entries of their own, and only a reset after a FIN ends the process |
| `EchoServerProofs!ServerIsChannel` | `EchoServer` implements `EchoChannel`: of lines that arrive whole, as the next two are |
| `EchoServerProofs!EchoInvariant`, `EchoesInOrder`, `NoLineLost` | `EchoInv`, the invariant with the table and the lines under way, and the two properties of order and loss |
| `EchoServerProofs!WindowPreventsDrops` | if the rings have room for the clients' window (`RoomForWindow`), nothing is ever refused |
| `RedisAsyncProofs!ContextInvariant` | `ContextInv`, the invariant of the context, its adapter and the connection |
| `RedisAsyncProofs!RepliesInOrder`, `NeverAborts`, `StopsWithContext`, `NeverDeaf` | the safety properties that follow from it |
| `RedisAsyncProofs!PromiseKept` | `RedisAsync` implements `Pipeline` |
| `TimerProofs!TimerInvariant`, `TimersTyped` | the inductive invariant of the timers |
| `TimerProofs!EarlyOnly`, `TimersInOrder`, `NotOverslept`, `NoTimerLost`, `ExpireComplete` | every property of the run `timers` |
| `RBTreeProofs!TreeInvariant` | `RBInv`, the inductive invariant of the tree, after each round of each loop |
| `RBTreeProofs!RedBlackAlways`, `TreeIsQueue`, `WalksInOrder` | for trees of any size: colours and black heights; `RBTree` implements `TimerQueue`; a walk returns the first or the next node |
| `PagecountProofs!PagecountTyped`, `CountsAreRight` | the mutex is held exactly in the critical section, and no count is lost |
| `PagecountProofs!PagesAreWhole`, `PrefixesInPlace`, `LengthsKept` | pages and responses |
| `CacheSyncProofs!CacheInvariant`, `CacheTyped` | the inductive invariant of log, commands and cache |
| `CacheSyncProofs!OnlyMovedAreStale`, `TornRowsAreRepaired`, `ReadersGoForward` | every safety property of the run `cache` |

*The ring.*  `PositionsOK` alone is not inductive: `rb_readline` scans past the live
bytes.  What saves it is `EndsWithLine`: if the ring is not empty, its last live
byte is a newline, so the scan stops inside.  All of this is said of rings that are not
`Torn`; that `FlushError` leaves exactly that state, and that nothing but another failing
drain, `rb_clear` and `rb_free` gets past it, is shown beside it.  A flush that stops anywhere, and a
read that takes part of a line, keep the last byte; a write replaces it by its own
last, which is a newline by `LinesOnly`.  The arithmetic is on `UAdd` and `USub`, and
the slot of a position commutes with it because `M` is a multiple of `Size`.
For the refinement, `Live` (the sequence of bytes between the positions) is shown
to grow by what is written and shrink by what is taken, operation by operation.
Those lemmas ask for `PositionsOK` before and after the step and for nothing of
what is written, so they also prove `FifoUnlessOvertaken`, where a line may come in
pieces.  `NoOverrun` follows from `LinesFit`: every live byte has a newline at most
`LineSz` bytes on.  A drain that cuts the oldest line only makes its rest shorter, and
a write is a line of its own of at most `LineSz` bytes behind a newline, so
`LinesFit` holds with `RingInv` (together they are `FitInv`), and the scan of
`rb_readline` ends in time.
`ShortWrites` is an assumption on clients: `server.c:6` gives `rb_readline` 1024 bytes,
and nothing in the server bounds the lines that come in.

*The server.*  `NoLateWrite` needs to know that the event `write_fn` is called on
is not `torn`; that needs each fired event to be in the batch once and unhandled
events to be open (`BatchOK`), and that needs the events of the listening queue
to be fresh (`EventsOK`).  `TableInv` follows the search for a slot: as long as
fewer events than entries have been accepted, `iter` counts them, so that the search
stops at once, at an entry nobody has; that is the arithmetic of the mask and the
loop bound of `_get_event_t`, and the reason why death by the table needs
`MAX_CONN - 2` accepts.

*The echo channel.*  The refinement goes action by action.  A read moves lines from
the socket to the *in* ring and leaves `waiting` as it is, or, when `rb_write`
refuses them, takes them out of its middle; an echo moves the head of `waiting`
behind `echoed`, in the ring if there is a backlog and else partly in the kernel; a
flush and the client's own read move units along `echoed`; a close frees both rings,
so cuts its tail.  The lemmas about concatenation it needs (`CatAssociative`, `CatMove`,
`CatWithout`, `CatTail`) stand in front.  `PipeInv` is then an invariant of the
abstract specification's steps, transferred by the refinement: `InOrder` (what waits is
younger than what has been echoed) survives any loss, `Complete` (nothing is
missing) lasts as long as the channel is intact.  `EchoInOrder` and `NothingLost`
are read off it.  So neither is proved from the callbacks directly: what the
callbacks can do is said once, in `EchoChannel`.

*The window.*  `RoomForWindow` is `InCap >= Window` and `OutCap >= 2 * Window + 1`; the
run `echo_polite` has exactly these values, and in `echo_burst`, whose rings are smaller,
lines are refused.  The code has rings of fixed size and no flow control, so the
assumption is one on clients: it says how far ahead of its echoes a client may send
for `rb_write`'s ignored result to be harmless.  `WindowInv` bounds what a client has sent by what
it has read; with `Complete`, which holds as nothing has been dropped so far, twice the
lines that wait and the units that have not been read are at most `2 * Window + 1`
together, and both rings hold part of that.

*The context.*  `RepliesMatch` says that `replies` is the concatenation of the four
queues.  It is inductive only with the rest of `ContextInv`: `OutReady` (a writable
socket still is when the handler runs, unless reset) excludes the send that
blocks, which hiredis reports as a failure without an error and which would trip
its assertion; `Interest` relates the adapter's mask to what epoll watches,
and shows that a write handler runs after a short write only on a reset
connection.  The refinement maps the pending list to `replies` and the end of
the promise to `ctx` and `err`.

*The timers.*  `TimerInv` adds to the properties `KeysOK` (a key is its entry's due
time as the clock shows it, and due times are less than half a turn ahead),
`Running` (the entry whose handler runs is in the queue unless it has deleted
itself), `Calling` (what the timeout about to be passed to `epoll_wait` says of the due
times) and `Spread` (unless `scattered`, due times are pairwise within half a
turn).  From `Spread`, `Precedes` on keys is `<` on due times, so that an insertion
which is in order by key is in order by due time, and the head is the first due.
The arithmetic of remainders is confined to `DataTheorems`.

*The tree.*  A tree is usually described by recursion over its shape, and an
invariant by induction over it, which the prover does not do.  Here the recursion
is unrolled into history: `under[n]` is the set of nodes below and at `n`, and
`height[n]` the number of black ones on the paths below, and each is tied to its
children by an equation that a step changes at a few nodes only.  `RBInv` is the
conjunction of
`Linked` (child and parent pointers agree, but for the root's parent and the
sentinel's),
`Nested` (each subtree is its node and two disjoint subtrees; ancestors' subtrees
contain descendants'),
`Ordered` (in `order` a node stands between its two subtrees, and a node from
elsewhere stands on one side of a whole subtree),
`Sorted` (plain keys grow along `order`),
`RedBlack` (colours, and the equation of `height`, with the cursors' exceptions: one
red node below another while an insertion is being re-balanced, one link a black node
short during a fixup) and
`Loops` (what the cursors have reached: a way down has left behind only nodes on
their proper side of the new one; a walk to the left only nodes behind the cursor; a
climb only nodes ahead of where it began).
`Nested` is the part everything else rests on.  It says which nodes lie inside and
outside of what a rotation or an unlinking touches, so that a parent met
by a pointer is not among the nodes rewired, and the pointers a step writes are at
different nodes; `RotateLinked`, `RotateNested` and `RotateOrdered` then serve all
five steps that rotate.  `Ordered` does not mention paths: that a subtree is an
interval of `order` is enough to show that a rotation leaves the order alone, that
the new leaf stands beside its parent, and that the successor found in the right
subtree is the next node and may take the removed one's place.  `RedBlack` is proved
one kind of round at a time: in a fixup one link lacks a black node, and each round
ends the loop, moves the lack one link up, or turns the tree round it.  In the
refinement only `InsertRoot`, `Attach`, `DeleteRoot`, `DeleteNode` and `Substitute`
are steps of the queue, and `Loops` says that `Attach` puts the node where `TimerQueue` wants it: by
plain keys behind all equal ones, by expiry times as `Insertions` does while the keys
lie within half a turn (`SoundOrder` shows that `Precedes` is then an order along the
whole queue).

*The page counter.*  `Knows` says what the worker in the critical section holds: the
counter it has loaded is still the counter, and its client is or is not in the
tree, as its label says.  The mutex being held by one worker makes it inductive,
and `CountsRight` follows with the arithmetic of the wrap.  `PageInv` describes a
walk half done: the rows so far are increasing, end before the node it stands on,
and hold every earlier key below it; since keys are never taken out, others may
insert while it goes on.  `RespInv` follows a response through the filters, in
however many parts.

*The cache.*  `Applied` looks at the last event of each row: once delivered, either
its effect is in the hash or the last command on the way for a field carries it
(`Settled`), and once saved, it is in the hash.  `FromLog` says that every command
comes from an event after the saved position, so that losing them in a restart
loses nothing that will not come again; `TableLogged` ties the table and `moved` to
the same last events.  `ReadInv` adds that commands on the way carry growing rows.

The proofs are about the actions as TLC checks them; the invariants proved are
invariants of the runs, or conjunctions of them with facts about history.

## 6. What is only model-checked

Liveness (`EveryLineEchoed`, `EndedIsClosed`, `Finishes`, `EventuallyInSync`), which is
out of the prover's reach.  Every other property of a passing run is a theorem, some
under a named assumption (section 5).  That the loops of the tree end is neither
checked nor proved.

`RBInv` holds in the run `tree` as well; the cfg names only `RedBlack`, the part a
reader asks for, as the whole takes some three times as long to evaluate.

That `Timer`'s queue is what the tree does, and `Pagecount`'s sorted set of keys what
nginx's tree does, of which `rbtree.c` is a copy, is the content of `TreeIsQueue` and `WalksInOrder`.  The
step from there to `Timer` and `Pagecount` is by construction, not by a theorem:
`Timer` uses the same `Insertions` and `Without`, and `Pagecount` a set.

## 7. Abstractions to keep in mind

* Lines arrive whole: a `read(2)` of the echo server returns whole lines, and what
  `rb_write` takes or refuses is whole lines.  `read_socket` itself reads 1024 bytes at
  any boundary, so this is a condition on clients: lines of one length that divides
  1024, each sent in one segment, meet it.  Where a read does cut a line, finding 1
  applies, and a full ring may refuse one half of it and join the other to another
  line (`reactor.h:223-244`).  Of such connections `EchoServer`, `IsChannel` and
  the properties and theorems beside it say nothing.
* The rings of the echo server are FIFOs, which is what `RingBuf` guarantees when each
  write ends a line.
* An `epoll_wait` returns all ready events at once; the code's limit of 512 per call
  only matters with more connections than that.
* After `RST` the kernel still hands out what had arrived before it.
* `ReadClose` and its like close a descriptor; reuse of its number by a later `accept`
  is represented only by `late`, which is never reached.
* An event outside the table keeps its contents, as if it had memory of its own; what
  it overwrites is not followed further.
* Redis executes commands in order and answers each; it may close or reset the
  connection at any time after it was made, and never refuses to read.
* A `recv` returns any non-empty part of what has arrived; a `send` takes any
  non-empty part that fits.  Both count whole commands and replies.
* Timer handlers run at the speed of the model's clock: any number of ticks may pass
  in one, or none.
* A page's row counts as one, whatever the length of the address; `Rows` is
  nondeterministic instead.  Responses are counted in pieces, not bytes.
* The transfer process sends its commands in order and saves only when none is
  waiting, as the batch settings in `app.yml` and the script's use of it suggest.

## 8. What is not modelled, and why

* Failing `epoll_ctl`, `malloc` and nginx allocations; the server's start-up errors.
* What nginx does with a body it cannot send at once: its postponed writes are its
  own code.  The stack buffer of `ngx_http_pagecount_module.c:335` matters only there.
* In hiredis: subscriptions, MONITOR, push replies, `redisAsyncFree` and timeouts,
  none of which `async.c` uses; parsing and formatting; `async.c` with no commands.
* NULL columns in the cache script.
* The transaction scripts: they are statements typed by hand into two sessions, and
  all that happens between them is InnoDB's locking and its read views, none of which
  is in the repository; a model would be of InnoDB.
* `sync.c`, the SQL exercises and dumps: nothing happens in them that could happen
  otherwise.
* The libevent demonstrations are thin callbacks on bufferevents; libevent and the
  rest of hiredis are vendored.  They are nearly all of the repository's C lines, which
  is why the definitions map to a small share of them although evnet, the nginx
  modules and the script are covered.  `src/practice/evnet_hw` is a reformatted copy
  of evnet.
* The other chapters hold notes and slides only.

## 9. What could come next

Every component with behaviour of its own is modelled, and every safety property is
proved.  Three things would go further: that the queue of `Timer` makes steps of
`TimerQueue`, as a refinement; that each loop of the tree ends, by a measure
that every round lowers (`under` gives one for the descents and walks, the distance to the
root one for the two re-balancings); and a server whose rings are those of `RingBuf`
instead of FIFOs of lines, to follow what finding 1 does to a connection.
