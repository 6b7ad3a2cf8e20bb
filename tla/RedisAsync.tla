----------------------------- MODULE RedisAsync -----------------------------
(***************************************************************************)
(* evnet/async.c: a client that pipelines Num INCR commands through a      *)
(* hiredis asynchronous context, which adapter_evnet.h hooks to the        *)
(* reactor; with the Redis server and the kernel between them.             *)
(*                                                                         *)
(* Data: the k-th command is the number k, and so is its reply.  A socket  *)
(* buffer is counted in whole commands and replies.  What hi_malloc leaves *)
(* in the fields redisAttach does not set is chosen from Heap.             *)
(***************************************************************************)
EXTENDS Naturals, Sequences

CONSTANTS Num,        \* argv[1]: how many commands are issued
          SndCap,     \* commands the kernel buffers towards the server
          MayReset,   \* may the server reset the connection?
          Heap,       \* what uninitialised pointers may be: "null", "garbage"
          NoReply     \* the NULL reply

ASSUME AsyncAssumption ==
    /\ Num \in Nat /\ SndCap \in Nat \ {0}
    /\ MayReset \in BOOLEAN
    /\ Heap \subseteq {"null", "garbage"}
    /\ NoReply \notin Nat

VARIABLES
    \* kernel and server
    conn,       \* "connecting", "up", "refused", "fin" (server closed), "rst",
                \* "gone" (reset after the server closed)
    wire,       \* commands sent and not yet executed
    inbox,      \* replies in the client's receive buffer
    \* adapter_evnet.h
    ad,         \* the redis_event_t: its fields, its registration in epoll,
                \* whether it is allocated, and what went wrong with it
    \* the redisAsyncContext
    ctx,        \* "live" or "freed"
    flags,      \* c->flags, of {"CONNECTED", "DISCONNECTING"}
    err,        \* c->err /= 0
    obuf,       \* commands not yet written
    reader,     \* replies read and not yet handed out
    replies,    \* ac->replies: commands whose callbacks are pending
    \* async.c
    issued,     \* the for loop's i
    cnt,
    called,     \* the callbacks run, with what they were given
    stop,       \* r->stop
    \* the thread
    pc,         \* "setup", "issue", "loop", "read" and "write" (read_fn and
                \* write_fn are next), "process", "done", "crash"
    mask        \* the fired mask

net     == <<conn, wire, inbox>>
context == <<ctx, flags, err, obuf, reader, replies>>
main    == <<issued, cnt, called, stop>>
vars    == <<net, ad, context, main, pc, mask>>
-----------------------------------------------------------------------------
(* The adapter, as operations on its redis_event_t. *)

\* redisAttach leaves read_fn, write_fn and the rings of the event as they are.
Attached(junk) ==
    [mask |-> {}, added |-> FALSE, reg |-> {}, read_fn |-> junk, write_fn |-> junk,
     ring |-> junk, live |-> TRUE, faults |-> {}]

\* del_event: epoll forgets it, and rb_free frees what the rings point to.
del_event(a) ==
    [a EXCEPT !.added = FALSE, !.reg = {}, !.ring = "null",
              !.faults = IF a.ring = "garbage" THEN @ \cup {"free"} ELSE @]

\* redisEventUpdate.  enable_event replaces what epoll watches for by the one
\* flag that was added, or by nothing when one of two was removed.
redisEventUpdate(a, flag, remove) ==
    LET m == IF remove THEN a.mask \ {flag} ELSE a.mask \cup {flag}
        b == [a EXCEPT !.mask = m]
    IN  IF m = a.mask THEN a
        ELSE IF m = {} THEN del_event(b)
        ELSE IF a.mask = {} THEN [b EXCEPT !.added = TRUE, !.reg = m]
        ELSE [b EXCEPT !.reg = IF remove THEN {} ELSE {flag}]

redisAddRead(a)  == redisEventUpdate([a EXCEPT !.read_fn = "handler"], "in", FALSE)
redisAddWrite(a) == redisEventUpdate([a EXCEPT !.write_fn = "handler"], "out", FALSE)

\* Mutant: the handler is left in place.
DelWriteKeepsHandler(a) == redisEventUpdate(a, "out", TRUE)

redisDelWrite(a) == redisEventUpdate([a EXCEPT !.write_fn = "null"], "out", TRUE)
redisCleanup(a)  == [del_event(a) EXCEPT !.live = FALSE]
-----------------------------------------------------------------------------
Init == /\ conn = "connecting" /\ wire = <<>> /\ inbox = <<>>
        /\ ad \in {Attached(junk) : junk \in Heap}
        /\ ctx = "live" /\ flags = {} /\ err = FALSE
        /\ obuf = <<>> /\ reader = <<>> /\ replies = <<>>
        /\ issued = 0 /\ cnt = 0 /\ called = <<>> /\ stop = FALSE
        /\ pc = "setup" /\ mask = {}

(* The network and the server, which answers commands in order. *)

Handshake == /\ conn = "connecting"
             /\ conn' \in {"up", "refused"}
             /\ UNCHANGED <<wire, inbox, ad, context, main, pc, mask>>

Execute == /\ conn = "up"
           /\ wire /= <<>>
           /\ inbox' = Append(inbox, Head(wire))
           /\ wire' = Tail(wire)
           /\ UNCHANGED <<conn, ad, context, main, pc, mask>>

HangUp == /\ \/ conn = "up" /\ conn' = "fin"
             \/ MayReset /\ conn = "up" /\ conn' = "rst"
             \/ MayReset /\ conn = "fin" /\ conn' = "gone"
          /\ UNCHANGED <<wire, inbox, ad, context, main, pc, mask>>
-----------------------------------------------------------------------------
Reset == conn \in {"rst", "gone"}

(* main, up to the event loop. *)

\* redisAsyncSetConnectCallback schedules a write.
Setup == /\ pc = "setup"
         /\ ad' = redisAddWrite(ad)
         /\ pc' = "issue"
         /\ UNCHANGED <<net, context, main, mask>>

redisAsyncCommand ==
    /\ pc = "issue"
    /\ issued < Num
    /\ issued' = issued + 1
    /\ IF "DISCONNECTING" \in flags THEN UNCHANGED <<replies, obuf, ad>>
       ELSE /\ replies' = Append(replies, issued + 1)
            /\ obuf' = Append(obuf, issued + 1)
            /\ ad' = redisAddWrite(ad)
    /\ UNCHANGED <<net, ctx, flags, err, reader, cnt, called, stop, pc, mask>>

eventloop == /\ \/ pc = "issue" /\ issued = Num /\ pc' = "loop"
                \/ pc = "loop" /\ stop /\ pc' = "done"
             /\ UNCHANGED <<net, ad, context, main, mask>>
-----------------------------------------------------------------------------
(* eventloop_once: read_fn, then write_fn, of the one event there is. *)

\* An error or a hang-up counts as readable and writable.
Fired == IF ~ad.added THEN {}
         ELSE IF conn = "refused" \/ Reset THEN {"in", "out"}
         ELSE {i \in ad.reg : \/ i = "in" /\ (inbox /= <<>> \/ conn = "fin")
                              \/ i = "out" /\ conn \in {"up", "fin"} /\ Len(wire) < SndCap}

EpollWait == /\ pc = "loop" /\ ~stop
             /\ Fired /= {}
             /\ mask' = Fired
             /\ pc' = "read"
             /\ UNCHANGED <<net, ad, context, main>>

Return(p) == pc' = IF p = "write" THEN "loop" ELSE "write"

\* The callback the reactor is about to look at, and what it finds there.
Wanted == \/ pc = "read" /\ "in" \in mask
          \/ pc = "write" /\ "out" \in mask
Fn     == IF pc = "read" THEN ad.read_fn ELSE ad.write_fn
Runs   == Wanted /\ ad.live /\ Fn = "handler"

Skip == /\ pc \in {"read", "write"}
        /\ ~Wanted \/ (ad.live /\ Fn = "null")
        /\ Return(pc)
        /\ UNCHANGED <<net, ad, context, main, mask>>

\* A function pointer nobody has set.
WildCall == /\ Wanted /\ ad.live /\ Fn = "garbage"
            /\ ad' = [ad EXCEPT !.faults = @ \cup {"call"}]
            /\ pc' = "crash"
            /\ UNCHANGED <<net, context, main, mask>>

\* read_fn has freed the event: its write_fn is read from freed memory.
StaleEvent == /\ Wanted /\ ~ad.live
              /\ ad' = [ad EXCEPT !.faults = @ \cup {"stale"}]
              /\ Return(pc)
              /\ UNCHANGED <<net, context, main, mask>>

\* After a free of a stray pointer, or a use of freed memory, the process may
\* crash instead of going on.
Crash == /\ ad.faults /= {}
         /\ pc \notin {"done", "crash"}
         /\ pc' = "crash"
         /\ UNCHANGED <<net, ad, context, main, mask>>
-----------------------------------------------------------------------------
(* The end of a context. *)

Null(cmds) == [i \in 1..Len(cmds) |-> [cmd |-> cmds[i], reply |-> NoReply]]

\* Mutant: the callbacks still pending are dropped.
FreeDropsCallbacks ==
    /\ called' = called
    /\ replies' = <<>>
    /\ ad' = redisCleanup(ad)
    /\ stop' = (stop \/ "CONNECTED" \in flags)
    /\ ctx' = "freed"

\* Mutant: disconnectCallback leaves the loop running.
FreeKeepsLooping ==
    /\ called' = called \o Null(replies)
    /\ replies' = <<>>
    /\ ad' = redisCleanup(ad)
    /\ stop' = stop
    /\ ctx' = "freed"

\* __redisAsyncFree, onDisconnect and redisFree included: pending callbacks get
\* a NULL reply, and disconnectCallback, which runs only if the connection was
\* made, stops the loop.
__redisAsyncFree ==
    /\ called' = called \o Null(replies)
    /\ replies' = <<>>
    /\ ad' = redisCleanup(ad)
    /\ stop' = (stop \/ "CONNECTED" \in flags)
    /\ ctx' = "freed"

\* A context without an error must have no callback pending: an assertion.
__redisAsyncDisconnect(error) ==
    /\ err' = error
    /\ IF ~error /\ replies /= <<>>
       THEN pc' = "abort" /\ UNCHANGED <<called, replies, ad, stop, ctx, flags>>
       ELSE /\ __redisAsyncFree
            /\ flags' = IF error THEN flags \cup {"DISCONNECTING"} ELSE flags
            /\ Return(pc)

\* __redisAsyncHandleConnect, the first time a handler runs.
HandleConnect ==
    /\ Runs
    /\ "CONNECTED" \notin flags
    /\ conn /= "refused" /\ ~Reset
    /\ IF conn = "connecting" THEN Return(pc) /\ UNCHANGED flags
       ELSE flags' = flags \cup {"CONNECTED"} /\ UNCHANGED pc
    /\ UNCHANGED <<net, ad, ctx, err, obuf, reader, replies, main, mask>>

\* connect reports an error, or redisSetTcpNoDelay fails on a connection that is
\* made: connectCallback stops the loop, then the context is freed.
HandleConnectFailure ==
    /\ Runs
    /\ "CONNECTED" \notin flags
    /\ conn /= "connecting"
    /\ err' = TRUE
    /\ flags' = flags \cup {"DISCONNECTING"}
    /\ called' = called \o Null(replies)
    /\ replies' = <<>>
    /\ ad' = redisCleanup(ad)
    /\ stop' = TRUE
    /\ ctx' = "freed"
    /\ Return(pc)
    /\ UNCHANGED <<net, obuf, reader, issued, cnt, mask>>
-----------------------------------------------------------------------------
(* redisAsyncRead and redisProcessCallbacks. *)

\* One recv, of some of the replies that have arrived.
redisAsyncRead ==
    /\ pc = "read" /\ Runs
    /\ "CONNECTED" \in flags
    /\ inbox /= <<>> \/ ~(conn = "fin" \/ Reset)
    /\ \E k \in 0..Len(inbox) :
         /\ k = 0 => inbox = <<>>
         /\ reader' = reader \o SubSeq(inbox, 1, k)
         /\ inbox' = SubSeq(inbox, k + 1, Len(inbox))
    /\ ad' = redisAddRead(ad)
    /\ pc' = "process"
    /\ UNCHANGED <<conn, wire, ctx, flags, err, obuf, replies, main, mask>>

\* recv returns 0 or fails.
ReadError ==
    /\ pc = "read" /\ Runs
    /\ "CONNECTED" \in flags
    /\ inbox = <<>> /\ (conn = "fin" \/ Reset)
    /\ __redisAsyncDisconnect(TRUE)
    /\ UNCHANGED <<net, obuf, reader, issued, cnt, mask>>

\* Mutant: compares the count before it is incremented.
CountsLate(reply) ==
    /\ called' = Append(called, [cmd |-> Head(replies), reply |-> reply])
    /\ cnt' = cnt + 1
    /\ flags' = IF cnt = Num THEN flags \cup {"DISCONNECTING"} ELSE flags

\* getCallback on a reply: the last one asks for a disconnect, which
\* redisAsyncDisconnect defers because a callback is running.
getCallback(reply) ==
    /\ called' = Append(called, [cmd |-> Head(replies), reply |-> reply])
    /\ cnt' = cnt + 1
    /\ flags' = IF cnt + 1 = Num THEN flags \cup {"DISCONNECTING"} ELSE flags

\* A reply nobody waits for trips an assertion (no context here subscribes).
ProcessReply ==
    /\ pc = "process"
    /\ reader /= <<>>
    /\ IF replies = <<>>
       THEN pc' = "abort" /\ UNCHANGED <<called, cnt, flags, replies, reader>>
       ELSE /\ getCallback(Head(reader))
            /\ replies' = Tail(replies)
            /\ reader' = Tail(reader)
            /\ UNCHANGED pc
    /\ UNCHANGED <<net, ad, ctx, err, obuf, issued, stop, mask>>

\* Mutant: takes an empty output buffer for the end.
DrainedWhenWritten == obuf = <<>>

\* No reply is left: the cue to really disconnect.
Drained == "DISCONNECTING" \in flags /\ obuf = <<>> /\ replies = <<>>

ProcessEnd ==
    /\ pc = "process"
    /\ reader = <<>>
    /\ IF Drained THEN __redisAsyncDisconnect(err)
       ELSE Return(pc) /\ UNCHANGED <<called, replies, ad, stop, ctx, flags, err>>
    /\ UNCHANGED <<net, obuf, reader, issued, cnt, mask>>
-----------------------------------------------------------------------------
(* redisAsyncWrite. *)

Room == SndCap - Len(wire)

\* Mutant: ADD_READ before DEL_WRITE.
ReadThenWriteInterest ==
    /\ pc = "write" /\ Runs
    /\ "CONNECTED" \in flags
    /\ obuf = <<>> \/ (~Reset /\ Room > 0)
    /\ \E k \in 0..Len(obuf) :
           /\ k <= Room
           /\ k = 0 => obuf = <<>>
           /\ wire' = wire \o SubSeq(obuf, 1, k)
           /\ obuf' = SubSeq(obuf, k + 1, Len(obuf))
           /\ ad' = IF k < Len(obuf) THEN redisAddWrite(redisAddRead(ad))
                    ELSE redisDelWrite(redisAddRead(ad))
    /\ Return(pc)
    /\ UNCHANGED <<conn, inbox, ctx, flags, err, reader, replies, main, mask>>

\* Mutant: what the kernel did not take is discarded.
WriteDiscardsRest ==
    /\ pc = "write" /\ Runs
    /\ "CONNECTED" \in flags
    /\ obuf = <<>> \/ (~Reset /\ Room > 0)
    /\ \E k \in 0..Len(obuf) :
           /\ k <= Room
           /\ k = 0 => obuf = <<>>
           /\ wire' = wire \o SubSeq(obuf, 1, k)
    /\ obuf' = <<>>
    /\ ad' = redisAddRead(redisDelWrite(ad))
    /\ Return(pc)
    /\ UNCHANGED <<conn, inbox, ctx, flags, err, reader, replies, main, mask>>

\* One send, of as much of obuf as the kernel takes: it fills Room, or less, since
\* it counts memory and not commands.
redisAsyncWrite ==
    /\ pc = "write" /\ Runs
    /\ "CONNECTED" \in flags
    /\ obuf = <<>> \/ (~Reset /\ Room > 0)
    /\ \E k \in 0..Len(obuf) :
           /\ k <= Room
           /\ k = 0 => obuf = <<>>
           /\ wire' = wire \o SubSeq(obuf, 1, k)
           /\ obuf' = SubSeq(obuf, k + 1, Len(obuf))
           /\ ad' = redisAddRead(IF k < Len(obuf) THEN redisAddWrite(ad)
                                 ELSE redisDelWrite(ad))
    /\ Return(pc)
    /\ UNCHANGED <<conn, inbox, ctx, flags, err, reader, replies, main, mask>>

\* send fails, on a connection the server has reset before closing it.
\* redisNetWrite returns -1 also when send would block, and leaves c->err at 0
\* then.
WriteError ==
    /\ pc = "write" /\ Runs
    /\ "CONNECTED" \in flags
    /\ obuf /= <<>>
    /\ conn = "rst" \/ (~Reset /\ Room = 0)
    /\ __redisAsyncDisconnect(conn = "rst")
    /\ UNCHANGED <<net, obuf, reader, issued, cnt, mask>>

\* send with no flags, on a connection reset after its end of stream: SIGPIPE,
\* which nothing here ignores, ends the process.
Sigpipe ==
    /\ pc = "write" /\ Runs
    /\ "CONNECTED" \in flags
    /\ obuf /= <<>> /\ conn = "gone"
    /\ pc' = "crash"
    /\ UNCHANGED <<net, ad, context, main, mask>>
-----------------------------------------------------------------------------
Client == \/ Setup \/ redisAsyncCommand \/ eventloop \/ EpollWait
          \/ Skip \/ WildCall \/ StaleEvent
          \/ HandleConnect \/ HandleConnectFailure
          \/ redisAsyncRead \/ ReadError \/ ProcessReply \/ ProcessEnd
          \/ redisAsyncWrite \/ WriteError \/ Sigpipe

Next == Client \/ Crash \/ Handshake \/ Execute \/ HangUp

Spec == Init /\ [][Next]_vars

\* The thread runs, the handshake ends and the server executes what it is sent.
FairSpec == Spec /\ WF_vars(Client) /\ WF_vars(Handshake) /\ WF_vars(Execute)
-----------------------------------------------------------------------------
(* Properties. *)

RedisEvents ==
    [mask : SUBSET {"in", "out"}, added : BOOLEAN, reg : SUBSET {"in", "out"},
     read_fn : {"null", "garbage", "handler"}, write_fn : {"null", "garbage", "handler"},
     ring : {"null", "garbage"}, live : BOOLEAN, faults : SUBSET {"free", "call", "stale"}]

\* Every variable keeps its type.
TypeOK ==
    /\ conn \in {"connecting", "up", "refused", "fin", "rst", "gone"}
    /\ wire \in Seq(1..Num) /\ Len(wire) <= SndCap
    /\ inbox \in Seq(1..Num)
    /\ ad \in RedisEvents
    /\ ctx \in {"live", "freed"}
    /\ flags \subseteq {"CONNECTED", "DISCONNECTING"}
    /\ err \in BOOLEAN
    /\ obuf \in Seq(1..Num) /\ reader \in Seq(1..Num) /\ replies \in Seq(1..Num)
    /\ issued \in 0..Num /\ cnt \in 0..Num
    /\ called \in Seq([cmd : 1..Num, reply : (1..Num) \cup {NoReply}])
    /\ stop \in BOOLEAN
    /\ pc \in {"setup", "issue", "loop", "read", "process", "write", "done", "crash", "abort"}
    /\ mask \subseteq {"in", "out"}

\* The pending callbacks are those of the replies read, the replies arrived, the
\* commands sent and the commands queued, in this order and nothing else: it is
\* only by position that a reply finds its callback (async.c:542).
RepliesMatch == ctx = "live" => replies = reader \o inbox \o wire \o obuf

Promise == INSTANCE Pipeline WITH
    pending <- replies,
    ended <- IF ctx = "live" THEN "no" ELSE IF err THEN "error" ELSE "clean"

\* The context keeps hiredis's promise, whatever the connection does: each
\* callback once, in order, with its own reply, and NULL for the rest when the
\* context fails (hiredis/README.md:372-388).
KeepsPromise == Promise!Spec

\* Neither assertion of the context's life cycle is reached: no reply without a
\* callback, no clean disconnect with callbacks pending (async.c:379-380, 566).
\* The second would be reached by a send that blocks (net.c:85-92).
NoAbort == pc /= "abort"

\* The loop is stopped exactly when the context is gone: by connectCallback if
\* the connection was never made, else by disconnectCallback (async.c:37-60).
StoppedWhenFreed == stop <=> ctx = "freed"

\* Once connected, the loop never waits without watching for replies: the
\* order DEL_WRITE, ADD_READ re-registers the event (async.c:665-671).
ListensForReplies ==
    (pc = "loop" /\ ctx = "live" /\ "CONNECTED" \in flags) => "in" \in ad.reg

Handling == {"read", "process", "write"}

\* The adapter's event lives as long as the context, and handlers of a context
\* run only on a live, connected one.
LifeCycle ==
    /\ ad.live <=> ctx = "live"
    /\ err => ctx = "freed"
    /\ pc \in {"setup", "issue"} => ctx = "live" /\ flags = {}
    /\ pc = "process" => ctx = "live" /\ "CONNECTED" \in flags

\* Each command issued has had its callback or has it pending.
Counted == ctx = "live" => cnt = Len(called) /\ Len(called) + Len(replies) = issued

\* Nothing is sent before the connection is made.
Link == conn \in {"connecting", "refused"} => wire = <<>> /\ "CONNECTED" \notin flags

\* A socket fired as writable still is when its handler runs, unless it was reset.
OutReady == (pc \in Handling /\ "out" \in mask /\ ~Reset) => Len(wire) < SndCap

\* What the adapter believes it watches and what it watches: they part after a
\* short write, for good, and then only a reset fires the write handler.
Interest ==
    ctx = "live" =>
        /\ pc = "setup" => ad.mask = {}
        /\ ad.mask = {} => pc \in {"setup", "crash"}
        /\ ad.mask = {"out"} => /\ ad.reg = {"out"}
                                /\ ad.write_fn = "handler"
                                /\ "CONNECTED" \in flags =>
                                     \/ pc = "write" /\ "out" \in mask
                                     \/ pc = "crash"
        /\ "in" \notin ad.mask => ad.read_fn /= "handler"
        /\ "in" \in ad.mask => /\ ad.reg = {"in"}
                               /\ "CONNECTED" \in flags
                               /\ pc \in Handling /\ "out" \in mask => Reset
        /\ ad.mask = {"in"} => ad.write_fn = "null"
        /\ ad.mask = {"in", "out"} => obuf /= <<>>

\* The inductive invariant of the context and its adapter.
ContextInv == /\ TypeOK /\ RepliesMatch /\ NoAbort /\ StoppedWhenFreed
              /\ LifeCycle /\ Counted /\ Link /\ OutReady /\ Interest

\* A short write has left the adapter with a mask that epoll does not have.
ShortWrite == ad.mask = {"in", "out"}

\* The loop ends, or the process has crashed, if the kernel takes all commands in
\* one send: whether the connection is refused, closed, reset or kept
\* (async.c:14-60).
Finishes == [](~ShortWrite) => <>(pc \in {"done", "crash"})

\* "Always schedule a write when the write buffer is non-empty" (async.c:814):
\* while commands wait in obuf, the loop waits for EPOLLOUT.
WriteScheduled == (pc = "loop" /\ ctx = "live" /\ obuf /= <<>>) => "out" \in ad.reg

\* "cleanup event library on disconnect" (async.c:387): after the clean-up the
\* reactor does not use the event again.
NoStaleEvent == "stale" \notin ad.faults
=============================================================================
