----------------------------- MODULE EchoServer -----------------------------
(***************************************************************************)
(* evnet/server.c on evnet/reactor.h: a single-threaded reactor that       *)
(* echoes lines over level-triggered, non-blocking sockets, with the       *)
(* clients and the kernel it talks to.                                     *)
(*                                                                         *)
(* Data: the k-th line a client sends is the number k.  Its echo is the    *)
(* line and the NUL byte server.c:10 sends after it, the units 2k-1 and    *)
(* 2k.  The rings of an event are the FIFOs RingBuf implements, counted in *)
(* lines (in) and units (out).  The server and its clients interleave at   *)
(* each system call.                                                       *)
(*                                                                         *)
(* Lines arrive whole: a read(2) returns whole lines, and what rb_write    *)
(* takes or refuses of them is whole lines too.  read_socket itself reads  *)
(* 1024 bytes at any boundary (reactor.h:223-244), so this is a condition  *)
(* on the clients: lines of one length that divides 1024, each sent in one *)
(* segment, meet it.  Of a line that a read cuts in two, half of which a   *)
(* ring may refuse, this module says nothing.                              *)
(***************************************************************************)
EXTENDS Naturals, Sequences, FiniteSets

CONSTANTS Conns,      \* the connections clients may open
          Lines,      \* how many lines a client sends on one
          Window,     \* how many echoes a client lets be outstanding
          ReadMax,    \* lines in one 1024-byte read
          InCap,      \* lines e->in holds
          OutCap,     \* units e->out holds
          SndCap,     \* units the kernel buffers towards a client
          MAX_CONN    \* the size of r->events, one less than a power of two

ASSUME EchoAssumption ==
    /\ Lines \in Nat /\ Window \in Nat \ {0}
    /\ ReadMax \in Nat \ {0} /\ InCap \in Nat \ {0} /\ SndCap \in Nat \ {0}
    /\ OutCap \in Nat /\ OutCap >= 2
    /\ MAX_CONN \in Nat \ {0, 1}
    /\ "listen" \notin Conns

VARIABLES
    \* kernel and clients
    peer,       \* peer[c]: "idle", "up", "fin" (sent FIN), "rst" (reset), "gone"
                \* (reset after its FIN)
    queue,      \* connections waiting in the listen queue
    sent,       \* sent[c]: lines the client has sent
    rx,         \* rx[c]: lines in the server's receive buffer
    tx,         \* tx[c]: units on their way to the client
    got,        \* got[c]: units the client has read
    \* the server's events
    status,     \* status[c]: "none", "open", "closed"
    interest,   \* interest[c]: what epoll watches for, of {"in", "out"}
    in,         \* in[c]: e->in
    out,        \* out[c]: e->out
    slot,       \* slot[c]: the index of its event in r->events
    iter,       \* r->iter
    \* the event loop
    pc,         \* "wait" (in epoll_wait), "fire" (between two fired events),
                \* "read", "reply", "write" (in a callback of cur), "dead"
    fire,       \* the events epoll_wait returned, not yet handled
    cur,        \* the one being handled
    num,        \* read_socket's num > 0
    \* history
    torn,       \* closed events whose freed out ring has a moved read_pos
    late,       \* connections written to after their close
    dropped     \* connections on which a ring refused bytes

client == <<peer, queue, sent, got>>
event  == <<status, interest, in, out, torn>>
loop   == <<pc, fire, cur, num>>
vars   == <<peer, queue, sent, rx, tx, got, status, interest, in, out, slot, iter,
            pc, fire, cur, num, torn, late, dropped>>

NoEvent == [et |-> "none", mask |-> {}]

Listener == 1   \* create_server's event takes the first slot

Init == /\ peer = [c \in Conns |-> "idle"]
        /\ queue = <<>>
        /\ sent = [c \in Conns |-> 0]
        /\ rx = [c \in Conns |-> <<>>]
        /\ tx = [c \in Conns |-> <<>>]
        /\ got = [c \in Conns |-> <<>>]
        /\ status = [c \in Conns |-> "none"]
        /\ interest = [c \in Conns |-> {}]
        /\ in = [c \in Conns |-> <<>>]
        /\ out = [c \in Conns |-> <<>>]
        /\ slot = [c \in Conns |-> 0]
        /\ iter = Listener
        /\ pc = "wait"
        /\ fire = {}
        /\ cur = NoEvent
        /\ num = FALSE
        /\ torn = {}
        /\ late = {}
        /\ dropped = {}
-----------------------------------------------------------------------------
(* Clients. *)

Connect(c) == /\ peer[c] = "idle"
              /\ peer' = [peer EXCEPT ![c] = "up"]
              /\ queue' = Append(queue, c)
              /\ UNCHANGED <<sent, rx, tx, got, event, slot, iter, loop, late, dropped>>

\* Echoed lines the client has seen.
Seen(c) == (Len(got[c]) + 1) \div 2

Send(c) == /\ peer[c] = "up"
           /\ sent[c] < Lines
           /\ sent[c] - Seen(c) < Window
           /\ sent' = [sent EXCEPT ![c] = @ + 1]
           /\ rx' = [rx EXCEPT ![c] = Append(@, sent[c] + 1)]
           /\ UNCHANGED <<peer, queue, tx, got, event, slot, iter, loop, late, dropped>>

Recv(c) == /\ peer[c] \in {"up", "fin"}
           /\ tx[c] /= <<>>
           /\ got' = [got EXCEPT ![c] = Append(@, Head(tx[c]))]
           /\ tx' = [tx EXCEPT ![c] = Tail(@)]
           /\ UNCHANGED <<peer, queue, sent, rx, event, slot, iter, loop, late, dropped>>

Fin(c) == /\ peer[c] = "up"
          /\ peer' = [peer EXCEPT ![c] = "fin"]
          /\ UNCHANGED <<queue, sent, rx, tx, got, event, slot, iter, loop, late, dropped>>

Reset(c) == /\ peer[c] \in {"up", "fin"}
            /\ status[c] /= "closed"
            /\ peer' = [peer EXCEPT ![c] = IF @ = "up" THEN "rst" ELSE "gone"]
            /\ UNCHANGED <<queue, sent, rx, tx, got, event, slot, iter, loop, late, dropped>>
-----------------------------------------------------------------------------
(* eventloop_once. *)

Broken(c) == peer[c] \in {"rst", "gone"}
Room(c) == SndCap - Len(tx[c])

\* Mutant: del_event leaves the descriptor in epoll.
MaskKeepsClosed(c) ==
    IF status[c] = "none" THEN {}
    ELSE IF Broken(c) THEN {"in", "out"}
    ELSE {i \in interest[c] : \/ i = "in" /\ (rx[c] /= <<>> \/ peer[c] = "fin")
                              \/ i = "out" /\ Room(c) > 0}

\* Mutant: the end of a stream does not count as readable.
MaskIgnoresEnd(c) ==
    IF status[c] /= "open" THEN {}
    ELSE IF Broken(c) THEN {"in", "out"}
    ELSE {i \in interest[c] : \/ i = "in" /\ rx[c] /= <<>>
                              \/ i = "out" /\ Room(c) > 0}

\* What epoll_wait reports for c, with eventloop_once's widening: an error or a
\* hang-up counts as readable and writable.
Mask(c) ==
    IF status[c] /= "open" THEN {}
    ELSE IF Broken(c) THEN {"in", "out"}
    ELSE {i \in interest[c] : \/ i = "in" /\ (rx[c] /= <<>> \/ peer[c] = "fin")
                              \/ i = "out" /\ Room(c) > 0}

\* A fired event: a connection with its mask, or the listening socket.
Accepting == [et |-> "listen", mask |-> {"in"}]
Ready == {[et |-> c, mask |-> Mask(c)] : c \in {d \in Conns : Mask(d) /= {}}}
         \cup (IF queue = <<>> THEN {} ELSE {Accepting})

EpollWait == /\ pc = "wait"
             /\ Ready /= {}
             /\ fire' = Ready
             /\ pc' = "fire"
             /\ UNCHANGED <<client, rx, tx, event, slot, iter, cur, num, late, dropped>>

\* The fired events come in any order, each with the mask it was fired with.
Dispatch == /\ pc = "fire"
            /\ \E e \in fire \ {Accepting} :
                 /\ cur' = e
                 /\ fire' = fire \ {e}
                 /\ pc' = IF "in" \in e.mask THEN "read" ELSE "write"
            /\ UNCHANGED <<client, rx, tx, event, slot, iter, num, late, dropped>>

Current == cur.et

\* An event has been handled; rest are the others.
Continue(rest) == /\ fire' = rest
                  /\ pc' = IF rest = {} THEN "wait" ELSE "fire"
                  /\ cur' = NoEvent
                  /\ num' = FALSE
Done == Continue(fire)

\* read_fn has returned: write_fn runs on the same event if its mask says so.
ReadDone == IF "out" \in cur.mask
            THEN pc' = "write" /\ num' = FALSE /\ UNCHANGED <<fire, cur>>
            ELSE Done
-----------------------------------------------------------------------------
(* The accept callback. *)

\* The entry that the search of _get_event_t looks at: the last index the mask
\* lets through is one past the table, where it may find anything.
Masked(i) == i % (MAX_CONN + 1)
Taken(i)  == Masked(i) \in {slot[c] : c \in {d \in Conns : status[d] /= "none"}} \cup {Listener}

\* Mutant: do ... while, after the first increment.
NextSlotDoWhile(i) == /\ i > iter + 1 /\ (~Taken(i) \/ Masked(i) = MAX_CONN)
                      /\ \A j \in (iter + 2)..(i - 1) : Taken(j) \/ Masked(j) = MAX_CONN

\* The index is tested masked and returned unmasked.  A closed event's fd stays
\* positive, so that its entry is never taken again.
NextSlot(i) == /\ ~Taken(i) \/ Masked(i) = MAX_CONN
               /\ \A j \in (iter + 1)..(i - 1) : Taken(j) \/ Masked(j) = MAX_CONN

InTable(i) == i < MAX_CONN

Accept == /\ pc = "fire"
          /\ Accepting \in fire
          /\ LET c == Head(queue)
             IN  /\ queue' = Tail(queue)
                 /\ \E i \in (iter + 1)..(iter + 1 + MAX_CONN) :
                      NextSlot(i) /\ iter' = i /\ slot' = [slot EXCEPT ![c] = i]
                 /\ status' = [status EXCEPT ![c] = "open"]
                 /\ interest' = [interest EXCEPT ![c] = {"in"}]
          /\ Continue(fire \ {Accepting})
          /\ UNCHANGED <<peer, sent, rx, tx, got, in, out, torn, late, dropped>>

Die == /\ pc' = "dead"
       /\ UNCHANGED <<client, rx, tx, event, slot, iter, fire, cur, num, late, dropped>>

\* The event lies outside the table: writing it there ends the process, or, in
\* Accept, does not.
AcceptOverrun == /\ pc = "fire"
                 /\ Accepting \in fire
                 /\ \E i \in (iter + 1)..(iter + 1 + MAX_CONN) : NextSlot(i) /\ ~InTable(i)
                 /\ Die

\* accept(2) fails; the connection stays queued.
AcceptFail == /\ pc = "fire"
              /\ Accepting \in fire
              /\ Continue(fire \ {Accepting})
              /\ UNCHANGED <<client, rx, tx, event, slot, iter, late, dropped>>
-----------------------------------------------------------------------------
(* The read callback: read_socket, then readline and write_socket. *)

\* Mutant: free_event frees the in ring only.
CloseKeepsOut(c) == /\ status' = [status EXCEPT ![c] = "closed"]
                    /\ interest' = [interest EXCEPT ![c] = {}]
                    /\ in' = [in EXCEPT ![c] = <<>>]
                    /\ UNCHANGED out

\* del_event and close: epoll forgets the event, both rings are freed.
CloseEvent(c) == /\ status' = [status EXCEPT ![c] = "closed"]
                 /\ interest' = [interest EXCEPT ![c] = {}]
                 /\ in' = [in EXCEPT ![c] = <<>>]
                 /\ out' = [out EXCEPT ![c] = <<>>]

\* Mutant: a ring never filled to the last byte.
FitsStrictly(q, s, cap) == Len(q) + Len(s) < cap

\* rb_write's test, on a FIFO of capacity cap.
Fits(q, s, cap) == Len(q) + Len(s) <= cap

\* Mutant: as much of s as fits.
PutPart(q, s, cap) == IF Fits(q, s, cap) THEN q \o s ELSE q \o SubSeq(s, 1, cap - Len(q))

\* rb_write: all of s or nothing.
Put(q, s, cap) == IF Fits(q, s, cap) THEN q \o s ELSE q
Refused(q, s, cap, c) == IF Fits(q, s, cap) THEN {} ELSE {c}

\* One read(2) that returns lines, none of them cut.
ReadChunk ==
    /\ pc = "read"
    /\ LET c == Current
           k == IF Len(rx[c]) < ReadMax THEN Len(rx[c]) ELSE ReadMax
           chunk == SubSeq(rx[c], 1, k)
       IN  /\ rx[c] /= <<>>
           /\ rx' = [rx EXCEPT ![c] = SubSeq(@, k + 1, Len(@))]
           /\ in' = [in EXCEPT ![c] = Put(@, chunk, InCap)]
           /\ dropped' = dropped \cup Refused(in[c], chunk, InCap, c)
    /\ num' = TRUE
    /\ UNCHANGED <<client, tx, status, interest, out, slot, iter, pc, fire, cur, torn, late>>

\* read(2) returns 0 or fails: the event is freed and closed, whatever its
\* rings hold, and read_socket returns 0.
ReadClose ==
    /\ pc = "read"
    /\ rx[Current] = <<>>
    /\ peer[Current] \in {"fin", "rst", "gone"}
    /\ CloseEvent(Current)
    /\ ReadDone
    /\ UNCHANGED <<client, rx, tx, slot, iter, torn, late, dropped>>

\* read(2) would block: if lines were read, one of them is echoed next.
ReadAgain ==
    /\ pc = "read"
    /\ rx[Current] = <<>>
    /\ peer[Current] = "up"
    /\ IF num THEN pc' = "reply" /\ UNCHANGED <<fire, cur, num>> ELSE ReadDone
    /\ UNCHANGED <<client, rx, tx, event, slot, iter, late, dropped>>

Echo(k) == <<2 * k - 1, 2 * k>>

Queue(c, q, s) == /\ out' = [out EXCEPT ![c] = Put(q, s, OutCap)]
                  /\ dropped' = dropped \cup Refused(q, s, OutCap, c)

\* What write(2) takes of s: as much as the kernel has room for.
Accepted(c, s) == IF Room(c) < Len(s) THEN Room(c) ELSE Len(s)

\* Mutant: EPOLLOUT is not asked for after a short write.
WriteWithoutInterest(c, reply) ==
    IF out[c] /= <<>>
    THEN Queue(c, out[c], reply) /\ UNCHANGED <<tx, status, interest>>
    ELSE LET w    == Accepted(c, reply)
             rest == SubSeq(reply, w + 1, Len(reply))
         IN  /\ tx' = [tx EXCEPT ![c] = @ \o SubSeq(reply, 1, w)]
             /\ Queue(c, <<>>, rest)
             /\ UNCHANGED <<status, interest>>

\* Mutant: written at once whatever is queued.
WritePastBacklog(c, reply) ==
    LET w    == Accepted(c, reply)
        rest == SubSeq(reply, w + 1, Len(reply))
    IN  /\ tx' = [tx EXCEPT ![c] = @ \o SubSeq(reply, 1, w)]
        /\ Queue(c, out[c], rest)
        /\ interest' = IF rest = <<>> THEN interest
                       ELSE [interest EXCEPT ![c] = {"in", "out"}]
        /\ UNCHANGED status

\* Written at once while nothing is queued, else put behind what is.
write_socket(c, reply) ==
    IF out[c] /= <<>>
    THEN Queue(c, out[c], reply) /\ UNCHANGED <<tx, status, interest>>
    ELSE LET w    == Accepted(c, reply)
             rest == SubSeq(reply, w + 1, Len(reply))
         IN  /\ tx' = [tx EXCEPT ![c] = @ \o SubSeq(reply, 1, w)]
             /\ Queue(c, <<>>, rest)
             /\ interest' = IF rest = <<>> THEN interest
                            ELSE [interest EXCEPT ![c] = {"in", "out"}]
             /\ UNCHANGED status

\* readline finds nothing: every chunk of this round was refused.
ReplyNothing ==
    /\ pc = "reply"
    /\ in[Current] = <<>>
    /\ ReadDone
    /\ UNCHANGED <<client, rx, tx, event, slot, iter, late, dropped>>

Reply ==
    /\ pc = "reply"
    /\ in[Current] /= <<>>
    /\ ~Broken(Current) \/ out[Current] /= <<>>
    /\ in' = [in EXCEPT ![Current] = Tail(@)]
    /\ write_socket(Current, Echo(Head(in[Current])))
    /\ ReadDone
    /\ UNCHANGED <<client, rx, slot, iter, torn, late>>

\* write(2) fails: write_socket_ closes the event; putting the line into the
\* freed ring and asking epoll for it again both fail.
ReplyError ==
    /\ pc = "reply"
    /\ in[Current] /= <<>>
    /\ peer[Current] = "rst" /\ out[Current] = <<>>
    /\ CloseEvent(Current)
    /\ ReadDone
    /\ UNCHANGED <<client, rx, tx, slot, iter, torn, late, dropped>>
-----------------------------------------------------------------------------
(* The write callback: flush_socket.                                       *)

Backlogged(c) == out[c] /= <<>> \/ c \in torn

WriteNothing ==
    /\ pc = "write"
    /\ ~Backlogged(Current)
    /\ Done
    /\ UNCHANGED <<client, rx, tx, event, slot, iter, late, dropped>>

\* Mutant: the ring is cleared after a short write.
FlushClears ==
    /\ pc = "write"
    /\ Backlogged(Current)
    /\ status[Current] = "open"
    /\ ~Broken(Current)
    /\ LET c == Current
           w == Accepted(c, out[c])
       IN  tx' = [tx EXCEPT ![c] = @ \o SubSeq(out[c], 1, w)]
    /\ out' = [out EXCEPT ![Current] = <<>>]
    /\ interest' = [interest EXCEPT ![Current] = {"in"}]
    /\ Done
    /\ UNCHANGED <<client, rx, status, in, slot, iter, torn, late, dropped>>

\* The backlog, as far as the kernel takes it; drained, it needs no EPOLLOUT.
Flush ==
    /\ pc = "write"
    /\ Backlogged(Current)
    /\ status[Current] = "open"
    /\ ~Broken(Current)
    /\ LET c == Current
           w == Accepted(c, out[c])
       IN  /\ tx' = [tx EXCEPT ![c] = @ \o SubSeq(out[c], 1, w)]
           /\ out' = [out EXCEPT ![c] = SubSeq(@, w + 1, Len(@))]
           /\ interest' = IF w = Len(out[c]) THEN [interest EXCEPT ![c] = {"in"}]
                          ELSE interest
    /\ Done
    /\ UNCHANGED <<client, rx, status, in, slot, iter, torn, late, dropped>>

\* write(2) fails: the event is closed and its ring freed, and flush_socket then
\* adds the -1 to the freed ring's read_pos.  A closed event that still looks
\* backlogged writes to a descriptor that is no longer its own.
FlushError ==
    /\ pc = "write"
    /\ Backlogged(Current)
    /\ status[Current] = "closed" \/ peer[Current] = "rst"
    /\ CloseEvent(Current)
    /\ torn' = torn \cup {Current}
    /\ late' = IF status[Current] = "closed" THEN late \cup {Current} ELSE late
    /\ Done
    /\ UNCHANGED <<client, rx, tx, slot, iter, dropped>>

\* write(2) to a connection that was reset after its FIN fails with EPIPE and
\* raises SIGPIPE, which nothing ignores.
Sigpipe ==
    /\ \/ pc = "reply" /\ in[Current] /= <<>> /\ out[Current] = <<>>
       \/ pc = "write" /\ Backlogged(Current) /\ status[Current] = "open"
    /\ peer[Current] = "gone"
    /\ Die
-----------------------------------------------------------------------------
ReadCallback == ReadChunk \/ ReadClose \/ ReadAgain \/ ReplyNothing \/ Reply \/ ReplyError
WriteCallback == WriteNothing \/ Flush \/ FlushError
Server == \/ EpollWait \/ Accept \/ AcceptOverrun \/ AcceptFail \/ Dispatch
          \/ ReadCallback \/ WriteCallback \/ Sigpipe

Next == \/ \E c \in Conns : Connect(c) \/ Send(c) \/ Recv(c) \/ Fin(c) \/ Reset(c)
        \/ Server

Spec == Init /\ [][Next]_vars

\* The server's thread runs, and a client reads what it is sent.
FairSpec == /\ Spec
            /\ WF_vars(Server)
            /\ \A c \in Conns : WF_vars(Recv(c))
-----------------------------------------------------------------------------
(* Properties. *)

Units == 1..(2 * Lines)
Fired == [et : Conns, mask : SUBSET {"in", "out"}] \cup {Accepting}

TypeOK == /\ peer \in [Conns -> {"idle", "up", "fin", "rst", "gone"}]
          /\ queue \in Seq(Conns)
          /\ sent \in [Conns -> 0..Lines]
          /\ rx \in [Conns -> Seq(1..Lines)]
          /\ tx \in [Conns -> Seq(Units)] /\ \A c \in Conns : Len(tx[c]) <= SndCap
          /\ got \in [Conns -> Seq(Units)]
          /\ status \in [Conns -> {"none", "open", "closed"}]
          /\ interest \in [Conns -> SUBSET {"in", "out"}]
          /\ in \in [Conns -> Seq(1..Lines)]
          /\ out \in [Conns -> Seq(Units)]
          /\ slot \in [Conns -> Nat]
          /\ iter \in Nat
          /\ pc \in {"wait", "fire", "read", "reply", "write", "dead"}
          /\ fire \subseteq Fired
          /\ cur \in Fired \cup {NoEvent}
          /\ num \in BOOLEAN
          /\ torn \subseteq Conns /\ late \subseteq Conns /\ dropped \subseteq Conns

\* A connection is queued before it is accepted, and only once; an event that
\* was never opened has empty rings and one that is closed keeps none.
EventsOK ==
    /\ \A c \in Conns : peer[c] = "idle" => status[c] = "none"
    /\ \A c \in Conns : status[c] /= "open" => out[c] = <<>>
    /\ \A i \in 1..Len(queue) : status[queue[i]] = "none" /\ peer[queue[i]] /= "idle"
    /\ \A i, j \in 1..Len(queue) : queue[i] = queue[j] => i = j

\* Of the events one epoll_wait returned, each connection has at most one, it
\* is handled once, and until then nothing has closed it: freeing an event in
\* its own callback leaves no stale pointer in the batch (reactor.h:132-157).
BatchOK ==
    /\ pc = "wait" => fire = {}
    /\ Accepting \in fire => queue /= <<>>
    /\ \A e, f \in fire : e.et = f.et => e = f
    /\ \A e \in fire \ {Accepting} : status[e.et] = "open"
    /\ pc \in {"read", "reply", "write"} =>
         /\ cur \in Fired \ {Accepting}
         /\ \A e \in fire : e.et /= cur.et
         /\ cur.et \notin torn
    /\ pc \in {"read", "reply"} => status[cur.et] = "open"
    /\ \A c \in torn : status[c] = "closed"

\* An open event asks for EPOLLOUT exactly while it has a backlog, so that a
\* backlog is always flushed and an idle socket never spins the loop
\* (reactor.h:293, 312, 323), whatever order its callbacks run in.
WriteInterestMatchesBacklog ==
    \A c \in Conns : status[c] = "open" =>
        /\ "in" \in interest[c]
        /\ "out" \in interest[c] <=> out[c] /= <<>>

\* No callback writes to a descriptor after its close, although eventloop_once
\* calls write_fn on an event read_fn has freed (reactor.h:150-157).
NoLateWrite == late = {}

\* The inductive invariant of the server: its types, its events, the batch
\* being dispatched (reactor.h:130-163) and the two properties above.
ServerInv == TypeOK /\ EventsOK /\ BatchOK /\ WriteInterestMatchesBacklog /\ NoLateWrite

\* The lines of a connection that wait to be echoed, the units of those that have
\* been, and the connections that have lost nothing, neither to a ring that refused
\* bytes nor to the end of the event.
waiting == [c \in Conns |-> in[c] \o rx[c]]
echoed  == [c \in Conns |-> got[c] \o tx[c] \o out[c]]
intact  == {c \in Conns : status[c] /= "closed" /\ c \notin dropped}

Channel == INSTANCE EchoChannel WITH seen <- [c \in Conns |-> Len(got[c])]

\* As long as lines arrive whole, each connection is a channel that echoes its lines
\* one by one, oldest first, and keeps what has reached the client: through short
\* writes, refused lines, batches and closes in every order.  A read that cuts a line
\* is outside this claim: where a ring refuses the rest of it, two halves are glued
\* together (reactor.h:225-343, server.c:5-12).
IsChannel == Channel!Spec

Ascending(s) == \A i, j \in 1..Len(s) : i < j => s[i] < s[j]

\* Of k lines sent, the lines w wait in order and are younger than the units e.
InOrder(e, w, k) ==
    /\ Ascending(e) /\ Ascending(w)
    /\ \A i \in 1..Len(e) : e[i] <= 2 * k /\ \A j \in 1..Len(w) : e[i] < 2 * w[j] - 1
    /\ \A j \in 1..Len(w) : w[j] <= k

\* Of k lines sent, exactly the last wait and the others have been echoed in full.
Complete(e, w, k) ==
    /\ Len(e) = 2 * (k - Len(w))
    /\ \A i \in 1..Len(e) : e[i] = i
    /\ \A i \in 1..Len(w) : w[i] = k - Len(w) + i

\* What the next two properties rest on: also where lines have been lost, those that
\* wait are younger than what has been echoed (reactor.h:225-253, 312-343).
PipeInv == \A c \in Conns :
    /\ InOrder(echoed[c], waiting[c], sent[c])
    /\ c \in intact => Complete(echoed[c], waiting[c], sent[c])

\* The connections accepted so far, those since closed included.
accepted == {c \in Conns : status[c] /= "none"}

\* While the table has room its entries are given out one after the other, and
\* what ends the process is a client that has reset an ended connection or the
\* accept that finds the table full (reactor.h:69-75, 255-272).
TableInv ==
    /\ IsFiniteSet(accepted)
    /\ Cardinality(accepted) <= MAX_CONN - 2 =>
         /\ iter = Listener + Cardinality(accepted)
         /\ \A c \in Conns : slot[c] <= iter
         /\ \A c \in accepted : slot[c] > Listener
         /\ \A c, d \in accepted : slot[c] = slot[d] => c = d
    /\ pc = "dead" => \/ Cardinality(accepted) >= MAX_CONN - 2
                      \/ \E c \in Conns : peer[c] = "gone"

\* The inductive invariant with the table of events and the lines under way.
EchoInv == ServerInv /\ TableInv /\ PipeInv

Increasing(s) == \A i \in 1..(Len(s) - 1) : s[i] < s[i + 1]

\* When lines arrive whole, what is on its way to a client is in their order and
\* nothing is echoed twice, even when a ring has refused some (reactor.h:244, 322, 329).
EchoInOrder == \A c \in Conns : Increasing(echoed[c])

\* When lines arrive whole, every line of an open connection is either echoed in full
\* or still waiting, in order and exactly once, unless a ring has refused one.
NothingLost ==
    \A c \in Conns : (status[c] = "open" /\ c \notin dropped) =>
        Complete(echoed[c], waiting[c], sent[c])

\* A client that waits for each echo before its next line never overfills a ring
\* (rb_write's all-or-nothing result is ignored at reactor.h:244, 322, 329).
NothingDropped == dropped = {}

\* Rings that hold what a client may have under way: Window lines to be read, or
\* their units and the one still missing of an echo the client has half read.
RoomForWindow == InCap >= Window /\ OutCap >= 2 * Window + 1

\* The server neither dies nor puts two events in one entry or one outside the
\* table, until a client resets a connection it has already ended, or MAX_CONN - 2
\* connections have been accepted, those since closed included (reactor.h:69-75, 258).
SurvivesItsClients ==
    (Cardinality(accepted) <= MAX_CONN - 2 /\ \A c \in Conns : peer[c] /= "gone") =>
        /\ pc /= "dead" \/ Cardinality(accepted) = MAX_CONN - 2
        /\ \A c \in accepted : slot[c] /= Listener /\ InTable(slot[c])
        /\ \A c, d \in accepted : slot[c] = slot[d] => c = d

\* A client that waits, and whose lines arrive whole, sees every line echoed, unless
\* its connection ends or the server dies: read_cb echoes one line for each readable
\* event (server.c:5-12).
EveryLineEchoed ==
    \A c \in Conns : \A k \in 1..Lines :
        (status[c] = "open" /\ sent[c] >= k)
            ~> (Len(got[c]) >= 2 * k \/ peer[c] /= "up" \/ pc = "dead")

\* An open connection whose client has ended it is closed by the server, by
\* whichever of its callbacks meets the end first, unless the server dies
\* (reactor.h:225-242, 255-272).
EndedIsClosed ==
    \A c \in Conns : (status[c] = "open" /\ peer[c] \in {"fin", "rst", "gone"})
        ~> (status[c] = "closed" \/ pc = "dead")
=============================================================================
