-------------------------- MODULE RedisAsyncProofs --------------------------
(***************************************************************************)
(* Proofs about RedisAsync, for any number of commands and any size of the *)
(* send buffer: the inductive invariant of the context and its adapter,    *)
(* what follows from it, and that the context keeps Pipeline's promise.    *)
(***************************************************************************)
EXTENDS RedisAsync, SequenceTheorems, TLAPS

(* Sequences: how a batch moves from one queue to the next. *)

\* Concatenation, under a name that the provers do not expand.
Cat(s, t) == s \o t

LEMMA Associative ==
    \A S : \A r, s, t \in Seq(S) : Cat(Cat(r, s), t) = Cat(r, Cat(s, t))
  BY ConcatAssociative DEF Cat

\* Taking the first element off a queue shortens what follows it by the same.
LEMMA HeadOfConcat ==
    ASSUME NEW S, NEW s \in Seq(S), NEW t \in Seq(S), s /= <<>>
    PROVE  /\ s \o t /= <<>>
           /\ Head(s \o t) = Head(s)
           /\ Tail(s \o t) = Tail(s) \o t
  <1>1. /\ Len(s) \in Nat \ {0} /\ Len(s \o t) = Len(s) + Len(t) /\ Len(t) \in Nat
        /\ s \o t \in Seq(S)
    BY EmptySeq, ConcatProperties
  <1>2. s \o t /= <<>>
    BY <1>1, EmptySeq
  <1>3. Head(s \o t) = Head(s)
    BY <1>1, <1>2, ConcatProperties
  <1>4. Tail(s) \in Seq(S) /\ Len(Tail(s)) = Len(s) - 1
    BY HeadTailProperties
  <1>5. Tail(s \o t) \in Seq(S) /\ Len(Tail(s \o t)) = Len(s) + Len(t) - 1
    BY <1>1, <1>2, HeadTailProperties
  <1>6. Tail(s) \o t \in Seq(S) /\ Len(Tail(s) \o t) = Len(s) + Len(t) - 1
    BY <1>1, <1>4, ConcatProperties
  <1>7. ASSUME NEW i \in 1..Len(Tail(s \o t))
        PROVE  Tail(s \o t)[i] = (Tail(s) \o t)[i]
    <2>1. Tail(s \o t)[i] = (s \o t)[i + 1] /\ i + 1 \in 1..(Len(s) + Len(t))
      BY <1>1, <1>2, <1>5, HeadTailProperties
    <2>2. (s \o t)[i + 1] = IF i + 1 <= Len(s) THEN s[i + 1] ELSE t[i + 1 - Len(s)]
      BY <2>1, ConcatProperties
    <2>3. (Tail(s) \o t)[i] = IF i <= Len(s) - 1 THEN Tail(s)[i] ELSE t[i - (Len(s) - 1)]
      BY <1>1, <1>4, <1>5, ConcatProperties
    <2>4. i <= Len(s) - 1 => Tail(s)[i] = s[i + 1]
      BY <1>1, <1>4, HeadTailProperties
    <2>5. i \in Nat /\ i + 1 - Len(s) = i - (Len(s) - 1)
      BY <1>1, <1>5
    <2> QED
      BY <2>1, <2>2, <2>3, <2>4, <2>5, <1>1
  <1>8. Tail(s \o t) = Tail(s) \o t
    BY <1>5, <1>6, <1>7, SeqEqual
  <1> QED
    BY <1>2, <1>3, <1>8

\* The element that leaves one queue joins the queue before it.
LEMMA MoveOne ==
    ASSUME NEW S, NEW s \in Seq(S), NEW t \in Seq(S), t /= <<>>
    PROVE  /\ Append(s, Head(t)) \in Seq(S)
           /\ Append(s, Head(t)) \o Tail(t) = s \o t
  <1>1. Head(t) \in S /\ Tail(t) \in Seq(S) /\ <<Head(t)>> \in Seq(S)
    BY HeadTailProperties
  <1>2. Append(s, Head(t)) = s \o <<Head(t)>>
    BY <1>1, AppendIsConcat
  <1>3. (s \o <<Head(t)>>) \o Tail(t) = s \o (<<Head(t)>> \o Tail(t))
    <2>1. \A e, u \in Seq(S) : Cat(Cat(s, e), u) = Cat(s, Cat(e, u))
      BY Associative
    <2> QED BY <1>1, <2>1, Zenon DEF Cat
  <1>4. <<Head(t)>> \o Tail(t) = t
    BY <1>1, HeadTailProperties, ConcatProperties, SeqEqual, EmptySeq
  <1> QED
    BY <1>1, <1>2, <1>3, <1>4, AppendProperties

\* The k first elements of one queue join the queue before it: types and lengths.
LEMMA SplitSome ==
    ASSUME NEW S, NEW s \in Seq(S), NEW t \in Seq(S), NEW k \in 0..Len(t)
    PROVE  /\ SubSeq(t, 1, k) \in Seq(S)
           /\ s \o SubSeq(t, 1, k) \in Seq(S)
           /\ Len(s \o SubSeq(t, 1, k)) = Len(s) + k
           /\ SubSeq(t, k + 1, Len(t)) \in Seq(S)
           /\ k < Len(t) => SubSeq(t, k + 1, Len(t)) /= <<>>
  <1> DEFINE first == SubSeq(t, 1, k)
             rest  == SubSeq(t, k + 1, Len(t))
  <1>1. Len(t) \in Nat /\ Len(s) \in Nat /\ \A i \in 1..Len(t) : t[i] \in S
    BY LenProperties, ElementOfSeq
  <1>2. first \in Seq(S) /\ Len(first) = k
    BY <1>1, SubSeqProperties
  <1>3. rest \in Seq(S) /\ Len(rest) = Len(t) - k
    BY <1>1, SubSeqProperties
  <1> HIDE DEF first, rest
  <1>4. k < Len(t) => rest /= <<>>
    BY <1>1, <1>3, EmptySeq
  <1>5. s \o first \in Seq(S) /\ Len(s \o first) = Len(s) + k
    BY <1>2, ConcatProperties
  <1> QED
    BY <1>2, <1>3, <1>4, <1>5 DEF first, rest

\* The k first elements of one queue join the queue before it: nothing moves.
LEMMA MoveSome ==
    ASSUME NEW S, NEW s \in Seq(S), NEW t \in Seq(S), NEW k \in 0..Len(t)
    PROVE  (s \o SubSeq(t, 1, k)) \o SubSeq(t, k + 1, Len(t)) = s \o t
  <1> DEFINE first == SubSeq(t, 1, k)
             rest  == SubSeq(t, k + 1, Len(t))
  <1>1. Len(t) \in Nat
    BY LenProperties
  <1>2. first \in Seq(S) /\ rest \in Seq(S)
    BY SplitSome
  <1>3. first \o rest = SubSeq(t, 1, Len(t))
    <2>1. 1 \in 1..(Len(t) + 1) /\ k \in (1 - 1)..Len(t) /\ Len(t) \in k..Len(t)
      BY <1>1
    <2> QED
      BY <2>1, ConcatAdjacentSubSeq
  <1>4. SubSeq(t, 1, Len(t)) = t
    BY SubSeqFull
  <1> HIDE DEF first, rest
  <1>5. (s \o first) \o rest = s \o (first \o rest)
    <2>1. Cat(Cat(s, first), rest) = Cat(s, Cat(first, rest))
      BY <1>2, Associative
    <2> QED BY <2>1, Zenon DEF Cat
  <1>6. (s \o first) \o rest = s \o t
    BY <1>3, <1>4, <1>5
  <1> QED
    BY <1>6 DEF first, rest


(* The four queues of a context: read, arrived, sent and queued. *)
Pipe(r, i, w, o) == r \o i \o w \o o

\* Append, under a name that the provers do not expand.
Behind(s, x) == Append(s, x)

\* A command is queued behind everything else.
LEMMA QueueCommand ==
    ASSUME NEW S, NEW r \in Seq(S), NEW i \in Seq(S), NEW w \in Seq(S),
           NEW o \in Seq(S), NEW x \in S
    PROVE  Behind(Pipe(r, i, w, o), x) = Pipe(r, i, w, Behind(o, x))
  <1> DEFINE p == r \o i \o w
  <1>1. p \in Seq(S)
    BY ConcatProperties
  <1> HIDE DEF p
  <1>2. p \o o \in Seq(S) /\ <<x>> \in Seq(S)
    BY <1>1, ConcatProperties
  <1>3. Append(p \o o, x) = (p \o o) \o <<x>> /\ Append(o, x) = o \o <<x>>
    BY <1>2, AppendIsConcat
  <1>4. (p \o o) \o <<x>> = p \o (o \o <<x>>)
    <2>1. \A e \in Seq(S) : Cat(Cat(p, o), e) = Cat(p, Cat(o, e))
      BY <1>1, Associative
    <2> QED BY <1>2, <2>1, Zenon DEF Cat
  <1> QED
    BY <1>3, <1>4 DEF p, Pipe, Behind

\* The server executes the oldest command sent.
LEMMA ArriveOne ==
    ASSUME NEW S, NEW r \in Seq(S), NEW i \in Seq(S), NEW w \in Seq(S),
           NEW o \in Seq(S), w /= <<>>
    PROVE  Pipe(r, Append(i, Head(w)), Tail(w), o) = Pipe(r, i, w, o)
  <1> DEFINE u == Append(i, Head(w))
             v == Tail(w)
  <1>1. u \in Seq(S) /\ v \in Seq(S)
    BY MoveOne, HeadTailProperties
  <1>2. u \o v = i \o w
    BY MoveOne
  <1> HIDE DEF u, v
  <1>3. (r \o u) \o v = r \o (u \o v)
    <2>1. Cat(Cat(r, u), v) = Cat(r, Cat(u, v))
      BY <1>1, Associative
    <2> QED BY <2>1, Zenon DEF Cat
  <1>4. (r \o i) \o w = r \o (i \o w)
    <2>1. Cat(Cat(r, i), w) = Cat(r, Cat(i, w))
      BY Associative
    <2> QED BY <2>1, Zenon DEF Cat
  <1>5. r \o u \o v = r \o i \o w
    BY <1>2, <1>3, <1>4
  <1> QED
    BY <1>5 DEF u, v, Pipe

\* One recv takes the oldest k replies that have arrived.
LEMMA ReadSome ==
    ASSUME NEW S, NEW r \in Seq(S), NEW i \in Seq(S), NEW w \in Seq(S),
           NEW o \in Seq(S), NEW k \in 0..Len(i)
    PROVE  Pipe(r \o SubSeq(i, 1, k), SubSeq(i, k + 1, Len(i)), w, o) = Pipe(r, i, w, o)
  <1>1. (r \o SubSeq(i, 1, k)) \o SubSeq(i, k + 1, Len(i)) = r \o i
    BY MoveSome
  <1> QED
    BY <1>1, Zenon DEF Pipe

\* One send takes the oldest k commands queued.
LEMMA WriteSome ==
    ASSUME NEW S, NEW r \in Seq(S), NEW i \in Seq(S), NEW w \in Seq(S),
           NEW o \in Seq(S), NEW k \in 0..Len(o)
    PROVE  Pipe(r, i, w \o SubSeq(o, 1, k), SubSeq(o, k + 1, Len(o))) = Pipe(r, i, w, o)
  <1> DEFINE p == r \o i
             u == w \o SubSeq(o, 1, k)
             v == SubSeq(o, k + 1, Len(o))
  <1>1. p \in Seq(S)
    BY ConcatProperties
  <1> HIDE DEF p
  <1>2. u \in Seq(S) /\ v \in Seq(S)
    BY SplitSome
  <1>3. u \o v = w \o o
    BY MoveSome
  <1> HIDE DEF u, v
  <1>4. (p \o u) \o v = p \o (u \o v)
    <2>1. Cat(Cat(p, u), v) = Cat(p, Cat(u, v))
      BY <1>1, <1>2, Associative
    <2> QED BY <2>1, Zenon DEF Cat
  <1>5. (p \o w) \o o = p \o (w \o o)
    <2>1. Cat(Cat(p, w), o) = Cat(p, Cat(w, o))
      BY <1>1, Associative
    <2> QED BY <2>1, Zenon DEF Cat
  <1>6. p \o u \o v = p \o w \o o
    BY <1>3, <1>4, <1>5
  <1> QED
    BY <1>6, Zenon DEF p, u, v, Pipe

\* The oldest reply read is the oldest of all.
LEMMA TakeFirst ==
    ASSUME NEW S, NEW r \in Seq(S), NEW i \in Seq(S), NEW w \in Seq(S),
           NEW o \in Seq(S), r /= <<>>
    PROVE  /\ Pipe(r, i, w, o) /= <<>>
           /\ Head(Pipe(r, i, w, o)) = Head(r)
           /\ Tail(Pipe(r, i, w, o)) = Pipe(Tail(r), i, w, o)
  <1> DEFINE p == r \o i
             q == p \o w
  <1>1. p \in Seq(S) /\ p /= <<>> /\ Head(p) = Head(r) /\ Tail(p) = Tail(r) \o i
    BY HeadOfConcat, ConcatProperties
  <1> HIDE DEF p
  <1>2. q \in Seq(S) /\ q /= <<>> /\ Head(q) = Head(p) /\ Tail(q) = Tail(p) \o w
    BY <1>1, HeadOfConcat, ConcatProperties
  <1> HIDE DEF q
  <1>3. q \o o /= <<>> /\ Head(q \o o) = Head(q) /\ Tail(q \o o) = Tail(q) \o o
    BY <1>2, HeadOfConcat
  <1> QED
    BY <1>1, <1>2, <1>3, Zenon DEF p, q, Pipe
-----------------------------------------------------------------------------
(* The adapter's operations on its event. *)

LEMMA DelEvent ==
    ASSUME NEW a \in RedisEvents
    PROVE  /\ del_event(a) \in RedisEvents
           /\ del_event(a).mask = a.mask /\ del_event(a).reg = {}
           /\ del_event(a).read_fn = a.read_fn /\ del_event(a).write_fn = a.write_fn
           /\ del_event(a).live = a.live
  BY DEF RedisEvents, del_event

\* redisCleanup frees the event.
LEMMA Cleanup ==
    ASSUME NEW a \in RedisEvents
    PROVE  redisCleanup(a) \in RedisEvents /\ redisCleanup(a).live = FALSE
  <1>1. del_event(a) \in RedisEvents
    BY DelEvent
  <1> QED
    BY <1>1 DEF RedisEvents, redisCleanup

\* The first ADD_WRITE of a context registers the event.
LEMMA FirstWrite ==
    ASSUME NEW a \in RedisEvents, a.mask = {}
    PROVE  /\ redisAddWrite(a) \in RedisEvents
           /\ redisAddWrite(a).mask = {"out"} /\ redisAddWrite(a).reg = {"out"}
           /\ redisAddWrite(a).write_fn = "handler"
           /\ redisAddWrite(a).read_fn = a.read_fn
           /\ redisAddWrite(a).live = a.live
  BY DEF RedisEvents, redisAddWrite, redisEventUpdate

\* ADD_WRITE does nothing while the mask holds EPOLLOUT.
LEMMA AgainWrite ==
    ASSUME NEW a \in RedisEvents, "out" \in a.mask
    PROVE  /\ redisAddWrite(a) = [a EXCEPT !.write_fn = "handler"]
           /\ redisAddWrite(a) \in RedisEvents
  BY DEF RedisEvents, redisAddWrite, redisEventUpdate

\* ADD_READ does nothing while the mask holds EPOLLIN.
LEMMA AgainRead ==
    ASSUME NEW a \in RedisEvents, "in" \in a.mask
    PROVE  /\ redisAddRead(a) = [a EXCEPT !.read_fn = "handler"]
           /\ redisAddRead(a) \in RedisEvents
  BY DEF RedisEvents, redisAddRead, redisEventUpdate

\* DEL_WRITE, ADD_READ after a complete write: only replies are watched for.
LEMMA WriteDone ==
    ASSUME NEW a \in RedisEvents, a.mask = {"out"}
    PROVE  LET b == redisAddRead(redisDelWrite(a))
           IN  /\ b \in RedisEvents
               /\ b.mask = {"in"} /\ b.reg = {"in"}
               /\ b.write_fn = "null" /\ b.live = a.live
  <1> DEFINE d == redisDelWrite(a)
             e == [[a EXCEPT !.write_fn = "null"] EXCEPT !.mask = {}]
  <1>1. d = del_event(e)
    BY DEF RedisEvents, redisDelWrite, redisEventUpdate
  <1>2. e \in RedisEvents /\ e.mask = {} /\ e.write_fn = "null" /\ e.live = a.live
    BY DEF RedisEvents
  <1> HIDE DEF e
  <1>3. /\ d \in RedisEvents /\ d.mask = {}
        /\ d.write_fn = "null" /\ d.live = a.live
    <2>1. /\ del_event(e) \in RedisEvents /\ del_event(e).mask = e.mask
          /\ del_event(e).write_fn = e.write_fn /\ del_event(e).live = e.live
      BY <1>2, DelEvent
    <2> QED
      BY <1>1, <1>2, <2>1
  <1> HIDE DEF d
  <1>4. /\ redisAddRead(d) \in RedisEvents
        /\ redisAddRead(d).mask = {"in"} /\ redisAddRead(d).reg = {"in"}
        /\ redisAddRead(d).write_fn = d.write_fn /\ redisAddRead(d).live = d.live
    BY <1>3 DEF RedisEvents, redisAddRead, redisEventUpdate
  <1> QED
    BY <1>3, <1>4 DEF d

\* ADD_WRITE, ADD_READ after a short write: the mask says both, epoll one.
LEMMA WriteShort ==
    ASSUME NEW a \in RedisEvents, a.mask = {"out"}, a.write_fn = "handler"
    PROVE  LET b == redisAddRead(redisAddWrite(a))
           IN  /\ b \in RedisEvents
               /\ b.mask = {"in", "out"} /\ b.reg = {"in"}
               /\ b.live = a.live
  <1>1. redisAddWrite(a) = a
    BY AgainWrite DEF RedisEvents
  <1>2. /\ redisAddRead(a) \in RedisEvents
        /\ redisAddRead(a).mask = {"in", "out"} /\ redisAddRead(a).reg = {"in"}
        /\ redisAddRead(a).live = a.live
    BY DEF RedisEvents, redisAddRead, redisEventUpdate
  <1> QED
    BY <1>1, <1>2

-----------------------------------------------------------------------------
(* The invariant: initially, and after each action. *)

LEMMA InitInv == ASSUME Init PROVE ContextInv
  <1>1. PICK junk \in Heap : ad = Attached(junk)
    BY DEF Init
  <1>2. /\ junk \in {"null", "garbage"} /\ Num \in Nat /\ SndCap \in Nat \ {0}
    BY AsyncAssumption
  <1>3. ad \in RedisEvents /\ ad.mask = {} /\ ad.live /\ ad.read_fn /= "handler"
    BY <1>1, <1>2 DEF Attached, RedisEvents
  <1>4. <<>> \in Seq(1..Num) /\ Len(<<>>) = 0
        /\ <<>> \in Seq([cmd : 1..Num, reply : (1..Num) \cup {NoReply}])
    BY EmptySeq
  <1>5. TypeOK
    <2>1. /\ wire \in Seq(1..Num) /\ Len(wire) <= SndCap /\ inbox \in Seq(1..Num)
          /\ obuf \in Seq(1..Num) /\ reader \in Seq(1..Num) /\ replies \in Seq(1..Num)
          /\ called \in Seq([cmd : 1..Num, reply : (1..Num) \cup {NoReply}])
      BY <1>2, <1>4 DEF Init
    <2>2. issued \in 0..Num /\ cnt \in 0..Num
      BY <1>2 DEF Init
    <2> QED
      BY <1>3, <2>1, <2>2 DEF Init, TypeOK
  <1>6. RepliesMatch
    BY <1>4, ConcatEmptySeq DEF Init, RepliesMatch
  <1>7. Interest
    <2>1. ad.mask /= {"out"} /\ ad.mask /= {"in"} /\ ad.mask /= {"in", "out"} /\ "in" \notin ad.mask
      BY <1>3
    <2> QED
      BY <1>3, <2>1 DEF Init, Interest, Handling
  <1> QED
    BY <1>2, <1>3, <1>4, <1>5, <1>6, <1>7
    DEF Init, ContextInv, NoAbort, StoppedWhenFreed, LifeCycle, Counted, Link, OutReady, Reset, Handling

\* The network.

LEMMA HandshakeInv == ASSUME ContextInv, Handshake PROVE ContextInv'
  <1>1. TypeOK'
    BY DEF ContextInv, TypeOK, Handshake, context, main
  <1>2. RepliesMatch' /\ NoAbort' /\ StoppedWhenFreed' /\ LifeCycle' /\ Counted'
    BY DEF ContextInv, RepliesMatch, NoAbort, StoppedWhenFreed, LifeCycle, Counted,
           Handshake, context, main
  <1>3. Link' /\ Interest'
    BY DEF ContextInv, Link, Interest, Handshake, context, main
  <1>4. OutReady'
    BY AsyncAssumption, EmptySeq DEF ContextInv, OutReady, Reset, Link, Handshake, context, main
  <1> QED
    BY <1>1, <1>2, <1>3, <1>4 DEF ContextInv

LEMMA ExecuteInv == ASSUME ContextInv, Execute PROVE ContextInv'
  <1> DEFINE S == 1..Num
  <1>1. /\ wire \in Seq(S) /\ inbox \in Seq(S) /\ reader \in Seq(S) /\ obuf \in Seq(S)
        /\ Len(wire) <= SndCap /\ SndCap \in Nat
    BY AsyncAssumption DEF ContextInv, TypeOK
  <1>2. /\ wire /= <<>> /\ inbox' = Append(inbox, Head(wire)) /\ wire' = Tail(wire)
        /\ UNCHANGED <<conn, ad, context, main, pc, mask>>
        /\ conn = "up"
    BY DEF Execute
  <1> HIDE DEF S
  <1>3. /\ inbox' \in Seq(S) /\ inbox' \o wire' = inbox \o wire
        /\ wire' \in Seq(S) /\ Len(wire') = Len(wire) - 1 /\ Len(wire) \in Nat
    <2>1. /\ Append(inbox, Head(wire)) \in Seq(S)
          /\ Append(inbox, Head(wire)) \o Tail(wire) = inbox \o wire
      BY <1>1, <1>2, MoveOne
    <2>2. Tail(wire) \in Seq(S) /\ Len(Tail(wire)) = Len(wire) - 1 /\ Len(wire) \in Nat
      BY <1>1, <1>2, HeadTailProperties, LenProperties
    <2> QED
      BY <1>2, <2>1, <2>2
  <1>4. TypeOK'
    BY <1>1, <1>2, <1>3 DEF ContextInv, TypeOK, context, main, S
  <1>5. Pipe(reader, Append(inbox, Head(wire)), Tail(wire), obuf) = Pipe(reader, inbox, wire, obuf)
    BY <1>1, <1>2, ArriveOne
  <1>6. RepliesMatch'
    <2>1. ctx = "live" => replies = Pipe(reader, inbox, wire, obuf)
      BY DEF ContextInv, RepliesMatch, Pipe
    <2>2. ctx' = "live" => replies' = Pipe(reader', inbox', wire', obuf')
      BY <1>2, <1>5, <2>1 DEF context
    <2> QED
      BY <2>2 DEF RepliesMatch, Pipe
  <1>7. NoAbort' /\ StoppedWhenFreed' /\ LifeCycle' /\ Counted' /\ Interest'
    BY <1>2 DEF ContextInv, NoAbort, StoppedWhenFreed, LifeCycle, Counted, Interest, Reset, context, main
  <1>8. Link' /\ OutReady'
    BY <1>1, <1>2, <1>3 DEF ContextInv, Link, OutReady
  <1> QED
    BY <1>4, <1>6, <1>7, <1>8 DEF ContextInv

LEMMA HangUpInv == ASSUME ContextInv, HangUp PROVE ContextInv'
  <1>1. TypeOK'
    BY DEF ContextInv, TypeOK, HangUp, context, main
  <1>2. RepliesMatch' /\ NoAbort' /\ StoppedWhenFreed' /\ LifeCycle' /\ Counted'
    BY DEF ContextInv, RepliesMatch, NoAbort, StoppedWhenFreed, LifeCycle, Counted,
           HangUp, context, main
  <1>3. Link' /\ Interest' /\ OutReady'
    BY DEF ContextInv, Link, Interest, OutReady, Reset, HangUp, context, main
  <1> QED
    BY <1>1, <1>2, <1>3 DEF ContextInv

\* main and the loop.

LEMMA SetupInv == ASSUME ContextInv, Setup PROVE ContextInv'
  <1>1. /\ ad \in RedisEvents /\ ctx = "live" /\ ad.mask = {} /\ flags = {} /\ pc = "setup"
        /\ ad' = redisAddWrite(ad) /\ pc' = "issue"
        /\ UNCHANGED <<net, context, main, mask>>
    BY DEF ContextInv, TypeOK, Setup, LifeCycle, Interest
  <1>2. /\ ad' \in RedisEvents /\ ad'.mask = {"out"} /\ ad'.reg = {"out"}
        /\ ad'.write_fn = "handler" /\ ad'.read_fn = ad.read_fn /\ ad'.live = ad.live
    BY <1>1, FirstWrite
  <1>3. TypeOK'
    BY <1>1, <1>2 DEF ContextInv, TypeOK, net, context, main
  <1>4. RepliesMatch' /\ NoAbort' /\ StoppedWhenFreed' /\ LifeCycle' /\ Counted'
    BY <1>1, <1>2 DEF ContextInv, RepliesMatch, NoAbort, StoppedWhenFreed, LifeCycle, Counted,
           net, context, main
  <1>5. Interest'
    BY <1>1, <1>2 DEF ContextInv, Interest, context
  <1>6. Link' /\ OutReady'
    BY <1>1 DEF ContextInv, Link, OutReady, Reset, net, context, Handling
  <1> QED
    BY <1>3, <1>4, <1>5, <1>6 DEF ContextInv

\* redisAddWrite finds EPOLLOUT in the mask already.
LEMMA CommandInv == ASSUME ContextInv, redisAsyncCommand PROVE ContextInv'
  <1>1. /\ pc = "issue" /\ ctx = "live" /\ flags = {} /\ issued < Num
        /\ ad.mask = {"out"} /\ ad.write_fn = "handler" /\ ad \in RedisEvents
    <2>1. /\ pc = "issue" /\ ctx = "live" /\ flags = {} /\ issued < Num /\ ad \in RedisEvents
      BY DEF ContextInv, TypeOK, redisAsyncCommand, LifeCycle
    <2>2. ad.mask \subseteq {"in", "out"} /\ ad.mask /= {} /\ "in" \notin ad.mask
      BY <2>1 DEF ContextInv, Interest, RedisEvents
    <2>3. ad.mask = {"out"}
      BY <2>2
    <2> QED
      BY <2>1, <2>3 DEF ContextInv, Interest
  <1>2. redisAddWrite(ad) = ad
    BY <1>1, AgainWrite DEF RedisEvents
  <1>3. /\ issued' = issued + 1 /\ replies' = Append(replies, issued + 1)
        /\ obuf' = Append(obuf, issued + 1) /\ ad' = ad
        /\ UNCHANGED <<net, ctx, flags, err, reader, cnt, called, stop, pc, mask>>
    BY <1>1, <1>2 DEF redisAsyncCommand
  <1>4. /\ issued + 1 \in 1..Num /\ issued \in Nat
        /\ replies \in Seq(1..Num) /\ obuf \in Seq(1..Num)
        /\ reader \in Seq(1..Num) /\ inbox \in Seq(1..Num) /\ wire \in Seq(1..Num)
    BY <1>1, AsyncAssumption DEF ContextInv, TypeOK
  <1>5. /\ replies' \in Seq(1..Num) /\ obuf' \in Seq(1..Num)
        /\ Len(replies') = Len(replies) + 1 /\ Len(replies) \in Nat
    BY <1>3, <1>4, AppendProperties, LenProperties
  <1>6. TypeOK'
    BY <1>3, <1>4, <1>5 DEF ContextInv, TypeOK, net
  <1>7. RepliesMatch'
    <2>1. replies = Pipe(reader, inbox, wire, obuf)
      BY <1>1 DEF ContextInv, RepliesMatch, Pipe
    <2> DEFINE S == 1..Num
               x == issued + 1
    <2>2. Behind(Pipe(reader, inbox, wire, obuf), x) = Pipe(reader, inbox, wire, Behind(obuf, x))
      <3>1. /\ reader \in Seq(S) /\ inbox \in Seq(S) /\ wire \in Seq(S) /\ obuf \in Seq(S)
            /\ x \in S
        BY <1>4
      <3> HIDE DEF S, x
      <3> QED
        BY <3>1, QueueCommand
    <2>3. replies' = Pipe(reader', inbox', wire', obuf')
      BY <1>3, <2>1, <2>2 DEF net, Behind
    <2> QED
      BY <2>3 DEF RepliesMatch, Pipe
  <1>8. NoAbort' /\ StoppedWhenFreed' /\ LifeCycle' /\ Link' /\ OutReady'
    BY <1>3 DEF ContextInv, NoAbort, StoppedWhenFreed, LifeCycle, Link, OutReady, Reset, net
  <1>9. Counted'
    <2>1. /\ cnt = Len(called) /\ Len(called) + Len(replies) = issued
          /\ cnt \in Nat
      BY <1>1 DEF ContextInv, Counted, TypeOK
    <2>2. cnt' = Len(called') /\ Len(called') = Len(called)
      BY <1>3, <2>1
    <2>3. Len(called) + Len(replies') = issued'
      <3>1. Len(called) \in Nat /\ Len(replies) \in Nat /\ Len(replies') = Len(replies) + 1
        BY <1>5, <2>1
      <3> QED
        BY <1>3, <2>1, <3>1
    <2> QED
      BY <2>2, <2>3 DEF Counted
  <1>10. Interest'
    BY <1>1, <1>3 DEF ContextInv, Interest
  <1> QED
    BY <1>6, <1>7, <1>8, <1>9, <1>10 DEF ContextInv

LEMMA EventloopInv == ASSUME ContextInv, eventloop PROVE ContextInv'
  <1>1. /\ UNCHANGED <<net, ad, context, main, mask>>
        /\ \/ pc = "issue" /\ pc' = "loop"
           \/ pc = "loop" /\ stop /\ pc' = "done"
    BY DEF eventloop
  <1>2. TypeOK' /\ RepliesMatch' /\ NoAbort' /\ StoppedWhenFreed' /\ Counted' /\ Link'
    BY <1>1 DEF ContextInv, TypeOK, RepliesMatch, NoAbort, StoppedWhenFreed, Counted, Link,
                net, context, main
  <1>3. LifeCycle' /\ OutReady' /\ Interest'
    BY <1>1 DEF ContextInv, StoppedWhenFreed, LifeCycle, OutReady, Reset, Interest, Handling,
                net, context, main
  <1> QED
    BY <1>2, <1>3 DEF ContextInv

LEMMA EpollWaitInv == ASSUME ContextInv, EpollWait PROVE ContextInv'
  <1>1. /\ UNCHANGED <<net, ad, context, main>>
        /\ pc = "loop" /\ ~stop /\ pc' = "read" /\ mask' = Fired
    BY DEF EpollWait
  <1>2. /\ Fired \subseteq {"in", "out"}
        /\ "out" \in Fired => \/ conn = "refused" \/ Reset
                              \/ "out" \in ad.reg /\ Len(wire) < SndCap
    BY DEF Fired, ContextInv, TypeOK, RedisEvents
  <1>3. TypeOK' /\ RepliesMatch' /\ NoAbort' /\ StoppedWhenFreed' /\ Counted' /\ Link' /\ LifeCycle'
    BY <1>1, <1>2 DEF ContextInv, TypeOK, RepliesMatch, NoAbort, StoppedWhenFreed, Counted, Link,
                      LifeCycle, net, context, main
  <1>4. OutReady'
    <2>1. conn = "refused" => Len(wire) < SndCap
      BY EmptySeq, AsyncAssumption DEF ContextInv, Link
    <2> QED
      BY <1>1, <1>2, <2>1 DEF OutReady, Reset, net
  <1>5. Interest'
    <2>1. "in" \in ad.mask /\ ctx = "live" /\ "out" \in Fired => Reset
      BY <1>2 DEF ContextInv, Interest, Link
    <2> QED
      BY <1>1, <2>1 DEF ContextInv, Interest, Reset, net, context
  <1> QED
    BY <1>3, <1>4, <1>5 DEF ContextInv

LEMMA SkipInv == ASSUME ContextInv, Skip PROVE ContextInv'
  <1>1. /\ UNCHANGED <<net, ad, context, main, mask>>
        /\ pc \in {"read", "write"}
        /\ ~Wanted \/ Fn = "null"
        /\ pc' = IF pc = "write" THEN "loop" ELSE "write"
    BY DEF Skip, Return
  <1>2. TypeOK' /\ RepliesMatch' /\ NoAbort' /\ StoppedWhenFreed' /\ Counted' /\ Link' /\ LifeCycle'
    BY <1>1 DEF ContextInv, TypeOK, RepliesMatch, NoAbort, StoppedWhenFreed, Counted, Link,
                LifeCycle, net, context, main
  <1>3. OutReady'
    BY <1>1 DEF ContextInv, OutReady, Reset, Handling, net
  <1>4. Interest'
    <2>1. ctx = "live" /\ ad.mask = {"out"} => "CONNECTED" \notin flags
      BY <1>1 DEF ContextInv, Interest, Wanted, Fn
    <2> QED
      BY <1>1, <2>1 DEF ContextInv, Interest, Reset, Handling, net, context
  <1> QED
    BY <1>2, <1>3, <1>4 DEF ContextInv

LEMMA WildCallInv == ASSUME ContextInv, WildCall PROVE ContextInv'
  <1>1. /\ UNCHANGED <<net, context, main, mask>> /\ pc' = "crash" /\ Wanted
        /\ ad' = [ad EXCEPT !.faults = @ \cup {"call"}] /\ ad \in RedisEvents
    BY DEF WildCall, ContextInv, TypeOK
  <1>2. /\ ad' \in RedisEvents /\ ad'.mask = ad.mask /\ ad'.reg = ad.reg /\ ad'.live = ad.live
        /\ ad'.read_fn = ad.read_fn /\ ad'.write_fn = ad.write_fn
    BY <1>1 DEF RedisEvents
  <1>3. TypeOK' /\ RepliesMatch' /\ NoAbort' /\ StoppedWhenFreed' /\ Counted' /\ Link'
    BY <1>1, <1>2 DEF ContextInv, TypeOK, RepliesMatch, NoAbort, StoppedWhenFreed, Counted, Link,
                      net, context, main
  <1>4. LifeCycle' /\ OutReady' /\ Interest'
    BY <1>1, <1>2 DEF ContextInv, LifeCycle, OutReady, Reset, Interest, Handling, Wanted,
                      net, context, main
  <1> QED
    BY <1>3, <1>4 DEF ContextInv

LEMMA StaleEventInv == ASSUME ContextInv, StaleEvent PROVE ContextInv'
  <1>1. /\ UNCHANGED <<net, context, main, mask>> /\ Wanted /\ ~ad.live
        /\ pc' = IF pc = "write" THEN "loop" ELSE "write"
        /\ ad' = [ad EXCEPT !.faults = @ \cup {"stale"}] /\ ad \in RedisEvents
    BY DEF StaleEvent, ContextInv, TypeOK, Return
  <1>2. ad' \in RedisEvents /\ ad'.live = ad.live
    BY <1>1 DEF RedisEvents
  <1>3. TypeOK' /\ RepliesMatch' /\ NoAbort' /\ StoppedWhenFreed' /\ Counted' /\ Link'
    BY <1>1, <1>2 DEF ContextInv, TypeOK, RepliesMatch, NoAbort, StoppedWhenFreed, Counted, Link,
                      net, context, main
  <1>4. LifeCycle' /\ OutReady' /\ Interest'
    BY <1>1, <1>2 DEF ContextInv, LifeCycle, OutReady, Reset, Interest, Handling, Wanted,
                      net, context, main
  <1> QED
    BY <1>3, <1>4 DEF ContextInv

LEMMA CrashInv == ASSUME ContextInv, Crash PROVE ContextInv'
  <1>1. UNCHANGED <<net, ad, context, main, mask>> /\ pc' = "crash" /\ pc /= "abort"
    BY DEF Crash, ContextInv, NoAbort
  <1>2. TypeOK' /\ RepliesMatch' /\ NoAbort' /\ StoppedWhenFreed' /\ Counted' /\ Link'
    BY <1>1 DEF ContextInv, TypeOK, RepliesMatch, NoAbort, StoppedWhenFreed, Counted, Link,
                net, context, main
  <1>3. LifeCycle' /\ OutReady'
    BY <1>1 DEF ContextInv, LifeCycle, OutReady, Reset, Handling, net, context, main
  <1>4. Interest'
    BY <1>1 DEF ContextInv, Interest, Handling, net, context, main
  <1> QED
    BY <1>2, <1>3, <1>4 DEF ContextInv

\* The handlers.

LEMMA HandleConnectInv == ASSUME ContextInv, HandleConnect PROVE ContextInv'
  <1>1. /\ Wanted /\ Fn = "handler" /\ ad.live /\ ctx = "live" /\ "CONNECTED" \notin flags
        /\ UNCHANGED <<net, ad, ctx, err, obuf, reader, replies, main, mask>>
    BY DEF HandleConnect, Runs, ContextInv, LifeCycle
  <1>2. \/ /\ conn = "connecting" /\ flags' = flags
           /\ pc' = IF pc = "write" THEN "loop" ELSE "write"
        \/ /\ conn \in {"up", "fin"} /\ flags' = flags \cup {"CONNECTED"} /\ pc' = pc
    BY DEF HandleConnect, Reset, Return, ContextInv, TypeOK
  <1>3. "in" \notin ad.mask /\ pc = "write" /\ "out" \in mask
    <2>1. "in" \notin ad.mask
      BY <1>1 DEF ContextInv, Interest
    <2> QED
      BY <1>1, <2>1 DEF ContextInv, Interest, Wanted, Fn
  <1>4. TypeOK' /\ RepliesMatch' /\ NoAbort' /\ StoppedWhenFreed' /\ Counted'
    BY <1>1, <1>2 DEF ContextInv, TypeOK, RepliesMatch, NoAbort, StoppedWhenFreed, Counted,
                      net, main
  <1>5. LifeCycle' /\ Link' /\ OutReady'
    BY <1>1, <1>2, <1>3 DEF ContextInv, LifeCycle, Link, OutReady, Reset, Handling, net, main
  <1>6. Interest'
    BY <1>1, <1>2, <1>3 DEF ContextInv, Interest, Handling, net
  <1> QED
    BY <1>4, <1>5, <1>6 DEF ContextInv

\* The callbacks that get a NULL reply.
LEMMA NullType ==
    ASSUME NEW cmds \in Seq(1..Num)
    PROVE  Null(cmds) \in Seq([cmd : 1..Num, reply : (1..Num) \cup {NoReply}])
  <1>1. Len(cmds) \in Nat /\ \A i \in 1..Len(cmds) : cmds[i] \in 1..Num
    BY LenProperties, ElementOfSeq
  <1>2. \A i \in 1..Len(cmds) :
          [cmd |-> cmds[i], reply |-> NoReply] \in [cmd : 1..Num, reply : (1..Num) \cup {NoReply}]
    BY <1>1
  <1> QED
    BY <1>1, <1>2, IsASeq DEF Null

\* However a context ends, the invariant holds of what is left.
LEMMA FreeInv ==
    ASSUME ContextInv, ctx = "live",
           called' = called \o Null(replies), replies' = <<>>, ad' = redisCleanup(ad),
           ctx' = "freed", stop' = TRUE, err' \in BOOLEAN,
           flags' \in {flags, flags \cup {"DISCONNECTING"}},
           pc \in Handling, pc' = IF pc = "write" THEN "loop" ELSE "write",
           UNCHANGED <<net, obuf, reader, issued, cnt, mask>>
    PROVE  ContextInv'
  <1>1. ad' \in RedisEvents /\ ad'.live = FALSE
    BY Cleanup DEF ContextInv, TypeOK
  <1>2. called' \in Seq([cmd : 1..Num, reply : (1..Num) \cup {NoReply}])
    <2> DEFINE C == [cmd : 1..Num, reply : (1..Num) \cup {NoReply}]
    <2>1. called \in Seq(C) /\ Null(replies) \in Seq(C)
      BY NullType DEF ContextInv, TypeOK
    <2> HIDE DEF C
    <2>2. called \o Null(replies) \in Seq(C)
      BY <2>1, ConcatProperties
    <2> QED
      BY <2>2 DEF C
  <1>3. replies' \in Seq(1..Num)
    BY EmptySeq
  <1>4. TypeOK'
    BY <1>1, <1>2, <1>3 DEF ContextInv, TypeOK, net, Handling
  <1>5. RepliesMatch' /\ NoAbort' /\ StoppedWhenFreed' /\ Counted' /\ Interest'
    BY DEF ContextInv, RepliesMatch, NoAbort, StoppedWhenFreed, Counted, Interest
  <1>6. LifeCycle' /\ Link' /\ OutReady'
    BY <1>1 DEF ContextInv, LifeCycle, Link, OutReady, Reset, Handling, net
  <1> QED
    BY <1>4, <1>5, <1>6 DEF ContextInv

LEMMA HandleConnectFailureInv == ASSUME ContextInv, HandleConnectFailure PROVE ContextInv'
  <1>1. ctx = "live" /\ pc \in Handling
    BY DEF HandleConnectFailure, Runs, Wanted, ContextInv, LifeCycle, Handling
  <1> QED
    BY <1>1, FreeInv DEF HandleConnectFailure, Return

LEMMA ReadErrorInv == ASSUME ContextInv, ReadError PROVE ContextInv'
  <1>1. ctx = "live" /\ pc = "read" /\ "CONNECTED" \in flags /\ pc \in Handling
    BY DEF ReadError, Runs, ContextInv, LifeCycle, Handling
  <1> QED
    BY <1>1, FreeInv DEF ReadError, __redisAsyncDisconnect, __redisAsyncFree, Return

\* redisAddRead finds EPOLLIN in the mask already.
LEMMA ReadInv == ASSUME ContextInv, redisAsyncRead PROVE ContextInv'
  <1>1. /\ pc = "read" /\ "in" \in mask /\ ctx = "live" /\ "CONNECTED" \in flags
        /\ "in" \in ad.mask /\ ad.read_fn = "handler" /\ ad \in RedisEvents
    BY DEF redisAsyncRead, Runs, Wanted, Fn, ContextInv, TypeOK, LifeCycle, Interest
  <1>2. redisAddRead(ad) = ad
    BY <1>1, AgainRead DEF RedisEvents
  <1> DEFINE S == 1..Num
  <1>3. PICK k \in 0..Len(inbox) :
             /\ reader' = reader \o SubSeq(inbox, 1, k)
             /\ inbox' = SubSeq(inbox, k + 1, Len(inbox))
    BY DEF redisAsyncRead
  <1>4. /\ ad' = ad /\ pc' = "process"
        /\ UNCHANGED <<conn, wire, ctx, flags, err, obuf, replies, main, mask>>
    BY <1>2 DEF redisAsyncRead
  <1>5. inbox \in Seq(S) /\ reader \in Seq(S) /\ wire \in Seq(S) /\ obuf \in Seq(S)
    BY DEF ContextInv, TypeOK
  <1> HIDE DEF S
  <1>6. reader' \in Seq(S) /\ inbox' \in Seq(S)
    BY <1>3, <1>5, SplitSome
  <1>7. TypeOK'
    BY <1>4, <1>6 DEF ContextInv, TypeOK, main, S
  <1>8. RepliesMatch'
    <2>1. ctx = "live" => replies = Pipe(reader, inbox, wire, obuf)
      BY DEF ContextInv, RepliesMatch, Pipe
    <2>2. Pipe(reader \o SubSeq(inbox, 1, k), SubSeq(inbox, k + 1, Len(inbox)), wire, obuf)
            = Pipe(reader, inbox, wire, obuf)
      BY <1>5, ReadSome
    <2>3. ctx' = "live" => replies' = Pipe(reader', inbox', wire', obuf')
      BY <1>3, <1>4, <2>1, <2>2
    <2> QED
      BY <2>3 DEF RepliesMatch, Pipe
  <1>9. NoAbort' /\ StoppedWhenFreed' /\ LifeCycle' /\ Counted' /\ Link'
    BY <1>1, <1>4 DEF ContextInv, NoAbort, StoppedWhenFreed, LifeCycle, Counted, Link, main
  <1>10. OutReady' /\ Interest'
    BY <1>1, <1>4 DEF ContextInv, OutReady, Reset, Interest, Handling
  <1> QED
    BY <1>7, <1>8, <1>9, <1>10 DEF ContextInv

\* While a reply is left, a callback is left, and it is the reply's own.
LEMMA OwnReply ==
    ASSUME ContextInv, ctx = "live", reader /= <<>>
    PROVE  /\ replies /= <<>>
           /\ Head(replies) = Head(reader)
           /\ Tail(replies) = Pipe(Tail(reader), inbox, wire, obuf)
  <1> DEFINE S == 1..Num
  <1>1. inbox \in Seq(S) /\ reader \in Seq(S) /\ wire \in Seq(S) /\ obuf \in Seq(S)
    BY DEF ContextInv, TypeOK
  <1>2. replies = Pipe(reader, inbox, wire, obuf)
    BY DEF ContextInv, RepliesMatch, Pipe
  <1> HIDE DEF S
  <1>3. /\ Pipe(reader, inbox, wire, obuf) /= <<>>
        /\ Head(Pipe(reader, inbox, wire, obuf)) = Head(reader)
        /\ Tail(Pipe(reader, inbox, wire, obuf)) = Pipe(Tail(reader), inbox, wire, obuf)
    BY <1>1, TakeFirst
  <1> QED
    BY <1>2, <1>3

LEMMA ProcessReplyInv == ASSUME ContextInv, ProcessReply PROVE ContextInv'
  <1>1. pc = "process" /\ reader /= <<>> /\ ctx = "live" /\ "CONNECTED" \in flags
    BY DEF ProcessReply, ContextInv, LifeCycle
  <1>2. /\ replies /= <<>> /\ Head(replies) = Head(reader)
        /\ Tail(replies) = Pipe(Tail(reader), inbox, wire, obuf)
    BY <1>1, OwnReply
  <1>3. /\ called' = Append(called, [cmd |-> Head(replies), reply |-> Head(reader)])
        /\ cnt' = cnt + 1
        /\ flags' \in {flags, flags \cup {"DISCONNECTING"}}
        /\ replies' = Tail(replies) /\ reader' = Tail(reader)
        /\ UNCHANGED <<net, ad, ctx, err, obuf, issued, stop, pc, mask>>
    BY <1>2 DEF ProcessReply, getCallback
  <1>4. /\ reader \in Seq(1..Num) /\ replies \in Seq(1..Num)
        /\ called \in Seq([cmd : 1..Num, reply : (1..Num) \cup {NoReply}])
    BY DEF ContextInv, TypeOK
  <1>5. /\ Head(reader) \in 1..Num /\ Tail(reader) \in Seq(1..Num)
        /\ Tail(replies) \in Seq(1..Num)
        /\ Len(replies) \in Nat \ {0} /\ Len(Tail(replies)) = Len(replies) - 1
    BY <1>1, <1>2, <1>4, HeadTailProperties, EmptySeq, LenProperties
  <1>6. /\ called' \in Seq([cmd : 1..Num, reply : (1..Num) \cup {NoReply}])
        /\ Len(called') = Len(called) + 1 /\ Len(called) \in Nat
    <2> DEFINE C == [cmd : 1..Num, reply : (1..Num) \cup {NoReply}]
               c == [cmd |-> Head(replies), reply |-> Head(reader)]
    <2>1. c \in C /\ called \in Seq(C) /\ called' = Append(called, c)
      BY <1>2, <1>3, <1>4, <1>5
    <2> HIDE DEF C, c
    <2>2. called' \in Seq(C) /\ Len(called') = Len(called) + 1 /\ Len(called) \in Nat
      BY <2>1, AppendProperties, LenProperties
    <2> QED
      BY <2>2 DEF C
  <1>7. /\ cnt = Len(called) /\ Len(called) + Len(replies) = issued
        /\ issued \in 0..Num /\ Num \in Nat
    BY <1>1, AsyncAssumption DEF ContextInv, Counted, TypeOK
  <1>8. cnt' = Len(called') /\ Len(called') + Len(replies') = issued /\ cnt' \in 0..Num
    <2>1. Len(replies') = Len(replies) - 1 /\ Len(replies) \in Nat \ {0} /\ cnt' = cnt + 1
      BY <1>3, <1>5
    <2>2. Len(called') = Len(called) + 1 /\ Len(called) \in Nat
      BY <1>6
    <2> QED
      BY <1>7, <2>1, <2>2
  <1>9. TypeOK'
    BY <1>3, <1>5, <1>6, <1>8 DEF ContextInv, TypeOK, net
  <1>10. RepliesMatch'
    BY <1>2, <1>3 DEF RepliesMatch, Pipe, net
  <1>11. NoAbort' /\ StoppedWhenFreed' /\ LifeCycle' /\ Counted' /\ Link'
    BY <1>1, <1>3, <1>8 DEF ContextInv, NoAbort, StoppedWhenFreed, LifeCycle, Counted, Link, net
  <1>12. OutReady' /\ Interest'
    BY <1>1, <1>3 DEF ContextInv, OutReady, Reset, Interest, Handling, net
  <1> QED
    BY <1>9, <1>10, <1>11, <1>12 DEF ContextInv

LEMMA ProcessEndInv == ASSUME ContextInv, ProcessEnd PROVE ContextInv'
  <1>1. /\ pc = "process" /\ ctx = "live" /\ "CONNECTED" \in flags /\ err = FALSE
        /\ UNCHANGED <<net, obuf, reader, issued, cnt, mask>>
    BY DEF ProcessEnd, ContextInv, LifeCycle, TypeOK
  <1>2. CASE Drained
    <2>1. /\ replies = <<>> /\ err' = err /\ __redisAsyncFree /\ flags' = flags
          /\ pc' = IF pc = "write" THEN "loop" ELSE "write"
      BY <1>1, <1>2 DEF ProcessEnd, Drained, __redisAsyncDisconnect, Return
    <2> QED
      BY <1>1, <2>1, FreeInv DEF __redisAsyncFree, Handling
  <1>3. CASE ~Drained
    <2>1. /\ UNCHANGED <<called, replies, ad, stop, ctx, flags, err>>
          /\ pc' = "write"
      BY <1>1, <1>3 DEF ProcessEnd, Return
    <2>2. TypeOK' /\ RepliesMatch' /\ NoAbort' /\ StoppedWhenFreed' /\ Counted' /\ Link'
      BY <1>1, <2>1 DEF ContextInv, TypeOK, RepliesMatch, NoAbort, StoppedWhenFreed, Counted, Link,
                        net
    <2>3. LifeCycle' /\ OutReady' /\ Interest'
      BY <1>1, <2>1 DEF ContextInv, LifeCycle, OutReady, Reset, Interest, Handling, net
    <2> QED
      BY <2>2, <2>3 DEF ContextInv
  <1> QED
    BY <1>2, <1>3

\* Only a short or a complete write: what the adapter watches for after it.
LEMMA WriteInv == ASSUME ContextInv, redisAsyncWrite PROVE ContextInv'
  <1> DEFINE S == 1..Num
  <1>0. PICK k \in 0..Len(obuf) :
             /\ k <= Room
             /\ wire' = wire \o SubSeq(obuf, 1, k)
             /\ obuf' = SubSeq(obuf, k + 1, Len(obuf))
             /\ ad' = redisAddRead(IF k < Len(obuf) THEN redisAddWrite(ad) ELSE redisDelWrite(ad))
    BY DEF redisAsyncWrite
  <1>1. /\ pc = "write" /\ "out" \in mask /\ ctx = "live" /\ "CONNECTED" \in flags
        /\ ad.write_fn = "handler" /\ ad \in RedisEvents
        /\ obuf = <<>> \/ ~Reset
    BY DEF redisAsyncWrite, Runs, Wanted, Fn, ContextInv, TypeOK, LifeCycle
  <1>2. ad.mask = {"out"}
    <2>1. ad.mask \subseteq {"in", "out"} /\ ad.mask /= {} /\ ad.mask /= {"in"}
      BY <1>1 DEF ContextInv, Interest, RedisEvents
    <2>2. ad.mask /= {"in", "out"}
      BY <1>1 DEF ContextInv, Interest, Handling
    <2> QED
      BY <2>1, <2>2
  <1>3. /\ inbox \in Seq(S) /\ reader \in Seq(S) /\ wire \in Seq(S) /\ obuf \in Seq(S)
        /\ Len(wire) \in Nat /\ Len(obuf) \in Nat /\ Len(wire) <= SndCap /\ SndCap \in Nat
    BY AsyncAssumption, LenProperties DEF ContextInv, TypeOK
  <1>4. k \in 0..Len(obuf) /\ Len(wire) + k <= SndCap
    BY <1>0, <1>3 DEF Room
  <1>5. /\ wire' = wire \o SubSeq(obuf, 1, k)
        /\ obuf' = SubSeq(obuf, k + 1, Len(obuf))
        /\ pc' = "loop"
        /\ UNCHANGED <<conn, inbox, ctx, flags, err, reader, replies, main, mask>>
    BY <1>0, <1>1 DEF redisAsyncWrite, Return
  <1>6. ad' = redisAddRead(IF k < Len(obuf) THEN redisAddWrite(ad) ELSE redisDelWrite(ad))
    BY <1>0
  <1> HIDE DEF S
  <1>7. /\ wire' \in Seq(S) /\ Len(wire') <= SndCap /\ obuf' \in Seq(S)
        /\ k < Len(obuf) => obuf' /= <<>>
    <2>1. wire \in Seq(S) /\ obuf \in Seq(S) /\ k \in 0..Len(obuf)
      BY <1>3, <1>4
    <2>2. /\ wire \o SubSeq(obuf, 1, k) \in Seq(S)
          /\ SubSeq(obuf, k + 1, Len(obuf)) \in Seq(S)
      BY <2>1, SplitSome
    <2>3. Len(wire \o SubSeq(obuf, 1, k)) = Len(wire) + k
      BY <2>1, SplitSome
    <2>4. k < Len(obuf) => SubSeq(obuf, k + 1, Len(obuf)) /= <<>>
      BY <2>1, SplitSome
    <2>5. Len(wire') <= SndCap
      BY <1>4, <1>5, <2>3
    <2> QED
      BY <1>5, <2>2, <2>4, <2>5
  <1>8. /\ ad' \in RedisEvents /\ ad'.live = ad.live /\ ad'.reg = {"in"}
        /\ k < Len(obuf) => ad'.mask = {"in", "out"}
        /\ ~(k < Len(obuf)) => ad'.mask = {"in"} /\ ad'.write_fn = "null"
    BY <1>1, <1>2, <1>6, WriteShort, WriteDone
  <1>9. TypeOK'
    BY <1>5, <1>7, <1>8 DEF ContextInv, TypeOK, main, S
  <1>10. RepliesMatch'
    <2>1. replies = Pipe(reader, inbox, wire, obuf)
      BY <1>1 DEF ContextInv, RepliesMatch, Pipe
    <2>2. Pipe(reader, inbox, wire \o SubSeq(obuf, 1, k), SubSeq(obuf, k + 1, Len(obuf)))
            = Pipe(reader, inbox, wire, obuf)
      BY <1>3, <1>4, WriteSome
    <2>3. replies' = Pipe(reader', inbox', wire', obuf')
      BY <1>5, <2>1, <2>2
    <2> QED
      BY <2>3 DEF RepliesMatch, Pipe
  <1>11. NoAbort' /\ StoppedWhenFreed' /\ LifeCycle' /\ Counted' /\ Link' /\ OutReady'
    BY <1>1, <1>5, <1>8
    DEF ContextInv, NoAbort, StoppedWhenFreed, LifeCycle, Counted, Link, OutReady, Reset, Handling, main
  <1>12. Interest'
    <2>1. CASE k < Len(obuf)
      <3>1. /\ ad'.mask = {"in", "out"} /\ obuf' /= <<>>
            /\ ad'.mask /= {"in"} /\ ad'.mask /= {"out"} /\ ad'.mask /= {}
        <4>1. ad'.mask = {"in", "out"} /\ obuf' /= <<>>
          BY <1>7, <1>8, <2>1, Zenon
        <4>2. {"in", "out"} /= {"in"} /\ {"in", "out"} /= {"out"} /\ {"in", "out"} /= {}
          BY SMTT(30)
        <4> QED BY <4>1, <4>2, Zenon
      <3> QED
        BY <1>1, <1>5, <1>8, <3>1 DEF Interest, Handling
    <2>2. CASE ~(k < Len(obuf))
      <3>1. /\ ad'.mask = {"in"} /\ ad'.write_fn = "null"
            /\ ad'.mask /= {"in", "out"} /\ ad'.mask /= {"out"} /\ ad'.mask /= {}
        BY <1>8, <2>2
      <3> QED
        BY <1>1, <1>5, <1>8, <3>1 DEF Interest, Handling
    <2> QED
      BY <2>1, <2>2
  <1> QED
    BY <1>9, <1>10, <1>11, <1>12 DEF ContextInv

\* A handler that runs finds room in the send buffer, or a reset connection.
LEMMA ReallyReset == ASSUME ContextInv, WriteError PROVE conn = "rst" /\ ctx = "live"
  <1>1. /\ pc = "write" /\ "out" \in mask /\ ctx = "live"
        /\ conn = "rst" \/ (~Reset /\ Room = 0)
    BY DEF WriteError, Runs, Wanted, ContextInv, LifeCycle
  <1>2. ASSUME conn /= "rst" PROVE FALSE
    <2>1. Len(wire) < SndCap /\ Len(wire) \in Nat /\ SndCap \in Nat
      BY <1>1, <1>2, AsyncAssumption, LenProperties DEF ContextInv, OutReady, Reset, Handling, TypeOK
    <2> QED
      BY <1>1, <1>2, <2>1 DEF Room
  <1> QED
    BY <1>1, <1>2

LEMMA WriteErrorInv == ASSUME ContextInv, WriteError PROVE ContextInv'
  <1>1. /\ conn = "rst" /\ ctx = "live" /\ pc = "write" /\ "CONNECTED" \in flags
        /\ pc \in Handling
    BY ReallyReset DEF WriteError, Handling
  <1> QED
    BY <1>1, FreeInv DEF WriteError, __redisAsyncDisconnect, __redisAsyncFree, Return

\* The process dies with its context as it was.
LEMMA SigpipeInv == ASSUME ContextInv, Sigpipe PROVE ContextInv'
  <1>1. UNCHANGED <<net, ad, context, main, mask>> /\ pc' = "crash" /\ pc = "write"
    BY DEF Sigpipe
  <1>2. TypeOK' /\ RepliesMatch' /\ NoAbort' /\ StoppedWhenFreed' /\ Counted' /\ Link'
    BY <1>1 DEF ContextInv, TypeOK, RepliesMatch, NoAbort, StoppedWhenFreed, Counted, Link,
                net, context, main
  <1>3. LifeCycle' /\ OutReady' /\ Interest'
    BY <1>1 DEF ContextInv, LifeCycle, OutReady, Reset, Interest, Handling, net, context, main
  <1> QED
    BY <1>2, <1>3 DEF ContextInv

LEMMA StutterInv == ASSUME ContextInv, UNCHANGED vars PROVE ContextInv'
  <1>1. UNCHANGED <<net, ad, context, main, pc, mask>>
    BY DEF vars
  <1>2. TypeOK' /\ RepliesMatch' /\ NoAbort' /\ StoppedWhenFreed' /\ Counted' /\ Link'
    BY <1>1 DEF ContextInv, TypeOK, RepliesMatch, NoAbort, StoppedWhenFreed, Counted, Link,
                net, context, main
  <1>3. LifeCycle' /\ OutReady' /\ Interest'
    BY <1>1 DEF ContextInv, LifeCycle, OutReady, Reset, Interest, Handling, net, context, main
  <1> QED
    BY <1>2, <1>3 DEF ContextInv
-----------------------------------------------------------------------------
\* The invariant of the context and its adapter, for any number of commands, any
\* send buffer, and any garbage in the event that redisAttach allocates.
THEOREM ContextInvariant == Spec => []ContextInv
  <1>1. Init => ContextInv
    BY InitInv
  <1>2. ContextInv /\ [Next]_vars => ContextInv'
    <2> SUFFICES ASSUME ContextInv, [Next]_vars PROVE ContextInv'
      OBVIOUS
    <2>1. CASE Client
      BY <2>1, SetupInv, CommandInv, EventloopInv, EpollWaitInv, SkipInv, WildCallInv,
         StaleEventInv, HandleConnectInv, HandleConnectFailureInv, ReadInv, ReadErrorInv,
         ProcessReplyInv, ProcessEndInv, WriteInv, WriteErrorInv, SigpipeInv DEF Client
    <2>2. CASE Crash
      BY <2>2, CrashInv
    <2>3. CASE Handshake \/ Execute \/ HangUp
      BY <2>3, HandshakeInv, ExecuteInv, HangUpInv
    <2>4. CASE UNCHANGED vars
      BY <2>4, StutterInv
    <2> QED
      BY <2>1, <2>2, <2>3, <2>4 DEF Next
  <1> QED
    BY <1>1, <1>2, PTL DEF Spec

\* A reply is always handed to the callback of its own command: the pending
\* callbacks are at every moment those of the replies and commands in flight.
THEOREM RepliesInOrder == Spec => []RepliesMatch
  <1>1. ContextInv => RepliesMatch
    BY DEF ContextInv
  <1> QED
    BY <1>1, ContextInvariant, PTL

\* No assertion of the context's life cycle is ever reached.
THEOREM NeverAborts == Spec => []NoAbort
  <1>1. ContextInv => NoAbort
    BY DEF ContextInv
  <1> QED
    BY <1>1, ContextInvariant, PTL

\* The loop stops when, and only when, the context has ended.
THEOREM StopsWithContext == Spec => []StoppedWhenFreed
  <1>1. ContextInv => StoppedWhenFreed
    BY DEF ContextInv
  <1> QED
    BY <1>1, ContextInvariant, PTL

\* A connected context never waits deaf: epoll watches for its replies.
THEOREM NeverDeaf == Spec => []ListensForReplies
  <1>1. ASSUME ContextInv PROVE ListensForReplies
    <2> SUFFICES ASSUME pc = "loop", ctx = "live", "CONNECTED" \in flags
                 PROVE  "in" \in ad.reg
      BY DEF ListensForReplies
    <2>1. ad.mask \subseteq {"in", "out"} /\ ad.mask /= {} /\ ad.mask /= {"out"}
      BY <1>1 DEF ContextInv, TypeOK, RedisEvents, Interest
    <2>2. "in" \in ad.mask
      BY <2>1
    <2> QED
      BY <1>1, <2>2 DEF ContextInv, Interest
  <1> QED
    BY <1>1, ContextInvariant, PTL
-----------------------------------------------------------------------------
(* The context implements Pipeline. *)

\* What the user cannot see.
LEMMA Unseen ==
    ASSUME UNCHANGED <<replies, issued, called, ctx, err>>
    PROVE  UNCHANGED Promise!vars
  BY DEF Promise!vars

\* Every way a context fails hands NULL to the callbacks still pending.
LEMMA FailStep ==
    ASSUME ctx = "live", ctx' = "freed", err' = TRUE,
           called' = called \o Null(replies), replies' = <<>>, issued' = issued
    PROVE  Promise!Fail
  BY DEF Promise!Fail, Promise!Called, Null

LEMMA IssueStep == ASSUME ContextInv, redisAsyncCommand PROVE Promise!Issue
  <1>1. pc = "issue" /\ ctx = "live" /\ flags = {}
    BY DEF redisAsyncCommand, ContextInv, LifeCycle
  <1> QED
    BY <1>1 DEF redisAsyncCommand, Promise!Issue

LEMMA AnswerStep == ASSUME ContextInv, ProcessReply PROVE Promise!Answer
  <1>1. reader /= <<>> /\ ctx = "live"
    BY DEF ProcessReply, ContextInv, LifeCycle
  <1>2. replies /= <<>> /\ Head(replies) = Head(reader)
    BY <1>1, OwnReply
  <1> QED
    BY <1>1, <1>2 DEF ProcessReply, getCallback, Promise!Answer, Promise!Called

LEMMA EndStep ==
    ASSUME ContextInv, ProcessEnd PROVE Promise!Disconnect \/ UNCHANGED Promise!vars
  <1>1. ctx = "live" /\ err = FALSE /\ UNCHANGED issued
    BY DEF ProcessEnd, ContextInv, LifeCycle, TypeOK
  <1>2. CASE Drained
    <2>1. replies = <<>> /\ err' = FALSE /\ __redisAsyncFree
      BY <1>1, <1>2 DEF ProcessEnd, Drained, __redisAsyncDisconnect
    <2>2. Null(replies) = <<>>
      BY <2>1 DEF Null
    <2>3. called \o <<>> = called
      BY ConcatEmptySeq DEF ContextInv, TypeOK
    <2> QED
      BY <1>1, <2>1, <2>2, <2>3 DEF __redisAsyncFree, Promise!Disconnect
  <1>3. CASE ~Drained
    BY <1>1, <1>3, Unseen DEF ProcessEnd
  <1> QED
    BY <1>2, <1>3

\* hiredis's promise to its user is kept, however the connection behaves: the
\* context implements Pipeline.
THEOREM PromiseKept == Spec => KeepsPromise
  <1>1. Init => Promise!Init
    BY DEF Init, Promise!Init
  <1>2. ContextInv /\ [Next]_vars => [Promise!Next]_Promise!vars
    <2> SUFFICES ASSUME ContextInv, [Next]_vars PROVE Promise!Next \/ UNCHANGED Promise!vars
      OBVIOUS
    <2>1. CASE redisAsyncCommand
      BY <2>1, IssueStep DEF Promise!Next
    <2>2. CASE ProcessReply
      BY <2>2, AnswerStep DEF Promise!Next
    <2>3. CASE ProcessEnd
      BY <2>3, EndStep DEF Promise!Next
    <2>4. CASE HandleConnectFailure
      <3>1. ctx = "live"
        BY <2>4 DEF HandleConnectFailure, Runs, ContextInv, LifeCycle
      <3> QED
        BY <2>4, <3>1, FailStep DEF HandleConnectFailure, Promise!Next
    <2>5. CASE ReadError
      <3>1. ctx = "live"
        BY <2>5 DEF ReadError, Runs, ContextInv, LifeCycle
      <3> QED
        BY <2>5, <3>1, FailStep DEF ReadError, __redisAsyncDisconnect, __redisAsyncFree, Promise!Next
    <2>6. CASE WriteError
      <3>1. conn = "rst" /\ ctx = "live"
        BY <2>6, ReallyReset
      <3> QED
        BY <2>6, <3>1, FailStep DEF WriteError, __redisAsyncDisconnect, __redisAsyncFree, Promise!Next
    <2>7. CASE \/ Setup \/ eventloop \/ EpollWait \/ Skip \/ WildCall \/ StaleEvent
               \/ HandleConnect \/ Sigpipe
      BY <2>7, Unseen DEF Setup, eventloop, EpollWait, Skip, WildCall, StaleEvent, HandleConnect,
                          Sigpipe, context, main
    <2>8. CASE redisAsyncRead \/ redisAsyncWrite
      BY <2>8, Unseen DEF redisAsyncRead, redisAsyncWrite, main
    <2>9. CASE Crash \/ Handshake \/ Execute \/ HangUp \/ UNCHANGED vars
      BY <2>9, Unseen DEF Crash, Handshake, Execute, HangUp, vars, context, main
    <2> QED
      BY <2>1, <2>2, <2>3, <2>4, <2>5, <2>6, <2>7, <2>8, <2>9 DEF Next, Client
  <1> QED
    BY <1>1, <1>2, ContextInvariant, PTL DEF Spec, KeepsPromise, Promise!Spec
=============================================================================
