-------------------------- MODULE EchoServerProofs --------------------------
(***************************************************************************)
(* Theorems about EchoServer, for any number of connections and lines and  *)
(* any capacities that satisfy EchoAssumption.  As in EchoServer, lines    *)
(* arrive whole.                                                           *)
(***************************************************************************)
EXTENDS EchoServer, FiniteSetTheorems, DataTheorems

-----------------------------------------------------------------------------
(* Sequences.                                                              *)

LEMMA TailType == ASSUME NEW S, NEW s \in Seq(S), s /= <<>>
                  PROVE  /\ Head(s) \in S
                         /\ Tail(s) \in Seq(S)
                         /\ Len(Tail(s)) = Len(s) - 1
                         /\ \A i \in 1..Len(Tail(s)) : Tail(s)[i] = s[i + 1] /\ i + 1 \in 1..Len(s)
                         /\ Len(s) \in Nat \ {0} /\ Head(s) = s[1]
  BY HeadTailProperties, EmptySeq, LenProperties

LEMMA SubSeqType == ASSUME NEW S, NEW s \in Seq(S), NEW i \in 1..(Len(s) + 1), NEW j \in 0..Len(s)
                    PROVE  SubSeq(s, i, j) \in Seq(S)
  <1>1. \A k \in i..j : s[k] \in S
    BY ElementOfSeq, LenProperties
  <1>2. i \in Int /\ j \in Int
    BY LenProperties
  <1> QED BY <1>1, <1>2, SubSeqProperties

LEMMA PutType == ASSUME NEW S, NEW q \in Seq(S), NEW s \in Seq(S), NEW cap
                 PROVE  Put(q, s, cap) \in Seq(S)
  BY ConcatProperties DEF Put

LEMMA EchoType == ASSUME NEW k \in 1..Lines
                  PROVE  /\ Echo(k) \in Seq(Units)
                         /\ Len(Echo(k)) = 2
  <1>1. 2 * k - 1 \in Units /\ 2 * k \in Units
    BY EchoAssumption DEF Units
  <1> QED BY <1>1 DEF Echo

-----------------------------------------------------------------------------
(* What the callbacks share.                                               *)

\* The event being handled is a connection's.
LEMMA CurrentType ==
    ASSUME BatchOK, pc \in {"read", "reply", "write"}
    PROVE  Current \in Conns /\ cur.mask \in SUBSET {"in", "out"}
  BY DEF BatchOK, Current, Fired

LEMMA DoneType ==
    ASSUME TypeOK, Done
    PROVE  /\ pc' \in {"wait", "fire"} /\ fire' = fire
           /\ cur' \in Fired \cup {NoEvent} /\ num' \in BOOLEAN
  BY DEF TypeOK, Done, Continue

LEMMA ReadDoneType ==
    ASSUME TypeOK, ReadDone
    PROVE  /\ pc' \in {"wait", "fire", "write"} /\ fire' = fire
           /\ cur' \in Fired \cup {NoEvent} /\ num' \in BOOLEAN
           /\ pc' = "write" => cur' = cur
           /\ pc' = "wait" => fire' = {}
  BY DoneType DEF TypeOK, ReadDone, Done, Continue

LEMMA CloseType ==
    ASSUME TypeOK, NEW c \in Conns, CloseEvent(c)
    PROVE  /\ status' \in [Conns -> {"none", "open", "closed"}]
           /\ interest' \in [Conns -> SUBSET {"in", "out"}]
           /\ in' \in [Conns -> Seq(1..Lines)]
           /\ out' \in [Conns -> Seq(Units)]
  BY DEF TypeOK, CloseEvent

LEMMA RoomType ==
    ASSUME TypeOK, NEW c \in Conns, NEW s \in Seq(Units)
    PROVE  /\ Accepted(c, s) \in 0..Len(s)
           /\ Len(tx[c]) + Accepted(c, s) <= SndCap
           /\ Len(tx[c]) \in Nat /\ Len(s) \in Nat
  <1>1. tx[c] \in Seq(Units) /\ Len(tx[c]) \in Nat /\ Len(s) \in Nat /\ Len(tx[c]) <= SndCap
    BY LenProperties DEF TypeOK
  <1>2. SndCap \in Nat
    BY EchoAssumption
  <1> DEFINE a == Len(tx[c])
             b == Len(s)
  <1>3. Accepted(c, s) = IF SndCap - a < b THEN SndCap - a ELSE b
    BY DEF Accepted, Room
  <1>4. a \in Nat /\ b \in Nat /\ a <= SndCap
    BY <1>1
  <1> HIDE DEF a, b
  <1>5. Accepted(c, s) \in 0..b /\ a + Accepted(c, s) <= SndCap
    BY <1>2, <1>3, <1>4
  <1> QED BY <1>4, <1>5 DEF a, b

\* What write(2) takes goes to the client, the rest stays.
LEMMA SentType ==
    ASSUME TypeOK, NEW c \in Conns, NEW s \in Seq(Units)
    PROVE  LET w == Accepted(c, s)
           IN  /\ tx[c] \o SubSeq(s, 1, w) \in Seq(Units)
               /\ Len(tx[c] \o SubSeq(s, 1, w)) <= SndCap
               /\ SubSeq(s, w + 1, Len(s)) \in Seq(Units)
               /\ Len(SubSeq(s, w + 1, Len(s))) = Len(s) - w
  <1> DEFINE w == Accepted(c, s)
             t == SubSeq(s, 1, w)
             u == SubSeq(s, w + 1, Len(s))
  <1>1. w \in 0..Len(s) /\ Len(tx[c]) + w <= SndCap /\ Len(tx[c]) \in Nat /\ Len(s) \in Nat
    BY RoomType
  <1>2. tx[c] \in Seq(Units)
    BY DEF TypeOK
  <1> HIDE DEF w
  <1>3. \A i \in 1..Len(s) : s[i] \in Units
    BY ElementOfSeq
  <1>4. t \in Seq(Units) /\ Len(t) = w
    <2>1. t \in Seq(Units) /\ Len(t) = IF 1 <= w THEN w - 1 + 1 ELSE 0
      <3>1. \A i \in 1..w : s[i] \in Units
        BY <1>1, <1>3
      <3> QED BY <1>1, <3>1, SubSeqProperties
    <2> QED BY <1>1, <2>1
  <1>5. u \in Seq(Units) /\ Len(u) = Len(s) - w
    <2>1. u \in Seq(Units) /\ Len(u) = IF w + 1 <= Len(s) THEN Len(s) - (w + 1) + 1 ELSE 0
      <3>1. \A i \in (w + 1)..Len(s) : s[i] \in Units
        BY <1>1, <1>3
      <3> QED BY <1>1, <3>1, SubSeqProperties
    <2> QED BY <1>1, <2>1
  <1> HIDE DEF t, u
  <1>6. tx[c] \o t \in Seq(Units) /\ Len(tx[c] \o t) = Len(tx[c]) + w
    BY <1>2, <1>4, ConcatProperties
  <1> QED BY <1>1, <1>5, <1>6 DEF w, t, u

\* write_socket keeps the types, touches no other event, and leaves the event
\* asking for EPOLLOUT exactly if a part of the reply is still queued.
LEMMA WriteSocket ==
    ASSUME TypeOK, NEW c \in Conns, NEW k \in 1..Lines,
           write_socket(c, Echo(k)),
           "in" \in interest[c],
           "out" \in interest[c] <=> out[c] /= <<>>
    PROVE  /\ tx' \in [Conns -> Seq(Units)] /\ \A d \in Conns : Len(tx'[d]) <= SndCap
           /\ out' \in [Conns -> Seq(Units)]
           /\ interest' \in [Conns -> SUBSET {"in", "out"}]
           /\ dropped' \subseteq Conns
           /\ status' = status
           /\ \A d \in Conns \ {c} : out'[d] = out[d] /\ interest'[d] = interest[d]
           /\ "in" \in interest'[c]
           /\ "out" \in interest'[c] <=> out'[c] /= <<>>
  <1> DEFINE reply == Echo(k)
  <1>1. reply \in Seq(Units) /\ Len(reply) = 2
    BY EchoType
  <1>2. /\ tx \in [Conns -> Seq(Units)] /\ \A d \in Conns : Len(tx[d]) <= SndCap
        /\ out \in [Conns -> Seq(Units)]
        /\ interest \in [Conns -> SUBSET {"in", "out"}]
        /\ dropped \subseteq Conns
    BY DEF TypeOK
  <1> HIDE DEF reply
  <1>3. CASE out[c] /= <<>>
    <2>1. /\ out' = [out EXCEPT ![c] = Put(out[c], reply, OutCap)]
          /\ dropped' = dropped \cup Refused(out[c], reply, OutCap, c)
          /\ UNCHANGED <<tx, status, interest>>
      BY <1>3, Zenon DEF write_socket, Queue, reply
    <2> DEFINE q == Put(out[c], reply, OutCap)
    <2>2. q \in Seq(Units)
      BY <1>1, <1>2, PutType
    <2>3. q /= <<>>
      <3>1. Len(out[c]) \in Nat \ {0}
        BY <1>2, <1>3, EmptySeq, LenProperties
      <3>2. Len(out[c] \o reply) /= 0
        BY <1>1, <1>2, <3>1, ConcatProperties
      <3> QED BY <1>3, <3>2 DEF Put
    <2>4. dropped' \subseteq Conns
      BY <1>2, <2>1 DEF Refused
    <2> HIDE DEF q
    <2> QED BY <1>2, <1>3, <2>1, <2>2, <2>3, <2>4 DEF q
  <1>4. CASE out[c] = <<>>
    <2> DEFINE w == Accepted(c, reply)
               rest == SubSeq(reply, w + 1, Len(reply))
               given == tx[c] \o SubSeq(reply, 1, w)
    <2>1. /\ tx' = [tx EXCEPT ![c] = given]
          /\ out' = [out EXCEPT ![c] = Put(<<>>, rest, OutCap)]
          /\ dropped' = dropped \cup Refused(<<>>, rest, OutCap, c)
          /\ interest' = IF rest = <<>> THEN interest
                         ELSE [interest EXCEPT ![c] = {"in", "out"}]
          /\ UNCHANGED status
      BY <1>4, Zenon DEF write_socket, Queue, reply
    <2>2. /\ given \in Seq(Units) /\ Len(given) <= SndCap
          /\ rest \in Seq(Units) /\ Len(rest) = Len(reply) - w /\ w \in 0..Len(reply)
      BY <1>1, SentType, RoomType, Zenon
    <2> HIDE DEF w, rest, given
    <2>3. Put(<<>>, rest, OutCap) = rest
      <3>1. Len(<<>>) + Len(rest) <= OutCap
        BY <1>1, <2>2, EchoAssumption
      <3>2. <<>> \o rest = rest
        BY <2>2, ConcatEmptySeq
      <3> QED BY <3>1, <3>2 DEF Put, Fits
    <2>4. dropped' \subseteq Conns
      BY <1>2, <2>1 DEF Refused
    <2> QED BY <1>2, <1>4, <2>1, <2>2, <2>3, <2>4
  <1> QED BY <1>3, <1>4
-----------------------------------------------------------------------------
(* Type correctness.                                                       *)

LEMMA InitTypeOK == Init => TypeOK
  <1>1. <<>> \in Seq(1..Lines) /\ <<>> \in Seq(Units) /\ <<>> \in Seq(Conns) /\ Len(<<>>) = 0
    OBVIOUS
  <1>2. 0 \in 0..Lines /\ 0 <= SndCap
    BY EchoAssumption
  <1> SUFFICES ASSUME Init PROVE TypeOK
    OBVIOUS
  <1>3. /\ rx \in [Conns -> Seq(1..Lines)] /\ got \in [Conns -> Seq(Units)]
        /\ in \in [Conns -> Seq(1..Lines)] /\ out \in [Conns -> Seq(Units)]
    BY <1>1, Zenon DEF Init
  <1>4. tx \in [Conns -> Seq(Units)] /\ \A c \in Conns : Len(tx[c]) <= SndCap
    BY <1>1, <1>2 DEF Init
  <1>5. queue \in Seq(Conns) /\ sent \in [Conns -> 0..Lines]
    BY <1>1, <1>2 DEF Init
  <1>6. /\ peer \in [Conns -> {"idle", "up", "fin", "rst"}]
        /\ status \in [Conns -> {"none", "open", "closed"}]
        /\ interest \in [Conns -> SUBSET {"in", "out"}]
        /\ slot \in [Conns -> Nat] /\ iter \in Nat
    BY DEF Init, Listener
  <1>7. /\ pc = "wait" /\ fire = {} /\ cur = NoEvent /\ num = FALSE
        /\ torn = {} /\ late = {} /\ dropped = {}
    BY DEF Init
  <1> QED BY <1>3, <1>4, <1>5, <1>6, <1>7 DEF TypeOK

LEMMA MaskType == ASSUME TypeOK, NEW c \in Conns PROVE Mask(c) \in SUBSET {"in", "out"}
  BY DEF TypeOK, Mask

LEMMA ReadyType == ASSUME TypeOK PROVE Ready \subseteq Fired
  BY MaskType DEF Ready, Fired

LEMMA ClientTypeOK ==
    ASSUME TypeOK, NEW c \in Conns, Connect(c) \/ Send(c) \/ Recv(c) \/ Fin(c) \/ Reset(c)
    PROVE  TypeOK'
  <1>1. CASE Connect(c)
    <2>1. Append(queue, c) \in Seq(Conns)
      BY AppendProperties DEF TypeOK
    <2> QED BY <1>1, <2>1 DEF TypeOK, Connect, event, loop
  <1>2. CASE Send(c)
    <2>1. sent[c] + 1 \in 1..Lines /\ sent[c] + 1 \in 0..Lines
      BY <1>2, EchoAssumption DEF TypeOK, Send
    <2>2. Append(rx[c], sent[c] + 1) \in Seq(1..Lines)
      BY <2>1, AppendProperties DEF TypeOK
    <2> QED BY <1>2, <2>1, <2>2 DEF TypeOK, Send, event, loop
  <1>3. CASE Recv(c)
    <2>1. /\ Head(tx[c]) \in Units /\ Tail(tx[c]) \in Seq(Units)
          /\ Len(Tail(tx[c])) <= SndCap
      <3>1. tx[c] \in Seq(Units) /\ tx[c] /= <<>> /\ Len(tx[c]) <= SndCap /\ SndCap \in Nat
        BY <1>3, EchoAssumption DEF TypeOK, Recv
      <3>2. Len(tx[c]) \in Nat \ {0} /\ Len(Tail(tx[c])) = Len(tx[c]) - 1
        BY <3>1, TailType
      <3>3. Len(tx[c]) - 1 <= SndCap
        BY <3>1, <3>2
      <3> QED BY <3>1, <3>2, <3>3, TailType
    <2>2. Append(got[c], Head(tx[c])) \in Seq(Units)
      BY <2>1, AppendProperties DEF TypeOK
    <2> QED BY <1>3, <2>1, <2>2 DEF TypeOK, Recv, event, loop
  <1>4. CASE Fin(c)
    BY <1>4 DEF TypeOK, Fin, event, loop
  <1>5. CASE Reset(c)
    BY <1>5 DEF TypeOK, Reset, event, loop
  <1> QED BY <1>1, <1>2, <1>3, <1>4, <1>5

LEMMA LoopTypeOK ==
    ASSUME TypeOK, EpollWait \/ Dispatch \/ Accept \/ AcceptFail, BatchOK
    PROVE  TypeOK'
  <1>1. CASE EpollWait
    BY <1>1, ReadyType DEF TypeOK, EpollWait, client, event
  <1>2. CASE Dispatch
    BY <1>2 DEF TypeOK, Dispatch, client, event
  <1>3. CASE Accept
    <2>1. queue /= <<>> /\ queue \in Seq(Conns)
      BY <1>3 DEF Accept, BatchOK, TypeOK
    <2>2. Head(queue) \in Conns /\ Tail(queue) \in Seq(Conns)
      BY <2>1, TailType
    <2>3. iter' \in Nat /\ slot' \in [Conns -> Nat]
      <3>1. PICK i \in (iter + 1)..(iter + 1 + MAX_CONN) :
                 iter' = i /\ slot' = [slot EXCEPT ![Head(queue)] = i]
        BY <1>3 DEF Accept
      <3>2. i \in Nat
        BY EchoAssumption DEF TypeOK
      <3> QED BY <3>1, <3>2 DEF TypeOK
    <2>4. /\ pc' \in {"wait", "fire"} /\ fire' \subseteq Fired
          /\ cur' = NoEvent /\ num' = FALSE
      BY <1>3 DEF Accept, Continue, TypeOK
    <2>5. /\ queue' = Tail(queue)
          /\ status' = [status EXCEPT ![Head(queue)] = "open"]
          /\ interest' = [interest EXCEPT ![Head(queue)] = {"in"}]
          /\ UNCHANGED <<peer, sent, rx, tx, got, in, out, torn, late, dropped>>
      BY <1>3 DEF Accept
    <2> QED BY <2>2, <2>3, <2>4, <2>5 DEF TypeOK
  <1>4. CASE AcceptFail
    BY <1>4 DEF TypeOK, AcceptFail, Continue, client, event
  <1> QED BY <1>1, <1>2, <1>3, <1>4

LEMMA ReadTypeOK ==
    ASSUME TypeOK, BatchOK, ReadChunk \/ ReadClose \/ ReadAgain
    PROVE  TypeOK'
  <1>1. CASE ReadChunk
    <2> DEFINE c == Current
               k == IF Len(rx[c]) < ReadMax THEN Len(rx[c]) ELSE ReadMax
               chunk == SubSeq(rx[c], 1, k)
               left == SubSeq(rx[c], k + 1, Len(rx[c]))
    <2>1. c \in Conns
      BY <1>1, CurrentType DEF ReadChunk
    <2>2. rx[c] \in Seq(1..Lines) /\ in[c] \in Seq(1..Lines) /\ Len(rx[c]) \in Nat
      BY <2>1, LenProperties DEF TypeOK
    <2>3. k \in 0..Len(rx[c])
      BY <2>2, EchoAssumption
    <2>4. chunk \in Seq(1..Lines) /\ left \in Seq(1..Lines)
      <3> HIDE DEF k
      <3>1. k + 1 \in 1..(Len(rx[c]) + 1) /\ 1 \in 1..(Len(rx[c]) + 1) /\ Len(rx[c]) \in 0..Len(rx[c])
        BY <2>2, <2>3
      <3> QED BY <2>2, <2>3, <3>1, SubSeqType
    <2>5. Put(in[c], chunk, InCap) \in Seq(1..Lines)
      BY <2>2, <2>4, PutType
    <2>6. /\ rx' = [rx EXCEPT ![c] = left]
          /\ in' = [in EXCEPT ![c] = Put(in[c], chunk, InCap)]
          /\ dropped' = dropped \cup Refused(in[c], chunk, InCap, c)
          /\ num' = TRUE
          /\ UNCHANGED <<client, tx, status, interest, out, slot, iter, pc, fire, cur, torn, late>>
      BY <1>1, Zenon DEF ReadChunk
    <2>7. dropped' \subseteq Conns
      BY <2>1, <2>6 DEF Refused, TypeOK
    <2> HIDE DEF c, k, chunk, left
    <2> QED BY <2>1, <2>4, <2>5, <2>6, <2>7 DEF TypeOK, client
  <1>2. CASE ReadClose
    <2>1. Current \in Conns
      BY <1>2, CurrentType DEF ReadClose
    <2> QED BY <1>2, <2>1, CloseType, ReadDoneType DEF TypeOK, ReadClose, client
  <1>3. CASE ReadAgain
    <2>1. /\ pc' \in {"wait", "fire", "reply", "write"} /\ fire' = fire
          /\ cur' \in Fired \cup {NoEvent} /\ num' \in BOOLEAN
      BY <1>3, ReadDoneType DEF ReadAgain, TypeOK
    <2> QED BY <1>3, <2>1 DEF TypeOK, ReadAgain, client, event
  <1> QED BY <1>1, <1>2, <1>3

LEMMA ReplyTypeOK ==
    ASSUME TypeOK, BatchOK, WriteInterestMatchesBacklog, ReplyNothing \/ Reply \/ ReplyError
    PROVE  TypeOK'
  <1>1. CASE ReplyNothing
    BY <1>1, ReadDoneType DEF TypeOK, ReplyNothing, client, event
  <1>2. CASE Reply
    <2> DEFINE c == Current
    <2>1. c \in Conns /\ status[c] = "open"
      BY <1>2, CurrentType DEF Reply, BatchOK, Current
    <2>2. in[c] \in Seq(1..Lines) /\ in[c] /= <<>>
      BY <1>2, <2>1 DEF TypeOK, Reply
    <2>3. Head(in[c]) \in 1..Lines /\ Tail(in[c]) \in Seq(1..Lines)
      BY <2>2, TailType
    <2>4. /\ in' = [in EXCEPT ![c] = Tail(in[c])]
          /\ write_socket(c, Echo(Head(in[c])))
          /\ ReadDone
          /\ UNCHANGED <<client, rx, slot, iter, torn, late>>
      BY <1>2, Zenon DEF Reply
    <2>5. "in" \in interest[c] /\ ("out" \in interest[c] <=> out[c] /= <<>>)
      BY <2>1 DEF WriteInterestMatchesBacklog
    <2> HIDE DEF c
    <2>6. /\ tx' \in [Conns -> Seq(Units)] /\ \A d \in Conns : Len(tx'[d]) <= SndCap
          /\ out' \in [Conns -> Seq(Units)]
          /\ interest' \in [Conns -> SUBSET {"in", "out"}]
          /\ dropped' \subseteq Conns
          /\ status' = status
      BY <2>1, <2>3, <2>4, <2>5, WriteSocket
    <2> QED BY <2>1, <2>3, <2>4, <2>6, ReadDoneType DEF TypeOK, client
  <1>3. CASE ReplyError
    <2>1. Current \in Conns
      BY <1>3, CurrentType DEF ReplyError
    <2> QED BY <1>3, <2>1, CloseType, ReadDoneType DEF TypeOK, ReplyError, client
  <1> QED BY <1>1, <1>2, <1>3

\* Flush moves what the kernel takes and drops EPOLLOUT when nothing is left.
LEMMA FlushShape ==
    ASSUME TypeOK, BatchOK, EventsOK, WriteInterestMatchesBacklog, Flush
    PROVE  LET c == Current
           IN  /\ c \in Conns /\ status[c] = "open"
               /\ tx' \in [Conns -> Seq(Units)] /\ \A d \in Conns : Len(tx'[d]) <= SndCap
               /\ out' \in [Conns -> Seq(Units)]
               /\ interest' \in [Conns -> SUBSET {"in", "out"}]
               /\ \A d \in Conns \ {c} : out'[d] = out[d] /\ interest'[d] = interest[d]
               /\ "in" \in interest'[c]
               /\ "out" \in interest'[c] <=> out'[c] /= <<>>
  <1> DEFINE c == Current
             w == Accepted(c, out[c])
             rest == SubSeq(out[c], w + 1, Len(out[c]))
             given == tx[c] \o SubSeq(out[c], 1, w)
  <1>1. c \in Conns /\ status[c] = "open" /\ out[c] /= <<>>
    BY CurrentType DEF Flush, Backlogged, BatchOK, Current
  <1>2. out[c] \in Seq(Units) /\ Len(out[c]) \in Nat
    BY <1>1, LenProperties DEF TypeOK
  <1>3. /\ given \in Seq(Units) /\ Len(given) <= SndCap
        /\ rest \in Seq(Units) /\ Len(rest) = Len(out[c]) - w /\ w \in 0..Len(out[c])
    BY <1>1, <1>2, SentType, RoomType, Zenon
  <1>4. /\ tx' = [tx EXCEPT ![c] = given]
        /\ out' = [out EXCEPT ![c] = rest]
        /\ interest' = IF w = Len(out[c]) THEN [interest EXCEPT ![c] = {"in"}] ELSE interest
    BY Zenon DEF Flush
  <1>5. "in" \in interest[c] /\ "out" \in interest[c]
    BY <1>1 DEF WriteInterestMatchesBacklog
  <1> HIDE DEF w, rest, given
  <1>6. w = Len(out[c]) <=> rest = <<>>
    BY <1>2, <1>3, EmptySeq, LenProperties
  <1> HIDE DEF c
  <1>7. /\ tx' \in [Conns -> Seq(Units)] /\ \A d \in Conns : Len(tx'[d]) <= SndCap
        /\ out' \in [Conns -> Seq(Units)]
        /\ interest' \in [Conns -> SUBSET {"in", "out"}]
    BY <1>1, <1>3, <1>4 DEF TypeOK
  <1>8. \A d \in Conns \ {c} : out'[d] = out[d] /\ interest'[d] = interest[d]
    BY <1>1, <1>4 DEF TypeOK
  <1>9. out'[c] = rest /\ (interest'[c] = IF w = Len(out[c]) THEN {"in"} ELSE interest[c])
    BY <1>1, <1>4 DEF TypeOK
  <1>10. "in" \in interest'[c] /\ ("out" \in interest'[c] <=> out'[c] /= <<>>)
    BY <1>5, <1>6, <1>9
  <1> QED BY <1>1, <1>7, <1>8, <1>10 DEF c

LEMMA WriteTypeOK ==
    ASSUME TypeOK, BatchOK, EventsOK, WriteInterestMatchesBacklog, WriteCallback
    PROVE  TypeOK'
  <1>1. CASE WriteNothing
    BY <1>1, DoneType DEF TypeOK, WriteNothing, client, event
  <1>2. CASE Flush
    <2>1. /\ tx' \in [Conns -> Seq(Units)] /\ \A d \in Conns : Len(tx'[d]) <= SndCap
          /\ out' \in [Conns -> Seq(Units)]
          /\ interest' \in [Conns -> SUBSET {"in", "out"}]
      BY <1>2, FlushShape
    <2>2. Done /\ UNCHANGED <<client, rx, status, in, slot, iter, torn, late, dropped>>
      BY <1>2, Zenon DEF Flush
    <2> QED BY <2>1, <2>2, DoneType DEF TypeOK, client
  <1>3. CASE FlushError
    <2>1. Current \in Conns
      BY <1>3, CurrentType DEF FlushError
    <2> QED BY <1>3, <2>1, CloseType, DoneType DEF TypeOK, FlushError, client
  <1> QED BY <1>1, <1>2, <1>3 DEF WriteCallback
-----------------------------------------------------------------------------
(* The rest of the inductive invariant.                                    *)

Rest == EventsOK /\ BatchOK /\ WriteInterestMatchesBacklog /\ NoLateWrite

LEMMA InitRest == Init => Rest
  BY DEF Init, Rest, EventsOK, BatchOK, WriteInterestMatchesBacklog, NoLateWrite

\* A callback's last step: the rest of the batch is untouched, and if write_fn
\* follows it is on an event whose ring nothing has moved.
LEMMA ReadDoneBatch ==
    ASSUME TypeOK, BatchOK, pc \in {"read", "reply"}, ReadDone,
           torn' = torn, queue' = queue,
           \A d \in Conns \ {Current} : status'[d] = status[d],
           status'[Current] \in {"open", "closed"}
    PROVE  BatchOK'
  <1>1. /\ pc' \in {"wait", "fire", "write"} /\ fire' = fire
        /\ pc' = "write" => cur' = cur
        /\ pc' = "wait" => fire' = {}
    BY ReadDoneType
  <1>2. Current \in Conns /\ Current \notin torn /\ cur \in Fired \ {Accepting}
    BY CurrentType DEF BatchOK, Current
  <1>3. \A e \in fire : e.et /= Current
    BY DEF BatchOK, Current
  <1>4. \A e \in fire \ {Accepting} : e.et \in Conns /\ status'[e.et] = "open"
    <2>1. \A e \in fire \ {Accepting} : e.et \in Conns
      BY DEF TypeOK, Fired
    <2> QED BY <1>3, <2>1 DEF BatchOK
  <1>5. \A c \in torn : status'[c] = "closed"
    BY <1>2 DEF BatchOK, TypeOK
  <1> QED BY <1>1, <1>2, <1>3, <1>4, <1>5 DEF BatchOK, Current

\* The same for the last step of write_fn, which may tear the current event.
LEMMA DoneBatch ==
    ASSUME TypeOK, BatchOK, pc = "write", Done,
           torn' \subseteq torn \cup {Current}, queue' = queue,
           \A d \in Conns \ {Current} : status'[d] = status[d],
           Current \in torn' => status'[Current] = "closed"
    PROVE  BatchOK'
  <1>1. pc' = (IF fire = {} THEN "wait" ELSE "fire") /\ fire' = fire
    BY DEF Done, Continue
  <1>2. Current \in Conns /\ Current \notin torn
    BY CurrentType DEF BatchOK, Current
  <1>3. \A e \in fire : e.et /= Current
    BY DEF BatchOK, Current
  <1>4. \A e \in fire \ {Accepting} : e.et \in Conns /\ status'[e.et] = "open"
    <2>1. \A e \in fire \ {Accepting} : e.et \in Conns
      BY DEF TypeOK, Fired
    <2> QED BY <1>3, <2>1 DEF BatchOK
  <1>5. \A c \in torn' : status'[c] = "closed"
    BY <1>2 DEF BatchOK, TypeOK
  <1> QED BY <1>1, <1>3, <1>4, <1>5 DEF BatchOK

\* Closing the event being handled disturbs no other.
LEMMA CloseRest ==
    ASSUME TypeOK, EventsOK, WriteInterestMatchesBacklog,
           NEW c \in Conns, status[c] = "open", CloseEvent(c), UNCHANGED <<peer, queue>>
    PROVE  /\ EventsOK'
           /\ WriteInterestMatchesBacklog'
           /\ \A d \in Conns \ {c} : status'[d] = status[d]
           /\ status'[c] = "closed" /\ out'[c] = <<>>
  <1>1. /\ status' = [status EXCEPT ![c] = "closed"]
        /\ interest' = [interest EXCEPT ![c] = {}]
        /\ out' = [out EXCEPT ![c] = <<>>]
    BY DEF CloseEvent
  <1>2. \A i \in 1..Len(queue) : queue[i] \in Conns /\ queue[i] /= c
    BY ElementOfSeq DEF TypeOK, EventsOK
  <1>3. /\ status'[c] = "closed" /\ out'[c] = <<>>
        /\ \A d \in Conns \ {c} : /\ status'[d] = status[d]
                                 /\ out'[d] = out[d]
                                 /\ interest'[d] = interest[d]
    BY <1>1 DEF TypeOK
  <1>4. \A d \in Conns : peer'[d] = "idle" => status'[d] = "none"
    BY <1>3 DEF EventsOK
  <1>5. \A d \in Conns : status'[d] /= "open" => out'[d] = <<>>
    BY <1>3 DEF EventsOK
  <1>6. \A i \in 1..Len(queue) : status'[queue[i]] = "none"
    BY <1>2, <1>3 DEF EventsOK
  <1>7. EventsOK'
    BY <1>4, <1>5, <1>6 DEF EventsOK
  <1>8. WriteInterestMatchesBacklog'
    BY <1>3 DEF WriteInterestMatchesBacklog
  <1> QED BY <1>3, <1>7, <1>8

LEMMA ClientRest ==
    ASSUME TypeOK, Rest, NEW c \in Conns, Connect(c) \/ Send(c) \/ Recv(c) \/ Fin(c) \/ Reset(c)
    PROVE  Rest'
  <1>1. CASE Connect(c)
    <2>1. /\ peer[c] = "idle" /\ peer' = [peer EXCEPT ![c] = "up"]
          /\ queue' = Append(queue, c)
          /\ UNCHANGED <<event, loop, late>>
      BY <1>1 DEF Connect
    <2>2. queue \in Seq(Conns) /\ Len(queue) \in Nat
      BY LenProperties DEF TypeOK
    <2>3. /\ Len(queue') = Len(queue) + 1
          /\ \A i \in 1..Len(queue) : queue'[i] = queue[i]
          /\ queue'[Len(queue) + 1] = c
      BY <2>1, <2>2, AppendProperties
    <2>4. \A i \in 1..Len(queue) : queue[i] \in Conns /\ queue[i] /= c
      BY <2>1, <2>2, ElementOfSeq DEF Rest, EventsOK
    <2>5. \A i \in 1..Len(queue') : i \in 1..Len(queue) \/ i = Len(queue) + 1
      BY <2>2, <2>3
    <2>6. EventsOK'
      <3>1. peer'[c] = "up" /\ \A d \in Conns \ {c} : peer'[d] = peer[d]
        BY <2>1 DEF TypeOK
      <3>2. status' = status /\ out' = out /\ status[c] = "none"
        BY <2>1 DEF Rest, EventsOK, event
      <3>3. \A i \in 1..Len(queue') : status'[queue'[i]] = "none" /\ peer'[queue'[i]] /= "idle"
        <4>1. ASSUME NEW i \in 1..Len(queue)
              PROVE  status'[queue'[i]] = "none" /\ peer'[queue'[i]] /= "idle"
          BY <2>3, <2>4, <3>1, <3>2 DEF Rest, EventsOK
        <4> QED BY <2>3, <2>5, <3>1, <3>2, <4>1
      <3>4. \A i, j \in 1..Len(queue') : queue'[i] = queue'[j] => i = j
        BY <2>3, <2>4, <2>5 DEF Rest, EventsOK
      <3>5. \A d \in Conns : peer'[d] = "idle" => status'[d] = "none"
        BY <3>1, <3>2 DEF Rest, EventsOK
      <3> QED BY <3>2, <3>3, <3>4, <3>5 DEF Rest, EventsOK
    <2>7. queue' /= <<>>
      BY <2>2, <2>3
    <2> QED BY <2>1, <2>6, <2>7
            DEF Rest, BatchOK, WriteInterestMatchesBacklog, NoLateWrite, event, loop
  <1>2. CASE Send(c) \/ Recv(c)
    BY <1>2 DEF Rest, EventsOK, BatchOK, WriteInterestMatchesBacklog, NoLateWrite,
                Send, Recv, event, loop
  <1>3. CASE Fin(c) \/ Reset(c)
    <2>1. /\ \A d \in Conns : peer'[d] = "idle" => peer[d] = "idle"
          /\ \A d \in Conns : peer[d] /= "idle" => peer'[d] /= "idle"
          /\ UNCHANGED <<queue, event, loop, late>>
      BY <1>3 DEF Fin, Reset, TypeOK
    <2>2. \A i \in 1..Len(queue) : queue[i] \in Conns
      BY ElementOfSeq DEF TypeOK
    <2>3. EventsOK'
      BY <2>1, <2>2 DEF Rest, EventsOK, event
    <2> QED BY <2>1, <2>3 DEF Rest, BatchOK, WriteInterestMatchesBacklog, NoLateWrite, event, loop
  <1> QED BY <1>1, <1>2, <1>3

LEMMA LoopRest ==
    ASSUME TypeOK, Rest, EpollWait \/ Dispatch \/ Accept \/ AcceptFail
    PROVE  Rest'
  <1>1. CASE EpollWait
    <2>1. /\ pc = "wait" /\ pc' = "fire" /\ fire' = Ready
          /\ UNCHANGED <<client, event, late, cur>>
      BY <1>1 DEF EpollWait
    <2>2. \A e \in Ready \ {Accepting} : e.et \in Conns /\ e = [et |-> e.et, mask |-> Mask(e.et)]
                                         /\ status[e.et] = "open"
      BY DEF Ready, Mask
    <2>3. "listen" \notin Conns
      BY EchoAssumption
    <2>4. \A e, f \in Ready : e.et = f.et => e = f
      BY <2>2, <2>3 DEF Accepting
    <2>5. Accepting \in Ready => queue /= <<>>
      BY <2>3 DEF Ready, Accepting
    <2>6. BatchOK'
      BY <2>1, <2>2, <2>4, <2>5 DEF Rest, BatchOK, client, event
    <2> QED BY <2>1, <2>6 DEF Rest, EventsOK, WriteInterestMatchesBacklog, NoLateWrite, client, event
  <1>2. CASE Dispatch
    <2>1. PICK e \in fire \ {Accepting} :
               cur' = e /\ fire' = fire \ {e} /\ pc' = IF "in" \in e.mask THEN "read" ELSE "write"
      BY <1>2 DEF Dispatch
    <2>2. pc = "fire" /\ UNCHANGED <<client, event, late>>
      BY <1>2 DEF Dispatch
    <2>3. e \in Fired /\ status[e.et] = "open" /\ e.et \notin torn
      BY <2>1 DEF Rest, BatchOK, TypeOK
    <2>4. \A f \in fire \ {e} : f.et /= e.et
      BY <2>1 DEF Rest, BatchOK
    <2>5. BatchOK'
      BY <2>1, <2>2, <2>3, <2>4 DEF Rest, BatchOK, client, event
    <2> QED BY <2>2, <2>5 DEF Rest, EventsOK, WriteInterestMatchesBacklog, NoLateWrite, client, event
  <1>3. CASE Accept
    <2> DEFINE c == Head(queue)
    <2>1. /\ pc = "fire" /\ Accepting \in fire /\ queue' = Tail(queue)
          /\ status' = [status EXCEPT ![c] = "open"]
          /\ interest' = [interest EXCEPT ![c] = {"in"}]
          /\ Continue(fire \ {Accepting})
          /\ UNCHANGED <<peer, out, torn, late>>
      BY <1>3 DEF Accept
    <2>2. queue \in Seq(Conns) /\ queue /= <<>>
      BY <2>1 DEF TypeOK, Rest, BatchOK
    <2>3. /\ c \in Conns /\ c = queue[1] /\ Len(queue) \in Nat \ {0}
          /\ Len(queue') = Len(queue) - 1
          /\ \A i \in 1..Len(queue') : queue'[i] = queue[i + 1] /\ i + 1 \in 1..Len(queue)
      BY <2>1, <2>2, TailType
    <2>4. 1 \in 1..Len(queue) /\ \A i \in 1..Len(queue') : i + 1 /= 1
      BY <2>3
    <2>5. status[c] = "none" /\ peer[c] /= "idle" /\ out[c] = <<>>
      BY <2>3, <2>4 DEF Rest, EventsOK
    <2> HIDE DEF c
    <2>6. \A i \in 1..Len(queue') : queue'[i] /= c /\ queue'[i] \in Conns
      <3>1. \A i \in 1..Len(queue') : queue'[i] \in Conns
        BY <2>2, <2>3, ElementOfSeq
      <3>2. \A i, j \in 1..Len(queue) : queue[i] = queue[j] => i = j
        BY DEF Rest, EventsOK
      <3>3. \A i \in 1..Len(queue') : queue[i + 1] /= queue[1]
        BY <2>3, <2>4, <3>2
      <3> QED BY <2>3, <3>1, <3>3
    <2>7. \A i, j \in 1..Len(queue') : queue'[i] = queue'[j] => i = j
      <3>1. \A i, j \in 1..Len(queue') : i + 1 = j + 1 => i = j
        BY <2>3
      <3> QED BY <2>3, <3>1 DEF Rest, EventsOK
    <2>8. EventsOK'
      <3>1. status'[c] = "open" /\ \A d \in Conns \ {c} : status'[d] = status[d]
        BY <2>1, <2>3 DEF TypeOK
      <3>2. peer' = peer /\ out' = out
        BY <2>1
      <3>3. \A i \in 1..Len(queue') : status'[queue'[i]] = "none" /\ peer'[queue'[i]] /= "idle"
        BY <2>3, <2>6, <3>1, <3>2 DEF Rest, EventsOK
      <3>4. \A d \in Conns : peer'[d] = "idle" => status'[d] = "none"
        BY <2>5, <3>1, <3>2 DEF Rest, EventsOK
      <3>5. \A d \in Conns : status'[d] /= "open" => out'[d] = <<>>
        BY <3>1, <3>2 DEF Rest, EventsOK
      <3> QED BY <2>7, <3>3, <3>4, <3>5 DEF EventsOK
    <2>9. BatchOK'
      <3>1. \A e \in fire \ {Accepting} : e.et \in Conns /\ status'[e.et] = "open"
        BY <2>1, <2>3 DEF TypeOK, Fired, Rest, BatchOK
      <3>2. \A d \in torn : status'[d] = "closed"
        BY <2>1, <2>5 DEF TypeOK, Rest, BatchOK
      <3>3. fire' = fire \ {Accepting} /\ pc' = IF fire' = {} THEN "wait" ELSE "fire"
        BY <2>1 DEF Continue
      <3> QED BY <2>1, <3>1, <3>2, <3>3 DEF Rest, BatchOK
    <2>10. WriteInterestMatchesBacklog'
      BY <2>1, <2>3, <2>5 DEF Rest, WriteInterestMatchesBacklog, TypeOK
    <2> QED BY <2>1, <2>8, <2>9, <2>10 DEF Rest, NoLateWrite
  <1>4. CASE AcceptFail
    <2>1. /\ pc = "fire" /\ Accepting \in fire /\ Continue(fire \ {Accepting})
          /\ UNCHANGED <<client, event, late>>
      BY <1>4 DEF AcceptFail
    <2>2. fire' = fire \ {Accepting} /\ pc' = IF fire' = {} THEN "wait" ELSE "fire"
      BY <2>1 DEF Continue
    <2>3. BatchOK'
      BY <2>1, <2>2 DEF Rest, BatchOK, client, event
    <2> QED BY <2>1, <2>3 DEF Rest, EventsOK, WriteInterestMatchesBacklog, NoLateWrite, client, event
  <1> QED BY <1>1, <1>2, <1>3, <1>4

LEMMA ReadRest ==
    ASSUME TypeOK, Rest, ReadCallback
    PROVE  Rest'
  <1> DEFINE c == Current
  <1>1. pc \in {"read", "reply"} /\ c \in Conns /\ status[c] = "open"
    <2>1. pc \in {"read", "reply"}
      BY DEF ReadCallback, ReadChunk, ReadClose, ReadAgain, ReplyNothing, Reply, ReplyError
    <2> QED BY <2>1, CurrentType DEF Rest, BatchOK, Current
  <1>2. EventsOK /\ BatchOK /\ WriteInterestMatchesBacklog /\ NoLateWrite
    BY DEF Rest
  <1> HIDE DEF c
  <1>3. CASE ReadChunk
    <2>1. UNCHANGED <<client, status, interest, out, pc, fire, cur, torn, late>>
      BY <1>3 DEF ReadChunk
    <2> QED BY <1>2, <2>1
            DEF Rest, EventsOK, BatchOK, WriteInterestMatchesBacklog, NoLateWrite, client
  <1>4. CASE ReadClose \/ ReplyError
    <2>1. CloseEvent(c) /\ ReadDone /\ UNCHANGED <<peer, queue, torn, late>>
      BY <1>4 DEF ReadClose, ReplyError, client, c
    <2>2. /\ EventsOK' /\ WriteInterestMatchesBacklog'
          /\ \A d \in Conns \ {c} : status'[d] = status[d]
          /\ status'[c] = "closed"
      BY <1>1, <1>2, <2>1, CloseRest
    <2>3. BatchOK'
      BY <1>1, <1>2, <2>1, <2>2, ReadDoneBatch DEF c
    <2> QED BY <1>2, <2>1, <2>2, <2>3 DEF Rest, NoLateWrite
  <1>5. CASE ReadAgain \/ ReplyNothing
    <2>1. UNCHANGED <<client, event, late>>
      BY <1>5 DEF ReadAgain, ReplyNothing
    <2>2. BatchOK'
      <3>1. CASE ReadDone
        BY <1>1, <1>2, <2>1, <3>1, ReadDoneBatch DEF client, event, c
      <3>2. CASE pc' = "reply" /\ UNCHANGED <<fire, cur, num>>
        BY <1>1, <1>2, <2>1, <3>2 DEF BatchOK, client, event, c, Current
      <3> QED BY <1>5, <3>1, <3>2 DEF ReadAgain, ReplyNothing
    <2> QED BY <1>2, <2>1, <2>2
            DEF Rest, EventsOK, WriteInterestMatchesBacklog, NoLateWrite, client, event
  <1>6. CASE Reply
    <2>1. /\ in[c] /= <<>>
          /\ write_socket(c, Echo(Head(in[c])))
          /\ ReadDone
          /\ UNCHANGED <<client, torn, late>>
      BY <1>6, Zenon DEF Reply, c
    <2>2. Head(in[c]) \in 1..Lines
      BY <1>1, <2>1, TailType DEF TypeOK
    <2>3. "in" \in interest[c] /\ ("out" \in interest[c] <=> out[c] /= <<>>)
      BY <1>1, <1>2 DEF WriteInterestMatchesBacklog
    <2>4. /\ status' = status
          /\ \A d \in Conns \ {c} : out'[d] = out[d] /\ interest'[d] = interest[d]
          /\ "in" \in interest'[c]
          /\ "out" \in interest'[c] <=> out'[c] /= <<>>
      BY <1>1, <2>1, <2>2, <2>3, WriteSocket
    <2>5. EventsOK'
      BY <1>1, <1>2, <2>1, <2>4 DEF EventsOK, client
    <2>6. WriteInterestMatchesBacklog'
      BY <1>1, <1>2, <2>4 DEF WriteInterestMatchesBacklog
    <2>7. BatchOK'
      BY <1>1, <1>2, <2>1, <2>4, ReadDoneBatch DEF client, c
    <2> QED BY <1>2, <2>1, <2>5, <2>6, <2>7 DEF Rest, NoLateWrite
  <1> QED BY <1>3, <1>4, <1>5, <1>6 DEF ReadCallback

LEMMA WriteRest ==
    ASSUME TypeOK, Rest, WriteCallback
    PROVE  Rest'
  <1> DEFINE c == Current
  <1>1. pc = "write" /\ c \in Conns /\ c \notin torn
    <2>1. pc = "write"
      BY DEF WriteCallback, WriteNothing, Flush, FlushError
    <2> QED BY <2>1, CurrentType DEF Rest, BatchOK, Current
  <1>2. EventsOK /\ BatchOK /\ WriteInterestMatchesBacklog /\ NoLateWrite
    BY DEF Rest
  <1>3. CASE WriteNothing
    <2>1. Done /\ UNCHANGED <<client, event, late>>
      BY <1>3 DEF WriteNothing
    <2>2. BatchOK'
      BY <1>1, <1>2, <2>1, DoneBatch DEF client, event
    <2> QED BY <1>2, <2>1, <2>2
            DEF Rest, EventsOK, WriteInterestMatchesBacklog, NoLateWrite, client, event
  <1>4. CASE Flush
    <2>1. Done /\ UNCHANGED <<client, status, torn, late>>
      BY <1>4, Zenon DEF Flush
    <2>2. /\ status[c] = "open"
          /\ \A d \in Conns \ {c} : out'[d] = out[d] /\ interest'[d] = interest[d]
          /\ "in" \in interest'[c]
          /\ "out" \in interest'[c] <=> out'[c] /= <<>>
      BY <1>2, <1>4, FlushShape
    <2>3. BatchOK'
      BY <1>1, <1>2, <2>1, DoneBatch DEF client
    <2>4. EventsOK'
      BY <1>1, <1>2, <2>1, <2>2 DEF EventsOK, client
    <2>5. WriteInterestMatchesBacklog'
      BY <1>1, <1>2, <2>1, <2>2 DEF WriteInterestMatchesBacklog
    <2> QED BY <1>2, <2>1, <2>3, <2>4, <2>5 DEF Rest, NoLateWrite
  <1>5. CASE FlushError
    <2>1. /\ out[c] /= <<>> /\ CloseEvent(c) /\ Done
          /\ torn' = torn \cup {c}
          /\ late' = IF status[c] = "closed" THEN late \cup {c} ELSE late
          /\ UNCHANGED <<peer, queue>>
      BY <1>1, <1>5 DEF FlushError, Backlogged, client
    <2>2. status[c] = "open"
      BY <1>1, <1>2, <2>1 DEF EventsOK
    <2>3. /\ EventsOK' /\ WriteInterestMatchesBacklog'
          /\ \A d \in Conns \ {c} : status'[d] = status[d]
          /\ status'[c] = "closed"
      BY <1>1, <1>2, <2>1, <2>2, CloseRest
    <2>4. BatchOK'
      BY <1>1, <1>2, <2>1, <2>3, DoneBatch
    <2> QED BY <1>2, <2>1, <2>2, <2>3, <2>4 DEF Rest, NoLateWrite
  <1> QED BY <1>3, <1>4, <1>5 DEF WriteCallback

-----------------------------------------------------------------------------
\* The end of the process changes nothing but pc.
LEMMA DieInv == ASSUME ServerInv, AcceptOverrun \/ Sigpipe PROVE ServerInv'
  <1>1. Die
    BY DEF AcceptOverrun, Sigpipe
  <1>2. /\ pc' = "dead"
        /\ UNCHANGED <<peer, queue, sent, rx, tx, got, status, interest, in, out, slot, iter,
                      fire, cur, num, torn, late, dropped>>
    BY <1>1 DEF Die, client, event
  <1>3. TypeOK'
    BY <1>2 DEF ServerInv, TypeOK
  <1>4. BatchOK'
    BY <1>2 DEF ServerInv, BatchOK
  <1>5. EventsOK' /\ WriteInterestMatchesBacklog' /\ NoLateWrite'
    BY <1>2 DEF ServerInv, EventsOK, WriteInterestMatchesBacklog, NoLateWrite
  <1> QED BY <1>3, <1>4, <1>5 DEF ServerInv

LEMMA InitServerInv == Init => ServerInv
  BY InitTypeOK, InitRest DEF ServerInv, Rest

LEMMA NextServerInv == ASSUME ServerInv, [Next]_vars PROVE ServerInv'
  <1>1. TypeOK /\ Rest /\ EventsOK /\ BatchOK /\ WriteInterestMatchesBacklog
    BY DEF ServerInv, Rest
  <1>2. CASE \E c \in Conns : Connect(c) \/ Send(c) \/ Recv(c) \/ Fin(c) \/ Reset(c)
    BY <1>1, <1>2, ClientTypeOK, ClientRest DEF ServerInv, Rest
  <1>3. CASE EpollWait \/ Dispatch \/ Accept \/ AcceptFail
    BY <1>1, <1>3, LoopTypeOK, LoopRest DEF ServerInv, Rest
  <1>4. CASE ReadCallback
    <2>1. TypeOK'
      BY <1>1, <1>4, ReadTypeOK, ReplyTypeOK DEF ReadCallback
    <2> QED BY <1>1, <1>4, <2>1, ReadRest DEF ServerInv, Rest
  <1>5. CASE WriteCallback
    BY <1>1, <1>5, WriteTypeOK, WriteRest DEF ServerInv, Rest
  <1>6. CASE UNCHANGED vars
    BY <1>6 DEF ServerInv, TypeOK, EventsOK, BatchOK, WriteInterestMatchesBacklog, NoLateWrite, vars
  <1>7. CASE AcceptOverrun \/ Sigpipe
    BY <1>7, DieInv
  <1> QED BY <1>2, <1>3, <1>4, <1>5, <1>6, <1>7 DEF Next, Server

\* The server's inductive invariant.
THEOREM ServerInvariant == Spec => []ServerInv
  BY InitServerInv, NextServerInv, PTL DEF Spec

\* Every variable keeps its type, and no socket buffer overflows.
THEOREM TypeCorrect == Spec => []TypeOK
  <1>1. ServerInv => TypeOK
    BY DEF ServerInv
  <1> QED BY <1>1, ServerInvariant, PTL

\* An open event asks for EPOLLOUT exactly while it has a backlog, whatever the
\* order of its callbacks, the batch they run in and what its peer does.
THEOREM InterestMatchesBacklog == Spec => []WriteInterestMatchesBacklog
  <1>1. ServerInv => WriteInterestMatchesBacklog
    BY DEF ServerInv
  <1> QED BY <1>1, ServerInvariant, PTL

\* No callback writes to a descriptor the server has closed.
THEOREM NoWriteAfterClose == Spec => []NoLateWrite
  <1>1. ServerInv => NoLateWrite
    BY DEF ServerInv
  <1> QED BY <1>1, ServerInvariant, PTL
-----------------------------------------------------------------------------
(* The table of events.  While it has room its entries are given out in    *)
(* order: the search of _get_event_t then finds its first candidate free.  *)

LEMMA TableConstants == MAX_CONN \in Nat /\ MAX_CONN >= 2
  BY EchoAssumption

\* The next entry is the one after the last, and lies in the table.
LEMMA NextSlotIsNext ==
    ASSUME TypeOK, TableInv, Cardinality(accepted) < MAX_CONN - 2,
           NEW i \in (iter + 1)..(iter + 1 + MAX_CONN), NextSlot(i)
    PROVE  i = iter + 1 /\ InTable(i)
  <1> DEFINE n == Cardinality(accepted)
             k == iter + 1
  <1>1. n \in Nat
    BY FS_CardinalityType DEF TableInv
  <1> HIDE DEF n
  <1>2. /\ n < MAX_CONN - 2 /\ iter = 1 + n
        /\ \A c \in Conns : slot[c] <= iter
    BY <1>1, TableConstants DEF TableInv, Listener, n
  <1>3. \A c \in Conns : slot[c] \in Nat
    BY DEF TypeOK
  <1>4. k \in 0..MAX_CONN /\ k < MAX_CONN /\ k > 1 /\ k > iter
    BY <1>1, <1>2, TableConstants
  <1>5. Masked(k) = k
    <2>1. k \in 0..((MAX_CONN + 1) - 1) /\ MAX_CONN + 1 \in Nat \ {0}
      BY <1>4, TableConstants
    <2> HIDE DEF k
    <2>2. k % (MAX_CONN + 1) = k
      BY <2>1, ModSmall, Zenon
    <2> QED BY <2>2, Zenon DEF Masked
  <1> HIDE DEF k
  <1>6. ~(Taken(k) \/ Masked(k) = MAX_CONN)
    BY <1>1, <1>2, <1>3, <1>4, <1>5, TableConstants DEF Taken, Listener
  <1>7. ~(k \in k..(i - 1))
    BY <1>6 DEF NextSlot, k
  <1>8. i = k
    BY <1>1, <1>2, <1>4, <1>7, TableConstants DEF k
  <1> QED BY <1>4, <1>8 DEF InTable, k

\* A step that accepts nothing and does not end the process.
LEMMA SameTable ==
    ASSUME TableInv, UNCHANGED <<slot, iter>>, accepted' = accepted,
           pc' = "dead" => pc = "dead",
           \A c \in Conns : peer[c] = "gone" => peer'[c] = "gone"
    PROVE  TableInv'
  BY DEF TableInv

\* The accepted connections are the same if none was opened.
LEMMA SameAccepted ==
    ASSUME TypeOK, BatchOK, \/ status' = status
                            \/ pc \in {"read", "reply", "write"} /\ CloseEvent(Current)
                               /\ status[Current] /= "none"
    PROVE  accepted' = accepted
  <1>1. CASE status' = status
    BY <1>1 DEF accepted
  <1>2. CASE /\ pc \in {"read", "reply", "write"} /\ CloseEvent(Current)
             /\ status[Current] /= "none"
    <2> DEFINE c == Current
    <2>1. c \in Conns /\ status' = [status EXCEPT ![c] = "closed"] /\ status[c] /= "none"
      BY <1>2, CurrentType DEF CloseEvent
    <2> HIDE DEF c
    <2>2. \A d \in Conns : status'[d] = "none" <=> status[d] = "none"
      BY <2>1 DEF TypeOK
    <2> QED BY <2>2 DEF accepted
  <1> QED BY <1>1, <1>2

LEMMA AcceptTable == ASSUME TypeOK, EventsOK, BatchOK, TableInv, Accept PROVE TableInv'
  <1> DEFINE c == Head(queue)
             n == Cardinality(accepted)
  <1>1. PICK i \in (iter + 1)..(iter + 1 + MAX_CONN) :
             NextSlot(i) /\ iter' = i /\ slot' = [slot EXCEPT ![c] = i]
    BY DEF Accept
  <1>2. /\ pc = "fire" /\ status' = [status EXCEPT ![c] = "open"]
        /\ pc' /= "dead"
    BY DEF Accept, Continue
  <1>3. queue \in Seq(Conns) /\ queue /= <<>>
    BY DEF Accept, BatchOK, TypeOK
  <1>4. c \in Conns /\ c = queue[1] /\ 1 \in 1..Len(queue)
    <2>1. Len(queue) \in Nat \ {0} /\ c \in Conns /\ c = queue[1]
      BY <1>3, TailType
    <2> QED BY <2>1
  <1>5. status[c] = "none"
    BY <1>4 DEF EventsOK
  <1> HIDE DEF c
  <1>6. c \notin accepted /\ accepted' = accepted \cup {c}
    <2>1. status \in [Conns -> {"none", "open", "closed"}]
      BY Zenon DEF TypeOK
    <2>2. status'[c] = "open" /\ \A d \in Conns \ {c} : status'[d] = status[d]
      BY <1>2, <1>4, <2>1
    <2> QED BY <1>4, <1>5, <2>2, Zenon DEF accepted
  <1>7. IsFiniteSet(accepted') /\ Cardinality(accepted') = n + 1 /\ n \in Nat
    BY <1>6, FS_AddElement, FS_CardinalityType DEF TableInv
  <1>8. ASSUME n + 1 <= MAX_CONN - 2
        PROVE  /\ iter' = Listener + (n + 1)
               /\ \A d \in Conns : slot'[d] <= iter'
               /\ \A d \in accepted' : slot'[d] > Listener
               /\ \A d, e \in accepted' : slot'[d] = slot'[e] => d = e
    <2>1. n < MAX_CONN - 2 /\ n <= MAX_CONN - 2
      BY <1>7, <1>8, TableConstants
    <2>2. /\ iter = Listener + n
          /\ \A d \in Conns : slot[d] <= iter
          /\ \A d \in accepted : slot[d] > Listener
          /\ \A d, e \in accepted : slot[d] = slot[e] => d = e
      BY <2>1 DEF TableInv
    <2>3. i = iter + 1
      BY <1>1, <2>1, NextSlotIsNext
    <2>4. slot'[c] = i /\ \A d \in Conns \ {c} : slot'[d] = slot[d] /\ slot[d] \in Nat
      BY <1>1, <1>4 DEF TypeOK
    <2>5. \A d \in accepted : d \in Conns \ {c}
      BY <1>6 DEF accepted
    <2> HIDE DEF n
    <2>6. iter \in Nat /\ iter' = iter + 1 /\ Listener + (n + 1) = iter + 1 /\ iter >= Listener
      BY <1>1, <1>7, <2>2, <2>3 DEF Listener
    <2>7. \A d \in accepted : slot'[d] > Listener /\ slot'[d] < iter'
      BY <2>2, <2>4, <2>5, <2>6 DEF Listener
    <2>8. slot'[c] = iter' /\ slot'[c] > Listener
      BY <1>1, <2>3, <2>4, <2>6 DEF Listener
    <2>9. \A d \in Conns : slot'[d] <= iter'
      BY <2>2, <2>4, <2>6, <2>8
    <2>10. \A d, e \in accepted' : slot'[d] = slot'[e] => d = e
      <3>1. ASSUME NEW d \in accepted, NEW e \in accepted, slot'[d] = slot'[e] PROVE d = e
        BY <2>2, <2>4, <2>5, <3>1
      <3>2. \A d \in accepted : slot'[d] /= slot'[c]
        BY <2>2, <2>4, <2>5, <2>6, <2>8
      <3> QED BY <1>6, <3>1, <3>2
    <2> QED BY <1>6, <2>6, <2>7, <2>8, <2>9, <2>10
  <1> QED BY <1>2, <1>7, <1>8 DEF TableInv

LEMMA NextTable == ASSUME ServerInv, TableInv, [Next]_vars PROVE TableInv'
  <1>1. TypeOK /\ EventsOK /\ BatchOK
    BY DEF ServerInv
  <1>2. CASE \E c \in Conns : Connect(c) \/ Send(c) \/ Recv(c) \/ Fin(c) \/ Reset(c)
    <2>1. PICK c \in Conns : Connect(c) \/ Send(c) \/ Recv(c) \/ Fin(c) \/ Reset(c)
      BY <1>2
    <2>2. UNCHANGED <<status, slot, iter, pc>>
      BY <2>1 DEF Connect, Send, Recv, Fin, Reset, event, loop
    <2>3. \A d \in Conns : peer[d] = "gone" => peer'[d] = "gone"
      BY <1>1, <2>1 DEF Connect, Send, Recv, Fin, Reset, TypeOK
    <2>4. accepted' = accepted
      BY <2>2 DEF accepted
    <2> QED BY <2>2, <2>3, <2>4, SameTable
  <1>3. CASE EpollWait \/ Dispatch \/ AcceptFail
    <2>1. UNCHANGED <<status, slot, iter, peer>> /\ pc' /= "dead"
      BY <1>3 DEF EpollWait, Dispatch, AcceptFail, Continue, client, event
    <2>2. accepted' = accepted
      BY <2>1 DEF accepted
    <2> QED BY <2>1, <2>2, SameTable
  <1>4. CASE Accept
    BY <1>1, <1>4, AcceptTable
  <1>5. CASE ReadCallback \/ WriteCallback
    <2>1. /\ UNCHANGED <<slot, iter, peer>>
          /\ pc \in {"read", "reply", "write"} /\ pc' /= "dead"
      BY <1>5, Zenon DEF ReadCallback, ReadChunk, ReadClose, ReadAgain, ReplyNothing, Reply, ReplyError,
                  WriteCallback, WriteNothing, Flush, FlushError, ReadDone, Done, Continue, client, event
    <2>2. status' = status \/ CloseEvent(Current)
      BY <1>5, Zenon DEF ReadCallback, ReadChunk, ReadClose, ReadAgain, ReplyNothing, Reply, ReplyError,
                  WriteCallback, WriteNothing, Flush, FlushError, client, event, write_socket
    <2>3. CloseEvent(Current) => status[Current] /= "none"
      <3>1. CASE pc \in {"read", "reply"}
        BY <1>1, <3>1 DEF BatchOK, Current
      <3>2. CASE FlushError
        <4>1. Current \in Conns /\ (out[Current] /= <<>> \/ status[Current] = "closed")
          BY <1>1, <3>2, CurrentType DEF FlushError, BatchOK, Backlogged, Current
        <4> QED BY <1>1, <4>1 DEF EventsOK
      <3>3. CASE WriteNothing \/ Flush
        <4>1. status' = status
          BY <3>3 DEF WriteNothing, Flush, event
        <4>2. Current \in Conns /\ pc = "write"
          BY <1>1, <3>3, CurrentType DEF WriteNothing, Flush
        <4> QED BY <1>1, <4>1, <4>2 DEF CloseEvent, TypeOK
      <3> QED BY <1>5, <3>1, <3>2, <3>3
              DEF ReadCallback, ReadChunk, ReadClose, ReadAgain, ReplyNothing, Reply, ReplyError, WriteCallback
    <2>4. accepted' = accepted
      BY <1>1, <2>1, <2>2, <2>3, SameAccepted
    <2> QED BY <2>1, <2>4, SameTable
  <1>6. CASE AcceptOverrun \/ Sigpipe
    <2>1. UNCHANGED <<status, slot, iter, peer>>
      BY <1>6 DEF AcceptOverrun, Sigpipe, Die, client, event
    <2>2. accepted' = accepted
      BY <2>1 DEF accepted
    <2>3. \/ Cardinality(accepted) >= MAX_CONN - 2
          \/ \E c \in Conns : peer[c] = "gone"
      <3>1. CASE AcceptOverrun
        <4>1. PICK i \in (iter + 1)..(iter + 1 + MAX_CONN) : NextSlot(i) /\ ~InTable(i)
          BY <3>1 DEF AcceptOverrun
        <4>2. ~(Cardinality(accepted) < MAX_CONN - 2)
          BY <1>1, <4>1, NextSlotIsNext
        <4>3. Cardinality(accepted) \in Nat
          BY FS_CardinalityType DEF TableInv
        <4> QED BY <4>2, <4>3, TableConstants
      <3>2. CASE Sigpipe
        <4>1. Current \in Conns /\ peer[Current] = "gone"
          BY <1>1, <3>2, CurrentType DEF Sigpipe
        <4> QED BY <4>1
      <3> QED BY <1>6, <3>1, <3>2
    <2> QED BY <2>1, <2>2, <2>3 DEF TableInv
  <1>7. CASE UNCHANGED vars
    <2>1. UNCHANGED <<status, slot, iter, peer, pc>>
      BY <1>7 DEF vars
    <2>2. accepted' = accepted
      BY <2>1 DEF accepted
    <2> QED BY <2>1, <2>2, SameTable
  <1> QED BY <1>2, <1>3, <1>4, <1>5, <1>6, <1>7 DEF Next, Server

LEMMA InitTable == Init => TableInv
  <1> SUFFICES ASSUME Init PROVE TableInv
    OBVIOUS
  <1>1. accepted = {}
    BY DEF Init, accepted
  <1>2. IsFiniteSet(accepted) /\ Cardinality(accepted) = 0
    BY <1>1, FS_EmptySet
  <1> QED BY <1>1, <1>2 DEF Init, TableInv, Listener

LEMMA TableSurvives == ASSUME TypeOK, TableInv PROVE SurvivesItsClients
  <1> SUFFICES ASSUME Cardinality(accepted) <= MAX_CONN - 2,
                      \A c \in Conns : peer[c] /= "gone"
               PROVE  /\ pc /= "dead" \/ Cardinality(accepted) = MAX_CONN - 2
                      /\ \A c \in accepted : slot[c] /= Listener /\ InTable(slot[c])
                      /\ \A c, d \in accepted : slot[c] = slot[d] => c = d
    BY DEF SurvivesItsClients
  <1> DEFINE n == Cardinality(accepted)
  <1>1. n \in Nat /\ n <= MAX_CONN - 2
    BY FS_CardinalityType DEF TableInv
  <1>2. /\ iter = Listener + n
        /\ \A c \in Conns : slot[c] <= iter
        /\ \A c \in accepted : slot[c] > Listener
        /\ \A c, d \in accepted : slot[c] = slot[d] => c = d
        /\ pc = "dead" => n >= MAX_CONN - 2
    BY DEF TableInv
  <1>3. \A c \in accepted : c \in Conns /\ slot[c] \in Nat
    BY DEF accepted, TypeOK
  <1> HIDE DEF n
  <1>4. \A c \in accepted : slot[c] /= Listener /\ InTable(slot[c])
    BY <1>1, <1>2, <1>3, TableConstants DEF Listener, InTable
  <1>5. pc /= "dead" \/ n = MAX_CONN - 2
    BY <1>1, <1>2, TableConstants
  <1> QED BY <1>2, <1>4, <1>5 DEF n

\* However many clients there are, and whatever they do in whatever order: until
\* the table is full the events lie in it, each in an entry of its own, and only
\* a reset after a client's own FIN ends the process.
THEOREM ServerSurvives == Spec => []SurvivesItsClients
  <1>1. Spec => []TableInv
    BY InitTable, NextTable, ServerInvariant, PTL DEF Spec
  <1> QED BY <1>1, TableSurvives, TypeCorrect, PTL
-----------------------------------------------------------------------------
(* What the steps of a channel do to its lines: w wait, e are the units    *)
(* echoed, k lines have been sent.                                         *)

LEMMA SendData ==
    ASSUME NEW e \in Seq(Nat), NEW w \in Seq(Nat), NEW k \in Nat
    PROVE  /\ InOrder(e, w, k) => InOrder(e, Append(w, k + 1), k + 1)
           /\ Complete(e, w, k) => Complete(e, Append(w, k + 1), k + 1)
  <1> DEFINE v == Append(w, k + 1)
             m == Len(e)
             n == Len(w)
  <1>1. m \in Nat /\ n \in Nat /\ (\A i \in 1..m : e[i] \in Nat) /\ (\A i \in 1..n : w[i] \in Nat)
    BY LenProperties, ElementOfSeq
  <1>2. Len(v) = n + 1 /\ (\A i \in 1..n : v[i] = w[i]) /\ v[n + 1] = k + 1
    BY AppendProperties
  <1>3. \A i \in 1..(n + 1) : i \in 1..n \/ i = n + 1
    BY <1>1
  <1> HIDE DEF v, m, n
  <1>4. ASSUME InOrder(e, w, k)
        PROVE  InOrder(e, v, k + 1)
    <2>1. /\ Ascending(e) /\ Ascending(w)
          /\ \A i \in 1..m : e[i] <= 2 * k /\ \A j \in 1..n : e[i] < 2 * w[j] - 1
          /\ \A j \in 1..n : w[j] <= k
      BY <1>4 DEF InOrder, m, n
    <2>2. \A j \in 1..(n + 1) : v[j] <= k + 1
      BY <1>1, <1>2, <1>3, <2>1
    <2>3. Ascending(v)
      <3>1. ASSUME NEW i \in 1..(n + 1), NEW j \in 1..(n + 1), i < j
            PROVE  v[i] < v[j]
        <4>1. i \in 1..n
          BY <1>1, <3>1
        <4>2. CASE j \in 1..n
          BY <1>2, <2>1, <3>1, <4>1, <4>2 DEF Ascending, n
        <4>3. CASE j = n + 1
          BY <1>1, <1>2, <2>1, <4>1, <4>3
        <4> QED BY <1>3, <4>2, <4>3
      <3> QED BY <1>2, <3>1 DEF Ascending
    <2>4. ASSUME NEW i \in 1..m
          PROVE  e[i] <= 2 * (k + 1) /\ \A j \in 1..(n + 1) : e[i] < 2 * v[j] - 1
      <3>1. e[i] \in Nat /\ e[i] <= 2 * k
        BY <1>1, <2>1
      <3>2. \A j \in 1..n : e[i] < 2 * v[j] - 1
        BY <1>2, <2>1
      <3>3. e[i] < 2 * v[n + 1] - 1
        BY <1>2, <3>1
      <3> QED BY <1>3, <3>1, <3>2, <3>3
    <2> QED BY <1>2, <2>1, <2>2, <2>3, <2>4 DEF InOrder, m
  <1>5. ASSUME Complete(e, w, k)
        PROVE  Complete(e, v, k + 1)
    <2>1. /\ m = 2 * (k - n)
          /\ \A i \in 1..m : e[i] = i
          /\ \A i \in 1..n : w[i] = k - n + i
      BY <1>5 DEF Complete, m, n
    <2>2. m = 2 * ((k + 1) - (n + 1))
      BY <1>1, <2>1
    <2>3. ASSUME NEW i \in 1..(n + 1)
          PROVE  v[i] = (k + 1) - (n + 1) + i
      <3>1. CASE i \in 1..n
        <4>1. v[i] = k - n + i
          BY <1>2, <2>1, <3>1
        <4> QED BY <1>1, <4>1
      <3>2. CASE i = n + 1
        <4>1. v[i] = k + 1
          BY <1>2, <3>2
        <4> QED BY <1>1, <3>2, <4>1
      <3> QED BY <1>3, <3>1, <3>2
    <2> QED BY <1>2, <2>1, <2>2, <2>3 DEF Complete, m
  <1> QED BY <1>4, <1>5 DEF v

LEMMA EchoData ==
    ASSUME NEW e \in Seq(Nat), NEW w \in Seq(Nat), NEW k \in Nat, w /= <<>>
    PROVE  LET f == e \o <<2 * Head(w) - 1, 2 * Head(w)>>
           IN  /\ InOrder(e, w, k) => InOrder(f, Tail(w), k)
               /\ Complete(e, w, k) => Complete(f, Tail(w), k)
  <1> DEFINE h == Head(w)
             g == <<2 * h - 1, 2 * h>>
             f == e \o g
             v == Tail(w)
             m == Len(e)
             n == Len(w)
  <1>1. m \in Nat /\ (\A i \in 1..m : e[i] \in Nat) /\ (\A i \in 1..n : w[i] \in Nat)
    BY LenProperties, ElementOfSeq
  <1>2. /\ n \in Nat \ {0} /\ h = w[1] /\ h \in Nat /\ Len(v) = n - 1
        /\ \A i \in 1..(n - 1) : v[i] = w[i + 1] /\ i + 1 \in 1..n
    BY TailType
  <1>3. /\ Len(f) = m + 2
        /\ \A i \in 1..m : f[i] = e[i]
        /\ f[m + 1] = 2 * h - 1 /\ f[m + 2] = 2 * h
    <2>1. g \in Seq(Int) /\ Len(g) = 2 /\ g[1] = 2 * h - 1 /\ g[2] = 2 * h
      BY <1>2
    <2>2. e \in Seq(Int)
      BY SeqMonotonic, Nat \subseteq Int
    <2> HIDE DEF g
    <2>3. /\ Len(f) = Len(e) + Len(g)
          /\ \A i \in 1..(Len(e) + Len(g)) : f[i] = IF i <= Len(e) THEN e[i] ELSE g[i - Len(e)]
      BY <2>1, <2>2, ConcatProperties, Zenon
    <2> HIDE DEF f
    <2>4. \A i \in 1..m : f[i] = e[i]
      <3>1. \A i \in 1..m : i \in 1..(m + 2) /\ i <= m
        BY <1>1
      <3> HIDE DEF m
      <3>2. \A i \in 1..(m + 2) : f[i] = IF i <= m THEN e[i] ELSE g[i - m]
        BY <2>1, <2>3 DEF m
      <3> QED BY <3>1, <3>2
    <2>5. f[m + 1] = g[1] /\ f[m + 2] = g[2]
      <3>1. /\ m + 1 \in 1..(m + 2) /\ ~(m + 1 <= m) /\ (m + 1) - m = 1
            /\ m + 2 \in 1..(m + 2) /\ ~(m + 2 <= m) /\ (m + 2) - m = 2
        BY <1>1
      <3> HIDE DEF m
      <3>2. \A i \in 1..(m + 2) : f[i] = IF i <= m THEN e[i] ELSE g[i - m]
        BY <2>1, <2>3 DEF m
      <3> QED BY <3>1, <3>2
    <2> QED BY <2>1, <2>3, <2>4, <2>5
  <1>4. \A i \in 1..(m + 2) : i \in 1..m \/ i = m + 1 \/ i = m + 2
    BY <1>1
  <1> HIDE DEF f, v, m, n, h
  <1>5. ASSUME InOrder(e, w, k)
        PROVE  InOrder(f, v, k)
    <2>1. /\ \A i, j \in 1..m : i < j => e[i] < e[j]
          /\ \A i, j \in 1..n : i < j => w[i] < w[j]
          /\ \A i \in 1..m : e[i] <= 2 * k /\ \A j \in 1..n : e[i] < 2 * w[j] - 1
          /\ \A j \in 1..n : w[j] <= k
      BY <1>5 DEF InOrder, Ascending, m, n
    <2>2. h <= k /\ (\A i \in 1..m : e[i] < 2 * h - 1) /\ (\A j \in 1..(n - 1) : h < v[j] /\ v[j] \in Nat)
      <3>1. 1 \in 1..n /\ \A j \in 1..(n - 1) : 1 < j + 1
        BY <1>2
      <3> QED BY <1>1, <1>2, <2>1, <3>1
    <2>3. Ascending(f)
      <3>1. ASSUME NEW i \in 1..(m + 2), NEW j \in 1..(m + 2), i < j
            PROVE  f[i] < f[j]
        <4>1. CASE j \in 1..m
          <5>1. i \in 1..m
            BY <1>1, <3>1, <4>1
          <5> QED BY <1>3, <2>1, <3>1, <4>1, <5>1
        <4>2. CASE i \in 1..m /\ ~(j \in 1..m)
          <5>1. f[i] \in Nat /\ f[i] < 2 * h - 1
            BY <1>1, <1>3, <2>2, <4>2
          <5>2. f[j] = 2 * h - 1 \/ f[j] = 2 * h
            BY <1>3, <1>4, <4>2
          <5> QED BY <1>2, <5>1, <5>2
        <4>3. CASE i = m + 1 /\ j = m + 2
          BY <1>2, <1>3, <4>3
        <4>4. (i \in 1..m /\ ~(j \in 1..m)) \/ j \in 1..m \/ (i = m + 1 /\ j = m + 2)
          BY <1>1, <3>1
        <4> QED BY <4>1, <4>2, <4>3, <4>4
      <3> QED BY <1>3, <3>1 DEF Ascending
    <2>4. Ascending(v)
      <3>1. ASSUME NEW i \in 1..(n - 1), NEW j \in 1..(n - 1), i < j
            PROVE  v[i] < v[j]
        <4>1. i + 1 < j + 1
          BY <1>2, <3>1
        <4>2. v[i] = w[i + 1] /\ v[j] = w[j + 1] /\ i + 1 \in 1..n /\ j + 1 \in 1..n
          BY <1>2
        <4> QED BY <2>1, <4>1, <4>2
      <3> QED BY <1>2, <3>1, Zenon DEF Ascending
    <2>5. ASSUME NEW i \in 1..(m + 2)
          PROVE  f[i] <= 2 * k /\ \A j \in 1..(n - 1) : f[i] < 2 * v[j] - 1
      <3>1. CASE i \in 1..m
        <4>1. f[i] = e[i] /\ e[i] <= 2 * k /\ \A j \in 1..n : e[i] < 2 * w[j] - 1
          BY <1>3, <2>1, <3>1, Zenon
        <4>2. \A j \in 1..(n - 1) : v[j] = w[j + 1] /\ j + 1 \in 1..n
          BY <1>2, Zenon
        <4> QED BY <4>1, <4>2, Zenon
      <3>2. CASE i = m + 1 \/ i = m + 2
        <4>1. f[i] = 2 * h - 1 \/ f[i] = 2 * h
          BY <1>3, <3>2
        <4>2. f[i] \in Int /\ f[i] <= 2 * h
          <5>1. \A y \in Nat : /\ 2 * y - 1 \in Int /\ 2 * y - 1 <= 2 * y
                               /\ 2 * y \in Int /\ 2 * y <= 2 * y
            OBVIOUS
          <5> QED BY <1>2, <4>1, <5>1, Zenon
        <4>3. f[i] <= 2 * k
          <5>1. h \in Nat /\ k \in Nat /\ h <= k
            BY <1>2, <2>2
          <5>2. \A x \in Int, y, z \in Nat : x <= 2 * y /\ y <= z => x <= 2 * z
            OBVIOUS
          <5> QED BY <4>2, <5>1, <5>2, Zenon
        <4>4. ASSUME NEW j \in 1..(n - 1) PROVE f[i] < 2 * v[j] - 1
          <5>1. v[j] \in Nat /\ h < v[j]
            BY <2>2
          <5>2. \A x \in Int, y, z \in Nat : x <= 2 * y /\ y < z => x < 2 * z - 1
            OBVIOUS
          <5> QED BY <1>2, <4>2, <5>1, <5>2, Zenon
        <4> QED BY <4>3, <4>4
      <3> QED BY <1>4, <3>1, <3>2
    <2>6. \A j \in 1..(n - 1) : v[j] <= k
      BY <1>2, <2>1
    <2> QED BY <1>2, <1>3, <2>3, <2>4, <2>5, <2>6 DEF InOrder
  <1>6. ASSUME Complete(e, w, k)
        PROVE  Complete(f, v, k)
    <2>1. /\ m = 2 * (k - n)
          /\ \A i \in 1..m : e[i] = i
          /\ \A i \in 1..n : w[i] = k - n + i
      BY <1>6 DEF Complete, m, n
    <2>2. h = k - n + 1
      <3>1. 1 \in 1..n
        BY <1>2
      <3> QED BY <1>2, <2>1, <3>1
    <2>3. m + 2 = 2 * (k - (n - 1)) /\ 2 * h - 1 = m + 1 /\ 2 * h = m + 2
      BY <1>1, <1>2, <2>1, <2>2
    <2>4. \A i \in 1..(m + 2) : f[i] = i
      BY <1>3, <1>4, <2>1, <2>3
    <2>5. \A i \in 1..(n - 1) : v[i] = k - (n - 1) + i
      BY <1>2, <2>1
    <2> QED BY <1>2, <1>3, <2>3, <2>4, <2>5 DEF Complete
  <1> QED BY <1>5, <1>6 DEF f, v, h

\* A sequence of which two parts are put together again.
LEMMA WithoutData ==
    ASSUME NEW w \in Seq(Nat), NEW a \in 0..Len(w), NEW b \in 0..Len(w), a <= b
    PROVE  LET v == Channel!Without(w, a, b)
           IN  /\ Len(v) = Len(w) - (b - a)
               /\ \A i \in 1..(Len(w) - (b - a)) : v[i] = IF i <= a THEN w[i] ELSE w[i + (b - a)]
  <1> DEFINE n == Len(w)
             s == SubSeq(w, 1, a)
             t == SubSeq(w, b + 1, n)
             v == s \o t
  <1>1. n \in Nat /\ (\A i \in 1..n : w[i] \in Nat)
    BY LenProperties, ElementOfSeq
  <1> HIDE DEF n
  <1>2. a \in 0..n /\ b \in 0..n
    BY DEF n
  <1>3. s \in Seq(Nat) /\ Len(s) = a /\ \A i \in 1..a : s[i] = w[i]
    <2>1. /\ s \in Seq(Nat)
          /\ Len(s) = IF 1 <= a THEN a - 1 + 1 ELSE 0
          /\ \A i \in 1..(a - 1 + 1) : s[i] = w[1 + i - 1]
      <3>1. \A i \in 1..a : w[i] \in Nat
        BY <1>1, <1>2
      <3> QED BY <1>2, <3>1, SubSeqProperties
    <2> HIDE DEF s
    <2>2. a - 1 + 1 = a /\ \A i \in 1..a : 1 + i - 1 = i
      BY <1>2
    <2> QED BY <1>1, <1>2, <2>1, <2>2
  <1>4. t \in Seq(Nat) /\ Len(t) = n - b /\ \A i \in 1..(n - b) : t[i] = w[b + i]
    <2>1. /\ t \in Seq(Nat)
          /\ Len(t) = IF b + 1 <= n THEN n - (b + 1) + 1 ELSE 0
          /\ \A i \in 1..(n - (b + 1) + 1) : t[i] = w[(b + 1) + i - 1]
      <3>1. \A i \in (b + 1)..n : w[i] \in Nat
        BY <1>1, <1>2
      <3> QED BY <1>1, <1>2, <3>1, SubSeqProperties
    <2> HIDE DEF t
    <2>2. n - (b + 1) + 1 = n - b /\ \A i \in 1..(n - b) : (b + 1) + i - 1 = b + i
      BY <1>1, <1>2
    <2> QED BY <1>1, <1>2, <2>1, <2>2
  <1>5. Channel!Without(w, a, b) = v
    BY Zenon DEF Channel!Without, n
  <1> HIDE DEF s, t
  <1>6. /\ Len(v) = a + (n - b)
        /\ \A i \in 1..(a + (n - b)) : v[i] = IF i <= a THEN s[i] ELSE t[i - a]
    <2>1. /\ Len(v) = Len(s) + Len(t)
          /\ \A i \in 1..(Len(s) + Len(t)) : v[i] = IF i <= Len(s) THEN s[i] ELSE t[i - Len(s)]
      BY <1>3, <1>4, ConcatProperties, Zenon
    <2> HIDE DEF v
    <2> QED BY <1>3, <1>4, <2>1
  <1> HIDE DEF v
  <1>7. \A i \in 1..(n - (b - a)) : v[i] = IF i <= a THEN w[i] ELSE w[i + (b - a)]
    <2>1. ASSUME NEW i \in 1..(n - (b - a))
          PROVE  v[i] = IF i <= a THEN w[i] ELSE w[i + (b - a)]
      <3>1. i \in 1..(a + (n - b))
        BY <1>1, <1>2
      <3>2. CASE i <= a
        BY <1>2, <1>3, <1>6, <3>1, <3>2
      <3>3. CASE ~(i <= a)
        <4>1. i - a \in 1..(n - b) /\ b + (i - a) = i + (b - a)
          BY <1>1, <1>2, <3>3
        <4> QED BY <1>4, <1>6, <3>1, <3>3, <4>1
      <3> QED BY <3>2, <3>3
    <2> QED BY <2>1
  <1>8. a + (n - b) = n - (b - a)
    BY <1>1, <1>2
  <1> QED BY <1>5, <1>6, <1>7, <1>8 DEF n

LEMMA LoseData ==
    ASSUME NEW e \in Seq(Nat), NEW w \in Seq(Nat), NEW k \in Nat,
           NEW a \in 0..Len(w), NEW b \in 0..Len(w), a <= b, NEW l \in 0..Len(e),
           InOrder(e, w, k)
    PROVE  InOrder(SubSeq(e, 1, l), Channel!Without(w, a, b), k)
  <1> DEFINE f == SubSeq(e, 1, l)
             v == Channel!Without(w, a, b)
             m == Len(e)
             n == Len(w)
             d == b - a
  <1>1. m \in Nat /\ n \in Nat /\ (\A i \in 1..m : e[i] \in Nat)
    BY LenProperties, ElementOfSeq
  <1>2. Len(v) = n - d /\ \A i \in 1..(n - d) : v[i] = IF i <= a THEN w[i] ELSE w[i + d]
    BY WithoutData, Zenon
  <1>3. Len(f) = l /\ \A i \in 1..l : f[i] = e[i] /\ i \in 1..m
    <2>1. \A i \in 1..l : e[i] \in Nat
      BY <1>1
    <2>2. /\ Len(f) = IF 1 <= l THEN l - 1 + 1 ELSE 0
          /\ \A i \in 1..(l - 1 + 1) : f[i] = e[1 + i - 1]
      BY <1>1, <2>1, SubSeqProperties
    <2> HIDE DEF f
    <2>3. l - 1 + 1 = l /\ \A i \in 1..l : 1 + i - 1 = i /\ i \in 1..m
      BY <1>1
    <2> QED BY <1>1, <2>2, <2>3
  <1>4. a \in 0..n /\ b \in 0..n /\ l \in 0..m
    OBVIOUS
  <1> HIDE DEF f, v, m, n
  <1>5. \A i \in 1..(n - d) : i \in 1..n /\ i + d \in 1..n
    BY <1>1, <1>4
  <1>6. /\ \A i, j \in 1..m : i < j => e[i] < e[j]
        /\ \A i, j \in 1..n : i < j => w[i] < w[j]
        /\ \A i \in 1..m : e[i] <= 2 * k /\ \A j \in 1..n : e[i] < 2 * w[j] - 1
        /\ \A j \in 1..n : w[j] <= k
    BY DEF InOrder, Ascending, m, n
  <1>7. Ascending(f)
    BY <1>3, <1>6 DEF Ascending
  <1>8. Ascending(v)
    <2>1. ASSUME NEW i \in 1..(n - d), NEW j \in 1..(n - d), i < j
          PROVE  v[i] < v[j]
      <3>1. i < j + d /\ i + d < j + d
        BY <1>1, <1>4, <2>1
      <3>2. ~(i <= a) => ~(j <= a)
        BY <1>1, <1>4, <2>1
      <3> QED BY <1>2, <1>5, <1>6, <2>1, <3>1, <3>2
    <2> QED BY <1>2, <2>1 DEF Ascending
  <1>9. \A i \in 1..l : f[i] <= 2 * k /\ \A j \in 1..(n - d) : f[i] < 2 * v[j] - 1
    BY <1>2, <1>3, <1>5, <1>6
  <1>10. \A j \in 1..(n - d) : v[j] <= k
    BY <1>2, <1>5, <1>6
  <1> QED BY <1>2, <1>3, <1>7, <1>8, <1>9, <1>10 DEF InOrder, f, v
-----------------------------------------------------------------------------
(* Putting sequences together; Cat keeps the provers from expanding \o.    *)

Cat(s, t) == s \o t

LEMMA CatType ==
    ASSUME NEW S, NEW s \in Seq(S), NEW t \in Seq(S)
    PROVE  Cat(s, t) \in Seq(S) /\ Len(Cat(s, t)) = Len(s) + Len(t)
  BY ConcatProperties, Zenon DEF Cat

LEMMA CatAssociative ==
    ASSUME NEW S, NEW s \in Seq(S), NEW t \in Seq(S), NEW u \in Seq(S)
    PROVE  Cat(Cat(s, t), u) = Cat(s, Cat(t, u))
  <1>1. (s \o t) \o u = s \o (t \o u)
    BY ConcatAssociative
  <1> QED BY <1>1, Zenon DEF Cat

LEMMA CatEmpty ==
    ASSUME NEW S, NEW s \in Seq(S)
    PROVE  Cat(s, <<>>) = s /\ Cat(<<>>, s) = s
  BY ConcatEmptySeq, Zenon DEF Cat

\* What is cut in two is put together again.
LEMMA CatSplit ==
    ASSUME NEW S, NEW s \in Seq(S), NEW w \in 0..Len(s)
    PROVE  /\ Cat(SubSeq(s, 1, w), SubSeq(s, w + 1, Len(s))) = s
           /\ SubSeq(s, 1, w) \in Seq(S) /\ Len(SubSeq(s, 1, w)) = w
           /\ SubSeq(s, w + 1, Len(s)) \in Seq(S)
           /\ Len(SubSeq(s, w + 1, Len(s))) = Len(s) - w
  <1> DEFINE n == Len(s)
             t == SubSeq(s, 1, w)
             u == SubSeq(s, w + 1, n)
  <1>1. n \in Nat /\ \A i \in 1..n : s[i] \in S
    BY LenProperties, ElementOfSeq
  <1>2. Cat(t, u) = s
    <2>1. 1 \in 1..(n + 1) /\ w \in (1 - 1)..n /\ n \in w..n
      BY <1>1
    <2>2. t \o u = SubSeq(s, 1, n)
      BY <2>1, ConcatAdjacentSubSeq, Zenon
    <2> QED BY <2>2, SubSeqFull, Zenon DEF Cat
  <1> HIDE DEF n
  <1>3. w \in 0..n
    BY DEF n
  <1>4. t \in Seq(S) /\ Len(t) = w
    <2>1. t \in Seq(S) /\ Len(t) = IF 1 <= w THEN w - 1 + 1 ELSE 0
      <3>1. \A i \in 1..w : s[i] \in S
        BY <1>1, <1>3
      <3> QED BY <1>3, <3>1, SubSeqProperties
    <2> QED BY <1>3, <2>1
  <1>5. u \in Seq(S) /\ Len(u) = n - w
    <2>1. u \in Seq(S) /\ Len(u) = IF w + 1 <= n THEN n - (w + 1) + 1 ELSE 0
      <3>1. \A i \in (w + 1)..n : s[i] \in S
        BY <1>1, <1>3
      <3> QED BY <1>1, <1>3, <3>1, SubSeqProperties
    <2> QED BY <1>1, <1>3, <2>1
  <1> QED BY <1>2, <1>4, <1>5 DEF n

LEMMA CatHead ==
    ASSUME NEW S, NEW s \in Seq(S), s /= <<>>
    PROVE  Cat(<<Head(s)>>, Tail(s)) = s /\ <<Head(s)>> \in Seq(S) /\ Len(<<Head(s)>>) = 1
  <1>1. Len(s) \in Nat \ {0} /\ Head(s) = s[1] /\ Head(s) \in S
    BY TailType
  <1>2. 1 \in 1..Len(s) /\ Len(s) \in 1..Len(s) /\ 1 + 1 = 2
    BY <1>1
  <1>3. SubSeq(s, 1, Len(s)) = <<s[1]>> \o SubSeq(s, 2, Len(s))
    BY <1>2, SubSeqRecursiveFirst
  <1>4. <<Head(s)>> \in Seq(S) /\ Len(<<Head(s)>>) = 1
    BY <1>1
  <1> QED BY <1>1, <1>3, <1>4, SubSeqFull, TailIsSubSeq, Zenon DEF Cat

LEMMA CatAppend ==
    ASSUME NEW S, NEW s \in Seq(S), NEW x \in S
    PROVE  Append(s, x) = Cat(s, <<x>>) /\ <<x>> \in Seq(S)
  <1>1. <<x>> \in Seq(S)
    OBVIOUS
  <1> QED BY <1>1, AppendIsConcat, Zenon DEF Cat

\* The two parts of what has been put together.
LEMMA CatParts ==
    ASSUME NEW S, NEW s \in Seq(S), NEW t \in Seq(S)
    PROVE  /\ SubSeq(Cat(s, t), 1, Len(s)) = s
           /\ SubSeq(Cat(s, t), Len(s) + 1, Len(Cat(s, t))) = t
  <1> DEFINE m == Len(s)
             n == Len(t)
             v == Cat(s, t)
             a == SubSeq(v, 1, m)
             b == SubSeq(v, m + 1, m + n)
  <1>1. m \in Nat /\ n \in Nat
    BY LenProperties
  <1>2. /\ v \in Seq(S) /\ Len(v) = m + n
        /\ \A i \in 1..(m + n) : v[i] = IF i <= m THEN s[i] ELSE t[i - m]
    BY ConcatProperties, Zenon DEF Cat
  <1>3. m \in 0..Len(v)
    BY <1>1, <1>2
  <1> HIDE DEF v
  <1>4. /\ a \in Seq(S) /\ Len(a) = m /\ b \in Seq(S) /\ Len(b) = n
    <2>1. /\ a \in Seq(S) /\ Len(a) = m
          /\ SubSeq(v, m + 1, Len(v)) \in Seq(S)
          /\ Len(SubSeq(v, m + 1, Len(v))) = Len(v) - m
      BY <1>2, <1>3, CatSplit, Zenon
    <2>2. (m + n) - m = n
      BY <1>1
    <2> HIDE DEF m, n
    <2> QED BY <1>2, <2>1, <2>2
  <1> HIDE DEF m, n
  <1>5. \A i \in 1..m : a[i] = s[i]
    <2>1. \A i \in 1..m : v[i] \in S
      <3>1. \A i \in 1..m : i \in 1..Len(v)
        BY <1>1, <1>2
      <3> QED BY <1>2, <3>1, ElementOfSeq
    <2>2. \A i \in 1..(m - 1 + 1) : a[i] = v[1 + i - 1]
      BY <1>1, <2>1, SubSeqProperties
    <2> HIDE DEF a
    <2>3. m - 1 + 1 = m /\ \A i \in 1..m : 1 + i - 1 = i /\ i \in 1..(m + n) /\ i <= m
      BY <1>1
    <2> QED BY <1>2, <2>2, <2>3
  <1>6. \A i \in 1..n : b[i] = t[i]
    <2>1. \A i \in (m + 1)..(m + n) : v[i] \in S
      <3>1. \A i \in (m + 1)..(m + n) : i \in 1..Len(v)
        BY <1>1, <1>2
      <3> QED BY <1>2, <3>1, ElementOfSeq
    <2>2. \A i \in 1..((m + n) - (m + 1) + 1) : b[i] = v[(m + 1) + i - 1]
      BY <1>1, <2>1, SubSeqProperties
    <2> HIDE DEF b
    <2>3. (m + n) - (m + 1) + 1 = n
      BY <1>1
    <2>4. ASSUME NEW i \in 1..n PROVE b[i] = t[i]
      <3>1. /\ (m + 1) + i - 1 \in 1..(m + n) /\ ~((m + 1) + i - 1 <= m)
            /\ ((m + 1) + i - 1) - m = i
        BY <1>1
      <3> QED BY <1>2, <2>2, <2>3, <3>1
    <2> QED BY <2>4
  <1> HIDE DEF a, b
  <1>7. a = s
    BY <1>4, <1>5, SeqEqual DEF m
  <1>8. b = t
    BY <1>4, <1>6, SeqEqual DEF n
  <1> QED BY <1>2, <1>7, <1>8 DEF a, b, m, v

\* Leaving out the middle of three parts.
LEMMA CatWithout ==
    ASSUME NEW S, NEW s \in Seq(S), NEW t \in Seq(S), NEW u \in Seq(S)
    PROVE  LET w == Cat(Cat(s, t), u)
               a == Len(s)
               b == Len(s) + Len(t)
           IN  /\ Channel!Without(w, a, b) = Cat(s, u)
               /\ a \in 0..Len(w) /\ b \in 0..Len(w) /\ a <= b
  <1> DEFINE w == Cat(Cat(s, t), u)
             a == Len(s)
             b == Len(s) + Len(t)
  <1>1. /\ Cat(s, t) \in Seq(S) /\ Len(Cat(s, t)) = b /\ Cat(t, u) \in Seq(S)
        /\ Len(w) = b + Len(u)
    <2> DEFINE v == Cat(s, t)
    <2>1. v \in Seq(S) /\ Len(v) = b /\ Cat(t, u) \in Seq(S)
      BY CatType, Zenon
    <2> HIDE DEF v, b
    <2>2. Len(Cat(v, u)) = Len(v) + Len(u)
      BY <2>1, CatType, Zenon
    <2> QED BY <2>1, <2>2, Zenon DEF v
  <1>2. a \in Nat /\ Len(t) \in Nat /\ Len(u) \in Nat
    BY LenProperties
  <1>3. SubSeq(w, b + 1, Len(w)) = u
    <2> DEFINE v == Cat(s, t)
    <2>1. v \in Seq(S) /\ Len(v) = b /\ w = Cat(v, u)
      BY <1>1, Zenon
    <2> HIDE DEF v, w, b
    <2>2. SubSeq(Cat(v, u), Len(v) + 1, Len(Cat(v, u))) = u
      BY <2>1, CatParts, Zenon
    <2> QED BY <2>1, <2>2, Zenon
  <1>4. w = Cat(s, Cat(t, u))
    BY CatAssociative
  <1>5. SubSeq(w, 1, a) = s
    BY <1>1, <1>4, CatParts, Zenon
  <1>6. Channel!Without(w, a, b) = Cat(s, u)
    BY <1>3, <1>5, Zenon DEF Channel!Without, Cat
  <1>7. a \in 0..Len(w) /\ b \in 0..Len(w) /\ a <= b
    <2> HIDE DEF w
    <2> QED BY <1>1, <1>2
  <1> QED BY <1>6, <1>7, Zenon
-----------------------------------------------------------------------------
(* The server is a channel.                                                *)

LEMMA Mapped ==
    /\ waiting = [c \in Conns |-> Cat(in[c], rx[c])]
    /\ echoed = [c \in Conns |-> Cat(Cat(got[c], tx[c]), out[c])]
    /\ waiting' = [c \in Conns |-> Cat(in'[c], rx'[c])]
    /\ echoed' = [c \in Conns |-> Cat(Cat(got'[c], tx'[c]), out'[c])]
  <1>1. /\ waiting = [c \in Conns |-> in[c] \o rx[c]]
        /\ waiting' = [c \in Conns |-> in'[c] \o rx'[c]]
    BY Zenon DEF waiting
  <1>2. /\ echoed = [c \in Conns |-> (got[c] \o tx[c]) \o out[c]]
        /\ echoed' = [c \in Conns |-> (got'[c] \o tx'[c]) \o out'[c]]
    BY Zenon DEF echoed
  <1> QED BY <1>1, <1>2, Zenon DEF Cat

\* The parts of a connection's channel.
LEMMA PartTypes ==
    ASSUME TypeOK, NEW c \in Conns
    PROVE  /\ in[c] \in Seq(1..Lines) /\ rx[c] \in Seq(1..Lines)
           /\ got[c] \in Seq(Units) /\ tx[c] \in Seq(Units) /\ out[c] \in Seq(Units)
           /\ waiting[c] = Cat(in[c], rx[c]) /\ waiting[c] \in Seq(1..Lines)
           /\ Len(waiting[c]) = Len(in[c]) + Len(rx[c])
           /\ echoed[c] = Cat(Cat(got[c], tx[c]), out[c]) /\ echoed[c] \in Seq(Units)
           /\ Len(echoed[c]) = Len(got[c]) + Len(tx[c]) + Len(out[c])
  <1>1. /\ in[c] \in Seq(1..Lines) /\ rx[c] \in Seq(1..Lines)
        /\ got[c] \in Seq(Units) /\ tx[c] \in Seq(Units) /\ out[c] \in Seq(Units)
    BY Zenon DEF TypeOK
  <1>2. waiting[c] = Cat(in[c], rx[c]) /\ echoed[c] = Cat(Cat(got[c], tx[c]), out[c])
    BY Mapped, Zenon
  <1>3. Cat(in[c], rx[c]) \in Seq(1..Lines) /\ Len(Cat(in[c], rx[c])) = Len(in[c]) + Len(rx[c])
    BY <1>1, CatType, Zenon
  <1>4. Cat(got[c], tx[c]) \in Seq(Units) /\ Len(Cat(got[c], tx[c])) = Len(got[c]) + Len(tx[c])
    BY <1>1, CatType, Zenon
  <1>5. /\ Cat(Cat(got[c], tx[c]), out[c]) \in Seq(Units)
        /\ Len(Cat(Cat(got[c], tx[c]), out[c])) = Len(Cat(got[c], tx[c])) + Len(out[c])
    BY <1>1, <1>4, CatType, Zenon
  <1> QED BY <1>1, <1>2, <1>3, <1>4, <1>5, Zenon

\* A step that changes the parts of one connection only.
LEMMA WaitingStep ==
    ASSUME NEW c \in Conns, NEW w,
           \A d \in Conns \ {c} : in'[d] = in[d] /\ rx'[d] = rx[d],
           Cat(in'[c], rx'[c]) = w
    PROVE  waiting' = [waiting EXCEPT ![c] = w]
  <1>1. /\ waiting = [d \in Conns |-> Cat(in[d], rx[d])]
        /\ waiting' = [d \in Conns |-> Cat(in'[d], rx'[d])]
    BY Mapped
  <1> QED BY <1>1

LEMMA EchoedStep ==
    ASSUME NEW c \in Conns, NEW e,
           \A d \in Conns \ {c} : got'[d] = got[d] /\ tx'[d] = tx[d] /\ out'[d] = out[d],
           Cat(Cat(got'[c], tx'[c]), out'[c]) = e
    PROVE  echoed' = [echoed EXCEPT ![c] = e]
  <1>1. /\ echoed = [d \in Conns |-> Cat(Cat(got[d], tx[d]), out[d])]
        /\ echoed' = [d \in Conns |-> Cat(Cat(got'[d], tx'[d]), out'[d])]
    BY Mapped
  <1> QED BY <1>1

LEMMA SameWaiting == ASSUME UNCHANGED <<in, rx>> PROVE waiting' = waiting
  BY Zenon DEF waiting

LEMMA SameEchoed == ASSUME UNCHANGED <<got, tx, out>> PROVE echoed' = echoed
  BY Zenon DEF echoed

LEMMA SameSeen == ASSUME got' = got
                  PROVE  [c \in Conns |-> Len(got[c])]' = [c \in Conns |-> Len(got[c])]
  BY Zenon

LEMMA StayChannel ==
    ASSUME UNCHANGED <<sent, got, waiting, echoed, intact>>
    PROVE  UNCHANGED Channel!vars
  BY SameSeen, Zenon DEF Channel!vars

LEMMA LoseChannel ==
    ASSUME NEW c \in Conns, UNCHANGED <<sent, got>>, intact' = intact \ {c},
           NEW a \in 0..Len(waiting[c]), NEW b \in 0..Len(waiting[c]), a <= b,
           waiting' = [waiting EXCEPT ![c] = Channel!Without(waiting[c], a, b)],
           NEW n \in Len(got[c])..Len(echoed[c]),
           echoed' = [echoed EXCEPT ![c] = SubSeq(echoed[c], 1, n)]
    PROVE  Channel!Lose(c)
  <1>1. [d \in Conns |-> Len(got[d])][c] = Len(got[c])
    BY Zenon
  <1> QED BY <1>1, SameSeen, Zenon DEF Channel!Lose

\* The connections that have lost nothing stay the same when no event is closed
\* and no ring refuses bytes.
LEMMA SameIntact ==
    ASSUME \A d \in Conns : status'[d] = "closed" <=> status[d] = "closed", dropped' = dropped
    PROVE  intact' = intact
  BY Zenon DEF intact

LEMMA LessIntact ==
    ASSUME NEW c \in Conns,
           \A d \in Conns \ {c} : status'[d] = "closed" <=> status[d] = "closed",
           \/ status'[c] = "closed" /\ dropped' = dropped
           \/ status' = status /\ dropped' = dropped \cup {c}
    PROVE  intact' = intact \ {c}
  BY Zenon DEF intact

\* Moving the cut between neighbours.
LEMMA CatMove ==
    ASSUME NEW S, NEW g \in Seq(S), NEW t \in Seq(S), NEW a \in Seq(S), NEW b \in Seq(S)
    PROVE  Cat(Cat(g, Cat(t, a)), b) = Cat(Cat(g, t), Cat(a, b))
  <1>1. Cat(g, Cat(t, a)) = Cat(Cat(g, t), a)
    BY CatAssociative
  <1>2. Cat(g, t) \in Seq(S)
    BY CatType
  <1> QED BY <1>1, <1>2, CatAssociative

LEMMA CatTail ==
    ASSUME NEW S, NEW s \in Seq(S), NEW t \in Seq(S), s /= <<>>
    PROVE  /\ Cat(s, t) /= <<>> /\ Head(Cat(s, t)) = Head(s)
           /\ Tail(Cat(s, t)) = Cat(Tail(s), t)
  <1> DEFINE u == Cat(s, t)
             v == Cat(Tail(s), t)
             m == Len(s)
             n == Len(t)
  <1>1. /\ u \in Seq(S) /\ Len(u) = m + n
        /\ \A i \in 1..(m + n) : u[i] = IF i <= m THEN s[i] ELSE t[i - m]
    BY ConcatProperties, Zenon DEF Cat
  <1>2. /\ m \in Nat \ {0} /\ n \in Nat /\ Head(s) = s[1]
        /\ Tail(s) \in Seq(S) /\ Len(Tail(s)) = m - 1
        /\ \A i \in 1..(m - 1) : Tail(s)[i] = s[i + 1]
    BY TailType, LenProperties
  <1>3. /\ v \in Seq(S) /\ Len(v) = Len(Tail(s)) + n
        /\ \A i \in 1..(Len(Tail(s)) + n) :
             v[i] = IF i <= Len(Tail(s)) THEN Tail(s)[i] ELSE t[i - Len(Tail(s))]
    BY <1>2, ConcatProperties, Zenon DEF Cat
  <1>4. u /= <<>>
    <2> HIDE DEF u
    <2> QED BY <1>1, <1>2
  <1>5. /\ Head(u) = u[1] /\ Tail(u) \in Seq(S) /\ Len(Tail(u)) = Len(u) - 1
        /\ \A i \in 1..Len(Tail(u)) : Tail(u)[i] = u[i + 1]
    BY <1>1, <1>4, TailType
  <1> HIDE DEF u, v, m, n
  <1>6. Head(u) = Head(s)
    <2>1. 1 \in 1..(m + n) /\ 1 <= m
      BY <1>2
    <2> QED BY <1>1, <1>2, <1>5, <2>1
  <1>7. Tail(u) = v
    <2>1. Len(Tail(u)) = (m + n) - 1 /\ Len(v) = (m + n) - 1
      BY <1>1, <1>2, <1>3, <1>5
    <2>2. ASSUME NEW i \in 1..((m + n) - 1) PROVE Tail(u)[i] = v[i]
      <3>1. /\ i + 1 \in 1..(m + n) /\ (i + 1 <= m <=> i <= m - 1)
            /\ (i + 1) - m = i - (m - 1) /\ i \in 1..((m - 1) + n)
            /\ (i <= m - 1 => i \in 1..(m - 1))
        BY <1>2
      <3>2. Tail(u)[i] = u[i + 1]
        BY <1>5, <2>1
      <3>3. u[i + 1] = IF i + 1 <= m THEN s[i + 1] ELSE t[(i + 1) - m]
        BY <1>1, <3>1
      <3>4. v[i] = IF i <= m - 1 THEN Tail(s)[i] ELSE t[i - (m - 1)]
        BY <1>2, <1>3, <3>1
      <3> QED BY <1>2, <3>1, <3>2, <3>3, <3>4
    <2> QED BY <1>3, <1>5, <2>1, <2>2, SeqEqual
  <1> QED BY <1>4, <1>6, <1>7 DEF u, v

LEMMA SendChannel == ASSUME TypeOK, NEW c \in Conns, Send(c) PROVE Channel!Send(c)
  <1> DEFINE x == sent[c] + 1
  <1>1. /\ sent[c] < Lines /\ sent[c] - Seen(c) < Window
        /\ sent' = [sent EXCEPT ![c] = x] /\ rx' = [rx EXCEPT ![c] = Append(rx[c], x)]
        /\ UNCHANGED <<got, tx, in, out, status, dropped>>
    BY Zenon DEF Send, event
  <1>2. x \in 1..Lines
    BY <1>1, EchoAssumption DEF TypeOK
  <1> HIDE DEF x
  <1>3. /\ rx'[c] = Append(rx[c], x) /\ in'[c] = in[c]
        /\ \A d \in Conns \ {c} : in'[d] = in[d] /\ rx'[d] = rx[d]
    BY <1>1 DEF TypeOK
  <1>4. Cat(in'[c], rx'[c]) = Append(waiting[c], x)
    <2>1. /\ in[c] \in Seq(1..Lines) /\ rx[c] \in Seq(1..Lines) /\ waiting[c] \in Seq(1..Lines)
          /\ waiting[c] = Cat(in[c], rx[c])
      BY PartTypes, Zenon
    <2> DEFINE xs == <<x>>
    <2>2. Append(rx[c], x) = Cat(rx[c], xs) /\ xs \in Seq(1..Lines)
      BY <1>2, <2>1, CatAppend, Zenon
    <2>3. Append(waiting[c], x) = Cat(waiting[c], xs)
      BY <1>2, <2>1, CatAppend, Zenon
    <2> HIDE DEF xs
    <2>4. Cat(in[c], Cat(rx[c], xs)) = Cat(Cat(in[c], rx[c]), xs)
      BY <2>1, <2>2, CatAssociative
    <2> QED BY <1>1, <1>3, <2>1, <2>2, <2>3, <2>4, Zenon
  <1>5. waiting' = [waiting EXCEPT ![c] = Append(waiting[c], x)]
    BY <1>1, <1>3, <1>4, WaitingStep, Zenon
  <1>6. echoed' = echoed /\ intact' = intact
    BY <1>1, SameEchoed, SameIntact, Zenon
  <1>7. [d \in Conns |-> Len(got[d])][c] = Len(got[c])
    BY Zenon
  <1> QED BY <1>1, <1>5, <1>6, <1>7, SameSeen, Zenon DEF Channel!Send, Seen, x

LEMMA RecvChannel == ASSUME TypeOK, NEW c \in Conns, Recv(c) PROVE Channel!See(c)
  <1> DEFINE h == Head(tx[c])
             hs == <<h>>
             t == Tail(tx[c])
  <1>1. /\ tx[c] /= <<>> /\ tx' = [tx EXCEPT ![c] = t]
        /\ got' = [got EXCEPT ![c] = Append(got[c], h)]
        /\ UNCHANGED <<sent, rx, in, out, status, dropped>>
    BY Zenon DEF Recv, event
  <1>2. /\ got[c] \in Seq(Units) /\ tx[c] \in Seq(Units) /\ out[c] \in Seq(Units)
        /\ echoed[c] = Cat(Cat(got[c], tx[c]), out[c])
        /\ Len(echoed[c]) = Len(got[c]) + Len(tx[c]) + Len(out[c])
    BY PartTypes, Zenon
  <1>3. /\ h \in Units /\ t \in Seq(Units) /\ Cat(hs, t) = tx[c] /\ hs \in Seq(Units)
        /\ Len(tx[c]) \in Nat \ {0} /\ Len(out[c]) \in Nat /\ Len(got[c]) \in Nat
    BY <1>1, <1>2, TailType, CatHead, LenProperties
  <1> HIDE DEF h, t
  <1>4. /\ got'[c] = Append(got[c], h) /\ tx'[c] = t
        /\ \A d \in Conns \ {c} : got'[d] = got[d] /\ tx'[d] = tx[d]
    BY <1>1 DEF TypeOK
  <1>5. Cat(Cat(got'[c], tx'[c]), out'[c]) = echoed[c]
    <2>1. got'[c] = Cat(got[c], hs)
      BY <1>2, <1>3, <1>4, CatAppend, Zenon DEF hs
    <2> HIDE DEF hs
    <2>2. Cat(Cat(got[c], hs), t) = Cat(got[c], tx[c])
      BY <1>2, <1>3, CatAssociative
    <2> QED BY <1>1, <1>2, <1>4, <2>1, <2>2, Zenon
  <1>6. echoed' = [echoed EXCEPT ![c] = echoed[c]]
    BY <1>1, <1>4, <1>5, EchoedStep, Zenon
  <1>7. echoed' = echoed /\ waiting' = waiting /\ intact' = intact
    <2>1. echoed' = echoed
      BY <1>6, Zenon DEF echoed
    <2> QED BY <1>1, <2>1, SameWaiting, SameIntact, Zenon
  <1>8. Len(got[c]) < Len(echoed[c])
    <2>1. \A x \in Nat, y \in Nat \ {0}, z \in Nat : x < x + y + z
      OBVIOUS
    <2> QED BY <1>2, <1>3, <2>1, Zenon
  <1>9. [d \in Conns |-> Len(got[d])]'
          = [[d \in Conns |-> Len(got[d])] EXCEPT ![c] = Len(got[c]) + 1]
    <2>1. Len(Append(got[c], h)) = Len(got[c]) + 1
      BY <1>2, <1>3, AppendProperties
    <2> QED BY <1>4, <2>1
  <1>10. [d \in Conns |-> Len(got[d])][c] = Len(got[c])
    BY Zenon
  <1> QED BY <1>1, <1>7, <1>8, <1>9, <1>10, Zenon DEF Channel!See

LEMMA CatDropFirst ==
    ASSUME NEW S, NEW s \in Seq(S), NEW u \in Seq(S)
    PROVE  /\ Channel!Without(Cat(s, u), 0, Len(s)) = u
           /\ 0 \in 0..Len(Cat(s, u)) /\ Len(s) \in 0..Len(Cat(s, u)) /\ 0 <= Len(s)
  <1> DEFINE e == <<>>
  <1>1. e \in Seq(S) /\ Len(e) = 0 /\ Cat(e, s) = s /\ Cat(e, u) = u
    <2>1. e \in Seq(S) /\ Len(e) = 0
      OBVIOUS
    <2> QED BY <2>1, CatEmpty, Zenon
  <1> HIDE DEF e
  <1>2. /\ Channel!Without(Cat(Cat(e, s), u), Len(e), Len(e) + Len(s)) = Cat(e, u)
        /\ Len(e) \in 0..Len(Cat(Cat(e, s), u)) /\ Len(e) + Len(s) \in 0..Len(Cat(Cat(e, s), u))
        /\ Len(e) <= Len(e) + Len(s)
    BY <1>1, CatWithout, Zenon
  <1>3. Len(s) \in Nat /\ 0 + Len(s) = Len(s)
    <2>1. Len(s) \in Nat
      BY LenProperties
    <2> QED BY <2>1
  <1> QED BY <1>1, <1>2, <1>3, Zenon

LEMMA CloseChannel ==
    ASSUME TypeOK, NEW c \in Conns, CloseEvent(c), UNCHANGED <<sent, got, rx, tx, dropped>>
    PROVE  Channel!Lose(c)
  <1>1. /\ status'[c] = "closed" /\ in'[c] = <<>> /\ out'[c] = <<>>
        /\ \A d \in Conns \ {c} : status'[d] = status[d] /\ in'[d] = in[d] /\ out'[d] = out[d]
    BY DEF CloseEvent, TypeOK
  <1>2. /\ in[c] \in Seq(1..Lines) /\ rx[c] \in Seq(1..Lines)
        /\ got[c] \in Seq(Units) /\ tx[c] \in Seq(Units) /\ out[c] \in Seq(Units)
        /\ waiting[c] = Cat(in[c], rx[c])
        /\ echoed[c] = Cat(Cat(got[c], tx[c]), out[c])
    BY PartTypes, Zenon
  <1>3. intact' = intact \ {c}
    BY <1>1, LessIntact, Zenon
  <1> DEFINE b == Len(in[c])
             n == Len(Cat(got[c], tx[c]))
  <1>4. /\ Channel!Without(waiting[c], 0, b) = rx[c]
        /\ 0 \in 0..Len(waiting[c]) /\ b \in 0..Len(waiting[c]) /\ 0 <= b
    <2>1. /\ Channel!Without(Cat(in[c], rx[c]), 0, b) = rx[c]
          /\ 0 \in 0..Len(Cat(in[c], rx[c])) /\ b \in 0..Len(Cat(in[c], rx[c])) /\ 0 <= b
      BY <1>2, CatDropFirst, Zenon
    <2> QED BY <1>2, <2>1, Zenon
  <1>5. Cat(in'[c], rx'[c]) = rx[c]
    BY <1>1, <1>2, CatEmpty, Zenon
  <1>6. waiting' = [waiting EXCEPT ![c] = rx[c]]
    <2>1. \A d \in Conns \ {c} : in'[d] = in[d] /\ rx'[d] = rx[d]
      BY <1>1
    <2> QED BY <1>5, <2>1, WaitingStep, Zenon
  <1>7. Cat(got[c], tx[c]) \in Seq(Units) /\ n = Len(got[c]) + Len(tx[c])
    BY <1>2, CatType, Zenon
  <1>8. SubSeq(echoed[c], 1, n) = Cat(got[c], tx[c]) /\ Len(echoed[c]) = n + Len(out[c])
    <2> DEFINE s == Cat(got[c], tx[c])
    <2> HIDE DEF s
    <2>1. s \in Seq(Units) /\ n = Len(s)
      BY <1>7 DEF s
    <2>2. SubSeq(Cat(s, out[c]), 1, Len(s)) = s /\ Len(Cat(s, out[c])) = Len(s) + Len(out[c])
      <3>1. out[c] \in Seq(Units)
        BY <1>2
      <3>2. SubSeq(Cat(s, out[c]), 1, Len(s)) = s
        BY <2>1, <3>1, CatParts, Zenon
      <3>3. Len(Cat(s, out[c])) = Len(s) + Len(out[c])
        BY <2>1, <3>1, CatType, Zenon
      <3> QED BY <3>2, <3>3
    <2> QED BY <1>2, <2>1, <2>2, Zenon DEF s
  <1>9. Cat(Cat(got'[c], tx'[c]), out'[c]) = Cat(got[c], tx[c])
    BY <1>1, <1>7, CatEmpty, Zenon
  <1>10. echoed' = [echoed EXCEPT ![c] = Cat(got[c], tx[c])]
    BY <1>1, <1>9, EchoedStep, Zenon
  <1>11. n \in Len(got[c])..Len(echoed[c])
    <2>1. Len(got[c]) \in Nat /\ Len(tx[c]) \in Nat /\ Len(out[c]) \in Nat
      BY <1>2, LenProperties
    <2>2. \A x, y, z \in Nat : x + y \in x..(x + y + z)
      OBVIOUS
    <2> QED BY <1>7, <1>8, <2>1, <2>2, Zenon
  <1> HIDE DEF b, n
  <1> QED BY <1>3, <1>4, <1>6, <1>8, <1>10, <1>11, LoseChannel, Zenon

LEMMA ReadChunkChannel ==
    ASSUME TypeOK, BatchOK, ReadChunk
    PROVE  UNCHANGED Channel!vars \/ Channel!Lose(Current)
  <1> DEFINE c == Current
             k == IF Len(rx[c]) < ReadMax THEN Len(rx[c]) ELSE ReadMax
             chunk == SubSeq(rx[c], 1, k)
             left == SubSeq(rx[c], k + 1, Len(rx[c]))
  <1>1. /\ rx' = [rx EXCEPT ![c] = left]
        /\ in' = [in EXCEPT ![c] = Put(in[c], chunk, InCap)]
        /\ dropped' = dropped \cup Refused(in[c], chunk, InCap, c)
        /\ UNCHANGED <<sent, got, tx, out, status>>
    BY Zenon DEF ReadChunk, client
  <1>2. c \in Conns
    BY CurrentType DEF ReadChunk
  <1>3. /\ in[c] \in Seq(1..Lines) /\ rx[c] \in Seq(1..Lines)
        /\ waiting[c] = Cat(in[c], rx[c])
        /\ echoed[c] \in Seq(Units)
        /\ Len(echoed[c]) = Len(got[c]) + Len(tx[c]) + Len(out[c])
        /\ got[c] \in Seq(Units) /\ tx[c] \in Seq(Units) /\ out[c] \in Seq(Units)
    BY <1>2, PartTypes, Zenon
  <1>4. k \in 0..Len(rx[c])
    <2>1. Len(rx[c]) \in Nat
      BY <1>3, LenProperties
    <2> QED BY <2>1, EchoAssumption
  <1> HIDE DEF k
  <1>5. /\ Cat(chunk, left) = rx[c] /\ chunk \in Seq(1..Lines) /\ left \in Seq(1..Lines)
    BY <1>3, <1>4, CatSplit, Zenon
  <1> HIDE DEF c, chunk, left
  <1>6. /\ rx'[c] = left /\ in'[c] = Put(in[c], chunk, InCap)
        /\ \A d \in Conns \ {c} : rx'[d] = rx[d] /\ in'[d] = in[d]
    BY <1>1, <1>2 DEF TypeOK
  <1>7. echoed' = echoed
    BY <1>1, SameEchoed, Zenon
  <1>8. CASE Fits(in[c], chunk, InCap)
    <2>1. in'[c] = Cat(in[c], chunk) /\ dropped' = dropped
      BY <1>1, <1>6, <1>8, Zenon DEF Put, Refused, Cat
    <2>2. Cat(Cat(in[c], chunk), left) = Cat(in[c], Cat(chunk, left))
      BY <1>3, <1>5, CatAssociative
    <2>3. Cat(in'[c], rx'[c]) = waiting[c]
      BY <1>3, <1>5, <1>6, <2>1, <2>2, Zenon
    <2>4. waiting' = [waiting EXCEPT ![c] = waiting[c]]
      BY <1>2, <1>6, <2>3, WaitingStep, Zenon
    <2>5. waiting' = waiting
      BY <2>4, Zenon DEF waiting
    <2>6. intact' = intact
      BY <1>1, <2>1, SameIntact, Zenon
    <2> QED BY <1>1, <1>7, <2>5, <2>6, StayChannel, Zenon
  <1>9. CASE ~Fits(in[c], chunk, InCap)
    <2>1. in'[c] = in[c] /\ dropped' = dropped \cup {c}
      BY <1>1, <1>6, <1>9, Zenon DEF Put, Refused
    <2>2. Cat(Cat(in[c], chunk), left) = Cat(in[c], Cat(chunk, left))
      BY <1>3, <1>5, CatAssociative
    <2> DEFINE a == Len(in[c])
               b == Len(in[c]) + Len(chunk)
    <2>3. /\ Channel!Without(waiting[c], a, b) = Cat(in[c], left)
          /\ a \in 0..Len(waiting[c]) /\ b \in 0..Len(waiting[c]) /\ a <= b
      <3>1. /\ Channel!Without(Cat(Cat(in[c], chunk), left), a, b) = Cat(in[c], left)
            /\ a \in 0..Len(Cat(Cat(in[c], chunk), left))
            /\ b \in 0..Len(Cat(Cat(in[c], chunk), left)) /\ a <= b
        <4>1. /\ in[c] \in Seq(1..Lines) /\ chunk \in Seq(1..Lines) /\ left \in Seq(1..Lines)
          BY <1>3, <1>5
        <4> HIDE DEF chunk, left
        <4>2. LET w == Cat(Cat(in[c], chunk), left)
                  from == Len(in[c])
                  upto == Len(in[c]) + Len(chunk)
              IN  /\ Channel!Without(w, from, upto) = Cat(in[c], left)
                  /\ from \in 0..Len(w) /\ upto \in 0..Len(w) /\ from <= upto
          BY ONLY <4>1, CatWithout
        <4> QED BY <4>2, Zenon
      <3> QED BY <1>3, <1>5, <2>2, <3>1, Zenon
    <2>4. waiting' = [waiting EXCEPT ![c] = Channel!Without(waiting[c], a, b)]
      BY <1>2, <1>6, <2>1, <2>3, WaitingStep, Zenon
    <2>5. intact' = intact \ {c}
      BY <1>1, <1>2, <2>1, LessIntact, Zenon
    <2> DEFINE n == Len(echoed[c])
    <2>6. n \in Len(got[c])..Len(echoed[c])
      <3>1. Len(got[c]) \in Nat /\ Len(tx[c]) \in Nat /\ Len(out[c]) \in Nat
        BY <1>3, LenProperties
      <3>2. \A x, y, z \in Nat : x + y + z \in x..(x + y + z)
        OBVIOUS
      <3> QED BY <1>3, <3>1, <3>2, Zenon
    <2>7. echoed' = [echoed EXCEPT ![c] = SubSeq(echoed[c], 1, n)]
      <3>1. SubSeq(echoed[c], 1, n) = echoed[c]
        BY <1>3, SubSeqFull, Zenon
      <3> QED BY <1>7, <3>1, Zenon DEF echoed
    <2> HIDE DEF a, b, n
    <2>8. Channel!Lose(c)
      BY <1>1, <1>2, <2>3, <2>4, <2>5, <2>6, <2>7, LoseChannel, Zenon
    <2> QED BY <2>8 DEF c
  <1> QED BY <1>8, <1>9

\* What write(2) takes of s moves from the server to the kernel.
LEMMA GivenChannel ==
    ASSUME TypeOK, NEW c \in Conns, NEW s \in Seq(Units)
    PROVE  LET w == Accepted(c, s)
           IN  Cat(Cat(got[c], Cat(tx[c], SubSeq(s, 1, w))), SubSeq(s, w + 1, Len(s)))
                 = Cat(Cat(got[c], tx[c]), s)
  <1> DEFINE w == Accepted(c, s)
             a == SubSeq(s, 1, w)
             b == SubSeq(s, w + 1, Len(s))
  <1>1. w \in 0..Len(s)
    BY RoomType
  <1> HIDE DEF w
  <1>2. Cat(a, b) = s /\ a \in Seq(Units) /\ b \in Seq(Units)
    BY <1>1, CatSplit, Zenon
  <1> HIDE DEF a, b
  <1>3. got[c] \in Seq(Units) /\ tx[c] \in Seq(Units)
    BY PartTypes, Zenon
  <1>4. Cat(Cat(got[c], Cat(tx[c], a)), b) = Cat(Cat(got[c], tx[c]), Cat(a, b))
    BY <1>2, <1>3, CatMove
  <1> QED BY <1>2, <1>4, Zenon DEF w, a, b

\* Where write_socket leaves the units of an echo.
LEMMA WriteSocketParts ==
    ASSUME TypeOK, NEW c \in Conns, NEW r \in Seq(Units), Len(r) = 2, write_socket(c, r)
    PROVE  /\ status' = status
           /\ \A d \in Conns \ {c} : tx'[d] = tx[d] /\ out'[d] = out[d]
           /\ \/ /\ dropped' = dropped
                 /\ Cat(Cat(got[c], tx'[c]), out'[c]) = Cat(echoed[c], r)
              \/ /\ dropped' = dropped \cup {c}
                 /\ UNCHANGED <<tx, out>> /\ ~Fits(out[c], r, OutCap)
  <1>1. /\ got[c] \in Seq(Units) /\ tx[c] \in Seq(Units) /\ out[c] \in Seq(Units)
        /\ echoed[c] = Cat(Cat(got[c], tx[c]), out[c])
    BY PartTypes, Zenon
  <1>2. Cat(got[c], tx[c]) \in Seq(Units)
    BY <1>1, CatType, Zenon
  <1>3. CASE out[c] /= <<>>
    <2> DEFINE q == Put(out[c], r, OutCap)
    <2>1. /\ out' = [out EXCEPT ![c] = q]
          /\ dropped' = dropped \cup Refused(out[c], r, OutCap, c)
          /\ tx' = tx /\ status' = status
      BY <1>3, Zenon DEF write_socket, Queue
    <2> HIDE DEF q
    <2>2. out'[c] = q /\ \A d \in Conns \ {c} : tx'[d] = tx[d] /\ out'[d] = out[d]
      BY <2>1 DEF TypeOK
    <2>3. CASE Fits(out[c], r, OutCap)
      <3>1. q = Cat(out[c], r) /\ dropped' = dropped
        BY <2>1, <2>3, Zenon DEF Put, Refused, Cat, q
      <3>2. Cat(Cat(got[c], tx[c]), Cat(out[c], r)) = Cat(Cat(Cat(got[c], tx[c]), out[c]), r)
        BY <1>1, <1>2, CatAssociative
      <3> QED BY <1>1, <2>1, <2>2, <3>1, <3>2, Zenon
    <2>4. CASE ~Fits(out[c], r, OutCap)
      <3>1. q = out[c] /\ dropped' = dropped \cup {c}
        BY <2>1, <2>4, Zenon DEF Put, Refused, q
      <3>2. out' = out
        BY <2>1, <3>1 DEF TypeOK
      <3> QED BY <2>1, <2>2, <2>4, <3>1, <3>2, Zenon
    <2> QED BY <2>3, <2>4
  <1>4. CASE out[c] = <<>>
    <2> DEFINE w == Accepted(c, r)
               a == SubSeq(r, 1, w)
               b == SubSeq(r, w + 1, Len(r))
    <2>1. /\ tx' = [tx EXCEPT ![c] = tx[c] \o a]
          /\ out' = [out EXCEPT ![c] = Put(<<>>, b, OutCap)]
          /\ dropped' = dropped \cup Refused(<<>>, b, OutCap, c)
          /\ status' = status
      BY <1>4, Zenon DEF write_socket, Queue
    <2>2. w \in 0..Len(r)
      BY RoomType
    <2>3. Cat(Cat(got[c], Cat(tx[c], a)), b) = Cat(Cat(got[c], tx[c]), r)
      BY GivenChannel, Zenon
    <2> HIDE DEF w
    <2>4. b \in Seq(Units) /\ Len(b) = Len(r) - w
      BY <2>2, CatSplit, Zenon
    <2> HIDE DEF a, b
    <2>5. Fits(<<>>, b, OutCap)
      <3>1. Len(<<>>) + Len(b) <= OutCap
        BY <2>2, <2>4, EchoAssumption
      <3> QED BY <3>1 DEF Fits
    <2>6. Put(<<>>, b, OutCap) = b
      <3>1. <<>> \o b = b
        BY <2>4, ConcatEmptySeq
      <3> QED BY <2>5, <3>1 DEF Put
    <2>7. dropped' = dropped
      BY <2>1, <2>5 DEF Refused
    <2> DEFINE t == tx[c] \o a
    <2>8. t = Cat(tx[c], a)
      BY Zenon DEF Cat
    <2>9. tx' = [tx EXCEPT ![c] = t]
      BY <2>1
    <2> HIDE DEF t
    <2>10. /\ tx'[c] = t /\ out'[c] = b
           /\ \A d \in Conns \ {c} : tx'[d] = tx[d] /\ out'[d] = out[d]
      BY <2>1, <2>6, <2>9 DEF TypeOK
    <2>11. echoed[c] = Cat(got[c], tx[c])
      BY <1>1, <1>2, <1>4, CatEmpty, Zenon
    <2> QED BY <2>1, <2>3, <2>7, <2>8, <2>10, <2>11, Zenon
  <1> QED BY <1>3, <1>4

LEMMA ReplyChannel ==
    ASSUME TypeOK, BatchOK, Reply
    PROVE  Channel!Echo(Current) \/ Channel!Lose(Current)
  <1> DEFINE c == Current
             h == Head(in[c])
             r == <<2 * h - 1, 2 * h>>
  <1>1. /\ in[c] /= <<>> /\ in' = [in EXCEPT ![c] = Tail(in[c])]
        /\ write_socket(c, r)
        /\ UNCHANGED <<sent, got, rx>>
    BY Zenon DEF Reply, client, Echo
  <1>2. c \in Conns
    BY CurrentType DEF Reply
  <1>3. /\ in[c] \in Seq(1..Lines) /\ rx[c] \in Seq(1..Lines)
        /\ waiting[c] = Cat(in[c], rx[c])
        /\ echoed[c] \in Seq(Units) /\ out[c] \in Seq(Units)
        /\ Len(echoed[c]) = Len(got[c]) + Len(tx[c]) + Len(out[c])
        /\ got[c] \in Seq(Units) /\ tx[c] \in Seq(Units)
    BY <1>2, PartTypes, Zenon
  <1>4. h \in 1..Lines /\ Tail(in[c]) \in Seq(1..Lines)
    BY <1>1, <1>3, TailType
  <1>5. r \in Seq(Units) /\ Len(r) = 2
    BY <1>4, EchoType, Zenon DEF Echo
  <1>6. /\ waiting[c] /= <<>> /\ Head(waiting[c]) = h
        /\ Tail(waiting[c]) = Cat(Tail(in[c]), rx[c])
    <2>1. /\ Cat(in[c], rx[c]) /= <<>>
          /\ Head(Cat(in[c], rx[c])) = Head(in[c])
          /\ Tail(Cat(in[c], rx[c])) = Cat(Tail(in[c]), rx[c])
      BY <1>1, <1>3, CatTail
    <2> QED BY <1>3, <2>1, Zenon
  <1> DEFINE rr == r
  <1>7. Channel!Echo(c) <=>
            /\ waiting[c] /= <<>>
            /\ LET k == Head(waiting[c])
               IN  echoed' = [echoed EXCEPT ![c] = echoed[c] \o <<2 * k - 1, 2 * k>>]
            /\ waiting' = [waiting EXCEPT ![c] = Tail(waiting[c])]
            /\ UNCHANGED <<sent, [d \in Conns |-> Len(got[d])], intact>>
    BY Zenon DEF Channel!Echo
  <1>8. (/\ echoed' = [echoed EXCEPT ![c] = Cat(echoed[c], rr)]
         /\ waiting' = [waiting EXCEPT ![c] = Tail(waiting[c])]
         /\ UNCHANGED <<sent, got, intact>>) => Channel!Echo(c)
    BY <1>6, <1>7, SameSeen, Zenon DEF Cat
  <1>9. write_socket(c, rr) /\ rr \in Seq(Units) /\ Len(rr) = 2
    BY <1>1, <1>5
  <1> HIDE DEF c, h, rr
  <1>10. in'[c] = Tail(in[c]) /\ \A d \in Conns \ {c} : in'[d] = in[d] /\ rx'[d] = rx[d]
    BY <1>1, <1>2 DEF TypeOK
  <1>11. Cat(in'[c], rx'[c]) = Tail(waiting[c])
    BY <1>1, <1>6, <1>10, Zenon
  <1>12. waiting' = [waiting EXCEPT ![c] = Tail(waiting[c])]
    BY <1>2, <1>10, <1>11, WaitingStep, Zenon
  <1>13. /\ status' = status
         /\ \A d \in Conns \ {c} : tx'[d] = tx[d] /\ out'[d] = out[d]
         /\ \/ /\ dropped' = dropped
               /\ Cat(Cat(got[c], tx'[c]), out'[c]) = Cat(echoed[c], rr)
            \/ /\ dropped' = dropped \cup {c}
               /\ UNCHANGED <<tx, out>>
    BY <1>2, <1>9, WriteSocketParts, Zenon
  <1>14. \A d \in Conns \ {c} : got'[d] = got[d] /\ tx'[d] = tx[d] /\ out'[d] = out[d]
    BY <1>1, <1>13
  <1>15. CASE /\ dropped' = dropped
              /\ Cat(Cat(got[c], tx'[c]), out'[c]) = Cat(echoed[c], rr)
    <2>1. Cat(Cat(got'[c], tx'[c]), out'[c]) = Cat(echoed[c], rr)
      BY <1>1, <1>15, Zenon
    <2>2. echoed' = [echoed EXCEPT ![c] = Cat(echoed[c], rr)]
      BY <1>2, <1>14, <2>1, EchoedStep, Zenon
    <2>3. intact' = intact
      BY <1>13, <1>15, SameIntact, Zenon
    <2>4. Channel!Echo(c)
      BY <1>1, <1>8, <1>12, <2>2, <2>3, Zenon
    <2> QED BY <2>4 DEF c
  <1>16. CASE dropped' = dropped \cup {c} /\ UNCHANGED <<tx, out>>
    <2> DEFINE n == Len(echoed[c])
    <2>1. n \in Len(got[c])..Len(echoed[c])
      <3>1. Len(got[c]) \in Nat /\ Len(tx[c]) \in Nat /\ Len(out[c]) \in Nat
        BY <1>3, LenProperties
      <3>2. \A x, y, z \in Nat : x + y + z \in x..(x + y + z)
        OBVIOUS
      <3> QED BY <1>3, <3>1, <3>2, Zenon
    <2>2. echoed' = [echoed EXCEPT ![c] = SubSeq(echoed[c], 1, n)]
      <3>1. SubSeq(echoed[c], 1, n) = echoed[c]
        BY <1>3, SubSeqFull, Zenon
      <3>2. echoed' = echoed
        BY <1>1, <1>16, SameEchoed, Zenon
      <3> QED BY <3>1, <3>2, Zenon DEF echoed
    <2>3. intact' = intact \ {c}
      BY <1>2, <1>13, <1>16, LessIntact, Zenon
    <2> DEFINE w == waiting[c]
    <2>4. /\ Channel!Without(w, 0, 1) = Tail(w)
          /\ 0 \in 0..Len(w) /\ 1 \in 0..Len(w) /\ 0 <= 1
      <3>1. w \in Seq(1..Lines) /\ w /= <<>>
        BY <1>2, <1>6, PartTypes, Zenon
      <3> HIDE DEF w
      <3> DEFINE hs == <<Head(w)>>
      <3>2. Cat(hs, Tail(w)) = w /\ hs \in Seq(1..Lines) /\ Len(hs) = 1
        BY <3>1, CatHead, Zenon
      <3>3. Tail(w) \in Seq(1..Lines)
        BY <3>1, TailType
      <3> HIDE DEF hs
      <3>4. /\ Channel!Without(Cat(hs, Tail(w)), 0, Len(hs)) = Tail(w)
            /\ 0 \in 0..Len(Cat(hs, Tail(w))) /\ Len(hs) \in 0..Len(Cat(hs, Tail(w)))
            /\ 0 <= Len(hs)
        BY <3>2, <3>3, CatDropFirst, Zenon
      <3> QED BY <3>2, <3>4, Zenon
    <2>5. waiting' = [waiting EXCEPT ![c] = Channel!Without(waiting[c], 0, 1)]
      BY <1>12, <2>4, Zenon
    <2> HIDE DEF n
    <2>6. Channel!Lose(c)
      BY <1>1, <1>2, <2>1, <2>2, <2>3, <2>4, <2>5, LoseChannel, Zenon
    <2> QED BY <2>6 DEF c
  <1> QED BY <1>13, <1>15, <1>16

LEMMA FlushChannel ==
    ASSUME TypeOK, BatchOK, Flush
    PROVE  UNCHANGED Channel!vars
  <1> DEFINE c == Current
             s == out[c]
             w == Accepted(c, s)
             a == SubSeq(s, 1, w)
             b == SubSeq(s, w + 1, Len(s))
             t == tx[c] \o a
  <1>1. /\ tx' = [tx EXCEPT ![c] = t] /\ out' = [out EXCEPT ![c] = b]
        /\ UNCHANGED <<sent, got, rx, in, status, dropped>>
    BY Zenon DEF Flush, client
  <1>2. c \in Conns
    BY CurrentType DEF Flush
  <1>3. s \in Seq(Units) /\ echoed[c] = Cat(Cat(got[c], tx[c]), s)
    BY <1>2, PartTypes, Zenon
  <1>4. Cat(Cat(got[c], Cat(tx[c], a)), b) = Cat(Cat(got[c], tx[c]), s)
    <2> HIDE DEF s, c
    <2> QED BY <1>2, <1>3, GivenChannel, Zenon
  <1>5. t = Cat(tx[c], a)
    BY Zenon DEF Cat
  <1> HIDE DEF c, s, w, a, b, t
  <1>6. /\ tx'[c] = t /\ out'[c] = b
        /\ \A d \in Conns \ {c} : got'[d] = got[d] /\ tx'[d] = tx[d] /\ out'[d] = out[d]
    BY <1>1, <1>2 DEF TypeOK
  <1>7. Cat(Cat(got'[c], tx'[c]), out'[c]) = echoed[c]
    BY <1>1, <1>3, <1>4, <1>5, <1>6, Zenon
  <1>8. echoed' = [echoed EXCEPT ![c] = echoed[c]]
    BY <1>2, <1>6, <1>7, EchoedStep, Zenon
  <1>9. echoed' = echoed
    BY <1>8, Zenon DEF echoed
  <1>10. waiting' = waiting /\ intact' = intact
    BY <1>1, SameWaiting, SameIntact, Zenon
  <1> QED BY <1>1, <1>9, <1>10, StayChannel, Zenon

\* Everything else neither moves a line nor ends a connection.
LEMMA OtherChannel ==
    ASSUME UNCHANGED <<sent, rx, tx, got, in, out, status, dropped>>
    PROVE  UNCHANGED Channel!vars
  <1>1. waiting' = waiting /\ echoed' = echoed /\ intact' = intact
    BY SameWaiting, SameEchoed, SameIntact, Zenon
  <1> QED BY <1>1, StayChannel, Zenon

LEMMA AcceptChannel ==
    ASSUME TypeOK, EventsOK, BatchOK, Accept
    PROVE  UNCHANGED Channel!vars
  <1>1. /\ status' = [status EXCEPT ![Head(queue)] = "open"]
        /\ UNCHANGED <<sent, rx, tx, got, in, out, dropped>>
    BY Zenon DEF Accept
  <1>2. Head(queue) \in Conns /\ status[Head(queue)] = "none"
    <2>1. queue \in Seq(Conns) /\ queue /= <<>>
      BY DEF TypeOK, BatchOK, Accept
    <2>2. 1 \in 1..Len(queue) /\ Head(queue) = queue[1] /\ Head(queue) \in Conns
      BY <2>1, TailType
    <2> QED BY <2>2 DEF EventsOK
  <1>3. \A d \in Conns : status'[d] = "closed" <=> status[d] = "closed"
    BY <1>1, <1>2 DEF TypeOK
  <1>4. waiting' = waiting /\ echoed' = echoed /\ intact' = intact
    BY <1>1, <1>3, SameWaiting, SameEchoed, SameIntact, Zenon
  <1> QED BY <1>1, <1>4, StayChannel, Zenon

\* Every step of the server or of a client is a step of the channel of one
\* connection, or of none.
LEMMA NextChannel ==
    ASSUME ServerInv, [Next]_vars
    PROVE  [Channel!Next]_(Channel!vars)
  <1>1. TypeOK /\ EventsOK /\ BatchOK
    BY DEF ServerInv
  <1>2. ASSUME NEW c \in Conns, \/ Channel!Send(c) \/ Channel!Echo(c)
                               \/ Channel!See(c) \/ Channel!Lose(c)
        PROVE  Channel!Next
    BY <1>2, Zenon DEF Channel!Next
  <1>3. CASE \E c \in Conns : Connect(c) \/ Fin(c) \/ Reset(c)
    <2>1. UNCHANGED <<sent, rx, tx, got, in, out, status, dropped>>
      BY <1>3, Zenon DEF Connect, Fin, Reset, event
    <2> QED BY <2>1, OtherChannel, Zenon
  <1>4. CASE \E c \in Conns : Send(c) \/ Recv(c)
    BY <1>1, <1>2, <1>4, SendChannel, RecvChannel, Zenon
  <1>5. CASE \/ EpollWait \/ Dispatch \/ AcceptFail \/ AcceptOverrun \/ Sigpipe
             \/ ReadAgain \/ ReplyNothing \/ WriteNothing
    <2>1. UNCHANGED <<sent, rx, tx, got, in, out, status, dropped>>
      BY <1>5, Zenon DEF EpollWait, Dispatch, AcceptFail, AcceptOverrun, Sigpipe, Die,
                         ReadAgain, ReplyNothing, WriteNothing, client, event
    <2> QED BY <2>1, OtherChannel, Zenon
  <1>6. CASE Accept
    BY <1>1, <1>6, AcceptChannel, Zenon
  <1>7. CASE ReadChunk \/ ReadClose \/ Reply \/ ReplyError \/ Flush \/ FlushError
    <2>1. Current \in Conns
      BY <1>1, <1>7, CurrentType, Zenon
         DEF ReadChunk, ReadClose, Reply, ReplyError, Flush, FlushError
    <2>2. CASE ReadChunk
      BY <1>1, <1>2, <2>1, <2>2, ReadChunkChannel, Zenon
    <2>3. CASE ReadClose \/ ReplyError \/ FlushError
      <3>1. CloseEvent(Current) /\ UNCHANGED <<sent, got, rx, tx, dropped>>
        BY <2>3, Zenon DEF ReadClose, ReplyError, FlushError, client
      <3> QED BY <1>1, <1>2, <2>1, <3>1, CloseChannel, Zenon
    <2>4. CASE Reply
      BY <1>1, <1>2, <2>1, <2>4, ReplyChannel, Zenon
    <2>5. CASE Flush
      BY <1>1, <2>5, FlushChannel, Zenon
    <2> QED BY <1>7, <2>2, <2>3, <2>4, <2>5
  <1>8. CASE UNCHANGED vars
    <2>1. UNCHANGED <<sent, rx, tx, got, in, out, status, dropped>>
      BY <1>8, Zenon DEF vars
    <2> QED BY <2>1, OtherChannel, Zenon
  <1>9. \/ \E c \in Conns : Connect(c) \/ Fin(c) \/ Reset(c)
        \/ \E c \in Conns : Send(c) \/ Recv(c)
        \/ EpollWait \/ Dispatch \/ AcceptFail \/ AcceptOverrun \/ Sigpipe
        \/ ReadAgain \/ ReplyNothing \/ WriteNothing
        \/ Accept
        \/ ReadChunk \/ ReadClose \/ Reply \/ ReplyError \/ Flush \/ FlushError
        \/ UNCHANGED vars
    BY Zenon DEF Next, Server, ReadCallback, WriteCallback
  <1> QED BY <1>3, <1>4, <1>5, <1>6, <1>7, <1>8, <1>9

LEMMA InitChannel == Init => Channel!Init
  <1> SUFFICES ASSUME Init PROVE Channel!Init
    OBVIOUS
  <1>1. <<>> \in Seq(Nat) /\ Len(<<>>) = 0
    OBVIOUS
  <1>2. /\ sent = [c \in Conns |-> 0]
        /\ \A c \in Conns : /\ rx[c] = <<>> /\ tx[c] = <<>> /\ got[c] = <<>>
                            /\ in[c] = <<>> /\ out[c] = <<>> /\ status[c] = "none"
        /\ dropped = {}
    BY DEF Init
  <1>3. Cat(<<>>, <<>>) = <<>>
    BY <1>1, CatEmpty, Zenon
  <1>4. waiting = [c \in Conns |-> <<>>]
    BY <1>2, <1>3, Mapped, Zenon
  <1>5. echoed = [c \in Conns |-> <<>>]
    BY <1>2, <1>3, Mapped, Zenon
  <1>6. [c \in Conns |-> Len(got[c])] = [c \in Conns |-> 0]
    BY <1>1, <1>2
  <1>7. intact = Conns
    BY <1>2 DEF intact
  <1> QED BY <1>2, <1>4, <1>5, <1>6, <1>7, Zenon DEF Channel!Init

\* As long as lines arrive whole, the server implements the channels: for every
\* interleaving of any number of clients with the callbacks, any number of lines in a
\* read, every short write, every line a ring refuses, and every way a connection
\* ends.  That a line is cut by no read is part of EchoServer, not proved here.
THEOREM ServerIsChannel == Spec => IsChannel
  <1>1. Init => Channel!Init
    BY InitChannel
  <1>2. ServerInv /\ [Next]_vars => [Channel!Next]_(Channel!vars)
    BY NextChannel
  <1>3. Spec => Channel!Init /\ [][Channel!Next]_(Channel!vars)
    BY <1>1, <1>2, ServerInvariant, PTL DEF Spec
  <1> QED BY <1>3, Zenon DEF IsChannel, Channel!Spec
-----------------------------------------------------------------------------
(* The order and the completeness of each connection's lines.              *)

LEMMA ChannelType ==
    ASSUME TypeOK
    PROVE  /\ sent \in [Conns -> Nat]
           /\ waiting \in [Conns -> Seq(Nat)] /\ echoed \in [Conns -> Seq(Nat)]
  <1>1. 1..Lines \subseteq Nat /\ Units \subseteq Nat /\ 0..Lines \subseteq Nat
    BY EchoAssumption DEF Units
  <1>2. \A c \in Conns : waiting[c] \in Seq(1..Lines) /\ echoed[c] \in Seq(Units)
    BY PartTypes, Zenon
  <1>3. \A c \in Conns : waiting[c] \in Seq(Nat) /\ echoed[c] \in Seq(Nat)
    BY <1>1, <1>2, SeqMonotonic, Zenon
  <1>4. waiting \in [Conns -> Seq(Nat)]
    BY <1>3, Zenon DEF waiting
  <1>5. echoed \in [Conns -> Seq(Nat)]
    BY <1>3, Zenon DEF echoed
  <1> QED BY <1>1, <1>4, <1>5 DEF TypeOK

Piped(c) == /\ InOrder(echoed[c], waiting[c], sent[c])
            /\ c \in intact => Complete(echoed[c], waiting[c], sent[c])

LEMMA PipedSame ==
    ASSUME NEW d \in Conns, Piped(d), d \in intact' => d \in intact,
           echoed'[d] = echoed[d], waiting'[d] = waiting[d], sent'[d] = sent[d]
    PROVE  Piped(d)'
  BY Zenon DEF Piped

LEMMA NextPipe ==
    ASSUME TypeOK, PipeInv, [Channel!Next]_(Channel!vars)
    PROVE  PipeInv'
  <1> SUFFICES ASSUME NEW d \in Conns PROVE Piped(d)'
    BY Zenon DEF PipeInv, Piped
  <1>1. \A c \in Conns : Piped(c)
    BY Zenon DEF PipeInv, Piped
  <1>2. /\ sent \in [Conns -> Nat]
        /\ waiting \in [Conns -> Seq(Nat)] /\ echoed \in [Conns -> Seq(Nat)]
    BY ChannelType
  <1>3. CASE UNCHANGED Channel!vars
    <2>1. UNCHANGED <<sent, waiting, echoed, intact>>
      BY <1>3, Zenon DEF Channel!vars
    <2> QED BY <1>1, <2>1, PipedSame, Zenon
  <1>4. ASSUME NEW c \in Conns, Channel!Send(c)
        PROVE  Piped(d)'
    <2> DEFINE w == Append(waiting[c], sent[c] + 1)
    <2>1. /\ sent' = [sent EXCEPT ![c] = sent[c] + 1]
          /\ waiting' = [waiting EXCEPT ![c] = w]
          /\ echoed' = echoed /\ intact' = intact
      BY <1>4, Zenon DEF Channel!Send
    <2>2. Piped(c) => InOrder(echoed[c], w, sent[c] + 1)
                      /\ (c \in intact => Complete(echoed[c], w, sent[c] + 1))
      BY <1>2, SendData, Zenon DEF Piped
    <2> HIDE DEF w
    <2>3. /\ sent'[c] = sent[c] + 1 /\ waiting'[c] = w
          /\ d /= c => sent'[d] = sent[d] /\ waiting'[d] = waiting[d]
      BY <1>2, <2>1
    <2>4. CASE d = c
      BY <1>1, <2>1, <2>2, <2>3, <2>4, Zenon DEF Piped
    <2>5. CASE d /= c
      BY <1>1, <2>1, <2>3, <2>5, PipedSame, Zenon
    <2> QED BY <2>4, <2>5
  <1>5. ASSUME NEW c \in Conns, Channel!Echo(c)
        PROVE  Piped(d)'
    <2> DEFINE h == Head(waiting[c])
               e == echoed[c] \o <<2 * h - 1, 2 * h>>
               w == Tail(waiting[c])
    <2>1. /\ waiting[c] /= <<>> /\ echoed' = [echoed EXCEPT ![c] = e]
          /\ waiting' = [waiting EXCEPT ![c] = w]
          /\ sent' = sent /\ intact' = intact
      BY <1>5, Zenon DEF Channel!Echo
    <2>2. Piped(c) => InOrder(e, w, sent[c]) /\ (c \in intact => Complete(e, w, sent[c]))
      BY <1>2, <2>1, EchoData, Zenon DEF Piped
    <2> HIDE DEF h, e, w
    <2>3. /\ echoed'[c] = e /\ waiting'[c] = w
          /\ d /= c => echoed'[d] = echoed[d] /\ waiting'[d] = waiting[d]
      BY <1>2, <2>1
    <2>4. CASE d = c
      BY <1>1, <2>1, <2>2, <2>3, <2>4, Zenon DEF Piped
    <2>5. CASE d /= c
      BY <1>1, <2>1, <2>3, <2>5, PipedSame, Zenon
    <2> QED BY <2>4, <2>5
  <1>6. ASSUME NEW c \in Conns, Channel!See(c)
        PROVE  Piped(d)'
    <2>1. UNCHANGED <<sent, waiting, echoed, intact>>
      BY <1>6, Zenon DEF Channel!See
    <2> QED BY <1>1, <2>1, PipedSame, Zenon
  <1>7. ASSUME NEW c \in Conns, Channel!Lose(c)
        PROVE  Piped(d)'
    <2>1. sent' = sent /\ intact' = intact \ {c}
      BY <1>7, Zenon DEF Channel!Lose
    <2>2. PICK a \in 0..Len(waiting[c]), b \in 0..Len(waiting[c]) :
               a <= b /\ waiting' = [waiting EXCEPT ![c] = Channel!Without(waiting[c], a, b)]
      BY <1>7, Zenon DEF Channel!Lose
    <2>3. PICK l \in Len(got[c])..Len(echoed[c]) :
               echoed' = [echoed EXCEPT ![c] = SubSeq(echoed[c], 1, l)]
      <3>1. [x \in Conns |-> Len(got[x])][c] = Len(got[c])
        BY Zenon
      <3>2. \E l \in [x \in Conns |-> Len(got[x])][c]..Len(echoed[c]) :
               echoed' = [echoed EXCEPT ![c] = SubSeq(echoed[c], 1, l)]
        BY <1>7, Zenon DEF Channel!Lose
      <3> QED BY <3>1, <3>2, Zenon
    <2>4. l \in 0..Len(echoed[c])
      <3>1. Len(got[c]) \in Nat /\ Len(echoed[c]) \in Nat
        BY <1>2, PartTypes, LenProperties
      <3> QED BY <3>1
    <2> DEFINE w == Channel!Without(waiting[c], a, b)
               e == SubSeq(echoed[c], 1, l)
    <2>5. InOrder(e, w, sent[c])
      BY <1>1, <1>2, <2>2, <2>4, LoseData, Zenon DEF Piped
    <2> HIDE DEF e, w
    <2>6. echoed' = [echoed EXCEPT ![c] = e] /\ waiting' = [waiting EXCEPT ![c] = w]
      BY <2>2, <2>3, Zenon DEF e, w
    <2>7. /\ echoed'[c] = e /\ waiting'[c] = w
          /\ d /= c => echoed'[d] = echoed[d] /\ waiting'[d] = waiting[d]
      BY <1>2, <2>6
    <2>8. CASE d = c
      BY <2>1, <2>5, <2>7, <2>8, Zenon DEF Piped
    <2>9. CASE d /= c
      BY <1>1, <2>1, <2>7, <2>9, PipedSame, Zenon
    <2> QED BY <2>8, <2>9
  <1> QED BY <1>3, <1>4, <1>5, <1>6, <1>7, Zenon DEF Channel!Next

LEMMA InitPipe == Init => PipeInv
  <1> SUFFICES ASSUME Init, NEW c \in Conns PROVE Piped(c)
    BY Zenon DEF PipeInv, Piped
  <1>1. sent[c] = 0 /\ waiting[c] = <<>> /\ echoed[c] = <<>>
    <2>1. /\ sent = [x \in Conns |-> 0] /\ waiting = [x \in Conns |-> <<>>]
          /\ echoed = [x \in Conns |-> <<>>]
      BY InitChannel, Zenon DEF Channel!Init
    <2> QED BY <2>1, Zenon
  <1>2. Len(<<>>) = 0
    OBVIOUS
  <1> DEFINE s == <<>>
  <1> HIDE DEF s
  <1>3. Len(s) = 0
    BY <1>2 DEF s
  <1>4. InOrder(s, s, 0) /\ Complete(s, s, 0)
    BY <1>3 DEF InOrder, Ascending, Complete
  <1> QED BY <1>1, <1>4, Zenon DEF Piped, s

\* Of every connection, at every moment, the lines that wait are younger than what
\* has been echoed, and none is missing unless the connection has lost some.
THEOREM LinesStayInOrder == Spec => []PipeInv
  <1>1. PipeInv /\ ServerInv /\ [Next]_vars => PipeInv'
    BY NextChannel, NextPipe DEF ServerInv
  <1> QED BY <1>1, InitPipe, ServerInvariant, PTL DEF Spec

\* The inductive invariant of the whole: the server, its table and its lines.
THEOREM EchoInvariant == Spec => []EchoInv
  <1>1. Spec => []TableInv
    BY InitTable, NextTable, ServerInvariant, PTL DEF Spec
  <1>2. ServerInv /\ TableInv /\ PipeInv => EchoInv
    BY Zenon DEF EchoInv
  <1> QED BY <1>1, <1>2, ServerInvariant, LinesStayInOrder, PTL

\* When lines arrive whole, a client reads its echoes in their order and none twice,
\* whichever of them the rings have refused.
THEOREM EchoesInOrder == Spec => []EchoInOrder
  <1>1. ASSUME TypeOK, PipeInv PROVE EchoInOrder
    <2> SUFFICES ASSUME NEW c \in Conns PROVE Increasing(echoed[c])
      BY Zenon DEF EchoInOrder
    <2>1. Ascending(echoed[c]) /\ Len(echoed[c]) \in Nat
      <3>1. echoed[c] \in Seq(Nat)
        BY <1>1, ChannelType
      <3>2. Ascending(echoed[c])
        BY <1>1, Zenon DEF PipeInv, InOrder
      <3> QED BY <3>1, <3>2, LenProperties, Zenon
    <2>2. \A i \in 1..(Len(echoed[c]) - 1) :
             i \in 1..Len(echoed[c]) /\ i + 1 \in 1..Len(echoed[c]) /\ i < i + 1
      BY <2>1
    <2> QED BY <2>1, <2>2, Zenon DEF Increasing, Ascending
  <1> QED BY <1>1, TypeCorrect, LinesStayInOrder, PTL

\* When lines arrive whole, every line sent on an open connection whose rings have
\* refused nothing is echoed in full or still waits.
THEOREM NoLineLost == Spec => []NothingLost
  <1>1. PipeInv => NothingLost
    BY Zenon DEF PipeInv, NothingLost, intact
  <1> QED BY <1>1, LinesStayInOrder, PTL
-----------------------------------------------------------------------------
(* Clients that keep to their window.                                      *)
\* A client sends only while fewer than Window of its lines are unanswered.
WindowInv == \A c \in Conns : 2 * sent[c] <= Len(got[c]) + 1 + 2 * Window

LEMMA GotType == ASSUME TypeOK, NEW c \in Conns
                 PROVE  /\ sent[c] \in Nat /\ Len(got[c]) \in Nat
                        /\ [d \in Conns |-> Len(got[d])][c] = Len(got[c])
  <1>1. sent[c] \in Nat
    BY ChannelType
  <1>2. Len(got[c]) \in Nat
    BY PartTypes, LenProperties
  <1> QED BY <1>1, <1>2, Zenon

LEMMA NextWindow ==
    ASSUME TypeOK, TypeOK', WindowInv, [Channel!Next]_(Channel!vars)
    PROVE  WindowInv'
  <1> SUFFICES ASSUME NEW d \in Conns
               PROVE  2 * sent'[d] <= Len(got'[d]) + 1 + 2 * Window
    BY DEF WindowInv
  <1>1. /\ sent[d] \in Nat /\ Len(got[d]) \in Nat /\ Window \in Nat
        /\ sent \in [Conns -> Nat]
        /\ 2 * sent[d] <= Len(got[d]) + 1 + 2 * Window
    BY GotType, ChannelType, EchoAssumption DEF WindowInv
  <1> DEFINE seen == [x \in Conns |-> Len(got[x])]
             after == [x \in Conns |-> Len(got'[x])]
  <1>2. seen[d] = Len(got[d]) /\ after[d] = Len(got'[d])
    BY Zenon
  <1>3. seen' = after
    BY Zenon
  <1>4. CASE sent' = sent /\ seen' = seen
    <2>1. Len(got'[d]) = Len(got[d])
      BY <1>2, <1>3, <1>4, Zenon
    <2> QED BY <1>1, <1>4, <2>1
  <1>5. ASSUME NEW c \in Conns, Channel!Send(c)
        PROVE  2 * sent'[d] <= Len(got'[d]) + 1 + 2 * Window
    <2>1. /\ seen' = seen /\ sent' = [sent EXCEPT ![c] = sent[c] + 1]
          /\ sent[c] - (seen[c] + 1) \div 2 < Window
      BY <1>5, Zenon DEF Channel!Send
    <2>2. Len(got'[d]) = Len(got[d])
      BY <1>2, <1>3, <2>1, Zenon
    <2> HIDE DEF seen, after
    <2>3. CASE c = d
      <3> DEFINE n == Len(got[d])
      <3>1. sent'[d] = sent[d] + 1 /\ sent[d] - (n + 1) \div 2 < Window
        BY <1>1, <1>2, <2>1, <2>3
      <3> HIDE DEF n
      <3>2. n \in Nat /\ n + 1 \in Nat
        BY <1>1 DEF n
      <3>3. PICK h \in Nat, r \in 0..1 : h = (n + 1) \div 2 /\ n + 1 = 2 * h + r
        <4>1. /\ (n + 1) % 2 \in 0..(2 - 1) /\ (n + 1) \div 2 \in Nat
              /\ n + 1 = 2 * ((n + 1) \div 2) + ((n + 1) % 2)
          BY <3>2, DivMod, 2 \in Nat \ {0}, Zenon
        <4> QED BY <4>1
      <3>4. sent[d] - h < Window
        BY <3>1, <3>3, Zenon
      <3>5. 2 * (sent[d] + 1) <= n + 1 + 2 * Window
        BY <1>1, <3>2, <3>3, <3>4
      <3> QED BY <2>2, <3>1, <3>5 DEF n
    <2>4. CASE c /= d
      BY <1>1, <2>1, <2>2, <2>4
    <2> QED BY <2>3, <2>4
  <1>6. ASSUME NEW c \in Conns, Channel!See(c)
        PROVE  2 * sent'[d] <= Len(got'[d]) + 1 + 2 * Window
    <2>1. sent' = sent /\ seen' = [seen EXCEPT ![c] = seen[c] + 1]
      BY <1>6, Zenon DEF Channel!See
    <2>2. after = [seen EXCEPT ![c] = seen[c] + 1]
      BY <1>3, <2>1, Zenon
    <2>3. seen \in [Conns -> Nat]
      BY GotType
    <2> HIDE DEF seen, after
    <2>4. after[d] = seen[d] \/ after[d] = seen[d] + 1
      BY <2>2, <2>3
    <2>5. \A n \in Nat, k \in Nat :
             2 * k <= n + 1 + 2 * Window => 2 * k <= (n + 1) + 1 + 2 * Window
      BY EchoAssumption
    <2>6. sent'[d] = sent[d] /\ (Len(got'[d]) = Len(got[d]) \/ Len(got'[d]) = Len(got[d]) + 1)
      BY <1>2, <2>1, <2>4, Zenon
    <2> QED BY <1>1, <2>5, <2>6, Zenon
  <1>7. ASSUME NEW c \in Conns, Channel!Echo(c) \/ Channel!Lose(c)
        PROVE  sent' = sent /\ seen' = seen
    BY <1>7, Zenon DEF Channel!Echo, Channel!Lose
  <1>8. CASE UNCHANGED Channel!vars
    <2>1. sent' = sent /\ seen' = seen
      BY <1>8, Zenon DEF Channel!vars
    <2> QED BY <1>4, <2>1
  <1>9. \/ UNCHANGED Channel!vars
        \/ \E c \in Conns : Channel!Send(c)
        \/ \E c \in Conns : Channel!See(c)
        \/ \E c \in Conns : Channel!Echo(c) \/ Channel!Lose(c)
    BY Zenon DEF Channel!Next
  <1> QED BY <1>4, <1>5, <1>6, <1>7, <1>8, <1>9

\* What waits for an open connection and what is queued towards it together fit
\* its window.
LEMMA WindowHolds ==
    ASSUME RoomForWindow, TypeOK, PipeInv, WindowInv, NEW c \in Conns, c \in intact
    PROVE  /\ Len(in[c]) + Len(rx[c]) <= InCap
           /\ in[c] /= <<>> => Len(out[c]) + 2 <= OutCap
  <1> DEFINE i == Len(in[c])
             j == Len(rx[c])
             g == Len(got[c])
             t == Len(tx[c])
             o == Len(out[c])
             k == sent[c]
  <1>1. /\ in[c] \in Seq(1..Lines) /\ rx[c] \in Seq(1..Lines)
        /\ got[c] \in Seq(Units) /\ tx[c] \in Seq(Units) /\ out[c] \in Seq(Units)
        /\ Len(waiting[c]) = i + j /\ Len(echoed[c]) = g + t + o
    BY PartTypes, Zenon
  <1>2. i \in Nat /\ j \in Nat /\ g \in Nat /\ t \in Nat /\ o \in Nat /\ k \in Nat
    BY <1>1, LenProperties, GotType
  <1>3. in[c] /= <<>> => i >= 1
    <2>1. in[c] /= <<>> => i \in Nat \ {0}
      BY <1>1, TailType, Zenon
    <2> QED BY <1>2, <2>1
  <1>4. Len(echoed[c]) = 2 * (k - Len(waiting[c]))
    BY Zenon DEF PipeInv, Complete
  <1>5. g + t + o = 2 * (k - (i + j))
    BY <1>1, <1>4, Zenon
  <1>6. 2 * k <= g + 1 + 2 * Window
    BY DEF WindowInv
  <1>7. /\ InCap >= Window /\ OutCap >= 2 * Window + 1
        /\ Window \in Nat /\ InCap \in Nat /\ OutCap \in Nat
    BY EchoAssumption DEF RoomForWindow
  <1> HIDE DEF i, j, g, t, o, k
  <1>8. i + j <= InCap
    BY <1>2, <1>5, <1>6, <1>7
  <1>9. i >= 1 => o + 2 <= OutCap
    BY <1>2, <1>5, <1>6, <1>7
  <1> QED BY <1>3, <1>8, <1>9 DEF i, j, o

LEMMA NextDropped ==
    ASSUME RoomForWindow, ServerInv, PipeInv, WindowInv, NothingDropped, [Next]_vars
    PROVE  NothingDropped'
  <1>1. TypeOK /\ BatchOK /\ dropped = {}
    BY DEF ServerInv, NothingDropped
  <1>2. SUFFICES dropped' = dropped
    BY <1>1 DEF NothingDropped
  <1> DEFINE c == Current
  <1>3. ASSUME ReadChunk \/ Reply
        PROVE  /\ c \in Conns /\ c \in intact
               /\ Len(in[c]) + Len(rx[c]) <= InCap
               /\ in[c] /= <<>> => Len(out[c]) + 2 <= OutCap
    <2>1. pc \in {"read", "reply"}
      BY <1>3 DEF ReadChunk, Reply
    <2>2. c \in Conns /\ status[c] = "open"
      BY <1>1, <2>1, CurrentType DEF BatchOK, Current
    <2>3. c \in intact
      BY <1>1, <2>2 DEF intact
    <2> HIDE DEF c
    <2> QED BY <1>1, <2>2, <2>3, WindowHolds
  <1>4. CASE ReadChunk
    <2> DEFINE k == IF Len(rx[c]) < ReadMax THEN Len(rx[c]) ELSE ReadMax
               chunk == SubSeq(rx[c], 1, k)
    <2>1. dropped' = dropped \cup Refused(in[c], chunk, InCap, c)
      BY <1>4, Zenon DEF ReadChunk
    <2>2. in[c] \in Seq(1..Lines) /\ rx[c] \in Seq(1..Lines)
      BY <1>1, <1>3, <1>4, PartTypes, Zenon
    <2>3. Len(in[c]) \in Nat /\ Len(rx[c]) \in Nat
      BY <2>2, LenProperties
    <2>4. k \in 0..Len(rx[c])
      BY <2>3, EchoAssumption
    <2> HIDE DEF k
    <2>5. Len(chunk) = k
      BY <2>2, <2>4, CatSplit, Zenon
    <2> HIDE DEF chunk
    <2>6. Len(in[c]) + Len(chunk) <= InCap
      <3>1. Len(in[c]) + Len(rx[c]) <= InCap
        BY <1>3, <1>4
      <3>2. \A x, y \in Nat : \A z \in 0..y : x + y <= InCap => x + z <= InCap
        BY EchoAssumption
      <3> QED BY <2>3, <2>4, <2>5, <3>1, <3>2, Zenon
    <2> QED BY <2>1, <2>6, Zenon DEF Refused, Fits
  <1>5. CASE Reply
    <2> DEFINE r == <<2 * Head(in[c]) - 1, 2 * Head(in[c])>>
    <2>1. in[c] /= <<>> /\ write_socket(c, r)
      BY <1>5, Zenon DEF Reply, Echo
    <2>2. in[c] \in Seq(1..Lines)
      BY <1>1, <1>3, <1>5, PartTypes, Zenon
    <2>3. Head(in[c]) \in 1..Lines
      BY <2>1, <2>2, TailType
    <2>4. r \in Seq(Units) /\ Len(r) = 2
      BY <2>3, EchoType, Zenon DEF Echo
    <2> HIDE DEF r
    <2>5. dropped' = dropped \/ ~Fits(out[c], r, OutCap)
      BY <1>1, <1>3, <1>5, <2>1, <2>4, WriteSocketParts, Zenon
    <2>6. Fits(out[c], r, OutCap)
      <3>1. Len(out[c]) + 2 <= OutCap
        BY <1>3, <1>5, <2>1
      <3> QED BY <2>4, <3>1, Zenon DEF Fits
    <2> QED BY <2>5, <2>6
  <1>6. CASE ~(ReadChunk \/ Reply)
    <2>1. CASE \E x \in Conns : Connect(x) \/ Send(x) \/ Recv(x) \/ Fin(x) \/ Reset(x)
      BY <2>1, Zenon DEF Connect, Send, Recv, Fin, Reset
    <2>2. CASE EpollWait \/ Dispatch \/ Accept \/ AcceptFail \/ AcceptOverrun \/ Sigpipe
      BY <2>2, Zenon DEF EpollWait, Dispatch, Accept, AcceptFail, AcceptOverrun, Sigpipe, Die
    <2>3. CASE ReadClose \/ ReadAgain \/ ReplyNothing \/ ReplyError
      BY <2>3, Zenon DEF ReadClose, ReadAgain, ReplyNothing, ReplyError
    <2>4. CASE WriteCallback
      BY <2>4, Zenon DEF WriteCallback, WriteNothing, Flush, FlushError
    <2>5. CASE UNCHANGED vars
      BY <2>5, Zenon DEF vars
    <2> QED BY <1>6, <2>1, <2>2, <2>3, <2>4, <2>5, Zenon DEF Next, Server, ReadCallback
  <1> QED BY <1>4, <1>5, <1>6

LEMMA InitWindow == Init => WindowInv
  <1> SUFFICES ASSUME Init, NEW c \in Conns
               PROVE  2 * sent[c] <= Len(got[c]) + 1 + 2 * Window
    BY DEF WindowInv
  <1>1. sent[c] = 0 /\ got[c] = <<>>
    BY DEF Init
  <1>2. Window \in Nat /\ Len(<<>>) = 0
    BY EchoAssumption
  <1> QED BY <1>1, <1>2

\* Clients that let at most Window echoes be outstanding never overfill rings that
\* hold Window lines and 2 * Window + 1 units: rb_write, whose result the server
\* ignores, then never refuses a byte.
THEOREM WindowPreventsDrops == ASSUME RoomForWindow PROVE Spec => []NothingDropped
  <1>1. WindowInv /\ ServerInv /\ ServerInv' /\ [Next]_vars => WindowInv'
    BY NextChannel, NextWindow DEF ServerInv
  <1>2. Spec => []WindowInv
    BY <1>1, InitWindow, ServerInvariant, PTL DEF Spec
  <1>3. Init => NothingDropped
    BY DEF Init, NothingDropped
  <1>4. NothingDropped /\ ServerInv /\ PipeInv /\ WindowInv /\ [Next]_vars => NothingDropped'
    BY NextDropped
  <1> QED BY <1>2, <1>3, <1>4, ServerInvariant, LinesStayInOrder, PTL DEF Spec
=============================================================================
