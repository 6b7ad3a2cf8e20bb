--------------------------- MODULE RingBufProofs ----------------------------
(***************************************************************************)
(* Theorems about RingBuf, for every ring size, position width, alphabet   *)
(* and set of writes that satisfy RingAssumption.                          *)
(***************************************************************************)
EXTENDS RingBuf, DataTheorems

-----------------------------------------------------------------------------
(* Positions and slots.                                                    *)

\* The slot of a position k bytes further on, also across the wrap of the
\* unsigned position.
LEMMA SlotAdd ==
    ASSUME NEW p \in UInt, NEW k \in 0..Size
    PROVE  /\ UAdd(p, k) \in UInt
           /\ Slot(p) \in Slots
           /\ Slot(UAdd(p, k)) = IF Slot(p) + k < Size THEN Slot(p) + k
                                 ELSE Slot(p) + k - Size
  <1> DEFINE d == p \div Size
  <1>1. Size \in Nat \ {0} /\ M \in Nat
    BY RingAssumption
  <1>2. PICK w \in 2..M : M = w * Size
    BY RingAssumption
  <1>3. p \in Nat /\ p < M /\ Slot(p) \in 0..(Size - 1) /\ d \in Nat /\ p = Size * d + Slot(p)
    <2>1. p \in Nat /\ p < M
      BY <1>1 DEF UInt
    <2>2. /\ p % Size \in 0..(Size - 1)
          /\ p \div Size \in Nat
          /\ p = Size * (p \div Size) + (p % Size)
      BY <1>1, <2>1, DivMod, Zenon
    <2> QED BY <2>1, <2>2, Zenon DEF Slot
  <1>4. 2 * Size <= M
    <2>1. w \in Nat /\ w >= 2
      OBVIOUS
    <2> QED BY <1>1, <1>2, <2>1, SMT
  <1>5. UAdd(p, k) \in UInt
    BY <1>1, <1>3, <1>4 DEF UAdd, UInt
  <1> HIDE DEF d
  <1>6. CASE Slot(p) + k < Size
    <2>1. p + k < M
      <3>1. d + 1 <= w
        BY <1>1, <1>2, <1>3, SMT
      <3>2. Size * (d + 1) <= w * Size
        BY <1>1, <1>3, <3>1, SMT
      <3> QED BY <1>1, <1>2, <1>3, <1>6, <3>2, SMT
    <2>2. UAdd(p, k) = Size * d + (Slot(p) + k)
      BY <1>1, <1>3, <2>1 DEF UAdd
    <2>3. Slot(p) + k \in 0..(Size - 1)
      BY <1>1, <1>3, <1>6
    <2>4. (Size * d + (Slot(p) + k)) % Size = Slot(p) + k
      BY <1>1, <1>3, <2>3, ModUnique, Zenon
    <2>5. Slot(UAdd(p, k)) = Slot(p) + k
      BY <2>2, <2>4, Zenon DEF Slot
    <2> QED BY <1>3, <1>5, <1>6, <2>5, Zenon DEF Slots
  <1>7. CASE ~(Slot(p) + k < Size)
    <2> DEFINE s == Slot(p) + k - Size
    <2>1. s \in 0..(Size - 1)
      BY <1>1, <1>3, <1>7
    <2>2. p + k = Size * (d + 1) + s
      BY <1>1, <1>3, SMT
    <2> HIDE DEF s
    <2>3. CASE p + k < M
      <3>1. UAdd(p, k) = Size * (d + 1) + s
        BY <2>2, <2>3 DEF UAdd
      <3>2. d + 1 \in Nat
        BY <1>3
      <3>3. (Size * (d + 1) + s) % Size = s
        BY <1>1, <2>1, <3>2, ModUnique, Zenon
      <3>4. Slot(UAdd(p, k)) = s
        BY <3>1, <3>3, Zenon DEF Slot
      <3> QED BY <1>1, <1>3, <1>5, <1>7, <3>4 DEF s, Slots
    <2>4. CASE ~(p + k < M)
      <3>1. d + 1 >= w
        <4>1. SUFFICES ASSUME d + 2 <= w PROVE FALSE
          BY <1>3
        <4>2. Size * (d + 2) <= w * Size
          BY <1>1, <1>3, <4>1, SMT
        <4>3. Size * (d + 2) = Size * (d + 1) + Size
          BY <1>1, <1>3, SMT
        <4> DEFINE lo == Size * (d + 1)
        <4>4. lo \in Nat
          BY <1>1, <1>3, SMT
        <4>5. p + k = lo + s /\ lo + Size <= M
          BY <1>2, <2>2, <4>2, <4>3
        <4> HIDE DEF lo
        <4> QED BY <1>1, <1>3, <2>1, <2>4, <4>4, <4>5
      <3>2. d < w
        BY <1>1, <1>2, <1>3, SMT
      <3>3. d + 1 = w
        BY <1>1, <1>3, <3>1, <3>2
      <3>4. UAdd(p, k) = Size * 0 + s
        BY <1>1, <1>2, <1>3, <2>1, <2>2, <2>4, <3>3, SMT DEF UAdd
      <3>5. Slot(UAdd(p, k)) = s
        BY <1>1, <2>1, <3>4, ModUnique DEF Slot
      <3> QED BY <1>1, <1>3, <1>5, <1>7, <3>5 DEF s, Slots
    <2> QED BY <2>3, <2>4
  <1> QED BY <1>6, <1>7
-----------------------------------------------------------------------------
(* What the operations do to the live bytes, while the positions are in    *)
(* order.                                                                  *)

LEMMA SizeFacts == /\ Size \in Nat \ {0}
                   /\ M \in Nat
                   /\ 2 * Size <= M
                   /\ LineSz \in Nat
                   /\ NL \in Bytes
  <1>1. Size \in Nat \ {0} /\ M \in Nat /\ LineSz \in Nat /\ NL \in Bytes
    BY RingAssumption
  <1>2. PICK w \in 2..M : M = w * Size
    BY RingAssumption
  <1>3. w \in Nat /\ w >= 2
    BY <1>1
  <1> QED BY <1>1, <1>2, <1>3, SMT

LEMMA SlotType == ASSUME NEW p \in Nat PROVE Slot(p) \in Slots
  BY SizeFacts, DivMod, Zenon DEF Slot, Slots

LEMMA ChunkType == ASSUME NEW c \in Chunks
                   PROVE  /\ Len(c) \in Nat \ {0}
                          /\ \A k \in 1..Len(c) : c[k] \in Bytes
  <1>1. c \in Seq(Bytes) /\ c /= <<>>
    BY RingAssumption
  <1> QED BY <1>1

\* The number of live bytes, and what remains, in ordinary arithmetic.
LEMMA LenFacts ==
    ASSUME TypeOK, InOrder
    PROVE  /\ rb_len \in 0..size
           /\ rb_remain = size - rb_len
           /\ UAdd(read_pos, rb_len) = write_pos
           /\ rb_isempty <=> rb_len = 0
  <1>1. /\ write_pos \in 0..(M - 1) /\ read_pos \in 0..(M - 1)
        /\ size \in {0, Size}
    BY DEF TypeOK, UInt
  <1> QED BY <1>1, SizeFacts, SMT DEF InOrder, rb_len, rb_remain, rb_isempty, UAdd, USub

\* A torn ring shows one byte, and is not in order.
LEMMA TornFacts == ASSUME Torn PROVE rb_len = 1 /\ ~rb_isempty /\ ~InOrder
  <1>1. size = 0 /\ write_pos = 0 /\ read_pos = M - 1
    BY SizeFacts DEF Torn, USub
  <1>2. USub(0, M - 1) = 1 /\ M - 1 /= 0
    BY SizeFacts DEF USub
  <1> QED BY <1>1, <1>2 DEF rb_len, rb_isempty, InOrder

\* Moving the read position over k live bytes drops exactly the first k.
LEMMA ConsumeLive ==
    ASSUME TypeOK, InOrder, NEW k \in 0..rb_len, Consume(k)
    PROVE  /\ rb_len' = rb_len - k
           /\ read_pos' \in UInt
           /\ \A j \in 0..(rb_len - k) : At(j)' = At(k + j)
  <1>1. /\ write_pos \in 0..(M - 1) /\ read_pos \in 0..(M - 1)
        /\ size \in {0, Size}
    BY DEF TypeOK, UInt
  <1>2. rb_len \in 0..size /\ k \in 0..Size
    BY <1>1, LenFacts, SizeFacts
  <1>3. read_pos' = UAdd(read_pos, k) /\ write_pos' = write_pos /\ buf' = buf
    BY DEF Consume
  <1>4. rb_len' = rb_len - k
    BY <1>1, <1>2, <1>3, SizeFacts, SMT DEF rb_len, UAdd, USub, InOrder
  <1>5. read_pos' \in UInt
    BY <1>1, <1>2, <1>3, SizeFacts, SMT DEF UAdd, UInt
  <1>6. ASSUME NEW j \in 0..(rb_len - k)
        PROVE  At(j)' = At(k + j)
    <2>1. UAdd(read_pos', j) = UAdd(read_pos, k + j)
      BY <1>1, <1>2, <1>3, SizeFacts, SMT DEF UAdd
    <2> QED BY <1>3, <2>1 DEF At
  <1> QED BY <1>4, <1>5, <1>6

\* A write that is accepted appends its bytes and leaves the live ones alone,
\* whether or not it wraps around the edge of the ring.
LEMMA WriteLive ==
    ASSUME TypeOK, InOrder, NEW c \in Chunks,
           Len(c) <= rb_remain,
           buf' = Copied(c),
           write_pos' = UAdd(write_pos, Len(c)),
           UNCHANGED <<size, read_pos>>
    PROVE  /\ size = Size
           /\ buf' \in [Slots -> Bytes]
           /\ write_pos' \in UInt
           /\ rb_len' = rb_len + Len(c)
           /\ rb_len' <= size
           /\ \A j \in 0..(rb_len - 1) : At(j)' = At(j)
           /\ \A m \in rb_len..(rb_len + Len(c) - 1) : At(m)' = c[m - rb_len + 1]
  <1> DEFINE l == Len(c)
             off == Slot(write_pos)
             ra == Slot(read_pos)
             n == rb_len
  <1>1. /\ write_pos \in UInt /\ read_pos \in UInt
        /\ size \in {0, Size} /\ buf \in [Slots -> Bytes]
    BY DEF TypeOK
  <1>2. l \in Nat \ {0} /\ \A k \in 1..l : c[k] \in Bytes
    BY ChunkType
  <1>3. n \in 0..size /\ l <= size - n
    BY LenFacts
  <1>4. size = Size
    BY <1>1, <1>2, <1>3
  <1>5. n \in 0..Size /\ n + l <= Size
    BY <1>2, <1>3, <1>4, SizeFacts
  <1>6. /\ ra \in Slots
        /\ off = IF ra + n < Size THEN ra + n ELSE ra + n - Size
    BY <1>1, <1>5, SlotAdd, LenFacts, Zenon
  <1>7. ra \in 0..(Size - 1) /\ off \in 0..(Size - 1)
    BY <1>5, <1>6, SizeFacts DEF Slots
  <1>8. /\ write_pos' \in UInt
        /\ rb_len' = n + l
    <2>1. write_pos \in 0..(M - 1) /\ read_pos \in 0..(M - 1)
      BY <1>1 DEF UInt
    <2>2. write_pos' = UAdd(write_pos, l) /\ read_pos' = read_pos /\ l \in Nat
      BY <1>2
    <2> HIDE DEF l
    <2>3. write_pos' \in 0..(M - 1)
      BY <2>1, <2>2, <1>5, SizeFacts, SMT DEF UAdd
    <2>4. rb_len' = USub(write_pos, read_pos) + l
      BY <2>1, <2>2, <1>5, SizeFacts, SMT DEF UAdd, USub, rb_len
    <2> QED BY <2>3, <2>4 DEF UInt, rb_len
  <1> DEFINE i == Lesser(l, Size - off)
  <1>9. /\ i \in 0..l /\ off + i <= Size /\ (i = l \/ i = Size - off)
    BY <1>2, <1>7, SizeFacts, SMT DEF Lesser
  <1>10. \A s \in Slots : buf'[s] = IF s < l - i THEN c[i + s + 1]
                                    ELSE IF s >= off /\ s < off + i THEN c[s - off + 1]
                                    ELSE buf[s]
    BY <1>4, Zenon DEF Copied
  <1> HIDE DEF l, off, ra, n, i
  <1>11. buf' \in [Slots -> Bytes]
    <2>1. ASSUME NEW s \in Slots
          PROVE  buf'[s] \in Bytes
      <3>1. s \in 0..(Size - 1)
        BY DEF Slots
      <3>2. CASE s < l - i
        BY <1>2, <1>9, <1>10, <3>1, <3>2
      <3>3. CASE ~(s < l - i) /\ s >= off /\ s < off + i
        BY <1>2, <1>7, <1>9, <1>10, <3>1, <3>3
      <3>4. CASE ~(s < l - i) /\ ~(s >= off /\ s < off + i)
        BY <1>1, <1>10, <3>4
      <3> QED BY <3>2, <3>3, <3>4
    <2>2. buf' = [s \in Slots |-> buf'[s]]
      BY <1>4, Zenon DEF Copied
    <2> QED BY <2>1, <2>2
  <1>12. ASSUME NEW j \in 0..(n - 1)
         PROVE  At(j)' = At(j)
    <2> DEFINE s == Slot(UAdd(read_pos, j))
    <2>1. j \in 0..Size
      BY <1>5, SizeFacts
    <2>2. s = IF ra + j < Size THEN ra + j ELSE ra + j - Size
      BY <1>1, <2>1, SlotAdd, Zenon DEF ra
    <2>3. s \in Slots /\ s \in 0..(Size - 1)
      BY <1>7, <2>1, <2>2, SizeFacts DEF Slots
    <2> HIDE DEF s
    <2>4. ~(s < l - i) /\ ~(s >= off /\ s < off + i)
      BY <1>2, <1>5, <1>6, <1>7, <1>9, <2>1, <2>2, SizeFacts
    <2>5. buf'[s] = buf[s]
      BY <1>10, <2>3, <2>4
    <2> QED BY <2>5 DEF At, s
  <1>13. ASSUME NEW m \in n..(n + l - 1)
         PROVE  At(m)' = c[m - n + 1]
    <2> DEFINE j == m - n + 1
               s == Slot(UAdd(read_pos, m))
    <2>1. m \in 0..Size /\ j \in 1..l
      BY <1>2, <1>5, SizeFacts
    <2>2. s = IF ra + m < Size THEN ra + m ELSE ra + m - Size
      BY <1>1, <2>1, SlotAdd, Zenon DEF ra
    <2> HIDE DEF s
    <2>3. s \in Slots /\ s \in 0..(Size - 1)
      BY <1>7, <2>1, <2>2, SizeFacts DEF Slots
    <2>4. CASE j <= i
      <3>1. s = off + j - 1 /\ ~(s < l - i)
        BY <1>2, <1>5, <1>6, <1>7, <1>9, <2>2, <2>4, SizeFacts
      <3>2. s >= off /\ s < off + i /\ s - off + 1 = j
        BY <1>2, <1>7, <1>9, <2>1, <2>4, <3>1, SizeFacts
      <3> QED BY <1>10, <2>3, <3>1, <3>2 DEF At, s
    <2>5. CASE ~(j <= i)
      <3>1. s = j - i - 1 /\ s < l - i /\ i + s + 1 = j
        BY <1>2, <1>5, <1>6, <1>7, <1>9, <2>2, <2>5, SizeFacts
      <3> QED BY <1>10, <2>3, <3>1 DEF At, s
    <2> QED BY <2>4, <2>5
  <1> QED BY <1>4, <1>5, <1>8, <1>11, <1>12, <1>13 DEF n, l
-----------------------------------------------------------------------------
(* Every call that hands bytes out hands out the oldest live bytes.        *)

Oldest(m) == [k \in 1..m |-> At(k - 1)]

LEMMA AtType == ASSUME TypeOK, NEW j \in Nat PROVE At(j) \in Bytes
  <1>1. UAdd(read_pos, j) \in Nat
    BY SizeFacts, SMT DEF TypeOK, UInt, UAdd
  <1> QED BY <1>1, SlotType DEF At, TypeOK

LEMMA OldestType == ASSUME TypeOK, NEW m \in Nat PROVE Oldest(m) \in Seq(Bytes)
  <1>1. \A k \in 1..m : At(k - 1) \in Bytes
    <2>1. ASSUME NEW k \in 1..m PROVE k - 1 \in Nat
      OBVIOUS
    <2> QED BY <2>1, AtType
  <1> QED BY <1>1 DEF Oldest

\* rb_read's two memcpy calls.
LEMMA SegmentsLive ==
    ASSUME TypeOK, InOrder, size = Size, NEW m \in 0..rb_len
    PROVE  Segments(m) = Oldest(m)
  <1> DEFINE ra == Slot(read_pos)
             i == Lesser(m, Size - ra)
  <1>1. m \in 0..Size /\ read_pos \in UInt /\ rb_len \in 0..Size
    BY LenFacts, SizeFacts DEF TypeOK
  <1>2. ra \in 0..(Size - 1)
    BY <1>1, SlotAdd, SizeFacts DEF Slots
  <1>3. i \in 0..m /\ ra + i <= Size /\ (i = m \/ i = Size - ra)
    BY <1>1, <1>2, SizeFacts DEF Lesser
  <1> HIDE DEF i
  <1>4. ASSUME NEW k \in 1..m
        PROVE  (IF k <= i THEN buf[ra + k - 1] ELSE buf[k - i - 1]) = At(k - 1)
    <2>1. k - 1 \in 0..Size
      BY <1>1, SizeFacts
    <2>2. Slot(UAdd(read_pos, k - 1)) = IF ra + (k - 1) < Size THEN ra + (k - 1)
                                        ELSE ra + (k - 1) - Size
      BY <1>1, <2>1, SlotAdd, Zenon
    <2> HIDE DEF ra
    <2>3. CASE k <= i
      <3>1. ra + (k - 1) < Size /\ ra + (k - 1) = ra + k - 1
        BY <1>1, <1>2, <1>3, <2>3, SizeFacts
      <3> QED BY <2>2, <2>3, <3>1 DEF At
    <2>4. CASE ~(k <= i)
      <3>1. ~(ra + (k - 1) < Size) /\ ra + (k - 1) - Size = k - i - 1
        BY <1>1, <1>2, <1>3, <2>4, SizeFacts
      <3> QED BY <2>2, <2>4, <3>1 DEF At
    <2> QED BY <2>3, <2>4
  <1>5. Segments(m) = [k \in 1..m |-> IF k <= i THEN buf[ra + k - 1] ELSE buf[k - i - 1]]
    BY Zenon DEF Segments, i
  <1> QED BY <1>4, <1>5, Zenon DEF Oldest

\* flush_socket's two writes.
LEMMA FlushLive ==
    ASSUME TypeOK, InOrder, ~rb_isempty,
           NEW a \in 0..Size, NEW b \in 0..Size, flush_socket(a, b)
    PROVE  /\ a + b \in 0..rb_len
           /\ Return("flush", Oldest(a + b), a + b, 0)
           /\ Consume(a + b)
  <1> DEFINE ra == Slot(read_pos)
             first == Lesser(Size - ra, rb_len)
             sent == a + b
  <1>1. read_pos \in UInt /\ size \in {0, Size} /\ rb_len \in 0..size /\ rb_len /= 0
    BY LenFacts DEF TypeOK
  <1>2. size = Size /\ rb_len \in 1..Size
    BY <1>1, SizeFacts
  <1>3. ra \in 0..(Size - 1)
    BY <1>1, SlotAdd, SizeFacts, Zenon DEF Slots
  <1>4. /\ a <= first
        /\ IF a < first THEN b = 0 ELSE b <= rb_len - first
        /\ Return("flush", [k \in 1..sent |-> IF k <= a THEN buf[ra + k - 1]
                                              ELSE buf[Slot(UAdd(read_pos, a)) + k - a - 1]],
                  sent, 0)
        /\ Consume(sent)
    BY <1>2, Zenon DEF flush_socket
  <1>5. /\ sent \in 0..rb_len /\ sent \in 0..Size
        /\ b = 0 \/ (a = Size - ra /\ a < rb_len)
        /\ ra + a <= Size
    BY <1>2, <1>3, <1>4, SizeFacts DEF Lesser
  <1>6. ASSUME NEW k \in 1..sent
        PROVE  (IF k <= a THEN buf[ra + k - 1]
                ELSE buf[Slot(UAdd(read_pos, a)) + k - a - 1]) = At(k - 1)
    <2>1. k - 1 \in 0..Size
      BY <1>5, SizeFacts
    <2>2. /\ Slot(UAdd(read_pos, k - 1)) = IF ra + (k - 1) < Size THEN ra + (k - 1)
                                           ELSE ra + (k - 1) - Size
          /\ Slot(UAdd(read_pos, a)) = IF ra + a < Size THEN ra + a ELSE ra + a - Size
      BY <1>1, <2>1, SlotAdd, Zenon
    <2> HIDE DEF ra
    <2>3. CASE k <= a
      <3>1. ra + (k - 1) < Size /\ ra + (k - 1) = ra + k - 1
        BY <1>2, <1>3, <1>5, <2>3, SizeFacts
      <3> QED BY <2>2, <2>3, <3>1 DEF At
    <2>4. CASE ~(k <= a)
      <3>1. b /= 0 /\ a = Size - ra
        BY <1>5, <2>4, SizeFacts
      <3>2. Slot(UAdd(read_pos, a)) = 0
        BY <1>3, <2>2, <3>1, SizeFacts
      <3>3. ~(ra + (k - 1) < Size) /\ ra + (k - 1) - Size = 0 + k - a - 1
        BY <1>3, <2>4, <3>1, SizeFacts
      <3> QED BY <2>2, <2>4, <3>2, <3>3 DEF At
    <2> QED BY <2>3, <2>4
  <1>7. [k \in 1..sent |-> IF k <= a THEN buf[ra + k - 1]
                           ELSE buf[Slot(UAdd(read_pos, a)) + k - a - 1]] = Oldest(sent)
    BY <1>6, Zenon DEF Oldest
  <1> QED BY <1>4, <1>5, <1>7, Zenon

\* When every write ends a line, rb_readline's scan stops inside the live bytes
\* and what it returns is the oldest line.
LEMMA ReadlineLive ==
    ASSUME RingInv, InOrder, rb_readline
    PROVE  \/ rb_isempty /\ Nothing("line")
           \/ \E m \in 1..rb_len :
                /\ At(m - 1) = NL
                /\ \A j \in 0..(m - 2) : At(j) /= NL
                /\ Return("line", Oldest(m), m, Past(m))
                /\ Consume(m)
  <1> SUFFICES ASSUME ~rb_isempty
               PROVE  \E m \in 1..rb_len :
                        /\ At(m - 1) = NL
                        /\ \A j \in 0..(m - 2) : At(j) /= NL
                        /\ Return("line", Oldest(m), m, Past(m))
                        /\ Consume(m)
    BY TornFacts DEF rb_readline, Crash
  <1>1. rb_len \in 0..size /\ size \in {0, Size} /\ rb_len /= 0 /\ At(rb_len - 1) = NL
    BY LenFacts, TornFacts DEF RingInv, TypeOK, EndsWithLine
  <1>2. rb_len \in 1..Size /\ rb_len - 1 \in UInt /\ Scanned(rb_len - 1)
    BY <1>1, SizeFacts DEF UInt, Scanned
  <1>3. PICK i \in UInt :
            /\ At(i) = NL
            /\ \A j \in 0..(i - 1) : At(j) /= NL
            /\ Return("line", [k \in 1..(i + 1) |-> At(k - 1)], i + 1, Past(i + 1))
            /\ Consume(i + 1)
    BY <1>1, <1>2, TornFacts, Zenon DEF rb_readline, Crash
  <1>4. i \in Nat /\ i <= rb_len - 1
    BY <1>1, <1>2, <1>3, SizeFacts DEF UInt
  <1>5. i + 1 \in 1..rb_len /\ (i + 1) - 1 = i /\ (i + 1) - 2 = i - 1
    BY <1>2, <1>4, SizeFacts
  <1>6. At((i + 1) - 1) = NL /\ \A j \in 0..((i + 1) - 2) : At(j) /= NL
    BY <1>3, <1>5
  <1>7. Return("line", Oldest(i + 1), i + 1, Past(i + 1)) /\ Consume(i + 1)
    BY <1>3, Zenon DEF Oldest
  <1> QED BY <1>5, <1>6, <1>7, Zenon
-----------------------------------------------------------------------------
(* The inductive invariant.  Neither TypeOK nor PositionsOK is inductive   *)
(* alone: the scan of rb_readline stays inside the live bytes only because *)
(* the last of them is a newline.  A torn ring is in nobody's way, since   *)
(* all that can be done with it is to mend it or to fail again.            *)

LEMMA InitInv == Init => RingInv /\ InOrder
  BY SizeFacts DEF Init, RingInv, TypeOK, PositionsOK, InOrder, EndsWithLine, rb_len, rb_isempty,
                   USub, UInt

\* A call that changes nothing but its result.
LEMMA NothingInv ==
    ASSUME RingInv, UNCHANGED ring, call' \in {"write", "read", "line", "flush", "crash"},
           out' = <<>>, moved' = 0, overrun' \in Nat
    PROVE  RingInv'
  BY DEF RingInv, TypeOK, PositionsOK, InOrder, Torn, EndsWithLine, rb_len, rb_isempty, At, ring

\* A call that takes the m oldest bytes.
LEMMA TakeInv ==
    ASSUME RingInv, InOrder,
           NEW m \in 0..rb_len, NEW kind \in {"read", "line", "flush"}, NEW p \in Nat,
           Return(kind, Oldest(m), m, p), Consume(m)
    PROVE  RingInv'
  <1>1. TypeOK /\ InOrder /\ EndsWithLine /\ ~Torn
    BY TornFacts DEF RingInv
  <1>2. /\ rb_len \in 0..size /\ m \in Nat /\ size \in {0, Size}
        /\ rb_len' = rb_len - m
        /\ read_pos' \in UInt
        /\ \A j \in 0..(rb_len - m) : At(j)' = At(m + j)
    BY <1>1, LenFacts, ConsumeLive, SizeFacts DEF TypeOK
  <1>3. TypeOK'
    BY <1>1, <1>2, OldestType DEF TypeOK, Return, Consume
  <1>4. PositionsOK'
    BY <1>1, <1>2, SizeFacts DEF PositionsOK, InOrder, Consume
  <1>5. EndsWithLine'
    <2>1. SUFFICES ASSUME ~rb_isempty' PROVE At(rb_len - 1)' = NL
      BY DEF EndsWithLine
    <2>2. rb_len' /= 0 /\ ~rb_isempty
      <3>1. /\ read_pos' \in 0..(M - 1) /\ write_pos' \in 0..(M - 1)
            /\ read_pos' /= write_pos'
        BY <1>3, <2>1 DEF TypeOK, UInt, rb_isempty
      <3>2. rb_len' /= 0
        <4>1. rb_len' = USub(write_pos', read_pos')
          BY DEF rb_len, USub
        <4>2. ASSUME NEW w \in 0..(M - 1), NEW r \in 0..(M - 1), w /= r
              PROVE  USub(w, r) /= 0
          BY <4>2, SizeFacts DEF USub
        <4> QED BY <3>1, <4>1, <4>2
      <3>3. rb_len /= 0
        BY <1>2, <3>2, SizeFacts
      <3> QED BY <1>1, <3>2, <3>3, LenFacts
    <2>3. rb_len' - 1 \in 0..(rb_len - m) /\ m + (rb_len' - 1) = rb_len - 1
      BY <1>2, <2>2, SizeFacts
    <2>4. PICK j \in 0..(rb_len - m) : j = rb_len' - 1
      BY <2>3
    <2>5. At(rb_len - 1)' = At(m + j)
      BY <1>2, <2>4 DEF At
    <2>6. At(m + j) = NL
      BY <1>1, <2>2, <2>3, <2>4 DEF EndsWithLine
    <2> QED BY <2>5, <2>6
  <1> QED BY <1>3, <1>4, <1>5 DEF RingInv

\* What a write that fits does, the ring being in order.
LEMMA PutDoes ==
    ASSUME TypeOK, InOrder, NEW c \in Chunks, Len(c) <= rb_remain, rb_write(c)
    PROVE  /\ buf' = Copied(c)
           /\ write_pos' = UAdd(write_pos, Len(c))
           /\ Return("write", <<>>, Len(c), 0)
           /\ UNCHANGED <<size, read_pos>>
  <1>1. Len(c) \in Nat /\ rb_remain \in Int
    BY ChunkType, LenFacts, SizeFacts DEF TypeOK
  <1>2. ~(Len(c) > rb_remain)
    BY <1>1
  <1> QED BY <1>2, TornFacts, Zenon DEF rb_write, Crash

\* A write that does not fit changes nothing.
LEMMA RefusedDoes ==
    ASSUME InOrder, NEW c \in Chunks, ~(Len(c) <= rb_remain), rb_write(c)
    PROVE  Nothing("write")
  BY TornFacts, Zenon DEF rb_write, Crash

\* What a read of a ring in order does.
LEMMA ReadDoes ==
    ASSUME TypeOK, InOrder, ~rb_isempty, NEW sz \in 1..Size, rb_read(sz)
    PROVE  \E len \in 0..rb_len : /\ len = Lesser(sz, rb_len)
                                  /\ Return("read", Oldest(len), len, 0)
                                  /\ Consume(len)
  <1> DEFINE len == Lesser(sz, rb_len)
  <1>1. rb_len \in 0..size /\ size \in {0, Size} /\ rb_len /= 0
    BY LenFacts DEF TypeOK
  <1>2. size = Size /\ len \in 0..rb_len
    BY <1>1, SizeFacts DEF Lesser
  <1>3. Return("read", Segments(len), len, 0) /\ Consume(len)
    BY TornFacts, Zenon DEF rb_read, Crash
  <1>4. Segments(len) = Oldest(len)
    BY <1>2, SegmentsLive
  <1> HIDE DEF len
  <1>5. Return("read", Oldest(len), len, 0)
    BY <1>3, <1>4
  <1> QED BY <1>2, <1>3, <1>5 DEF len

\* A drain that fails hands out the oldest bytes, but not all, or none of a torn
\* ring, and leaves the ring torn.
LEMMA ErrorDoes ==
    ASSUME TypeOK, FlushError
    PROVE  /\ Torn'
           /\ \/ Torn /\ Return("flush", <<>>, 0, 0)
              \/ /\ InOrder /\ rb_len \in Nat
                 /\ \E m \in 0..(rb_len - 1) : Return("flush", Oldest(m), m, 0)
           /\ TypeOK'
  <1>1. size' = 0 /\ write_pos' = 0 /\ read_pos' = USub(0, 1) /\ buf' = buf
    BY DEF FlushError
  <1>2. Torn'
    BY <1>1 DEF Torn, USub
  <1>3. CASE Torn /\ Return("flush", <<>>, 0, 0)
    <2>1. <<>> \in Seq(Bytes)
      BY EmptySeq
    <2> QED BY <1>1, <1>2, <1>3, <2>1, SizeFacts DEF TypeOK, Return, UInt, USub
  <1>4. ASSUME ~rb_isempty, InOrder, NEW a \in {0, size - Slot(read_pos)}, a < rb_len,
               Return("flush", Segments(a), a, 0)
        PROVE  /\ rb_len \in Nat
               /\ \E m \in 0..(rb_len - 1) : Return("flush", Oldest(m), m, 0)
               /\ TypeOK'
    <2>1. read_pos \in UInt /\ size \in {0, Size} /\ rb_len \in 0..size /\ rb_len /= 0
      BY <1>4, LenFacts DEF TypeOK
    <2>2. size = Size /\ rb_len \in Nat
      BY <2>1, SizeFacts
    <2>3. Slot(read_pos) \in 0..(Size - 1)
      BY <2>1, SlotType DEF UInt, Slots
    <2>4. a \in 0..(rb_len - 1) /\ a \in 0..rb_len /\ a \in Nat
      BY <1>4, <2>1, <2>2, <2>3, SizeFacts
    <2>5. Segments(a) = Oldest(a)
      BY <1>4, <2>2, <2>4, SegmentsLive
    <2>6. Return("flush", Oldest(a), a, 0) /\ Oldest(a) \in Seq(Bytes)
      BY <1>4, <2>4, <2>5, OldestType
    <2> QED BY <1>1, <2>2, <2>4, <2>6, SizeFacts DEF TypeOK, Return, UInt, USub
  <1> QED BY <1>2, <1>3, <1>4, Zenon DEF FlushError

\* All that can become of a torn ring.
LEMMA TornStep ==
    ASSUME TypeOK, Torn, Next
    PROVE  \/ Nothing("crash")
           \/ FlushError
           \/ rb_clear \/ rb_free
  <1>1. ~rb_isempty /\ ~InOrder
    BY TornFacts
  <1>2. ASSUME NEW c \in Chunks, rb_write(c) PROVE Nothing("crash")
    <2>1. ~(Len(c) > rb_remain)
      <3>1. rb_remain = M - 1
        BY SizeFacts DEF Torn, rb_remain, USub, UAdd
      <3>2. Len(c) \in Nat /\ Len(c) < M
        BY ChunkType, RingAssumption
      <3> QED BY <3>1, <3>2, SizeFacts
    <2> QED BY <1>2, <2>1, Zenon DEF rb_write, Crash
  <1>3. ASSUME NEW sz \in 1..Size, rb_read(sz) PROVE Nothing("crash")
    BY <1>1, <1>3, Zenon DEF rb_read, Crash
  <1>4. CASE rb_readline
    BY <1>1, <1>4, Zenon DEF rb_readline, Crash
  <1>5. ASSUME NEW a \in 0..Size, NEW b \in 0..Size, flush_socket(a, b) PROVE FALSE
    BY <1>1, <1>5, Zenon DEF flush_socket
  <1> QED BY <1>2, <1>3, <1>4, <1>5, Zenon DEF Next

LEMMA TornInv == ASSUME RingInv, Torn' , TypeOK' PROVE RingInv'
  BY DEF RingInv, PositionsOK, EndsWithLine

\* Clearing or freeing empties the ring, torn or not.
LEMMA EmptiedInv ==
    ASSUME TypeOK, rb_clear \/ rb_free
    PROVE  RingInv' /\ InOrder' /\ ~Torn' /\ rb_len' = 0 /\ overrun' = 0
  <1>1. write_pos' = 0 /\ read_pos' = 0 /\ buf' = buf /\ size' \in {0, Size}
    BY DEF rb_clear, rb_free, TypeOK
  <1>2. /\ call' \in {"clear", "free"} /\ out' = <<>> /\ moved' = 0 /\ overrun' = 0
        /\ <<>> \in Seq(Bytes)
    BY EmptySeq DEF rb_clear, rb_free, Return
  <1>3. rb_len' = 0 /\ rb_isempty' /\ ~Torn'
    BY <1>1, SizeFacts DEF rb_len, rb_isempty, Torn, USub
  <1>4. TypeOK'
    BY <1>1, <1>2, SizeFacts DEF TypeOK, UInt
  <1>5. InOrder'
    BY <1>1, <1>3, SizeFacts DEF InOrder
  <1> QED BY <1>2, <1>3, <1>4, <1>5 DEF RingInv, PositionsOK, EndsWithLine

\* A write that fits.
LEMMA PutInv ==
    ASSUME LinesOnly, RingInv, InOrder, NEW c \in Chunks, Len(c) <= rb_remain, rb_write(c)
    PROVE  RingInv'
  <1>1. TypeOK /\ InOrder
    BY DEF RingInv
  <1>2. /\ Len(c) \in Nat \ {0} /\ c[Len(c)] = NL
        /\ rb_len \in 0..size /\ size \in {0, Size}
    BY <1>1, ChunkType, LenFacts DEF LinesOnly, TypeOK
  <1>3. /\ buf' = Copied(c)
        /\ write_pos' = UAdd(write_pos, Len(c))
        /\ Return("write", <<>>, Len(c), 0)
        /\ UNCHANGED <<size, read_pos>>
    BY <1>1, PutDoes
  <1>4. /\ size = Size
        /\ buf' \in [Slots -> Bytes]
        /\ write_pos' \in UInt
        /\ rb_len' = rb_len + Len(c)
        /\ rb_len' <= size
        /\ \A m \in rb_len..(rb_len + Len(c) - 1) : At(m)' = c[m - rb_len + 1]
    BY <1>1, <1>3, WriteLive, Zenon
  <1>5. TypeOK'
    BY <1>1, <1>2, <1>3, <1>4 DEF TypeOK, Return
  <1>6. PositionsOK'
    BY <1>3, <1>4 DEF PositionsOK, InOrder
  <1>7. EndsWithLine'
    <2> DEFINE last == rb_len + Len(c) - 1
    <2>1. PICK m \in rb_len..last : m = rb_len' - 1 /\ m - rb_len + 1 = Len(c)
      <3>1. rb_len \in Nat
        BY <1>2, SizeFacts
      <3>2. last \in rb_len..last /\ last = rb_len' - 1 /\ last - rb_len + 1 = Len(c)
        BY <1>2, <1>4, <3>1
      <3> QED BY <3>2, Zenon
    <2>2. At(m)' = NL
      BY <1>2, <1>4, <2>1
    <2> QED BY <2>1, <2>2 DEF EndsWithLine, At
  <1> QED BY <1>5, <1>6, <1>7 DEF RingInv

LEMMA NextInv == ASSUME LinesOnly, RingInv, [Next]_vars PROVE RingInv'
  <1>1. TypeOK
    BY DEF RingInv
  <1>2. CASE UNCHANGED vars
    BY <1>2 DEF RingInv, TypeOK, PositionsOK, InOrder, Torn, EndsWithLine, rb_len, rb_isempty,
                At, vars
  <1>3. CASE rb_clear \/ rb_free
    BY <1>1, <1>3, EmptiedInv
  <1>4. CASE FlushError
    BY <1>1, <1>4, ErrorDoes, TornInv
  <1>5. CASE Torn /\ Next
    <2>1. CASE Nothing("crash")
      BY <2>1, NothingInv DEF Nothing, Return
    <2> QED BY <1>1, <1>3, <1>4, <1>5, <2>1, TornStep
  <1>6. CASE InOrder /\ Next
    <2>1. /\ InOrder /\ ~Torn
          /\ rb_len \in 0..size /\ size \in {0, Size}
      BY <1>1, <1>6, LenFacts, TornFacts DEF TypeOK
    <2>2. ASSUME NEW c \in Chunks, rb_write(c)
          PROVE  RingInv'
      <3>1. CASE Len(c) <= rb_remain
        BY <2>1, <2>2, <3>1, PutInv
      <3>2. CASE ~(Len(c) <= rb_remain)
        BY <2>1, <2>2, <3>2, RefusedDoes, NothingInv DEF Nothing, Return
      <3> QED BY <3>1, <3>2
    <2>3. ASSUME NEW sz \in 1..Size, rb_read(sz)
          PROVE  RingInv'
      <3>1. CASE rb_isempty
        BY <2>1, <2>3, <3>1, NothingInv DEF rb_read, Crash, Nothing, Return
      <3>2. CASE ~rb_isempty
        BY <1>1, <2>1, <2>3, <3>2, ReadDoes, TakeInv
      <3> QED BY <3>1, <3>2
    <2>4. ASSUME rb_readline
          PROVE  RingInv'
      <3>1. CASE rb_isempty /\ Nothing("line")
        BY <3>1, NothingInv DEF Nothing, Return
      <3>2. ASSUME NEW m \in 1..rb_len, Return("line", Oldest(m), m, Past(m)), Consume(m)
            PROVE  RingInv'
        <4>1. m \in 0..rb_len /\ Past(m) \in Nat
          BY <2>1, SizeFacts DEF Past
        <4> QED BY <2>1, <3>2, <4>1, TakeInv
      <3> QED BY <2>1, <2>4, <3>1, <3>2, ReadlineLive, Zenon
    <2>5. ASSUME NEW a \in 0..Size, NEW b \in 0..Size, flush_socket(a, b)
          PROVE  RingInv'
      <3>1. CASE rb_isempty
        BY <2>5, <3>1, NothingInv DEF flush_socket, Nothing, Return
      <3>2. CASE ~rb_isempty
        <4>1. a + b \in 0..rb_len /\ Return("flush", Oldest(a + b), a + b, 0) /\ Consume(a + b)
          BY <1>1, <2>1, <2>5, <3>2, FlushLive
        <4> QED BY <2>1, <4>1, TakeInv
      <3> QED BY <3>1, <3>2
    <2> QED BY <1>3, <1>4, <1>6, <2>2, <2>3, <2>4, <2>5, Zenon DEF Next
  <1> QED BY <1>2, <1>5, <1>6 DEF RingInv, PositionsOK

\* If every write ends a line, the ring is type-correct and, unless a drain has
\* failed and left it torn, its positions are in order and the newest live byte
\* is a newline.
THEOREM RingInvariant == ASSUME LinesOnly PROVE Spec => []RingInv
  BY InitInv, NextInv, PTL DEF Spec

\* The first two parts on their own: the reader passes the writer only where
\* flush_socket adds the -1 of a failed write (reactor.h:287-288).
THEOREM PositionsInOrder == ASSUME LinesOnly PROVE Spec => [](TypeOK /\ PositionsOK)
  <1>1. RingInv => TypeOK /\ PositionsOK
    BY DEF RingInv
  <1> QED BY <1>1, RingInvariant, PTL
-----------------------------------------------------------------------------
(* Lines that fit the reader's buffer.  How long the oldest line is says   *)
(* nothing of the next one, so the invariant is about every live byte.     *)

\* What takes the oldest bytes leaves a newline within reach of the others.
LEMMA TakeFits ==
    ASSUME RingInv, InOrder, LinesFit, NEW m \in 0..rb_len, Consume(m)
    PROVE  LinesFit'
  <1>1. /\ rb_len \in Nat /\ m \in Nat /\ LineSz \in Nat
        /\ rb_len' = rb_len - m
        /\ \A j \in 0..(rb_len - m) : At(j)' = At(m + j)
    BY LenFacts, ConsumeLive, SizeFacts DEF RingInv, TypeOK
  <1>2. ASSUME NEW j \in 0..(rb_len' - 1)
        PROVE  \E i \in j..(j + LineSz - 1) : i < rb_len' /\ At(i)' = NL
    <2>1. m + j \in 0..(rb_len - 1) /\ j \in Nat
      BY <1>1
    <2>2. PICK i \in (m + j)..(m + j + LineSz - 1) : i < rb_len /\ At(i) = NL
      BY <2>1, TornFacts DEF LinesFit
    <2> DEFINE k == i - m
    <2>3. /\ k \in j..(j + LineSz - 1) /\ k < rb_len' /\ m + k = i
          /\ k \in 0..(rb_len - m)
      BY <1>1, <2>1, <2>2
    <2> HIDE DEF k
    <2>4. At(k)' = NL
      BY <1>1, <2>2, <2>3
    <2> QED BY <2>3, <2>4
  <1> QED BY <1>2 DEF LinesFit, At, rb_len

\* A write that ends a line and is no longer than the buffer.
LEMMA PutFits ==
    ASSUME LinesOnly, ShortWrites, RingInv, InOrder, LinesFit,
           NEW c \in Chunks, Len(c) <= rb_remain, rb_write(c)
    PROVE  LinesFit'
  <1> DEFINE n == rb_len
             l == Len(c)
  <1>1. TypeOK /\ InOrder
    BY DEF RingInv
  <1>2. l \in Nat \ {0} /\ l <= LineSz /\ LineSz \in Nat /\ n \in Nat
    BY <1>1, ChunkType, SizeFacts, LenFacts DEF ShortWrites, TypeOK
  <1>3. /\ buf' = Copied(c)
        /\ write_pos' = UAdd(write_pos, Len(c))
        /\ UNCHANGED <<size, read_pos>>
    BY <1>1, PutDoes
  <1>4. /\ rb_len' = n + l
        /\ \A j \in 0..(n - 1) : At(j)' = At(j)
        /\ \A k \in n..(n + l - 1) : At(k)' = c[k - n + 1]
    BY <1>1, <1>3, WriteLive, Zenon
  <1>5. c[l] = NL
    BY DEF LinesOnly
  <1> HIDE DEF n, l
  <1>6. ASSUME NEW j \in 0..(rb_len' - 1)
        PROVE  \E i \in j..(j + LineSz - 1) : i < rb_len' /\ At(i)' = NL
    <2>1. CASE j < n
      <3>1. j \in 0..(n - 1)
        BY <1>2, <2>1
      <3>2. PICK i \in j..(j + LineSz - 1) : i < n /\ At(i) = NL
        BY <3>1, TornFacts DEF LinesFit, n
      <3>3. i \in 0..(n - 1) /\ i < rb_len'
        BY <1>2, <1>4, <3>1, <3>2
      <3>4. At(i)' = NL
        BY <1>4, <3>2, <3>3
      <3> QED BY <3>2, <3>3, <3>4
    <2>2. CASE ~(j < n)
      <3>1. PICK i \in n..(n + l - 1) : i = n + l - 1
        BY <1>2
      <3>2. i - n + 1 = l /\ i \in j..(j + LineSz - 1) /\ i < rb_len'
        BY <1>2, <1>4, <2>2, <3>1
      <3>3. At(i)' = NL
        BY <1>4, <1>5, <3>2
      <3> QED BY <3>2, <3>3
    <2> QED BY <2>1, <2>2
  <1> QED BY <1>6 DEF LinesFit, At, rb_len

\* The oldest line fits the buffer, so that rb_readline stays inside it.
LEMMA OldestFits ==
    ASSUME RingInv, InOrder, LinesFit, NEW m \in 1..rb_len,
           \A j \in 0..(m - 2) : At(j) /= NL
    PROVE  m <= LineSz /\ Past(m) = 0
  <1>1. rb_len \in Nat /\ LineSz \in Nat
    BY LenFacts, SizeFacts DEF RingInv, TypeOK
  <1>2. PICK i \in 0..(0 + LineSz - 1) : i < rb_len /\ At(i) = NL
    BY <1>1, TornFacts DEF LinesFit
  <1>3. ~(i \in 0..(m - 2))
    BY <1>2
  <1>4. m <= LineSz
    BY <1>1, <1>2, <1>3
  <1> QED BY <1>1, <1>4 DEF Past

BoundsInv == FitInv /\ NoOverrun

LEMMA InitFit == Init => BoundsInv
  <1> SUFFICES ASSUME Init PROVE BoundsInv
    OBVIOUS
  <1>1. rb_len = 0
    BY SizeFacts DEF Init, rb_len, USub
  <1>2. LinesFit
    BY <1>1 DEF LinesFit
  <1> QED BY <1>2, InitInv DEF BoundsInv, FitInv, Init, NoOverrun

LEMMA NextFit ==
    ASSUME LinesOnly, ShortWrites, BoundsInv, [Next]_vars
    PROVE  BoundsInv'
  <1>1. RingInv /\ LinesFit /\ NoOverrun /\ RingInv' /\ TypeOK
    BY NextInv DEF BoundsInv, FitInv, RingInv
  <1> SUFFICES LinesFit' /\ NoOverrun'
    BY <1>1 DEF BoundsInv, FitInv
  <1>2. ASSUME UNCHANGED ring, overrun' = 0
        PROVE  LinesFit' /\ NoOverrun'
    BY <1>1, <1>2 DEF LinesFit, NoOverrun, Torn, rb_len, At, ring
  <1>3. CASE UNCHANGED vars
    BY <1>1, <1>3 DEF LinesFit, NoOverrun, Torn, rb_len, At, vars
  <1>4. CASE rb_clear \/ rb_free
    <2>1. rb_len' = 0 /\ overrun' = 0
      BY <1>1, <1>4, EmptiedInv
    <2> QED BY <2>1 DEF LinesFit, NoOverrun
  <1>5. CASE FlushError
    <2>1. Torn' /\ overrun' = 0
      BY <1>1, <1>5, ErrorDoes DEF Return
    <2> QED BY <2>1 DEF LinesFit, NoOverrun
  <1>6. CASE Torn /\ Next
    BY <1>1, <1>2, <1>4, <1>5, <1>6, TornStep DEF Nothing, Return
  <1>7. CASE InOrder /\ Next
    <2>1. /\ InOrder /\ ~Torn
          /\ rb_len \in 0..size /\ size \in {0, Size}
      BY <1>1, <1>7, LenFacts, TornFacts DEF TypeOK
    <2>2. ASSUME NEW m \in 0..rb_len, Consume(m), overrun' = 0
          PROVE  LinesFit' /\ NoOverrun'
      BY <1>1, <2>1, <2>2, TakeFits DEF NoOverrun
    <2>3. ASSUME NEW c \in Chunks, rb_write(c)
          PROVE  LinesFit' /\ NoOverrun'
      <3>1. CASE Len(c) <= rb_remain
        BY <1>1, <2>1, <2>3, <3>1, PutFits, PutDoes DEF NoOverrun, Return
      <3>2. CASE ~(Len(c) <= rb_remain)
        BY <1>2, <2>1, <2>3, <3>2, RefusedDoes DEF Nothing, Return
      <3> QED BY <3>1, <3>2
    <2>4. ASSUME NEW sz \in 1..Size, rb_read(sz)
          PROVE  LinesFit' /\ NoOverrun'
      <3>1. CASE rb_isempty
        BY <1>2, <2>1, <2>4, <3>1 DEF rb_read, Crash, Nothing, Return
      <3>2. CASE ~rb_isempty
        BY <1>1, <2>1, <2>2, <2>4, <3>2, ReadDoes DEF Return
      <3> QED BY <3>1, <3>2
    <2>5. ASSUME rb_readline
          PROVE  LinesFit' /\ NoOverrun'
      <3>1. CASE rb_isempty /\ Nothing("line")
        BY <1>2, <3>1 DEF Nothing, Return
      <3>2. ASSUME NEW m \in 1..rb_len, \A j \in 0..(m - 2) : At(j) /= NL,
                   Return("line", Oldest(m), m, Past(m)), Consume(m)
            PROVE  LinesFit' /\ NoOverrun'
        <4>1. Past(m) = 0
          BY <1>1, <2>1, <3>2, OldestFits
        <4>2. m \in 0..rb_len
          BY <2>1, SizeFacts
        <4> QED BY <2>2, <3>2, <4>1, <4>2 DEF Return
      <3> QED BY <1>1, <2>1, <2>5, <3>1, <3>2, ReadlineLive, Zenon
    <2>6. ASSUME NEW a \in 0..Size, NEW b \in 0..Size, flush_socket(a, b)
          PROVE  LinesFit' /\ NoOverrun'
      <3>1. CASE rb_isempty
        BY <1>2, <2>6, <3>1 DEF flush_socket, Nothing, Return
      <3>2. CASE ~rb_isempty
        <4>1. a + b \in 0..rb_len /\ Return("flush", Oldest(a + b), a + b, 0) /\ Consume(a + b)
          BY <1>1, <2>1, <2>6, <3>2, FlushLive
        <4> QED BY <2>2, <4>1 DEF Return
      <3> QED BY <3>1, <3>2
    <2> QED BY <1>4, <1>5, <1>7, <2>3, <2>4, <2>5, <2>6, Zenon DEF Next
  <1> QED BY <1>1, <1>3, <1>6, <1>7 DEF RingInv, PositionsOK

\* Unless a failed drain has left it torn, the ring is in order and from every
\* live byte on a newline is within a reader's buffer, if every write ends a line
\* that fits one.
THEOREM LinesStayShort == ASSUME LinesOnly, ShortWrites PROVE Spec => []FitInv
  <1>1. BoundsInv => FitInv
    BY DEF BoundsInv
  <1> QED BY <1>1, InitFit, NextFit, PTL DEF Spec

\* Under the same two conditions rb_readline never writes past its caller's
\* buffer, although it looks for the newline while it copies.
THEOREM ReadersBufferHolds == ASSUME LinesOnly, ShortWrites PROVE Spec => []NoOverrun
  <1>1. BoundsInv => NoOverrun
    BY DEF BoundsInv, FitInv
  <1> QED BY <1>1, InitFit, NextFit, PTL DEF Spec
-----------------------------------------------------------------------------
(* The bounded FIFO of ByteFifo: the live bytes as a sequence.             *)

LEMMA LiveIsOldest == Live = Oldest(rb_len)
  BY DEF Live, Oldest

LEMMA LiveSeq ==
    ASSUME TypeOK, InOrder
    PROVE  /\ rb_len \in Nat
           /\ Live \in Seq(Bytes)
           /\ Len(Live) = rb_len
           /\ \A k \in 1..rb_len : Live[k] = At(k - 1)
  <1>1. rb_len \in Nat
    BY LenFacts, SizeFacts DEF TypeOK
  <1>2. Live \in Seq(Bytes)
    BY <1>1, OldestType, LiveIsOldest
  <1>3. DOMAIN Live = 1..rb_len /\ \A k \in 1..rb_len : Live[k] = At(k - 1)
    BY DEF Live
  <1>4. Len(Live) = rb_len
    BY <1>1, <1>2, <1>3, LenProperties
  <1> QED BY <1>1, <1>2, <1>3, <1>4

\* The m oldest bytes are the first m of the queue.
LEMMA OldestIsPrefix ==
    ASSUME TypeOK, InOrder, NEW m \in 0..rb_len
    PROVE  Oldest(m) = SubSeq(Live, 1, m)
  <1>1. m \in Nat /\ rb_len \in Nat /\ \A k \in 1..m : k \in 1..rb_len
    BY LiveSeq
  <1>2. \A k \in 1..m : Live[k] \in Bytes
    <2>1. ASSUME NEW k \in 1..m PROVE Live[k] \in Bytes
      BY <1>1, LiveSeq, ElementOfSeq
    <2> QED BY <2>1
  <1> DEFINE t == SubSeq(Live, 1, m)
  <1>3. /\ t \in Seq(Bytes)
        /\ Len(t) = m
        /\ \A k \in 1..m : t[k] = Live[k]
    <2>1. /\ t \in Seq(Bytes)
          /\ Len(t) = IF 1 <= m THEN m - 1 + 1 ELSE 0
          /\ \A k \in 1..(m - 1 + 1) : t[k] = Live[1 + k - 1]
      BY <1>1, <1>2, SubSeqProperties
    <2> HIDE DEF t
    <2>2. m - 1 + 1 = m /\ \A k \in 1..m : 1 + k - 1 = k
      BY <1>1
    <2> QED BY <1>1, <2>1, <2>2
  <1>4. /\ Oldest(m) \in Seq(Bytes)
        /\ Len(Oldest(m)) = m
        /\ \A k \in 1..m : Oldest(m)[k] = At(k - 1)
    <2>1. Oldest(m) \in Seq(Bytes)
      BY <1>1, OldestType
    <2>2. DOMAIN Oldest(m) = 1..m /\ \A k \in 1..m : Oldest(m)[k] = At(k - 1)
      BY DEF Oldest
    <2> QED BY <1>1, <2>1, <2>2, LenProperties
  <1> HIDE DEF t
  <1>5. \A k \in 1..m : Oldest(m)[k] = t[k]
    BY <1>1, <1>3, <1>4, LiveSeq
  <1> QED BY <1>3, <1>4, <1>5, SeqEqual DEF t

-----------------------------------------------------------------------------
(* The live bytes after a step.                                            *)

\* A function on 1..n with bytes for values is a sequence of n bytes.
LEMMA FunctionIsSeq ==
    ASSUME NEW n \in Nat, NEW f, f = [k \in 1..n |-> f[k]], \A k \in 1..n : f[k] \in Bytes
    PROVE  f \in Seq(Bytes) /\ Len(f) = n
  <1>1. f \in [1..n -> Bytes]
    OBVIOUS
  <1>2. f \in Seq(Bytes) /\ DOMAIN f = 1..n
    BY <1>1, SeqDef
  <1> QED BY <1>2, LenProperties

LEMMA ConsumeDropsPrefix ==
    ASSUME TypeOK, InOrder, NEW m \in 0..rb_len, Consume(m)
    PROVE  Live' = SubSeq(Live, m + 1, Len(Live))
  <1> DEFINE n == rb_len
             t == SubSeq(Live, m + 1, n)
  <1>1. n \in Nat /\ m \in Nat /\ m <= n /\ Len(Live) = n
    BY LiveSeq
  <1>2. rb_len' = n - m /\ \A j \in 0..(n - m) : At(j)' = At(m + j)
    BY ConsumeLive
  <1>3. \A k \in 1..(n - m) : Live'[k] = At(m + (k - 1))
    <2>1. Live' = [k \in 1..(n - m) |-> At(k - 1)']
      BY <1>2 DEF Live
    <2> HIDE DEF n
    <2>2. ASSUME NEW k \in 1..(n - m) PROVE k - 1 \in 0..(n - m)
      BY <1>1
    <2> QED BY <1>2, <2>1, <2>2
  <1>4. Live' = [k \in 1..(n - m) |-> Live'[k]]
    BY <1>2 DEF Live
  <1> HIDE DEF n
  <1>5. /\ t \in Seq(Bytes)
        /\ Len(t) = n - m
        /\ \A k \in 1..(n - m) : t[k] = At(m + (k - 1))
    <2>1. \A k \in (m + 1)..n : Live[k] \in Bytes
      BY <1>1, LiveSeq, ElementOfSeq DEF n
    <2>2. /\ t \in Seq(Bytes)
          /\ Len(t) = IF m + 1 <= n THEN n - (m + 1) + 1 ELSE 0
          /\ \A k \in 1..(n - (m + 1) + 1) : t[k] = Live[(m + 1) + k - 1]
      BY <1>1, <2>1, SubSeqProperties
    <2> HIDE DEF t
    <2>3. n - (m + 1) + 1 = n - m
      BY <1>1
    <2>4. ASSUME NEW k \in 1..(n - m)
          PROVE  t[k] = At(m + (k - 1))
      <3>1. (m + 1) + k - 1 \in 1..n /\ (m + 1) + k - 1 - 1 = m + (k - 1)
        BY <1>1
      <3> QED BY <2>2, <2>3, <3>1, LiveSeq DEF n
    <2> QED BY <1>1, <2>2, <2>3, <2>4
  <1> HIDE DEF t
  <1>6. \A k \in 1..(n - m) : Live'[k] \in Bytes
    <2>1. \A k \in 1..(n - m) : m + (k - 1) \in Nat
      BY <1>1
    <2> QED BY <1>3, <2>1, AtType
  <1>7. n - m \in Nat
    BY <1>1
  <1> DEFINE live == Live'
  <1>8. live \in Seq(Bytes) /\ Len(live) = n - m
    <2> HIDE DEF live
    <2>1. live = [k \in 1..(n - m) |-> live[k]] /\ \A k \in 1..(n - m) : live[k] \in Bytes
      BY <1>4, <1>6 DEF live
    <2> QED BY <1>7, <2>1, FunctionIsSeq
  <1>9. \A k \in 1..(n - m) : live[k] = t[k]
    BY <1>3, <1>5
  <1> HIDE DEF live
  <1>10. live = t
    BY <1>5, <1>8, <1>9, SeqEqual
  <1> QED BY <1>1, <1>10 DEF live, t

LEMMA WriteAppends ==
    ASSUME TypeOK, InOrder, NEW c \in Chunks, Len(c) <= rb_remain,
           buf' = Copied(c),
           write_pos' = UAdd(write_pos, Len(c)),
           UNCHANGED <<size, read_pos>>
    PROVE  Live' = Live \o c
  <1> DEFINE n == rb_len
             l == Len(c)
             t == Live \o c
             live == Live'
  <1>1. /\ rb_len' = n + l
        /\ \A j \in 0..(n - 1) : At(j)' = At(j)
        /\ \A m \in n..(n + l - 1) : At(m)' = c[m - n + 1]
    BY WriteLive, Zenon
  <1>2. /\ n \in Nat /\ Live \in Seq(Bytes) /\ Len(Live) = n
        /\ \A k \in 1..n : Live[k] = At(k - 1)
    BY LiveSeq
  <1>3. c \in Seq(Bytes) /\ l \in Nat /\ \A k \in 1..l : c[k] \in Bytes
    BY ChunkType, RingAssumption
  <1>4. live = [k \in 1..(n + l) |-> At(k - 1)']
    BY <1>1 DEF Live
  <1>5. /\ t \in Seq(Bytes)
        /\ Len(t) = n + l
        /\ \A k \in 1..(n + l) : t[k] = IF k <= n THEN Live[k] ELSE c[k - n]
    BY <1>2, <1>3, ConcatProperties
  <1> HIDE DEF n, l, t, live
  <1>6. ASSUME NEW k \in 1..(n + l)
        PROVE  live[k] = t[k]
    <2>1. live[k] = At(k - 1)'
      BY <1>4
    <2>2. CASE k <= n
      <3>1. k - 1 \in 0..(n - 1) /\ k \in 1..n
        BY <1>2, <2>2
      <3> QED BY <1>1, <1>2, <1>5, <2>1, <2>2, <3>1
    <2>3. CASE ~(k <= n)
      <3>1. k - 1 \in n..(n + l - 1) /\ (k - 1) - n + 1 = k - n
        BY <1>2, <1>3, <2>3
      <3> QED BY <1>1, <1>5, <2>1, <2>3, <3>1
    <2> QED BY <2>2, <2>3
  <1>7. n + l \in Nat /\ \A k \in 1..(n + l) : t[k] \in Bytes
    BY <1>2, <1>3, <1>5, ElementOfSeq
  <1>8. live = [k \in 1..(n + l) |-> live[k]] /\ \A k \in 1..(n + l) : live[k] \in Bytes
    BY <1>4, <1>6, <1>7
  <1>9. live \in Seq(Bytes) /\ Len(live) = n + l
    BY <1>7, <1>8, FunctionIsSeq
  <1>10. live = t
    BY <1>5, <1>6, <1>9, SeqEqual
  <1> QED BY <1>10 DEF live, t
-----------------------------------------------------------------------------
(* Every step of the ring is a step of the queue, or leaves it alone.      *)

LEMMA EmptyLive ==
    ASSUME TypeOK, InOrder, rb_isempty
    PROVE  Live = <<>>
  <1>1. rb_len = 0
    BY LenFacts
  <1> QED BY <1>1, LiveSeq

\* What the queue is, by the refinement.
queued == IF Torn THEN <<>> ELSE Live

LEMMA NothingStutters ==
    ASSUME UNCHANGED ring
    PROVE  Live' = Live /\ size' = size /\ Torn' = Torn /\ queued' = queued
  BY DEF Live, rb_len, At, ring, Torn, queued

LEMMA InOrderQueued == ASSUME InOrder PROVE ~Torn /\ Torn = FALSE /\ queued = Live
  BY TornFacts DEF queued, Torn

\* A released ring has nothing to take from, so that taking leaves no torn one.
LEMMA ConsumeNotTorn ==
    ASSUME TypeOK, InOrder, NEW m \in 0..rb_len, Consume(m)
    PROVE  Torn' = FALSE /\ queued' = Live'
  <1>1. size \in {0, Size} /\ rb_len \in 0..size /\ read_pos \in 0..(M - 1)
    BY LenFacts DEF TypeOK, UInt
  <1>2. ~Torn'
    <2>1. SUFFICES ASSUME Torn' PROVE FALSE
      OBVIOUS
    <2>2. size = 0 /\ m = 0 /\ write_pos = 0 /\ read_pos' = M - 1
      BY <1>1, <2>1, SizeFacts DEF Torn, Consume, USub
    <2>3. read_pos' = read_pos
      BY <1>1, <2>2, SizeFacts DEF Consume, UAdd
    <2>4. Torn
      BY <2>2, <2>3, SizeFacts DEF Torn, USub
    <2> QED BY <2>4, TornFacts
  <1> QED BY <1>2 DEF queued, Torn

\* Taking the m oldest bytes is Fifo!Take(kind, m).
LEMMA TakeRefines ==
    ASSUME TypeOK, InOrder, NEW m \in 0..rb_len, NEW kind, NEW p,
           Return(kind, Oldest(m), m, p), Consume(m)
    PROVE  Fifo!Take(kind, m)
  <1>1. Live' = SubSeq(Live, m + 1, Len(Live))
    BY ConsumeDropsPrefix
  <1>2. Oldest(m) = SubSeq(Live, 1, m)
    BY OldestIsPrefix
  <1>3. call' = kind /\ out' = SubSeq(Live, 1, m) /\ moved' = m /\ size' = size
    BY <1>2, Zenon DEF Return, Consume
  <1>4. Torn = FALSE /\ queued = Live /\ Torn' = FALSE /\ queued' = Live'
    BY InOrderQueued, ConsumeNotTorn
  <1> QED BY <1>1, <1>3, <1>4, Zenon DEF Fifo!Take, Fifo!Return, queued

\* A call that finds the ring empty takes nothing from an empty queue.
LEMMA EmptyRefines ==
    ASSUME TypeOK, InOrder, rb_isempty, NEW kind, Nothing(kind)
    PROVE  /\ Live = <<>> /\ Len(Live) = 0
           /\ Fifo!Take(kind, 0)
  <1>1. Live = <<>> /\ Len(Live) = 0
    BY EmptyLive
  <1>2. Live' = Live /\ size' = size
    BY NothingStutters DEF Nothing
  <1>3. SubSeq(Live, 1, 0) = <<>> /\ SubSeq(Live, 0 + 1, Len(Live)) = <<>>
    BY <1>1, SubSeqEmpty
  <1>4. call' = kind /\ out' = <<>> /\ moved' = 0
    BY DEF Nothing, Return
  <1>5. ~Torn /\ queued = Live /\ Torn' = Torn /\ queued' = queued
    BY InOrderQueued, NothingStutters DEF Nothing
  <1> QED BY <1>1, <1>2, <1>3, <1>4, <1>5, Zenon DEF Fifo!Take, Fifo!Return, queued

LEMMA InitRefines == Init => Fifo!Init
  <1> SUFFICES ASSUME Init PROVE Fifo!Init
    OBVIOUS
  <1>1. TypeOK /\ InOrder /\ rb_isempty
    BY InitInv DEF Init, RingInv, rb_isempty
  <1>2. Live = <<>> /\ Torn = FALSE
    BY <1>1, EmptyLive, InOrderQueued
  <1> QED BY <1>2, Zenon DEF Init, Fifo!Init

LEMMA WriteRefines ==
    ASSUME TypeOK, InOrder, NEW c \in Chunks, rb_write(c)
    PROVE  Fifo!Put(c)
  <1>1. TypeOK /\ InOrder
    OBVIOUS
  <1>2. /\ rb_remain = size - rb_len /\ rb_len \in Nat /\ size \in Nat
        /\ Len(Live) = rb_len /\ Len(c) \in Nat
    BY <1>1, LenFacts, LiveSeq, ChunkType, SizeFacts DEF TypeOK
  <1>3. Torn = FALSE /\ queued = Live
    BY InOrderQueued
  <1>4. CASE Len(c) <= rb_remain
    <2>1. /\ buf' = Copied(c)
          /\ write_pos' = UAdd(write_pos, Len(c))
          /\ Return("write", <<>>, Len(c), 0)
          /\ UNCHANGED <<size, read_pos>>
      BY <1>4, PutDoes
    <2>2. Live' = Live \o c
      BY <1>1, <1>4, <2>1, WriteAppends, Zenon
    <2>3. Len(Live) + Len(c) <= size
      BY <1>2, <1>4
    <2>4. Fifo!Return("write", <<>>, Len(c)) /\ size' = size
      BY <2>1, Zenon DEF Return, Fifo!Return
    <2>5. Torn' = FALSE /\ queued' = Live'
      <3>1. size' = Size /\ Size /= 0
        BY <1>4, <2>1, WriteLive, SizeFacts, Zenon
      <3> QED BY <3>1 DEF Torn, queued
    <2> QED BY <1>3, <2>2, <2>3, <2>4, <2>5, Zenon DEF Fifo!Put, queued
  <1>5. CASE ~(Len(c) <= rb_remain)
    <2>1. Nothing("write")
      BY <1>5, RefusedDoes
    <2>2. Len(Live) + Len(c) > size
      BY <1>2, <1>5
    <2>3. Live' = Live /\ size' = size /\ Torn' = Torn /\ queued' = queued
      BY <2>1, NothingStutters DEF Nothing
    <2>4. Fifo!Return("write", <<>>, 0)
      BY <2>1, Zenon DEF Nothing, Return, Fifo!Return
    <2> QED BY <1>3, <2>2, <2>3, <2>4, Zenon DEF Fifo!Put, queued
  <1> QED BY <1>4, <1>5

LEMMA ReadRefines ==
    ASSUME TypeOK, InOrder, NEW sz \in 1..Size, rb_read(sz)
    PROVE  Fifo!Read(sz)
  <1>1. TypeOK /\ InOrder /\ rb_len \in 0..size /\ size \in {0, Size} /\ Len(Live) = rb_len
    BY LenFacts, LiveSeq DEF TypeOK
  <1>2. ~Torn /\ queued = Live
    BY InOrderQueued
  <1>3. CASE rb_isempty
    <2>1. Nothing("read")
      BY <1>2, <1>3 DEF rb_read, Crash
    <2>2. Len(Live) = 0 /\ Fifo!Take("read", 0)
      BY <1>1, <1>3, <2>1, EmptyRefines
    <2>3. ~(sz < 0)
      BY SizeFacts
    <2> QED BY <1>2, <2>2, <2>3, Zenon DEF Fifo!Read, queued
  <1>4. CASE ~rb_isempty
    <2>1. PICK len \in 0..rb_len : /\ len = Lesser(sz, rb_len)
                                   /\ Return("read", Oldest(len), len, 0)
                                   /\ Consume(len)
      BY <1>4, ReadDoes
    <2>2. len = IF sz < Len(Live) THEN sz ELSE Len(Live)
      BY <1>1, <2>1 DEF Lesser
    <2>3. Fifo!Take("read", len)
      BY <1>1, <2>1, TakeRefines
    <2> QED BY <1>2, <2>2, <2>3, Zenon DEF Fifo!Read, queued
  <1> QED BY <1>3, <1>4

\* One turn around the ring further on lies the same byte.
LEMMA AtPeriodic ==
    ASSUME TypeOK, NEW j \in Nat, j + Size < M
    PROVE  At(j + Size) = At(j)
  <1>1. read_pos \in 0..(M - 1)
    BY DEF TypeOK, UInt
  <1> DEFINE p == UAdd(read_pos, j)
  <1>2. p \in UInt /\ UAdd(read_pos, j + Size) = UAdd(p, Size)
    BY <1>1, SizeFacts, SMT DEF UAdd, UInt
  <1> HIDE DEF p
  <1>3. Size \in 0..Size /\ Slot(p) \in Slots
    BY <1>2, SizeFacts, SlotType DEF UInt
  <1>4. Slot(UAdd(p, Size)) = IF Slot(p) + Size < Size THEN Slot(p) + Size
                              ELSE Slot(p) + Size - Size
    BY <1>2, <1>3, SlotAdd, Zenon
  <1>5. Slot(UAdd(p, Size)) = Slot(p)
    BY <1>3, <1>4, SizeFacts DEF Slots
  <1> QED BY <1>2, <1>5, Zenon DEF At, p

\* A scan that has not met a newline in one turn around the ring never will, so
\* that the first one it meets is less than one turn away.
LEMMA FirstNewlineNear ==
    ASSUME TypeOK, NEW i \in UInt, At(i) = NL, \A j \in 0..(i - 1) : At(j) /= NL
    PROVE  i < Size
  <1> SUFFICES ASSUME i >= Size PROVE FALSE
    BY SizeFacts DEF UInt
  <1>1. i - Size \in Nat /\ i - Size \in 0..(i - 1) /\ (i - Size) + Size < M
        /\ (i - Size) + Size = i
    BY SizeFacts DEF UInt
  <1>2. At((i - Size) + Size) = At(i - Size)
    BY <1>1, AtPeriodic
  <1> QED BY <1>1, <1>2

\* A newline beyond the live bytes carries the read position past the writer.
LEMMA BeyondOvertakes ==
    ASSUME TypeOK, InOrder, ~rb_isempty, NEW i \in 0..(Size - 1), i >= rb_len, Consume(i + 1)
    PROVE  ~InOrder'
  <1>1. /\ read_pos \in 0..(M - 1) /\ write_pos \in 0..(M - 1)
        /\ size \in {0, Size} /\ rb_len \in 1..size
    BY LenFacts, SizeFacts DEF TypeOK, UInt
  <1>2. write_pos' = write_pos /\ read_pos' = UAdd(read_pos, i + 1) /\ size' = size
    BY DEF Consume
  <1>3. rb_len' = M - (i + 1 - rb_len)
    BY <1>1, <1>2, SizeFacts, SMT DEF rb_len, UAdd, USub
  <1> QED BY <1>1, <1>2, <1>3, SizeFacts, SMT DEF InOrder

\* rb_readline takes a line of the queue, or nothing when there is none; what
\* it takes besides would end past the writer.
LEMMA ReadlineRefines ==
    ASSUME TypeOK, InOrder, InOrder', rb_readline
    PROVE  Fifo!ReadLine
  <1>1. /\ TypeOK /\ InOrder /\ rb_len \in Nat /\ Len(Live) = rb_len
        /\ \A k \in 1..rb_len : Live[k] = At(k - 1)
        /\ ~Torn /\ queued = Live
    BY LiveSeq, InOrderQueued
  <1>2. CASE rb_isempty /\ Nothing("line")
    <2>1. Live = <<>> /\ Len(Live) = 0 /\ Fifo!Take("line", 0)
      BY <1>1, <1>2, EmptyRefines
    <2>2. \A k \in 1..Len(Live) : Live[k] /= NL
      BY <2>1
    <2> QED BY <1>1, <2>1, <2>2, Zenon DEF Fifo!ReadLine, queued
  <1>3. ASSUME ~rb_isempty, NEW i \in UInt,
               At(i) = NL,
               \A j \in 0..(i - 1) : At(j) /= NL,
               Return("line", [k \in 1..(i + 1) |-> At(k - 1)], i + 1, Past(i + 1)),
               Consume(i + 1)
        PROVE  Fifo!ReadLine
    <2> DEFINE m == i + 1
    <2>1. i \in 0..(Size - 1)
      BY <1>1, <1>3, FirstNewlineNear, SizeFacts DEF UInt
    <2>2. ~(i >= rb_len)
      BY <1>1, <1>3, <2>1, BeyondOvertakes
    <2>3. m \in 1..rb_len /\ m \in 0..rb_len /\ m - 1 = i
      BY <1>1, <2>1, <2>2
    <2>4. Return("line", Oldest(m), m, Past(m)) /\ Consume(m)
      BY <1>3, Zenon DEF Oldest
    <2> HIDE DEF m
    <2>5. Fifo!Take("line", m)
      BY <1>1, <2>3, <2>4, TakeRefines
    <2>6. ASSUME NEW k \in 1..(m - 1) PROVE Live[k] /= NL
      <3>1. k \in 1..rb_len /\ k - 1 \in 0..(i - 1)
        BY <1>1, <2>3
      <3> QED BY <1>1, <1>3, <3>1
    <2>7. Live[m] = NL
      BY <1>1, <1>3, <2>3
    <2>8. Fifo!IsLine(m)
      BY <1>1, <2>3, <2>6, <2>7 DEF Fifo!IsLine, queued
    <2>9. m \in 1..Len(Live)
      BY <1>1, <2>3
    <2> QED BY <1>1, <2>5, <2>8, <2>9, Zenon DEF Fifo!ReadLine, queued
  <1>4. ASSUME NEW p,
               \A i \in UInt : Scanned(i) => At(i) /= NL,
               Return("line", <<>>, 0, p),
               UNCHANGED ring
        PROVE  Fifo!ReadLine
    <2>1. ASSUME NEW k \in 1..Len(Live) PROVE Live[k] /= NL
      <3>1. rb_len \in 0..size /\ size \in {0, Size}
        BY LenFacts DEF TypeOK
      <3>2. k \in 1..rb_len /\ k - 1 \in UInt /\ k - 1 < rb_len
        BY <1>1, <3>1, SizeFacts DEF UInt
      <3> QED BY <1>1, <1>4, <3>2 DEF Scanned
    <2>2. SubSeq(Live, 1, 0) = <<>> /\ SubSeq(Live, 0 + 1, Len(Live)) = Live
      <3>1. Live \in Seq(Bytes) /\ 0 + 1 = 1
        BY LiveSeq
      <3> QED BY <3>1, SubSeqEmpty, SubSeqFull
    <2>3. Live' = Live /\ size' = size /\ Torn' = Torn /\ queued' = queued
      BY <1>4, NothingStutters
    <2>4. Fifo!Take("line", 0)
      BY <1>1, <1>4, <2>2, <2>3, Zenon DEF Fifo!Take, Fifo!Return, Return, queued
    <2> QED BY <1>1, <2>1, <2>4, Zenon DEF Fifo!ReadLine, queued
  <1> QED BY <1>1, <1>2, <1>3, <1>4, Zenon DEF rb_readline, Crash

LEMMA FlushRefines ==
    ASSUME TypeOK, InOrder, NEW a \in 0..Size, NEW b \in 0..Size, flush_socket(a, b)
    PROVE  Fifo!Flush
  <1>1. TypeOK /\ InOrder /\ rb_len \in Nat /\ Len(Live) = rb_len /\ queued = Live
    BY LiveSeq, InOrderQueued
  <1>2. CASE rb_isempty
    <2>1. Nothing("flush")
      BY <1>2 DEF flush_socket
    <2>2. Fifo!Take("flush", 0)
      BY <1>1, <1>2, <2>1, EmptyRefines
    <2>3. 0 \in 0..Len(Live)
      BY <1>1
    <2> QED BY <1>1, <2>2, <2>3, Zenon DEF Fifo!Flush, queued
  <1>3. CASE ~rb_isempty
    <2>1. /\ a + b \in 0..rb_len
          /\ Return("flush", Oldest(a + b), a + b, 0)
          /\ Consume(a + b)
      BY <1>1, <1>3, FlushLive
    <2>2. Fifo!Take("flush", a + b)
      BY <1>1, <2>1, TakeRefines
    <2> QED BY <1>1, <2>1, <2>2, Zenon DEF Fifo!Flush, queued
  <1> QED BY <1>2, <1>3

\* A failed drain of a ring that holds bytes hands out the first of them.
LEMMA ErrorRefines ==
    ASSUME TypeOK, FlushError
    PROVE  Fifo!FlushFails
  <1>1. Torn' /\ size' = 0 /\ queued' = <<>>
    BY ErrorDoes DEF FlushError, queued
  <1>2. CASE Torn /\ Return("flush", <<>>, 0, 0)
    BY <1>1, <1>2, Zenon DEF Return, Fifo!FlushFails, Fifo!Return, queued
  <1>3. ASSUME InOrder, NEW m \in 0..(rb_len - 1), Return("flush", Oldest(m), m, 0)
        PROVE  Fifo!FlushFails
    <2>1. rb_len \in Nat /\ Len(Live) = rb_len /\ ~Torn /\ queued = Live
      BY <1>3, LiveSeq, InOrderQueued
    <2>2. m \in 0..rb_len /\ m \in 0..(Len(Live) - 1)
      BY <2>1
    <2>3. Oldest(m) = SubSeq(Live, 1, m)
      BY <1>3, <2>2, OldestIsPrefix
    <2> QED BY <1>1, <1>3, <2>1, <2>2, <2>3, Zenon
            DEF Return, Fifo!FlushFails, Fifo!Return, queued
  <1> QED BY <1>2, <1>3, ErrorDoes

LEMMA EmptiedRefines ==
    ASSUME TypeOK, rb_clear \/ rb_free
    PROVE  Fifo!Clear \/ Fifo!Release
  <1>1. rb_len' = 0 /\ Torn' = FALSE
    BY EmptiedInv DEF Torn
  <1>2. Live' = <<>>
    <2>1. Live' = [k \in 1..0 |-> At(k - 1)']
      BY <1>1 DEF Live
    <2>2. \A f : f = [k \in 1..0 |-> f[k]] => f = <<>>
      OBVIOUS
    <2> QED BY <2>1, <2>2
  <1> QED BY <1>1, <1>2, Zenon
          DEF rb_clear, rb_free, Return, Fifo!Clear, Fifo!Release, Fifo!Return

\* A crash is the use of a broken queue.
LEMMA CrashRefines ==
    ASSUME Torn, Nothing("crash")
    PROVE  Fifo!Crash
  <1>1. size' = size /\ Torn' = Torn /\ queued' = queued
    BY NothingStutters DEF Nothing
  <1> QED BY <1>1, Zenon DEF Nothing, Return, Fifo!Crash, Fifo!Return, queued

\* A step between states whose positions are in order, or torn, is a step of the
\* queue.
LEMMA NextRefines ==
    ASSUME TypeOK, PositionsOK, PositionsOK', Next
    PROVE  Fifo!Next
  <1>1. call /= "crash"
    BY DEF Next
  <1>2. CASE FlushError
    BY <1>1, <1>2, ErrorRefines, Zenon DEF Fifo!Next
  <1>3. CASE rb_clear \/ rb_free
    BY <1>1, <1>3, EmptiedRefines, Zenon DEF Fifo!Next
  <1>4. CASE Torn
    <2>1. CASE Nothing("crash")
      BY <1>1, <1>4, <2>1, CrashRefines, Zenon DEF Fifo!Next
    <2> QED BY <1>2, <1>3, <1>4, <2>1, TornStep
  <1>5. CASE InOrder
    <2>1. ASSUME NEW c \in Chunks, rb_write(c) PROVE Fifo!Next
      BY <1>1, <1>5, <2>1, WriteRefines, Zenon DEF Fifo!Next
    <2>2. ASSUME NEW sz \in 1..Size, rb_read(sz) PROVE Fifo!Next
      BY <1>1, <1>5, <2>2, ReadRefines, Zenon DEF Fifo!Next
    <2>3. CASE rb_readline
      <3>1. InOrder'
        <4>1. SUFFICES ASSUME Torn' PROVE FALSE
          BY DEF PositionsOK
        <4>2. size = 0 /\ ~Torn
          BY <1>5, <2>3, <4>1, TornFacts DEF rb_readline, Crash, Nothing, ring, Consume, Torn
        <4>3. rb_isempty
          BY <1>5, <4>2, LenFacts, SizeFacts
        <4>4. UNCHANGED ring
          BY <2>3, <4>2, <4>3 DEF rb_readline, Crash, Nothing
        <4> QED BY <4>1, <4>2, <4>4, NothingStutters
      <3> QED BY <1>1, <1>5, <2>3, <3>1, ReadlineRefines, Zenon DEF Fifo!Next
    <2>4. ASSUME NEW a \in 0..Size, NEW b \in 0..Size, flush_socket(a, b) PROVE Fifo!Next
      BY <1>1, <1>5, <2>4, FlushRefines, Zenon DEF Fifo!Next
    <2> QED BY <1>2, <1>3, <2>1, <2>2, <2>3, <2>4, Zenon DEF Next
  <1> QED BY <1>4, <1>5 DEF PositionsOK

LEMMA StutterRefines == ASSUME UNCHANGED vars PROVE UNCHANGED Fifo!vars
  <1>1. /\ queued' = queued /\ Torn' = Torn /\ size' = size
        /\ call' = call /\ out' = out /\ moved' = moved
    BY NothingStutters DEF vars, ring
  <1> QED BY <1>1, Zenon DEF Fifo!vars, queued

\* If every write ends a line, the ring buffer is a bounded FIFO of bytes
\* from which rb_readline takes whole lines, until a drain fails: then it is
\* broken, and stays so until it is cleared or freed.
THEOREM RingImplementsFifo == ASSUME LinesOnly PROVE Spec => IsFifo
  <1>1. Spec => []RingInv
    BY RingInvariant
  <1>2. RingInv => TypeOK /\ PositionsOK
    BY DEF RingInv
  <1>3. TypeOK /\ PositionsOK /\ PositionsOK' /\ [Next]_vars => [Fifo!Next]_(Fifo!vars)
    BY NextRefines, StutterRefines
  <1> QED BY <1>1, <1>2, <1>3, InitRefines, PTL DEF Spec, IsFifo, Fifo!Spec
-----------------------------------------------------------------------------
(* Whatever is written: a line in pieces lets rb_readline overtake the     *)
(* writer, and of the ring only the types of its parts are left.           *)

\* A released ring is empty or torn.
RawInv == TypeOK /\ (size = 0 => rb_isempty \/ Torn)

LEMMA InitRaw == Init => RawInv
  BY SizeFacts DEF Init, RawInv, TypeOK, rb_isempty, UInt

\* A write leaves bytes in every slot, also where there is more room than slots.
LEMMA CopiedType ==
    ASSUME TypeOK, size = Size, NEW c \in Chunks
    PROVE  Copied(c) \in [Slots -> Bytes]
  <1> DEFINE l == Len(c)
             off == Slot(write_pos)
             i == Lesser(l, size - off)
  <1>1. l \in Nat \ {0} /\ \A k \in 1..l : c[k] \in Bytes
    BY ChunkType
  <1>2. off \in 0..(Size - 1)
    BY SlotType, SizeFacts DEF TypeOK, UInt, Slots
  <1>3. i \in 0..l /\ off + i <= Size
    <2> HIDE DEF l, off
    <2> QED BY <1>1, <1>2, SizeFacts, SMT DEF Lesser
  <1>4. buf \in [Slots -> Bytes]
    BY DEF TypeOK
  <1>5. Copied(c) = [s \in Slots |-> IF s < l - i THEN c[i + s + 1]
                                     ELSE IF s >= off /\ s < off + i THEN c[s - off + 1]
                                     ELSE buf[s]]
    BY Zenon DEF Copied
  <1> HIDE DEF l, off, i
  <1>6. ASSUME NEW s \in Slots
        PROVE  (IF s < l - i THEN c[i + s + 1]
                ELSE IF s >= off /\ s < off + i THEN c[s - off + 1]
                ELSE buf[s]) \in Bytes
    <2>1. s \in 0..(Size - 1) /\ buf[s] \in Bytes
      BY <1>4 DEF Slots
    <2>2. s < l - i => i + s + 1 \in 1..l
      BY <1>1, <1>3, <2>1
    <2>3. (s >= off /\ s < off + i) => s - off + 1 \in 1..l
      BY <1>1, <1>2, <1>3, <2>1
    <2> QED BY <1>1, <2>1, <2>2, <2>3
  <1> QED BY <1>5, <1>6

\* What a drain of the ring in two parts hands out are bytes.
LEMMA DrainType ==
    ASSUME TypeOK, NEW n \in Nat, NEW a \in 0..n, NEW off \in Slots, NEW r \in Slots,
           off + a <= Size, r + (n - a) <= Size
    PROVE  [k \in 1..n |-> IF k <= a THEN buf[off + k - 1] ELSE buf[r + k - a - 1]] \in Seq(Bytes)
  <1>1. buf \in [Slots -> Bytes] /\ off \in 0..(Size - 1) /\ r \in 0..(Size - 1)
    BY DEF TypeOK, Slots
  <1>2. ASSUME NEW k \in 1..n
        PROVE  (IF k <= a THEN buf[off + k - 1] ELSE buf[r + k - a - 1]) \in Bytes
    <2>1. k <= a => off + k - 1 \in Slots
      BY <1>1, SizeFacts DEF Slots
    <2>2. ~(k <= a) => r + k - a - 1 \in Slots
      BY <1>1, SizeFacts DEF Slots
    <2> QED BY <1>1, <2>1, <2>2
  <1> DEFINE f == [k \in 1..n |-> IF k <= a THEN buf[off + k - 1] ELSE buf[r + k - a - 1]]
  <1>3. f = [k \in 1..n |-> f[k]] /\ \A k \in 1..n : f[k] \in Bytes
    BY <1>2
  <1> HIDE DEF f
  <1>4. f \in Seq(Bytes)
    BY <1>3, FunctionIsSeq
  <1> QED BY <1>4 DEF f

\* A call on a ring in use that moves the read position.
LEMMA ConsumeRaw ==
    ASSUME RawInv, size = Size, NEW k \in 0..M, NEW bytes \in Seq(Bytes), NEW p \in Nat,
           NEW kind \in {"read", "line", "flush"}, Return(kind, bytes, k, p), Consume(k)
    PROVE  RawInv'
  <1>1. read_pos' \in UInt
    <2>1. read_pos \in 0..(M - 1) /\ read_pos' = UAdd(read_pos, k)
      BY DEF RawInv, TypeOK, UInt, Consume
    <2> QED BY <2>1, SizeFacts, SMT DEF UAdd, UInt
  <1>2. size' = Size /\ size' /= 0 /\ k \in Nat
    BY SizeFacts DEF Consume
  <1> QED BY <1>1, <1>2 DEF RawInv, TypeOK, Return, Consume

LEMMA NothingRaw ==
    ASSUME RawInv, UNCHANGED ring, NEW kind \in {"write", "read", "line", "flush", "crash"},
           NEW p \in Nat, Return(kind, <<>>, 0, p)
    PROVE  RawInv'
  <1>1. <<>> \in Seq(Bytes)
    BY EmptySeq
  <1> QED BY <1>1 DEF RawInv, TypeOK, Return, ring, rb_isempty, Torn

LEMMA CrashRaw == ASSUME RawInv, Crash PROVE RawInv'
  BY NothingRaw DEF Crash, Nothing

LEMMA WriteRaw == ASSUME RawInv, NEW c \in Chunks, rb_write(c) PROVE RawInv'
  <1>1. /\ read_pos \in 0..(M - 1) /\ write_pos \in 0..(M - 1) /\ size \in {0, Size}
        /\ Len(c) \in Nat \ {0}
    BY ChunkType DEF RawInv, TypeOK, UInt
  <1>2. CASE Nothing("write")
    BY <1>2, NothingRaw DEF Nothing
  <1>3. CASE /\ Len(c) <= rb_remain
             /\ ~Torn
             /\ buf' = Copied(c)
             /\ write_pos' = UAdd(write_pos, Len(c))
             /\ Return("write", <<>>, Len(c), 0)
             /\ UNCHANGED <<size, read_pos>>
    <2>1. size = Size
      <3>1. SUFFICES ASSUME size = 0 PROVE FALSE
        BY <1>1
      <3>2. read_pos = write_pos
        BY <1>3, <3>1 DEF RawInv, rb_isempty
      <3>3. rb_remain = 0
        BY <1>1, <3>1, <3>2, SizeFacts, SMT DEF rb_remain, UAdd, USub
      <3> QED BY <1>1, <1>3, <3>3
    <2>2. buf' \in [Slots -> Bytes]
      BY <1>3, <2>1, CopiedType DEF RawInv
    <2>3. Len(c) <= M
      <3>1. rb_remain <= M /\ rb_remain \in Int
        BY <1>1, SizeFacts, SMT DEF rb_remain, UAdd, USub
      <3> QED BY <1>1, <1>3, <3>1, SizeFacts
    <2>4. write_pos' \in UInt
      BY <1>1, <1>3, <2>3, SizeFacts, SMT DEF UAdd, UInt
    <2>5. <<>> \in Seq(Bytes)
      BY EmptySeq
    <2> QED BY <1>1, <1>3, <2>1, <2>2, <2>4, <2>5, SizeFacts DEF RawInv, TypeOK, Return
  <1> QED BY <1>2, <1>3, CrashRaw, Zenon DEF rb_write

LEMMA ReadRaw == ASSUME RawInv, NEW sz \in 1..Size, rb_read(sz) PROVE RawInv'
  <1>1. CASE rb_isempty /\ Nothing("read")
    BY <1>1, NothingRaw DEF Nothing
  <1>2. CASE ~rb_isempty /\ ~Torn
    <2> DEFINE len == Lesser(sz, rb_len)
               off == Slot(read_pos)
               i == Lesser(len, size - off)
    <2>1. size = Size /\ read_pos \in 0..(M - 1) /\ write_pos \in 0..(M - 1) /\ TypeOK
      BY <1>2 DEF RawInv, TypeOK, UInt
    <2>2. rb_len \in 0..(M - 1)
      BY <2>1, SizeFacts, SMT DEF rb_len, USub
    <2>3. len \in 0..Size
      <3> HIDE DEF rb_len
      <3> QED BY <2>2, SizeFacts, SMT DEF Lesser
    <2>4. off \in Slots /\ off \in 0..(Size - 1) /\ 0 \in Slots
      BY <2>1, SlotType, SizeFacts DEF Slots
    <2>5. Return("read", Segments(len), len, 0) /\ Consume(len)
      BY <1>2, Zenon DEF rb_read, Crash
    <2>6. Segments(len) = [k \in 1..len |-> IF k <= i THEN buf[off + k - 1] ELSE buf[k - i - 1]]
      BY Zenon DEF Segments
    <2> HIDE DEF len, off
    <2>7. i \in 0..len /\ off + i <= Size /\ 0 + (len - i) <= Size /\ len \in Nat
      BY <2>1, <2>3, <2>4, SizeFacts, SMT DEF Lesser
    <2> HIDE DEF i
    <2>8. [k \in 1..len |-> IF k <= i THEN buf[off + k - 1] ELSE buf[0 + k - i - 1]] \in Seq(Bytes)
      BY <2>1, <2>4, <2>7, DrainType, Zenon
    <2>9. Segments(len) \in Seq(Bytes)
      <3>1. ASSUME NEW k \in 1..len PROVE 0 + k - i - 1 = k - i - 1
        BY <2>7
      <3> QED BY <2>6, <2>8, <3>1
    <2>10. len \in 0..M
      BY <2>3, SizeFacts
    <2> QED BY <2>1, <2>5, <2>9, <2>10, ConsumeRaw
  <1> QED BY <1>1, <1>2, CrashRaw, Zenon DEF rb_read

LEMMA ReadlineRaw == ASSUME RawInv, rb_readline PROVE RawInv'
  <1>1. CASE rb_isempty /\ Nothing("line")
    BY <1>1, NothingRaw DEF Nothing
  <1>2. TypeOK /\ rb_len \in Nat /\ LineSz \in Nat /\ size \in {0, Size}
    <2>1. read_pos \in 0..(M - 1) /\ write_pos \in 0..(M - 1)
      BY DEF RawInv, TypeOK, UInt
    <2>2. rb_len \in Nat
      BY <2>1, SizeFacts, SMT DEF rb_len, USub
    <2> QED BY <2>2, SizeFacts DEF RawInv, TypeOK
  <1>3. ASSUME ~rb_isempty, ~Torn, NEW i \in UInt,
               Return("line", [k \in 1..(i + 1) |-> At(k - 1)], i + 1, Past(i + 1)),
               Consume(i + 1)
        PROVE  RawInv'
    <2>1. size = Size
      BY <1>2, <1>3 DEF RawInv
    <2>2. i + 1 \in 0..M /\ i + 1 \in Nat /\ Past(i + 1) \in Nat
      BY <1>2, SizeFacts DEF UInt, Past
    <2>3. Oldest(i + 1) \in Seq(Bytes)
      BY <1>2, <2>2, OldestType
    <2>4. Return("line", Oldest(i + 1), i + 1, Past(i + 1))
      BY <1>3, Zenon DEF Oldest
    <2> QED BY <1>3, <2>1, <2>2, <2>3, <2>4, ConsumeRaw
  <1>4. ASSUME Return("line", <<>>, 0, Past(IF rb_len > LineSz THEN rb_len ELSE LineSz + 1)),
               UNCHANGED ring
        PROVE  RawInv'
    <2>1. Past(IF rb_len > LineSz THEN rb_len ELSE LineSz + 1) \in Nat
      BY <1>2 DEF Past
    <2> QED BY <1>4, <2>1, NothingRaw
  <1> QED BY <1>1, <1>3, <1>4, CrashRaw, Zenon DEF rb_readline

LEMMA FlushRaw ==
    ASSUME RawInv, NEW a \in 0..Size, NEW b \in 0..Size, flush_socket(a, b)
    PROVE  RawInv'
  <1>1. CASE rb_isempty /\ Nothing("flush")
    BY <1>1, NothingRaw DEF Nothing
  <1>2. CASE ~rb_isempty /\ InOrder
    <2> DEFINE off == Slot(read_pos)
               r == Slot(UAdd(read_pos, a))
               first == Lesser(Size - off, rb_len)
               n == a + b
    <2>1. size = Size /\ read_pos \in 0..(M - 1) /\ write_pos \in 0..(M - 1) /\ TypeOK
          /\ read_pos \in UInt
      BY <1>2, TornFacts DEF RawInv, TypeOK, UInt
    <2>2. rb_len \in 0..(M - 1)
      BY <2>1, SizeFacts, SMT DEF rb_len, USub
    <2>3. /\ a <= first
          /\ IF a < first THEN b = 0 ELSE b <= rb_len - first
          /\ Return("flush", [k \in 1..n |-> IF k <= a THEN buf[off + k - 1]
                                             ELSE buf[r + k - a - 1]], n, 0)
          /\ Consume(n)
      BY <1>2, <2>1, Zenon DEF flush_socket
    <2>4. /\ off \in Slots
          /\ r = IF off + a < Size THEN off + a ELSE off + a - Size
      BY <2>1, SlotAdd, Zenon
    <2>5. off \in 0..(Size - 1) /\ r \in Slots
      BY <2>1, <2>4, SizeFacts, SlotAdd DEF Slots
    <2> HIDE DEF off, r, rb_len
    <2>6. /\ off + a <= Size /\ (b = 0 \/ off + a = Size)
      BY <2>2, <2>3, <2>5, SizeFacts, SMT DEF Lesser
    <2>7. r + (n - a) <= Size
      BY <2>4, <2>5, <2>6, SizeFacts DEF Slots
    <2>8. n \in Nat /\ a \in 0..n /\ n \in 0..M
      BY SizeFacts
    <2> HIDE DEF n
    <2>9. [k \in 1..n |-> IF k <= a THEN buf[off + k - 1] ELSE buf[r + k - a - 1]] \in Seq(Bytes)
      BY <2>1, <2>4, <2>5, <2>6, <2>7, <2>8, DrainType, Zenon
    <2> QED BY <2>1, <2>3, <2>8, <2>9, ConsumeRaw
  <1> QED BY <1>1, <1>2, Zenon DEF flush_socket

LEMMA ErrorRaw == ASSUME RawInv, FlushError PROVE RawInv'
  BY ErrorDoes DEF RawInv

LEMMA NextRaw == ASSUME RawInv, [Next]_vars PROVE RawInv'
  <1>1. CASE rb_clear \/ rb_free
    <2>1. write_pos' = 0 /\ read_pos' = 0 /\ buf' = buf /\ size' \in {0, Size}
      BY <1>1 DEF rb_clear, rb_free, RawInv, TypeOK
    <2>2. /\ call' \in {"clear", "free"} /\ out' = <<>> /\ moved' = 0 /\ overrun' = 0
          /\ <<>> \in Seq(Bytes)
      BY <1>1, EmptySeq DEF rb_clear, rb_free, Return
    <2> QED BY <2>1, <2>2, SizeFacts DEF RawInv, TypeOK, rb_isempty, UInt
  <1>2. CASE UNCHANGED vars
    BY <1>2 DEF RawInv, TypeOK, rb_isempty, Torn, vars
  <1> QED BY <1>1, <1>2, WriteRaw, ReadRaw, ReadlineRaw, FlushRaw, ErrorRaw, Zenon DEF Next

\* The ring keeps its types whatever is written to it.
THEOREM RingTyped == Spec => []TypeOK
  <1>1. RawInv => TypeOK
    BY DEF RawInv
  <1> QED BY <1>1, InitRaw, NextRaw, PTL DEF Spec

\* Whatever is written, the ring is a FIFO, to be broken by a failed drain, until
\* a call moves the read position past the write position: nothing else goes wrong
\* with a line in pieces.
THEOREM FifoUnlessOvertaken == Spec => FifoUntilOvertaken
  <1>1. TypeOK /\ [Next]_vars => [PositionsOK /\ PositionsOK' => Fifo!Next]_vars
    BY NextRefines
  <1> QED BY <1>1, RingTyped, PTL DEF Spec, FifoUntilOvertaken
=============================================================================
