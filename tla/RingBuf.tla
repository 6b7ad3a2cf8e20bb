------------------------------ MODULE RingBuf -------------------------------
(***************************************************************************)
(* evnet/ringbuf.h: a ring of Size bytes addressed by two free-running     *)
(* unsigned positions, and the two-part drain of the ring that             *)
(* reactor.h's flush_socket performs in place.  Positions have the width   *)
(* of the code's unsigned int: they are taken modulo M, a multiple of the  *)
(* ring's size.  The buffer's first contents are whatever malloc returned. *)
(* A drain whose write(2) fails frees the ring and then moves the read     *)
(* position of what it has freed: Torn is the state this leaves.           *)
(***************************************************************************)
EXTENDS Naturals, Sequences

CONSTANTS Bytes,      \* the values of a byte
          NL,         \* the byte '\n'
          Size,       \* r->size after rb_init: a power of two
          M,          \* 2^32, the range of an unsigned int
          LineSz,     \* the sz every rb_readline is called with
          Chunks      \* what rb_write may be called with

ASSUME RingAssumption ==
    /\ Size \in Nat \ {0}
    /\ M \in Nat
    /\ \E k \in 2..M : M = k * Size
    /\ NL \in Bytes
    /\ LineSz \in Nat /\ LineSz < M
    /\ Chunks \subseteq Seq(Bytes)
    /\ \A c \in Chunks : c /= <<>> /\ Len(c) < M

\* Every write ends a line.
LinesOnly == \A c \in Chunks : c[Len(c)] = NL

\* No write is longer than the buffer a line is read into.
ShortWrites == \A c \in Chunks : Len(c) <= LineSz

VARIABLES buf,        \* the bytes of the ring
          size,       \* r->size: Size, and 0 once rb_free has released buf
          write_pos,
          read_pos,
          call,       \* the last call,
          out,        \* the bytes it handed to its caller,
          moved,      \* how many bytes it moved,
          overrun     \* and how far it wrote past its caller's buffer

ring == <<buf, size, write_pos, read_pos>>
vars == <<buf, size, write_pos, read_pos, call, out, moved, overrun>>

Slots == 0..(Size - 1)
UInt  == 0..(M - 1)

\* Unsigned addition and subtraction of two values of UInt.
UAdd(a, b) == IF a + b < M THEN a + b ELSE a + b - M
USub(a, b) == IF a >= b THEN a - b ELSE a + M - b

Lesser(a, b) == IF a < b THEN a ELSE b

Init == /\ buf \in [Slots -> Bytes]
        /\ size = Size
        /\ write_pos = 0
        /\ read_pos = 0
        /\ call = "init"
        /\ out = <<>>
        /\ moved = 0
        /\ overrun = 0
-----------------------------------------------------------------------------
(* The queries. *)

rb_isempty == read_pos = write_pos
rb_len == USub(write_pos, read_pos)
rb_remain == UAdd(USub(size, write_pos), read_pos)

\* pos & (size - 1), the slot a position designates
Slot(pos) == pos % Size

\* The i-th byte from the read position, live or not.
At(i) == buf[Slot(UAdd(read_pos, i))]

\* The reader is between the writer and one ring behind it.
InOrder == rb_len <= size

\* What a failed drain leaves: no buffer, but one byte to read at 2^32 - 1.
Torn == size = 0 /\ write_pos = 0 /\ read_pos = USub(0, 1)
-----------------------------------------------------------------------------
(* The operations: each returns a count and leaves bytes with its caller. *)

Return(kind, bytes, count, past) ==
    call' = kind /\ out' = bytes /\ moved' = count /\ overrun' = past

Nothing(kind) == Return(kind, <<>>, 0, 0) /\ UNCHANGED ring

\* On a torn ring the copies go through a null pointer: the process ends.
Crash == Torn /\ Nothing("crash")

\* Mutant: the second memcpy copies from the start of the caller's buffer.
CopiedFromStart(c) ==
    LET off == Slot(write_pos)
        i   == Lesser(Len(c), size - off)
    IN  [s \in Slots |-> IF s < Len(c) - i THEN c[s + 1]
                         ELSE IF s >= off /\ s < off + i THEN c[s - off + 1]
                         ELSE buf[s]]

\* Mutant: what does not fit before the edge is not copied.
CopiedToEdge(c) ==
    LET off == Slot(write_pos)
        i   == Lesser(Len(c), size - off)
    IN  [s \in Slots |-> IF s >= off /\ s < off + i THEN c[s - off + 1] ELSE buf[s]]

\* The two memcpy calls of rb_write.
Copied(c) ==
    LET off == Slot(write_pos)
        i   == Lesser(Len(c), size - off)
    IN  [s \in Slots |-> IF s < Len(c) - i THEN c[i + s + 1]
                         ELSE IF s >= off /\ s < off + i THEN c[s - off + 1]
                         ELSE buf[s]]

rb_write(c) ==
    \/ /\ Len(c) > rb_remain
       /\ Nothing("write")
    \/ /\ Len(c) <= rb_remain
       /\ ~Torn
       /\ buf' = Copied(c)
       /\ write_pos' = UAdd(write_pos, Len(c))
       /\ Return("write", <<>>, Len(c), 0)
       /\ UNCHANGED <<size, read_pos>>
    \/ Crash

\* Mutant: the second memcpy does not start at the ring's first byte.
SegmentsUnwrapped(len) ==
    LET off == Slot(read_pos)
        i   == Lesser(len, size - off)
    IN  [k \in 1..len |-> IF k <= i THEN buf[off + k - 1] ELSE buf[Slot(k - 1)]]

\* The two memcpy calls of rb_read: the bytes up to the edge, then the rest.
Segments(len) ==
    LET off == Slot(read_pos)
        i   == Lesser(len, size - off)
    IN  [k \in 1..len |-> IF k <= i THEN buf[off + k - 1] ELSE buf[k - i - 1]]

Consume(k) == read_pos' = UAdd(read_pos, k) /\ UNCHANGED <<buf, size, write_pos>>

rb_read(sz) ==
    \/ rb_isempty /\ Nothing("read")
    \/ /\ ~rb_isempty /\ ~Torn
       /\ LET len == Lesser(sz, rb_len)
          IN  Return("read", Segments(len), len, 0) /\ Consume(len)
    \/ Crash

\* The loop's range: i < rb_len(r) || i <= sz.
Scanned(i) == i < rb_len \/ i <= LineSz

\* Mutant: the line is terminated in the caller's buffer.
PastTerminator(n) == IF n + 1 > LineSz THEN n + 1 - LineSz ELSE 0

\* What the loop has written past buf[sz - 1] once it has written n bytes.
Past(n) == IF n > LineSz THEN n - LineSz ELSE 0

rb_readline ==
    \/ rb_isempty /\ Nothing("line")
    \/ /\ ~rb_isempty /\ ~Torn
       /\ \E i \in UInt :
            /\ Scanned(i)
            /\ At(i) = NL
            /\ \A j \in 0..(i - 1) : At(j) /= NL
            /\ Return("line", [k \in 1..(i + 1) |-> At(k - 1)], i + 1, Past(i + 1))
            /\ Consume(i + 1)
    \/ /\ ~rb_isempty /\ ~Torn
       /\ \A i \in UInt : Scanned(i) => At(i) /= NL
       /\ Return("line", <<>>, 0, Past(IF rb_len > LineSz THEN rb_len ELSE LineSz + 1))
       /\ UNCHANGED ring
    \/ Crash

\* flush_socket, no write(2) failing: it takes a of the bytes up to the edge and,
\* if that was all of them, b of the bytes that wrapped.  The ring it drains is
\* e->out, which no rb_readline reads, so its positions are in order.
flush_socket(a, b) ==
    LET dis   == size - Slot(read_pos)
        first == Lesser(dis, rb_len)
        sent  == a + b
    IN  \/ rb_isempty /\ Nothing("flush")
        \/ /\ ~rb_isempty /\ InOrder
           /\ a <= first
           /\ IF a < first THEN b = 0 ELSE b <= rb_len - first
           /\ Return("flush", [k \in 1..sent |-> IF k <= a THEN buf[Slot(read_pos) + k - 1]
                                        ELSE buf[Slot(UAdd(read_pos, a)) + k - a - 1]],
                     sent, 0)
           /\ Consume(sent)

\* flush_socket, the first write(2) or the second failing: write_socket_ has freed
\* the ring when its -1 is taken for a short write and added to read_pos.  A torn
\* ring is written from a bad pointer, which fails once more.
FlushError ==
    /\ \/ Torn /\ Return("flush", <<>>, 0, 0)
       \/ /\ ~rb_isempty /\ InOrder
          /\ \E a \in {0, size - Slot(read_pos)} :
               a < rb_len /\ Return("flush", Segments(a), a, 0)
    /\ size' = 0 /\ write_pos' = 0 /\ read_pos' = USub(0, 1)
    /\ UNCHANGED buf

rb_clear == /\ write_pos' = 0 /\ read_pos' = 0
            /\ Return("clear", <<>>, 0, 0)
            /\ UNCHANGED <<buf, size>>

rb_free == /\ write_pos' = 0 /\ read_pos' = 0 /\ size' = 0
           /\ Return("free", <<>>, 0, 0)
           /\ UNCHANGED buf

Next == /\ call /= "crash"
        /\ \/ \E c \in Chunks : rb_write(c)
           \/ \E sz \in 1..Size : rb_read(sz)
           \/ rb_readline
           \/ \E a, b \in 0..Size : flush_socket(a, b)
           \/ FlushError
           \/ rb_clear
           \/ rb_free

Spec == Init /\ [][Next]_vars
-----------------------------------------------------------------------------
(* Properties. *)

\* Every variable keeps its type; the positions never leave the unsigned range.
TypeOK == /\ buf \in [Slots -> Bytes]
          /\ size \in {0, Size}
          /\ write_pos \in UInt
          /\ read_pos \in UInt
          /\ call \in {"init", "write", "read", "line", "flush", "clear", "free",
                       "crash"}
          /\ out \in Seq(Bytes)
          /\ moved \in Nat
          /\ overrun \in Nat

\* The reader never passes the writer and the writer never laps the reader,
\* also when the unsigned positions have wrapped (ringbuf.h:14-15, 61-67), but
\* for the ring a failed drain has freed (reactor.h:264-269, 287-288, 296-297, 305-306).
PositionsOK == InOrder \/ Torn

\* What is left in the ring always ends with a newline, if every write did.
\* This is what keeps rb_readline's scan inside the live bytes.
EndsWithLine == (~rb_isempty /\ ~Torn) => At(rb_len - 1) = NL

RingInv == TypeOK /\ PositionsOK /\ EndsWithLine

\* From every live byte on, LineSz bytes reach a newline, whatever rb_read and
\* flush_socket have cut off the oldest line (ringbuf.h:124-133): the line that
\* the next rb_readline meets is never longer than those that were written.
LinesFit ==
    Torn \/ \A j \in 0..(rb_len - 1) : \E i \in j..(j + LineSz - 1) : i < rb_len /\ At(i) = NL

\* Unless a drain has failed and left it torn, the ring is in order and every
\* line in it fits its reader's buffer.
FitInv == RingInv /\ LinesFit

\* No call writes past its caller's buffer, when every line fits in one
\* (server.c:6-7 passes a buffer of exactly sz bytes, ringbuf.h:126 writes
\* buf[i] before it knows that i belongs to a line).
NoOverrun == overrun = 0

\* The bytes written and not yet read, oldest first.
Live == [k \in 1..rb_len |-> At(k - 1)]

Fifo == INSTANCE ByteFifo WITH q <- IF Torn THEN <<>> ELSE Live, cap <- size, broken <- Torn

\* The ring implements the bounded FIFO, which a failed drain breaks
\* (ringbuf.h:53-139, reactor.h:255-315).
IsFifo == Fifo!Spec

\* Whatever is written, a call departs from the FIFO only by moving the read
\* position past the write position (ringbuf.h:124, 128).
FifoUntilOvertaken == [][PositionsOK /\ PositionsOK' => Fifo!Next]_vars
=============================================================================
