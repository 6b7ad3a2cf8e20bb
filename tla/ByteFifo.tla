------------------------------ MODULE ByteFifo ------------------------------
(***************************************************************************)
(* What a caller of evnet's ring buffer may rely on: a bounded FIFO of     *)
(* bytes.  A put is all or nothing, a take returns the oldest bytes, and a *)
(* line is handed out only once its newline has been put.  A flush may     *)
(* fail: then the bytes are lost, and the queue must be cleared or         *)
(* released before it is used for anything but another flush, or the use   *)
(* ends the process.  RingBuf is shown to implement this module.           *)
(***************************************************************************)
EXTENDS Naturals, Sequences

CONSTANTS Bytes,      \* the alphabet
          NL,         \* the byte '\n'
          Chunks,     \* the arguments of a put: non-empty sequences of bytes
          Size        \* the capacity

VARIABLES q,          \* the bytes put and not yet taken, oldest first
          cap,        \* the capacity, 0 once the queue is released
          broken,     \* a flush has failed
          call,       \* the last call,
          out,        \* the bytes it handed to its caller,
          moved       \* and how many bytes it moved

vars == <<q, cap, broken, call, out, moved>>

Init == /\ q = <<>> /\ cap = Size /\ broken = FALSE
        /\ call = "init" /\ out = <<>> /\ moved = 0

Return(kind, bytes, count) == call' = kind /\ out' = bytes /\ moved' = count

Put(c) == /\ ~broken
          /\ \/ /\ Len(q) + Len(c) <= cap
                /\ q' = q \o c
                /\ Return("write", <<>>, Len(c))
             \/ /\ Len(q) + Len(c) > cap
                /\ q' = q
                /\ Return("write", <<>>, 0)
          /\ UNCHANGED <<cap, broken>>

\* The k oldest bytes leave the queue.
Take(kind, k) == /\ ~broken
                 /\ Return(kind, SubSeq(q, 1, k), k)
                 /\ q' = SubSeq(q, k + 1, Len(q))
                 /\ UNCHANGED <<cap, broken>>

Read(sz) == Take("read", IF sz < Len(q) THEN sz ELSE Len(q))

\* The k oldest bytes are a line: the k-th is the first newline.
IsLine(k) == k \in 1..Len(q) /\ q[k] = NL /\ \A j \in 1..(k - 1) : q[j] /= NL

ReadLine == \/ \E k \in 1..Len(q) : IsLine(k) /\ Take("line", k)
            \/ (\A k \in 1..Len(q) : q[k] /= NL) /\ Take("line", 0)

Flush == \E k \in 0..Len(q) : Take("flush", k)

\* A flush fails after it has handed out some bytes, but not all.
FlushFails == /\ \/ broken /\ Return("flush", <<>>, 0)
                 \/ \E k \in 0..(Len(q) - 1) : ~broken /\ Return("flush", SubSeq(q, 1, k), k)
              /\ q' = <<>> /\ cap' = 0 /\ broken' = TRUE

\* A broken queue is used.
Crash == /\ broken
         /\ Return("crash", <<>>, 0)
         /\ UNCHANGED <<q, cap, broken>>

Clear == q' = <<>> /\ broken' = FALSE /\ UNCHANGED cap /\ Return("clear", <<>>, 0)

Release == q' = <<>> /\ broken' = FALSE /\ cap' = 0 /\ Return("free", <<>>, 0)

Next == /\ call /= "crash"
        /\ \/ \E c \in Chunks : Put(c)
           \/ \E sz \in 1..Size : Read(sz)
           \/ ReadLine
           \/ Flush
           \/ FlushFails
           \/ Crash
           \/ Clear
           \/ Release

Spec == Init /\ [][Next]_vars
=============================================================================
