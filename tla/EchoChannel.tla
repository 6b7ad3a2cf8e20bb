----------------------------- MODULE EchoChannel -----------------------------
(***************************************************************************)
(* What the clients of the echo server may rely on: each connection is a   *)
(* channel that echoes whole lines, oldest first and once, and that may    *)
(* lose lines or the end of the echoes it has not delivered only together  *)
(* with its promise to lose nothing.  EchoServer is shown to implement     *)
(* this module; the clients' part is that their lines arrive whole there,  *)
(* none cut in two by a read.                                              *)
(***************************************************************************)
EXTENDS Naturals, Sequences

CONSTANTS Conns,      \* the connections
          Lines,      \* how many lines a client sends on one
          Window      \* how many echoes a client lets be outstanding

VARIABLES sent,       \* sent[c]: lines the client has sent; the k-th is k
          waiting,    \* waiting[c]: those to be echoed
          echoed,     \* echoed[c]: the units sent back, line k being 2k-1 and 2k
          seen,       \* seen[c]: how many of these the client has read
          intact      \* the channels that have lost nothing

vars == <<sent, waiting, echoed, seen, intact>>

Init == /\ sent = [c \in Conns |-> 0]
        /\ waiting = [c \in Conns |-> <<>>]
        /\ echoed = [c \in Conns |-> <<>>]
        /\ seen = [c \in Conns |-> 0]
        /\ intact = Conns

Send(c) == /\ sent[c] < Lines
           /\ sent[c] - (seen[c] + 1) \div 2 < Window
           /\ sent' = [sent EXCEPT ![c] = @ + 1]
           /\ waiting' = [waiting EXCEPT ![c] = Append(@, sent[c] + 1)]
           /\ UNCHANGED <<echoed, seen, intact>>

Echo(c) == /\ waiting[c] /= <<>>
           /\ LET k == Head(waiting[c])
              IN  echoed' = [echoed EXCEPT ![c] = @ \o <<2 * k - 1, 2 * k>>]
           /\ waiting' = [waiting EXCEPT ![c] = Tail(@)]
           /\ UNCHANGED <<sent, seen, intact>>

See(c) == /\ seen[c] < Len(echoed[c])
          /\ seen' = [seen EXCEPT ![c] = @ + 1]
          /\ UNCHANGED <<sent, waiting, echoed, intact>>

\* s without its elements a+1 to b
Without(s, a, b) == SubSeq(s, 1, a) \o SubSeq(s, b + 1, Len(s))

\* Neighbouring lines, and echoes the client has not read, are lost.
Lose(c) == /\ intact' = intact \ {c}
           /\ \E a, b \in 0..Len(waiting[c]) :
                a <= b /\ waiting' = [waiting EXCEPT ![c] = Without(@, a, b)]
           /\ \E n \in seen[c]..Len(echoed[c]) :
                echoed' = [echoed EXCEPT ![c] = SubSeq(@, 1, n)]
           /\ UNCHANGED <<sent, seen>>

Next == \E c \in Conns : Send(c) \/ Echo(c) \/ See(c) \/ Lose(c)

Spec == Init /\ [][Next]_vars
=============================================================================
