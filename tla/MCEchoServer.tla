--------------------------- MODULE MCEchoServer -----------------------------
(* The echo server with a few clients.                                     *)
EXTENDS EchoServer, TLC

Clients == Permutations(Conns)

\* The state, all indices outside the table being one.
Beyond(i) == IF InTable(i) THEN i ELSE MAX_CONN
Indexed   == <<client, rx, tx, event, loop, late, dropped,
               [c \in Conns |-> Beyond(slot[c])], Beyond(iter)>>
=============================================================================
