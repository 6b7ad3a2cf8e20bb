----------------------------- MODULE MCRingBuf ------------------------------
(* The ring buffer on a ring of four slots and 4-bit positions.            *)
EXTENDS RingBuf

\* Whole lines, of one to three bytes.
MCLines == {<<"nl">>, <<"a", "nl">>, <<"b", "a", "nl">>}

\* A line that arrives in two writes (a line cut by read_socket's 1024-byte
\* reads, or by a peer that sends it in two segments).
MCPieces == {<<"a">>, <<"b", "nl">>}
=============================================================================
