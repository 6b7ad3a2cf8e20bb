------------------------------- MODULE Lists -------------------------------
(***************************************************************************)
(* The nodes of a red-black tree in order, as a list: what lies in it, and *)
(* what an insertion and a deletion make of it.                            *)
(***************************************************************************)
EXTENDS Naturals, Sequences

Elements(q) == {q[i] : i \in DOMAIN q}

\* No element occurs twice.
Distinct(q) == \A i, j \in DOMAIN q : q[i] = q[j] => i = j

\* x is ahead of y in q.
Ahead(q, x, y) == \E i \in DOMAIN q : q[i] = x /\ \E j \in DOMAIN q : i < j /\ q[j] = y

\* n put behind the first i elements of q.
Inserted(q, i, n) == SubSeq(q, 1, i) \o <<n>> \o SubSeq(q, i + 1, Len(q))

\* q, in which no element occurs twice, without n.
Without(q, n) ==
    IF n \notin Elements(q) THEN q
    ELSE LET i == CHOOSE j \in DOMAIN q : q[j] = n
         IN  SubSeq(q, 1, i - 1) \o SubSeq(q, i + 1, Len(q))
=============================================================================
