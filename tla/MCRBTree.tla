------------------------------ MODULE MCRBTree ------------------------------
(* A red-black tree of a few nodes.                                        *)
EXTENDS RBTree

\* The cursors at n.
Cursors(n) == IF pc = "idle" THEN {}
              ELSE {c \in 1..3 : \/ c = 1 /\ node = n
                                 \/ c = 2 /\ temp = n
                                 \/ c = 3 /\ temp = Sentinel /\ parent[Sentinel] = n}

\* The tree without the names of its nodes, and whether the children of each
\* have it as their parent.
RECURSIVE Below(_)
Below(n) == IF n = Sentinel THEN <<>>
            ELSE <<key[n], red[n], Cursors(n),
                   {c \in {child["left"][n], child["right"][n]} \ {Sentinel} : parent[c] /= n} = {},
                   Below(child["left"][n]), Below(child["right"][n])>>
Unnamed == <<Below(root), insert, pc, IF pc = "descend" THEN key[node] ELSE 0>>
=============================================================================
