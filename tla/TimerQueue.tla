----------------------------- MODULE TimerQueue -----------------------------
(***************************************************************************)
(* What the users of a red-black tree rely on: its nodes, in the order     *)
(* ngx_rbtree_min and ngx_rbtree_next give them, are a queue ordered by    *)
(* key, first come first served among equals.  RBTree is checked to        *)
(* implement this module.                                                  *)
(***************************************************************************)
EXTENDS TimerOrder

CONSTANT Nodes      \* the nodes a tree may be built from

VARIABLES queue,    \* the nodes of the tree, in order
          key,      \* their keys
          insert    \* how keys are compared: "value" or "timer"

vars == <<queue, key, insert>>

Init == /\ queue = <<>>
        /\ key = [n \in Nodes |-> 0]
        /\ insert \in {"value", "timer"}

\* Where plain numbers put n.
Sorted(q, k, n) ==
    {Inserted(q, i, n) : i \in {j \in 0..Len(q) :
        /\ \A m \in 1..j : k[q[m]] <= k[n]
        /\ \A m \in (j + 1)..Len(q) : k[n] < k[q[m]]}}

Insert(n) == /\ n \notin Elements(queue)
             /\ \E k \in 0..(M - 1) : key' = [key EXCEPT ![n] = k]
             /\ queue' \in IF insert = "timer" THEN Insertions(queue, key', n)
                           ELSE Sorted(queue, key', n)
             /\ UNCHANGED insert

Delete(n) == /\ n \in Elements(queue)
             /\ queue' = Without(queue, n)
             /\ key' = [key EXCEPT ![n] = 0]
             /\ UNCHANGED insert

Next == \E n \in Nodes : Insert(n) \/ Delete(n)

Spec == Init /\ [][Next]_vars
=============================================================================
