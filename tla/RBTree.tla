------------------------------- MODULE RBTree -------------------------------
(***************************************************************************)
(* evnet/rbtree.c and rbtree.h: nginx's red-black tree, pointer by         *)
(* pointer.  A step is one round of one of the code's loops.  left and     *)
(* right are the two sides of child, so that the mirrored halves of the    *)
(* code are one action with a side as parameter.                           *)
(***************************************************************************)
EXTENDS TimerOrder

CONSTANTS Nodes,    \* the memory nodes are made of
          Sentinel, \* what stands for no child
          Null      \* the NULL pointer

ASSUME PointerAssumption == Sentinel \notin Nodes /\ Null \notin Nodes \cup {Sentinel}

VARIABLES root,     \* of the tree
          insert,   \* tree->insert: "value" or "timer"
          key, child, parent, red,  \* of each node
          pc,       \* the loop the program is in, "idle" between calls
          node,     \* what a call is about, and the cursor of its re-balancing
          temp,     \* the other cursor, and what a walk has returned
          order,    \* history: the nodes in the tree, in order
          under,    \* history: of each node, the nodes of its subtree
          height    \* history: of each node, the black ones on any path down from it

vars == <<root, insert, key, child, parent, red, pc, node, temp, order, under, height>>

Sides == {"left", "right"}
Other(side) == IF side = "left" THEN "right" ELSE "left"
Places == Nodes \cup {Sentinel}

\* On which side of its parent n is: the code tests the left one.
Side(n) == IF n = child["left"][parent[n]] THEN "left" ELSE "right"

\* The pointer to n, in its parent or in the root, is set to m.
RootFor(n, m)  == IF n = root THEN m ELSE root
ChildFor(n, m) == IF n = root THEN child ELSE [child EXCEPT ![Side(n)][parent[n]] = m]

\* ngx_rbtree_left_rotate and ngx_rbtree_right_rotate: n goes down on side.
Rotate(n, side) ==
    LET m     == child[Other(side)][n]
        inner == child[side][m]
        up    == [parent EXCEPT ![m] = parent[n], ![n] = m]
    IN  /\ root' = RootFor(n, m)
        /\ child' = [ChildFor(n, m) EXCEPT ![Other(side)][n] = inner, ![side][m] = n]
        /\ parent' = IF inner = Sentinel THEN up ELSE [up EXCEPT ![inner] = n]
        /\ under' = [under EXCEPT ![n] = {n} \cup under[child[side][n]] \cup under[inner],
                                  ![m] = under[n]]
        /\ UNCHANGED <<key, order>>

Shape == <<root, child, parent, under, key, order>>

\* A call ends; a walk has found n.
Return(n) == /\ pc' = "idle"
             /\ node' = Null
             /\ temp' = n

\* ngx_rbtree_init.
Init == /\ root = Sentinel
        /\ insert \in {"value", "timer"}
        /\ key = [n \in Nodes |-> 0]
        /\ child = [s \in Sides |-> [n \in Nodes |-> Null]]
        /\ parent = [n \in Places |-> Null]
        /\ red = [n \in Places |-> FALSE]
        /\ pc = "idle" /\ node = Null /\ temp = Null
        /\ order = <<>>
        /\ under = [n \in Places |-> {}]
        /\ height = [n \in Places |-> 0]
-----------------------------------------------------------------------------
(* Insertion. *)

\* Mutant: equal keys go left.
BeforeOrEqual(a, b) == IF insert = "timer" THEN ~Precedes(b, a) ELSE a <= b

\* node->key < temp->key, as tree->insert sees it.
Before(a, b) == IF insert = "timer" THEN Precedes(a, b) ELSE a < b

\* ngx_rbtree_insert on an empty tree.
InsertRoot(n) ==
    /\ pc = "idle" /\ root = Sentinel
    /\ \E k \in 0..(M - 1) : key' = [key EXCEPT ![n] = k]
    /\ root' = n
    /\ child' = [s \in Sides |-> [child[s] EXCEPT ![n] = Sentinel]]
    /\ parent' = [parent EXCEPT ![n] = Null]
    /\ red' = [red EXCEPT ![n] = FALSE]
    /\ order' = <<n>>
    /\ under' = [under EXCEPT ![n] = {n}]
    /\ height' = [height EXCEPT ![n] = 1]
    /\ Return(Null)
    /\ UNCHANGED insert

Insert(n) ==
    /\ pc = "idle" /\ root /= Sentinel /\ n \notin Elements(order)
    /\ \E k \in 0..(M - 1) : key' = [key EXCEPT ![n] = k]
    /\ pc' = "descend" /\ node' = n /\ temp' = root
    /\ UNCHANGED <<root, insert, child, parent, red, order, under, height>>

\* Where ngx_rbtree_insert_value and ngx_rbtree_insert_timer_value go from temp.
Way == IF Before(key[node], key[temp]) THEN "left" ELSE "right"

Descend ==
    /\ pc = "descend" /\ child[Way][temp] /= Sentinel
    /\ temp' = child[Way][temp]
    /\ UNCHANGED <<root, insert, key, child, parent, red, pc, node, order, under, height>>

Attach ==
    /\ pc = "descend" /\ child[Way][temp] = Sentinel
    /\ child' = [s \in Sides |-> [child[s] EXCEPT ![node] = Sentinel,
                                    ![temp] = IF s = Way THEN node ELSE @]]
    /\ parent' = [parent EXCEPT ![node] = temp]
    /\ red' = [red EXCEPT ![node] = TRUE]
    /\ \E i \in DOMAIN order :
          order[i] = temp /\ order' = Inserted(order, IF Way = "left" THEN i - 1 ELSE i, node)
    /\ under' = [n \in Places |-> IF n = node THEN {node}
                                  ELSE IF temp \in under[n] THEN under[n] \cup {node}
                                  ELSE under[n]]
    /\ height' = [height EXCEPT ![node] = 1]
    /\ pc' = "rebalance" /\ temp' = Null
    /\ UNCHANGED <<root, insert, key, node>>

Grand == parent[parent[node]]
Uncle == child[Other(Side(parent[node]))][Grand]

\* "re-balance tree": two reds in a row.
Rebalance == pc = "rebalance" /\ node /= root /\ red[parent[node]]

Recolour ==
    /\ Rebalance /\ red[Uncle]
    /\ red' = [red EXCEPT ![parent[node]] = FALSE, ![Uncle] = FALSE, ![Grand] = TRUE]
    /\ height' = [height EXCEPT ![Grand] = @ + 1]
    /\ node' = Grand
    /\ UNCHANGED <<Shape, insert, pc, temp>>

\* An inner node changes places with its parent; what the loop tests stays as it was.
Straighten ==
    /\ Rebalance /\ ~red[Uncle] /\ Side(node) /= Side(parent[node])
    /\ Rotate(parent[node], Side(parent[node]))
    /\ node' = parent[node]
    /\ UNCHANGED <<insert, red, pc, temp, height>>

RotateUp ==
    /\ Rebalance /\ ~red[Uncle] /\ Side(node) = Side(parent[node])
    /\ red' = [red EXCEPT ![parent[node]] = FALSE, ![Grand] = TRUE]
    /\ Rotate(Grand, Other(Side(parent[node])))
    /\ UNCHANGED <<insert, pc, node, temp, height>>

Rebalanced ==
    /\ pc = "rebalance" /\ ~Rebalance
    /\ red' = [red EXCEPT ![root] = FALSE]
    /\ Return(Null)
    /\ UNCHANGED <<Shape, insert, height>>
-----------------------------------------------------------------------------
(* Walks. *)

Min ==
    /\ pc = "idle" /\ root /= Sentinel
    /\ pc' = "min" /\ node' = Null /\ temp' = root
    /\ UNCHANGED <<Shape, insert, red, height>>

ngx_rbtree_next(n) ==
    /\ pc = "idle" /\ n \in Elements(order)
    /\ node' = n
    /\ IF child["right"][n] /= Sentinel
       THEN pc' = "next" /\ temp' = child["right"][n]
       ELSE pc' = "climb" /\ temp' = n
    /\ UNCHANGED <<Shape, insert, red, height>>

\* The loop of ngx_rbtree_min, called by the user, by ngx_rbtree_next or by
\* ngx_rbtree_delete.
ngx_rbtree_min ==
    /\ pc \in {"min", "next", "subst"} /\ temp /= node
    /\ child["left"][temp] /= Sentinel
    /\ temp' = child["left"][temp]
    /\ UNCHANGED <<Shape, insert, red, pc, node, height>>

MinFound ==
    /\ pc \in {"min", "next"} /\ child["left"][temp] = Sentinel
    /\ Return(temp)
    /\ UNCHANGED <<Shape, insert, red, height>>

\* Mutant: the parent, whichever side it is met from.
ClimbOnce ==
    /\ pc = "climb"
    /\ IF temp = root THEN Return(Null) ELSE Return(parent[temp])
    /\ UNCHANGED <<Shape, insert, red, height>>

\* The loop of ngx_rbtree_next, up to the first ancestor met from the left.
Climb ==
    /\ pc = "climb"
    /\ IF temp = root THEN Return(Null)
       ELSE IF temp = child["left"][parent[temp]] THEN Return(parent[temp])
       ELSE temp' = parent[temp] /\ UNCHANGED <<pc, node>>
    /\ UNCHANGED <<Shape, insert, red, height>>
-----------------------------------------------------------------------------
(* Deletion. *)

\* The search for subst, which takes the place of a node with two children.
Delete(n) ==
    /\ pc = "idle" /\ n \in Elements(order)
    /\ pc' = "subst" /\ node' = n
    /\ temp' = IF Sentinel \in {child[s][n] : s \in Sides} THEN n ELSE child["right"][n]
    /\ UNCHANGED <<Shape, insert, red, height>>

\* What takes the place of subst.
Orphan == IF child["left"][temp] /= Sentinel THEN child["left"][temp]
          ELSE child["right"][temp]

\* c without what ngx_rbtree_delete clears.
Cleared(c) == [s \in Sides |-> [c[s] EXCEPT ![node] = Null]]

\* node leaves the tree; subst, if another, has its place.
Remove ==
    /\ key' = [key EXCEPT ![node] = 0]
    /\ order' = Without(order, node)
    /\ under' = [n \in Places |-> IF n = node THEN {}
                                  ELSE IF n = temp THEN under[node] \ {node}
                                  ELSE IF node \in under[n] THEN under[n] \ {node}
                                  ELSE under[n] \ {temp}]
    /\ height' = [height EXCEPT ![temp] = height[node], ![node] = 0]

DeleteRoot ==
    /\ pc = "subst" /\ temp = node /\ node = root
    /\ root' = Orphan
    /\ child' = Cleared(child)
    /\ parent' = [parent EXCEPT ![node] = Null]
    /\ red' = [red EXCEPT ![Orphan] = FALSE]
    /\ Remove
    /\ Return(Null)
    /\ UNCHANGED insert

\* The loop that follows the removal of a black node.
FixupAfter(gone) ==
    IF gone THEN Return(Null)
    ELSE pc' = "fixup" /\ temp' = Orphan /\ node' = Null

DeleteNode ==
    /\ pc = "subst" /\ temp = node /\ node /= root
    /\ child' = Cleared(ChildFor(node, Orphan))
    /\ parent' = [parent EXCEPT ![Orphan] = parent[node], ![node] = Null]
    /\ Remove
    /\ FixupAfter(red[node])
    /\ UNCHANGED <<root, insert, red>>

Substitute ==
    /\ pc = "subst" /\ temp /= node /\ child["left"][temp] = Sentinel
    /\ LET c == ChildFor(temp, Orphan)
           d == [s \in Sides |-> [c[s] EXCEPT ![temp] = c[s][node]]]
           e == IF node = root THEN d ELSE [d EXCEPT ![Side(node)][parent[node]] = temp]
           p == [parent EXCEPT ![Orphan] = IF parent[temp] = node THEN temp ELSE parent[temp],
                               ![temp] = parent[node]]
       IN  /\ child' = Cleared(e)
           /\ parent' = [n \in Places |->
                 IF n = node THEN Null
                 ELSE IF n \in {d[s][temp] : s \in Sides} \ {Sentinel} THEN temp
                 ELSE p[n]]
    /\ root' = RootFor(node, temp)
    /\ red' = [red EXCEPT ![temp] = red[node]]
    /\ Remove
    /\ FixupAfter(red[temp])
    /\ UNCHANGED insert

Near == Side(temp)
Far == Other(Near)
Sibling == child[Far][parent[temp]]

\* "a delete fixup": a black node is missing above temp.
Fixup == pc = "fixup" /\ temp /= root /\ ~red[temp]

\* The loop goes on as if the sibling had been black; what it tests stays as it was.
RotateSibling ==
    /\ Fixup /\ red[Sibling]
    /\ red' = [red EXCEPT ![Sibling] = FALSE, ![parent[temp]] = TRUE]
    /\ Rotate(parent[temp], Near)
    /\ UNCHANGED <<insert, pc, node, temp, height>>

Lighten ==
    /\ Fixup /\ ~red[Sibling] /\ \A s \in Sides : ~red[child[s][Sibling]]
    /\ red' = [red EXCEPT ![Sibling] = TRUE]
    /\ height' = [height EXCEPT ![parent[temp]] = @ - 1]
    /\ temp' = parent[temp]
    /\ UNCHANGED <<Shape, insert, pc, node>>

BringNephew ==
    /\ Fixup /\ ~red[Sibling] /\ red[child[Near][Sibling]] /\ ~red[child[Far][Sibling]]
    /\ red' = [red EXCEPT ![child[Near][Sibling]] = FALSE, ![Sibling] = TRUE]
    /\ Rotate(Sibling, Far)
    /\ UNCHANGED <<insert, pc, node, temp, height>>

\* Mutant: the far nephew keeps its colour.
SettleKeepsNephew ==
    /\ Fixup /\ ~red[Sibling] /\ red[child[Far][Sibling]]
    /\ red' = [red EXCEPT ![Sibling] = red[parent[temp]], ![parent[temp]] = FALSE]
    /\ Rotate(parent[temp], Near)
    /\ height' = [height EXCEPT ![Sibling] = @ + 1, ![parent[temp]] = @ - 1]
    /\ temp' = root'
    /\ UNCHANGED <<insert, pc, node>>

\* The sibling takes the place of the parent, and the loop is over.
Settle ==
    /\ Fixup /\ ~red[Sibling] /\ red[child[Far][Sibling]]
    /\ red' = [red EXCEPT ![Sibling] = red[parent[temp]], ![parent[temp]] = FALSE,
                          ![child[Far][Sibling]] = FALSE]
    /\ Rotate(parent[temp], Near)
    /\ height' = [height EXCEPT ![Sibling] = @ + 1, ![parent[temp]] = @ - 1]
    /\ temp' = root'
    /\ UNCHANGED <<insert, pc, node>>

FixedUp ==
    /\ pc = "fixup" /\ ~Fixup
    /\ red' = [red EXCEPT ![temp] = FALSE]
    /\ Return(Null)
    /\ UNCHANGED <<Shape, insert, height>>
-----------------------------------------------------------------------------
Next == \/ \E n \in Nodes : InsertRoot(n) \/ Insert(n) \/ Delete(n) \/ ngx_rbtree_next(n)
        \/ Descend \/ Attach
        \/ Recolour \/ Straighten \/ RotateUp \/ Rebalanced
        \/ Min \/ ngx_rbtree_min \/ MinFound \/ Climb
        \/ DeleteRoot \/ DeleteNode \/ Substitute
        \/ RotateSibling \/ Lighten \/ BringNephew \/ Settle \/ FixedUp

Spec == Init /\ [][Next]_vars
-----------------------------------------------------------------------------
(* Properties. *)

Tree == Elements(order)

TypeOK ==
    /\ root \in Places /\ insert \in {"value", "timer"}
    /\ key \in [Nodes -> 0..(M - 1)]
    /\ child \in [Sides -> [Nodes -> Places \cup {Null}]]
    /\ parent \in [Places -> Places \cup {Null}]
    /\ red \in [Places -> BOOLEAN]
    /\ pc \in {"idle", "descend", "rebalance", "min", "next", "climb", "subst", "fixup"}
    /\ node \in Nodes \cup {Null} /\ temp \in Places \cup {Null}
    /\ order \in Seq(Nodes)
    /\ under \in [Places -> SUBSET Nodes] /\ height \in [Places -> Nat]

\* Every node of the tree is where its parent says, and each but the root, whose
\* parent may be stale, has it as its parent.
Linked ==
    /\ \A n \in Tree, s \in Sides :
          /\ child[s][n] \in Tree \cup {Sentinel}
          /\ child[s][n] /= Sentinel => parent[child[s][n]] = n
    /\ \A n \in Tree \ {root} : parent[n] \in Tree /\ \E s \in Sides : child[s][parent[n]] = n

\* The subtrees are what under says: the whole tree below the root, and below
\* each node the node and two disjoint subtrees; they are nested like parents.
Nested ==
    /\ under[root] = Tree /\ under[Sentinel] = {} /\ (root = Sentinel \/ root \in Tree)
    /\ \A n \in Tree :
          /\ under[n] = {n} \cup under[child["left"][n]] \cup under[child["right"][n]]
          /\ \A s \in Sides : n \notin under[child[s][n]]
          /\ under[child["left"][n]] \cap under[child["right"][n]] = {}
    /\ \A n, m \in Tree : n \in under[m] => under[n] \subseteq under[m]
    /\ \A n \in Tree \ {root}, m \in Tree : n \in under[m] /\ n /= m => parent[n] \in under[m]

\* x is before y in the queue.
Earlier(x, y) == Ahead(order, x, y)

\* A node is between its two subtrees, and what is not below it is before or
\* behind all of them.
Ordered ==
    /\ Distinct(order)
    /\ \A n \in Tree : /\ \A x \in under[child["left"][n]] : Earlier(x, n)
                       /\ \A x \in under[child["right"][n]] : Earlier(n, x)
                       /\ \A x \in under[n], y \in Tree \ under[n] :
                             /\ Earlier(y, n) => Earlier(y, x)
                             /\ Earlier(n, y) => Earlier(x, y)

\* The black nodes on a path down from n, n included.
Rank(n) == height[n] + (IF red[n] THEN 0 ELSE 1)

\* The link that a deletion has left one black node short.
Short(n, s) == pc = "fixup" /\ temp /= root /\ n = parent[temp] /\ s = Near

\* After any sequence of inserts and deletes: root and sentinel are black, no
\* red node has a red child and all paths hold as many black nodes; in between,
\* exactly the loops' cursors are exempt (rbtree.c:45-91, 183-317).
RedBlack ==
    /\ red[root] => pc = "rebalance" /\ node = root
    /\ ~red[Sentinel] /\ height[Sentinel] = 0
    /\ \A n \in Tree, s \in Sides :
          /\ red[n] /\ red[child[s][n]] => \/ pc = "rebalance" /\ node = child[s][n]
                                           \/ pc = "fixup" /\ temp \in {n, child[s][n]}
          /\ height[n] = Rank(child[s][n]) + (IF Short(n, s) THEN 1 ELSE 0)

\* Keys are in order, if the order of keys is one.
Sound(k) ==
    IF insert = "value" THEN TRUE
    ELSE SmallRange(Keys(order, key) \cup {k}) /\ InOrder(order, key)

\* What the loop the program is in has reached.
Loops ==
    /\ pc = "descend" =>
          /\ node \in Nodes \ Tree /\ temp \in Tree
          /\ Sound(key[node]) => \A y \in Tree \ under[temp] :
                IF Before(key[node], key[y]) THEN Earlier(temp, y) ELSE Earlier(y, temp)
    /\ pc = "rebalance" => node \in Tree /\ red[node]
    /\ pc = "min" => node = Null /\ temp \in Tree /\ \A y \in Tree \ under[temp] : Earlier(temp, y)
    /\ pc \in {"next", "subst"} => node \in Tree
    /\ (pc = "next" \/ (pc = "subst" /\ temp /= node)) =>
          /\ temp \in under[child["right"][node]]
          /\ \A y \in under[child["right"][node]] \ under[temp] : Earlier(temp, y)
    /\ pc = "subst" => (temp = node <=> \E s \in Sides : child[s][node] = Sentinel)
    /\ pc = "climb" => /\ temp \in Tree /\ node \in under[temp]
                       /\ \A x \in under[temp] : x = node \/ Earlier(x, node)
    /\ pc = "fixup" =>
          /\ temp \in Tree \cup {Sentinel} /\ node = Null
          /\ temp /= root => parent[temp] \in Tree /\ \E s \in Sides : child[s][parent[temp]] = temp

\* The queue is in order where keys are plain numbers.
Sorted == insert = "value" => \A i, j \in DOMAIN order : i < j => key[order[i]] <= key[order[j]]

RBInv == TypeOK /\ Linked /\ Nested /\ Ordered /\ Sorted /\ RedBlack /\ Loops

\* The tree is a queue: in key order, equal keys first come first served, nothing
\* lost or doubled by a rotation (rbtree.c:23-407).
Queue == INSTANCE TimerQueue WITH
            queue <- order, key <- [n \in Nodes |-> IF n \in Tree THEN key[n] ELSE 0]
IsQueue == Queue!Spec

\* ngx_rbtree_min returns the first of the queue and ngx_rbtree_next the one
\* behind, or NULL (rbtree.c:381-407, rbtree.h:74-82).
WalksQueue ==
    [][pc' = "idle" =>
        /\ pc = "min" => temp' = order[1]
        /\ pc \in {"next", "climb"} => \E i \in DOMAIN order :
              order[i] = node /\ temp' = IF i = Len(order) THEN Null ELSE order[i + 1]]_vars
=============================================================================
