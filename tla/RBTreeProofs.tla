---------------------------- MODULE RBTreeProofs ----------------------------
(***************************************************************************)
(* Proofs about RBTree, for trees of any size: after every step of every   *)
(* loop the tree is a red-black tree but for the places the loop has still *)
(* to mend, and it is a queue.                                             *)
(***************************************************************************)
EXTENDS RBTree, DataTheorems

LEMMA SidesFacts ==
    ASSUME NEW s \in Sides
    PROVE  /\ Other(s) \in Sides /\ Other(s) /= s /\ Other(Other(s)) = s
           /\ \A d \in Sides : d = s \/ d = Other(s)
           /\ "left" \in Sides /\ "right" \in Sides
  BY DEF Sides, Other

LEMMA Constants == Sentinel \notin Nodes /\ Null \notin Nodes /\ Null /= Sentinel
  BY PointerAssumption

Core == TypeOK /\ Linked /\ Nested

\* A subtree, and the two below it.
LEMMA UnderFacts ==
    ASSUME Core
    PROVE  /\ Tree \subseteq Nodes /\ Sentinel \notin Tree /\ under[Sentinel] = {}
           /\ under[root] = Tree /\ (Tree /= {} => root \in Tree)
           /\ \A n \in Tree : n \in under[n] /\ under[n] \subseteq Tree
           /\ \A n \in Tree, s \in Sides :
                /\ child[s][n] \in Tree \cup {Sentinel}
                /\ under[n] = {n} \cup under[child[s][n]] \cup under[child[Other(s)][n]]
                /\ n \notin under[child[s][n]]
                /\ under[child[s][n]] \cap under[child[Other(s)][n]] = {}
           /\ \A n, m \in Tree : n \in under[m] => under[n] \subseteq under[m]
  <1>1. Tree \subseteq Nodes /\ Sentinel \notin Tree
    BY Constants DEF Core, TypeOK, Tree, Elements
  <1>2. /\ under[Sentinel] = {} /\ under[root] = Tree
        /\ \A n \in Tree :
              /\ under[n] = {n} \cup under[child["left"][n]] \cup under[child["right"][n]]
              /\ \A s \in Sides : n \notin under[child[s][n]]
              /\ under[child["left"][n]] \cap under[child["right"][n]] = {}
        /\ \A n, m \in Tree : n \in under[m] => under[n] \subseteq under[m]
        /\ root = Sentinel \/ root \in Tree
    BY Zenon DEF Core, Nested
  <1>3. Tree /= {} => root \in Tree
    BY <1>2
  <1>4. \A n \in Tree : n \in under[n] /\ under[n] \subseteq Tree
    <2> SUFFICES ASSUME NEW n \in Tree PROVE n \in under[n] /\ under[n] \subseteq Tree
      OBVIOUS
    <2>1. n \in under[n]
      BY <1>2
    <2>2. root \in Tree /\ n \in under[root]
      BY <1>2, <1>3
    <2> QED BY <1>2, <2>1, <2>2
  <1>5. \A n \in Tree, s \in Sides : child[s][n] \in Tree \cup {Sentinel}
    BY Zenon DEF Core, Linked
  <1>6. ASSUME NEW n \in Tree, NEW s \in Sides
        PROVE  /\ under[n] = {n} \cup under[child[s][n]] \cup under[child[Other(s)][n]]
               /\ n \notin under[child[s][n]]
               /\ under[child[s][n]] \cap under[child[Other(s)][n]] = {}
    <2>1. CASE s = "left"
      BY <1>2, <2>1 DEF Other
    <2>2. CASE s = "right"
      BY <1>2, <2>2 DEF Other
    <2> QED BY <2>1, <2>2 DEF Sides
  <1> QED BY <1>1, <1>2, <1>3, <1>4, <1>5, <1>6, Zenon

\* No two nodes are below each other.
LEMMA OneAbove ==
    ASSUME Core, NEW x \in Tree, NEW y \in Tree, x \in under[y], y \in under[x]
    PROVE  x = y
  <1> SUFFICES ASSUME x /= y PROVE FALSE
    OBVIOUS
  <1>1. PICK s \in Sides : x \in under[child[s][y]]
    <2>1. "left" \in Sides /\ Other("left") \in Sides
      BY DEF Sides, Other
    <2>2. under[y] = {y} \cup under[child["left"][y]] \cup under[child[Other("left")][y]]
      BY <2>1, UnderFacts, Zenon
    <2> QED BY <2>1, <2>2
  <1>2. child[s][y] \in Tree
    BY <1>1, UnderFacts
  <1>3. under[x] \subseteq under[child[s][y]] /\ y \notin under[child[s][y]]
    BY <1>1, <1>2, UnderFacts, Zenon
  <1> QED BY <1>3

\* Who has a node as its child.
LEMMA OneParent ==
    ASSUME Core, NEW n \in Tree, NEW s \in Sides, child[s][n] /= Sentinel
    PROVE  /\ child[s][n] \in Tree /\ child[s][n] /= root /\ child[s][n] /= n
           /\ child[s][n] \in under[n] /\ child[s][n] \in under[child[s][n]]
           /\ parent[child[s][n]] = n /\ Side(child[s][n]) = s
           /\ \A d \in Sides : child[d][n] = child[s][n] => d = s
  <1> DEFINE c == child[s][n]
             e == child[Other(s)][n]
  <1>1. c \in Tree /\ parent[c] = n
    BY UnderFacts, Zenon DEF Core, Linked
  <1>2. /\ under[n] = {n} \cup under[c] \cup under[e] /\ n \notin under[c]
        /\ under[c] \cap under[e] = {} /\ c \in under[c] /\ under[root] = Tree
    BY <1>1, UnderFacts, Zenon
  <1>3. c /= n /\ c /= e /\ c /= root /\ c \in under[n]
    BY <1>1, <1>2
  <1>4. \A d \in Sides : child[d][n] = c => d = s
    BY <1>3, SidesFacts, Zenon
  <1>5. Side(c) = s
    BY <1>1, <1>4 DEF Side, Sides
  <1> QED BY <1>1, <1>2, <1>3, <1>4, <1>5, Zenon

\* A node that is not the root is on its parent's side.
LEMMA ParentFacts ==
    ASSUME Core, NEW n \in Tree, n /= root
    PROVE  /\ parent[n] \in Tree /\ Side(n) \in Sides /\ child[Side(n)][parent[n]] = n
           /\ parent[n] /= n /\ parent[n] \notin under[n] /\ n \in under[parent[n]]
           /\ \A x \in Tree, d \in Sides : child[d][x] = n => x = parent[n] /\ d = Side(n)
  <1>1. PICK s \in Sides : parent[n] \in Tree /\ child[s][parent[n]] = n
    BY Zenon DEF Core, Linked
  <1>2. n /= Sentinel
    BY UnderFacts
  <1>3. ASSUME NEW x \in Tree, NEW d \in Sides, child[d][x] = n
        PROVE  parent[n] = x /\ Side(n) = d /\ x /= n /\ n \in under[x]
    <2>1. child[d][x] /= Sentinel
      BY <1>2, <1>3
    <2>2. parent[child[d][x]] = x /\ Side(child[d][x]) = d /\ child[d][x] /= x /\ child[d][x] \in under[x]
      BY <2>1, OneParent
    <2> QED BY <1>3, <2>2
  <1>4. Side(n) = s /\ parent[n] /= n /\ n \in under[parent[n]]
    BY <1>1, <1>3, Zenon
  <1>5. parent[n] \notin under[n]
    BY <1>1, <1>4, OneAbove, Zenon
  <1> QED BY <1>1, <1>3, <1>4, <1>5, Zenon

-----------------------------------------------------------------------------
(* Rotations. *)

LEMMA ChildSet ==
    ASSUME NEW V, NEW c \in [Sides -> [Nodes -> V]], NEW s \in Sides, NEW n \in Nodes, NEW v \in V,
           NEW e, e = [c EXCEPT ![s][n] = v]
    PROVE  /\ e \in [Sides -> [Nodes -> V]]
           /\ \A d \in Sides, x \in Nodes : e[d][x] = IF d = s /\ x = n THEN v ELSE c[d][x]
  OBVIOUS

\* What a rotation is about: n, its children a and m, and those of m, i and b.
Corner(n, s, a, m, i, b) ==
    /\ n \in Tree /\ s \in Sides
    /\ a = child[s][n] /\ m = child[Other(s)][n] /\ m /= Sentinel
    /\ i = child[s][m] /\ b = child[Other(s)][m]

LEMMA CornerFacts ==
    ASSUME Core, NEW n, NEW s, NEW a, NEW m, NEW i, NEW b, Corner(n, s, a, m, i, b)
    PROVE  /\ n \in Tree /\ m \in Tree /\ n /= m /\ parent[m] = n /\ m /= root
           /\ {a, i, b} \subseteq Tree \cup {Sentinel} /\ n \notin {a, i, b} /\ m \notin {a, i, b}
           /\ under[n] = {n} \cup under[a] \cup under[m] /\ n \notin under[a] \cup under[m]
           /\ under[m] = {m} \cup under[i] \cup under[b] /\ m \notin under[a] \cup under[i] \cup under[b]
           /\ under[a] \cap under[m] = {} /\ under[i] \cap under[b] = {}
           /\ \A x \in {a, i, b} \ {Sentinel} : x \in under[x] /\ x /= root
           /\ (i /= Sentinel => i /= a /\ i /= b) /\ (a /= Sentinel => a /= b)
           /\ n /= root => parent[n] \in Tree \ under[n]
  <1>1. Other(s) \in Sides /\ Other(Other(s)) = s /\ s \in Sides /\ n \in Tree
    BY SidesFacts DEF Corner
  <1>2. a = child[s][n] /\ m = child[Other(s)][n] /\ m /= Sentinel /\ i = child[s][m] /\ b = child[Other(s)][m]
    BY DEF Corner
  <1>3. m \in Tree /\ m /= root /\ m /= n /\ parent[m] = n /\ m \in under[m]
    BY <1>1, <1>2, OneParent, Zenon
  <1>4. /\ {a, i, b} \subseteq Tree \cup {Sentinel}
        /\ under[n] = {n} \cup under[a] \cup under[m] /\ n \notin under[a] /\ n \notin under[m]
        /\ under[m] = {m} \cup under[i] \cup under[b] /\ m \notin under[i] /\ m \notin under[b]
        /\ under[a] \cap under[m] = {} /\ under[i] \cap under[b] = {}
    <2>1. a \in Tree \cup {Sentinel} /\ i \in Tree \cup {Sentinel} /\ b \in Tree \cup {Sentinel}
      BY <1>1, <1>2, <1>3, UnderFacts, Zenon
    <2>2. /\ under[n] = {n} \cup under[a] \cup under[m] /\ n \notin under[a] /\ n \notin under[m]
          /\ under[a] \cap under[m] = {}
      BY <1>1, <1>2, UnderFacts, Zenon
    <2>3. /\ under[m] = {m} \cup under[i] \cup under[b] /\ m \notin under[i] /\ m \notin under[b]
          /\ under[i] \cap under[b] = {}
      BY <1>1, <1>2, <1>3, UnderFacts, Zenon
    <2> QED BY <2>1, <2>2, <2>3
  <1>5. m \notin under[a]
    BY <1>3, <1>4
  <1>6. \A x \in {a, i, b} \ {Sentinel} : x \in under[x] /\ x /= root
    <2>1. a /= Sentinel => a /= root
      BY <1>1, <1>2, OneParent, Zenon
    <2>2. i /= Sentinel => i /= root
      BY <1>1, <1>2, <1>3, OneParent, Zenon
    <2>3. b /= Sentinel => b /= root
      BY <1>1, <1>2, <1>3, OneParent, Zenon
    <2> QED BY <1>4, <2>1, <2>2, <2>3, UnderFacts
  <1>7. n /= Sentinel /\ n /= root => parent[n] \in Tree \ under[n]
    BY <1>1, ParentFacts
  <1>8. n \notin {a, i, b} /\ m \notin {a, i, b}
    BY <1>1, <1>3, <1>4, <1>5, <1>6, UnderFacts
  <1>9. (i /= Sentinel => i /= a /\ i /= b) /\ (a /= Sentinel => a /= b)
    BY <1>4, <1>6
  <1>10. n /= Sentinel
    BY <1>1, UnderFacts
  <1> QED BY <1>1, <1>3, <1>4, <1>5, <1>6, <1>7, <1>8, <1>9, <1>10

\* What a rotation does to every pointer and every subtree.
LEMMA RotateFacts ==
    ASSUME Core, NEW n, NEW s, NEW a, NEW m, NEW i, NEW b, Corner(n, s, a, m, i, b), Rotate(n, s)
    PROVE  /\ Tree' = Tree /\ order' = order /\ key' = key
           /\ root' = IF n = root THEN m ELSE root
           /\ child'[s][n] = a /\ child'[Other(s)][n] = i
           /\ child'[s][m] = n /\ child'[Other(s)][m] = b
           /\ \A x \in Tree \ {n, m}, d \in Sides :
                child'[d][x] = IF child[d][x] = n THEN m ELSE child[d][x]
           /\ \A x \in Tree \ {n}, d \in Sides : child[d][x] /= m
           /\ parent'[m] = parent[n] /\ parent'[n] = m /\ (i /= Sentinel => parent'[i] = n)
           /\ \A x \in Places \ {n, m, i} : parent'[x] = parent[x]
           /\ parent'[Sentinel] = parent[Sentinel]
           /\ under'[m] = under[n] /\ under'[n] = {n} \cup under[a] \cup under[i]
           /\ \A x \in Places \ {n, m} : under'[x] = under[x]
           /\ root' \in Places /\ child' \in [Sides -> [Nodes -> Places \cup {Null}]]
           /\ parent' \in [Places -> Places \cup {Null}] /\ under' \in [Places -> SUBSET Nodes]
  <1> DEFINE o == Other(s)
             e == Side(n)
             p == parent[n]
             c == ChildFor(n, m)
             up == [parent EXCEPT ![m] = p, ![n] = m]
  <1>1. /\ child \in [Sides -> [Nodes -> Places \cup {Null}]] /\ parent \in [Places -> Places \cup {Null}]
        /\ under \in [Places -> SUBSET Nodes] /\ root \in Places /\ Tree \subseteq Nodes
        /\ Sentinel \notin Nodes /\ Nodes \subseteq Places /\ Sentinel \in Places
    BY UnderFacts, Constants DEF Core, TypeOK, Places
  <1>2. s \in Sides /\ o \in Sides /\ o /= s /\ \A d \in Sides : d = s \/ d = o
    BY SidesFacts DEF Corner
  <1>3. a = child[s][n] /\ m = child[o][n] /\ m /= Sentinel /\ i = child[s][m] /\ b = child[o][m]
    BY DEF Corner
  <1>4. /\ n \in Tree /\ m \in Tree /\ n /= m /\ n \notin {a, i, b} /\ m \notin {a, i, b}
        /\ n /= root => p \in Tree /\ p /= n /\ p /= m
        /\ {a, i, b} \subseteq Tree \cup {Sentinel}
    <2>1. n \in under[n] /\ m \in under[n]
      BY CornerFacts, UnderFacts
    <2> QED BY <2>1, CornerFacts
  <1>5. /\ root' = IF n = root THEN m ELSE root
        /\ child' = [c EXCEPT ![o][n] = i, ![s][m] = n]
        /\ parent' = IF i = Sentinel THEN up ELSE [up EXCEPT ![i] = n]
        /\ under' = [under EXCEPT ![n] = {n} \cup under[a] \cup under[i], ![m] = under[n]]
        /\ key' = key /\ order' = order
    BY <1>3, Zenon DEF Rotate, RootFor
  <1>6. n /= root => e \in Sides /\ \A x \in Tree, d \in Sides : child[d][x] = n <=> x = p /\ d = e
    BY <1>4, ParentFacts
  <1>7. n = root => \A x \in Tree, d \in Sides : child[d][x] /= n
    <2>1. n /= Sentinel
      BY <1>1, <1>4
    <2> QED BY <2>1, OneParent
  <1>8. \A x \in Tree \ {n}, d \in Sides : child[d][x] /= m
    <2>1. m /= root /\ parent[m] = n
      BY CornerFacts
    <2> QED BY <1>4, <2>1, ParentFacts
  <1>9. /\ c \in [Sides -> [Nodes -> Places \cup {Null}]]
        /\ \A x \in Tree, d \in Sides : c[d][x] = IF child[d][x] = n THEN m ELSE child[d][x]
    <2>1. CASE n = root
      BY <1>1, <1>7, <2>1 DEF ChildFor
    <2>2. CASE n /= root
      <3>1. c = [child EXCEPT ![e][p] = m]
        BY <2>2 DEF ChildFor
      <3>2. e \in Sides /\ p \in Nodes /\ m \in Places
        BY <1>1, <1>4, <1>6, <2>2
      <3> HIDE DEF c, e, p
      <3>3. c \in [Sides -> [Nodes -> Places \cup {Null}]]
        BY <1>1, <3>1, <3>2
      <3>4. \A x \in Tree, d \in Sides : c[d][x] = IF x = p /\ d = e THEN m ELSE child[d][x]
        BY <1>1, <3>1, <3>2
      <3> QED BY <1>6, <2>2, <3>3, <3>4
    <2> QED BY <2>1, <2>2
  <1> HIDE DEF o, c, e, p
  <1>10. /\ child' \in [Sides -> [Nodes -> Places \cup {Null}]]
         /\ \A x \in Tree, d \in Sides :
              child'[d][x] = IF d = s /\ x = m THEN n ELSE IF d = o /\ x = n THEN i ELSE c[d][x]
    <2> DEFINE d1 == [c EXCEPT ![o][n] = i]
    <2>1. m \in Nodes /\ n \in Nodes /\ i \in Places \cup {Null} /\ n \in Places \cup {Null}
      BY <1>1, <1>4
    <2>2. /\ d1 \in [Sides -> [Nodes -> Places \cup {Null}]]
          /\ \A d \in Sides, x \in Nodes : d1[d][x] = IF d = o /\ x = n THEN i ELSE c[d][x]
      BY <1>2, <1>9, <2>1, ChildSet
    <2>3. child' = [d1 EXCEPT ![s][m] = n]
      BY <1>5
    <2> HIDE DEF d1
    <2>4. /\ child' \in [Sides -> [Nodes -> Places \cup {Null}]]
          /\ \A d \in Sides, x \in Nodes : child'[d][x] = IF d = s /\ x = m THEN n ELSE d1[d][x]
      BY <1>2, <2>1, <2>2, <2>3, ChildSet
    <2> QED BY <1>1, <2>2, <2>4
  <1>11. /\ child'[s][n] = a /\ child'[o][n] = i /\ child'[s][m] = n /\ child'[o][m] = b
         /\ \A x \in Tree \ {n, m}, d \in Sides :
                child'[d][x] = IF child[d][x] = n THEN m ELSE child[d][x]
    BY <1>2, <1>3, <1>4, <1>9, <1>10
  <1>12. /\ parent' \in [Places -> Places \cup {Null}]
         /\ parent'[m] = p /\ parent'[n] = m /\ (i /= Sentinel => parent'[i] = n)
         /\ \A x \in Places \ {n, m, i} : parent'[x] = parent[x]
         /\ parent'[Sentinel] = parent[Sentinel]
    <2>1. m \in Places /\ n \in Places /\ p \in Places \cup {Null} /\ i \in Places /\ n /= Sentinel /\ n /= i /\ m /= i /\ n /= m
      BY <1>1, <1>4 DEF p
    <2> QED BY <1>1, <1>3, <1>5, <2>1
  <1>13. /\ under' \in [Places -> SUBSET Nodes]
         /\ under'[m] = under[n] /\ under'[n] = {n} \cup under[a] \cup under[i]
         /\ \A x \in Places \ {n, m} : under'[x] = under[x]
    <2>1. m \in Places /\ n \in Places /\ a \in Places /\ i \in Places /\ n \in Nodes
      BY <1>1, <1>4
    <2>2. under[n] \in SUBSET Nodes /\ {n} \cup under[a] \cup under[i] \in SUBSET Nodes
      BY <1>1, <2>1
    <2> QED BY <1>1, <1>4, <1>5, <2>1, <2>2
  <1>14. Tree' = Tree
    BY <1>5 DEF Tree
  <1>15. root' \in Places
    BY <1>1, <1>4, <1>5
  <1>16. child'[Other(s)][n] = i /\ child'[Other(s)][m] = b /\ parent'[m] = parent[n]
    BY <1>11, <1>12, Zenon DEF o, p
  <1>17. root' = (IF n = root THEN m ELSE root) /\ order' = order /\ key' = key
    BY <1>5
  <1> HIDE DEF Core, Corner, Rotate
  <1>18. /\ Tree' = Tree /\ order' = order /\ key' = key
         /\ root' = IF n = root THEN m ELSE root
         /\ child'[s][n] = a /\ child'[Other(s)][n] = i
         /\ child'[s][m] = n /\ child'[Other(s)][m] = b
    BY <1>11, <1>14, <1>16, <1>17
  <1>19. /\ \A x \in Tree \ {n, m}, d \in Sides :
                child'[d][x] = IF child[d][x] = n THEN m ELSE child[d][x]
         /\ \A x \in Tree \ {n}, d \in Sides : child[d][x] /= m
    BY <1>8, <1>11
  <1>20. /\ parent'[m] = parent[n] /\ parent'[n] = m /\ (i /= Sentinel => parent'[i] = n)
         /\ \A x \in Places \ {n, m, i} : parent'[x] = parent[x]
         /\ parent'[Sentinel] = parent[Sentinel]
    BY <1>12, <1>16
  <1>21. /\ root' \in Places /\ child' \in [Sides -> [Nodes -> Places \cup {Null}]]
         /\ parent' \in [Places -> Places \cup {Null}] /\ under' \in [Places -> SUBSET Nodes]
    BY <1>10, <1>12, <1>13, <1>15
  <1> QED BY <1>13, <1>18, <1>19, <1>20, <1>21

LEMMA RotateLinked ==
    ASSUME Core, NEW n, NEW s, NEW a, NEW m, NEW i, NEW b, Corner(n, s, a, m, i, b), Rotate(n, s)
    PROVE  Linked'
  <1> DEFINE o == Other(s)
  <1>1. s \in Sides /\ o \in Sides /\ \A d \in Sides : d = s \/ d = o
    BY SidesFacts DEF Corner
  <1>2. a = child[s][n] /\ m = child[o][n] /\ m /= Sentinel /\ i = child[s][m] /\ b = child[o][m]
    BY DEF Corner
  <1>3. /\ n \in Tree /\ m \in Tree /\ n /= m /\ {a, i, b} \subseteq Tree \cup {Sentinel}
        /\ n \notin {a, i, b} /\ m \notin {a, i, b}
        /\ (i /= Sentinel => i /= a /\ i /= b)
        /\ n /= root => parent[n] \in Tree \ {n, m}
    <2>1. n \in under[n] /\ m \in under[n]
      BY CornerFacts, UnderFacts
    <2> QED BY <2>1, CornerFacts
  <1>4. Tree \subseteq Places /\ Sentinel \notin Tree /\ Sentinel \in Places
    BY UnderFacts DEF Places
  <1>5. \A x \in Tree, d \in Sides : /\ child[d][x] \in Tree \cup {Sentinel}
                                     /\ child[d][x] /= Sentinel => parent[child[d][x]] = x
    BY Zenon DEF Core, Linked
  <1>6. \A x \in Tree \ {root} : parent[x] \in Tree /\ \E d \in Sides : child[d][parent[x]] = x
    BY Zenon DEF Core, Linked
  <1>7. /\ Tree' = Tree /\ root' = IF n = root THEN m ELSE root
        /\ child'[s][n] = a /\ child'[o][n] = i /\ child'[s][m] = n /\ child'[o][m] = b
        /\ parent'[m] = parent[n] /\ parent'[n] = m /\ (i /= Sentinel => parent'[i] = n)
        /\ \A x \in Tree \ {n, m, i} : parent'[x] = parent[x]
    BY <1>4, RotateFacts
  <1>8. /\ \A x \in Tree \ {n, m}, d \in Sides :
              child'[d][x] = IF child[d][x] = n THEN m ELSE child[d][x]
        /\ \A x \in Tree \ {n}, d \in Sides : child[d][x] /= m
    BY RotateFacts
  <1> HIDE DEF o
  <1>9. ASSUME NEW x \in Tree, NEW d \in Sides
        PROVE  /\ child'[d][x] \in Tree \cup {Sentinel}
               /\ child'[d][x] /= Sentinel => parent'[child'[d][x]] = x
    <2>1. CASE x = n
      BY <1>1, <1>2, <1>3, <1>5, <1>7, <2>1
    <2>2. CASE x = m
      BY <1>1, <1>2, <1>3, <1>5, <1>7, <2>2
    <2>3. CASE x \notin {n, m} /\ child[d][x] = n
      <3>1. child'[d][x] = m /\ parent[n] = x
        BY <1>3, <1>4, <1>5, <1>8, <2>3
      <3> QED BY <1>3, <1>7, <3>1
    <2>4. CASE x \notin {n, m} /\ child[d][x] /= n
      <3>1. child'[d][x] = child[d][x] /\ child[d][x] /= m
        BY <1>8, <2>4
      <3>2. i /= Sentinel => parent[i] = m
        BY <1>1, <1>2, <1>3, <1>5
      <3> QED BY <1>5, <1>7, <2>4, <3>1, <3>2
    <2> QED BY <2>1, <2>2, <2>3, <2>4
  <1>10. ASSUME NEW x \in Tree, x /= root'
         PROVE  parent'[x] \in Tree /\ \E d \in Sides : child'[d][parent'[x]] = x
    <2>1. CASE x = n
      BY <1>1, <1>3, <1>7, <2>1
    <2>2. CASE x = m
      <3>1. n /= root
        BY <1>7, <1>10, <2>2
      <3>2. PICK d \in Sides : child[d][parent[n]] = n
        BY <1>3, <1>6, <3>1
      <3>3. parent[n] \in Tree \ {n, m}
        BY <1>3, <3>1
      <3> QED BY <1>7, <1>8, <2>2, <3>2, <3>3
    <2>3. CASE x = i
      BY <1>1, <1>3, <1>4, <1>7, <2>3
    <2>4. CASE x \notin {n, m, i}
      <3>1. x /= root
        BY <1>7, <1>10, <2>4
      <3>2. parent'[x] = parent[x] /\ parent[x] \in Tree
        BY <1>6, <1>7, <2>4, <3>1
      <3>3. PICK d \in Sides : child[d][parent[x]] = x
        BY <1>6, <3>1
      <3>4. CASE parent[x] = n
        BY <1>1, <1>2, <1>7, <2>4, <3>2, <3>3, <3>4
      <3>5. CASE parent[x] = m
        BY <1>1, <1>2, <1>7, <2>4, <3>2, <3>3, <3>5
      <3>6. CASE parent[x] \notin {n, m}
        BY <1>8, <2>4, <3>2, <3>3, <3>6
      <3> QED BY <3>4, <3>5, <3>6
    <2> QED BY <2>1, <2>2, <2>3, <2>4
  <1> QED BY <1>7, <1>9, <1>10 DEF Linked

LEMMA RotateNested ==
    ASSUME Core, NEW n, NEW s, NEW a, NEW m, NEW i, NEW b, Corner(n, s, a, m, i, b), Rotate(n, s)
    PROVE  Nested'
  <1> DEFINE o == Other(s)
             l(x) == child["left"][x]
             r(x) == child["right"][x]
  <1>1. s \in Sides /\ o \in Sides /\ \A d \in Sides : d = s \/ d = o
    BY SidesFacts DEF Corner
  <1>2. a = child[s][n] /\ m = child[o][n] /\ m /= Sentinel /\ i = child[s][m] /\ b = child[o][m]
    BY DEF Corner
  <1>3. /\ n \in Tree /\ m \in Tree /\ n /= m /\ {a, i, b} \subseteq Tree \cup {Sentinel}
        /\ n \notin {a, i, b} /\ m \notin {a, i, b} /\ m /= root
        /\ under[n] = {n} \cup under[a] \cup under[m] /\ n \notin under[a] \cup under[m]
        /\ under[m] = {m} \cup under[i] \cup under[b] /\ m \notin under[a] \cup under[i] \cup under[b]
        /\ under[a] \cap under[m] = {} /\ under[i] \cap under[b] = {}
        /\ parent[m] = n
        /\ n /= root => parent[n] \in Tree \ under[n]
    BY CornerFacts
  <1>4. Tree \subseteq Places /\ Sentinel \notin Tree /\ Sentinel \in Places
    BY UnderFacts DEF Places
  <1>5. /\ Tree' = Tree /\ root' = IF n = root THEN m ELSE root
        /\ child'[s][n] = a /\ child'[o][n] = i /\ child'[s][m] = n /\ child'[o][m] = b
        /\ parent'[m] = parent[n] /\ parent'[n] = m /\ (i /= Sentinel => parent'[i] = n)
        /\ \A x \in Tree \ {n, m, i} : parent'[x] = parent[x]
        /\ under'[m] = under[n] /\ under'[n] = {n} \cup under[a] \cup under[i]
        /\ \A x \in (Tree \cup {Sentinel}) \ {n, m} : under'[x] = under[x]
    BY <1>4, RotateFacts
  <1>6. /\ \A x \in Tree \ {n, m}, d \in Sides :
              child'[d][x] = IF child[d][x] = n THEN m ELSE child[d][x]
        /\ \A x \in Tree \ {n}, d \in Sides : child[d][x] /= m
    BY RotateFacts
  <1>7. /\ under[Sentinel] = {} /\ under[root] = Tree /\ root \in Tree
        /\ \A x \in Tree : x \in under[x]
        /\ \A x, y \in Tree : x \in under[y] => under[x] \subseteq under[y]
        /\ \A x \in Tree, d \in Sides : child[d][x] \in Tree \cup {Sentinel}
    BY <1>3, UnderFacts
  <1>8. \A x \in Tree \ {root}, y \in Tree : x \in under[y] /\ x /= y => parent[x] \in under[y]
    BY Zenon DEF Core, Nested
  <1>9. /\ under'[a] = under[a] /\ under'[i] = under[i] /\ under'[b] = under[b]
        /\ under'[Sentinel] = {}
    BY <1>3, <1>4, <1>5, <1>7
  <1>10. \A x \in Tree \ {n, m}, d \in Sides : under'[child'[d][x]] = under[child[d][x]]
    <2> SUFFICES ASSUME NEW x \in Tree \ {n, m}, NEW d \in Sides
                 PROVE  under'[child'[d][x]] = under[child[d][x]]
      OBVIOUS
    <2>1. CASE child[d][x] = n
      BY <1>5, <1>6, <2>1
    <2>2. CASE child[d][x] /= n
      BY <1>5, <1>6, <1>7, <2>2
    <2> QED BY <2>1, <2>2
  <1>11. ASSUME NEW x \in Tree, NEW d \in Sides
         PROVE  /\ under'[x] = {x} \cup under'[child'[d][x]] \cup under'[child'[Other(d)][x]]
                /\ x \notin under'[child'[d][x]]
                /\ under'[child'[d][x]] \cap under'[child'[Other(d)][x]] = {}
    <2>1. Other(d) \in Sides /\ Other(o) = s /\ (d = s => Other(d) = o) /\ (d = o => Other(d) = s)
      BY <1>1, SidesFacts
    <2> HIDE DEF o
    <2>2. CASE x = n
      <3>1. /\ under'[n] = {n} \cup under'[a] \cup under'[i] /\ n \notin under'[a] /\ n \notin under'[i]
            /\ under'[a] \cap under'[i] = {}
        BY <1>3, <1>5, <1>9
      <3> QED BY <1>1, <1>5, <2>1, <2>2, <3>1
    <2>3. CASE x = m
      <3>1. /\ under'[m] = {m} \cup under'[n] \cup under'[b] /\ m \notin under'[n] /\ m \notin under'[b]
            /\ under'[n] \cap under'[b] = {}
        BY <1>3, <1>5, <1>9
      <3> QED BY <1>1, <1>5, <2>1, <2>3, <3>1
    <2>4. CASE x \notin {n, m}
      <3>1. /\ under[x] = {x} \cup under[child[d][x]] \cup under[child[Other(d)][x]]
            /\ x \notin under[child[d][x]]
            /\ under[child[d][x]] \cap under[child[Other(d)][x]] = {}
        BY UnderFacts, Zenon
      <3>2. under'[x] = under[x]
        BY <1>5, <2>4
      <3>3. under'[child'[d][x]] = under[child[d][x]] /\ under'[child'[Other(d)][x]] = under[child[Other(d)][x]]
        BY <1>10, <2>1, <2>4
      <3> QED BY <3>1, <3>2, <3>3, Zenon
    <2> QED BY <2>2, <2>3, <2>4
  <1>12. under'[root'] = Tree /\ root' \in Tree
    BY <1>3, <1>5, <1>7
  <1>13. \A x, y \in Tree : x \in under'[y] => under'[x] \subseteq under'[y]
    <2> SUFFICES ASSUME NEW x \in Tree, NEW y \in Tree, x \in under'[y]
                 PROVE  under'[x] \subseteq under'[y]
      OBVIOUS
    <2>1. under'[n] \subseteq under[n] /\ under'[m] = under[n]
      BY <1>3, <1>5
    <2>2. \A z \in Tree : z \notin {n, m} => under'[z] = under[z]
      BY <1>5
    <2>3. CASE y = n
      <3>1. CASE x = n
        BY <2>3, <3>1
      <3>2. CASE x /= n
        <4>1. (x \in under[a] /\ a \in Tree) \/ (x \in under[i] /\ i \in Tree)
          BY <1>3, <1>5, <1>7, <2>3, <3>2
        <4>2. x /= m
          BY <1>3, <4>1
        <4>3. under[x] \subseteq under[a] \/ under[x] \subseteq under[i]
          BY <1>7, <4>1
        <4> QED BY <1>5, <2>2, <2>3, <3>2, <4>2, <4>3
      <3> QED BY <3>1, <3>2
    <2>4. CASE y = m
      <3>1. x \in under[n]
        BY <2>1, <2>4
      <3>2. under[x] \subseteq under[n]
        BY <1>3, <1>7, <3>1
      <3> QED BY <2>1, <2>2, <2>4, <3>2
    <2>5. CASE y \notin {n, m}
      <3>1. x \in under[y] /\ under'[y] = under[y]
        BY <2>2, <2>5
      <3>2. x = m => n \in under[y]
        BY <1>3, <1>8, <2>5, <3>1
      <3>3. x \in {n, m} => under[n] \subseteq under[y]
        BY <1>3, <1>7, <3>1, <3>2
      <3>4. under[x] \subseteq under[y]
        BY <1>7, <3>1
      <3> QED BY <2>1, <2>2, <3>1, <3>3, <3>4
    <2> QED BY <2>3, <2>4, <2>5
  <1>14. ASSUME NEW x \in Tree, x /= root', NEW y \in Tree, x \in under'[y], x /= y
         PROVE  parent'[x] \in under'[y]
    <2>1. \A z \in Tree : z \in under'[z]
      <3> SUFFICES ASSUME NEW z \in Tree PROVE z \in under'[z]
        OBVIOUS
      <3> QED BY <1>3, <1>5, <1>7
    <2>2. \A z \in Tree : z \notin {n, m} => under'[z] = under[z]
      BY <1>5
    <2>3. n \in under'[n] /\ n \in under[n] /\ m \in under[n] /\ m \in under'[m]
      BY <1>3, <1>5
    <2>4. CASE x = n
      <3>1. parent'[x] = m
        BY <1>5, <2>4
      <3>2. CASE y = m
        BY <2>3, <3>1, <3>2
      <3>3. CASE y /= m
        <4>1. n \in under[y] /\ under'[y] = under[y]
          BY <1>14, <2>2, <2>4, <3>3
        <4> QED BY <1>3, <1>7, <2>3, <3>1, <4>1
      <3> QED BY <3>2, <3>3
    <2>5. CASE x = m
      <3>1. y /= n
        BY <1>3, <1>5, <1>14, <2>5
      <3>2. m \in under[y] /\ under'[y] = under[y]
        BY <1>14, <2>2, <2>5, <3>1
      <3>3. n \in under[y] /\ n /= root
        BY <1>3, <1>5, <1>8, <1>14, <2>5, <3>2
      <3>4. parent[n] \in under[y]
        BY <1>3, <1>8, <3>1, <3>3
      <3> QED BY <1>5, <2>5, <3>2, <3>4
    <2>6. CASE x = i
      <3>1. i /= Sentinel /\ parent'[x] = n
        BY <1>4, <1>5, <2>6
      <3>2. CASE y = n
        BY <2>3, <3>1, <3>2
      <3>3. CASE y = m
        BY <1>5, <2>3, <3>1, <3>3
      <3>4. CASE y \notin {n, m}
        <4>1. i \in Tree /\ i /= root /\ parent[i] = m
          <5>1. i \in Tree /\ i /= root
            BY <1>3, <3>1, CornerFacts
          <5> QED BY <1>1, <1>2, <1>3, <3>1, <5>1, OneParent
        <4>2. i \in under[y] /\ under'[y] = under[y]
          BY <1>14, <2>2, <2>6, <3>4
        <4>3. m \in under[y]
          BY <1>8, <1>14, <2>6, <4>1, <4>2
        <4>4. n \in under[y]
          BY <1>3, <1>8, <3>4, <4>3
        <4> QED BY <3>1, <4>2, <4>4
      <3> QED BY <3>2, <3>3, <3>4
    <2>7. CASE x \notin {n, m, i}
      <3>1. parent'[x] = parent[x] /\ x /= root
        BY <1>5, <1>14, <2>7
      <3>2. CASE y = n
        <4>1. (x \in under[a] /\ a \in Tree) \/ (x \in under[i] /\ i \in Tree)
          BY <1>3, <1>5, <1>7, <1>14, <2>7, <3>2
        <4>2. CASE x \in under[i] /\ i \in Tree
          BY <1>5, <1>8, <2>7, <3>1, <3>2, <4>2
        <4>3. CASE x \in under[a] /\ a \in Tree /\ x /= a
          BY <1>5, <1>8, <3>1, <3>2, <4>3
        <4>4. CASE x = a
          <5>1. n \in Tree /\ s \in Sides /\ a = child[s][n] /\ a /= Sentinel
            BY <1>1, <1>2, <1>3, <1>4, <1>14, <4>4
          <5>2. parent[a] = n
            BY <5>1, OneParent
          <5> QED BY <2>3, <3>1, <3>2, <4>4, <5>2
        <4> QED BY <4>1, <4>2, <4>3, <4>4
      <3>3. CASE y = m
        <4>1. x \in under[n] /\ x /= n
          BY <1>5, <1>14, <2>7, <3>3
        <4> QED BY <1>3, <1>5, <1>8, <3>1, <3>3, <4>1
      <3>4. CASE y \notin {n, m}
        BY <1>8, <1>14, <2>2, <3>1, <3>4
      <3> QED BY <3>2, <3>3, <3>4
    <2> QED BY <2>4, <2>5, <2>6, <2>7
  <1>15. ASSUME NEW x \in Tree
         PROVE  /\ under'[x] = {x} \cup under'[child'["left"][x]] \cup under'[child'["right"][x]]
                /\ \A d \in Sides : x \notin under'[child'[d][x]]
                /\ under'[child'["left"][x]] \cap under'[child'["right"][x]] = {}
    <2>1. "left" \in Sides /\ Other("left") = "right"
      BY DEF Sides, Other
    <2> QED BY <1>11, <2>1
  <1> QED BY <1>5, <1>9, <1>12, <1>13, <1>14, <1>15 DEF Nested

-----------------------------------------------------------------------------
(* The order of the nodes.                                                 *)

LEMMA EarlierOrder ==
    ASSUME TypeOK, Distinct(order)
    PROVE  /\ \A x, y : Earlier(x, y) => x \in Tree /\ y \in Tree /\ ~Earlier(y, x)
           /\ \A x, y, z : Earlier(x, y) /\ Earlier(y, z) => Earlier(x, z)
           /\ \A x, y \in Tree : x = y \/ Earlier(x, y) \/ Earlier(y, x)
  <1>1. order \in Seq(Nodes)
    BY DEF TypeOK
  <1> QED BY <1>1, AheadOrder, Zenon DEF Earlier, Tree

\* x is on side s of y.
TowardIn(q, s, x, y) == IF s = "left" THEN Ahead(q, x, y) ELSE Ahead(q, y, x)
Toward(s, x, y) == TowardIn(order, s, x, y)

LEMMA TowardOrder ==
    ASSUME TypeOK, Distinct(order), NEW s \in Sides
    PROVE  /\ \A x, y : Toward(s, x, y) => x \in Tree /\ y \in Tree /\ ~Toward(s, y, x)
           /\ \A x, y, z : Toward(s, x, y) /\ Toward(s, y, z) => Toward(s, x, z)
           /\ \A x, y \in Tree : x = y \/ Toward(s, x, y) \/ Toward(s, y, x)
           /\ \A x, y : Toward(Other(s), x, y) <=> Toward(s, y, x)
  BY EarlierOrder DEF Toward, TowardIn, Earlier, Sides, Other

\* What Ordered says, for either side.
OrderedBy ==
    /\ Distinct(order)
    /\ \A n \in Tree, s \in Sides : \A x \in under[child[s][n]] : Toward(s, x, n)
    /\ \A n \in Tree, s \in Sides : \A x \in under[n], y \in Tree \ under[n] :
          Toward(s, y, n) => Toward(s, y, x)

LEMMA OrderedToward == Ordered <=> OrderedBy
  BY DEF Ordered, OrderedBy, Toward, TowardIn, Earlier, Sides

LEMMA RotateOrdered ==
    ASSUME Core, Ordered,
           NEW n, NEW s, NEW a, NEW m, NEW i, NEW b, Corner(n, s, a, m, i, b), Rotate(n, s)
    PROVE  Ordered'
  <1> DEFINE o == Other(s)
  <1>1. s \in Sides /\ o \in Sides /\ o /= s /\ \A d \in Sides : d = s \/ d = o
    BY SidesFacts DEF Corner
  <1>2. a = child[s][n] /\ m = child[o][n] /\ m /= Sentinel /\ i = child[s][m] /\ b = child[o][m]
    BY DEF Corner
  <1>3. /\ n \in Tree /\ m \in Tree /\ n /= m /\ {a, i, b} \subseteq Tree \cup {Sentinel}
        /\ n \notin {a, i, b} /\ m \notin {a, i, b} /\ m /= root
        /\ under[n] = {n} \cup under[a] \cup under[m] /\ n \notin under[a] \cup under[m]
        /\ under[m] = {m} \cup under[i] \cup under[b] /\ m \notin under[a] \cup under[i] \cup under[b]
    BY CornerFacts
  <1>4. Tree \subseteq Places /\ Sentinel \notin Tree /\ Sentinel \in Places
    BY UnderFacts DEF Places
  <1>5. /\ Tree' = Tree /\ order' = order
        /\ child'[s][n] = a /\ child'[o][n] = i /\ child'[s][m] = n /\ child'[o][m] = b
        /\ under'[m] = under[n] /\ under'[n] = {n} \cup under[a] \cup under[i]
        /\ \A x \in (Tree \cup {Sentinel}) \ {n, m} : under'[x] = under[x]
    BY <1>4, RotateFacts
  <1>6. /\ \A x \in Tree \ {n, m}, d \in Sides :
              child'[d][x] = IF child[d][x] = n THEN m ELSE child[d][x]
        /\ \A x \in Tree \ {n}, d \in Sides : child[d][x] /= m
    BY RotateFacts
  <1>7. /\ \A x \in Tree, d \in Sides : child[d][x] \in Tree \cup {Sentinel}
        /\ under[n] \subseteq Tree /\ m \in under[m]
    BY <1>3, UnderFacts
  <1>8. \A d \in Sides : \A x, y : Toward(d, x, y)' <=> Toward(d, x, y)
    BY <1>5 DEF Toward
  <1>9. /\ Distinct(order)
        /\ \A z \in Tree, d \in Sides : \A x \in under[child[d][z]] : Toward(d, x, z)
        /\ \A z \in Tree, d \in Sides : \A x \in under[z], y \in Tree \ under[z] :
                      Toward(d, y, z) => Toward(d, y, x)
    BY OrderedToward, Zenon DEF OrderedBy
  <1>10. TypeOK
    BY DEF Core
  <1>11. \A d \in Sides :
           /\ \A x, y : Toward(d, x, y) => ~Toward(d, y, x)
           /\ \A x, y, z : Toward(d, x, y) /\ Toward(d, y, z) => Toward(d, x, z)
           /\ \A x, y \in Tree : x = y \/ Toward(d, x, y) \/ Toward(d, y, x)
    BY <1>9, <1>10, TowardOrder
  <1>12. \A x, y : Toward(o, x, y) <=> Toward(s, y, x)
    BY <1>1, <1>9, <1>10, TowardOrder
  <1> HIDE DEF o
  <1>13. Toward(s, n, m) /\ \A x \in under[m] : Toward(s, n, x)
    BY <1>1, <1>2, <1>3, <1>7, <1>9, <1>12
  <1>14. \A x \in under[a] : Toward(s, x, n) /\ Toward(s, x, m)
    BY <1>1, <1>2, <1>3, <1>9, <1>11, <1>13
  <1>15. /\ \A x \in under[i] : Toward(s, x, m)
         /\ \A x \in under[b] : Toward(o, x, m) /\ Toward(s, m, x)
    BY <1>1, <1>2, <1>3, <1>9, <1>12
  <1>16. \A x \in {n} \cup under[a] \cup under[i] : Toward(s, x, m)
    BY <1>13, <1>14, <1>15
  <1>17. ASSUME NEW z \in Tree, NEW d \in Sides, NEW x \in under'[child'[d][z]]
         PROVE  Toward(d, x, z)
    <2>1. CASE z = n /\ d = s
      <3>1. x \in under[a]
        BY <1>3, <1>4, <1>5, <1>17, <2>1
      <3> QED BY <1>2, <1>3, <1>9, <2>1, <3>1
    <2>2. CASE z = n /\ d = o
      <3>1. x \in under[i]
        BY <1>3, <1>4, <1>5, <1>17, <2>2
      <3>2. x \in under[m]
        BY <1>3, <3>1
      <3> QED BY <1>2, <1>3, <1>9, <2>2, <3>2
    <2>3. CASE z = m /\ d = s
      BY <1>5, <1>16, <1>17, <2>3
    <2>4. CASE z = m /\ d = o
      BY <1>3, <1>4, <1>5, <1>15, <1>17, <2>4
    <2>5. CASE z \notin {n, m}
      <3>1. under'[child'[d][z]] = under[child[d][z]]
        BY <1>4, <1>5, <1>6, <1>7, <2>5
      <3> QED BY <1>9, <1>17, <3>1
    <2> QED BY <1>1, <2>1, <2>2, <2>3, <2>4, <2>5
  <1>18. ASSUME NEW z \in Tree, NEW d \in Sides, NEW x \in under'[z], NEW y \in Tree \ under'[z],
                Toward(d, y, z)
         PROVE  Toward(d, y, x)
    <2>1. CASE z = n
      <3>1. x \in {n} \cup under[a] \cup under[i] /\ x \in under[n]
        BY <1>3, <1>5, <1>18, <2>1
      <3>2. CASE y \notin under[n]
        BY <1>3, <1>9, <1>18, <2>1, <3>1, <3>2
      <3>3. CASE y \in under[n]
        <4>1. y = m \/ y \in under[b]
          BY <1>3, <1>5, <1>18, <2>1, <3>3
        <4>2. Toward(s, x, y)
          BY <1>1, <1>11, <1>15, <1>16, <3>1, <4>1
        <4>3. Toward(s, n, y)
          BY <1>1, <1>11, <1>13, <1>15, <4>1
        <4>4. d = o
          BY <1>1, <1>11, <1>18, <2>1, <4>3
        <4> QED BY <1>12, <4>2, <4>4
      <3> QED BY <3>2, <3>3
    <2>2. CASE z = m
      <3>1. y \notin under[n] /\ x \in under[n] /\ m \in under[n] /\ y /= n
        BY <1>3, <1>5, <1>7, <1>18, <2>2
      <3>2. Toward(d, y, n)
        <4>1. SUFFICES ASSUME Toward(d, n, y) PROVE FALSE
          BY <1>3, <1>11, <3>1
        <4>2. Other(d) \in Sides /\ \A u, v : Toward(Other(d), u, v) <=> Toward(d, v, u)
          BY <1>9, <1>10, SidesFacts, TowardOrder
        <4>3. Toward(d, m, y)
          BY <1>3, <1>9, <3>1, <4>1, <4>2
        <4> QED BY <1>11, <1>18, <2>2, <4>3
      <3> QED BY <1>3, <1>9, <3>1, <3>2
    <2>3. CASE z \notin {n, m}
      BY <1>5, <1>9, <1>18, <2>3
    <2> QED BY <2>1, <2>2, <2>3
  <1>19. Ordered' <=> OrderedBy'
    BY OrderedToward, PTL
  <1> QED BY <1>5, <1>8, <1>9, <1>17, <1>18, <1>19 DEF OrderedBy

-----------------------------------------------------------------------------
(* A new leaf.                                                             *)

\* Where the loop of an insertion ends, for Attach to put node below temp.
AtLeaf == Core /\ Ordered /\ node \in Nodes \ Tree /\ temp \in Tree

LEMMA AttachFacts ==
    ASSUME AtLeaf, Attach
    PROVE  /\ Way \in Sides /\ child[Way][temp] = Sentinel
           /\ Tree' = Tree \cup {node} /\ order' \in Seq(Nodes) /\ Distinct(order')
           /\ root' = root /\ root \in Tree /\ key' = key /\ insert' = insert
           /\ \A s \in Sides :
                /\ child'[s][node] = Sentinel
                /\ \A x \in Tree : child'[s][x] = IF x = temp /\ s = Way THEN node ELSE child[s][x]
           /\ parent'[node] = temp /\ \A x \in Tree : parent'[x] = parent[x]
           /\ under'[node] = {node} /\ under'[Sentinel] = {}
           /\ \A x \in Tree \cup {Sentinel} : \A w :
                w \in under'[x] <=> w \in under[x] \/ (w = node /\ temp \in under[x])
           /\ child' \in [Sides -> [Nodes -> Places \cup {Null}]]
           /\ parent' \in [Places -> Places \cup {Null}] /\ under' \in [Places -> SUBSET Nodes]
           /\ \A s \in Sides :
                /\ \A x, y \in Tree : TowardIn(order', s, x, y) <=> Toward(s, x, y)
                /\ \A y \in Tree \ {temp} : /\ TowardIn(order', s, node, y) <=> Toward(s, temp, y)
                                            /\ TowardIn(order', s, y, node) <=> Toward(s, y, temp)
                /\ TowardIn(order', s, node, temp) <=> s = Way
                /\ TowardIn(order', s, temp, node) <=> s = Other(Way)
  <1>1. /\ child \in [Sides -> [Nodes -> Places \cup {Null}]] /\ parent \in [Places -> Places \cup {Null}]
        /\ under \in [Places -> SUBSET Nodes] /\ order \in Seq(Nodes) /\ Distinct(order)
        /\ node \in Nodes \ Tree /\ temp \in Tree
        /\ Sentinel \notin Nodes /\ Nodes \subseteq Places /\ Sentinel \in Places
    BY Constants DEF AtLeaf, Core, TypeOK, Ordered, Places
  <1>2. Tree \subseteq Nodes /\ under[Sentinel] = {} /\ root \in Tree
    BY <1>1, UnderFacts DEF AtLeaf
  <1>3. Way \in Sides /\ child[Way][temp] = Sentinel
    BY DEF Attach, Way, Sides
  <1>4. PICK i \in DOMAIN order :
            order[i] = temp /\ order' = Inserted(order, IF Way = "left" THEN i - 1 ELSE i, node)
    BY Zenon DEF Attach
  <1>5. /\ child' = [s \in Sides |-> [child[s] EXCEPT ![node] = Sentinel,
                                        ![temp] = IF s = Way THEN node ELSE @]]
        /\ parent' = [parent EXCEPT ![node] = temp]
        /\ under' = [n \in Places |-> IF n = node THEN {node}
                                      ELSE IF temp \in under[n] THEN under[n] \cup {node}
                                      ELSE under[n]]
        /\ root' = root /\ key' = key /\ insert' = insert
    BY Zenon DEF Attach
  <1>6. /\ \A s \in Sides :
                /\ child'[s][node] = Sentinel
                /\ \A x \in Tree : child'[s][x] = IF x = temp /\ s = Way THEN node ELSE child[s][x]
        /\ child' \in [Sides -> [Nodes -> Places \cup {Null}]]
    <2> DEFINE w == Way
    <2>1. /\ child' = [s \in Sides |-> [child[s] EXCEPT ![node] = Sentinel,
                                        ![temp] = IF s = w THEN node ELSE @]]
          /\ temp \in Nodes /\ temp /= node /\ node \in Places \cup {Null} /\ Sentinel \in Places \cup {Null}
      BY <1>1, <1>2, <1>5
    <2> HIDE DEF w
    <2> SUFFICES /\ \A s \in Sides :
                      /\ child'[s][node] = Sentinel
                      /\ \A x \in Tree : child'[s][x] = IF x = temp /\ s = w THEN node ELSE child[s][x]
                 /\ child' \in [Sides -> [Nodes -> Places \cup {Null}]]
      BY DEF w
    <2> QED BY <1>1, <1>2, <2>1
  <1>7. /\ parent'[node] = temp /\ \A x \in Tree : parent'[x] = parent[x]
        /\ parent' \in [Places -> Places \cup {Null}]
    <2>1. node \in Places /\ temp \in Places
      BY <1>1, <1>2
    <2> QED BY <1>1, <1>2, <1>5, <2>1
  <1>8. /\ under'[node] = {node} /\ under'[Sentinel] = {}
        /\ \A x \in Tree \cup {Sentinel} : \A w :
              w \in under'[x] <=> w \in under[x] \/ (w = node /\ temp \in under[x])
        /\ under' \in [Places -> SUBSET Nodes]
    <2>1. \A x \in Places : under'[x] = IF x = node THEN {node}
                                        ELSE IF temp \in under[x] THEN under[x] \cup {node}
                                        ELSE under[x]
      BY <1>5
    <2>2. Tree \cup {Sentinel} \subseteq Places /\ node \notin Tree \cup {Sentinel} /\ node \in Places
      BY <1>1, <1>2
    <2>3. under' \in [Places -> SUBSET Nodes]
      BY <1>1, <1>5
    <2> QED BY <1>2, <2>1, <2>2, <2>3
  <1> DEFINE j == IF Way = "left" THEN i - 1 ELSE i
  <1>9. j \in 0..Len(order) /\ DOMAIN order = 1..Len(order) /\ Len(order) \in Nat
    BY <1>1, <1>3, LenProperties DEF Sides
  <1>10. \A k \in 1..Len(order) : /\ k <= j => k < i \/ (k = i /\ Way = "right")
                                  /\ k < i => k <= j
                                  /\ j < k => i < k \/ (k = i /\ Way = "left")
                                  /\ i < k => j < k
                                  /\ i <= j <=> Way = "right"
                                  /\ j < i <=> Way = "left"
    BY <1>3, <1>9 DEF Sides
  <1>11. order' = Inserted(order, j, node)
    BY <1>4
  <1> HIDE DEF j
  <1>12. /\ order' \in Seq(Nodes) /\ Elements(order') = Elements(order) \cup {node} /\ Distinct(order')
         /\ \A x, y \in Elements(order) : Ahead(order', x, y) <=> Ahead(order, x, y)
         /\ \A k \in DOMAIN order : /\ Ahead(order', order[k], node) <=> k <= j
                                    /\ Ahead(order', node, order[k]) <=> j < k
    <2>1. node \notin Elements(order)
      BY <1>1 DEF Tree
    <2> QED BY <1>1, <1>9, <1>11, <2>1, InsertedAhead
  <1>13. ASSUME NEW y \in Tree \ {temp}
         PROVE  /\ Ahead(order', y, node) <=> Ahead(order, y, temp)
                /\ Ahead(order', node, y) <=> Ahead(order, temp, y)
    <2>1. PICK k \in DOMAIN order : y = order[k]
      BY DEF Tree, Elements
    <2>2. /\ Ahead(order, y, temp) <=> k < i
          /\ Ahead(order, temp, y) <=> i < k
      BY <1>1, <1>4, <1>9, <2>1 DEF Ahead, Distinct
    <2>3. k /= i
      BY <1>4, <2>1
    <2>4. /\ Ahead(order', y, node) <=> k <= j
          /\ Ahead(order', node, y) <=> j < k
      BY <1>12, <2>1
    <2> QED BY <1>9, <1>10, <2>1, <2>2, <2>3, <2>4
  <1>14. /\ Ahead(order', node, temp) <=> Way = "left"
         /\ Ahead(order', temp, node) <=> Way = "right"
    BY <1>4, <1>9, <1>10, <1>12
  <1>15. Tree' = Tree \cup {node}
    BY <1>12 DEF Tree
  <1>16. ASSUME NEW s \in Sides
         PROVE  /\ \A x, y \in Tree : TowardIn(order', s, x, y) <=> Toward(s, x, y)
                /\ \A y \in Tree \ {temp} : /\ TowardIn(order', s, node, y) <=> Toward(s, temp, y)
                                            /\ TowardIn(order', s, y, node) <=> Toward(s, y, temp)
    BY <1>12, <1>13 DEF Toward, TowardIn, Tree
  <1>17. ASSUME NEW s \in Sides
         PROVE  /\ TowardIn(order', s, node, temp) <=> s = Way
                /\ TowardIn(order', s, temp, node) <=> s = Other(Way)
    BY <1>3, <1>14 DEF TowardIn, Sides, Other
  <1>18. order' \in Seq(Nodes) /\ Distinct(order') /\ root' = root /\ root \in Tree /\ key' = key /\ insert' = insert
    BY <1>2, <1>5, <1>12
  <1> QED BY <1>3, <1>6, <1>7, <1>8, <1>15, <1>16, <1>17, <1>18, Zenon

LEMMA AttachLinked == ASSUME AtLeaf, Attach PROVE Linked'
  <1>1. /\ Sentinel \notin Tree /\ node /= Sentinel /\ node \notin Tree /\ temp \in Tree
        /\ \A x \in Tree, d \in Sides : /\ child[d][x] \in Tree \cup {Sentinel}
                                        /\ child[d][x] /= Sentinel => parent[child[d][x]] = x
        /\ \A x \in Tree \ {root} : parent[x] \in Tree /\ \E d \in Sides : child[d][parent[x]] = x
    BY UnderFacts, Constants DEF AtLeaf, Core, Linked
  <1>2. /\ Way \in Sides /\ child[Way][temp] = Sentinel
        /\ Tree' = Tree \cup {node} /\ root' = root
        /\ \A s \in Sides :
             /\ child'[s][node] = Sentinel
             /\ \A x \in Tree : child'[s][x] = IF x = temp /\ s = Way THEN node ELSE child[s][x]
        /\ parent'[node] = temp /\ \A x \in Tree : parent'[x] = parent[x]
    BY AttachFacts
  <1>3. ASSUME NEW x \in Tree', NEW d \in Sides
        PROVE  /\ child'[d][x] \in Tree' \cup {Sentinel}
               /\ child'[d][x] /= Sentinel => parent'[child'[d][x]] = x
    BY <1>1, <1>2
  <1>4. ASSUME NEW x \in Tree' \ {root'}
        PROVE  parent'[x] \in Tree' /\ \E d \in Sides : child'[d][parent'[x]] = x
    <2>1. CASE x = node
      BY <1>1, <1>2, <2>1
    <2>2. CASE x /= node
      <3>1. x \in Tree \ {root} /\ parent'[x] = parent[x] /\ parent[x] \in Tree
        BY <1>1, <1>2, <2>2
      <3>2. PICK d \in Sides : child[d][parent[x]] = x
        BY <1>1, <3>1
      <3>3. child'[d][parent[x]] = x
        BY <1>1, <1>2, <3>1, <3>2
      <3> QED BY <1>2, <3>1, <3>3
    <2> QED BY <2>1, <2>2
  <1> QED BY <1>3, <1>4 DEF Linked

LEMMA AttachNested == ASSUME AtLeaf, Attach PROVE Nested'
  <1>1. /\ Sentinel \notin Tree /\ node /= Sentinel /\ node \notin Tree /\ temp \in Tree /\ root \in Tree
        /\ under[Sentinel] = {} /\ under[root] = Tree
        /\ \A n \in Tree : n \in under[n] /\ under[n] \subseteq Tree
        /\ \A n \in Tree, s \in Sides :
             /\ child[s][n] \in Tree \cup {Sentinel}
             /\ under[n] = {n} \cup under[child[s][n]] \cup under[child[Other(s)][n]]
             /\ n \notin under[child[s][n]]
             /\ under[child[s][n]] \cap under[child[Other(s)][n]] = {}
        /\ \A n, m \in Tree : n \in under[m] => under[n] \subseteq under[m]
    BY UnderFacts, Constants DEF AtLeaf
  <1>2. \A x \in Tree \ {root}, y \in Tree : x \in under[y] /\ x /= y => parent[x] \in under[y]
    BY Zenon DEF AtLeaf, Core, Nested
  <1>3. /\ Way \in Sides /\ child[Way][temp] = Sentinel
        /\ Tree' = Tree \cup {node} /\ root' = root
        /\ \A s \in Sides :
             /\ child'[s][node] = Sentinel
             /\ \A x \in Tree : child'[s][x] = IF x = temp /\ s = Way THEN node ELSE child[s][x]
        /\ parent'[node] = temp /\ \A x \in Tree : parent'[x] = parent[x]
        /\ under'[node] = {node} /\ under'[Sentinel] = {}
        /\ \A x \in Tree \cup {Sentinel} : \A w :
              w \in under'[x] <=> w \in under[x] \/ (w = node /\ temp \in under[x])
    BY AttachFacts
  <1>4. under'[root'] = Tree' /\ root' \in Tree'
    BY <1>1, <1>3
  <1>5. ASSUME NEW x \in Tree', NEW s \in Sides
        PROVE  /\ under'[x] = {x} \cup under'[child'[s][x]] \cup under'[child'[Other(s)][x]]
               /\ x \notin under'[child'[s][x]]
               /\ under'[child'[s][x]] \cap under'[child'[Other(s)][x]] = {}
    <2> DEFINE c == child[s][x]
               e == child[Other(s)][x]
    <2>1. Other(s) \in Sides /\ Other(s) /= s
      BY SidesFacts
    <2>2. CASE x = node
      BY <1>1, <1>3, <2>1, <2>2
    <2>3. CASE x \in Tree
      <3>1. /\ c \in Tree \cup {Sentinel} /\ e \in Tree \cup {Sentinel}
            /\ under[x] = {x} \cup under[c] \cup under[e] /\ under[x] \subseteq Tree
            /\ x \notin under[c] /\ x \notin under[e] /\ under[c] \cap under[e] = {}
        BY <1>1, <2>1, <2>3
      <3>2. x = temp => (s = Way /\ c = Sentinel) \/ (Other(s) = Way /\ e = Sentinel)
        BY <1>3, SidesFacts
      <3>3. /\ child'[s][x] = IF x = temp /\ s = Way THEN node ELSE c
            /\ child'[Other(s)][x] = IF x = temp /\ Other(s) = Way THEN node ELSE e
        BY <1>3, <2>1, <2>3
      <3> HIDE DEF c, e
      <3>4. \A z \in Tree \cup {Sentinel} : \A w :
               w \in under'[z] <=> w \in under[z] \/ (w = node /\ temp \in under[z])
        BY <1>3
      <3>5. CASE x = temp
        BY <1>1, <1>3, <2>1, <3>1, <3>2, <3>3, <3>4, <3>5
      <3>6. CASE x /= temp
        BY <1>1, <3>1, <3>3, <3>4, <2>3, <3>6
      <3> QED BY <3>5, <3>6
    <2> QED BY <1>3, <2>2, <2>3
  <1>6. ASSUME NEW x \in Tree', NEW y \in Tree', x \in under'[y] PROVE under'[x] \subseteq under'[y]
    <2>1. CASE x = node
      BY <1>3, <1>6, <2>1
    <2>2. CASE y = node
      BY <1>3, <1>6, <2>2
    <2>3. CASE x \in Tree /\ y \in Tree
      <3>1. x \in under[y]
        BY <1>1, <1>3, <1>6, <2>3
      <3>2. under[x] \subseteq under[y]
        BY <1>1, <2>3, <3>1
      <3> QED BY <1>3, <2>3, <3>2
    <2> QED BY <1>3, <2>1, <2>2, <2>3
  <1>7. ASSUME NEW x \in Tree' \ {root'}, NEW y \in Tree', x \in under'[y], x /= y
        PROVE  parent'[x] \in under'[y]
    <2>1. y \in Tree
      BY <1>3, <1>7
    <2>2. CASE x = node
      BY <1>1, <1>3, <1>7, <2>1, <2>2
    <2>3. CASE x \in Tree
      BY <1>1, <1>2, <1>3, <1>7, <2>1, <2>3
    <2> QED BY <1>3, <2>2, <2>3
  <1>8. ASSUME NEW x \in Tree'
        PROVE  /\ under'[x] = {x} \cup under'[child'["left"][x]] \cup under'[child'["right"][x]]
               /\ \A d \in Sides : x \notin under'[child'[d][x]]
               /\ under'[child'["left"][x]] \cap under'[child'["right"][x]] = {}
    <2>1. "left" \in Sides /\ Other("left") = "right"
      BY DEF Sides, Other
    <2> QED BY <1>5, <2>1
  <1> QED BY <1>3, <1>4, <1>6, <1>7, <1>8 DEF Nested

LEMMA AttachOrdered == ASSUME AtLeaf, Attach PROVE Ordered'
  <1>1. /\ Sentinel \notin Tree /\ node \notin Tree /\ temp \in Tree
        /\ under[Sentinel] = {}
        /\ \A n \in Tree : n \in under[n] /\ under[n] \subseteq Tree
        /\ \A n \in Tree, s \in Sides :
             /\ child[s][n] \in Tree \cup {Sentinel} /\ n \notin under[child[s][n]]
    BY UnderFacts DEF AtLeaf
  <1>2. /\ Way \in Sides /\ child[Way][temp] = Sentinel
        /\ Tree' = Tree \cup {node} /\ Distinct(order')
        /\ \A s \in Sides :
             /\ child'[s][node] = Sentinel
             /\ \A x \in Tree : child'[s][x] = IF x = temp /\ s = Way THEN node ELSE child[s][x]
        /\ under'[node] = {node} /\ under'[Sentinel] = {}
        /\ \A x \in Tree \cup {Sentinel} : \A w :
              w \in under'[x] <=> w \in under[x] \/ (w = node /\ temp \in under[x])
        /\ \A s \in Sides :
             /\ \A x, y \in Tree : TowardIn(order', s, x, y) <=> Toward(s, x, y)
             /\ \A y \in Tree \ {temp} : /\ TowardIn(order', s, node, y) <=> Toward(s, temp, y)
                                         /\ TowardIn(order', s, y, node) <=> Toward(s, y, temp)
             /\ TowardIn(order', s, node, temp) <=> s = Way
    BY AttachFacts
  <1>3. OrderedBy
    BY OrderedToward, Zenon DEF AtLeaf
  <1>4. ASSUME NEW z \in Tree', NEW d \in Sides, NEW x \in under'[child'[d][z]]
        PROVE  TowardIn(order', d, x, z)
    <2>1. z \in Tree
      BY <1>2, <1>4
    <2>2. CASE z = temp /\ d = Way
      BY <1>2, <1>4, <2>1, <2>2
    <2>3. CASE ~(z = temp /\ d = Way)
      <3> DEFINE c == child[d][z]
      <3>1. child'[d][z] = c /\ c \in Tree \cup {Sentinel} /\ z \notin under[c]
        BY <1>1, <1>2, <2>1, <2>3
      <3>2. \A y \in under[c] : Toward(d, y, z) /\ y \in Tree
        BY <1>1, <1>3, <2>1, <3>1 DEF OrderedBy
      <3> HIDE DEF c
      <3>3. x \in under[c] \/ (x = node /\ temp \in under[c])
        BY <1>1, <1>2, <1>4, <3>1
      <3>4. temp \in under[c] => z /= temp
        BY <3>1
      <3> QED BY <1>2, <2>1, <3>2, <3>3, <3>4
    <2> QED BY <2>2, <2>3
  <1>5. ASSUME NEW z \in Tree', NEW d \in Sides, NEW x \in under'[z], NEW y \in Tree' \ under'[z],
               TowardIn(order', d, y, z)
        PROVE  TowardIn(order', d, y, x)
    <2>1. CASE z = node
      BY <1>2, <1>5, <2>1
    <2>2. CASE z \in Tree /\ y = node
      <3>1. temp \notin under[z] /\ x \in under[z] /\ x \in Tree /\ z /= temp
        BY <1>1, <1>2, <1>5, <2>2
      <3>2. Toward(d, temp, z)
        BY <1>2, <1>5, <2>2, <3>1
      <3>3. Toward(d, temp, x) /\ x /= temp
        BY <1>1, <1>3, <2>2, <3>1, <3>2 DEF OrderedBy
      <3> QED BY <1>2, <2>2, <3>1, <3>3
    <2>3. CASE z \in Tree /\ y \in Tree
      <3>1. y \notin under[z] /\ Toward(d, y, z)
        BY <1>2, <1>5, <2>3
      <3>2. \A w \in under[z] : Toward(d, y, w) /\ w \in Tree
        BY <1>1, <1>3, <2>3, <3>1 DEF OrderedBy
      <3>3. x \in under[z] \/ (x = node /\ temp \in under[z])
        BY <1>2, <1>5, <2>3
      <3>4. temp \in under[z] => y /= temp
        BY <3>1
      <3> QED BY <1>2, <2>3, <3>2, <3>3, <3>4
    <2> QED BY <1>2, <2>1, <2>2, <2>3
  <1>6. Ordered' <=> OrderedBy'
    BY OrderedToward, PTL
  <1> QED BY <1>2, <1>4, <1>5, <1>6 DEF OrderedBy, Toward

-----------------------------------------------------------------------------
(* A node is taken out.                                                    *)

\* What the removal of node does to the order.
LEMMA RemoveFacts ==
    ASSUME TypeOK, Distinct(order), node \in Tree, Remove
    PROVE  /\ Tree' = Tree \ {node} /\ order' \in Seq(Nodes) /\ Distinct(order')
           /\ \A s \in Sides : \A x, y \in Tree' : TowardIn(order', s, x, y) <=> Toward(s, x, y)
           /\ key' = [key EXCEPT ![node] = 0] /\ key' \in [Nodes -> 0..(M - 1)]
           /\ \A x \in Nodes \ {node} : key'[x] = key[x]
  <1>1. order \in Seq(Nodes) /\ node \in Nodes /\ key \in [Nodes -> 0..(M - 1)]
    BY DEF TypeOK, Tree, Elements
  <1>2. order' = Without(order, node) /\ key' = [key EXCEPT ![node] = 0]
    BY DEF Remove
  <1>3. /\ order' \in Seq(Nodes) /\ Elements(order') = Elements(order) \ {node} /\ Distinct(order')
        /\ \A x, y \in Elements(order') : Ahead(order', x, y) <=> Ahead(order, x, y)
    BY <1>1, <1>2, WithoutAhead
  <1>4. Tree' = Tree \ {node}
    BY <1>3 DEF Tree
  <1>5. \A s \in Sides : \A x, y \in Tree' : TowardIn(order', s, x, y) <=> Toward(s, x, y)
    BY <1>3 DEF Toward, TowardIn, Tree
  <1>6. 0 \in 0..(M - 1)
    BY ClockAssumption
  <1>7. key' \in [Nodes -> 0..(M - 1)] /\ \A x \in Nodes \ {node} : key'[x] = key[x]
    BY <1>1, <1>2, <1>6
  <1> QED BY <1>2, <1>3, <1>4, <1>5, <1>7

\* What takes the place of a node with one child at most.
LEMMA OrphanFacts ==
    ASSUME Core, temp \in Tree, NEW d \in Sides, child[d][temp] = Sentinel
    PROVE  /\ Orphan \in Tree \cup {Sentinel} /\ Orphan /= temp /\ Orphan /= root
           /\ under[temp] = {temp} \cup under[Orphan] /\ temp \notin under[Orphan]
           /\ \A s \in Sides : child[s][temp] \in {Orphan, Sentinel}
           /\ \E s \in Sides : child[s][temp] = Orphan /\ child[Other(s)][temp] = Sentinel
           /\ Orphan /= Sentinel => parent[Orphan] = temp
  <1>1. /\ temp /= Sentinel /\ root /= Sentinel /\ under[Sentinel] = {} /\ root \in Tree
        /\ \A s \in Sides :
             /\ child[s][temp] \in Tree \cup {Sentinel}
             /\ under[temp] = {temp} \cup under[child[s][temp]] \cup under[child[Other(s)][temp]]
             /\ temp \notin under[child[s][temp]]
    BY UnderFacts
  <1>2. PICK s \in Sides : child[s][temp] = Orphan /\ child[Other(s)][temp] = Sentinel
    BY DEF Orphan, Sides, Other
  <1>3. \A e \in Sides : child[e][temp] \in {Orphan, Sentinel}
    BY <1>2, SidesFacts
  <1>4. Orphan /= Sentinel => parent[Orphan] = temp /\ Orphan /= root /\ Orphan /= temp
    BY <1>2, OneParent
  <1>5. under[temp] = {temp} \cup under[Orphan] /\ temp \notin under[Orphan] /\ Orphan \in Tree \cup {Sentinel}
    BY <1>1, <1>2
  <1> QED BY <1>1, <1>2, <1>3, <1>4, <1>5

\* A node with one child at most is taken out.
AtGone == Core /\ Ordered /\ node \in Tree /\ temp = node /\ \E d \in Sides : child[d][node] = Sentinel

LEMMA GoneFacts ==
    ASSUME AtGone, DeleteRoot \/ DeleteNode
    PROVE  /\ root' = IF node = root THEN Orphan ELSE root
           /\ \A x \in Tree \ {node}, d \in Sides :
                child'[d][x] = IF child[d][x] = node THEN Orphan ELSE child[d][x]
           /\ \A x \in Tree \ {node, Orphan} : parent'[x] = parent[x]
           /\ node /= root => parent'[Orphan] = parent[node]
           /\ \A x \in (Tree \ {node}) \cup {Sentinel} : \A w : w \in under'[x] <=> w \in under[x] /\ w /= node
           /\ root' \in Places /\ child' \in [Sides -> [Nodes -> Places \cup {Null}]]
           /\ parent' \in [Places -> Places \cup {Null}] /\ under' \in [Places -> SUBSET Nodes]
           /\ Remove
  <1> DEFINE c == Orphan
             p == parent[node]
             e == Side(node)
             f == IF node = root THEN child ELSE [child EXCEPT ![e][p] = c]
  <1>1. /\ child \in [Sides -> [Nodes -> Places \cup {Null}]] /\ parent \in [Places -> Places \cup {Null}]
        /\ under \in [Places -> SUBSET Nodes] /\ root \in Places
        /\ Sentinel \notin Nodes /\ Nodes \subseteq Places /\ Sentinel \in Places
        /\ Tree \subseteq Nodes /\ node \in Tree /\ temp = node /\ under[Sentinel] = {}
    BY UnderFacts, Constants DEF AtGone, Core, TypeOK, Places
  <1>2. c \in Tree \cup {Sentinel} /\ c /= node /\ c /= root
    BY OrphanFacts DEF AtGone
  <1>3. node /= root => /\ p \in Tree /\ e \in Sides /\ p /= node
                        /\ \A x \in Tree, d \in Sides : child[d][x] = node <=> x = p /\ d = e
    BY <1>1, ParentFacts DEF AtGone
  <1>4. node = root => \A x \in Tree, d \in Sides : child[d][x] /= node
    <2>1. node /= Sentinel
      BY <1>1
    <2> QED BY <2>1, OneParent DEF AtGone
  <1>5. /\ root' = IF node = root THEN c ELSE root
        /\ child' = Cleared(f)
        /\ Remove
    BY DEF DeleteRoot, DeleteNode, ChildFor
  <1>6. parent' = IF node = root THEN [parent EXCEPT ![node] = Null]
                  ELSE [parent EXCEPT ![c] = p, ![node] = Null]
    BY DEF DeleteRoot, DeleteNode
  <1> HIDE DEF c, p, e
  <1>7. /\ f \in [Sides -> [Nodes -> Places \cup {Null}]]
        /\ \A x \in Tree, d \in Sides : f[d][x] = IF child[d][x] = node THEN c ELSE child[d][x]
    <2>1. CASE node = root
      BY <1>1, <1>4, <2>1
    <2>2. CASE node /= root
      <3>1. f = [child EXCEPT ![e][p] = c] /\ e \in Sides /\ p \in Nodes /\ c \in Places \cup {Null}
        BY <1>1, <1>2, <1>3, <2>2
      <3> HIDE DEF f
      <3>2. /\ f \in [Sides -> [Nodes -> Places \cup {Null}]]
            /\ \A d \in Sides, x \in Nodes : f[d][x] = IF d = e /\ x = p THEN c ELSE child[d][x]
        BY <1>1, <3>1, ChildSet
      <3> QED BY <1>1, <1>3, <2>2, <3>2
    <2> QED BY <2>1, <2>2
  <1> HIDE DEF f
  <1>8. /\ child' \in [Sides -> [Nodes -> Places \cup {Null}]]
        /\ \A x \in Tree \ {node}, d \in Sides :
                child'[d][x] = IF child[d][x] = node THEN c ELSE child[d][x]
    <2>1. child' = [s \in Sides |-> [f[s] EXCEPT ![node] = Null]]
      BY <1>5 DEF Cleared
    <2>2. /\ child' \in [Sides -> [Nodes -> Places \cup {Null}]]
          /\ \A x \in Nodes \ {node}, d \in Sides : child'[d][x] = f[d][x]
      BY <1>1, <1>7, <2>1
    <2> QED BY <1>1, <1>7, <2>2
  <1>9. /\ parent' \in [Places -> Places \cup {Null}]
        /\ \A x \in Tree \ {node, c} : parent'[x] = parent[x]
        /\ node /= root => parent'[c] = p
    <2>1. node \in Places /\ c \in Places /\ p \in Places \cup {Null} /\ Tree \subseteq Places
      BY <1>1, <1>2 DEF p
    <2> QED BY <1>1, <1>2, <1>6, <2>1
  <1>10. /\ under' \in [Places -> SUBSET Nodes]
         /\ \A x \in (Tree \ {node}) \cup {Sentinel} : \A w : w \in under'[x] <=> w \in under[x] /\ w /= node
    <2>1. under' = [n \in Places |-> IF n = node THEN {}
                                     ELSE IF n = temp THEN under[node] \ {node}
                                     ELSE IF node \in under[n] THEN under[n] \ {node}
                                     ELSE under[n] \ {temp}]
      BY <1>5, Zenon DEF Remove
    <2>2. \A n \in Places \ {node} : under'[n] = under[n] \ {node}
      BY <1>1, <2>1
    <2>3. under' \in [Places -> SUBSET Nodes]
      BY <1>1, <2>1
    <2>4. (Tree \ {node}) \cup {Sentinel} \subseteq Places \ {node}
      BY <1>1
    <2> QED BY <2>2, <2>3, <2>4
  <1>11. root' \in Places
    BY <1>1, <1>2, <1>5
  <1> QED BY <1>5, <1>8, <1>9, <1>10, <1>11, Zenon DEF c, p

LEMMA GoneLinked == ASSUME AtGone, DeleteRoot \/ DeleteNode PROVE Linked'
  <1> DEFINE c == Orphan
  <1>1. /\ Sentinel \notin Tree /\ node \in Tree /\ node /= Sentinel
        /\ \A x \in Tree, d \in Sides : /\ child[d][x] \in Tree \cup {Sentinel}
                                        /\ child[d][x] /= Sentinel => parent[child[d][x]] = x
        /\ \A x \in Tree \ {root} : parent[x] \in Tree /\ \E d \in Sides : child[d][parent[x]] = x
    BY UnderFacts DEF AtGone, Core, Linked
  <1>2. /\ c \in Tree \cup {Sentinel} /\ c /= node /\ c /= root
        /\ \A s \in Sides : child[s][node] \in {c, Sentinel}
        /\ c /= Sentinel => parent[c] = node
    BY OrphanFacts DEF AtGone
  <1>3. /\ root' = IF node = root THEN c ELSE root
        /\ \A x \in Tree \ {node}, d \in Sides :
              child'[d][x] = IF child[d][x] = node THEN c ELSE child[d][x]
        /\ \A x \in Tree \ {node, c} : parent'[x] = parent[x]
        /\ node /= root => parent'[c] = parent[node]
        /\ Remove
    BY GoneFacts
  <1>4. Tree' = Tree \ {node}
    BY <1>3, RemoveFacts DEF AtGone, Core, Ordered
  <1> HIDE DEF c
  <1>5. node /= root => parent[node] \in Tree \ {node}
    BY ParentFacts DEF AtGone
  <1>6. node = root => \A x \in Tree, d \in Sides : child[d][x] /= node
    BY <1>1, OneParent DEF AtGone
  <1>7. ASSUME NEW x \in Tree', NEW d \in Sides
        PROVE  /\ child'[d][x] \in Tree' \cup {Sentinel}
               /\ child'[d][x] /= Sentinel => parent'[child'[d][x]] = x
    <2>1. CASE child[d][x] = node
      BY <1>1, <1>2, <1>3, <1>4, <1>6, <2>1
    <2>2. CASE child[d][x] /= node
      BY <1>1, <1>2, <1>3, <1>4, <2>2
    <2> QED BY <2>1, <2>2
  <1>8. ASSUME NEW x \in Tree' \ {root'}
        PROVE  parent'[x] \in Tree' /\ \E d \in Sides : child'[d][parent'[x]] = x
    <2>1. CASE x = c
      <3>1. node /= root /\ parent'[x] = parent[node] /\ parent[node] \in Tree \ {node}
        BY <1>3, <1>5, <2>1
      <3>2. PICK d \in Sides : child[d][parent[node]] = node
        BY <1>1, <3>1
      <3> QED BY <1>3, <1>4, <2>1, <3>1, <3>2
    <2>2. CASE x /= c
      <3>1. x \in Tree \ {root} /\ parent'[x] = parent[x] /\ parent[x] \in Tree /\ x /= node
        BY <1>1, <1>3, <1>4, <2>2
      <3>2. PICK d \in Sides : child[d][parent[x]] = x
        BY <1>1, <3>1
      <3>3. parent[x] /= node
        BY <1>1, <1>2, <2>2, <3>1, <3>2
      <3> QED BY <1>3, <1>4, <3>1, <3>2, <3>3
    <2> QED BY <2>1, <2>2
  <1> QED BY <1>7, <1>8 DEF Linked

LEMMA GoneNested == ASSUME AtGone, DeleteRoot \/ DeleteNode PROVE Nested'
  <1> DEFINE c == Orphan
  <1>1. /\ Sentinel \notin Tree /\ node \in Tree /\ root \in Tree
        /\ under[Sentinel] = {} /\ under[root] = Tree
        /\ \A n \in Tree : n \in under[n] /\ under[n] \subseteq Tree
        /\ \A n \in Tree, s \in Sides :
             /\ child[s][n] \in Tree \cup {Sentinel}
             /\ under[n] = {n} \cup under[child[s][n]] \cup under[child[Other(s)][n]]
             /\ n \notin under[child[s][n]]
             /\ under[child[s][n]] \cap under[child[Other(s)][n]] = {}
        /\ \A n, m \in Tree : n \in under[m] => under[n] \subseteq under[m]
    BY UnderFacts DEF AtGone
  <1>2. \A x \in Tree \ {root}, y \in Tree : x \in under[y] /\ x /= y => parent[x] \in under[y]
    BY Zenon DEF AtGone, Core, Nested
  <1>3. /\ c \in Tree \cup {Sentinel} /\ c /= node /\ c /= root
        /\ \A s \in Sides : child[s][node] \in {c, Sentinel}
        /\ c /= Sentinel => parent[c] = node
        /\ under[node] = {node} \cup under[c] /\ node \notin under[c]
    BY OrphanFacts DEF AtGone
  <1>4. /\ root' = IF node = root THEN c ELSE root
        /\ \A x \in Tree \ {node}, d \in Sides :
              child'[d][x] = IF child[d][x] = node THEN c ELSE child[d][x]
        /\ \A x \in Tree \ {node, c} : parent'[x] = parent[x]
        /\ node /= root => parent'[c] = parent[node]
        /\ \A x \in (Tree \ {node}) \cup {Sentinel} : \A w : w \in under'[x] <=> w \in under[x] /\ w /= node
        /\ Remove
    BY GoneFacts
  <1>5. Tree' = Tree \ {node}
    BY <1>4, RemoveFacts DEF AtGone, Core, Ordered
  <1> HIDE DEF c
  <1>6. \A x \in Tree \ {node}, d \in Sides : \A w :
            w \in under'[child'[d][x]] <=> w \in under[child[d][x]] /\ w /= node
    <2> SUFFICES ASSUME NEW x \in Tree \ {node}, NEW d \in Sides, NEW w
                 PROVE  w \in under'[child'[d][x]] <=> w \in under[child[d][x]] /\ w /= node
      OBVIOUS
    <2>1. CASE child[d][x] = node
      BY <1>1, <1>3, <1>4, <2>1
    <2>2. CASE child[d][x] /= node
      BY <1>1, <1>4, <2>2
    <2> QED BY <2>1, <2>2
  <1>7. under'[Sentinel] = {}
    BY <1>1, <1>4
  <1>8. under'[root'] = Tree' /\ (root' = Sentinel \/ root' \in Tree')
    <2>1. CASE node = root
      BY <1>1, <1>3, <1>4, <1>5, <2>1
    <2>2. CASE node /= root
      BY <1>1, <1>4, <1>5, <2>2
    <2> QED BY <2>1, <2>2
  <1>9. ASSUME NEW x \in Tree', NEW s \in Sides
        PROVE  /\ under'[x] = {x} \cup under'[child'[s][x]] \cup under'[child'[Other(s)][x]]
               /\ x \notin under'[child'[s][x]]
               /\ under'[child'[s][x]] \cap under'[child'[Other(s)][x]] = {}
    <2>1. x \in Tree \ {node} /\ Other(s) \in Sides
      BY <1>5, SidesFacts
    <2>2. /\ \A w : w \in under'[child'[s][x]] <=> w \in under[child[s][x]] /\ w /= node
          /\ \A w : w \in under'[child'[Other(s)][x]] <=> w \in under[child[Other(s)][x]] /\ w /= node
          /\ \A w : w \in under'[x] <=> w \in under[x] /\ w /= node
      BY <1>4, <1>6, <2>1
    <2>3. /\ under[x] = {x} \cup under[child[s][x]] \cup under[child[Other(s)][x]]
          /\ x \notin under[child[s][x]] /\ x /= node
          /\ under[child[s][x]] \cap under[child[Other(s)][x]] = {}
      BY <1>1, <2>1
    <2> QED BY <2>2, <2>3
  <1>10. ASSUME NEW x \in Tree', NEW y \in Tree', x \in under'[y] PROVE under'[x] \subseteq under'[y]
    BY <1>1, <1>4, <1>5, <1>10
  <1>11. ASSUME NEW x \in Tree' \ {root'}, NEW y \in Tree', x \in under'[y], x /= y
         PROVE  parent'[x] \in under'[y]
    <2>1. x \in under[y] /\ x \in Tree \ {node} /\ y \in Tree \ {node}
      BY <1>4, <1>5, <1>11
    <2>2. CASE x = c
      <3>1. node /= root /\ parent'[x] = parent[node] /\ parent[c] = node
        BY <1>1, <1>3, <1>4, <1>11, <2>1, <2>2
      <3>2. node \in under[y]
        BY <1>2, <1>3, <1>11, <2>1, <2>2, <3>1
      <3>3. parent[node] \in under[y] /\ parent[node] /= node
        BY <1>1, <1>2, <2>1, <3>1, <3>2, ParentFacts DEF AtGone
      <3> QED BY <1>4, <2>1, <3>1, <3>3
    <2>3. CASE x /= c
      <3>1. x /= root /\ parent'[x] = parent[x]
        BY <1>4, <1>11, <2>1, <2>3
      <3>2. parent[x] \in under[y]
        BY <1>2, <1>11, <2>1, <3>1
      <3>3. parent[x] /= node
        <4>1. PICK d \in Sides : child[d][parent[x]] = x
          BY <2>1, <3>1 DEF AtGone, Core, Linked
        <4> QED BY <1>1, <1>3, <2>1, <2>3, <4>1
      <3> QED BY <1>4, <2>1, <3>1, <3>2, <3>3
    <2> QED BY <2>2, <2>3
  <1>12. ASSUME NEW x \in Tree'
        PROVE  /\ under'[x] = {x} \cup under'[child'["left"][x]] \cup under'[child'["right"][x]]
               /\ \A d \in Sides : x \notin under'[child'[d][x]]
               /\ under'[child'["left"][x]] \cap under'[child'["right"][x]] = {}
    <2>1. "left" \in Sides /\ Other("left") = "right"
      BY DEF Sides, Other
    <2> QED BY <1>9, <2>1
  <1> QED BY <1>7, <1>8, <1>10, <1>11, <1>12 DEF Nested

LEMMA GoneOrdered == ASSUME AtGone, DeleteRoot \/ DeleteNode PROVE Ordered'
  <1> DEFINE c == Orphan
  <1>1. /\ Sentinel \notin Tree /\ node \in Tree /\ under[Sentinel] = {}
        /\ \A n \in Tree : under[n] \subseteq Tree
        /\ \A n \in Tree, s \in Sides : child[s][n] \in Tree \cup {Sentinel}
    BY UnderFacts DEF AtGone
  <1>2. /\ c \in Tree \cup {Sentinel} /\ c /= node
        /\ under[node] = {node} \cup under[c]
    BY OrphanFacts DEF AtGone
  <1>3. /\ \A x \in Tree \ {node}, d \in Sides :
              child'[d][x] = IF child[d][x] = node THEN c ELSE child[d][x]
        /\ \A x \in (Tree \ {node}) \cup {Sentinel} : \A w : w \in under'[x] <=> w \in under[x] /\ w /= node
        /\ Remove
    BY GoneFacts
  <1>4. /\ Tree' = Tree \ {node} /\ Distinct(order')
        /\ \A s \in Sides : \A x, y \in Tree' : TowardIn(order', s, x, y) <=> Toward(s, x, y)
    BY <1>3, RemoveFacts DEF AtGone, Core, Ordered
  <1>5. OrderedBy
    BY OrderedToward, Zenon DEF AtGone
  <1> HIDE DEF c
  <1>6. ASSUME NEW z \in Tree', NEW d \in Sides, NEW x \in under'[child'[d][z]]
        PROVE  TowardIn(order', d, x, z)
    <2>1. z \in Tree \ {node}
      BY <1>4
    <2>2. x \in under[child[d][z]] /\ x /= node
      BY <1>1, <1>2, <1>3, <1>6, <2>1
    <2>3. Toward(d, x, z)
      BY <1>5, <2>1, <2>2 DEF OrderedBy
    <2>4. x \in Tree
      BY <1>1, <2>1, <2>2
    <2> QED BY <1>4, <2>1, <2>2, <2>3, <2>4
  <1>7. ASSUME NEW z \in Tree', NEW d \in Sides, NEW x \in under'[z], NEW y \in Tree' \ under'[z],
               TowardIn(order', d, y, z)
        PROVE  TowardIn(order', d, y, x)
    <2>1. z \in Tree \ {node} /\ y \in Tree \ {node} /\ y \notin under[z] /\ x \in under[z] /\ x \in Tree \ {node}
      BY <1>1, <1>3, <1>4, <1>7
    <2>2. Toward(d, y, z)
      BY <1>4, <1>7, <2>1
    <2>3. Toward(d, y, x)
      BY <1>5, <2>1, <2>2 DEF OrderedBy
    <2> QED BY <1>4, <2>1, <2>3
  <1>8. Ordered' <=> OrderedBy'
    BY OrderedToward, PTL
  <1> QED BY <1>4, <1>6, <1>7, <1>8 DEF OrderedBy, Toward

\* The next node takes the place of one with two children.
AtSubst ==
    /\ Core /\ Ordered /\ node \in Tree /\ temp /= node
    /\ temp \in under[child["right"][node]]
    /\ \A y \in under[child["right"][node]] \ under[temp] : Earlier(temp, y)

\* Where temp is, and what is above and below it.
LEMMA SubstPlace ==
    ASSUME AtSubst, child["left"][temp] = Sentinel
    PROVE  /\ temp \in Tree \ {node, root} /\ parent[temp] \in Tree \ {temp}
           /\ temp \in under[node] /\ node \notin under[temp] /\ parent[temp] \in under[node]
           /\ node /= root => parent[node] \notin {node, temp}
           /\ Orphan = child["right"][temp] /\ Orphan \in Tree \cup {Sentinel} /\ Orphan \notin {node, temp, root}
           /\ under[temp] = {temp} \cup under[Orphan] /\ temp \notin under[Orphan]
           /\ Orphan /= Sentinel => parent[Orphan] = temp
           /\ \A s \in Sides : child[s][temp] \in {Orphan, Sentinel}
           /\ \A x \in Tree : Earlier(node, x) /\ x /= temp => Earlier(temp, x)
           /\ Earlier(node, temp)
  <1>1. "left" \in Sides /\ "right" \in Sides /\ Other("right") = "left"
    BY DEF Sides, Other
  <1>2. /\ Sentinel \notin Tree /\ node \in Tree /\ root \in Tree
        /\ under[Sentinel] = {} /\ under[root] = Tree
        /\ \A n \in Tree : n \in under[n] /\ under[n] \subseteq Tree
        /\ \A n \in Tree, s \in Sides :
             /\ child[s][n] \in Tree \cup {Sentinel}
             /\ under[n] = {n} \cup under[child[s][n]] \cup under[child[Other(s)][n]]
             /\ n \notin under[child[s][n]]
        /\ \A n, m \in Tree : n \in under[m] => under[n] \subseteq under[m]
    BY UnderFacts DEF AtSubst
  <1> DEFINE r == child["right"][node]
  <1>3. r \in Tree /\ temp \in under[r] /\ under[r] \subseteq under[node] /\ node \notin under[r]
    BY <1>1, <1>2 DEF AtSubst
  <1>4. temp \in Tree /\ temp \in under[node] /\ temp /= node
    BY <1>2, <1>3
  <1>5. node \notin under[temp]
    BY <1>2, <1>3, <1>4
  <1>6. temp /= root
    BY <1>2, <1>5
  <1>7. parent[temp] \in Tree \ {temp}
    BY <1>4, <1>6, ParentFacts DEF AtSubst
  <1>8. parent[temp] \in under[node]
    BY <1>2, <1>4, <1>6, Zenon DEF AtSubst, Core, Nested
  <1>9. node /= root => parent[node] \notin {node, temp}
    BY <1>2, <1>4, ParentFacts DEF AtSubst
  <1>10. /\ Orphan \in Tree \cup {Sentinel} /\ Orphan \notin {temp, root}
         /\ under[temp] = {temp} \cup under[Orphan] /\ temp \notin under[Orphan]
         /\ Orphan /= Sentinel => parent[Orphan] = temp
         /\ \A s \in Sides : child[s][temp] \in {Orphan, Sentinel}
    BY <1>1, <1>4, OrphanFacts DEF AtSubst
  <1>11. Orphan = child["right"][temp] /\ Orphan /= node
    BY <1>2, <1>5, <1>10 DEF Orphan
  <1>12. OrderedBy
    BY OrderedToward, Zenon DEF AtSubst
  <1>13. \A x \in under[r] : Earlier(node, x)
    BY <1>1, <1>2, <1>12 DEF OrderedBy, Toward, TowardIn, Earlier
  <1>14. \A x \in under[Orphan] : Earlier(temp, x)
    BY <1>1, <1>4, <1>11, <1>12 DEF OrderedBy, Toward, TowardIn, Earlier
  <1>15. /\ \A x, y : Earlier(x, y) => ~Earlier(y, x)
         /\ \A x, y, z : Earlier(x, y) /\ Earlier(y, z) => Earlier(x, z)
         /\ \A x, y \in Tree : x = y \/ Earlier(x, y) \/ Earlier(y, x)
    BY <1>12, EarlierOrder DEF AtSubst, Core, OrderedBy
  <1>16. ASSUME NEW x \in Tree, Earlier(node, x), x /= temp PROVE Earlier(temp, x)
    <2>1. CASE x \in under[r]
      BY <1>10, <1>14, <1>16, <2>1 DEF AtSubst
    <2>2. CASE x \in under[child["left"][node]]
      <3>1. Earlier(x, node)
        BY <1>1, <1>2, <1>12, <2>2 DEF OrderedBy, Toward, TowardIn, Earlier
      <3> QED BY <1>15, <1>16, <3>1
    <2>3. CASE x \notin under[node]
      <3>1. Toward("right", x, node)
        BY <1>16 DEF Toward, TowardIn, Earlier
      <3>2. Toward("right", x, temp)
        BY <1>1, <1>2, <1>4, <1>12, <2>3, <3>1 DEF OrderedBy
      <3> QED BY <3>2 DEF Toward, TowardIn, Earlier
    <2>4. x /= node
      BY <1>15, <1>16
    <2>5. under[node] = {node} \cup under[r] \cup under[child["left"][node]]
      BY <1>1, <1>2
    <2> QED BY <2>1, <2>2, <2>3, <2>4, <2>5
  <1> QED BY <1>3, <1>4, <1>5, <1>6, <1>7, <1>8, <1>9, <1>10, <1>11, <1>13, <1>16

LEMMA SubstFacts ==
    ASSUME AtSubst, Substitute
    PROVE  /\ root' = IF node = root THEN temp ELSE root
           /\ \A d \in Sides :
                /\ child'[d][temp] = IF child[d][node] = temp THEN Orphan ELSE child[d][node]
                /\ \A x \in Tree \ {node, temp} :
                     child'[d][x] = IF child[d][x] = node THEN temp
                                    ELSE IF child[d][x] = temp THEN Orphan ELSE child[d][x]
           /\ parent'[temp] = parent[node]
           /\ parent'[Orphan] = IF parent[temp] = node THEN temp ELSE parent[temp]
           /\ \A x \in Tree \ {node, temp, Orphan} :
                parent'[x] = IF \E d \in Sides : child[d][node] = x THEN temp ELSE parent[x]
           /\ root' \in Places /\ child' \in [Sides -> [Nodes -> Places \cup {Null}]]
           /\ parent' \in [Places -> Places \cup {Null}]
           /\ child["left"][temp] = Sentinel /\ Remove
  <1> DEFINE o == Orphan
             p == parent[node]
             q == parent[temp]
             c == ChildFor(temp, Orphan)
             d1 == [s \in Sides |-> [c[s] EXCEPT ![temp] = c[s][node]]]
             e == IF node = root THEN d1 ELSE [d1 EXCEPT ![Side(node)][parent[node]] = temp]
             p1 == [parent EXCEPT ![Orphan] = IF parent[temp] = node THEN temp ELSE parent[temp],
                                  ![temp] = parent[node]]
  <1>1. /\ child' = Cleared(e)
        /\ parent' = [n \in Places |->
                 IF n = node THEN Null
                 ELSE IF n \in {d1[s][temp] : s \in Sides} \ {Sentinel} THEN temp
                 ELSE p1[n]]
        /\ root' = RootFor(node, temp)
        /\ child["left"][temp] = Sentinel /\ Remove
    BY Zenon DEF Substitute
  <1>2. /\ child \in [Sides -> [Nodes -> Places \cup {Null}]] /\ parent \in [Places -> Places \cup {Null}]
        /\ root \in Places /\ Sentinel \notin Nodes /\ Nodes \subseteq Places /\ Sentinel \in Places
        /\ Tree \subseteq Nodes /\ node \in Tree /\ Sentinel \notin Tree
    BY UnderFacts, Constants DEF AtSubst, Core, TypeOK, Places
  <1>3. /\ temp \in Tree \ {node, root} /\ q \in Tree \ {temp}
        /\ node /= root => p \notin {node, temp}
        /\ o \in Tree \cup {Sentinel} /\ o \notin {node, temp, root}
        /\ o /= Sentinel => parent[o] = temp
        /\ \A s \in Sides : child[s][temp] \in {o, Sentinel}
    BY <1>1, SubstPlace
  <1>4. /\ Side(temp) \in Sides
        /\ \A x \in Tree, d \in Sides : child[d][x] = temp <=> x = q /\ d = Side(temp)
    BY <1>3, ParentFacts DEF AtSubst
  <1>5. node /= root => /\ p \in Tree /\ Side(node) \in Sides
                        /\ \A x \in Tree, d \in Sides : child[d][x] = node <=> x = p /\ d = Side(node)
    BY <1>2, ParentFacts DEF AtSubst
  <1>6. node = root => \A x \in Tree, d \in Sides : child[d][x] /= node
    BY <1>2, OneParent DEF AtSubst
  <1> HIDE DEF o, p, q
  <1>7. /\ c \in [Sides -> [Nodes -> Places \cup {Null}]]
        /\ \A x \in Tree, d \in Sides : c[d][x] = IF child[d][x] = temp THEN o ELSE child[d][x]
    <2>1. c = [child EXCEPT ![Side(temp)][q] = o]
      BY <1>3 DEF ChildFor, o, q
    <2>2. Side(temp) \in Sides /\ q \in Nodes /\ o \in Places \cup {Null}
      BY <1>2, <1>3, <1>4
    <2> HIDE DEF c
    <2>3. /\ c \in [Sides -> [Nodes -> Places \cup {Null}]]
          /\ \A d \in Sides, x \in Nodes : c[d][x] = IF d = Side(temp) /\ x = q THEN o ELSE child[d][x]
      BY <1>2, <2>1, <2>2, ChildSet
    <2> QED BY <1>2, <1>4, <2>3
  <1> HIDE DEF c
  <1>8. /\ d1 \in [Sides -> [Nodes -> Places \cup {Null}]]
        /\ \A x \in Tree, d \in Sides : d1[d][x] = IF x = temp THEN c[d][node] ELSE c[d][x]
    <2>1. temp \in Nodes /\ node \in Nodes
      BY <1>2, <1>3
    <2> QED BY <1>2, <1>7, <2>1
  <1> HIDE DEF d1
  <1>9. /\ e \in [Sides -> [Nodes -> Places \cup {Null}]]
        /\ \A x \in Tree \ {node, temp}, d \in Sides : e[d][x] = IF child[d][x] = node THEN temp ELSE d1[d][x]
        /\ \A d \in Sides : e[d][temp] = d1[d][temp]
    <2>1. CASE node = root
      BY <1>3, <1>6, <1>8, <2>1
    <2>2. CASE node /= root
      <3>1. e = [d1 EXCEPT ![Side(node)][p] = temp]
        BY <2>2 DEF p
      <3>2. Side(node) \in Sides /\ p \in Nodes /\ temp \in Places \cup {Null} /\ p /= temp
        BY <1>2, <1>3, <1>5, <2>2
      <3> HIDE DEF e
      <3>3. /\ e \in [Sides -> [Nodes -> Places \cup {Null}]]
            /\ \A d \in Sides, x \in Nodes : e[d][x] = IF d = Side(node) /\ x = p THEN temp ELSE d1[d][x]
        BY <1>8, <3>1, <3>2, ChildSet
      <3> QED BY <1>2, <1>3, <1>5, <2>2, <3>2, <3>3
    <2> QED BY <2>1, <2>2
  <1> HIDE DEF e
  <1>10. /\ child' \in [Sides -> [Nodes -> Places \cup {Null}]]
         /\ \A x \in Tree \ {node}, d \in Sides : child'[d][x] = e[d][x]
    <2>1. child' = [s \in Sides |-> [e[s] EXCEPT ![node] = Null]]
      BY <1>1 DEF Cleared
    <2>2. /\ child' \in [Sides -> [Nodes -> Places \cup {Null}]]
          /\ \A x \in Nodes \ {node}, d \in Sides : child'[d][x] = e[d][x]
      BY <1>2, <1>9, <2>1
    <2> QED BY <1>2, <2>2
  <1>11. ASSUME NEW d \in Sides
         PROVE  /\ child'[d][temp] = IF child[d][node] = temp THEN o ELSE child[d][node]
                /\ \A x \in Tree \ {node, temp} :
                     child'[d][x] = IF child[d][x] = node THEN temp
                                    ELSE IF child[d][x] = temp THEN o ELSE child[d][x]
    BY <1>2, <1>3, <1>7, <1>8, <1>9, <1>10
  <1>12. \A d \in Sides : d1[d][temp] = IF child[d][node] = temp THEN o ELSE child[d][node]
    BY <1>2, <1>3, <1>7, <1>8
  <1>13. /\ p1 \in [Places -> Places \cup {Null}] /\ p1[temp] = p
         /\ p1[o] = IF q = node THEN temp ELSE q
         /\ \A x \in Places \ {temp, o} : p1[x] = parent[x]
    <2>1. p1 = [parent EXCEPT ![o] = IF q = node THEN temp ELSE q, ![temp] = p]
      BY DEF o, p, q
    <2>2. o \in Places /\ temp \in Places /\ q \in Places /\ p \in Places \cup {Null} /\ o /= temp
      BY <1>2, <1>3 DEF p
    <2> HIDE DEF p1
    <2> QED BY <1>2, <2>1, <2>2
  <1> HIDE DEF p1
  <1>14. /\ parent' \in [Places -> Places \cup {Null}]
         /\ \A x \in Places \ {node} :
              parent'[x] = IF x \in {d1[s][temp] : s \in Sides} \ {Sentinel} THEN temp ELSE p1[x]
    <2>1. temp \in Places
      BY <1>2, <1>3
    <2> QED BY <1>1, <1>13, <2>1
  <1>15. \A d \in Sides : child[d][node] /= Sentinel => parent[child[d][node]] = node
    BY <1>2, OneParent DEF AtSubst
  <1>16. \A d \in Sides : child[d][node] /= node
    BY <1>2, OneParent DEF AtSubst
  <1>17. parent'[temp] = p
    <2>1. \A d \in Sides : d1[d][temp] /= temp
      BY <1>3, <1>12
    <2> QED BY <1>2, <1>3, <1>13, <1>14, <2>1
  <1>18. parent'[o] = IF q = node THEN temp ELSE q
    <2>1. o \in Places \ {node}
      BY <1>2, <1>3
    <2>2. CASE \E d \in Sides : d1[d][temp] = o /\ o /= Sentinel
      <3>1. PICK d \in Sides : d1[d][temp] = o /\ o /= Sentinel
        BY <2>2
      <3>2. child[d][node] = temp
        BY <1>2, <1>3, <1>12, <1>15, <3>1
      <3>3. q = node
        BY <1>2, <1>4, <3>2
      <3> QED BY <1>14, <2>1, <2>2, <3>3
    <2>3. CASE ~\E d \in Sides : d1[d][temp] = o /\ o /= Sentinel
      BY <1>13, <1>14, <2>1, <2>3
    <2> QED BY <2>2, <2>3
  <1>19. ASSUME NEW x \in Tree \ {node, temp, o}
         PROVE  parent'[x] = IF \E d \in Sides : child[d][node] = x THEN temp ELSE parent[x]
    <2>1. x \in Places \ {node} /\ x /= Sentinel
      BY <1>2
    <2>2. (\E d \in Sides : child[d][node] = x) <=> \E d \in Sides : d1[d][temp] = x
      BY <1>12
    <2> QED BY <1>13, <1>14, <2>1, <2>2
  <1>20. root' = (IF node = root THEN temp ELSE root) /\ root' \in Places
    BY <1>1, <1>2, <1>3 DEF RootFor
  <1> QED BY <1>1, <1>10, <1>11, <1>14, <1>17, <1>18, <1>19, <1>20, Zenon DEF o, p, q

LEMMA SubstLinked == ASSUME AtSubst, Substitute PROVE Linked'
  <1> DEFINE o == Orphan
             q == parent[temp]
  <1>1. /\ Sentinel \notin Tree /\ node \in Tree
        /\ \A x \in Tree, d \in Sides : /\ child[d][x] \in Tree \cup {Sentinel}
                                        /\ child[d][x] /= Sentinel => parent[child[d][x]] = x
        /\ \A x \in Tree \ {root} : parent[x] \in Tree /\ \E d \in Sides : child[d][parent[x]] = x
    BY UnderFacts DEF AtSubst, Core, Linked
  <1>2. child["left"][temp] = Sentinel /\ Remove
    BY SubstFacts
  <1>3. /\ temp \in Tree \ {node, root} /\ q \in Tree \ {temp}
        /\ node /= root => parent[node] \notin {node, temp}
        /\ o \in Tree \cup {Sentinel} /\ o \notin {node, temp, root}
        /\ o /= Sentinel => parent[o] = temp
        /\ \A s \in Sides : child[s][temp] \in {o, Sentinel}
        /\ o = child["right"][temp] /\ "right" \in Sides
    BY <1>2, SubstPlace DEF Sides
  <1>4. /\ root' = IF node = root THEN temp ELSE root
        /\ \A d \in Sides :
             /\ child'[d][temp] = IF child[d][node] = temp THEN o ELSE child[d][node]
             /\ \A x \in Tree \ {node, temp} :
                  child'[d][x] = IF child[d][x] = node THEN temp
                                 ELSE IF child[d][x] = temp THEN o ELSE child[d][x]
        /\ parent'[temp] = parent[node]
        /\ parent'[o] = IF q = node THEN temp ELSE q
        /\ \A x \in Tree \ {node, temp, o} :
             parent'[x] = IF \E d \in Sides : child[d][node] = x THEN temp ELSE parent[x]
    BY SubstFacts
  <1>5. Tree' = Tree \ {node}
    BY <1>2, RemoveFacts DEF AtSubst, Core, Ordered
  <1> HIDE DEF o, q
  <1>6. \A d \in Sides : child[d][node] /= node /\ child[d][temp] /= temp
    BY <1>1, <1>3, OneParent DEF AtSubst
  <1>7. ASSUME NEW x \in Tree', NEW d \in Sides
        PROVE  /\ child'[d][x] \in Tree' \cup {Sentinel}
               /\ child'[d][x] /= Sentinel => parent'[child'[d][x]] = x
    <2>1. CASE x = temp
      <3>1. CASE child[d][node] = temp
        <4>1. q = node
          BY <1>1, <1>3, <3>1 DEF q
        <4> QED BY <1>3, <1>4, <1>5, <2>1, <3>1, <4>1
      <3>2. CASE child[d][node] /= temp
        <4>1. child'[d][x] = child[d][node] /\ child[d][node] \in Tree' \cup {Sentinel}
          BY <1>1, <1>4, <1>5, <1>6, <2>1, <3>2
        <4>2. ASSUME child[d][node] /= Sentinel PROVE parent'[child[d][node]] = temp
          <5>1. parent[child[d][node]] = node /\ child[d][node] /= o
            BY <1>1, <1>3, <4>2
          <5>2. child[d][node] \in Tree \ {node, temp, o}
            BY <1>1, <1>6, <3>2, <4>2, <5>1
          <5> QED BY <1>4, <5>2
        <4> QED BY <2>1, <4>1, <4>2
      <3> QED BY <3>1, <3>2
    <2>2. CASE x /= temp /\ child[d][x] = node
      <3>1. node /= root /\ parent[node] = x
        <4>1. child[d][x] /= Sentinel /\ x \in Tree
          BY <1>1, <1>5, <2>2
        <4>2. child[d][x] /= root /\ parent[child[d][x]] = x
          BY <4>1, OneParent DEF AtSubst
        <4> QED BY <2>2, <4>2
      <3> QED BY <1>1, <1>3, <1>4, <1>5, <2>2, <3>1
    <2>3. CASE x /= temp /\ child[d][x] = temp
      <3>1. q = x /\ x /= node
        BY <1>1, <1>3, <1>5, <2>3 DEF q
      <3>2. child'[d][x] = o
        BY <1>1, <1>3, <1>4, <1>5, <2>3
      <3> QED BY <1>1, <1>3, <1>4, <1>5, <3>1, <3>2
    <2>4. CASE x /= temp /\ child[d][x] \notin {node, temp}
      <3>1. child'[d][x] = child[d][x] /\ child[d][x] \in Tree' \cup {Sentinel}
        BY <1>1, <1>4, <1>5, <2>4
      <3>2. ASSUME child[d][x] /= Sentinel PROVE parent'[child[d][x]] = x
        <4>1. parent[child[d][x]] = x /\ child[d][x] /= o
          BY <1>1, <1>3, <1>5, <2>4, <3>2
        <4>2. child[d][x] \in Tree \ {node, temp, o} /\ ~\E e \in Sides : child[e][node] = child[d][x]
          BY <1>1, <1>5, <2>4, <3>1, <3>2, <4>1
        <4> QED BY <1>4, <4>1, <4>2
      <3> QED BY <3>1, <3>2
    <2> QED BY <2>1, <2>2, <2>3, <2>4
  <1>8. ASSUME NEW x \in Tree' \ {root'}
        PROVE  parent'[x] \in Tree' /\ \E d \in Sides : child'[d][parent'[x]] = x
    <2>1. CASE x = temp
      <3>1. node /= root /\ parent[node] \in Tree \ {node, temp}
        BY <1>1, <1>3, <1>4, <2>1
      <3>2. PICK d \in Sides : child[d][parent[node]] = node
        BY <1>1, <3>1
      <3> QED BY <1>4, <1>5, <2>1, <3>1, <3>2
    <2>2. CASE x = o /\ q = node
      <3>1. PICK d \in Sides : child[d][node] = temp
        BY <1>1, <1>3, <2>2 DEF q
      <3> QED BY <1>3, <1>4, <1>5, <2>2, <3>1
    <2>3. CASE x = o /\ q /= node
      <3>1. PICK d \in Sides : child[d][q] = temp
        BY <1>1, <1>3 DEF q
      <3>2. child'[d][q] = o /\ parent'[x] = q
        BY <1>3, <1>4, <2>3, <3>1
      <3> QED BY <1>3, <1>5, <2>3, <3>2
    <2>4. CASE x \notin {temp, o} /\ \E d \in Sides : child[d][node] = x
      <3>1. PICK d \in Sides : child[d][node] = x
        BY <2>4
      <3>2. child'[d][temp] = x /\ parent'[x] = temp
        BY <1>4, <1>5, <2>4, <3>1
      <3> QED BY <1>3, <1>5, <3>2
    <2>5. CASE x \notin {temp, o} /\ ~\E d \in Sides : child[d][node] = x
      <3>1. x \in Tree \ {root} /\ parent'[x] = parent[x] /\ parent[x] \in Tree /\ x /= node
        BY <1>1, <1>4, <1>5, <2>5
      <3>2. PICK d \in Sides : child[d][parent[x]] = x
        BY <1>1, <3>1
      <3>3. parent[x] /= node /\ parent[x] /= temp
        BY <1>1, <1>3, <2>5, <3>1, <3>2
      <3>4. child'[d][parent[x]] = x
        BY <1>4, <2>5, <3>1, <3>2, <3>3
      <3> QED BY <1>5, <3>1, <3>3, <3>4
    <2> QED BY <2>1, <2>2, <2>3, <2>4, <2>5
  <1> QED BY <1>7, <1>8 DEF Linked

\* What Substitute leaves of a subtree, and the node whose subtree it is: temp
\* stands where node stood.
Left(S) == {w \in S : IF node \in S THEN w /= node ELSE w /= temp}
From(x) == IF x = temp THEN node ELSE x

LEMMA SubstUnder ==
    ASSUME AtSubst, Substitute
    PROVE  /\ Tree' = Tree \ {node} /\ under'[Sentinel] = {} /\ under' \in [Places -> SUBSET Nodes]
           /\ \A x \in Tree \ {node} :
                /\ From(x) \in Tree \ {temp} /\ under'[x] = Left(under[From(x)])
                /\ \A d \in Sides : under'[child'[d][x]] = Left(under[child[d][From(x)]])
  <1> DEFINE o == Orphan
  <1>1. /\ child["left"][temp] = Sentinel /\ Remove
        /\ \A d \in Sides :
             /\ child'[d][temp] = IF child[d][node] = temp THEN o ELSE child[d][node]
             /\ \A x \in Tree \ {node, temp} :
                  child'[d][x] = IF child[d][x] = node THEN temp
                                 ELSE IF child[d][x] = temp THEN o ELSE child[d][x]
    BY SubstFacts
  <1>2. /\ temp \in Tree \ {node} /\ o \in Tree \cup {Sentinel} /\ o \notin {node, temp}
        /\ under[temp] = {temp} \cup under[o] /\ temp \notin under[o] /\ node \notin under[temp]
    BY <1>1, SubstPlace
  <1>3. /\ Sentinel \notin Tree /\ node \in Tree /\ Tree \cup {Sentinel} \subseteq Places /\ Tree \subseteq Nodes
        /\ under[Sentinel] = {} /\ node \in under[node]
        /\ \A x \in Tree, d \in Sides : child[d][x] \in Tree \cup {Sentinel}
        /\ \A d \in Sides : node /= child[d][node]
    <2>1. under[Sentinel] = {} /\ node \in under[node] /\ \A d \in Sides : node \notin under[child[d][node]]
      BY UnderFacts DEF AtSubst
    <2> QED BY <2>1, UnderFacts DEF AtSubst, Places
  <1>4. Tree' = Tree \ {node}
    BY <1>1, RemoveFacts DEF AtSubst, Core, Ordered
  <1>5. under' = [n \in Places |-> IF n = node THEN {}
                                   ELSE IF n = temp THEN under[node] \ {node}
                                   ELSE IF node \in under[n] THEN under[n] \ {node}
                                   ELSE under[n] \ {temp}]
    BY <1>1, Zenon DEF Remove
  <1> HIDE DEF o
  <1>6. /\ under'[temp] = Left(under[node])
        /\ \A x \in Places \ {node, temp} : under'[x] = Left(under[x])
    <2>1. under'[temp] = under[node] \ {node}
      BY <1>2, <1>3, <1>5
    <2>2. \A x \in Places \ {node, temp} :
              /\ node \in under[x] => under'[x] = under[x] \ {node}
              /\ node \notin under[x] => under'[x] = under[x] \ {temp}
      BY <1>5
    <2>3. \A S : /\ node \in S => Left(S) = S \ {node}
                 /\ node \notin S => Left(S) = S \ {temp}
      BY DEF Left
    <2> QED BY <1>3, <2>1, <2>2, <2>3
  <1>7. under' \in [Places -> SUBSET Nodes]
    <2>1. under \in [Places -> SUBSET Nodes]
      BY DEF AtSubst, Core, TypeOK
    <2> QED BY <1>3, <1>5, <2>1
  <1>8. Left({}) = {} /\ under'[Sentinel] = {} /\ Left(under[Sentinel]) = {}
    BY <1>2, <1>3, <1>6 DEF Left
  <1>9. under'[o] = Left(under[temp])
    <2>1. under'[o] = Left(under[o])
      BY <1>2, <1>3, <1>6
    <2> QED BY <1>2, <2>1 DEF Left
  <1>10. ASSUME NEW x \in Tree \ {node}
         PROVE  /\ From(x) \in Tree \ {temp} /\ under'[x] = Left(under[From(x)])
                /\ \A d \in Sides : under'[child'[d][x]] = Left(under[child[d][From(x)]])
    <2>1. CASE x = temp
      <3>1. From(x) = node
        BY <2>1 DEF From
      <3>2. ASSUME NEW d \in Sides PROVE under'[child'[d][x]] = Left(under[child[d][node]])
        <4>1. CASE child[d][node] = temp
          BY <1>1, <1>9, <2>1, <4>1
        <4>2. CASE child[d][node] /= temp
          BY <1>1, <1>3, <1>6, <2>1, <4>2
        <4> QED BY <4>1, <4>2
      <3> QED BY <1>2, <1>3, <1>6, <2>1, <3>1, <3>2
    <2>2. CASE x /= temp
      <3>1. From(x) = x
        BY <2>2 DEF From
      <3>2. ASSUME NEW d \in Sides PROVE under'[child'[d][x]] = Left(under[child[d][x]])
        <4>1. CASE child[d][x] = node
          BY <1>1, <1>6, <2>2, <4>1
        <4>2. CASE child[d][x] = temp
          BY <1>1, <1>2, <1>9, <2>2, <4>2
        <4>3. CASE child[d][x] \notin {node, temp}
          BY <1>1, <1>3, <1>6, <2>2, <4>3
        <4> QED BY <4>1, <4>2, <4>3
      <3> QED BY <1>3, <1>6, <2>2, <3>1, <3>2
    <2> QED BY <2>1, <2>2
  <1> QED BY <1>4, <1>7, <1>8, <1>10

LEMMA SubstNested == ASSUME AtSubst, Substitute PROVE Nested'
  <1> DEFINE o == Orphan
             q == parent[temp]
  <1>1. /\ Tree' = Tree \ {node} /\ under'[Sentinel] = {}
        /\ \A x \in Tree \ {node} :
             /\ From(x) \in Tree \ {temp} /\ under'[x] = Left(under[From(x)])
             /\ \A d \in Sides : under'[child'[d][x]] = Left(under[child[d][From(x)]])
    BY SubstUnder
  <1>2. /\ Sentinel \notin Tree /\ node \in Tree /\ root \in Tree
        /\ under[root] = Tree
        /\ \A n \in Tree : n \in under[n] /\ under[n] \subseteq Tree
        /\ \A n \in Tree, s \in Sides :
             /\ under[n] = {n} \cup under[child[s][n]] \cup under[child[Other(s)][n]]
             /\ n \notin under[child[s][n]]
             /\ under[child[s][n]] \cap under[child[Other(s)][n]] = {}
        /\ \A n, m \in Tree : n \in under[m] => under[n] \subseteq under[m]
    BY UnderFacts DEF AtSubst
  <1>3. \A x \in Tree \ {root}, y \in Tree : x \in under[y] /\ x /= y => parent[x] \in under[y]
    BY Zenon DEF AtSubst, Core, Nested
  <1>4. /\ child["left"][temp] = Sentinel
        /\ root' = IF node = root THEN temp ELSE root
        /\ parent'[temp] = parent[node]
        /\ parent'[o] = IF q = node THEN temp ELSE q
        /\ \A x \in Tree \ {node, temp, o} :
             parent'[x] = IF \E d \in Sides : child[d][node] = x THEN temp ELSE parent[x]
    BY SubstFacts
  <1>5. /\ temp \in Tree \ {node, root} /\ q \in Tree \ {temp} /\ temp \in under[node]
        /\ node /= root => parent[node] \notin {node, temp}
        /\ o \in Tree \cup {Sentinel} /\ o \notin {node, temp, root}
        /\ o /= Sentinel => parent[o] = temp
        /\ \A s \in Sides : child[s][temp] \in {o, Sentinel}
    BY <1>4, SubstPlace
  <1> HIDE DEF o, q
  <1>6. \A y \in Tree : node \in under[y] => temp \in under[y]
    BY <1>2, <1>5
  <1>7. under'[root'] = Tree' /\ root' \in Tree'
    <2>1. root' \in Tree \ {node} /\ From(root') = root
      BY <1>2, <1>4, <1>5 DEF From
    <2>2. Left(Tree) = Tree \ {node}
      BY <1>2 DEF Left
    <2> QED BY <1>1, <1>2, <2>1, <2>2
  <1>8. ASSUME NEW x \in Tree', NEW s \in Sides
        PROVE  /\ under'[x] = {x} \cup under'[child'[s][x]] \cup under'[child'[Other(s)][x]]
               /\ x \notin under'[child'[s][x]]
               /\ under'[child'[s][x]] \cap under'[child'[Other(s)][x]] = {}
    <2> DEFINE z == From(x)
               A == under[child[s][z]]
               B == under[child[Other(s)][z]]
    <2>1. Other(s) \in Sides /\ z \in Tree \ {temp} /\ x \in Tree \ {node}
      BY <1>1, SidesFacts
    <2>2. under'[x] = Left(under[z]) /\ under'[child'[s][x]] = Left(A) /\ under'[child'[Other(s)][x]] = Left(B)
      BY <1>1, <2>1
    <2>3. under[z] = {z} \cup A \cup B /\ z \notin A /\ z \notin B /\ A \cap B = {}
      BY <1>2, <2>1, SidesFacts
    <2>4. (node \in A => temp \in A) /\ (node \in B => temp \in B)
      <3>1. \A d \in Sides : child[d][z] \in Tree \/ under[child[d][z]] = {}
        BY <2>1, UnderFacts DEF AtSubst
      <3> QED BY <1>6, <2>1, <3>1
    <2>5. z = (IF x = temp THEN node ELSE x) /\ (z = node => temp \in A \cup B) /\ node /= temp
      BY <1>5, <2>1, <2>3 DEF From
    <2> HIDE DEF z, A, B
    <2>6. /\ Left(under[z]) = {x} \cup Left(A) \cup Left(B)
          /\ x \notin Left(A) /\ Left(A) \cap Left(B) = {}
      <3>1. CASE z = node
        <4>1. x = temp /\ node \notin A /\ node \notin B
          BY <2>1, <2>3, <2>5, <3>1
        <4>2. Left(A) = A \ {temp} /\ Left(B) = B \ {temp} /\ Left(under[z]) = under[z] \ {node}
          BY <2>3, <3>1, <4>1 DEF Left
        <4> QED BY <2>3, <2>5, <3>1, <4>1, <4>2
      <3>2. CASE z /= node /\ node \in A
        <4>1. x = z /\ node \notin B /\ temp \notin B /\ x \notin {node, temp}
          BY <2>1, <2>3, <2>4, <2>5, <3>2
        <4>2. Left(A) = A \ {node} /\ Left(B) = B /\ Left(under[z]) = under[z] \ {node}
          BY <2>3, <3>2, <4>1 DEF Left
        <4> QED BY <2>3, <3>2, <4>1, <4>2
      <3>3. CASE z /= node /\ node \in B
        <4>1. x = z /\ node \notin A /\ temp \notin A /\ x \notin {node, temp}
          BY <2>1, <2>3, <2>4, <2>5, <3>3
        <4>2. Left(B) = B \ {node} /\ Left(A) = A /\ Left(under[z]) = under[z] \ {node}
          BY <2>3, <3>3, <4>1 DEF Left
        <4> QED BY <2>3, <3>3, <4>1, <4>2
      <3>4. CASE z /= node /\ node \notin A /\ node \notin B
        <4>1. x = z /\ x \notin {node, temp} /\ node \notin under[z]
          BY <2>1, <2>3, <2>5, <3>4
        <4>2. Left(A) = A \ {temp} /\ Left(B) = B \ {temp} /\ Left(under[z]) = under[z] \ {temp}
          BY <3>4, <4>1 DEF Left
        <4> QED BY <2>3, <4>1, <4>2
      <3> QED BY <3>1, <3>2, <3>3, <3>4
    <2> QED BY <2>2, <2>6
  <1>9. ASSUME NEW x \in Tree', NEW y \in Tree', x \in under'[y] PROVE under'[x] \subseteq under'[y]
    <2> DEFINE z == From(y)
    <2>1. z \in Tree \ {temp} /\ x \in Left(under[z]) /\ under'[y] = Left(under[z])
      BY <1>1, <1>9
    <2>2. From(x) \in Tree /\ under'[x] = Left(under[From(x)])
      BY <1>1
    <2> HIDE DEF z
    <2>3. CASE x = temp
      <3>1. From(x) = node /\ node \in under[z]
        BY <2>1, <2>3 DEF From, Left
      <3>2. under[node] \subseteq under[z] /\ node \in under[node]
        BY <1>2, <2>1, <3>1
      <3> QED BY <2>1, <2>2, <3>1, <3>2 DEF Left
    <2>4. CASE x /= temp
      <3>1. From(x) = x /\ x \in under[z]
        BY <2>1, <2>4 DEF From, Left
      <3>2. under[x] \subseteq under[z]
        BY <1>2, <2>1, <2>2, <3>1
      <3>3. node \in under[x] => temp \in under[x]
        BY <1>6, <2>2, <3>1
      <3> QED BY <1>5, <2>1, <2>2, <3>1, <3>2, <3>3 DEF Left
    <2> QED BY <2>3, <2>4
  <1>10. ASSUME NEW x \in Tree' \ {root'}, NEW y \in Tree', x \in under'[y], x /= y
         PROVE  parent'[x] \in under'[y]
    <2> DEFINE z == From(y)
    <2>1. /\ z \in Tree \ {temp} /\ x \in Left(under[z]) /\ under'[y] = Left(under[z])
          /\ x \in Tree \ {node}
      BY <1>1, <1>10
    <2>2. (y = temp => z = node) /\ (y /= temp => z = y /\ z /= node) /\ x \in under[z]
      BY <1>1, <2>1 DEF From, Left
    <2>3. x /= z
      BY <1>10, <2>1, <2>2
    <2> HIDE DEF z
    <2>4. CASE x = temp
      <3>1. node \in under[z] /\ z /= node /\ node /= root
        BY <1>4, <1>10, <2>1, <2>2, <2>4 DEF Left
      <3>2. parent[node] \in under[z] /\ parent[node] /= node
        BY <1>2, <1>3, <1>5, <2>1, <3>1
      <3> QED BY <1>4, <2>1, <2>4, <3>1, <3>2 DEF Left
    <2>5. CASE x = o
      <3>1. parent[o] = temp /\ x \in Tree \ {root}
        BY <1>2, <1>5, <2>1, <2>5
      <3>2. temp \in under[z]
        BY <1>3, <2>1, <2>2, <2>3, <2>5, <3>1
      <3>3. q \in under[z]
        BY <1>3, <1>5, <2>1, <3>2 DEF q
      <3>4. CASE q = node
        BY <1>4, <1>5, <2>1, <2>5, <3>2, <3>3, <3>4 DEF Left
      <3>5. CASE q /= node
        BY <1>4, <1>5, <2>1, <2>5, <3>3, <3>5 DEF Left
      <3> QED BY <3>4, <3>5
    <2>6. CASE x \notin {temp, o} /\ \E d \in Sides : child[d][node] = x
      <3>1. PICK d \in Sides : child[d][node] = x
        BY <2>6
      <3>2. parent[x] = node /\ x /= root
        BY <1>2, <2>1, <3>1, OneParent DEF AtSubst
      <3>3. node \in under[z]
        BY <1>3, <2>1, <2>2, <2>3, <3>2
      <3>4. temp \in under[z]
        BY <1>6, <2>1, <3>3
      <3> QED BY <1>4, <1>5, <2>1, <2>6, <3>3, <3>4 DEF Left
    <2>7. CASE x \notin {temp, o} /\ ~\E d \in Sides : child[d][node] = x
      <3>1. x \in Tree \ {root} /\ parent'[x] = parent[x]
        BY <1>2, <1>4, <1>10, <2>1, <2>7
      <3>2. PICK d \in Sides : child[d][parent[x]] = x /\ parent[x] \in Tree
        BY <3>1, Zenon DEF AtSubst, Core, Linked
      <3>3. parent[x] \notin {node, temp}
        BY <1>2, <1>5, <2>7, <3>1, <3>2
      <3>4. parent[x] \in under[z]
        BY <1>3, <2>1, <2>2, <2>3, <3>1
      <3> QED BY <2>1, <3>1, <3>3, <3>4 DEF Left
    <2> QED BY <2>4, <2>5, <2>6, <2>7
  <1>11. ASSUME NEW x \in Tree'
         PROVE  /\ under'[x] = {x} \cup under'[child'["left"][x]] \cup under'[child'["right"][x]]
                /\ \A d \in Sides : x \notin under'[child'[d][x]]
                /\ under'[child'["left"][x]] \cap under'[child'["right"][x]] = {}
    <2>1. "left" \in Sides /\ Other("left") = "right"
      BY DEF Sides, Other
    <2> QED BY <1>8, <2>1
  <1> QED BY <1>1, <1>7, <1>9, <1>10, <1>11 DEF Nested

LEMMA SubstOrdered == ASSUME AtSubst, Substitute PROVE Ordered'
  <1>1. /\ Tree' = Tree \ {node} /\ under'[Sentinel] = {}
        /\ \A x \in Tree \ {node} :
             /\ From(x) \in Tree \ {temp} /\ under'[x] = Left(under[From(x)])
             /\ \A d \in Sides : under'[child'[d][x]] = Left(under[child[d][From(x)]])
    BY SubstUnder
  <1>2. child["left"][temp] = Sentinel /\ Remove
    BY SubstFacts
  <1>3. /\ temp \in Tree \ {node} /\ temp \in under[node]
        /\ \A x \in Tree : Earlier(node, x) /\ x /= temp => Earlier(temp, x)
        /\ Earlier(node, temp)
    BY <1>2, SubstPlace
  <1>4. /\ node \in Tree /\ \A n \in Tree : n \in under[n] /\ under[n] \subseteq Tree
        /\ \A n, m \in Tree : n \in under[m] => under[n] \subseteq under[m]
        /\ \A n \in Tree, d \in Sides : child[d][n] \in Tree \/ under[child[d][n]] = {}
    BY UnderFacts DEF AtSubst
  <1>5. /\ Distinct(order')
        /\ \A s \in Sides : \A x, y \in Tree' : TowardIn(order', s, x, y) <=> Toward(s, x, y)
    BY <1>2, RemoveFacts DEF AtSubst, Core, Ordered
  <1>6. OrderedBy
    BY OrderedToward, Zenon DEF AtSubst
  <1>7. \A d \in Sides :
           /\ \A x, y : Toward(d, x, y) => ~Toward(d, y, x)
           /\ \A x, y, z : Toward(d, x, y) /\ Toward(d, y, z) => Toward(d, x, z)
           /\ \A x, y \in Tree : x = y \/ Toward(d, x, y) \/ Toward(d, y, x)
           /\ \A x, y : Toward(Other(d), x, y) <=> Toward(d, y, x)
           /\ Other(d) \in Sides
    BY <1>6, TowardOrder, SidesFacts DEF AtSubst, Core, OrderedBy
  <1>8. /\ \A x, y : Toward("left", x, y) <=> Earlier(x, y)
        /\ \A x, y : Toward("right", x, y) <=> Earlier(y, x)
        /\ "left" \in Sides /\ "right" \in Sides /\ \A d \in Sides : d = "left" \/ d = "right"
    BY DEF Toward, TowardIn, Earlier, Sides
  <1>9. ASSUME NEW z \in Tree', NEW d \in Sides, NEW x \in under'[child'[d][z]]
        PROVE  TowardIn(order', d, x, z)
    <2> DEFINE y == From(z)
               c == child[d][y]
    <2>1. /\ y \in Tree \ {temp} /\ x \in Left(under[c])
          /\ z = temp => y = node
          /\ z /= temp => y = z
      BY <1>1, <1>9 DEF From
    <2>2. x \in under[c] /\ (c \in Tree \/ under[c] = {})
      BY <1>4, <2>1 DEF Left
    <2> HIDE DEF y
    <2>3. Toward(d, x, y) /\ x \in Tree
      BY <1>4, <1>6, <2>1, <2>2 DEF OrderedBy
    <2> HIDE DEF c
    <2>4. x /= node
      <3>1. CASE y = node
        BY <1>7, <2>3, <3>1
      <3>2. CASE y /= node
        BY <2>1 DEF Left
      <3> QED BY <3>1, <3>2
    <2>5. Toward(d, x, z)
      <3>1. CASE z /= temp
        BY <2>1, <2>3, <3>1
      <3>2. CASE z = temp /\ d = "left"
        BY <1>3, <1>7, <1>8, <2>1, <2>3, <3>2
      <3>3. CASE z = temp /\ d = "right"
        <4>1. x /= temp
          <5>1. node \notin under[c]
            <6>1. y = node /\ ~Toward(d, node, node)
              BY <1>7, <2>1, <3>3
            <6> QED BY <1>6, <1>4, <6>1 DEF c, OrderedBy
          <5> QED BY <2>1, <5>1 DEF Left
        <4> QED BY <1>3, <1>8, <2>1, <2>3, <3>3, <4>1
      <3> QED BY <1>8, <3>1, <3>2, <3>3
    <2>6. x \in Tree'
      BY <1>1, <2>3, <2>4
    <2> QED BY <1>5, <2>5, <2>6
  <1>10. ASSUME NEW y \in Tree', NEW d \in Sides, NEW x \in under'[y], NEW w \in Tree' \ under'[y],
                TowardIn(order', d, w, y)
         PROVE  TowardIn(order', d, w, x)
    <2> DEFINE z == From(y)
    <2>1. /\ z \in Tree \ {temp} /\ x \in Left(under[z]) /\ w \notin Left(under[z])
          /\ y = temp => z = node
          /\ y /= temp => z = y
      BY <1>1, <1>10 DEF From
    <2>2. y /= node /\ w \in Tree \ {node} /\ y \in Tree
      BY <1>1
    <2>3. Toward(d, w, y)
      BY <1>5, <1>10
    <2> HIDE DEF z
    <2>4. x \in under[z] /\ x \in Tree
      BY <1>4, <2>1 DEF Left
    <2>5. x /= node
      <3>1. CASE z = node
        BY <1>4, <2>1, <3>1 DEF Left
      <3>2. CASE z /= node
        BY <2>1 DEF Left
      <3> QED BY <3>1, <3>2
    <2>6. CASE w \notin under[z]
      <3>1. Toward(d, w, z)
        <4>1. CASE y /= temp
          BY <2>1, <2>3, <4>1
        <4>2. CASE y = temp
          <5>1. SUFFICES ASSUME Toward(d, node, w) PROVE FALSE
            BY <1>4, <1>7, <2>1, <2>2, <4>2
          <5>2. Toward(d, temp, w)
            <6>1. w \in Tree \ under[node] /\ Toward(Other(d), w, node)
              BY <1>7, <2>1, <2>2, <2>6, <4>2, <5>1
            <6>2. Toward(Other(d), w, temp)
              BY <1>3, <1>4, <1>6, <1>7, <6>1 DEF OrderedBy
            <6> QED BY <1>7, <6>2
          <5> QED BY <1>7, <2>3, <4>2, <5>2
        <4> QED BY <4>1, <4>2
      <3> QED BY <1>1, <1>5, <1>6, <2>1, <2>2, <2>4, <2>5, <2>6, <3>1 DEF OrderedBy
    <2>7. CASE w \in under[z]
      <3>1. w = temp /\ node \notin under[z] /\ x /= temp
        BY <2>1, <2>2, <2>7 DEF Left
      <3>2. z = y /\ y /= temp /\ z /= node
        BY <1>4, <2>1, <3>1
      <3>3. Earlier(node, y)
        <4>1. SUFFICES ASSUME Toward("right", node, y) PROVE FALSE
          BY <1>4, <1>7, <1>8, <2>2, <3>2
        <4>2. Toward("right", node, temp)
          BY <1>4, <1>6, <1>8, <2>1, <2>7, <3>1, <3>2, <4>1 DEF OrderedBy
        <4> QED BY <1>3, <1>7, <1>8, <4>2
      <3>4. Earlier(node, x)
        BY <1>4, <1>6, <1>8, <2>1, <2>4, <3>1, <3>2, <3>3 DEF OrderedBy
      <3>5. Earlier(temp, x) /\ Earlier(temp, y)
        BY <1>3, <2>2, <2>4, <3>1, <3>2, <3>3, <3>4
      <3>6. d = "left"
        BY <1>7, <1>8, <2>3, <3>1, <3>5
      <3> QED BY <1>1, <1>5, <1>8, <2>2, <2>4, <2>5, <3>1, <3>5, <3>6
    <2> QED BY <2>6, <2>7
  <1>11. Ordered' <=> OrderedBy'
    BY OrderedToward, PTL
  <1> QED BY <1>5, <1>9, <1>10, <1>11 DEF OrderedBy, Toward

-----------------------------------------------------------------------------
(* Colours during an insertion.                                            *)

LEMMA ColourTypes ==
    ASSUME TypeOK, RedBlack
    PROVE  /\ red \in [Places -> BOOLEAN] /\ height \in [Places -> Nat]
           /\ ~red[Sentinel] /\ height[Sentinel] = 0
           /\ Nodes \subseteq Places /\ Sentinel \in Places /\ Sentinel \notin Nodes
  BY Constants DEF TypeOK, RedBlack, Places

\* The tree in any step of any loop.
RBCore == Core /\ Ordered /\ RedBlack

\* RedBlack while no black node is missing, link by link.
Whole ==
    /\ pc = "fixup" => temp = root
    /\ red[root] => pc = "rebalance" /\ node = root
    /\ ~red[Sentinel] /\ height[Sentinel] = 0
    /\ \A n \in Tree, s \in Sides :
          /\ height[child[s][n]] \in Nat
          /\ red[n] /\ red[child[s][n]] => pc = "rebalance" /\ node = child[s][n]
          /\ height[n] = height[child[s][n]] + (IF red[child[s][n]] THEN 0 ELSE 1)

LEMMA WholeRedBlack == Whole => RedBlack
  <1> SUFFICES ASSUME Whole PROVE RedBlack
    OBVIOUS
  <1>1. /\ pc = "fixup" => temp = root
        /\ (red[root] => pc = "rebalance" /\ node = root)
        /\ ~red[Sentinel] /\ height[Sentinel] = 0
    BY DEF Whole
  <1>2. ASSUME NEW n \in Tree, NEW s \in Sides
        PROVE  /\ red[n] /\ red[child[s][n]] => pc = "rebalance" /\ node = child[s][n]
               /\ height[n] = Rank(child[s][n]) + (IF Short(n, s) THEN 1 ELSE 0)
    <2>1. /\ height[child[s][n]] \in Nat
          /\ red[n] /\ red[child[s][n]] => pc = "rebalance" /\ node = child[s][n]
          /\ height[n] = height[child[s][n]] + (IF red[child[s][n]] THEN 0 ELSE 1)
      BY DEF Whole
    <2>2. ~Short(n, s)
      BY <1>1 DEF Short
    <2> QED BY <2>1, <2>2 DEF Rank
  <1> QED BY <1>1, <1>2 DEF RedBlack

LEMMA RedBlackWhole ==
    ASSUME Core, RedBlack, pc /= "fixup"
    PROVE  Whole
  <1>1. /\ (red[root] => pc = "rebalance" /\ node = root) /\ ~red[Sentinel] /\ height[Sentinel] = 0
    BY DEF RedBlack
  <1>2. ASSUME NEW n \in Tree, NEW s \in Sides
        PROVE  /\ height[child[s][n]] \in Nat
               /\ red[n] /\ red[child[s][n]] => pc = "rebalance" /\ node = child[s][n]
               /\ height[n] = height[child[s][n]] + (IF red[child[s][n]] THEN 0 ELSE 1)
    <2>1. child[s][n] \in Places
      BY UnderFacts DEF Places
    <2>2. height[child[s][n]] \in Nat
      BY <2>1, ColourTypes DEF Core
    <2>3. ~Short(n, s)
      BY DEF Short
    <2>4. /\ red[n] /\ red[child[s][n]] => pc = "rebalance" /\ node = child[s][n]
          /\ height[n] = Rank(child[s][n]) + (IF Short(n, s) THEN 1 ELSE 0)
      BY DEF RedBlack
    <2> QED BY <2>2, <2>3, <2>4 DEF Rank
  <1> QED BY <1>1, <1>2 DEF Whole

\* Two reds in a row: node and its parent.
LEMMA TwoReds ==
    ASSUME RBCore, Rebalance, node \in Tree, red[node]
    PROVE  LET p == parent[node]
               g == parent[p]
           IN  /\ p \in Tree \ {root, node, g} /\ red[p] /\ g \in Tree \ {node} /\ ~red[g] /\ ~red[root]
               /\ Side(node) \in Sides /\ child[Side(node)][p] = node
               /\ Side(p) \in Sides /\ child[Side(p)][g] = p
               /\ Uncle = child[Other(Side(p))][g] /\ Uncle \in Tree \cup {Sentinel}
               /\ \A x \in Tree, d \in Sides :
                    /\ child[d][x] \in Tree \cup {Sentinel}
                    /\ child[d][x] = node => x = p
                    /\ child[d][x] = p => x = g
                    /\ red[x] /\ red[child[d][x]] => child[d][x] = node
                    /\ height[x] = Rank(child[d][x])
  <1> DEFINE p == parent[node]
             g == parent[p]
  <1>1. pc = "rebalance" /\ node /= root /\ red[p]
    BY DEF Rebalance
  <1>2. \A x \in Tree, d \in Sides :
           /\ child[d][x] \in Tree \cup {Sentinel}
           /\ red[x] /\ red[child[d][x]] => child[d][x] = node
           /\ height[x] = Rank(child[d][x])
    <2> SUFFICES ASSUME NEW x \in Tree, NEW d \in Sides
                 PROVE  /\ child[d][x] \in Tree \cup {Sentinel}
                        /\ red[x] /\ red[child[d][x]] => child[d][x] = node
                        /\ height[x] = Rank(child[d][x])
      OBVIOUS
    <2>1. child[d][x] \in Tree \cup {Sentinel}
      BY UnderFacts DEF RBCore
    <2>2. child[d][x] \in Places
      BY <2>1, UnderFacts DEF RBCore, Places
    <2>3. Rank(child[d][x]) \in Nat
      BY <2>2, ColourTypes DEF RBCore, Core, Rank
    <2>4. ~Short(x, d)
      BY <1>1 DEF Short
    <2> QED BY <1>1, <2>1, <2>3, <2>4 DEF RBCore, RedBlack
  <1>3. ~red[root]
    BY <1>1 DEF RBCore, RedBlack
  <1>4. p \in Tree /\ p /= node /\ Side(node) \in Sides /\ child[Side(node)][p] = node
        /\ \A x \in Tree, d \in Sides : child[d][x] = node => x = p
    BY <1>1, ParentFacts DEF RBCore
  <1>5. p /= root
    BY <1>1, <1>3
  <1>6. g \in Tree /\ g /= p /\ p \in under[g] /\ Side(p) \in Sides /\ child[Side(p)][g] = p
        /\ \A x \in Tree, d \in Sides : child[d][x] = p => x = g
    BY <1>4, <1>5, ParentFacts DEF RBCore
  <1>7. g /= node
    <2>1. node \in under[p] /\ p \notin under[node]
      <3>1. p \notin under[node] /\ node \in under[p]
        BY <1>1, ParentFacts DEF RBCore
      <3> QED BY <3>1
    <2> QED BY <1>6, <2>1
  <1>8. ~red[g]
    BY <1>1, <1>2, <1>4, <1>6
  <1>9. Uncle = child[Other(Side(p))][g] /\ Other(Side(p)) \in Sides
    BY <1>6, SidesFacts DEF Uncle, Grand
  <1>10. Uncle \in Tree \cup {Sentinel}
    BY <1>2, <1>6, <1>9
  <1> HIDE DEF p, g
  <1>11. p \in Tree \ {root, node, g} /\ red[p] /\ g \in Tree \ {node} /\ ~red[g]
    BY <1>1, <1>4, <1>5, <1>6, <1>7, <1>8
  <1> QED BY <1>2, <1>3, <1>4, <1>6, <1>9, <1>10, <1>11, Zenon DEF p, g

LEMMA RecolourColours ==
    ASSUME RBCore, node \in Tree, red[node], Recolour
    PROVE  /\ RedBlack' /\ node' \in Tree' /\ red'[node']
           /\ red' \in [Places -> BOOLEAN] /\ height' \in [Places -> Nat]
  <1> DEFINE p == parent[node]
             g == parent[p]
             u == Uncle
  <1>1. /\ p \in Tree \ {root, node, g} /\ red[p] /\ g \in Tree \ {node} /\ ~red[g] /\ ~red[root]
        /\ Side(p) \in Sides /\ child[Side(p)][g] = p
        /\ u = child[Other(Side(p))][g] /\ u \in Tree \cup {Sentinel}
        /\ \A x \in Tree, d \in Sides :
             /\ child[d][x] \in Tree \cup {Sentinel}
             /\ child[d][x] = node => x = p
             /\ child[d][x] = p => x = g
             /\ red[x] /\ red[child[d][x]] => child[d][x] = node
             /\ height[x] = Rank(child[d][x])
    BY TwoReds, Zenon DEF Recolour
  <1>2. /\ red \in [Places -> BOOLEAN] /\ height \in [Places -> Nat]
        /\ ~red[Sentinel] /\ height[Sentinel] = 0
        /\ Tree \cup {Sentinel} \subseteq Places /\ Sentinel \notin Tree
    <2>1. Tree \subseteq Nodes
      BY UnderFacts DEF RBCore
    <2> QED BY <2>1, ColourTypes DEF RBCore, Core
  <1>3. /\ red[u] /\ pc = "rebalance"
        /\ red' = [red EXCEPT ![p] = FALSE, ![u] = FALSE, ![g] = TRUE]
        /\ height' = [height EXCEPT ![g] = height[g] + 1]
        /\ node' = g /\ pc' = pc /\ root' = root /\ child' = child /\ Tree' = Tree
    BY DEF Recolour, Rebalance, Grand, Shape, Tree
  <1>4. Other(Side(p)) \in Sides /\ \A d \in Sides : d = Side(p) \/ d = Other(Side(p))
    BY <1>1, SidesFacts
  <1>5. u \in Tree /\ u /= root /\ u /= g /\ \A x \in Tree, d \in Sides : child[d][x] = u => x = g
    <2>1. u \in Tree
      BY <1>1, <1>2, <1>3
    <2>2. u /= root /\ u /= g /\ parent[u] = g
      BY <1>1, <1>2, <1>4, <2>1, OneParent DEF RBCore
    <2> QED BY <1>2, <2>1, <2>2, OneParent DEF RBCore
  <1>6. u /= p /\ \A d \in Sides : child[d][g] \in {p, u}
    <2>1. \A d \in Sides : child[d][g] \in {p, u}
      BY <1>1, <1>4
    <2>2. Other(Side(p)) /= Side(p)
      BY <1>1, SidesFacts
    <2>3. child[Side(p)][g] /= Sentinel
      BY <1>1, <1>2
    <2>4. u /= p
      BY <1>1, <1>4, <2>2, <2>3, OneParent DEF RBCore
    <2> QED BY <2>1, <2>4
  <1> HIDE DEF p, g, u
  <1>7. /\ red' \in [Places -> BOOLEAN] /\ height' \in [Places -> Nat]
        /\ \A x \in Tree \cup {Sentinel} :
             /\ red'[x] = IF x = g THEN TRUE ELSE IF x \in {p, u} THEN FALSE ELSE red[x]
             /\ height'[x] = IF x = g THEN height[x] + 1 ELSE height[x]
    <2>1. p \in Places /\ u \in Places /\ g \in Places /\ p /= u /\ p /= g /\ u /= g
      BY <1>1, <1>2, <1>5, <1>6
    <2>2. red' \in [Places -> BOOLEAN] /\ \A x \in Places :
             red'[x] = IF x = g THEN TRUE ELSE IF x \in {p, u} THEN FALSE ELSE red[x]
      BY <1>2, <1>3, <2>1
    <2>3. height' \in [Places -> Nat] /\ \A x \in Places :
             height'[x] = IF x = g THEN height[x] + 1 ELSE height[x]
      <3>1. height[g] + 1 \in Nat
        BY <1>2, <2>1
      <3> QED BY <1>2, <1>3, <2>1, <3>1
    <2> QED BY <1>2, <2>2, <2>3
  <1>8. ASSUME NEW x \in Tree, NEW d \in Sides
        PROVE  /\ red'[x] /\ red'[child[d][x]] => child[d][x] = g
               /\ height'[x] = height'[child[d][x]] + (IF red'[child[d][x]] THEN 0 ELSE 1)
    <2> DEFINE c == child[d][x]
    <2>1. /\ c \in Tree \cup {Sentinel} /\ (c = node => x = p) /\ (c = p => x = g) /\ (c = u => x = g)
          /\ red[x] /\ red[c] => c = node
          /\ height[x] = height[c] + (IF red[c] THEN 0 ELSE 1)
          /\ x = g => c \in {p, u}
      BY <1>1, <1>5, <1>6 DEF Rank
    <2> HIDE DEF c
    <2>2. height[c] \in Nat /\ height[x] \in Nat /\ x \in Tree \cup {Sentinel} /\ g \in Tree
      BY <1>1, <1>2, <2>1
    <2>3. red'[x] /\ red'[c] => c = g
      BY <1>7, <2>1
    <2>4. height'[x] = height'[c] + (IF red'[c] THEN 0 ELSE 1)
      <3>1. CASE x = g
        <4>1. red[c] /\ c /= g /\ c /= Sentinel
          BY <1>1, <1>2, <1>3, <1>5, <2>1, <3>1
        <4>2. height'[x] = height[x] + 1 /\ height'[c] = height[c] /\ ~red'[c]
          BY <1>7, <2>1, <2>2, <3>1, <4>1
        <4> QED BY <2>1, <2>2, <4>1, <4>2
      <3>2. CASE x /= g /\ c = g
        <4>1. height'[x] = height[x] /\ height'[c] = height[c] + 1 /\ red'[c] /\ ~red[c]
          BY <1>1, <1>7, <2>1, <2>2, <3>2
        <4> QED BY <2>1, <2>2, <4>1
      <3>3. CASE x /= g /\ c /= g
        <4>1. height'[x] = height[x] /\ height'[c] = height[c] /\ (red'[c] <=> red[c])
          BY <1>1, <1>2, <1>3, <1>7, <2>1, <2>2, <3>3
        <4> QED BY <2>1, <2>2, <4>1
      <3> QED BY <3>1, <3>2, <3>3
    <2> QED BY <2>3, <2>4 DEF c
  <1>9. /\ ~red'[Sentinel] /\ height'[Sentinel] = 0
        /\ red'[root] => root = g
    <2>1. root \in Tree
      BY <1>1, UnderFacts DEF RBCore
    <2> QED BY <1>1, <1>2, <1>5, <1>7, <2>1
  <1>10. pc' = "rebalance" /\ node' = g /\ root' = root /\ child' = child /\ Tree' = Tree
    BY <1>3
  <1>11. \A x \in Tree, d \in Sides : height'[child[d][x]] \in Nat
    BY <1>1, <1>2, <1>7
  <1>12. Whole'
    BY <1>8, <1>9, <1>10, <1>11 DEF Whole
  <1>13. RedBlack'
    BY <1>12, WholeRedBlack, PTL
  <1>14. g \in Tree /\ red'[g]
    BY <1>1, <1>7
  <1> QED BY <1>7, <1>10, <1>13, <1>14

\* The links of the tree after a rotation.
LEMMA RotateLinks ==
    ASSUME Core, NEW n, NEW s, NEW a, NEW m, NEW i, NEW b, Corner(n, s, a, m, i, b), Rotate(n, s),
           NEW x \in Tree, NEW d \in Sides, NEW c, c = child'[d][x]
    PROVE  /\ c \in Tree \cup {Sentinel}
           /\ \/ x = n /\ d = s /\ c = a
              \/ x = n /\ d = Other(s) /\ c = i
              \/ x = m /\ d = s /\ c = n
              \/ x = m /\ d = Other(s) /\ c = b
              \/ x \notin {n, m} /\ c = m /\ child[d][x] = n
              \/ x \notin {n, m} /\ c \notin {n, m} /\ c = child[d][x]
  <1>1. s \in Sides /\ \A e \in Sides : e = s \/ e = Other(s)
    BY SidesFacts DEF Corner
  <1>2. child[d][x] \in Tree \cup {Sentinel} /\ m \in Tree /\ n \in Tree /\ {a, i, b} \subseteq Tree \cup {Sentinel}
    BY UnderFacts, CornerFacts
  <1>3. /\ child'[s][n] = a /\ child'[Other(s)][n] = i
        /\ child'[s][m] = n /\ child'[Other(s)][m] = b
        /\ \A y \in Tree \ {n, m}, e \in Sides :
             child'[e][y] = IF child[e][y] = n THEN m ELSE child[e][y]
        /\ \A y \in Tree \ {n}, e \in Sides : child[e][y] /= m
    BY RotateFacts
  <1> QED BY <1>1, <1>2, <1>3

LEMMA StraightenColours ==
    ASSUME RBCore, node \in Tree, red[node], Straighten
    PROVE  /\ RedBlack' /\ node' \in Tree' /\ red'[node']
  <1> DEFINE p == parent[node]
             g == parent[p]
             s == Side(p)
             a == child[s][p]
             i == child[s][node]
             b == child[Other(s)][node]
  <1>1. /\ p \in Tree \ {root, node, g} /\ red[p] /\ g \in Tree \ {node} /\ ~red[g] /\ ~red[root]
        /\ Side(node) \in Sides /\ child[Side(node)][p] = node /\ s \in Sides
    BY TwoReds, Zenon DEF Straighten
  <1>2. Core /\ Rotate(p, s) /\ Side(node) /= s /\ node' = p /\ red' = red /\ height' = height
        /\ pc' = "rebalance" /\ node /= Sentinel
    BY UnderFacts DEF Straighten, RBCore, Rebalance
  <1>3. Side(node) = Other(s) /\ Other(s) \in Sides
    BY <1>1, <1>2, SidesFacts
  <1>4. Corner(p, s, a, node, i, b)
    BY <1>1, <1>2, <1>3 DEF Corner
  <1>5. Whole
    BY <1>2, RedBlackWhole DEF RBCore, Straighten, Rebalance
  <1>6. /\ ~red[Sentinel] /\ height[Sentinel] = 0
        /\ \A x \in Tree, d \in Sides :
             /\ height[child[d][x]] \in Nat
             /\ red[x] /\ red[child[d][x]] => node = child[d][x]
             /\ height[x] = height[child[d][x]] + (IF red[child[d][x]] THEN 0 ELSE 1)
    BY <1>5 DEF Whole
  <1>7. node \in Tree /\ node /= p /\ node \notin {a, i, b} /\ parent[node] = p /\ Tree' = Tree /\ root' = root
    BY <1>1, <1>2, <1>4, CornerFacts, RotateFacts
  <1>8. /\ a = child[s][p] /\ i = child[s][node] /\ b = child[Other(s)][node] /\ node = child[Other(s)][p]
    BY <1>1, <1>3
  <1> HIDE DEF p, g, s, a, i, b
  <1>9. ASSUME NEW x \in Tree, NEW d \in Sides, NEW c, c = child'[d][x]
        PROVE  /\ height[c] \in Nat
               /\ red[x] /\ red[c] => c = p
               /\ height[x] = height[c] + (IF red[c] THEN 0 ELSE 1)
    <2>1. /\ \/ x = p /\ d = s /\ c = a
             \/ x = p /\ d = Other(s) /\ c = i
             \/ x = node /\ d = s /\ c = p
             \/ x = node /\ d = Other(s) /\ c = b
             \/ x \notin {p, node} /\ c = node /\ child[d][x] = p
             \/ x \notin {p, node} /\ c \notin {p, node} /\ c = child[d][x]
      BY <1>2, <1>4, <1>9, RotateLinks
    <2>2. /\ height[a] \in Nat /\ ~red[a] /\ height[p] = height[a] + 1
          /\ height[i] \in Nat /\ ~red[i] /\ height[node] = height[i] + 1
          /\ height[b] \in Nat /\ ~red[b] /\ height[node] = height[b] + 1
          /\ height[p] = height[node]
      BY <1>1, <1>3, <1>6, <1>7, <1>8
    <2>3. CASE x \notin {p, node} /\ c = node /\ child[d][x] = p
      <3>1. height[p] \in Nat /\ ~red[x] /\ height[x] = height[p]
        BY <1>1, <1>6, <1>7, <2>3
      <3> QED BY <1>1, <2>2, <2>3, <3>1
    <2>4. CASE x \notin {p, node} /\ c \notin {p, node} /\ c = child[d][x]
      BY <1>6, <2>4
    <2>5. CASE x \in {p, node}
      BY <1>1, <2>1, <2>2, <2>5
    <2> QED BY <2>1, <2>3, <2>4, <2>5
  <1>10. Whole'
    <2>1. pc' = "rebalance" /\ node' = p /\ root' = root /\ Tree' = Tree /\ red' = red /\ height' = height
      BY <1>2, <1>7
    <2> QED BY <1>1, <1>6, <1>9, <2>1 DEF Whole
  <1>11. RedBlack'
    BY <1>10, WholeRedBlack, PTL
  <1> QED BY <1>1, <1>2, <1>7, <1>11

LEMMA RotateUpColours ==
    ASSUME RBCore, node \in Tree, red[node], RotateUp
    PROVE  /\ RedBlack' /\ node' \in Tree' /\ red'[node'] /\ red' \in [Places -> BOOLEAN]
  <1> DEFINE p == parent[node]
             g == parent[p]
             o == Side(p)
             s == Other(o)
             a == child[s][g]
             i == child[s][p]
             b == child[Other(s)][p]
  <1>1. /\ p \in Tree \ {root, node, g} /\ red[p] /\ g \in Tree \ {node} /\ ~red[g] /\ ~red[root]
        /\ child[Side(node)][p] = node /\ o \in Sides /\ child[o][g] = p
        /\ Uncle = a
    BY TwoReds, Zenon DEF RotateUp
  <1>2. Core /\ Rotate(g, s) /\ Side(node) = o /\ node' = node /\ height' = height
        /\ red' = [red EXCEPT ![p] = FALSE, ![g] = TRUE]
        /\ pc' = "rebalance" /\ pc = "rebalance" /\ ~red[a] /\ Sentinel \notin Tree /\ Tree \subseteq Places
        /\ red \in [Places -> BOOLEAN]
    BY <1>1, UnderFacts DEF RotateUp, RBCore, Rebalance, Grand, Core, TypeOK, Places
  <1>3. s \in Sides /\ Other(s) = o /\ s /= o
    BY <1>1, SidesFacts
  <1>4. Corner(g, s, a, p, i, b) /\ b = node
    BY <1>1, <1>2, <1>3 DEF Corner
  <1>5. Whole
    BY <1>2, RedBlackWhole DEF RBCore
  <1>6. /\ ~red[Sentinel] /\ height[Sentinel] = 0
        /\ \A x \in Tree, d \in Sides :
             /\ height[child[d][x]] \in Nat
             /\ red[x] /\ red[child[d][x]] => node = child[d][x]
             /\ height[x] = height[child[d][x]] + (IF red[child[d][x]] THEN 0 ELSE 1)
    BY <1>2, <1>5 DEF Whole
  <1>7. /\ p /= g /\ g \notin {a, i, b} /\ p \notin {a, i, b} /\ Tree' = Tree
        /\ root' = IF g = root THEN p ELSE root
        /\ i /= Sentinel => i /= b
    BY <1>2, <1>4, CornerFacts, RotateFacts
  <1>8. a = child[s][g] /\ i = child[s][p] /\ node = child[o][p] /\ p = child[o][g] /\ (red[node] <=> TRUE)
    BY <1>1, <1>2
  <1>9. i /= node
    BY <1>1, <1>2, <1>4, <1>7
  <1> HIDE DEF p, g, s, o, a, i, b
  <1>10. red' \in [Places -> BOOLEAN] /\ \A x \in Tree \cup {Sentinel} :
            red'[x] = IF x = g THEN TRUE ELSE IF x = p THEN FALSE ELSE red[x]
    <2>1. p \in Places /\ g \in Places /\ Sentinel \in Places
      BY <1>1, <1>2 DEF Places
    <2> QED BY <1>2, <1>7, <2>1
  <1>11. ASSUME NEW x \in Tree, NEW d \in Sides, NEW c, c = child'[d][x]
         PROVE  /\ height[c] \in Nat
                /\ red'[x] /\ red'[c] => c = node
                /\ height[x] = height[c] + (IF red'[c] THEN 0 ELSE 1)
    <2>1. /\ c \in Tree \cup {Sentinel}
          /\ \/ x = g /\ d = s /\ c = a
             \/ x = g /\ d = o /\ c = i
             \/ x = p /\ d = s /\ c = g
             \/ x = p /\ d = o /\ c = node
             \/ x \notin {g, p} /\ c = p /\ child[d][x] = g
             \/ x \notin {g, p} /\ c \notin {g, p} /\ c = child[d][x]
      BY <1>2, <1>3, <1>4, <1>11, RotateLinks
    <2>2. /\ height[a] \in Nat /\ ~red[a] /\ height[g] = height[a] + 1
          /\ height[i] \in Nat /\ ~red[i] /\ height[p] = height[i] + 1
          /\ height[node] \in Nat /\ red[node] /\ height[p] = height[node]
          /\ height[g] = height[p]
      BY <1>1, <1>2, <1>3, <1>6, <1>8, <1>9
    <2>3. CASE x \notin {g, p} /\ c = p /\ child[d][x] = g
      <3>1. height[g] \in Nat /\ height[x] = height[g] + 1 /\ ~red'[p]
        BY <1>1, <1>6, <1>7, <1>10, <2>3
      <3> QED BY <1>1, <2>2, <2>3, <3>1
    <2>4. CASE x \notin {g, p} /\ c \notin {g, p} /\ c = child[d][x]
      <3>1. (red'[x] <=> red[x]) /\ (red'[c] <=> red[c])
        BY <1>10, <2>1, <2>4
      <3> QED BY <1>6, <2>4, <3>1
    <2>5. CASE x = g
      <3>1. c \in {a, i}
        BY <1>7, <2>1, <2>5
      <3>2. ~red'[c]
        BY <1>7, <1>10, <2>1, <2>2, <3>1
      <3> QED BY <2>2, <2>5, <3>1, <3>2
    <2>6. CASE x = p
      <3>1. c \in {g, node} /\ red'[g] /\ red'[node] /\ ~red'[p]
        BY <1>1, <1>7, <1>8, <1>10, <2>1, <2>6
      <3> QED BY <2>2, <2>6, <3>1
    <2> QED BY <2>1, <2>3, <2>4, <2>5, <2>6
  <1>12. Whole'
    <2>1. ~red'[root'] /\ ~red'[Sentinel]
      <3>1. root \in Tree
        BY <1>1, <1>2, UnderFacts
      <3> QED BY <1>1, <1>2, <1>6, <1>7, <1>10, <3>1
    <2>2. pc' = "rebalance" /\ node' = node /\ height' = height /\ Tree' = Tree
      BY <1>2, <1>7
    <2> QED BY <1>6, <1>11, <2>1, <2>2 DEF Whole
  <1>13. RedBlack'
    BY <1>12, WholeRedBlack, PTL
  <1>14. node \in Tree' /\ red'[node]
    BY <1>1, <1>7, <1>8, <1>10
  <1> QED BY <1>2, <1>10, <1>13, <1>14

LEMMA RebalancedColours ==
    ASSUME RBCore, node \in Tree, Rebalanced
    PROVE  RedBlack' /\ red' \in [Places -> BOOLEAN]
  <1>1. Core /\ pc = "rebalance" /\ pc' = "idle" /\ red' = [red EXCEPT ![root] = FALSE]
        /\ child' = child /\ root' = root /\ height' = height /\ Tree' = Tree
        /\ (node = root \/ ~red[parent[node]])
    BY DEF RBCore, Rebalanced, Rebalance, Shape, Return, Tree
  <1>2. root \in Tree /\ Tree \subseteq Places /\ red \in [Places -> BOOLEAN] /\ Sentinel \in Places /\ Sentinel \notin Tree
    BY <1>1, UnderFacts DEF Core, TypeOK, Places
  <1>3. Whole
    BY <1>1, RedBlackWhole DEF RBCore
  <1>4. /\ ~red[Sentinel] /\ height[Sentinel] = 0
        /\ \A x \in Tree, d \in Sides :
             /\ height[child[d][x]] \in Nat
             /\ red[x] /\ red[child[d][x]] => node = child[d][x]
             /\ height[x] = height[child[d][x]] + (IF red[child[d][x]] THEN 0 ELSE 1)
    BY <1>1, <1>3 DEF Whole
  <1>5. red' \in [Places -> BOOLEAN] /\ \A x \in Places : red'[x] = IF x = root THEN FALSE ELSE red[x]
    BY <1>1, <1>2
  <1>6. ASSUME NEW x \in Tree, NEW d \in Sides, NEW c, c = child[d][x]
        PROVE  /\ ~(red'[x] /\ red'[c])
               /\ height[x] = height[c] + (IF red'[c] THEN 0 ELSE 1)
    <2>1. c \in Tree \cup {Sentinel}
      BY <1>1, <1>6, UnderFacts
    <2>2. c /= root
      <3>1. c /= Sentinel => c /= root
        BY <1>1, <1>6, OneParent
      <3> QED BY <1>2, <3>1
    <2>3. red'[c] <=> red[c]
      BY <1>2, <1>5, <2>1, <2>2
    <2>4. red[x] /\ red[c] => c = node /\ node /= root /\ x = parent[node]
      <3>1. red[x] /\ red[c] => c = node
        BY <1>4, <1>6
      <3>2. c = node => x = parent[node]
        BY <1>1, <1>2, <1>6, <2>2, ParentFacts
      <3> QED BY <2>2, <3>1, <3>2
    <2>5. red'[x] => red[x]
      BY <1>2, <1>5
    <2> QED BY <1>1, <1>4, <1>6, <2>3, <2>4, <2>5
  <1>7. Whole'
    <2>1. ~red'[root] /\ ~red'[Sentinel]
      BY <1>2, <1>4, <1>5
    <2> QED BY <1>1, <1>4, <1>6, <2>1 DEF Whole
  <1>8. RedBlack'
    BY <1>7, WholeRedBlack, PTL
  <1> QED BY <1>5, <1>8

LEMMA AttachColours ==
    ASSUME AtLeaf, RedBlack, Attach
    PROVE  /\ RedBlack' /\ red'[node]
           /\ red' \in [Places -> BOOLEAN] /\ height' \in [Places -> Nat]
  <1>1. Core /\ pc = "descend" /\ pc' = "rebalance" /\ node' = node
        /\ red' = [red EXCEPT ![node] = TRUE] /\ height' = [height EXCEPT ![node] = 1]
        /\ node \in Nodes \ Tree /\ temp \in Tree
    BY DEF AtLeaf, Attach
  <1>2. /\ Tree \subseteq Places /\ red \in [Places -> BOOLEAN] /\ height \in [Places -> Nat]
        /\ Sentinel \in Places /\ node \in Places /\ node /= Sentinel /\ root \in Tree
    BY <1>1, UnderFacts, Constants DEF Core, TypeOK, Places
  <1>3. Whole
    BY <1>1, RedBlackWhole
  <1>4. /\ ~red[Sentinel] /\ height[Sentinel] = 0 /\ ~red[root]
        /\ \A x \in Tree, d \in Sides :
             /\ height[child[d][x]] \in Nat
             /\ ~(red[x] /\ red[child[d][x]])
             /\ height[x] = height[child[d][x]] + (IF red[child[d][x]] THEN 0 ELSE 1)
    BY <1>1, <1>3 DEF Whole
  <1>5. /\ red' \in [Places -> BOOLEAN] /\ height' \in [Places -> Nat]
        /\ \A x \in Places : /\ red'[x] = IF x = node THEN TRUE ELSE red[x]
                             /\ height'[x] = IF x = node THEN 1 ELSE height[x]
    BY <1>1, <1>2
  <1>6. /\ Way \in Sides /\ child[Way][temp] = Sentinel /\ Tree' = Tree \cup {node} /\ root' = root
        /\ \A d \in Sides :
             /\ child'[d][node] = Sentinel
             /\ \A x \in Tree : child'[d][x] = IF x = temp /\ d = Way THEN node ELSE child[d][x]
    BY AttachFacts
  <1>7. ASSUME NEW x \in Tree', NEW d \in Sides, NEW c, c = child'[d][x]
        PROVE  /\ height'[c] \in Nat
               /\ red'[x] /\ red'[c] => c = node
               /\ height'[x] = height'[c] + (IF red'[c] THEN 0 ELSE 1)
    <2>1. CASE x = node
      <3>1. c = Sentinel
        BY <1>6, <1>7, <2>1
      <3>2. ~red'[Sentinel] /\ height'[Sentinel] = 0
        BY <1>2, <1>4, <1>5
      <3>3. height'[x] = 1
        BY <1>2, <1>5, <2>1
      <3> QED BY <3>1, <3>2, <3>3
    <2>2. CASE x = temp /\ d = Way
      <3>1. c = node /\ red'[c] /\ height'[c] = 1
        BY <1>1, <1>2, <1>5, <1>6, <1>7, <2>2
      <3>2. height'[x] = height[x]
        BY <1>1, <1>2, <1>5, <2>2
      <3>3. height[x] = 1
        BY <1>1, <1>4, <1>6, <2>2
      <3> QED BY <3>1, <3>2, <3>3
    <2>3. CASE x \in Tree /\ ~(x = temp /\ d = Way)
      <3>1. c = child[d][x] /\ c \in Tree \cup {Sentinel}
        BY <1>1, <1>6, <1>7, <2>3, UnderFacts
      <3>2. /\ (red'[c] <=> red[c]) /\ height'[c] = height[c]
            /\ (red'[x] <=> red[x]) /\ height'[x] = height[x]
        BY <1>1, <1>2, <1>5, <2>3, <3>1
      <3> QED BY <1>4, <2>3, <3>1, <3>2
    <2> QED BY <1>6, <2>1, <2>2, <2>3
  <1>8. Whole'
    <2>1. ~red'[root'] /\ ~red'[Sentinel] /\ height'[Sentinel] = 0
      BY <1>1, <1>2, <1>4, <1>5, <1>6
    <2> QED BY <1>1, <1>7, <2>1 DEF Whole
  <1>9. RedBlack'
    BY <1>8, WholeRedBlack, PTL
  <1> QED BY <1>2, <1>5, <1>9

-----------------------------------------------------------------------------
(* Colours during a deletion.                                              *)

\* RedBlack while the link to temp is one black node short, link by link.
Lacking ==
    /\ pc = "fixup" /\ temp /= root
    /\ ~red[root] /\ ~red[Sentinel] /\ height[Sentinel] = 0
    /\ \A n \in Tree, s \in Sides :
          /\ height[child[s][n]] \in Nat
          /\ red[n] /\ red[child[s][n]] => temp \in {n, child[s][n]}
          /\ height[n] = height[child[s][n]] + (IF red[child[s][n]] THEN 0 ELSE 1)
                                             + (IF n = parent[temp] /\ s = Near THEN 1 ELSE 0)

LEMMA LackingRedBlack == Lacking => RedBlack
  <1> SUFFICES ASSUME Lacking PROVE RedBlack
    OBVIOUS
  <1>1. pc = "fixup" /\ temp /= root /\ ~red[root] /\ ~red[Sentinel] /\ height[Sentinel] = 0
    BY DEF Lacking
  <1>2. ASSUME NEW n \in Tree, NEW s \in Sides
        PROVE  /\ red[n] /\ red[child[s][n]] => temp \in {n, child[s][n]}
               /\ height[n] = Rank(child[s][n]) + (IF Short(n, s) THEN 1 ELSE 0)
    <2>1. Short(n, s) <=> n = parent[temp] /\ s = Near
      BY <1>1 DEF Short
    <2> QED BY <2>1 DEF Lacking, Rank
  <1> QED BY <1>1, <1>2 DEF RedBlack

LEMMA RedBlackLacking ==
    ASSUME Core, RedBlack, pc = "fixup", temp /= root
    PROVE  Lacking
  <1>1. ~red[root] /\ ~red[Sentinel] /\ height[Sentinel] = 0
    BY DEF RedBlack
  <1>2. ASSUME NEW n \in Tree, NEW s \in Sides
        PROVE  /\ height[child[s][n]] \in Nat
               /\ red[n] /\ red[child[s][n]] => temp \in {n, child[s][n]}
               /\ height[n] = height[child[s][n]] + (IF red[child[s][n]] THEN 0 ELSE 1)
                                             + (IF n = parent[temp] /\ s = Near THEN 1 ELSE 0)
    <2>1. child[s][n] \in Places
      BY UnderFacts DEF Places
    <2>2. height[child[s][n]] \in Nat
      BY <2>1, ColourTypes DEF Core
    <2>3. Short(n, s) <=> n = parent[temp] /\ s = Near
      BY DEF Short
    <2>4. /\ red[n] /\ red[child[s][n]] => temp \in {n, child[s][n]}
          /\ height[n] = Rank(child[s][n]) + (IF Short(n, s) THEN 1 ELSE 0)
      BY DEF RedBlack
    <2> QED BY <2>2, <2>3, <2>4 DEF Rank
  <1> QED BY <1>1, <1>2 DEF Lacking

\* The link that is short is told from the other one.
NearTold == \A d \in Sides :
    child[d][parent[temp]] = temp /\ child[Other(d)][parent[temp]] /= temp => Near = d

LEMMA NearIs == NearTold
  BY DEF NearTold, Near, Side, Sides, Other

LEMMA DeleteRootColours ==
    ASSUME AtGone, RedBlack, DeleteRoot
    PROVE  /\ RedBlack' /\ red' \in [Places -> BOOLEAN] /\ height' \in [Places -> Nat]
  <1>1. Core /\ pc = "subst" /\ pc' = "idle" /\ node = root /\ temp = node /\ node \in Tree /\ Remove
        /\ red' = [red EXCEPT ![Orphan] = FALSE] /\ root' = Orphan
        /\ height' = [height EXCEPT ![temp] = height[node], ![node] = 0]
    BY DEF AtGone, DeleteRoot, Return, Remove
  <1>2. /\ Tree \subseteq Places /\ red \in [Places -> BOOLEAN] /\ height \in [Places -> Nat]
        /\ Sentinel \in Places /\ Sentinel \notin Tree
    BY <1>1, UnderFacts DEF Core, TypeOK, Places
  <1>3. Whole
    BY <1>1, RedBlackWhole
  <1>4. /\ ~red[Sentinel] /\ height[Sentinel] = 0
        /\ \A x \in Tree, d \in Sides :
             /\ height[child[d][x]] \in Nat
             /\ ~(red[x] /\ red[child[d][x]])
             /\ height[x] = height[child[d][x]] + (IF red[child[d][x]] THEN 0 ELSE 1)
    BY <1>1, <1>3 DEF Whole
  <1>5. PICK e \in Sides : child[e][temp] = Sentinel
    BY DEF AtGone
  <1>6. Orphan \in Tree \cup {Sentinel} /\ (Orphan /= Sentinel => parent[Orphan] = temp)
    BY <1>1, <1>5, OrphanFacts
  <1>7. /\ Tree' = Tree \ {node}
        /\ \A x \in Tree \ {node}, d \in Sides :
                child'[d][x] = IF child[d][x] = node THEN Orphan ELSE child[d][x]
    <2>1. TypeOK /\ Distinct(order)
      BY DEF AtGone, Core, Ordered
    <2> QED BY <1>1, <2>1, GoneFacts, RemoveFacts
  <1>8. /\ red' \in [Places -> BOOLEAN] /\ height' \in [Places -> Nat]
        /\ \A x \in Places : /\ red'[x] = IF x = Orphan THEN FALSE ELSE red[x]
                             /\ height'[x] = IF x = node THEN 0 ELSE height[x]
    <2>1. Orphan \in Places /\ node \in Places
      BY <1>1, <1>2, <1>6
    <2> QED BY <1>1, <1>2, <2>1
  <1>9. ASSUME NEW x \in Tree', NEW d \in Sides, NEW c, c = child'[d][x]
        PROVE  /\ height'[c] \in Nat
               /\ ~(red'[x] /\ red'[c])
               /\ height'[x] = height'[c] + (IF red'[c] THEN 0 ELSE 1)
    <2>1. x \in Tree /\ x /= node /\ child[d][x] \in Tree \cup {Sentinel}
      BY <1>1, <1>7, <1>9, UnderFacts
    <2>2. child[d][x] /= node
      <3>1. child[d][x] /= Sentinel => child[d][x] /= root
        BY <1>1, <2>1, OneParent
      <3> QED BY <1>1, <1>2, <3>1
    <2>3. c = child[d][x]
      BY <1>7, <1>9, <2>1, <2>2
    <2>4. c = Orphan => c = Sentinel
      <3>1. c /= Sentinel => parent[c] = x
        BY <1>1, <2>1, <2>3, OneParent
      <3> QED BY <1>1, <1>6, <2>1, <3>1
    <2>5. /\ (red'[c] <=> red[c]) /\ height'[c] = height[c]
          /\ (red'[x] => red[x]) /\ height'[x] = height[x]
      BY <1>2, <1>4, <1>8, <2>1, <2>2, <2>3, <2>4
    <2> QED BY <1>4, <2>1, <2>3, <2>5
  <1>10. Whole'
    <2>1. ~red'[root'] /\ ~red'[Sentinel] /\ height'[Sentinel] = 0
      BY <1>1, <1>2, <1>4, <1>6, <1>8
    <2> QED BY <1>1, <1>9, <2>1 DEF Whole
  <1>11. RedBlack'
    BY <1>10, WholeRedBlack, PTL
  <1> QED BY <1>8, <1>11

LEMMA DeleteNodeColours ==
    ASSUME AtGone, RedBlack, DeleteNode
    PROVE  /\ RedBlack' /\ height' \in [Places -> Nat]
           /\ pc' = "fixup" => /\ node' = Null /\ temp' \in Tree' \cup {Sentinel}
                               /\ parent'[temp'] \in Tree' /\ temp' /= root'
                               /\ \E s \in Sides : child'[s][parent'[temp']] = temp'
  <1> DEFINE p == parent[node]
             e == Side(node)
             f == Other(e)
  <1>1. Core /\ pc = "subst" /\ node /= root /\ temp = node /\ node \in Tree /\ Remove
        /\ red' = red /\ root' = root
        /\ height' = [height EXCEPT ![temp] = height[node], ![node] = 0]
        /\ FixupAfter(red[node])
    BY DEF AtGone, DeleteNode, Remove
  <1>2. /\ Tree \subseteq Places /\ red \in [Places -> BOOLEAN] /\ height \in [Places -> Nat]
        /\ Sentinel \in Places /\ Sentinel \notin Tree /\ root \in Tree
    BY <1>1, UnderFacts DEF Core, TypeOK, Places
  <1>3. Whole
    BY <1>1, RedBlackWhole
  <1>4. /\ ~red[Sentinel] /\ height[Sentinel] = 0 /\ ~red[root]
        /\ \A x \in Tree, d \in Sides :
             /\ height[child[d][x]] \in Nat
             /\ ~(red[x] /\ red[child[d][x]])
             /\ height[x] = height[child[d][x]] + (IF red[child[d][x]] THEN 0 ELSE 1)
    BY <1>1, <1>3 DEF Whole
  <1>5. PICK w \in Sides : child[w][temp] = Sentinel
    BY DEF AtGone
  <1>6. /\ Orphan \in Tree \cup {Sentinel} /\ Orphan /= node /\ Orphan /= root
        /\ (Orphan /= Sentinel => parent[Orphan] = temp)
        /\ \E s \in Sides : child[s][temp] = Orphan
    BY <1>1, <1>5, OrphanFacts
  <1>7. /\ Tree' = Tree \ {node}
        /\ \A x \in Tree \ {node}, d \in Sides :
                child'[d][x] = IF child[d][x] = node THEN Orphan ELSE child[d][x]
        /\ parent'[Orphan] = p
    <2>1. TypeOK /\ Distinct(order)
      BY DEF AtGone, Core, Ordered
    <2> QED BY <1>1, <2>1, GoneFacts, RemoveFacts
  <1>8. /\ p \in Tree /\ p /= node /\ e \in Sides /\ child[e][p] = node
        /\ \A x \in Tree, d \in Sides : child[d][x] = node => x = p /\ d = e
    BY <1>1, ParentFacts
  <1>9. f \in Sides /\ f /= e
    BY <1>8, SidesFacts
  <1> HIDE DEF p, e, f
  <1>10. /\ height' \in [Places -> Nat]
         /\ \A x \in Places : height'[x] = IF x = node THEN 0 ELSE height[x]
    <2>1. node \in Places
      BY <1>1, <1>2
    <2> QED BY <1>1, <1>2, <2>1
  <1>11. height[node] = height[Orphan] + (IF red[Orphan] THEN 0 ELSE 1) /\ ~(red[node] /\ red[Orphan])
         /\ height[Orphan] \in Nat
    BY <1>1, <1>4, <1>6
  <1>12. ASSUME NEW x \in Tree', NEW d \in Sides, NEW c, c = child'[d][x]
         PROVE  /\ height'[c] \in Nat
                /\ red[x] /\ red[c] => c = Orphan /\ ~red[node]
                /\ height'[x] = height'[c] + (IF red[c] THEN 0 ELSE 1)
                                          + (IF x = p /\ d = e /\ ~red[node] THEN 1 ELSE 0)
    <2>1. x \in Tree /\ x /= node /\ child[d][x] \in Tree \cup {Sentinel} /\ height'[x] = height[x]
      BY <1>1, <1>2, <1>7, <1>10, <1>12, UnderFacts
    <2>2. CASE child[d][x] = node
      <3>1. c = Orphan /\ x = p /\ d = e /\ height'[c] = height[c]
        BY <1>2, <1>6, <1>7, <1>8, <1>10, <1>12, <2>1, <2>2
      <3>2. height[x] = height[node] + (IF red[node] THEN 0 ELSE 1) /\ ~(red[x] /\ red[node])
        BY <1>4, <2>1, <2>2
      <3> QED BY <1>11, <2>1, <3>1, <3>2
    <2>3. CASE child[d][x] /= node
      <3>1. c = child[d][x] /\ height'[c] = height[c] /\ ~(x = p /\ d = e)
        BY <1>2, <1>7, <1>8, <1>10, <1>12, <2>1, <2>3
      <3> QED BY <1>4, <2>1, <3>1
    <2> QED BY <2>2, <2>3
  <1>13. ~red'[root'] /\ ~red'[Sentinel] /\ height'[Sentinel] = 0
    BY <1>1, <1>2, <1>4, <1>10
  <1>14. CASE red[node]
    <2>1. pc' = "idle"
      BY <1>1, <1>14 DEF FixupAfter, Return
    <2>2. Whole'
      <3>1. ASSUME NEW x \in Tree', NEW d \in Sides
            PROVE  /\ height'[child'[d][x]] \in Nat
                   /\ ~(red'[x] /\ red'[child'[d][x]])
                   /\ height'[x] = height'[child'[d][x]] + (IF red'[child'[d][x]] THEN 0 ELSE 1)
        <4> DEFINE c == child'[d][x]
        <4>1. /\ height'[c] \in Nat
              /\ red[x] /\ red[c] => c = Orphan /\ ~red[node]
              /\ height'[x] = height'[c] + (IF red[c] THEN 0 ELSE 1)
                                          + (IF x = p /\ d = e /\ ~red[node] THEN 1 ELSE 0)
          BY <1>12
        <4> HIDE DEF c
        <4>2. red' = red
          BY <1>1
        <4>3. ~(red'[x] /\ red'[c]) /\ height'[x] = height'[c] + (IF red'[c] THEN 0 ELSE 1)
          BY <1>14, <4>1, <4>2
        <4> QED BY <4>1, <4>3 DEF c
      <3> QED BY <1>13, <2>1, <3>1 DEF Whole
    <2>3. RedBlack'
      BY <2>2, WholeRedBlack, PTL
    <2> QED BY <1>10, <2>1, <2>3
  <1>15. CASE ~red[node]
    <2>1. pc' = "fixup" /\ temp' = Orphan /\ node' = Null
      BY <1>1, <1>15 DEF FixupAfter
    <2>2. parent'[temp'] = p /\ p \in Tree' /\ temp' \in Tree' \cup {Sentinel} /\ temp' /= root'
      BY <1>1, <1>6, <1>7, <1>8, <2>1
    <2>3. child'[e][p] = temp'
      BY <1>7, <1>8, <2>1
    <2>4. child'[f][p] /= temp'
      <3>1. child'[f][p] = child[f][p] /\ child[f][p] /= node
        BY <1>7, <1>8, <1>9
      <3>2. CASE Orphan = Sentinel
        <4>1. height[p] = 2
          BY <1>4, <1>8, <1>11, <1>15, <3>2
        <4>2. child[f][p] /= Sentinel
          BY <1>4, <1>8, <1>9, <4>1
        <4> QED BY <2>1, <3>1, <3>2, <4>2
      <3>3. CASE Orphan /= Sentinel
        <4>1. child[f][p] /= Sentinel => parent[child[f][p]] = p
          BY <1>1, <1>8, <1>9, OneParent
        <4> QED BY <1>1, <1>6, <1>8, <2>1, <3>1, <3>3, <4>1
      <3> QED BY <3>2, <3>3
    <2>5. Near' = e
      <3>1. e \in Sides /\ child'[e][parent'[temp']] = temp' /\ child'[Other(e)][parent'[temp']] /= temp'
        BY <1>8, <2>2, <2>3, <2>4 DEF f
      <3>2. NearTold'
        BY NearIs, PTL
      <3> HIDE DEF Near
      <3> QED BY <3>1, <3>2 DEF NearTold
    <2>6. Lacking'
      <3>1. ASSUME NEW x \in Tree', NEW d \in Sides
            PROVE  /\ height'[child'[d][x]] \in Nat
                   /\ red'[x] /\ red'[child'[d][x]] => temp' \in {x, child'[d][x]}
                   /\ height'[x] = height'[child'[d][x]] + (IF red'[child'[d][x]] THEN 0 ELSE 1)
                                             + (IF x = parent'[temp'] /\ d = Near' THEN 1 ELSE 0)
        <4> DEFINE c == child'[d][x]
        <4>1. /\ height'[c] \in Nat
              /\ red[x] /\ red[c] => c = Orphan /\ ~red[node]
              /\ height'[x] = height'[c] + (IF red[c] THEN 0 ELSE 1)
                                          + (IF x = p /\ d = e /\ ~red[node] THEN 1 ELSE 0)
          BY <1>12
        <4> HIDE DEF c
        <4>2. red' = red /\ temp' = Orphan /\ parent'[temp'] = p /\ Near' = e
          BY <1>1, <2>1, <2>2, <2>5
        <4>3. /\ red'[x] /\ red'[c] => temp' \in {x, c}
              /\ height'[x] = height'[c] + (IF red'[c] THEN 0 ELSE 1)
                                          + (IF x = parent'[temp'] /\ d = Near' THEN 1 ELSE 0)
          BY <1>15, <4>1, <4>2
        <4> QED BY <4>1, <4>3 DEF c
      <3> QED BY <1>13, <2>1, <2>2, <3>1 DEF Lacking
    <2>7. RedBlack'
      BY <2>6, LackingRedBlack, PTL
    <2> QED BY <1>8, <1>10, <2>1, <2>2, <2>3, <2>7
  <1> QED BY <1>14, <1>15

LEMMA SubstituteColours ==
    ASSUME AtSubst, RedBlack, Substitute
    PROVE  /\ RedBlack' /\ red' \in [Places -> BOOLEAN] /\ height' \in [Places -> Nat]
           /\ pc' = "fixup" => /\ node' = Null /\ temp' \in Tree' \cup {Sentinel}
                               /\ parent'[temp'] \in Tree' /\ temp' /= root'
                               /\ \E s \in Sides : child'[s][parent'[temp']] = temp'
  <1> DEFINE q == parent[temp]
             p == IF q = node THEN temp ELSE q
             e == Side(temp)
             f == Other(e)
  <1>1. Core /\ pc = "subst" /\ temp /= node /\ node \in Tree /\ Remove
        /\ red' = [red EXCEPT ![temp] = red[node]]
        /\ height' = [height EXCEPT ![temp] = height[node], ![node] = 0]
        /\ FixupAfter(red[temp]) /\ child["left"][temp] = Sentinel
    BY DEF AtSubst, Substitute, Remove
  <1>2. /\ Tree \subseteq Places /\ red \in [Places -> BOOLEAN] /\ height \in [Places -> Nat]
        /\ Sentinel \in Places /\ Sentinel \notin Tree /\ root \in Tree
    BY <1>1, UnderFacts DEF Core, TypeOK, Places
  <1>3. Whole
    BY <1>1, RedBlackWhole
  <1>4. /\ ~red[Sentinel] /\ height[Sentinel] = 0 /\ ~red[root]
        /\ \A x \in Tree, d \in Sides :
             /\ height[child[d][x]] \in Nat
             /\ ~(red[x] /\ red[child[d][x]])
             /\ height[x] = height[child[d][x]] + (IF red[child[d][x]] THEN 0 ELSE 1)
    BY <1>1, <1>3 DEF Whole
  <1>5. /\ temp \in Tree /\ temp /= root /\ Orphan = child["right"][temp]
        /\ Orphan \in Tree \cup {Sentinel} /\ Orphan \notin {node, temp, root}
        /\ (Orphan /= Sentinel => parent[Orphan] = temp)
    BY <1>1, SubstPlace
  <1>6. /\ q \in Tree /\ q /= temp /\ e \in Sides /\ child[e][q] = temp
        /\ \A x \in Tree, d \in Sides : child[d][x] = temp => x = q /\ d = e
    BY <1>1, <1>5, ParentFacts
  <1>7. f \in Sides /\ f /= e
    BY <1>6, SidesFacts
  <1>8. /\ Tree' = Tree \ {node} /\ root' = (IF node = root THEN temp ELSE root)
        /\ parent'[Orphan] = p
    <2>1. TypeOK /\ Distinct(order)
      BY DEF AtSubst, Core, Ordered
    <2> QED BY <1>1, <2>1, SubstFacts, RemoveFacts
  <1> HIDE DEF q, e, f
  <1>9. ASSUME NEW x \in Tree', NEW d \in Sides
        PROVE  /\ From(x) \in Tree \ {temp}
               /\ child'[d][x] = IF child[d][From(x)] = node THEN temp
                                 ELSE IF child[d][From(x)] = temp THEN Orphan ELSE child[d][From(x)]
    <2>1. CASE x = temp
      <3>1. child[d][node] /= Sentinel => child[d][node] /= node
        BY <1>1, OneParent
      <3>2. child[d][node] /= node
        BY <1>1, <1>2, <3>1
      <3> QED BY <1>1, <2>1, <3>2, SubstFacts DEF From
    <2>2. CASE x /= temp
      BY <1>1, <1>8, <2>2, SubstFacts DEF From
    <2> QED BY <2>1, <2>2
  <1>10. /\ red' \in [Places -> BOOLEAN] /\ height' \in [Places -> Nat]
         /\ \A x \in Places : /\ red'[x] = IF x = temp THEN red[node] ELSE red[x]
                              /\ x /= node => height'[x] = IF x = temp THEN height[node] ELSE height[x]
    <2>1. node \in Places /\ temp \in Places
      BY <1>1, <1>2, <1>5
    <2> QED BY <1>1, <1>2, <2>1
  <1>11. \A x \in Tree' : /\ red'[x] = red[From(x)] /\ height'[x] = height[From(x)]
                          /\ From(x) = q => x = p
                          /\ x = p => From(x) = q
    BY <1>1, <1>2, <1>6, <1>8, <1>10 DEF From
  <1>12. /\ height[temp] = height[Orphan] + (IF red[Orphan] THEN 0 ELSE 1) /\ ~(red[temp] /\ red[Orphan])
         /\ height[Orphan] \in Nat
         /\ height'[Orphan] = height[Orphan] /\ (red'[Orphan] <=> red[Orphan])
    <2>1. "right" \in Sides
      BY DEF Sides
    <2> QED BY <1>2, <1>4, <1>5, <1>10, <2>1
  <1>13. p \in Tree'
    BY <1>1, <1>5, <1>6, <1>8
  <1> HIDE DEF p
  <1>14. ASSUME NEW x \in Tree', NEW d \in Sides, NEW c, c = child'[d][x]
         PROVE  /\ height'[c] \in Nat
                /\ red'[x] /\ red'[c] => c = Orphan /\ ~red[temp]
                /\ height'[x] = height'[c] + (IF red'[c] THEN 0 ELSE 1)
                                           + (IF x = p /\ d = e /\ ~red[temp] THEN 1 ELSE 0)
    <2> DEFINE y == From(x)
               b == child[d][y]
    <2>1. /\ y \in Tree /\ b \in Tree \cup {Sentinel}
          /\ c = IF b = node THEN temp ELSE IF b = temp THEN Orphan ELSE b
      BY <1>1, <1>9, <1>14, UnderFacts
    <2>2. /\ red'[x] = red[y] /\ height'[x] = height[y]
          /\ b = temp => y = q /\ d = e
          /\ height[b] \in Nat /\ ~(red[y] /\ red[b])
          /\ height[y] = height[b] + (IF red[b] THEN 0 ELSE 1)
          /\ y = q /\ d = e => b = temp
      BY <1>4, <1>6, <1>11, <2>1
    <2>3. (y = q => x = p) /\ (x = p => y = q)
      BY <1>11
    <2> HIDE DEF y, b
    <2>4. CASE b = temp
      <3>1. c = Orphan /\ x = p /\ d = e
        BY <1>1, <2>1, <2>2, <2>3, <2>4
      <3> QED BY <1>12, <2>2, <2>4, <3>1
    <2>5. CASE b = node
      <3>1. c = temp /\ ~(x = p /\ d = e)
        BY <1>1, <2>1, <2>2, <2>3, <2>5
      <3>2. red'[c] = red[b] /\ height'[c] = height[b]
        BY <1>1, <1>2, <1>5, <1>10, <2>5, <3>1
      <3> QED BY <2>2, <3>1, <3>2
    <2>6. CASE b \notin {node, temp}
      <3>1. c = b /\ ~(x = p /\ d = e) /\ c \in Places
        BY <1>2, <2>1, <2>2, <2>3, <2>6
      <3>2. red'[c] = red[b] /\ height'[c] = height[b]
        BY <1>10, <2>6, <3>1
      <3> QED BY <2>2, <3>1, <3>2
    <2> QED BY <2>4, <2>5, <2>6
  <1>15. ~red'[root'] /\ ~red'[Sentinel] /\ height'[Sentinel] = 0
    BY <1>1, <1>2, <1>4, <1>5, <1>8, <1>10
  <1>16. CASE red[temp]
    <2>1. pc' = "idle"
      BY <1>1, <1>16 DEF FixupAfter, Return
    <2>2. Whole'
      <3>1. ASSUME NEW x \in Tree', NEW d \in Sides
            PROVE  /\ height'[child'[d][x]] \in Nat
                   /\ ~(red'[x] /\ red'[child'[d][x]])
                   /\ height'[x] = height'[child'[d][x]] + (IF red'[child'[d][x]] THEN 0 ELSE 1)
        <4> DEFINE c == child'[d][x]
        <4>1. /\ height'[c] \in Nat
              /\ red'[x] /\ red'[c] => c = Orphan /\ ~red[temp]
              /\ height'[x] = height'[c] + (IF red'[c] THEN 0 ELSE 1)
                                         + (IF x = p /\ d = e /\ ~red[temp] THEN 1 ELSE 0)
          BY <1>14
        <4> HIDE DEF c
        <4>2. ~(red'[x] /\ red'[c]) /\ height'[x] = height'[c] + (IF red'[c] THEN 0 ELSE 1)
          BY <1>16, <4>1
        <4> QED BY <4>1, <4>2 DEF c
      <3> QED BY <1>15, <2>1, <3>1 DEF Whole
    <2>3. RedBlack'
      BY <2>2, WholeRedBlack, PTL
    <2> QED BY <1>10, <2>1, <2>3
  <1>17. CASE ~red[temp]
    <2>1. pc' = "fixup" /\ temp' = Orphan /\ node' = Null
      BY <1>1, <1>17 DEF FixupAfter
    <2>2. /\ parent'[temp'] = p /\ p \in Tree' /\ temp' \in Tree' \cup {Sentinel}
          /\ temp' /= root' /\ From(p) = q
      BY <1>5, <1>8, <1>11, <1>13, <2>1
    <2>3. child'[e][p] = temp'
      BY <1>1, <1>6, <1>9, <2>1, <2>2
    <2>4. child'[f][p] /= temp'
      <3>1. child[f][q] /= temp
        BY <1>6, <1>7
      <3>2. child'[f][p] = IF child[f][q] = node THEN temp ELSE child[f][q]
        BY <1>7, <1>9, <2>2, <3>1
      <3>3. child[f][q] /= Orphan
        <4>1. CASE Orphan = Sentinel
          <5>1. height[q] = 2
            BY <1>4, <1>6, <1>12, <1>17, <4>1
          <5> QED BY <1>4, <1>6, <1>7, <4>1, <5>1
        <4>2. CASE Orphan /= Sentinel
          <5>1. child[f][q] /= Sentinel => parent[child[f][q]] = q
            BY <1>1, <1>6, <1>7, OneParent
          <5> QED BY <1>5, <1>6, <4>2, <5>1
        <4> QED BY <4>1, <4>2
      <3> QED BY <1>5, <2>1, <3>2, <3>3
    <2>5. Near' = e
      <3>1. e \in Sides /\ child'[e][parent'[temp']] = temp' /\ child'[Other(e)][parent'[temp']] /= temp'
        BY <1>6, <2>2, <2>3, <2>4 DEF f
      <3>2. NearTold'
        BY NearIs, PTL
      <3> HIDE DEF Near
      <3> QED BY <3>1, <3>2 DEF NearTold
    <2>6. Lacking'
      <3>1. ASSUME NEW x \in Tree', NEW d \in Sides
            PROVE  /\ height'[child'[d][x]] \in Nat
                   /\ red'[x] /\ red'[child'[d][x]] => temp' \in {x, child'[d][x]}
                   /\ height'[x] = height'[child'[d][x]] + (IF red'[child'[d][x]] THEN 0 ELSE 1)
                                             + (IF x = parent'[temp'] /\ d = Near' THEN 1 ELSE 0)
        <4> DEFINE c == child'[d][x]
        <4>1. /\ height'[c] \in Nat
              /\ red'[x] /\ red'[c] => c = Orphan /\ ~red[temp]
              /\ height'[x] = height'[c] + (IF red'[c] THEN 0 ELSE 1)
                                         + (IF x = p /\ d = e /\ ~red[temp] THEN 1 ELSE 0)
          BY <1>14
        <4> HIDE DEF c
        <4>2. temp' = Orphan /\ parent'[temp'] = p /\ Near' = e
          BY <2>1, <2>2, <2>5
        <4>3. /\ red'[x] /\ red'[c] => temp' \in {x, c}
              /\ height'[x] = height'[c] + (IF red'[c] THEN 0 ELSE 1)
                                          + (IF x = parent'[temp'] /\ d = Near' THEN 1 ELSE 0)
          BY <1>17, <4>1, <4>2
        <4> QED BY <4>1, <4>3 DEF c
      <3> QED BY <1>15, <2>1, <2>2, <3>1 DEF Lacking
    <2>7. RedBlack'
      BY <2>6, LackingRedBlack, PTL
    <2> QED BY <1>6, <1>10, <2>1, <2>2, <2>3, <2>7
  <1> QED BY <1>16, <1>17

\* Where the loop of a deletion mends.
AtFixup == /\ RBCore /\ Fixup /\ temp \in Tree \cup {Sentinel}
           /\ parent[temp] \in Tree /\ \E s \in Sides : child[s][parent[temp]] = temp

LEMMA FixupFacts ==
    ASSUME AtFixup, NEW p, p = parent[temp], NEW s, s = Near, NEW m, m = Sibling
    PROVE  /\ p \in Tree /\ s \in Sides /\ Far = Other(s) /\ Other(s) \in Sides
           /\ child[s][p] = temp /\ m = child[Other(s)][p] /\ m \in Tree /\ m /= temp /\ temp /= root
           /\ temp \in Tree \cup {Sentinel} /\ root \in Tree
           /\ ~red[root] /\ ~red[Sentinel] /\ ~red[temp] /\ height[Sentinel] = 0
           /\ \A x \in Tree, d \in Sides :
                /\ height[child[d][x]] \in Nat
                /\ ~(red[x] /\ red[child[d][x]])
                /\ height[x] = height[child[d][x]] + (IF red[child[d][x]] THEN 0 ELSE 1)
                                                   + (IF x = p /\ d = s THEN 1 ELSE 0)
           /\ red \in [Places -> BOOLEAN] /\ height \in [Places -> Nat]
           /\ Tree \subseteq Places /\ Sentinel \in Places /\ Sentinel \notin Tree
  <1>1. Core /\ RedBlack /\ pc = "fixup" /\ temp /= root /\ ~red[temp]
    BY DEF AtFixup, RBCore, Fixup
  <1>2. /\ Tree \subseteq Places /\ red \in [Places -> BOOLEAN] /\ height \in [Places -> Nat]
        /\ Sentinel \in Places /\ Sentinel \notin Tree
    BY <1>1, UnderFacts DEF Core, TypeOK, Places
  <1>3. Lacking
    BY <1>1, RedBlackLacking
  <1>4. /\ ~red[Sentinel] /\ height[Sentinel] = 0 /\ ~red[root]
        /\ \A x \in Tree, d \in Sides :
             /\ height[child[d][x]] \in Nat
             /\ red[x] /\ red[child[d][x]] => temp \in {x, child[d][x]}
             /\ height[x] = height[child[d][x]] + (IF red[child[d][x]] THEN 0 ELSE 1)
                                                + (IF x = p /\ d = s THEN 1 ELSE 0)
    BY <1>3 DEF Lacking
  <1>5. p \in Tree /\ \E d \in Sides : child[d][p] = temp
    BY DEF AtFixup
  <1>6. s \in Sides /\ child[s][p] = temp
    BY <1>5 DEF Near, Side, Sides
  <1>7. Far = Other(s) /\ Other(s) \in Sides /\ Other(s) /= s /\ m = child[Other(s)][p]
    BY <1>6, SidesFacts DEF Far, Sibling
  <1>8. height[p] = height[temp] + 2 /\ height[temp] \in Nat
    BY <1>1, <1>4, <1>5, <1>6
  <1>9. m \in Tree
    <2>1. height[p] = height[m] + (IF red[m] THEN 0 ELSE 1)
      BY <1>4, <1>5, <1>7, <1>8
    <2>2. m /= Sentinel
      BY <1>4, <1>8, <2>1
    <2> QED BY <1>1, <1>5, <1>7, <2>2, UnderFacts
  <1>10. m /= temp
    <2>1. m /= Sentinel
      BY <1>2, <1>9
    <2> QED BY <1>1, <1>5, <1>6, <1>7, <2>1, OneParent
  <1>11. \A x \in Tree, d \in Sides : ~(red[x] /\ red[child[d][x]])
    BY <1>1, <1>4
  <1>12. temp \in Tree \cup {Sentinel} /\ root \in Tree
    BY <1>1, <1>5, UnderFacts DEF AtFixup
  <1> QED BY <1>1, <1>2, <1>4, <1>5, <1>6, <1>7, <1>9, <1>10, <1>11, <1>12, Zenon

LEMMA RotateSiblingColours ==
    ASSUME AtFixup, RotateSibling
    PROVE  /\ RedBlack' /\ red' \in [Places -> BOOLEAN]
           /\ temp' \in Tree' \cup {Sentinel} /\ parent'[temp'] \in Tree'
           /\ \E s \in Sides : child'[s][parent'[temp']] = temp'
  <1> DEFINE p == parent[temp]
             s == Near
             o == Other(s)
             m == Sibling
             i == child[s][m]
             b == child[o][m]
  <1>1. /\ p \in Tree /\ s \in Sides /\ o \in Sides /\ m \in Tree /\ m /= temp /\ temp /= root
        /\ child[s][p] = temp /\ m = child[o][p] /\ temp \in Tree \cup {Sentinel} /\ root \in Tree
        /\ ~red[root] /\ ~red[Sentinel] /\ ~red[temp] /\ height[Sentinel] = 0
        /\ \A x \in Tree, d \in Sides :
             /\ height[child[d][x]] \in Nat
             /\ ~(red[x] /\ red[child[d][x]])
             /\ height[x] = height[child[d][x]] + (IF red[child[d][x]] THEN 0 ELSE 1)
                                                + (IF x = p /\ d = s THEN 1 ELSE 0)
    BY FixupFacts
  <1>2. /\ red \in [Places -> BOOLEAN]
        /\ Tree \subseteq Places /\ Sentinel \in Places /\ Sentinel \notin Tree
    BY FixupFacts
  <1>3. /\ Core /\ red[m] /\ red' = [red EXCEPT ![m] = FALSE, ![p] = TRUE] /\ Rotate(p, s)
        /\ pc' = "fixup" /\ temp' = temp /\ height' = height
    BY DEF AtFixup, RBCore, RotateSibling, Fixup
  <1>4. Corner(p, s, temp, m, i, b)
    BY <1>1, <1>2 DEF Corner
  <1>5. /\ p /= m /\ p \notin {temp, i, b} /\ m \notin {temp, i, b}
        /\ (i /= Sentinel => i /= temp)
    BY <1>3, <1>4, CornerFacts
  <1>6. /\ Tree' = Tree /\ root' = (IF p = root THEN m ELSE root)
        /\ child'[s][p] = temp /\ child'[o][p] = i
        /\ parent'[Sentinel] = parent[Sentinel] /\ \A x \in Places \ {p, m, i} : parent'[x] = parent[x]
    BY <1>3, <1>4, RotateFacts
  <1>7. o /= s /\ i = child[s][m] /\ b = child[o][m]
    BY <1>1, SidesFacts
  <1> HIDE DEF p, s, m, i, b
  <1>8. red' \in [Places -> BOOLEAN] /\ \A x \in Places :
           red'[x] = IF x = p THEN TRUE ELSE IF x = m THEN FALSE ELSE red[x]
    <2>1. p \in Places /\ m \in Places
      BY <1>1, <1>2
    <2> QED BY <1>2, <1>3, <1>5, <2>1
  <1>9. /\ height[temp] \in Nat /\ ~red[temp] /\ height[p] = height[temp] + 2
        /\ height[p] = height[m] /\ height[m] \in Nat /\ red[m] /\ ~red[p]
        /\ height[i] \in Nat /\ ~red[i] /\ height[m] = height[i] + 1
        /\ height[b] \in Nat /\ ~red[b] /\ height[m] = height[b] + 1
    <2>1. height[temp] \in Nat /\ height[p] = height[temp] + 2
      BY <1>1
    <2>2. height[m] \in Nat /\ height[p] = height[m] /\ ~red[p]
      BY <1>1, <1>3, <1>7
    <2>3. /\ height[i] \in Nat /\ ~red[i] /\ height[m] = height[i] + 1
          /\ height[b] \in Nat /\ ~red[b] /\ height[m] = height[b] + 1
      BY <1>1, <1>3, <1>5, <1>7
    <2> QED BY <1>1, <1>3, <2>1, <2>2, <2>3
  <1> HIDE DEF o
  <1>10. ASSUME NEW x \in Tree, NEW d \in Sides, NEW c, c = child'[d][x]
         PROVE  /\ height[c] \in Nat
                /\ ~(red'[x] /\ red'[c])
                /\ height[x] = height[c] + (IF red'[c] THEN 0 ELSE 1) + (IF x = p /\ d = s THEN 1 ELSE 0)
    <2>1. /\ c \in Tree \cup {Sentinel}
          /\ \/ x = p /\ d = s /\ c = temp
             \/ x = p /\ d = o /\ c = i
             \/ x = m /\ d = s /\ c = p
             \/ x = m /\ d = o /\ c = b
             \/ x \notin {p, m} /\ c = m /\ child[d][x] = p
             \/ x \notin {p, m} /\ c \notin {p, m} /\ c = child[d][x]
      BY <1>3, <1>4, <1>10, RotateLinks DEF o
    <2>2. red'[p] /\ ~red'[m] /\ \A y \in (Tree \cup {Sentinel}) \ {p, m} : red'[y] = red[y]
      <3>1. p \in Places /\ m \in Places /\ (Tree \cup {Sentinel}) \subseteq Places
        BY <1>1, <1>2
      <3> QED BY <1>5, <1>8, <3>1
    <2>3. CASE x \notin {p, m} /\ c = m /\ child[d][x] = p
      <3>1. height[x] = height[p] + 1
        BY <1>1, <1>9, <2>3
      <3> QED BY <1>9, <2>2, <2>3, <3>1
    <2>4. CASE x \notin {p, m} /\ c \notin {p, m} /\ c = child[d][x]
      BY <1>1, <2>1, <2>2, <2>4
    <2>5. CASE x = p /\ d = s /\ c = temp
      <3>1. ~red'[c]
        BY <1>1, <1>5, <2>2, <2>5
      <3> QED BY <1>9, <2>5, <3>1
    <2>6. CASE x = p /\ d = o /\ c = i
      <3>1. ~red'[c]
        BY <1>5, <1>9, <2>1, <2>2, <2>6
      <3> QED BY <1>7, <1>9, <2>6, <3>1
    <2>7. CASE x = m /\ d = s /\ c = p
      BY <1>5, <1>9, <2>2, <2>7
    <2>8. CASE x = m /\ d = o /\ c = b
      <3>1. ~red'[c]
        BY <1>5, <1>9, <2>1, <2>2, <2>8
      <3> QED BY <1>5, <1>9, <2>8, <3>1
    <2> QED BY <2>1, <2>3, <2>4, <2>5, <2>6, <2>7, <2>8
  <1>11. i /= temp
    <2>1. i = temp => i = Sentinel
      BY <1>5
    <2>2. height[i] = height[temp] + 1
      BY <1>9
    <2> QED BY <1>9, <2>2
  <1>12. parent'[temp] = p
    <2>1. temp \in Places \ {p, m, i}
      BY <1>1, <1>2, <1>5, <1>11
    <2> QED BY <1>6, <2>1 DEF p
  <1>13. Near' = s
    <2>1. s \in Sides /\ child'[s][parent'[temp']] = temp' /\ child'[Other(s)][parent'[temp']] /= temp'
      BY <1>1, <1>3, <1>6, <1>11, <1>12 DEF o
    <2>2. NearTold'
      BY NearIs, PTL
    <2> HIDE DEF Near
    <2> QED BY <2>1, <2>2 DEF NearTold
  <1>14. Lacking'
    <2>1. ASSUME NEW x \in Tree', NEW d \in Sides
          PROVE  /\ height'[child'[d][x]] \in Nat
                 /\ ~(red'[x] /\ red'[child'[d][x]])
                 /\ height'[x] = height'[child'[d][x]] + (IF red'[child'[d][x]] THEN 0 ELSE 1)
                                           + (IF x = parent'[temp'] /\ d = Near' THEN 1 ELSE 0)
      <3> DEFINE c == child'[d][x]
      <3>1. /\ height[c] \in Nat
            /\ ~(red'[x] /\ red'[c])
            /\ height[x] = height[c] + (IF red'[c] THEN 0 ELSE 1) + (IF x = p /\ d = s THEN 1 ELSE 0)
        BY <1>6, <1>10
      <3> HIDE DEF c
      <3>2. height' = height /\ temp' = temp /\ parent'[temp'] = p /\ Near' = s
        BY <1>3, <1>12, <1>13
      <3>3. height'[x] = height'[c] + (IF red'[c] THEN 0 ELSE 1)
                                    + (IF x = parent'[temp'] /\ d = Near' THEN 1 ELSE 0)
        BY <3>1, <3>2
      <3> QED BY <3>1, <3>2, <3>3 DEF c
    <2>2. ~red'[root'] /\ ~red'[Sentinel] /\ temp' /= root' /\ height'[Sentinel] = 0
      BY <1>1, <1>2, <1>3, <1>5, <1>6, <1>8
    <2> QED BY <1>3, <2>1, <2>2 DEF Lacking
  <1>15. RedBlack'
    BY <1>14, LackingRedBlack, PTL
  <1>16. temp' \in Tree' \cup {Sentinel} /\ parent'[temp'] \in Tree' /\ child'[s][parent'[temp']] = temp'
    BY <1>1, <1>3, <1>6, <1>12
  <1> QED BY <1>1, <1>8, <1>15, <1>16

LEMMA BringNephewColours ==
    ASSUME AtFixup, BringNephew
    PROVE  /\ RedBlack' /\ red' \in [Places -> BOOLEAN]
           /\ temp' \in Tree' \cup {Sentinel} /\ parent'[temp'] \in Tree'
           /\ \E s \in Sides : child'[s][parent'[temp']] = temp'
  <1> DEFINE p == parent[temp]
             s == Near
             o == Far
             q == Sibling
             a == child[o][q]
             m == child[s][q]
             i == child[o][m]
             b == child[s][m]
  <1>1. /\ p \in Tree /\ s \in Sides /\ o = Other(s) /\ o \in Sides /\ q \in Tree /\ q /= temp /\ temp /= root
        /\ child[s][p] = temp /\ q = child[o][p] /\ temp \in Tree \cup {Sentinel} /\ root \in Tree
        /\ ~red[root] /\ ~red[Sentinel] /\ ~red[temp] /\ height[Sentinel] = 0
        /\ \A x \in Tree, d \in Sides :
             /\ height[child[d][x]] \in Nat
             /\ ~(red[x] /\ red[child[d][x]])
             /\ height[x] = height[child[d][x]] + (IF red[child[d][x]] THEN 0 ELSE 1)
                                                + (IF x = p /\ d = s THEN 1 ELSE 0)
    BY FixupFacts
  <1>2. /\ red \in [Places -> BOOLEAN]
        /\ Tree \subseteq Places /\ Sentinel \in Places /\ Sentinel \notin Tree
    BY FixupFacts
  <1>3. /\ Core /\ ~red[q] /\ red[m] /\ ~red[a] /\ red' = [red EXCEPT ![m] = FALSE, ![q] = TRUE]
        /\ Rotate(q, o) /\ pc' = "fixup" /\ temp' = temp /\ height' = height
    BY DEF AtFixup, RBCore, BringNephew, Fixup
  <1>4. Other(o) = s /\ o /= s
    BY <1>1, SidesFacts
  <1>5. Corner(q, o, a, m, i, b)
    BY <1>1, <1>3, <1>4 DEF Corner
  <1>6. /\ q /= m /\ q \notin {a, i, b} /\ m \notin {a, i, b} /\ m \in Tree /\ parent[m] = q
    BY <1>3, <1>5, CornerFacts
  <1>7. /\ Tree' = Tree /\ root' = (IF q = root THEN m ELSE root)
        /\ \A x \in Tree \ {q, m}, d \in Sides :
                child'[d][x] = IF child[d][x] = q THEN m ELSE child[d][x]
        /\ parent'[Sentinel] = parent[Sentinel] /\ \A x \in Places \ {q, m, i} : parent'[x] = parent[x]
    BY <1>3, <1>5, RotateFacts
  <1>8. /\ q /= root /\ p /= q /\ parent[q] = p /\ \A x \in Tree, d \in Sides : child[d][x] = q => x = p /\ d = o
    <2>1. q /= Sentinel
      BY <1>1, <1>2
    <2>2. q /= root /\ p /= q /\ parent[q] = p /\ Side(q) = o
      BY <1>1, <1>3, <2>1, OneParent
    <2> QED BY <1>1, <1>3, <2>1, <2>2, OneParent
  <1>9. m /= p
    <2>1. q \in under[p]
      <3>1. Core /\ p \in Tree /\ o \in Sides /\ q = child[o][p] /\ q /= Sentinel
        BY <1>1, <1>2, <1>3
      <3> HIDE DEF p, o, q
      <3> QED BY <3>1, OneParent
    <2>2. m \in under[q]
      <3>1. Core /\ q \in Tree /\ s \in Sides /\ m = child[s][q] /\ m /= Sentinel
        BY <1>1, <1>2, <1>3, <1>6
      <3> HIDE DEF s, q, m
      <3> QED BY <3>1, OneParent
    <2> QED BY <1>1, <1>3, <1>8, <2>1, <2>2, OneAbove
  <1>10. m /= temp
    BY <1>6, <1>8
  <1>11. i /= Sentinel => parent[i] = m
    <2>1. o \in Sides /\ m \in Tree /\ Core
      BY <1>1, <1>3, <1>6
    <2> HIDE DEF o, m
    <2> QED BY <2>1, OneParent
  <1>12. parent'[temp] = p
    <2>1. CASE temp = Sentinel
      BY <1>7, <2>1
    <2>2. CASE temp /= Sentinel
      <3>1. temp \in Places \ {q, m, i}
        BY <1>1, <1>2, <1>9, <1>10, <1>11, <2>2
      <3> QED BY <1>7, <3>1
    <2> QED BY <2>1, <2>2
  <1>13. a = child[o][q] /\ m = child[s][q] /\ i = child[o][m] /\ b = child[s][m]
    OBVIOUS
  <1> HIDE DEF p, s, o, q, m, i, b, a
  <1>14. red' \in [Places -> BOOLEAN] /\ \A x \in Places :
           red'[x] = IF x = q THEN TRUE ELSE IF x = m THEN FALSE ELSE red[x]
    <2>1. q \in Places /\ m \in Places
      BY <1>1, <1>2, <1>6
    <2> QED BY <1>2, <1>3, <1>6, <2>1
  <1>15. /\ height[a] \in Nat /\ ~red[a] /\ height[q] = height[a] + 1
         /\ height[m] \in Nat /\ height[q] = height[m]
         /\ height[i] \in Nat /\ ~red[i] /\ height[m] = height[i] + 1
         /\ height[b] \in Nat /\ ~red[b] /\ height[m] = height[b] + 1
         /\ height[q] \in Nat /\ height[p] = height[q] + 1
    <2>1. /\ height[a] \in Nat /\ height[q] = height[a] + 1
          /\ height[m] \in Nat /\ height[q] = height[m]
      BY <1>1, <1>3, <1>8, <1>13
    <2>2. /\ height[i] \in Nat /\ ~red[i] /\ height[m] = height[i] + 1
          /\ height[b] \in Nat /\ ~red[b] /\ height[m] = height[b] + 1
      <3>1. \A d \in Sides : /\ height[child[d][m]] \in Nat /\ ~red[child[d][m]]
                            /\ height[m] = height[child[d][m]] + 1
        <4>1. \A d \in Sides : /\ height[child[d][m]] \in Nat
                              /\ ~(red[m] /\ red[child[d][m]])
                              /\ height[m] = height[child[d][m]] + (IF red[child[d][m]] THEN 0 ELSE 1)
                                                                 + (IF m = p /\ d = s THEN 1 ELSE 0)
          BY <1>1, <1>6, Zenon
        <4> QED BY <1>3, <1>9, <4>1
      <3>2. o \in Sides /\ s \in Sides
        BY <1>1
      <3> QED BY <1>13, <3>1, <3>2
    <2>3. height[q] \in Nat /\ height[p] = height[q] + 1
      BY <1>1, <1>3, <1>4
    <2> QED BY <1>3, <2>1, <2>2, <2>3
  <1>16. ASSUME NEW x \in Tree, NEW d \in Sides, NEW c, c = child'[d][x]
         PROVE  /\ height[c] \in Nat
                /\ ~(red'[x] /\ red'[c])
                /\ height[x] = height[c] + (IF red'[c] THEN 0 ELSE 1) + (IF x = p /\ d = s THEN 1 ELSE 0)
    <2>1. /\ c \in Tree \cup {Sentinel}
          /\ \/ x = q /\ d = o /\ c = a
             \/ x = q /\ d = s /\ c = i
             \/ x = m /\ d = o /\ c = q
             \/ x = m /\ d = s /\ c = b
             \/ x \notin {q, m} /\ c = m /\ child[d][x] = q
             \/ x \notin {q, m} /\ c \notin {q, m} /\ c = child[d][x]
      BY <1>3, <1>4, <1>5, <1>16, RotateLinks
    <2>2. red'[q] /\ ~red'[m] /\ \A y \in (Tree \cup {Sentinel}) \ {q, m} : red'[y] = red[y]
      <3>1. q \in Places /\ m \in Places /\ (Tree \cup {Sentinel}) \subseteq Places
        BY <1>1, <1>2, <1>6
      <3> QED BY <1>6, <1>14, <3>1
    <2>3. CASE x \notin {q, m} /\ c = m /\ child[d][x] = q
      <3>1. x = p /\ d = o /\ ~red'[c]
        BY <1>8, <2>2, <2>3
      <3> QED BY <1>4, <1>15, <2>3, <3>1
    <2>4. CASE x \notin {q, m} /\ c \notin {q, m} /\ c = child[d][x]
      <3>1. red'[x] = red[x] /\ red'[c] = red[c]
        BY <2>1, <2>2, <2>4
      <3> QED BY <1>1, <2>4, <3>1
    <2>5. CASE x = q /\ c \in {a, i}
      <3>1. ~red'[c]
        BY <1>6, <1>15, <2>1, <2>2, <2>5
      <3> QED BY <1>8, <1>15, <2>5, <3>1
    <2>6. CASE x = m /\ d = o /\ c = q
      <3>1. red'[c] /\ ~red'[x]
        BY <2>2, <2>6
      <3> QED BY <1>4, <1>15, <2>6, <3>1
    <2>7. CASE x = m /\ c = b
      <3>1. ~red'[c]
        BY <1>6, <1>15, <2>1, <2>2, <2>7
      <3> QED BY <1>9, <1>15, <2>7, <3>1
    <2> QED BY <2>1, <2>3, <2>4, <2>5, <2>6, <2>7
  <1>17. child'[s][p] = temp /\ child'[o][p] = m
    <2>1. p \in Tree \ {q, m}
      BY <1>1, <1>8, <1>9
    <2> QED BY <1>1, <1>7, <2>1
  <1>18. Near' = s
    <2>1. s \in Sides /\ child'[s][parent'[temp']] = temp' /\ child'[Other(s)][parent'[temp']] /= temp'
      BY <1>1, <1>3, <1>10, <1>12, <1>17
    <2>2. NearTold'
      BY NearIs, PTL
    <2> HIDE DEF Near
    <2> QED BY <2>1, <2>2 DEF NearTold
  <1>19. Lacking'
    <2>1. ASSUME NEW x \in Tree', NEW d \in Sides
          PROVE  /\ height'[child'[d][x]] \in Nat
                 /\ ~(red'[x] /\ red'[child'[d][x]])
                 /\ height'[x] = height'[child'[d][x]] + (IF red'[child'[d][x]] THEN 0 ELSE 1)
                                           + (IF x = parent'[temp'] /\ d = Near' THEN 1 ELSE 0)
      <3> DEFINE c == child'[d][x]
      <3>1. /\ height[c] \in Nat
            /\ ~(red'[x] /\ red'[c])
            /\ height[x] = height[c] + (IF red'[c] THEN 0 ELSE 1) + (IF x = p /\ d = s THEN 1 ELSE 0)
        BY <1>7, <1>16
      <3> HIDE DEF c
      <3>2. height' = height /\ temp' = temp /\ parent'[temp'] = p /\ Near' = s
        BY <1>3, <1>12, <1>18
      <3>3. height'[x] = height'[c] + (IF red'[c] THEN 0 ELSE 1)
                                    + (IF x = parent'[temp'] /\ d = Near' THEN 1 ELSE 0)
        BY <3>1, <3>2
      <3> QED BY <3>1, <3>2, <3>3 DEF c
    <2>2. ~red'[root'] /\ ~red'[Sentinel] /\ temp' /= root' /\ height'[Sentinel] = 0
      <3>1. root' = root /\ root \in Places
        BY <1>1, <1>2, <1>7, <1>8
      <3> QED BY <1>1, <1>2, <1>3, <1>6, <1>8, <1>14, <3>1
    <2> QED BY <1>3, <2>1, <2>2 DEF Lacking
  <1>20. RedBlack'
    BY <1>19, LackingRedBlack, PTL
  <1>21. temp' \in Tree' \cup {Sentinel} /\ parent'[temp'] \in Tree' /\ child'[s][parent'[temp']] = temp'
    BY <1>1, <1>3, <1>7, <1>12, <1>17
  <1> QED BY <1>1, <1>14, <1>20, <1>21

LEMMA LightenColours ==
    ASSUME AtFixup, Lighten
    PROVE  /\ RedBlack' /\ red' \in [Places -> BOOLEAN] /\ height' \in [Places -> Nat]
           /\ temp' \in Tree'
           /\ temp' /= root' => /\ parent'[temp'] \in Tree'
                                /\ \E s \in Sides : child'[s][parent'[temp']] = temp'
  <1> DEFINE p == parent[temp]
             s == Near
             q == Sibling
             e == Side(p)
             g == parent[p]
  <1>1. /\ p \in Tree /\ s \in Sides /\ Other(s) \in Sides /\ q \in Tree /\ q /= temp
        /\ child[s][p] = temp /\ q = child[Other(s)][p] /\ temp \in Tree \cup {Sentinel} /\ root \in Tree
        /\ ~red[root] /\ ~red[Sentinel] /\ ~red[temp] /\ height[Sentinel] = 0
        /\ \A x \in Tree, d \in Sides :
             /\ height[child[d][x]] \in Nat
             /\ ~(red[x] /\ red[child[d][x]])
             /\ height[x] = height[child[d][x]] + (IF red[child[d][x]] THEN 0 ELSE 1)
                                                + (IF x = p /\ d = s THEN 1 ELSE 0)
    BY FixupFacts
  <1>2. /\ red \in [Places -> BOOLEAN] /\ height \in [Places -> Nat]
        /\ Tree \subseteq Places /\ Sentinel \in Places /\ Sentinel \notin Tree
    BY FixupFacts
  <1>3. /\ Core /\ ~red[q] /\ (\A d \in Sides : ~red[child[d][q]]) /\ red' = [red EXCEPT ![q] = TRUE]
        /\ height' = [height EXCEPT ![p] = height[p] - 1]
        /\ pc' = "fixup" /\ temp' = p /\ child' = child /\ parent' = parent /\ root' = root /\ Tree' = Tree
    BY DEF AtFixup, RBCore, Lighten, Fixup, Shape, Tree
  <1>4. Other(s) /= s /\ \A d \in Sides : d = s \/ d = Other(s)
    BY <1>1, SidesFacts
  <1>5. /\ q /= root /\ p /= q /\ \A x \in Tree, d \in Sides : child[d][x] = q => x = p /\ d = Other(s)
    <2>1. q /= Sentinel
      BY <1>1, <1>2
    <2>2. q /= root /\ p /= q /\ parent[q] = p /\ Side(q) = Other(s)
      BY <1>1, <1>3, <2>1, OneParent
    <2> QED BY <1>1, <1>3, <2>1, <2>2, OneParent
  <1>6. p /= root => /\ g \in Tree /\ e \in Sides /\ child[e][g] = p
                     /\ \A x \in Tree, d \in Sides : child[d][x] = p => x = g /\ d = e
    BY <1>1, <1>3, ParentFacts
  <1>7. p = root => \A x \in Tree, d \in Sides : child[d][x] /= p
    BY <1>1, <1>2, <1>3, OneParent
  <1>8. \A d \in Sides : child[d][p] /= p
    BY <1>1, <1>2, <1>3, OneParent
  <1>9. Near' = e
    <2>1. Side(temp)' = Side(p)
      BY <1>3 DEF Side
    <2> QED BY <2>1 DEF Near
  <1> HIDE DEF p, s, q, e, g
  <1>10. /\ height[temp] \in Nat /\ height[p] = height[temp] + 2 /\ height[q] \in Nat /\ height[p] = height[q] + 1
    BY <1>1, <1>3, <1>4
  <1>11. /\ red' \in [Places -> BOOLEAN] /\ height' \in [Places -> Nat]
         /\ \A x \in Places : red'[x] = IF x = q THEN TRUE ELSE red[x]
         /\ \A x \in Places : height'[x] = IF x = p THEN height[p] - 1 ELSE height[x]
    <2>1. q \in Places /\ p \in Places
      BY <1>1, <1>2
    <2>2. height[p] - 1 \in Nat
      BY <1>10
    <2> QED BY <1>2, <1>3, <2>1, <2>2
  <1>12. ASSUME NEW x \in Tree, NEW d \in Sides, NEW c, c = child[d][x]
         PROVE  /\ height'[c] \in Nat
                /\ red'[x] /\ red'[c] => p \in {x, c}
                /\ height'[x] = height'[c] + (IF red'[c] THEN 0 ELSE 1)
                                           + (IF p /= root /\ x = g /\ d = e THEN 1 ELSE 0)
    <2>1. c \in Tree \cup {Sentinel} /\ c \in Places /\ height'[c] \in Nat /\ height[c] \in Nat
      <3>1. c \in Tree \cup {Sentinel}
        BY <1>3, <1>12, UnderFacts
      <3> QED BY <1>2, <1>11, <3>1
    <2>2. CASE x = p /\ d = s
      <3>1. c = temp /\ c /= p /\ c /= q
        BY <1>1, <1>8, <1>12, <2>2
      <3>2. ~red'[c] /\ height'[c] = height[temp] /\ height'[x] = height[p] - 1
        BY <1>1, <1>2, <1>11, <2>1, <2>2, <3>1
      <3>3. ~(p /= root /\ x = g /\ d = e)
        BY <1>6, <1>8, <2>2
      <3> QED BY <1>10, <2>1, <2>2, <3>2, <3>3
    <2>3. CASE x = p /\ d = Other(s)
      <3>1. c = q
        BY <1>1, <1>12, <2>3
      <3>2. red'[c] /\ height'[c] = height[q] /\ height'[x] = height[p] - 1
        BY <1>1, <1>2, <1>5, <1>11, <2>1, <2>3, <3>1
      <3>3. ~(p /= root /\ x = g /\ d = e)
        BY <1>6, <1>8, <2>3
      <3> QED BY <1>10, <2>1, <2>3, <3>2, <3>3
    <2>4. CASE x /= p
      <3>1. c /= q
        BY <1>5, <1>12, <2>4
      <3>2. red'[c] = red[c] /\ height'[x] = height[x] /\ height[x] \in Nat
        BY <1>2, <1>11, <2>1, <2>4, <3>1
      <3>3. height[x] = height[c] + (IF red[c] THEN 0 ELSE 1) /\ ~(red[x] /\ red[c])
        BY <1>1, <1>12, <2>1, <2>4
      <3>4. CASE c = p
        <4>1. p /= root /\ x = g /\ d = e
          BY <1>6, <1>7, <1>12, <3>4
        <4>2. height'[c] = height[c] - 1
          BY <1>11, <2>1, <3>4
        <4> QED BY <2>1, <3>2, <3>3, <3>4, <4>1, <4>2
      <3>5. CASE c /= p
        <4>1. ~(p /= root /\ x = g /\ d = e)
          BY <1>6, <1>12, <3>5
        <4>2. height'[c] = height[c]
          BY <1>11, <2>1, <3>5
        <4>3. ~(red'[x] /\ red'[c])
          <5>1. x /= q => red'[x] = red[x]
            BY <1>2, <1>11
          <5>2. x = q => ~red[c]
            BY <1>3, <1>12
          <5> QED BY <3>2, <3>3, <5>1, <5>2
        <4> QED BY <2>1, <3>2, <3>3, <4>1, <4>2, <4>3
      <3> QED BY <3>4, <3>5
    <2> QED BY <1>4, <2>2, <2>3, <2>4
  <1>13. ~red'[root'] /\ ~red'[Sentinel] /\ height'[Sentinel] = 0
    BY <1>1, <1>2, <1>3, <1>5, <1>11
  <1>14. RedBlack'
    <2>1. CASE p = root
      <3>1. Whole'
        <4>1. \A x \in Tree', d \in Sides :
                /\ height'[child'[d][x]] \in Nat
                /\ ~(red'[x] /\ red'[child'[d][x]])
                /\ height'[x] = height'[child'[d][x]] + (IF red'[child'[d][x]] THEN 0 ELSE 1)
          <5> SUFFICES ASSUME NEW x \in Tree', NEW d \in Sides, NEW c, c = child[d][x]
                       PROVE  /\ height'[c] \in Nat
                              /\ ~(red'[x] /\ red'[c])
                              /\ height'[x] = height'[c] + (IF red'[c] THEN 0 ELSE 1)
            BY <1>3
          <5>1. /\ height'[c] \in Nat
                /\ red'[x] /\ red'[c] => p \in {x, c}
                /\ height'[x] = height'[c] + (IF red'[c] THEN 0 ELSE 1)
                                           + (IF p /= root /\ x = g /\ d = e THEN 1 ELSE 0)
            BY <1>3, <1>12
          <5>2. ~red'[p]
            BY <1>3, <1>13, <2>1
          <5> QED BY <2>1, <5>1, <5>2
        <4> QED BY <1>3, <1>13, <2>1, <4>1 DEF Whole
      <3> QED BY <3>1, WholeRedBlack, PTL
    <2>2. CASE p /= root
      <3>1. Lacking'
        <4>1. \A x \in Tree', d \in Sides :
                /\ height'[child'[d][x]] \in Nat
                /\ red'[x] /\ red'[child'[d][x]] => temp' \in {x, child'[d][x]}
                /\ height'[x] = height'[child'[d][x]] + (IF red'[child'[d][x]] THEN 0 ELSE 1)
                                           + (IF x = parent'[temp'] /\ d = Near' THEN 1 ELSE 0)
          <5> SUFFICES ASSUME NEW x \in Tree', NEW d \in Sides, NEW c, c = child[d][x]
                       PROVE  /\ height'[c] \in Nat
                              /\ red'[x] /\ red'[c] => temp' \in {x, c}
                              /\ height'[x] = height'[c] + (IF red'[c] THEN 0 ELSE 1)
                                           + (IF x = parent'[temp'] /\ d = Near' THEN 1 ELSE 0)
            BY <1>3
          <5>1. /\ height'[c] \in Nat
                /\ red'[x] /\ red'[c] => p \in {x, c}
                /\ height'[x] = height'[c] + (IF red'[c] THEN 0 ELSE 1)
                                           + (IF p /= root /\ x = g /\ d = e THEN 1 ELSE 0)
            BY <1>3, <1>12
          <5>2. temp' = p /\ parent'[temp'] = g /\ Near' = e
            BY <1>3, <1>9 DEF g
          <5> QED BY <2>2, <5>1, <5>2
        <4> QED BY <1>3, <1>13, <2>2, <4>1 DEF Lacking
      <3> QED BY <3>1, LackingRedBlack, PTL
    <2> QED BY <2>1, <2>2
  <1>15. temp' \in Tree' /\ (temp' /= root' => parent'[temp'] \in Tree' /\ e \in Sides /\ child'[e][parent'[temp']] = temp')
    BY <1>1, <1>3, <1>6 DEF g
  <1> QED BY <1>11, <1>14, <1>15

LEMMA SettleColours ==
    ASSUME AtFixup, Settle
    PROVE  /\ RedBlack' /\ red' \in [Places -> BOOLEAN] /\ height' \in [Places -> Nat]
           /\ temp' \in Tree' /\ temp' = root'
  <1> DEFINE p == parent[temp]
             s == Near
             o == Other(s)
             m == Sibling
             i == child[s][m]
             b == child[o][m]
  <1>1. /\ p \in Tree /\ s \in Sides /\ Far = o /\ o \in Sides /\ m \in Tree /\ m /= temp /\ temp /= root
        /\ child[s][p] = temp /\ m = child[o][p] /\ temp \in Tree \cup {Sentinel} /\ root \in Tree
        /\ ~red[root] /\ ~red[Sentinel] /\ ~red[temp] /\ height[Sentinel] = 0
        /\ \A x \in Tree, d \in Sides :
             /\ height[child[d][x]] \in Nat
             /\ ~(red[x] /\ red[child[d][x]])
             /\ height[x] = height[child[d][x]] + (IF red[child[d][x]] THEN 0 ELSE 1)
                                                + (IF x = p /\ d = s THEN 1 ELSE 0)
    BY FixupFacts
  <1>2. /\ red \in [Places -> BOOLEAN] /\ height \in [Places -> Nat]
        /\ Tree \subseteq Places /\ Sentinel \in Places /\ Sentinel \notin Tree
    BY FixupFacts
  <1>3. /\ Core /\ ~red[m] /\ red[b] /\ red' = [red EXCEPT ![m] = red[p], ![p] = FALSE, ![b] = FALSE]
        /\ Rotate(p, s) /\ height' = [height EXCEPT ![m] = height[m] + 1, ![p] = height[p] - 1]
        /\ pc' = "fixup" /\ temp' = root'
    BY <1>1 DEF AtFixup, RBCore, Settle, Fixup
  <1>4. Corner(p, s, temp, m, i, b)
    BY <1>1, <1>2 DEF Corner
  <1>5. /\ p /= m /\ p \notin {temp, i, b} /\ m \notin {temp, i, b}
        /\ (i /= Sentinel => i /= temp /\ i /= b) /\ (temp /= Sentinel => temp /= b)
        /\ b \in Tree \cup {Sentinel}
    BY <1>3, <1>4, CornerFacts
  <1>6. b \in Tree /\ b /= temp /\ b /= i /\ b /= Sentinel
    BY <1>1, <1>3, <1>5
  <1>7. /\ Tree' = Tree /\ root' = (IF p = root THEN m ELSE root)
    BY <1>3, <1>4, RotateFacts
  <1>8. \A x \in Tree, d \in Sides : child[d][x] = b => x = m
    <2>1. parent[child[o][m]] = m /\ child[o][m] /= root
      <3>1. o \in Sides /\ m \in Tree /\ Core /\ child[o][m] /= Sentinel
        BY <1>1, <1>3, <1>6
      <3> HIDE DEF o, m
      <3> QED BY <3>1, OneParent
    <2> QED BY <1>3, <1>6, <2>1, ParentFacts
  <1>9. o /= s /\ i = child[s][m] /\ b = child[o][m] /\ b /= root
    <2>1. b /= root
      BY <1>1, <1>3
    <2> QED BY <1>1, <2>1, SidesFacts
  <1> HIDE DEF p, s, m, i, b, o
  <1>10. /\ height[temp] \in Nat /\ height[p] = height[temp] + 2
         /\ height[m] \in Nat /\ height[p] = height[m] + 1
         /\ height[i] \in Nat /\ height[m] = height[i] + (IF red[i] THEN 0 ELSE 1)
         /\ height[b] \in Nat /\ height[m] = height[b]
    <2>1. height[temp] \in Nat /\ height[p] = height[temp] + 2
      BY <1>1
    <2>2. height[m] \in Nat /\ height[p] = height[m] + 1
      BY <1>1, <1>3, <1>9
    <2>3. /\ height[i] \in Nat /\ height[m] = height[i] + (IF red[i] THEN 0 ELSE 1)
          /\ height[b] \in Nat /\ height[m] = height[b]
      BY <1>1, <1>3, <1>5, <1>9
    <2> QED BY <2>1, <2>2, <2>3
  <1>11. /\ red' \in [Places -> BOOLEAN] /\ height' \in [Places -> Nat]
         /\ \A x \in Places : red'[x] = IF x = b THEN FALSE ELSE IF x = p THEN FALSE
                                        ELSE IF x = m THEN red[p] ELSE red[x]
         /\ \A x \in Places : height'[x] = IF x = p THEN height[p] - 1
                                           ELSE IF x = m THEN height[m] + 1 ELSE height[x]
    <2>1. m \in Places /\ p \in Places /\ b \in Places
      BY <1>1, <1>2, <1>6
    <2>2. height[p] - 1 \in Nat /\ height[m] + 1 \in Nat /\ red[p] \in BOOLEAN
      BY <1>2, <1>10, <2>1
    <2>3. /\ red' \in [Places -> BOOLEAN]
          /\ \A x \in Places : red'[x] = IF x = b THEN FALSE ELSE IF x = p THEN FALSE
                                        ELSE IF x = m THEN red[p] ELSE red[x]
      BY <1>2, <1>3, <2>1, <2>2
    <2>4. /\ height' \in [Places -> Nat]
          /\ \A x \in Places : height'[x] = IF x = p THEN height[p] - 1
                                           ELSE IF x = m THEN height[m] + 1 ELSE height[x]
      BY <1>2, <1>3, <2>1, <2>2
    <2> QED BY <2>3, <2>4
  <1>12. ASSUME NEW x \in Tree, NEW d \in Sides, NEW c, c = child'[d][x]
         PROVE  /\ height'[c] \in Nat
                /\ ~(red'[x] /\ red'[c])
                /\ height'[x] = height'[c] + (IF red'[c] THEN 0 ELSE 1)
    <2>1. /\ c \in Tree \cup {Sentinel}
          /\ \/ x = p /\ d = s /\ c = temp
             \/ x = p /\ d = o /\ c = i
             \/ x = m /\ d = s /\ c = p
             \/ x = m /\ d = o /\ c = b
             \/ x \notin {p, m} /\ c = m /\ child[d][x] = p
             \/ x \notin {p, m} /\ c \notin {p, m} /\ c = child[d][x]
      BY <1>3, <1>4, <1>12, RotateLinks DEF o
    <2>2. /\ ~red'[p] /\ ~red'[b] /\ red'[m] = red[p]
          /\ height'[p] = height[p] - 1 /\ height'[m] = height[m] + 1
          /\ \A y \in (Tree \cup {Sentinel}) \ {p, m} : height'[y] = height[y] /\ (y /= b => red'[y] = red[y])
      <3>1. p \in Places /\ m \in Places /\ b \in Places /\ (Tree \cup {Sentinel}) \subseteq Places
        BY <1>1, <1>2, <1>6
      <3> QED BY <1>5, <1>11, <3>1
    <2>3. CASE x \notin {p, m} /\ c = m /\ child[d][x] = p
      <3>1. /\ ~(red[x] /\ red[p]) /\ height[x] = height[p] + (IF red[p] THEN 0 ELSE 1)
        BY <1>1, <2>3
      <3>2. (red'[x] => red[x]) /\ height'[x] = height[x]
        BY <1>1, <2>2, <2>3
      <3> QED BY <1>10, <2>2, <2>3, <3>1, <3>2
    <2>4. CASE x \notin {p, m} /\ c \notin {p, m} /\ c = child[d][x]
      <3>1. (red'[x] => red[x]) /\ height'[x] = height[x]
        BY <1>1, <2>2, <2>4
      <3>2. red'[c] = red[c] /\ height'[c] = height[c]
        BY <1>8, <2>1, <2>2, <2>4
      <3>3. height[c] \in Nat /\ ~(red[x] /\ red[c]) /\ height[x] = height[c] + (IF red[c] THEN 0 ELSE 1)
        BY <1>1, <2>4
      <3> QED BY <3>1, <3>2, <3>3
    <2>5. CASE x = p /\ d = s /\ c = temp
      <3>1. ~red'[c] /\ height'[c] = height[temp]
        BY <1>1, <1>5, <1>6, <2>1, <2>2, <2>5
      <3> QED BY <1>10, <2>2, <2>5, <3>1
    <2>6. CASE x = p /\ d = o /\ c = i
      <3>1. red'[c] = red[i] /\ height'[c] = height[i]
        BY <1>5, <1>6, <2>1, <2>2, <2>6
      <3> QED BY <1>10, <2>2, <2>6, <3>1
    <2>7. CASE x = m /\ d = s /\ c = p
      <3>1. height'[c] \in Nat
        BY <1>10, <2>2, <2>7
      <3> QED BY <1>5, <1>10, <2>2, <2>7, <3>1
    <2>8. CASE x = m /\ d = o /\ c = b
      <3>1. height'[c] = height[b]
        BY <1>5, <2>1, <2>2, <2>8
      <3> QED BY <1>5, <1>10, <2>2, <2>8, <3>1
    <2> QED BY <2>1, <2>3, <2>4, <2>5, <2>6, <2>7, <2>8
  <1>13. Whole'
    <2>1. ~red'[root'] /\ ~red'[Sentinel] /\ height'[Sentinel] = 0
      <3>1. CASE p = root
        BY <1>1, <1>2, <1>5, <1>6, <1>7, <1>11, <3>1
      <3>2. CASE p /= root
        <4>1. root' = root /\ root \in Places /\ root /= m
          <5>1. m /= root
            BY <1>3, <1>4, CornerFacts
          <5> QED BY <1>1, <1>2, <1>7, <3>2, <5>1
        <4> QED BY <1>1, <1>2, <1>6, <1>9, <1>11, <3>2, <4>1
      <3> QED BY <3>1, <3>2
    <2>2. \A x \in Tree', d \in Sides :
             /\ height'[child'[d][x]] \in Nat
             /\ ~(red'[x] /\ red'[child'[d][x]])
             /\ height'[x] = height'[child'[d][x]] + (IF red'[child'[d][x]] THEN 0 ELSE 1)
      BY <1>7, <1>12
    <2> QED BY <1>3, <2>1, <2>2 DEF Whole
  <1>14. RedBlack'
    BY <1>13, WholeRedBlack, PTL
  <1>15. temp' \in Tree'
    BY <1>1, <1>3, <1>7
  <1> QED BY <1>3, <1>11, <1>14, <1>15

LEMMA FixedUpColours ==
    ASSUME RBCore, temp \in Tree \cup {Sentinel}, FixedUp,
           temp /= root => parent[temp] \in Tree /\ \E s \in Sides : child[s][parent[temp]] = temp
    PROVE  RedBlack' /\ red' \in [Places -> BOOLEAN]
  <1>1. Core /\ RedBlack /\ pc = "fixup" /\ pc' = "idle" /\ red' = [red EXCEPT ![temp] = FALSE]
        /\ child' = child /\ root' = root /\ height' = height /\ Tree' = Tree
        /\ (temp = root \/ red[temp])
    BY DEF RBCore, FixedUp, Fixup, Shape, Return, Tree
  <1>2. Tree \subseteq Places /\ red \in [Places -> BOOLEAN] /\ Sentinel \in Places /\ Sentinel \notin Tree
        /\ temp \in Places
    BY <1>1, UnderFacts DEF Core, TypeOK, Places
  <1>3. red' \in [Places -> BOOLEAN] /\ \A x \in Places : red'[x] = IF x = temp THEN FALSE ELSE red[x]
    BY <1>1, <1>2
  <1>4. ~red[root] /\ ~red[Sentinel] /\ height[Sentinel] = 0
    BY <1>1 DEF RedBlack
  <1>5. \A x \in Tree, d \in Sides : child[d][x] \in Tree \cup {Sentinel} /\ height[child[d][x]] \in Nat
    <2> SUFFICES ASSUME NEW x \in Tree, NEW d \in Sides
                 PROVE  child[d][x] \in Tree \cup {Sentinel} /\ height[child[d][x]] \in Nat
      OBVIOUS
    <2>1. child[d][x] \in Tree \cup {Sentinel}
      BY <1>1, UnderFacts
    <2> QED BY <1>1, <1>2, <2>1, ColourTypes DEF Core
  <1>6. ASSUME NEW x \in Tree, NEW d \in Sides, NEW c, c = child[d][x]
        PROVE  /\ ~(red'[x] /\ red'[c])
               /\ height[x] = height[c] + (IF red'[c] THEN 0 ELSE 1)
    <2>1. c \in Tree \cup {Sentinel} /\ height[c] \in Nat
      BY <1>5, <1>6
    <2>2. CASE temp = root
      <3>1. red[x] /\ red[c] => FALSE
        <4>1. red[x] /\ red[c] => temp \in {x, c}
          BY <1>1, <1>6 DEF RedBlack
        <4> QED BY <1>4, <2>2, <4>1
      <3>2. height[x] = height[c] + (IF red[c] THEN 0 ELSE 1)
        <4>1. ~Short(x, d)
          BY <2>2 DEF Short
        <4> QED BY <1>1, <1>6, <2>1, <4>1 DEF RedBlack, Rank
      <3>3. red'[x] = red[x] /\ red'[c] = red[c]
        BY <1>2, <1>3, <1>4, <2>1, <2>2
      <3> QED BY <3>1, <3>2, <3>3
    <2>3. CASE temp /= root
      <3>1. Lacking
        BY <1>1, <2>3, RedBlackLacking
      <3>2. /\ red[x] /\ red[c] => temp \in {x, c}
            /\ height[x] = height[c] + (IF red[c] THEN 0 ELSE 1)
                                     + (IF x = parent[temp] /\ d = Near THEN 1 ELSE 0)
        BY <1>6, <3>1 DEF Lacking
      <3>3. temp \in Tree /\ red[temp] /\ temp /= Sentinel
        BY <1>1, <1>2, <1>4, <2>3
      <3>4. x = parent[temp] /\ d = Near <=> c = temp
        <4>1. /\ Near \in Sides /\ child[Near][parent[temp]] = temp
              /\ \A y \in Tree, e \in Sides : child[e][y] = temp => y = parent[temp] /\ e = Near
          BY <1>1, <2>3, <3>3, ParentFacts DEF Near
        <4> HIDE DEF Near
        <4> QED BY <1>6, <4>1
      <3>5. red'[x] = (IF x = temp THEN FALSE ELSE red[x]) /\ red'[c] = (IF c = temp THEN FALSE ELSE red[c])
        BY <1>2, <1>3, <2>1
      <3> HIDE DEF Near
      <3>6. CASE c = temp
        BY <2>1, <3>2, <3>3, <3>4, <3>5, <3>6
      <3>7. CASE c /= temp
        BY <2>1, <3>2, <3>3, <3>4, <3>5, <3>7
      <3> QED BY <3>6, <3>7
    <2> QED BY <2>2, <2>3
  <1>7. Whole'
    <2>1. ~red'[root] /\ ~red'[Sentinel]
      <3>1. root \in Places
        BY <1>1 DEF Core, TypeOK
      <3> QED BY <1>2, <1>3, <1>4, <3>1
    <2> QED BY <1>1, <1>4, <1>5, <1>6, <2>1 DEF Whole
  <1>8. RedBlack'
    BY <1>7, WholeRedBlack, PTL
  <1> QED BY <1>3, <1>8

-----------------------------------------------------------------------------
(* The steps that change no pointer.                                       *)

LEMMA SameShape ==
    ASSUME Linked, Nested, Ordered, Sorted, UNCHANGED <<Shape, insert>>
    PROVE  Linked' /\ Nested' /\ Ordered' /\ Sorted'
  <1>1. /\ root' = root /\ child' = child /\ parent' = parent /\ under' = under /\ key' = key
        /\ order' = order /\ insert' = insert /\ Tree' = Tree
    BY DEF Shape, Tree
  <1>2. Linked'
    BY <1>1 DEF Linked
  <1>3. Nested'
    BY <1>1 DEF Nested
  <1>4. Ordered'
    BY <1>1 DEF Ordered, Earlier
  <1>5. Sorted'
    BY <1>1 DEF Sorted
  <1> QED BY <1>2, <1>3, <1>4, <1>5

LEMMA SameColours ==
    ASSUME Core, RedBlack, pc \notin {"rebalance", "fixup"}, pc' /= "fixup",
           UNCHANGED <<root, child, order, red, height>>
    PROVE  RedBlack'
  <1>1. Whole
    BY RedBlackWhole
  <1>2. Whole'
    <2>1. root' = root /\ child' = child /\ red' = red /\ height' = height /\ Tree' = Tree
      BY DEF Tree
    <2> QED BY <1>1, <2>1 DEF Whole
  <1> QED BY <1>2, WholeRedBlack, PTL

\* A node below n on side s, and what is elsewhere below n.
LEMMA Below ==
    ASSUME Core, Ordered, NEW n \in Tree, NEW s \in Sides
    PROVE  /\ \A x \in under[child[s][n]] : Toward(s, x, n) /\ x \in Tree
           /\ \A x \in under[child[Other(s)][n]] : Toward(s, n, x) /\ x \in Tree
           /\ \A y \in Tree, x \in under[n] : y \notin under[n] =>
                 (Toward(s, y, n) <=> Toward(s, y, x)) /\ (Toward(s, n, y) <=> Toward(s, x, y))
  <1>1. OrderedBy
    BY OrderedToward
  <1>2. TypeOK /\ Distinct(order) /\ Other(s) \in Sides
    BY SidesFacts DEF Core, Ordered
  <1>3. \A x \in under[child[s][n]] : Toward(s, x, n) /\ x \in Tree
    BY <1>1, <1>2, TowardOrder DEF OrderedBy
  <1>4. \A x \in under[child[Other(s)][n]] : Toward(s, n, x) /\ x \in Tree
    BY <1>1, <1>2, TowardOrder DEF OrderedBy
  <1>5. ASSUME NEW y \in Tree, NEW x \in under[n], y \notin under[n]
        PROVE  (Toward(s, y, n) <=> Toward(s, y, x)) /\ (Toward(s, n, y) <=> Toward(s, x, y))
    <2>1. n \in under[n] /\ x \in Tree
      BY UnderFacts
    <2>2. /\ Toward(s, y, n) => Toward(s, y, x)
          /\ Toward(Other(s), y, n) => Toward(Other(s), y, x)
      BY <1>1, <1>2, <1>5 DEF OrderedBy
    <2>3. (Toward(Other(s), y, n) <=> Toward(s, n, y)) /\ (Toward(Other(s), y, x) <=> Toward(s, x, y))
      BY <1>2, TowardOrder
    <2>4. /\ y /= n /\ y /= x
          /\ Toward(s, y, n) \/ Toward(s, n, y)
          /\ ~(Toward(s, y, x) /\ Toward(s, x, y))
      BY <1>2, <1>5, <2>1, TowardOrder
    <2> QED BY <2>2, <2>3, <2>4
  <1> QED BY <1>3, <1>4, <1>5

\* The same for a node in order.
LEMMA Around ==
    ASSUME Core, Ordered, NEW n \in Tree
    PROVE  /\ \A x \in under[child["left"][n]] : Earlier(x, n) /\ x \in Tree
           /\ \A x \in under[child["right"][n]] : Earlier(n, x) /\ x \in Tree
           /\ \A y \in Tree, x \in under[n] : y \notin under[n] =>
                 (Earlier(y, n) <=> Earlier(y, x)) /\ (Earlier(n, y) <=> Earlier(x, y))
           /\ under[n] = {n} \cup under[child["left"][n]] \cup under[child["right"][n]]
           /\ n \in under[n] /\ under[n] \subseteq Tree
           /\ \A x, y, z : Earlier(x, y) /\ Earlier(y, z) => Earlier(x, z)
           /\ \A x, y : Earlier(x, y) => x \in Tree /\ y \in Tree /\ ~Earlier(y, x)
           /\ \A x, y \in Tree : x = y \/ Earlier(x, y) \/ Earlier(y, x)
  <1>1. "left" \in Sides /\ Other("left") = "right"
    BY DEF Sides, Other
  <1>2. \A x, y : Toward("left", x, y) <=> Earlier(x, y)
    BY DEF Toward, TowardIn, Earlier
  <1>3. /\ \A x \in under[child["left"][n]] : Earlier(x, n) /\ x \in Tree
        /\ \A x \in under[child["right"][n]] : Earlier(n, x) /\ x \in Tree
        /\ \A y \in Tree, x \in under[n] : y \notin under[n] =>
              (Earlier(y, n) <=> Earlier(y, x)) /\ (Earlier(n, y) <=> Earlier(x, y))
    <2>1. /\ \A x \in under[child["left"][n]] : Toward("left", x, n) /\ x \in Tree
          /\ \A x \in under[child["right"][n]] : Toward("left", n, x) /\ x \in Tree
          /\ \A y \in Tree, x \in under[n] : y \notin under[n] =>
                (Toward("left", y, n) <=> Toward("left", y, x)) /\ (Toward("left", n, y) <=> Toward("left", x, y))
      BY <1>1, Below
    <2> QED BY <1>2, <2>1
  <1>4. /\ under[n] = {n} \cup under[child["left"][n]] \cup under[child["right"][n]]
        /\ n \in under[n] /\ under[n] \subseteq Tree
    BY <1>1, UnderFacts
  <1>5. TypeOK /\ Distinct(order)
    BY DEF Core, Ordered
  <1> QED BY <1>3, <1>4, <1>5, EarlierOrder

\* The walks.
Walk == Min \/ (\E n \in Nodes : ngx_rbtree_next(n) \/ Delete(n)) \/ ngx_rbtree_min \/ MinFound \/ Climb

\* A walk is in the tree.
LEMMA WalkCursor ==
    ASSUME Core, Loops, pc \in {"min", "next", "subst"}
    PROVE  temp \in Tree
  <1>1. CASE pc = "min" \/ temp = node
    BY <1>1 DEF Loops
  <1>2. CASE pc /= "min" /\ temp /= node
    <2>1. node \in Tree /\ temp \in under[child["right"][node]] /\ "right" \in Sides
      BY <1>2 DEF Loops, Sides
    <2>2. child["right"][node] \in Tree \cup {Sentinel} /\ under[Sentinel] = {}
      BY <2>1, UnderFacts
    <2> QED BY <2>1, <2>2, UnderFacts
  <1> QED BY <1>1, <1>2

LEMMA WalkLoops == ASSUME RBInv, Walk PROVE Loops'
  <1>1. Core /\ Ordered /\ Loops
    BY DEF RBInv, Core
  <1>2. /\ UNCHANGED <<root, child, parent, under, key, order>> /\ Tree' = Tree /\ insert' = insert
    BY DEF Walk, Min, ngx_rbtree_next, Delete, ngx_rbtree_min, MinFound, Climb, Shape, Tree
  <1>3. \A x, y : Earlier(x, y)' <=> Earlier(x, y)
    BY <1>2 DEF Earlier
  <1>4. Null \notin Tree /\ Sentinel \notin Tree /\ under[root] = Tree /\ (Tree /= {} => root \in Tree)
    BY <1>1, Constants, UnderFacts
  <1>5. CASE pc' = "idle"
    BY <1>5 DEF Loops
  <1>6. CASE Min
    <2>1. pc' = "min" /\ node' = Null /\ temp' = root /\ root \in Tree
      BY <1>1, <1>6 DEF Min, Core, Nested
    <2> QED BY <1>2, <1>4, <2>1 DEF Loops
  <1>7. ASSUME NEW n \in Nodes, ngx_rbtree_next(n) PROVE Loops'
    <2>1. n \in Tree /\ node' = n
      BY <1>7 DEF ngx_rbtree_next, Tree
    <2>2. CASE child["right"][n] /= Sentinel
      <3>1. pc' = "next" /\ temp' = child["right"][n]
        BY <1>7, <2>2 DEF ngx_rbtree_next
      <3>2. temp' \in under[temp']
        <4>1. child["right"][n] \in Tree
          BY <1>1, <2>1, <2>2, UnderFacts DEF Sides
        <4> QED BY <1>1, <3>1, <4>1, UnderFacts
      <3> QED BY <1>2, <2>1, <3>1, <3>2 DEF Loops
    <2>3. CASE child["right"][n] = Sentinel
      <3>1. pc' = "climb" /\ temp' = n
        BY <1>7, <2>3 DEF ngx_rbtree_next
      <3>2. n \in under[n] /\ \A x \in under[n] : x = n \/ Earlier(x, n)
        <4>1. under[child["right"][n]] = {}
          BY <1>1, <2>3, UnderFacts
        <4> QED BY <1>1, <2>1, <4>1, Around
      <3> QED BY <1>2, <1>3, <2>1, <3>1, <3>2 DEF Loops
    <2> QED BY <2>2, <2>3
  <1>8. ASSUME NEW n \in Nodes, Delete(n) PROVE Loops'
    <2>1. n \in Tree /\ node' = n /\ pc' = "subst"
          /\ temp' = IF Sentinel \in {child[s][n] : s \in Sides} THEN n ELSE child["right"][n]
      BY <1>8 DEF Delete, Tree
    <2>2. CASE \E s \in Sides : child[s][n] = Sentinel
      <3>1. temp' = n
        BY <2>1, <2>2
      <3> QED BY <1>2, <2>1, <2>2, <3>1 DEF Loops
    <2>3. CASE ~\E s \in Sides : child[s][n] = Sentinel
      <3>1. temp' = child["right"][n] /\ "right" \in Sides
        BY <2>1, <2>3 DEF Sides
      <3>2. child["right"][n] \in under[child["right"][n]] /\ child["right"][n] /= n
        BY <1>1, <2>1, <2>3, <3>1, OneParent
      <3> QED BY <1>2, <2>1, <2>3, <3>1, <3>2 DEF Loops
    <2> QED BY <2>2, <2>3
  <1>9. CASE ngx_rbtree_min
    <2> DEFINE t == child["left"][temp]
               r == child["right"][node]
    <2>1. /\ pc \in {"min", "next", "subst"} /\ temp /= node /\ t /= Sentinel
          /\ temp' = t /\ pc' = pc /\ node' = node
      BY <1>9 DEF ngx_rbtree_min
    <2>2. /\ pc = "min" => node = Null /\ temp \in Tree /\ \A y \in Tree \ under[temp] : Earlier(temp, y)
          /\ pc \in {"next", "subst"} => /\ node \in Tree /\ temp \in under[r]
                                         /\ \A y \in under[r] \ under[temp] : Earlier(temp, y)
          /\ pc = "subst" => ~\E s \in Sides : child[s][node] = Sentinel
      BY <1>1, <2>1 DEF Loops
    <2>3. pc \in {"next", "subst"} => r \in Tree /\ under[r] \subseteq Tree /\ node \notin under[r]
      <3> SUFFICES ASSUME pc \in {"next", "subst"} PROVE r \in Tree /\ under[r] \subseteq Tree /\ node \notin under[r]
        OBVIOUS
      <3>1. "right" \in Sides /\ node \in Tree /\ temp \in under[r]
        BY <2>2 DEF Sides
      <3>2. r \in Tree \cup {Sentinel} /\ node \notin under[r] /\ under[Sentinel] = {}
        BY <1>1, <3>1, UnderFacts
      <3> QED BY <1>1, <3>1, <3>2, UnderFacts
    <2>4. temp \in Tree
      BY <2>1, <2>2, <2>3
    <2>5. t \in Tree /\ t \in under[temp] /\ t \in under[t] /\ t \in under[child["left"][temp]]
      <3>1. "left" \in Sides
        BY DEF Sides
      <3> QED BY <1>1, <2>1, <2>4, <3>1, OneParent
    <2>6. \A y \in Tree : y \notin under[t] /\ (y \notin under[temp] => Earlier(temp, y)) => Earlier(t, y)
      <3> SUFFICES ASSUME NEW y \in Tree, y \notin under[t], y \notin under[temp] => Earlier(temp, y)
                   PROVE  Earlier(t, y)
        OBVIOUS
      <3>1. CASE y \notin under[temp]
        BY <1>1, <2>4, <2>5, <3>1, Around
      <3>2. CASE y \in under[temp]
        <4>1. /\ Earlier(t, temp)
              /\ y = temp \/ Earlier(temp, y)
          BY <1>1, <2>4, <2>5, <3>2, Around
        <4> QED BY <1>1, <2>4, <4>1, Around
      <3> QED BY <3>1, <3>2
    <2> HIDE DEF t
    <2>7. CASE pc = "min"
      <3>1. \A y \in Tree \ under[t] : Earlier(t, y)
        BY <2>2, <2>6, <2>7
      <3>2. pc' = "min" /\ node' = Null /\ temp' = t /\ t \in Tree
        BY <2>1, <2>2, <2>5, <2>7
      <3> QED BY <1>2, <1>3, <1>4, <3>1, <3>2 DEF Loops
    <2>8. CASE pc \in {"next", "subst"}
      <3>1. t \in under[r] /\ t /= node
        BY <1>1, <2>2, <2>3, <2>4, <2>5, <2>8, UnderFacts
      <3>2. \A y \in under[r] \ under[t] : Earlier(t, y)
        BY <2>2, <2>3, <2>6, <2>8
      <3>3. pc' = pc /\ node' = node /\ temp' = t /\ node \in Tree
        BY <2>1, <2>2, <2>8
      <3> QED BY <1>2, <1>3, <2>2, <2>8, <3>1, <3>2, <3>3 DEF Loops
    <2> QED BY <2>1, <2>7, <2>8
  <1>10. CASE MinFound
    BY <1>5, <1>10 DEF MinFound, Return
  <1>11. CASE Climb /\ pc' /= "idle"
    <2> DEFINE p == parent[temp]
    <2>1. pc = "climb" /\ temp /= root /\ temp /= child["left"][p] /\ temp' = p /\ pc' = "climb" /\ node' = node
      BY <1>11 DEF Climb, Return
    <2>2. temp \in Tree /\ node \in under[temp] /\ \A x \in under[temp] : x = node \/ Earlier(x, node)
      BY <1>1, <2>1 DEF Loops
    <2>3. p \in Tree /\ child["right"][p] = temp
      <3>1. p \in Tree /\ Side(temp) \in Sides /\ child[Side(temp)][p] = temp
        BY <1>1, <2>1, <2>2, ParentFacts
      <3> QED BY <2>1, <3>1 DEF Sides
    <2> HIDE DEF p
    <2>4. under[p] = {p} \cup under[child["left"][p]] \cup under[temp] /\ Earlier(p, node)
      BY <1>1, <2>2, <2>3, Around
    <2>5. \A x \in under[p] : x = node \/ Earlier(x, node)
      <3>1. /\ \A x \in under[child["left"][p]] : Earlier(x, p)
            /\ \A x, y, z : Earlier(x, y) /\ Earlier(y, z) => Earlier(x, z)
        BY <1>1, <2>3, Around
      <3> QED BY <2>2, <2>4, <3>1
    <2>6. node \in under[p]
      BY <2>2, <2>4
    <2> QED BY <1>2, <1>3, <2>1, <2>3, <2>5, <2>6 DEF Loops
  <1> QED BY <1>5, <1>6, <1>7, <1>8, <1>9, <1>10, <1>11 DEF Walk

LEMMA WalkStep == ASSUME RBInv, Walk PROVE RBInv'
  <1>1. /\ UNCHANGED <<Shape, insert, red, height>> /\ pc \notin {"rebalance", "fixup"} /\ pc' /= "fixup"
    BY DEF Walk, Min, ngx_rbtree_next, Delete, ngx_rbtree_min, MinFound, Climb, Return
  <1>2. Core /\ Ordered /\ Sorted /\ RedBlack /\ TypeOK /\ Linked /\ Nested /\ Loops
    BY DEF RBInv, Core
  <1>3. Linked' /\ Nested' /\ Ordered' /\ Sorted'
    BY <1>1, <1>2, SameShape
  <1>4. RedBlack'
    BY <1>1, <1>2, SameColours DEF Shape
  <1>5. TypeOK'
    <2>1. /\ root' \in Places /\ insert' \in {"value", "timer"}
          /\ key' \in [Nodes -> 0..(M - 1)]
          /\ child' \in [Sides -> [Nodes -> Places \cup {Null}]]
          /\ parent' \in [Places -> Places \cup {Null}]
          /\ red' \in [Places -> BOOLEAN]
          /\ order' \in Seq(Nodes)
          /\ under' \in [Places -> SUBSET Nodes] /\ height' \in [Places -> Nat]
      BY <1>1, <1>2 DEF TypeOK, Shape
    <2>2. /\ root \in Places /\ node \in Nodes \cup {Null} /\ temp \in Places \cup {Null}
          /\ Nodes \subseteq Places /\ child \in [Sides -> [Nodes -> Places \cup {Null}]]
          /\ parent \in [Places -> Places \cup {Null}] /\ Tree \subseteq Nodes
      BY <1>2, UnderFacts DEF TypeOK, Places
    <2>3. "left" \in Sides /\ "right" \in Sides
      BY DEF Sides
    <2>4. /\ pc' \in {"idle", "descend", "rebalance", "min", "next", "climb", "subst", "fixup"}
          /\ node' \in Nodes \cup {Null} /\ temp' \in Places \cup {Null}
      <3>1. CASE Min
        BY <2>2, <3>1 DEF Min
      <3>2. ASSUME NEW n \in Nodes, ngx_rbtree_next(n)
            PROVE  /\ pc' \in {"idle", "descend", "rebalance", "min", "next", "climb", "subst", "fixup"}
                   /\ node' \in Nodes \cup {Null} /\ temp' \in Places \cup {Null}
        BY <2>2, <2>3, <3>2 DEF ngx_rbtree_next
      <3>3. ASSUME NEW n \in Nodes, Delete(n)
            PROVE  /\ pc' \in {"idle", "descend", "rebalance", "min", "next", "climb", "subst", "fixup"}
                   /\ node' \in Nodes \cup {Null} /\ temp' \in Places \cup {Null}
        BY <2>2, <2>3, <3>3 DEF Delete
      <3>4. CASE ngx_rbtree_min
        <4>1. pc' \in {"min", "next", "subst"} /\ node' = node /\ temp' = child["left"][temp]
          BY <3>4 DEF ngx_rbtree_min
        <4>2. temp' \in Tree \cup {Sentinel}
          <5>1. temp \in Tree
            BY <1>2, <3>4, WalkCursor DEF ngx_rbtree_min
          <5> QED BY <1>2, <2>3, <4>1, <5>1, UnderFacts
        <4> QED BY <2>2, <4>1, <4>2 DEF Places
      <3>5. CASE MinFound
        BY <2>2, <3>5 DEF MinFound, Return
      <3>6. CASE Climb
        <4>1. temp \in Tree
          BY <1>2, <3>6 DEF Climb, Loops
        <4>2. parent[temp] \in Places \cup {Null}
          BY <2>2, <4>1
        <4>3. /\ pc' \in {"idle", "climb"} /\ node' \in {node, Null} /\ temp' \in {Null, parent[temp]}
          BY <3>6 DEF Climb, Return
        <4> QED BY <2>2, <4>2, <4>3
      <3> QED BY <3>1, <3>2, <3>3, <3>4, <3>5, <3>6 DEF Walk
    <2> QED BY <2>1, <2>4 DEF TypeOK
  <1> QED BY <1>3, <1>4, <1>5, WalkLoops DEF RBInv

-----------------------------------------------------------------------------
(* Keys.                                                                   *)

LEMMA PrecedesSigned ==
    ASSUME NEW a \in Int, NEW b \in Int
    PROVE  /\ (a - b) % M \in 0..(M - 1) /\ M \in Nat \ {0}
           /\ Precedes(a, b) <=> ~(2 * ((a - b) % M) < M)
  <1> DEFINE r == (a - b) % M
  <1>1. M \in Nat \ {0} /\ a - b \in Int
    BY ClockAssumption
  <1>2. r \in 0..(M - 1)
    BY <1>1, IntDivMod
  <1>3. Precedes(a, b) <=> Signed(r) < 0
    BY DEF Precedes
  <1> HIDE DEF r
  <1>4. Signed(r) < 0 <=> ~(2 * r < M)
    BY <1>1, <1>2 DEF Signed
  <1> QED BY <1>1, <1>2, <1>3, <1>4 DEF r

\* Values in a small range are in the order of their distances from the first.
LEMMA RangeOrder ==
    ASSUME NEW K \in SUBSET (0..(M - 1)), SmallRange(K)
    PROVE  \E a \in K : \A b, c \in K : Precedes(b, c) <=> (b - a) % M < (c - a) % M
  <1>1. PICK a \in K : \A b \in K : ~Precedes(b, a)
    BY DEF SmallRange
  <1>2. M \in Nat \ {0} /\ K \subseteq Int
    BY ClockAssumption
  <1>3. ASSUME NEW b \in K, NEW c \in K
        PROVE  Precedes(b, c) <=> (b - a) % M < (c - a) % M
    <2> DEFINE u == (b - a) % M
               v == (c - a) % M
               d == (b - a) \div M
               e == (c - a) \div M
    <2>1. a \in Int /\ b \in Int /\ c \in Int /\ b - a \in Int /\ c - a \in Int
      BY <1>2
    <2>2. u \in 0..(M - 1) /\ d \in Int /\ b - a = M * d + u
      BY <1>2, <2>1, IntDivMod
    <2>3. v \in 0..(M - 1) /\ e \in Int /\ c - a = M * e + v
      BY <1>2, <2>1, IntDivMod
    <2>4. 2 * u < M /\ 2 * v < M
      BY <1>1, <2>1, PrecedesSigned
    <2> HIDE DEF u, v, d, e
    <2>5. Precedes(b, c) <=> ~(2 * ((b - c) % M) < M)
      BY <2>1, PrecedesSigned
    <2>6. CASE u >= v
      <3>1. u - v \in 0..(M - 1) /\ d - e \in Int /\ 2 * (u - v) < M
        BY <1>2, <2>2, <2>3, <2>4, <2>6
      <3>2. b - c = M * (d - e) + (u - v)
        BY <1>2, <2>1, <2>2, <2>3
      <3>3. (b - c) % M = u - v
        BY <1>2, <3>1, <3>2, IntModUnique
      <3> QED BY <2>2, <2>3, <2>5, <2>6, <3>1, <3>3 DEF u, v
    <2>7. CASE u < v
      <3>1. u - v + M \in 0..(M - 1) /\ d - e - 1 \in Int /\ ~(2 * (u - v + M) < M)
        BY <1>2, <2>2, <2>3, <2>4, <2>7
      <3>2. b - c = M * (d - e - 1) + (u - v + M)
        BY <1>2, <2>1, <2>2, <2>3
      <3>3. (b - c) % M = u - v + M
        <4> DEFINE f == d - e - 1
                   r == u - v + M
        <4>1. r \in 0..(M - 1) /\ f \in Int /\ b - c = M * f + r
          BY <3>1, <3>2
        <4> HIDE DEF f, r
        <4>2. (b - c) % M = r
          BY <1>2, <4>1, IntModUnique
        <4> QED BY <4>2 DEF r
      <3> QED BY <2>5, <2>7, <3>1, <3>3 DEF u, v
    <2> QED BY <2>2, <2>3, <2>6, <2>7
  <1> QED BY <1>3

\* A new key's place among keys in order.
LEMMA SoundOrder ==
    ASSUME TypeOK, Distinct(order), Sorted, NEW k \in 0..(M - 1), Sound(k)
    PROVE  /\ \A x, y \in Tree : Earlier(x, y) => ~Before(key[y], key[x])
           /\ \A x, y \in Tree : Earlier(x, y) /\ Before(k, key[x]) => Before(k, key[y])
  <1>1. Tree \subseteq Nodes /\ \A x \in Tree : key[x] \in 0..(M - 1)
    BY DEF TypeOK, Tree, Elements
  <1>2. M \in Nat \ {0}
    BY ClockAssumption
  <1>3. CASE insert = "value"
    <2>1. \A x, y \in Tree : Earlier(x, y) => key[x] <= key[y]
      BY <1>3 DEF Sorted, Earlier, Ahead
    <2>2. \A a, b : Before(a, b) <=> a < b
      BY <1>3 DEF Before
    <2>3. ASSUME NEW x \in Tree, NEW y \in Tree, Earlier(x, y)
          PROVE  ~Before(key[y], key[x]) /\ (Before(k, key[x]) => Before(k, key[y]))
      <3>1. key[x] \in Int /\ key[y] \in Int /\ k \in Int /\ key[x] <= key[y]
        BY <1>1, <1>2, <2>1, <2>3
      <3> QED BY <2>2, <3>1
    <2> QED BY <2>3
  <1>4. CASE insert /= "value"
    <2>1. insert = "timer" /\ \A a, b : Before(a, b) <=> Precedes(a, b)
      BY <1>4 DEF TypeOK, Before
    <2> DEFINE K == Keys(order, key) \cup {k}
    <2>2. SmallRange(K) /\ InOrder(order, key)
      BY <1>4 DEF Sound
    <2>3. K \in SUBSET (0..(M - 1)) /\ k \in K /\ \A x \in Tree : key[x] \in K
      BY <1>1 DEF Keys, Tree
    <2>4. PICK a \in K : \A b, c \in K : Precedes(b, c) <=> (b - a) % M < (c - a) % M
      BY <2>2, <2>3, RangeOrder
    <2>5. \A b \in K : (b - a) % M \in Int
      <3> SUFFICES ASSUME NEW b \in K PROVE (b - a) % M \in Int
        OBVIOUS
      <3>1. a \in Int /\ b \in Int /\ b - a \in Int
        BY <1>2, <2>3
      <3> QED BY <1>2, <3>1, IntDivMod
    <2>6. \A x, y \in Tree : Earlier(x, y) => ~Precedes(key[y], key[x])
      BY <2>2 DEF InOrder, Earlier, Ahead
    <2> HIDE DEF K
    <2>7. ASSUME NEW x \in Tree, NEW y \in Tree, Earlier(x, y)
          PROVE  ~Before(key[y], key[x]) /\ (Before(k, key[x]) => Before(k, key[y]))
      <3> DEFINE u == (k - a) % M
                 v == (key[x] - a) % M
                 w == (key[y] - a) % M
      <3>1. u \in Int /\ v \in Int /\ w \in Int
        BY <2>3, <2>5
      <3>2. /\ Precedes(key[y], key[x]) <=> w < v
            /\ Precedes(k, key[x]) <=> u < v
            /\ Precedes(k, key[y]) <=> u < w
        BY <2>3, <2>4
      <3> HIDE DEF u, v, w
      <3>3. ~(w < v)
        BY <2>6, <2>7, <3>2
      <3> QED BY <2>1, <3>1, <3>2, <3>3
    <2> QED BY <2>7
  <1> QED BY <1>3, <1>4

\* Between the nodes that a descent has passed, node belongs where its key says.
Descended(t) == Sound(key[node]) => \A y \in Tree \ under[t] :
                    IF Before(key[node], key[y]) THEN Earlier(t, y) ELSE Earlier(y, t)

LEMMA DescendPlace ==
    ASSUME Core, Ordered, Sorted, node \in Nodes, temp \in Tree, Descended(temp), Sound(key[node])
    PROVE  \A y \in Tree : (y \notin under[temp] \/ y \in under[child[Other(Way)][temp]]) =>
              IF Before(key[node], key[y]) THEN Earlier(temp, y) ELSE Earlier(y, temp)
  <1> SUFFICES ASSUME NEW y \in Tree, y \notin under[temp] \/ y \in under[child[Other(Way)][temp]]
               PROVE  IF Before(key[node], key[y]) THEN Earlier(temp, y) ELSE Earlier(y, temp)
    OBVIOUS
  <1>1. CASE y \notin under[temp]
    BY <1>1 DEF Descended
  <1>2. CASE y \in under[child[Other(Way)][temp]]
    <2>1. TypeOK /\ Distinct(order) /\ key[node] \in 0..(M - 1)
      BY DEF Core, Ordered, TypeOK
    <2>2. CASE Before(key[node], key[temp])
      <3>1. Other(Way) = "right"
        BY <2>2 DEF Way, Other
      <3>2. Earlier(temp, y)
        BY <1>2, <3>1, Around
      <3> QED BY <2>1, <2>2, <3>2, SoundOrder
    <2>3. CASE ~Before(key[node], key[temp])
      <3>1. Other(Way) = "left"
        BY <2>3 DEF Way, Other
      <3>2. Earlier(y, temp)
        BY <1>2, <3>1, Around
      <3> QED BY <2>1, <2>3, <3>2, SoundOrder
    <2> QED BY <2>2, <2>3
  <1> QED BY <1>1, <1>2

LEMMA DescendStep == ASSUME RBInv, Descend PROVE RBInv'
  <1>1. Core /\ Ordered /\ Sorted /\ RedBlack /\ TypeOK /\ Linked /\ Nested /\ Loops
    BY DEF RBInv, Core
  <1>2. /\ UNCHANGED <<Shape, insert, red, height>> /\ pc = "descend" /\ pc' = "descend" /\ node' = node
        /\ temp' = child[Way][temp] /\ child[Way][temp] /= Sentinel
    BY DEF Descend, Shape
  <1>3. Linked' /\ Nested' /\ Ordered' /\ Sorted'
    BY <1>1, <1>2, SameShape
  <1>4. RedBlack'
    BY <1>1, <1>2, SameColours DEF Shape
  <1>5. Way \in Sides /\ node \in Nodes \ Tree /\ temp \in Tree /\ Descended(temp)
    BY <1>1, <1>2 DEF Loops, Way, Sides, Descended
  <1>6. temp' \in Tree /\ temp' \in under[temp'] /\ temp' \in under[temp]
    BY <1>1, <1>2, <1>5, OneParent
  <1>7. ASSUME Sound(key[node]), NEW y \in Tree \ under[temp']
        PROVE  IF Before(key[node], key[y]) THEN Earlier(temp', y) ELSE Earlier(y, temp')
    <2>1. /\ \A x \in under[temp] : y \notin under[temp] =>
                (Earlier(y, temp) <=> Earlier(y, x)) /\ (Earlier(temp, y) <=> Earlier(x, y))
          /\ \A u, v, w : Earlier(u, v) /\ Earlier(v, w) => Earlier(u, w)
      BY <1>1, <1>5, Around
    <2>2. y \notin under[temp] \/ y \in under[child[Other(Way)][temp]] =>
              IF Before(key[node], key[y]) THEN Earlier(temp, y) ELSE Earlier(y, temp)
      BY <1>1, <1>5, <1>7, DescendPlace
    <2>3. y \notin under[temp] \/ y = temp \/ y \in under[child[Other(Way)][temp]]
      <3>1. under[temp] = {temp} \cup under[child[Way][temp]] \cup under[child[Other(Way)][temp]]
        BY <1>1, <1>5, UnderFacts
      <3> QED BY <1>2, <1>7, <3>1
    <2>4. CASE y \notin under[temp]
      BY <1>6, <2>1, <2>2, <2>4
    <2>5. CASE Before(key[node], key[temp]) /\ y \in under[temp]
      <3>1. Way = "left" /\ Other(Way) = "right"
        BY <2>5 DEF Way, Other
      <3>2. Earlier(temp', temp) /\ (y /= temp => Earlier(temp, y))
        BY <1>1, <1>2, <1>5, <1>6, <2>3, <2>5, <3>1, Around
      <3>3. y /= temp => Before(key[node], key[y])
        <4>1. y /= temp => ~Earlier(y, temp)
          BY <1>1, <1>5, <3>2, Around
        <4> QED BY <2>2, <2>3, <2>5, <4>1
      <3> QED BY <2>1, <2>5, <3>2, <3>3
    <2>6. CASE ~Before(key[node], key[temp]) /\ y \in under[temp]
      <3>1. Way = "right" /\ Other(Way) = "left"
        BY <2>6 DEF Way, Other
      <3>2. Earlier(temp, temp') /\ (y /= temp => Earlier(y, temp))
        BY <1>1, <1>2, <1>5, <1>6, <2>3, <2>6, <3>1, Around
      <3>3. y /= temp => ~Before(key[node], key[y])
        <4>1. y /= temp => ~Earlier(temp, y)
          BY <1>1, <1>5, <3>2, Around
        <4> QED BY <2>2, <2>3, <2>6, <4>1
      <3> QED BY <2>1, <2>6, <3>2, <3>3
    <2> QED BY <2>4, <2>5, <2>6
  <1>8. /\ key' = key /\ Tree' = Tree /\ under' = under /\ (\A k : Sound(k)' <=> Sound(k))
        /\ (\A x, y : Earlier(x, y)' <=> Earlier(x, y)) /\ (\A x, y : Before(x, y)' <=> Before(x, y))
    BY <1>2 DEF Shape, Tree, Sound, Earlier, Before
  <1>9. Loops'
    BY <1>2, <1>5, <1>6, <1>7, <1>8 DEF Loops
  <1>10. TypeOK'
    <2>1. temp' \in Places
      BY <1>1, <1>6, UnderFacts DEF Places
    <2> QED BY <1>1, <1>2, <2>1 DEF TypeOK, Shape
  <1> QED BY <1>3, <1>4, <1>9, <1>10 DEF RBInv

LEMMA InsertStep == ASSUME RBInv, NEW n \in Nodes, Insert(n) PROVE RBInv'
  <1>1. Core /\ Ordered /\ Sorted /\ RedBlack /\ TypeOK /\ Linked /\ Nested
    BY DEF RBInv, Core
  <1>2. PICK k \in 0..(M - 1) : key' = [key EXCEPT ![n] = k]
    BY DEF Insert
  <1>3. /\ UNCHANGED <<root, insert, child, parent, red, order, under, height>>
        /\ pc = "idle" /\ pc' = "descend" /\ node' = n /\ temp' = root /\ n \notin Tree /\ root /= Sentinel
        /\ Tree' = Tree
    BY DEF Insert, Tree
  <1>4. Linked' /\ Nested' /\ Ordered'
    <2>1. Linked'
      BY <1>1, <1>3 DEF Linked
    <2>2. Nested'
      BY <1>1, <1>3 DEF Nested
    <2>3. Ordered'
      BY <1>1, <1>3 DEF Ordered, Earlier
    <2> QED BY <2>1, <2>2, <2>3
  <1>5. RedBlack'
    BY <1>1, <1>3, SameColours
  <1>6. Sorted'
    <2>1. \A i \in DOMAIN order : key'[order[i]] = key[order[i]]
      BY <1>1, <1>2, <1>3 DEF TypeOK, Tree, Elements
    <2> QED BY <1>1, <1>3, <2>1 DEF Sorted
  <1>7. Loops'
    <2>1. root \in Tree /\ under[root] = Tree
      BY <1>1, <1>3 DEF Nested
    <2> QED BY <1>3, <2>1 DEF Loops
  <1>8. TypeOK'
    <2>1. key' \in [Nodes -> 0..(M - 1)]
      BY <1>1, <1>2 DEF TypeOK
    <2>2. root \in Places
      BY <1>1 DEF TypeOK
    <2> QED BY <1>1, <1>3, <2>1, <2>2 DEF TypeOK
  <1> QED BY <1>4, <1>5, <1>6, <1>7, <1>8 DEF RBInv

-----------------------------------------------------------------------------
(* The steps of an insertion.                                              *)

\* The new node is where its key says.
LEMMA AttachPlace ==
    ASSUME AtLeaf, Sorted, Attach, Descended(temp), Sound(key[node]), NEW y \in Tree
    PROVE  /\ Before(key[node], key[y]) <=> Ahead(order', node, y)
           /\ Ahead(order', node, y) <=> ~Ahead(order', y, node)
  <1>1. Core /\ Ordered /\ node \in Nodes /\ temp \in Tree
    BY DEF AtLeaf
  <1>2. Way \in Sides /\ child[Way][temp] = Sentinel /\ "left" \in Sides
    BY AttachFacts DEF Sides
  <1>3. /\ \A z \in Tree \ {temp} : /\ TowardIn(order', "left", node, z) <=> Toward("left", temp, z)
                                    /\ TowardIn(order', "left", z, node) <=> Toward("left", z, temp)
        /\ TowardIn(order', "left", node, temp) <=> "left" = Way
        /\ TowardIn(order', "left", temp, node) <=> "left" = Other(Way)
    BY <1>2, AttachFacts
  <1>4. /\ \A u, v : TowardIn(order', "left", u, v) <=> Ahead(order', u, v)
        /\ \A u, v : Toward("left", u, v) <=> Earlier(u, v)
    BY DEF TowardIn, Toward, Earlier
  <1>5. CASE y = temp
    <2>1. "left" = Way <=> ~("left" = Other(Way))
      BY <1>2 DEF Sides, Other
    <2>2. Before(key[node], key[temp]) <=> "left" = Way
      BY DEF Way
    <2> QED BY <1>3, <1>4, <1>5, <2>1, <2>2
  <1>6. CASE y /= temp
    <2>1. under[temp] = {temp} \cup under[child[Way][temp]] \cup under[child[Other(Way)][temp]]
          /\ under[Sentinel] = {}
      BY <1>1, <1>2, UnderFacts
    <2>2. y \notin under[temp] \/ y \in under[child[Other(Way)][temp]]
      BY <1>2, <1>6, <2>1
    <2>3. IF Before(key[node], key[y]) THEN Earlier(temp, y) ELSE Earlier(y, temp)
      BY <1>1, <2>2, DescendPlace
    <2>4. Earlier(temp, y) <=> ~Earlier(y, temp)
      BY <1>1, <2>3, Around
    <2>5. /\ Ahead(order', node, y) <=> Earlier(temp, y)
          /\ Ahead(order', y, node) <=> Earlier(y, temp)
      BY <1>3, <1>4, <1>6
    <2> QED BY <2>3, <2>4, <2>5
  <1> QED BY <1>5, <1>6

LEMMA AttachSorted == ASSUME AtLeaf, Sorted, Attach, Descended(temp) PROVE Sorted'
  <1> SUFFICES ASSUME insert' = "value", NEW i \in DOMAIN order', NEW j \in DOMAIN order', i < j
               PROVE  key'[order'[i]] <= key'[order'[j]]
    BY DEF Sorted
  <1> DEFINE x == order'[i]
             y == order'[j]
  <1>1. /\ Tree' = Tree \cup {node} /\ order' \in Seq(Nodes) /\ Distinct(order') /\ key' = key /\ insert = "value"
        /\ \A u, v \in Tree : TowardIn(order', "left", u, v) <=> Toward("left", u, v)
    <2>1. "left" \in Sides
      BY DEF Sides
    <2> QED BY <2>1, AttachFacts
  <1>2. Ahead(order', x, y) /\ x \in Tree' /\ y \in Tree'
    BY DEF Ahead, Tree, Elements
  <1>3. ~Ahead(order', y, x) /\ ~Ahead(order', x, x)
    BY <1>1, <1>2, AheadOrder
  <1>4. Sound(key[node])
    BY <1>1 DEF Sound
  <1>5. \A a, b : Before(a, b) <=> a < b
    BY <1>1 DEF Before
  <1>6. /\ \A z \in Nodes : key[z] \in Int
        /\ Tree \subseteq Nodes /\ node \in Nodes
    <2>1. Core /\ node \in Nodes
      BY DEF AtLeaf
    <2>2. key \in [Nodes -> 0..(M - 1)] /\ M \in Nat
      BY <2>1, ClockAssumption DEF Core, TypeOK
    <2> QED BY <2>1, <2>2, UnderFacts
  <1> HIDE DEF x, y
  <1>7. CASE x = node
    <2>1. y \in Tree
      BY <1>1, <1>2, <1>3, <1>7
    <2>2. key[node] < key[y]
      BY <1>2, <1>4, <1>5, <1>7, <2>1, AttachPlace
    <2> QED BY <1>1, <1>6, <1>7, <2>1, <2>2 DEF x, y
  <1>8. CASE x /= node /\ y = node
    <2>1. x \in Tree
      BY <1>1, <1>2, <1>8
    <2>2. ~(key[node] < key[x])
      BY <1>3, <1>4, <1>5, <1>8, <2>1, AttachPlace
    <2> QED BY <1>1, <1>6, <1>8, <2>1, <2>2 DEF x, y
  <1>9. CASE x /= node /\ y /= node
    <2>1. x \in Tree /\ y \in Tree
      BY <1>1, <1>2, <1>9
    <2>2. Earlier(x, y)
      BY <1>1, <1>2, <2>1 DEF TowardIn, Toward, Earlier
    <2>3. key[x] <= key[y]
      BY <1>1, <2>2 DEF Sorted, Earlier, Ahead
    <2> QED BY <1>1, <2>3 DEF x, y
  <1> QED BY <1>7, <1>8, <1>9

LEMMA AttachReady ==
    ASSUME RBInv, pc = "descend"
    PROVE  AtLeaf /\ Sorted /\ RedBlack /\ Descended(temp)
  BY DEF RBInv, Core, AtLeaf, Loops, Descended

LEMMA AttachStep == ASSUME RBInv, Attach PROVE RBInv'
  <1>1. pc = "descend" /\ pc' = "rebalance" /\ node' = node /\ temp' = Null /\ insert' = insert
    BY DEF Attach
  <1>2. AtLeaf /\ Sorted /\ RedBlack /\ Descended(temp) /\ TypeOK
    BY <1>1, AttachReady DEF RBInv
  <1>3. /\ Tree' = Tree \cup {node} /\ order' \in Seq(Nodes) /\ root' = root /\ key' = key
        /\ child' \in [Sides -> [Nodes -> Places \cup {Null}]]
        /\ parent' \in [Places -> Places \cup {Null}] /\ under' \in [Places -> SUBSET Nodes]
    BY <1>2, AttachFacts
  <1>4. /\ RedBlack' /\ red'[node] /\ red' \in [Places -> BOOLEAN] /\ height' \in [Places -> Nat]
    BY <1>2, AttachColours
  <1>5. Linked' /\ Nested' /\ Ordered' /\ Sorted'
    BY <1>2, AttachLinked, AttachNested, AttachOrdered, AttachSorted
  <1>6. Loops'
    BY <1>1, <1>3, <1>4 DEF Loops
  <1>7. TypeOK'
    BY <1>1, <1>2, <1>3, <1>4 DEF TypeOK
  <1> QED BY <1>4, <1>5, <1>6, <1>7 DEF RBInv

\* A rotation in a step of a loop.
LEMMA RotateStep ==
    ASSUME TypeOK, Linked, Nested, Ordered, Sorted, insert' = insert,
           NEW n \in Tree, NEW s \in Sides, child[Other(s)][n] /= Sentinel, Rotate(n, s)
    PROVE  /\ Linked' /\ Nested' /\ Ordered' /\ Sorted' /\ Tree' = Tree
           /\ root' \in Places /\ child' \in [Sides -> [Nodes -> Places \cup {Null}]]
           /\ parent' \in [Places -> Places \cup {Null}] /\ under' \in [Places -> SUBSET Nodes]
           /\ key' \in [Nodes -> 0..(M - 1)] /\ order' \in Seq(Nodes)
  <1> DEFINE a == child[s][n]
             m == child[Other(s)][n]
             i == child[s][m]
             b == child[Other(s)][m]
  <1>1. Core /\ Corner(n, s, a, m, i, b)
    BY DEF Core, Corner
  <1> HIDE DEF a, m, i, b
  <1>2. Linked' /\ Nested' /\ Ordered'
    BY <1>1, RotateLinked, RotateNested, RotateOrdered
  <1>3. /\ Tree' = Tree /\ key' = key /\ order' = order
        /\ root' \in Places /\ child' \in [Sides -> [Nodes -> Places \cup {Null}]]
        /\ parent' \in [Places -> Places \cup {Null}] /\ under' \in [Places -> SUBSET Nodes]
    BY <1>1, RotateFacts
  <1>4. Sorted'
    BY <1>3 DEF Sorted
  <1> QED BY <1>2, <1>3, <1>4 DEF TypeOK

LEMMA RebalanceReady ==
    ASSUME RBInv, pc = "rebalance"
    PROVE  RBCore /\ Core /\ Ordered /\ Sorted /\ TypeOK /\ Linked /\ Nested /\ node \in Tree /\ red[node]
  BY DEF RBInv, Core, RBCore, Loops

LEMMA RebalanceStep ==
    ASSUME RBInv, Recolour \/ Straighten \/ RotateUp \/ Rebalanced
    PROVE  RBInv'
  <1>1. pc = "rebalance" /\ insert' = insert /\ pc' \in {"rebalance", "idle"}
    BY DEF Recolour, Straighten, RotateUp, Rebalanced, Rebalance, Return
  <1>2. /\ RBCore /\ Core /\ Ordered /\ Sorted /\ TypeOK /\ Linked /\ Nested
        /\ node \in Tree /\ red[node] /\ Tree \subseteq Nodes
    BY <1>1, RebalanceReady, UnderFacts
  <1>3. \A s \in Sides : Other(Other(s)) = s /\ Other(s) \in Sides
    BY SidesFacts
  <1>4. CASE Recolour
    <2>1. /\ UNCHANGED <<Shape, insert, temp>> /\ pc' = pc
      BY <1>4 DEF Recolour
    <2>2. /\ RedBlack' /\ node' \in Tree' /\ red'[node']
          /\ red' \in [Places -> BOOLEAN] /\ height' \in [Places -> Nat]
      BY <1>2, <1>4, RecolourColours
    <2>3. Linked' /\ Nested' /\ Ordered' /\ Sorted'
      BY <1>2, <2>1, SameShape
    <2>4. Tree' \subseteq Nodes
      BY <1>2, <2>1 DEF Shape, Tree
    <2>5. TypeOK'
      BY <1>2, <2>1, <2>2, <2>4 DEF TypeOK, Shape
    <2>6. Loops'
      BY <1>1, <2>1, <2>2 DEF Loops
    <2> QED BY <2>2, <2>3, <2>5, <2>6 DEF RBInv
  <1>5. CASE Straighten
    <2> DEFINE p == parent[node]
    <2>1. UNCHANGED <<insert, temp, red, height>> /\ pc' = pc /\ Rotate(p, Side(p)) /\ Side(node) /= Side(p)
      BY <1>5 DEF Straighten
    <2>2. p \in Tree /\ Side(p) \in Sides /\ Side(node) \in Sides /\ child[Side(node)][p] = node
      BY <1>2, <1>5, TwoReds DEF Straighten
    <2>3. child[Other(Side(p))][p] /= Sentinel
      <3>1. Other(Side(p)) = Side(node)
        BY <2>1, <2>2, SidesFacts
      <3> QED BY <1>2, <2>2, <3>1, UnderFacts
    <2>4. RedBlack' /\ node' \in Tree' /\ red'[node']
      BY <1>2, <1>5, StraightenColours
    <2> HIDE DEF p
    <2>5. /\ Linked' /\ Nested' /\ Ordered' /\ Sorted' /\ Tree' = Tree
          /\ root' \in Places /\ child' \in [Sides -> [Nodes -> Places \cup {Null}]]
          /\ parent' \in [Places -> Places \cup {Null}] /\ under' \in [Places -> SUBSET Nodes]
          /\ key' \in [Nodes -> 0..(M - 1)] /\ order' \in Seq(Nodes)
      BY <1>2, <2>1, <2>2, <2>3, RotateStep
    <2>6. TypeOK'
      BY <1>2, <2>1, <2>4, <2>5 DEF TypeOK
    <2>7. Loops'
      BY <1>1, <2>1, <2>4 DEF Loops
    <2> QED BY <2>4, <2>5, <2>6, <2>7 DEF RBInv
  <1>6. CASE RotateUp
    <2> DEFINE p == parent[node]
               g == parent[p]
               s == Other(Side(p))
    <2>1. UNCHANGED <<insert, temp, node, height>> /\ pc' = pc /\ Rotate(g, s)
      BY <1>6 DEF RotateUp, Grand
    <2>2. p \in Tree /\ g \in Tree /\ Side(p) \in Sides /\ child[Side(p)][g] = p
      BY <1>2, <1>6, TwoReds DEF RotateUp
    <2>3. s \in Sides /\ child[Other(s)][g] /= Sentinel
      <3>1. s \in Sides /\ Other(s) = Side(p)
        BY <1>3, <2>2
      <3> QED BY <1>2, <2>2, <3>1, UnderFacts
    <2>4. RedBlack' /\ node' \in Tree' /\ red'[node'] /\ red' \in [Places -> BOOLEAN]
      BY <1>2, <1>6, RotateUpColours
    <2> HIDE DEF p, g, s
    <2>5. /\ Linked' /\ Nested' /\ Ordered' /\ Sorted' /\ Tree' = Tree
          /\ root' \in Places /\ child' \in [Sides -> [Nodes -> Places \cup {Null}]]
          /\ parent' \in [Places -> Places \cup {Null}] /\ under' \in [Places -> SUBSET Nodes]
          /\ key' \in [Nodes -> 0..(M - 1)] /\ order' \in Seq(Nodes)
      BY <1>2, <2>1, <2>2, <2>3, RotateStep
    <2>6. TypeOK'
      BY <1>2, <2>1, <2>4, <2>5 DEF TypeOK
    <2>7. Loops'
      BY <1>1, <2>1, <2>4 DEF Loops
    <2> QED BY <2>4, <2>5, <2>6, <2>7 DEF RBInv
  <1>7. CASE Rebalanced
    <2>1. /\ UNCHANGED <<Shape, insert, height>> /\ pc' = "idle" /\ node' = Null /\ temp' = Null
      BY <1>7 DEF Rebalanced, Return
    <2>2. RedBlack' /\ red' \in [Places -> BOOLEAN]
      BY <1>2, <1>7, RebalancedColours
    <2>3. Linked' /\ Nested' /\ Ordered' /\ Sorted'
      BY <1>2, <2>1, SameShape
    <2>4. TypeOK'
      BY <1>2, <2>1, <2>2 DEF TypeOK, Shape
    <2>5. Loops'
      BY <2>1 DEF Loops
    <2> QED BY <2>2, <2>3, <2>4, <2>5 DEF RBInv
  <1> QED BY <1>4, <1>5, <1>6, <1>7

\* The first node of a tree.
LEMMA InsertRootFacts ==
    ASSUME TypeOK, Nested, NEW n \in Nodes, InsertRoot(n)
    PROVE  /\ Tree = {} /\ Tree' = {n} /\ order' = <<n>> /\ root' = n /\ insert' = insert
           /\ pc' = "idle" /\ node' = Null /\ temp' = Null
           /\ \A s \in Sides : child'[s][n] = Sentinel
           /\ under'[n] = {n} /\ under'[Sentinel] = {} /\ red'[n] = FALSE /\ height'[n] = 1
           /\ red'[Sentinel] = red[Sentinel] /\ height'[Sentinel] = height[Sentinel]
           /\ TypeOK'
           /\ \A m \in Nodes \ {n} : key'[m] = key[m]
  <1>1. Sentinel \notin Nodes /\ n /= Sentinel /\ n \in Places /\ Sentinel \in Places /\ Null \notin Nodes
    BY Constants DEF Places
  <1>2. /\ root' = n /\ insert' = insert /\ order' = <<n>>
        /\ child' = [s \in Sides |-> [child[s] EXCEPT ![n] = Sentinel]]
        /\ parent' = [parent EXCEPT ![n] = Null] /\ red' = [red EXCEPT ![n] = FALSE]
        /\ under' = [under EXCEPT ![n] = {n}] /\ height' = [height EXCEPT ![n] = 1]
        /\ pc' = "idle" /\ node' = Null /\ temp' = Null /\ root = Sentinel
    BY DEF InsertRoot, Return
  <1>3. PICK k \in 0..(M - 1) : key' = [key EXCEPT ![n] = k]
    BY DEF InsertRoot
  <1>4. Tree = {}
    BY <1>2 DEF Nested
  <1>5. order' \in Seq(Nodes) /\ Tree' = {n}
    <2>1. order' \in Seq(Nodes) /\ DOMAIN order' = {1} /\ order'[1] = n
      BY <1>2
    <2> QED BY <2>1 DEF Tree, Elements
  <1>6. /\ child' \in [Sides -> [Nodes -> Places \cup {Null}]]
        /\ \A s \in Sides : child'[s][n] = Sentinel
    BY <1>1, <1>2 DEF TypeOK
  <1>7. /\ parent' \in [Places -> Places \cup {Null}] /\ red' \in [Places -> BOOLEAN]
        /\ under' \in [Places -> SUBSET Nodes] /\ height' \in [Places -> Nat]
        /\ key' \in [Nodes -> 0..(M - 1)]
    BY <1>1, <1>2, <1>3 DEF TypeOK
  <1>8. /\ under'[n] = {n} /\ red'[n] = FALSE /\ height'[n] = 1
        /\ under'[Sentinel] = under[Sentinel]
        /\ red'[Sentinel] = red[Sentinel] /\ height'[Sentinel] = height[Sentinel]
        /\ \A m \in Nodes \ {n} : key'[m] = key[m]
    BY <1>1, <1>2, <1>3 DEF TypeOK
  <1>9. under[Sentinel] = {}
    BY DEF Nested
  <1>10. TypeOK'
    BY <1>1, <1>2, <1>5, <1>6, <1>7 DEF TypeOK
  <1> QED BY <1>2, <1>4, <1>5, <1>6, <1>8, <1>9, <1>10

LEMMA InsertRootStep == ASSUME RBInv, NEW n \in Nodes, InsertRoot(n) PROVE RBInv'
  <1>1. /\ Tree = {} /\ Tree' = {n} /\ order' = <<n>> /\ root' = n /\ insert' = insert
        /\ pc' = "idle" /\ node' = Null /\ temp' = Null
        /\ \A s \in Sides : child'[s][n] = Sentinel
        /\ under'[n] = {n} /\ under'[Sentinel] = {} /\ red'[n] = FALSE /\ height'[n] = 1
        /\ red'[Sentinel] = red[Sentinel] /\ height'[Sentinel] = height[Sentinel]
        /\ TypeOK'
    BY InsertRootFacts DEF RBInv
  <1>2. ~red[Sentinel] /\ height[Sentinel] = 0 /\ n /= Sentinel /\ "left" \in Sides /\ "right" \in Sides
    BY Constants DEF RBInv, RedBlack, Sides
  <1>3. Linked'
    BY <1>1 DEF Linked
  <1>4. Nested'
    <2>1. child'["left"][n] = Sentinel /\ child'["right"][n] = Sentinel
      BY <1>1, <1>2
    <2> QED BY <1>1, <2>1 DEF Nested
  <1>5. Len(order') = 1 /\ DOMAIN order' = 1..1 /\ order'[1] = n
    BY <1>1
  <1>6. Ordered'
    <2>1. child'["left"][n] = Sentinel /\ child'["right"][n] = Sentinel
      BY <1>1, <1>2
    <2>2. Distinct(order')
      BY <1>5 DEF Distinct
    <2>3. \A x \in under'[n], y \in Tree' \ under'[n] : FALSE
      BY <1>1
    <2> QED BY <1>1, <2>1, <2>2, <2>3 DEF Ordered
  <1>7. Sorted'
    BY <1>5 DEF Sorted
  <1>8. RedBlack'
    <2>1. Whole'
      BY <1>1, <1>2 DEF Whole
    <2> QED BY <2>1, WholeRedBlack, PTL
  <1>9. Loops'
    BY <1>1 DEF Loops
  <1> QED BY <1>1, <1>3, <1>4, <1>6, <1>7, <1>8, <1>9 DEF RBInv

-----------------------------------------------------------------------------
(* The steps of a deletion.                                                *)

LEMMA RemoveSorted ==
    ASSUME TypeOK, Distinct(order), Sorted, node \in Tree, Remove, insert' = insert
    PROVE  Sorted'
  <1> SUFFICES ASSUME insert = "value", NEW i \in DOMAIN order', NEW j \in DOMAIN order', i < j
               PROVE  key'[order'[i]] <= key'[order'[j]]
    BY DEF Sorted
  <1> DEFINE x == order'[i]
             y == order'[j]
  <1>1. /\ Tree' = Tree \ {node}
        /\ \A u, v \in Tree' : TowardIn(order', "left", u, v) <=> Toward("left", u, v)
        /\ \A z \in Nodes \ {node} : key'[z] = key[z]
    <2>1. "left" \in Sides
      BY DEF Sides
    <2> QED BY <2>1, RemoveFacts
  <1>2. Ahead(order', x, y) /\ x \in Tree' /\ y \in Tree' /\ Tree \subseteq Nodes
    BY DEF Ahead, Tree, Elements, TypeOK
  <1> HIDE DEF x, y
  <1>3. Earlier(x, y)
    BY <1>1, <1>2 DEF TowardIn, Toward, Earlier
  <1>4. key[x] <= key[y]
    BY <1>3 DEF Sorted, Earlier, Ahead
  <1>5. key'[x] = key[x] /\ key'[y] = key[y]
    BY <1>1, <1>2
  <1> QED BY <1>4, <1>5 DEF x, y

LEMMA SubstReady ==
    ASSUME RBInv, pc = "subst"
    PROVE  /\ Core /\ Ordered /\ Sorted /\ RedBlack /\ TypeOK /\ Distinct(order) /\ node \in Tree
           /\ temp = node => AtGone
           /\ temp /= node => AtSubst
  <1>1. Core /\ Ordered /\ Sorted /\ RedBlack /\ TypeOK /\ Distinct(order) /\ Loops
    BY DEF RBInv, Core, Ordered
  <1>2. /\ node \in Tree /\ (temp = node <=> \E s \in Sides : child[s][node] = Sentinel)
        /\ temp /= node => /\ temp \in under[child["right"][node]]
                           /\ \A y \in under[child["right"][node]] \ under[temp] : Earlier(temp, y)
    BY <1>1 DEF Loops
  <1> QED BY <1>1, <1>2 DEF AtGone, AtSubst

LEMMA DeleteStep == ASSUME RBInv, DeleteRoot \/ DeleteNode \/ Substitute PROVE RBInv'
  <1>1. pc = "subst" /\ Remove /\ insert' = insert
        /\ (DeleteRoot \/ DeleteNode => temp = node) /\ (Substitute => temp /= node)
    BY DEF DeleteRoot, DeleteNode, Substitute
  <1>2. /\ Core /\ Ordered /\ Sorted /\ RedBlack /\ TypeOK /\ Distinct(order) /\ node \in Tree
        /\ temp = node => AtGone
        /\ temp /= node => AtSubst
    BY <1>1, SubstReady
  <1>3. /\ Tree' = Tree \ {node} /\ order' \in Seq(Nodes) /\ key' \in [Nodes -> 0..(M - 1)] /\ Sorted'
    BY <1>1, <1>2, RemoveFacts, RemoveSorted
  <1>4. /\ root' \in Places /\ child' \in [Sides -> [Nodes -> Places \cup {Null}]]
        /\ parent' \in [Places -> Places \cup {Null}] /\ under' \in [Places -> SUBSET Nodes]
        /\ Linked' /\ Nested' /\ Ordered'
    <2>1. CASE DeleteRoot \/ DeleteNode
      BY <1>1, <1>2, <2>1, GoneFacts, GoneLinked, GoneNested, GoneOrdered
    <2>2. CASE Substitute
      BY <1>1, <1>2, <2>2, SubstFacts, SubstUnder, SubstLinked, SubstNested, SubstOrdered
    <2> QED BY <2>1, <2>2
  <1>5. CASE DeleteRoot
    <2>1. /\ RedBlack' /\ red' \in [Places -> BOOLEAN] /\ height' \in [Places -> Nat]
      BY <1>1, <1>2, <1>5, DeleteRootColours
    <2>2. pc' = "idle" /\ node' = Null /\ temp' = Null
      BY <1>5 DEF DeleteRoot, Return
    <2>3. TypeOK'
      BY <1>1, <1>2, <1>3, <1>4, <2>1, <2>2 DEF TypeOK
    <2>4. Loops'
      BY <2>2 DEF Loops
    <2> QED BY <1>3, <1>4, <2>1, <2>3, <2>4 DEF RBInv
  <1>6. CASE DeleteNode \/ Substitute
    <2>1. /\ RedBlack' /\ height' \in [Places -> Nat]
          /\ pc' = "fixup" => /\ node' = Null /\ temp' \in Tree' \cup {Sentinel}
                              /\ parent'[temp'] \in Tree' /\ temp' /= root'
                              /\ \E s \in Sides : child'[s][parent'[temp']] = temp'
      BY <1>1, <1>2, <1>6, DeleteNodeColours, SubstituteColours
    <2>2. red' \in [Places -> BOOLEAN]
      BY <1>1, <1>2, <1>6, SubstituteColours DEF DeleteNode, TypeOK
    <2>3. pc' \in {"idle", "fixup"} /\ (pc' = "idle" => node' = Null /\ temp' = Null)
      BY <1>6 DEF DeleteNode, Substitute, FixupAfter, Return
    <2>4. Tree' \cup {Sentinel} \subseteq Places
      BY <1>2, <1>3, UnderFacts DEF Places
    <2>5. TypeOK'
      BY <1>1, <1>2, <1>3, <1>4, <2>1, <2>2, <2>3, <2>4 DEF TypeOK
    <2>6. Loops'
      BY <2>1, <2>3 DEF Loops
    <2> QED BY <1>3, <1>4, <2>1, <2>5, <2>6 DEF RBInv
  <1> QED BY <1>5, <1>6

LEMMA FixupReady ==
    ASSUME RBInv, pc = "fixup"
    PROVE  /\ RBCore /\ Core /\ Ordered /\ Sorted /\ TypeOK /\ Linked /\ Nested
           /\ temp \in Tree \cup {Sentinel} /\ node = Null
           /\ temp /= root => parent[temp] \in Tree /\ \E s \in Sides : child[s][parent[temp]] = temp
           /\ Fixup => AtFixup
  <1>1. /\ RBCore /\ Core /\ Ordered /\ Sorted /\ TypeOK /\ Linked /\ Nested /\ Loops
    BY DEF RBInv, Core, RBCore
  <1>2. /\ temp \in Tree \cup {Sentinel} /\ node = Null
        /\ temp /= root => parent[temp] \in Tree /\ \E s \in Sides : child[s][parent[temp]] = temp
    BY <1>1 DEF Loops
  <1> QED BY <1>1, <1>2 DEF AtFixup, Fixup

LEMMA FixupStep ==
    ASSUME RBInv, RotateSibling \/ Lighten \/ BringNephew \/ Settle \/ FixedUp
    PROVE  RBInv'
  <1>1. pc = "fixup" /\ insert' = insert
    BY DEF RotateSibling, Lighten, BringNephew, Settle, FixedUp, Fixup
  <1>2. /\ RBCore /\ Core /\ Ordered /\ Sorted /\ TypeOK /\ Linked /\ Nested
        /\ temp \in Tree \cup {Sentinel} /\ node = Null
        /\ temp /= root => parent[temp] \in Tree /\ \E s \in Sides : child[s][parent[temp]] = temp
        /\ Fixup => AtFixup
    BY <1>1, FixupReady
  <1>3. Tree \cup {Sentinel} \subseteq Places
    BY <1>2, UnderFacts DEF Places
  <1> DEFINE p == parent[temp]
             s == Near
             m == Sibling
  <1>4. Fixup => /\ p \in Tree /\ s \in Sides /\ Far = Other(s) /\ Far \in Sides /\ Other(Far) = s
                 /\ m = child[Other(s)][p] /\ m \in Tree /\ m /= Sentinel
    <2> SUFFICES ASSUME Fixup PROVE /\ p \in Tree /\ s \in Sides /\ Far = Other(s) /\ Far \in Sides /\ Other(Far) = s
                                    /\ m = child[Other(s)][p] /\ m \in Tree /\ m /= Sentinel
      OBVIOUS
    <2>1. /\ p \in Tree /\ s \in Sides /\ Far = Other(s) /\ Other(s) \in Sides
          /\ m = child[Other(s)][p] /\ m \in Tree /\ Sentinel \notin Tree
      BY <1>2, FixupFacts
    <2> QED BY <2>1, SidesFacts
  <1> HIDE DEF p, s, m
  <1>5. CASE Lighten
    <2>1. /\ RedBlack' /\ red' \in [Places -> BOOLEAN] /\ height' \in [Places -> Nat]
          /\ temp' \in Tree'
          /\ temp' /= root' => /\ parent'[temp'] \in Tree'
                               /\ \E d \in Sides : child'[d][parent'[temp']] = temp'
      BY <1>2, <1>5, LightenColours DEF Lighten
    <2>2. UNCHANGED <<Shape, insert>> /\ pc' = pc /\ node' = node /\ Tree' = Tree
      BY <1>5 DEF Lighten, Shape, Tree
    <2>3. Linked' /\ Nested' /\ Ordered' /\ Sorted'
      BY <1>2, <2>2, SameShape
    <2>4. TypeOK'
      BY <1>2, <1>3, <2>1, <2>2 DEF TypeOK, Shape
    <2>5. Loops'
      BY <1>1, <1>2, <2>1, <2>2 DEF Loops
    <2> QED BY <2>1, <2>3, <2>4, <2>5 DEF RBInv
  <1>6. CASE FixedUp
    <2>1. RedBlack' /\ red' \in [Places -> BOOLEAN]
      BY <1>2, <1>6, FixedUpColours
    <2>2. UNCHANGED <<Shape, insert, height>> /\ pc' = "idle" /\ node' = Null /\ temp' = Null
      BY <1>6 DEF FixedUp, Return
    <2>3. Linked' /\ Nested' /\ Ordered' /\ Sorted'
      BY <1>2, <2>2, SameShape
    <2>4. TypeOK'
      BY <1>2, <2>1, <2>2 DEF TypeOK, Shape
    <2>5. Loops'
      BY <2>2 DEF Loops
    <2> QED BY <2>1, <2>3, <2>4, <2>5 DEF RBInv
  <1>7. ASSUME NEW n \in Tree, NEW d \in Sides, child[Other(d)][n] /= Sentinel, Rotate(n, d),
               RedBlack', red' \in [Places -> BOOLEAN], height' \in [Places -> Nat],
               pc' = "fixup", node' = node, temp' \in Tree' \cup {Sentinel},
               temp' /= root' => /\ parent'[temp'] \in Tree'
                                 /\ \E e \in Sides : child'[e][parent'[temp']] = temp'
        PROVE  RBInv'
    <2>1. /\ Linked' /\ Nested' /\ Ordered' /\ Sorted' /\ Tree' = Tree
          /\ root' \in Places /\ child' \in [Sides -> [Nodes -> Places \cup {Null}]]
          /\ parent' \in [Places -> Places \cup {Null}] /\ under' \in [Places -> SUBSET Nodes]
          /\ key' \in [Nodes -> 0..(M - 1)] /\ order' \in Seq(Nodes)
      BY <1>1, <1>2, <1>7, RotateStep
    <2>2. TypeOK'
      BY <1>1, <1>2, <1>3, <1>7, <2>1 DEF TypeOK
    <2>3. Loops'
      BY <1>2, <1>7 DEF Loops
    <2> QED BY <1>7, <2>1, <2>2, <2>3 DEF RBInv
  <1>8. CASE RotateSibling
    <2>1. Fixup /\ Rotate(p, s) /\ pc' = pc /\ node' = node /\ height' = height
      BY <1>8 DEF RotateSibling, p, s
    <2>2. /\ RedBlack' /\ red' \in [Places -> BOOLEAN]
          /\ temp' \in Tree' \cup {Sentinel} /\ parent'[temp'] \in Tree'
          /\ \E d \in Sides : child'[d][parent'[temp']] = temp'
      BY <1>2, <1>8, <2>1, RotateSiblingColours
    <2>3. height' \in [Places -> Nat]
      BY <1>2, <2>1 DEF TypeOK
    <2> QED BY <1>1, <1>4, <1>7, <2>1, <2>2, <2>3
  <1>9. CASE BringNephew
    <2>1. Fixup /\ Rotate(m, Far) /\ pc' = pc /\ node' = node /\ height' = height /\ red[child[s][m]]
      BY <1>9 DEF BringNephew, m, s
    <2>2. /\ RedBlack' /\ red' \in [Places -> BOOLEAN]
          /\ temp' \in Tree' \cup {Sentinel} /\ parent'[temp'] \in Tree'
          /\ \E d \in Sides : child'[d][parent'[temp']] = temp'
      BY <1>2, <1>9, <2>1, BringNephewColours
    <2>3. height' \in [Places -> Nat]
      BY <1>2, <2>1 DEF TypeOK
    <2>4. child[s][m] /= Sentinel
      BY <1>2, <2>1 DEF RBCore, RedBlack
    <2> QED BY <1>1, <1>4, <1>7, <2>1, <2>2, <2>3, <2>4
  <1>10. CASE Settle
    <2>1. Fixup /\ Rotate(p, s) /\ pc' = pc /\ node' = node
      BY <1>10 DEF Settle, p, s
    <2>2. /\ RedBlack' /\ red' \in [Places -> BOOLEAN] /\ height' \in [Places -> Nat]
          /\ temp' \in Tree' /\ temp' = root'
      BY <1>2, <1>10, <2>1, SettleColours
    <2> QED BY <1>1, <1>4, <1>7, <2>1, <2>2
  <1> QED BY <1>5, <1>6, <1>8, <1>9, <1>10

-----------------------------------------------------------------------------
(* The invariant.                                                          *)

LEMMA RBInit == Init => RBInv
  <1> SUFFICES ASSUME Init PROVE RBInv
    OBVIOUS
  <1>1. /\ root = Sentinel /\ insert \in {"value", "timer"} /\ key = [n \in Nodes |-> 0]
        /\ child = [s \in Sides |-> [n \in Nodes |-> Null]]
        /\ parent = [n \in Places |-> Null] /\ red = [n \in Places |-> FALSE]
        /\ pc = "idle" /\ node = Null /\ temp = Null /\ order = <<>>
        /\ under = [n \in Places |-> {}] /\ height = [n \in Places |-> 0]
    BY DEF Init
  <1>2. Tree = {} /\ Sentinel \in Places /\ order \in Seq(Nodes) /\ DOMAIN order = {} /\ 0 \in 0..(M - 1)
    BY <1>1, ClockAssumption DEF Tree, Elements, Places
  <1>3. TypeOK
    BY <1>1, <1>2 DEF TypeOK
  <1>4. Linked /\ Nested
    BY <1>1, <1>2 DEF Linked, Nested
  <1>5. Ordered
    BY <1>2 DEF Ordered, Distinct
  <1>6. Sorted
    BY <1>2 DEF Sorted
  <1>7. RedBlack
    BY <1>1, <1>2 DEF RedBlack
  <1>8. Loops
    BY <1>1 DEF Loops
  <1> QED BY <1>3, <1>4, <1>5, <1>6, <1>7, <1>8 DEF RBInv

LEMMA RBNext == RBInv /\ [Next]_vars => RBInv'
  <1> SUFFICES ASSUME RBInv, [Next]_vars PROVE RBInv'
    OBVIOUS
  <1>1. ASSUME NEW n \in Nodes, InsertRoot(n) PROVE RBInv'
    BY <1>1, InsertRootStep
  <1>2. ASSUME NEW n \in Nodes, Insert(n) PROVE RBInv'
    BY <1>2, InsertStep
  <1>3. CASE Walk
    BY <1>3, WalkStep
  <1>4. CASE Descend
    BY <1>4, DescendStep
  <1>5. CASE Attach
    BY <1>5, AttachStep
  <1>6. CASE Recolour \/ Straighten \/ RotateUp \/ Rebalanced
    BY <1>6, RebalanceStep
  <1>7. CASE DeleteRoot \/ DeleteNode \/ Substitute
    BY <1>7, DeleteStep
  <1>8. CASE RotateSibling \/ Lighten \/ BringNephew \/ Settle \/ FixedUp
    BY <1>8, FixupStep
  <1>9. CASE UNCHANGED vars
    BY <1>9 DEF vars, RBInv, TypeOK, Linked, Nested, Ordered, Sorted, RedBlack, Loops, Tree,
                Earlier, Rank, Short, Near, Side, Sound, Before
  <1> QED BY <1>1, <1>2, <1>3, <1>4, <1>5, <1>6, <1>7, <1>8, <1>9 DEF Next, Walk

\* Pointers, colours, subtrees, order and the loops' cursors agree, in a tree
\* of any size.
THEOREM TreeInvariant == Spec => []RBInv
  BY RBInit, RBNext, PTL DEF Spec

\* After any sequence of inserts and deletes: root and sentinel are black, no
\* red node has a red child and all paths hold as many black nodes; in between,
\* exactly the loops' cursors are exempt.
THEOREM RedBlackAlways == Spec => []RedBlack
  <1>1. RBInv => RedBlack
    BY DEF RBInv
  <1> QED BY <1>1, TreeInvariant, PTL
-----------------------------------------------------------------------------
(* The tree as a queue.                                                    *)

\* The keys of the queue.
Key == [n \in Nodes |-> IF n \in Tree THEN key[n] ELSE 0]

\* The i-th place may be the one of n.
PlaceFor(n, i) ==
    IF insert = "timer"
    THEN (SmallRange(Keys(order, Key') \cup {Key'[n]}) /\ InOrder(order, Key')) =>
            /\ \A k \in 1..i : ~Precedes(Key'[n], Key'[order[k]])
            /\ \A k \in (i + 1)..Len(order) : Precedes(Key'[n], Key'[order[k]])
    ELSE /\ \A k \in 1..i : Key'[order[k]] <= Key'[n]
         /\ \A k \in (i + 1)..Len(order) : Key'[n] < Key'[order[k]]

LEMMA QueueInsert ==
    ASSUME NEW n \in Nodes, n \notin Tree, NEW k \in 0..(M - 1), Key' = [Key EXCEPT ![n] = k],
           NEW i \in 0..Len(order), order' = Inserted(order, i, n), PlaceFor(n, i), insert' = insert
    PROVE  Queue!Insert(n)
  <1>1. n \notin Queue!Elements(order)
    BY DEF Queue!Elements, Tree, Elements
  <1>2. Queue!Inserted(order, i, n) = Inserted(order, i, n)
    BY DEF Queue!Inserted, Inserted
  <1>3. CASE insert = "timer"
    <2>1. order' \in Queue!Insertions(order, Key', n)
      BY <1>2, <1>3 DEF PlaceFor, Queue!Insertions, Queue!SmallRange, Queue!Keys, Queue!InOrder, Queue!Elements,
                        Queue!Precedes, Queue!Signed, SmallRange, Keys, InOrder, Elements, Precedes, Signed
    <2> QED BY <1>1, <1>3, <2>1 DEF Queue!Insert, Key
  <1>4. CASE insert /= "timer"
    <2>1. order' \in Queue!Sorted(order, Key', n)
      BY <1>2, <1>4 DEF PlaceFor, Queue!Sorted
    <2> QED BY <1>1, <1>4, <2>1 DEF Queue!Insert, Key
  <1> QED BY <1>3, <1>4

LEMMA QueueDelete ==
    ASSUME NEW n \in Tree, Key' = [Key EXCEPT ![n] = 0], order' = Without(order, n), insert' = insert
    PROVE  Queue!Delete(n)
  <1>1. Queue!Without(order, n) = Without(order, n) /\ n \in Queue!Elements(order)
    BY DEF Queue!Without, Without, Queue!Elements, Tree, Elements
  <1> QED BY <1>1 DEF Queue!Delete, Key

LEMMA InsertRootRefines == ASSUME RBInv, NEW n \in Nodes, InsertRoot(n) PROVE Queue!Insert(n)
  <1>1. /\ TypeOK /\ Nested /\ Tree = {} /\ Tree' = {n} /\ order' = <<n>> /\ insert' = insert
        /\ order \in Seq(Nodes)
    BY InsertRootFacts DEF RBInv, TypeOK
  <1>2. PICK k \in 0..(M - 1) : key' = [key EXCEPT ![n] = k]
    BY DEF InsertRoot
  <1>3. Key' = [Key EXCEPT ![n] = k] /\ n \notin Tree
    BY <1>1, <1>2 DEF Key, TypeOK
  <1>4. Len(order) = 0 /\ order' = Inserted(order, 0, n)
    BY <1>1, InsertedFirst DEF Tree
  <1>5. 0 \in 0..Len(order)
    BY <1>4
  <1>6. PlaceFor(n, 0)
    <2>1. \A j : j \in 1..0 \/ j \in (0 + 1)..Len(order) => FALSE
      BY <1>4
    <2> QED BY <2>1 DEF PlaceFor
  <1> QED BY <1>1, <1>3, <1>4, <1>5, <1>6, QueueInsert

LEMMA AttachRefines == ASSUME RBInv, Attach, NEW n, n = node PROVE Queue!Insert(n)
  <1>1. pc = "descend" /\ key' = key /\ insert' = insert
    BY DEF Attach
  <1>2. AtLeaf /\ Sorted /\ Descended(temp) /\ TypeOK /\ Distinct(order)
    BY <1>1, AttachReady DEF RBInv, Ordered
  <1>3. n \in Nodes /\ n \notin Tree /\ temp \in Tree /\ Tree' = Tree \cup {n}
    BY <1>2, AttachFacts DEF AtLeaf
  <1>4. order \in Seq(Nodes) /\ DOMAIN order = 1..Len(order) /\ Len(order) \in Nat
    BY <1>2, LenProperties DEF TypeOK
  <1>5. PICK j \in 0..Len(order) : order' = Inserted(order, j, n)
    <2>1. PICK i \in DOMAIN order : order' = Inserted(order, IF Way = "left" THEN i - 1 ELSE i, node)
      BY DEF Attach
    <2>2. i - 1 \in 0..Len(order) /\ i \in 0..Len(order)
      BY <1>4
    <2> QED BY <2>1, <2>2
  <1>6. PICK v \in 0..(M - 1) : v = key[n] /\ Key' = [Key EXCEPT ![n] = v]
    <2>1. key[n] \in 0..(M - 1)
      BY <1>2, <1>3 DEF TypeOK
    <2>2. Key' = [Key EXCEPT ![n] = key[n]]
      BY <1>1, <1>3 DEF Key
    <2> QED BY <2>1, <2>2
  <1>7. Key'[n] = key[n] /\ \A y \in Tree : Key'[y] = key[y] /\ y \in Nodes
    <2>1. \A y \in Tree : y \in Nodes
      BY <1>2 DEF TypeOK, Tree, Elements
    <2> QED BY <1>1, <1>3, <2>1 DEF Key
  <1>8. \A k \in 1..Len(order) : order[k] \in Tree
    BY <1>4, <1>5 DEF Tree, Elements
  <1>9. \A k \in 1..Len(order) : Ahead(order', n, order[k]) <=> j < k
    <2>1. \A k \in DOMAIN order : /\ Ahead(order', order[k], n) <=> k <= j
                                  /\ Ahead(order', n, order[k]) <=> j < k
      <3>1. Distinct(order) /\ n \notin Elements(order)
        BY <1>2, <1>3 DEF Tree
      <3> QED BY <1>3, <1>4, <1>5, <3>1, InsertedAhead
    <2> QED BY <1>4, <2>1
  <1>10. Sound(key[node]) => \A k \in 1..Len(order) : Before(key[node], key[order[k]]) <=> j < k
    BY <1>2, <1>8, <1>9, AttachPlace
  <1>11. \A k : /\ k \in 1..j => k \in 1..Len(order) /\ ~(j < k)
                /\ k \in (j + 1)..Len(order) => k \in 1..Len(order) /\ j < k
    BY <1>4, <1>5
  <1>12. PlaceFor(n, j)
    <2>1. CASE insert = "timer"
      <3> SUFFICES ASSUME SmallRange(Keys(order, Key') \cup {Key'[n]}), InOrder(order, Key')
                   PROVE  /\ \A k \in 1..j : ~Precedes(Key'[n], Key'[order[k]])
                          /\ \A k \in (j + 1)..Len(order) : Precedes(Key'[n], Key'[order[k]])
        BY <2>1 DEF PlaceFor
      <3>1. Keys(order, Key') = Keys(order, key)
        BY <1>7 DEF Keys, Tree
      <3>2. InOrder(order, key)
        BY <1>4, <1>5, <1>7, <1>8 DEF InOrder
      <3>3. Sound(key[node])
        BY <1>7, <3>1, <3>2 DEF Sound
      <3> QED BY <1>7, <1>8, <1>10, <1>11, <2>1, <3>3 DEF Before
    <2>2. CASE insert /= "timer"
      <3>1. insert = "value" /\ Sound(key[node])
        BY <1>2, <2>2 DEF TypeOK, Sound
      <3>2. \A y \in Tree : key[y] \in 0..(M - 1)
        BY <1>2, <1>7 DEF TypeOK
      <3>3. \A k \in 1..Len(order) : /\ Key'[n] < Key'[order[k]] <=> j < k
                                     /\ Key'[order[k]] \in 0..(M - 1)
        BY <1>7, <1>8, <1>10, <2>2, <3>1, <3>2 DEF Before
      <3>4. \A k \in 1..Len(order) : ~(j < k) => Key'[order[k]] <= Key'[n]
        BY <1>6, <1>7, <3>3, ClockAssumption
      <3> QED BY <1>11, <2>2, <3>3, <3>4 DEF PlaceFor
    <2> QED BY <2>1, <2>2
  <1> QED BY <1>1, <1>3, <1>5, <1>6, <1>12, QueueInsert

LEMMA DeleteRefines ==
    ASSUME RBInv, DeleteRoot \/ DeleteNode \/ Substitute, NEW n, n = node
    PROVE  Queue!Delete(n)
  <1>1. pc = "subst" /\ Remove /\ insert' = insert
    BY DEF DeleteRoot, DeleteNode, Substitute
  <1>2. TypeOK /\ Distinct(order) /\ node \in Tree
    BY <1>1, SubstReady
  <1>3. Tree' = Tree \ {node} /\ key' = [key EXCEPT ![node] = 0]
    BY <1>1, <1>2, RemoveFacts
  <1>4. Key' = [Key EXCEPT ![n] = 0]
    BY <1>2, <1>3 DEF Key, TypeOK
  <1>5. order' = Without(order, n)
    BY <1>1 DEF Remove
  <1> QED BY <1>1, <1>2, <1>4, <1>5, QueueDelete

\* All other steps leave the queue alone.
LEMMA OtherRefines ==
    ASSUME RBInv, \/ \E n \in Nodes : Insert(n)
                  \/ Walk \/ Descend
                  \/ Recolour \/ Straighten \/ RotateUp \/ Rebalanced
                  \/ RotateSibling \/ Lighten \/ BringNephew \/ Settle \/ FixedUp
                  \/ UNCHANGED vars
    PROVE  UNCHANGED Queue!vars
  <1>1. CASE \E n \in Nodes : Insert(n)
    <2>1. PICK n \in Nodes, k \in 0..(M - 1) : n \notin Tree /\ key' = [key EXCEPT ![n] = k]
      BY <1>1 DEF Insert, Tree
    <2>2. order' = order /\ insert' = insert /\ key \in [Nodes -> 0..(M - 1)]
      BY <1>1 DEF Insert, RBInv, TypeOK
    <2>3. Tree' = Tree
      BY <2>2 DEF Tree
    <2>4. Key' = Key
      BY <2>1, <2>2, <2>3 DEF Key
    <2> QED BY <2>2, <2>4 DEF Queue!vars, Key
  <1>2. CASE ~\E n \in Nodes : Insert(n)
    <2>1. order' = order /\ insert' = insert /\ key' = key
      BY <1>2 DEF Walk, Descend, Recolour, Straighten, RotateUp, Rebalanced, RotateSibling, Lighten,
                  BringNephew, Settle, FixedUp, vars, Rotate, Shape, Min, ngx_rbtree_next, Delete,
                  ngx_rbtree_min, MinFound, Climb
    <2>2. Tree' = Tree
      BY <2>1 DEF Tree
    <2> QED BY <2>1, <2>2 DEF Queue!vars
  <1> QED BY <1>1, <1>2

\* The tree is a queue: in key order, equal keys first come first served, nothing
\* lost or doubled by a rotation.
THEOREM TreeIsQueue == Spec => IsQueue
  <1>1. Init => Queue!Init
    <2> SUFFICES ASSUME Init PROVE Queue!Init
      OBVIOUS
    <2>1. order = <<>> /\ insert \in {"value", "timer"} /\ Tree = {}
      BY DEF Init, Tree, Elements
    <2> QED BY <2>1 DEF Queue!Init
  <1>2. RBInv /\ [Next]_vars => [Queue!Next]_(Queue!vars)
    <2> SUFFICES ASSUME RBInv, [Next]_vars PROVE Queue!Next \/ UNCHANGED Queue!vars
      OBVIOUS
    <2>1. ASSUME NEW n \in Nodes, InsertRoot(n) PROVE Queue!Next
      BY <2>1, InsertRootRefines DEF Queue!Next
    <2>2. CASE Attach
      <3>1. PICK n \in Nodes : n = node
        BY <2>2, AttachReady DEF Attach, AtLeaf
      <3> QED BY <2>2, <3>1, AttachRefines DEF Queue!Next
    <2>3. CASE DeleteRoot \/ DeleteNode \/ Substitute
      <3>1. PICK n \in Nodes : n = node
        BY <2>3, SubstReady DEF DeleteRoot, DeleteNode, Substitute, TypeOK, Tree, Elements
      <3> QED BY <2>3, <3>1, DeleteRefines DEF Queue!Next
    <2> QED BY <2>1, <2>2, <2>3, OtherRefines, Zenon DEF Next, Walk
  <1> QED BY <1>1, <1>2, TreeInvariant, PTL DEF Spec, IsQueue, Queue!Spec
-----------------------------------------------------------------------------
(* Walks.                                                                  *)

\* The node that nothing is ahead of, the one with nothing behind it, and two
\* with nothing between them, by their places.
LEMMA FirstPlace ==
    ASSUME TypeOK, Distinct(order), NEW x \in Tree, \A y \in Tree : y = x \/ Earlier(x, y)
    PROVE  x = order[1]
  <1>1. DOMAIN order = 1..Len(order) /\ Len(order) \in Nat
    BY LenProperties DEF TypeOK
  <1>2. PICK i \in 1..Len(order) : x = order[i]
    BY <1>1 DEF Tree, Elements
  <1>3. 1 \in DOMAIN order /\ order[1] \in Tree
    BY <1>1, <1>2 DEF Tree, Elements
  <1>4. \A j, k \in DOMAIN order : j < k => order[k] /= order[1]
    BY <1>1, <1>3 DEF Distinct
  <1> QED BY <1>3, <1>4 DEF Earlier, Ahead

LEMMA LastPlace ==
    ASSUME TypeOK, Distinct(order), NEW x \in Tree, \A y \in Tree : y = x \/ Earlier(y, x)
    PROVE  Len(order) \in DOMAIN order /\ order[Len(order)] = x
  <1>1. DOMAIN order = 1..Len(order) /\ Len(order) \in Nat
    BY LenProperties DEF TypeOK
  <1>2. PICK i \in 1..Len(order) : x = order[i]
    BY <1>1 DEF Tree, Elements
  <1>3. Len(order) \in DOMAIN order /\ order[Len(order)] \in Tree
    BY <1>1, <1>2 DEF Tree, Elements
  <1>4. \A j, k \in DOMAIN order : j < k => order[j] /= order[Len(order)]
    BY <1>1, <1>3 DEF Distinct
  <1> QED BY <1>3, <1>4 DEF Earlier, Ahead

LEMMA NextPlace ==
    ASSUME TypeOK, Distinct(order), NEW x, NEW y, Earlier(x, y),
           \A z : Earlier(x, z) => z = y \/ Earlier(y, z)
    PROVE  \E i \in DOMAIN order : order[i] = x /\ i /= Len(order) /\ order[i + 1] = y
  <1>1. DOMAIN order = 1..Len(order) /\ Len(order) \in Nat
    BY LenProperties DEF TypeOK
  <1>2. PICK i \in 1..Len(order), j \in 1..Len(order) : i < j /\ order[i] = x /\ order[j] = y
    BY <1>1 DEF Earlier, Ahead
  <1> DEFINE l == Len(order)
  <1>3. i /= l /\ i + 1 \in 1..l /\ i < i + 1 /\ i \in 1..l
    <2>1. i < j /\ i \in 1..l /\ j \in 1..l /\ l \in Nat
      BY <1>1, <1>2
    <2> HIDE DEF l
    <2> QED BY <2>1
  <1>4. Earlier(x, order[i + 1])
    BY <1>1, <1>2, <1>3 DEF Earlier, Ahead
  <1>5. ~Earlier(y, order[i + 1])
    <2> SUFFICES ASSUME NEW k \in 1..l, NEW m \in 1..l,
                        k < m, order[k] = y, order[m] = order[i + 1]
                 PROVE  FALSE
      BY <1>1 DEF Earlier, Ahead
    <2>1. k = j /\ m = i + 1
      BY <1>1, <1>2, <1>3 DEF Distinct
    <2>2. i < j /\ i \in 1..l /\ j \in 1..l /\ l \in Nat
      BY <1>1, <1>2
    <2> HIDE DEF l
    <2> QED BY <2>1, <2>2
  <1>6. order[i + 1] = y
    BY <1>4, <1>5, Zenon
  <1>7. i \in DOMAIN order
    BY <1>1
  <1> QED BY <1>2, <1>3, <1>6, <1>7, Zenon

\* The first node of a subtree that nothing else is ahead of.
LEMMA MinIsFirst == ASSUME RBInv, MinFound, pc = "min" PROVE temp' = order[1]
  <1>1. /\ Core /\ Ordered /\ TypeOK /\ Distinct(order) /\ temp' = temp
        /\ temp \in Tree /\ \A y \in Tree \ under[temp] : Earlier(temp, y)
    BY DEF RBInv, Core, Ordered, Loops, MinFound, Return
  <1>2. under[child["left"][temp]] = {}
    BY <1>1, UnderFacts DEF MinFound
  <1>3. \A y \in Tree : y = temp \/ Earlier(temp, y)
    BY <1>1, <1>2, Around
  <1> QED BY <1>1, <1>3, FirstPlace

LEMMA NextIsBelow ==
    ASSUME RBInv, MinFound, pc = "next"
    PROVE  \E i \in DOMAIN order : order[i] = node /\ i /= Len(order) /\ order[i + 1] = temp'
  <1>1. /\ Core /\ Ordered /\ TypeOK /\ Distinct(order) /\ temp' = temp /\ node \in Tree
        /\ temp \in under[child["right"][node]] /\ child["left"][temp] = Sentinel
        /\ \A y \in under[child["right"][node]] \ under[temp] : Earlier(temp, y)
    BY DEF RBInv, Core, Ordered, Loops, MinFound, Return
  <1>2. node \notin under[child["right"][node]]
    BY <1>1, UnderFacts DEF Sides
  <1>3. AtSubst
    BY <1>1, <1>2 DEF AtSubst
  <1>4. Earlier(node, temp) /\ \A x \in Tree : Earlier(node, x) /\ x /= temp => Earlier(temp, x)
    BY <1>1, <1>3, SubstPlace
  <1>5. \A x : Earlier(node, x) => x \in Tree
    BY <1>1, EarlierOrder
  <1> QED BY <1>1, <1>4, <1>5, NextPlace

LEMMA NextIsAbove ==
    ASSUME RBInv, Climb, temp /= root, temp = child["left"][parent[temp]]
    PROVE  \E i \in DOMAIN order : order[i] = node /\ i /= Len(order) /\ order[i + 1] = temp'
  <1> DEFINE p == parent[temp]
  <1>1. /\ Core /\ Ordered /\ Linked /\ TypeOK /\ Distinct(order) /\ temp' = p
        /\ temp \in Tree /\ node \in under[temp] /\ \A x \in under[temp] : x = node \/ Earlier(x, node)
    BY DEF RBInv, Core, Ordered, Loops, Climb, Return
  <1>2. p \in Tree /\ temp = child["left"][p]
    BY <1>1 DEF Linked
  <1> HIDE DEF p
  <1>3. Earlier(node, p) /\ node \in under[p]
    BY <1>1, <1>2, Around
  <1>4. ASSUME NEW z, Earlier(node, z) PROVE z = p \/ Earlier(p, z)
    <2>1. z \in Tree /\ ~Earlier(z, node) /\ z /= node
      BY <1>1, <1>4, EarlierOrder
    <2>2. z \notin under[child["left"][p]]
      BY <1>1, <1>2, <2>1
    <2>3. CASE z \in under[p]
      <3>1. z \in {p} \cup under[child["right"][p]]
        BY <1>1, <1>2, <2>2, <2>3, Around
      <3> QED BY <1>1, <1>2, <3>1, Around
    <2>4. CASE z \notin under[p]
      BY <1>1, <1>2, <1>3, <1>4, <2>1, <2>4, Around
    <2> QED BY <2>3, <2>4
  <1> QED BY <1>1, <1>3, <1>4, NextPlace

LEMMA NoneIsAbove ==
    ASSUME RBInv, Climb, temp = root
    PROVE  Len(order) \in DOMAIN order /\ order[Len(order)] = node /\ temp' = Null
  <1>1. /\ Core /\ TypeOK /\ Distinct(order) /\ temp' = Null
        /\ temp \in Tree /\ node \in under[temp] /\ \A x \in under[temp] : x = node \/ Earlier(x, node)
    BY DEF RBInv, Core, Ordered, Loops, Climb, Return
  <1>2. under[temp] = Tree
    BY <1>1, UnderFacts
  <1> QED BY <1>1, <1>2, LastPlace

\* ngx_rbtree_min returns the first of the queue and ngx_rbtree_next the one
\* behind, or NULL, in a tree of any size.
THEOREM WalksInOrder == Spec => WalksQueue
  <1> DEFINE Found == pc' = "idle" =>
                /\ pc = "min" => temp' = order[1]
                /\ pc \in {"next", "climb"} => \E i \in DOMAIN order :
                      order[i] = node /\ temp' = IF i = Len(order) THEN Null ELSE order[i + 1]
  <1>1. RBInv /\ [Next]_vars => [Found]_vars
    <2> SUFFICES ASSUME RBInv, Next, pc' = "idle", pc \in {"min", "next", "climb"} PROVE Found
      BY DEF Found
    <2>1. MinFound \/ Climb
      BY DEF Next, InsertRoot, Insert, Delete, ngx_rbtree_next, Descend, Attach, Recolour, Straighten, RotateUp,
             Rebalanced, Rebalance, Min, ngx_rbtree_min, DeleteRoot, DeleteNode, Substitute, RotateSibling,
             Lighten, BringNephew, Settle, FixedUp, Fixup
    <2>2. CASE MinFound
      <3>1. pc /= "climb"
        BY <2>2 DEF MinFound
      <3> QED BY <2>2, <3>1, MinIsFirst, NextIsBelow
    <2>3. CASE Climb
      <3>1. pc = "climb"
        BY <2>3 DEF Climb
      <3>2. temp = root \/ temp = child["left"][parent[temp]]
        BY <2>3, <3>1 DEF Climb
      <3> QED BY <2>3, <3>1, <3>2, NextIsAbove, NoneIsAbove
    <2> QED BY <2>1, <2>2, <2>3
  <1> QED BY <1>1, TreeInvariant, PTL DEF Spec, WalksQueue, Found
=============================================================================
