--------------------------- MODULE PagecountProofs ---------------------------
(***************************************************************************)
(* Theorems about Pagecount, for any number of workers, clients and        *)
(* locations, counters of any width and slabs of any size.                 *)
(***************************************************************************)
EXTENDS Pagecount, FiniteSetTheorems, DataTheorems

-----------------------------------------------------------------------------
(* Counting.                                                               *)

Holding == {"lookup", "inc", "link", "unlock"}

\* What a worker knows in the course of a request: the one that holds the
\* mutex has read a counter nobody else has changed since, or knows that the
\* key is missing and that the slab has room.
Knows(w) ==
    /\ pc[w] \in Holding \cup {"lock", "min"} => client[w] \in Clients
    /\ pc[w] = "inc" => client[w] \in keys /\ reg[w] = data[client[w]]
    /\ pc[w] = "link" => client[w] \notin keys /\ Cardinality(keys) < Slab
    /\ pc[w] \in {"unlock", "min"} => client[w] \in keys \/ Cardinality(keys) = Slab

CountInv ==
    /\ TypeOK
    /\ IsFiniteSet(keys)
    /\ client \in [Workers -> Clients \cup {0}]
    /\ reg \in [Workers -> Nat]
    /\ counted \in [Clients -> Nat]
    /\ \A c \in Clients \ keys : data[c] = 0 /\ counted[c] = 0
    /\ CountsRight
    /\ \A w \in Workers : Knows(w)

LEMMA CountInit == Init => CountInv
  <1> SUFFICES ASSUME Init PROVE CountInv
    OBVIOUS
  <1>1. IsFiniteSet(keys) /\ Cardinality(keys) = 0
    BY FS_EmptySet DEF Init
  <1> QED BY <1>1, PagecountAssumption
          DEF Init, CountInv, TypeOK, CountsRight, Knows, Labels, Holding

\* What a byte counts.
LEMMA Wraps == ASSUME NEW n \in Nat
               PROVE  /\ ((n % W) + 1) % W = (n + 1) % W
                      /\ n % W \in 0..(W - 1)
  <1>1. W \in Nat \ {0} /\ 1 \in Nat
    BY PagecountAssumption
  <1> QED BY <1>1, DivMod, ModAdd, Zenon

\* One more request of c is counted.
LEMMA CountStep ==
    ASSUME CountInv, NEW c \in Clients, keys' \subseteq Clients,
           c \in keys', keys \subseteq keys',
           data' = [data EXCEPT ![c] = (data[c] + 1) % W],
           counted' = [counted EXCEPT ![c] = @ + 1]
    PROVE  /\ data' \in [Clients -> 0..(W - 1)]
           /\ counted' \in [Clients -> Nat]
           /\ \A d \in Clients \ keys' : data'[d] = 0 /\ counted'[d] = 0
           /\ CountsRight'
  <1>1. \A d \in Clients : data[d] = counted[d] % W
    BY DEF CountInv, CountsRight
  <1>2. counted[c] \in Nat
    BY DEF CountInv
  <1>3. data'[c] = counted'[c] % W /\ (data[c] + 1) % W \in 0..(W - 1)
    <2>1. (data[c] + 1) % W = (counted[c] + 1) % W
      BY <1>1, <1>2, Wraps
    <2>2. counted[c] + 1 \in Nat
      BY <1>2
    <2>3. (counted[c] + 1) % W \in 0..(W - 1)
      BY <2>2, Wraps
    <2> QED BY <2>1, <2>3 DEF CountInv, TypeOK
  <1> QED BY <1>1, <1>2, <1>3 DEF CountInv, TypeOK, CountsRight

\* A step outside the part of the handler that counts.
LEMMA QuietStep ==
    ASSUME CountInv, NEW w \in Workers, UNCHANGED shared, pc[w] \notin Holding,
           NEW l \in {"idle", "row", "header", "body", "sent", "dead"}, Goto(w, l),
           client' \in [Workers -> Clients \cup {0}], reg' \in [Workers -> Nat],
           \A v \in Workers \ {w} : client'[v] = client[v] /\ reg'[v] = reg[v]
    PROVE  CountInv'
  <1> USE DEF CountInv, Goto, Labels, Holding, shared
  <1>1. TypeOK'
    BY DEF TypeOK
  <1>2. Knows(w)'
    BY DEF Knows, TypeOK
  <1>3. ASSUME NEW v \in Workers \ {w} PROVE Knows(v)'
    BY DEF Knows, TypeOK
  <1> QED BY <1>1, <1>2, <1>3 DEF CountsRight

LEMMA CountNext == CountInv /\ [Next]_vars => CountInv'
  <1> SUFFICES ASSUME CountInv, [Next]_vars PROVE CountInv'
    OBVIOUS
  <1> USE DEF CountInv, Goto, Labels, Holding
  <1>1. CASE UNCHANGED vars
    BY <1>1 DEF vars, shared, conf, work, TypeOK, CountsRight, Knows
  <1>2. ASSUME NEW w \in Workers, Request(w) PROVE CountInv'
    BY <1>2 DEF Request, shared, conf, TypeOK, CountsRight, Knows
  <1>3. ASSUME NEW w \in Workers, ngx_shmtx_lock(w) PROVE CountInv'
    BY <1>3, PagecountAssumption DEF ngx_shmtx_lock, conf, work, TypeOK, CountsRight, Knows
  <1>4. ASSUME NEW w \in Workers, ngx_http_pagecount_lookup(w) PROVE CountInv'
    <2>1. Cardinality(keys) \in Nat /\ Cardinality(keys) <= Slab
      BY FS_CardinalityType DEF TypeOK
    <2>2. client[w] \in Clients /\ data[client[w]] \in Nat
      <3>1. client[w] \in Clients
        BY <1>4 DEF ngx_http_pagecount_lookup, TypeOK, Knows
      <3>2. data[client[w]] \in 0..(W - 1)
        BY <3>1 DEF TypeOK
      <3> QED BY <3>1, <3>2, PagecountAssumption
    <2>3. reg' \in [Workers -> Nat] /\ reg'[w] = data[client[w]]
      BY <1>4, <2>2 DEF ngx_http_pagecount_lookup
    <2>4. TypeOK'
      BY <1>4 DEF ngx_http_pagecount_lookup, shared, TypeOK
    <2>5. Knows(w)'
      <3>1. Cardinality(keys) < Slab \/ Cardinality(keys) = Slab
        BY <2>1, PagecountAssumption
      <3> QED BY <1>4, <2>2, <2>3, <3>1 DEF ngx_http_pagecount_lookup, shared, TypeOK, Knows
    <2>6. \A v \in Workers \ {w} : Knows(v)'
      BY <1>4 DEF ngx_http_pagecount_lookup, shared, TypeOK, Knows
    <2> QED BY <1>4, <2>3, <2>4, <2>5, <2>6
            DEF ngx_http_pagecount_lookup, shared, CountsRight
  <1>5. ASSUME NEW w \in Workers, Increment(w) PROVE CountInv'
    <2>1. client[w] \in keys /\ reg[w] = data[client[w]] /\ client[w] \in Clients
      BY <1>5 DEF Increment, Knows, TypeOK
    <2>2. /\ data' \in [Clients -> 0..(W - 1)]
          /\ counted' \in [Clients -> Nat]
          /\ \A d \in Clients \ keys' : data'[d] = 0 /\ counted'[d] = 0
          /\ CountsRight'
      BY <1>5, <2>1, CountStep DEF Increment, TypeOK
    <2>3. \A v \in Workers \ {w} : pc[v] \notin Holding
      BY <1>5 DEF Increment, TypeOK
    <2> QED BY <1>5, <2>1, <2>2, <2>3 DEF Increment, conf, work, TypeOK, Knows
  <1>6. ASSUME NEW w \in Workers, Linked(w) PROVE CountInv'
    <2>1. client[w] \in Clients \ keys /\ Cardinality(keys) < Slab
      BY <1>6 DEF Linked, Knows, TypeOK
    <2>2. data[client[w]] = 0 /\ (data[client[w]] + 1) % W = 1
      <3>1. W \in Nat \ {0} /\ 1 \in 0..(W - 1) /\ 0 + 1 = 1
        BY PagecountAssumption
      <3>2. 1 % W = 1
        BY <3>1, ModSmall, Zenon
      <3>3. data[client[w]] = 0
        BY <2>1
      <3> QED BY <3>1, <3>2, <3>3
    <2>3. /\ data' \in [Clients -> 0..(W - 1)]
          /\ counted' \in [Clients -> Nat]
          /\ \A d \in Clients \ keys' : data'[d] = 0 /\ counted'[d] = 0
          /\ CountsRight'
      BY <1>6, <2>1, <2>2, CountStep DEF Linked, TypeOK
    <2>4. /\ IsFiniteSet(keys')
          /\ Cardinality(keys') = Cardinality(keys) + 1
          /\ Cardinality(keys) \in Nat
      BY <1>6, <2>1, FS_AddElement, FS_CardinalityType DEF Linked
    <2>5. \A v \in Workers \ {w} : pc[v] \notin Holding
      BY <1>6 DEF Linked, TypeOK
    <2>6. \A v \in Workers : ~(pc[v] = "min" /\ Cardinality(keys) = Slab)
      BY <2>1, PagecountAssumption
    <2>7. Cardinality(keys') <= Slab
      BY <2>1, <2>4, PagecountAssumption
    <2>8. TypeOK'
      BY <1>6, <2>1, <2>3, <2>7 DEF Linked, TypeOK
    <2>9. \A v \in Workers : Knows(v)'
      <3>1. Knows(w)'
        BY <1>6, <2>1 DEF Linked, work, TypeOK, Knows
      <3>2. ASSUME NEW v \in Workers \ {w} PROVE Knows(v)'
        <4>1. pc'[v] = pc[v] /\ pc[v] \notin Holding
          BY <1>6, <2>5 DEF Linked, TypeOK
        <4> QED BY <1>6, <2>6, <4>1 DEF Linked, work, Knows
      <3> QED BY <3>1, <3>2
    <2> QED BY <1>6, <2>3, <2>4, <2>8, <2>9 DEF Linked, work
  <1>7. ASSUME NEW w \in Workers, ngx_shmtx_unlock(w) PROVE CountInv'
    <2>1. TypeOK'
      BY <1>7, PagecountAssumption DEF ngx_shmtx_unlock, TypeOK
    <2>2. \A v \in Workers : Knows(v)'
      BY <1>7 DEF ngx_shmtx_unlock, work, TypeOK, Knows
    <2> QED BY <1>7, <2>1, <2>2 DEF ngx_shmtx_unlock, work, CountsRight
  <1>8. ASSUME NEW w \in Workers, ngx_rbtree_min(w) \/ Row(w) \/ RowTooMany(w) PROVE CountInv'
    <2>1. PICK l \in {"row", "header", "dead"} : Goto(w, l)
      BY <1>8 DEF ngx_rbtree_min, Row, RowTooMany, Walk
    <2>2. UNCHANGED <<shared, client, reg>> /\ pc[w] \notin Holding
      BY <1>8 DEF ngx_rbtree_min, Row, RowTooMany
    <2> QED BY <2>1, <2>2, QuietStep
  <1>9. ASSUME NEW w \in Workers, SendPage(w) \/ Other(w) \/ ngx_http_output_filter(w)
        PROVE  CountInv'
    <2>1. PICK l \in {"body", "sent"} : Goto(w, l)
      BY <1>9 DEF SendPage, Other, ngx_http_output_filter
    <2>2. UNCHANGED <<shared, client, reg>> /\ pc[w] \notin Holding
      BY <1>9 DEF SendPage, Other, ngx_http_output_filter
    <2> QED BY <2>1, <2>2, QuietStep
  <1>10. ASSUME NEW w \in Workers, Finish(w) PROVE CountInv'
    <2>1. Goto(w, "idle") /\ UNCHANGED shared /\ pc[w] \notin Holding
      BY <1>10 DEF Finish
    <2>2. client' = [client EXCEPT ![w] = 0] /\ reg' = [reg EXCEPT ![w] = 0]
      BY <1>10 DEF Finish, Forget
    <2> QED BY <2>1, <2>2, QuietStep
  <1>11. CASE Reload
    BY <1>11 DEF Reload, shared, work, TypeOK, CountsRight, Knows
  <1> QED BY <1>1, <1>2, <1>3, <1>4, <1>5, <1>6, <1>7, <1>8, <1>9, <1>10, <1>11
          DEF Next, Handler

\* Whatever workers meet at the mutex, they keep the invariant of the counters.
THEOREM CountInvariant == Spec => []CountInv
  BY CountInit, CountNext, PTL DEF Spec

\* The mutex is held exactly by the worker in its critical section, and counts
\* keep their width (ngx_http_pagecount_module.c:317-319).
THEOREM PagecountTyped == Spec => []TypeOK
  <1>1. CountInv => TypeOK
    BY DEF CountInv
  <1> QED BY <1>1, CountInvariant, PTL

\* No request is counted twice or lost (ngx_http_pagecount_module.c:243, 258-261,
\* 317-319).
THEOREM CountsAreRight == Spec => []CountsRight
  <1>1. CountInv => CountsRight
    BY DEF CountInv
  <1> QED BY <1>1, CountInvariant, PTL

-----------------------------------------------------------------------------
(* Pages.                                                                  *)

RowsOf(w) == {page[w][i] : i \in DOMAIN page[w]}

\* What a worker has written when it is about to write the row of node[w]: a
\* row for each earlier client there was when its walk began.
Walked(w) ==
    /\ pc[w] = "row" => node[w] \in Clients
    /\ (pc[w] \in {"row", "header"} /\ w \notin torn) =>
         /\ \A i, j \in DOMAIN page[w] : i < j => page[w][i] < page[w][j]
         /\ client[w] \in before[w] \/ Cardinality(before[w]) = Slab
    /\ (pc[w] = "row" /\ w \notin torn) =>
         /\ \A i \in DOMAIN page[w] : page[w][i] < node[w]
         /\ \A k \in before[w] : k < node[w] => k \in RowsOf(w)
    /\ (pc[w] = "header" /\ w \notin torn) => before[w] \subseteq RowsOf(w)

PageInv ==
    /\ node \in [Workers -> Clients \cup {End}]
    /\ page \in [Workers -> Seq(Clients)]
    /\ before \in [Workers -> SUBSET keys]
    /\ torn \subseteq Workers
    /\ \A w \in Workers : Walked(w)

\* The node a walk meets next, of a tree nobody is changing.
LEMMA FollowingLeast ==
    ASSUME CountInv, ~Linking, NEW n \in Clients \cup {End}, NEW k \in Following(n)
    PROVE  /\ k \in Clients \cup {End}
           /\ k /= End => k \in keys /\ k > n /\ \A m \in keys : m > n => k <= m
           /\ k = End => \A m \in keys : m <= n
  <1>1. keys \subseteq Clients /\ Clients \subseteq Nat \ {0}
    BY PagecountAssumption DEF CountInv, TypeOK
  <1> DEFINE more == {m \in keys : m > n}
  <1>2. CASE more = {}
    BY <1>1, <1>2 DEF Following, End
  <1>3. CASE more /= {}
    <2>1. k \in more /\ \A m \in more : k <= m
      BY <1>3 DEF Following
    <2> QED BY <1>1, <2>1 DEF End
  <1> QED BY <1>2, <1>3

LEMMA FollowingType ==
    ASSUME CountInv, NEW n \in Clients \cup {End}, NEW k \in Following(n)
    PROVE  k \in Clients \cup {End}
  <1>1. CASE Linking
    BY <1>1 DEF Following, CountInv, TypeOK
  <1>2. CASE ~Linking
    BY <1>2, FollowingLeast
  <1> QED BY <1>1, <1>2

LEMMA AppendRow ==
    ASSUME NEW s \in Seq(Clients), NEW n \in Clients,
           \A i, j \in DOMAIN s : i < j => s[i] < s[j],
           \A i \in DOMAIN s : s[i] < n
    PROVE  /\ Append(s, n) \in Seq(Clients)
           /\ LET t == Append(s, n)
              IN  /\ \A i, j \in DOMAIN t : i < j => t[i] < t[j]
                  /\ \A i \in DOMAIN t : t[i] <= n
                  /\ {t[i] : i \in DOMAIN t} = {s[i] : i \in DOMAIN s} \cup {n}
  <1> DEFINE t == Append(s, n)
             l == Len(s)
  <1>1. l \in Nat /\ DOMAIN s = 1..l /\ \A i \in 1..l : s[i] \in Clients
    BY LenProperties, ElementOfSeq
  <1>2. /\ t \in Seq(Clients)
        /\ Len(t) = l + 1
        /\ \A i \in 1..l : t[i] = s[i]
        /\ t[l + 1] = n
    BY AppendProperties
  <1>3. DOMAIN t = 1..(l + 1)
    BY <1>2, LenProperties
  <1> HIDE DEF t, l
  <1>4. Clients \subseteq Nat
    BY PagecountAssumption
  <1>5. \A i, j \in DOMAIN t : i < j => t[i] < t[j]
    BY <1>1, <1>2, <1>3
  <1>6. \A i \in DOMAIN t : t[i] <= n
    <2>1. ASSUME NEW i \in 1..l PROVE s[i] <= n
      <3>1. s[i] < n /\ s[i] \in Nat /\ n \in Nat
        BY <1>1, <1>4
      <3> QED BY <3>1
    <2>2. ASSUME NEW i \in 1..(l + 1) PROVE t[i] <= n
      <3>1. i \in 1..l \/ i = l + 1
        BY <1>1
      <3> QED BY <1>2, <1>4, <2>1, <3>1
    <2> QED BY <1>3, <2>2
  <1>7. {t[i] : i \in DOMAIN t} = {s[i] : i \in DOMAIN s} \cup {n}
    BY <1>1, <1>2, <1>3
  <1> QED BY <1>2, <1>5, <1>6, <1>7 DEF t

LEMMA PageInit == Init => PageInv
  BY EmptySeq DEF Init, PageInv, Walked, End

\* A step that leaves the pages and walks of all workers alone, and takes none
\* to a row or a header.
LEMMA NotWalking ==
    ASSUME CountInv, PageInv, NEW w \in Workers, NEW l \in Labels \ {"row", "header"}, Goto(w, l),
           UNCHANGED <<node, page, before, torn>>, keys \subseteq keys',
           \A v \in Workers \ {w} : client'[v] = client[v]
    PROVE  PageInv'
  <1>1. before' \in [Workers -> SUBSET keys']
    BY DEF PageInv
  <1>2. ASSUME NEW v \in Workers PROVE Walked(v)'
    BY DEF PageInv, Walked, Goto, CountInv, TypeOK, RowsOf
  <1> QED BY <1>1, <1>2 DEF PageInv

LEMMA MinStep == ASSUME CountInv, PageInv, NEW w \in Workers, ngx_rbtree_min(w) PROVE PageInv'
  <1> USE DEF ngx_rbtree_min
  <1>1. /\ pc[w] = "min" /\ keys' = keys
        /\ page' = [page EXCEPT ![w] = <<>>]
        /\ before' = [before EXCEPT ![w] = keys]
        /\ client' = client
    BY DEF shared
  <1>2. client[w] \in keys \/ Cardinality(keys) = Slab
    BY <1>1 DEF CountInv, Knows
  <1>3. 0 \in Clients \cup {End}
    BY DEF End
  <1>4. /\ node' \in [Workers -> Clients \cup {End}]
        /\ torn' \subseteq Workers
        /\ page' \in [Workers -> Seq(Clients)]
        /\ before' \in [Workers -> SUBSET keys']
    <2>1. node' \in [Workers -> Clients \cup {End}] /\ torn' \subseteq Workers
      BY <1>3, FollowingType DEF PageInv, Walk
    <2>2. page' \in [Workers -> Seq(Clients)]
      BY <1>1, EmptySeq DEF PageInv
    <2>3. before' \in [Workers -> SUBSET keys']
      BY <1>1 DEF PageInv
    <2> QED BY <2>1, <2>2, <2>3
  <1>5. page'[w] = <<>> /\ before'[w] = keys /\ DOMAIN page'[w] = {}
    BY <1>1 DEF PageInv
  <1>6. Walked(w)'
    <2>1. CASE Linking
      BY <2>1, <1>3, <1>4, FollowingType DEF Walk, Walked, Goto, CountInv, TypeOK, PageInv
    <2>2. CASE ~Linking
      <3>1. PICK k \in Following(0) : /\ node' = [node EXCEPT ![w] = k]
                                      /\ Goto(w, IF k = End THEN "header" ELSE "row")
        BY <2>2 DEF Walk
      <3>2. /\ k \in Clients \cup {End}
            /\ k /= End => k \in keys /\ \A m \in keys : m > 0 => k <= m
            /\ k = End => \A m \in keys : m <= 0
        BY <2>2, <3>1, <1>3, FollowingLeast
      <3>3. keys \subseteq Nat \ {0}
        BY PagecountAssumption DEF CountInv, TypeOK
      <3>4. node'[w] = k /\ pc'[w] = (IF k = End THEN "header" ELSE "row") /\ client'[w] = client[w]
        BY <1>1, <3>1 DEF PageInv, Goto, CountInv, TypeOK
      <3> QED BY <1>2, <1>5, <3>2, <3>3, <3>4 DEF Walked, RowsOf
    <2> QED BY <2>1, <2>2
  <1>7. ASSUME NEW v \in Workers \ {w} PROVE Walked(v)'
    <2>1. /\ page'[v] = page[v] /\ before'[v] = before[v] /\ node'[v] = node[v]
          /\ pc'[v] = pc[v] /\ client'[v] = client[v]
          /\ v \in torn' <=> v \in torn
      BY <1>1 DEF Walk, Goto, PageInv, CountInv, TypeOK
    <2> QED BY <2>1 DEF Walked, RowsOf, PageInv
  <1> QED BY <1>4, <1>6, <1>7 DEF PageInv

LEMMA RowStep == ASSUME CountInv, PageInv, NEW w \in Workers, Row(w) PROVE PageInv'
  <1> USE DEF Row
  <1>1. /\ pc[w] = "row" /\ keys' = keys
        /\ page' = [page EXCEPT ![w] = Append(@, node[w])]
        /\ before' = before
        /\ client' = client
    BY DEF shared
  <1>2. node[w] \in Clients /\ page[w] \in Seq(Clients)
    BY <1>1 DEF PageInv, Walked
  <1>3. Append(page[w], node[w]) \in Seq(Clients)
    BY <1>2, AppendProperties
  <1>4. /\ node' \in [Workers -> Clients \cup {End}]
        /\ torn' \subseteq Workers
        /\ page' \in [Workers -> Seq(Clients)]
        /\ before' \in [Workers -> SUBSET keys']
    BY <1>1, <1>2, <1>3, FollowingType DEF PageInv, Walk
  <1>5. Walked(w)'
    <2>1. CASE Linking
      BY <2>1, <1>2, <1>4, FollowingType DEF Walk, Walked, Goto, CountInv, TypeOK, PageInv
    <2>2. CASE w \in torn
      BY <2>2, <1>2, <1>4, FollowingType DEF Walk, Walked, Goto, CountInv, TypeOK, PageInv
    <2>3. CASE ~Linking /\ w \notin torn
      <3>1. PICK k \in Following(node[w]) : /\ node' = [node EXCEPT ![w] = k]
                                            /\ Goto(w, IF k = End THEN "header" ELSE "row")
        BY <2>3 DEF Walk
      <3>2. /\ k \in Clients \cup {End}
            /\ k /= End => k \in keys /\ k > node[w] /\ \A m \in keys : m > node[w] => k <= m
            /\ k = End => \A m \in keys : m <= node[w]
        BY <2>3, <3>1, <1>2, FollowingLeast
      <3>3. keys \subseteq Nat /\ before[w] \subseteq keys /\ Clients \subseteq Nat
        BY PagecountAssumption DEF CountInv, TypeOK, PageInv
      <3>4. /\ node'[w] = k /\ pc'[w] = (IF k = End THEN "header" ELSE "row")
            /\ client'[w] = client[w] /\ before'[w] = before[w]
            /\ page'[w] = Append(page[w], node[w])
        BY <1>1, <3>1 DEF PageInv, Goto, CountInv, TypeOK
      <3>5. /\ \A i, j \in DOMAIN page[w] : i < j => page[w][i] < page[w][j]
            /\ client[w] \in before[w] \/ Cardinality(before[w]) = Slab
            /\ \A i \in DOMAIN page[w] : page[w][i] < node[w]
            /\ \A m \in before[w] : m < node[w] => m \in RowsOf(w)
        BY <1>1, <2>3 DEF PageInv, Walked
      <3>6. LET t == page'[w]
            IN  /\ \A i, j \in DOMAIN t : i < j => t[i] < t[j]
                /\ \A i \in DOMAIN t : t[i] <= node[w]
                /\ {t[i] : i \in DOMAIN t} = RowsOf(w) \cup {node[w]}
        BY <1>2, <3>4, <3>5, AppendRow, SMTT(30) DEF RowsOf
      <3>7. RowsOf(w)' = RowsOf(w) \cup {node[w]}
        BY <3>6 DEF RowsOf
      <3>8. \A i \in DOMAIN page'[w] : page'[w][i] \in Clients
        BY <1>4, LenProperties, ElementOfSeq
      <3>9. k /= End => /\ \A i \in DOMAIN page'[w] : page'[w][i] < k
                        /\ \A m \in before[w] : m < k => m \in RowsOf(w)'
        <4> SUFFICES ASSUME k /= End PROVE /\ \A i \in DOMAIN page'[w] : page'[w][i] < k
                                           /\ \A m \in before[w] : m < k => m \in RowsOf(w)'
          OBVIOUS
        <4>1. k \in Nat /\ node[w] \in Nat /\ k > node[w]
          BY <1>2, <3>2, <3>3
        <4>2. ASSUME NEW i \in DOMAIN page'[w] PROVE page'[w][i] < k
          <5>1. page'[w][i] \in Nat /\ page'[w][i] <= node[w]
            BY <3>3, <3>6, <3>8
          <5> QED BY <4>1, <5>1
        <4>3. ASSUME NEW m \in before[w], m < k PROVE m \in RowsOf(w)'
          <5>1. m \in keys /\ m \in Nat
            BY <3>3
          <5>2. ~(m > node[w])
            BY <3>2, <4>1, <4>3, <5>1
          <5>3. m < node[w] \/ m = node[w]
            BY <4>1, <5>1, <5>2
          <5> QED BY <3>5, <3>7, <5>3
        <4> QED BY <4>2, <4>3
      <3>10. k = End => before[w] \subseteq RowsOf(w)'
        <4> SUFFICES ASSUME k = End, NEW m \in before[w] PROVE m \in RowsOf(w)'
          OBVIOUS
        <4>1. m \in keys /\ m \in Nat /\ node[w] \in Nat
          BY <1>2, <3>3
        <4>2. m < node[w] \/ m = node[w]
          BY <3>2, <4>1
        <4> QED BY <3>5, <3>7, <4>2
      <3> QED BY <3>2, <3>4, <3>5, <3>6, <3>9, <3>10 DEF Walked
    <2> QED BY <2>1, <2>2, <2>3
  <1>6. ASSUME NEW v \in Workers \ {w} PROVE Walked(v)'
    <2>1. /\ page'[v] = page[v] /\ before'[v] = before[v] /\ node'[v] = node[v]
          /\ pc'[v] = pc[v] /\ client'[v] = client[v]
          /\ v \in torn' <=> v \in torn
      BY <1>1 DEF Walk, Goto, PageInv, CountInv, TypeOK
    <2> QED BY <2>1 DEF Walked, RowsOf, PageInv
  <1> QED BY <1>4, <1>5, <1>6 DEF PageInv

LEMMA PageNext == CountInv /\ PageInv /\ [Next]_vars => PageInv'
  <1> SUFFICES ASSUME CountInv, PageInv, [Next]_vars PROVE PageInv'
    OBVIOUS
  <1>1. CASE UNCHANGED vars
    BY <1>1 DEF vars, shared, conf, work, PageInv, Walked, RowsOf
  <1>2. ASSUME NEW w \in Workers, Request(w) PROVE PageInv'
    <2>1. PICK l \in {"lock", "dead"} : Goto(w, l)
      BY <1>2 DEF Request
    <2> QED BY <1>2, <2>1, NotWalking DEF Request, shared, Labels, CountInv
  <1>3. ASSUME NEW w \in Workers, ngx_shmtx_lock(w) PROVE PageInv'
    BY <1>3, NotWalking DEF ngx_shmtx_lock, work, Labels
  <1>4. ASSUME NEW w \in Workers, ngx_http_pagecount_lookup(w) PROVE PageInv'
    <2>1. PICK l \in {"inc", "link", "unlock"} : Goto(w, l)
      BY <1>4 DEF ngx_http_pagecount_lookup
    <2> QED BY <1>4, <2>1, NotWalking DEF ngx_http_pagecount_lookup, shared, Labels
  <1>5. ASSUME NEW w \in Workers, Increment(w) PROVE PageInv'
    BY <1>5, NotWalking DEF Increment, work, Labels
  <1>6. ASSUME NEW w \in Workers, Linked(w) PROVE PageInv'
    BY <1>6, NotWalking DEF Linked, work, Labels
  <1>7. ASSUME NEW w \in Workers, ngx_shmtx_unlock(w) PROVE PageInv'
    BY <1>7, NotWalking DEF ngx_shmtx_unlock, work, Labels
  <1>8. ASSUME NEW w \in Workers, RowTooMany(w) PROVE PageInv'
    BY <1>8 DEF RowTooMany, shared, Goto, PageInv, Walked, RowsOf, CountInv, TypeOK
  <1>9. ASSUME NEW w \in Workers, SendPage(w) \/ Other(w) PROVE PageInv'
    <2>1. Goto(w, "body") /\ UNCHANGED <<keys, node, page, before, torn, client>>
      BY <1>9 DEF SendPage, Other, shared
    <2> QED BY <2>1, NotWalking DEF Labels
  <1>10. ASSUME NEW w \in Workers, ngx_http_output_filter(w) PROVE PageInv'
    <2>1. PICK l \in {"body", "sent"} : Goto(w, l)
      BY <1>10 DEF ngx_http_output_filter
    <2>2. UNCHANGED <<keys, node, page, before, torn, client>>
      BY <1>10 DEF ngx_http_output_filter, shared
    <2> QED BY <2>1, <2>2, NotWalking DEF Labels
  <1>11. ASSUME NEW w \in Workers, Finish(w) PROVE PageInv'
    BY <1>11, EmptySeq DEF Finish, Forget, shared, Goto, PageInv, Walked, RowsOf, CountInv, TypeOK, End
  <1>12. CASE Reload
    BY <1>12 DEF Reload, shared, work, PageInv, Walked, RowsOf
  <1> QED BY <1>1, <1>2, <1>3, <1>4, <1>5, <1>6, <1>7, <1>8, <1>9, <1>10, <1>11, <1>12,
             MinStep, RowStep
          DEF Next, Handler

\* A page walked through while no node was being linked is whole and in order
\* (ngx_http_pagecount_module.c:270-296).
THEOREM PagesAreWhole == Spec => []PageWhole
  <1>1. CountInv /\ PageInv => PageWhole
    BY DEF PageInv, PageWhole, Walked, RowsOf
  <1> QED BY <1>1, CountInit, CountNext, PageInit, PageNext, PTL DEF Spec

-----------------------------------------------------------------------------
(* Responses.                                                              *)

Html == Seq({"html"})

Resp == [status : {0, 200, 404}, html : BOOLEAN, length : Int, add_prefix : {-1, 0, 1, 2},
         announced : Int, sent : Seq({"prefix", "html"})]

Wanted(r, on) == on /\ r.status = 200 /\ r.html

\* The header of r has been sent, and of its body all but left: what has been
\* announced is what has been sent, what is left and a prefix still to come.
Underway(r, left, on) ==
    /\ Wanted(r, on) => r.add_prefix \in {1, 2}
    /\ ~Wanted(r, on) => r.add_prefix \in {-1, 0}
    /\ r.add_prefix = 1 => r.sent = <<>>
    /\ r.add_prefix = 2 => r.sent /= <<>>
    /\ \A i \in DOMAIN r.sent : r.sent[i] = "prefix" <=> (i = 1 /\ Wanted(r, on))
    /\ \/ r.announced = -1
       \/ r.announced = Len(r.sent) + Len(left) + (IF r.add_prefix = 1 THEN 1 ELSE 0)
       \/ r.announced = 0 /\ left = <<>> /\ Len(r.sent) = 0 /\ r.add_prefix = 1
       \/ r.announced = 0 /\ left = <<>> /\ Len(r.sent) = 1 /\ r.add_prefix = 2

RespInv ==
    /\ resp \in [Workers -> Resp]
    /\ rest \in [Workers -> Html]
    /\ wants \in [Workers -> BOOLEAN]
    /\ \A w \in Workers :
         /\ pc[w] \in {"body", "sent"} => Underway(resp[w], rest[w], wants[w])
         /\ pc[w] = "sent" => rest[w] = <<>> /\ resp[w].add_prefix /= 1

LEMMA ResponseType ==
    ASSUME NEW status \in {0, 200, 404}, NEW html \in BOOLEAN, NEW n \in Int
    PROVE  LET r == Response(status, html, n)
           IN  /\ r \in Resp
               /\ r.add_prefix = -1 /\ r.sent = <<>> /\ r.length = n
  BY EmptySeq DEF Response, Resp, NoCtx

\* The header of q, whose body is left, goes through the filter.
LEMMA HeaderFilter ==
    ASSUME NEW q \in Resp, q.add_prefix = -1, q.sent = <<>>, NEW on,
           NEW left \in Html, q.length = -1 \/ q.length = Len(left)
    PROVE  LET r == ngx_http_prefix_filter_header_filter(q, on)
           IN  r \in Resp /\ Underway(r, left, on)
  <1> DEFINE r == ngx_http_prefix_filter_header_filter(q, on)
             n == q.length
  <1> SUFFICES r \in Resp /\ Underway(r, left, on)
    OBVIOUS
  <1>1. n \in Int
    BY DEF Resp
  <1>2. Len(left) \in Nat /\ (Len(left) = 0 => left = <<>>) /\ Len(<<>>) = 0 /\ DOMAIN <<>> = {}
    BY LenProperties, EmptySeq DEF Html
  <1>3. CASE q.status /= 200 \/ ~on
    <2>1. r = [q EXCEPT !.announced = n]
      BY <1>3, Zenon DEF ngx_http_prefix_filter_header_filter, Announce
    <2> HIDE DEF r
    <2>2. /\ r \in Resp /\ r.add_prefix = -1 /\ r.sent = <<>> /\ r.announced = n
          /\ r.status = q.status
      BY <2>1 DEF Resp
    <2>3. ~Wanted(r, on)
      BY <1>3, <2>2, Zenon DEF Wanted
    <2> QED BY <1>2, <2>2, <2>3 DEF Underway
  <1>4. CASE q.status = 200 /\ on /\ ~q.html
    <2>1. r = [[q EXCEPT !.add_prefix = 0] EXCEPT !.announced = [q EXCEPT !.add_prefix = 0].length]
      BY <1>4, Zenon DEF ngx_http_prefix_filter_header_filter, Announce, NoCtx
    <2> HIDE DEF r
    <2>2. /\ r \in Resp /\ r.add_prefix = 0 /\ r.sent = <<>> /\ r.announced = n
          /\ r.html = q.html
      BY <2>1 DEF Resp
    <2>3. ~Wanted(r, on)
      BY <1>4, <2>2, Zenon DEF Wanted
    <2> QED BY <1>2, <2>2, <2>3 DEF Underway
  <1>5. CASE q.status = 200 /\ on /\ q.html
    <2> DEFINE p == [q EXCEPT !.add_prefix = 1, !.length = IF @ > 0 THEN @ + 1 ELSE @]
               m == IF n > 0 THEN n + 1 ELSE n
    <2>1. r = [p EXCEPT !.announced = p.length]
      BY <1>5, Zenon DEF ngx_http_prefix_filter_header_filter, Announce, NoCtx
    <2>2. m \in Int
      BY <1>1
    <2>3. p = [q EXCEPT !.add_prefix = 1, !.length = m]
      BY Zenon
    <2> HIDE DEF r, p, m
    <2>4. /\ p \in Resp /\ p.add_prefix = 1 /\ p.sent = <<>> /\ p.length = m
          /\ p.status = q.status /\ p.html = q.html
      BY <2>2, <2>3, ZenonT(60) DEF Resp
    <2>5. /\ r \in Resp /\ r.add_prefix = 1 /\ r.sent = <<>> /\ r.announced = m
          /\ r.status = p.status /\ r.html = p.html
      BY <2>1, <2>2, <2>4 DEF Resp
    <2>6. Wanted(r, on)
      BY <1>5, <2>4, <2>5, Zenon DEF Wanted
    <2>7. m = -1 \/ m = 0 + Len(left) + 1 \/ (m = 0 /\ left = <<>>)
      BY <1>1, <1>2 DEF m
    <2> QED BY <1>2, <2>5, <2>6, <2>7 DEF Underway
  <1> QED BY <1>3, <1>4, <1>5, Zenon

\* A part of the body goes through the filter.
LEMMA BodyFilter ==
    ASSUME NEW r \in Resp, NEW left \in Html, NEW on, Underway(r, left, on),
           NEW k \in 0..Len(left)
    PROVE  LET t == ngx_http_prefix_filter_body_filter(r, SubSeq(left, 1, k))
               u == SubSeq(left, k + 1, Len(left))
           IN  /\ t \in Resp /\ u \in Html
               /\ Underway(t, u, on)
               /\ t.add_prefix /= 1
               /\ k = Len(left) => u = <<>>
  <1> DEFINE part == SubSeq(left, 1, k)
             t == ngx_http_prefix_filter_body_filter(r, part)
             u == SubSeq(left, k + 1, Len(left))
             Piece == {"prefix", "html"}
             Goal == /\ t \in Resp /\ u \in Html
                     /\ Underway(t, u, on)
                     /\ t.add_prefix /= 1
                     /\ k = Len(left) => u = <<>>
  <1> SUFFICES Goal
    OBVIOUS
  <1>1. Len(left) \in Nat /\ \A i \in 1..Len(left) : left[i] = "html"
    BY LenProperties, ElementOfSeq DEF Html
  <1>2. /\ part \in Html /\ Len(part) = k
        /\ u \in Html /\ Len(u) = Len(left) - k
    <2>1. \A i \in 1..k : left[i] \in {"html"}
      BY <1>1
    <2>2. \A i \in (k + 1)..Len(left) : left[i] \in {"html"}
      BY <1>1
    <2>3. part \in Html /\ Len(part) = IF 1 <= k THEN k - 1 + 1 ELSE 0
      BY <1>1, <2>1, SubSeqProperties DEF Html
    <2>4. u \in Html /\ Len(u) = IF k + 1 <= Len(left) THEN Len(left) - (k + 1) + 1 ELSE 0
      BY <1>1, <2>2, SubSeqProperties DEF Html
    <2> QED BY <1>1, <2>3, <2>4
  <1>3. \A i \in 1..k : part[i] = "html"
    BY <1>2, ElementOfSeq DEF Html
  <1>4. part \in Seq(Piece)
    BY <1>2, SeqMonotonic DEF Html
  <1>5. r.sent \in Seq(Piece) /\ DOMAIN r.sent = 1..Len(r.sent) /\ Len(r.sent) \in Nat
    BY LenProperties DEF Resp
  <1>6. k = Len(left) => u = <<>>
    BY <1>2, EmptySeq DEF Html
  <1>7. left = <<>> => k = 0 /\ u = <<>>
    BY <1>6
  <1> HIDE DEF part, u
  <1>8. CASE r.add_prefix /= 1
    <2> DEFINE s == r.sent \o part
    <2>1. /\ s \in Seq(Piece) /\ Len(s) = Len(r.sent) + k
          /\ DOMAIN s = 1..(Len(r.sent) + k)
          /\ \A i \in 1..Len(r.sent) : s[i] = r.sent[i]
          /\ \A i \in (Len(r.sent) + 1)..(Len(r.sent) + k) : s[i] = "html"
      <3>1. /\ s \in Seq(Piece) /\ Len(s) = Len(r.sent) + k
            /\ \A i \in 1..(Len(r.sent) + k) :
                 s[i] = IF i <= Len(r.sent) THEN r.sent[i] ELSE part[i - Len(r.sent)]
        BY <1>2, <1>4, <1>5, ConcatProperties, Zenon
      <3>2. DOMAIN s = 1..(Len(r.sent) + k)
        BY <3>1, LenProperties
      <3> HIDE DEF s
      <3>3. ASSUME NEW i \in (Len(r.sent) + 1)..(Len(r.sent) + k) PROVE s[i] = "html"
        <4>1. i \in 1..(Len(r.sent) + k) /\ ~(i <= Len(r.sent)) /\ i - Len(r.sent) \in 1..k
          BY <1>1, <1>5
        <4> QED BY <1>3, <3>1, <4>1, Zenon
      <3>4. ASSUME NEW i \in 1..Len(r.sent) PROVE s[i] = r.sent[i]
        BY <1>1, <1>5, <3>1
      <3> QED BY <3>1, <3>2, <3>3, <3>4
    <2> HIDE DEF s
    <2>2. t = [r EXCEPT !.sent = s]
      BY <1>8 DEF ngx_http_prefix_filter_body_filter, s
    <2> HIDE DEF t
    <2>3. /\ t \in Resp /\ t.sent = s /\ t.add_prefix = r.add_prefix /\ t.announced = r.announced
          /\ t.status = r.status /\ t.html = r.html
      BY <2>1, <2>2, ZenonT(60) DEF Resp
    <2>4. Wanted(t, on) = Wanted(r, on)
      BY <2>3 DEF Wanted
    <2>5. /\ Wanted(r, on) => r.add_prefix = 2
          /\ ~Wanted(r, on) => r.add_prefix \in {-1, 0}
          /\ r.add_prefix = 2 => Len(r.sent) > 0
      BY <1>5, <1>8, EmptySeq DEF Underway
    <2>6. \A i \in DOMAIN s : s[i] = "prefix" <=> (i = 1 /\ Wanted(r, on))
      <3> SUFFICES ASSUME NEW i \in DOMAIN s PROVE s[i] = "prefix" <=> (i = 1 /\ Wanted(r, on))
        OBVIOUS
      <3>1. CASE i \in 1..Len(r.sent)
        BY <1>5, <2>1, <3>1 DEF Underway
      <3>2. CASE i \in (Len(r.sent) + 1)..(Len(r.sent) + k)
        <4>1. s[i] = "html"
          BY <2>1, <3>2
        <4>2. i = 1 => ~Wanted(r, on)
          BY <1>5, <2>5, <3>2
        <4> QED BY <4>1, <4>2
      <3> QED BY <1>5, <2>1, <3>1, <3>2
    <2>7. \/ r.announced = -1
          \/ r.announced = Len(s) + Len(u)
          \/ r.announced = 0 /\ u = <<>> /\ Len(s) = 1 /\ r.add_prefix = 2
      <3>1. /\ Len(u) = Len(left) - k /\ Len(s) = Len(r.sent) + k
            /\ left = <<>> => k = 0 /\ u = <<>>
            /\ Len(r.sent) \in Nat /\ Len(left) \in Nat
        BY <1>1, <1>2, <1>5, <1>7, <2>1
      <3>2. \/ r.announced = -1
            \/ r.announced = Len(r.sent) + Len(left)
            \/ r.announced = 0 /\ left = <<>> /\ Len(r.sent) = 1 /\ r.add_prefix = 2
        BY <1>1, <1>5, <1>8 DEF Underway
      <3>3. Len(r.sent) + Len(left) = Len(s) + Len(u)
        BY <3>1
      <3>4. left = <<>> /\ Len(r.sent) = 1 => u = <<>> /\ Len(s) = 1
        BY <3>1
      <3> QED BY <3>2, <3>3, <3>4
    <2>8. r.add_prefix = 2 => s /= <<>>
      BY <1>5, <2>1, <2>5, EmptySeq
    <2> QED BY <1>2, <1>6, <1>8, <2>3, <2>4, <2>5, <2>6, <2>7, <2>8 DEF Underway
  <1>9. CASE r.add_prefix = 1
    <2> DEFINE s == <<"prefix">> \o part
    <2>1. /\ s \in Seq(Piece) /\ Len(s) = k + 1
          /\ DOMAIN s = 1..(k + 1) /\ s[1] = "prefix"
          /\ \A i \in 2..(k + 1) : s[i] = "html"
      <3>1. <<"prefix">> \in Seq(Piece) /\ Len(<<"prefix">>) = 1 /\ <<"prefix">>[1] = "prefix"
        OBVIOUS
      <3>2. /\ s \in Seq(Piece) /\ Len(s) = 1 + k
            /\ \A i \in 1..(1 + k) : s[i] = IF i <= 1 THEN <<"prefix">>[i] ELSE part[i - 1]
        BY <1>2, <1>4, <3>1, ConcatProperties
      <3>3. DOMAIN s = 1..Len(s)
        BY <3>2, LenProperties
      <3> HIDE DEF s
      <3>4. ASSUME NEW i \in 2..(k + 1) PROVE s[i] = "html"
        <4>1. i \in 1..(1 + k) /\ ~(i <= 1) /\ i - 1 \in 1..k
          BY <1>1
        <4> QED BY <1>3, <3>2, <4>1, Zenon
      <3>5. s[1] = "prefix"
        BY <1>1, <3>1, <3>2
      <3> QED BY <1>1, <3>2, <3>3, <3>4, <3>5
    <2>2. t = [r EXCEPT !.add_prefix = 2, !.sent = s]
      <3>1. r.sent = <<>> /\ <<>> \o <<"prefix">> = <<"prefix">>
        BY <1>9 DEF Underway
      <3> QED BY <1>9, <3>1 DEF ngx_http_prefix_filter_body_filter
    <2> HIDE DEF s, t
    <2>3. /\ t \in Resp /\ t.sent = s /\ t.add_prefix = 2 /\ t.announced = r.announced
          /\ t.status = r.status /\ t.html = r.html
      BY <2>1, <2>2, ZenonT(60) DEF Resp
    <2>4. Wanted(t, on)
      BY <1>9, <2>3 DEF Wanted, Underway
    <2>5. \A i \in DOMAIN s : s[i] = "prefix" <=> i = 1
      BY <1>1, <2>1
    <2>6. \/ r.announced = -1
          \/ r.announced = Len(s) + Len(u)
          \/ r.announced = 0 /\ u = <<>> /\ Len(s) = 1
      <3>1. Len(r.sent) = 0
        BY <1>9, EmptySeq DEF Underway
      <3> QED BY <1>1, <1>2, <1>7, <1>9, <2>1, <3>1 DEF Underway
    <2>7. s /= <<>>
      BY <1>1, <2>1, EmptySeq
    <2> QED BY <1>2, <1>6, <2>3, <2>4, <2>5, <2>6, <2>7 DEF Underway
  <1> QED BY <1>8, <1>9

LEMMA RespInit == Init => RespInv
  <1> SUFFICES ASSUME Init PROVE RespInv
    OBVIOUS
  <1>1. NoResponse \in Resp /\ <<>> \in Html
    BY EmptySeq DEF NoResponse, Response, Resp, NoCtx, Html
  <1> QED BY <1>1 DEF Init, RespInv

\* Of what the workers' requests ask for, only w's may change.
OnlyAsked(w) == /\ wants' \in [Workers -> BOOLEAN]
                /\ \A v \in Workers \ {w} : wants'[v] = wants[v]

LEMMA Asked ==
    ASSUME RespInv, NEW w \in Workers,
           wants' = wants \/ \E x, S : wants' = [wants EXCEPT ![w] = x \in S]
    PROVE  OnlyAsked(w)
  <1>1. wants \in [Workers -> BOOLEAN]
    BY DEF RespInv
  <1>2. CASE wants' = wants
    BY <1>1, <1>2 DEF OnlyAsked
  <1>3. ASSUME NEW x, NEW S, wants' = [wants EXCEPT ![w] = x \in S] PROVE OnlyAsked(w)
    <2>1. (x \in S) \in BOOLEAN
      OBVIOUS
    <2> QED BY <1>1, <1>3, <2>1 DEF OnlyAsked
  <1> QED BY <1>2, <1>3

\* Of the workers' responses, only w's may change.
LEMMA OnlyOne ==
    ASSUME CountInv, RespInv, NEW w \in Workers, NEW l \in Labels, Goto(w, l), OnlyAsked(w),
           NEW r \in Resp, NEW left \in Html,
           resp' = [resp EXCEPT ![w] = r], rest' = [rest EXCEPT ![w] = left],
           l \in {"body", "sent"} => Underway(r, left, wants'[w]),
           l = "sent" => left = <<>> /\ r.add_prefix /= 1
    PROVE  RespInv'
  <1>1. /\ pc'[w] = l /\ resp'[w] = r /\ rest'[w] = left
        /\ \A v \in Workers \ {w} : /\ pc'[v] = pc[v] /\ resp'[v] = resp[v]
                                    /\ rest'[v] = rest[v]
    BY DEF Goto, RespInv, CountInv, TypeOK
  <1> QED BY <1>1 DEF RespInv, OnlyAsked

\* A step of w that does not answer.
LEMMA NotAnswering ==
    ASSUME CountInv, RespInv, NEW w \in Workers, NEW l \in Labels \ {"body", "sent"}, Goto(w, l),
           UNCHANGED <<resp, rest>>, OnlyAsked(w)
    PROVE  RespInv'
  <1>1. resp' = [resp EXCEPT ![w] = resp[w]] /\ rest' = [rest EXCEPT ![w] = rest[w]]
    BY DEF RespInv
  <1>2. resp[w] \in Resp /\ rest[w] \in Html
    BY DEF RespInv
  <1> QED BY <1>1, <1>2, OnlyOne

LEMMA RespNext == CountInv /\ RespInv /\ [Next]_vars => RespInv'
  <1> SUFFICES ASSUME CountInv, RespInv, [Next]_vars PROVE RespInv'
    OBVIOUS
  <1>1. CASE UNCHANGED vars
    BY <1>1 DEF vars, shared, conf, work, RespInv
  <1>2. ASSUME NEW w \in Workers, Request(w) PROVE RespInv'
    <2>1. PICK loc \in Locations : /\ wants' = [wants EXCEPT ![w] = loc \in enable]
                                   /\ Goto(w, IF loc = zone THEN "lock" ELSE "dead")
                                   /\ UNCHANGED <<resp, rest>>
      BY <1>2, Zenon DEF Request
    <2>2. OnlyAsked(w)
      BY <2>1, Asked
    <2>3. (IF loc = zone THEN "lock" ELSE "dead") \in Labels \ {"body", "sent"}
      BY DEF Labels
    <2> QED BY <2>1, <2>2, <2>3, NotAnswering
  <1>3. ASSUME NEW w \in Workers,
               \/ ngx_shmtx_lock(w) \/ ngx_http_pagecount_lookup(w) \/ Increment(w) \/ Linked(w)
               \/ ngx_shmtx_unlock(w) \/ ngx_rbtree_min(w) \/ Row(w) \/ RowTooMany(w)
        PROVE  RespInv'
    <2>1. PICK l \in {"lookup", "inc", "link", "unlock", "min", "row", "header", "dead"} : Goto(w, l)
      BY <1>3 DEF ngx_shmtx_lock, ngx_http_pagecount_lookup, Increment, Linked,
                  ngx_shmtx_unlock, ngx_rbtree_min, Row, RowTooMany, Walk
    <2>2. UNCHANGED <<resp, rest, wants>>
      BY <1>3 DEF ngx_shmtx_lock, ngx_http_pagecount_lookup, Increment, Linked,
                  ngx_shmtx_unlock, ngx_rbtree_min, Row, RowTooMany, work
    <2>3. OnlyAsked(w)
      BY <2>2, Asked
    <2> QED BY <2>1, <2>2, <2>3, NotAnswering DEF Labels
  <1>4. ASSUME NEW w \in Workers, SendPage(w) PROVE RespInv'
    <2> DEFINE r == ngx_http_prefix_filter_header_filter(Response(200, TRUE, -1), wants[w])
    <2>1. <<"html">> \in Html
      BY DEF Html
    <2>2. r \in Resp /\ Underway(r, <<"html">>, wants[w])
      <3> DEFINE q == Response(200, TRUE, -1)
      <3>1. q \in Resp /\ q.add_prefix = -1 /\ q.sent = <<>> /\ q.length = -1
        BY EmptySeq DEF Response, Resp, NoCtx
      <3> HIDE DEF q
      <3>2. r \in Resp /\ Underway(r, <<"html">>, wants[w])
        BY <2>1, <3>1, HeaderFilter, Zenon DEF q
      <3> QED BY <3>2
    <2>3. OnlyAsked(w) /\ wants' = wants
      BY <1>4, Asked DEF SendPage
    <2>4. /\ resp' = [resp EXCEPT ![w] = r] /\ rest' = [rest EXCEPT ![w] = <<"html">>]
          /\ Goto(w, "body")
      BY <1>4 DEF SendPage
    <2> HIDE DEF r
    <2> QED BY <2>1, <2>2, <2>3, <2>4, OnlyOne DEF Labels
  <1>5. ASSUME NEW w \in Workers, Other(w) PROVE RespInv'
    <2>1. PICK status \in {200, 404}, html \in BOOLEAN, n \in 0..2, l \in Locations :
            /\ wants' = [wants EXCEPT ![w] = l \in enable]
            /\ resp' = [resp EXCEPT ![w] = ngx_http_prefix_filter_header_filter(
                                               Response(status, html, n), l \in enable)]
            /\ rest' = [rest EXCEPT ![w] = [i \in 1..n |-> "html"]]
      BY <1>5 DEF Other
    <2>2. OnlyAsked(w)
      BY <2>1, Asked
    <2>3. wants'[w] = (l \in enable)
      BY <2>1 DEF RespInv
    <2> DEFINE left == [i \in 1..n |-> "html"]
               q == Response(status, html, n)
               asks == wants'[w]
               r == ngx_http_prefix_filter_header_filter(q, asks)
    <2>4. left \in Html /\ Len(left) = n
      BY DEF Html
    <2>5. q \in Resp /\ q.add_prefix = -1 /\ q.sent = <<>> /\ q.length = n
      BY ResponseType
    <2>6. resp' = [resp EXCEPT ![w] = r] /\ rest' = [rest EXCEPT ![w] = left] /\ Goto(w, "body")
      BY <1>5, <2>1, <2>3 DEF Other
    <2> HIDE DEF left, q, asks
    <2>7. r \in Resp /\ Underway(r, left, asks)
      BY <2>4, <2>5, HeaderFilter, Zenon
    <2> HIDE DEF r
    <2> QED BY <2>2, <2>4, <2>6, <2>7, OnlyOne DEF Labels, asks
  <1>6. ASSUME NEW w \in Workers, ngx_http_output_filter(w) PROVE RespInv'
    <2>1. /\ pc[w] = "body" /\ resp[w] \in Resp /\ rest[w] \in Html
          /\ Underway(resp[w], rest[w], wants[w])
      BY <1>6 DEF ngx_http_output_filter, RespInv
    <2>2. PICK k \in 0..Len(rest[w]) :
            /\ resp' = [resp EXCEPT ![w] =
                  ngx_http_prefix_filter_body_filter(@, SubSeq(rest[w], 1, k))]
            /\ rest' = [rest EXCEPT ![w] = SubSeq(@, k + 1, Len(@))]
            /\ Goto(w, IF k = Len(rest[w]) THEN "sent" ELSE "body")
      BY <1>6 DEF ngx_http_output_filter
    <2> DEFINE t == ngx_http_prefix_filter_body_filter(resp[w], SubSeq(rest[w], 1, k))
               u == SubSeq(rest[w], k + 1, Len(rest[w]))
               l == IF k = Len(rest[w]) THEN "sent" ELSE "body"
    <2>3. /\ t \in Resp /\ u \in Html
          /\ Underway(t, u, wants[w])
          /\ t.add_prefix /= 1
          /\ k = Len(rest[w]) => u = <<>>
      BY <2>1, BodyFilter, Zenon
    <2>4. OnlyAsked(w) /\ wants' = wants
      BY <1>6, Asked DEF ngx_http_output_filter
    <2>5. resp' = [resp EXCEPT ![w] = t] /\ rest' = [rest EXCEPT ![w] = u] /\ Goto(w, l)
      BY <2>2
    <2>6. l \in Labels /\ (l = "sent" => u = <<>>)
      BY <2>3 DEF Labels
    <2> HIDE DEF t, u, l
    <2> QED BY <2>3, <2>4, <2>5, <2>6, OnlyOne
  <1>7. ASSUME NEW w \in Workers, Finish(w) PROVE RespInv'
    <2>1. NoResponse \in Resp /\ <<>> \in Html
      BY EmptySeq DEF NoResponse, Response, Resp, NoCtx, Html
    <2>2. wants' = [wants EXCEPT ![w] = FALSE] /\ wants \in [Workers -> BOOLEAN]
      BY <1>7 DEF Finish, Forget, RespInv
    <2>3. OnlyAsked(w)
      BY <2>2 DEF OnlyAsked
    <2> QED BY <1>7, <2>1, <2>3, OnlyOne DEF Finish, Forget, Labels
  <1>8. CASE Reload
    BY <1>8 DEF Reload, work, RespInv
  <1> QED BY <1>1, <1>2, <1>3, <1>4, <1>5, <1>6, <1>7, <1>8 DEF Next, Handler

\* The prefix stands where it should and only there, in however many parts a body
\* goes through the filter (ngx_http_prefix_filter_module.c:103-166).
THEOREM PrefixesInPlace == Spec => []PrefixInPlace
  <1>1. RespInv => PrefixInPlace
    <2> SUFFICES ASSUME RespInv, NEW w \in Workers, pc[w] = "sent"
                 PROVE  PrefixedOnce(resp[w], wants[w])
      BY DEF PrefixInPlace
    <2>1. Underway(resp[w], rest[w], wants[w]) /\ resp[w].add_prefix /= 1
      BY DEF RespInv
    <2> QED BY <2>1 DEF Underway, PrefixedOnce, Wanted
  <1> QED BY <1>1, CountInit, CountNext, RespInit, RespNext, PTL DEF Spec

\* A body is as long as its header said (ngx_http_prefix_filter_module.c:138-140).
THEOREM LengthsKept == Spec => []LengthKept
  <1>1. RespInv => LengthKept
    <2> SUFFICES ASSUME RespInv, NEW w \in Workers, pc[w] = "sent"
                 PROVE  AsLongAsAnnounced(resp[w])
      BY DEF LengthKept
    <2>1. /\ Underway(resp[w], rest[w], wants[w])
          /\ resp[w].add_prefix /= 1 /\ rest[w] = <<>> /\ resp[w] \in Resp
      BY DEF RespInv
    <2>2. resp[w].sent \in Seq({"prefix", "html"}) /\ Len(resp[w].sent) \in Nat
      BY <2>1, LenProperties DEF Resp
    <2>3. Len(rest[w]) = 0
      BY <2>1, EmptySeq
    <2>4. CASE Len(resp[w].sent) = 1 /\ resp[w].add_prefix = 2
      <3>1. resp[w].sent[1] = "prefix"
        BY <2>1, <2>2, <2>4, LenProperties DEF Underway
      <3>2. resp[w].sent = <<"prefix">>
        BY <2>2, <2>4, <3>1, SeqEqual
      <3> QED BY <2>1, <2>2, <2>3, <2>4, <3>2 DEF Underway, AsLongAsAnnounced
    <2>5. CASE ~(Len(resp[w].sent) = 1 /\ resp[w].add_prefix = 2)
      BY <2>1, <2>2, <2>3, <2>5 DEF Underway, AsLongAsAnnounced
    <2> QED BY <2>4, <2>5
  <1> QED BY <1>1, CountInit, CountNext, RespInit, RespNext, PTL DEF Spec
=============================================================================
