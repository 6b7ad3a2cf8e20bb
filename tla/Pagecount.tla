------------------------------ MODULE Pagecount ------------------------------
(***************************************************************************)
(* ngx_http_pagecount_module.c in several worker processes: a tree in      *)
(* shared memory counts requests by client address, under a mutex; the     *)
(* page that lists them is rendered outside it.  Responses, also those of  *)
(* other handlers, pass through the prefix filter.                         *)
(*                                                                         *)
(* Addresses are numbers.  The tree is the set of its keys in order (see   *)
(* RBTree); while a node is being linked into it, a walk by another worker *)
(* may find anything.                                                      *)
(***************************************************************************)
EXTENDS PrefixFilter, FiniteSets

CONSTANTS Workers,
          Clients,    \* addresses: numbers
          Locations,  \* those that say "count" in the configuration
          W,          \* values of node->data: 256 in the code
          Slab,       \* nodes the slab holds
          Rows,       \* how many rows may fit html[1024], with their lengths
          Requests    \* bound: requests counted

ASSUME PagecountAssumption == /\ Clients \subseteq Nat \ {0}
                              /\ W \in Nat \ {0, 1} /\ Slab \in Nat \ {0} /\ Rows \subseteq Nat
                              /\ "none" \notin Workers

VARIABLES
    keys,       \* the keys in conf->sh->rbtree
    data,       \* node->data, by key
    mutex,      \* the worker that holds shpool->mutex, or "none"
    \* of the latest configuration
    zone,       \* shm_zone->data: the location whose conf has sh and shpool set
    enable,     \* the locations with add_prefix on
    \* of each worker
    pc,         \* "idle", then "lock", "lookup", "inc", "link", "unlock", "min",
                \* "row", "header", "body", "sent"; or "dead"
    client,     \* the request's address
    wants,      \* add_prefix of its location, in its worker's configuration
    reg,        \* node->data as loaded by data++
    node,       \* ngx_encode_http_page_rb's node
    page,       \* the rows of html
    resp,       \* the response
    rest,       \* what of its body is still to come
    \* history
    counted,    \* requests counted, by client
    before,     \* of each worker, the keys in the tree when its walk began
    torn        \* workers that walked while a node was linked, or overran html

shared == <<keys, data, mutex, counted>>
conf   == <<zone, enable>>
work   == <<client, wants, reg, node, page, resp, rest, before, torn>>
vars   == <<shared, conf, pc, work>>

NoResponse == Response(0, FALSE, 0)

\* ngx_http_pagecount_set runs for each location, but they share one zone, whose
\* data is the last one's conf: ngx_http_pagecount_shm_init fills only that.
Init == /\ keys = {} /\ data = [c \in Clients |-> 0] /\ mutex = "none"
        /\ zone \in Locations /\ enable \in SUBSET Locations
        /\ pc = [w \in Workers |-> "idle"]
        /\ client = [w \in Workers |-> 0] /\ wants = [w \in Workers |-> FALSE]
        /\ reg = [w \in Workers |-> 0] /\ node = [w \in Workers |-> 0]
        /\ page = [w \in Workers |-> <<>>]
        /\ resp = [w \in Workers |-> NoResponse] /\ rest = [w \in Workers |-> <<>>]
        /\ counted = [c \in Clients |-> 0]
        /\ before = [w \in Workers |-> {}] /\ torn = {}

Goto(w, label) == pc' = [pc EXCEPT ![w] = label]

\* A node is being linked: pointers are half set, some not initialised.
Linking == \E w \in Workers : pc[w] = "link"
-----------------------------------------------------------------------------
(* ngx_http_pagecount_handler: count. *)

\* In a location whose conf was never filled, shpool is what ngx_palloc left.
Request(w) ==
    /\ pc[w] = "idle"
    /\ \E c \in Clients, l \in Locations :
         /\ client' = [client EXCEPT ![w] = c]
         /\ wants' = [wants EXCEPT ![w] = l \in enable]
         /\ Goto(w, IF l = zone THEN "lock" ELSE "dead")
    /\ UNCHANGED <<shared, conf, reg, node, page, resp, rest, before, torn>>

Counts == LET sum[S \in SUBSET Clients] ==
                  IF S = {} THEN 0
                  ELSE LET c == CHOOSE x \in S : TRUE IN counted[c] + sum[S \ {c}]
          IN  sum[Clients]

\* Mutant: the mutex is not waited for.
NoMutex(w) ==
    /\ pc[w] = "lock"
    /\ Counts < Requests
    /\ mutex' = w
    /\ Goto(w, "lookup")
    /\ UNCHANGED <<keys, data, counted, conf, work>>

ngx_shmtx_lock(w) ==
    /\ pc[w] = "lock"
    /\ mutex = "none"
    /\ Counts < Requests
    /\ mutex' = w
    /\ Goto(w, "lookup")
    /\ UNCHANGED <<keys, data, counted, conf, work>>

\* The key is found, or a node is allocated for it; if that fails the handler
\* goes on all the same.
ngx_http_pagecount_lookup(w) ==
    /\ pc[w] = "lookup"
    /\ reg' = [reg EXCEPT ![w] = data[client[w]]]
    /\ Goto(w, IF client[w] \in keys THEN "inc"
               ELSE IF Cardinality(keys) < Slab THEN "link" ELSE "unlock")
    /\ UNCHANGED <<shared, conf, client, wants, node, page, resp, rest, before, torn>>

\* node->data ++
Increment(w) ==
    /\ pc[w] = "inc"
    /\ data' = [data EXCEPT ![client[w]] = (reg[w] + 1) % W]
    /\ counted' = [counted EXCEPT ![client[w]] = @ + 1]
    /\ Goto(w, "unlock")
    /\ UNCHANGED <<keys, mutex, conf, work>>

\* ngx_rbtree_insert has returned.
Linked(w) ==
    /\ pc[w] = "link"
    /\ keys' = keys \cup {client[w]}
    /\ data' = [data EXCEPT ![client[w]] = 1]
    /\ counted' = [counted EXCEPT ![client[w]] = @ + 1]
    /\ Goto(w, "unlock")
    /\ UNCHANGED <<mutex, conf, work>>

\* Mutant: leaves without the unlock.
NoUnlock(w) ==
    /\ pc[w] = "unlock"
    /\ Goto(w, "min")
    /\ UNCHANGED <<shared, conf, work>>

ngx_shmtx_unlock(w) ==
    /\ pc[w] = "unlock"
    /\ mutex' = "none"
    /\ Goto(w, "min")
    /\ UNCHANGED <<keys, data, counted, conf, work>>
-----------------------------------------------------------------------------
(* ngx_encode_http_page_rb: one step for each node of the walk. *)

End == 0

\* Mutant: does not go down to the least node of the right subtree.
Rightmost(n) ==
    LET more == {k \in keys : k > n}
    IN  IF Linking THEN keys \cup {End}
        ELSE IF more = {} THEN {End}
        ELSE {k \in more : \A m \in more : k >= m}

\* The nodes a walk may meet next, having met those up to n: while a node is
\* linked, any of them.
Following(n) ==
    LET more == {k \in keys : k > n}
    IN  IF Linking THEN keys \cup {End}
        ELSE IF more = {} THEN {End}
        ELSE {k \in more : \A m \in more : k <= m}

\* The walk goes on from n, or ends in a bad pointer; an overrun of html also
\* ends the process, or is not noticed.
Walk(w, n) ==
    \/ /\ \E k \in Following(n) :
            /\ node' = [node EXCEPT ![w] = k]
            /\ Goto(w, IF k = End THEN "header" ELSE "row")
       /\ torn' = IF Linking THEN torn \cup {w} ELSE torn
    \/ /\ Linking
       /\ Goto(w, "dead") /\ UNCHANGED <<node, torn>>

ngx_rbtree_min(w) ==
    /\ pc[w] = "min"
    /\ Walk(w, 0)
    /\ page' = [page EXCEPT ![w] = <<>>]
    /\ before' = [before EXCEPT ![w] = keys]
    /\ UNCHANGED <<shared, conf, client, wants, reg, resp, rest>>

Row(w) ==
    /\ pc[w] = "row"
    /\ \E n \in Rows : Len(page[w]) < n
    /\ page' = [page EXCEPT ![w] = Append(@, node[w])]
    /\ Walk(w, node[w])
    /\ UNCHANGED <<shared, conf, client, wants, reg, resp, rest, before>>

\* strcat runs over the end of html: the stack is damaged.
RowTooMany(w) ==
    /\ pc[w] = "row"
    /\ \E n \in Rows : Len(page[w]) >= n
    /\ torn' = torn \cup {w}
    /\ \/ Goto(w, "dead")
       \/ Goto(w, "header")
    /\ UNCHANGED <<shared, conf, client, wants, reg, node, page, resp, rest, before>>
-----------------------------------------------------------------------------
(* Responses. *)

\* ngx_http_send_header, of a page without a length.
SendPage(w) ==
    /\ pc[w] = "header"
    /\ resp' = [resp EXCEPT ![w] = ngx_http_prefix_filter_header_filter(
                                       Response(200, TRUE, -1), wants[w])]
    /\ rest' = [rest EXCEPT ![w] = <<"html">>]
    /\ Goto(w, "body")
    /\ UNCHANGED <<shared, conf, client, wants, reg, node, page, before, torn>>

\* Another handler answers, with a body whose length it knows.
Other(w) ==
    /\ pc[w] = "idle"
    /\ \E status \in {200, 404}, html \in BOOLEAN, n \in 0..2, l \in Locations :
         /\ wants' = [wants EXCEPT ![w] = l \in enable]
         /\ resp' = [resp EXCEPT ![w] = ngx_http_prefix_filter_header_filter(
                                            Response(status, html, n), l \in enable)]
         /\ rest' = [rest EXCEPT ![w] = [i \in 1..n |-> "html"]]
    /\ Goto(w, "body")
    /\ UNCHANGED <<shared, conf, client, reg, node, page, before, torn>>

\* ngx_http_output_filter, of the next part of a body or of an empty one.
ngx_http_output_filter(w) ==
    /\ pc[w] = "body"
    /\ \E k \in 0..Len(rest[w]) :
         /\ k = 0 => rest[w] = <<>>
         /\ resp' = [resp EXCEPT ![w] =
                ngx_http_prefix_filter_body_filter(@, SubSeq(rest[w], 1, k))]
         /\ rest' = [rest EXCEPT ![w] = SubSeq(@, k + 1, Len(@))]
         /\ Goto(w, IF k = Len(rest[w]) THEN "sent" ELSE "body")
    /\ UNCHANGED <<shared, conf, client, wants, reg, node, page, before, torn>>

Forget(w) == /\ client' = [client EXCEPT ![w] = 0] /\ wants' = [wants EXCEPT ![w] = FALSE]
             /\ reg' = [reg EXCEPT ![w] = 0] /\ node' = [node EXCEPT ![w] = 0]
             /\ page' = [page EXCEPT ![w] = <<>>]
             /\ resp' = [resp EXCEPT ![w] = NoResponse] /\ rest' = [rest EXCEPT ![w] = <<>>]
             /\ before' = [before EXCEPT ![w] = {}] /\ torn' = torn \ {w}

\* The request is over, or the master starts a new worker for one that died.
Finish(w) ==
    /\ pc[w] \in {"sent", "dead"}
    /\ Goto(w, "idle")
    /\ Forget(w)
    /\ UNCHANGED <<shared, conf>>

\* A new configuration: the new conf takes over sh and shpool, so the tree
\* survives.  A worker at a request goes on with the configuration it was started
\* with, among the new ones, and a new worker takes its place when it is done; the
\* others are replaced at once, so none of the old takes another request.
Reload ==
    /\ zone' \in Locations /\ enable' \in SUBSET Locations
    /\ UNCHANGED <<shared, pc, work>>
-----------------------------------------------------------------------------
Handler(w) == \/ Request(w) \/ ngx_shmtx_lock(w) \/ ngx_http_pagecount_lookup(w)
              \/ Increment(w) \/ Linked(w) \/ ngx_shmtx_unlock(w)
              \/ ngx_rbtree_min(w) \/ Row(w) \/ RowTooMany(w) \/ SendPage(w)

Next == \/ \E w \in Workers : Handler(w) \/ Other(w) \/ ngx_http_output_filter(w) \/ Finish(w)
        \/ Reload

Spec == Init /\ [][Next]_vars
-----------------------------------------------------------------------------
(* Properties. *)

Labels == {"idle", "lock", "lookup", "inc", "link", "unlock", "min", "row", "header",
           "body", "sent", "dead"}

TypeOK == /\ keys \subseteq Clients /\ Cardinality(keys) <= Slab
          /\ data \in [Clients -> 0..(W - 1)]
          /\ mutex \in Workers \cup {"none"}
          /\ pc \in [Workers -> Labels]
          /\ \A w \in Workers : mutex = w <=> pc[w] \in {"lookup", "inc", "link", "unlock"}

\* No request is counted twice or lost, whichever workers meet at the mutex: a
\* client's counter is the number of its requests, as far as a byte can hold it
\* (ngx_http_pagecount_module.c:243, 258-261, 317-319).
CountsRight == \A c \in Clients : data[c] = counted[c] % W

\* A page that was walked through while no node was being linked has a row for
\* each client counted before, in the order of their addresses, and none twice,
\* although others may have counted meanwhile (ngx_http_pagecount_module.c:270-296).
PageWhole ==
    \A w \in Workers : (pc[w] = "header" /\ w \notin torn) =>
        /\ before[w] \subseteq {page[w][i] : i \in DOMAIN page[w]}
        /\ \A i, j \in DOMAIN page[w] : i < j => page[w][i] < page[w][j]
        /\ client[w] \in before[w] \/ Cardinality(before[w]) = Slab

\* Every page of HTML, and no other response, begins with the prefix its location
\* asked for when the request came, in however many parts it was sent
\* (ngx_http_prefix_filter_module.c:103-166).
PrefixInPlace == \A w \in Workers : pc[w] = "sent" => PrefixedOnce(resp[w], wants[w])

\* What the header announced is what the body filter lets through, but for an
\* empty page (ngx_http_prefix_filter_module.c:138-140).
LengthKept == \A w \in Workers : pc[w] = "sent" => AsLongAsAnnounced(resp[w])
=============================================================================
