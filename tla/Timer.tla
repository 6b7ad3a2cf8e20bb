-------------------------------- MODULE Timer --------------------------------
(***************************************************************************)
(* evnet/rbt-timer.h, driven by the reactor's eventloop or by              *)
(* wait_timer_expire.  The tree of timers is the queue that RBTree         *)
(* implements (TimerOrder).                                                *)
(*                                                                         *)
(* time is CLOCK_MONOTONIC in milliseconds, which does not wrap; the       *)
(* program sees it modulo M.  Time passes between any two steps.  What a   *)
(* callback or a handler does with timers is up to the user: it may add    *)
(* some, and a handler may delete its own, whose address is the only one   *)
(* the functions of this file give away.                                   *)
(***************************************************************************)
EXTENDS TimerOrder

CONSTANTS Entries,  \* chunks of memory for a timer_entry_t
          Delays,   \* the milliseconds users ask for
          Horizon   \* bound: the clock stops here

ASSUME TimerAssumption == /\ \A d \in Delays : d \in Nat /\ 2 * d < M
                          /\ Horizon \in Nat
                          /\ "none" \notin Entries

VARIABLES
    time,       \* milliseconds since the start
    driver,     \* "eventloop" or "wait_timer_expire"
    queue,      \* the entries in the tree, in order
    key,        \* te->rbnode.key
    pc,         \* "setup" (before the loop), "ask" (at the top of the loop),
                \* "call" (epoll_wait is next), "wait" (in epoll_wait or usleep),
                \* "events" (callbacks run), "expire" (in expire_timer),
                \* "handler" (of te), "done", "dead"
    timeout,    \* the timeout computed for epoll_wait
    now,        \* the time expire_timer read
    te,         \* the entry whose handler runs, or "none"
    own,        \* that handler has deleted its own entry
    \* history
    due,        \* when an entry should expire
    wake,       \* when epoll_wait will time out, or Never
    slip,       \* the time between the computation of timeout and epoll_wait
    overdue,    \* a timer was overdue when timeout was computed
    scattered   \* timers of the queue were due half a turn of the clock apart

history == <<due, wake, slip, overdue, scattered>>
vars    == <<time, driver, queue, key, pc, timeout, now, te, own, history>>

Never == -1

Armed == Elements(queue)

\* Mutant: the milliseconds are not cut to the width of a key.
ShownWide(t) == t

\* The clock as current_time() shows it.
Shown(t) == t % M

Init == /\ time = 0
        /\ driver \in {"eventloop", "wait_timer_expire"}
        /\ queue = <<>> /\ key = [e \in Entries |-> 0]
        /\ pc = "setup" /\ timeout = 0 /\ now = 0 /\ te = "none" /\ own = FALSE
        /\ due = [e \in Entries |-> 0]
        /\ wake = Never /\ slip = 0 /\ overdue = FALSE /\ scattered = FALSE

Tick == /\ time < Horizon
        /\ time' = time + 1
        /\ slip' = IF pc = "call" THEN slip + 1 ELSE slip
        /\ UNCHANGED <<driver, queue, key, pc, timeout, now, te, own,
                       due, wake, overdue, scattered>>
-----------------------------------------------------------------------------
\* ngx_rbtree_delete, which clears the key, and free.
Delete(e) == /\ queue' = Without(queue, e)
             /\ key' = [key EXCEPT ![e] = 0]
             /\ due' = [due EXCEPT ![e] = 0]

(* The user's calls. *)

\* malloc gives any chunk that is free, so also one that a handler has deleted.
add_timer(msec) ==
    /\ pc \in {"setup", "events", "handler"}
    /\ \E e \in Entries \ Armed :
         /\ key' = [key EXCEPT ![e] = Shown(msec + Shown(time))]
         /\ due' = [due EXCEPT ![e] = time + msec]
         /\ queue' \in Insertions(queue, key', e)
         /\ scattered' = (Armed /= {} /\
                (scattered \/ \E f \in Armed : 2 * (time + msec - due[f]) \notin (-M + 1)..(M - 1)))
    /\ UNCHANGED <<time, driver, pc, timeout, now, te, own, wake, slip, overdue>>

\* By a handler, of its own entry.
del_timer ==
    /\ pc = "handler" /\ ~own
    /\ Delete(te)
    /\ own' = TRUE
    /\ UNCHANGED <<time, driver, pc, timeout, now, te, wake, slip, overdue, scattered>>
-----------------------------------------------------------------------------
(* eventloop, with epoll_wait, and wait_timer_expire. *)

\* expire_timer is called and reads the clock.
Enter == /\ pc' = "expire" /\ now' = time
         /\ wake' = Never /\ slip' = 0 /\ overdue' = FALSE

Setup == /\ pc = "setup"
         /\ pc' = "ask"
         /\ UNCHANGED <<time, driver, queue, key, timeout, now, te, own, history>>

\* Mutant: the time left of the last timer.
NearestIsLast == IF queue = <<>> THEN Never
                 ELSE Signed((key[queue[Len(queue)]] - Shown(time)) % M)

\* The time left, computed unsigned and handed to epoll_wait as an int.
find_nearest_expire_timer ==
    IF queue = <<>> THEN Never ELSE Signed((key[Head(queue)] - Shown(time)) % M)

Ask == /\ pc = "ask" /\ driver = "eventloop"
       /\ timeout' = find_nearest_expire_timer
       /\ overdue' = \E e \in Armed : due[e] < time
       /\ slip' = 0
       /\ pc' = "call"
       /\ UNCHANGED <<time, driver, queue, key, now, te, own, due, wake, scattered>>

\* A negative timeout is none.
EpollWait == /\ pc = "call"
             /\ wake' = IF timeout < 0 THEN Never ELSE time + timeout
             /\ timeout' = 0
             /\ pc' = "wait"
             /\ UNCHANGED <<time, driver, queue, key, now, te, own,
                            due, slip, overdue, scattered>>

Event == /\ pc = "wait" /\ driver = "eventloop"
         /\ pc' = "events"
         /\ wake' = Never /\ slip' = 0 /\ overdue' = FALSE
         /\ UNCHANGED <<time, driver, queue, key, timeout, now, te, own, due, scattered>>

\* The callbacks have run, or epoll_wait has timed out.
ExpireTimers == /\ \/ pc = "events"
                   \/ pc = "wait" /\ wake /= Never /\ time >= wake
                /\ Enter
                /\ UNCHANGED <<time, driver, queue, key, timeout, te, own, due, scattered>>

\* wait_timer_expire: until no timer is left, expire_timer and usleep.
Poll == /\ pc \in {"ask", "wait"} /\ driver = "wait_timer_expire"
        /\ IF queue = <<>> THEN pc' = "done" /\ UNCHANGED <<now, wake, slip, overdue>>
           ELSE Enter
        /\ UNCHANGED <<time, driver, queue, key, timeout, te, own, due, scattered>>
-----------------------------------------------------------------------------
(* expire_timer. *)

\* Mutant: a timer runs one millisecond early.
ExpiredEarly == queue /= <<>> /\ key[Head(queue)] <= Shown(now) + 1

\* Mutant: a timer due at this very millisecond is left for the next call.
ExpiredStrictly == queue /= <<>> /\ key[Head(queue)] < Shown(now)

Expired == queue /= <<>> /\ key[Head(queue)] <= Shown(now)

Touch == /\ pc = "expire" /\ Expired
         /\ te' = Head(queue)
         /\ pc' = "handler"
         /\ UNCHANGED <<time, driver, queue, key, timeout, now, own, history>>

ExpireDone == /\ pc = "expire" /\ ~Expired
              /\ pc' = IF driver = "eventloop" THEN "ask" ELSE "wait"
              /\ now' = 0
              /\ UNCHANGED <<time, driver, queue, key, timeout, te, own, history>>

\* Mutant: the first entry is taken out, not the one whose handler ran.
HandlerDoneFirst ==
    /\ pc = "handler"
    /\ Delete(IF queue = <<>> THEN te ELSE Head(queue))
    /\ pc' = IF te \in Armed THEN "expire" ELSE "dead"
    /\ te' = "none" /\ own' = FALSE
    /\ UNCHANGED <<time, driver, timeout, now, wake, slip, overdue, scattered>>

\* The handler has returned: its entry is taken out of the tree and freed.  If
\* the handler has deleted it, that is whatever add_timer has put in its place,
\* or a chunk whose pointers ngx_rbtree_delete has set to NULL.
HandlerDone ==
    /\ pc = "handler"
    /\ Delete(te)
    /\ pc' = IF te \in Armed THEN "expire" ELSE "dead"
    /\ te' = "none" /\ own' = FALSE
    /\ UNCHANGED <<time, driver, timeout, now, wake, slip, overdue, scattered>>
-----------------------------------------------------------------------------
Loop == Setup \/ Ask \/ EpollWait \/ ExpireTimers \/ Poll \/ Touch \/ ExpireDone \/ HandlerDone
Next == Tick \/ Event \/ Loop \/ del_timer \/ \E msec \in Delays : add_timer(msec)

Spec == Init /\ [][Next]_vars
-----------------------------------------------------------------------------
(* Properties. *)

TypeOK == /\ time \in 0..Horizon
          /\ driver \in {"eventloop", "wait_timer_expire"}
          /\ queue \in Seq(Entries) /\ \A i, j \in DOMAIN queue : queue[i] = queue[j] => i = j
          /\ key \in [Entries -> 0..(M - 1)]
          /\ pc \in {"setup", "ask", "call", "wait", "events", "expire", "handler", "done", "dead"}
          /\ timeout \in Int
          /\ now \in 0..time
          /\ te \in Entries \cup {"none"}
          /\ own \in BOOLEAN
          /\ due \in [Entries -> Nat]
          /\ wake \in Nat \cup {Never} /\ slip \in 0..time
          /\ overdue \in BOOLEAN /\ scattered \in BOOLEAN

Turn(t) == t \div M

\* A handler never runs before its timer is due, but for timers due after the
\* clock's next wrap, whose keys look small (rbt-timer.h:59, 90).
EarlyOnlyAcrossWrap ==
    (pc = "handler" /\ ~own) => due[te] <= now \/ Turn(due[te]) > Turn(now)

\* Timers due within half a turn of the clock stand in the order in which they
\* are due, whatever handlers add, and across a wrap (rbtree.c:120-151).
DueOrder == ~scattered => \A i, j \in DOMAIN queue : i < j => due[queue[i]] <= due[queue[j]]

\* epoll_wait times out no later than the first timer is due, but for the time
\* between the reading of the clock and the call, and unless a timer was overdue:
\* then it may wait for ever (rbt-timer.h:70-79, reactor.h:169-175).
WakesInTime ==
    (pc = "wait" /\ driver = "eventloop" /\ queue /= <<>> /\ ~overdue /\ ~scattered)
        => wake /= Never /\ \A e \in Armed : wake <= due[e] + slip

\* A timer leaves the tree only when its handler has run; a handler that deletes
\* its own entry and adds another loses that one (rbt-timer.h:92-96).
LeavesOnceRun == [][\A e \in Armed : e \notin Elements(queue') => pc = "handler" /\ e = te]_vars

\* expire_timer leaves no timer behind that was due when it read the clock, unless
\* one from before the clock's last wrap bars the way (rbt-timer.h:85-97).
NoneLeftBehind ==
    [][(pc = "expire" /\ pc' \in {"ask", "wait"} /\ ~scattered) =>
          \/ \A e \in Armed : due[e] > now
          \/ \E e \in Armed : Turn(due[e]) < Turn(now)]_vars
=============================================================================
