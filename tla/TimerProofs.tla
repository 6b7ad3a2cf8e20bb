----------------------------- MODULE TimerProofs -----------------------------
(***************************************************************************)
(* Theorems about Timer, for any number of timers, any delays and a clock  *)
(* of any width that satisfy TimerAssumption and ClockAssumption.          *)
(***************************************************************************)
EXTENDS Timer, DataTheorems

-----------------------------------------------------------------------------
(* The clock's circle.                                                     *)

LEMMA SignedNear == ASSUME NEW v \in Int, -M <= 2 * v, 2 * v < M
                    PROVE  Signed(v % M) = v
  <1>1. M \in Nat \ {0}
    BY ClockAssumption
  <1>2. v < M /\ v >= -M
    BY <1>1
  <1>3. v % M = IF v >= 0 THEN v ELSE v + M
    BY <1>1, <1>2, ModNear
  <1> QED BY <1>1, <1>3 DEF Signed

LEMMA SignedShown == ASSUME NEW a \in Nat, NEW b \in Nat, -M <= 2 * (a - b), 2 * (a - b) < M
                     PROVE  Signed((Shown(a) - Shown(b)) % M) = a - b
  <1>1. M \in Nat \ {0}
    BY ClockAssumption
  <1>2. (Shown(a) - Shown(b)) % M = (a - b) % M
    BY <1>1, ModDiff, Zenon DEF Shown
  <1>3. Signed((a - b) % M) = a - b
    BY SignedNear
  <1> QED BY <1>2, <1>3

\* Times that lie within half a turn of each other are compared as they should.
Near(a, b) == -M < 2 * (a - b) /\ 2 * (a - b) < M

LEMMA PrecedesDue == ASSUME NEW a \in Nat, NEW b \in Nat, Near(a, b)
                     PROVE  Precedes(Shown(a), Shown(b)) <=> a < b
  <1>1. M \in Nat
    BY ClockAssumption
  <1>2. Signed((Shown(a) - Shown(b)) % M) = a - b
    BY <1>1, SignedShown DEF Near
  <1> QED BY <1>2 DEF Precedes

LEMMA ShownType == ASSUME NEW t \in Nat
                   PROVE  Shown(t) \in 0..(M - 1)
  BY ClockAssumption, DivMod, Zenon DEF Shown

-----------------------------------------------------------------------------
(* The invariant.                                                          *)

\* A timer's key shows when it is due, less than half a turn from now.
KeysOK == \A e \in Armed : key[e] = Shown(due[e]) /\ 2 * (due[e] - time) < M

\* expire_timer runs the handler of an entry whose key has come.
Running ==
    /\ own => pc = "handler"
    /\ pc = "handler" => te \in Entries
    /\ (pc = "handler" /\ ~own) => te \in Armed /\ key[te] <= Shown(now)

Spread == ~scattered => \A e, f \in Armed : Near(due[e], due[f])

\* A timeout not yet handed to epoll_wait is that of the first timer, but for the
\* time that has passed since the clock was read.
Calling ==
    (pc = "call" /\ queue /= <<>> /\ ~overdue /\ ~scattered)
        => timeout >= 0 /\ \A e \in Armed : time + timeout <= due[e] + slip

TimerInv == TypeOK /\ KeysOK /\ Running /\ Spread /\ DueOrder /\ Calling /\ WakesInTime

LEMMA ArmedType == ASSUME TypeOK
                   PROVE  /\ Armed \subseteq Entries
                          /\ Distinct(queue)
                          /\ DOMAIN queue = 1..Len(queue) /\ Len(queue) \in Nat
                          /\ \A i \in DOMAIN queue : queue[i] \in Armed
                          /\ queue /= <<>> => Head(queue) = queue[1] /\ 1 \in DOMAIN queue
                          /\ queue = <<>> => Armed = {}
  <1>1. queue \in Seq(Entries)
    BY DEF TypeOK
  <1>2. DOMAIN queue = 1..Len(queue) /\ Len(queue) \in Nat
    BY <1>1, LenProperties
  <1>3. queue /= <<>> => Len(queue) \in Nat \ {0}
    BY <1>1, EmptySeq
  <1>4. Len(<<>>) = 0
    BY EmptySeq
  <1> QED BY <1>1, <1>2, <1>3, <1>4, ElementOfSeq DEF TypeOK, Armed, Elements, Distinct

LEMMA TimerInit == Init => TimerInv
  <1> SUFFICES ASSUME Init PROVE TimerInv
    OBVIOUS
  <1>1. queue = <<>> /\ <<>> \in Seq(Entries) /\ DOMAIN <<>> = {}
    BY EmptySeq DEF Init
  <1>2. Armed = {}
    BY <1>1 DEF Armed, Elements
  <1>3. 0 \in 0..(M - 1) /\ 0 \in 0..Horizon
    BY ClockAssumption, TimerAssumption
  <1>4. TypeOK
    <2>1. queue \in Seq(Entries) /\ \A i, j \in DOMAIN queue : queue[i] = queue[j] => i = j
      BY <1>1
    <2>2. /\ time \in 0..Horizon /\ now \in 0..time /\ wake \in Nat \cup {Never}
          /\ timeout \in Int /\ slip \in 0..time
      BY <1>3, TimerAssumption DEF Init
    <2>3. key \in [Entries -> 0..(M - 1)] /\ due \in [Entries -> Nat]
      BY <1>3 DEF Init
    <2> QED BY <2>1, <2>2, <2>3 DEF Init, TypeOK
  <1> QED BY <1>1, <1>2, <1>4
          DEF Init, TimerInv, KeysOK, Running, Spread, DueOrder, Calling, WakesInTime

\* The entry e leaves the tree.
LEMMA DeleteStep ==
    ASSUME TimerInv, NEW e \in Entries, Delete(e), UNCHANGED <<time, scattered>>
    PROVE  /\ queue' \in Seq(Entries) /\ Distinct(queue')
           /\ key' \in [Entries -> 0..(M - 1)] /\ due' \in [Entries -> Nat]
           /\ Elements(queue') = Armed \ {e}
           /\ \A f \in Entries \ {e} : key'[f] = key[f] /\ due'[f] = due[f]
           /\ KeysOK' /\ Spread' /\ DueOrder'
  <1> USE DEF Delete, TimerInv
  <1>1. 0 \in 0..(M - 1)
    BY ClockAssumption
  <1>2. queue \in Seq(Entries) /\ Distinct(queue)
    BY ArmedType DEF TypeOK
  <1>3. /\ queue' \in Seq(Entries) /\ Distinct(queue')
        /\ Elements(queue') = Armed \ {e}
        /\ \A j, k \in DOMAIN queue' : j < k =>
             \E u, v \in DOMAIN queue : u < v /\ queue'[j] = queue[u] /\ queue'[k] = queue[v]
    BY <1>2, WithoutElements DEF Armed
  <1>4. /\ key' \in [Entries -> 0..(M - 1)] /\ due' \in [Entries -> Nat]
        /\ \A f \in Entries \ {e} : key'[f] = key[f] /\ due'[f] = due[f]
    BY <1>1 DEF TypeOK
  <1>5. Armed' = Armed \ {e} /\ Armed \subseteq Entries
    BY <1>3, ArmedType DEF Armed
  <1>6. KeysOK'
    BY <1>4, <1>5 DEF KeysOK
  <1>7. Spread'
    BY <1>4, <1>5 DEF Spread
  <1>8. DueOrder'
    <2> SUFFICES ASSUME ~scattered, NEW j \in DOMAIN queue', NEW k \in DOMAIN queue', j < k
                 PROVE  due'[queue'[j]] <= due'[queue'[k]]
      BY DEF DueOrder
    <2>1. PICK u, v \in DOMAIN queue : u < v /\ queue'[j] = queue[u] /\ queue'[k] = queue[v]
      BY <1>3
    <2>2. due[queue[u]] <= due[queue[v]]
      BY <2>1 DEF DueOrder
    <2>3. queue'[j] \in Armed \ {e} /\ queue'[k] \in Armed \ {e}
      BY <1>3 DEF Elements
    <2> QED BY <1>4, <1>5, <2>1, <2>2, <2>3
  <1> QED BY <1>3, <1>4, <1>6, <1>7, <1>8

\* e enters the tree, due at the time d.
LEMMA AddStep ==
    ASSUME TimerInv, NEW e \in Entries \ Armed, NEW d \in Nat, 2 * (d - time) < M,
           key' = [key EXCEPT ![e] = Shown(d)],
           due' = [due EXCEPT ![e] = d],
           queue' \in Insertions(queue, key', e),
           (Armed /= {} /\ ~scattered') =>
                ~scattered /\ \A f \in Armed : 2 * (d - due[f]) \in (-M + 1)..(M - 1),
           UNCHANGED time
    PROVE  /\ queue' \in Seq(Entries) /\ Distinct(queue')
           /\ key' \in [Entries -> 0..(M - 1)] /\ due' \in [Entries -> Nat]
           /\ Elements(queue') = Armed \cup {e}
           /\ \A f \in Entries \ {e} : key'[f] = key[f] /\ due'[f] = due[f]
           /\ KeysOK' /\ Spread' /\ DueOrder'
  <1> USE DEF TimerInv
  <1> DEFINE l == Len(queue)
  <1>1. /\ queue \in Seq(Entries) /\ Distinct(queue) /\ Armed \subseteq Entries
        /\ DOMAIN queue = 1..l /\ l \in Nat /\ \A i \in 1..l : queue[i] \in Armed
    BY ArmedType DEF TypeOK
  <1>2. PICK i \in 0..l :
            /\ queue' = Inserted(queue, i, e)
            /\ (SmallRange(Keys(queue, key') \cup {key'[e]}) /\ InOrder(queue, key')) =>
                  /\ \A k \in 1..i : ~Precedes(key'[e], key'[queue[k]])
                  /\ \A k \in (i + 1)..l : Precedes(key'[e], key'[queue[k]])
    BY DEF Insertions
  <1>3. /\ queue' \in Seq(Entries) /\ DOMAIN queue' = 1..(l + 1)
        /\ \A k \in 1..i : queue'[k] = queue[k]
        /\ queue'[i + 1] = e
        /\ \A k \in (i + 2)..(l + 1) : queue'[k] = queue[k - 1]
        /\ Elements(queue') = Elements(queue) \cup {e}
        /\ Distinct(queue) /\ e \notin Elements(queue) => Distinct(queue')
    <2> DEFINE t == Inserted(queue, i, e)
    <2>1. /\ t \in Seq(Entries) /\ DOMAIN t = 1..(l + 1)
          /\ \A k \in 1..i : t[k] = queue[k]
          /\ t[i + 1] = e
          /\ \A k \in (i + 2)..(l + 1) : t[k] = queue[k - 1]
          /\ Elements(t) = Elements(queue) \cup {e}
          /\ Distinct(queue) /\ e \notin Elements(queue) => Distinct(t)
      <3>1. e \in Entries /\ queue \in Seq(Entries) /\ i \in 0..Len(queue)
        BY <1>1
      <3> HIDE DEF l
      <3>2. /\ t \in Seq(Entries) /\ DOMAIN t = 1..(Len(queue) + 1) /\ Len(queue) \in Nat
            /\ \A k \in 1..i : t[k] = queue[k]
            /\ t[i + 1] = e
            /\ \A k \in (i + 2)..(Len(queue) + 1) : t[k] = queue[k - 1]
            /\ Elements(t) = Elements(queue) \cup {e}
            /\ Distinct(queue) /\ e \notin Elements(queue) => Distinct(t)
        BY <3>1, InsertedElements
      <3> QED BY <3>2 DEF l
    <2>2. queue' = t
      BY <1>2
    <2> HIDE DEF t, l
    <2> QED BY <2>1, <2>2
  <1> HIDE DEF l
  <1>4. Distinct(queue') /\ Armed' = Armed \cup {e}
    BY <1>1, <1>3 DEF Armed
  <1>5. /\ key' \in [Entries -> 0..(M - 1)] /\ due' \in [Entries -> Nat]
        /\ key'[e] = Shown(d) /\ due'[e] = d
        /\ \A f \in Entries \ {e} : key'[f] = key[f] /\ due'[f] = due[f]
    BY ShownType DEF TypeOK
  <1>6. KeysOK'
    BY <1>1, <1>4, <1>5 DEF KeysOK
  <1>7. Spread'
    <2> SUFFICES ASSUME ~scattered', NEW f \in Armed', NEW g \in Armed' PROVE Near(due'[f], due'[g])
      BY DEF Spread
    <2>1. M \in Nat \ {0}
      BY ClockAssumption
    <2>2. \A h \in Armed : due[h] \in Nat /\ Near(d, due[h]) /\ Near(due[h], d)
      <3> SUFFICES ASSUME NEW h \in Armed PROVE due[h] \in Nat /\ Near(d, due[h]) /\ Near(due[h], d)
        OBVIOUS
      <3>1. due[h] \in Nat
        BY <1>1 DEF TypeOK
      <3>2. 2 * (d - due[h]) \in (-M + 1)..(M - 1)
        OBVIOUS
      <3> QED BY <2>1, <3>1, <3>2 DEF Near
    <2>3. Near(d, d)
      BY <2>1 DEF Near
    <2>4. \A h, k \in Armed : Near(due[h], due[k])
      BY DEF Spread
    <2> QED BY <1>1, <1>4, <1>5, <2>2, <2>3, <2>4
  <1>8. DueOrder'
    <2> SUFFICES ASSUME ~scattered' PROVE \A j, k \in 1..(l + 1) : j < k => due'[queue'[j]] <= due'[queue'[k]]
      BY <1>3 DEF DueOrder
    <2>1. \A f \in Armed' : key'[f] = Shown(due'[f]) /\ due'[f] \in Nat
      BY <1>1, <1>4, <1>5, <1>6 DEF KeysOK
    <2>2. \A f, g \in Armed' : Precedes(key'[f], key'[g]) <=> due'[f] < due'[g]
      BY <1>7, <2>1, PrecedesDue DEF Spread
    <2>3. \A j, k \in 1..l : j < k => due'[queue[j]] <= due'[queue[k]]
      <3>1. ~scattered \/ Armed = {}
        OBVIOUS
      <3>2. \A j \in 1..l : queue[j] \in Entries \ {e}
        BY <1>1
      <3> QED BY <1>1, <1>5, <3>1, <3>2 DEF DueOrder
    <2>4. \A j \in 1..l : queue[j] \in Armed' /\ e \in Armed'
      BY <1>1, <1>4
    <2>5. InOrder(queue, key')
      <3> SUFFICES ASSUME NEW j \in 1..l, NEW k \in 1..l, j < k
                   PROVE  ~Precedes(key'[queue[k]], key'[queue[j]])
        BY <1>1 DEF InOrder
      <3>1. due'[queue[j]] <= due'[queue[k]] /\ due'[queue[j]] \in Nat /\ due'[queue[k]] \in Nat
        BY <2>1, <2>3, <2>4
      <3> QED BY <2>2, <2>4, <3>1
    <2>6. SmallRange(Keys(queue, key') \cup {key'[e]})
      <3> DEFINE K == Keys(queue, key') \cup {key'[e]}
      <3>1. K = {key'[f] : f \in Armed'}
        BY <1>3, <1>4 DEF Keys, Armed
      <3>2. PICK f \in Armed' : \A g \in Armed' : due'[f] <= due'[g]
        <4>1. \A g \in Armed : \E k \in 1..l : g = queue[k]
          BY <1>1 DEF Armed, Elements
        <4>2. CASE l = 0
          BY <1>1, <1>4, <2>1, <4>1, <4>2
        <4>3. CASE l /= 0
          <5>1. 1 \in 1..l /\ queue[1] \in Armed' /\ due'[queue[1]] \in Nat /\ due'[e] \in Nat
            BY <1>1, <2>1, <2>4, <4>3
          <5>2. \A k \in 1..l : due'[queue[1]] <= due'[queue[k]]
            <6> SUFFICES ASSUME NEW k \in 1..l PROVE due'[queue[1]] <= due'[queue[k]]
              OBVIOUS
            <6>1. k = 1 \/ 1 < k
              BY <1>1
            <6> QED BY <2>3, <5>1, <6>1
          <5>3. \A g \in Armed : due'[queue[1]] <= due'[g] /\ due'[g] \in Nat
            BY <1>4, <2>1, <4>1, <5>2
          <5>4. CASE due'[e] <= due'[queue[1]]
            <6>1. \A g \in Armed' : due'[e] <= due'[g]
              BY <1>4, <5>1, <5>3, <5>4
            <6> QED BY <1>4, <6>1
          <5>5. CASE ~(due'[e] <= due'[queue[1]])
            <6>1. \A g \in Armed' : due'[queue[1]] <= due'[g]
              BY <1>4, <5>1, <5>3, <5>5
            <6> QED BY <5>1, <6>1
          <5> QED BY <5>4, <5>5
        <4> QED BY <4>2, <4>3
      <3>3. \A g \in Armed' : ~Precedes(key'[g], key'[f])
        <4> SUFFICES ASSUME NEW g \in Armed' PROVE ~Precedes(key'[g], key'[f])
          OBVIOUS
        <4>1. due'[f] <= due'[g] /\ due'[f] \in Nat /\ due'[g] \in Nat
          BY <2>1, <3>2
        <4> QED BY <2>2, <4>1
      <3>4. key'[f] \in K /\ \A b \in K : ~Precedes(b, key'[f])
        BY <3>1, <3>3
      <3> QED BY <3>4 DEF SmallRange
    <2>7. /\ \A k \in 1..i : due'[queue[k]] <= d
          /\ \A k \in (i + 1)..l : d <= due'[queue[k]]
      <3>1. /\ \A k \in 1..i : ~Precedes(key'[e], key'[queue[k]])
            /\ \A k \in (i + 1)..l : Precedes(key'[e], key'[queue[k]])
        BY <1>2, <2>5, <2>6
      <3>2. ASSUME NEW k \in 1..i PROVE due'[queue[k]] <= d
        <4>1. k \in 1..l
          BY <1>1
        <4>2. ~(d < due'[queue[k]]) /\ due'[queue[k]] \in Nat
          BY <1>5, <2>1, <2>2, <2>4, <3>1, <4>1
        <4> QED BY <4>2
      <3>3. ASSUME NEW k \in (i + 1)..l PROVE d <= due'[queue[k]]
        <4>1. k \in 1..l
          BY <1>1
        <4>2. d < due'[queue[k]] /\ due'[queue[k]] \in Nat
          BY <1>5, <2>1, <2>2, <2>4, <3>1, <4>1
        <4> QED BY <4>2
      <3> QED BY <3>2, <3>3
    <2> SUFFICES ASSUME NEW j \in 1..(l + 1), NEW k \in 1..(l + 1), j < k
                 PROVE  due'[queue'[j]] <= due'[queue'[k]]
      OBVIOUS
    <2>8. CASE k \in 1..i
      BY <1>1, <1>3, <2>3, <2>8
    <2>9. CASE k = i + 1
      BY <1>1, <1>3, <1>5, <2>7, <2>9
    <2>10. CASE k \in (i + 2)..(l + 1)
      <3>1. queue'[k] = queue[k - 1] /\ k - 1 \in (i + 1)..l
        BY <1>1, <1>3, <2>10
      <3>2. CASE j \in 1..i
        <4>1. queue'[j] = queue[j] /\ j < k - 1 /\ j \in 1..l /\ k - 1 \in 1..l
          BY <1>1, <1>3, <3>1, <3>2
        <4> QED BY <2>3, <3>1, <4>1
      <3>3. CASE j = i + 1
        BY <1>3, <1>5, <2>7, <3>1, <3>3
      <3>4. CASE j \in (i + 2)..(l + 1)
        <4>1. queue'[j] = queue[j - 1] /\ j - 1 < k - 1 /\ j - 1 \in 1..l /\ k - 1 \in 1..l
          BY <1>1, <1>3, <3>1, <3>4
        <4> QED BY <2>3, <3>1, <4>1
      <3> QED BY <1>1, <3>2, <3>3, <3>4
    <2> QED BY <1>1, <2>8, <2>9, <2>10
  <1> QED BY <1>3, <1>4, <1>5, <1>6, <1>7, <1>8 DEF Armed

\* A step that changes neither the tree nor the entries' keys.
LEMMA SameTree ==
    ASSUME TimerInv, UNCHANGED <<driver, queue, key, due, scattered>>,
           time' \in Nat, time' >= time
    PROVE  KeysOK' /\ Spread' /\ DueOrder' /\ Armed' = Armed
  <1> USE DEF TimerInv
  <1>1. Armed' = Armed /\ Armed \subseteq Entries
    BY ArmedType DEF Armed
  <1>2. KeysOK'
    <2> SUFFICES ASSUME NEW e \in Armed PROVE 2 * (due[e] - time') < M
      BY <1>1 DEF KeysOK
    <2>1. due[e] \in Nat /\ 2 * (due[e] - time) < M /\ time \in Nat /\ M \in Nat
      BY <1>1, TimerAssumption, ClockAssumption DEF KeysOK, TypeOK
    <2> QED BY <2>1
  <1> QED BY <1>1, <1>2 DEF Spread, DueOrder

LEMMA TimerNumbers == ASSUME TypeOK
                      PROVE  time \in Nat /\ now \in Nat /\ now <= time /\ M \in Nat \ {0}
  BY TimerAssumption, ClockAssumption DEF TypeOK

LEMMA AddNext == ASSUME TimerInv, NEW msec \in Delays, add_timer(msec) PROVE TimerInv'
  <1>1. PICK e \in Entries \ Armed :
            /\ key' = [key EXCEPT ![e] = Shown(msec + Shown(time))]
            /\ due' = [due EXCEPT ![e] = time + msec]
            /\ queue' \in Insertions(queue, key', e)
            /\ scattered' = (Armed /= {} /\
                  (scattered \/ \E f \in Armed : 2 * (time + msec - due[f]) \notin (-M + 1)..(M - 1)))
    BY DEF add_timer
  <1>2. time \in Nat /\ msec \in Nat /\ 2 * msec < M /\ M \in Nat \ {0}
    BY TimerNumbers, TimerAssumption DEF TimerInv
  <1>3. Shown(msec + Shown(time)) = Shown(time + msec)
    <2>1. ((time % M) + msec) % M = (time + msec) % M
      BY <1>2, ModAdd, Zenon
    <2>2. Shown(time) \in Nat
      BY <1>2, ShownType
    <2>3. msec + Shown(time) = (time % M) + msec
      BY <1>2, <2>2 DEF Shown
    <2> QED BY <2>1, <2>3 DEF Shown
  <1>4. /\ queue' \in Seq(Entries) /\ Distinct(queue')
        /\ key' \in [Entries -> 0..(M - 1)] /\ due' \in [Entries -> Nat]
        /\ Elements(queue') = Armed \cup {e}
        /\ \A f \in Entries \ {e} : key'[f] = key[f] /\ due'[f] = due[f]
        /\ KeysOK' /\ Spread' /\ DueOrder'
    <2>1. PICK d \in Nat : d = time + msec
      BY <1>2
    <2>2. /\ 2 * (d - time) < M
          /\ key' = [key EXCEPT ![e] = Shown(d)] /\ due' = [due EXCEPT ![e] = d]
          /\ time' = time
      <3>1. 2 * (d - time) < M
        BY <1>2, <2>1
      <3>2. key' = [key EXCEPT ![e] = Shown(d)] /\ due' = [due EXCEPT ![e] = d]
        BY <1>1, <1>3, <2>1, Zenon
      <3>3. time' = time
        BY DEF add_timer
      <3> QED BY <3>1, <3>2, <3>3
    <2>3. (Armed /= {} /\ ~scattered') =>
             ~scattered /\ \A f \in Armed : 2 * (d - due[f]) \in (-M + 1)..(M - 1)
      <3>1. (Armed /= {} /\ ~scattered') => ~scattered
        BY <1>1, Zenon
      <3>2. ~scattered' => \A f \in Armed : 2 * (d - due[f]) \in (-M + 1)..(M - 1)
        <4> SUFFICES ASSUME NEW f \in Armed, ~scattered'
                     PROVE  2 * (d - due[f]) \in (-M + 1)..(M - 1)
          OBVIOUS
        <4>1. 2 * (time + msec - due[f]) \in (-M + 1)..(M - 1)
          BY <1>1, Zenon
        <4>2. due[f] \in Nat
          BY ArmedType DEF TimerInv, TypeOK
        <4>3. 2 * (time + msec - due[f]) = 2 * (d - due[f])
          BY <1>2, <2>1, <4>2
        <4> QED BY <4>1, <4>3, Zenon
      <3> QED BY <3>1, <3>2, Zenon
    <2> QED BY <1>1, <2>1, <2>2, <2>3, AddStep
  <1>5. TypeOK'
    BY <1>1, <1>4 DEF add_timer, TimerInv, TypeOK, Distinct
  <1>6. Running'
    <2>1. Armed' = Armed \cup {e} /\ Armed \subseteq Entries
      BY <1>4, ArmedType DEF Armed, TimerInv
    <2> QED BY <1>1, <1>4, <2>1 DEF add_timer, TimerInv, Running
  <1>7. WakesInTime' /\ Calling'
    BY DEF add_timer, WakesInTime, Calling
  <1> QED BY <1>4, <1>5, <1>6, <1>7 DEF TimerInv

LEMMA DelNext == ASSUME TimerInv, del_timer PROVE TimerInv'
  <1> USE DEF del_timer, TimerInv
  <1>1. te \in Entries /\ Delete(te) /\ UNCHANGED <<time, scattered>>
    BY DEF Running
  <1>2. /\ queue' \in Seq(Entries) /\ Distinct(queue')
        /\ key' \in [Entries -> 0..(M - 1)] /\ due' \in [Entries -> Nat]
        /\ KeysOK' /\ Spread' /\ DueOrder'
    BY <1>1, DeleteStep
  <1>3. TypeOK'
    BY <1>2 DEF TypeOK, Distinct
  <1> QED BY <1>1, <1>2, <1>3 DEF Running, Calling, WakesInTime

LEMMA HandlerNext == ASSUME TimerInv, HandlerDone PROVE TimerInv'
  <1> USE DEF HandlerDone, TimerInv
  <1>1. te \in Entries /\ Delete(te) /\ UNCHANGED <<time, scattered>>
    BY DEF Running
  <1>2. /\ queue' \in Seq(Entries) /\ Distinct(queue')
        /\ key' \in [Entries -> 0..(M - 1)] /\ due' \in [Entries -> Nat]
        /\ KeysOK' /\ Spread' /\ DueOrder'
    BY <1>1, DeleteStep
  <1>3. TypeOK'
    BY <1>2 DEF TypeOK, Distinct
  <1> QED BY <1>2, <1>3 DEF Running, Calling, WakesInTime

\* The timeout is computed: it is that of the first timer.
LEMMA AskNext == ASSUME TimerInv, Ask PROVE TimerInv'
  <1> USE DEF Ask, TimerInv
  <1>1. time \in Nat /\ M \in Nat \ {0} /\ time' = time
    BY TimerNumbers
  <1>2. KeysOK' /\ Spread' /\ DueOrder' /\ Armed' = Armed
    BY <1>1, SameTree
  <1>3. \A x, y \in Nat : Signed((Shown(x) - Shown(y)) % M) \in Int
    <2> SUFFICES ASSUME NEW x \in Nat, NEW y \in Nat
                 PROVE  Signed((Shown(x) - Shown(y)) % M) \in Int
      OBVIOUS
    <2>1. Shown(x) - Shown(y) \in Int
      BY ShownType
    <2>2. (Shown(x) - Shown(y)) % M \in 0..(M - 1)
      BY <1>1, <2>1, IntDivMod, Zenon
    <2> QED BY <1>1, <2>2 DEF Signed
  <1> DEFINE q1 == Head(queue)
             left == find_nearest_expire_timer
  <1>4. queue /= <<>> =>
            /\ q1 = queue[1] /\ q1 \in Armed /\ 1 \in DOMAIN queue
            /\ due[q1] \in Nat /\ 2 * (due[q1] - time) < M
            /\ left = Signed((Shown(due[q1]) - Shown(time)) % M)
    BY ArmedType DEF KeysOK, TypeOK, find_nearest_expire_timer
  <1>5. left \in Int
    <2>1. CASE queue = <<>>
      BY <2>1 DEF find_nearest_expire_timer, Never
    <2>2. CASE queue /= <<>>
      <3> HIDE DEF left, q1
      <3> QED BY <1>1, <1>3, <1>4, <2>2
    <2> QED BY <2>1, <2>2
  <1>6. timeout' = left /\ slip' = 0 /\ 0 \in 0..time
    BY <1>1
  <1>7. TypeOK'
    BY <1>1, <1>5, <1>6 DEF TypeOK
  <1>8. Calling'
    <2> SUFFICES ASSUME queue /= <<>>, ~overdue', ~scattered
                 PROVE  left >= 0 /\ \A e \in Armed : time + left <= due[e] + 0
      BY <1>1, <1>2, <1>6 DEF Calling
    <2>1. \A e \in Armed : ~(due[e] < time) /\ due[e] \in Nat
      BY ArmedType DEF TypeOK
    <2>2. due[q1] - time \in Nat /\ -M <= 2 * (due[q1] - time)
      BY <1>1, <1>4, <2>1
    <2>3. left = due[q1] - time
      <3>1. Signed((Shown(due[q1]) - Shown(time)) % M) = due[q1] - time
        BY <1>1, <1>4, <2>2, SignedShown
      <3> QED BY <1>4, <3>1
    <2>4. ASSUME NEW e \in Armed PROVE due[q1] <= due[e]
      <3>1. PICK i \in DOMAIN queue : e = queue[i]
        BY DEF Armed, Elements
      <3>2. i = 1 \/ 1 < i
        BY <3>1, ArmedType
      <3> QED BY <1>4, <2>1, <3>1, <3>2 DEF DueOrder
    <2> HIDE DEF left, q1
    <2> QED BY <1>1, <1>4, <2>1, <2>2, <2>3, <2>4
  <1>9. Running' /\ WakesInTime'
    BY DEF Running, WakesInTime
  <1> QED BY <1>2, <1>7, <1>8, <1>9

\* epoll_wait is entered with that timeout, by now a little too long.
LEMMA WaitNext == ASSUME TimerInv, EpollWait PROVE TimerInv'
  <1> USE DEF EpollWait, TimerInv
  <1>1. time \in Nat /\ timeout \in Int /\ time' = time
    BY TimerNumbers DEF TypeOK
  <1>2. KeysOK' /\ Spread' /\ DueOrder' /\ Armed' = Armed
    BY <1>1, SameTree
  <1>3. wake' \in Nat \cup {Never}
    BY <1>1
  <1>4. TypeOK'
    BY <1>3 DEF TypeOK
  <1>5. WakesInTime'
    <2> SUFFICES ASSUME queue /= <<>>, ~overdue, ~scattered
                 PROVE  wake' /= Never /\ \A e \in Armed : wake' <= due[e] + slip
      BY <1>2 DEF WakesInTime
    <2>1. timeout >= 0 /\ \A e \in Armed : time + timeout <= due[e] + slip
      BY DEF Calling
    <2>2. wake' = time + timeout
      BY <1>1, <2>1
    <2> QED BY <1>1, <2>1, <2>2 DEF Never
  <1>6. Running' /\ Calling'
    BY DEF Running, Calling
  <1> QED BY <1>2, <1>4, <1>5, <1>6

LEMMA TimerNext == TimerInv /\ [Next]_vars => TimerInv'
  <1> SUFFICES ASSUME TimerInv, [Next]_vars PROVE TimerInv'
    OBVIOUS
  <1>1. time \in Nat /\ now \in Nat /\ now <= time /\ M \in Nat \ {0} /\ Horizon \in Nat
    BY TimerNumbers, TimerAssumption DEF TimerInv
  <1>2. CASE UNCHANGED vars
    <2>1. KeysOK' /\ Spread' /\ DueOrder' /\ Armed' = Armed
      BY <1>1, <1>2, SameTree DEF vars, history
    <2> QED BY <1>2, <2>1 DEF vars, history, TimerInv, TypeOK, Running, Calling, WakesInTime
  <1>3. CASE Tick
    <2>1. /\ time' = time + 1 /\ time' \in Nat /\ time' >= time /\ time' \in 0..Horizon
          /\ now' \in 0..time' /\ slip' \in 0..time' /\ slip \in Nat /\ timeout \in Int
      BY <1>1, <1>3 DEF Tick, TimerInv, TypeOK
    <2>2. KeysOK' /\ Spread' /\ DueOrder' /\ Armed' = Armed
      BY <1>3, <2>1, SameTree DEF Tick
    <2>3. TypeOK' /\ Running'
      BY <1>3, <2>1, <2>2 DEF Tick, TimerInv, TypeOK, Running
    <2>4. Calling'
      <3> SUFFICES ASSUME pc = "call", queue /= <<>>, ~overdue, ~scattered
                   PROVE  timeout >= 0 /\ \A e \in Armed : time' + timeout <= due[e] + slip'
        BY <1>3, <2>2 DEF Tick, Calling
      <3>1. timeout >= 0 /\ \A e \in Armed : time + timeout <= due[e] + slip /\ due[e] \in Nat
        BY ArmedType DEF Calling, TimerInv, TypeOK
      <3>2. slip' = slip + 1
        BY <1>3 DEF Tick
      <3> QED BY <1>1, <2>1, <3>1, <3>2
    <2>5. WakesInTime'
      BY <1>3, <2>2 DEF Tick, TimerInv, WakesInTime
    <2> QED BY <2>2, <2>3, <2>4, <2>5 DEF TimerInv
  <1>4. ASSUME Event \/ ExpireTimers \/ Poll \/ Setup \/ Touch \/ ExpireDone PROVE TimerInv'
    <2>1. UNCHANGED <<time, driver, queue, key, timeout, due, scattered>>
      BY <1>4 DEF Event, ExpireTimers, Poll, Setup, Touch, ExpireDone, Enter, history
    <2>2. KeysOK' /\ Spread' /\ DueOrder' /\ Armed' = Armed
      BY <1>1, <2>1, SameTree
    <2>3. /\ now' \in 0..time' /\ slip' \in 0..time'
          /\ wake' \in Nat \cup {Never} /\ overdue' \in BOOLEAN
          /\ pc' \in {"ask", "events", "expire", "handler", "wait", "done"}
      <3>1. now \in 0..time' /\ 0 \in 0..time' /\ time \in 0..time'
        BY <1>1, <2>1
      <3>2. now' \in {now, time, 0}
        BY <1>4 DEF Event, ExpireTimers, Poll, Setup, Touch, ExpireDone, Enter
      <3>3. wake' \in {wake, Never} /\ slip' \in {slip, 0} /\ overdue' \in {overdue, FALSE}
        BY <1>4 DEF Event, ExpireTimers, Poll, Setup, Touch, ExpireDone, Enter, history
      <3>4. pc' \in {"ask", "events", "expire", "handler", "wait", "done"}
        BY <1>4 DEF Event, ExpireTimers, Poll, Setup, Touch, ExpireDone, Enter
      <3>5. wake \in Nat \cup {Never} /\ slip \in 0..time' /\ overdue \in BOOLEAN
        BY <2>1 DEF TimerInv, TypeOK
      <3>6. now' \in 0..time' /\ slip' \in 0..time' /\ wake' \in Nat \cup {Never}
        BY <3>1, <3>2, <3>3, <3>5, Zenon
      <3>7. overdue' \in BOOLEAN
        BY <3>3, <3>5, Zenon
      <3> QED BY <3>4, <3>6, <3>7
    <2>4. Running' /\ te' \in Entries \cup {"none"} /\ own' \in BOOLEAN
      <3>1. CASE Touch
        <4>1. queue /= <<>> /\ key[Head(queue)] <= Shown(now) /\ te' = Head(queue)
              /\ now' = now /\ own' = own /\ ~own /\ pc' = "handler"
          BY <3>1 DEF Touch, Expired, TimerInv, Running
        <4>2. Head(queue) \in Armed /\ Armed \subseteq Entries
          BY <4>1, ArmedType DEF TimerInv
        <4>3. Running'
          BY <2>1, <2>2, <4>1, <4>2 DEF Running
        <4>4. te' \in Entries \cup {"none"}
          BY <4>1, <4>2
        <4>5. own' \in BOOLEAN
          BY <4>1, Zenon DEF TimerInv, TypeOK
        <4> QED BY <4>3, <4>4, <4>5
      <3>2. CASE ~Touch
        <4>1. te' = te /\ own' = own
          BY <1>4, <3>2 DEF Event, ExpireTimers, Poll, Setup, ExpireDone
        <4>2. te \in Entries \cup {"none"} /\ own \in BOOLEAN
          BY DEF TimerInv, TypeOK
        <4>3. pc /= "handler" /\ pc' /= "handler"
          BY <1>4, <3>2 DEF Event, ExpireTimers, Poll, Setup, ExpireDone, Enter
        <4>4. ~own'
          BY <4>1, <4>3, Zenon DEF TimerInv, Running
        <4>5. Running'
          BY <4>3, <4>4, Zenon DEF Running
        <4> QED BY <4>1, <4>2, <4>5, Zenon
      <3> QED BY <3>1, <3>2
    <2>5. WakesInTime' /\ Calling'
      <3>1. ~(pc' = "wait" /\ driver = "eventloop") /\ pc' /= "call"
        BY <1>4 DEF Event, ExpireTimers, Poll, Setup, Touch, ExpireDone, Enter
      <3> QED BY <2>1, <3>1 DEF WakesInTime, Calling
    <2>6. TypeOK'
      BY <2>1, <2>3, <2>4 DEF TimerInv, TypeOK
    <2> QED BY <2>2, <2>4, <2>5, <2>6 DEF TimerInv
  <1> QED BY <1>2, <1>3, <1>4, AskNext, WaitNext, AddNext, DelNext, HandlerNext DEF Next, Loop

THEOREM TimerInvariant == Spec => []TimerInv
  BY TimerInit, TimerNext, PTL DEF Spec

\* Keys keep their width and no entry is in the tree twice (rbt-timer.h:33-63).
THEOREM TimersTyped == Spec => []TypeOK
  <1>1. TimerInv => TypeOK
    BY DEF TimerInv
  <1> QED BY <1>1, TimerInvariant, PTL

-----------------------------------------------------------------------------
(* What follows.                                                           *)

\* Times shown by the clock on the same turn are in order.
LEMMA ShownOrder == ASSUME NEW a \in Nat, NEW b \in Nat, Shown(a) <= Shown(b)
                    PROVE  a <= b \/ Turn(a) > Turn(b)
  <1>1. M \in Nat \ {0}
    BY ClockAssumption
  <1>2. Turn(a) \in Nat /\ Turn(b) \in Nat
    BY <1>1, DivMod, Zenon DEF Turn
  <1>3. CASE Turn(a) <= Turn(b)
    <2>1. a % M <= b % M /\ a \div M <= b \div M
      BY <1>3 DEF Turn, Shown
    <2> QED BY <1>1, <2>1, ModOrder
  <1>4. CASE ~(Turn(a) <= Turn(b))
    BY <1>2, <1>4
  <1> QED BY <1>3, <1>4

\* No handler runs before its timer is due, but for timers due after the clock's
\* next wrap (rbt-timer.h:59, 90).
THEOREM EarlyOnly == Spec => []EarlyOnlyAcrossWrap
  <1>1. TimerInv => EarlyOnlyAcrossWrap
    <2> SUFFICES ASSUME TimerInv, pc = "handler", ~own
                 PROVE  due[te] <= now \/ Turn(due[te]) > Turn(now)
      BY DEF EarlyOnlyAcrossWrap
    <2>1. te \in Armed /\ key[te] <= Shown(now) /\ key[te] = Shown(due[te])
      BY DEF TimerInv, Running, KeysOK
    <2>2. due[te] \in Nat /\ now \in Nat
      BY <2>1, ArmedType, TimerNumbers DEF TimerInv, TypeOK
    <2> QED BY <2>1, <2>2, ShownOrder
  <1> QED BY <1>1, TimerInvariant, PTL

\* Timers stand in the order in which they are due (rbtree.c:120-151).
THEOREM TimersInOrder == Spec => []DueOrder
  <1>1. TimerInv => DueOrder
    BY DEF TimerInv
  <1> QED BY <1>1, TimerInvariant, PTL

\* epoll_wait does not sleep past a timer that was not overdue, but for the time
\* between the reading of the clock and the call (rbt-timer.h:70-79).
THEOREM NotOverslept == Spec => []WakesInTime
  <1>1. TimerInv => WakesInTime
    BY DEF TimerInv
  <1> QED BY <1>1, TimerInvariant, PTL

\* A timer leaves the tree only once its handler has run (rbt-timer.h:92-96).
THEOREM NoTimerLost == Spec => LeavesOnceRun
  <1> DEFINE P == \A e \in Armed : e \notin Elements(queue') => pc = "handler" /\ e = te
  <1>1. TimerInv /\ [Next]_vars => [P]_vars
    <2> SUFFICES ASSUME TimerInv, Next PROVE P
      OBVIOUS
    <2>1. ASSUME NEW e \in Entries, Delete(e) PROVE Elements(queue') = Armed \ {e}
      <3>1. queue \in Seq(Entries) /\ Distinct(queue)
        BY ArmedType DEF TimerInv, TypeOK
      <3> QED BY <2>1, <3>1, WithoutElements DEF Delete, Armed
    <2>2. CASE del_timer \/ HandlerDone
      <3>1. pc = "handler" /\ te \in Entries /\ Delete(te)
        BY <2>2 DEF del_timer, HandlerDone, TimerInv, Running
      <3> QED BY <2>1, <3>1
    <2>3. ASSUME NEW msec \in Delays, add_timer(msec) PROVE P
      <3>1. PICK e \in Entries \ Armed : queue' \in Insertions(queue, key', e)
        BY <2>3 DEF add_timer
      <3>2. PICK i \in 0..Len(queue) : queue' = Inserted(queue, i, e)
        BY <3>1 DEF Insertions
      <3>3. queue \in Seq(Entries) /\ e \in Entries
        BY <3>1 DEF TimerInv, TypeOK
      <3>4. Elements(Inserted(queue, i, e)) = Elements(queue) \cup {e}
        BY <3>3, InsertedElements
      <3> QED BY <3>2, <3>4 DEF Armed
    <2>4. CASE queue' = queue
      BY <2>4 DEF Armed
    <2>5. CASE \/ Tick \/ Event \/ Setup \/ Ask \/ EpollWait \/ ExpireTimers \/ Poll
               \/ Touch \/ ExpireDone
      <3>1. queue' = queue
        BY <2>5 DEF Tick, Event, Setup, Ask, EpollWait, ExpireTimers, Poll, Touch, ExpireDone
      <3> QED BY <2>4, <3>1
    <2> QED BY <2>2, <2>3, <2>5 DEF Next, Loop
  <1>2. Spec => [][P]_vars
    BY <1>1, TimerInvariant, PTL DEF Spec
  <1> QED BY <1>2 DEF LeavesOnceRun

\* expire_timer leaves no timer behind that was due, unless one from before the
\* clock's last wrap bars the way (rbt-timer.h:85-97).
THEOREM ExpireComplete == Spec => NoneLeftBehind
  <1> DEFINE P == (pc = "expire" /\ pc' \in {"ask", "wait"} /\ ~scattered) =>
                    \/ \A e \in Armed : due[e] > now
                    \/ \E e \in Armed : Turn(due[e]) < Turn(now)
  <1>1. TimerInv /\ [Next]_vars => [P]_vars
    <2> SUFFICES ASSUME TimerInv, Next, pc = "expire", pc' \in {"ask", "wait"}, ~scattered
                 PROVE  \/ \A e \in Armed : due[e] > now
                        \/ \E e \in Armed : Turn(due[e]) < Turn(now)
      OBVIOUS
    <2>1. ExpireDone
      BY DEF Next, Loop, Tick, Event, Setup, Ask, EpollWait, ExpireTimers, Poll, Touch,
             HandlerDone,
             del_timer, add_timer
    <2>2. now \in Nat /\ \A e \in Armed : due[e] \in Nat
      BY ArmedType, TimerNumbers DEF TimerInv, TypeOK
    <2>3. CASE queue = <<>>
      BY <2>3, ArmedType DEF TimerInv
    <2>4. CASE queue /= <<>>
      <3> DEFINE q1 == Head(queue)
      <3>1. q1 \in Armed /\ q1 = queue[1] /\ 1 \in DOMAIN queue /\ key[q1] = Shown(due[q1])
        BY <2>4, ArmedType DEF TimerInv, KeysOK
      <3>2. ~(key[q1] <= Shown(now))
        BY <2>1, <2>4 DEF ExpireDone, Expired
      <3>3. Shown(now) \in 0..(M - 1) /\ Shown(due[q1]) \in 0..(M - 1)
        BY <2>2, <3>1, ShownType
      <3>4. Shown(now) <= Shown(due[q1]) /\ now /= due[q1]
        BY <3>1, <3>2, <3>3
      <3>5. now <= due[q1] \/ Turn(now) > Turn(due[q1])
        BY <2>2, <3>1, <3>4, ShownOrder
      <3>6. CASE now <= due[q1]
        <4> SUFFICES ASSUME NEW e \in Armed PROVE due[e] > now
          OBVIOUS
        <4>1. PICK i \in DOMAIN queue : e = queue[i]
          BY DEF Armed, Elements
        <4>2. i = 1 \/ 1 < i
          BY <4>1, ArmedType DEF TimerInv
        <4>3. due[q1] <= due[e]
          BY <2>2, <3>1, <4>1, <4>2 DEF TimerInv, DueOrder
        <4> QED BY <2>2, <3>1, <3>4, <3>6, <4>3
      <3>7. CASE Turn(now) > Turn(due[q1])
        <4>1. Turn(now) \in Nat /\ Turn(due[q1]) \in Nat
          BY <2>2, <3>1, ClockAssumption, DivMod, Zenon DEF Turn
        <4>2. Turn(due[q1]) < Turn(now)
          BY <3>7, <4>1
        <4> QED BY <3>1, <4>2
      <3> QED BY <3>5, <3>6, <3>7
    <2> QED BY <2>3, <2>4
  <1>2. Spec => [][P]_vars
    BY <1>1, TimerInvariant, PTL DEF Spec
  <1> QED BY <1>2 DEF NoneLeftBehind
=============================================================================
