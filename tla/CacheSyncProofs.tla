--------------------------- MODULE CacheSyncProofs ---------------------------
(***************************************************************************)
(* Theorems about CacheSync, for any users, any number of changes and any  *)
(* number of restarts.                                                     *)
(***************************************************************************)
EXTENDS CacheSync, SequenceTheorems, TLAPS

-----------------------------------------------------------------------------
(* The inductive invariant.                                                *)

\* What the k-th event leaves in each field of its row's hash.
Effect(k) == IF binlog[k].action = "delete" THEN None ELSE k

\* Command c sets field f of user:<id>, to c.row.
Sets(c, id, f) == c.id = id /\ (c.op = "DEL" \/ c.field = f)

\* The k-th event is the last one of id.
IsLast(id, k) == /\ k \in 1..Len(binlog) /\ binlog[k].id = id
                 /\ \A j \in (k + 1)..Len(binlog) : binlog[j].id /= id

Untouched(id) == \A k \in 1..Len(binlog) : binlog[k].id /= id

\* Once the commands have been executed, field f of user:<id> will be v.
Settled(id, f, v) ==
    /\ \A i \in 1..Len(commands) :
          (Sets(commands[i], id, f) /\ \A j \in (i + 1)..Len(commands) : ~Sets(commands[j], id, f))
             => commands[i].row = v
    /\ (\A i \in 1..Len(commands) : ~Sets(commands[i], id, f)) => cache[id][f] = v

\* The table is what the log says.
TableLogged ==
    \A id \in Ids :
        /\ Untouched(id) \/ \E k \in 1..Len(binlog) : IsLast(id, k)
        /\ Untouched(id) => table[id] = None /\ id \notin moved
        /\ \A k \in 1..Len(binlog) : IsLast(id, k) =>
              IF id \in moved THEN table[id] = None /\ Effect(k) /= None
              ELSE table[id] = Effect(k)

\* Commands come from events that would be delivered again.
Asks(c, k) == /\ c.id = binlog[k].id /\ c.row = Effect(k)
              /\ c.op = "DEL" <=> binlog[k].action = "delete"

FromLog == \A i \in 1..Len(commands) : \E k \in (saved + 1)..pos : Asks(commands[i], k)

\* What was delivered of a row is in its hash or on its way, and what was saved
\* is in its hash.
Applied ==
    \A id \in Ids, f \in Fields :
        /\ Untouched(id) => cache[id][f] = None
        /\ \A k \in 1..Len(binlog) : IsLast(id, k) =>
              /\ k <= pos => Settled(id, f, Effect(k))
              /\ k <= saved => cache[id][f] = Effect(k)

CacheInv == TypeOK /\ Len(binlog) <= MaxChanges /\ TableLogged /\ FromLog /\ Applied

-----------------------------------------------------------------------------
(* Its proof.                                                              *)

LEMMA LogType == ASSUME TypeOK
                 PROVE  /\ Len(binlog) \in Nat
                        /\ \A k \in 1..Len(binlog) :
                              /\ binlog[k].action \in {"insert", "update", "delete"}
                              /\ binlog[k].id \in Ids
                              /\ Effect(k) \in 0..Len(binlog)
                        /\ pos \in Nat /\ saved \in Nat /\ saved <= pos /\ pos <= Len(binlog)
                        /\ DOMAIN commands = 1..Len(commands) /\ Len(commands) \in Nat
                        /\ \A i \in 1..Len(commands) : commands[i] \in Commands
  <1>1. /\ Len(binlog) \in Nat
        /\ \A k \in 1..Len(binlog) : binlog[k] \in [action : {"insert", "update", "delete"}, id : Ids]
    BY LenProperties, ElementOfSeq DEF TypeOK
  <1>2. DOMAIN commands = 1..Len(commands) /\ Len(commands) \in Nat
    BY LenProperties DEF TypeOK
  <1>3. \A i \in 1..Len(commands) : commands[i] \in Commands
    BY ElementOfSeq DEF TypeOK
  <1>4. \A k \in 1..Len(binlog) : Effect(k) \in 0..Len(binlog)
    BY <1>1 DEF Effect, None
  <1>5. pos \in Nat /\ saved \in Nat /\ saved <= pos /\ pos <= Len(binlog)
    BY <1>1 DEF TypeOK
  <1> QED BY <1>1, <1>2, <1>3, <1>4, <1>5

LEMMA FunctionIsSeq == ASSUME NEW S, NEW n \in Nat, NEW f \in [1..n -> S]
                       PROVE  f \in Seq(S) /\ Len(f) = n
  <1> DEFINE g == [i \in 1..n |-> f[i]]
  <1>1. g \in Seq(S) /\ Len(g) = n
    OBVIOUS
  <1>2. f = g
    OBVIOUS
  <1> QED BY <1>1, <1>2, Zenon

\* What the script asks for sets every field of one hash.
LEMMA Asked ==
    ASSUME TypeOK, Len(binlog) <= MaxChanges, NEW k \in 1..Len(binlog)
    PROVE  /\ t_user(k) \in Seq(Commands) /\ Len(t_user(k)) \in Nat
           /\ \A i \in 1..Len(t_user(k)) : Asks(t_user(k)[i], k)
           /\ \A f \in Fields : \E i \in 1..Len(t_user(k)) : Sets(t_user(k)[i], binlog[k].id, f)
  <1> DEFINE id == binlog[k].id
             t == t_user(k)
  <1>1. id \in Ids /\ binlog[k].action \in {"insert", "update", "delete"} /\ Len(binlog) \in Nat
        /\ MaxChanges \in Nat
    BY LogType, CacheAssumption
  <1>2. DOMAIN Columns = 1..5 /\ \A i \in 1..5 : Columns[i] \in Fields
    BY DEF Columns, Fields
  <1>3. CASE binlog[k].action = "delete"
    <2>1. t = <<DEL(id)>> /\ Effect(k) = None
      BY <1>3 DEF t_user, Effect
    <2>2. "id" \in Fields
      BY DEF Fields, Columns
    <2>3. DEL(id) \in Commands
      BY <1>1, <2>2 DEF DEL, Commands, None
    <2>4. t \in Seq(Commands) /\ Len(t) = 1 /\ t[1] = DEL(id)
      BY <2>1, <2>3
    <2>5. DEL(id).id = id /\ DEL(id).row = None /\ DEL(id).op = "DEL"
      BY DEF DEL
    <2> HIDE DEF t, id
    <2>6. \A f \in Fields : Sets(t[1], id, f)
      BY <2>4, <2>5 DEF Sets
    <2>7. \A i \in 1..Len(t) : Asks(t[i], k)
      BY <1>3, <2>1, <2>4, <2>5 DEF Asks, id
    <2>8. 1 \in 1..Len(t) /\ Len(t) \in Nat
      BY <2>4
    <2> QED BY <2>4, <2>6, <2>7, <2>8 DEF t, id
  <1>4. CASE binlog[k].action \in {"insert", "update"}
    <2>1. t = [i \in 1..5 |-> HSET(id, Columns[i], k)] /\ Effect(k) = k
      BY <1>2, <1>4 DEF t_user, Effect
    <2>2. \A i \in 1..5 : HSET(id, Columns[i], k) \in Commands
      BY <1>1, <1>2 DEF HSET, Commands
    <2>3. t \in [1..5 -> Commands]
      BY <2>1, <2>2
    <2>4. t \in Seq(Commands) /\ Len(t) = 5
      <3> HIDE DEF t
      <3> QED BY <2>3, FunctionIsSeq, 5 \in Nat, ZenonT(30)
    <2>5. \A i \in 1..5 : t[i] = HSET(id, Columns[i], k)
      BY <2>1
    <2> HIDE DEF t, id
    <2>6. \A i \in 1..Len(t) : Asks(t[i], k)
      BY <1>4, <2>1, <2>4, <2>5 DEF HSET, Asks, id
    <2>7. ASSUME NEW f \in Fields PROVE \E i \in 1..Len(t) : Sets(t[i], id, f)
      <3>1. PICK i \in 1..5 : f = Columns[i]
        BY <1>2 DEF Fields
      <3>2. Sets(t[i], id, f)
        BY <2>5, <3>1 DEF Sets, HSET
      <3> QED BY <2>4, <3>2
    <2> QED BY <2>4, <2>6, <2>7 DEF t, id
  <1> QED BY <1>1, <1>3, <1>4

LEMMA CacheInit == Init => CacheInv
  <1> SUFFICES ASSUME Init PROVE CacheInv
    OBVIOUS
  <1> USE DEF Init, None
  <1>1. Len(binlog) = 0 /\ Len(commands) = 0
    OBVIOUS
  <1>2. TypeOK
    BY <1>1, CacheAssumption DEF TypeOK, Whole
  <1>3. TableLogged
    <2>1. 1..Len(binlog) = {}
      BY <1>1
    <2>2. \A id \in Ids : Untouched(id)
      BY <2>1, Zenon DEF Untouched
    <2>3. \A id \in Ids : table[id] = None /\ id \notin moved
      OBVIOUS
    <2> QED BY <2>1, <2>2, <2>3 DEF TableLogged
  <1>4. FromLog
    BY <1>1 DEF FromLog
  <1>5. Applied
    BY <1>1 DEF Applied, Whole
  <1>6. Len(binlog) <= MaxChanges
    BY <1>1, CacheAssumption
  <1> QED BY <1>2, <1>3, <1>4, <1>5, <1>6 DEF CacheInv

\* An event for one row has been logged, and no other row knows.
Logged(id, action, n) ==
    /\ n \in Nat /\ Len(binlog') = n /\ n <= MaxChanges
    /\ binlog' \in Seq([action : {"insert", "update", "delete"}, id : Ids])
    /\ \A k \in 1..Len(binlog) : binlog'[k] = binlog[k] /\ Effect(k)' = Effect(k)
    /\ Effect(n)' = (IF action = "delete" THEN None ELSE n)
    /\ ~Untouched(id)' /\ IsLast(id, n)'
    /\ \A k \in 1..n : IsLast(id, k)' => k = n
    /\ \A o \in Ids \ {id} : /\ Untouched(o)' <=> Untouched(o)
                             /\ \A k \in 1..n : IsLast(o, k)' <=> IsLast(o, k)
    /\ FromLog' /\ Applied'

\* A change is logged for one row.
LEMMA LogStep ==
    ASSUME CacheInv, NEW id \in Ids, NEW action \in {"insert", "update", "delete"},
           Log(action, id), NEW n, n = Len(binlog) + 1
    PROVE  Logged(id, action, n)
  <1> DEFINE Event == [action : {"insert", "update", "delete"}, id : Ids]
             e == [action |-> action, id |-> id]
  <1>1. /\ binlog \in Seq(Event) /\ e \in Event /\ Len(binlog) \in Nat /\ MaxChanges \in Nat
        /\ Len(binlog) < MaxChanges /\ binlog' = Append(binlog, e)
        /\ UNCHANGED <<pos, saved, commands, restarts, again, cache>>
    BY LogType, CacheAssumption DEF CacheInv, TypeOK, Log, transfer
  <1>2. /\ n \in Nat /\ n <= MaxChanges
        /\ binlog' \in Seq(Event) /\ Len(binlog') = n
        /\ \A k \in 1..Len(binlog) : binlog'[k] = binlog[k]
        /\ binlog'[n] = e
    <2> HIDE DEF Event, e
    <2>1. /\ Append(binlog, e) \in Seq(Event) /\ Len(Append(binlog, e)) = Len(binlog) + 1
          /\ \A k \in 1..Len(binlog) : Append(binlog, e)[k] = binlog[k]
          /\ Append(binlog, e)[Len(binlog) + 1] = e
      BY <1>1, AppendProperties
    <2> QED BY <1>1, <2>1
  <1>3. \A k \in 1..Len(binlog) : Effect(k)' = Effect(k)
    BY <1>2 DEF Effect
  <1>4. Effect(n)' = (IF action = "delete" THEN None ELSE n)
    BY <1>2 DEF Effect
  <1>5. n \in 1..n /\ binlog'[n].id = id
    BY <1>2
  <1> HIDE DEF Event, e
  <1>6. ~Untouched(id)' /\ IsLast(id, n)' /\ \A k \in 1..n : IsLast(id, k)' => k = n
    <2>1. ~Untouched(id)'
      BY <1>2, <1>5 DEF Untouched
    <2>2. IsLast(id, n)'
      BY <1>2, <1>5 DEF IsLast
    <2>3. ASSUME NEW k \in 1..n, IsLast(id, k)' PROVE k = n
      <3>1. \A j \in (k + 1)..n : binlog'[j].id /= id
        BY <1>2, <2>3 DEF IsLast
      <3> QED BY <1>2, <1>5, <3>1
    <2> QED BY <2>1, <2>2, <2>3
  <1>7. ASSUME NEW o \in Ids \ {id}
        PROVE  /\ Untouched(o)' <=> Untouched(o)
               /\ \A k \in 1..n : IsLast(o, k)' <=> IsLast(o, k)
    <2>1. 1..n = 1..Len(binlog) \cup {n} /\ Len(binlog) \in Nat
      BY <1>1
    <2>2. Untouched(o)' <=> Untouched(o)
      BY <1>2, <1>5, <2>1 DEF Untouched
    <2>3. ASSUME NEW k \in 1..n PROVE IsLast(o, k)' <=> IsLast(o, k)
      <3>1. CASE k = n
        BY <1>2, <1>5, <2>1, <3>1 DEF IsLast
      <3>2. CASE k \in 1..Len(binlog)
        <4>1. (k + 1)..n = (k + 1)..Len(binlog) \cup {n}
          BY <2>1, <3>2
        <4>2. \A j \in (k + 1)..Len(binlog) : binlog'[j] = binlog[j]
          BY <1>2, <2>1, <3>2
        <4> QED BY <1>2, <1>5, <2>1, <3>2, <4>1, <4>2 DEF IsLast
      <3> QED BY <2>1, <3>1, <3>2
    <2> QED BY <2>2, <2>3
  <1>8. FromLog'
    <2>1. \A k \in (saved + 1)..pos : k \in 1..Len(binlog)
      BY LogType DEF CacheInv
    <2>2. \A c : \A k \in (saved + 1)..pos : Asks(c, k) => Asks(c, k)'
      BY <1>2, <1>3, <2>1 DEF Asks
    <2> QED BY <1>1, <2>2 DEF FromLog, CacheInv
  <1>9. Applied'
    <2> SUFFICES ASSUME NEW o \in Ids, NEW f \in Fields
                 PROVE  /\ Untouched(o)' => cache'[o][f] = None
                        /\ \A k \in 1..n : IsLast(o, k)' =>
                              /\ k <= pos' => Settled(o, f, Effect(k))'
                              /\ k <= saved' => cache'[o][f] = Effect(k)'
      BY <1>2 DEF Applied
    <2>1. pos' = pos /\ saved' = saved /\ pos \in Nat /\ saved \in Nat /\ pos < n /\ saved < n
      BY <1>1, LogType DEF CacheInv
    <2>2. CASE o = id
      BY <1>2, <1>6, <2>1, <2>2
    <2>3. CASE o /= id
      <3>1. Untouched(o)' => cache'[o][f] = None
        BY <1>1, <1>7, <2>3 DEF CacheInv, Applied
      <3>2. ASSUME NEW k \in 1..n, IsLast(o, k)'
            PROVE  /\ k <= pos' => Settled(o, f, Effect(k))'
                   /\ k <= saved' => cache'[o][f] = Effect(k)'
        <4>1. IsLast(o, k) /\ k \in 1..Len(binlog)
          BY <1>7, <2>3, <3>2, SMTT(30) DEF IsLast
        <4>2. Effect(k)' = Effect(k)
          BY <1>3, <4>1
        <4>3. /\ k <= pos => Settled(o, f, Effect(k))
              /\ k <= saved => cache[o][f] = Effect(k)
          BY <4>1 DEF CacheInv, Applied
        <4>4. ASSUME Settled(o, f, Effect(k)) PROVE Settled(o, f, Effect(k))'
          BY <1>1, <4>2, <4>4 DEF Settled
        <4> QED BY <1>1, <2>1, <4>2, <4>3, <4>4
      <3> QED BY <3>1, <3>2
    <2> QED BY <2>2, <2>3
  <1> QED BY <1>2, <1>3, <1>4, <1>6, <1>7, <1>8, <1>9 DEF Event, Logged

\* The change is one of the table too.
LEMMA LoggedRow ==
    ASSUME CacheInv, NEW id \in Ids, NEW action \in {"insert", "update", "delete"},
           Log(action, id), NEW n, n = Len(binlog) + 1,
           table' \in [Ids -> 0..n], moved' \subseteq Ids, \A o \in moved' : table'[o] = None,
           id \notin moved', table'[id] = (IF action = "delete" THEN None ELSE n),
           \A o \in Ids \ {id} :
              \/ table'[o] = table[o] /\ (o \in moved' <=> o \in moved)
              \/ table'[o] = None /\ o \in moved' /\ table[o] /= None
    PROVE  CacheInv'
  <1>1. /\ n \in Nat /\ Len(binlog') = n /\ n <= MaxChanges
        /\ binlog' \in Seq([action : {"insert", "update", "delete"}, id : Ids])
        /\ \A k \in 1..Len(binlog) : binlog'[k] = binlog[k] /\ Effect(k)' = Effect(k)
        /\ Effect(n)' = (IF action = "delete" THEN None ELSE n)
        /\ ~Untouched(id)' /\ IsLast(id, n)'
        /\ \A k \in 1..n : IsLast(id, k)' => k = n
        /\ \A o \in Ids \ {id} : /\ Untouched(o)' <=> Untouched(o)
                                 /\ \A k \in 1..n : IsLast(o, k)' <=> IsLast(o, k)
        /\ FromLog' /\ Applied'
    <2>1. Logged(id, action, n)
      BY LogStep
    <2> QED BY <2>1, Zenon DEF Logged
  <1> Len(binlog) \in Nat
    BY LogType DEF CacheInv
  <1>2. TableLogged'
    <2> SUFFICES ASSUME NEW o \in Ids
                 PROVE  /\ Untouched(o)' \/ \E k \in 1..n : IsLast(o, k)'
                        /\ Untouched(o)' => table'[o] = None /\ o \notin moved'
                        /\ \A k \in 1..n : IsLast(o, k)' =>
                              IF o \in moved' THEN table'[o] = None /\ Effect(k)' /= None
                              ELSE table'[o] = Effect(k)'
      BY <1>1 DEF TableLogged
    <2>1. CASE o = id
      <3>1. n \in 1..n
        BY <1>1
      <3> QED BY <1>1, <2>1, <3>1
    <2>2. CASE o /= id
      <3>1. /\ Untouched(o) \/ \E k \in 1..Len(binlog) : IsLast(o, k)
            /\ Untouched(o) => table[o] = None /\ o \notin moved
            /\ \A k \in 1..Len(binlog) : IsLast(o, k) =>
                  IF o \in moved THEN table[o] = None /\ Effect(k) /= None
                  ELSE table[o] = Effect(k)
        BY DEF CacheInv, TableLogged
      <3>2. \A k \in 1..Len(binlog) : k \in 1..n
        BY <1>1
      <3>3. \A k \in 1..n : IsLast(o, k)' => k \in 1..Len(binlog) /\ IsLast(o, k)
        BY <1>1, <2>2 DEF IsLast
      <3> QED BY <1>1, <2>2, <3>1, <3>2, <3>3
    <2> QED BY <2>1, <2>2
  <1>3. TypeOK'
    <2>1. UNCHANGED <<pos, saved, commands, restarts, again, cache>> /\ 0..Len(binlog) \subseteq 0..n
      BY <1>1 DEF Log, transfer
    <2>2. saved' \in 0..pos' /\ pos' \in 0..n /\ again' \in 0..n
      BY <2>1 DEF CacheInv, TypeOK
    <2>3. cache' \in [Ids -> [Fields -> 0..n]]
      BY <2>1 DEF CacheInv, TypeOK
    <2>4. commands' \in Seq(Commands) /\ restarts' \in 0..MaxRestarts
      BY <2>1 DEF CacheInv, TypeOK
    <2> QED BY <1>1, <2>2, <2>3, <2>4 DEF TypeOK
  <1> QED BY <1>1, <1>2, <1>3 DEF CacheInv

LEMMA ChangeNext == ASSUME CacheInv, Change PROVE CacheInv'
  <1> DEFINE n == Len(binlog) + 1
  <1>1. /\ n \in Nat /\ n \in 0..n /\ 0 \in 0..n /\ 0..Len(binlog) \subseteq 0..n
        /\ table \in [Ids -> 0..Len(binlog)] /\ moved \subseteq Ids
        /\ \A id \in moved : table[id] = None
    BY LogType DEF CacheInv, TypeOK
  <1>2. table \in [Ids -> 0..n]
    BY <1>1
  <1>3. NewRow = n
    BY DEF NewRow
  <1> HIDE DEF n
  <1>4. ASSUME NEW id \in Ids, Insert(id) PROVE CacheInv'
    <2>1. /\ table' = [table EXCEPT ![id] = n] /\ moved' = moved \ {id} /\ Log("insert", id)
      BY <1>3, <1>4 DEF Insert
    <2>2. /\ table' \in [Ids -> 0..n] /\ table'[id] = n
          /\ \A o \in Ids \ {id} : table'[o] = table[o]
      BY <1>1, <1>2, <2>1
    <2> QED BY <1>1, <2>1, <2>2, LoggedRow DEF n
  <1>5. ASSUME NEW id \in Ids, Update(id) PROVE CacheInv'
    <2>1. /\ table' = [table EXCEPT ![id] = n] /\ moved' = moved /\ Log("update", id)
          /\ id \notin moved
      BY <1>1, <1>3, <1>5 DEF Update
    <2>2. /\ table' \in [Ids -> 0..n] /\ table'[id] = n
          /\ \A o \in Ids \ {id} : table'[o] = table[o]
      BY <1>1, <1>2, <2>1
    <2> QED BY <1>1, <2>1, <2>2, LoggedRow DEF n
  <1>6. ASSUME NEW id \in Ids, Delete(id) PROVE CacheInv'
    <2>1. /\ table' = [table EXCEPT ![id] = None] /\ moved' = moved /\ Log("delete", id)
          /\ id \notin moved
      BY <1>1, <1>6 DEF Delete
    <2>2. /\ table' \in [Ids -> 0..n] /\ table'[id] = None
          /\ \A o \in Ids \ {id} : table'[o] = table[o]
      BY <1>1, <1>2, <2>1 DEF None
    <2> QED BY <1>1, <2>1, <2>2, LoggedRow DEF n
  <1>7. ASSUME NEW id \in Ids, NEW new \in Ids, Move(id, new) PROVE CacheInv'
    <2>1. /\ table' = [table EXCEPT ![id] = None, ![new] = n]
          /\ moved' = (moved \cup {id}) \ {new} /\ Log("update", new)
          /\ table[id] /= None /\ id /= new
      BY <1>3, <1>7 DEF Move
    <2>2. /\ table' \in [Ids -> 0..n] /\ table'[new] = n /\ table'[id] = None
          /\ \A o \in Ids \ {id, new} : table'[o] = table[o]
      BY <1>1, <1>2, <2>1 DEF None
    <2> QED BY <1>1, <2>1, <2>2, LoggedRow DEF n
  <1> QED BY <1>4, <1>5, <1>6, <1>7 DEF Change

\* The script adds its commands behind those that wait.
LEMMA EventAppends ==
    ASSUME CacheInv, OnEvent, NEW k, k = pos + 1, NEW t, t = t_user(k), NEW l, l = Len(commands)
    PROVE  /\ pos \in Nat /\ saved \in Nat /\ saved <= pos /\ Len(binlog) \in Nat
           /\ k \in 1..Len(binlog) /\ l \in Nat /\ pos' = k
           /\ UNCHANGED <<table, binlog, moved, saved, restarts, again, cache>>
           /\ t \in Seq(Commands) /\ Len(t) \in Nat
           /\ \A i \in 1..Len(t) : Asks(t[i], k)
           /\ \A f \in Fields : \E i \in 1..Len(t) : Sets(t[i], binlog[k].id, f)
           /\ commands' \in Seq(Commands) /\ Len(commands') = l + Len(t)
           /\ \A i \in 1..l : commands'[i] = commands[i]
           /\ \A i \in 1..Len(t) : commands'[l + i] = t[i]
  <1>1. /\ pos \in Nat /\ saved \in Nat /\ saved <= pos /\ Len(binlog) \in Nat
        /\ k \in 1..Len(binlog) /\ l \in Nat /\ commands \in Seq(Commands)
    BY LogType DEF CacheInv, TypeOK, OnEvent
  <1>2. /\ pos' = k /\ commands' = commands \o t
        /\ UNCHANGED <<table, binlog, moved, saved, restarts, again, cache>>
    BY DEF OnEvent, mysql
  <1>3. /\ t \in Seq(Commands) /\ Len(t) \in Nat
        /\ \A i \in 1..Len(t) : Asks(t[i], k)
        /\ \A f \in Fields : \E i \in 1..Len(t) : Sets(t[i], binlog[k].id, f)
    BY <1>1, Asked DEF CacheInv
  <1>4. /\ commands \o t \in Seq(Commands) /\ Len(commands \o t) = l + Len(t)
        /\ \A i \in 1..(l + Len(t)) :
              (commands \o t)[i] = IF i <= l THEN commands[i] ELSE t[i - l]
    BY <1>1, <1>3, ConcatProperties
  <1>5. \A i \in 1..l : commands'[i] = commands[i]
    BY <1>1, <1>2, <1>3, <1>4
  <1>6. \A i \in 1..Len(t) : commands'[l + i] = t[i]
    BY <1>1, <1>2, <1>3, <1>4
  <1> QED BY <1>1, <1>2, <1>3, <1>4, <1>5, <1>6

LEMMA EventNext == ASSUME CacheInv, OnEvent PROVE CacheInv'
  <1> DEFINE k == pos + 1
             t == t_user(k)
             l == Len(commands)
  <1>1. /\ pos \in Nat /\ saved \in Nat /\ saved <= pos /\ Len(binlog) \in Nat
        /\ k \in 1..Len(binlog) /\ l \in Nat
    BY LogType DEF CacheInv, TypeOK, OnEvent
  <1>2. /\ pos' = k
        /\ UNCHANGED <<table, binlog, moved, saved, restarts, again, cache>>
    BY DEF OnEvent, mysql
  <1>3. /\ t \in Seq(Commands) /\ Len(t) \in Nat
        /\ \A i \in 1..Len(t) :
              Asks(t[i], k) /\ t[i].id = binlog[k].id /\ t[i].row = Effect(k)
        /\ \A f \in Fields : \E i \in 1..Len(t) : Sets(t[i], binlog[k].id, f)
    <2>1. /\ t \in Seq(Commands) /\ Len(t) \in Nat
          /\ \A i \in 1..Len(t) : Asks(t[i], k)
          /\ \A f \in Fields : \E i \in 1..Len(t) : Sets(t[i], binlog[k].id, f)
      BY EventAppends
    <2> HIDE DEF t, k
    <2>2. \A i \in 1..Len(t) : t[i].id = binlog[k].id /\ t[i].row = Effect(k)
      BY <2>1, Zenon DEF Asks
    <2> QED BY <2>1, <2>2
  <1>4. /\ commands' \in Seq(Commands) /\ Len(commands') = l + Len(t)
        /\ \A i \in 1..l : commands'[i] = commands[i]
        /\ \A i \in 1..Len(t) : commands'[l + i] = t[i]
    BY EventAppends
  <1> HIDE DEF t, l
  <1>5. TypeOK'
    BY <1>1, <1>2, <1>4 DEF CacheInv, TypeOK
  <1>6. TableLogged' /\ Len(binlog') <= MaxChanges
    BY <1>2 DEF CacheInv, TableLogged, Untouched, IsLast, Effect
  <1>7. FromLog'
    <2> SUFFICES ASSUME NEW i \in 1..(l + Len(t))
                 PROVE  \E m \in (saved + 1)..k : Asks(commands'[i], m)
      BY <1>2, <1>4 DEF FromLog, Asks, Effect
    <2>1. CASE i \in 1..l
      <3>1. PICK m \in (saved + 1)..pos : Asks(commands[i], m)
        BY <2>1 DEF CacheInv, FromLog, l
      <3>2. m \in (saved + 1)..k
        BY <1>1
      <3> QED BY <1>4, <2>1, <3>1, <3>2
    <2>2. CASE i \notin 1..l
      <3>1. i - l \in 1..Len(t) /\ i = l + (i - l)
        BY <1>1, <1>3, <2>2
      <3>2. Asks(commands'[i], k)
        BY <1>3, <1>4, <3>1
      <3>3. k \in (saved + 1)..k
        BY <1>1
      <3> QED BY <3>2, <3>3
    <2> QED BY <2>1, <2>2
  <1>8. Applied'
    <2> SUFFICES ASSUME NEW id \in Ids, NEW f \in Fields
                 PROVE  /\ Untouched(id) => cache[id][f] = None
                        /\ \A m \in 1..Len(binlog) : IsLast(id, m) =>
                              /\ m <= k => Settled(id, f, Effect(m))'
                              /\ m <= saved => cache[id][f] = Effect(m)
      <3>1. \A m \in 1..Len(binlog) : Effect(m)' = Effect(m)
        BY <1>2 DEF Effect
      <3>2. \A id \in Ids : /\ Untouched(id)' <=> Untouched(id)
                            /\ \A m \in 1..Len(binlog) : IsLast(id, m)' <=> IsLast(id, m)
        BY <1>2 DEF Untouched, IsLast
      <3> HIDE DEF k
      <3> QED BY <1>2, <3>1, <3>2 DEF Applied
    <2>1. /\ Untouched(id) => cache[id][f] = None
          /\ \A m \in 1..Len(binlog) : IsLast(id, m) =>
                /\ m <= pos => Settled(id, f, Effect(m))
                /\ m <= saved => cache[id][f] = Effect(m)
      BY DEF CacheInv, Applied
    <2>2. ASSUME NEW m \in 1..Len(binlog), IsLast(id, m), m <= k
          PROVE  Settled(id, f, Effect(m))'
      <3> DEFINE v == Effect(m)
      <3>1. v' = v
        BY <1>2 DEF Effect
      <3> HIDE DEF v
      <3>2. CASE m = k
        <4>1. PICK i \in 1..Len(t) : Sets(t[i], id, f)
          BY <1>3, <2>2, <3>2 DEF IsLast
        <4>2. l + i \in 1..(l + Len(t)) /\ Sets(commands'[l + i], id, f)
          <5>1. l + i \in 1..(l + Len(t))
            BY <1>1, <1>3
          <5>2. commands'[l + i] = t[i]
            BY <1>4
          <5> QED BY <4>1, <5>1, <5>2 DEF Sets
        <4>3. ASSUME NEW j \in 1..(l + Len(t)),
                     \A h \in (j + 1)..(l + Len(t)) : ~Sets(commands'[h], id, f)
              PROVE  commands'[j].row = v
          <5>1. ~(j < l + i)
            BY <1>1, <1>3, <4>2, <4>3
          <5>2. j - l \in 1..Len(t) /\ j = l + (j - l)
            BY <1>1, <1>3, <5>1
          <5> QED BY <1>3, <1>4, <3>2, <5>2 DEF v
        <4> QED BY <1>4, <3>1, <4>2, <4>3 DEF Settled, Sets, v
      <3>3. CASE m /= k
        <4>1. m <= pos /\ binlog[k].id /= id
          BY <1>1, <2>2, <3>3 DEF IsLast
        <4>2. Settled(id, f, v)
          BY <2>1, <2>2, <4>1 DEF v
        <4>3. \A i \in 1..Len(t) : ~Sets(commands'[l + i], id, f)
          BY <1>3, <1>4, <4>1 DEF Sets
        <4>4. \A i \in 1..(l + Len(t)) : i \notin 1..l => ~Sets(commands'[i], id, f)
          <5> SUFFICES ASSUME NEW i \in 1..(l + Len(t)), i \notin 1..l
                       PROVE  ~Sets(commands'[i], id, f)
            OBVIOUS
          <5>1. i - l \in 1..Len(t) /\ i = l + (i - l)
            BY <1>1, <1>3
          <5> QED BY <4>3, <5>1
        <4>5. ASSUME NEW i \in 1..(l + Len(t)), Sets(commands'[i], id, f),
                     \A j \in (i + 1)..(l + Len(t)) : ~Sets(commands'[j], id, f)
              PROVE  commands'[i].row = v
          <5>1. i \in 1..l
            BY <4>4, <4>5
          <5>2. Sets(commands[i], id, f) /\ commands'[i].row = commands[i].row
            BY <1>4, <4>5, <5>1
          <5>3. \A j \in (i + 1)..l : ~Sets(commands[j], id, f)
            <6> SUFFICES ASSUME NEW j \in (i + 1)..l PROVE ~Sets(commands[j], id, f)
              OBVIOUS
            <6>1. j \in 1..l /\ j \in (i + 1)..(l + Len(t))
              BY <1>1, <1>3, <5>1
            <6> QED BY <1>4, <4>5, <6>1
          <5> QED BY <4>2, <5>1, <5>2, <5>3 DEF Settled, l
        <4>6. ASSUME \A i \in 1..(l + Len(t)) : ~Sets(commands'[i], id, f)
              PROVE  cache[id][f] = v
          <5>1. \A i \in 1..l : ~Sets(commands[i], id, f)
            BY <1>1, <1>3, <1>4, <4>6
          <5> QED BY <4>2, <5>1 DEF Settled, l
        <4> QED BY <1>2, <1>4, <3>1, <4>5, <4>6 DEF Settled, Sets, v
      <3> QED BY <3>2, <3>3
    <2> QED BY <2>1, <2>2
  <1> QED BY <1>5, <1>6, <1>7, <1>8 DEF CacheInv

\* Redis executes the first of the commands that wait.
LEMMA ExecuteFirst ==
    ASSUME CacheInv, Execute
    PROVE  /\ 1 \in 1..Len(commands) /\ Len(commands') = Len(commands) - 1
           /\ commands' \in Seq(Commands)
           /\ \A i \in 1..(Len(commands) - 1) : commands'[i] = commands[i + 1]
           /\ UNCHANGED <<table, binlog, moved, pos, saved, restarts, again>>
           /\ cache' \in [Ids -> [Fields -> 0..Len(binlog)]]
           /\ \A id \in Ids, f \in Fields :
                 cache'[id][f] = IF Sets(commands[1], id, f) THEN commands[1].row ELSE cache[id][f]
           /\ commands[1].op = "DEL" => cache'[commands[1].id] = Whole(None)
           /\ commands[1] \in Commands
  <1> DEFINE c == commands[1]
             l == Len(commands)
  <1>1. /\ Len(binlog) \in Nat /\ l \in Nat /\ 1 <= l
        /\ commands \in Seq(Commands) /\ c \in Commands
        /\ cache \in [Ids -> [Fields -> 0..Len(binlog)]]
        /\ saved \in Nat /\ pos \in Nat /\ pos <= Len(binlog)
    BY LogType, EmptySeq DEF CacheInv, TypeOK, Execute
  <1>2. Head(commands) = c
    BY <1>1
  <1>3. /\ cache' = [cache EXCEPT ![c.id] = IF c.op = "HSET" THEN [cache[c.id] EXCEPT ![c.field] = c.row]
                                            ELSE Whole(None)]
        /\ commands' = Tail(commands)
        /\ UNCHANGED <<table, binlog, moved, pos, saved, restarts, again>>
    BY <1>2 DEF Execute, mysql
  <1>4. /\ commands' \in Seq(Commands) /\ Len(commands') = l - 1
        /\ \A i \in 1..(l - 1) : commands'[i] = commands[i + 1]
    <2>1. commands /= <<>>
      BY DEF Execute
    <2>2. /\ Tail(commands) \in Seq(Commands) /\ Len(Tail(commands)) = Len(commands) - 1
          /\ \A i \in 1..Len(Tail(commands)) : Tail(commands)[i] = commands[i + 1]
      BY <1>1, <2>1, HeadTailProperties
    <2> QED BY <1>3, <2>2
  <1>5. c.row \in 0..Len(binlog) /\ (c.op = "DEL" => c.row = None)
    <2>1. PICK k \in (saved + 1)..pos : Asks(c, k)
      BY <1>1 DEF CacheInv, FromLog
    <2>2. k \in 1..Len(binlog)
      BY <1>1
    <2> QED BY <2>1, <2>2, LogType DEF Asks, Effect, CacheInv
  <1>6. c.id \in Ids /\ c.field \in Fields /\ c.op \in {"HSET", "DEL"} /\ None \in 0..Len(binlog)
    BY <1>1 DEF Commands, None
  <1> HIDE DEF c, l
  <1>7. Whole(None) \in [Fields -> 0..Len(binlog)] /\ \A f \in Fields : Whole(None)[f] = None
    BY <1>6 DEF Whole
  <1>8. CASE c.op = "HSET"
    <2>1. cache' = [cache EXCEPT ![c.id] = [cache[c.id] EXCEPT ![c.field] = c.row]]
      BY <1>3, <1>8
    <2>2. cache' \in [Ids -> [Fields -> 0..Len(binlog)]]
      BY <1>1, <1>5, <1>6, <2>1
    <2>3. \A id \in Ids, f \in Fields :
             cache'[id][f] = IF Sets(c, id, f) THEN c.row ELSE cache[id][f]
      BY <1>1, <1>6, <1>8, <2>1 DEF Sets
    <2> QED BY <1>1, <1>3, <1>4, <1>8, <2>2, <2>3 DEF c, l
  <1>9. CASE c.op = "DEL"
    <2>1. cache' = [cache EXCEPT ![c.id] = Whole(None)]
      BY <1>3, <1>9
    <2>2. cache' \in [Ids -> [Fields -> 0..Len(binlog)]] /\ cache'[c.id] = Whole(None)
      BY <1>1, <1>6, <1>7, <2>1
    <2>3. \A id \in Ids, f \in Fields :
             cache'[id][f] = IF Sets(c, id, f) THEN c.row ELSE cache[id][f]
      BY <1>1, <1>5, <1>6, <1>7, <1>9, <2>1 DEF Sets
    <2> QED BY <1>1, <1>3, <1>4, <2>2, <2>3 DEF c, l
  <1> QED BY <1>6, <1>8, <1>9

LEMMA ExecuteNext == ASSUME CacheInv, Execute PROVE CacheInv'
  <1> DEFINE c == commands[1]
             l == Len(commands)
  <1>1. /\ 1 \in 1..l /\ l \in Nat /\ Len(commands') = l - 1
        /\ commands' \in Seq(Commands)
        /\ \A i \in 1..(l - 1) : commands'[i] = commands[i + 1]
        /\ UNCHANGED <<table, binlog, moved, pos, saved, restarts, again>>
        /\ cache' \in [Ids -> [Fields -> 0..Len(binlog)]]
        /\ \A id \in Ids, f \in Fields :
              cache'[id][f] = IF Sets(c, id, f) THEN c.row ELSE cache[id][f]
    BY ExecuteFirst, LogType DEF CacheInv
  <1> HIDE DEF c, l
  <1>2. TypeOK'
    BY <1>1 DEF CacheInv, TypeOK
  <1>3. TableLogged' /\ Len(binlog') <= MaxChanges
    BY <1>1 DEF CacheInv, TableLogged, Untouched, IsLast, Effect
  <1>4. FromLog'
    <2> SUFFICES ASSUME NEW i \in 1..(l - 1)
                 PROVE  \E k \in (saved + 1)..pos : Asks(commands'[i], k)
      BY <1>1 DEF FromLog, Asks, Effect
    <2>1. i + 1 \in 1..l
      BY <1>1
    <2>2. \E k \in (saved + 1)..pos : Asks(commands[i + 1], k)
      BY <2>1 DEF CacheInv, FromLog, l
    <2> QED BY <1>1, <2>2
  <1>5. Applied'
    <2>1. \A k \in 1..Len(binlog) : Effect(k)' = Effect(k)
      BY <1>1 DEF Effect
    <2>2. \A id \in Ids : /\ Untouched(id)' <=> Untouched(id)
                          /\ \A k \in 1..Len(binlog) : IsLast(id, k)' <=> IsLast(id, k)
      BY <1>1 DEF Untouched, IsLast
    <2> SUFFICES ASSUME NEW id \in Ids, NEW f \in Fields
                 PROVE  /\ Untouched(id) => cache'[id][f] = None
                        /\ \A k \in 1..Len(binlog) : IsLast(id, k) =>
                              /\ k <= pos => Settled(id, f, Effect(k))'
                              /\ k <= saved => cache'[id][f] = Effect(k)
      BY <1>1, <2>1, <2>2 DEF Applied
    <2>3. /\ Untouched(id) => cache[id][f] = None
          /\ \A k \in 1..Len(binlog) : IsLast(id, k) =>
                /\ k <= pos => Settled(id, f, Effect(k))
                /\ k <= saved => cache[id][f] = Effect(k)
      BY DEF CacheInv, Applied
    <2>4. PICK m \in (saved + 1)..pos : m \in 1..Len(binlog) /\ binlog[m].id = c.id
      <3>1. PICK m \in (saved + 1)..pos : Asks(c, m)
        BY <1>1 DEF CacheInv, FromLog, c, l
      <3>2. m \in 1..Len(binlog)
        BY LogType DEF CacheInv
      <3> QED BY <3>1, <3>2 DEF Asks
    <2>5. ASSUME Untouched(id) PROVE cache'[id][f] = None
      BY <1>1, <2>3, <2>4, <2>5 DEF Untouched, Sets
    <2>6. ASSUME NEW k \in 1..Len(binlog), IsLast(id, k), k <= saved
          PROVE  cache'[id][f] = Effect(k)
      <3>1. c.id /= id
        <4>1. m \in (k + 1)..Len(binlog)
          BY <2>4, <2>6, LogType DEF CacheInv
        <4> QED BY <2>4, <2>6, <4>1 DEF IsLast
      <3> QED BY <1>1, <2>3, <2>6, <3>1 DEF Sets
    <2>7. ASSUME NEW k \in 1..Len(binlog), IsLast(id, k), k <= pos
          PROVE  Settled(id, f, Effect(k))'
      <3> DEFINE v == Effect(k)
      <3>1. v' = v
        BY <2>1
      <3>2. Settled(id, f, v)
        BY <2>3, <2>7
      <3> HIDE DEF v
      <3>3. ASSUME NEW i \in 1..(l - 1), Sets(commands'[i], id, f),
                   \A j \in (i + 1)..(l - 1) : ~Sets(commands'[j], id, f)
            PROVE  commands'[i].row = v
        <4>1. i + 1 \in 1..l /\ Sets(commands[i + 1], id, f)
          BY <1>1, <3>3
        <4>2. ASSUME NEW j \in (i + 1 + 1)..l PROVE ~Sets(commands[j], id, f)
          <5>1. j - 1 \in (i + 1)..(l - 1) /\ j - 1 \in 1..(l - 1) /\ (j - 1) + 1 = j
            BY <1>1, <4>1
          <5> QED BY <1>1, <3>3, <5>1
        <4>3. commands[i + 1].row = v
          BY <3>2, <4>1, <4>2 DEF Settled, l
        <4> QED BY <1>1, <4>3
      <3>4. ASSUME \A i \in 1..(l - 1) : ~Sets(commands'[i], id, f)
            PROVE  cache'[id][f] = v
        <4>1. ASSUME NEW j \in 2..l PROVE ~Sets(commands[j], id, f)
          <5>1. j - 1 \in 1..(l - 1) /\ (j - 1) + 1 = j
            BY <1>1
          <5> QED BY <1>1, <3>4, <5>1
        <4>2. CASE Sets(c, id, f)
          <5>1. c.row = v
            <6>1. 1 + 1 = 2 /\ 1 \in 1..Len(commands)
              BY <1>1 DEF l
            <6> QED BY <3>2, <4>1, <4>2, <6>1 DEF Settled, c, l
          <5> QED BY <1>1, <4>2, <5>1
        <4>3. CASE ~Sets(c, id, f)
          <5>1. \A j \in 1..l : ~Sets(commands[j], id, f)
            BY <1>1, <4>1, <4>3 DEF c
          <5>2. cache[id][f] = v
            BY <3>2, <5>1 DEF Settled, l
          <5> QED BY <1>1, <4>3, <5>2
        <4> QED BY <4>2, <4>3
      <3> QED BY <1>1, <3>1, <3>3, <3>4 DEF Settled, Sets, v
    <2> QED BY <2>5, <2>6, <2>7
  <1> QED BY <1>2, <1>3, <1>4, <1>5 DEF CacheInv

LEMMA SaveNext == ASSUME CacheInv, Save PROVE CacheInv'
  <1>1. /\ saved' = pos /\ commands = <<>> /\ Len(commands) = 0
        /\ UNCHANGED <<table, binlog, moved, pos, commands, restarts, again, cache>>
    BY DEF Save, mysql
  <1>2. pos \in Nat /\ saved \in Nat /\ saved <= pos /\ Len(binlog) \in Nat
    BY LogType DEF CacheInv
  <1>3. TypeOK'
    BY <1>1, <1>2 DEF CacheInv, TypeOK
  <1>4. TableLogged' /\ Len(binlog') <= MaxChanges
    BY <1>1 DEF CacheInv, TableLogged, Untouched, IsLast, Effect
  <1>5. FromLog'
    BY <1>1 DEF FromLog
  <1>6. Applied'
    <2>1. \A id \in Ids, f \in Fields, k \in 1..Len(binlog) :
             /\ Effect(k)' = Effect(k)
             /\ Settled(id, f, Effect(k))' <=> Settled(id, f, Effect(k))
             /\ Settled(id, f, Effect(k)) => cache[id][f] = Effect(k)
      BY <1>1 DEF Settled, Effect
    <2>2. \A id \in Ids : /\ Untouched(id)' <=> Untouched(id)
                          /\ \A k \in 1..Len(binlog) : IsLast(id, k)' <=> IsLast(id, k)
      BY <1>1 DEF Untouched, IsLast
    <2> QED BY <1>1, <2>1, <2>2 DEF CacheInv, Applied
  <1> QED BY <1>3, <1>4, <1>5, <1>6 DEF CacheInv

LEMMA RestartNext == ASSUME CacheInv, Restart PROVE CacheInv'
  <1>1. /\ pos' = saved /\ commands' = <<>> /\ Len(commands') = 0
        /\ again' \in {pos, again} /\ restarts < MaxRestarts /\ restarts' = restarts + 1
        /\ UNCHANGED <<table, binlog, moved, saved, cache>>
    BY DEF Restart, mysql
  <1>2. pos \in Nat /\ saved \in Nat /\ saved <= pos /\ pos <= Len(binlog) /\ Len(binlog) \in Nat
    BY LogType DEF CacheInv
  <1>3. TypeOK'
    <2>1. commands' \in Seq(Commands)
      BY <1>1
    <2>2. restarts' \in 0..MaxRestarts
      BY <1>1, CacheAssumption DEF CacheInv, TypeOK
    <2>3. again' \in 0..Len(binlog) /\ saved' \in 0..pos' /\ pos' \in 0..Len(binlog)
      BY <1>1, <1>2 DEF CacheInv, TypeOK
    <2> QED BY <1>1, <2>1, <2>2, <2>3 DEF CacheInv, TypeOK
  <1>4. TableLogged' /\ Len(binlog') <= MaxChanges
    BY <1>1 DEF CacheInv, TableLogged, Untouched, IsLast, Effect
  <1>5. FromLog'
    BY <1>1 DEF FromLog
  <1>6. Applied'
    <2>1. \A id \in Ids, f \in Fields, k \in 1..Len(binlog) :
             /\ Effect(k)' = Effect(k)
             /\ cache[id][f] = Effect(k) => Settled(id, f, Effect(k))'
      BY <1>1 DEF Settled, Effect
    <2>2. \A id \in Ids : /\ Untouched(id)' <=> Untouched(id)
                          /\ \A k \in 1..Len(binlog) : IsLast(id, k)' <=> IsLast(id, k)
      BY <1>1 DEF Untouched, IsLast
    <2> QED BY <1>1, <2>1, <2>2 DEF CacheInv, Applied
  <1> QED BY <1>3, <1>4, <1>5, <1>6 DEF CacheInv

LEMMA CacheNext == CacheInv /\ [Next]_vars => CacheInv'
  <1>1. CASE UNCHANGED vars
    BY <1>1 DEF vars, mysql, transfer, CacheInv, TypeOK, TableLogged, FromLog, Applied, Settled,
                Untouched, IsLast, Effect, Asks, Sets
  <1> QED BY <1>1, ChangeNext, EventNext, ExecuteNext, SaveNext, RestartNext DEF Next

THEOREM CacheInvariant == Spec => []CacheInv
  BY CacheInit, CacheNext, PTL DEF Spec

\* Positions stay within the log, and fields hold rows of it (app.yml:36-93).
THEOREM CacheTyped == Spec => []TypeOK
  <1>1. CacheInv => TypeOK
    BY DEF CacheInv
  <1> QED BY <1>1, CacheInvariant, PTL

\* When all events have been applied only moved rows are stale (t_user.lua:6-22).
THEOREM OnlyMovedAreStale == Spec => []StaleIsMoved
  <1>1. CacheInv => StaleIsMoved
    <2> SUFFICES ASSUME CacheInv, pos = Len(binlog), commands = <<>>
                 PROVE  Stale = moved
      BY DEF StaleIsMoved
    <2>1. /\ Len(binlog) \in Nat /\ Len(commands) = 0 /\ cache \in [Ids -> [Fields -> 0..Len(binlog)]]
          /\ moved \subseteq Ids
      BY LogType DEF CacheInv, TypeOK
    <2>2. "id" \in Fields
      BY DEF Fields, Columns
    <2>3. ASSUME NEW id \in Ids PROVE cache[id] = Whole(table[id]) <=> id \notin moved
      <3>1. CASE Untouched(id)
        <4>1. \A f \in Fields : cache[id][f] = table[id]
          BY <3>1 DEF CacheInv, Applied, TableLogged
        <4>2. id \notin moved
          BY <3>1 DEF CacheInv, TableLogged
        <4> QED BY <2>1, <4>1, <4>2 DEF Whole
      <3>2. CASE ~Untouched(id)
        <4>1. PICK k \in 1..Len(binlog) : IsLast(id, k)
          BY <3>2 DEF CacheInv, TableLogged
        <4>2. \A f \in Fields : cache[id][f] = Effect(k)
          <5>1. k <= pos
            BY <2>1
          <5>2. \A f \in Fields : Settled(id, f, Effect(k))
            BY <4>1, <5>1 DEF CacheInv, Applied
          <5> QED BY <2>1, <5>2 DEF Settled
        <4>3. CASE id \in moved
          <5>1. table[id] = None /\ Effect(k) /= None
            BY <4>1, <4>3 DEF CacheInv, TableLogged
          <5>2. cache[id]["id"] /= Whole(table[id])["id"]
            BY <2>2, <4>2, <5>1 DEF Whole
          <5> QED BY <4>3, <5>2
        <4>4. CASE id \notin moved
          <5>1. table[id] = Effect(k)
            BY <4>1, <4>4 DEF CacheInv, TableLogged
          <5> QED BY <2>1, <4>2, <4>4, <5>1 DEF Whole
        <4> QED BY <4>3, <4>4
      <3> QED BY <3>1, <3>2
    <2> QED BY <2>1, <2>3 DEF Stale
  <1> QED BY <1>1, CacheInvariant, PTL

\* A torn hash is always on its way to be whole (t_user.lua:13-17).
THEOREM TornRowsAreRepaired == Spec => []TornIsRepaired
  <1>1. CacheInv => TornIsRepaired
    <2> SUFFICES ASSUME CacheInv, NEW id \in Ids,
                        \A i \in DOMAIN commands : commands[i].id /= id,
                        \A k \in (pos + 1)..Len(binlog) : binlog[k].id /= id
                 PROVE  \E row \in 0..Len(binlog) : cache[id] = Whole(row)
      BY DEF TornIsRepaired
    <2>1. /\ Len(binlog) \in Nat /\ pos \in Nat /\ pos <= Len(binlog)
          /\ DOMAIN commands = 1..Len(commands) /\ cache \in [Ids -> [Fields -> 0..Len(binlog)]]
      BY LogType DEF CacheInv, TypeOK
    <2>2. CASE Untouched(id)
      <3>1. \A f \in Fields : cache[id][f] = None
        BY <2>2 DEF CacheInv, Applied
      <3> QED BY <2>1, <3>1 DEF Whole, None
    <2>3. CASE ~Untouched(id)
      <3>1. PICK k \in 1..Len(binlog) : IsLast(id, k)
        BY <2>3 DEF CacheInv, TableLogged
      <3>2. k <= pos
        BY <2>1, <3>1 DEF IsLast
      <3>3. \A f \in Fields : Settled(id, f, Effect(k))
        BY <3>1, <3>2 DEF CacheInv, Applied
      <3>4. \A f \in Fields : cache[id][f] = Effect(k)
        BY <2>1, <3>3 DEF Settled, Sets
      <3>5. Effect(k) \in 0..Len(binlog)
        BY LogType DEF CacheInv
      <3> QED BY <2>1, <3>4, <3>5 DEF Whole
    <2> QED BY <2>2, <2>3
  <1> QED BY <1>1, CacheInvariant, PTL

-----------------------------------------------------------------------------
(* What readers see.                                                       *)

\* Rows are set in the order of their numbers, and nothing is older than what is
\* in the cache, but for what comes again.
ReadInv ==
    /\ \A i, j \in 1..Len(commands) :
          (i < j /\ commands[i].op = "HSET" /\ commands[j].op = "HSET")
             => commands[i].row <= commands[j].row
    /\ \A i \in 1..Len(commands) : commands[i].row <= pos
    /\ \A id \in Ids, f \in Fields :
          \/ cache[id][f] <= again
          \/ /\ cache[id][f] <= pos
             /\ \A i \in 1..Len(commands) :
                   commands[i].op = "HSET" => cache[id][f] <= commands[i].row

LEMMA ReadInit == Init => ReadInv
  <1> SUFFICES ASSUME Init PROVE ReadInv
    OBVIOUS
  <1>1. Len(commands) = 0
    BY DEF Init
  <1>2. \A id \in Ids, f \in Fields : cache[id][f] <= again
    BY DEF Init, Whole, None
  <1> QED BY <1>1, <1>2 DEF ReadInv

LEMMA CacheRows == ASSUME CacheInv
                   PROVE  /\ again \in Nat /\ pos \in Nat /\ Len(commands) \in Nat
                          /\ \A id \in Ids, f \in Fields : cache[id][f] \in Nat
                          /\ \A i \in 1..Len(commands) :
                                /\ commands[i].row \in Nat /\ commands[i].op \in {"HSET", "DEL"}
                                /\ commands[i].id \in Ids
  <1>1. \A i \in 1..Len(commands) : commands[i] \in Commands
    BY LogType DEF CacheInv
  <1>2. again \in 0..Len(binlog) /\ cache \in [Ids -> [Fields -> 0..Len(binlog)]]
    BY DEF CacheInv, TypeOK
  <1> QED BY <1>1, <1>2, LogType DEF CacheInv, Commands

LEMMA ReadEvent == ASSUME CacheInv, ReadInv, OnEvent PROVE ReadInv'
  <1> DEFINE k == pos + 1
             t == t_user(k)
             l == Len(commands)
  <1>1. /\ k \in 1..Len(binlog) /\ l \in Nat /\ pos' = k /\ again' = again /\ cache' = cache
        /\ Len(t) \in Nat /\ \A i \in 1..Len(t) : Asks(t[i], k)
        /\ Len(commands') = l + Len(t)
        /\ \A i \in 1..l : commands'[i] = commands[i]
        /\ \A i \in 1..Len(t) : commands'[l + i] = t[i]
    BY EventAppends
  <1>2. /\ again \in Nat /\ pos \in Nat
        /\ \A id \in Ids, f \in Fields : cache[id][f] \in Nat
        /\ \A i \in 1..l : commands[i].row \in Nat
    BY CacheRows
  <1> HIDE DEF t, l
  <1>3. \A i \in 1..l : commands[i].row <= pos
    BY DEF ReadInv, l
  <1>4. ASSUME NEW i \in 1..(l + Len(t)), i \notin 1..l
        PROVE  commands'[i].row \in 0..k /\ (commands'[i].op = "HSET" => commands'[i].row = k)
    <2>1. i - l \in 1..Len(t) /\ i = l + (i - l)
      BY <1>1, <1>4
    <2>2. Asks(commands'[i], k)
      BY <1>1, <2>1
    <2>3. Effect(k) \in {None, k} /\ (binlog[k].action /= "delete" => Effect(k) = k)
      BY DEF Effect
    <2> HIDE DEF k
    <2> QED BY <1>1, <2>2, <2>3 DEF Asks, None
  <1>5. ASSUME NEW i \in 1..(l + Len(t)), NEW j \in 1..(l + Len(t)), i < j,
               commands'[i].op = "HSET", commands'[j].op = "HSET"
        PROVE  commands'[i].row <= commands'[j].row
    <2>1. CASE j \in 1..l
      <3>1. i \in 1..l
        BY <1>1, <1>5, <2>1
      <3> QED BY <1>1, <1>5, <2>1, <3>1 DEF ReadInv, l
    <2>2. CASE j \notin 1..l
      <3>1. commands'[j].row = k
        BY <1>4, <1>5, <2>2
      <3>2. CASE i \in 1..l
        <4>1. commands'[i].row = commands[i].row
          BY <1>1, <3>2
        <4>2. commands[i].row \in Nat /\ commands[i].row <= pos
          BY <1>2, <1>3, <3>2
        <4>3. commands[i].row <= k
          BY <1>2, <4>2
        <4> HIDE DEF k
        <4> QED BY <3>1, <4>1, <4>3
      <3>3. CASE i \notin 1..l
        <4>1. commands'[i].row = k
          BY <1>4, <1>5, <3>3
        <4>2. k \in Nat /\ k <= k
          BY <1>2
        <4> HIDE DEF k
        <4> QED BY <3>1, <4>1, <4>2
      <3> QED BY <3>2, <3>3
    <2> QED BY <2>1, <2>2
  <1>6. ASSUME NEW i \in 1..(l + Len(t)) PROVE commands'[i].row <= k
    BY <1>1, <1>2, <1>3, <1>4, SMTT(30)
  <1>7. ASSUME NEW id \in Ids, NEW f \in Fields, ~(cache[id][f] <= again)
        PROVE  /\ cache[id][f] <= k
               /\ \A i \in 1..(l + Len(t)) :
                     commands'[i].op = "HSET" => cache[id][f] <= commands'[i].row
    <2>1. /\ cache[id][f] <= pos /\ cache[id][f] \in Nat
          /\ \A i \in 1..l : commands[i].op = "HSET" => cache[id][f] <= commands[i].row
      BY <1>2, <1>7 DEF ReadInv, l
    <2> QED BY <1>1, <1>2, <1>4, <2>1
  <1> QED BY <1>1, <1>5, <1>6, <1>7 DEF ReadInv

LEMMA ReadExecute == ASSUME CacheInv, ReadInv, Execute PROVE ReadInv'
  <1> DEFINE c == commands[1]
             l == Len(commands)
  <1>1. /\ 1 \in 1..l /\ l \in Nat /\ Len(commands') = l - 1
        /\ \A i \in 1..(l - 1) : commands'[i] = commands[i + 1] /\ i + 1 \in 1..l /\ 1 < i + 1
        /\ pos' = pos /\ again' = again
        /\ \A id \in Ids, f \in Fields :
              cache'[id][f] = IF Sets(c, id, f) THEN c.row ELSE cache[id][f]
    BY ExecuteFirst, CacheRows
  <1>2. /\ again \in Nat /\ pos \in Nat
        /\ \A i \in 1..l : commands[i].row \in Nat /\ commands[i].op \in {"HSET", "DEL"}
    BY CacheRows
  <1>3. c.op = "DEL" => c.row = None
    <2>1. \E k \in (saved + 1)..pos : Asks(c, k)
      BY <1>1 DEF CacheInv, FromLog
    <2> QED BY <2>1 DEF Asks, Effect
  <1> HIDE DEF c, l
  <1>4. \A i, j \in 1..(l - 1) :
           (i < j /\ commands'[i].op = "HSET" /\ commands'[j].op = "HSET")
              => commands'[i].row <= commands'[j].row
    BY <1>1 DEF ReadInv, l
  <1>5. \A i \in 1..(l - 1) : commands'[i].row <= pos
    BY <1>1 DEF ReadInv, l
  <1>6. ASSUME NEW id \in Ids, NEW f \in Fields
        PROVE  \/ cache'[id][f] <= again
               \/ /\ cache'[id][f] <= pos
                  /\ \A i \in 1..(l - 1) :
                        commands'[i].op = "HSET" => cache'[id][f] <= commands'[i].row
    <2>1. CASE ~Sets(c, id, f)
      BY <1>1, <2>1 DEF ReadInv, l
    <2>2. CASE Sets(c, id, f) /\ c.op = "DEL"
      BY <1>1, <1>2, <1>3, <2>2 DEF None
    <2>3. CASE Sets(c, id, f) /\ c.op = "HSET"
      BY <1>1, <2>3 DEF ReadInv, l, c
    <2> QED BY <1>1, <1>2, <2>1, <2>2, <2>3 DEF c
  <1> QED BY <1>1, <1>4, <1>5, <1>6 DEF ReadInv

LEMMA ReadNext == CacheInv /\ ReadInv /\ [Next]_vars => ReadInv'
  <1> SUFFICES ASSUME CacheInv, ReadInv, [Next]_vars PROVE ReadInv'
    OBVIOUS
  <1>1. CASE UNCHANGED vars
    BY <1>1 DEF vars, mysql, transfer, ReadInv
  <1>2. CASE Change
    <2>1. UNCHANGED <<pos, again, commands, cache>>
      BY <1>2 DEF Change, Insert, Update, Move, Delete, Log, transfer
    <2> QED BY <2>1 DEF ReadInv
  <1>3. CASE Save
    BY <1>3 DEF Save, ReadInv
  <1>4. CASE Restart
    <2>1. Len(commands') = 0 /\ cache' = cache
      BY <1>4 DEF Restart
    <2>2. again' \in Nat /\ again <= again' /\ pos <= again'
      BY <1>4, CacheRows DEF Restart
    <2>3. \A id \in Ids, f \in Fields : cache[id][f] <= again'
      BY <2>2, CacheRows DEF ReadInv
    <2> QED BY <2>1, <2>3 DEF ReadInv
  <1> QED BY <1>1, <1>2, <1>3, <1>4, ReadEvent, ReadExecute DEF Next

\* No field goes back to an older row, but for deletions and events that come
\* again (t_user.lua:13-21).
THEOREM ReadersGoForward == Spec => ReadsGoForward
  <1> DEFINE P == \A id \in Ids, f \in Fields :
                     \/ cache'[id][f] >= cache[id][f]
                     \/ cache'[id] = Whole(None)
                     \/ cache'[id][f] <= again
  <1>1. CacheInv /\ ReadInv /\ [Next]_vars => [P]_vars
    <2> SUFFICES ASSUME CacheInv, ReadInv, Next PROVE P
      OBVIOUS
    <2>1. \A id \in Ids, f \in Fields : cache[id][f] \in Nat
      BY CacheRows
    <2>2. CASE Change \/ OnEvent \/ Save \/ Restart
      <3>1. cache' = cache
        BY <2>2 DEF Change, Insert, Update, Move, Delete, Log, OnEvent, Save, Restart
      <3> QED BY <2>1, <3>1
    <2>3. CASE Execute
      <3> SUFFICES ASSUME NEW id \in Ids, NEW f \in Fields
                   PROVE  \/ cache'[id][f] >= cache[id][f]
                          \/ cache'[id] = Whole(None)
                          \/ cache'[id][f] <= again
        OBVIOUS
      <3> DEFINE c == commands[1]
      <3>1. /\ 1 \in 1..Len(commands)
            /\ cache'[id][f] = IF Sets(c, id, f) THEN c.row ELSE cache[id][f]
            /\ c.op = "DEL" => cache'[c.id] = Whole(None)
        BY <2>3, ExecuteFirst
      <3>2. c.op \in {"HSET", "DEL"} /\ c.row \in Nat /\ again \in Nat /\ cache[id][f] \in Nat
        BY <3>1, CacheRows
      <3>3. CASE ~Sets(c, id, f)
        BY <3>1, <3>2, <3>3
      <3>4. CASE Sets(c, id, f) /\ c.op = "DEL"
        BY <3>1, <3>4 DEF Sets
      <3>5. CASE Sets(c, id, f) /\ c.op = "HSET"
        BY <3>1, <3>2, <3>5 DEF ReadInv
      <3> QED BY <3>2, <3>3, <3>4, <3>5
    <2> QED BY <2>2, <2>3 DEF Next
  <1>2. Spec => [][P]_vars
    BY <1>1, CacheInvariant, ReadInit, ReadNext, PTL DEF Spec
  <1> QED BY <1>2 DEF ReadsGoForward
=============================================================================
