------------------------------ MODULE CacheSync ------------------------------
(***************************************************************************)
(* t_user.lua: rows of the MySQL table user kept as Redis hashes user:<id>.*)
(* A transfer process reads the row events of the binary log and runs the  *)
(* script for each; the commands the script asks for go to Redis one by    *)
(* one, so that readers may come in between.  MySQL, the process and Redis *)
(* are outside the repository: what app.yml and the script use of them is  *)
(* modelled.                                                               *)
(*                                                                         *)
(* A row is the number of the event that wrote it, in all its columns.     *)
(***************************************************************************)
EXTENDS Naturals, Sequences

CONSTANTS Ids,          \* primary keys
          MaxChanges,   \* bound: changes to the table
          MaxRestarts   \* bound: restarts of the transfer process

ASSUME CacheAssumption == MaxChanges \in Nat /\ MaxRestarts \in Nat

VARIABLES
    \* MySQL
    table,      \* by id: its row, or None
    binlog,     \* the row events
    \* the transfer process
    pos,        \* how many events it has given to the script
    saved,      \* where it would start again
    commands,   \* what the script has asked of Redis, not yet executed
    \* Redis
    cache,      \* by id: the hash user:<id>, a row number for each field
    \* history
    moved,      \* ids of rows that an update has moved to another id
    restarts,
    again       \* events up to this one have been delivered before a restart

mysql    == <<table, binlog, moved>>
transfer == <<pos, saved, commands, restarts, again>>
vars     == <<mysql, transfer, cache>>

None == 0

\* In the order in which the script sets them.
Columns == <<"id", "nick", "sex", "height", "age">>
Fields  == {Columns[i] : i \in DOMAIN Columns}

\* The hash of a whole row; of None, no hash.
Whole(row) == [f \in Fields |-> row]

Init == /\ table = [id \in Ids |-> None] /\ binlog = <<>> /\ moved = {}
        /\ pos = 0 /\ saved = 0 /\ commands = <<>> /\ restarts = 0 /\ again = 0
        /\ cache = [id \in Ids |-> Whole(None)]
-----------------------------------------------------------------------------
(* Changes to the table.  The event of an update carries the new row only. *)

Log(action, id) ==
    /\ Len(binlog) < MaxChanges
    /\ binlog' = Append(binlog, [action |-> action, id |-> id])
    /\ UNCHANGED <<transfer, cache>>

NewRow == Len(binlog) + 1

Insert(id) == /\ table[id] = None
              /\ table' = [table EXCEPT ![id] = NewRow]
              /\ moved' = moved \ {id}
              /\ Log("insert", id)

Update(id) == /\ table[id] /= None
              /\ table' = [table EXCEPT ![id] = NewRow]
              /\ UNCHANGED moved
              /\ Log("update", id)

\* UPDATE ... SET id = new.
Move(id, new) == /\ table[id] /= None /\ table[new] = None
                 /\ table' = [table EXCEPT ![id] = None, ![new] = NewRow]
                 /\ moved' = (moved \cup {id}) \ {new}
                 /\ Log("update", new)

Delete(id) == /\ table[id] /= None
              /\ table' = [table EXCEPT ![id] = None]
              /\ UNCHANGED moved
              /\ Log("delete", id)
-----------------------------------------------------------------------------
(* The script. *)

HSET(id, field, row) == [op |-> "HSET", id |-> id, field |-> field, row |-> row]
DEL(id)              == [op |-> "DEL", id |-> id, field |-> "id", row |-> None]

\* Mutant: listens for insert only.
InsertOnly(k) ==
    LET id == binlog[k].id
    IN  IF binlog[k].action = "insert"
        THEN [i \in DOMAIN Columns |-> HSET(id, Columns[i], k)]
        ELSE IF binlog[k].action = "delete" THEN <<DEL(id)>> ELSE <<>>

\* Mutant: the last column is forgotten.
WithoutAge(k) ==
    LET id == binlog[k].id
    IN  IF binlog[k].action \in {"insert", "update"}
        THEN [i \in 1..4 |-> HSET(id, Columns[i], k)]
        ELSE <<DEL(id)>>

\* What t_user.lua asks of Redis for the k-th event.
t_user(k) ==
    LET id == binlog[k].id
    IN  IF binlog[k].action \in {"insert", "update"}
        THEN [i \in DOMAIN Columns |-> HSET(id, Columns[i], k)]
        ELSE <<DEL(id)>>
-----------------------------------------------------------------------------
(* The transfer process and Redis. *)

\* The script runs for the next event; commands wait to be sent in bulk.
OnEvent == /\ pos < Len(binlog)
           /\ pos' = pos + 1
           /\ commands' = commands \o t_user(pos + 1)
           /\ UNCHANGED <<mysql, saved, restarts, again, cache>>

\* Mutant: the last command asked for is the first to be executed.
ExecuteLast ==
    /\ commands /= <<>>
    /\ LET c == commands[Len(commands)]
       IN  cache' = [cache EXCEPT ![c.id] = IF c.op = "HSET" THEN [@ EXCEPT ![c.field] = c.row]
                                            ELSE Whole(None)]
    /\ commands' = SubSeq(commands, 1, Len(commands) - 1)
    /\ UNCHANGED <<mysql, pos, saved, restarts, again>>

\* Redis executes one command.
Execute ==
    /\ commands /= <<>>
    /\ LET c == Head(commands)
       IN  cache' = [cache EXCEPT ![c.id] = IF c.op = "HSET" THEN [@ EXCEPT ![c.field] = c.row]
                                            ELSE Whole(None)]
    /\ commands' = Tail(commands)
    /\ UNCHANGED <<mysql, pos, saved, restarts, again>>

\* Mutant: saves the position before the commands are executed.
SaveEarly == /\ saved' = pos
             /\ UNCHANGED <<mysql, pos, commands, restarts, again, cache>>

Save == /\ commands = <<>>
        /\ saved' = pos
        /\ UNCHANGED <<mysql, pos, commands, restarts, again, cache>>

\* Mutant: starts again one event too far.
RestartPast == /\ restarts < MaxRestarts
               /\ restarts' = restarts + 1
               /\ pos' = saved + 1
               /\ commands' = <<>>
               /\ again' = IF pos > again THEN pos ELSE again
               /\ UNCHANGED <<mysql, saved, cache>>

\* The process stops and starts again: events from saved on come once more.
Restart == /\ restarts < MaxRestarts
           /\ restarts' = restarts + 1
           /\ pos' = saved
           /\ commands' = <<>>
           /\ again' = IF pos > again THEN pos ELSE again
           /\ UNCHANGED <<mysql, saved, cache>>
-----------------------------------------------------------------------------
Change == \E id \in Ids : \/ Insert(id) \/ Update(id) \/ Delete(id)
                          \/ \E new \in Ids : Move(id, new)

Next == Change \/ OnEvent \/ Execute \/ Save \/ Restart

Spec == Init /\ [][Next]_vars

\* The process delivers what is in the log, and Redis executes what it is sent.
FairSpec == Spec /\ WF_vars(OnEvent) /\ WF_vars(Execute)
-----------------------------------------------------------------------------
(* Properties. *)

Commands == [op : {"HSET", "DEL"}, id : Ids, field : Fields, row : 0..MaxChanges]

TypeOK == /\ table \in [Ids -> 0..Len(binlog)]
          /\ binlog \in Seq([action : {"insert", "update", "delete"}, id : Ids])
          /\ moved \subseteq Ids /\ \A id \in moved : table[id] = None
          /\ saved \in 0..pos /\ pos \in 0..Len(binlog) /\ again \in 0..Len(binlog)
          /\ commands \in Seq(Commands)
          /\ cache \in [Ids -> [Fields -> 0..Len(binlog)]]
          /\ restarts \in 0..MaxRestarts

Stale == {id \in Ids : cache[id] /= Whole(table[id])}

\* Once every event has been applied, the hashes that differ from the table are
\* those of rows that were moved away from their id, and nothing will ever remove
\* them: also when events came twice, and half of a row before (t_user.lua:6-22).
StaleIsMoved == (pos = Len(binlog) /\ commands = <<>>) => Stale = moved

\* Fields of one hash come from different rows only as long as the rest of the
\* new row is on its way, also after a restart between two HSETs (t_user.lua:13-17).
TornIsRepaired ==
    \A id \in Ids :
        \/ \E row \in 0..Len(binlog) : cache[id] = Whole(row)
        \/ \E i \in DOMAIN commands : commands[i].id = id
        \/ \E k \in (pos + 1)..Len(binlog) : binlog[k].id = id

\* A reader never sees a field go back to an older row, but for a deletion and
\* while events come again after a restart (t_user.lua:13-21).
ReadsGoForward ==
    [][\A id \in Ids, f \in Fields :
           \/ cache'[id][f] >= cache[id][f]
           \/ cache'[id] = Whole(None)
           \/ cache'[id][f] <= again]_vars

\* When changes and restarts stop, the cache comes to be the table, but for rows
\* that were moved away (t_user.lua:6-22).
EventuallyInSync == <>[](Stale = moved)
=============================================================================
