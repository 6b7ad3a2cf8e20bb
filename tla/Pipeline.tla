------------------------------ MODULE Pipeline ------------------------------
(***************************************************************************)
(* What hiredis promises the user of an asynchronous context               *)
(* (hiredis/README.md:350-388): commands are pipelined; the callback of    *)
(* each runs once, in the order they were issued, with the reply to its    *)
(* own command; when the context fails, the callbacks still pending run    *)
(* with a NULL reply; nothing runs once the context is gone.  RedisAsync   *)
(* is checked to implement this module.                                    *)
(***************************************************************************)
EXTENDS Naturals, Sequences

CONSTANTS Num,      \* how many commands the user issues
          NoReply   \* the NULL reply

VARIABLES pending,  \* commands whose callbacks have not run, oldest first
          issued,   \* how many were issued
          called,   \* the callbacks run, with what they were given
          ended     \* "no", or how the context ended: "clean", "error"

vars == <<pending, issued, called, ended>>

Called(cmd, reply) == [cmd |-> cmd, reply |-> reply]

Init == pending = <<>> /\ issued = 0 /\ called = <<>> /\ ended = "no"

\* The k-th command is named k.
Issue == /\ ended = "no"
         /\ issued < Num
         /\ issued' = issued + 1
         /\ pending' = Append(pending, issued + 1)
         /\ UNCHANGED <<called, ended>>

Answer == /\ ended = "no"
          /\ pending /= <<>>
          /\ called' = Append(called, Called(Head(pending), Head(pending)))
          /\ pending' = Tail(pending)
          /\ UNCHANGED <<issued, ended>>

Disconnect == /\ ended = "no"
              /\ pending = <<>>
              /\ ended' = "clean"
              /\ UNCHANGED <<pending, issued, called>>

Fail == /\ ended = "no"
        /\ ended' = "error"
        /\ called' = called \o [i \in 1..Len(pending) |-> Called(pending[i], NoReply)]
        /\ pending' = <<>>
        /\ UNCHANGED issued

Next == Issue \/ Answer \/ Disconnect \/ Fail

Spec == Init /\ [][Next]_vars
=============================================================================
