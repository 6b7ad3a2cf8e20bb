----------------------------- MODULE TimerOrder -----------------------------
(***************************************************************************)
(* How ngx_rbtree_insert_timer_value orders the expiry times of timers:    *)
(* millisecond counts that wrap at M (2^32 in the code) are compared by    *)
(* the sign of their difference.  A tree built that way is described here  *)
(* by its nodes in order, a sequence.                                      *)
(***************************************************************************)
EXTENDS Integers, Lists

CONSTANT M      \* how many values the clock has

ASSUME ClockAssumption == M \in Nat \ {0, 1} /\ M % 2 = 0

\* The sign of the difference of two unsigned values, as a signed number.
Signed(d) == IF 2 * d < M THEN d ELSE d - M

\* Mutant: plain unsigned numbers.
PrecedesPlain(a, b) == a < b

Precedes(a, b) == Signed((a - b) % M) < 0

\* "Timer values are spread in small range": within half of the clock's circle,
\* counted from one of them.  Precedes orders such values.
SmallRange(K) == \E a \in K : \A b \in K : ~Precedes(b, a)

Keys(q, key) == {key[x] : x \in Elements(q)}

InOrder(q, key) == \A i, j \in DOMAIN q : i < j => ~Precedes(key[q[j]], key[q[i]])

\* The orders that may result from inserting n into q: n goes behind all nodes
\* it does not precede.  Once values have spread too far, where a node goes
\* depends on the shape of the tree: it may go anywhere.
Insertions(q, key, n) ==
    {Inserted(q, i, n) : i \in {j \in 0..Len(q) :
        (SmallRange(Keys(q, key) \cup {key[n]}) /\ InOrder(q, key)) =>
            /\ \A k \in 1..j : ~Precedes(key[n], key[q[k]])
            /\ \A k \in (j + 1)..Len(q) : Precedes(key[n], key[q[k]])}}
=============================================================================
