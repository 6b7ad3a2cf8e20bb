---------------------------- MODULE DataTheorems ----------------------------
(***************************************************************************)
(* What the proofs need to know of numbers and lists: the only module that *)
(* reasons about division or looks inside a concatenation of lists.        *)
(***************************************************************************)
EXTENDS Integers, Lists, SequenceTheorems, TLAPS

-----------------------------------------------------------------------------
(* Quotients and remainders.                                               *)

LEMMA DivMod == ASSUME NEW p \in Nat, NEW n \in Nat \ {0}
                PROVE  /\ p % n \in 0..(n - 1)
                       /\ p \div n \in Nat
                       /\ p = n * (p \div n) + (p % n)
  BY SMT

LEMMA ModUnique == ASSUME NEW n \in Nat \ {0}, NEW d \in Nat, NEW r \in 0..(n - 1)
                   PROVE  (n * d + r) % n = r
  BY SMT

LEMMA ModSmall == ASSUME NEW n \in Nat \ {0}, NEW r \in 0..(n - 1)
                  PROVE  r % n = r
  <1>1. (n * 0 + r) % n = r
    BY ModUnique, 0 \in Nat, Zenon
  <1>2. n * 0 + r = r
    OBVIOUS
  <1> QED BY <1>1, <1>2

\* Going on from the remainder gives the remainder of going on.
LEMMA ModAdd == ASSUME NEW p \in Nat, NEW k \in Nat, NEW n \in Nat \ {0}
                PROVE  ((p % n) + k) % n = (p + k) % n
  <1> DEFINE d == p \div n
             r == p % n
             e == (r + k) \div n
             s == (r + k) % n
  <1>1. r \in 0..(n - 1) /\ d \in Nat /\ p = n * d + r
    BY DivMod, Zenon
  <1>2. r + k \in Nat
    BY <1>1
  <1>3. s \in 0..(n - 1) /\ e \in Nat /\ r + k = n * e + s
    BY <1>2, DivMod, Zenon
  <1> HIDE DEF d, r, e, s
  <1>4. p + k = n * (d + e) + s /\ d + e \in Nat
    BY <1>1, <1>3, SMT
  <1>5. (n * (d + e) + s) % n = s
    BY <1>3, <1>4, ModUnique, Zenon
  <1> QED BY <1>4, <1>5, Zenon DEF s, r

\* Of two numbers on the same turn, remainders tell which comes first.
LEMMA ModOrder == ASSUME NEW n \in Nat \ {0}, NEW p \in Nat, NEW q \in Nat,
                         p % n <= q % n, p \div n <= q \div n
                  PROVE  p <= q
  <1> DEFINE d == p \div n
             e == q \div n
             r == p % n
             s == q % n
  <1>1. r \in 0..(n - 1) /\ d \in Nat /\ p = n * d + r
    BY DivMod, Zenon
  <1>2. s \in 0..(n - 1) /\ e \in Nat /\ q = n * e + s
    BY DivMod, Zenon
  <1>3. r <= s /\ d <= e
    OBVIOUS
  <1> HIDE DEF d, e, r, s
  <1>4. n * d <= n * e
    BY <1>1, <1>2, <1>3, SMT
  <1> QED BY <1>1, <1>2, <1>3, <1>4

\* The same for integers.
LEMMA IntDivMod == ASSUME NEW p \in Int, NEW n \in Nat \ {0}
                   PROVE  /\ p % n \in 0..(n - 1)
                          /\ p \div n \in Int
                          /\ p = n * (p \div n) + (p % n)
  BY SMT

LEMMA IntModUnique == ASSUME NEW n \in Nat \ {0}, NEW d \in Int, NEW r \in 0..(n - 1)
                      PROVE  (n * d + r) % n = r
  BY SMT

\* The difference of remainders has the remainder of the difference.
LEMMA ModDiff == ASSUME NEW p \in Nat, NEW q \in Nat, NEW n \in Nat \ {0}
                 PROVE  ((p % n) - (q % n)) % n = (p - q) % n
  <1> DEFINE d == p \div n
             r == p % n
             e == q \div n
             s == q % n
             f == (r - s) \div n
             t == (r - s) % n
  <1>1. r \in 0..(n - 1) /\ d \in Nat /\ p = n * d + r
    BY DivMod, Zenon
  <1>2. s \in 0..(n - 1) /\ e \in Nat /\ q = n * e + s
    BY DivMod, Zenon
  <1>3. r - s \in Int
    BY <1>1, <1>2
  <1>4. t \in 0..(n - 1) /\ f \in Int /\ r - s = n * f + t
    BY <1>3, IntDivMod, Zenon
  <1> HIDE DEF d, r, e, s, f, t
  <1>5. p - q = n * (d - e + f) + t /\ d - e + f \in Int
    BY <1>1, <1>2, <1>4, SMT
  <1>6. (n * (d - e + f) + t) % n = t
    BY <1>4, <1>5, IntModUnique, Zenon
  <1> QED BY <1>5, <1>6, Zenon DEF t, r, s

\* A small number and its remainder.
LEMMA ModNear == ASSUME NEW n \in Nat \ {0}, NEW v \in Int, v < n, v >= -n
                 PROVE  v % n = IF v >= 0 THEN v ELSE v + n
  <1>1. CASE v >= 0
    <2>1. v \in 0..(n - 1)
      BY <1>1
    <2> QED BY <1>1, <2>1, ModSmall
  <1>2. CASE ~(v >= 0)
    <2>1. v + n \in 0..(n - 1) /\ v = n * (-1) + (v + n) /\ -1 \in Int
      BY <1>2
    <2>2. (n * (-1) + (v + n)) % n = v + n
      BY <2>1, IntModUnique, Zenon
    <2> QED BY <1>2, <2>1, <2>2
  <1> QED BY <1>1, <1>2
-----------------------------------------------------------------------------
(* Lists.                                                                  *)

LEMMA SliceType ==
    ASSUME NEW S, NEW q \in Seq(S), NEW i \in 1..(Len(q) + 1), NEW j \in 0..Len(q), i <= j + 1
    PROVE  /\ SubSeq(q, i, j) \in Seq(S)
           /\ Len(SubSeq(q, i, j)) = j - i + 1
           /\ \A k \in 1..(j - i + 1) : SubSeq(q, i, j)[k] = q[i + k - 1]
  <1>1. Len(q) \in Nat /\ i \in Int /\ j \in Int
    BY LenProperties
  <1>2. \A k \in i..j : q[k] \in S
    BY <1>1, ElementOfSeq
  <1>3. /\ SubSeq(q, i, j) \in Seq(S)
        /\ Len(SubSeq(q, i, j)) = IF i <= j THEN j - i + 1 ELSE 0
        /\ \A k \in 1..(j - i + 1) : SubSeq(q, i, j)[k] = q[i + k - 1]
    BY <1>1, <1>2, SubSeqProperties
  <1> QED BY <1>1, <1>3

LEMMA InsertedElements ==
    ASSUME NEW S, NEW q \in Seq(S), NEW n \in S, NEW i \in 0..Len(q)
    PROVE  LET t == Inserted(q, i, n)
           IN  /\ t \in Seq(S) /\ DOMAIN t = 1..(Len(q) + 1) /\ Len(q) \in Nat
               /\ \A k \in 1..i : t[k] = q[k]
               /\ t[i + 1] = n
               /\ \A k \in (i + 2)..(Len(q) + 1) : t[k] = q[k - 1]
               /\ Elements(t) = Elements(q) \cup {n}
               /\ Distinct(q) /\ n \notin Elements(q) => Distinct(t)
  <1> DEFINE l == Len(q)
             a == SubSeq(q, 1, i)
             b == SubSeq(q, i + 1, l)
             c == a \o <<n>>
             t == Inserted(q, i, n)
             Goal == /\ t \in Seq(S) /\ DOMAIN t = 1..(l + 1) /\ l \in Nat
                     /\ \A k \in 1..i : t[k] = q[k]
                     /\ t[i + 1] = n
                     /\ \A k \in (i + 2)..(l + 1) : t[k] = q[k - 1]
                     /\ Elements(t) = Elements(q) \cup {n}
                     /\ Distinct(q) /\ n \notin Elements(q) => Distinct(t)
  <1> SUFFICES Goal
    OBVIOUS
  <1>1. l \in Nat /\ DOMAIN q = 1..l /\ i \in Nat /\ i <= l
    BY LenProperties
  <1>2. a \in Seq(S) /\ Len(a) = i /\ \A k \in 1..i : a[k] = q[k]
    <2>1. /\ a \in Seq(S) /\ Len(a) = i - 1 + 1
          /\ \A k \in 1..(i - 1 + 1) : a[k] = q[1 + k - 1]
      BY <1>1, SliceType
    <2> HIDE DEF a
    <2> QED BY <1>1, <2>1
  <1>3. b \in Seq(S) /\ Len(b) = l - i /\ \A k \in 1..(l - i) : b[k] = q[i + k]
    <2>1. /\ b \in Seq(S) /\ Len(b) = l - (i + 1) + 1
          /\ \A k \in 1..(l - (i + 1) + 1) : b[k] = q[i + 1 + k - 1]
      <3>1. i + 1 \in 1..(l + 1) /\ l \in 0..l /\ i + 1 <= l + 1
        BY <1>1
      <3> QED BY <3>1, SliceType, Zenon
    <2> HIDE DEF b, l
    <2> QED BY <1>1, <2>1
  <1>4. <<n>> \in Seq(S) /\ Len(<<n>>) = 1 /\ <<n>>[1] = n
    OBVIOUS
  <1>5. t = c \o b
    BY DEF Inserted
  <1> HIDE DEF a, b, t
  <1>6. /\ c \in Seq(S) /\ Len(c) = i + 1
        /\ \A k \in 1..(i + 1) : c[k] = IF k <= i THEN a[k] ELSE <<n>>[k - i]
    <2>1. /\ c \in Seq(S) /\ Len(c) = Len(a) + Len(<<n>>)
          /\ \A k \in 1..(Len(a) + Len(<<n>>)) :
               c[k] = IF k <= Len(a) THEN a[k] ELSE <<n>>[k - Len(a)]
      BY <1>2, <1>4, ConcatProperties, Zenon
    <2> HIDE DEF c
    <2> QED BY <1>2, <1>4, <2>1
  <1> HIDE DEF c
  <1>7. /\ t \in Seq(S) /\ Len(t) = l + 1
        /\ \A k \in 1..(l + 1) : t[k] = IF k <= i + 1 THEN c[k] ELSE b[k - (i + 1)]
    <2>1. /\ t \in Seq(S) /\ Len(t) = Len(c) + Len(b)
          /\ \A k \in 1..(Len(c) + Len(b)) :
               t[k] = IF k <= Len(c) THEN c[k] ELSE b[k - Len(c)]
      BY <1>3, <1>5, <1>6, ConcatProperties, Zenon
    <2>2. Len(c) + Len(b) = l + 1
      BY <1>1, <1>3, <1>6
    <2> QED BY <1>6, <2>1, <2>2
  <1>8. DOMAIN t = 1..(l + 1)
    BY <1>7, LenProperties
  <1> HIDE DEF l
  <1>9. \A k \in 1..i : t[k] = q[k]
    BY <1>1, <1>2, <1>6, <1>7
  <1>10. t[i + 1] = n
    BY <1>1, <1>4, <1>6, <1>7
  <1>11. ASSUME NEW k \in (i + 2)..(l + 1) PROVE t[k] = q[k - 1]
    <2>1. t[k] = b[k - (i + 1)]
      BY <1>1, <1>7
    <2>2. k - (i + 1) \in 1..(l - i) /\ i + (k - (i + 1)) = k - 1
      BY <1>1
    <2> QED BY <1>3, <2>1, <2>2
  <1>12. Elements(t) = Elements(q) \cup {n}
    <2>1. \A k \in 1..(l + 1) : k \in 1..i \/ k = i + 1 \/ (k \in (i + 2)..(l + 1) /\ k - 1 \in 1..l)
      BY <1>1
    <2>2. \A k \in 1..l : k \in 1..i \/ (k + 1 \in (i + 2)..(l + 1) /\ k + 1 - 1 = k)
      BY <1>1
    <2>3. ASSUME NEW x \in Elements(t) PROVE x \in Elements(q) \cup {n}
      BY <1>1, <1>8, <1>9, <1>10, <1>11, <2>1 DEF Elements
    <2>4. n \in Elements(t)
      BY <1>1, <1>8, <1>10 DEF Elements
    <2>5. ASSUME NEW k \in 1..l PROVE q[k] \in Elements(t)
      <3>1. CASE k \in 1..i
        BY <1>1, <1>8, <1>9, <3>1 DEF Elements
      <3>2. CASE k + 1 \in (i + 2)..(l + 1) /\ k + 1 - 1 = k
        <4>1. t[k + 1] = q[k] /\ k + 1 \in 1..(l + 1)
          BY <1>1, <1>11, <3>2
        <4> QED BY <1>8, <4>1 DEF Elements
      <3> QED BY <2>2, <3>1, <3>2
    <2> QED BY <1>1, <2>3, <2>4, <2>5 DEF Elements
  <1>13. ASSUME Distinct(q), n \notin Elements(q) PROVE Distinct(t)
    <2> SUFFICES ASSUME NEW j \in 1..(l + 1), NEW k \in 1..(l + 1), t[j] = t[k], j < k PROVE FALSE
      BY <1>1, <1>8 DEF Distinct
    <2>1. \A m \in 1..l : q[m] /= n
      BY <1>1, <1>13 DEF Elements
    <2>2. CASE k \in 1..i
      BY <1>1, <1>9, <1>13, <2>2 DEF Distinct
    <2>3. CASE k = i + 1
      BY <1>1, <1>9, <1>10, <2>1, <2>3
    <2>4. CASE k \in (i + 2)..(l + 1)
      <3>1. t[k] = q[k - 1] /\ k - 1 \in 1..l
        BY <1>1, <1>11, <2>4
      <3>2. CASE j \in 1..i
        BY <1>1, <1>9, <1>13, <2>4, <3>1, <3>2 DEF Distinct
      <3>3. CASE j = i + 1
        BY <1>10, <2>1, <3>1, <3>3
      <3>4. CASE j \in (i + 2)..(l + 1)
        <4>1. t[j] = q[j - 1] /\ j - 1 \in 1..l /\ j - 1 /= k - 1
          BY <1>1, <1>11, <3>4
        <4> QED BY <1>1, <1>13, <3>1, <4>1 DEF Distinct
      <3> QED BY <1>1, <3>2, <3>3, <3>4
    <2> QED BY <1>1, <2>2, <2>3, <2>4
  <1> QED BY <1>1, <1>7, <1>8, <1>9, <1>10, <1>11, <1>12, <1>13

\* What is left stands in the order in which it stood.
LEMMA WithoutElements ==
    ASSUME NEW S, NEW q \in Seq(S), NEW n, Distinct(q)
    PROVE  LET t == Without(q, n)
           IN  /\ t \in Seq(S)
               /\ Elements(t) = Elements(q) \ {n}
               /\ Distinct(t)
               /\ \A j, k \in DOMAIN t : j < k =>
                    \E u, v \in DOMAIN q : u < v /\ t[j] = q[u] /\ t[k] = q[v]
  <1> DEFINE l == Len(q)
             t == Without(q, n)
             Goal == /\ t \in Seq(S)
                     /\ Elements(t) = Elements(q) \ {n}
                     /\ Distinct(t)
                     /\ \A j, k \in DOMAIN t : j < k =>
                          \E u, v \in DOMAIN q : u < v /\ t[j] = q[u] /\ t[k] = q[v]
  <1> SUFFICES Goal
    OBVIOUS
  <1>1. l \in Nat /\ DOMAIN q = 1..l
    BY LenProperties
  <1>2. CASE n \notin Elements(q)
    <2>1. t = q
      BY <1>2 DEF Without
    <2> QED BY <1>2, <2>1
  <1>3. CASE n \in Elements(q)
    <2> DEFINE i == CHOOSE j \in DOMAIN q : q[j] = n
               a == SubSeq(q, 1, i - 1)
               b == SubSeq(q, i + 1, l)
    <2>1. i \in 1..l /\ q[i] = n
      BY <1>1, <1>3 DEF Elements
    <2>2. t = a \o b
      BY <1>3 DEF Without
    <2> HIDE DEF i, t
    <2>3. a \in Seq(S) /\ Len(a) = i - 1 /\ \A k \in 1..(i - 1) : a[k] = q[k]
      <3>1. /\ a \in Seq(S) /\ Len(a) = (i - 1) - 1 + 1
            /\ \A k \in 1..((i - 1) - 1 + 1) : a[k] = q[1 + k - 1]
        BY <1>1, <2>1, SliceType
      <3> HIDE DEF a, l
      <3> QED BY <1>1, <2>1, <3>1
    <2>4. b \in Seq(S) /\ Len(b) = l - i /\ \A k \in 1..(l - i) : b[k] = q[i + k]
      <3>1. /\ b \in Seq(S) /\ Len(b) = l - (i + 1) + 1
            /\ \A k \in 1..(l - (i + 1) + 1) : b[k] = q[i + 1 + k - 1]
        <4>1. i + 1 \in 1..(l + 1) /\ l \in 0..l /\ i + 1 <= l + 1
          BY <1>1, <2>1
        <4> QED BY <4>1, SliceType, Zenon
      <3> HIDE DEF b, l
      <3> QED BY <1>1, <2>1, <3>1
    <2> HIDE DEF a, b
    <2>5. /\ t \in Seq(S) /\ Len(t) = l - 1
          /\ \A k \in 1..(l - 1) : t[k] = IF k <= i - 1 THEN a[k] ELSE b[k - (i - 1)]
      <3>1. /\ t \in Seq(S) /\ Len(t) = Len(a) + Len(b)
            /\ \A k \in 1..(Len(a) + Len(b)) :
                 t[k] = IF k <= Len(a) THEN a[k] ELSE b[k - Len(a)]
        BY <2>2, <2>3, <2>4, ConcatProperties, Zenon
      <3>2. Len(a) + Len(b) = l - 1
        BY <1>1, <2>1, <2>3, <2>4
      <3> QED BY <2>3, <3>1, <3>2
    <2>6. DOMAIN t = 1..(l - 1)
      BY <2>5, LenProperties
    <2> DEFINE from(k) == IF k < i THEN k ELSE k + 1
    <2> HIDE DEF l
    <2>7. ASSUME NEW k \in 1..(l - 1) PROVE t[k] = q[from(k)] /\ from(k) \in 1..l \ {i}
      <3>1. CASE k < i
        <4>1. k <= i - 1 /\ k \in 1..(i - 1)
          BY <1>1, <2>1, <3>1
        <4> QED BY <1>1, <2>1, <2>3, <2>5, <3>1, <4>1
      <3>2. CASE ~(k < i)
        <4>1. ~(k <= i - 1) /\ k - (i - 1) \in 1..(l - i) /\ i + (k - (i - 1)) = k + 1
          BY <1>1, <2>1, <3>2
        <4> QED BY <1>1, <2>1, <2>4, <2>5, <3>2, <4>1
      <3> QED BY <3>1, <3>2
    <2>8. \A j, k \in 1..(l - 1) : j < k => from(j) < from(k)
      BY <1>1, <2>1
    <2>9. ASSUME NEW m \in 1..l \ {i} PROVE \E k \in 1..(l - 1) : from(k) = m
      <3>1. CASE m < i
        <4>1. m \in 1..(l - 1) /\ from(m) = m
          BY <1>1, <2>1, <3>1
        <4> QED BY <4>1
      <3>2. CASE ~(m < i)
        <4>1. m - 1 \in 1..(l - 1) /\ from(m - 1) = m
          BY <1>1, <2>1, <3>2
        <4> QED BY <4>1
      <3> QED BY <3>1, <3>2
    <2> HIDE DEF from
    <2>10. Elements(t) = Elements(q) \ {n}
      <3>1. \A m \in 1..l \ {i} : q[m] /= n
        BY <1>1, <2>1 DEF Distinct
      <3>2. ASSUME NEW k \in 1..(l - 1) PROVE t[k] \in Elements(q) \ {n}
        BY <1>1, <2>7, <3>1 DEF Elements
      <3>3. ASSUME NEW m \in 1..l, q[m] /= n PROVE q[m] \in Elements(t)
        <4>1. m \in 1..l \ {i}
          BY <2>1, <3>3
        <4>2. PICK k \in 1..(l - 1) : from(k) = m
          BY <2>9, <4>1
        <4> QED BY <2>6, <2>7, <4>2 DEF Elements
      <3> QED BY <1>1, <2>6, <3>2, <3>3 DEF Elements
    <2>11. \A j, k \in DOMAIN t : j < k =>
              \E u, v \in DOMAIN q : u < v /\ t[j] = q[u] /\ t[k] = q[v]
      BY <1>1, <2>6, <2>7, <2>8
    <2>12. Distinct(t)
      <3> SUFFICES ASSUME NEW j \in 1..(l - 1), NEW k \in 1..(l - 1), t[j] = t[k], j /= k PROVE FALSE
        BY <2>6 DEF Distinct
      <3>1. from(j) = from(k)
        BY <1>1, <2>7 DEF Distinct
      <3>2. j < k \/ k < j
        BY <1>1
      <3> QED BY <1>1, <2>7, <2>8, <3>1, <3>2
    <2> QED BY <2>5, <2>10, <2>11, <2>12
  <1> QED BY <1>2, <1>3

\* Being ahead is an order of the elements.
LEMMA AheadOrder ==
    ASSUME NEW S, NEW q \in Seq(S), Distinct(q)
    PROVE  /\ \A x, y : Ahead(q, x, y) => x \in Elements(q) /\ y \in Elements(q) /\ ~Ahead(q, y, x)
           /\ \A x : ~Ahead(q, x, x)
           /\ \A x, y, z : Ahead(q, x, y) /\ Ahead(q, y, z) => Ahead(q, x, z)
           /\ \A x, y \in Elements(q) : x = y \/ Ahead(q, x, y) \/ Ahead(q, y, x)
  <1>1. DOMAIN q = 1..Len(q) /\ Len(q) \in Nat
    BY LenProperties
  <1>2. ASSUME NEW x, NEW y, Ahead(q, x, y)
        PROVE  x \in Elements(q) /\ y \in Elements(q) /\ ~Ahead(q, y, x)
    BY <1>1, <1>2 DEF Ahead, Elements, Distinct
  <1>3. \A x : ~Ahead(q, x, x)
    BY <1>2
  <1>4. ASSUME NEW x, NEW y, NEW z, Ahead(q, x, y), Ahead(q, y, z) PROVE Ahead(q, x, z)
    BY <1>1, <1>4 DEF Ahead, Distinct
  <1>5. ASSUME NEW x \in Elements(q), NEW y \in Elements(q)
        PROVE  x = y \/ Ahead(q, x, y) \/ Ahead(q, y, x)
    BY <1>1 DEF Ahead, Elements
  <1> QED BY <1>2, <1>3, <1>4, <1>5

\* An insertion leaves the others in order; what was there is ahead of the new
\* element if it is among the first i.
LEMMA InsertedAhead ==
    ASSUME NEW S, NEW q \in Seq(S), NEW n \in S, NEW i \in 0..Len(q), Distinct(q), n \notin Elements(q),
           NEW t, t = Inserted(q, i, n)
    PROVE  /\ t \in Seq(S) /\ Elements(t) = Elements(q) \cup {n} /\ Distinct(t)
           /\ \A x, y \in Elements(q) : Ahead(t, x, y) <=> Ahead(q, x, y)
           /\ \A k \in DOMAIN q : /\ Ahead(t, q[k], n) <=> k <= i
                                  /\ Ahead(t, n, q[k]) <=> i < k
  <1> DEFINE l == Len(q)
             u == Inserted(q, i, n)
             to(k) == IF k <= i THEN k ELSE k + 1
  <1>1. /\ t \in Seq(S) /\ DOMAIN t = 1..(l + 1) /\ l \in Nat
        /\ \A k \in 1..i : t[k] = q[k]
        /\ t[i + 1] = n
        /\ \A k \in (i + 2)..(l + 1) : t[k] = q[k - 1]
        /\ Elements(t) = Elements(q) \cup {n}
        /\ Distinct(t)
    <2>1. /\ u \in Seq(S) /\ DOMAIN u = 1..(l + 1) /\ l \in Nat
          /\ \A k \in 1..i : u[k] = q[k]
          /\ u[i + 1] = n
          /\ \A k \in (i + 2)..(l + 1) : u[k] = q[k - 1]
          /\ Elements(u) = Elements(q) \cup {n}
          /\ Distinct(q) /\ n \notin Elements(q) => Distinct(u)
      BY InsertedElements, Zenon
    <2>2. t = u
      OBVIOUS
    <2> HIDE DEF u
    <2> QED BY <2>1, <2>2
  <1>2. DOMAIN q = 1..l /\ i \in 0..l
    BY LenProperties
  <1> HIDE DEF l
  <1>3. ASSUME NEW k \in 1..l PROVE t[to(k)] = q[k] /\ to(k) \in 1..(l + 1) /\ to(k) /= i + 1
    <2>1. CASE k <= i
      BY <1>1, <1>2, <2>1
    <2>2. CASE ~(k <= i)
      <3>1. k + 1 \in (i + 2)..(l + 1) /\ k + 1 - 1 = k
        BY <1>1, <1>2, <2>2
      <3> QED BY <1>1, <1>2, <2>2, <3>1
    <2> QED BY <2>1, <2>2
  <1>4. \A j, k \in 1..l : j < k <=> to(j) < to(k)
    BY <1>1, <1>2
  <1>5. \A k \in 1..l : /\ to(k) < i + 1 <=> k <= i
                        /\ i + 1 < to(k) <=> i < k
    BY <1>1, <1>2
  <1>6. i + 1 \in 1..(l + 1)
    BY <1>1, <1>2
  <1> HIDE DEF to
  <1>7. \A j, k \in 1..l : Ahead(t, q[j], q[k]) <=> j < k
    <2> SUFFICES ASSUME NEW j \in 1..l, NEW k \in 1..l PROVE Ahead(t, q[j], q[k]) <=> j < k
      OBVIOUS
    <2>1. /\ t[to(j)] = q[j] /\ to(j) \in 1..(l + 1)
          /\ t[to(k)] = q[k] /\ to(k) \in 1..(l + 1)
      BY <1>3
    <2>2. \A a, b \in 1..(l + 1) : t[a] = t[b] => a = b
      BY <1>1 DEF Distinct
    <2>3. \A a, b \in 1..(l + 1) : t[a] = q[j] /\ t[b] = q[k] => a = to(j) /\ b = to(k)
      BY <2>1, <2>2
    <2>4. Ahead(t, q[j], q[k]) <=> to(j) < to(k)
      BY <1>1, <2>1, <2>3 DEF Ahead
    <2> QED BY <1>4, <2>4
  <1>8. ASSUME NEW x \in Elements(q), NEW y \in Elements(q) PROVE Ahead(t, x, y) <=> Ahead(q, x, y)
    <2>1. PICK j \in 1..l, k \in 1..l : x = q[j] /\ y = q[k]
      BY <1>2 DEF Elements
    <2>2. \A a, b \in 1..l : q[a] = q[j] /\ q[b] = q[k] => a = j /\ b = k
      BY <1>2 DEF Distinct
    <2>3. Ahead(q, x, y) <=> j < k
      BY <1>2, <2>1, <2>2 DEF Ahead
    <2> QED BY <1>7, <2>1, <2>3
  <1>9. ASSUME NEW k \in 1..l
        PROVE  /\ Ahead(t, q[k], n) <=> k <= i
               /\ Ahead(t, n, q[k]) <=> i < k
    <2>1. \A a, b \in 1..(l + 1) : t[a] = q[k] /\ t[b] = n => a = to(k) /\ b = i + 1
      <3>1. t[to(k)] = q[k] /\ to(k) \in 1..(l + 1)
        BY <1>3
      <3>2. \A a, b \in 1..(l + 1) : t[a] = t[b] => a = b
        BY <1>1 DEF Distinct
      <3> QED BY <1>1, <1>6, <3>1, <3>2
    <2>2. t[to(k)] = q[k] /\ to(k) \in 1..(l + 1) /\ t[i + 1] = n /\ DOMAIN t = 1..(l + 1)
      BY <1>1, <1>3
    <2>3. Ahead(t, q[k], n) <=> to(k) < i + 1
      BY <1>6, <2>1, <2>2 DEF Ahead
    <2>4. Ahead(t, n, q[k]) <=> i + 1 < to(k)
      BY <1>6, <2>1, <2>2 DEF Ahead
    <2> QED BY <1>5, <2>3, <2>4
  <1> QED BY <1>1, <1>2, <1>8, <1>9

LEMMA InsertedFirst ==
    ASSUME NEW S, NEW q \in Seq(S), NEW n \in S, Elements(q) = {}
    PROVE  Len(q) = 0 /\ Inserted(q, 0, n) = <<n>>
  <1>1. DOMAIN q = 1..Len(q) /\ Len(q) \in Nat
    BY LenProperties
  <1>2. Len(q) = 0
    <2>1. 1 \notin DOMAIN q
      BY DEF Elements
    <2> QED BY <1>1, <2>1
  <1>3. 0 \in 0..Len(q) /\ Distinct(q) /\ n \notin Elements(q)
    BY <1>1, <1>2 DEF Distinct
  <1> DEFINE t == Inserted(q, 0, n)
  <1>4. t \in Seq(S) /\ Elements(t) = {n} /\ Distinct(t)
    BY <1>3, InsertedAhead
  <1> HIDE DEF t
  <1>5. DOMAIN t = 1..Len(t) /\ Len(t) \in Nat
    BY <1>4, LenProperties
  <1>6. \A i \in 1..Len(t) : t[i] = n
    BY <1>4, <1>5 DEF Elements
  <1>7. Len(t) = 1
    <2>1. Len(t) /= 0
      BY <1>4, <1>5 DEF Elements
    <2>2. \A i, j \in 1..Len(t) : i = j
      BY <1>4, <1>5, <1>6 DEF Distinct
    <2> QED BY <1>5, <2>1, <2>2
  <1>8. <<n>> \in Seq(S) /\ Len(<<n>>) = 1 /\ <<n>>[1] = n
    OBVIOUS
  <1>9. t = <<n>>
    <2>1. \A i \in 1..Len(t) : t[i] = <<n>>[i]
      BY <1>6, <1>7, <1>8
    <2> QED BY <1>4, <1>7, <1>8, <2>1, SeqEqual
  <1> QED BY <1>2, <1>9 DEF t

\* A deletion leaves the others in order.
LEMMA WithoutAhead ==
    ASSUME NEW S, NEW q \in Seq(S), NEW n, Distinct(q), NEW t, t = Without(q, n)
    PROVE  /\ t \in Seq(S) /\ Elements(t) = Elements(q) \ {n} /\ Distinct(t)
           /\ \A x, y \in Elements(t) : Ahead(t, x, y) <=> Ahead(q, x, y)
  <1>1. /\ t \in Seq(S) /\ Elements(t) = Elements(q) \ {n} /\ Distinct(t)
        /\ \A j, k \in DOMAIN t : j < k =>
              \E u, v \in DOMAIN q : u < v /\ t[j] = q[u] /\ t[k] = q[v]
    <2> DEFINE r == Without(q, n)
    <2>1. /\ r \in Seq(S) /\ Elements(r) = Elements(q) \ {n} /\ Distinct(r)
          /\ \A j, k \in DOMAIN r : j < k =>
                \E u, v \in DOMAIN q : u < v /\ r[j] = q[u] /\ r[k] = q[v]
      BY WithoutElements
    <2>2. t = r
      OBVIOUS
    <2> HIDE DEF r
    <2> QED BY <2>1, <2>2
  <1>2. ASSUME NEW x, NEW y, Ahead(t, x, y) PROVE Ahead(q, x, y)
    BY <1>1, <1>2 DEF Ahead
  <1>3. ASSUME NEW x \in Elements(t), NEW y \in Elements(t), Ahead(q, x, y) PROVE Ahead(t, x, y)
    <2>1. x /= y /\ ~Ahead(q, y, x)
      BY <1>3, AheadOrder
    <2>2. x = y \/ Ahead(t, x, y) \/ Ahead(t, y, x)
      BY <1>1, AheadOrder
    <2> QED BY <1>2, <2>1, <2>2
  <1> QED BY <1>1, <1>2, <1>3
=============================================================================
