------------------------ MODULE UnionIntervalsProofs ------------------------
(***************************************************************************)
(* Proofs about UnionIntervals, for any set of bounds: the list is always  *)
(* sorted, and covers() answers as the set that was added would.           *)
(***************************************************************************)
EXTENDS UnionIntervals, NumberLemmas, SequenceTheorems, TLAPS

Sorted(s) == \A i, j \in DOMAIN s : i < j => s[i] < s[j]

\* The ends up to place k of s are those at or below x.
Below(s, k, x) ==
  /\ k \in 0..Len(s)
  /\ k > 0 => s[k] <= x
  /\ k < Len(s) => x < s[k + 1]

\* An integer is in the set where an odd number of ends is at or below it.
Stands ==
  \A x \in Int : \A k \in 0..Len(interval_ends) :
    Below(interval_ends, k, x) => (x \in added <=> Odd(k))

IInv ==
  /\ interval_ends \in Seq(Int)
  /\ added \subseteq Int
  /\ StrictlySorted
  /\ Stands

-----------------------------------------------------------------------------
(***************************************************************************)
(* What bisect returns: a place in the list, by its neighbours.            *)
(***************************************************************************)
\* A set of places that has all the places before one of its own is 1..k.
LEMMA Initial ==
  ASSUME NEW n \in Nat, NEW P \in SUBSET (1..n),
         \A i \in 1..n, j \in P : i < j => i \in P
  PROVE  \E k \in 0..n : P = 1..k /\ Cardinality(P) = k
<1>1. CASE P = 1..n
  BY <1>1, FS_Interval
<1>2. CASE P # 1..n
  <2> DEFINE Out == {i \in 1..n : i \notin P}
  <2>1. Out # {} /\ Out \in SUBSET Nat
    <3>1. PICK i \in 1..n : i \notin P
      BY <1>2
    <3>2. \A j \in 1..n : j \in Nat
      OBVIOUS
    <3> QED BY <3>1, <3>2
  <2>2. PICK m \in Out : \A i \in Out : m <= i
    <3> HIDE DEF Out
    <3> QED BY <2>1, LeastExists
  <2>3. m \in 1..n /\ m \notin P
    BY <2>2
  <2>4. \A i \in 1..n : i < m => i \in P
    BY <2>2
  <2>5. \A i \in P : i < m
    BY <2>3
  <2>6. P = 1..(m - 1)
    <3>1. \A i \in P : i \in 1..n /\ i < m
      BY <2>5
    <3>2. ASSUME NEW i \in 1..(m - 1) PROVE i \in P
      BY <2>3, <2>4
    <3>3. \A i \in P : i \in 1..(m - 1)
      BY <3>1, <2>3
    <3> QED BY <3>2, <3>3
  <2>7. Cardinality(1..(m - 1)) = m - 1
    BY <2>3, FS_Interval
  <2> QED BY <2>3, <2>6, <2>7
<1> QED BY <1>1, <1>2

\* bisect_right.
LEMMA RightPlace ==
  ASSUME interval_ends \in Seq(Int), Sorted(interval_ends), NEW x \in Int
  PROVE  Below(interval_ends, BisectRight(x), x)
<1> DEFINE n == Len(interval_ends)
           P == {i \in DOMAIN interval_ends : interval_ends[i] <= x}
<1>1. n \in Nat /\ DOMAIN interval_ends = 1..n
  OBVIOUS
<1>2. \A i \in 1..n : interval_ends[i] \in Int
  OBVIOUS
<1>3. P \in SUBSET (1..n) /\ \A i \in 1..n, j \in P : i < j => i \in P
  BY <1>1, <1>2 DEF Sorted
<1>4. PICK k \in 0..n : P = 1..k /\ Cardinality(P) = k
  <2> HIDE DEF P, n
  <2> QED BY <1>1, <1>3, Initial
<1>5. k > 0 => interval_ends[k] <= x
  <2> HAVE k > 0
  <2>1. k \in P
    BY <1>4
  <2> QED BY <2>1
<1>6. k < n => x < interval_ends[k + 1]
  <2> HAVE k < n
  <2>1. k + 1 \in 1..n /\ k + 1 \notin P
    BY <1>1, <1>4
  <2> QED BY <2>1, <1>1, <1>2
<1> QED BY <1>4, <1>5, <1>6 DEF Below, BisectRight

\* bisect_left, where integers at or above x are above x - 1.
LEMMA LeftPlace ==
  ASSUME interval_ends \in Seq(Int), Sorted(interval_ends), NEW x \in Int
  PROVE  /\ BisectLeft(x) = BisectRight(x - 1)
         /\ Below(interval_ends, BisectLeft(x), x - 1)
<1>1. \A i \in DOMAIN interval_ends :
        interval_ends[i] < x <=> interval_ends[i] <= x - 1
  OBVIOUS
<1>2. {i \in DOMAIN interval_ends : interval_ends[i] < x}
        = {i \in DOMAIN interval_ends : interval_ends[i] <= x - 1}
  BY <1>1
<1>3. BisectLeft(x) = BisectRight(x - 1)
  BY <1>2 DEF BisectLeft, BisectRight
<1>4. Below(interval_ends, BisectRight(x - 1), x - 1)
  BY RightPlace
<1> QED BY <1>3, <1>4

-----------------------------------------------------------------------------
(***************************************************************************)
(* add_range(): two new ends take the place of those from k + 1 to l.      *)
(***************************************************************************)
Splice(s, k, l, a, b) ==
  SubSeq(s, 1, k) \o <<a, b>> \o SubSeq(s, l + 1, Len(s))

\* t, of length m, is s with a and b in the place of s[k + 1] to s[l].
IsSplice(s, k, l, a, b, t, m) ==
  /\ \A i \in 1..k : t[i] = s[i]
  /\ t[k + 1] = a
  /\ t[k + 2] = b
  /\ \A i \in (k + 3)..m : t[i] = s[i + (l - k) - 2]

LEMMA Spliced ==
  ASSUME NEW s \in Seq(Int), NEW k \in Nat, NEW l \in Nat, k <= l, l <= Len(s),
         NEW a \in Int, NEW b \in Int
  PROVE  LET t == Splice(s, k, l, a, b)
         IN  /\ t \in Seq(Int) /\ Len(t) = Len(s) + k + 2 - l
             /\ IsSplice(s, k, l, a, b, t, Len(t))
<1> DEFINE n == Len(s)
           front == SubSeq(s, 1, k)
           middle == <<a, b>>
           rest == SubSeq(s, l + 1, n)
           start == front \o middle
           t == start \o rest
<1>1. n \in Nat /\ l <= n /\ \A i \in 1..n : s[i] \in Int
  OBVIOUS
<1>2. /\ front \in Seq(Int) /\ Len(front) = k
      /\ \A i \in 1..k : front[i] = s[i]
  <2>1. \A i \in 1..k : s[i] \in Int
    BY <1>1
  <2> QED BY <2>1, SubSeqProperties
<1>3. /\ rest \in Seq(Int) /\ Len(rest) = n - l
      /\ \A i \in 1..(n - l) : rest[i] = s[l + i]
  <2>1. \A i \in (l + 1)..n : s[i] \in Int
    BY <1>1
  <2>2. /\ rest \in Seq(Int)
        /\ Len(rest) = IF l + 1 <= n THEN n - (l + 1) + 1 ELSE 0
        /\ \A i \in 1..(n - (l + 1) + 1) : rest[i] = s[l + 1 + i - 1]
    <3> HIDE DEF n
    <3> QED BY <2>1, <1>1, SubSeqProperties
  <2> HIDE DEF rest, n
  <2>3. n - (l + 1) + 1 = n - l /\ (l + 1 <= n \/ n - l = 0)
    BY <1>1
  <2>4. \A i \in 1..(n - l) : l + 1 + i - 1 = l + i
    OBVIOUS
  <2> QED BY <2>2, <2>3, <2>4
<1>4. /\ middle \in Seq(Int) /\ Len(middle) = 2
      /\ middle[1] = a /\ middle[2] = b
  OBVIOUS
<1> HIDE DEF n, front, middle, rest
<1>5. /\ start \in Seq(Int) /\ Len(start) = k + 2
      /\ \A i \in 1..(k + 2) :
           start[i] = IF i <= k THEN front[i] ELSE middle[i - k]
  <2>1. /\ start \in Seq(Int) /\ Len(start) = Len(front) + Len(middle)
        /\ \A i \in 1..(Len(front) + Len(middle)) :
             start[i] = IF i <= Len(front) THEN front[i]
                        ELSE middle[i - Len(front)]
    BY <1>2, <1>4, ConcatProperties
  <2> QED BY <2>1, <1>2, <1>4
<1>6. start[k + 1] = a /\ start[k + 2] = b
  <2>1. (k + 1) - k = 1 /\ (k + 2) - k = 2
    OBVIOUS
  <2>2. k + 1 \in 1..(k + 2) /\ k + 2 \in 1..(k + 2)
    OBVIOUS
  <2>3. ~(k + 1 <= k) /\ ~(k + 2 <= k)
    OBVIOUS
  <2>4. start[k + 1] = middle[(k + 1) - k] /\ start[k + 2] = middle[(k + 2) - k]
    BY <2>2, <2>3, <1>5
  <2> QED BY <2>1, <2>4, <1>4
<1>7. \A i \in 1..k : start[i] = s[i]
  BY <1>2, <1>5
<1> HIDE DEF start
<1>8. /\ t \in Seq(Int) /\ Len(t) = k + 2 + (n - l)
      /\ \A i \in 1..(k + 2 + (n - l)) :
           t[i] = IF i <= k + 2 THEN start[i] ELSE rest[i - (k + 2)]
  <2>1. /\ t \in Seq(Int) /\ Len(t) = Len(start) + Len(rest)
        /\ \A i \in 1..(Len(start) + Len(rest)) :
             t[i] = IF i <= Len(start) THEN start[i] ELSE rest[i - Len(start)]
    BY <1>3, <1>5, ConcatProperties
  <2> QED BY <2>1, <1>3, <1>5
<1> HIDE DEF t
<1>9. t[k + 1] = a /\ t[k + 2] = b /\ \A i \in 1..k : t[i] = s[i]
  BY <1>1, <1>6, <1>7, <1>8
<1>10. ASSUME NEW i \in (k + 3)..Len(t) PROVE t[i] = s[i + (l - k) - 2]
  <2>1. /\ i - (k + 2) \in 1..(n - l) /\ i \in 1..(k + 2 + (n - l))
        /\ ~(i <= k + 2) /\ l + (i - (k + 2)) = i + (l - k) - 2
    BY <1>1, <1>8
  <2> QED BY <2>1, <1>3, <1>8
<1>11. IsSplice(s, k, l, a, b, t, Len(t)) /\ Len(t) = n + k + 2 - l
  BY <1>1, <1>8, <1>9, <1>10 DEF IsSplice
<1>12. t = Splice(s, k, l, a, b)
  BY DEF t, start, front, middle, rest, n, Splice
<1> QED BY <1>8, <1>11, <1>12 DEF n

Rising(s, n) == \A i, j \in 1..n : i < j => s[i] < s[j]
Ints(s, n)   == \A i \in 1..n : s[i] \in Int

\* It stays sorted where they lie between the ends that are kept.
LEMMA SplicedSorted ==
  ASSUME NEW s, NEW t, NEW n \in Nat, NEW m \in Nat, NEW k \in Nat, NEW l \in Nat,
         NEW a \in Int, NEW b \in Int, a < b, k <= l, l <= n, m = n + k + 2 - l,
         Ints(s, n), Rising(s, n), IsSplice(s, k, l, a, b, t, m),
         k > 0 => s[k] < a, l < n => b < s[l + 1]
  PROVE  Rising(t, m)
<1>1. ASSUME NEW i \in 1..k PROVE t[i] = s[i] /\ t[i] \in Int /\ t[i] < a
  <2>1. i \in 1..n /\ k \in 1..n /\ k > 0 /\ (i = k \/ i < k)
    OBVIOUS
  <2>2. s[i] \in Int /\ s[k] \in Int /\ (i = k \/ s[i] < s[k])
    BY <2>1 DEF Ints, Rising
  <2> QED BY <2>1, <2>2 DEF IsSplice
<1>2. ASSUME NEW i \in (k + 3)..m
      PROVE  /\ i + (l - k) - 2 \in 1..n
             /\ t[i] = s[i + (l - k) - 2] /\ t[i] \in Int /\ b < t[i]
  <2> DEFINE p == i + (l - k) - 2
  <2>1. p \in 1..n /\ l + 1 \in 1..n /\ l < n /\ (p = l + 1 \/ l + 1 < p)
    OBVIOUS
  <2> HIDE DEF p
  <2>2. s[p] \in Int /\ s[l + 1] \in Int /\ (p = l + 1 \/ s[l + 1] < s[p])
    BY <2>1 DEF Ints, Rising
  <2>3. t[i] = s[p]
    BY DEF IsSplice, p
  <2> QED BY <2>1, <2>2, <2>3 DEF p
<1>3. t[k + 1] = a /\ t[k + 2] = b
  BY DEF IsSplice
<1>4. ASSUME NEW i \in 1..m, NEW j \in 1..m, i < j
      PROVE  t[i] < t[j]
  <2>1. \/ j \in 1..k /\ i \in 1..k
        \/ i \in 1..k /\ (j = k + 1 \/ j = k + 2)
        \/ i = k + 1 /\ j = k + 2
        \/ j \in (k + 3)..m /\ (i \in 1..k \/ i = k + 1 \/ i = k + 2)
        \/ i \in (k + 3)..m /\ j \in (k + 3)..m
    BY <1>4
  <2>2. CASE j \in 1..k /\ i \in 1..k
    <3>1. i \in 1..n /\ j \in 1..n
      BY <2>2
    <3>2. s[i] < s[j]
      BY <3>1, <1>4 DEF Rising
    <3> QED BY <3>2, <2>2, <1>1
  <2>3. CASE i \in 1..k /\ (j = k + 1 \/ j = k + 2)
    <3>1. t[i] \in Int /\ t[i] < a
      BY <2>3, <1>1
    <3>2. t[j] = a \/ t[j] = b
      BY <2>3, <1>3
    <3> QED BY <3>1, <3>2
  <2>4. CASE j \in (k + 3)..m /\ (i \in 1..k \/ i = k + 1 \/ i = k + 2)
    <3>1. t[j] \in Int /\ b < t[j]
      BY <2>4, <1>2
    <3>2. t[i] = a \/ t[i] = b \/ (t[i] \in Int /\ t[i] < a)
      BY <2>4, <1>1, <1>3
    <3> QED BY <3>1, <3>2
  <2>5. CASE i \in (k + 3)..m /\ j \in (k + 3)..m
    <3>1. i + (l - k) - 2 < j + (l - k) - 2
      BY <1>4
    <3>2. s[i + (l - k) - 2] < s[j + (l - k) - 2]
      BY <3>1, <2>5, <1>2 DEF Rising
    <3> QED BY <3>2, <2>5, <1>2
  <2>6. CASE i = k + 1 /\ j = k + 2
    BY <2>6, <1>3
  <2> QED BY <2>1, <2>2, <2>3, <2>4, <2>5, <2>6
<1> QED BY <1>4 DEF Rising

-----------------------------------------------------------------------------
\* The places that add_range() finds: even, with the interval that the new
\* range begins in (or touches) on the left, and the one it ends in on the
\* right.
LEMMA RangePlaces ==
  ASSUME IInv, NEW start \in Int, NEW stop \in Int, start < stop
  PROVE  \E k, l \in 0..Len(interval_ends), a, b \in Int :
           /\ k <= l /\ ~Odd(k) /\ ~Odd(l) /\ a <= start /\ stop <= b
           /\ k > 0 => interval_ends[k] < a
           /\ l < Len(interval_ends) => b < interval_ends[l + 1]
           /\ k < Len(interval_ends) => a <= interval_ends[k + 1]
           /\ l > 0 => interval_ends[l] <= b
           /\ a < start => Below(interval_ends, k + 1, start - 1)
                             /\ interval_ends[k + 1] = a
           /\ stop < b => l > 0 /\ Below(interval_ends, l - 1, stop)
                            /\ interval_ends[l] = b
           /\ AddRange(start, stop)
                = Splice(interval_ends, k, l, a, b)
<1> DEFINE s == interval_ends
           n == Len(s)
           i1 == BisectLeft(start)
           i2 == BisectRight(stop)
           k == IF Odd(i1) THEN i1 - 1 ELSE i1
           l == IF Odd(i2) THEN i2 + 1 ELSE i2
           a == IF Odd(i1) THEN s[i1] ELSE start
           b == IF Odd(i2) THEN s[i2 + 1] ELSE stop
<1>1. /\ s \in Seq(Int) /\ n \in Nat /\ DOMAIN s = 1..n /\ ~Odd(n) /\ Sorted(s)
      /\ \A i \in 1..n : s[i] \in Int
  BY DEF IInv, StrictlySorted, Sorted
<1>2. Below(s, i1, start - 1) /\ Below(s, i2, stop)
  BY <1>1, LeftPlace, RightPlace
<1> HIDE DEF i1, i2
<1>3. /\ i1 \in 0..n /\ (i1 > 0 => s[i1] < start) /\ (i1 < n => start <= s[i1 + 1])
      /\ i2 \in 0..n /\ (i2 > 0 => s[i2] <= stop) /\ (i2 < n => stop < s[i2 + 1])
  BY <1>1, <1>2 DEF Below
<1>4. i1 <= i2
  <2> SUFFICES ASSUME i2 < i1 PROVE FALSE
    BY <1>3
  <2>1. /\ i2 + 1 \in 1..n /\ i1 \in 1..n /\ i2 + 1 <= i1
        /\ stop < s[i2 + 1] /\ s[i1] < start
    BY <1>1, <1>3
  <2>2. s[i2 + 1] <= s[i1]
    BY <2>1, <1>1, SMTT(30) DEF Sorted
  <2> QED BY <2>1, <2>2, <1>1
<1>5. Odd(i1) => i1 > 0
  BY <1>3 DEF Odd
<1>6. Odd(i2) => i2 > 0 /\ i2 < n
  BY <1>1, <1>3 DEF Odd
<1>7. k \in 0..n /\ l \in 0..n /\ ~Odd(k) /\ ~Odd(l)
  <2>1. i1 \in 0..n /\ i2 \in 0..n
    BY <1>3
  <2>2. k \in 0..n /\ ~Odd(k)
    BY <2>1, <1>1, <1>5 DEF Odd
  <2>3. l \in 0..n /\ ~Odd(l)
    BY <2>1, <1>1, <1>6 DEF Odd
  <2> QED BY <2>2, <2>3
<1>8. k <= l
  BY <1>3, <1>4, <1>5
<1>9. a \in Int /\ b \in Int /\ a <= start /\ stop <= b
  BY <1>1, <1>3, <1>5, <1>6
<1>10. (k > 0 => s[k] < a) /\ (k < n => a <= s[k + 1])
  <2>1. CASE Odd(i1)
    <3>1. k + 1 = i1 /\ a = s[k + 1] /\ k + 1 \in 1..n
      BY <2>1, <1>3, <1>5
    <3>2. k > 0 => k \in 1..n
      BY <1>7
    <3> HIDE DEF k, a
    <3> QED BY <3>1, <3>2, <1>1 DEF Sorted
  <2>2. CASE ~Odd(i1)
    BY <2>2, <1>3
  <2> QED BY <2>1, <2>2
<1>11. (l < n => b < s[l + 1]) /\ (l > 0 => s[l] <= b)
  <2>1. CASE Odd(i2)
    <3>1. l = i2 + 1 /\ b = s[l] /\ l \in 1..n
      BY <2>1, <1>3, <1>6
    <3>2. l < n => l + 1 \in 1..n
      BY <1>1, <1>7
    <3> HIDE DEF l, b
    <3> QED BY <3>1, <3>2, <1>1 DEF Sorted
  <2>2. CASE ~Odd(i2)
    BY <2>2, <1>3
  <2> QED BY <2>1, <2>2
<1>12. a < start => Below(s, k + 1, start - 1) /\ s[k + 1] = a
  <2> HAVE a < start
  <2>1. Odd(i1) /\ k + 1 = i1
    BY <1>3
  <2> QED BY <2>1, <1>2
<1>13. stop < b => l > 0 /\ Below(s, l - 1, stop) /\ s[l] = b
  <2> HAVE stop < b
  <2>1. Odd(i2) /\ l = i2 + 1 /\ l - 1 = i2
    BY <1>3
  <2> QED BY <2>1, <1>2, <1>3
<1>14. AddRange(start, stop) = Splice(s, k, l, a, b)
  <2>1. Odd(i1) => End(i1 - 1) = s[i1]
    BY <1>3 DEF End
  <2> QED BY <2>1 DEF AddRange, Replaced, Splice, End, i1, i2
<1> HIDE DEF k, l, a, b
<1> QED BY <1>7, <1>8, <1>9, <1>10, <1>11, <1>12, <1>13, <1>14

\* Odd and even places alternate.
LEMMA Parity ==
  ASSUME NEW p \in Int
  PROVE  (Odd(p + 1) <=> ~Odd(p)) /\ (Odd(p - 1) <=> ~Odd(p))
BY DEF Odd

-----------------------------------------------------------------------------
(***************************************************************************)
(* add_range() keeps the list sorted and adds start..(stop - 1).           *)
(***************************************************************************)
LEMMA RangeAdded ==
  ASSUME IInv, NEW start \in Int, NEW stop \in Int, start < stop,
         NEW t, t = AddRange(start, stop)
  PROVE  /\ t \in Seq(Int) /\ ~Odd(Len(t)) /\ Rising(t, Len(t))
         /\ \A x \in Int : \A p \in 0..Len(t) :
              Below(t, p, x)
                => (x \in added \cup start..(stop - 1) <=> Odd(p))
<1> DEFINE s == interval_ends
           n == Len(s)
<1>1. /\ s \in Seq(Int) /\ n \in Nat /\ ~Odd(n)
      /\ Ints(s, n) /\ Rising(s, n)
  BY DEF IInv, StrictlySorted, Ints, Rising
<1>2. PICK k, l \in 0..n, a, b \in Int :
        /\ k <= l /\ ~Odd(k) /\ ~Odd(l) /\ a <= start /\ stop <= b
        /\ k > 0 => s[k] < a
        /\ l < n => b < s[l + 1]
        /\ k < n => a <= s[k + 1]
        /\ l > 0 => s[l] <= b
        /\ a < start => Below(s, k + 1, start - 1) /\ s[k + 1] = a
        /\ stop < b => l > 0 /\ Below(s, l - 1, stop) /\ s[l] = b
        /\ AddRange(start, stop) = Splice(s, k, l, a, b)
  BY RangePlaces
<1>3. k \in Nat /\ l \in Nat /\ k <= l /\ l <= n /\ a < b
  BY <1>1, <1>2
<1> DEFINE m == Len(t)
<1>4. t \in Seq(Int) /\ m = n + k + 2 - l /\ IsSplice(s, k, l, a, b, t, m)
  <2> DEFINE u == Splice(s, k, l, a, b)
  <2>1. t = u
    BY <1>2
  <2>2. /\ u \in Seq(Int) /\ Len(u) = n + k + 2 - l
        /\ IsSplice(s, k, l, a, b, u, Len(u))
    BY <1>1, <1>3, Spliced
  <2> HIDE DEF u
  <2> QED BY <2>1, <2>2
<1>5. m \in Nat /\ Ints(t, m)
  BY <1>4 DEF Ints
<1>sizes. /\ k \in Nat /\ l \in Nat /\ n \in Nat /\ m \in Nat
      /\ k <= l /\ l <= n /\ m = n + k + 2 - l
  BY <1>1, <1>3, <1>4, <1>5
<1>6. Below(s, k + 1, start - 1) => start <= s[k + 2] /\ k + 2 <= n
  <2> HAVE Below(s, k + 1, start - 1)
  <2>1. k + 1 <= n /\ (k + 1 < n => start - 1 < s[(k + 1) + 1])
    BY DEF Below
  <2>2. k + 1 # n /\ (k + 1) + 1 = k + 2
    <3>1. k \in Nat /\ n \in Nat /\ ~Odd(k) /\ ~Odd(n)
      BY <1>sizes, <1>1, <1>2
    <3> HIDE DEF n
    <3> QED BY <3>1, Parity
  <2>3. k + 2 <= n /\ start - 1 < s[k + 2] /\ k + 2 \in 1..n
    BY <2>1, <2>2, <1>1, <1>3
  <2>4. s[k + 2] \in Int
    BY <2>3, <1>1 DEF Ints
  <2> QED BY <2>3, <2>4
<1>7. stop < b => l > 1 /\ s[l - 1] <= stop
  <2> HAVE stop < b
  <2>1. l > 0 /\ (l - 1 > 0 => s[l - 1] <= stop)
    BY <1>2 DEF Below
  <2>2. l # 1
    BY <1>2 DEF Odd
  <2> QED BY <2>1, <2>2, <1>3
<1>8. \A x \in Int : \A p \in 0..n : Below(s, p, x) => (x \in added <=> Odd(p))
  BY DEF IInv, Stands
<1> HIDE DEF s, n, m
<1>9. Rising(t, m)
  BY <1>1, <1>2, <1>3, <1>4, <1>5, SplicedSorted
<1>10. ~Odd(m)
  <2>1. ~Odd(k) /\ ~Odd(l) /\ ~Odd(n)
    BY <1>1, <1>2
  <2> QED BY <2>1, <1>sizes DEF Odd
<1>11. \A q \in 1..k : t[q] = s[q]
  BY <1>4 DEF IsSplice
<1>12. t[k + 1] = a /\ t[k + 2] = b
  BY <1>4 DEF IsSplice
<1>13. \A q \in (k + 3)..m : t[q] = s[q + (l - k) - 2]
  BY <1>4 DEF IsSplice
<1>14. ASSUME NEW x \in Int, NEW p \in 0..m, Below(t, p, x)
       PROVE  x \in added \cup start..(stop - 1) <=> Odd(p)
  <2>0. (p > 0 => t[p] <= x) /\ (p < m => x < t[p + 1])
    BY <1>14 DEF Below, m
  <2>1. CASE x < a
    <3>1. p <= k
      <4> SUFFICES ASSUME p > k PROVE FALSE
        BY <1>3
      <4>1. p \in 1..m /\ k + 1 \in 1..m /\ (p = k + 1 \/ k + 1 < p)
        BY <1>3, <1>4
      <4>2. t[p] \in Int /\ (p = k + 1 \/ a < t[p])
        BY <4>1, <1>5, <1>9, <1>12 DEF Ints, Rising
      <4> QED BY <4>2, <2>0, <2>1, <1>12, <4>1
    <3>2. p > 0 => s[p] <= x
      <4>1. p > 0 => p \in 1..k
        BY <3>1
      <4> QED BY <4>1, <2>0, <1>11
    <3>3. p < n => x < s[p + 1]
      <4> HAVE p < n
      <4>1. p < m
        BY <3>1, <1>sizes
      <4>2. CASE p = k
        <5>1. k + 1 \in 1..n
          BY <4>2, <1>1, <1>3
        <5>2. s[k + 1] \in Int /\ a <= s[k + 1]
          BY <5>1, <4>2, <1>1, <1>2 DEF Ints
        <5> QED BY <5>2, <4>2, <2>1
      <4>3. CASE p < k
        <5>1. p + 1 \in 1..k
          BY <4>3
        <5> QED BY <5>1, <4>1, <2>0, <1>11
      <4> QED BY <4>2, <4>3, <3>1, <1>3
    <3>4. p \in 0..n /\ Below(s, p, x)
      BY <3>1, <3>2, <3>3, <1>1, <1>3 DEF Below, n
    <3>5. x \notin start..(stop - 1)
      BY <2>1, <1>2
    <3> QED BY <3>4, <3>5, <1>8
  <2>2. CASE a <= x /\ x < b
    <3>1. p = k + 1
      <4>1. CASE p <= k
        <5>1. p + 1 \in 1..m /\ k + 1 \in 1..m /\ (p + 1 = k + 1 \/ p + 1 < k + 1)
          BY <4>1, <1>sizes
        <5>2. t[p + 1] \in Int /\ t[p + 1] <= a
          BY <5>1, <1>5, <1>9, <1>12 DEF Ints, Rising
        <5>3. p < m
          BY <4>1, <1>sizes
        <5> QED BY <5>2, <5>3, <2>0, <2>2
      <4>2. CASE p >= k + 2
        <5>1. p \in 1..m /\ k + 2 \in 1..m /\ (p = k + 2 \/ k + 2 < p)
          BY <4>2, <1>3, <1>4
        <5>2. t[p] \in Int /\ b <= t[p]
          BY <5>1, <1>5, <1>9, <1>12 DEF Ints, Rising
        <5> QED BY <5>1, <5>2, <2>0, <2>2
      <4> QED BY <4>1, <4>2, <1>3
    <3>2. Odd(p)
      BY <3>1, <1>2, <1>3 DEF Odd
    <3>3. x < start => x \in added
      <4> HAVE x < start
      <4>1. Below(s, k + 1, start - 1) /\ s[k + 1] = a
        BY <1>2, <2>2
      <4>2. k + 2 <= n /\ start <= s[k + 2] /\ k + 2 \in 1..n
        BY <4>1, <1>1, <1>3, <1>6
      <4>3. s[k + 2] \in Int
        BY <4>2, <1>1 DEF Ints
      <4>4. x < s[k + 2]
        BY <4>2, <4>3
      <4>5. Below(s, k + 1, x)
        <5>1. k + 1 \in 0..n /\ (k + 1) + 1 = k + 2
          BY <4>2, <1>sizes
        <5> QED BY <5>1, <4>1, <4>4, <2>2 DEF Below, n
      <4>6. k + 1 \in 0..n /\ Odd(k + 1)
        BY <4>2, <3>1, <3>2, <1>sizes
      <4> QED BY <4>5, <4>6, <1>8
    <3>4. x >= stop => x \in added
      <4> HAVE x >= stop
      <4>1. stop < b /\ l > 1 /\ s[l - 1] <= stop /\ s[l] = b
        BY <1>2, <1>7, <2>2
      <4>2. l - 1 \in 1..n /\ (l - 1) + 1 = l /\ l - 1 \in 0..n
        BY <4>1, <1>1, <1>3
      <4>3. s[l - 1] <= x
        BY <4>1, <4>2, <1>1 DEF Ints
      <4>4. Below(s, l - 1, x)
        BY <4>1, <4>2, <4>3, <2>2 DEF Below, n
      <4>5. Odd(l - 1)
        BY <1>2, <1>3 DEF Odd
      <4> QED BY <4>2, <4>4, <4>5, <1>8
    <3> QED BY <3>2, <3>3, <3>4
  <2>3. CASE b <= x
    <3> DEFINE q == p + (l - k) - 2
    <3>1. p >= k + 2
      <4> SUFFICES ASSUME p <= k + 1 PROVE FALSE
        BY <1>3
      <4>1. /\ p < m /\ p + 1 \in 1..m /\ k + 2 \in 1..m
            /\ (p + 1 = k + 2 \/ p + 1 < k + 2)
        BY <1>sizes
      <4>2. t[p + 1] \in Int /\ t[p + 1] <= b
        BY <4>1, <1>5, <1>9, <1>12 DEF Ints, Rising
      <4> QED BY <4>1, <4>2, <2>0, <2>3
    <3>2. q \in 0..n /\ q >= l
      BY <3>1, <1>sizes
    <3>3. q > 0 => s[q] <= x
      <4> HAVE q > 0
      <4>1. CASE p = k + 2
        <5>1. q = l /\ l > 0 /\ l \in 1..n
          BY <4>1, <1>3
        <5>2. s[l] \in Int /\ s[l] <= b
          BY <5>1, <1>1, <1>2 DEF Ints
        <5> QED BY <5>1, <5>2, <2>3
      <4>2. CASE p >= k + 3
        <5>1. p \in (k + 3)..m /\ p > 0
          BY <4>2, <1>3
        <5>2. t[p] = s[q]
          BY <5>1, <1>13
        <5> QED BY <5>1, <5>2, <2>0
      <4> QED BY <4>1, <4>2, <3>1, <1>3
    <3>4. q < n => x < s[q + 1]
      <4> HAVE q < n
      <4>1. p < m /\ p + 1 \in (k + 3)..m /\ (p + 1) + (l - k) - 2 = q + 1
        BY <3>1, <1>sizes
      <4>2. t[p + 1] = s[q + 1]
        <5> HIDE DEF q
        <5> QED BY <4>1, <1>13
      <4> QED BY <4>1, <4>2, <2>0
    <3>5. Odd(q) <=> Odd(p)
      BY <3>1, <1>2, <1>3 DEF Odd
    <3> HIDE DEF q
    <3>6. Below(s, q, x)
      BY <3>2, <3>3, <3>4 DEF Below, n
    <3>7. x \notin start..(stop - 1)
      BY <2>3, <1>2
    <3> QED BY <3>2, <3>5, <3>6, <3>7, <1>8
  <2> QED BY <2>1, <2>2, <2>3
<1> QED BY <1>4, <1>9, <1>10, <1>14 DEF m

-----------------------------------------------------------------------------
(***************************************************************************)
(* The theorems.                                                           *)
(***************************************************************************)
\* The ends are sorted and stand for the set that was added.
THEOREM InvariantHolds == UnionSpec => []IInv
<1>1. UnionInit => IInv
  <2> SUFFICES ASSUME UnionInit PROVE IInv
    OBVIOUS
  <2>1. interval_ends = <<>> /\ added = {} /\ Len(interval_ends) = 0
    BY DEF UnionInit
  <2>2. ~Odd(0)
    BY DEF Odd
  <2>3. StrictlySorted
    BY <2>1, <2>2 DEF StrictlySorted
  <2>4. Stands
    <3>1. ASSUME NEW x \in Int, NEW k \in 0..Len(interval_ends)
          PROVE  x \in added <=> Odd(k)
      <4>1. k = 0
        BY <2>1
      <4> QED BY <4>1, <2>1, <2>2
    <3> QED BY <3>1 DEF Stands
  <2> QED BY <2>1, <2>3, <2>4 DEF IInv
<1>2. IInv /\ [UnionNext]_unionVars => IInv'
  <2> SUFFICES ASSUME IInv, [UnionNext]_unionVars PROVE IInv'
    OBVIOUS
  <2>1. CASE UNCHANGED unionVars
    BY <2>1 DEF IInv, StrictlySorted, Stands, unionVars
  <2>2. CASE UnionNext
    <3>1. PICK start \in Int, stop \in Int :
            /\ start < stop
            /\ interval_ends' = AddRange(start, stop)
            /\ added' = added \cup start..(stop - 1)
      BY <2>2, BoundsAssumption DEF UnionNext
    <3> DEFINE t == interval_ends'
    <3>2. /\ t \in Seq(Int) /\ ~Odd(Len(t)) /\ Rising(t, Len(t))
          /\ \A x \in Int : \A p \in 0..Len(t) :
               Below(t, p, x) => (x \in added' <=> Odd(p))
      <4> HIDE DEF t
      <4>1. t = AddRange(start, stop)
        BY <3>1 DEF t
      <4> QED BY <4>1, <3>1, RangeAdded
    <3>3. added' \subseteq Int
      BY <3>1 DEF IInv
    <3>4. StrictlySorted'
      BY <3>2 DEF StrictlySorted, Rising
    <3>5. Stands'
      BY <3>2 DEF Stands
    <3> QED BY <3>2, <3>3, <3>4, <3>5 DEF IInv
  <2> QED BY <2>1, <2>2
<1> QED BY <1>1, <1>2, PTL DEF UnionSpec

\* The list is of even length and strictly sorted, whatever is added.
THEOREM StaysSorted == UnionSpec => []StrictlySorted
<1>1. IInv => StrictlySorted
  BY DEF IInv
<1> QED BY <1>1, InvariantHolds, PTL

(***************************************************************************)
(* covers() is exact: longest() goes to the end of the interval that start *)
(* is in, which is the first integer that is not in the set.               *)
(***************************************************************************)
LEMMA LongestIsExact ==
  ASSUME IInv, NEW start \in Int, NEW stop \in Int
  PROVE  Covers(start, stop) <=> start..(stop - 1) \subseteq added
<1> DEFINE s == interval_ends
           n == Len(s)
           r == BisectRight(start)
<1>1. /\ s \in Seq(Int) /\ n \in Nat /\ ~Odd(n)
      /\ Ints(s, n) /\ Rising(s, n) /\ Sorted(s)
  BY DEF IInv, StrictlySorted, Ints, Rising, Sorted
<1>2. Below(s, r, start)
  BY <1>1, RightPlace
<1> HIDE DEF r
<1>3. r \in 0..n /\ (r > 0 => s[r] <= start) /\ (r < n => start < s[r + 1])
  BY <1>2 DEF Below
<1>4. \A x \in Int : \A p \in 0..n : Below(s, p, x) => (x \in added <=> Odd(p))
  BY DEF IInv, Stands
<1>5. start \in added <=> Odd(r)
  BY <1>2, <1>3, <1>4
<1>6. CASE ~Odd(r)
  <2>1. Covers(start, stop) <=> stop <= start
    BY <1>6 DEF Covers, Longest, r
  <2>2. stop > start => start \in start..(stop - 1)
    OBVIOUS
  <2>3. stop <= start => start..(stop - 1) = {}
    OBVIOUS
  <2> QED BY <2>1, <2>2, <2>3, <1>5, <1>6
<1>7. CASE Odd(r)
  <2>1. r > 0 /\ r < n /\ r + 1 \in 1..n /\ r \in 1..n
    BY <1>1, <1>3, <1>7 DEF Odd
  <2> DEFINE e == s[r + 1]
  <2>2. e \in Int /\ s[r] \in Int /\ start < e
    BY <2>1, <1>1, <1>3 DEF Ints
  <2>3. Covers(start, stop) <=> stop <= e
    BY <1>7 DEF Covers, Longest, End, r
  <2>4. e \notin added
    <3>1. ~Odd(r + 1)
      BY <2>1, <1>7 DEF Odd
    <3>2. Below(s, r + 1, e)
      <4>1. r + 1 < n => s[r + 1] < s[(r + 1) + 1]
        <5> HAVE r + 1 < n
        <5>1. (r + 1) + 1 \in 1..n /\ r + 1 < (r + 1) + 1
          BY <2>1, <1>1
        <5> QED BY <5>1, <2>1, <1>1 DEF Rising
      <4> QED BY <4>1, <2>1, <2>2 DEF Below
    <3> QED BY <3>1, <3>2, <2>1, <2>2, <1>4
  <2>5. ASSUME NEW x \in start..(e - 1) PROVE x \in added
    <3>1. x \in Int /\ s[r] <= x /\ x < e
      BY <2>1, <2>2, <1>3
    <3>2. Below(s, r, x)
      BY <3>1, <1>3 DEF Below
    <3> QED BY <3>1, <3>2, <1>3, <1>4, <1>7
  <2> HIDE DEF e
  <2>6. stop <= e => start..(stop - 1) \subseteq start..(e - 1)
    BY <2>2
  <2>7. stop > e => e \in start..(stop - 1)
    BY <2>2
  <2> QED BY <2>2, <2>3, <2>4, <2>5, <2>6, <2>7
<1> QED BY <1>6, <1>7

\* covers() and longest() answer as the set would, for all ranges.
THEOREM CoversIsExact == UnionSpec => []CoversExactly
<1>1. IInv => CoversExactly
  <2> SUFFICES ASSUME IInv PROVE CoversExactly
    OBVIOUS
  <2>1. \A start, stop \in Int :
          Covers(start, stop) <=> start..(stop - 1) \subseteq added
    BY LongestIsExact
  <2> QED BY <2>1, BoundsAssumption DEF CoversExactly
<1> QED BY <1>1, InvariantHolds, PTL
=============================================================================
