---------------------------- MODULE NumberLemmas ----------------------------
(***************************************************************************)
(* Least elements, stretches of numbers and functions that unwind, in the  *)
(* place of induction.                                                     *)
(***************************************************************************)
EXTENDS Integers, FiniteSetsExt, FiniteSetTheorems, TLAPS

(***************************************************************************)
(* A set of natural numbers that is not empty has a least element: the     *)
(* intervals 0..n for n in the set, which are finite, have a minimal one.  *)
(***************************************************************************)
LEMMA LeastExists ==
  ASSUME NEW S \in SUBSET Nat, S # {}
  PROVE  \E n \in S : \A m \in S : n <= m
<1> DEFINE Initials == {0..n : n \in S}
<1>1. Initials \subseteq FiniteSubsetsOf(Nat)
  <2> SUFFICES ASSUME NEW n \in S PROVE 0..n \in FiniteSubsetsOf(Nat)
    OBVIOUS
  <2>1. IsFiniteSet(0..n)
    BY FS_Interval
  <2> QED BY <2>1 DEF FiniteSubsetsOf
<1>2. Initials # {}
  OBVIOUS
<1>3. PICK I \in Initials :
        \A J \in Initials : <<J, I>> \notin StrictSubsetOrdering(Nat)
  <2> HIDE DEF Initials
  <2> QED BY <1>1, <1>2, FS_StrictSubsetOrderingWellFounded, WFMin
<1>4. PICK n \in S : I = 0..n
  OBVIOUS
<1>5. ASSUME NEW m \in S, m < n PROVE FALSE
  <2>1. 0..m \subseteq 0..n /\ n \in 0..n /\ n \notin 0..m
    BY <1>5
  <2>2. <<0..m, I>> \in StrictSubsetOrdering(Nat)
    BY <2>1, <1>4 DEF StrictSubsetOrdering
  <2> QED BY <2>2, <1>3
<1> QED BY <1>5

\* Min finds it.
LEMMA MinOfNumbers ==
  ASSUME NEW S \in SUBSET Nat, S # {}
  PROVE  Min(S) \in S /\ \A m \in S : Min(S) <= m
<1>1. \E n \in S : \A m \in S : n <= m
  BY LeastExists
<1> QED BY <1>1 DEF Min

\* Max finds the greatest of a bounded set.
LEMMA MaxOfNumbers ==
  ASSUME NEW N \in Nat, NEW S \in SUBSET (0..N), S # {}
  PROVE  Max(S) \in S /\ \A m \in S : m <= Max(S)
<1> DEFINE Mirror == {N - m : m \in S}
<1>0. \A m \in S : N - m \in Nat
  OBVIOUS
<1>1. Mirror \in SUBSET Nat /\ Mirror # {}
  BY <1>0
<1>2. \E n \in Mirror : \A m \in Mirror : n <= m
  <2> HIDE DEF Mirror
  <2> QED BY <1>1, LeastExists
<1>3. PICK n \in S : \A m \in Mirror : N - n <= m
  BY <1>2
<1>4. ASSUME NEW m \in S PROVE n >= m
  <2>1. N - m \in Mirror
    OBVIOUS
  <2>2. N - n <= N - m
    BY <1>3, <2>1
  <2>3. n \in Int /\ m \in Int
    OBVIOUS
  <2> QED BY <2>2, <2>3
<1>5. \E k \in S : \A m \in S : k >= m
  BY <1>4
<1> QED BY <1>5 DEF Max

\* What holds at i and is never lost on the way to j holds at j.
LEMMA Persists ==
  ASSUME NEW i \in Int, NEW j \in Int, i <= j, NEW X, i \in X,
         \A k \in i..(j - 1) : k \in X => k + 1 \in X
  PROVE  j \in X
<1> SUFFICES ASSUME j \notin X PROVE FALSE
  OBVIOUS
<1> DEFINE Lost == {k \in 0..(j - i) : i + k \notin X}
<1>1. Lost \in SUBSET Nat /\ j - i \in Lost
  OBVIOUS
<1>2. PICK n \in Lost : \A m \in Lost : n <= m
  <2> HIDE DEF Lost
  <2> QED BY <1>1, LeastExists
<1>3. n # 0 /\ n \in 0..(j - i) /\ i + n \notin X
  OBVIOUS
<1>4. n - 1 \notin Lost
  BY <1>2, <1>3
<1>5. i + (n - 1) \in X
  BY <1>3, <1>4
<1>6. i + (n - 1) \in i..(j - 1) /\ (i + (n - 1)) + 1 = i + n
  BY <1>3
<1> QED BY <1>3, <1>5, <1>6

\* The same in both directions.
LEMMA Constant ==
  ASSUME NEW i \in Int, NEW j \in Int, i <= j, NEW X,
         \A k \in i..(j - 1) : k \in X <=> k + 1 \in X
  PROVE  i \in X <=> j \in X
<1>1. ASSUME i \in X PROVE j \in X
  BY <1>1, Persists
<1>2. ASSUME i \notin X PROVE j \notin X
  <2> DEFINE Y == (i..j) \ X
  <2>1. i \in Y /\ \A k \in i..(j - 1) : k \in Y => k + 1 \in Y
    BY <1>2
  <2>2. j \in Y
    <3> HIDE DEF Y
    <3> QED BY <2>1, Persists
  <2> QED BY <2>2
<1> QED BY <1>1, <1>2

Unwound(h, N, again, step, end) ==
  \A t \in 1..N : h[t] = IF t \in again THEN h[step[t]] ELSE end[t]

Unwinds(N, again, step, end) ==
  \E h \in [1..N -> 1..N] : Unwound(h, N, again, step, end)

(***************************************************************************)
(* A function on 1..N that is defined by its own values further up exists: *)
(* from N downward, no least start is larger than 1.                       *)
(***************************************************************************)
LEMMA UnwindsUp ==
  ASSUME NEW N \in Nat, NEW again \in SUBSET (1..N),
         NEW step \in [1..N -> 1..N],
         NEW end \in [1..N -> 1..N],
         \A t \in 1..N : t \in again => step[t] > t
  PROVE  Unwinds(N, again, step, end)
<1> DEFINE Right(h, k) ==
             \A t \in k..N : h[t] = IF t \in again THEN h[step[t]] ELSE end[t]
           Starts == {k \in 1..(N + 1) : \E h \in [1..N -> 1..N] : Right(h, k)}
<1>1. N + 1 \in Starts
  <2>1. Right(end, N + 1)
    OBVIOUS
  <2>2. N + 1 \in 1..(N + 1)
    OBVIOUS
  <2> HIDE DEF Right
  <2> QED BY <2>1, <2>2
<1>2. Starts \in SUBSET Nat /\ Starts # {}
  <2>1. \A k \in Starts : k \in 1..(N + 1)
    OBVIOUS
  <2> HIDE DEF Starts
  <2> QED BY <1>1, <2>1
<1>3. PICK k \in Starts : \A m \in Starts : k <= m
  <2> HIDE DEF Starts
  <2> QED BY <1>2, LeastExists
<1>4. k \in 1..(N + 1) /\ \E h \in [1..N -> 1..N] : Right(h, k)
  OBVIOUS
<1>5. PICK h \in [1..N -> 1..N] : Right(h, k)
  BY <1>4
<1>6. ASSUME k > 1 PROVE FALSE
  <2>1. PICK j \in 1..N : k = j + 1
    BY <1>4, <1>6
  <2>2. PICK value \in 1..N :
          value = IF j \in again THEN h[step[j]] ELSE end[j]
    OBVIOUS
  <2>3. PICK up \in [1..N -> 1..N] : up = [h EXCEPT ![j] = value]
    OBVIOUS
  <2>4. ASSUME NEW t \in j..N
        PROVE  up[t] = IF t \in again THEN up[step[t]] ELSE end[t]
    <3>1. t \in 1..N /\ (t \in again => step[t] \in 1..N /\ step[t] # j)
      BY <2>1
    <3>2. t \in again => up[step[t]] = h[step[t]]
      BY <3>1, <2>3
    <3>3. CASE t = j
      BY <3>1, <3>2, <3>3, <2>2, <2>3
    <3>4. CASE t # j
      <4>1. t \in k..N /\ up[t] = h[t]
        BY <3>4, <2>1, <2>3
      <4> QED BY <4>1, <3>2, <1>5
    <3> QED BY <3>3, <3>4
  <2>5. Right(up, j)
    BY <2>4
  <2>6. j \in 1..(N + 1) /\ j < k
    BY <2>1
  <2>7. j \in Starts
    <3> HIDE DEF Right
    <3> QED BY <2>5, <2>6
  <2> HIDE DEF Starts, Right
  <2> QED BY <2>6, <2>7, <1>3, <1>4
<1>7. k = 1
  <2> HIDE DEF Starts, Right
  <2> QED BY <1>4, <1>6
<1> QED BY <1>5, <1>7 DEF Unwinds, Unwound

\* The same of values further down: its mirror image.
LEMMA UnwindsDown ==
  ASSUME NEW N \in Nat, NEW again \in SUBSET (1..N),
         NEW step \in [1..N -> 1..N],
         NEW end \in [1..N -> 1..N],
         \A t \in 1..N : t \in again => step[t] < t
  PROVE  Unwinds(N, again, step, end)
<1> DEFINE M(t) == (N + 1) - t
           mAgain == {t \in 1..N : M(t) \in again}
           mStep == [t \in 1..N |-> M(step[M(t)])]
           mEnd == [t \in 1..N |-> end[M(t)]]
<1>1. \A t \in 1..N : M(t) \in 1..N /\ M(M(t)) = t
  OBVIOUS
<1>2. mStep \in [1..N -> 1..N] /\ mEnd \in [1..N -> 1..N]
  BY <1>1
<1>3. \A t \in 1..N : t \in mAgain => mStep[t] > t
  <2> SUFFICES ASSUME NEW t \in 1..N, M(t) \in again PROVE mStep[t] > t
    OBVIOUS
  <2>1. step[M(t)] < M(t) /\ step[M(t)] \in 1..N
    BY <1>1
  <2> QED BY <2>1
<1>4. PICK m \in [1..N -> 1..N] : \A t \in 1..N :
        m[t] = IF t \in mAgain THEN m[mStep[t]] ELSE mEnd[t]
  <2>1. PICK a, s, e : a = mAgain /\ s = mStep /\ e = mEnd
    OBVIOUS
  <2>2. /\ a \in SUBSET (1..N) /\ s \in [1..N -> 1..N] /\ e \in [1..N -> 1..N]
        /\ \A t \in 1..N : t \in a => s[t] > t
    BY <2>1, <1>2, <1>3
  <2>3. Unwinds(N, a, s, e)
    BY <2>2, UnwindsUp
  <2> QED BY <2>1, <2>3 DEF Unwinds, Unwound
<1> DEFINE h == [t \in 1..N |-> m[M(t)]]
<1>5. h \in [1..N -> 1..N]
  BY <1>1
<1>6. ASSUME NEW t \in 1..N
      PROVE  h[t] = IF t \in again THEN h[step[t]] ELSE end[t]
  <2>1. M(t) \in 1..N /\ M(M(t)) = t /\ step[t] \in 1..N
    BY <1>1
  <2>2. /\ M(t) \in mAgain <=> t \in again
        /\ mStep[M(t)] = M(step[t]) /\ mEnd[M(t)] = end[t]
    BY <2>1
  <2>3. m[M(t)] = IF t \in again THEN m[M(step[t])] ELSE end[t]
    BY <2>1, <2>2, <1>4
  <2> QED BY <2>1, <2>3
<1> QED BY <1>5, <1>6 DEF Unwinds, Unwound
=============================================================================
