--------------------------- MODULE UnionIntervals ---------------------------
(***************************************************************************)
(* UnionOfIntervals (_revdb/uinterval.py): a set of integers, kept as the  *)
(* sorted list of the ends of its intervals.  An end at an even place of   *)
(* the list (counted from 0) opens an interval, the next one closes it.    *)
(***************************************************************************)
EXTENDS Integers, Sequences, FiniteSets

CONSTANT Bounds         \* bound: the ends of the ranges that are added

ASSUME BoundsAssumption == Bounds \subseteq Int

VARIABLES
  interval_ends,
  added                 \* what was added to the set, one integer at a time

unionVars == <<interval_ends, added>>

\* bisect.bisect_left and bisect.bisect_right
BisectLeft(x) ==
  Cardinality({i \in DOMAIN interval_ends : interval_ends[i] < x})

BisectRight(x) ==
  Cardinality({i \in DOMAIN interval_ends : interval_ends[i] <= x})

Odd(n) == n % 2 = 1

\* interval_ends[index] of the code, where places are counted from 0.
End(index) == interval_ends[index + 1]

\* interval_ends[index1:index2] = [start, stop]
Replaced(index1, index2, start, stop) ==
  SubSeq(interval_ends, 1, index1) \o <<start, stop>>
    \o SubSeq(interval_ends, index2 + 1, Len(interval_ends))

\* Mutant: an interval that starts where the new one stops is kept apart.
AddApart(start, stop) ==
  LET index1 == BisectLeft(start)
      index2 == BisectLeft(stop)
  IN  Replaced(IF Odd(index1) THEN index1 - 1 ELSE index1,
               IF Odd(index2) THEN index2 + 1 ELSE index2,
               IF Odd(index1) THEN End(index1 - 1) ELSE start,
               IF Odd(index2) THEN End(index2) ELSE stop)

\* add_range(), where start < stop.
AddRange(start, stop) ==
  LET index1 == BisectLeft(start)
      index2 == BisectRight(stop)
  IN  Replaced(IF Odd(index1) THEN index1 - 1 ELSE index1,
               IF Odd(index2) THEN index2 + 1 ELSE index2,
               IF Odd(index1) THEN End(index1 - 1) ELSE start,
               IF Odd(index2) THEN End(index2) ELSE stop)

\* Mutant: the first integer of an interval is left out.
LongestLeft(start) ==
  LET index1 == BisectLeft(start)
  IN  IF Odd(index1) THEN End(index1) ELSE start

Longest(start) ==
  LET index1 == BisectRight(start)
  IN  IF Odd(index1) THEN End(index1) ELSE start

Covers(start, stop) == stop <= Longest(start)

-----------------------------------------------------------------------------
UnionInit == interval_ends = <<>> /\ added = {}

UnionNext ==
  \E start, stop \in Bounds :
    /\ start < stop
    /\ interval_ends' = AddRange(start, stop)
    /\ added' = added \cup start..(stop - 1)

UnionSpec == UnionInit /\ [][UnionNext]_unionVars

-----------------------------------------------------------------------------
(***************************************************************************)
(* The comment of the class: the list is of even length and strictly       *)
(* sorted, through ranges that touch, overlap, swallow or repeat others.   *)
(***************************************************************************)
StrictlySorted ==
  /\ ~Odd(Len(interval_ends))
  /\ \A i, j \in DOMAIN interval_ends :
       i < j => interval_ends[i] < interval_ends[j]

(***************************************************************************)
(* test_uinterval.py: covers() says of every range whether it is in the    *)
(* union of the ranges added, whatever their order.                        *)
(***************************************************************************)
CoversExactly ==
  \A start, stop \in Bounds :
    Covers(start, stop) <=> start..(stop - 1) \subseteq added
=============================================================================
