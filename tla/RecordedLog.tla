---------------------------- MODULE RecordedLog ----------------------------
(***************************************************************************)
(* The recording that the debugger replays, as far as the debugger can     *)
(* tell one recording from another: how many stop points it has, how many  *)
(* objects exist at each of them, where a breakpoint fires and what a      *)
(* watched expression shows.  A replaying process that is paused at time t *)
(* is inside stop point t.  Everything that happens between stop points g  *)
(* and g + 1 happens in gap g.                                             *)
(*                                                                         *)
(* The recording is made and replayed by a RevDB build of PyPy, which is   *)
(* not part of this repository: this module holds what _revdb/process.py   *)
(* and the tests in test/test_process.py rely on.                          *)
(***************************************************************************)
EXTENDS Integers, FiniteSetsExt

CONSTANTS
  Total,      \* number of stop points (ANSWER_INIT, arg2)
  Created,    \* Created[t]: currently_created_objects at time t
  Breaks,     \* the breakpoints a user may set
  Fires,      \* Fires[b]: the gaps in which breakpoint b is passed
  Stoppoints, \* the gaps in which the program stops by itself (number -3)
  Watches,    \* the watchpoints a user may set
  Needs,      \* Needs[w]: uids of the objects $NUM that w mentions
  Shows,      \* Shows[w][t]: what w evaluates to at time t
  Texts,      \* the results a watched expression can have
  NoText      \* its result where an object it mentions is not known

Times == 1..Total
Gaps  == 1..(Total - 1)

\* A log without stop points is refused (process.py, ReplayProcessGroup).
ASSUME TotalAssumption == Total \in Nat \ {0}

\* Objects are numbered in the order of their creation.
ASSUME CreatedAssumption ==
  /\ Created \in [Times -> Nat]
  /\ \A s, t \in Times : s <= t => Created[s] <= Created[t]

Uids == 0..(Created[Total] - 1)

\* Objects older than the first stop point are never given a $NUM.
InitialUid == Created[1]

Numbered == {u \in Uids : u >= InitialUid}

ASSUME StopsAssumption ==
  /\ Fires \in [Breaks -> SUBSET Gaps]
  /\ Stoppoints \subseteq Gaps
  /\ Needs \in [Watches -> SUBSET Numbered]
  /\ Shows \in [Watches -> [Times -> Texts]]
  /\ NoText \notin Texts
  /\ Breaks \cap Watches = {}

\* The objects that exist at time t.
AllAlive(t) == {u \in Uids : u < Created[t]}                   \* mutant

Alive(t) == {u \in Numbered : u < Created[t]}

Clamp(t) == IF t < 1 THEN 1 ELSE IF t > Total THEN Total ELSE t

(***************************************************************************)
(* What watchpoint w shows at time t in a process that can find the        *)
(* objects in known: an object that exists but was not recorded when it    *)
(* was created cannot be found again.                                      *)
(***************************************************************************)
Reading(w, t, known) ==
  IF Needs[w] \cap Alive(t) \subseteq known THEN Shows[w][t] ELSE NoText

(***************************************************************************)
(* The gaps that interrupt a run: a breakpoint fires in the gap, or a      *)
(* watched expression shows something else than values[w] at its end.  The *)
(* stoppoint is always set.                                                *)
(***************************************************************************)
BreakGaps(armed) == Stoppoints \cup UNION {Fires[b] : b \in armed \cap Breaks}

WatchGaps(armed, values, known) ==
  {g \in Gaps : \E w \in armed \cap Watches :
                   Reading(w, g + 1, known) # values[w]}
=============================================================================
