------------------------- MODULE ReplayGroupProofs -------------------------
(***************************************************************************)
(* Proofs about ReplayGroup, for every recording and every value of the    *)
(* constants: its type invariant, that the fork of time 1 is never lost,   *)
(* that no fork holds what the user ran, and that the next clone time is   *)
(* never in the past.                                                      *)
(***************************************************************************)
EXTENDS ReplayGroup, NumberLemmas, FiniteSetTheorems, TLAPS

-----------------------------------------------------------------------------
(***************************************************************************)
(* Minima and maxima of sets of numbers.                                   *)
(***************************************************************************)

\* A bounded set of natural numbers has a greatest element, and Max finds it.
LEMMA MaxOfTimes ==
  ASSUME NEW S \in SUBSET Nat, S # {},
         NEW b \in Nat, \A n \in S : n <= b
  PROVE  Max(S) \in S /\ \A m \in S : m <= Max(S)
<1> DEFINE D == {d \in Nat : d <= b /\ b - d \in S}
<1>1. D # {}
  <2>1. PICK n \in S : TRUE
    OBVIOUS
  <2>2. b - (b - n) = n /\ b - n \in Nat /\ b - n <= b
    BY <2>1
  <2>3. b - n \in D
    BY <2>2
  <2> QED BY <2>3
<1>2. D \in SUBSET Nat
  OBVIOUS
<1>3. PICK d \in D : \A e \in D : d <= e
  BY ONLY <1>1, <1>2, LeastExists
<1>4. b - d \in S /\ \A m \in S : m <= b - d
  <2>1. b - d \in S
    BY <1>3
  <2> SUFFICES ASSUME NEW m \in S PROVE m <= b - d
    BY <2>1
  <2>2. b - (b - m) = m /\ b - m \in Nat /\ b - m <= b
    OBVIOUS
  <2>3. b - m \in D
    BY <2>2
  <2>4. d <= b - m
    BY <2>3, <1>3
  <2> QED BY <2>4
<1>5. \E n \in S : \A m \in S : n >= m
  BY <1>4
<1> QED BY <1>5 DEF Max

LEMMA MaxOfTwo ==
  ASSUME NEW a \in Int, NEW b \in Int
  PROVE  Max({a, b}) \in Int
<1>1. \E n \in {a, b} : \A m \in {a, b} : n >= m
  BY a >= b \/ b >= a
<1> QED BY <1>1 DEF Max

-----------------------------------------------------------------------------
(***************************************************************************)
(* What the operators of the lower modules return.                         *)
(***************************************************************************)

LEMMA TimesNat == Times \subseteq Nat /\ 1 \in Times /\ Total \in Times
BY TotalAssumption DEF Times

LEMMA ClampType ==
  ASSUME NEW t \in Int
  PROVE  Clamp(t) \in Times
BY TotalAssumption DEF Clamp, Times

\* The next multiple of the resolution after a time is after that time.
LEMMA NextMultiple ==
  ASSUME NEW g \in Nat
  PROVE  /\ (g \div Resolution + 1) * Resolution \in Nat
         /\ (g \div Resolution + 1) * Resolution > g
<1>1. Resolution \in Nat \ {0}
  BY ResolutionAssumption
<1> DEFINE q == g \div Resolution
           r == g % Resolution
<1>2. q \in Nat /\ r \in Nat /\ r < Resolution
  BY <1>1
<1>3. g = Resolution * q + r
  BY <1>1
<1>4. (q + 1) * Resolution = Resolution * q + Resolution
  BY <1>1, <1>2
<1>5. Resolution * q \in Nat
  BY <1>1, <1>2
<1> HIDE DEF q, r
<1>6. (q + 1) * Resolution \in Nat /\ (q + 1) * Resolution > g
  BY <1>1, <1>2, <1>3, <1>4, <1>5
<1> QED BY <1>6 DEF q

\* A run moves forward, by no more than the steps asked for.
LEMMA RestTimeType ==
  ASSUME NEW p \in Process, NEW steps \in Nat, p.time + steps <= Total,
         NEW mode \in {"b", "i", "r"}, NEW hits \in SUBSET Gaps
  PROVE  /\ RestTime(p, steps, mode, hits) \in Times
         /\ RestTime(p, steps, mode, hits) >= p.time
         /\ RestTime(p, steps, mode, hits) <= p.time + steps
         /\ steps > 0 => RestTime(p, steps, mode, hits) > p.time
<1> DEFINE entered == Entered(p, steps, hits)
<1>1. p.time \in Nat /\ p.time >= 1 /\ Total \in Nat
  BY TotalAssumption DEF Process, Times
<1>2. entered \in SUBSET Nat
  <2>1. entered \subseteq hits
    BY DEF Entered
  <2>2. Gaps \subseteq Nat
    BY <1>1 DEF Gaps
  <2> QED BY <2>1, <2>2
<1>3. CASE mode = "i" \/ entered = {}
  BY <1>1, <1>3 DEF RestTime, Times
<1>4. CASE mode # "i" /\ entered # {}
  <2> DEFINE first == Min(entered)
             tick  == TickAfter(p, first)
  <2>1. first \in entered
    BY <1>2, <1>4, MinOfNumbers
  <2>2. first \in Nat /\ p.time <= first /\ first < p.time + steps
    BY <1>1, <1>2, <2>1 DEF Entered
  <2>3. tick \in Int /\ tick > first
    <3>1. FirstTick(p) \in Int
      BY <1>1, ResolutionAssumption DEF FirstTick, Process
    <3>2. (first \div Resolution + 1) * Resolution \in Nat
          /\ (first \div Resolution + 1) * Resolution > first
      BY <2>2, NextMultiple
    <3> QED BY <2>2, <3>1, <3>2 DEF TickAfter
  <2>4. RestTime(p, steps, mode, hits) =
          IF mode = "b" THEN first + 1
          ELSE IF tick < p.time + steps THEN tick ELSE p.time + steps
    BY <1>4 DEF RestTime
  <2> HIDE DEF first, tick
  <2> QED BY <1>1, <2>2, <2>3, <2>4 DEF Times
<1> QED BY <1>3, <1>4

LEMMA ForwardType ==
  ASSUME NEW p \in Process, NEW steps \in Nat, p.time + steps <= Total,
         NEW mode \in {"b", "i", "r"}, NEW hits \in SUBSET Gaps
  PROVE  /\ Forward(p, steps, mode, hits) \in Process
         /\ Forward(p, steps, mode, hits).time = RestTime(p, steps, mode, hits)
         /\ Forward(p, steps, mode, hits).tainted = p.tainted
         /\ Forward(p, steps, mode, hits).dirty = p.dirty
         /\ Forward(p, steps, mode, hits).closed = p.closed
BY RestTimeType DEF Forward, Process

LEMMA ReportType ==
  ASSUME NEW p \in Process, NEW steps \in Nat, p.time + steps <= Total,
         NEW mode \in {"b", "i", "r"}, NEW hits \in SUBSET Gaps,
         NEW watchHits
  PROVE  Report(p, steps, mode, hits, watchHits) \in Reports
<1> DEFINE rest    == RestTime(p, steps, mode, hits)
           entered == Entered(p, rest - p.time, hits)
<1>1. Total \in Nat /\ entered \subseteq Gaps
  BY TotalAssumption DEF Entered
<1>2. CASE mode = "i" \/ entered = {}
  BY <1>1, <1>2 DEF Report, NoHit, Reports
<1>3. CASE mode # "i" /\ entered # {}
  <2>1. Max(entered) \in Gaps
    <3>1. entered \in SUBSET Nat /\ \A g \in entered : g <= Total
      BY <1>1 DEF Gaps
    <3> HIDE DEF entered
    <3> QED BY <1>1, <1>3, <3>1, MaxOfTimes
  <2>2. Report(p, steps, mode, hits, watchHits) =
          [time  |-> IF mode = "b" THEN Max(entered) + 1 ELSE Max(entered),
           watch |-> Max(entered) \in watchHits]
    BY <1>3 DEF Report
  <2> HIDE DEF entered
  <2> QED BY <1>1, <2>1, <2>2 DEF Reports, Gaps
<1> QED BY <1>2, <1>3

LEMMA CloneType ==
  ASSUME NEW p \in Process
  PROVE  /\ Clone(p) \in Process
         /\ Clone(p).time = p.time /\ Clone(p).closed = p.closed
         /\ Clone(p).dirty = p.dirty /\ Clone(p).tainted = FALSE
BY DEF Clone, Process

LEMMA CloseType ==
  ASSUME NEW p \in Process
  PROVE  /\ Close(p) \in Process
         /\ Close(p).time = p.time /\ Close(p).dirty = p.dirty
         /\ Close(p).tainted = p.tainted
BY DEF Close, Process

LEMMA TaintType ==
  ASSUME NEW p \in Process
  PROVE  /\ Taint(p) \in Process
         /\ Taint(p).time = p.time
         /\ Taint(p).tainted = TRUE
BY DEF Taint, Process

\* Gaps that interrupt a run are gaps.
LEMMA HitsType == Hits \subseteq Gaps
BY StopsAssumption DEF Hits, BreakGaps, WatchHits, WatchGaps

\* The values of the watchpoints are texts.
LEMMA WatchValuesType ==
  ASSUME NEW watched
  PROVE  WatchValues(watched) \subseteq [Watches -> Texts \cup {NoText}]
BY DEF WatchValues

LEMMA WatchUidsType == WatchUids \subseteq Numbered
BY StopsAssumption DEF WatchUids, Armed

-----------------------------------------------------------------------------
(***************************************************************************)
(* The inductive invariant.  OriginKept and ForksFaithful are not          *)
(* inductive: they rest on what the command under way may still do, and on *)
(* which process it may do it to.                                          *)
(***************************************************************************)

\* The step that continues a command belongs to that command.
Staged ==
  /\ phase = "prompt" => after = "done"
  /\ after = "step" => request \in [op: {"step"}, arg: Args]
  /\ after = "watch" => request \in [op: {"arm"}, arg: Watches]

\* A process in which code was run is marked, and is not moved or cloned.
Unmoved ==
  /\ active.dirty => active.tainted
  /\ phase \in {"forward", "clone"} => ~active.tainted
  /\ phase = "return" /\ after \in {"step", "search"} => ~active.tainted

\* The active process has not passed the place of the next new fork.
Within == active.time <= NewCloneTime

IInv == TypeOK /\ Staged /\ Unmoved /\ OriginKept /\ ForksFaithful /\ Within

-----------------------------------------------------------------------------
(***************************************************************************)
(* The clone times.                                                        *)
(***************************************************************************)

LEMMA ForksFacts ==
  ASSUME IInv, phase # "exited"
  PROVE  /\ Forks \in SUBSET Nat /\ Forks # {}
         /\ Max(Forks) \in Forks /\ \A t \in Forks : t <= Max(Forks)
<1>1. Forks \subseteq Times /\ 1 \in Forks
  BY DEF Forks, IInv, OriginKept
<1>2. Forks \in SUBSET Nat /\ Forks # {}
  BY <1>1, TimesNat
<1>3. Total \in Nat /\ \A t \in Forks : t <= Total
  BY <1>1, TotalAssumption DEF Times
<1> QED BY <1>2, <1>3, MaxOfTimes

LEMMA NewCloneTimeFacts ==
  ASSUME IInv, phase # "exited"
  PROVE  /\ NewCloneTime \in Nat
         /\ \A t \in Forks : t < NewCloneTime
<1>1. Total \in Nat /\ \A t \in Forks : t \in Nat /\ t <= Total
  BY TotalAssumption DEF Forks, Times
<1>2. Max(Forks) \in Nat /\ Max(Forks) <= Total
      /\ \A t \in Forks : t <= Max(Forks)
  BY <1>1, ForksFacts
<1>3. Max(Forks) + (Total - Max(Forks)) \div 4 + 1 \in Nat
      /\ Max(Forks) + (Total - Max(Forks)) \div 4 + 1 > Max(Forks)
  BY <1>1, <1>2
<1> QED BY <1>1, <1>2, <1>3 DEF NewCloneTime

\* CloneAhead, and what keeps a run from passing its next clone time.
LEMMA NextCloneTimeFacts ==
  ASSUME IInv, phase # "exited"
  PROVE  /\ NextCloneTime \in Nat
         /\ active.time <= NextCloneTime
         /\ NextCloneTime <= NewCloneTime
         /\ NextCloneTime = active.time => active.time \notin Forks
<1>1. active.time \in Nat /\ active.time <= NewCloneTime
  BY TimesNat DEF IInv, TypeOK, Process, Within
<1>2. CASE Outdated = {}
  <2>1. NextCloneTime = NewCloneTime
    BY <1>2 DEF NextCloneTime
  <2>2. NewCloneTime \notin Forks
    BY NewCloneTimeFacts, ForksFacts
  <2> QED BY <1>1, <2>1, <2>2, NewCloneTimeFacts
<1>3. CASE Outdated # {}
  <2>1. Outdated \in SUBSET Nat
    BY ForksFacts DEF Outdated
  <2>2. Min(Outdated) \in Outdated
    BY <1>3, <2>1, MinOfNumbers
  <2>3. NextCloneTime = Min(Outdated)
    BY <1>3 DEF NextCloneTime
  <2>4. NextCloneTime \in Forks /\ NextCloneTime > active.time
    BY <2>2, <2>3 DEF Outdated
  <2>5. NextCloneTime \in Nat /\ NextCloneTime < NewCloneTime
    BY <2>4, ForksFacts, NewCloneTimeFacts
  <2> QED BY <1>1, <2>4, <2>5, NewCloneTimeFacts
<1> QED BY <1>2, <1>3

-----------------------------------------------------------------------------
(***************************************************************************)
(* Going back in time: what Jump and EnsureHere leave behind.              *)
(***************************************************************************)
Underway(k) ==
  /\ active' \in Process /\ call' \in Calls
  /\ active'.dirty => active'.tainted
  /\ active'.time <= NewCloneTime
  /\ \/ phase' = "forward" /\ after' = k /\ ~active'.tainted
     \/ phase' = "return" /\ after' = "done"
     \/ phase' = "died" /\ after' \in {"recreate", "recover", "restart"}

LEMMA NoCallType == NoCall \in Calls
BY TotalAssumption DEF NoCall, Calls, NoHit, Reports

LEMMA GoForwardType ==
  ASSUME NEW steps \in Nat, NEW mode \in {"b", "i", "r"}, NEW k,
         GoForward(steps, mode, k)
  PROVE  call' \in Calls /\ phase' = "forward" /\ after' = k
BY TotalAssumption DEF GoForward, Calls, NoHit, Reports

LEMMA RaiseUnderway ==
  ASSUME IInv, NEW k, Raise(k) \/ RaiseNone(k),
         active' = active \/ active' = Close(active)
  PROVE  Underway(k)
<1>1. active \in Process /\ (active.dirty => active.tainted)
      /\ active.time <= NewCloneTime
  BY DEF IInv, TypeOK, Unmoved, Within
<1>2. /\ active' \in Process /\ active'.time = active.time
      /\ active'.dirty = active.dirty /\ active'.tainted = active.tainted
  BY <1>1, CloseType
<1>3. /\ call' \in Calls
      /\ \/ phase' = "return" /\ after' = "done"
         \/ phase' = "died" /\ after' \in {"recreate", "recover", "restart"}
  BY NoCallType DEF Raise, RaiseNone, Die, Continue
<1> QED BY <1>1, <1>2, <1>3 DEF Underway

LEMMA ResumeUnderway ==
  ASSUME IInv, phase # "exited", NEW from \in Forks, NEW target \in Times,
         from <= target, NEW uids \in SUBSET Numbered, NEW k,
         Resume(from, target, uids, k)
  PROVE  Underway(k)
<1>1. CASE paused[from].closed
  BY <1>1, RaiseUnderway DEF Resume
<1>2. CASE ~paused[from].closed
  <2> DEFINE fork == Clone(paused[from])
  <2>1. paused[from] \in Process /\ from \in Times
    BY DEF IInv, TypeOK, Forks
  <2>2. paused[from].time = from /\ ~paused[from].dirty
    BY DEF IInv, ForksFaithful
  <2>3. /\ fork \in Process /\ fork.time = from
        /\ ~fork.dirty /\ ~fork.tainted
    BY <2>1, <2>2, CloneType
  <2>4. active' = [fork EXCEPT !.printed = @ \cup FutureIds(from, uids)]
    BY <1>2 DEF Resume
  <2>5. FutureIds(from, uids) \subseteq Numbered
    BY DEF FutureIds
  <2> HIDE DEF fork
  <2>6. /\ active' \in Process /\ active'.time = from
        /\ ~active'.dirty /\ ~active'.tainted
    BY <2>3, <2>4, <2>5 DEF Process
  <2>7. target - from \in Nat
    BY <2>1, TimesNat
  <2>8. call' \in Calls /\ phase' = "forward" /\ after' = k
    BY <1>2, <2>7, GoForwardType DEF Resume
  <2>9. from <= NewCloneTime
    BY <2>1, TimesNat, NewCloneTimeFacts
  <2> QED BY <2>6, <2>8, <2>9 DEF Underway
<1> QED BY <1>1, <1>2

LEMMA EnsureUnderway ==
  ASSUME IInv, phase # "exited", NEW limit \in Int, NEW target \in Times,
         limit <= target, NEW uids \in SUBSET Numbered, NEW k,
         EnsureFrom(limit, target, uids, k)
  PROVE  Underway(k)
<1> DEFINE suited == {t \in Forks : t <= limit /\ Missing(paused[t], uids) = {}}
<1>1. CASE suited = {}
  BY <1>1, RaiseUnderway DEF EnsureFrom
<1>2. CASE suited # {}
  <2>1. suited \in SUBSET Nat /\ suited \subseteq Forks
    BY ForksFacts
  <2>2. target \in Nat /\ \A t \in suited : t <= target
    BY <2>1, TimesNat
  <2>3. Max(suited) \in suited
    <3> HIDE DEF suited
    <3> QED BY <1>2, <2>1, <2>2, MaxOfTimes
  <2>4. Resume(Max(suited), target, uids, k)
    BY <1>2 DEF EnsureFrom
  <2>5. Max(suited) \in Forks /\ Max(suited) <= target
    BY <2>1, <2>2, <2>3
  <2> HIDE DEF suited
  <2> QED BY <2>4, <2>5, ResumeUnderway
<1> QED BY <1>1, <1>2

LEMMA JumpUnderway ==
  ASSUME IInv, phase # "exited", NEW target \in Int, NEW k, Jump(target, k)
  PROVE  Underway(k)
<1>1. Clamp(target) \in Times
  BY ClampType
<1>2. Clamp(target) \in Nat
  BY <1>1, TimesNat
<1>3. Clamp(target) \in Int /\ Clamp(target) <= Clamp(target)
  BY <1>2
<1> QED BY <1>1, <1>3, WatchUidsType, EnsureUnderway DEF Jump

\* ensure_printed_objects() stays where it is, or goes back.
LEMMA EnsureHereUnderway ==
  ASSUME IInv, phase # "exited", NEW uids \in SUBSET Numbered, NEW k,
         k \notin {"step", "search"}, EnsureHere(uids, k)
  PROVE  \/ Underway(k)
         \/ /\ active' = active /\ call' \in Calls
            /\ phase' = "return" /\ after' = k
<1>1. CASE Missing(active, uids) = {}
  BY <1>1, NoCallType DEF EnsureHere, Continue
<1>2. CASE Missing(active, uids) # {}
  <2>1. EnsureFrom(active.time - 1, active.time, uids, k)
    BY <1>2 DEF EnsureHere
  <2>2. active.time \in Times
    BY DEF IInv, TypeOK, Process
  <2>3. active.time \in Nat
    BY <2>2, TimesNat
  <2>4. active.time - 1 \in Int /\ active.time - 1 <= active.time
    BY <2>3
  <2> QED BY <2>1, <2>2, <2>4, EnsureUnderway
<1> QED BY <1>1, <1>2

-----------------------------------------------------------------------------
(***************************************************************************)
(* The invariant holds at first, and is kept by every action.              *)
(***************************************************************************)

LEMMA FirstProcessType == FirstProcess \in Process
BY TimesNat DEF FirstProcess, Process

LEMMA InitInv == Init => IInv
<1> SUFFICES ASSUME Init PROVE IInv
  OBVIOUS
<1> DEFINE fork == Clone(FirstProcess)
<1>1. /\ fork \in Process /\ fork.time = 1
      /\ ~fork.dirty /\ ~fork.closed
  BY FirstProcessType, CloneType DEF FirstProcess
<1>2. fork # NoProcess
  BY <1>1, GroupAssumption
<1> HIDE DEF fork
<1>3. paused = [t \in Times |-> IF t = 1 THEN fork ELSE NoProcess]
  BY DEF Init, fork
<1>4. TypeOK
  <2>1. active \in Process
    BY FirstProcessType DEF Init
  <2>2. paused \in [Times -> Process \cup {NoProcess}]
    BY <1>1, <1>3
  <2>3. call \in Calls
    BY NoCallType DEF Init
  <2>4. search \in Searches
    BY DEF Init, NoSearch, Searches
  <2> QED BY <2>1, <2>2, <2>3, <2>4, TimesNat DEF TypeOK, Init, Phases, Stages
<1>5. Forks = {1}
  BY <1>2, <1>3, TimesNat DEF Forks
<1>6. OriginKept /\ ForksFaithful
  BY <1>1, <1>3, <1>5, TimesNat DEF OriginKept, ForksFaithful
<1>7. Within
  <2>1. \E n \in Forks : \A m \in Forks : n >= m
    BY <1>5
  <2>2. Max(Forks) = 1
    BY <1>5, <2>1 DEF Max
  <2>3. Total \in Nat /\ Total >= 1 /\ active.time = 1
    BY TotalAssumption DEF Init, FirstProcess
  <2> QED BY <2>2, <2>3 DEF Within, NewCloneTime
<1>8. Staged /\ Unmoved
  BY DEF Init, Staged, Unmoved, FirstProcess
<1> QED BY <1>4, <1>6, <1>7, <1>8 DEF IInv

\* An action that leaves the forks alone.
LEMMA SameForks ==
  ASSUME IInv, phase # "exited", paused' = paused
  PROVE  NewCloneTime' = NewCloneTime /\ OriginKept' /\ ForksFaithful'
<1>1. Forks' = Forks
  BY DEF Forks
<1> QED BY <1>1 DEF NewCloneTime, IInv, OriginKept, ForksFaithful

\* The types of what a movement in time does not change.
OthersTyped ==
  /\ objects \subseteq Numbered
  /\ armed \subseteq Breaks \cup Watches
  /\ watchvalues \in [Watches -> Texts \cup {NoText}]
  /\ search \in Searches
  /\ request \in Machine!Requests \cup {Machine!NoRequest}
  /\ previous_time \in Times

LEMMA OthersKept ==
  ASSUME IInv
  PROVE  OthersTyped
BY DEF IInv, TypeOK, OthersTyped

\* An action that starts a go_forward(), or fails to.
LEMMA UnderwayInv ==
  ASSUME IInv, phase # "exited", paused' = paused,
         NEW k \in Stages, Underway(k), OthersTyped',
         k = "step" => request' \in [op: {"step"}, arg: Args],
         k = "watch" => request' \in [op: {"arm"}, arg: Watches]
  PROVE  IInv'
<1>1. NewCloneTime' = NewCloneTime /\ OriginKept' /\ ForksFaithful'
  BY SameForks
<1>2. TypeOK'
  <2>1. phase' \in Phases /\ after' \in Stages
    BY DEF Underway, Phases, Stages
  <2>2. paused' \in [Times -> Process \cup {NoProcess}]
    BY DEF IInv, TypeOK
  <2> QED BY <2>1, <2>2 DEF Underway, OthersTyped, TypeOK
<1>3. Staged' /\ Unmoved' /\ Within'
  BY <1>1 DEF Underway, Staged, Unmoved, Within
<1> QED BY <1>1, <1>2, <1>3 DEF IInv

\* An action that does not move the active process.
LEMMA SettledInv ==
  ASSUME IInv, phase # "exited", paused' = paused,
         active' \in Process, active'.time = active.time,
         active'.dirty => active'.tainted,
         phase' \in {"return", "prompt", "died", "exited"},
         after' \in Stages, after' \notin {"step", "search"},
         phase' = "prompt" => after' = "done",
         after' = "watch" => request' \in [op: {"arm"}, arg: Watches],
         call' \in Calls, OthersTyped'
  PROVE  IInv'
<1>1. NewCloneTime' = NewCloneTime /\ OriginKept' /\ ForksFaithful'
  BY SameForks
<1>2. TypeOK'
  <2>1. paused' \in [Times -> Process \cup {NoProcess}]
    BY DEF IInv, TypeOK
  <2> QED BY <2>1 DEF OthersTyped, TypeOK, Phases
<1>3. Staged' /\ Unmoved'
  BY DEF Staged, Unmoved
<1>4. Within'
  BY <1>1 DEF Within, IInv
<1> QED BY <1>1, <1>2, <1>3, <1>4 DEF IInv

LEMMA ActiveFacts ==
  ASSUME IInv
  PROVE  /\ active \in Process /\ active.time \in Times
         /\ active.time \in Nat /\ active.time <= Total
         /\ active.dirty => active.tainted
         /\ call \in Calls
<1>1. active \in Process /\ call \in Calls /\ (active.dirty => active.tainted)
  BY DEF IInv, TypeOK, Unmoved
<1>2. active.time \in Times
  BY <1>1 DEF Process
<1> QED BY <1>1, <1>2, TotalAssumption DEF Times

LEMMA ArgsNat == Args \subseteq Nat
BY GroupAssumption

-----------------------------------------------------------------------------
\* The commands.

LEMMA GoInv ==
  ASSUME IInv, Go PROVE IInv'
<1>1. PICK t \in Args : Ask("go", t) /\ Jump(t, "done")
  BY DEF Go
<1>2. phase # "exited" /\ t \in Int
  BY <1>1, ArgsNat DEF Ask
<1>3. Underway("done")
  BY <1>1, <1>2, JumpUnderway
<1>4. OthersTyped'
  BY <1>1, OthersKept DEF Go, Ask, kept, OthersTyped, Machine!Requests
<1>5. paused' = paused /\ "done" \in Stages
  BY DEF Go, Stages
<1> QED BY <1>2, <1>3, <1>4, <1>5, UnderwayInv

LEMMA StepInv ==
  ASSUME IInv, Step PROVE IInv'
<1>1. PICK n \in Args :
        /\ Ask("step", n)
        /\ IF active.tainted THEN Jump(active.time, "step")
           ELSE GoForward(n, "b", "stepped") /\ UNCHANGED active
  BY DEF Step
<1>2. phase # "exited" /\ n \in Nat
  BY <1>1, ArgsNat DEF Ask
<1>3. request' \in [op: {"step"}, arg: Args]
  BY <1>1 DEF Ask
<1>4. OthersTyped'
  BY <1>1, OthersKept DEF Step, Ask, kept, OthersTyped, Machine!Requests
<1>5. paused' = paused /\ "step" \in Stages /\ "stepped" \in Stages
  BY DEF Step, Stages
<1>6. CASE active.tainted
  <2>1. Underway("step")
    BY <1>1, <1>2, <1>6, ActiveFacts, JumpUnderway
  <2> QED BY <1>2, <1>3, <1>4, <1>5, <2>1, UnderwayInv
<1>7. CASE ~active.tainted
  <2>1. call' \in Calls /\ phase' = "forward" /\ after' = "stepped"
    BY <1>1, <1>2, <1>7, GoForwardType
  <2>2. Underway("stepped")
    BY <1>1, <1>7, <2>1, ActiveFacts DEF Underway, IInv, Within
  <2> QED BY <1>2, <1>4, <1>5, <2>2, UnderwayInv
<1> QED BY <1>6, <1>7

LEMMA BStepInv ==
  ASSUME IInv, BStep PROVE IInv'
<1> DEFINE first == IF Armed # {} THEN WatchSearchSteps ELSE SearchSteps
<1>1. PICK n \in Args :
        /\ Ask("bstep", n)
        /\ IF armed = {}
             THEN Jump(active.time - n, "done") /\ UNCHANGED search
             ELSE /\ search' = [start |-> active.time - first,
                                stop  |-> active.time,
                                until |-> active.time - n]
                  /\ Jump(Max({search'.start, active.time - n}), "search")
  BY DEF BStep
<1>2. phase # "exited" /\ n \in Nat /\ first \in Nat /\ active.time \in Nat
  BY <1>1, ArgsNat, GroupAssumption, ActiveFacts DEF Ask
<1>3. active.time - n \in Int /\ active.time - first \in Int
  BY <1>2
<1>4. search' \in Searches
  <2>1. CASE armed = {}
    BY <1>1, <2>1 DEF IInv, TypeOK
  <2>2. CASE armed # {}
    <3> HIDE DEF first
    <3> QED BY <1>1, <1>2, <1>3, <2>2 DEF Searches
  <2> QED BY <2>1, <2>2
<1>5. OthersTyped'
  BY <1>1, <1>4, OthersKept DEF BStep, Ask, kept, OthersTyped, Machine!Requests
<1>6. paused' = paused /\ "done" \in Stages /\ "search" \in Stages
  BY DEF BStep, Stages
<1>7. CASE armed = {}
  <2>1. Underway("done")
    BY <1>1, <1>2, <1>3, <1>7, JumpUnderway
  <2> QED BY <1>2, <1>5, <1>6, <2>1, UnderwayInv
<1>8. CASE armed # {}
  <2>1. search'.start \in Int
    BY <1>4 DEF Searches
  <2>2. Max({search'.start, active.time - n}) \in Int
    BY <1>3, <2>1, MaxOfTwo
  <2>3. Underway("search")
    BY <1>1, <1>2, <1>8, <2>2, JumpUnderway
  <2> QED BY <1>2, <1>5, <1>6, <2>3, UnderwayInv
<1> QED BY <1>7, <1>8

LEMMA PrintCmdInv ==
  ASSUME IInv, PrintCmd PROVE IInv'
<1>1. PICK uids \in SUBSET objects :
        /\ Ask("look", 0)
        /\ EnsureHere(uids \cap Alive(active.time), "print")
  BY DEF PrintCmd
<1>2. phase # "exited"
  BY <1>1 DEF Ask
<1>3. uids \cap Alive(active.time) \subseteq Numbered
  BY DEF Alive
<1>4. OthersTyped'
  BY <1>1, OthersKept DEF PrintCmd, Ask, kept, OthersTyped, Machine!Requests
<1>5. paused' = paused /\ "print" \in Stages
  BY DEF PrintCmd, Stages
<1>6. \/ Underway("print")
      \/ /\ active' = active /\ call' \in Calls
         /\ phase' = "return" /\ after' = "print"
  BY <1>1, <1>2, <1>3, EnsureHereUnderway
<1>7. CASE Underway("print")
  BY <1>2, <1>4, <1>5, <1>7, UnderwayInv
<1>8. CASE /\ active' = active /\ call' \in Calls
           /\ phase' = "return" /\ after' = "print"
  BY <1>2, <1>4, <1>5, <1>8, ActiveFacts, SettledInv
<1> QED BY <1>6, <1>7, <1>8

LEMMA InspectInv ==
  ASSUME IInv, Inspect PROVE IInv'
<1>1. phase # "exited"
  BY DEF Inspect, Ask
<1>2. OthersTyped'
  BY OthersKept DEF Inspect, Ask, kept, OthersTyped, Machine!Requests
<1>3. paused' = paused /\ "done" \in Stages /\ "recreate" \in Stages
  BY DEF Inspect, Stages
<1>4. CASE active' = Taint(active) /\ Continue("done")
  <2>1. /\ active' \in Process /\ active'.time = active.time
        /\ active'.tainted
    BY <1>4, ActiveFacts, TaintType
  <2>2. phase' = "return" /\ after' = "done" /\ call' \in Calls
    BY <1>4, NoCallType DEF Continue
  <2> QED BY <1>1, <1>2, <1>3, <2>1, <2>2, SettledInv
<1>5. CASE Recreate
  <2>1. Underway("recreate")
    BY <1>1, <1>5, ActiveFacts, JumpUnderway DEF Recreate
  <2> QED BY <1>1, <1>2, <1>3, <2>1, UnderwayInv
<1> QED BY <1>4, <1>5 DEF Inspect

LEMMA BreakInv ==
  ASSUME IInv, Break PROVE IInv'
<1>1. PICK b \in Breaks \ armed :
        Ask("arm", b) /\ armed' \in {armed, armed \cup {b}}
  BY DEF Break
<1>2. phase # "exited" /\ "done" \in Stages
  BY <1>1 DEF Ask, Stages
<1>3. OthersTyped'
  BY <1>1, OthersKept DEF Break, Ask, OthersTyped, Machine!Requests
<1>4. phase' = "return" /\ after' = "done" /\ call' \in Calls
  BY NoCallType DEF Break, Continue
<1>5. paused' = paused /\ active' = active
  BY DEF Break
<1> QED BY <1>2, <1>3, <1>4, <1>5, ActiveFacts, SettledInv

LEMMA DeleteInv ==
  ASSUME IInv, Delete PROVE IInv'
<1>1. PICK b \in armed :
        /\ Ask("disarm", b)
        /\ armed' = armed \ {b}
        /\ watchvalues' = [w \in Watches |->
                             IF w = b THEN NoText ELSE watchvalues[w]]
  BY DEF Delete
<1>2. phase # "exited" /\ "done" \in Stages
  BY <1>1 DEF Ask, Stages
<1>3. OthersTyped'
  BY <1>1, OthersKept DEF Delete, Ask, OthersTyped, Machine!Requests
<1>4. phase' = "return" /\ after' = "done" /\ call' \in Calls
  BY NoCallType DEF Delete, Continue
<1>5. paused' = paused /\ active' = active
  BY DEF Delete
<1> QED BY <1>2, <1>3, <1>4, <1>5, ActiveFacts, SettledInv

LEMMA WatchInv ==
  ASSUME IInv, Watch PROVE IInv'
<1>1. PICK w \in Watches \ armed :
        /\ Ask("arm", w)
        /\ IF active.closed THEN Raise("watch") /\ UNCHANGED active
           ELSE EnsureHere(Needs[w] \cap Alive(active.time), "watch")
  BY DEF Watch
<1>2. phase # "exited" /\ request' \in [op: {"arm"}, arg: Watches]
  BY <1>1 DEF Ask
<1>3. Needs[w] \cap Alive(active.time) \subseteq Numbered
  BY DEF Alive
<1>4. OthersTyped'
  BY <1>1, OthersKept DEF Watch, Ask, kept, OthersTyped, Machine!Requests
<1>5. paused' = paused /\ "watch" \in Stages
  BY DEF Watch, Stages
<1>6. \/ Underway("watch")
      \/ /\ active' = active /\ call' \in Calls
         /\ phase' = "return" /\ after' = "watch"
  BY <1>1, <1>2, <1>3, RaiseUnderway, EnsureHereUnderway
<1>7. CASE Underway("watch")
  BY <1>2, <1>4, <1>5, <1>7, UnderwayInv
<1>8. CASE /\ active' = active /\ call' \in Calls
           /\ phase' = "return" /\ after' = "watch"
  BY <1>2, <1>4, <1>5, <1>8, ActiveFacts, SettledInv
<1> QED BY <1>6, <1>7, <1>8

LEMMA QuitInv ==
  ASSUME IInv, Quit PROVE IInv'
<1>1. /\ phase = "prompt" /\ phase' = "exited"
      /\ request' = [op |-> "look", arg |-> 0]
      /\ active' = Close(active)
      /\ UNCHANGED <<kept, call, search, after, previous_time>>
  BY DEF Quit, Ask
<1>2. /\ active' \in Process /\ active'.time = active.time
      /\ active'.dirty = active.dirty /\ active'.tainted = active.tainted
  BY <1>1, ActiveFacts, CloseType
<1>3. \A t \in Forks : /\ paused[t] \in Process /\ Close(paused[t]) \in Process
                       /\ Close(paused[t]) # NoProcess
                       /\ Close(paused[t]).time = paused[t].time
                       /\ Close(paused[t]).dirty = paused[t].dirty
  BY CloseType, GroupAssumption DEF IInv, TypeOK, Forks
<1>4. paused' = [t \in Times |->
                   IF t \in Forks THEN Close(paused[t]) ELSE NoProcess]
  BY DEF Quit
<1>5. Forks' = Forks
  BY <1>3, <1>4 DEF Forks
<1>6. ForksFaithful'
  BY <1>3, <1>4, <1>5 DEF IInv, ForksFaithful, Forks
<1>7. TypeOK'
  <2>1. paused' \in [Times -> Process \cup {NoProcess}]
    BY <1>3, <1>4
  <2>2. request' \in Machine!Requests
    BY <1>1 DEF Machine!Requests
  <2>3. "exited" \in Phases
    BY DEF Phases
  <2> QED BY <1>1, <1>2, <2>1, <2>2, <2>3 DEF IInv, TypeOK, kept
<1>8. Staged' /\ Unmoved'
  BY <1>1, <1>2 DEF IInv, Staged, Unmoved
<1>9. Within'
  BY <1>2, <1>5 DEF IInv, Within, NewCloneTime
<1>10. OriginKept'
  BY <1>1 DEF OriginKept
<1> QED BY <1>6, <1>7, <1>8, <1>9, <1>10 DEF IInv

-----------------------------------------------------------------------------
\* go_forward().

\* An action that moves an active process in which no code was run.
LEMMA MovedInv ==
  ASSUME IInv, phase # "exited", paused' = paused,
         active' \in Process, ~active'.tainted, ~active'.dirty,
         active'.time <= NewCloneTime,
         phase' \in {"forward", "clone", "return"}, after' \in Stages,
         after' = "step" => request' \in [op: {"step"}, arg: Args],
         after' = "watch" => request' \in [op: {"arm"}, arg: Watches],
         call' \in Calls, OthersTyped'
  PROVE  IInv'
<1>1. NewCloneTime' = NewCloneTime /\ OriginKept' /\ ForksFaithful'
  BY SameForks
<1>2. TypeOK'
  <2>1. paused' \in [Times -> Process \cup {NoProcess}]
    BY DEF IInv, TypeOK
  <2> QED BY <2>1 DEF OthersTyped, TypeOK, Phases
<1>3. Staged' /\ Unmoved' /\ Within'
  BY <1>1 DEF Staged, Unmoved, Within
<1> QED BY <1>1, <1>2, <1>3 DEF IInv

LEMMA StepsLeftType ==
  ASSUME IInv
  PROVE  StepsLeft \in Nat /\ active.time + StepsLeft <= Total
<1>1. active.time \in Nat /\ active.time <= Total /\ Total \in Nat
  BY ActiveFacts, TotalAssumption
<1>2. call.steps \in Nat
  BY DEF IInv, TypeOK, Calls
<1> QED BY <1>1, <1>2 DEF StepsLeft

\* What a run that is possible leads to.
LEMMA RestFacts ==
  ASSUME IInv, NEW steps \in Nat, active.time + steps <= Total
  PROVE  /\ Rest(steps) \in Process
         /\ Rest(steps).tainted = active.tainted
         /\ Rest(steps).dirty = active.dirty
         /\ Rest(steps).closed = active.closed
         /\ Rest(steps).time \in Times
         /\ Rest(steps).time <= active.time + steps
         /\ steps > 0 => Rest(steps).time > active.time
         /\ Latest(Found(steps)) \in Reports
<1>1. active \in Process /\ call.mode \in {"b", "i", "r"} /\ call.latest \in Reports
  BY DEF IInv, TypeOK, Calls
<1>2. Hits \in SUBSET Gaps
  BY HitsType
<1>3. Rest(steps).time = RestTime(active, steps, call.mode, Hits)
      /\ Rest(steps) \in Process
      /\ Rest(steps).tainted = active.tainted
      /\ Rest(steps).dirty = active.dirty
      /\ Rest(steps).closed = active.closed
  BY <1>1, <1>2, ForwardType DEF Rest
<1>4. Found(steps) \in Reports
  BY <1>1, <1>2, ReportType DEF Found
<1>5. Latest(Found(steps)) \in Reports
  BY <1>1, <1>4 DEF Latest
<1> QED BY <1>1, <1>2, <1>3, <1>5, RestTimeType

LEMMA ForwardLastInv ==
  ASSUME IInv, ForwardLast PROVE IInv'
<1>1. /\ phase = "forward" /\ ToClone > StepsLeft /\ paused' = paused
      /\ UNCHANGED <<kept, search, request, previous_time>>
  BY DEF ForwardLast
<1>2. OthersTyped'
  BY <1>1, OthersKept DEF kept, OthersTyped
<1>3. /\ after \in Stages
      /\ after = "step" => request' \in [op: {"step"}, arg: Args]
      /\ after = "watch" => request' \in [op: {"arm"}, arg: Watches]
      /\ ~active.tainted /\ ~active.dirty
  BY <1>1 DEF IInv, TypeOK, Staged, Unmoved
<1>4. CASE ~Movable
  <2>1. Underway(after)
    BY <1>4, RaiseUnderway DEF ForwardLast
  <2> QED BY <1>1, <1>2, <1>3, <2>1, UnderwayInv
<1>5. CASE Movable
  <2>1. /\ active' = Rest(StepsLeft) /\ phase' = "return" /\ after' = after
        /\ call' = [call EXCEPT !.steps = 0,
                                !.latest = Latest(Found(StepsLeft))]
    BY <1>5 DEF ForwardLast
  <2>2. StepsLeft \in Nat /\ active.time + StepsLeft <= Total
    BY StepsLeftType
  <2>3. /\ active' \in Process /\ ~active'.tainted /\ ~active'.dirty
        /\ active'.time \in Times /\ active'.time <= active.time + StepsLeft
        /\ Latest(Found(StepsLeft)) \in Reports
    BY <1>3, <2>1, <2>2, RestFacts
  <2>4. call' \in Calls
    BY <2>1, <2>3, ActiveFacts DEF Calls
  <2>5. active'.time <= NewCloneTime
    <3>1. NextCloneTime \in Nat /\ NextCloneTime <= NewCloneTime
          /\ NewCloneTime \in Nat
      BY <1>1, NextCloneTimeFacts, NewCloneTimeFacts
    <3>2. active.time + StepsLeft < NextCloneTime
      BY <1>1, <2>2, <3>1, ActiveFacts DEF ToClone
    <3>3. active'.time \in Nat
      BY <2>3, TimesNat
    <3> QED BY <2>2, <2>3, <3>1, <3>2, <3>3, ActiveFacts
  <2> QED BY <1>1, <1>2, <1>3, <2>1, <2>3, <2>4, <2>5, MovedInv
<1> QED BY <1>4, <1>5

\* Closing the fork of a time that is not 1 keeps what holds of the forks.
LEMMA CloseForkFacts ==
  ASSUME IInv, phase # "exited", NEW t \in Times, t # 1,
         paused' = IF t \in Forks THEN [paused EXCEPT ![t] = Close(@)]
                   ELSE paused
  PROVE  /\ paused' \in [Times -> Process \cup {NoProcess}]
         /\ NewCloneTime' = NewCloneTime
         /\ OriginKept' /\ ForksFaithful'
<1>1. CASE t \notin Forks
  BY <1>1, SameForks DEF IInv, TypeOK
<1>2. CASE t \in Forks
  <2>1. paused[t] \in Process /\ paused[t].time = t /\ ~paused[t].dirty
    BY <1>2 DEF IInv, TypeOK, Forks, ForksFaithful
  <2>2. /\ Close(paused[t]) \in Process /\ Close(paused[t]) # NoProcess
        /\ Close(paused[t]).time = t /\ ~Close(paused[t]).dirty
    BY <2>1, CloseType, GroupAssumption
  <2>3. paused' = [paused EXCEPT ![t] = Close(paused[t])]
        /\ paused \in [Times -> Process \cup {NoProcess}]
    BY <1>2 DEF IInv, TypeOK
  <2>4. paused' \in [Times -> Process \cup {NoProcess}]
    BY <2>2, <2>3
  <2>5. Forks' = Forks
    BY <1>2, <2>2, <2>3 DEF Forks
  <2>6. ForksFaithful'
    BY <2>2, <2>3, <2>5 DEF IInv, ForksFaithful, Forks
  <2>7. OriginKept'
    BY <2>3, <2>5, TimesNat DEF IInv, OriginKept
  <2> QED BY <2>4, <2>5, <2>6, <2>7 DEF NewCloneTime
<1> QED BY <1>1, <1>2

LEMMA ForwardToCloneInv ==
  ASSUME IInv, ForwardToClone PROVE IInv'
<1>1. /\ phase = "forward" /\ 0 < ToClone /\ ToClone <= StepsLeft
      /\ UNCHANGED <<kept, search, request, previous_time>>
  BY DEF ForwardToClone
<1>2. OthersTyped'
  BY <1>1, OthersKept DEF kept, OthersTyped
<1>3. /\ after \in Stages
      /\ after = "step" => request' \in [op: {"step"}, arg: Args]
      /\ after = "watch" => request' \in [op: {"arm"}, arg: Watches]
      /\ ~active.tainted /\ ~active.dirty
  BY <1>1 DEF IInv, TypeOK, Staged, Unmoved
<1>4. CASE ~Movable
  <2>1. Underway(after) /\ paused' = paused
    BY <1>4, RaiseUnderway DEF ForwardToClone
  <2> QED BY <1>1, <1>2, <1>3, <2>1, UnderwayInv
<1>5. CASE Movable
  <2>1. StepsLeft \in Nat /\ active.time + StepsLeft <= Total
        /\ active.time \in Nat /\ active.time >= 1 /\ Total \in Nat
    BY StepsLeftType, ActiveFacts, TotalAssumption DEF Times
  <2>2. /\ NextCloneTime \in Nat /\ NextCloneTime <= NewCloneTime
        /\ NewCloneTime \in Nat
    BY <1>1, NextCloneTimeFacts, NewCloneTimeFacts
  <2>3. /\ ToClone \in Nat /\ active.time + ToClone = NextCloneTime
        /\ StepsLeft - ToClone \in Nat /\ active.time + ToClone <= Total
    BY <1>1, <2>1, <2>2 DEF ToClone
  <2>4. active' = Rest(ToClone)
    BY <1>5 DEF ForwardToClone
  <2>5. /\ active' \in Process /\ ~active'.tainted /\ ~active'.dirty
        /\ active'.time \in Times
        /\ active'.time <= active.time + ToClone
        /\ active'.time > active.time
        /\ Latest(Found(ToClone)) \in Reports
    BY <1>1, <1>3, <2>3, <2>4, RestFacts
  <2>6. active'.time \in Nat /\ active'.time # 1
        /\ active'.time <= NewCloneTime
    <3>1. active'.time \in Nat
      BY <2>5, TimesNat
    <3> QED BY <2>1, <2>2, <2>3, <2>5, <3>1
  <2>7. CASE call.mode = "b" /\ Found(ToClone) # NoHit
    <3>1. /\ call' = [call EXCEPT !.latest = Found(ToClone)]
          /\ phase' = "return" /\ paused' = paused /\ after' = after
      BY <1>5, <2>7 DEF ForwardToClone
    <3>2. call' \in Calls
      BY <2>5, <2>7, <3>1, ActiveFacts DEF Calls, Latest
    <3> QED BY <1>1, <1>2, <1>3, <2>5, <2>6, <3>1, <3>2, MovedInv
  <2>8. CASE ~(call.mode = "b" /\ Found(ToClone) # NoHit)
    <3>1. /\ call' = [call EXCEPT !.steps = StepsLeft - ToClone,
                                  !.latest = Latest(Found(ToClone))]
          /\ phase' = "clone" /\ after' = after
          /\ paused' = IF active'.time \in Forks
                         THEN [paused EXCEPT ![active'.time] = Close(@)]
                         ELSE paused
      BY <1>5, <2>8 DEF ForwardToClone
    <3>2. call' \in Calls
      BY <2>3, <2>5, <3>1, ActiveFacts DEF Calls
    <3>3. /\ paused' \in [Times -> Process \cup {NoProcess}]
          /\ NewCloneTime' = NewCloneTime
          /\ OriginKept' /\ ForksFaithful'
      BY <1>1, <2>5, <2>6, <3>1, CloseForkFacts
    <3>4. TypeOK'
      BY <1>2, <1>3, <2>5, <3>1, <3>2, <3>3 DEF OthersTyped, TypeOK, Phases
    <3>5. Staged' /\ Unmoved' /\ Within'
      BY <1>3, <2>5, <2>6, <3>1, <3>3 DEF Staged, Unmoved, Within
    <3> QED BY <3>3, <3>4, <3>5 DEF IInv
  <2> QED BY <2>7, <2>8
<1> QED BY <1>4, <1>5

LEMMA CloneHereInv ==
  ASSUME IInv, CloneHere PROVE IInv'
<1>1. /\ phase = "forward" /\ ToClone = 0 /\ phase' = "clone"
      /\ UNCHANGED <<active, kept, call, search, after, request, previous_time>>
  BY DEF CloneHere
<1>2. paused' = paused
  <2>1. NextCloneTime \in Nat /\ active.time \in Nat
    BY <1>1, NextCloneTimeFacts, ActiveFacts
  <2>2. NextCloneTime = active.time
    BY <1>1, <2>1 DEF ToClone
  <2> QED BY <1>1, <2>2, NextCloneTimeFacts DEF CloneHere
<1>3. OthersTyped'
  BY <1>1, OthersKept DEF kept, OthersTyped
<1>4. /\ after' \in Stages
      /\ after' = "step" => request' \in [op: {"step"}, arg: Args]
      /\ after' = "watch" => request' \in [op: {"arm"}, arg: Watches]
      /\ ~active'.tainted /\ ~active'.dirty
      /\ active'.time <= NewCloneTime
  BY <1>1 DEF IInv, TypeOK, Staged, Unmoved, Within
<1> QED BY <1>1, <1>2, <1>3, <1>4, ActiveFacts, MovedInv

LEMMA CloneActiveInv ==
  ASSUME IInv, CloneActive PROVE IInv'
<1>1. /\ phase = "clone"
      /\ UNCHANGED <<active, kept, search, request, previous_time>>
  BY DEF CloneActive
<1>2. OthersTyped'
  BY <1>1, OthersKept DEF kept, OthersTyped
<1>3. /\ after \in Stages
      /\ after = "step" => request' \in [op: {"step"}, arg: Args]
      /\ after = "watch" => request' \in [op: {"arm"}, arg: Watches]
      /\ ~active.tainted /\ ~active.dirty
  BY <1>1 DEF IInv, TypeOK, Staged, Unmoved
<1>4. CASE active.closed
  <2>1. Underway(after) /\ paused' = paused
    BY <1>1, <1>4, RaiseUnderway DEF CloneActive
  <2> QED BY <1>1, <1>2, <1>3, <2>1, UnderwayInv
<1>5. CASE ~active.closed
  <2> DEFINE t    == active.time
             fork == Clone(active)
  <2>1. /\ paused' = [paused EXCEPT ![t] = fork]
        /\ phase' = "forward" /\ call' = call /\ after' = after
    BY <1>5 DEF CloneActive
  <2>2. t \in Times /\ t \in Nat /\ active \in Process /\ call \in Calls
    BY ActiveFacts
  <2>3. /\ fork \in Process /\ fork # NoProcess
        /\ fork.time = t /\ ~fork.dirty /\ ~fork.closed
    BY <1>3, <1>5, <2>2, CloneType, GroupAssumption
  <2>4. paused \in [Times -> Process \cup {NoProcess}]
    BY DEF IInv, TypeOK
  <2> HIDE DEF fork, t
  <2>5. paused' \in [Times -> Process \cup {NoProcess}]
    BY <2>1, <2>2, <2>3, <2>4
  <2>6. Forks' = Forks \cup {t}
    BY <2>1, <2>2, <2>3, <2>4 DEF Forks
  <2>7. OriginKept'
    BY <1>1, <2>1, <2>2, <2>3, <2>4, <2>6, TimesNat DEF IInv, OriginKept
  <2>8. ForksFaithful'
    <3> SUFFICES ASSUME NEW s \in Forks'
                 PROVE  paused'[s].time = s /\ ~paused'[s].dirty
      BY DEF ForksFaithful
    <3>1. CASE s = t
      BY <2>1, <2>2, <2>3, <2>4, <3>1
    <3>2. CASE s # t
      BY <2>1, <2>2, <2>4, <2>6, <3>2 DEF IInv, ForksFaithful, Forks
    <3> QED BY <3>1, <3>2
  <2>9. Within'
    <3>1. Total \in Nat /\ t <= Total /\ active'.time = t
      BY <1>1, ActiveFacts, TotalAssumption DEF t
    <3>2. Forks' \in SUBSET Nat /\ Forks' # {} /\ t \in Forks'
      BY <1>1, <2>2, <2>6, ForksFacts
    <3>3. \A s \in Forks' : s <= Total
      BY <2>6, <3>1 DEF Forks, Times
    <3>4. Max(Forks') \in Forks' /\ t <= Max(Forks')
      BY <3>1, <3>2, <3>3, MaxOfTimes
    <3>5. Max(Forks') \in Nat /\ Max(Forks') <= Total
      BY <3>2, <3>3, <3>4
    <3>6. NewCloneTime' = IF Cardinality(Forks') >= MaxSubprocesses
                            THEN Total + 1
                            ELSE Max(Forks') + (Total - Max(Forks')) \div 4 + 1
      BY DEF NewCloneTime
    <3> QED BY <2>2, <3>1, <3>4, <3>5, <3>6 DEF Within
  <2>10. TypeOK'
    BY <1>1, <1>2, <1>3, <2>1, <2>2, <2>5 DEF OthersTyped, TypeOK, Phases
  <2>11. Staged' /\ Unmoved'
    BY <1>1, <1>3, <2>1 DEF Staged, Unmoved
  <2> QED BY <2>7, <2>8, <2>9, <2>10, <2>11 DEF IInv
<1> QED BY <1>4, <1>5

-----------------------------------------------------------------------------
\* After go_forward().

\* What holds where a caller of go_forward() takes over.
LEMMA BackFacts ==
  ASSUME IInv, NEW k, Back(k)
  PROVE  /\ phase = "return" /\ after = k /\ k \in Stages
         /\ paused' = paused /\ phase # "exited"
         /\ request' = request /\ previous_time' = previous_time
         /\ request \in Machine!Requests \cup {Machine!NoRequest}
         /\ previous_time \in Times
         /\ k = "step" => request \in [op: {"step"}, arg: Args]
         /\ k = "watch" => request \in [op: {"arm"}, arg: Watches]
         /\ k \in {"step", "search"} => ~active.tainted /\ ~active.dirty
BY DEF Back, IInv, TypeOK, Staged, Unmoved

LEMMA StepOnInv ==
  ASSUME IInv, StepOn PROVE IInv'
<1>1. /\ Back("step") /\ GoForward(request.arg, "b", "stepped")
      /\ UNCHANGED <<active, kept, search>>
  BY DEF StepOn
<1>2. OthersTyped'
  BY <1>1, OthersKept DEF Back, kept, OthersTyped
<1>3. request.arg \in Nat
  BY <1>1, BackFacts, ArgsNat
<1>4. call' \in Calls /\ phase' = "forward" /\ after' = "stepped"
  BY <1>1, <1>3, GoForwardType
<1>5. Underway("stepped")
  BY <1>1, <1>4, ActiveFacts, BackFacts DEF Underway, IInv, Within
<1>6. "stepped" \in Stages
  BY DEF Stages
<1> QED BY <1>1, <1>2, <1>5, <1>6, BackFacts, UnderwayInv

LEMMA HitBreakpointsInv ==
  ASSUME IInv, HitBreakpoints PROVE IInv'
<1>1. /\ phase # "exited" /\ paused' = paused
      /\ UNCHANGED <<kept, search, request, previous_time>>
  BY DEF HitBreakpoints, Back
<1>2. OthersTyped'
  BY <1>1, OthersKept DEF kept, OthersTyped
<1>3. "done" \in Stages
  BY DEF Stages
<1>4. HitTime \in Int
  BY DEF HitTime, IInv, TypeOK, Calls, Reports
<1>5. CASE Continue("done") /\ UNCHANGED active
  <2>1. phase' = "return" /\ after' = "done" /\ call' \in Calls
    BY <1>5, NoCallType DEF Continue
  <2> QED BY <1>1, <1>2, <1>3, <1>5, <2>1, ActiveFacts, SettledInv
<1>6. CASE Jump(HitTime, "done")
  <2>1. Underway("done")
    BY <1>1, <1>4, <1>6, JumpUnderway
  <2> QED BY <1>1, <1>2, <1>3, <2>1, UnderwayInv
<1> QED BY <1>5, <1>6 DEF HitBreakpoints

LEMMA SearchWindowInv ==
  ASSUME IInv, SearchWindow PROVE IInv'
<1>1. /\ Back("search") /\ search' = [search EXCEPT !.start = active.time]
      /\ UNCHANGED <<active, kept>>
  BY DEF SearchWindow
<1>2. search \in Searches /\ active.time \in Nat
  BY ActiveFacts DEF IInv, TypeOK
<1>3. search' \in Searches /\ search.stop \in Int
  BY <1>1, <1>2 DEF Searches
<1>4. OthersTyped'
  BY <1>1, <1>3, OthersKept DEF Back, kept, OthersTyped
<1>5. "done" \in Stages /\ "searched" \in Stages
  BY DEF Stages
<1>6. CASE search.stop <= active.time
  <2>1. phase' = "return" /\ after' = "done" /\ call' \in Calls
    BY <1>6, NoCallType DEF SearchWindow, Continue
  <2> QED BY <1>1, <1>4, <1>5, <2>1, ActiveFacts, BackFacts, SettledInv
<1>7. CASE ~(search.stop <= active.time)
  <2>1. GoForward(search.stop - active.time, "r", "searched")
    BY <1>7 DEF SearchWindow
  <2>2. search.stop - active.time \in Nat
    BY <1>2, <1>3, <1>7
  <2>3. call' \in Calls /\ phase' = "forward" /\ after' = "searched"
    BY <2>1, <2>2, GoForwardType
  <2>4. Underway("searched")
    BY <1>1, <2>3, ActiveFacts, BackFacts DEF Underway, IInv, Within
  <2> QED BY <1>1, <1>4, <1>5, <2>4, BackFacts, UnderwayInv
<1> QED BY <1>6, <1>7

LEMMA SearchFartherInv ==
  ASSUME IInv, SearchFarther PROVE IInv'
<1>1. /\ Back("searched") /\ UNCHANGED kept
      /\ search' = Farther
      /\ Jump(Max({search'.start, search.until}), "search")
  BY DEF SearchFarther
<1>2. search \in Searches
  BY DEF IInv, TypeOK
<1>3. search' \in Searches /\ search'.start \in Int /\ search.until \in Int
  <2>1. /\ search.start \in Int /\ search.stop \in Int /\ search.until \in Int
    BY <1>2 DEF Searches
  <2>2. FartherStart \in Int
    BY <2>1 DEF FartherStart
  <2>3. search' = [search EXCEPT !.start = FartherStart, !.stop = search.start]
    BY <1>1 DEF Farther
  <2> QED BY <1>2, <2>1, <2>2, <2>3 DEF Searches
<1>4. OthersTyped'
  BY <1>1, <1>3, OthersKept DEF Back, kept, OthersTyped
<1>5. Underway("search")
  BY <1>1, <1>3, MaxOfTwo, BackFacts, JumpUnderway
<1>6. "search" \in Stages
  BY DEF Stages
<1> QED BY <1>1, <1>4, <1>5, <1>6, BackFacts, UnderwayInv

LEMMA PrintAnswerInv ==
  ASSUME IInv, PrintAnswer PROVE IInv'
<1>1. /\ Back("print") /\ UNCHANGED <<armed, watchvalues, search>>
  BY DEF PrintAnswer
<1>2. "done" \in Stages /\ "recreate" \in Stages
  BY DEF Stages
<1>3. objects' \subseteq Numbered
  BY OthersKept DEF PrintAnswer, OthersTyped, Alive
<1>4. OthersTyped'
  BY <1>1, <1>3, OthersKept DEF Back, OthersTyped
<1>5. CASE Recreate
  <2>1. Underway("recreate")
    BY <1>1, <1>5, ActiveFacts, BackFacts, JumpUnderway DEF Recreate
  <2> QED BY <1>1, <1>2, <1>4, <2>1, BackFacts, UnderwayInv
<1>6. ASSUME NEW found \in SUBSET Numbered, Continue("done"),
             active' = [Taint(active) EXCEPT !.printed = @ \cup found]
      PROVE  IInv'
  <2>1. Taint(active) \in Process /\ Taint(active).time = active.time
        /\ Taint(active).tainted
    BY ActiveFacts, TaintType
  <2>2. active' \in Process /\ active'.time = active.time /\ active'.tainted
    BY <1>6, <2>1 DEF Process
  <2>3. phase' = "return" /\ after' = "done" /\ call' \in Calls
    BY <1>6, NoCallType DEF Continue
  <2> QED BY <1>1, <1>2, <1>4, <2>2, <2>3, BackFacts, SettledInv
<1>7. CASE active' = Taint(active) /\ Continue("done")
  <2>1. active' \in Process /\ active'.time = active.time /\ active'.tainted
    BY <1>7, ActiveFacts, TaintType
  <2>2. phase' = "return" /\ after' = "done" /\ call' \in Calls
    BY <1>7, NoCallType DEF Continue
  <2> QED BY <1>1, <1>2, <1>4, <2>1, <2>2, BackFacts, SettledInv
<1>8. ASSUME ~active.closed, ~Recreate PROVE IInv'
  <2>1. PICK found \in SUBSET Alive(active.time) :
          /\ active' = [Taint(active) EXCEPT !.printed = @ \cup found]
          /\ Continue("done")
    BY <1>8 DEF PrintAnswer
  <2>2. found \in SUBSET Numbered
    BY DEF Alive
  <2> QED BY <2>1, <2>2, <1>6
<1> QED BY <1>5, <1>7, <1>8 DEF PrintAnswer

LEMMA WatchAnswerInv ==
  ASSUME IInv, WatchAnswer PROVE IInv'
<1>1. /\ Back("watch") /\ Continue("done")
      /\ UNCHANGED <<active, objects, search>>
  BY DEF WatchAnswer
<1>2. request.arg \in Watches
  BY <1>1, BackFacts
<1>3. armed' \subseteq Breaks \cup Watches
  BY <1>2, OthersKept DEF WatchAnswer, OthersTyped
<1>4. watchvalues' \in [Watches -> Texts \cup {NoText}]
  BY OthersKept, WatchValuesType, ActiveFacts DEF WatchAnswer, OthersTyped
<1>5. OthersTyped'
  BY <1>1, <1>3, <1>4, OthersKept DEF Back, OthersTyped
<1>6. phase' = "return" /\ after' = "done" /\ call' \in Calls
  BY <1>1, NoCallType DEF Continue
<1>7. "done" \in Stages
  BY DEF Stages
<1> QED BY <1>1, <1>5, <1>6, <1>7, ActiveFacts, BackFacts, SettledInv

-----------------------------------------------------------------------------
\* The prompt and Ctrl-C.

\* The next prompt, which shows the time of the active process.
LEMMA ShowInv ==
  ASSUME IInv, phase # "exited", Show,
         UNCHANGED <<active, paused, objects, armed>>,
         watchvalues' \in [Watches -> Texts \cup {NoText}],
         previous_time' \in Times
  PROVE  IInv'
<1>1. /\ phase' = "prompt" /\ after' = "done"
      /\ call' \in Calls /\ "done" \in Stages
  BY NoCallType DEF Show, Stages
<1>2. search' \in Searches
  BY DEF Show, NoSearch, Searches
<1>3. OthersTyped'
  BY <1>2, OthersKept DEF Show, OthersTyped
<1> QED BY <1>1, <1>3, ActiveFacts, SettledInv

LEMMA PromptInv ==
  ASSUME IInv, Prompt PROVE IInv'
<1>1. /\ phase # "exited" /\ Show
      /\ UNCHANGED <<active, paused, kept, previous_time>>
  BY DEF Prompt, Arrived
<1> QED BY <1>1, OthersKept, ShowInv DEF kept, OthersTyped

LEMMA PromptMovedInv ==
  ASSUME IInv, PromptMoved PROVE IInv'
<1>1. /\ phase # "exited" /\ Show
      /\ UNCHANGED <<active, paused, objects, armed>>
  BY DEF PromptMoved, Arrived
<1>2. previous_time' \in Times
  BY ActiveFacts DEF PromptMoved
<1>3. watchvalues' \in [Watches -> Texts \cup {NoText}]
  BY WatchValuesType, ActiveFacts DEF PromptMoved
<1> QED BY <1>1, <1>2, <1>3, ShowInv

LEMMA PromptDiedInv ==
  ASSUME IInv, PromptDied PROVE IInv'
<1>1. /\ phase # "exited" /\ phase' = "died" /\ after' = after
      /\ after \in {"done", "recreate", "recover", "restart"}
      /\ UNCHANGED <<active, paused, kept, search, request, previous_time>>
  BY DEF PromptDied, Arrived, Die
<1>2. call' \in Calls /\ after \in Stages
  BY <1>1, NoCallType DEF PromptDied, Die, Stages
<1>3. OthersTyped'
  BY <1>1, OthersKept DEF kept, OthersTyped
<1> QED BY <1>1, <1>2, <1>3, ActiveFacts, SettledInv

LEMMA PromptRestartInv ==
  ASSUME IInv, PromptRestart PROVE IInv'
<1>1. /\ phase # "exited" /\ Jump(1, "restart")
      /\ UNCHANGED <<paused, kept, search, request, previous_time>>
  BY DEF PromptRestart, Arrived
<1>2. OthersTyped' /\ "restart" \in Stages
  BY <1>1, OthersKept DEF kept, OthersTyped, Stages
<1>3. Underway("restart")
  BY <1>1, JumpUnderway
<1> QED BY <1>1, <1>2, <1>3, UnderwayInv

LEMMA InterruptInv ==
  ASSUME IInv, Interrupt PROVE IInv'
<1>1. /\ phase # "exited" /\ Jump(RestoredTime, "recover")
      /\ UNCHANGED <<paused, kept, search, request, previous_time>>
  BY DEF Interrupt
<1>2. OthersTyped' /\ "recover" \in Stages
  BY <1>1, OthersKept DEF kept, OthersTyped, Stages
<1>3. RestoredTime \in Int
  <2>1. previous_time \in Times
    BY OthersKept DEF OthersTyped
  <2>2. previous_time \in Nat
    BY <2>1, TimesNat
  <2> QED BY <2>2 DEF RestoredTime
<1>4. Underway("recover")
  BY <1>1, <1>3, JumpUnderway
<1> QED BY <1>1, <1>2, <1>4, UnderwayInv

LEMMA InterruptAgainInv ==
  ASSUME IInv, InterruptAgain PROVE IInv'
<1>1. /\ phase # "exited" /\ phase' = "exited" /\ after = "recover"
      /\ UNCHANGED <<active, paused, kept, call, search, after, request,
                     previous_time>>
  BY DEF InterruptAgain
<1>2. OthersTyped' /\ after' \in Stages /\ call' \in Calls
  BY <1>1, OthersKept DEF kept, OthersTyped, IInv, TypeOK
<1> QED BY <1>1, <1>2, ActiveFacts, SettledInv

LEMMA CrashInv ==
  ASSUME IInv, Crash PROVE IInv'
<1>1. /\ phase = "forward" /\ active' = Close(active)
      /\ UNCHANGED <<paused, kept, movement, request, previous_time>>
  BY DEF Crash
<1>2. /\ active' \in Process /\ active'.time = active.time
      /\ active'.dirty = active.dirty /\ active'.tainted = active.tainted
  BY <1>1, ActiveFacts, CloseType
<1>3. /\ after' \in Stages
      /\ after' = "step" => request' \in [op: {"step"}, arg: Args]
      /\ after' = "watch" => request' \in [op: {"arm"}, arg: Watches]
      /\ ~active'.tainted /\ ~active'.dirty
      /\ active'.time <= NewCloneTime
  BY <1>1, <1>2 DEF movement, IInv, TypeOK, Staged, Unmoved, Within
<1>4. OthersTyped'
  BY <1>1, OthersKept DEF kept, movement, OthersTyped
<1>5. call' \in Calls /\ phase' = "forward" /\ paused' = paused
  BY <1>1, ActiveFacts DEF movement
<1> QED BY <1>1, <1>2, <1>3, <1>4, <1>5, MovedInv

LEMMA StutterInv ==
  ASSUME IInv, UNCHANGED vars PROVE IInv'
<1>1. /\ TypeOK' /\ Staged' /\ Unmoved'
  BY DEF IInv, TypeOK, Staged, Unmoved, vars, movement
<1>2. Forks' = Forks
  BY DEF Forks, vars
<1>3. OriginKept' /\ ForksFaithful' /\ Within'
  BY <1>2 DEF IInv, OriginKept, ForksFaithful, Within, NewCloneTime, vars,
              movement
<1> QED BY <1>1, <1>3 DEF IInv

-----------------------------------------------------------------------------
(***************************************************************************)
(* The theorems.                                                           *)
(***************************************************************************)

(***************************************************************************)
(* The inductive invariant holds in every behaviour of the debugger,       *)
(* whatever Ctrl-C cuts short.                                           *)
(***************************************************************************)
THEOREM InvariantHolds == Spec => []IInv
<1>1. Init => IInv
  BY InitInv
<1>2. IInv /\ [Next]_vars => IInv'
  <2> SUFFICES ASSUME IInv, [Next]_vars PROVE IInv'
    OBVIOUS
  <2>1. CASE Command
    BY <2>1, GoInv, StepInv, BStepInv, PrintCmdInv, InspectInv, BreakInv,
       DeleteInv, WatchInv, QuitInv DEF Command
  <2>2. CASE Work
    <3>1. CASE ForwardToClone \/ CloneHere \/ CloneActive \/ ForwardLast
      BY <3>1, ForwardToCloneInv, CloneHereInv, CloneActiveInv, ForwardLastInv
    <3>2. CASE StepOn \/ HitBreakpoints \/ SearchWindow \/ SearchFarther
      BY <3>2, StepOnInv, HitBreakpointsInv, SearchWindowInv, SearchFartherInv
    <3>3. CASE PrintAnswer \/ WatchAnswer
      BY <3>3, PrintAnswerInv, WatchAnswerInv
    <3>4. CASE Prompt \/ PromptMoved \/ PromptDied \/ PromptRestart
      BY <3>4, PromptInv, PromptMovedInv, PromptDiedInv, PromptRestartInv
    <3> QED BY <2>2, <3>1, <3>2, <3>3, <3>4 DEF Work
  <2>3. CASE Interrupt \/ InterruptAgain \/ Crash
    BY <2>3, InterruptInv, InterruptAgainInv, CrashInv
  <2>4. CASE Ended \/ UNCHANGED vars
    BY <2>4, StutterInv DEF Ended
  <2> QED BY <2>1, <2>2, <2>3, <2>4 DEF Next
<1> QED BY <1>1, <1>2, PTL DEF Spec

\* The variables of the process group keep their types.
THEOREM TypeCorrect == Spec => []TypeOK
<1>1. IInv => TypeOK
  BY DEF IInv
<1> QED BY <1>1, InvariantHolds, PTL

(***************************************************************************)
(* The fork of time 1 is never lost: close() in go_forward() never meets   *)
(* it, since the active process has always moved on from time 1 when it    *)
(* comes to a clone time where there is a fork.                            *)
(***************************************************************************)
THEOREM OriginNeverLost == Spec => []OriginKept
<1>1. IInv => OriginKept
  BY DEF IInv
<1> QED BY <1>1, InvariantHolds, PTL

(***************************************************************************)
(* No fork is ever made of a process in which the user's code was run, and *)
(* every fork is kept under the time at which it is paused.                *)
(***************************************************************************)
THEOREM ForksStayFaithful == Spec => []ForksFaithful
<1>1. IInv => ForksFaithful
  BY DEF IInv
<1> QED BY <1>1, InvariantHolds, PTL

\* The assertion of go_forward() on the next clone time never fails.
THEOREM CloneNeverPast == Spec => []CloneAhead
<1>1. IInv => CloneAhead
  <2> SUFFICES ASSUME IInv, phase = "forward" PROVE ToClone >= 0
    BY DEF CloneAhead
  <2>1. NextCloneTime \in Nat /\ active.time <= NextCloneTime
    BY NextCloneTimeFacts
  <2> QED BY <2>1, ActiveFacts DEF ToClone
<1> QED BY <1>1, InvariantHolds, PTL
=============================================================================
