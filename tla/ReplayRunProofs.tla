-------------------------- MODULE ReplayRunProofs --------------------------
(***************************************************************************)
(* More proofs about ReplayGroup, for every recording: where each run of   *)
(* go_forward() ends, what a window of a reverse search finds, how many    *)
(* forks there are, and when no exception ends the debugger.               *)
(*                                                                         *)
(* Each invariant here is inductive together with IInv, and is proved on   *)
(* its own: it says what the command under way has done so far.            *)
(***************************************************************************)
EXTENDS ReplayGroupProofs

\* In go_forward().
Moving == phase \in {"forward", "clone"}

\* The progress display never cuts a run into parts.
NoTicks == Total <= Resolution

-----------------------------------------------------------------------------
(***************************************************************************)
(* Going back in time, in full: a fork that knows the objects is resumed,  *)
(* or an exception is raised.                                              *)
(***************************************************************************)
Resumed(goal, k, uids) ==
  /\ phase' = "forward" /\ after' = k
  /\ call' = [steps |-> goal - active'.time, mode |-> "i", latest |-> NoHit]
  /\ active' \in Process
  /\ active'.time \in Forks /\ active'.time <= goal
  /\ ~active'.closed /\ ~active'.tainted
  /\ uids \subseteq active'.printed

\* The process stays where it is, and its socket is dead.
Failed(k) ==
  /\ Raise(k) \/ RaiseNone(k)
  /\ active' \in {active, Close(active)} /\ active'.closed

\* No fork that may be resumed is closed.
AliveForks == \A t \in Forks : ~paused[t].closed

\* What a fork does not miss and what it is told make up all objects.
LEMMA ResumeKnows ==
  ASSUME IInv, NEW from \in Forks, NEW uids \in SUBSET Numbered,
         Missing(paused[from], uids) = {}
  PROVE  uids \subseteq paused[from].printed \cup FutureIds(from, uids)
<1>1. from \in Times /\ paused[from].time = from
  BY DEF IInv, ForksFaithful, Forks
<1>2. Created[from] \in Nat
  BY <1>1, CreatedAssumption
<1>3. Created[Total] \in Nat
  BY TimesNat, CreatedAssumption
<1>4. SUFFICES ASSUME NEW u \in uids
               PROVE  u \in paused[from].printed \cup FutureIds(from, uids)
  OBVIOUS
<1>5. u \in Nat
  BY <1>3 DEF Numbered, Uids
<1>6. CASE u < Created[from]
  BY <1>1, <1>6 DEF Missing
<1>7. CASE u >= Created[from]
  BY <1>7 DEF FutureIds
<1> QED BY <1>2, <1>5, <1>6, <1>7

LEMMA ResumeCases ==
  ASSUME IInv, phase # "exited", NEW from \in Forks, NEW target \in Times,
         from <= target, NEW uids \in SUBSET Numbered, NEW k,
         Missing(paused[from], uids) = {}, Resume(from, target, uids, k)
  PROVE  /\ Resumed(target, k, uids) \/ Failed(k)
         /\ ~paused[from].closed => Resumed(target, k, uids)
<1>1. CASE paused[from].closed
  BY <1>1, ActiveFacts DEF Resume, Failed, Close, Process
<1>2. CASE ~paused[from].closed
  <2> DEFINE fork == Clone(paused[from])
  <2>1. paused[from] \in Process
    BY DEF IInv, TypeOK, Forks
  <2>2. paused[from].time = from
    BY DEF IInv, ForksFaithful
  <2>3. /\ fork \in Process /\ fork.time = from /\ ~fork.tainted
        /\ ~fork.closed /\ fork.printed = paused[from].printed
    BY <1>2, <2>1, <2>2, CloneType DEF Clone, Process
  <2>4. active' = [fork EXCEPT !.printed = @ \cup FutureIds(from, uids)]
    BY <1>2 DEF Resume
  <2>5. FutureIds(from, uids) \subseteq Numbered
    BY DEF FutureIds
  <2> HIDE DEF fork
  <2>6. /\ active' \in Process /\ active'.time = from
        /\ ~active'.closed /\ ~active'.tainted
        /\ active'.printed = paused[from].printed \cup FutureIds(from, uids)
    BY <2>3, <2>4, <2>5 DEF Process
  <2>7. uids \subseteq active'.printed
    BY <2>6, ResumeKnows
  <2>8. GoForward(target - from, "i", k)
    BY <1>2 DEF Resume
  <2> QED BY <2>6, <2>7, <2>8 DEF Resumed, GoForward
<1> QED BY <1>1, <1>2

\* The fork of time 1 misses nothing.
LEMMA OriginSuits ==
  ASSUME IInv, phase # "exited", NEW uids \in SUBSET Numbered
  PROVE  1 \in Forks /\ Missing(paused[1], uids) = {}
<1>1. 1 \in Forks /\ paused[1].time = 1
  BY DEF IInv, OriginKept, ForksFaithful
<1>2. Created[1] \in Nat /\ Created[Total] \in Nat
  BY TimesNat, CreatedAssumption
<1>3. \A u \in uids : u \in Nat /\ u >= Created[1]
  BY <1>2 DEF Numbered, Uids, InitialUid
<1> QED BY <1>1, <1>2, <1>3 DEF Missing

LEMMA EnsureCases ==
  ASSUME IInv, phase # "exited", NEW limit \in Int, NEW target \in Times,
         1 <= limit, limit <= target, NEW uids \in SUBSET Numbered, NEW k,
         EnsureFrom(limit, target, uids, k)
  PROVE  /\ Resumed(target, k, uids) \/ Failed(k)
         /\ AliveForks => Resumed(target, k, uids)
<1> DEFINE suited == {t \in Forks : t <= limit /\ Missing(paused[t], uids) = {}}
<1>1. 1 \in suited
  BY OriginSuits
<1>2. CASE suited # {}
  <2>1. suited \in SUBSET Nat /\ suited \subseteq Forks
    BY ForksFacts
  <2>2. target \in Nat /\ \A t \in suited : t <= target
    BY <2>1, TimesNat
  <2>3. Max(suited) \in suited
    <3> HIDE DEF suited
    <3> QED BY <1>2, <2>1, <2>2, MaxOfTimes
  <2>4. Resume(Max(suited), target, uids, k)
    BY <1>2 DEF EnsureFrom
  <2>5. /\ Max(suited) \in Forks /\ Max(suited) <= target
        /\ Missing(paused[Max(suited)], uids) = {}
    BY <2>1, <2>2, <2>3
  <2>6. AliveForks => ~paused[Max(suited)].closed
    BY <2>5 DEF AliveForks
  <2> HIDE DEF suited
  <2> QED BY <2>4, <2>5, <2>6, ResumeCases
<1> QED BY <1>1, <1>2

LEMMA JumpCases ==
  ASSUME IInv, phase # "exited", NEW target \in Int, NEW k, Jump(target, k)
  PROVE  /\ Clamp(target) \in Times
         /\ Resumed(Clamp(target), k, WatchUids) \/ Failed(k)
         /\ AliveForks => Resumed(Clamp(target), k, WatchUids)
<1>1. Clamp(target) \in Times
  BY ClampType
<1>2. Clamp(target) \in Nat /\ Clamp(target) >= 1
  BY <1>1, TotalAssumption DEF Times
<1>3. Clamp(target) \in Int /\ Clamp(target) <= Clamp(target)
  BY <1>2
<1> QED BY <1>1, <1>2, <1>3, WatchUidsType, EnsureCases DEF Jump

LEMMA EnsureHereCases ==
  ASSUME IInv, phase # "exited", NEW uids \in SUBSET Numbered, NEW k,
         EnsureHere(uids, k)
  PROVE  /\ \/ /\ Missing(active, uids) = {}
               /\ Continue(k) /\ active' = active
            \/ Missing(active, uids) # {} /\ Resumed(active.time, k, uids)
            \/ Missing(active, uids) # {} /\ Failed(k)
         /\ AliveForks /\ Missing(active, uids) # {} =>
              Resumed(active.time, k, uids)
<1>1. CASE Missing(active, uids) = {}
  BY <1>1 DEF EnsureHere
<1>2. CASE Missing(active, uids) # {}
  <2>1. EnsureFrom(active.time - 1, active.time, uids, k)
    BY <1>2 DEF EnsureHere
  <2>2. active.time \in Times /\ active.time \in Nat /\ active.time >= 1
    BY ActiveFacts, TotalAssumption DEF Times
  <2>3. active.time - 1 \in Int /\ active.time - 1 <= active.time
    BY <2>2
  <2>4. active.time # 1
    <3> SUFFICES ASSUME active.time = 1 PROVE FALSE
      OBVIOUS
    <3>1. Created[1] \in Nat /\ Created[Total] \in Nat
      BY TimesNat, CreatedAssumption
    <3>2. \A u \in uids : u \in Nat /\ u >= Created[1]
      BY <3>1 DEF Numbered, Uids, InitialUid
    <3> QED BY <1>2, <3>1, <3>2 DEF Missing
  <2>5. active.time - 1 >= 1
    BY <2>2, <2>4
  <2>6. /\ Resumed(active.time, k, uids) \/ Failed(k)
        /\ AliveForks => Resumed(active.time, k, uids)
    BY <2>1, <2>2, <2>3, <2>5, EnsureCases
  <2> QED BY <1>2, <2>6
<1> QED BY <1>1, <1>2
-----------------------------------------------------------------------------
(***************************************************************************)
(* A run of the process, by the gaps of hits that it enters.               *)
(***************************************************************************)

\* In mode "b" a run ends after the first of them.
LEMMA RestTimeCases ==
  ASSUME NEW p \in Process, NEW steps \in Nat, p.time + steps <= Total,
         NEW mode \in {"b", "i", "r"}, NEW hits \in SUBSET Gaps,
         NEW entered, entered = Entered(p, steps, hits),
         NEW rest, rest = RestTime(p, steps, mode, hits)
  PROVE  /\ mode = "i" \/ entered = {} => rest = p.time + steps
         /\ entered # {} => /\ Min(entered) \in entered
                            /\ \A g \in entered : Min(entered) <= g
         /\ mode = "b" /\ entered # {} => rest = Min(entered) + 1
         /\ mode = "r" /\ entered # {} => rest > Min(entered)
         /\ mode = "r" /\ NoTicks => rest = p.time + steps
<1>1. p.time \in Nat /\ p.time >= 1 /\ Total \in Nat
  BY TotalAssumption DEF Process, Times
<1>2. entered \in SUBSET Nat
  <2>1. entered \subseteq hits
    BY DEF Entered
  <2>2. Gaps \subseteq Nat
    BY <1>1 DEF Gaps
  <2> QED BY <2>1, <2>2
<1>3. CASE mode = "i" \/ entered = {}
  <2>1. rest = p.time + steps
    BY <1>3 DEF RestTime
  <2> QED BY <1>2, <1>3, <2>1, MinOfNumbers
<1>4. CASE mode # "i" /\ entered # {}
  <2> DEFINE first == Min(entered)
             tick  == TickAfter(p, first)
  <2>1. first \in entered /\ \A g \in entered : first <= g
    BY <1>2, <1>4, MinOfNumbers
  <2>2. first \in Nat /\ p.time <= first /\ first < p.time + steps
    BY <1>1, <1>2, <2>1 DEF Entered
  <2>3. rest = IF mode = "b" THEN first + 1
               ELSE IF tick < p.time + steps THEN tick ELSE p.time + steps
    BY <1>4 DEF RestTime
  <2>4. (first \div Resolution + 1) * Resolution \in Nat
        /\ (first \div Resolution + 1) * Resolution > first
    BY <2>2, NextMultiple
  <2>5. FirstTick(p) \in Int
    BY <1>1, ResolutionAssumption DEF FirstTick, Process
  <2>6. tick \in Int /\ tick > first
    BY <2>2, <2>4, <2>5 DEF TickAfter
  <2>7. NoTicks => tick >= Resolution
    <3>1. FirstTick(p) >= Resolution
      <4> DEFINE q == p.time \div Resolution + 1 + IF p.wait THEN 1 ELSE 0
      <4>1. Resolution \in Nat \ {0}
        BY ResolutionAssumption
      <4>2. p.time \div Resolution \in Nat
        BY <1>1, <4>1
      <4>3. q \in Nat /\ q >= 1
        BY <4>2
      <4>4. FirstTick(p) = q * Resolution
        BY DEF FirstTick
      <4> HIDE DEF q
      <4> QED BY <4>1, <4>3, <4>4
    <3> QED BY <2>2, <2>4, <2>5, <3>1, ResolutionAssumption DEF TickAfter
  <2> HIDE DEF first, tick
  <2>8. mode = "r" /\ NoTicks => rest = p.time + steps
    BY <1>1, <2>3, <2>6, <2>7, ResolutionAssumption DEF NoTicks
  <2> QED BY <1>1, <1>4, <2>1, <2>2, <2>3, <2>6, <2>8 DEF first
<1> QED BY <1>3, <1>4

\* It reports the last gap of hits that it went through.
ReportIs(mode, entered, passed, rest, watchHits, report) ==
  /\ mode = "i" \/ entered = {} => report = NoHit
  /\ mode = "b" /\ entered # {} => report.time = rest /\ report # NoHit
  /\ mode = "r" /\ entered = {} => passed = {}
  /\ mode = "r" /\ entered # {} =>
       /\ passed # {} /\ report # NoHit
       /\ report = [time  |-> Max(passed),
                    watch |-> Max(passed) \in watchHits]
  /\ passed # {} => /\ Max(passed) \in passed
                    /\ \A g \in passed : g <= Max(passed)

LEMMA ReportCases ==
  ASSUME NEW p \in Process, NEW steps \in Nat, p.time + steps <= Total,
         NEW mode \in {"b", "i", "r"}, NEW hits \in SUBSET Gaps,
         NEW watchHits, NEW report,
         report = Report(p, steps, mode, hits, watchHits),
         NEW entered, entered = Entered(p, steps, hits),
         NEW rest, rest = RestTime(p, steps, mode, hits),
         NEW passed, passed = {g \in hits : p.time <= g /\ g < rest}
  PROVE  ReportIs(mode, entered, passed, rest, watchHits, report)
<1>1. p.time \in Nat /\ p.time >= 1 /\ Total \in Nat
  BY TotalAssumption DEF Process, Times
<1>2. hits \subseteq Nat /\ \A g \in hits : g <= Total /\ g >= 1
  BY <1>1 DEF Gaps
<1>3. rest \in Nat /\ rest <= p.time + steps /\ rest >= p.time
  BY RestTimeType, TimesNat
<1>4. passed = Entered(p, rest - p.time, hits)
  <2>1. p.time + (rest - p.time) = rest
    BY <1>1, <1>3
  <2> QED BY <2>1 DEF Entered
<1>5. passed \subseteq entered /\ passed \in SUBSET Nat
  <2>1. ASSUME NEW g \in passed PROVE g \in entered /\ g \in Nat
    <3>1. g \in hits /\ p.time <= g /\ g < rest
      OBVIOUS
    <3>2. g \in Nat /\ g < p.time + steps
      BY <1>1, <1>2, <1>3, <3>1
    <3> QED BY <3>1, <3>2 DEF Entered
  <2> QED BY <2>1
<1>6. passed # {} => Max(passed) \in passed /\ \A g \in passed : g <= Max(passed)
  BY <1>1, <1>2, <1>5, MaxOfTimes
<1>7. CASE mode = "i" \/ entered = {}
  <2>1. report = NoHit
    <3>1. mode = "i" \/ passed = {}
      BY <1>5, <1>7
    <3> QED BY <1>4, <3>1 DEF Report
  <2> QED BY <1>5, <1>6, <1>7, <2>1 DEF ReportIs
<1>8. CASE mode # "i" /\ entered # {}
  <2> DEFINE first == Min(entered)
  <2>1. /\ first \in entered /\ \A g \in entered : first <= g
        /\ mode = "b" => rest = first + 1
        /\ mode = "r" => rest > first
    BY <1>8, RestTimeCases
  <2>2. first \in hits /\ first \in Nat /\ p.time <= first
    BY <1>2, <2>1 DEF Entered
  <2> HIDE DEF first
  <2>3. first \in passed
    BY <1>1, <1>3, <1>8, <2>1, <2>2
  <2>4. report = [time  |-> IF mode = "b" THEN Max(passed) + 1 ELSE Max(passed),
                  watch |-> Max(passed) \in watchHits]
    BY <1>4, <1>8, <2>3 DEF Report
  <2>5. Max(passed) \in Nat /\ Max(passed) >= 1
    BY <1>2, <1>5, <1>6, <2>3
  <2>6. mode = "b" => Max(passed) = first
    <3> SUFFICES ASSUME mode = "b" PROVE Max(passed) = first
      OBVIOUS
    <3>1. Max(passed) < rest /\ first <= Max(passed)
      BY <1>6, <2>3
    <3> QED BY <2>1, <2>2, <2>5, <3>1
  <2>7. report # NoHit
    BY <2>4, <2>5 DEF NoHit
  <2> QED BY <1>6, <1>8, <2>1, <2>3, <2>4, <2>6, <2>7 DEF ReportIs
<1> QED BY <1>7, <1>8
-----------------------------------------------------------------------------
(***************************************************************************)
(* The steps of go_forward(), by what they have in common.                 *)
(***************************************************************************)
Ran(steps) ==
  /\ steps \in Nat /\ active.time + steps <= Total
  /\ ~active.closed /\ ~active.tainted
  /\ active' = Rest(steps)
  /\ after' = after /\ call'.mode = call.mode

\* To the next clone time, where the fork that is there is closed.
RanToClone ==
  /\ 0 < ToClone /\ ToClone <= StepsLeft
  /\ active.time + ToClone = NextCloneTime
  /\ Ran(ToClone)
  /\ ~(call.mode = "b" /\ Found(ToClone) # NoHit)
  /\ phase' = "clone"
  /\ call'.steps = StepsLeft - ToClone
  /\ call'.latest = Latest(Found(ToClone))
  /\ paused' = IF active'.time \in Forks
                 THEN [paused EXCEPT ![active'.time] = Close(@)] ELSE paused

\* A breakpoint stops the run before that.
RanToHit ==
  /\ 0 < ToClone /\ ToClone <= StepsLeft
  /\ Ran(ToClone)
  /\ call.mode = "b" /\ Found(ToClone) # NoHit
  /\ phase' = "return"
  /\ call'.latest = Found(ToClone)
  /\ paused' = paused

RanToEnd ==
  /\ Ran(StepsLeft)
  /\ phase' = "return"
  /\ call'.latest = Latest(Found(StepsLeft))
  /\ paused' = paused

LEMMA ForwardCases ==
  ASSUME IInv, ForwardToClone \/ ForwardLast
  PROVE  /\ phase = "forward"
         /\ UNCHANGED <<kept, search, request, previous_time>>
         /\ \/ /\ active.closed /\ Raise(after)
               /\ active' = active /\ paused' = paused
            \/ RanToClone \/ RanToHit \/ RanToEnd
<1>1. /\ phase = "forward"
      /\ UNCHANGED <<kept, search, request, previous_time>>
  BY DEF ForwardToClone, ForwardLast
<1>2. ~active.tainted /\ call \in Calls
  BY <1>1 DEF IInv, Unmoved, TypeOK
<1>3. CASE ~Movable
  <2>1. Raise(after) /\ active' = active /\ paused' = paused
    BY <1>3 DEF ForwardToClone, ForwardLast
  <2> QED BY <1>1, <1>2, <1>3, <2>1 DEF Movable
<1>4. CASE Movable /\ ForwardToClone
  <2>1. /\ 0 < ToClone /\ ToClone <= StepsLeft /\ active' = Rest(ToClone)
        /\ ~active.closed
    BY <1>4 DEF ForwardToClone, Movable
  <2>2. /\ StepsLeft \in Nat /\ active.time + StepsLeft <= Total
        /\ active.time \in Nat /\ Total \in Nat /\ NextCloneTime \in Nat
    BY <1>1, StepsLeftType, ActiveFacts, TotalAssumption, NextCloneTimeFacts
  <2>3. /\ ToClone \in Nat /\ active.time + ToClone = NextCloneTime
        /\ active.time + ToClone <= Total
    BY <2>1, <2>2 DEF ToClone
  <2>4. CASE call.mode = "b" /\ Found(ToClone) # NoHit
    <3>1. /\ call' = [call EXCEPT !.latest = Found(ToClone)]
          /\ phase' = "return" /\ paused' = paused /\ after' = after
      BY <1>4, <2>4 DEF ForwardToClone
    <3>2. call'.latest = Found(ToClone) /\ call'.mode = call.mode
      BY <1>2, <3>1 DEF Calls
    <3> QED BY <1>1, <1>2, <2>1, <2>3, <2>4, <3>1, <3>2 DEF RanToHit, Ran
  <2>5. CASE ~(call.mode = "b" /\ Found(ToClone) # NoHit)
    <3>1. /\ call' = [call EXCEPT !.steps = StepsLeft - ToClone,
                                  !.latest = Latest(Found(ToClone))]
          /\ phase' = "clone" /\ after' = after
          /\ paused' = IF active'.time \in Forks
                         THEN [paused EXCEPT ![active'.time] = Close(@)]
                         ELSE paused
      BY <1>4, <2>5 DEF ForwardToClone
    <3>2. /\ call'.steps = StepsLeft - ToClone
          /\ call'.latest = Latest(Found(ToClone))
          /\ call'.mode = call.mode
      BY <1>2, <3>1 DEF Calls
    <3> QED BY <1>1, <1>2, <2>1, <2>3, <2>5, <3>1, <3>2 DEF RanToClone, Ran
  <2> QED BY <2>4, <2>5
<1>5. CASE Movable /\ ForwardLast
  <2>1. /\ active' = Rest(StepsLeft) /\ ~active.closed
        /\ call' = [call EXCEPT !.steps = 0,
                                !.latest = Latest(Found(StepsLeft))]
        /\ phase' = "return" /\ after' = after /\ paused' = paused
    BY <1>5 DEF ForwardLast, Movable
  <2>2. StepsLeft \in Nat /\ active.time + StepsLeft <= Total
    BY StepsLeftType
  <2>3. call'.latest = Latest(Found(StepsLeft)) /\ call'.mode = call.mode
    BY <1>2, <2>1 DEF Calls
  <2> QED BY <1>1, <1>2, <2>1, <2>2, <2>3 DEF RanToEnd, Ran
<1> QED BY <1>3, <1>4, <1>5

\* What a run leaves as it was.
LEMMA RanFacts ==
  ASSUME IInv, NEW steps, Ran(steps)
  PROVE  /\ active' \in Process
         /\ active'.time = RestTime(active, steps, call.mode, Hits)
         /\ active'.printed = active.printed
         /\ active'.tainted = active.tainted /\ active'.closed = active.closed
         /\ call.mode \in {"b", "i", "r"} /\ Hits \in SUBSET Gaps
         /\ call.mode = "i" => active'.time = active.time + steps
         /\ call.mode = "i" => Found(steps) = NoHit
<1>1. call.mode \in {"b", "i", "r"} /\ Hits \in SUBSET Gaps
  BY HitsType DEF IInv, TypeOK, Calls
<1>2. active \in Process /\ steps \in Nat /\ active.time + steps <= Total
  BY ActiveFacts DEF Ran
<1>3. active' = Forward(active, steps, call.mode, Hits)
  BY DEF Ran, Rest
<1>4. active'.printed = active.printed
  BY <1>2, <1>3 DEF Forward, Process
<1>5. call.mode = "i" =>
        /\ RestTime(active, steps, call.mode, Hits) = active.time + steps
        /\ Found(steps) = NoHit
  BY DEF RestTime, Found, Report
<1> QED BY <1>1, <1>2, <1>3, <1>4, <1>5, ForwardType
-----------------------------------------------------------------------------
(***************************************************************************)
(* Where a run ends: at the goal of the caller of go_forward(), where that *)
(* is known from the start.                                                *)
(***************************************************************************)
Bound == {"step", "search", "print", "watch", "recreate", "recover", "restart"}

Goal == IF after = "search" THEN Clamp(Max({search.start, search.until}))
        ELSE IF after = "restart" THEN 1 ELSE previous_time

ModeOf(k) == IF k = "stepped" THEN "b" ELSE IF k = "searched" THEN "r" ELSE "i"

RunInv ==
  /\ phase = "prompt" => active.time = previous_time
  /\ Moving => call.mode = ModeOf(after)
  /\ Moving /\ after \in Bound => active.time + call.steps = Goal
  /\ phase = "return" /\ after \in Bound => active.time = Goal
  /\ phase = "return" /\ active.tainted =>
       active.time = previous_time /\ after \in {"done", "print", "watch"}

LEMMA GoalType ==
  ASSUME IInv
  PROVE  Goal \in Times
<1>1. previous_time \in Times /\ search.start \in Int /\ search.until \in Int
  BY DEF IInv, TypeOK, Searches
<1>2. Clamp(Max({search.start, search.until})) \in Times
  BY <1>1, MaxOfTwo, ClampType
<1> QED BY <1>1, <1>2, TimesNat DEF Goal

\* A fork is resumed, for a goal that is that of the caller.
LEMMA ResumedRun ==
  ASSUME IInv, NEW k \in Stages \ {"stepped", "searched"}, NEW goal \in Times,
         NEW uids, Resumed(goal, k, uids), k \in Bound => goal = Goal'
  PROVE  RunInv'
<1>1. active'.time \in Nat /\ goal \in Nat
  BY TimesNat DEF Resumed, Forks
<1>2. /\ phase' = "forward" /\ after' = k /\ call'.mode = "i"
      /\ active'.time + call'.steps = goal
  BY <1>1 DEF Resumed
<1> QED BY <1>2 DEF RunInv, Moving, ModeOf

\* An exception: the process stays where it was.
LEMMA FailedRun ==
  ASSUME IInv, NEW k, Failed(k), previous_time' = previous_time,
         active.tainted => active.time = previous_time
  PROVE  RunInv'
<1>1. active'.time = active.time /\ active'.tainted = active.tainted
  BY ActiveFacts, CloseType DEF Failed
<1>2. \/ phase' = "return" /\ after' = "done"
      \/ phase' = "died"
  BY DEF Failed, RaiseNone, Raise, Die, Continue
<1> QED BY <1>1, <1>2 DEF RunInv, Moving, Bound

\* Nothing moves, and the caller goes on.
LEMMA ContinuedRun ==
  ASSUME NEW k \in {"done", "print", "watch"}, Continue(k),
         active'.time = active.time, previous_time' = previous_time,
         active.time = previous_time
  PROVE  RunInv'
BY DEF RunInv, Continue, Moving, Bound, Goal

LEMMA CommandRun ==
  ASSUME IInv, RunInv, Command
  PROVE  RunInv'
<1>1. /\ phase = "prompt" /\ previous_time' = previous_time
      /\ active.time = previous_time
      /\ active.time \in Times /\ active.time \in Nat
  BY ActiveFacts DEF Command, Go, Step, BStep, PrintCmd, Inspect, Break,
     Delete, Watch, Quit, Ask, RunInv
<1>2. Clamp(active.time) = active.time
  BY <1>1, TotalAssumption DEF Clamp, Times
<1>3. CASE Go
  <2>1. PICK t \in Args : Jump(t, "done")
    BY <1>3 DEF Go
  <2>2. t \in Int /\ "done" \in Stages /\ "done" \notin Bound
    BY ArgsNat DEF Stages, Bound
  <2> QED BY <1>1, <2>1, <2>2, JumpCases, ResumedRun, FailedRun
<1>4. CASE Step /\ active.tainted
  <2>1. Jump(active.time, "step")
    BY <1>4 DEF Step
  <2>2. "step" \in Stages
    BY DEF Stages
  <2>3. after' = "step" => Goal' = active.time
    BY <1>1 DEF Goal
  <2>4. CASE Failed("step")
    BY <1>1, <2>4, FailedRun
  <2>5. CASE Resumed(active.time, "step", WatchUids)
    <3>1. Goal' = active.time
      BY <2>3, <2>5 DEF Resumed
    <3> QED BY <1>1, <2>2, <2>5, <3>1, ResumedRun
  <2> QED BY <1>1, <1>2, <2>1, <2>4, <2>5, JumpCases
<1>5. CASE Step /\ ~active.tainted
  <2>1. PICK n \in Args : GoForward(n, "b", "stepped")
    BY <1>5 DEF Step
  <2> QED BY <2>1 DEF GoForward, RunInv, Moving, Bound, ModeOf
<1>6. CASE BStep
  <2> DEFINE first == IF Armed # {} THEN WatchSearchSteps ELSE SearchSteps
  <2>1. PICK n \in Args :
          IF armed = {}
            THEN Jump(active.time - n, "done")
            ELSE /\ search' = [start |-> active.time - first,
                               stop  |-> active.time,
                               until |-> active.time - n]
                 /\ Jump(Max({search'.start, active.time - n}), "search")
    BY <1>6 DEF BStep
  <2>2. n \in Nat /\ first \in Nat /\ "done" \in Stages /\ "search" \in Stages
        /\ "done" \notin Bound
    BY ArgsNat, GroupAssumption DEF Stages, Bound
  <2>3. active.time - n \in Int /\ active.time - first \in Int
    BY <1>1, <2>2
  <2>4. CASE armed = {}
    BY <1>1, <2>1, <2>2, <2>3, <2>4, JumpCases, ResumedRun, FailedRun
  <2>5. CASE armed # {}
    <3>1. search'.start \in Int /\ search'.until = active.time - n
      BY <2>1, <2>3, <2>5
    <3> DEFINE target == Max({search'.start, active.time - n})
    <3>2. target \in Int
      BY <2>3, <3>1, MaxOfTwo
    <3>3. Jump(target, "search")
      BY <2>1, <2>5
    <3>4. after' = "search" => Goal' = Clamp(target)
      BY <3>1 DEF Goal
    <3> HIDE DEF target
    <3>5. Clamp(target) \in Times
      BY <3>2, ClampType
    <3>6. CASE Failed("search")
      BY <1>1, <3>6, FailedRun
    <3>7. CASE Resumed(Clamp(target), "search", WatchUids)
      <4>1. Goal' = Clamp(target)
        BY <3>4, <3>7 DEF Resumed
      <4> QED BY <2>2, <3>5, <3>7, <4>1, ResumedRun
    <3> QED BY <1>1, <3>2, <3>3, <3>6, <3>7, JumpCases
  <2> QED BY <2>4, <2>5
<1>7. ASSUME NEW k \in {"print", "watch"}, NEW uids \in SUBSET Numbered,
             EnsureHere(uids, k)
      PROVE  RunInv'
  <2>1. after' = k => Goal' = active.time
    BY <1>1 DEF Goal
  <2>2. k \in Stages \ {"stepped", "searched"}
    BY DEF Stages
  <2>3. CASE Continue(k) /\ active' = active
    BY <1>1, <2>3, ContinuedRun
  <2>4. CASE Failed(k)
    BY <1>1, <2>4, FailedRun
  <2>5. CASE Resumed(active.time, k, uids)
    <3>1. Goal' = active.time
      BY <2>1, <2>5 DEF Resumed
    <3> QED BY <1>1, <2>2, <2>5, <3>1, ResumedRun
  <2> QED BY <1>1, <1>7, <2>3, <2>4, <2>5, EnsureHereCases
<1>8. CASE PrintCmd
  <2>1. PICK uids : EnsureHere(uids \cap Alive(active.time), "print")
    BY <1>8 DEF PrintCmd
  <2>2. uids \cap Alive(active.time) \subseteq Numbered
    BY DEF Alive
  <2> QED BY <2>1, <2>2, <1>7
<1>9. CASE Inspect
  <2>1. CASE active' = Taint(active) /\ Continue("done")
    BY <1>1, <2>1, ActiveFacts, TaintType, ContinuedRun
  <2>2. CASE Jump(active.time, "recreate")
    <3>1. "recreate" \in Stages
      BY DEF Stages
    <3>2. CASE Failed("recreate")
      BY <1>1, <3>2, FailedRun
    <3>3. CASE Resumed(active.time, "recreate", WatchUids)
      <4>1. Goal' = active.time
        BY <1>1, <3>3 DEF Resumed, Goal
      <4> QED BY <1>1, <3>1, <3>3, <4>1, ResumedRun
    <3> QED BY <1>1, <1>2, <2>2, <3>2, <3>3, JumpCases
  <2> QED BY <1>9, <2>1, <2>2 DEF Inspect, Recreate
<1>10. CASE Break \/ Delete
  <2>1. active' = active /\ Continue("done")
    BY <1>10 DEF Break, Delete
  <2> QED BY <1>1, <2>1, ContinuedRun
<1>11. CASE Watch
  <2>1. CASE active.closed /\ Raise("watch") /\ active' = active
    BY <1>1, <2>1, FailedRun DEF Failed
  <2>2. ASSUME NEW w, EnsureHere(Needs[w] \cap Alive(active.time), "watch")
        PROVE  RunInv'
    <3>1. Needs[w] \cap Alive(active.time) \subseteq Numbered
      BY DEF Alive
    <3> QED BY <2>2, <3>1, <1>7
  <2> QED BY <1>11, <2>1, <2>2 DEF Watch
<1>12. CASE Quit
  BY <1>12 DEF Quit, RunInv, Moving
<1> QED BY <1>3, <1>4, <1>5, <1>6, <1>8, <1>9, <1>10, <1>11, <1>12 DEF Command
LEMMA StepsLeftIs ==
  ASSUME IInv, active.time + call.steps <= Total
  PROVE  StepsLeft = call.steps
<1>1. active.time \in Nat /\ Total \in Nat /\ call.steps \in Nat
  BY ActiveFacts, TotalAssumption DEF Calls
<1> QED BY <1>1 DEF StepsLeft

LEMMA ForwardRun ==
  ASSUME IInv, RunInv, ForwardToClone \/ CloneHere \/ CloneActive \/ ForwardLast
  PROVE  RunInv'
<1>1. /\ Moving /\ ~active.tainted
      /\ UNCHANGED <<search, previous_time>>
  BY DEF ForwardToClone, CloneHere, CloneActive, ForwardLast, Moving, IInv, Unmoved
<1>2. /\ active.time \in Nat /\ Total \in Nat /\ call.steps \in Nat
      /\ call.mode = ModeOf(after)
  BY <1>1, ActiveFacts, TotalAssumption DEF RunInv, Calls
<1>3. CASE active.closed /\ Raise(after) /\ active' = active
  BY <1>1, <1>3, FailedRun DEF Failed
<1>4. CASE CloneHere \/ (CloneActive /\ ~active.closed)
  <2>1. UNCHANGED <<active, call, after>> /\ phase' \in {"forward", "clone"}
    BY <1>4 DEF CloneHere, CloneActive
  <2> QED BY <1>1, <2>1 DEF RunInv, Moving, Goal
<1>5. CASE RanToClone \/ RanToHit \/ RanToEnd
  <2>1. PICK steps : Ran(steps)
    BY <1>5 DEF RanToClone, RanToHit, RanToEnd
  <2>2. ~active'.tainted /\ after' = after /\ Goal' = Goal
    BY <1>1, <2>1, RanFacts DEF Ran, Goal
  <2>3. phase' \in {"clone", "return"} /\ call'.mode = call.mode
    BY <1>5 DEF RanToClone, RanToHit, RanToEnd, Ran
  <2>4. CASE after \notin Bound
    BY <1>2, <2>2, <2>3, <2>4 DEF RunInv, Moving
  <2>5. CASE after \in Bound
    <3>1. call.mode = "i" /\ active.time + call.steps = Goal
      BY <1>1, <1>2, <2>5 DEF RunInv, Bound, ModeOf
    <3>2. Goal \in Nat /\ Goal <= Total
      BY GoalType, TimesNat, TotalAssumption DEF Times
    <3>3. StepsLeft = call.steps
      BY <3>1, <3>2, StepsLeftIs
    <3>4. CASE RanToClone
      <4>1. ToClone \in Nat /\ active'.time = active.time + ToClone
        BY <3>1, <3>4, RanFacts DEF RanToClone, Ran
      <4>2. call'.steps = call.steps - ToClone
        BY <3>3, <3>4 DEF RanToClone
      <4>3. active'.time + call'.steps = Goal
        BY <1>2, <3>1, <4>1, <4>2
      <4>4. phase' = "clone"
        BY <3>4 DEF RanToClone
      <4> QED BY <1>2, <2>2, <2>3, <4>3, <4>4 DEF RunInv, Moving
    <3>5. CASE RanToHit
      BY <3>1, <3>5 DEF RanToHit
    <3>6. CASE RanToEnd
      <4>1. active'.time = active.time + call.steps
        BY <3>1, <3>3, <3>6, RanFacts DEF RanToEnd
      <4>2. phase' = "return"
        BY <3>6 DEF RanToEnd
      <4> QED BY <2>2, <3>1, <4>1, <4>2 DEF RunInv, Moving
    <3> QED BY <1>5, <3>4, <3>5, <3>6
  <2> QED BY <2>4, <2>5
<1>6. CASE CloneActive /\ active.closed
  BY <1>3, <1>6 DEF CloneActive
<1> QED BY <1>3, <1>4, <1>5, <1>6, ForwardCases

LEMMA BackRun ==
  ASSUME IInv, RunInv,
         \/ StepOn \/ HitBreakpoints \/ SearchWindow \/ SearchFarther
         \/ PrintAnswer \/ WatchAnswer
  PROVE  RunInv'
<1>1. /\ phase = "return" /\ previous_time' = previous_time
      /\ active.tainted => active.time = previous_time
      /\ active.time \in Times /\ active.time \in Nat
  BY ActiveFacts DEF StepOn, HitBreakpoints, SearchWindow, SearchFarther,
     PrintAnswer, WatchAnswer, Back, RunInv
<1>2. "done" \in Stages /\ "done" \notin Bound /\ "search" \in Stages
      /\ "recreate" \in Stages
  BY DEF Stages, Bound
<1>3. CASE StepOn
  BY <1>3 DEF StepOn, GoForward, RunInv, Moving, Bound, ModeOf
<1>4. CASE HitBreakpoints
  <2>1. ~active.tainted
    BY <1>4 DEF HitBreakpoints, Back, RunInv
  <2>2. HitTime \in Int
    BY DEF HitTime, IInv, TypeOK, Calls, Reports
  <2>3. CASE Continue("done") /\ active' = active
    BY <2>1, <2>3 DEF Continue, RunInv, Moving, Bound
  <2> QED BY <1>1, <1>2, <1>4, <2>1, <2>2, <2>3, JumpCases, ResumedRun, FailedRun
       DEF HitBreakpoints
<1>5. CASE SearchWindow
  <2>1. ~active.tainted /\ active' = active
    BY <1>5 DEF SearchWindow, Back, RunInv
  <2>2. CASE Continue("done")
    BY <2>1, <2>2 DEF Continue, RunInv, Moving, Bound
  <2>3. CASE GoForward(search.stop - active.time, "r", "searched")
    BY <2>3 DEF GoForward, RunInv, Moving, Bound, ModeOf
  <2> QED BY <1>5, <2>2, <2>3 DEF SearchWindow
<1>6. CASE SearchFarther
  <2>1. search \in Searches /\ search' = Farther
    BY <1>6 DEF SearchFarther, IInv, TypeOK
  <2>2. /\ search.start \in Int /\ search.stop \in Int /\ search.until \in Int
        /\ search'.start = FartherStart /\ search'.until = search.until
    BY <2>1 DEF Searches, Farther
  <2>3. search'.start \in Int
    BY <2>2 DEF FartherStart
  <2> DEFINE target == Max({search'.start, search.until})
  <2>4. target \in Int
    BY <2>2, <2>3, MaxOfTwo
  <2>5. Jump(target, "search")
    BY <1>6 DEF SearchFarther
  <2>6. after' = "search" => Goal' = Clamp(target)
    BY <2>2 DEF Goal
  <2> HIDE DEF target
  <2>7. Clamp(target) \in Times
    BY <2>4, ClampType
  <2>8. CASE Failed("search")
    BY <1>1, <2>8, FailedRun
  <2>9. CASE Resumed(Clamp(target), "search", WatchUids)
    <3>1. Goal' = Clamp(target)
      BY <2>6, <2>9 DEF Resumed
    <3> QED BY <1>2, <2>7, <2>9, <3>1, ResumedRun
  <2> QED BY <1>1, <2>4, <2>5, <2>8, <2>9, JumpCases
<1>7. CASE PrintAnswer
  <2>1. active.time = previous_time
    BY <1>7 DEF PrintAnswer, Back, RunInv, Bound, Goal
  <2>2. Taint(active) \in Process /\ Taint(active).time = active.time
    BY ActiveFacts, TaintType
  <2>3. CASE active' = Taint(active) /\ Continue("done")
    BY <1>1, <2>1, <2>2, <2>3, ContinuedRun
  <2>4. ASSUME NEW found, Continue("done"),
               active' = [Taint(active) EXCEPT !.printed = @ \cup found]
        PROVE  RunInv'
    <3>1. active'.time = active.time
      BY <2>2, <2>4 DEF Process
    <3> QED BY <1>1, <2>1, <2>4, <3>1, ContinuedRun
  <2>5. CASE Jump(active.time, "recreate")
    <3>1. Clamp(active.time) = active.time
      BY <1>1, TotalAssumption DEF Clamp, Times
    <3>2. CASE Failed("recreate")
      BY <1>1, <3>2, FailedRun
    <3>3. CASE Resumed(active.time, "recreate", WatchUids)
      <4>1. Goal' = active.time
        BY <1>1, <2>1, <3>3 DEF Resumed, Goal
      <4> QED BY <1>1, <1>2, <3>3, <4>1, ResumedRun
    <3> QED BY <1>1, <2>5, <3>1, <3>2, <3>3, JumpCases
  <2> QED BY <1>7, <2>3, <2>4, <2>5 DEF PrintAnswer, Recreate
<1>8. CASE WatchAnswer
  <2>1. active.time = previous_time /\ Continue("done") /\ active' = active
    BY <1>8 DEF WatchAnswer, Back, RunInv, Bound, Goal
  <2> QED BY <1>1, <2>1, ContinuedRun
<1> QED BY <1>3, <1>4, <1>5, <1>6, <1>7, <1>8

LEMMA PromptRun ==
  ASSUME IInv, RunInv,
         Prompt \/ PromptMoved \/ PromptDied \/ PromptRestart
  PROVE  RunInv'
<1>1. CASE Prompt \/ PromptMoved
  <2>1. /\ phase' = "prompt" /\ active' = active
        /\ active.time = previous_time'
    BY <1>1 DEF Prompt, PromptMoved, Show, Moved
  <2> QED BY <2>1 DEF RunInv, Moving
<1>2. CASE PromptDied
  BY <1>2 DEF PromptDied, Die, RunInv, Moving
<1>3. CASE PromptRestart
  <2>1. /\ Jump(1, "restart") /\ previous_time' = previous_time
        /\ phase = "return"
    BY <1>3 DEF PromptRestart, Arrived
  <2>2. "restart" \in Stages /\ Clamp(1) = 1
    BY TotalAssumption DEF Stages, Clamp
  <2>3. CASE Failed("restart")
    BY <2>1, <2>3, FailedRun DEF RunInv
  <2>4. CASE Resumed(1, "restart", WatchUids)
    <3>1. Goal' = 1
      BY <2>4 DEF Resumed, Goal
    <3> QED BY <2>2, <2>4, <3>1, TimesNat, ResumedRun
  <2> QED BY <2>1, <2>2, <2>3, <2>4, JumpCases
<1> QED BY <1>1, <1>2, <1>3

LEMMA InterruptRun ==
  ASSUME IInv, RunInv, Interrupt
  PROVE  RunInv'
<1>1. /\ Jump(previous_time, "recover") /\ previous_time' = previous_time
      /\ phase # "exited" /\ previous_time \in Times
      /\ active.tainted => active.time = previous_time
  BY DEF Interrupt, RestoredTime, IInv, TypeOK, Unmoved, RunInv
<1>2. "recover" \in Stages /\ Clamp(previous_time) = previous_time
      /\ previous_time \in Int
  BY <1>1, TotalAssumption DEF Stages, Clamp, Times
<1>3. CASE Failed("recover")
  BY <1>1, <1>3, FailedRun
<1>4. CASE Resumed(previous_time, "recover", WatchUids)
  <2>1. Goal' = previous_time
    BY <1>1, <1>4 DEF Resumed, Goal
  <2> QED BY <1>1, <1>2, <1>4, <2>1, ResumedRun
<1> QED BY <1>1, <1>2, <1>3, <1>4, JumpCases

LEMMA OtherRun ==
  ASSUME IInv, RunInv, InterruptAgain \/ Crash \/ UNCHANGED vars
  PROVE  RunInv'
<1>1. CASE InterruptAgain
  BY <1>1 DEF InterruptAgain, RunInv, Moving
<1>2. CASE Crash
  <2>1. active'.time = active.time
    BY <1>2, ActiveFacts, CloseType DEF Crash
  <2> QED BY <1>2, <2>1 DEF Crash, movement, RunInv, Moving, Goal
<1>3. CASE UNCHANGED vars
  BY <1>3 DEF vars, movement, RunInv, Moving, Goal
<1> QED BY <1>1, <1>2, <1>3

(***************************************************************************)
(* A run of go_forward() that its caller gave a goal ends at that goal,    *)
(* however many forks are made on the way; a process in which code was run *)
(* is still at the time of the prompt.                                     *)
(***************************************************************************)
THEOREM RunsReachGoal == Spec => []RunInv
<1>1. Init => RunInv
  BY DEF Init, RunInv, FirstProcess, Moving
<1>2. IInv /\ RunInv /\ [Next]_vars => RunInv'
  <2> SUFFICES ASSUME IInv, RunInv, [Next]_vars PROVE RunInv'
    OBVIOUS
  <2>1. CASE Command
    BY <2>1, CommandRun
  <2>2. CASE ForwardToClone \/ CloneHere \/ CloneActive \/ ForwardLast
    BY <2>2, ForwardRun
  <2>3. CASE \/ StepOn \/ HitBreakpoints \/ SearchWindow \/ SearchFarther
             \/ PrintAnswer \/ WatchAnswer
    BY <2>3, BackRun
  <2>4. CASE Prompt \/ PromptMoved \/ PromptDied \/ PromptRestart
    BY <2>4, PromptRun
  <2>5. CASE Interrupt
    BY <2>5, InterruptRun
  <2>6. CASE InterruptAgain \/ Crash \/ Ended \/ UNCHANGED vars
    BY <2>6, OtherRun DEF Ended
  <2> QED BY <2>1, <2>2, <2>3, <2>4, <2>5, <2>6 DEF Next, Work
<1> QED BY <1>1, <1>2, InvariantHolds, PTL DEF Spec

\* Only the end of a command shows a prompt.
LEMMA JumpPhase ==
  ASSUME NEW target, NEW k, Jump(target, k)
  PROVE  phase' \in {"forward", "return", "died"}
BY DEF Jump, EnsureFrom, Resume, RaiseNone, Raise, Die, Continue, GoForward

LEMMA EnsureHerePhase ==
  ASSUME NEW uids, NEW k, EnsureHere(uids, k)
  PROVE  phase' \in {"forward", "return", "died"}
BY DEF EnsureHere, EnsureFrom, Resume, RaiseNone, Raise, Die, Continue,
       GoForward

LEMMA PromptEnds ==
  ASSUME phase # "prompt", phase' = "prompt", [Next]_vars
  PROVE  Prompt \/ PromptMoved
<1>1. ~Command
  BY DEF Command, Go, Step, BStep, PrintCmd, Inspect, Break, Delete, Watch,
     Quit, Ask
<1>2. ~(ForwardToClone \/ CloneHere \/ CloneActive \/ ForwardLast)
  BY DEF ForwardToClone, CloneHere, CloneActive, ForwardLast, Raise, Die,
     Continue
<1>3. ~(StepOn \/ HitBreakpoints \/ SearchWindow \/ SearchFarther)
  BY JumpPhase DEF StepOn, HitBreakpoints, SearchWindow, SearchFarther,
     Continue, GoForward
<1>4. ~(PrintAnswer \/ WatchAnswer)
  BY JumpPhase DEF PrintAnswer, WatchAnswer, Recreate, Continue
<1>5. ~(PromptDied \/ PromptRestart \/ Interrupt)
  BY JumpPhase DEF PromptDied, PromptRestart, Interrupt, Die
<1>6. ~(InterruptAgain \/ Crash \/ Ended \/ UNCHANGED vars)
  BY DEF InterruptAgain, Crash, Ended, vars, movement
<1> QED BY <1>1, <1>2, <1>3, <1>4, <1>5, <1>6 DEF Next, Work

(***************************************************************************)
(* Ctrl-C, at any point of a command: when the prompt is shown again it is *)
(* at the time of the last one, in a process that is alive.                *)
(***************************************************************************)
THEOREM CtrlCAlwaysRestores == Spec => CtrlCRestores
<1>1. IInv /\ RunInv /\ [Next]_vars =>
        [phase # "prompt" /\ phase' = "prompt" /\ after = "recover"
           => active'.time = previous_time /\ active'.closed = FALSE]_vars
  <2> SUFFICES ASSUME RunInv, [Next]_vars, phase # "prompt",
                      phase' = "prompt", after = "recover", IInv
               PROVE  active'.time = previous_time /\ active'.closed = FALSE
    OBVIOUS
  <2>1. PromptMoved
    <3>1. Prompt \/ PromptMoved
      BY PromptEnds
    <3> QED BY <3>1 DEF Prompt, Moved
  <2>2. /\ phase = "return" /\ active' = active /\ ~active.closed
        /\ active.closed \in BOOLEAN
    BY <2>1, ActiveFacts DEF PromptMoved, Arrived, Process
  <2>3. active.time = previous_time
    BY <2>2 DEF RunInv, Bound, Goal
  <2> QED BY <2>2, <2>3
<1> QED BY <1>1, InvariantHolds, RunsReachGoal, PTL DEF Spec, CtrlCRestores
-----------------------------------------------------------------------------
(***************************************************************************)
(* The number of forks.                                                    *)
(***************************************************************************)

\* A run that nothing cuts short ends at the clone time it was given; there
\* is a fork there already, or room for one more.
CapInv ==
  NoTicks =>
    /\ SubprocessCap
    /\ phase = "clone" =>
         active.time \in Forks \/ Cardinality(Forks) < MaxSubprocesses

\* Forks are made and closed by go_forward(), and by command_quit.
Running == ForwardToClone \/ CloneHere \/ CloneActive \/ ForwardLast

LEMMA PausedKept ==
  ASSUME [Next]_vars, ~Running, ~Quit
  PROVE  /\ paused' = paused
         /\ phase' = "clone" => UNCHANGED vars
<1>1. CASE Command
  BY <1>1, JumpPhase, EnsureHerePhase DEF Command, Go, Step, BStep, PrintCmd,
     Inspect, Recreate, Break, Delete, Watch, Raise, Die, Continue, GoForward
<1>2. CASE \/ StepOn \/ HitBreakpoints \/ SearchWindow \/ SearchFarther
           \/ PrintAnswer \/ WatchAnswer
  BY <1>2, JumpPhase DEF StepOn, HitBreakpoints, SearchWindow, SearchFarther,
     PrintAnswer, WatchAnswer, Back, Recreate, Continue, GoForward
<1>3. CASE \/ Prompt \/ PromptMoved \/ PromptDied \/ PromptRestart
           \/ Interrupt \/ InterruptAgain
  BY <1>3, JumpPhase DEF Prompt, PromptMoved, PromptDied, PromptRestart, Show,
     Interrupt, InterruptAgain, Die
<1>4. CASE Crash \/ Ended \/ UNCHANGED vars
  BY <1>4 DEF Crash, Ended, vars, movement
<1> QED BY <1>1, <1>2, <1>3, <1>4 DEF Next, Work, Running

LEMMA QuitForks ==
  ASSUME IInv, Quit
  PROVE  Forks' = Forks /\ phase' = "exited"
<1>1. paused' = [t \in Times |-> IF t \in Forks THEN Close(paused[t])
                                 ELSE NoProcess]
  BY DEF Quit
<1>2. \A t \in Forks : Close(paused[t]) # NoProcess
  BY CloseType, GroupAssumption DEF IInv, TypeOK, Forks
<1>3. \A t \in Times : paused'[t] # NoProcess <=> t \in Forks
  BY <1>1, <1>2
<1>4. Forks' = Forks
  BY <1>3 DEF Forks
<1> QED BY <1>4 DEF Quit

\* A run to the clone time keeps the forks, the closed one included.
LEMMA RanForks ==
  ASSUME IInv, RanToClone
  PROVE  Forks' = Forks
<1>1. CASE active'.time \notin Forks
  BY <1>1 DEF RanToClone, Forks
<1>2. CASE active'.time \in Forks
  <2> DEFINE t == active'.time
  <2>1. paused' = [paused EXCEPT ![t] = Close(paused[t])]
        /\ paused \in [Times -> Process \cup {NoProcess}]
    BY <1>2 DEF RanToClone, IInv, TypeOK
  <2>2. t \in Times /\ paused[t] # NoProcess /\ Close(paused[t]) # NoProcess
    BY <1>2, CloseType, GroupAssumption DEF IInv, TypeOK, Forks
  <2> HIDE DEF t
  <2>3. \A s \in Times : paused'[s] # NoProcess <=> paused[s] # NoProcess
    BY <2>1, <2>2
  <2> QED BY <2>3 DEF Forks
<1> QED BY <1>1, <1>2

(***************************************************************************)
(* What a run of the active process finds, by the gaps that it was to go   *)
(* through and those that it has gone through.                             *)
(***************************************************************************)
ToEnter(steps) == Entered(active, steps, Hits)
Passed == {g \in Hits : active.time <= g /\ g < active'.time}

LEMMA FoundCases ==
  ASSUME IInv, NEW steps, Ran(steps)
  PROVE  /\ call.mode = "i" \/ ToEnter(steps) = {} => Found(steps) = NoHit
         /\ call.mode = "b" /\ ToEnter(steps) # {} =>
              Found(steps).time = active'.time /\ Found(steps) # NoHit
         /\ call.mode = "r" /\ ToEnter(steps) = {} => Passed = {}
         /\ call.mode = "r" /\ ToEnter(steps) # {} =>
              /\ Passed # {} /\ Found(steps) # NoHit
              /\ Found(steps) = [time  |-> Max(Passed),
                                 watch |-> Max(Passed) \in WatchHits]
         /\ Passed # {} => /\ Max(Passed) \in Passed
                           /\ \A g \in Passed : g <= Max(Passed)
<1>1. /\ active \in Process /\ steps \in Nat /\ active.time + steps <= Total
      /\ call.mode \in {"b", "i", "r"} /\ Hits \in SUBSET Gaps
      /\ active'.time = RestTime(active, steps, call.mode, Hits)
  BY ActiveFacts, RanFacts DEF Ran
<1> DEFINE report == Found(steps)
           entered == ToEnter(steps)
           rest == active'.time
           passed == Passed
<1>2. /\ report = Report(active, steps, call.mode, Hits, WatchHits)
      /\ entered = Entered(active, steps, Hits)
      /\ rest = RestTime(active, steps, call.mode, Hits)
      /\ passed = {g \in Hits : active.time <= g /\ g < rest}
  BY <1>1 DEF Found, ToEnter, Passed
<1> HIDE DEF report, entered, rest, passed
<1>3. ReportIs(call.mode, entered, passed, rest, WatchHits, report)
  BY <1>1, <1>2, ReportCases
<1> QED BY <1>3 DEF ReportIs, report, entered, rest, passed

LEMMA RanTimes ==
  ASSUME IInv, NEW steps, Ran(steps)
  PROVE  /\ call.mode = "i" \/ ToEnter(steps) = {} =>
              active'.time = active.time + steps
         /\ ToEnter(steps) # {} =>
              /\ Min(ToEnter(steps)) \in ToEnter(steps)
              /\ \A g \in ToEnter(steps) : Min(ToEnter(steps)) <= g
         /\ call.mode = "b" /\ ToEnter(steps) # {} =>
              active'.time = Min(ToEnter(steps)) + 1
         /\ call.mode = "r" /\ NoTicks => active'.time = active.time + steps
         /\ active'.time <= active.time + steps
         /\ active'.time >= active.time
<1>1. /\ active \in Process /\ steps \in Nat /\ active.time + steps <= Total
      /\ call.mode \in {"b", "i", "r"} /\ Hits \in SUBSET Gaps
      /\ active'.time = RestTime(active, steps, call.mode, Hits)
  BY ActiveFacts, RanFacts DEF Ran
<1> DEFINE entered == ToEnter(steps)
<1>2. entered = Entered(active, steps, Hits)
  BY DEF ToEnter
<1> HIDE DEF entered
<1>3. /\ call.mode = "i" \/ entered = {} => active'.time = active.time + steps
      /\ entered # {} => /\ Min(entered) \in entered
                         /\ \A g \in entered : Min(entered) <= g
      /\ call.mode = "b" /\ entered # {} => active'.time = Min(entered) + 1
      /\ call.mode = "r" /\ NoTicks => active'.time = active.time + steps
  BY <1>1, <1>2, RestTimeCases
<1> QED BY <1>1, <1>3, RestTimeType DEF entered

\* Without progress ticks, a run stops early only for a breakpoint.
LEMMA RanFar ==
  ASSUME IInv, NoTicks, RanToClone
  PROVE  active'.time = NextCloneTime
<1>1. Ran(ToClone) /\ active.time + ToClone = NextCloneTime
      /\ ~(call.mode = "b" /\ Found(ToClone) # NoHit)
  BY DEF RanToClone
<1>2. call.mode \in {"b", "i", "r"}
  BY <1>1, RanFacts
<1>3. call.mode = "b" => ToEnter(ToClone) = {}
  BY <1>1, FoundCases
<1> QED BY <1>1, <1>2, <1>3, RanTimes

\* Where the next fork is made while there is no room for a new one.
LEMMA CloneRoom ==
  ASSUME IInv, phase # "exited", SubprocessCap, NextCloneTime <= Total
  PROVE  NextCloneTime \in Forks \/ Cardinality(Forks) < MaxSubprocesses
<1>1. CASE Outdated # {}
  <2>1. Outdated \in SUBSET Nat
    BY ForksFacts DEF Outdated
  <2>2. NextCloneTime \in Outdated
    BY <1>1, <2>1, MinOfNumbers DEF NextCloneTime
  <2> QED BY <2>2 DEF Outdated
<1>2. CASE Outdated = {}
  <2>1. NewCloneTime <= Total
    BY <1>2 DEF NextCloneTime
  <2>2. IsFiniteSet(Forks)
    <3>1. IsFiniteSet(Times)
      BY TotalAssumption, FS_Interval DEF Times
    <3> QED BY <3>1, FS_Subset DEF Forks
  <2>3. Cardinality(Forks) \in Nat /\ MaxSubprocesses \in Nat /\ Total \in Nat
    BY <2>2, FS_CardinalityType, GroupAssumption, TotalAssumption
  <2> QED BY <2>1, <2>3 DEF NewCloneTime
<1> QED BY <1>1, <1>2

(***************************************************************************)
(* MAX_SUBPROCESSES bounds the forks, whatever the recording and whatever  *)
(* Ctrl-C cuts short, as long as the progress display does not cut a run   *)
(* into parts: a fork is made where get_next_clone_time() said, and it     *)
(* says a new place only while there is room.                              *)
(***************************************************************************)
THEOREM ForksWithinCap == Spec => [](NoTicks => SubprocessCap)
<1>1. Init => CapInv
  <2> SUFFICES ASSUME Init PROVE CapInv
    OBVIOUS
  <2>1. FirstProcess \in Process /\ Clone(FirstProcess) # NoProcess
    BY FirstProcessType, CloneType, GroupAssumption
  <2>2. Forks = {1}
    BY <2>1, TimesNat DEF Init, Forks
  <2>3. Cardinality(Forks) = 1
    BY <2>2, FS_Singleton
  <2>4. MaxSubprocesses \in Nat /\ MaxSubprocesses >= 1
    BY GroupAssumption
  <2> QED BY <2>3, <2>4 DEF Init, CapInv, SubprocessCap
<1>2. IInv /\ CapInv /\ [Next]_vars => CapInv'
  <2> SUFFICES ASSUME IInv, CapInv, NoTicks, [Next]_vars
               PROVE  /\ SubprocessCap'
                      /\ phase' = "clone" =>
                           \/ active'.time \in Forks'
                           \/ Cardinality(Forks') < MaxSubprocesses
    BY DEF CapInv, NoTicks
  <2>1. /\ SubprocessCap
        /\ phase = "clone" =>
             active.time \in Forks \/ Cardinality(Forks) < MaxSubprocesses
    BY DEF CapInv
  <2>2. active.time \in Nat /\ Total \in Nat /\ active.time <= Total
    BY ActiveFacts, TotalAssumption
  <2>3. CASE CloneActive /\ ~active.closed
    <3> DEFINE t    == active.time
               fork == Clone(active)
    <3>1. paused' = [paused EXCEPT ![t] = fork] /\ phase = "clone"
          /\ phase' = "forward"
      BY <2>3 DEF CloneActive
    <3>2. t \in Times /\ fork # NoProcess
          /\ paused \in [Times -> Process \cup {NoProcess}]
      BY ActiveFacts, CloneType, GroupAssumption DEF IInv, TypeOK
    <3>3. IsFiniteSet(Forks)
      <4>1. IsFiniteSet(Times)
        BY TotalAssumption, FS_Interval DEF Times
      <4> QED BY <4>1, FS_Subset DEF Forks
    <3> HIDE DEF fork
    <3>4. Forks' = Forks \cup {t}
      BY <3>1, <3>2 DEF Forks
    <3>5. Cardinality(Forks') = IF t \in Forks THEN Cardinality(Forks)
                                ELSE Cardinality(Forks) + 1
      BY <3>3, <3>4, FS_AddElement
    <3>6. Cardinality(Forks) \in Nat /\ MaxSubprocesses \in Nat
      BY <3>3, FS_CardinalityType, GroupAssumption
    <3> QED BY <2>1, <3>1, <3>5, <3>6 DEF SubprocessCap
  <2>4. CASE CloneHere
    <3>1. phase = "forward" /\ ToClone = 0 /\ active' = active
      BY <2>4 DEF CloneHere
    <3>2. NextCloneTime = active.time
      <4>1. NextCloneTime \in Nat
        BY <3>1, NextCloneTimeFacts
      <4> QED BY <2>2, <3>1, <4>1 DEF ToClone
    <3>3. paused' = paused
      BY <2>4, <3>1, <3>2, NextCloneTimeFacts DEF CloneHere
    <3>4. Forks' = Forks
      BY <3>3 DEF Forks
    <3> QED BY <2>1, <2>2, <3>1, <3>2, <3>4, CloneRoom DEF SubprocessCap
  <2>5. CASE RanToClone /\ phase = "forward"
    <3>1. Forks' = Forks /\ active'.time = NextCloneTime
          /\ NextCloneTime <= Total
      BY <2>5, RanForks, RanFar DEF RanToClone, Ran
    <3> QED BY <2>1, <2>5, <3>1, CloneRoom DEF SubprocessCap
  <2>6. CASE paused' = paused /\ phase' # "clone"
    <3>1. Forks' = Forks
      BY <2>6 DEF Forks
    <3> QED BY <2>1, <2>6, <3>1 DEF SubprocessCap
  <2>7. CASE Running
    <3>1. CASE CloneActive /\ active.closed
      <4>1. paused' = paused /\ phase' \in {"died", "return"}
        BY <3>1 DEF CloneActive, Raise, Die, Continue
      <4> QED BY <2>6, <4>1
    <3>2. CASE ForwardToClone \/ ForwardLast
      <4>1. CASE Raise(after) /\ paused' = paused
        <5>1. phase' \in {"died", "return"}
          BY <4>1 DEF Raise, Die, Continue
        <5> QED BY <2>6, <4>1, <5>1
      <4>2. CASE RanToHit \/ RanToEnd
        <5>1. paused' = paused /\ phase' = "return"
          BY <4>2 DEF RanToHit, RanToEnd
        <5> QED BY <2>6, <5>1
      <4> QED BY <2>5, <3>2, <4>1, <4>2, ForwardCases
    <3> QED BY <2>3, <2>4, <2>7, <3>1, <3>2 DEF Running
  <2>8. CASE Quit
    BY <2>1, <2>8, QuitForks DEF SubprocessCap
  <2>9. CASE ~Running /\ ~Quit
    <3>1. CASE UNCHANGED vars
      <4>1. Forks' = Forks
        BY <3>1 DEF vars, Forks
      <4> QED BY <2>1, <3>1, <4>1 DEF SubprocessCap, vars, movement
    <3> QED BY <2>6, <2>9, <3>1, PausedKept
  <2> QED BY <2>7, <2>8, <2>9
<1>3. CapInv => (NoTicks => SubprocessCap)
  BY DEF CapInv
<1> QED BY <1>1, <1>2, <1>3, InvariantHolds, PTL DEF Spec
-----------------------------------------------------------------------------
(***************************************************************************)
(* What a window of a reverse search reports.                              *)
(***************************************************************************)

\* The hits in the part of the window that the run has gone through.
Seen == {g \in Hits : search.start <= g /\ g < active.time}

LatestSeen ==
  IF Seen = {} THEN call.latest = NoHit
  ELSE call.latest = [time |-> Max(Seen), watch |-> Max(Seen) \in WatchHits]

SearchInv ==
  /\ after \in {"search", "searched"} =>
       search.stop \in Times /\ search.start < search.stop
  /\ after = "searched" => search.start \in Times
  /\ Moving /\ after = "searched" =>
       /\ search.start <= active.time
       /\ active.time + call.steps <= search.stop
       /\ IF call.latest = NoHit
            THEN Seen = {} /\ active.time + call.steps = search.stop
            ELSE call.latest.time \in Window
       /\ NoTicks => active.time + call.steps = search.stop /\ LatestSeen
  /\ SearchedWindow =>
       /\ IF call.latest = NoHit THEN Window = {}
          ELSE call.latest.time \in Window
       /\ NoTicks => active.time = search.stop /\ LatestSeen

LEMMA JumpAfter ==
  ASSUME NEW target, NEW k, Jump(target, k)
  PROVE  after' \in {k, "done"}
BY DEF Jump, EnsureFrom, Resume, RaiseNone, Raise, Die, Continue, GoForward

LEMMA EnsureHereAfter ==
  ASSUME NEW uids, NEW k, EnsureHere(uids, k)
  PROVE  after' \in {k, "done"}
BY DEF EnsureHere, EnsureFrom, Resume, RaiseNone, Raise, Die, Continue,
       GoForward

\* The steps of a reverse search.
LEMMA StepsOfSearch ==
  ASSUME IInv, [Next]_vars, after' \in {"search", "searched"}
  PROVE  \/ BStep \/ SearchWindow \/ SearchFarther
         \/ Running \/ Crash \/ UNCHANGED vars
<1>1. ~(Go \/ Step \/ PrintCmd \/ Inspect \/ Break \/ Delete \/ Watch)
  <2>1. ~(Go \/ Step \/ Inspect)
    BY JumpAfter DEF Go, Step, Inspect, Recreate, Continue, GoForward
  <2>2. ~(PrintCmd \/ Watch)
    <3>1. ASSUME NEW uids, EnsureHere(uids, "print") \/ EnsureHere(uids, "watch")
          PROVE  FALSE
      BY <3>1, EnsureHereAfter
    <3>2. ~Raise("watch")
      BY DEF Raise, Die, Continue
    <3> QED BY <3>1, <3>2 DEF PrintCmd, Watch
  <2>3. ~(Break \/ Delete)
    BY DEF Break, Delete, Continue
  <2> QED BY <2>1, <2>2, <2>3
<1>2. ~Quit
  BY DEF Quit, Ask, IInv, Staged
<1>3. ~(StepOn \/ HitBreakpoints \/ PrintAnswer \/ WatchAnswer)
  BY JumpAfter DEF StepOn, HitBreakpoints, PrintAnswer, WatchAnswer, Recreate,
     Continue, GoForward
<1>4. ~(\/ Prompt \/ PromptMoved \/ PromptDied \/ PromptRestart
        \/ Interrupt \/ InterruptAgain)
  BY JumpAfter DEF Prompt, PromptMoved, PromptDied, PromptRestart, Show,
     Interrupt, InterruptAgain, Die, Arrived
<1> QED BY <1>1, <1>2, <1>3, <1>4 DEF Next, Command, Work, Running, Ended

\* Hits change with what is armed and with what the process knows.
LEMMA SameHits ==
  ASSUME active'.printed = active.printed, UNCHANGED <<armed, watchvalues>>
  PROVE  Hits' = Hits /\ WatchHits' = WatchHits
BY DEF Hits, WatchHits

\* A part of the run through the window, in mode "r".
LEMMA SearchRan ==
  ASSUME IInv, RunInv, SearchInv, Moving, after = "searched",
         NEW steps, Ran(steps), steps <= call.steps,
         UNCHANGED <<kept, search>>, call'.latest = Latest(Found(steps))
  PROVE  /\ search.start <= active'.time
         /\ active'.time <= active.time + steps
         /\ IF call'.latest = NoHit
              THEN Seen' = {} /\ active'.time = active.time + steps
              ELSE call'.latest.time \in Window'
         /\ NoTicks => active'.time = active.time + steps /\ LatestSeen'
<1>1. /\ active.time \in Nat /\ steps \in Nat /\ call.steps \in Nat
      /\ active'.time \in Nat /\ Total \in Nat
      /\ search.start \in Nat /\ search.stop \in Nat
      /\ Hits \subseteq Nat /\ \A g \in Hits : g <= Total
  <2>1. active' \in Process /\ steps \in Nat
    BY RanFacts DEF Ran
  <2>2. active'.time \in Nat
    BY <2>1, TimesNat DEF Process
  <2>3. search.start \in Nat /\ search.stop \in Nat
    BY TimesNat DEF SearchInv
  <2>4. Total \in Nat /\ \A g \in Gaps : g \in Nat /\ g <= Total
    BY TotalAssumption DEF Gaps
  <2> QED BY <2>1, <2>2, <2>3, <2>4, ActiveFacts, HitsType DEF Calls
<1>2. call.mode = "r"
  BY DEF RunInv, ModeOf
<1>3. /\ Hits' = Hits /\ WatchHits' = WatchHits /\ search' = search
  BY RanFacts, SameHits DEF kept
<1>4. /\ search.start <= active.time
      /\ active.time + call.steps <= search.stop
      /\ IF call.latest = NoHit THEN Seen = {}
         ELSE call.latest.time \in Window
      /\ NoTicks => LatestSeen
  BY DEF SearchInv
<1>5. /\ active'.time <= active.time + steps /\ active'.time >= active.time
      /\ ToEnter(steps) = {} => active'.time = active.time + steps
      /\ NoTicks => active'.time = active.time + steps
  BY <1>2, RanTimes
<1>6. /\ Window' = Window
      /\ Seen' = {g \in Hits : search.start <= g /\ g < active'.time}
      /\ Seen = {g \in Hits : search.start <= g /\ g < active.time}
  BY <1>3 DEF Window, Seen
<1>7. Seen' = Seen \cup Passed
  <2>1. ASSUME NEW g \in Hits
        PROVE  search.start <= g /\ g < active'.time
                 <=> \/ search.start <= g /\ g < active.time
                     \/ active.time <= g /\ g < active'.time
    BY <1>1, <1>4, <1>5
  <2> QED BY <1>6, <2>1 DEF Passed
<1>8. Passed \subseteq Window
  <2>1. ASSUME NEW g \in Hits, active.time <= g, g < active'.time
        PROVE  search.start <= g /\ g < search.stop
    <3>1. active'.time <= search.stop
      BY <1>1, <1>4, <1>5
    <3> QED BY <1>1, <1>4, <2>1, <3>1
  <2> QED BY <2>1 DEF Passed, Window
<1>9. CASE ToEnter(steps) = {}
  <2>1. Passed = {} /\ Found(steps) = NoHit
    BY <1>2, <1>9, FoundCases
  <2>2. call'.latest = call.latest /\ Seen' = Seen
    BY <1>7, <2>1 DEF Latest
  <2>3. LatestSeen => LatestSeen'
    BY <1>3, <2>2 DEF LatestSeen
  <2> QED BY <1>1, <1>4, <1>5, <1>6, <1>9, <2>2, <2>3
<1>10. CASE ToEnter(steps) # {}
  <2>1. /\ Passed # {} /\ Found(steps) # NoHit
        /\ Found(steps) = [time  |-> Max(Passed),
                           watch |-> Max(Passed) \in WatchHits]
        /\ Max(Passed) \in Passed
        /\ \A g \in Passed : g <= Max(Passed)
    BY <1>2, <1>10, FoundCases
  <2>2. call'.latest = Found(steps)
    BY <2>1 DEF Latest
  <2>3. call'.latest # NoHit /\ call'.latest.time \in Window'
    BY <1>6, <1>8, <2>1, <2>2
  <2>4. Max(Seen') = Max(Passed)
    <3> DEFINE seen == Seen'
               last == Max(Passed)
    <3>1. seen \in SUBSET Nat /\ seen # {} /\ \A g \in seen : g <= Total
      BY <1>1, <1>6, <1>7, <2>1
    <3>2. last \in seen /\ last \in Nat /\ \A g \in seen : g <= last
      <4>1. last \in Nat /\ last >= active.time /\ last \in seen
        BY <1>1, <1>7, <2>1 DEF Passed
      <4>2. ASSUME NEW g \in Seen PROVE g <= last
        BY <1>1, <1>6, <4>1
      <4> QED BY <1>7, <2>1, <4>1, <4>2
    <3> HIDE DEF seen, last
    <3>3. Max(seen) \in seen /\ \A g \in seen : g <= Max(seen)
      BY <1>1, <3>1, MaxOfTimes
    <3>4. Max(seen) = last
      <4>1. Max(seen) \in Nat /\ Max(seen) <= last /\ last <= Max(seen)
        BY <3>1, <3>2, <3>3
      <4> QED BY <3>2, <4>1
    <3> QED BY <3>4 DEF seen, last
  <2>5. LatestSeen'
    BY <1>3, <1>7, <2>1, <2>2, <2>4 DEF LatestSeen
  <2> QED BY <1>1, <1>4, <1>5, <2>3, <2>5
<1> QED BY <1>9, <1>10

LEMMA InitSearch == Init => SearchInv
BY DEF Init, SearchInv, Moving, SearchedWindow

\* No search is under way.
LEMMA NoSearchInv ==
  ASSUME after' \notin {"search", "searched"}
  PROVE  SearchInv'
BY DEF SearchInv, SearchedWindow

LEMMA RunningSearch ==
  ASSUME IInv, RunInv, SearchInv, Running, after' = "searched"
  PROVE  SearchInv'
<1>1. Moving /\ UNCHANGED <<kept, search>>
  BY DEF Running, ForwardToClone, CloneHere, CloneActive, ForwardLast, Moving
<1>2. CASE CloneHere \/ (CloneActive /\ ~active.closed)
  <2>1. UNCHANGED <<active, call, after>> /\ phase' \in {"forward", "clone"}
    BY <1>2 DEF CloneHere, CloneActive
  <2>2. Hits' = Hits /\ WatchHits' = WatchHits
    BY <1>1, <2>1, SameHits DEF kept
  <2>3. Seen' = Seen /\ Window' = Window /\ LatestSeen' = LatestSeen
    BY <1>1, <2>1, <2>2 DEF Seen, Window, LatestSeen
  <2> QED BY <1>1, <2>1, <2>3 DEF SearchInv, SearchedWindow, Moving, NoTicks
<1>3. CASE Raise(after)
  BY <1>3 DEF Raise, Die, Continue
<1>4. CASE RanToClone \/ RanToHit \/ RanToEnd
  <2>1. after = "searched" /\ call.mode = "r"
    BY <1>1, <1>4 DEF RanToClone, RanToHit, RanToEnd, Ran, RunInv, ModeOf
  <2>2. /\ search.stop \in Times /\ search.start < search.stop
        /\ search.start \in Times
        /\ active.time + call.steps <= search.stop
        /\ call.latest = NoHit => active.time + call.steps = search.stop
        /\ NoTicks => active.time + call.steps = search.stop
    BY <1>1, <2>1 DEF SearchInv
  <2>3. /\ active.time \in Nat /\ call.steps \in Nat /\ search.stop \in Nat
        /\ search.stop <= Total /\ Total \in Nat
    BY <2>2, TimesNat, ActiveFacts, TotalAssumption DEF Times, Calls
  <2>4. StepsLeft = call.steps
    BY <2>2, <2>3, StepsLeftIs
  <2>5. PICK steps : /\ Ran(steps) /\ steps <= call.steps
                     /\ call'.latest = Latest(Found(steps))
                     /\ \/ phase' = "return" /\ steps = call.steps
                        \/ phase' = "clone" /\ call'.steps = call.steps - steps
    BY <1>4, <2>1, <2>3, <2>4 DEF RanToClone, RanToHit, RanToEnd
  <2>6. /\ search.start <= active'.time
        /\ active'.time <= active.time + steps
        /\ IF call'.latest = NoHit
             THEN Seen' = {} /\ active'.time = active.time + steps
             ELSE call'.latest.time \in Window'
        /\ NoTicks => active'.time = active.time + steps /\ LatestSeen'
    BY <1>1, <2>1, <2>5, SearchRan
  <2>7. /\ active'.time \in Nat /\ steps \in Nat /\ search' = search
        /\ call'.latest = NoHit => call.latest = NoHit
    <3>1. active' \in Process /\ steps \in Nat
      BY <2>5, RanFacts DEF Ran
    <3> QED BY <1>1, <2>5, <3>1, TimesNat DEF Process, Latest
  <2>8. CASE phase' = "return"
    <3>1. call'.latest = NoHit => Window' = {}
      BY <2>2, <2>3, <2>5, <2>6, <2>7, <2>8 DEF Seen, Window
    <3> QED BY <2>2, <2>3, <2>5, <2>6, <2>7, <2>8, <3>1
         DEF SearchInv, SearchedWindow, Moving
  <2>9. CASE phase' = "clone"
    <3>1. call'.steps = call.steps - steps
      BY <2>5, <2>9
    <3>2. /\ active'.time + call'.steps <= search.stop
          /\ call'.latest = NoHit => active'.time + call'.steps = search.stop
          /\ NoTicks => active'.time + call'.steps = search.stop
      BY <2>2, <2>3, <2>6, <2>7, <3>1
    <3> QED BY <2>2, <2>6, <2>7, <2>9, <3>2
         DEF SearchInv, SearchedWindow, Moving
  <2> QED BY <2>5, <2>8, <2>9
<1>5. CASE CloneActive /\ active.closed
  BY <1>3, <1>5 DEF CloneActive
<1> QED BY <1>2, <1>3, <1>4, <1>5, ForwardCases DEF Running

LEMMA KeepsSearch ==
  ASSUME IInv, SearchInv, [Next]_vars
  PROVE  RunInv => SearchInv'
<1> SUFFICES ASSUME RunInv, after' \in {"search", "searched"} PROVE SearchInv'
  BY NoSearchInv
<1>1. active.time \in Nat /\ active.time \in Times
  BY ActiveFacts
<1>2. CASE BStep
  <2> DEFINE first == IF Armed # {} THEN WatchSearchSteps ELSE SearchSteps
  <2>1. first \in Nat /\ first >= 1
    BY GroupAssumption
  <2>2. after' = "search"
    BY <1>2, JumpAfter DEF BStep
  <2>3. search'.start = active.time - first /\ search'.stop = active.time
    <3>1. PICK n \in Args :
            IF armed = {} THEN Jump(active.time - n, "done")
            ELSE search' = [start |-> active.time - first,
                            stop  |-> active.time,
                            until |-> active.time - n]
      BY <1>2 DEF BStep
    <3> QED BY <2>2, <3>1, JumpAfter
  <2> HIDE DEF first
  <2> QED BY <1>1, <2>1, <2>2, <2>3 DEF SearchInv, SearchedWindow
<1>3. CASE SearchWindow
  <2>1. /\ after = "search" /\ active' = active /\ UNCHANGED kept
        /\ search' = [search EXCEPT !.start = active.time]
        /\ search.stop > active.time
        /\ GoForward(search.stop - active.time, "r", "searched")
    <3>1. search \in Searches /\ search.stop \in Int
      BY DEF IInv, TypeOK, Searches
    <3> QED BY <1>1, <1>3, <3>1 DEF SearchWindow, Back, Continue
  <2>2. search.stop \in Times /\ search.stop \in Nat /\ search \in Searches
    BY <2>1, TimesNat DEF SearchInv, IInv, TypeOK
  <2>3. search'.start = active.time /\ search'.stop = search.stop
    BY <2>1, <2>2 DEF Searches
  <2>4. /\ phase' = "forward" /\ after' = "searched" /\ call'.latest = NoHit
        /\ call'.steps = search.stop - active.time
    BY <2>1 DEF GoForward
  <2>5. Seen' = {}
    <3>1. Hits' \subseteq Nat
      BY <2>1, SameHits, HitsType, TotalAssumption DEF Gaps, kept
    <3> QED BY <1>1, <2>1, <2>3, <3>1 DEF Seen
  <2>6. active'.time + call'.steps = search'.stop
    BY <1>1, <2>1, <2>2, <2>3, <2>4
  <2> QED BY <1>1, <2>1, <2>2, <2>3, <2>4, <2>5, <2>6
       DEF SearchInv, SearchedWindow, LatestSeen
<1>4. CASE SearchFarther
  <2>1. /\ phase = "return" /\ after = "searched" /\ search' = Farther
        /\ after' = "search"
    BY <1>4, JumpAfter DEF SearchFarther, Back
  <2>2. search.start \in Times /\ search.stop \in Times
        /\ search.start < search.stop /\ search \in Searches
    BY <2>1 DEF SearchInv, IInv, TypeOK
  <2>3. search'.start = search.start - 3 * (search.stop - search.start)
        /\ search'.stop = search.start
    BY <2>1, <2>2 DEF Farther, FartherStart, Searches
  <2>4. search'.start < search'.stop /\ search'.stop \in Times
    <3>1. search.start \in Nat /\ search.stop \in Nat
      BY <2>2, TimesNat
    <3> QED BY <2>2, <2>3, <3>1
  <2> QED BY <2>1, <2>4 DEF SearchInv, SearchedWindow
<1>5. CASE Running
  <2>1. CASE after' = "searched"
    BY <1>5, <2>1, RunningSearch
  <2>2. CASE after' = "search"
    <3>1. after = "search" /\ search' = search
      BY <1>5, <2>2, ForwardCases DEF Running, CloneHere, CloneActive, Raise,
         Die, Continue, RanToClone, RanToHit, RanToEnd, Ran
    <3> QED BY <2>2, <3>1 DEF SearchInv, SearchedWindow
  <2> QED BY <2>1, <2>2
<1>6. CASE Crash \/ UNCHANGED vars
  <2>1. /\ UNCHANGED <<kept, phase, call, search, after>>
        /\ active'.time = active.time /\ active'.printed = active.printed
    BY <1>6, ActiveFacts DEF Crash, vars, kept, movement, Close, Process
  <2>2. Hits' = Hits /\ WatchHits' = WatchHits
    BY <2>1, SameHits DEF kept
  <2>3. Seen' = Seen /\ Window' = Window /\ LatestSeen' = LatestSeen
    BY <2>1, <2>2 DEF Seen, Window, LatestSeen
  <2> QED BY <2>1, <2>3 DEF SearchInv, SearchedWindow, Moving
<1> QED BY <1>2, <1>3, <1>4, <1>5, <1>6, StepsOfSearch

\* What is known of the windows holds in every behaviour.
THEOREM SearchHolds == Spec => []SearchInv
<1>1. Init => SearchInv
  BY InitSearch
<1>2. IInv /\ RunInv /\ SearchInv /\ [Next]_vars => SearchInv'
  BY KeepsSearch
<1> QED BY <1>1, <1>2, InvariantHolds, RunsReachGoal, PTL DEF Spec

(***************************************************************************)
(* A reverse search never misses a window in which there is a hit, however *)
(* a progress tick or a clone time cuts the run through the window, and    *)
(* what it reports is a hit in that window.                                *)
(***************************************************************************)
THEOREM WindowsMissNothing == Spec => []SearchFindsSome
<1>1. SearchInv => SearchFindsSome
  BY DEF SearchInv, SearchFindsSome, SearchedWindow
<1> QED BY <1>1, SearchHolds, PTL

(***************************************************************************)
(* As long as the progress display does not cut a run into parts, it is    *)
(* the last hit in the window, as the comment in                           *)
(* _backward_search_forward() says.                                        *)
(***************************************************************************)
THEOREM WindowsFindLast == Spec => [](NoTicks => SearchFindsLast)
<1>1. SearchInv => (NoTicks => SearchFindsLast)
  <2> SUFFICES ASSUME SearchInv, NoTicks, SearchedWindow
               PROVE  call.latest.time = IF Window = {} THEN 0 ELSE Max(Window)
    BY DEF SearchFindsLast
  <2>1. active.time = search.stop /\ LatestSeen
    BY DEF SearchInv
  <2>2. Seen = Window
    BY <2>1 DEF Seen, Window
  <2> QED BY <2>1, <2>2 DEF LatestSeen, NoHit
<1> QED BY <1>1, SearchHolds, PTL
-----------------------------------------------------------------------------
(***************************************************************************)
(* No exception ends the debugger, where nobody presses Ctrl-C and no      *)
(* process dies.                                                           *)
(***************************************************************************)
Undisturbed == ~Interrupts /\ ~Crashes

\* The only fork that may be closed is one that is about to be made again.
AliveInv ==
  Undisturbed =>
    /\ phase # "died"
    /\ phase # "exited" =>
         /\ ~active.closed
         /\ \A t \in Forks : paused[t].closed =>
                               phase = "clone" /\ t = active.time

\* A step that leaves the forks alone, outside of go_forward().
LEMMA LivesOn ==
  ASSUME paused' = paused, AliveForks, ~active'.closed, phase' # "died"
  PROVE  AliveInv'
BY DEF AliveInv, AliveForks, Forks

LEMMA JumpLives ==
  ASSUME IInv, phase # "exited", AliveForks, paused' = paused,
         NEW target \in Int, NEW k, Jump(target, k)
  PROVE  AliveInv'
<1>1. Resumed(Clamp(target), k, WatchUids)
  BY JumpCases
<1> QED BY <1>1, LivesOn DEF Resumed

LEMMA EnsureHereLives ==
  ASSUME IInv, phase # "exited", AliveForks, paused' = paused, ~active.closed,
         NEW uids \in SUBSET Numbered, NEW k, EnsureHere(uids, k)
  PROVE  AliveInv'
<1>1. CASE Missing(active, uids) = {}
  BY <1>1, LivesOn DEF EnsureHere, Continue
<1>2. CASE Missing(active, uids) # {}
  <2>1. Resumed(active.time, k, uids)
    BY <1>2, EnsureHereCases
  <2> QED BY <2>1, LivesOn DEF Resumed
<1> QED BY <1>1, <1>2

LEMMA RunningLives ==
  ASSUME IInv, AliveInv, Undisturbed, Running
  PROVE  AliveInv'
<1>1. /\ phase \in {"forward", "clone"} /\ ~active.closed /\ ~active.tainted
      /\ \A t \in Forks : paused[t].closed => phase = "clone" /\ t = active.time
  BY DEF AliveInv, Running, ForwardToClone, CloneHere, CloneActive,
     ForwardLast, IInv, Unmoved
<1>2. CASE CloneHere
  <2>1. phase = "forward" /\ phase' = "clone" /\ active' = active /\ ToClone = 0
    BY <1>2 DEF CloneHere
  <2>2. NextCloneTime = active.time
    <3>1. NextCloneTime \in Nat /\ active.time \in Nat
      BY <2>1, NextCloneTimeFacts, ActiveFacts
    <3> QED BY <2>1, <3>1 DEF ToClone
  <2>3. paused' = paused
    BY <1>2, <2>1, <2>2, NextCloneTimeFacts DEF CloneHere
  <2> QED BY <1>1, <2>1, <2>3 DEF AliveInv, Forks
<1>3. CASE CloneActive
  <2> DEFINE t    == active.time
             fork == Clone(active)
  <2>1. /\ paused' = [paused EXCEPT ![t] = fork] /\ active' = active
        /\ phase' = "forward"
    BY <1>1, <1>3 DEF CloneActive
  <2>2. /\ t \in Times /\ ~fork.closed
        /\ paused \in [Times -> Process \cup {NoProcess}]
    BY <1>1, ActiveFacts, CloneType DEF IInv, TypeOK
  <2> HIDE DEF fork
  <2>3. ASSUME NEW s \in Forks' PROVE ~paused'[s].closed
    <3>1. CASE s = t
      BY <2>1, <2>2, <3>1
    <3>2. CASE s # t
      BY <1>1, <2>1, <2>2, <3>2 DEF Forks
    <3> QED BY <3>1, <3>2
  <2> QED BY <1>1, <2>1, <2>3 DEF AliveInv
<1>4. CASE RanToClone /\ phase = "forward"
  <2> DEFINE t == active'.time
  <2>1. /\ phase' = "clone" /\ ~active'.closed
        /\ paused' = IF t \in Forks THEN [paused EXCEPT ![t] = Close(@)]
                     ELSE paused
    BY <1>1, <1>4, RanFacts DEF RanToClone
  <2>2. ASSUME NEW s \in Forks', paused'[s].closed PROVE s = active'.time
    <3> SUFFICES ASSUME s # t PROVE FALSE
      OBVIOUS
    <3>1. paused'[s] = paused[s] /\ s \in Forks
      BY <2>1 DEF Forks, IInv, TypeOK
    <3> QED BY <1>1, <1>4, <2>2, <3>1
  <2>3. phase' = "clone" /\ ~active'.closed
    BY <2>1
  <2> HIDE DEF t
  <2> QED BY <2>2, <2>3 DEF AliveInv
<1>5. CASE (RanToHit \/ RanToEnd) /\ phase = "forward"
  <2>1. phase' = "return" /\ ~active'.closed /\ paused' = paused
    BY <1>1, <1>5, RanFacts DEF RanToHit, RanToEnd
  <2> QED BY <1>1, <1>5, <2>1, LivesOn DEF AliveForks
<1> QED BY <1>1, <1>2, <1>3, <1>4, <1>5, ForwardCases DEF Running

LEMMA KeepsAlive ==
  ASSUME IInv, AliveInv, [Next]_vars
  PROVE  AliveInv'
<1> SUFFICES ASSUME Undisturbed PROVE AliveInv'
  BY DEF AliveInv, Undisturbed
<1>1. CASE Running
  BY <1>1, RunningLives
<1>2. CASE Quit
  BY <1>2 DEF Quit, AliveInv
<1>3. CASE UNCHANGED vars
  <2>1. Forks' = Forks
    BY <1>3 DEF Forks, vars
  <2> QED BY <1>3, <2>1 DEF AliveInv, vars, movement
<1>4. CASE Command /\ ~Quit
  <2>1. phase = "prompt" /\ paused' = paused
    BY <1>4, PausedKept DEF Command, Go, Step, BStep, PrintCmd, Inspect,
       Break, Delete, Watch, Ask
  <2>2. AliveForks /\ ~active.closed
    BY <2>1 DEF AliveInv, AliveForks
  <2>3. active.time \in Int /\ Taint(active).closed = active.closed
    BY ActiveFacts DEF Taint, Process
  <2>4. CASE Go
    BY <2>1, <2>2, <2>4, ArgsNat, JumpLives DEF Go
  <2>5. CASE Step
    BY <2>1, <2>2, <2>3, <2>5, JumpLives, LivesOn DEF Step, GoForward
  <2>6. CASE BStep
    <3> DEFINE first == IF Armed # {} THEN WatchSearchSteps ELSE SearchSteps
    <3>1. PICK n \in Args :
            IF armed = {}
              THEN Jump(active.time - n, "done")
              ELSE /\ search' = [start |-> active.time - first,
                                 stop  |-> active.time,
                                 until |-> active.time - n]
                   /\ Jump(Max({search'.start, active.time - n}), "search")
      BY <2>6 DEF BStep
    <3>2. first \in Int /\ n \in Int
      BY ArgsNat, GroupAssumption
    <3> HIDE DEF first
    <3>3. active.time - n \in Int /\ active.time - first \in Int
      BY <2>3, <3>2
    <3>4. CASE armed = {}
      BY <2>1, <2>2, <3>1, <3>3, <3>4, JumpLives
    <3>5. CASE armed # {}
      <4>1. search'.start \in Int
        BY <3>1, <3>3, <3>5
      <4>2. Max({search'.start, active.time - n}) \in Int
        BY <3>3, <4>1, MaxOfTwo
      <4> QED BY <2>1, <2>2, <3>1, <3>5, <4>2, JumpLives
    <3> QED BY <3>4, <3>5
  <2>7. CASE PrintCmd
    BY <2>1, <2>2, <2>7, EnsureHereLives DEF PrintCmd, Alive
  <2>8. CASE Inspect
    BY <2>1, <2>2, <2>3, <2>8, JumpLives, LivesOn DEF Inspect, Recreate, Continue
  <2>9. CASE Break \/ Delete
    BY <2>1, <2>2, <2>9, LivesOn DEF Break, Delete, Continue
  <2>10. CASE Watch
    <3>1. PICK w : EnsureHere(Needs[w] \cap Alive(active.time), "watch")
      BY <2>2, <2>10 DEF Watch
    <3>2. Needs[w] \cap Alive(active.time) \in SUBSET Numbered
      BY DEF Alive
    <3> QED BY <2>1, <2>2, <3>1, <3>2, EnsureHereLives
  <2> QED BY <1>4, <2>4, <2>5, <2>6, <2>7, <2>8, <2>9, <2>10 DEF Command
<1>5. CASE \/ StepOn \/ HitBreakpoints \/ SearchWindow \/ SearchFarther
           \/ PrintAnswer \/ WatchAnswer
  <2>1. phase = "return" /\ paused' = paused
    BY <1>5 DEF StepOn, HitBreakpoints, SearchWindow, SearchFarther,
       PrintAnswer, WatchAnswer, Back
  <2>2. AliveForks /\ ~active.closed
    BY <2>1 DEF AliveInv, AliveForks
  <2>3. CASE StepOn \/ SearchWindow \/ WatchAnswer
    BY <2>1, <2>2, <2>3, LivesOn DEF StepOn, SearchWindow, WatchAnswer,
       GoForward, Continue
  <2>4. CASE HitBreakpoints
    <3>1. HitTime \in Int
      BY DEF HitTime, IInv, TypeOK, Calls, Reports
    <3> QED BY <2>1, <2>2, <2>4, <3>1, LivesOn, JumpLives
         DEF HitBreakpoints, Continue
  <2>5. CASE SearchFarther
    <3>1. search.start \in Int /\ search.stop \in Int /\ search.until \in Int
          /\ search' = Farther /\ search \in Searches
      BY <2>5 DEF SearchFarther, IInv, TypeOK, Searches
    <3>2. search'.start \in Int /\ search'.until \in Int
      BY <3>1 DEF Farther, FartherStart, Searches
    <3> QED BY <2>1, <2>2, <2>5, <3>1, <3>2, MaxOfTwo, JumpLives
         DEF SearchFarther, Farther, Searches
  <2>6. CASE PrintAnswer
    <3>1. CASE Jump(active.time, "recreate")
      BY <2>1, <2>2, <3>1, ActiveFacts, JumpLives
    <3>2. ASSUME NEW found,
                 active' = [Taint(active) EXCEPT !.printed = @ \cup found],
                 Continue("done")
          PROVE  AliveInv'
      <4>1. ~active'.closed
        BY <2>2, <3>2, ActiveFacts DEF Taint, Process
      <4> QED BY <2>1, <2>2, <3>2, <4>1, LivesOn DEF Continue
    <3> QED BY <2>2, <2>6, <3>1, <3>2 DEF PrintAnswer, Recreate
  <2> QED BY <1>5, <2>3, <2>4, <2>5, <2>6
<1>6. CASE Prompt \/ PromptMoved \/ PromptDied \/ PromptRestart
  <2>1. phase = "return" /\ ~active.closed /\ AliveForks
    BY <1>6 DEF Prompt, PromptMoved, PromptDied, PromptRestart, Arrived,
       AliveInv, AliveForks
  <2> QED BY <1>6, <2>1, LivesOn DEF Prompt, PromptMoved, PromptDied,
       PromptRestart, Show
<1>7. ~(Interrupt \/ InterruptAgain \/ Crash)
  BY DEF Interrupt, InterruptAgain, Crash, Undisturbed
<1>8. CASE Ended
  BY <1>3, <1>8 DEF Ended
<1> QED BY <1>1, <1>2, <1>3, <1>4, <1>5, <1>6, <1>7, <1>8
     DEF Next, Work, Running

\* The forks are alive in every behaviour that is not disturbed.
THEOREM ForksStayAlive == Spec => []AliveInv
<1>1. Init => AliveInv
  <2> SUFFICES ASSUME Init PROVE AliveInv
    OBVIOUS
  <2>1. FirstProcess \in Process /\ ~FirstProcess.closed
    BY FirstProcessType DEF FirstProcess
  <2>2. ~Clone(FirstProcess).closed
    BY <2>1, CloneType
  <2>3. \A t \in Forks : t = 1 /\ ~paused[t].closed
    BY <2>2 DEF Init, Forks
  <2> QED BY <2>1, <2>3 DEF Init, AliveInv
<1>2. IInv /\ AliveInv /\ [Next]_vars => AliveInv'
  BY KeepsAlive
<1> QED BY <1>1, <1>2, InvariantHolds, PTL DEF Spec

(***************************************************************************)
(* Where nobody presses Ctrl-C and no process dies, no exception ends the  *)
(* debugger: ensure_printed_objects() always finds a fork, and the fork it *)
(* finds, like the active process, is alive.                               *)
(***************************************************************************)
THEOREM NothingKills == Spec => [](Undisturbed => NeverDies)
<1>1. AliveInv => (Undisturbed => NeverDies)
  BY DEF AliveInv, NeverDies
<1> QED BY <1>1, ForksStayAlive, PTL
=============================================================================
