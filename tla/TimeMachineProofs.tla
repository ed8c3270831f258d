------------------------- MODULE TimeMachineProofs -------------------------
(***************************************************************************)
(* The proof that ReplayGroup implements TimeMachine: each command shows   *)
(* the user the time that its definition gives.  On the way, that a        *)
(* process knows the objects of the watchpoint in each run that looks for  *)
(* hits, and that step ends where it should.                               *)
(*                                                                         *)
(* Where watchpoints mention objects, this is said of one watchpoint at a  *)
(* time and of processes that do not die: with two, the command that sets  *)
(* the second one resumes a fork for its objects only.                     *)
(***************************************************************************)
EXTENDS ReplayRunProofs

Objectless == \A w \in Watches : Needs[w] = {}

Plain == Objectless \/ (~Crashes /\ MaxWatched <= 1)

Gone == phase \in {"died", "exited"}

-----------------------------------------------------------------------------
(***************************************************************************)
(* The objects of the watchpoint.                                          *)
(***************************************************************************)

OneArmed ==
  Objectless \/ /\ \A u, v \in Armed : u = v
                /\ after = "watch" => Armed = {}

\* A process whose socket is dead is not moved, except in vain by "step".
ClosedWhere ==
  active.closed =>
    \/ Gone \/ phase = "prompt"
    \/ Moving /\ (after = "stepped" \/ Crashes)
    \/ phase = "return" /\ after \in {"done", "print"}

\* The process that print_cmd() resumes knows the printed objects only.
Knows == \/ Gone \/ active.tainted \/ after = "print"
         \/ WatchUids \subseteq active.printed

WatchKnows ==
  after = "watch" =>
    Needs[request.arg] \cap Alive(previous_time) \subseteq active.printed

ObjectsInv ==
  Plain => OneArmed /\ ClosedWhere /\ Knows /\ WatchKnows

\* What the steps have in common that leave the watchpoints alone.
LEMMA SameWatches ==
  ASSUME armed' = armed
  PROVE  /\ Armed' = Armed /\ WatchUids' = WatchUids
         /\ OneArmed /\ after' # "watch" => OneArmed'
BY DEF Armed, WatchUids, OneArmed

\* The debugger stops, or an exception stops a command.
LEMMA GoneObjects ==
  ASSUME armed' = armed, ObjectsInv,
         phase' \in {"died", "exited"}, after' # "watch"
  PROVE  ObjectsInv'
<1> SUFFICES ASSUME Plain PROVE ObjectsInv'
  BY DEF ObjectsInv, Plain
<1> QED BY SameWatches DEF ObjectsInv, ClosedWhere, Knows, WatchKnows, Gone

LEMMA FailedObjects ==
  ASSUME IInv, armed' = armed, ObjectsInv, ~Gone, NEW k, Failed(k),
         \/ phase' = "died"
         \/ active.tainted \/ WatchUids \subseteq active.printed
  PROVE  ObjectsInv'
<1>1. CASE phase' = "died"
  BY <1>1, GoneObjects DEF Failed, RaiseNone, Raise, Die, Continue
<1>2. CASE phase' # "died"
  <2> SUFFICES ASSUME Plain PROVE ObjectsInv'
    BY DEF ObjectsInv, Plain
  <2>1. phase' = "return" /\ after' = "done"
    BY <1>2 DEF Failed, RaiseNone, Raise, Die, Continue
  <2>2. active'.tainted = active.tainted /\ active'.printed = active.printed
    BY ActiveFacts DEF Failed, Close, Process
  <2> QED BY <1>2, <2>1, <2>2, SameWatches
       DEF ObjectsInv, ClosedWhere, Knows, WatchKnows, Gone
<1> QED BY <1>1, <1>2

\* Without a process to show, the debugger ends.
LEMMA JumpDies ==
  ASSUME NEW target, NEW k \in {"recreate", "recover", "restart"},
         Jump(target, k)
  PROVE  phase' \in {"forward", "died"} /\ after' = k
BY DEF Jump, EnsureFrom, Resume, RaiseNone, Raise, Die, GoForward

LEMMA JumpObjects ==
  ASSUME IInv, armed' = armed, ObjectsInv, ~Gone, NEW target \in Int, NEW k, k # "watch", Jump(target, k),
         \/ k \in {"recreate", "recover", "restart"}
         \/ active.tainted \/ WatchUids \subseteq active.printed
  PROVE  ObjectsInv'
<1>1. CASE Failed(k)
  <2>1. phase' # "forward"
    BY <1>1 DEF Failed, RaiseNone, Raise, Die, Continue
  <2> QED BY <1>1, <2>1, FailedObjects, JumpDies
<1>2. CASE Resumed(Clamp(target), k, WatchUids)
  <2> SUFFICES ASSUME Plain PROVE ObjectsInv'
    BY DEF ObjectsInv, Plain
  <2>1. ~active'.closed /\ WatchUids \subseteq active'.printed /\ after' = k
    BY <1>2 DEF Resumed
  <2> QED BY <2>1, SameWatches
       DEF ObjectsInv, ClosedWhere, Knows, WatchKnows
<1> QED BY <1>1, <1>2, JumpCases DEF Gone

\* A step that does not look for a fork; the process may learn objects.
LEMMA HereObjects ==
  ASSUME armed' = armed, ObjectsInv, ~Gone, after' # "watch",
         active'.closed => \/ phase' = "prompt"
                           \/ phase' \in {"forward", "clone"} /\ after' = "stepped"
                           \/ phase' = "return" /\ after' \in {"done", "print"},
         \/ active'.tainted \/ after' = "print"
         \/ WatchUids \subseteq active'.printed
  PROVE  ObjectsInv'
<1> SUFFICES ASSUME Plain PROVE ObjectsInv'
  BY DEF ObjectsInv, Plain
<1> QED BY SameWatches DEF ObjectsInv, ClosedWhere, Knows, WatchKnows, Moving

LEMMA InitObjects == Init => ObjectsInv
BY DEF Init, ObjectsInv, OneArmed, ClosedWhere, Knows, WatchKnows, Armed, WatchUids

LEMMA ObjectlessUids ==
  ASSUME Objectless
  PROVE  WatchUids = {}
BY DEF Objectless, WatchUids, Armed

\* At most one watchpoint is set, and none while one is being added.
LEMMA NoneArmed ==
  ASSUME IInv, Plain, ~Objectless, OneArmed, Cardinality(Armed) < MaxWatched
  PROVE  Armed = {}
<1> SUFFICES ASSUME Armed # {} PROVE FALSE
  OBVIOUS
<1>1. PICK w \in Armed : TRUE
  OBVIOUS
<1>2. Armed = {w}
  BY <1>1 DEF OneArmed
<1>3. Cardinality(Armed) = 1
  BY <1>2, FS_Singleton
<1> QED BY <1>3, GroupAssumption DEF Plain

LEMMA CommandObjects ==
  ASSUME IInv, RunInv, ObjectsInv, Command
  PROVE  ObjectsInv'
<1> SUFFICES ASSUME Plain PROVE ObjectsInv'
  BY DEF ObjectsInv, Plain
<1>1. /\ phase = "prompt" /\ after = "done" /\ previous_time' = previous_time
      /\ active.time = previous_time /\ ~Gone /\ phase # "exited"
  BY DEF Command, Go, Step, BStep, PrintCmd, Inspect, Break, Delete, Watch,
     Quit, Ask, RunInv, IInv, Staged, Gone
<1>2. active.tainted \/ WatchUids \subseteq active.printed
  BY <1>1 DEF ObjectsInv, Knows
<1>3. active.time \in Int
  BY ActiveFacts
<1>4. CASE Go
  BY <1>1, <1>2, <1>4, ArgsNat, JumpObjects DEF Go, kept
<1>5. CASE Step
  BY <1>1, <1>2, <1>3, <1>5, JumpObjects, HereObjects DEF Step, GoForward, kept
<1>6. CASE BStep
  <2> DEFINE first == IF Armed # {} THEN WatchSearchSteps ELSE SearchSteps
  <2>1. PICK n \in Args :
          IF armed = {}
            THEN Jump(active.time - n, "done")
            ELSE /\ search' = [start |-> active.time - first,
                               stop  |-> active.time,
                               until |-> active.time - n]
                 /\ Jump(Max({search'.start, active.time - n}), "search")
    BY <1>6 DEF BStep
  <2>2. first \in Int /\ n \in Int /\ UNCHANGED kept
    BY <1>6, ArgsNat, GroupAssumption DEF BStep
  <2> HIDE DEF first
  <2>3. active.time - n \in Int /\ active.time - first \in Int
    BY <1>3, <2>2
  <2>4. CASE armed = {}
    BY <1>1, <1>2, <2>1, <2>2, <2>3, <2>4, JumpObjects DEF kept
  <2>5. CASE armed # {}
    <3>1. search'.start \in Int
      BY <2>1, <2>3, <2>5
    <3>2. Max({search'.start, active.time - n}) \in Int
      BY <2>3, <3>1, MaxOfTwo
    <3> QED BY <1>1, <1>2, <2>1, <2>2, <2>5, <3>2, JumpObjects DEF kept
  <2> QED BY <2>4, <2>5
<1>7. CASE PrintCmd
  <2>1. PICK uids \in SUBSET objects :
          EnsureHere(uids \cap Alive(active.time), "print")
    BY <1>7 DEF PrintCmd
  <2> DEFINE used == uids \cap Alive(active.time)
  <2>2. used \in SUBSET Numbered /\ UNCHANGED kept
    BY <1>7 DEF Alive, PrintCmd
  <2>3. EnsureHere(used, "print")
    BY <2>1
  <2> HIDE DEF used
  <2>4. CASE Continue("print") /\ active' = active
    BY <1>1, <2>2, <2>4, HereObjects DEF Continue, kept
  <2>5. CASE Resumed(active.time, "print", used)
    BY <1>1, <2>2, <2>5, HereObjects DEF Resumed, kept
  <2>6. CASE Failed("print")
    BY <1>1, <1>2, <2>2, <2>6, FailedObjects DEF kept
  <2> QED BY <1>1, <2>2, <2>3, <2>4, <2>5, <2>6, EnsureHereCases
<1>8. CASE Inspect
  <2>1. UNCHANGED kept
    BY <1>8 DEF Inspect
  <2>2. CASE active' = Taint(active) /\ Continue("done")
    <3>1. active'.tainted
      BY <2>2, ActiveFacts, TaintType
    <3> QED BY <1>1, <2>1, <2>2, <3>1, HereObjects DEF Continue, kept
  <2>3. CASE Jump(active.time, "recreate")
    BY <1>1, <1>3, <2>1, <2>3, JumpObjects DEF kept
  <2> QED BY <1>8, <2>2, <2>3 DEF Inspect, Recreate
<1>9. CASE Break
  <2>1. /\ Armed' = Armed /\ watchvalues' = watchvalues /\ active' = active
        /\ Continue("done")
    <3>1. PICK b \in Breaks : armed' \in {armed, armed \cup {b}}
      BY <1>9 DEF Break
    <3>2. b \notin Watches
      BY StopsAssumption
    <3> QED BY <1>9, <3>1, <3>2 DEF Break, Armed
  <2>2. WatchUids' = WatchUids
    BY <2>1 DEF WatchUids
  <2> QED BY <1>1, <2>1, <2>2 DEF ObjectsInv, Continue, OneArmed, ClosedWhere,
       Knows, WatchKnows, Gone
<1>10. CASE Delete
  <2>1. PICK x \in armed : armed' = armed \ {x}
    BY <1>10 DEF Delete
  <2>2. Armed' = Armed \ {x}
    BY <2>1 DEF Armed
  <2>3. WatchUids' \subseteq WatchUids
    BY <2>2 DEF WatchUids
  <2>4. active' = active /\ Continue("done")
    BY <1>10 DEF Delete
  <2> QED BY <1>1, <2>2, <2>3, <2>4 DEF ObjectsInv, Continue, OneArmed,
       ClosedWhere, Knows, WatchKnows, Gone
<1>11. CASE Watch
  <2>1. PICK w \in Watches \ armed :
          /\ Cardinality(Armed) < MaxWatched
          /\ request' = [op |-> "arm", arg |-> w]
          /\ IF active.closed THEN Raise("watch") /\ active' = active
             ELSE EnsureHere(Needs[w] \cap Alive(active.time), "watch")
    BY <1>11 DEF Watch, Ask
  <2>2. Objectless \/ Armed = {}
    BY <2>1, NoneArmed DEF ObjectsInv
  <2> DEFINE used == Needs[w] \cap Alive(active.time)
  <2>3. used \in SUBSET Numbered /\ UNCHANGED kept /\ request'.arg = w
    BY <1>11, <2>1 DEF Alive, Watch
  <2>4. used = Needs[request'.arg] \cap Alive(previous_time')
    BY <1>1, <2>3
  <2> HIDE DEF used
  <2>5. WatchUids = {}
    BY <2>2, ObjectlessUids DEF WatchUids
  <2>6. CASE Raise("watch") /\ active' = active
    BY <1>1, <1>2, <2>3, <2>6, HereObjects DEF Raise, Continue, kept
  <2>7. CASE ~active.closed /\ EnsureHere(used, "watch")
    <3>1. CASE Failed("watch")
      BY <1>1, <1>2, <2>3, <3>1, FailedObjects DEF kept
    <3>2. ASSUME ~active'.closed, used \subseteq active'.printed, after' = "watch"
          PROVE  ObjectsInv'
      <4>1. /\ Armed' = Armed /\ WatchUids' = {}
            /\ Objectless \/ Armed' = {}
        BY <1>1, <2>2, <2>3, <2>5, SameWatches DEF kept
      <4> QED BY <2>4, <3>2, <4>1 DEF ObjectsInv, OneArmed, ClosedWhere,
           Knows, WatchKnows
    <3>3. CASE Missing(active, used) = {} /\ Continue("watch") /\ active' = active
      <4>1. \A u \in used : u < Created[active.time]
        BY DEF used, Alive
      <4>2. used \subseteq active.printed
        BY <3>3, <4>1 DEF Missing
      <4> QED BY <2>7, <3>2, <3>3, <4>2 DEF Continue
    <3>4. CASE Resumed(active.time, "watch", used)
      BY <3>2, <3>4 DEF Resumed
    <3> QED BY <1>1, <2>3, <2>7, <3>1, <3>3, <3>4, EnsureHereCases
  <2> QED BY <2>1, <2>6, <2>7 DEF used
<1>12. CASE Quit
  BY <1>1, <1>12, GoneObjects DEF Quit, kept
<1> QED BY <1>4, <1>5, <1>6, <1>7, <1>8, <1>9, <1>10, <1>11, <1>12 DEF Command

LEMMA RunningObjects ==
  ASSUME IInv, ObjectsInv, Running
  PROVE  ObjectsInv'
<1> SUFFICES ASSUME Plain PROVE ObjectsInv'
  BY DEF ObjectsInv, Plain
<1>1. /\ Moving /\ UNCHANGED <<kept, request, previous_time>> /\ ~active.tainted
      /\ ~Gone
  BY DEF Running, ForwardToClone, CloneHere, CloneActive, ForwardLast, Moving,
     IInv, Unmoved, Gone
<1>2. ClosedWhere /\ Knows /\ WatchKnows /\ OneArmed
  BY DEF ObjectsInv
<1>3. active.closed => after = "stepped" \/ Crashes
  BY <1>1, <1>2 DEF ClosedWhere, Moving, Gone
<1>4. CASE active.closed /\ Raise(after) /\ active' = active
  <2>1. WatchUids \subseteq active.printed
    BY <1>1, <1>2, <1>3, <1>4, ObjectlessUids DEF Knows, Plain
  <2>2. Failed(after)
    BY <1>4 DEF Failed
  <2> QED BY <1>1, <2>1, <2>2, FailedObjects DEF kept
<1>5. CASE /\ active'.printed = active.printed
           /\ active'.closed = active.closed
           /\ active'.tainted = active.tainted
           /\ after' = after
           /\ \/ phase' \in {"forward", "clone"}
              \/ phase' = "return" /\ ~active.closed
  <2>1. Armed' = Armed /\ WatchUids' = WatchUids
    BY <1>1, <1>2, SameWatches DEF kept
  <2> QED BY <1>1, <1>2, <1>3, <1>5, <2>1 DEF ObjectsInv, OneArmed,
       ClosedWhere, Knows, WatchKnows, Moving, Gone
<1>6. CASE CloneHere \/ (CloneActive /\ ~active.closed)
  BY <1>5, <1>6 DEF CloneHere, CloneActive
<1>7. CASE CloneActive /\ active.closed
  BY <1>4, <1>7 DEF CloneActive
<1>8. CASE RanToClone \/ RanToHit \/ RanToEnd
  <2>1. PICK steps : Ran(steps)
    BY <1>8 DEF RanToClone, RanToHit, RanToEnd
  <2>2. /\ active'.printed = active.printed /\ active'.closed = active.closed
        /\ active'.tainted = active.tainted /\ after' = after /\ ~active.closed
    BY <2>1, RanFacts DEF Ran
  <2>3. phase' \in {"clone", "return"}
    BY <1>8 DEF RanToClone, RanToHit, RanToEnd
  <2> QED BY <1>5, <2>2, <2>3
<1> QED BY <1>4, <1>6, <1>7, <1>8, ForwardCases DEF Running

LEMMA BackObjects ==
  ASSUME IInv, RunInv, ObjectsInv,
         \/ StepOn \/ HitBreakpoints \/ SearchWindow \/ SearchFarther
         \/ PrintAnswer \/ WatchAnswer
  PROVE  ObjectsInv'
<1> SUFFICES ASSUME Plain PROVE ObjectsInv'
  BY DEF ObjectsInv, Plain
<1>1. /\ phase = "return" /\ previous_time' = previous_time /\ ~Gone
      /\ phase # "exited"
  BY DEF StepOn, HitBreakpoints, SearchWindow, SearchFarther, PrintAnswer,
     WatchAnswer, Back, Gone
<1>2. ClosedWhere /\ Knows /\ WatchKnows /\ OneArmed
  BY DEF ObjectsInv
<1>3. after \notin {"done", "print"} => ~active.closed
  BY <1>1, <1>2 DEF ClosedWhere, Moving
<1>4. after \notin {"done", "print"} =>
        active.tainted \/ WatchUids \subseteq active.printed
  BY <1>1, <1>2 DEF Knows
<1>5. active.time \in Int
  BY ActiveFacts
<1>6. CASE StepOn
  BY <1>1, <1>3, <1>4, <1>6, HereObjects DEF StepOn, Back, GoForward, kept
<1>7. CASE HitBreakpoints
  <2>1. after \in {"stepped", "searched"} /\ UNCHANGED kept
    BY <1>7 DEF HitBreakpoints, Back
  <2>2. HitTime \in Int
    BY DEF HitTime, IInv, TypeOK, Calls, Reports
  <2>3. CASE Continue("done") /\ active' = active
    BY <1>1, <1>3, <1>4, <2>1, <2>3, HereObjects DEF Continue, kept
  <2>4. CASE Jump(HitTime, "done")
    BY <1>1, <1>4, <2>1, <2>2, <2>4, JumpObjects DEF kept
  <2> QED BY <1>7, <2>3, <2>4 DEF HitBreakpoints
<1>8. CASE SearchWindow
  BY <1>1, <1>3, <1>4, <1>8, HereObjects DEF SearchWindow, Back, GoForward,
     Continue, kept
<1>9. CASE SearchFarther
  <2>1. /\ after = "searched" /\ UNCHANGED kept
        /\ search \in Searches /\ search' = Farther
        /\ Jump(Max({search'.start, search.until}), "search")
    BY <1>9 DEF SearchFarther, Back, IInv, TypeOK
  <2>2. search'.start \in Int /\ search.until \in Int
    BY <2>1 DEF Searches, Farther, FartherStart
  <2>3. Max({search'.start, search.until}) \in Int
    BY <2>2, MaxOfTwo
  <2> QED BY <1>1, <1>4, <2>1, <2>3, JumpObjects DEF kept
<1>10. CASE PrintAnswer
  <2>1. UNCHANGED <<armed, watchvalues>>
    BY <1>10 DEF PrintAnswer
  <2>2. CASE Jump(active.time, "recreate")
    BY <1>1, <1>5, <2>1, <2>2, JumpObjects
  <2>3. ASSUME Continue("done"), active'.tainted PROVE ObjectsInv'
    BY <1>1, <2>1, <2>3, HereObjects DEF Continue
  <2>4. Taint(active).tainted /\ Taint(active) \in Process
    BY ActiveFacts, TaintType
  <2>5. ASSUME NEW found, Continue("done"),
               active' = [Taint(active) EXCEPT !.printed = @ \cup found]
        PROVE  ObjectsInv'
    <3>1. active'.tainted
      BY <2>4, <2>5 DEF Process
    <3> QED BY <2>3, <2>5, <3>1
  <2> QED BY <1>10, <2>2, <2>3, <2>4, <2>5 DEF PrintAnswer, Recreate
<1>11. CASE WatchAnswer
  <2>1. /\ after = "watch" /\ Continue("done") /\ active' = active
        /\ request \in [op: {"arm"}, arg: Watches]
    BY <1>11 DEF WatchAnswer, Back, IInv, Staged
  <2>2. /\ ~active.closed /\ active.time = previous_time
        /\ Objectless \/ Armed = {}
    BY <1>1, <1>2, <1>3, <2>1 DEF OneArmed, RunInv, Bound, Goal
  <2>3. CASE armed' = armed
    BY <1>1, <1>4, <2>1, <2>2, <2>3, HereObjects DEF Continue
  <2> DEFINE w == request.arg
  <2>4. CASE /\ Needs[w] \subseteq Alive(active.time) \cap active.printed
             /\ armed' = armed \cup {w}
    <3>1. w \in Watches /\ Armed' \subseteq Watches
      BY <2>1 DEF Armed
    <3>2. Objectless \/ Armed' = {w}
      BY <2>2, <2>4, <3>1 DEF Armed
    <3>3. \A v \in Armed' : Needs[v] \subseteq active.printed
      BY <2>4, <3>1, <3>2 DEF Objectless
    <3>4. WatchUids' \subseteq active.printed
      BY <3>3 DEF WatchUids
    <3> QED BY <2>1, <2>2, <2>4, <3>2, <3>4 DEF ObjectsInv, OneArmed,
         ClosedWhere, Knows, WatchKnows, Continue
  <2> QED BY <1>11, <2>3, <2>4 DEF WatchAnswer
<1> QED BY <1>6, <1>7, <1>8, <1>9, <1>10, <1>11

LEMMA PromptObjects ==
  ASSUME IInv, RunInv, ObjectsInv,
         Prompt \/ PromptMoved \/ PromptDied \/ PromptRestart
  PROVE  ObjectsInv'
<1> SUFFICES ASSUME Plain PROVE ObjectsInv'
  BY DEF ObjectsInv, Plain
<1>1. /\ phase = "return" /\ ~Gone
      /\ after \in {"done", "recreate", "recover", "restart"}
  BY DEF Prompt, PromptMoved, PromptDied, PromptRestart, Arrived, Gone
<1>2. ClosedWhere /\ Knows /\ WatchKnows /\ OneArmed
  BY DEF ObjectsInv
<1>3. active.tainted \/ WatchUids \subseteq active.printed
  BY <1>1, <1>2 DEF Knows
<1>4. CASE Prompt
  BY <1>1, <1>3, <1>4, HereObjects DEF Prompt, Show, kept
<1>5. CASE PromptMoved
  <2>1. /\ active' = active /\ armed' = armed /\ ~active.closed
        /\ phase' = "prompt" /\ after' = "done"
        /\ previous_time' = active.time
    BY <1>5 DEF PromptMoved, Show
  <2>2. Armed' = Armed /\ WatchUids' = WatchUids
    BY <2>1 DEF Armed, WatchUids
  <2> QED BY <1>2, <1>3, <2>1, <2>2 DEF ObjectsInv, OneArmed,
       ClosedWhere, Knows, WatchKnows
<1>6. CASE PromptDied
  BY <1>6, GoneObjects DEF PromptDied, Die, Arrived, kept
<1>7. CASE PromptRestart
  BY <1>1, <1>7, JumpObjects DEF PromptRestart, kept
<1> QED BY <1>4, <1>5, <1>6, <1>7

LEMMA InterruptObjects ==
  ASSUME IInv, ObjectsInv, Interrupt \/ InterruptAgain
  PROVE  ObjectsInv'
<1>1. CASE Interrupt
  <2>1. /\ Jump(previous_time, "recover") /\ ~Gone
        /\ UNCHANGED <<armed, watchvalues, previous_time>>
    BY <1>1 DEF Interrupt, RestoredTime, kept, Gone
  <2>2. previous_time \in Int
    BY TimesNat DEF IInv, TypeOK
  <2> QED BY <2>1, <2>2, JumpObjects
<1>2. CASE InterruptAgain
  BY <1>2, GoneObjects DEF InterruptAgain, kept
<1> QED BY <1>1, <1>2

LEMMA KeepsObjects ==
  ASSUME IInv, RunInv, ObjectsInv, [Next]_vars
  PROVE  ObjectsInv'
<1>1. CASE Crash
  <2> SUFFICES ASSUME Plain PROVE ObjectsInv'
    BY DEF ObjectsInv, Plain
  <2>1. /\ UNCHANGED <<armed, watchvalues, previous_time, request>>
        /\ phase' = "forward" /\ phase = "forward" /\ after' = after
        /\ Objectless /\ Crashes
    BY <1>1 DEF Crash, kept, movement, Plain
  <2>2. WatchUids' = {} /\ OneArmed'
    BY <2>1, SameWatches, ObjectlessUids DEF ObjectsInv, OneArmed
  <2>3. WatchKnows'
    BY <2>1 DEF WatchKnows, Objectless, IInv, Staged
  <2> QED BY <2>1, <2>2, <2>3 DEF ObjectsInv, ClosedWhere, Knows, Moving
<1>2. CASE UNCHANGED vars
  BY <1>2 DEF vars, movement, ObjectsInv, OneArmed, ClosedWhere, Knows,
     WatchKnows, Gone, Moving, Armed, WatchUids
<1>3. CASE Ended
  BY <1>2, <1>3 DEF Ended
<1> QED BY <1>1, <1>2, <1>3, CommandObjects, RunningObjects, BackObjects,
        PromptObjects, InterruptObjects DEF Next, Work, Running

\* What is known of the watchpoint holds in every behaviour.
THEOREM ObjectsHold == Spec => []ObjectsInv
<1>1. Init => ObjectsInv
  BY InitObjects
<1>2. IInv /\ RunInv /\ ObjectsInv /\ [Next]_vars => ObjectsInv'
  BY KeepsObjects
<1> QED BY <1>1, <1>2, InvariantHolds, RunsReachGoal, PTL DEF Spec

(***************************************************************************)
(* The assertion that ends ensure_printed_objects(), where the objects are *)
(* used: the process knows those of the watchpoint in each run that looks  *)
(* for hits, and those of the expression that was typed, if they exist.    *)
(***************************************************************************)
THEOREM ObjectsAreLoaded == Spec => [](Plain => ObjectsLoaded)
<1>1. IInv /\ RunInv /\ ObjectsInv => (Plain => ObjectsLoaded)
  <2> SUFFICES ASSUME IInv, RunInv, ObjectsInv, Plain PROVE ObjectsLoaded
    OBVIOUS
  <2>1. Knows /\ WatchKnows
    BY DEF ObjectsInv
  <2>2. phase = "forward" /\ call.mode # "i" =>
          ~active.tainted /\ after # "print" /\ ~Gone
    BY DEF IInv, Unmoved, RunInv, Moving, ModeOf, Gone
  <2>3. phase = "return" /\ after = "watch" => active.time = previous_time
    BY DEF RunInv, Bound, Goal
  <2> QED BY <2>1, <2>2, <2>3 DEF ObjectsLoaded, Knows, WatchKnows
<1> QED BY <1>1, InvariantHolds, RunsReachGoal, ObjectsHold, PTL

(***************************************************************************)
(* The values of the watchpoints: what the recording shows, or anything in *)
(* a process in which code was run.                                        *)
(***************************************************************************)
LEMMA ValuesShown ==
  ASSUME IInv, NEW watched \in SUBSET Watches,
         \A w \in watched : Needs[w] \subseteq active.printed
  PROVE  WatchValues(watched)
           \subseteq Machine!Showing(active.time, active.dirty, watched)
<1>1. active.time \in Times /\ active.dirty \in BOOLEAN
  BY ActiveFacts DEF Process
<1>2. ASSUME NEW w \in watched
      PROVE  CheckedWatch(w) = IF active.dirty THEN Texts
                               ELSE {Shows[w][active.time]}
  <2>1. Shows[w][active.time] \in Texts /\ NoText \notin Texts
    BY <1>1, StopsAssumption
  <2>2. Reading(w, active.time, active.printed) = Shows[w][active.time]
    BY <1>2 DEF Reading
  <2> QED BY <2>1, <2>2 DEF CheckedWatch
<1> QED BY <1>2 DEF WatchValues, Machine!Showing

\* At the prompt of another time the process is as it was recorded.
LEMMA MovedIsClean ==
  ASSUME IInv, RunInv, ObjectsInv, Plain, PromptMoved
  PROVE  /\ ~active.dirty /\ ~active.closed /\ armed' = armed
         /\ previous_time' = active.time
         /\ watchvalues' \in Machine!Showing(active.time, FALSE, Armed)
<1>1. /\ phase = "return" /\ ~active.closed /\ ~Gone
      /\ previous_time' = active.time /\ armed' = armed
      /\ after \in {"done", "recreate", "recover", "restart"}
      /\ watchvalues' \in WatchValues(Armed)
  BY DEF PromptMoved, Arrived, Gone
<1>2. ~active.tainted
  BY <1>1 DEF PromptMoved, Moved, RunInv
<1>3. ~active.dirty /\ active.dirty \in BOOLEAN
  BY <1>2, ActiveFacts DEF IInv, Unmoved, Process
<1>4. \A w \in Armed : Needs[w] \subseteq active.printed
  BY <1>1, <1>2 DEF ObjectsInv, Knows, WatchUids
<1>5. Armed \subseteq Watches /\ active.dirty = FALSE
  BY <1>3 DEF Armed
<1> QED BY <1>1, <1>3, <1>4, <1>5, ValuesShown

\* The same where a watchpoint is added.
LEMMA AddedIsShown ==
  ASSUME IInv, RunInv, ObjectsInv, Plain, WatchAnswer,
         ~UNCHANGED <<armed, watchvalues>>
  PROVE  /\ request \in [op: {"arm"}, arg: Watches]
         /\ armed' = armed \cup {request.arg}
         /\ previous_time' = previous_time /\ active.time = previous_time
         /\ watchvalues'
              \in Machine!Showing(previous_time, active.dirty, Armed')
<1>1. /\ phase = "return" /\ after = "watch"
      /\ request \in [op: {"arm"}, arg: Watches]
      /\ previous_time' = previous_time
      /\ Needs[request.arg] \subseteq active.printed
      /\ armed' = armed \cup {request.arg}
      /\ watchvalues' \in WatchValues(Armed')
  BY DEF WatchAnswer, Back, IInv, Staged, Armed
<1>2. active.time = previous_time
  BY <1>1 DEF RunInv, Bound, Goal
<1>3. Armed' \subseteq Watches /\ Armed' \subseteq Armed \cup {request.arg}
  BY <1>1 DEF Armed
<1>4. Objectless \/ Armed = {}
  BY <1>1 DEF ObjectsInv, OneArmed
<1>5. \A w \in Armed' : Needs[w] \subseteq active.printed
  BY <1>1, <1>3, <1>4 DEF Objectless
<1> QED BY <1>1, <1>2, <1>3, <1>5, ValuesShown

\* Only command_watch adds a watchpoint.
LEMMA WatchesArmed ==
  ASSUME [Next]_vars, ~WatchAnswer
  PROVE  Armed' \subseteq Armed
<1>1. CASE Break
  <2>1. PICK b \in Breaks : armed' \in {armed, armed \cup {b}}
    BY <1>1 DEF Break
  <2> QED BY <2>1, StopsAssumption DEF Armed
<1>2. CASE Delete
  BY <1>2 DEF Delete, Armed
<1>3. CASE armed' = armed
  BY <1>3 DEF Armed
<1>4. Break \/ Delete \/ armed' = armed
  <2>1. CASE Command
    BY <2>1 DEF Command, Go, Step, BStep, PrintCmd, Inspect, Watch, Quit, kept
  <2>2. CASE Running
    BY <2>2 DEF Running, ForwardToClone, CloneHere, CloneActive, ForwardLast,
       kept
  <2>3. CASE Work /\ ~Running
    BY <2>3 DEF Work, Running, StepOn, HitBreakpoints, SearchWindow,
       SearchFarther, PrintAnswer, Prompt, PromptMoved, PromptDied,
       PromptRestart, kept
  <2>4. CASE Interrupt \/ InterruptAgain \/ Crash \/ Ended \/ UNCHANGED vars
    BY <2>4 DEF Interrupt, InterruptAgain, Crash, Ended, vars, kept
  <2> QED BY <2>1, <2>2, <2>3, <2>4 DEF Next
<1> QED BY <1>1, <1>2, <1>3, <1>4

(***************************************************************************)
(* update_watch_values(): at each prompt of another time and after Ctrl-C  *)
(* a watchpoint is compared with what the recording shows there, as it is  *)
(* where it is added before any code was run.                              *)
(***************************************************************************)
THEOREM WatchesStayCurrent ==
  ASSUME Plain
  PROVE  Spec => WatchesCurrent
<1>1. IInv /\ RunInv /\ ObjectsInv /\ [Next]_vars =>
        [ShownAgain \/ WatchAdded
           => \A w \in armed' \cap Watches :
                watchvalues'[w] = Shows[w][previous_time']]_vars
  <2> SUFFICES ASSUME IInv, RunInv, ObjectsInv, [Next]_vars,
                      ShownAgain \/ WatchAdded, NEW w \in Armed'
               PROVE  watchvalues'[w] = Shows[w][previous_time']
    BY DEF Armed
  <2>1. CASE ShownAgain
    <3>1. PromptMoved
      BY <2>1, PromptEnds DEF ShownAgain, Prompt
    <3>2. w \in Armed
      BY <3>1, MovedIsClean DEF Armed
    <3> QED BY <3>1, <3>2, MovedIsClean DEF Machine!Showing
  <2>2. CASE WatchAdded
    <3>1. ~active.dirty /\ ~(Armed' \subseteq Armed)
      BY <2>2 DEF WatchAdded, Armed
    <3>2. WatchAnswer /\ ~UNCHANGED <<armed, watchvalues>>
      BY <3>1, WatchesArmed DEF Armed
    <3> QED BY <3>1, <3>2, AddedIsShown DEF Machine!Showing
  <2> QED BY <2>1, <2>2
<1> QED BY <1>1, InvariantHolds, RunsReachGoal, ObjectsHold, PTL
     DEF Spec, WatchesCurrent
-----------------------------------------------------------------------------
(***************************************************************************)
(* step, and the end of a continue.                                        *)
(***************************************************************************)

LEMMA MachineTimes ==
  ASSUME NEW t
  PROVE  Machine!Clamp(t) = Clamp(t) /\ Machine!Gaps = Gaps
BY DEF Machine!Clamp, Clamp, Machine!Gaps, Gaps

LEMMA MachineExtremes ==
  ASSUME NEW S
  PROVE  Machine!Min(S) = Min(S) /\ Machine!Max(S) = Max(S)
BY DEF Machine!Min, Min, Machine!Max, Max

\* In a process that knows the objects, hits are what the user expects.
LEMMA HitsInterrupt ==
  ASSUME ObjectsInv, Plain, ~Gone, ~active.tainted, after # "print"
  PROVE  Hits = Machine!Interruptions /\ WatchHits = Machine!Noticed
<1>1. \A w \in Armed : Needs[w] \subseteq active.printed
  BY DEF ObjectsInv, Knows, WatchUids
<1>2. WatchHits = {g \in Gaps : \E w \in Armed :
                                  Shows[w][g + 1] # watchvalues[w]}
  BY <1>1 DEF WatchHits, WatchGaps, Armed, Reading
<1>3. Machine!Noticed = {g \in Gaps : \E w \in Armed :
                                  Shows[w][g + 1] # watchvalues[w]}
  BY DEF Machine!Noticed, Machine!Changed, Machine!Gaps, Gaps, Armed
<1>4. Machine!Interruptions = BreakGaps(armed) \cup Machine!Noticed
  BY DEF Machine!Interruptions, Machine!BreakGaps, BreakGaps
<1> QED BY <1>2, <1>3, <1>4 DEF Hits

\* What interrupts a run changes with what is armed, and its values.
LEMMA SameMachine ==
  ASSUME UNCHANGED <<armed, watchvalues>>
  PROVE  /\ Machine!Interruptions' = Machine!Interruptions
         /\ Machine!Noticed' = Machine!Noticed
BY DEF Machine!Interruptions, Machine!Noticed, Machine!Changed

LEMMA InterruptionsType ==
  /\ Machine!Interruptions \in SUBSET Nat
  /\ \A g \in Machine!Interruptions : 1 <= g /\ g < Total
<1>1. Total \in Nat
  BY TotalAssumption
<1>2. Machine!Noticed \subseteq Gaps
  BY DEF Machine!Noticed, Machine!Changed, Machine!Gaps, Gaps
<1>3. Machine!BreakGaps(armed) \subseteq Gaps
  BY StopsAssumption DEF Machine!BreakGaps
<1>4. Machine!Interruptions \subseteq Gaps
  BY <1>2, <1>3 DEF Machine!Interruptions
<1> QED BY <1>1, <1>4 DEF Gaps

\* A least element is the minimum.
LEMMA MinIs ==
  ASSUME NEW S \in SUBSET Nat, NEW m \in S, \A g \in S : m <= g
  PROVE  Min(S) = m
<1>1. Min(S) \in S /\ \A g \in S : Min(S) <= g
  BY MinOfNumbers
<1>2. Min(S) \in Nat /\ m \in Nat /\ Min(S) <= m /\ m <= Min(S)
  BY <1>1
<1> QED BY <1>2

LEMMA MaxIs ==
  ASSUME NEW S \in SUBSET Nat, NEW m \in S, \A g \in S : g <= m
  PROVE  Max(S) = m
<1>1. Max(S) \in S /\ \A g \in S : g <= Max(S)
  BY MaxOfTimes
<1>2. Max(S) \in Nat /\ m \in Nat /\ Max(S) <= m /\ m <= Max(S)
  BY <1>1
<1> QED BY <1>2

\* Where step n ends, from what is known of the interruptions.
LEMMA AheadIs ==
  ASSUME previous_time \in Times, NEW n \in Nat, NEW there \in Nat,
         \/ /\ there = Clamp(previous_time + n)
            /\ \A g \in Machine!Interruptions :
                 previous_time <= g => there <= g
         \/ \E first \in Machine!Interruptions :
              /\ there = first + 1
              /\ previous_time <= first /\ first < previous_time + n
              /\ \A g \in Machine!Interruptions :
                   previous_time <= g => first <= g
  PROVE  there = Machine!Ahead(n)
<1> DEFINE entered == {g \in Machine!Interruptions :
                         previous_time <= g /\ g < previous_time + n}
<1>1. /\ Machine!Interruptions \in SUBSET Nat
      /\ \A g \in Machine!Interruptions : 1 <= g /\ g < Total
      /\ previous_time \in Nat /\ Total \in Nat
  BY InterruptionsType, TimesNat, TotalAssumption
<1>2. Machine!Ahead(n) = IF entered = {} THEN Clamp(previous_time + n)
                         ELSE Min(entered) + 1
  BY MachineTimes, MachineExtremes DEF Machine!Ahead
<1>3. CASE /\ there = Clamp(previous_time + n)
           /\ \A g \in Machine!Interruptions : previous_time <= g => there <= g
  <2>1. ASSUME NEW g \in entered PROVE FALSE
    <3>1. g < Total /\ g < previous_time + n /\ there <= g /\ g \in Nat
      BY <1>1, <1>3
    <3> QED BY <1>1, <1>3, <3>1 DEF Clamp
  <2> QED BY <1>2, <1>3, <2>1
<1>4. ASSUME NEW first \in Machine!Interruptions,
             there = first + 1,
             previous_time <= first, first < previous_time + n,
             \A g \in Machine!Interruptions : previous_time <= g => first <= g
      PROVE  there = Machine!Ahead(n)
  <2>1. entered \in SUBSET Nat /\ first \in entered
        /\ \A g \in entered : first <= g
    BY <1>1, <1>4
  <2> HIDE DEF entered
  <2>2. Min(entered) = first
    BY <2>1, MinIs
  <2> QED BY <1>2, <1>4, <2>1, <2>2
<1> QED BY <1>3, <1>4

\* A run of step: it has passed no interruption, and has as far to go as
\* the user asked, to the end of the recording at most.
StepRuns ==
  /\ call.latest = NoHit
  /\ previous_time <= active.time
  /\ \A g \in Machine!Interruptions : previous_time <= g => active.time <= g
  /\ Clamp(active.time + call.steps) = Clamp(previous_time + request.arg)

AheadInv ==
  Plain /\ after = "stepped" =>
    /\ request \in [op: {"step"}, arg: Args]
    /\ Moving => StepRuns
    /\ phase = "return" =>
         /\ active.time = Machine!Ahead(request.arg)
         /\ call.latest = NoHit \/ call.latest.time = active.time

LEMMA StepsOfStep ==
  ASSUME IInv, [Next]_vars, after' = "stepped", Plain
  PROVE  Step \/ StepOn \/ Running \/ Crash \/ UNCHANGED vars
<1>1. ~(Go \/ BStep \/ PrintCmd \/ Inspect \/ Break \/ Delete \/ Watch)
  <2>1. ~(Go \/ BStep \/ Inspect)
    <3>1. ~Go
      BY JumpAfter DEF Go
    <3>2. ~Inspect
      BY JumpAfter DEF Inspect, Recreate, Continue
    <3>3. ASSUME NEW t, Jump(t, "done") \/ Jump(t, "search") PROVE FALSE
      BY <3>3, JumpAfter
    <3>4. ~BStep
      BY <3>3 DEF BStep
    <3> QED BY <3>1, <3>2, <3>4
  <2>2. ~(PrintCmd \/ Watch)
    <3>1. ASSUME NEW uids, EnsureHere(uids, "print") \/ EnsureHere(uids, "watch")
          PROVE  FALSE
      BY <3>1, EnsureHereAfter
    <3>2. ~Raise("watch")
      BY DEF Raise, Die, Continue
    <3> QED BY <3>1, <3>2 DEF PrintCmd, Watch
  <2>3. ~(Break \/ Delete)
    BY DEF Break, Delete, Continue
  <2> QED BY <2>1, <2>2, <2>3
<1>2. ~Quit
  BY DEF Quit, Ask, IInv, Staged
<1>3. ~(HitBreakpoints \/ SearchWindow \/ SearchFarther)
  BY JumpAfter DEF HitBreakpoints, SearchWindow, SearchFarther, Continue,
     GoForward
<1>4. ~(PrintAnswer \/ WatchAnswer)
  BY JumpAfter DEF PrintAnswer, WatchAnswer, Recreate, Continue
<1>5. ~(\/ Prompt \/ PromptMoved \/ PromptDied \/ PromptRestart
        \/ Interrupt \/ InterruptAgain)
  BY JumpAfter DEF Prompt, PromptMoved, PromptDied, PromptRestart, Show,
     Interrupt, InterruptAgain, Die, Arrived
<1> QED BY <1>1, <1>2, <1>3, <1>4, <1>5 DEF Next, Command, Work, Running, Ended

\* A process that dies stays where it is.
LEMMA CrashKeeps ==
  ASSUME IInv, Crash
  PROVE  /\ active'.time = active.time /\ phase = "forward"
         /\ UNCHANGED <<paused, kept, movement, request, previous_time>>
<1>1. Close(active).time = active.time
  BY ActiveFacts, CloseType
<1> QED BY <1>1 DEF Crash

\* How far a run may go, where its end is clamped to the recording.
LEMMA StepsLeftClamp ==
  ASSUME IInv
  PROVE  /\ active.time + StepsLeft = Clamp(active.time + call.steps)
         /\ StepsLeft \in Nat
         /\ \A d \in Nat : d <= StepsLeft =>
              Clamp(active.time + d + (StepsLeft - d))
                = Clamp(active.time + call.steps)
<1>1. /\ active.time \in Nat /\ 1 <= active.time /\ active.time <= Total
      /\ Total \in Nat /\ call.steps \in Nat
  BY ActiveFacts, TotalAssumption DEF Calls, Times
<1>2. /\ active.time + StepsLeft = Clamp(active.time + call.steps)
      /\ StepsLeft \in Nat
  BY <1>1 DEF StepsLeft, Clamp
<1>3. active.time + StepsLeft \in Nat /\ 1 <= active.time + StepsLeft
      /\ active.time + StepsLeft <= Total
  BY <1>1, <1>2, StepsLeftType
<1>4. Clamp(active.time + StepsLeft) = active.time + StepsLeft
  BY <1>1, <1>3 DEF Clamp
<1>5. \A d \in Nat : d <= StepsLeft =>
        active.time + d + (StepsLeft - d) = active.time + StepsLeft
  BY <1>1, <1>2
<1> QED BY <1>2, <1>4, <1>5

LEMMA RunningAhead ==
  ASSUME IInv, RunInv, ObjectsInv, AheadInv, Plain, Running, after' = "stepped"
  PROVE  AheadInv'
<1>1. /\ Moving /\ ~active.tainted /\ ~Gone
      /\ UNCHANGED <<armed, watchvalues, request, previous_time>>
  BY DEF Running, ForwardToClone, CloneHere, CloneActive, ForwardLast, Moving,
     IInv, Unmoved, kept, Gone
<1>2. ~Raise(after)
  BY DEF Raise, Die, Continue
<1>3. after = "stepped"
  BY <1>2, ForwardCases DEF Running, CloneHere, CloneActive, RanToClone,
     RanToHit, RanToEnd, Ran
<1>4. StepRuns /\ request \in [op: {"step"}, arg: Args] /\ call.mode = "b"
  BY <1>1, <1>3 DEF AheadInv, RunInv, ModeOf
<1>5. Hits = Machine!Interruptions
      /\ Machine!Interruptions' = Machine!Interruptions
  BY <1>1, <1>3, HitsInterrupt, SameMachine
<1>6. CASE CloneHere \/ CloneActive
  <2>1. UNCHANGED <<active, call>> /\ phase' \in {"forward", "clone"}
    BY <1>2, <1>6 DEF CloneHere, CloneActive
  <2> QED BY <1>1, <1>3, <1>4, <1>5, <2>1 DEF AheadInv, StepRuns, Moving
<1>7. CASE RanToClone \/ RanToHit \/ RanToEnd
  <2> DEFINE n == request.arg
  <2>1. /\ active.time \in Nat /\ StepsLeft \in Nat /\ Total \in Nat
        /\ previous_time \in Times /\ previous_time \in Nat
        /\ n \in Nat /\ previous_time <= active.time
        /\ active.time + StepsLeft = Clamp(previous_time + n)
    BY <1>4, ActiveFacts, ArgsNat, TotalAssumption, TimesNat, StepsLeftClamp
       DEF IInv, TypeOK, StepRuns
  <2>2. PICK steps : Ran(steps) /\ steps \in Nat /\ steps <= StepsLeft
                     /\ \/ RanToClone /\ steps = ToClone
                        \/ RanToHit /\ steps = ToClone
                        \/ RanToEnd /\ steps = StepsLeft
    BY <1>7, <2>1 DEF RanToClone, RanToHit, RanToEnd, Ran
  <2>3. active' \in Process /\ active'.time \in Nat
    BY <2>2, RanFacts, TimesNat DEF Process
  <2>4. CASE ToEnter(steps) # {}
    <3> DEFINE first == Min(ToEnter(steps))
    <3>1. /\ first \in ToEnter(steps) /\ \A g \in ToEnter(steps) : first <= g
          /\ active'.time = first + 1
          /\ Found(steps).time = active'.time /\ Found(steps) # NoHit
      BY <1>4, <2>2, <2>4, RanTimes, FoundCases
    <3> HIDE DEF first
    <3>2. /\ first \in Machine!Interruptions /\ first \in Nat
          /\ active.time <= first /\ first < active.time + steps
      BY <1>5, <3>1, InterruptionsType DEF ToEnter, Entered
    <3>3. previous_time <= first /\ first < previous_time + n
      <4>1. first < Clamp(previous_time + n) /\ previous_time + n >= 1
        BY <2>1, <2>2, <3>2, TotalAssumption DEF Times
      <4> QED BY <2>1, <3>2, <4>1 DEF Clamp
    <3>4. \A g \in Machine!Interruptions : previous_time <= g => first <= g
      <4> SUFFICES ASSUME NEW g \in Machine!Interruptions, previous_time <= g,
                          g < first
                   PROVE  FALSE
        BY <3>2, InterruptionsType
      <4>1. g \in Nat /\ active.time <= g
        BY <1>4, InterruptionsType DEF StepRuns
      <4>2. g < active.time + steps
        BY <2>1, <2>2, <3>2, <4>1
      <4>3. g \in ToEnter(steps)
        BY <1>5, <4>1, <4>2 DEF ToEnter, Entered
      <4> QED BY <3>1, <3>2, <4>1, <4>3
    <3>5. active'.time = Machine!Ahead(n)
      BY <2>1, <2>3, <3>1, <3>2, <3>3, <3>4, AheadIs
    <3>6. Machine!Ahead(n)' = Machine!Ahead(n)
      BY <1>1, <1>5 DEF Machine!Ahead
    <3>7. ~RanToClone
      BY <1>4, <2>2, <3>1 DEF RanToClone, RanToHit, RanToEnd
    <3>8. phase' = "return" /\ call'.latest = Found(steps)
      BY <1>4, <2>2, <3>1, <3>7 DEF RanToHit, RanToEnd, Latest
    <3> QED BY <1>1, <1>3, <1>4, <3>1, <3>5, <3>6, <3>8 DEF AheadInv, Moving
  <2>5. CASE ToEnter(steps) = {}
    <3>1. active'.time = active.time + steps /\ Found(steps) = NoHit
      BY <2>2, <2>5, RanTimes, FoundCases
    <3>2. \A g \in Machine!Interruptions : previous_time <= g => active'.time <= g
      <4> SUFFICES ASSUME NEW g \in Machine!Interruptions, previous_time <= g,
                          g < active'.time
                   PROVE  FALSE
        BY <2>3, InterruptionsType
      <4>1. g \in Nat /\ active.time <= g
        BY <1>4, InterruptionsType DEF StepRuns
      <4> QED BY <1>5, <2>5, <3>1, <4>1 DEF ToEnter, Entered
    <3>3. ~RanToHit /\ call'.latest = NoHit
      BY <1>4, <2>2, <3>1 DEF RanToHit, RanToClone, RanToEnd, Latest, StepRuns
    <3>4. CASE RanToClone /\ steps = ToClone
      <4>1. call'.steps = StepsLeft - steps /\ phase' = "clone"
        BY <3>4 DEF RanToClone
      <4>2. Clamp(active'.time + call'.steps) = Clamp(active.time + call.steps)
        BY <2>2, <3>1, <4>1, StepsLeftClamp
      <4>3. previous_time <= active'.time
        BY <2>1, <2>2, <3>1
      <4> QED BY <1>1, <1>3, <1>4, <1>5, <3>2, <3>3, <4>1, <4>2, <4>3
           DEF AheadInv, StepRuns
    <3>5. CASE RanToEnd /\ steps = StepsLeft
      <4>1. active'.time = Machine!Ahead(n)
        BY <2>1, <2>3, <3>1, <3>2, <3>5, AheadIs
      <4>2. Machine!Ahead(n)' = Machine!Ahead(n)
        BY <1>1, <1>5 DEF Machine!Ahead
      <4>3. phase' = "return"
        BY <3>5 DEF RanToEnd
      <4> QED BY <1>1, <1>3, <1>4, <3>3, <4>1, <4>2, <4>3 DEF AheadInv, Moving
    <3> QED BY <2>2, <3>3, <3>4, <3>5
  <2> QED BY <2>4, <2>5
<1> QED BY <1>2, <1>6, <1>7, ForwardCases DEF Running

LEMMA KeepsAhead ==
  ASSUME IInv, RunInv, ObjectsInv, AheadInv, [Next]_vars
  PROVE  AheadInv'
<1> SUFFICES ASSUME Plain, after' = "stepped" PROVE AheadInv'
  BY DEF AheadInv, Plain
<1>1. ASSUME active' = active, active.time = previous_time,
             previous_time' = previous_time, phase' = "forward",
             request' \in [op: {"step"}, arg: Args],
             GoForward(request'.arg, "b", "stepped")
      PROVE  AheadInv'
  <2>1. active.time \in Nat
    BY ActiveFacts
  <2> QED BY <1>1, <2>1 DEF AheadInv, StepRuns, GoForward
<1>2. CASE Step
  <2>1. PICK n \in Args :
          /\ request' = [op |-> "step", arg |-> n]
          /\ active.time = previous_time /\ previous_time' = previous_time
          /\ IF active.tainted THEN Jump(active.time, "step")
             ELSE GoForward(n, "b", "stepped") /\ active' = active
    BY <1>2 DEF Step, Ask, RunInv
  <2>2. ~Jump(active.time, "step")
    BY JumpAfter
  <2> QED BY <1>1, <2>1, <2>2 DEF GoForward
<1>3. CASE StepOn
  BY <1>1, <1>3 DEF StepOn, Back, GoForward, IInv, Staged, RunInv, Bound, Goal
<1>4. CASE Running
  BY <1>4, RunningAhead
<1>5. CASE Crash \/ UNCHANGED vars
  <2>1. /\ active'.time = active.time
        /\ UNCHANGED <<armed, watchvalues, movement, request, previous_time>>
    BY <1>5, CrashKeeps DEF vars, kept
  <2>2. Machine!Interruptions' = Machine!Interruptions
    BY <2>1, SameMachine
  <2>3. StepRuns' = StepRuns
        /\ Machine!Ahead(request.arg)' = Machine!Ahead(request.arg)
    BY <2>1, <2>2 DEF movement, StepRuns, Machine!Ahead
  <2> QED BY <2>1, <2>3 DEF movement, AheadInv, Moving
<1> QED BY <1>2, <1>3, <1>4, <1>5, StepsOfStep

\* What is known of step holds in every behaviour.
THEOREM AheadHolds == Spec => []AheadInv
<1>1. Init => AheadInv
  BY DEF Init, AheadInv
<1>2. IInv /\ RunInv /\ ObjectsInv /\ AheadInv /\ [Next]_vars => AheadInv'
  BY KeepsAhead
<1> QED BY <1>1, <1>2, InvariantHolds, RunsReachGoal, ObjectsHold, PTL DEF Spec

(***************************************************************************)
(* step and continue end at the first interruption ahead, or after the     *)
(* steps that were asked for, whatever forks are made and whichever        *)
(* progress ticks are met on the way.                                      *)
(***************************************************************************)
THEOREM StepsAreExact == Spec => [](Plain => StepsExact)
<1>1. AheadInv => (Plain => StepsExact)
  BY DEF AheadInv, StepsExact
<1> QED BY <1>1, AheadHolds, PTL
-----------------------------------------------------------------------------
(***************************************************************************)
(* Which command is under way.                                             *)
(***************************************************************************)
Asked ==
  /\ phase = "prompt" => request = Machine!NoRequest
  /\ Moving \/ phase = "return" =>
       request # Machine!NoRequest \/ after \in {"recover", "restart"}
  /\ after \in {"print", "recreate"} => request.op = "look"

LEMMA CommandAsked ==
  ASSUME IInv, Command
  PROVE  /\ request' # Machine!NoRequest /\ phase = "prompt"
         /\ phase' # "prompt" /\ after' \notin {"recover", "restart"}
         /\ PrintCmd \/ Inspect \/ Quit => request'.op = "look"
         /\ after' \in {"print", "recreate"} => request'.op = "look"
<1>1. /\ phase = "prompt" /\ after = "done"
  BY DEF Command, Go, Step, BStep, PrintCmd, Inspect, Break, Delete, Watch,
     Quit, Ask, IInv, Staged
<1>2. ASSUME NEW op \in {"go", "step", "bstep", "look", "arm", "disarm"},
             NEW arg, Ask(op, arg)
      PROVE  request'.op = op /\ request' # Machine!NoRequest
  BY <1>2 DEF Ask, Machine!NoRequest
<1>3. request' # Machine!NoRequest
  BY <1>2 DEF Command, Go, Step, BStep, PrintCmd, Inspect, Break, Delete,
     Watch, Quit
<1>4. PrintCmd \/ Inspect \/ Quit => request'.op = "look"
  <2>1. PrintCmd \/ Inspect \/ Quit => Ask("look", 0)
    BY DEF PrintCmd, Inspect, Quit
  <2> QED BY <1>2, <2>1
<1>5. CASE Go \/ Step \/ BStep
  <2>1. ASSUME NEW t, NEW k \in {"done", "step", "search"}, Jump(t, k)
        PROVE  /\ phase' # "prompt"
               /\ after' \notin {"recover", "restart", "print", "recreate"}
    BY <2>1, JumpAfter, JumpPhase
  <2>2. ASSUME NEW t, Jump(t, "done") \/ Jump(t, "step") \/ Jump(t, "search")
        PROVE  /\ phase' # "prompt"
               /\ after' \notin {"recover", "restart", "print", "recreate"}
    BY <2>1, <2>2
  <2>3. CASE \E n : GoForward(n, "b", "stepped")
    BY <1>1, <1>3, <1>4, <2>3 DEF GoForward
  <2>4. Go => \E t : Jump(t, "done")
    BY DEF Go
  <2>5. Step => \/ \E t : Jump(t, "step")
                \/ \E n : GoForward(n, "b", "stepped")
    BY DEF Step
  <2>6. BStep => \E t : Jump(t, "done") \/ Jump(t, "search")
    BY DEF BStep
  <2>7. \/ \E t : Jump(t, "done") \/ Jump(t, "step") \/ Jump(t, "search")
        \/ \E n : GoForward(n, "b", "stepped")
    BY <1>5, <2>4, <2>5, <2>6
  <2>8. \/ phase' # "prompt"
           /\ after' \notin {"recover", "restart", "print", "recreate"}
        \/ \E n : GoForward(n, "b", "stepped")
    BY <2>2, <2>7
  <2> QED BY <1>1, <1>3, <1>4, <2>3, <2>8
<1>6. CASE PrintCmd
  <2>1. PICK uids : EnsureHere(uids, "print")
    BY <1>6 DEF PrintCmd
  <2> QED BY <1>1, <1>3, <1>4, <1>6, <2>1, EnsureHereAfter, EnsureHerePhase
<1>7. CASE Inspect
  BY <1>1, <1>3, <1>4, <1>7, JumpAfter, JumpPhase DEF Inspect, Recreate, Continue
<1>8. CASE Watch
  BY <1>1, <1>3, <1>4, <1>8, EnsureHereAfter, EnsureHerePhase
     DEF Watch, Raise, Continue
<1>9. CASE Break \/ Delete \/ Quit
  BY <1>1, <1>3, <1>4, <1>9 DEF Break, Delete, Quit, Continue
<1> QED BY <1>5, <1>6, <1>7, <1>8, <1>9 DEF Command

\* How go_forward() leaves the command that it is part of.
LEMMA RunningAfter ==
  ASSUME Running
  PROVE  /\ Moving /\ UNCHANGED <<kept, request, previous_time>>
         /\ \/ after' = after /\ phase' # "prompt"
            \/ /\ after' = "done" /\ phase' = "return"
               /\ after \notin {"recover", "restart"}
BY DEF Running, ForwardToClone, CloneHere, CloneActive, ForwardLast, Raise,
   Die, Continue, Moving

\* The steps after go_forward(), which leave the request alone.
LEMMA BackAfter ==
  ASSUME \/ StepOn \/ HitBreakpoints \/ SearchWindow \/ SearchFarther
         \/ PrintAnswer \/ WatchAnswer
  PROVE  /\ phase = "return" /\ UNCHANGED <<request, previous_time>>
         /\ after \in {"step", "stepped", "search", "searched", "print", "watch"}
         /\ phase' # "prompt"
         /\ \/ after' \in {"stepped", "search", "searched", "done"}
            \/ after = "print" /\ after' = "recreate"
<1>1. CASE StepOn \/ SearchWindow \/ WatchAnswer
  BY <1>1 DEF StepOn, SearchWindow, WatchAnswer, Back, Continue, GoForward
<1>2. CASE HitBreakpoints
  BY <1>2, JumpAfter, JumpPhase DEF HitBreakpoints, Back, Continue
<1>3. CASE SearchFarther
  BY <1>3, JumpAfter, JumpPhase DEF SearchFarther, Back
<1>4. CASE PrintAnswer
  BY <1>4, JumpAfter, JumpPhase DEF PrintAnswer, Recreate, Back, Continue
<1> QED BY <1>1, <1>2, <1>3, <1>4

LEMMA KeepsAsked ==
  ASSUME IInv, Asked, [Next]_vars
  PROVE  Asked'
<1>1. CASE Command
  BY <1>1, CommandAsked DEF Asked
<1>2. CASE Running
  BY <1>2, RunningAfter DEF Asked
<1>3. CASE \/ StepOn \/ HitBreakpoints \/ SearchWindow \/ SearchFarther
           \/ PrintAnswer \/ WatchAnswer
  BY <1>3, BackAfter DEF Asked
<1>4. CASE Prompt \/ PromptMoved
  BY <1>4 DEF Prompt, PromptMoved, Show, Asked, Moving
<1>5. CASE Interrupt \/ PromptRestart
  <2>1. CASE Jump(RestoredTime, "recover")
    BY <2>1, JumpDies DEF Asked
  <2>2. CASE Jump(1, "restart")
    BY <2>2, JumpDies DEF Asked
  <2> QED BY <1>5, <2>1, <2>2 DEF Interrupt, PromptRestart
<1>6. CASE PromptDied \/ InterruptAgain
  BY <1>6 DEF PromptDied, InterruptAgain, Die, Arrived, Asked, Moving
<1>7. CASE Crash \/ Ended \/ UNCHANGED vars
  BY <1>7 DEF Crash, Ended, vars, movement, Asked, Moving
<1> QED BY <1>1, <1>2, <1>3, <1>4, <1>5, <1>6, <1>7 DEF Next, Work, Running

\* The request belongs to what is being done, in every behaviour.
THEOREM RequestsHold == Spec => []Asked
<1>1. Init => Asked
  BY DEF Init, Asked, Moving
<1>2. IInv /\ Asked /\ [Next]_vars => Asked'
  BY KeepsAsked
<1> QED BY <1>1, <1>2, InvariantHolds, PTL DEF Spec
-----------------------------------------------------------------------------
(***************************************************************************)
(* bstep, and the time at which each command ends.                         *)
(***************************************************************************)

\* Where bstep n ends, from what is known of the interruptions.
LEMMA BehindNone ==
  ASSUME NEW n, \A g \in Machine!Interruptions :
                  ~(previous_time - n <= g /\ g < previous_time)
  PROVE  Machine!Behind(n) = Clamp(previous_time - n)
<1> DEFINE passed == {g \in Machine!Interruptions :
                        previous_time - n <= g /\ g < previous_time}
<1>1. passed = {}
  OBVIOUS
<1>2. Machine!Behind(n) = Machine!Clamp(previous_time - n)
  BY <1>1 DEF Machine!Behind
<1> QED BY <1>2, MachineTimes

LEMMA BehindLast ==
  ASSUME armed # {}, previous_time \in Times, NEW n \in Nat,
         NEW last \in Machine!Interruptions,
         previous_time - n <= last, last < previous_time,
         \A g \in Machine!Interruptions : g < previous_time => g <= last
  PROVE  Machine!Behind(n) = last + IF last \in Machine!Noticed THEN 1 ELSE 0
<1> DEFINE passed == {g \in Machine!Interruptions :
                        previous_time - n <= g /\ g < previous_time}
<1>1. passed \in SUBSET Nat /\ last \in passed /\ \A g \in passed : g <= last
  BY InterruptionsType
<1>2. Machine!Behind(n) = IF passed = {} THEN Machine!Clamp(previous_time - n)
                          ELSE IF Max(passed) \in Machine!Noticed
                                 THEN Max(passed) + 1 ELSE Max(passed)
  BY MachineExtremes DEF Machine!Behind
<1> HIDE DEF passed
<1>3. Max(passed) = last
  BY <1>1, MaxIs
<1>4. last \in Nat
  BY <1>1
<1> QED BY <1>1, <1>2, <1>3, <1>4

\* What is behind the windows that were searched: no interruption.
SearchRuns ==
  /\ armed # {}
  /\ request \in [op: {"bstep"}, arg: Args]
  /\ search.until = previous_time - request.arg
  /\ search.until <= search.stop /\ search.stop <= previous_time
  /\ \A g \in Machine!Interruptions : g < previous_time => g < search.stop

\* The time to be shown is known: it is the one that is promised.
BehindInv ==
  Plain /\ NoTicks =>
    /\ after \in {"search", "searched"} => SearchRuns
    /\ after = "searched" => search.until <= search.start
    /\ Moving /\ after = "done" =>
         /\ active.time + call.steps \in Times
         /\ active.time + call.steps = Machine!Destination
    /\ phase = "return" /\ after = "done" =>
         active.closed \/ active.time = Machine!Destination

\* A step that leaves a command to go on, and is not part of a search.
LEMMA OtherBehind ==
  ASSUME phase' # "prompt", after' \notin {"search", "searched"},
         after' = "done" => phase' \in {"died", "exited"}
  PROVE  BehindInv'
BY DEF BehindInv, Moving

\* The command ends.
LEMMA DoneBehind ==
  ASSUME phase' = "return", after' = "done",
         active'.closed \/ active'.time = Machine!Destination'
  PROVE  BehindInv'
BY DEF BehindInv, Moving

LEMMA FailedBehind ==
  ASSUME NEW k, Failed(k)
  PROVE  BehindInv'
BY OtherBehind, DoneBehind DEF Failed, RaiseNone, Raise, Die, Continue

LEMMA JumpBehind ==
  ASSUME IInv, phase # "exited", NEW target \in Int, NEW k,
         k \notin {"search", "searched"}, Jump(target, k),
         k = "done" => Clamp(target) = Machine!Destination'
  PROVE  BehindInv'
<1>1. CASE Failed(k)
  BY <1>1, FailedBehind
<1>2. CASE Resumed(Clamp(target), k, WatchUids)
  <2>1. Clamp(target) \in Times /\ Clamp(target) \in Nat
    BY ClampType, TimesNat
  <2>2. active'.time \in Nat
    BY <1>2, TimesNat DEF Resumed, Forks
  <2>3. /\ active'.time + call'.steps = Clamp(target)
        /\ phase' = "forward" /\ after' = k
    BY <1>2, <2>1, <2>2 DEF Resumed
  <2> QED BY <2>1, <2>3 DEF BehindInv
<1> QED BY <1>1, <1>2, JumpCases

LEMMA EnsureHereBehind ==
  ASSUME IInv, phase # "exited", NEW uids \in SUBSET Numbered,
         NEW k \in {"print", "watch"}, EnsureHere(uids, k)
  PROVE  BehindInv'
<1>1. CASE Failed(k)
  BY <1>1, FailedBehind
<1>2. CASE phase' \in {"forward", "return"} /\ after' = k
  BY <1>2, OtherBehind
<1> QED BY <1>1, <1>2, EnsureHereCases DEF Resumed, Continue

LEMMA CommandBehind ==
  ASSUME IInv, RunInv, Plain, Command
  PROVE  BehindInv'
<1>1. /\ phase = "prompt" /\ after = "done" /\ previous_time' = previous_time
      /\ active.time = previous_time /\ phase # "exited"
      /\ active.time \in Times /\ active.time \in Nat
  BY ActiveFacts DEF Command, Go, Step, BStep, PrintCmd, Inspect, Break,
     Delete, Watch, Quit, Ask, RunInv, IInv, Staged
<1>2. CASE Go
  <2>1. PICK t \in Args : /\ request' = [op |-> "go", arg |-> t]
                          /\ Jump(t, "done")
    BY <1>2 DEF Go, Ask
  <2>2. Machine!Destination' = Clamp(t)
    BY <2>1, MachineTimes DEF Machine!Destination, Machine!Clamp, Clamp
  <2> QED BY <1>1, <2>1, <2>2, ArgsNat, JumpBehind
<1>3. CASE Step
  BY <1>1, <1>3, JumpBehind, OtherBehind DEF Step, GoForward
<1>4. CASE BStep
  <2> DEFINE first == IF Armed # {} THEN WatchSearchSteps ELSE SearchSteps
  <2>1. PICK n \in Args :
          /\ request' = [op |-> "bstep", arg |-> n]
          /\ IF armed = {}
               THEN Jump(active.time - n, "done")
               ELSE /\ search' = [start |-> active.time - first,
                                  stop  |-> active.time,
                                  until |-> active.time - n]
                    /\ Jump(Max({search'.start, active.time - n}), "search")
    BY <1>4 DEF BStep, Ask
  <2>2. /\ n \in Nat /\ first \in Int
        /\ UNCHANGED <<armed, watchvalues, previous_time>>
    BY <1>4, ArgsNat, GroupAssumption DEF BStep, kept, Ask
  <2> HIDE DEF first
  <2>3. active.time - n \in Int /\ active.time - first \in Int
    BY <1>1, <2>2
  <2>4. CASE armed = {}
    <3>1. Machine!Behind(n)' = Clamp(active.time - n)
      <4>1. Machine!Behind(n)' = Machine!Clamp(previous_time' - n)
        BY <2>2, <2>4 DEF Machine!Behind
      <4> QED BY <1>1, <4>1, MachineTimes
    <3>2. Machine!Destination' = Clamp(active.time - n)
      BY <2>1, <3>1 DEF Machine!Destination
    <3> QED BY <1>1, <2>1, <2>3, <2>4, <3>2, JumpBehind
  <2>5. CASE armed # {}
    <3> DEFINE target == Max({search'.start, active.time - n})
    <3>1. /\ search'.start \in Int /\ search'.stop = active.time
          /\ search'.until = active.time - n
      BY <2>1, <2>3, <2>5
    <3>2. target \in Int /\ Jump(target, "search")
      BY <2>1, <2>3, <2>5, <3>1, MaxOfTwo
    <3> HIDE DEF target
    <3>3. CASE Failed("search")
      BY <3>3, FailedBehind
    <3>4. CASE phase' = "forward" /\ after' = "search"
      <4>1. SearchRuns'
        BY <1>1, <2>1, <2>2, <2>3, <2>5, <3>1 DEF SearchRuns
      <4> QED BY <3>4, <4>1 DEF BehindInv
    <3> QED BY <1>1, <3>2, <3>3, <3>4, JumpCases DEF Resumed
  <2> QED BY <2>4, <2>5
<1>5. CASE PrintCmd
  <2>1. PICK uids : EnsureHere(uids \cap Alive(active.time), "print")
    BY <1>5 DEF PrintCmd
  <2>2. uids \cap Alive(active.time) \subseteq Numbered
    BY DEF Alive
  <2> QED BY <1>1, <2>1, <2>2, EnsureHereBehind
<1>6. CASE Inspect
  <2>1. CASE active' = Taint(active) /\ Continue("done")
    <3>1. active'.time = active.time
      BY <2>1, ActiveFacts, TaintType
    <3>2. Machine!Destination' = previous_time'
      BY <1>6 DEF Inspect, Ask, Machine!Destination
    <3> QED BY <1>1, <2>1, <3>1, <3>2, DoneBehind DEF Continue
  <2>2. CASE Jump(active.time, "recreate")
    BY <1>1, <2>2, JumpBehind
  <2> QED BY <1>6, <2>1, <2>2 DEF Inspect, Recreate
<1>7. CASE Break \/ Delete
  <2>1. Machine!Destination' = previous_time'
    BY <1>7 DEF Break, Delete, Ask, Machine!Destination
  <2> QED BY <1>1, <1>7, <2>1, DoneBehind DEF Break, Delete, Continue
<1>8. CASE Watch
  <2>1. CASE active.closed /\ Raise("watch") /\ active' = active
    BY <1>1, <2>1, DoneBehind DEF Raise, Continue
  <2>2. ASSUME NEW w, EnsureHere(Needs[w] \cap Alive(active.time), "watch")
        PROVE  BehindInv'
    <3>1. Needs[w] \cap Alive(active.time) \subseteq Numbered
      BY DEF Alive
    <3> QED BY <1>1, <2>2, <3>1, EnsureHereBehind
  <2> QED BY <1>8, <2>1, <2>2 DEF Watch
<1>9. CASE Quit
  BY <1>1, <1>9, OtherBehind DEF Quit
<1> QED BY <1>2, <1>3, <1>4, <1>5, <1>6, <1>7, <1>8, <1>9 DEF Command

\* What is promised of a command that is under way does not change.
LEMMA SamePromise ==
  ASSUME UNCHANGED <<armed, watchvalues, previous_time, request>>
  PROVE  /\ Machine!Destination' = Machine!Destination
         /\ Machine!Interruptions' = Machine!Interruptions
         /\ search' = search /\ SearchRuns => SearchRuns'
<1>1. Machine!Interruptions' = Machine!Interruptions
      /\ Machine!Noticed' = Machine!Noticed
  BY SameMachine
<1>2. Machine!Destination' = Machine!Destination
  BY <1>1 DEF Machine!Destination, Machine!Ahead, Machine!Behind
<1> QED BY <1>1, <1>2 DEF SearchRuns

LEMMA RunningBehind ==
  ASSUME IInv, RunInv, BehindInv, Running
  PROVE  BehindInv'
<1> SUFFICES ASSUME Plain, NoTicks PROVE BehindInv'
  BY DEF BehindInv, Plain, NoTicks
<1>1. /\ Moving
      /\ UNCHANGED <<armed, watchvalues, search, request, previous_time>>
  BY DEF Running, ForwardToClone, CloneHere, CloneActive, ForwardLast, Moving,
     kept
<1>2. /\ Machine!Destination' = Machine!Destination
      /\ after \in {"search", "searched"} => SearchRuns'
      /\ after = "searched" => search'.until <= search'.start
  BY <1>1, SamePromise DEF BehindInv
<1>3. CASE active.closed /\ Raise(after) /\ active' = active
  BY <1>3, FailedBehind DEF Failed
<1>4. CASE /\ after' = after /\ phase' \in {"forward", "clone"}
           /\ after = "done" => active'.time + call'.steps = active.time + call.steps
  BY <1>1, <1>2, <1>4 DEF BehindInv, Moving
<1>5. CASE /\ after' = after /\ phase' = "return"
           /\ after = "done" => active'.time = active.time + call.steps
  BY <1>1, <1>2, <1>5 DEF BehindInv, Moving
<1>6. CASE CloneHere \/ (CloneActive /\ ~active.closed)
  BY <1>4, <1>6 DEF CloneHere, CloneActive
<1>7. CASE CloneActive /\ active.closed
  BY <1>3, <1>7 DEF CloneActive
<1>8. CASE RanToClone \/ RanToHit \/ RanToEnd
  <2>1. PICK steps : Ran(steps) /\ steps \in Nat
                     /\ \/ RanToClone /\ steps = ToClone
                        \/ RanToHit
                        \/ RanToEnd /\ steps = StepsLeft
    BY <1>8 DEF RanToClone, RanToHit, RanToEnd, Ran
  <2>2. after' = after
    BY <2>1 DEF Ran
  <2>3. CASE after # "done"
    BY <1>4, <1>5, <1>8, <2>2, <2>3 DEF RanToClone, RanToHit, RanToEnd
  <2>4. CASE after = "done"
    <3>1. /\ call.mode = "i" /\ active.time + call.steps \in Times
          /\ active.time \in Nat /\ call.steps \in Nat
      BY <1>1, <2>4, ActiveFacts DEF RunInv, ModeOf, BehindInv, Calls
    <3>2. StepsLeft = call.steps
      <4>1. active.time + call.steps <= Total
        BY <3>1, TotalAssumption DEF Times
      <4> QED BY <4>1, StepsLeftIs
    <3>3. active'.time = active.time + steps
      BY <2>1, <3>1, RanFacts
    <3>4. CASE RanToClone /\ steps = ToClone
      <4>1. phase' = "clone" /\ call'.steps = call.steps - steps
        BY <3>2, <3>4 DEF RanToClone
      <4>2. active'.time + call'.steps = active.time + call.steps
        BY <2>1, <3>1, <3>3, <4>1
      <4>3. phase' \in {"forward", "clone"}
        BY <4>1
      <4> QED BY <1>4, <2>2, <4>2, <4>3
    <3>5. ~RanToHit
      BY <3>1 DEF RanToHit
    <3>6. CASE RanToEnd /\ steps = StepsLeft
      BY <1>5, <2>2, <3>2, <3>3, <3>6 DEF RanToEnd
    <3> QED BY <2>1, <3>4, <3>5, <3>6
  <2> QED BY <2>3, <2>4
<1> QED BY <1>3, <1>6, <1>7, <1>8, ForwardCases DEF Running

\* The window reports the last interruption before the prompt.
LEMMA HitBehind ==
  ASSUME IInv, RunInv, SearchInv, ObjectsInv, AheadInv, BehindInv,
         Plain, NoTicks, HitBreakpoints
  PROVE  BehindInv'
<1>1. /\ phase = "return" /\ after \in {"stepped", "searched"} /\ ~Gone
      /\ UNCHANGED <<armed, watchvalues, request, previous_time, search>>
      /\ ~active.tainted /\ phase # "exited"
      /\ previous_time \in Times /\ previous_time \in Nat
  BY TimesNat DEF HitBreakpoints, Back, kept, Gone, RunInv, IInv, TypeOK
<1>2. Machine!Destination' = Machine!Destination
  BY <1>1, SamePromise
<1>3. CASE after = "stepped"
  <2>1. /\ request \in [op: {"step"}, arg: Args]
        /\ active.time = Machine!Ahead(request.arg)
        /\ call.latest = NoHit \/ call.latest.time = active.time
    BY <1>1, <1>3 DEF AheadInv
  <2>2. Machine!Destination = active.time
    BY <2>1 DEF Machine!Destination
  <2>3. active' = active /\ Continue("done")
    BY <2>1, <1>3 DEF HitBreakpoints
  <2> QED BY <1>2, <2>2, <2>3, DoneBehind DEF Continue
<1>4. CASE after = "searched"
  <2> DEFINE n == request.arg
  <2>1. /\ armed # {} /\ request \in [op: {"bstep"}, arg: Args] /\ n \in Nat
        /\ search.until = previous_time - n
        /\ search.stop <= previous_time /\ search.until <= search.start
        /\ \A g \in Machine!Interruptions : g < previous_time => g < search.stop
    BY <1>4, ArgsNat DEF BehindInv, SearchRuns
  <2>2. call.latest # NoHit
    BY <1>4 DEF HitBreakpoints, Back
  <2>3. /\ active.time = search.stop /\ Seen # {}
        /\ call.latest = [time |-> Max(Seen), watch |-> Max(Seen) \in WatchHits]
        /\ search.start \in Nat /\ search.stop \in Nat
    BY <1>1, <1>4, <2>2, TimesNat DEF SearchInv, SearchedWindow, LatestSeen
  <2> DEFINE last == Max(Seen)
  <2>4. Hits = Machine!Interruptions /\ WatchHits = Machine!Noticed
    BY <1>1, <1>4, HitsInterrupt
  <2>5. last \in Seen /\ \A g \in Seen : g <= last
    <3>1. ASSUME NEW g \in Seen PROVE g \in Nat /\ g <= Total
      <4>1. g \in Nat /\ g < Total /\ Total \in Nat
        BY <2>4, InterruptionsType, TotalAssumption DEF Seen
      <4> QED BY <4>1
    <3> QED BY <2>3, <3>1, MaxOfTimes, TotalAssumption
  <2> HIDE DEF last
  <2>6. /\ last \in Machine!Interruptions /\ last \in Nat
        /\ search.start <= last /\ last < search.stop
        /\ 1 <= last /\ last < Total
    BY <2>3, <2>4, <2>5, InterruptionsType DEF Seen
  <2>7. \A g \in Machine!Interruptions : g < previous_time => g <= last
    <3> SUFFICES ASSUME NEW g \in Machine!Interruptions, g < previous_time
                 PROVE  g <= last
      OBVIOUS
    <3>1. g \in Nat /\ g < search.stop
      BY <2>1, InterruptionsType
    <3>2. CASE search.start <= g
      BY <2>3, <2>4, <2>5, <3>1, <3>2 DEF Seen
    <3>3. CASE g < search.start
      BY <2>3, <2>6, <3>1, <3>3
    <3> QED BY <2>3, <3>1, <3>2, <3>3
  <2>8. previous_time - n <= last /\ last < previous_time
    BY <1>1, <2>1, <2>3, <2>6
  <2>9. Machine!Behind(n) = last + IF last \in Machine!Noticed THEN 1 ELSE 0
    BY <1>1, <2>1, <2>6, <2>7, <2>8, BehindLast
  <2>10. HitTime = Machine!Behind(n)
    <3>1. call.latest.time = last
          /\ call.latest.watch = (last \in Machine!Noticed)
      BY <2>3, <2>4 DEF last
    <3> QED BY <1>4, <2>9, <3>1 DEF HitTime
  <2>11. HitTime \in Int /\ Clamp(HitTime) = HitTime
    BY <2>6, <2>9, <2>10, TotalAssumption DEF Clamp
  <2>12. Machine!Destination = HitTime
    BY <2>1, <2>10 DEF Machine!Destination
  <2>13. Jump(HitTime, "done")
    BY <2>2, <2>3, <2>6, <1>4 DEF HitBreakpoints, last
  <2> QED BY <1>1, <1>2, <2>11, <2>12, <2>13, JumpBehind
<1> QED BY <1>1, <1>3, <1>4

\* The search ends, at the limit, or goes through one more window.
LEMMA WindowBehind ==
  ASSUME IInv, RunInv, SearchInv, BehindInv, Plain, NoTicks, SearchWindow
  PROVE  BehindInv'
<1>1. /\ phase = "return" /\ after = "search" /\ active' = active
      /\ UNCHANGED <<armed, watchvalues, request, previous_time>>
      /\ search' = [search EXCEPT !.start = active.time]
      /\ active.time = Clamp(Max({search.start, search.until}))
  BY DEF SearchWindow, Back, kept, RunInv, Bound, Goal
<1> DEFINE n     == request.arg
           limit == Max({search.start, search.until})
<1>2. /\ armed # {} /\ request \in [op: {"bstep"}, arg: Args] /\ n \in Nat
      /\ search.until = previous_time - n /\ search.until <= search.stop
      /\ search.stop <= previous_time
      /\ \A g \in Machine!Interruptions : g < previous_time => g < search.stop
  BY <1>1, ArgsNat DEF BehindInv, SearchRuns
<1>3. /\ search \in Searches /\ search.start \in Int /\ search.until \in Int
      /\ search.stop \in Nat /\ 1 <= search.stop /\ search.stop <= Total
      /\ search.start < search.stop /\ Total \in Nat
      /\ previous_time \in Nat
  BY <1>1, TimesNat, TotalAssumption DEF IInv, TypeOK, Searches, SearchInv, Times
<1>4. /\ limit = search.start \/ limit = search.until
      /\ search.start <= limit /\ search.until <= limit
  <2>1. \E m \in {search.start, search.until} :
          \A k \in {search.start, search.until} : m >= k
    BY <1>3
  <2>2. /\ limit \in {search.start, search.until}
        /\ \A k \in {search.start, search.until} : limit >= k
    BY <2>1 DEF Max
  <2> HIDE DEF limit
  <2>3. limit \in Int
    BY <1>3, <2>2
  <2> QED BY <1>3, <2>2, <2>3
<1>5. active.time = Clamp(limit)
  BY <1>1
<1> HIDE DEF limit
<1>6. Machine!Destination' = Machine!Destination
      /\ Machine!Interruptions' = Machine!Interruptions
      /\ Machine!Destination = Machine!Behind(n)
  BY <1>1, <1>2, SamePromise DEF Machine!Destination
<1>7. CASE search.stop <= active.time
  <2>1. Continue("done")
    BY <1>7 DEF SearchWindow
  <2>2. /\ active.time = search.stop
        /\ Clamp(search.until) = search.stop
        /\ search.until = search.stop \/ search.stop = 1
    BY <1>3, <1>4, <1>5, <1>7, <1>2 DEF Clamp
  <2>3. \A g \in Machine!Interruptions :
          ~(previous_time - n <= g /\ g < previous_time)
    <3> SUFFICES ASSUME NEW g \in Machine!Interruptions,
                        previous_time - n <= g, g < previous_time
                 PROVE  FALSE
      OBVIOUS
    <3>1. g \in Nat /\ 1 <= g /\ g < search.stop
      BY <1>2, InterruptionsType
    <3> QED BY <1>2, <1>3, <2>2, <3>1
  <2>4. Machine!Behind(n) = active.time
    BY <1>2, <2>2, <2>3, BehindNone
  <2> QED BY <1>1, <1>6, <2>1, <2>4, DoneBehind DEF Continue
<1>8. CASE ~(search.stop <= active.time)
  <2>1. phase' = "forward" /\ after' = "searched"
    BY <1>8 DEF SearchWindow, GoForward
  <2>2. search'.start = active.time /\ search'.until = search.until
        /\ search'.stop = search.stop
    BY <1>1, <1>3 DEF Searches
  <2>3. search'.until <= search'.start
    BY <1>2, <1>3, <1>4, <1>5, <2>2 DEF Clamp
  <2>4. SearchRuns'
    BY <1>1, <1>2, <1>6, <2>2 DEF SearchRuns
  <2> QED BY <2>1, <2>3, <2>4 DEF BehindInv
<1> QED BY <1>7, <1>8

\* Nothing in the window: there is nothing between it and the prompt.
LEMMA FartherBehind ==
  ASSUME IInv, RunInv, SearchInv, ObjectsInv, BehindInv, Plain, NoTicks,
         SearchFarther
  PROVE  BehindInv'
<1>1. /\ phase = "return" /\ after = "searched" /\ call.latest = NoHit
      /\ UNCHANGED <<armed, watchvalues, request, previous_time>>
      /\ search' = Farther
      /\ Jump(Max({search'.start, search.until}), "search")
      /\ ~Gone /\ ~active.tainted /\ phase # "exited"
  BY DEF SearchFarther, Back, kept, Gone, RunInv
<1>2. /\ SearchRuns /\ search.until <= search.start
      /\ Window = {} /\ search.stop \in Nat /\ search.start \in Nat
      /\ search.start < search.stop /\ search \in Searches
  BY <1>1, TimesNat DEF BehindInv, SearchInv, SearchedWindow, IInv, TypeOK
<1>3. /\ search'.until = search.until /\ search'.stop = search.start
      /\ search'.start \in Int /\ search.until \in Int
  BY <1>1, <1>2 DEF Farther, FartherStart, Searches
<1>4. Hits = Machine!Interruptions
      /\ Machine!Interruptions' = Machine!Interruptions
  BY <1>1, HitsInterrupt, SamePromise
<1>5. \A g \in Machine!Interruptions : g < previous_time => g < search.start
  <2> SUFFICES ASSUME NEW g \in Machine!Interruptions, g < previous_time
               PROVE  g < search.start
    OBVIOUS
  <2>1. g \in Nat /\ g < search.stop
    BY <1>2, InterruptionsType DEF SearchRuns
  <2>2. ~(search.start <= g)
    BY <1>2, <1>4, <2>1 DEF Window
  <2> QED BY <1>2, <2>1, <2>2
<1>6. SearchRuns'
  <2>1. previous_time \in Nat
    BY TimesNat DEF IInv, TypeOK
  <2>2. search.start <= previous_time
    BY <1>2, <2>1 DEF SearchRuns
  <2> QED BY <1>1, <1>2, <1>3, <1>4, <1>5, <2>2 DEF SearchRuns
<1>7. Max({search'.start, search.until}) \in Int
  BY <1>3, MaxOfTwo
<1>8. CASE Failed("search")
  BY <1>8, FailedBehind
<1>9. CASE phase' = "forward" /\ after' = "search"
  BY <1>6, <1>9 DEF BehindInv
<1> QED BY <1>1, <1>7, <1>8, <1>9, JumpCases DEF Resumed

LEMMA BackBehind ==
  ASSUME IInv, RunInv, Asked, StepOn \/ PrintAnswer \/ WatchAnswer
  PROVE  BehindInv'
<1>1. phase = "return" /\ previous_time' = previous_time
  BY DEF StepOn, PrintAnswer, WatchAnswer, Back
<1>2. CASE StepOn
  BY <1>2, OtherBehind DEF StepOn, GoForward
<1>3. CASE PrintAnswer
  <2>1. active.time = previous_time /\ active.time \in Int
    BY <1>3, ActiveFacts DEF PrintAnswer, Back, RunInv, Bound, Goal
  <2>2. Taint(active) \in Process /\ Taint(active).time = active.time
    BY ActiveFacts, TaintType
  <2>3. ASSUME active'.time = active.time, Continue("done") PROVE BehindInv'
    <3>1. request'.op = "look"
      BY <1>3 DEF PrintAnswer, Back, Asked
    <3>2. Machine!Destination' = previous_time'
      BY <3>1 DEF Machine!Destination
    <3> QED BY <1>1, <2>1, <2>3, <3>2, DoneBehind DEF Continue
  <2>4. ASSUME NEW found,
               active' = [Taint(active) EXCEPT !.printed = @ \cup found]
        PROVE  active'.time = active.time
    BY <2>2, <2>4 DEF Process
  <2>5. CASE Jump(active.time, "recreate")
    BY <1>1, <2>1, <2>5, JumpBehind
  <2> QED BY <1>3, <2>2, <2>3, <2>4, <2>5 DEF PrintAnswer, Recreate
<1>4. CASE WatchAnswer
  <2>1. active.time = previous_time /\ Continue("done") /\ active' = active
    BY <1>4 DEF WatchAnswer, Back, RunInv, Bound, Goal
  <2>2. request'.op = "arm"
    BY <1>4 DEF WatchAnswer, Back, IInv, Staged
  <2>3. Machine!Destination' = previous_time'
    BY <2>2 DEF Machine!Destination
  <2> QED BY <1>1, <2>1, <2>3, DoneBehind DEF Continue
<1> QED BY <1>2, <1>3, <1>4

LEMMA PromptBehind ==
  ASSUME IInv, \/ Prompt \/ PromptMoved \/ PromptDied \/ PromptRestart
               \/ Interrupt \/ InterruptAgain
  PROVE  BehindInv'
<1>1. CASE Prompt \/ PromptMoved
  BY <1>1 DEF Prompt, PromptMoved, Show, BehindInv, Moving
<1>2. CASE PromptDied
  BY <1>2, OtherBehind DEF PromptDied, Die, Arrived
<1>3. CASE PromptRestart
  BY <1>3, JumpBehind DEF PromptRestart, Arrived
<1>4. CASE Interrupt
  <2>1. previous_time \in Int
    BY TimesNat DEF IInv, TypeOK
  <2> QED BY <1>4, <2>1, JumpBehind DEF Interrupt, RestoredTime
<1>5. CASE InterruptAgain
  BY <1>5, OtherBehind DEF InterruptAgain
<1> QED BY <1>1, <1>2, <1>3, <1>4, <1>5

LEMMA KeepsBehind ==
  ASSUME IInv, RunInv, SearchInv, ObjectsInv, AheadInv, Asked, BehindInv,
         [Next]_vars
  PROVE  BehindInv'
<1> SUFFICES ASSUME Plain, NoTicks PROVE BehindInv'
  BY DEF BehindInv, Plain, NoTicks
<1>1. CASE Crash \/ UNCHANGED vars
  <2>1. /\ active'.time = active.time
        /\ phase = "forward" \/ active' = active
        /\ UNCHANGED <<armed, watchvalues, movement, request, previous_time>>
    BY <1>1, CrashKeeps DEF vars, kept
  <2>2. SearchRuns => SearchRuns'
    BY <2>1, SamePromise DEF movement
  <2>3. Machine!Destination' = Machine!Destination
    BY <2>1, SamePromise
  <2> QED BY <2>1, <2>2, <2>3 DEF movement, BehindInv, Moving
<1>2. CASE Ended
  BY <1>1, <1>2 DEF Ended
<1> QED BY <1>1, <1>2, CommandBehind, RunningBehind, HitBehind,
        WindowBehind, FartherBehind, BackBehind, PromptBehind
     DEF Next, Work, Running

\* What is known of the time to be shown holds in every behaviour.
THEOREM BehindHolds == Spec => []BehindInv
<1>1. Init => BehindInv
  BY DEF Init, BehindInv, Moving
<1>2. /\ IInv /\ RunInv /\ SearchInv /\ ObjectsInv /\ AheadInv /\ Asked
      /\ BehindInv /\ [Next]_vars
      => BehindInv'
  BY KeepsBehind
<1> QED BY <1>1, <1>2, InvariantHolds, RunsReachGoal, SearchHolds, ObjectsHold,
        AheadHolds, RequestsHold, PTL DEF Spec
-----------------------------------------------------------------------------
(***************************************************************************)
(* The refinement.  A dead process at the prompt makes the debugger start  *)
(* again from time 1 if an object of a watchpoint is to be recorded; that  *)
(* is promised to nobody.  It takes a watchpoint with objects, and Ctrl-C  *)
(* or a process that dies while it runs.                                   *)
(***************************************************************************)
Calm == Plain /\ NoTicks /\ (Objectless \/ (~Interrupts /\ ~Crashes))

RestartInv == Calm => after # "restart"

LEMMA NoRestart ==
  ASSUME Calm, AliveInv
  PROVE  ~PromptRestart
<1> SUFFICES ASSUME PromptRestart PROVE FALSE
  OBVIOUS
<1>1. phase = "return" /\ active.closed /\ WatchUids # {}
  BY DEF PromptRestart, Arrived
<1>2. CASE ~Interrupts /\ ~Crashes
  BY <1>1, <1>2 DEF AliveInv, Undisturbed
<1>3. CASE Objectless
  BY <1>1, <1>3, ObjectlessUids
<1> QED BY <1>2, <1>3 DEF Calm

LEMMA KeepsAfter ==
  ASSUME IInv, AliveInv, RestartInv, [Next]_vars
  PROVE  RestartInv'
<1> SUFFICES ASSUME Calm PROVE after' # "restart"
  BY DEF RestartInv, Calm, Plain, NoTicks
<1>1. after # "restart" /\ ~PromptRestart
  BY NoRestart DEF RestartInv
<1>2. CASE Command
  BY <1>2, CommandAsked
<1>3. CASE Running
  BY <1>1, <1>3, RunningAfter
<1>4. CASE \/ StepOn \/ HitBreakpoints \/ SearchWindow \/ SearchFarther
           \/ PrintAnswer \/ WatchAnswer
  BY <1>4, BackAfter
<1>5. CASE Prompt \/ PromptMoved \/ PromptDied
  BY <1>1, <1>5 DEF Prompt, PromptMoved, PromptDied, Show, Die
<1>6. CASE Interrupt
  BY <1>6, JumpAfter DEF Interrupt
<1>7. CASE InterruptAgain \/ Crash \/ Ended \/ UNCHANGED vars
  BY <1>1, <1>7 DEF InterruptAgain, Crash, Ended, vars, movement
<1> QED BY <1>1, <1>2, <1>3, <1>4, <1>5, <1>6, <1>7 DEF Next, Work, Running

\* Nobody is sent back to time 1.
THEOREM NeverRestarts == Spec => []RestartInv
<1>1. Init => RestartInv
  BY DEF Init, RestartInv
<1>2. IInv /\ AliveInv /\ RestartInv /\ [Next]_vars => RestartInv'
  BY KeepsAfter
<1> QED BY <1>1, <1>2, InvariantHolds, ForksStayAlive, PTL DEF Spec

(***************************************************************************)
(* The program under the prompt: a process that takes the place of another *)
(* one is a fork, in which no code was run.                                *)
(***************************************************************************)
LEMMA FailedClean ==
  ASSUME IInv, NEW k, Failed(k)
  PROVE  active'.dirty => active.dirty
BY ActiveFacts, CloseType DEF Failed

LEMMA ResumedClean ==
  ASSUME IInv', NEW goal, NEW k, NEW uids, Resumed(goal, k, uids)
  PROVE  ~active'.dirty
BY DEF IInv, Unmoved, Resumed

LEMMA JumpClean ==
  ASSUME IInv, IInv', phase # "exited", NEW target \in Int, NEW k,
         Jump(target, k)
  PROVE  active'.dirty => active.dirty
BY JumpCases, FailedClean, ResumedClean

LEMMA CommandClean ==
  ASSUME IInv, IInv', RunInv, Command
  PROVE  active'.dirty => active.dirty \/ request'.op = "look"
<1>1. phase # "exited" /\ active.time \in Int
  BY CommandAsked, ActiveFacts
<1>2. CASE PrintCmd \/ Inspect \/ Quit
  BY <1>2, CommandAsked
<1>3. CASE Go
  BY <1>1, <1>3, ArgsNat, JumpClean DEF Go
<1>4. CASE Step
  BY <1>1, <1>4, JumpClean DEF Step
<1>5. CASE BStep
  <2> DEFINE first == IF Armed # {} THEN WatchSearchSteps ELSE SearchSteps
  <2>1. PICK n \in Args :
          IF armed = {}
            THEN Jump(active.time - n, "done")
            ELSE /\ search' = [start |-> active.time - first,
                               stop  |-> active.time,
                               until |-> active.time - n]
                 /\ Jump(Max({search'.start, active.time - n}), "search")
    BY <1>5 DEF BStep
  <2>2. first \in Int /\ n \in Int
    BY ArgsNat, GroupAssumption
  <2> HIDE DEF first
  <2>3. active.time - n \in Int /\ active.time - first \in Int
    BY <1>1, <2>2
  <2>4. CASE armed = {}
    BY <1>1, <2>1, <2>3, <2>4, JumpClean
  <2>5. CASE armed # {}
    <3>1. search'.start \in Int
      BY <2>1, <2>3, <2>5
    <3>2. Max({search'.start, active.time - n}) \in Int
      BY <2>3, <3>1, MaxOfTwo
    <3> QED BY <1>1, <2>1, <2>5, <3>2, JumpClean
  <2> QED BY <2>4, <2>5
<1>6. CASE Break \/ Delete
  BY <1>6 DEF Break, Delete
<1>7. CASE Watch
  <2>1. PICK w : IF active.closed THEN active' = active
                 ELSE EnsureHere(Needs[w] \cap Alive(active.time), "watch")
    BY <1>7 DEF Watch
  <2>2. Needs[w] \cap Alive(active.time) \in SUBSET Numbered
    BY DEF Alive
  <2>3. CASE EnsureHere(Needs[w] \cap Alive(active.time), "watch")
    BY <1>1, <2>2, <2>3, EnsureHereCases, FailedClean, ResumedClean
  <2> QED BY <2>1, <2>3
<1> QED BY <1>2, <1>3, <1>4, <1>5, <1>6, <1>7 DEF Command

LEMMA RunningClean ==
  ASSUME IInv, IInv', Running
  PROVE  active'.dirty => active.dirty
<1>1. CASE CloneHere \/ CloneActive
  BY <1>1 DEF CloneHere, CloneActive
<1>2. CASE active' = active
  BY <1>2
<1>3. CASE RanToClone \/ RanToHit \/ RanToEnd
  <2>1. PICK steps : Ran(steps)
    BY <1>3 DEF RanToClone, RanToHit, RanToEnd
  <2>2. active'.tainted = active.tainted
    BY <2>1, RanFacts
  <2>3. ~active.tainted
    BY DEF Running, ForwardToClone, CloneHere, CloneActive, ForwardLast, IInv,
       Unmoved
  <2> QED BY <2>2, <2>3 DEF IInv, Unmoved
<1> QED BY <1>1, <1>2, <1>3, ForwardCases DEF Running

LEMMA BackClean ==
  ASSUME IInv, IInv', Asked,
         \/ StepOn \/ HitBreakpoints \/ SearchWindow \/ SearchFarther
         \/ PrintAnswer \/ WatchAnswer
  PROVE  active'.dirty => active.dirty \/ request'.op = "look"
<1>1. phase # "exited"
  BY BackAfter
<1>2. CASE StepOn \/ SearchWindow \/ WatchAnswer
  BY <1>2 DEF StepOn, SearchWindow, WatchAnswer
<1>3. CASE HitBreakpoints
  <2>1. HitTime \in Int
    BY DEF HitTime, IInv, TypeOK, Calls, Reports
  <2> QED BY <1>1, <1>3, <2>1, JumpClean DEF HitBreakpoints
<1>4. CASE SearchFarther
  <2>1. /\ search \in Searches /\ search' = Farther
        /\ Jump(Max({search'.start, search.until}), "search")
    BY <1>4 DEF SearchFarther, IInv, TypeOK
  <2>2. search'.start \in Int /\ search.until \in Int
    BY <2>1 DEF Searches, Farther, FartherStart
  <2>3. Max({search'.start, search.until}) \in Int
    BY <2>2, MaxOfTwo
  <2> QED BY <1>1, <2>1, <2>3, JumpClean
<1>5. CASE PrintAnswer
  BY <1>5 DEF PrintAnswer, Back, Asked
<1> QED BY <1>2, <1>3, <1>4, <1>5

LEMMA ProgramIs ==
  ASSUME AliveInv', active'.dirty => active.dirty \/ request'.op = "look"
  PROVE  Machine!Program
<1>1. active'.closed /\ phase' # "exited" => Interrupts \/ Crashes
  BY DEF AliveInv, Undisturbed
<1> QED BY <1>1 DEF Machine!Program

-----------------------------------------------------------------------------
\* A command is asked of the machine: nothing has moved, and what is armed
\* is as it was or as the command makes it.
LEMMA CommandAsks ==
  ASSUME IInv, IInv', RunInv, AliveInv', Asked, Command
  PROVE  Machine!Ask
<1>1. /\ phase = "prompt" /\ previous_time' = previous_time
      /\ request = Machine!NoRequest
      /\ after # "recover" /\ after' # "recover"
  BY CommandAsked DEF Command, Go, Step, BStep, PrintCmd, Inspect, Break,
     Delete, Watch, Quit, Ask, Asked, IInv, Staged
<1>2. Machine!Program
  BY CommandClean, ProgramIs
<1>3. ASSUME request' \in Machine!Requests,
             \/ armed' = armed
             \/ /\ armed' = Machine!Edited(request')
                /\ armed' \cap Watches \subseteq armed,
             \A w \in armed' \cap Watches : watchvalues'[w] = watchvalues[w]
      PROVE  Machine!Ask
  BY <1>1, <1>2, <1>3 DEF Machine!Ask
<1>4. CASE Go \/ Step \/ BStep
  <2>1. PICK op \in {"go", "step", "bstep"}, n \in Args : Ask(op, n)
    BY <1>4 DEF Go, Step, BStep
  <2>2. request' \in [op: {"go", "step", "bstep"}, arg: Args]
    BY <2>1 DEF Ask
  <2>3. UNCHANGED kept
    BY <1>4 DEF Go, Step, BStep
  <2> QED BY <1>3, <2>2, <2>3 DEF kept, Machine!Requests
<1>5. CASE PrintCmd \/ Inspect \/ Quit
  <2>1. request' = [op |-> "look", arg |-> 0] /\ UNCHANGED kept
    BY <1>5 DEF PrintCmd, Inspect, Quit, Ask
  <2> QED BY <1>3, <2>1 DEF kept, Machine!Requests
<1>6. CASE Break
  <2>1. PICK b \in Breaks : /\ request' = [op |-> "arm", arg |-> b]
                            /\ armed' \in {armed, armed \cup {b}}
    BY <1>6 DEF Break, Ask
  <2>2. Machine!Edited(request') = armed \cup {b} /\ b \notin Watches
    BY <2>1, StopsAssumption DEF Machine!Edited
  <2>3. watchvalues' = watchvalues
    BY <1>6 DEF Break
  <2> QED BY <1>3, <2>1, <2>2, <2>3 DEF Machine!Requests
<1>7. CASE Delete
  <2>1. PICK x \in armed : /\ request' = [op |-> "disarm", arg |-> x]
                           /\ armed' = armed \ {x}
                           /\ watchvalues' = [w \in Watches |->
                                IF w = x THEN NoText ELSE watchvalues[w]]
    BY <1>7 DEF Delete, Ask
  <2>2. Machine!Edited(request') = armed \ {x} /\ x \in Breaks \cup Watches
    BY <2>1 DEF Machine!Edited, IInv, TypeOK
  <2> QED BY <1>3, <2>1, <2>2 DEF Machine!Requests
<1>8. CASE Watch
  <2>1. PICK w \in Watches : request' = [op |-> "arm", arg |-> w]
    BY <1>8 DEF Watch, Ask
  <2>2. UNCHANGED kept
    BY <1>8 DEF Watch
  <2> QED BY <1>3, <2>1, <2>2 DEF kept, Machine!Requests
<1> QED BY <1>4, <1>5, <1>6, <1>7, <1>8 DEF Command

\* What the user sees of a step that does not end a command.
LEMMA Unseen ==
  ASSUME UNCHANGED <<previous_time, armed, watchvalues, request>>,
         (after' = "recover") = (after = "recover"),
         \/ Machine!Program /\ (request # Machine!NoRequest \/ after = "recover")
         \/ /\ active' = active
            /\ (phase' = "exited") = (phase = "exited")
  PROVE  [Machine!MachineNext]_(Machine!machineVars)
<1>1. CASE Machine!Program /\ (request # Machine!NoRequest \/ after = "recover")
  BY <1>1 DEF Machine!MachineNext, Machine!Work
<1>2. CASE active' = active /\ (phase' = "exited") = (phase = "exited")
  <2>1. (active.closed /\ phase # "exited")' = (active.closed /\ phase # "exited")
    BY <1>2
  <2> QED BY <1>2, <2>1 DEF Machine!machineVars
<1> QED BY <1>1, <1>2

\* A watchpoint is added late in its command.
LEMMA WatchEdits ==
  ASSUME IInv, RunInv, ObjectsInv, Plain, WatchAnswer
  PROVE  [Machine!MachineNext]_(Machine!machineVars)
<1>1. /\ after # "recover" /\ after' # "recover" /\ active' = active
      /\ phase # "exited" /\ phase' # "exited"
      /\ UNCHANGED <<request, previous_time>>
  BY BackAfter DEF WatchAnswer, Back, Continue
<1>2. CASE UNCHANGED <<armed, watchvalues>>
  BY <1>1, <1>2, Unseen
<1>3. CASE ~UNCHANGED <<armed, watchvalues>>
  <2>1. /\ request.op = "arm" /\ request.arg \in Watches
        /\ armed' = armed \cup {request.arg}
        /\ watchvalues'
             \in Machine!Showing(previous_time, active.dirty, armed' \cap Watches)
    BY <1>3, AddedIsShown DEF Armed
  <2>2. armed' = Machine!Edited(request)
    BY <2>1 DEF Machine!Edited
  <2>3. (active.closed /\ phase # "exited")' = (active.closed /\ phase # "exited")
        /\ (after = "recover")' = (after = "recover")
    BY <1>1
  <2>4. Machine!Watch
    BY <1>1, <2>1, <2>2, <2>3 DEF Machine!Watch
  <2> QED BY <2>4 DEF Machine!MachineNext
<1> QED BY <1>2, <1>3

\* The prompt shows the time that the command promises, or after Ctrl-C the
\* one before; it shows the one before too if the process is dead.
LEMMA PromptAnswers ==
  ASSUME IInv, RunInv, ObjectsInv, BehindInv, RestartInv, Asked, Calm,
         Prompt \/ PromptMoved
  PROVE  [Machine!MachineNext]_(Machine!machineVars)
<1>1. /\ phase = "return" /\ after \in {"done", "recreate", "recover"}
      /\ request' = Machine!NoRequest /\ armed' = armed /\ active' = active
      /\ phase' = "prompt" /\ after' = "done"
  BY DEF Prompt, PromptMoved, Arrived, Show, kept, RestartInv
<1>2. (active.closed /\ phase # "exited")' = (active.closed /\ phase # "exited")
  BY <1>1
<1>3. after = "recreate" => active.time = previous_time
                            /\ Machine!Destination = previous_time
  BY <1>1 DEF RunInv, Bound, Goal, Asked, Machine!Destination
<1>4. after = "done" => active.closed \/ active.time = Machine!Destination
  BY <1>1 DEF BehindInv, Calm
<1>5. after # "recover" => request # Machine!NoRequest
  BY <1>1 DEF Asked
<1>6. CASE after = "recover"
  <2>1. PromptMoved /\ active.time = previous_time
    BY <1>1, <1>6 DEF Prompt, Moved, RunInv, Bound, Goal
  <2>2. /\ ~active.dirty /\ ~active.closed
        /\ previous_time' = previous_time
        /\ watchvalues' \in Machine!Showing(previous_time, FALSE, armed \cap Watches)
    BY <2>1, MovedIsClean DEF Calm, Armed
  <2>3. Machine!Restored
    BY <1>1, <1>6, <2>2 DEF Machine!Restored
  <2> QED BY <2>3 DEF Machine!MachineNext
<1>7. CASE after # "recover" /\ Prompt
  <2>1. /\ UNCHANGED <<armed, watchvalues, previous_time>>
        /\ active.time = previous_time
    BY <1>7 DEF Prompt, Moved, kept
  <2>2. CASE active.closed
    <3>1. Machine!Failed
      BY <1>1, <1>2, <1>5, <1>7, <2>1, <2>2 DEF Machine!Failed
    <3> QED BY <3>1 DEF Machine!MachineNext
  <2>3. CASE ~active.closed
    <3>1. previous_time' = Machine!Destination
      BY <1>1, <1>3, <1>4, <1>7, <2>1, <2>3
    <3>2. Machine!Answer
      BY <1>1, <1>2, <1>5, <1>7, <2>1, <3>1 DEF Machine!Answer
    <3> QED BY <3>2 DEF Machine!MachineNext
  <2> QED BY <2>2, <2>3
<1>8. CASE after # "recover" /\ PromptMoved
  <2>1. /\ active.time # previous_time /\ after = "done"
    BY <1>1, <1>3, <1>8 DEF PromptMoved, Moved
  <2>2. /\ ~active.dirty /\ ~active.closed
        /\ previous_time' = active.time
        /\ watchvalues' \in Machine!Showing(active.time, FALSE, armed \cap Watches)
    BY <1>8, MovedIsClean DEF Calm, Armed
  <2>3. previous_time' = Machine!Destination
    BY <1>4, <2>1, <2>2
  <2>4. Machine!Answer
    BY <1>1, <1>2, <1>5, <2>1, <2>2, <2>3 DEF Machine!Answer
  <2> QED BY <2>4 DEF Machine!MachineNext
<1> QED BY <1>6, <1>7, <1>8

\* Ctrl-C takes effect.
LEMMA InterruptCuts ==
  ASSUME IInv, IInv', AliveInv', Interrupt
  PROVE  Machine!CtrlC
<1>1. /\ Interrupts /\ phase # "exited" /\ after # "recover"
      /\ Jump(previous_time, "recover")
      /\ UNCHANGED <<kept, request, previous_time>>
  BY DEF Interrupt, RestoredTime
<1>2. previous_time \in Int
  BY TimesNat DEF IInv, TypeOK
<1>3. after' = "recover"
  BY <1>1, JumpDies
<1>4. Machine!Program
  BY <1>1, <1>2, JumpClean, ProgramIs
<1> QED BY <1>1, <1>3, <1>4 DEF Machine!CtrlC, kept

\* All other steps are out of the user's sight.
LEMMA OthersUnseen ==
  ASSUME IInv, IInv', AliveInv, AliveInv', RestartInv, Asked, Calm, [Next]_vars,
         ~Command, ~WatchAnswer, ~Prompt, ~PromptMoved, ~Interrupt
  PROVE  [Machine!MachineNext]_(Machine!machineVars)
<1>1. CASE Running
  <2>1. /\ UNCHANGED <<kept, request, previous_time>>
        /\ request # Machine!NoRequest \/ after = "recover"
        /\ (after' = "recover") = (after = "recover")
    BY <1>1, RunningAfter DEF Asked, RestartInv
  <2>2. Machine!Program
    BY <1>1, RunningClean, ProgramIs
  <2> QED BY <2>1, <2>2, Unseen DEF kept
<1>2. CASE StepOn \/ HitBreakpoints \/ SearchWindow \/ SearchFarther
           \/ PrintAnswer
  <2>1. /\ UNCHANGED <<request, previous_time>>
        /\ request # Machine!NoRequest
        /\ (after' = "recover") = (after = "recover")
    BY <1>2, BackAfter DEF Asked
  <2>2. UNCHANGED <<armed, watchvalues>>
    BY <1>2 DEF StepOn, HitBreakpoints, SearchWindow, SearchFarther,
       PrintAnswer, kept
  <2>3. Machine!Program
    BY <1>2, BackClean, ProgramIs
  <2> QED BY <2>1, <2>2, <2>3, Unseen
<1>3. CASE PromptDied
  BY <1>3, Unseen DEF PromptDied, Die, Arrived, kept
<1>4. CASE InterruptAgain
  <2>1. Machine!Program
    BY <1>4, ProgramIs DEF InterruptAgain
  <2> QED BY <1>4, <2>1, Unseen DEF InterruptAgain, kept
<1>5. CASE Crash
  <2>1. active'.dirty = active.dirty
    BY <1>5, ActiveFacts, CloseType DEF Crash
  <2>2. Machine!Program
    BY <2>1, ProgramIs
  <2>3. request # Machine!NoRequest \/ after = "recover"
    BY <1>5 DEF Crash, Asked, Moving, RestartInv
  <2> QED BY <1>5, <2>2, <2>3, Unseen DEF Crash, kept, movement
<1>6. CASE Ended \/ UNCHANGED vars
  BY <1>6, Unseen DEF Ended, vars, movement
<1>7. ~PromptRestart
  BY NoRestart
<1> QED BY <1>1, <1>2, <1>3, <1>4, <1>5, <1>6, <1>7 DEF Next, Work, Running

\* Each step of the debugger is a step of the machine, or is not seen.
LEMMA StepsAreMachineSteps ==
  ASSUME IInv, IInv', RunInv, ObjectsInv, BehindInv, AliveInv, AliveInv',
         RestartInv, Asked, Calm, [Next]_vars
  PROVE  [Machine!MachineNext]_(Machine!machineVars)
<1>1. CASE Command
  BY <1>1, CommandAsks DEF Machine!MachineNext
<1>2. CASE Interrupt
  BY <1>2, InterruptCuts DEF Machine!MachineNext
<1>3. CASE WatchAnswer
  BY <1>3, WatchEdits DEF Calm
<1> QED BY <1>1, <1>2, <1>3, PromptAnswers, OthersUnseen

(***************************************************************************)
(* The debugger keeps its promise: through forks, searches in windows and  *)
(* code typed by the user, each command that ends shows the time that      *)
(* TimeMachine gives for it, and Ctrl-C at any point the time before the   *)
(* command; a command stays where it is only on a dead process.            *)
(***************************************************************************)
THEOREM KeepsPromise ==
  ASSUME Calm
  PROVE  Spec => Promise
<1>1. Init => Machine!MachineInit
  BY DEF Init, FirstProcess, Machine!MachineInit
<1>2. /\ IInv /\ IInv' /\ RunInv /\ ObjectsInv /\ BehindInv
      /\ AliveInv /\ AliveInv' /\ RestartInv /\ Asked /\ [Next]_vars
      => [Machine!MachineNext]_(Machine!machineVars)
  BY StepsAreMachineSteps
<1> QED BY <1>1, <1>2, InvariantHolds, RunsReachGoal, ObjectsHold, BehindHolds,
        ForksStayAlive, NeverRestarts, RequestsHold, PTL
     DEF Spec, Promise, Machine!MachineSpec
=============================================================================
