------------------------------ MODULE Stepping ------------------------------
(***************************************************************************)
(* The commands that step over and out of calls, and to another thread:    *)
(* next, bnext, finish, bfinish, nthread and bthread                       *)
(* (_revdb/interact.py).  They are loops around move_forward() and         *)
(* move_backward() with a temporary breakpoint at the calls that a frame   *)
(* makes, and see of the program only the numbers that come back: -1 for a *)
(* call and -2 for a return, in the order they happened.                   *)
(*                                                                         *)
(* A move is one step here: ReplayGroup shows where a move ends, and       *)
(* Breakpoints that the temporary breakpoint is known to the process and   *)
(* gone afterwards.                                                        *)
(***************************************************************************)
EXTENDS Integers, FiniteSetsExt, SequencesExt

CONSTANTS
  Total,          \* stop points of a recording
  Threads,        \* numbers of threads
  Beginnings,     \* bound: the stacks at the first stop point
  FirstNew,       \* larger than every frame there
  Shapes,         \* bound: what happens between two stop points
  MaxMarks        \* bound: hidden positions, and gaps in which a
                  \* breakpoint fires

Times == 1..Total
Gaps  == 1..(Total - 1)

NoThread == -1

Kinds == {"call", "return", "switch"}

States == [thread: Threads, stacks: [Threads -> Seq(Nat \ {0})]]

Stack(s) == s.stacks[s.thread]
Top(s)   == Last(Stack(s))
Depth(s) == Len(Stack(s))

\* Every thread is in a frame, and no frame is in two places.
Whole(s) ==
  /\ \A n \in Threads : s.stacks[n] # <<>>
  /\ \A n, m \in Threads :
     \A i \in 1..Len(s.stacks[n]), j \in 1..Len(s.stacks[m]) :
       s.stacks[n][i] = s.stacks[m][j] => n = m /\ i = j

Frames(s) == UNION {Range(s.stacks[n]) : n \in Threads}

ASSUME SteppingAssumption ==
  /\ Total \in Nat \ {0}
  /\ Threads \subseteq Nat
  /\ FirstNew \in Nat \ {0}
  /\ \A s \in Beginnings :
       s \in States /\ Whole(s) /\ \A f \in Frames(s) : f < FirstNew
  /\ Shapes \subseteq Seq(Kinds)
  /\ MaxMarks \in Nat

VARIABLES
  trace,      \* the recording: the stacks of the threads, as they change
  kinds,      \* what changes them
  at,         \* where in it the stop points are
  hidden,     \* the hidden positions
  stops,      \* the gaps in which a breakpoint of the user fires
  now,        \* the time at the prompt or within a command
  phase,      \* at the prompt, or in which loop of a command
  request,    \* the command under way and where it began
  frame       \* local stack_id of next and bnext

log  == <<trace, kinds, at, hidden, stops>>
vars == <<log, now, phase, request, frame>>

NoRequest == [op |-> "none", start |-> 1, thread |-> NoThread]

-----------------------------------------------------------------------------
(***************************************************************************)
(* The recording.  The program is not part of this repository; what is     *)
(* said of it here is what the loops rely on: a call puts a new frame on   *)
(* the stack of the current thread, a return takes one off, and every      *)
(* thread stays in its first frame, or in a call from there.               *)
(***************************************************************************)
State(t) == trace[at[t]]

OnStack(s, stack) ==
  [thread |-> s.thread, stacks |-> [s.stacks EXCEPT ![s.thread] = stack]]

Change(s, kind, new) ==
  CASE kind = "call"   -> {OnStack(s, Append(Stack(s), new))}
    [] kind = "return" -> {OnStack(s, r) : r \in {Front(Stack(s))} \ {<<>>}}
    [] kind = "switch" -> {[thread |-> n, stacks |-> s.stacks] :
                             n \in Threads \ {s.thread}}

\* What happened since the last stop point.
Lately == SubSeq(kinds, Last(at), Len(kinds))

Happen(kind) ==
  /\ phase = "record" /\ Len(at) < Total
  /\ Append(Lately, kind) \in Shapes
  /\ \E s \in Change(Last(trace), kind, FirstNew + Len(trace)) :
       trace' = Append(trace, s)
  /\ kinds' = Append(kinds, kind)
  /\ UNCHANGED <<at, hidden, stops, now, phase, request, frame>>

Marks == Cardinality(hidden) + Cardinality(stops)

\* A stop point, which may be hidden, or a breakpoint fires before it.
StopPoint ==
  /\ phase = "record" /\ Len(at) < Total
  /\ at' = Append(at, Len(trace))
  /\ \E h \in {{}, {Len(at) + 1}}, b \in {{}, {Len(at)}} :
       /\ h = {} \/ b = {}
       /\ h \cup b # {} => Marks < MaxMarks
       /\ hidden' = hidden \cup h
       /\ stops' = stops \cup b
  /\ UNCHANGED <<trace, kinds, now, phase, request, frame>>

Record == StopPoint \/ \E kind \in Kinds : Happen(kind)

\* The debugger starts.
Start ==
  /\ phase = "record" /\ Len(at) = Total
  /\ phase' = "prompt"
  /\ now' \in Times
  /\ UNCHANGED <<log, request, frame>>

Init ==
  /\ trace \in {<<s>> : s \in Beginnings}
  /\ kinds = <<>>
  /\ at = <<1>>
  /\ hidden = {} /\ stops = {}
  /\ now = 1
  /\ phase = "record"
  /\ request = NoRequest
  /\ frame = 0

-----------------------------------------------------------------------------
(***************************************************************************)
(* What a process reports of a gap: the calls made by frame f and the      *)
(* returns to it, and the switches from and to thread n.                   *)
(***************************************************************************)
Number(s, t, f) ==
  IF s.thread # t.thread THEN 0
  ELSE IF Depth(t) > Depth(s) /\ Top(s) = f THEN -1
  ELSE IF Depth(t) < Depth(s) /\ Top(t) = f THEN -2
  ELSE 0

Changes(g) == at[g]..(at[g + 1] - 1)

Num(i, f) == Number(trace[i], trace[i + 1], f)

\* Where the numbers of the Breakpoint are found.
Nums(g, f) == {i \in Changes(g) : Num(i, f) # 0}

\* Mutant: only a switch to the thread.
SwitchesTo(g, n) ==
  \E i \in Changes(g) :
    trace[i].thread # trace[i + 1].thread /\ n = trace[i + 1].thread

Switches(g, n) ==
  \E i \in Changes(g) :
    /\ trace[i].thread # trace[i + 1].thread
    /\ n \in {trace[i].thread, trace[i + 1].thread}

\* With all_breakpoints.stack_id = f and thread_num = n.
Hits(f, n) == {g \in Gaps : g \in stops \/ Nums(g, f) # {} \/ Switches(g, n)}

(***************************************************************************)
(* move_forward() and move_backward(): where they end, and the gap of the  *)
(* Breakpoint that they return, or 0.                                      *)
(***************************************************************************)
\* Mutant: go_forward() does not stop at the end of the recording.
Unclamped(steps, hits) ==
  LET entered == {g \in hits : now <= g /\ g < now + steps}
  IN  IF entered = {} THEN [time |-> now + steps, gap |-> 0]
      ELSE [time |-> Min(entered) + 1, gap |-> Min(entered)]

Forward(steps, hits) ==
  LET entered == {g \in hits : now <= g /\ g < now + steps}
  IN  IF entered = {}
        THEN [time |-> IF now + steps > Total THEN Total ELSE now + steps,
              gap |-> 0]
        ELSE [time |-> Min(entered) + 1, gap |-> Min(entered)]

Backward(steps, hits) ==
  LET passed == {g \in hits : now - steps <= g /\ g < now}
  IN  IF passed = {}
        THEN [time |-> IF now - steps < 1 THEN 1 ELSE now - steps, gap |-> 0]
        ELSE [time |-> Max(passed), gap |-> Max(passed)]

-----------------------------------------------------------------------------
Ask(op) ==
  /\ phase = "prompt"
  /\ phase' = op
  /\ \E n \in IF op \in {"nthread", "bthread"} THEN Threads \cup {NoThread}
              ELSE {NoThread} :
       request' = [op |-> op, start |-> now, thread |-> n]
  /\ UNCHANGED <<log, now, frame>>

To(time, place, f) ==
  /\ now' = time
  /\ phase' = place
  /\ IF phase' = "prompt" THEN request' = NoRequest /\ frame' = 0
     ELSE UNCHANGED request /\ frame' = f
  /\ UNCHANGED log

Found(b)   == b.gap # 0
Regular(b) == Found(b) /\ b.gap \in stops

\* get_hiddenpos_level()
Level(t) == IF t \in hidden THEN 1 ELSE 0

-----------------------------------------------------------------------------
(***************************************************************************)
(* command_next(): one step; out of a call that the frame made in it; and  *)
(* again where that ends at a hidden position.                             *)
(***************************************************************************)
\* Mutant: the first of the numbers is looked at.
FirstIsReturn(b, f) == Num(Min(Nums(b.gap, f)), f) = -2

BackInside(b, f) == Num(Max(Nums(b.gap, f)), f) = -2

\* Mutant: only a visible position ends the command.
VisibleOnly(b) == Level(b.time) = 0

NextDone(b) == ~Found(b) \/ Level(b.time) = 0

AfterNext(b, f) ==
  IF Regular(b) THEN "prompt"
  ELSE IF Found(b) /\ ~BackInside(b, f) THEN "over"
  ELSE IF NextDone(b) THEN "prompt" ELSE "next"

NextStep ==
  /\ phase = "next"
  /\ \E f \in {Top(State(now))} : \E hits \in {Hits(f, NoThread)} :
     \E b \in {Forward(1, hits)} : To(b.time, AfterNext(b, f), f)

NextOver ==
  /\ phase = "over"
  /\ \E hits \in {Hits(frame, NoThread)} :
     \E b \in {Forward(Total - now, hits)} :
       To(b.time, AfterNext(b, frame), frame)

-----------------------------------------------------------------------------
(***************************************************************************)
(* command_bnext(): the same backward, where the first of the numbers      *)
(* tells whether the frame was in a call before.                           *)
(***************************************************************************)
\* Mutant: the last of the numbers is looked at.
LastIsCall(b, f) == Num(Max(Nums(b.gap, f)), f) = -1

BeforeCall(b, f) == Num(Min(Nums(b.gap, f)), f) = -1

AfterBack(b, f) ==
  IF Regular(b) THEN "prompt"
  ELSE IF Found(b) /\ ~BeforeCall(b, f) THEN "bover"
  ELSE IF Level(b.time) = 0 THEN "prompt" ELSE "bnext"

BackStep ==
  /\ phase = "bnext"
  /\ \E f \in {Top(State(now))} : \E hits \in {Hits(f, NoThread)} :
     \E b \in {Backward(1, hits)} : To(b.time, AfterBack(b, f), f)

BackOver ==
  /\ phase = "bover"
  /\ \E hits \in {Hits(frame, NoThread)} :
     \E b \in {Backward(now - 1, hits)} :
       To(b.time, AfterBack(b, frame), frame)

-----------------------------------------------------------------------------
(***************************************************************************)
(* command_finish() and command_bfinish(): to the next call or return of   *)
(* the caller, if there is one.                                            *)
(***************************************************************************)
\* Mutant: the frame itself is asked for.
ItselfOf(s) == Top(s)

ParentOf(s) == IF Depth(s) < 2 THEN 0 ELSE Stack(s)[Depth(s) - 1]

Finish ==
  /\ phase = "finish"
  /\ LET p == ParentOf(State(now))
         b == Forward(Total - now, Hits(p, NoThread))
     IN  To(IF p = 0 THEN now ELSE b.time, "prompt", 0)

BackFinish ==
  /\ phase = "bfinish"
  /\ LET p == ParentOf(State(now))
         b == Backward(now - 1, Hits(p, NoThread))
     IN  To(IF p = 0 THEN now ELSE b.time, "prompt", 0)

-----------------------------------------------------------------------------
(***************************************************************************)
(* _cmd_thread(): to the next switch from or to a thread, by default the   *)
(* current one.                                                            *)
(***************************************************************************)
Current == State(now).thread

Target == IF request.thread = NoThread THEN Current ELSE request.thread

NextThread ==
  /\ phase = "nthread"
  /\ To(IF request.thread = Current THEN now
        ELSE Forward(Total - now, Hits(0, Target)).time, "prompt", 0)

BackThread ==
  /\ phase = "bthread"
  /\ To(IF request.thread = Current THEN now
        ELSE Backward(now - 1, Hits(0, Target)).time, "prompt", 0)

-----------------------------------------------------------------------------
Commands == {"next", "bnext", "finish", "bfinish", "nthread", "bthread"}

Command == \E op \in Commands : Ask(op)

Work == \/ NextStep \/ NextOver \/ BackStep \/ BackOver
        \/ Finish \/ BackFinish \/ NextThread \/ BackThread

Next == Record \/ Start \/ Command \/ Work

Spec == Init /\ [][Next]_vars

\* A command that is under way goes on.
FairSpec == Spec /\ WF_vars(Work)

-----------------------------------------------------------------------------
(***************************************************************************)
(* Properties.  The commands know only the numbers of calls and returns;   *)
(* where they should end is said of the stacks at the stop points.         *)
(***************************************************************************)
\* The type invariant.
TypeOK ==
  /\ now \in Times
  /\ phase \in {"record", "prompt", "next", "over", "bnext", "bover",
                "finish", "bfinish", "nthread", "bthread"}
  /\ request.start \in Times /\ request.thread \in Threads \cup {NoThread}
  /\ frame \in Nat
  /\ Len(at) <= Total
  /\ hidden \subseteq Times /\ stops \subseteq Gaps

\* Frame f waits, at time t, for a call that it made.
Waits(f, t) == \E n \in Threads : f \in Range(Front(State(t).stacks[n]))

Exists(f, t) == \E n \in Threads : f \in Range(State(t).stacks[n])

MinOr(S, default) == IF S = {} THEN default ELSE Min(S)
MaxOr(S, default) == IF S = {} THEN default ELSE Max(S)

\* A breakpoint of the user on the way ends every command.
Forth(t, u) == MinOr({g + 1 : g \in {g \in stops : t <= g /\ g < u}}, u)
Back(t, u)  == MaxOr({g \in stops : u <= g /\ g < t}, u)

(***************************************************************************)
(* next ends at the first stop point at which the function it began in     *)
(* does not wait for a call, and goes on from there if it has made a call  *)
(* and is at a hidden position.                                            *)
(***************************************************************************)
Free(t) == {v \in Times : v > t /\ ~Waits(Top(State(t)), v)}

NextFree(t) == MinOr(Free(t), Total)

NextAgain(t) ==
  /\ Free(t) # {} /\ NextFree(t) \in hidden
  /\ Nums(t, Top(State(t))) # {}
  /\ ~\E g \in stops : t <= g /\ g < NextFree(t)

NextStop[t \in Times] ==
  IF NextAgain(t) THEN NextStop[NextFree(t)] ELSE Forth(t, NextFree(t))

(***************************************************************************)
(* bnext ends at the last stop point before at which the function it began *)
(* in did not wait for a call, and goes on from there if it is hidden.     *)
(***************************************************************************)
LastFree(t) ==
  MaxOr({v \in Times : v < t /\ ~Waits(Top(State(t)), v)}, 1)

BackAgain(t) ==
  /\ LastFree(t) \in hidden
  /\ ~\E g \in stops : LastFree(t) <= g /\ g < t

BackStop[t \in Times] ==
  IF BackAgain(t) THEN BackStop[LastFree(t)] ELSE Back(t, LastFree(t))

\* finish ends at the first stop point where the function is left, bfinish
\* at the last one before it was called; without a caller they stay.
FinishStop(t) ==
  LET s == State(t)
      f == Top(s)
  IN  IF Depth(s) < 2 THEN t
      ELSE Forth(t, MinOr({v \in Times : v > t /\ ~Exists(f, v)}, Total))

BackFinishStop(t) ==
  LET s == State(t)
      f == Top(s)
  IN  IF Depth(s) < 2 THEN t
      ELSE Back(t, MaxOr({v \in Times : v < t /\ ~Exists(f, v)}, 1))

(***************************************************************************)
(* nthread and bthread end at the next stop point, before or after, such   *)
(* that another thread, or the given one, has run on the way there: it may *)
(* have given back the GIL before the stop point.                          *)
(***************************************************************************)
ThreadStop(r) ==
  LET t == r.start
      wanted(s) == IF r.thread = NoThread THEN s.thread # State(t).thread
                   ELSE s.thread = r.thread
      ran(g)    == \E i \in at[g]..at[g + 1] : wanted(trace[i])
  IN  IF r.thread = State(t).thread THEN t
      ELSE IF r.op = "nthread"
        THEN Forth(t, MinOr({g + 1 : g \in {g \in Gaps : t <= g /\ ran(g)}}, Total))
        ELSE Back(t, MaxOr({g \in Gaps : g < t /\ ran(g)}, 1))

Ends(op) == request.op = op /\ phase' = "prompt"

\* command_next() ends where it should.
NextLands == [][Ends("next") => now' = NextStop[request.start]]_vars

\* command_bnext() ends where it should.
BackLands == [][Ends("bnext") => now' = BackStop[request.start]]_vars

\* command_finish() and command_bfinish() end where they should.
FinishLands ==
  [][/\ Ends("finish") => now' = FinishStop(request.start)
     /\ Ends("bfinish") => now' = BackFinishStop(request.start)]_vars

\* _cmd_thread() ends where it should.
ThreadLands ==
  [][Ends("nthread") \/ Ends("bthread") => now' = ThreadStop(request)]_vars

(***************************************************************************)
(* The loops end: at the next prompt.  bnext needs that the first stop     *)
(* point is not at a hidden position.                                      *)
(***************************************************************************)
LoopsEnd == phase \notin {"record", "prompt"} ~> phase = "prompt"
=============================================================================
