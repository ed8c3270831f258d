---------------------------- MODULE ReplayGroup ----------------------------
(***************************************************************************)
(* The debugger at work: ReplayProcessGroup (_revdb/process.py), with the  *)
(* commands of RevDebugControl (_revdb/interact.py) that drive it.  One    *)
(* process is active and shows the program at the prompt; paused forks of  *)
(* it wait at earlier and later times.  Going back in time is resuming a   *)
(* fork and running it forward.                                            *)
(*                                                                         *)
(* A command is a chain of small steps, because Ctrl-C may end it at any   *)
(* of them: phase says where in the chain it is, call is the go_forward()  *)
(* under way, search the _backward_search_forward() under way, and after   *)
(* what the caller does once go_forward() is back.                         *)
(***************************************************************************)
EXTENDS ReplayProcess

CONSTANTS
  MaxSubprocesses,    \* MAX_SUBPROCESSES
  SearchSteps,        \* first window of a reverse search
  WatchSearchSteps,   \* the same when a watchpoint is set
  MaxWatched,         \* bound: watchpoints set at the same time
  Interrupts,         \* TRUE where the user may press Ctrl-C
  Crashes,            \* TRUE where a process may die while it runs
  NoProcess,          \* paused[t] where no fork is kept
  Args                \* bound: the numbers that a user types

ASSUME GroupAssumption ==
  /\ MaxSubprocesses \in Nat \ {0}
  /\ SearchSteps \in Nat \ {0}
  /\ WatchSearchSteps \in Nat \ {0}
  /\ MaxWatched \in Nat
  /\ Interrupts \in BOOLEAN
  /\ Crashes \in BOOLEAN
  /\ NoProcess \notin Process
  /\ Args \subseteq Nat

VARIABLES
  active,         \* the process at the prompt
  paused,         \* paused[t]: the fork kept at time t
  objects,        \* all_printed_objects_lst: the uids that have a $NUM
  armed,          \* all_breakpoints.num2break
  watchvalues,    \* all_breakpoints.watchvalues
  phase, call, search, after,
  request,        \* the command under way
  previous_time   \* the time shown at the last prompt

movement == <<phase, call, search, after>>
vars == <<active, paused, objects, armed, watchvalues, movement, request,
          previous_time>>

-----------------------------------------------------------------------------

Forks == {t \in Times : paused[t] # NoProcess}

Armed == armed \cap Watches
WatchUids == UNION {Needs[w] : w \in Armed}

\* The gaps that are reported in the active process.
WatchHits == WatchGaps(armed, watchvalues, active.printed)
Hits == BreakGaps(armed) \cup WatchHits

\* Uids the process should have recorded by now and has not.
Missing(p, uids) == {u \in uids : u < Created[p.time] /\ u \notin p.printed}

(***************************************************************************)
(* get_next_clone_time(): the first later fork whose objects are not all   *)
(* the printed ones, or else a quarter of the way from the last fork to    *)
(* the end, while there is room for another fork.                          *)
(***************************************************************************)
\* Mutant: forks of the past and the present are looked at too.
OutdatedEver == {t \in Forks : paused[t].printed # objects}

Outdated == {t \in Forks : t > active.time /\ paused[t].printed # objects}

\* Mutant: one fork too many.
OneForkMore ==
  IF Cardinality(Forks) > MaxSubprocesses THEN Total + 1
  ELSE Max(Forks) + (Total - Max(Forks)) \div 4 + 1

NewCloneTime ==
  IF Cardinality(Forks) >= MaxSubprocesses THEN Total + 1
  ELSE Max(Forks) + (Total - Max(Forks)) \div 4 + 1

NextCloneTime == IF Outdated # {} THEN Min(Outdated) ELSE NewCloneTime

-----------------------------------------------------------------------------
(***************************************************************************)
(* Control.  Phases: "prompt" (raw_input), "forward" (head of the loop of  *)
(* go_forward), "clone" (in the loop, before active is cloned), "return"   *)
(* (go_forward is back), "exited" (the debugger has stopped) and "died"    *)
(* (an exception has ended it).                                            *)
(***************************************************************************)
Phases == {"prompt", "forward", "clone", "return", "exited", "died"}

Stages == {"done", "step", "stepped", "search", "searched", "print", "watch",
           "recreate", "recover", "restart"}

NoCall == [steps |-> 0, mode |-> "i", latest |-> NoHit]
Calls == [steps: Nat, mode: {"b", "i", "r"}, latest: Reports]

NoSearch == [start |-> 0, stop |-> 0, until |-> 0]
Searches == [start: Int, stop: Int, until: Int]

(***************************************************************************)
(* What the user is promised, of the times shown at the prompt.            *)
(***************************************************************************)
Machine == INSTANCE TimeMachine WITH
  now     <- previous_time,
  values  <- watchvalues,
  touched <- active.dirty,
  dead    <- active.closed /\ phase # "exited",
  cut     <- after = "recover"

Continue(k) == phase' = "return" /\ after' = k /\ call' = NoCall

\* go_forward(steps, mode), with k to do afterwards.
GoForward(steps, mode, k) ==
  /\ phase' = "forward"
  /\ call' = [steps |-> steps, mode |-> mode, latest |-> NoHit]
  /\ after' = k

(***************************************************************************)
(* An exception that is not a Breakpoint.  run_command() prints it and     *)
(* goes on to the next prompt.  It ends the debugger in interact(), outside *)
(* run_command, and in recreate_subprocess() as long as there is no active *)
(* process.                                                                *)
(***************************************************************************)
Die(k) == phase' = "died" /\ after' = k /\ call' = NoCall

Raise(k) == IF k \in {"recover", "restart"} THEN Die(k) ELSE Continue("done")

\* The same before there is a process to run forward.
RaiseNone(k) == IF k = "recreate" THEN Die(k) ELSE Raise(k)

\* CMD_FUTUREIDS: those of uids that do not exist yet in the fork.
LaterIds(from, uids) == {u \in uids : u > Created[from]}      \* mutant

FutureIds(from, uids) == {u \in uids : u >= Created[from]}

(***************************************************************************)
(* The end of ensure_printed_objects(): the fork kept at time from is      *)
(* resumed, is told about the objects it will meet, and runs to target.    *)
(***************************************************************************)
Resume(from, target, uids, k) ==
  IF paused[from].closed
    THEN active' = Close(active) /\ RaiseNone(k)
    ELSE /\ active' = [Clone(paused[from]) EXCEPT
                         !.printed = @ \cup FutureIds(from, uids)]
         /\ GoForward(target - from, "i", k)

\* Mutant: the fork at the limit itself is left out.
EnsureBefore(limit, target, uids, k) ==
  LET suited == {t \in Forks : t < limit /\ Missing(paused[t], uids) = {}}
  IN  IF suited = {} THEN RaiseNone(k) /\ UNCHANGED active
      ELSE Resume(Max(suited), target, uids, k)

\* ensure_printed_objects() with the forks no later than time limit.
EnsureFrom(limit, target, uids, k) ==
  LET suited == {t \in Forks : t <= limit /\ Missing(paused[t], uids) = {}}
  IN  IF suited = {} THEN RaiseNone(k) /\ UNCHANGED active
      ELSE Resume(Max(suited), target, uids, k)

\* ensure_printed_objects(uids): here, or with a fork of an earlier time.
EnsureHere(uids, k) ==
  IF Missing(active, uids) = {}
    THEN Continue(k) /\ UNCHANGED active
    ELSE EnsureFrom(active.time - 1, active.time, uids, k)

\* jump_in_time(target)
Jump(target, k) == EnsureFrom(Clamp(target), Clamp(target), WatchUids, k)

\* What moving in time leaves alone.
kept == <<objects, armed, watchvalues>>

-----------------------------------------------------------------------------
Init ==
  /\ active = FirstProcess
  /\ paused = [t \in Times |-> IF t = 1 THEN Clone(FirstProcess)
                               ELSE NoProcess]
  /\ objects = {}
  /\ armed = {}
  /\ watchvalues = [w \in Watches |-> NoText]
  /\ phase = "prompt"
  /\ call = NoCall
  /\ search = NoSearch
  /\ after = "done"
  /\ request = Machine!NoRequest
  /\ previous_time = 1

-----------------------------------------------------------------------------
(***************************************************************************)
(* The commands, given at the prompt.                                      *)
(***************************************************************************)
Ask(op, arg) ==
  /\ phase = "prompt"
  /\ request' = [op |-> op, arg |-> arg]
  /\ UNCHANGED previous_time

\* command_go
Go == /\ \E t \in Args : Ask("go", t) /\ Jump(t, "done")
      /\ UNCHANGED <<paused, kept, search>>

\* command_step and command_continue: move_forward(), with remove_tainting().
Step == /\ \E n \in Args :
             /\ Ask("step", n)
             /\ IF active.tainted
                  THEN Jump(active.time, "step")
                  ELSE GoForward(n, "b", "stepped") /\ UNCHANGED active
        /\ UNCHANGED <<paused, kept, search>>

\* command_bstep and command_bcontinue: go_backward().
BStep ==
  LET first == IF Armed # {} THEN WatchSearchSteps ELSE SearchSteps
  IN  /\ \E n \in Args :
           LET until == active.time - n
           IN  /\ Ask("bstep", n)
               /\ IF armed = {}
                    THEN Jump(until, "done") /\ UNCHANGED search
                    ELSE /\ search' = [start |-> active.time - first,
                                       stop  |-> active.time,
                                       until |-> until]
                         /\ Jump(Max({search'.start, until}), "search")
      /\ UNCHANGED <<paused, kept>>

\* command_print, with the $NUM of the objects in uids: print_cmd().
PrintCmd ==
  /\ \E uids \in SUBSET objects :
       Ask("look", 0) /\ EnsureHere(uids \cap Alive(active.time), "print")
  /\ UNCHANGED <<paused, kept, search>>

\* Code is run in the process.
Run(p) == [p EXCEPT !.dirty = TRUE]                            \* mutant

Taint(p) == [p EXCEPT !.tainted = TRUE, !.dirty = TRUE]

\* ANSWER_ATTEMPT_IO: recreate_subprocess() at the current time.
Recreate == Jump(active.time, "recreate")

\* command_backtrace, command_list and command_locals.
Inspect ==
  /\ Ask("look", 0)
  /\ \/ active' = Taint(active) /\ Continue("done")
     \/ ~active.closed /\ Recreate
  /\ UNCHANGED <<paused, kept, search>>

\* command_break: _bp_new(), or a name that the process takes back.
Break ==
  /\ \E b \in Breaks \ armed :
       Ask("arm", b) /\ armed' \in {armed, armed \cup {b}}
  /\ Continue("done")
  /\ UNCHANGED <<active, paused, objects, watchvalues, search>>

\* command_delete
Delete ==
  /\ \E x \in armed :
       /\ Ask("disarm", x)
       /\ armed' = armed \ {x}
       /\ watchvalues' = [w \in Watches |->
                            IF w = x THEN NoText ELSE watchvalues[w]]
  /\ Continue("done")
  /\ UNCHANGED <<active, paused, objects, search>>

\* command_watch, as far as check_watchpoint_expr(); the user can only
\* mention objects that have a $NUM.
Watch ==
  /\ \E w \in Watches \ armed :
       /\ Cardinality(Armed) < MaxWatched
       /\ Needs[w] \subseteq objects
       /\ Ask("arm", w)
       /\ IF active.closed THEN Raise("watch") /\ UNCHANGED active
          ELSE EnsureHere(Needs[w] \cap Alive(active.time), "watch")
  /\ UNCHANGED <<paused, kept, search>>

\* command_quit
Quit ==
  /\ Ask("look", 0)
  /\ active' = Close(active)
  /\ paused' = [t \in Times |->
                  IF t \in Forks THEN Close(paused[t]) ELSE NoProcess]
  /\ phase' = "exited"
  /\ UNCHANGED <<kept, call, search, after>>

-----------------------------------------------------------------------------
(***************************************************************************)
(* go_forward().  Rest is where the process comes to rest, and Found what  *)
(* it reports, when it is told to go steps further.  An exception is       *)
(* raised by a dead socket, and by the assertion in _forward() that the    *)
(* process is not tainted.                                                 *)
(***************************************************************************)
Rest(steps)  == Forward(active, steps, call.mode, Hits)
Found(steps) == Report(active, steps, call.mode, Hits, WatchHits)

Movable == ~active.closed /\ ~active.tainted

StepsLeft == IF call.steps < Total - active.time THEN call.steps
             ELSE Total - active.time

ToClone == NextCloneTime - active.time

\* latest_bkpt = bkpt or latest_bkpt
Latest(report) == IF report = NoHit THEN call.latest ELSE report

\* Move to the next clone time, and close the fork that is there.
ForwardToClone ==
  /\ phase = "forward" /\ 0 < ToClone /\ ToClone <= StepsLeft
  /\ IF ~Movable THEN Raise(after) /\ UNCHANGED <<active, paused>>
     ELSE
       /\ active' = Rest(ToClone)
       /\ IF call.mode = "b" /\ Found(ToClone) # NoHit
            THEN /\ call' = [call EXCEPT !.latest = Found(ToClone)]
                 /\ phase' = "return"
                 /\ UNCHANGED <<paused, after>>
            ELSE /\ call' = [call EXCEPT !.steps = StepsLeft - ToClone,
                                         !.latest = Latest(Found(ToClone))]
                 /\ phase' = "clone"
                 /\ paused' = IF active'.time \in Forks
                                THEN [paused EXCEPT ![active'.time] = Close(@)]
                                ELSE paused
                 /\ UNCHANGED after
  /\ UNCHANGED <<kept, search, request, previous_time>>

\* The same, where the process is at the next clone time already.
CloneHere ==
  /\ phase = "forward" /\ ToClone = 0
  /\ phase' = "clone"
  /\ paused' = IF active.time \in Forks
                 THEN [paused EXCEPT ![active.time] = Close(@)] ELSE paused
  /\ UNCHANGED <<active, kept, call, search, after, request, previous_time>>

\* clone = self.active.clone(); self.paused[clone.current_time] = clone
CloneActive ==
  /\ phase = "clone"
  /\ IF active.closed THEN Raise(after) /\ UNCHANGED paused
     ELSE /\ paused' = [paused EXCEPT ![active.time] = Clone(active)]
          /\ phase' = "forward"
          /\ UNCHANGED <<call, after>>
  /\ UNCHANGED <<active, kept, search, request, previous_time>>

\* The last part of the way, and the return or the Breakpoint.
ForwardLast ==
  /\ phase = "forward" /\ ToClone > StepsLeft
  /\ IF ~Movable THEN Raise(after) /\ UNCHANGED active
     ELSE /\ active' = Rest(StepsLeft)
          /\ call' = [call EXCEPT !.steps = 0,
                                  !.latest = Latest(Found(StepsLeft))]
          /\ phase' = "return"
          /\ UNCHANGED after
  /\ UNCHANGED <<paused, kept, search, request, previous_time>>

-----------------------------------------------------------------------------
(***************************************************************************)
(* After go_forward().                                                     *)
(***************************************************************************)
Back(k) == /\ phase = "return" /\ after = k
           /\ UNCHANGED <<paused, request, previous_time>>

\* move_forward(), after remove_tainting()
StepOn == /\ Back("step")
          /\ GoForward(request.arg, "b", "stepped")
          /\ UNCHANGED <<active, kept, search>>

\* hit_breakpoints(): the process moves to the breakpoint, or to the end of
\* its gap for a watchpoint that was found backward.
GapStart == call.latest.time                                   \* mutant

HitTime ==
  call.latest.time + IF after = "searched" /\ call.latest.watch THEN 1 ELSE 0

HitBreakpoints ==
  /\ \/ Back("stepped")
     \/ Back("searched") /\ call.latest # NoHit
  /\ IF call.latest = NoHit \/ call.latest.time = active.time
       THEN Continue("done") /\ UNCHANGED active
       ELSE Jump(HitTime, "done")
  /\ UNCHANGED <<kept, search>>

\* _backward_search_forward(): the process is at the start of the window.
SearchWindow ==
  /\ Back("search")
  /\ search' = [search EXCEPT !.start = active.time]
  /\ IF search.stop <= active.time THEN Continue("done")
     ELSE GoForward(search.stop - active.time, "r", "searched")
  /\ UNCHANGED <<active, kept>>

\* The next window is three times as large and ends where this one starts.
FartherStart == search.start - 3 * (search.stop - search.start)

FartherSameStop == [search EXCEPT !.start = FartherStart]      \* mutant

Farther == [search EXCEPT !.start = FartherStart, !.stop = search.start]

\* Nothing was found in the window.
SearchFarther ==
  /\ Back("searched") /\ call.latest = NoHit
  /\ search' = Farther
  /\ Jump(Max({search'.start, search.until}), "search")
  /\ UNCHANGED kept

\* print_cmd(): the code runs, an object may get its $NUM, and code that
\* tries to do I/O ends the process.
PrintAnswer ==
  /\ Back("print")
  /\ IF active.closed
       THEN /\ active' = Taint(active)
            /\ Continue("done")
            /\ UNCHANGED objects
       ELSE \E found \in SUBSET Alive(active.time) :
              /\ Cardinality(found) <= 1
              /\ objects' = objects \cup found
              /\ \/ /\ active' = [Taint(active) EXCEPT !.printed = @ \cup found]
                    /\ Continue("done")
                 \/ Recreate
  /\ UNCHANGED <<armed, watchvalues, search>>

(***************************************************************************)
(* What check_watchpoint_expr() can answer for w: the process is taken as  *)
(* it is, and code that was run in it may have changed what w reads.       *)
(***************************************************************************)
CheckedWatch(w) ==
  LET text == Reading(w, active.time, active.printed)
  IN  IF active.dirty /\ text # NoText THEN Texts ELSE {text}

\* Mutant: a watchpoint keeps the value it has.
FirstValues(watched) ==
  {v \in [Watches -> Texts \cup {NoText}] :
     \A w \in Watches :
       v[w] \in IF w \in watched /\ watchvalues[w] = NoText
                  THEN CheckedWatch(w) ELSE {watchvalues[w]}}

\* What update_watch_values() can find in the active process.
WatchValues(watched) ==
  {v \in [Watches -> Texts \cup {NoText}] :
     \A w \in Watches :
       v[w] \in IF w \in watched THEN CheckedWatch(w) ELSE {NoText}}

\* command_watch, from check_watchpoint_expr(): the expression is refused,
\* as it is when it mentions an object that does not exist now, or it is
\* added and all watchpoints are evaluated.
WatchAnswer ==
  /\ Back("watch")
  /\ \/ UNCHANGED <<armed, watchvalues>>
     \/ /\ Needs[request.arg] \subseteq Alive(active.time) \cap active.printed
        /\ armed' = armed \cup {request.arg}
        /\ watchvalues' \in WatchValues(armed' \cap Watches)
  /\ Continue("done")
  /\ UNCHANGED <<active, objects, search>>

-----------------------------------------------------------------------------
(***************************************************************************)
(* print_lines_before_prompt() and the prompt.  After Ctrl-C it takes the  *)
(* time for a new one.                                                     *)
(***************************************************************************)
Arrived == /\ phase = "return"
           /\ after \in {"done", "recreate", "recover", "restart"}

Moved == active.time # previous_time \/ after \in {"recover", "restart"}

Show == /\ phase' = "prompt" /\ after' = "done"
        /\ call' = NoCall /\ search' = NoSearch
        /\ request' = Machine!NoRequest

Prompt == /\ Arrived /\ ~Moved
          /\ Show
          /\ UNCHANGED <<active, paused, kept, previous_time>>

\* update_watch_values() and show_backtrace(complete=0)
PromptMoved ==
  /\ Arrived /\ Moved /\ ~active.closed
  /\ Show
  /\ previous_time' = active.time
  /\ watchvalues' \in WatchValues(Armed)
  /\ UNCHANGED <<active, paused, objects, armed>>

\* The same with a dead process: EOFError and socket.error are not caught...
PromptDied ==
  /\ Arrived /\ Moved /\ active.closed
  /\ Die(after)
  /\ UNCHANGED <<active, paused, kept, search, request, previous_time>>

\* ... but the socket.error of _update_watchpoints_uids() is.
PromptRestart ==
  /\ Arrived /\ Moved /\ active.closed /\ WatchUids # {}
  /\ Jump(1, "restart")
  /\ UNCHANGED <<paused, kept, search, request, previous_time>>

\* The time that Ctrl-C goes back to.
CurrentTime == active.time                                     \* mutant

RestoredTime == previous_time

(***************************************************************************)
(* KeyboardInterrupt, at the prompt or at any point of a command: the      *)
(* active process is dropped and another one is taken to previous_time.    *)
(* While this is being done, Ctrl-C ends the debugger.                     *)
(***************************************************************************)
Interrupt ==
  /\ Interrupts
  /\ phase \in {"prompt", "forward", "clone", "return"}
  /\ after # "recover"
  /\ Jump(RestoredTime, "recover")
  /\ UNCHANGED <<paused, kept, search, request, previous_time>>

InterruptAgain ==
  /\ Interrupts
  /\ phase \notin {"exited", "died"} /\ after = "recover"
  /\ phase' = "exited"
  /\ UNCHANGED <<active, paused, kept, call, search, after, request,
                 previous_time>>

(***************************************************************************)
(* A process that gets out of sync dies while it runs (README.rst, on      *)
(* watchpoints with side effects): the next message to it fails.           *)
(***************************************************************************)
Crash ==
  /\ Crashes
  /\ phase = "forward" /\ ~active.closed
  /\ active' = Close(active)
  /\ UNCHANGED <<paused, kept, movement, request, previous_time>>

\* The debugger has ended.
Ended == phase \in {"exited", "died"} /\ UNCHANGED vars

-----------------------------------------------------------------------------
Command == \/ Go \/ Step \/ BStep \/ PrintCmd \/ Inspect \/ Break \/ Delete
           \/ Watch \/ Quit

Work == \/ ForwardToClone \/ CloneHere \/ CloneActive \/ ForwardLast
        \/ StepOn \/ HitBreakpoints \/ SearchWindow \/ SearchFarther
        \/ PrintAnswer \/ WatchAnswer
        \/ Prompt \/ PromptMoved \/ PromptDied \/ PromptRestart

Next == Command \/ Work \/ Interrupt \/ InterruptAgain \/ Crash \/ Ended

Spec == Init /\ [][Next]_vars

\* The debugger never waits for anything but its own processes.
FairSpec == Spec /\ WF_vars(Work)

-----------------------------------------------------------------------------
(***************************************************************************)
(* Properties.                                                             *)
(***************************************************************************)

\* The type invariant of the process group and of the command under way.
TypeOK ==
  /\ active \in Process
  /\ paused \in [Times -> Process \cup {NoProcess}]
  /\ objects \subseteq Numbered
  /\ armed \subseteq Breaks \cup Watches
  /\ watchvalues \in [Watches -> Texts \cup {NoText}]
  /\ phase \in Phases
  /\ call \in Calls
  /\ search \in Searches
  /\ after \in Stages
  /\ request \in Machine!Requests \cup {Machine!NoRequest}
  /\ previous_time \in Times

(***************************************************************************)
(* Through forks, searches in windows and re-cloned processes, each        *)
(* command shows the user the time that its definition in TimeMachine      *)
(* gives, and Ctrl-C the time before the command.                          *)
(***************************************************************************)
Promise == Machine!MachineSpec

(***************************************************************************)
(* A command ends at a prompt or with the debugger: the search of          *)
(* _backward_search_forward() and the loops of go_forward() are finite.    *)
(***************************************************************************)
Resting == phase \in {"prompt", "exited", "died"}
CommandsEnd == ~Resting ~> Resting

\* No exception ever ends the debugger (interact(), recreate_subprocess()).
NeverDies == phase # "died"

(***************************************************************************)
(* The fork of time 1, which every search for an older fork ends with, is  *)
(* there and alive as long as the debugger runs, whatever Ctrl-C cuts      *)
(* short: ensure_printed_objects() always finds a fork to resume.          *)
(***************************************************************************)
OriginKept == phase # "exited" => 1 \in Forks /\ ~paused[1].closed

(***************************************************************************)
(* Code typed by the user runs in the active process only: no fork comes   *)
(* from a process in which it was run (remove_tainting), and a fork is     *)
(* paused at the time under which it is kept.                              *)
(***************************************************************************)
ForksFaithful == \A t \in Forks : paused[t].time = t /\ ~paused[t].dirty

\* The assertion of go_forward(): the next clone time is not in the past.
CloneAhead == phase = "forward" => ToClone >= 0

\* MAX_SUBPROCESSES bounds the forks, those cloned again included.
SubprocessCap == Cardinality(Forks) <= MaxSubprocesses

(***************************************************************************)
(* The comment in _backward_search_forward(): what a window of the search  *)
(* reports is the last hit in that window.                                 *)
(***************************************************************************)
Window == {g \in Hits : search.start <= g /\ g < search.stop}
SearchedWindow == phase = "return" /\ after = "searched"

SearchFindsLast ==
  SearchedWindow =>
    call.latest.time = IF Window = {} THEN 0 ELSE Max(Window)

\* What a window reports is a hit in that window; it misses none entirely.
SearchFindsSome ==
  SearchedWindow =>
    IF Window = {} THEN call.latest = NoHit ELSE call.latest.time \in Window

\* However a run forward is cut into parts, it ends where it should.
StepsExact ==
  phase = "return" /\ after = "stepped"
    => active.time = Machine!Ahead(request.arg)

(***************************************************************************)
(* The assertion that ends ensure_printed_objects(), at the place where    *)
(* the objects are used: those of the watchpoints in a run that looks for  *)
(* hits, and those that exist for the expression that was typed.           *)
(***************************************************************************)
ObjectsLoaded ==
  /\ phase = "forward" /\ call.mode # "i" =>
       WatchUids \cap Alive(active.time) \subseteq active.printed
  /\ phase = "return" /\ after = "watch" =>
       Needs[request.arg] \cap Alive(active.time) \subseteq active.printed

(***************************************************************************)
(* update_watch_values() gives every watchpoint what the recording shows:  *)
(* at each prompt of another time and after Ctrl-C, and where a watchpoint *)
(* is added in a process in which no code was run.                         *)
(***************************************************************************)
ShownAgain == phase # "prompt" /\ phase' = "prompt" /\ Moved
WatchAdded == armed' \cap Watches \notin SUBSET Armed /\ ~active.dirty

WatchesCurrent ==
  [][ShownAgain \/ WatchAdded
       => \A w \in armed' \cap Watches :
            watchvalues'[w] = Shows[w][previous_time']]_vars

\* After Ctrl-C the prompt is at the time of the last one.
CtrlCRestores ==
  [][phase # "prompt" /\ phase' = "prompt" /\ after = "recover"
       => active'.time = previous_time /\ active'.closed = FALSE]_vars
=============================================================================
