---------------------------- MODULE Breakpoints ----------------------------
(***************************************************************************)
(* The breakpoints of the debugger (AllBreakpoints), what each process     *)
(* knows of them, and what its stub believes it knows (breakpoints_cache). *)
(* The commands edit the dictionaries line by line (_revdb/interact.py);   *)
(* update_breakpoints() brings the active process up to date before it     *)
(* runs (_revdb/process.py).  Forks are resumed with what they knew when   *)
(* they were made.  Ctrl-C may come between any two steps, and a process   *)
(* may die while it works.                                                 *)
(*                                                                         *)
(* Which fork is resumed and where forks are made is ReplayGroup's matter: *)
(* here, any earlier one, and anywhere on the way.                         *)
(***************************************************************************)
EXTENDS Integers, FiniteSets, FiniteSetsExt

CONSTANTS
  MaxNumber, Places, Relative, Exprs, Temporaries, NoFile, NoEntry, NoTable,
  Total,          \* times 1..Total; each belongs to a file of its own
  Mentions,       \* the watched expressions that mention a $NUM
  Texts, Shows,   \* Shows[e][t]: what expression e shows at time t
  Empty,          \* the text ''
  Absent,         \* not in the dictionary
  Unknown,        \* breakpoints_cache = None
  NoProcess,
  Interrupts,     \* TRUE where the user may press Ctrl-C
  Crashes         \* TRUE where a process may die

Times == 1..Total

VARIABLES
  num2break, watchvalues, watchuids,
  temporary,      \* stack_id and thread_num: at most one of them is set
  active, paused,
  phase,          \* where in the call chain of a command
  request,        \* the locals of the command
  told,           \* what the user was told is added
  shown           \* previous_time

dictionaries == <<num2break, watchvalues, watchuids>>
vars == <<dictionaries, temporary, active, paused, phase, request, told,
          shown>>

(***************************************************************************)
(* The breakpoints as the user sees them.                                  *)
(***************************************************************************)
Given == IF phase = "run" /\ ~active.closed
           THEN [table |-> active.table, extra |-> active.temporary]
           ELSE NoTable

Table == INSTANCE BreakpointTable
           WITH Files <- Times, table <- num2break, extra <- temporary,
                given <- Given

Numbers == Table!Numbers
Entries == Table!Entries
Extras  == Table!Extras
Tables  == [Numbers -> Entries \cup {NoEntry}]
Values  == [Numbers -> Texts \cup {Empty, Absent}]
Caches  == [table: Tables, temporary: Extras]

ASSUME BreakpointsAssumption ==
  /\ MaxNumber \in Nat
  /\ Total \in Nat \ {0}
  /\ NoFile \notin Times
  /\ NoEntry \notin Entries
  /\ NoTable \notin [table: Tables, extra: Extras]
  /\ Unknown \notin Caches
  /\ Absent \notin Texts \cup {Empty}
  /\ Shows \in [Exprs -> [Times -> Texts]]
  /\ Interrupts \in BOOLEAN /\ Crashes \in BOOLEAN

IsWatch(e) == e # NoEntry /\ e.code = "W"
Watched == {n \in Numbers : IsWatch(num2break[n])}

(***************************************************************************)
(* A process: what it was told (table, temporary, values), and the cache   *)
(* of its stub.  watchvalues are never copied into a cache (duplicate()).  *)
(***************************************************************************)
Process ==
  [time: Times, table: Tables, temporary: Extras,
   values: [Numbers -> Texts \cup {Empty}],
   cache: Caches \cup {Unknown}, closed: BOOLEAN]

Nothing == [n \in Numbers |-> NoEntry]

FirstProcess ==
  [time |-> 1, table |-> Nothing, temporary |-> "none",
   values |-> [n \in Numbers |-> Empty],
   cache |-> [table |-> Nothing, temporary |-> "none"], closed |-> FALSE]

\* AllBreakpoints.duplicate().  Mutant: only num2break is copied.
DuplicateTable == [table |-> num2break, temporary |-> "none"]

Duplicate == [table |-> num2break, temporary |-> temporary]

Forks == {t \in Times : paused[t] # NoProcess}

NoRequest == [number |-> 0, entry |-> NoEntry, temporary |-> "none"]

(***************************************************************************)
(* Forks left behind on a way from time from to time to: clone() copies    *)
(* what the process knows, and the cache.  The fork of time 1 is never     *)
(* made again (ReplayGroup).                                               *)
(***************************************************************************)
Leave(p, from, to) ==
  \E times \in SUBSET (2..Total \cap from..to) :
    paused' = [t \in Times |->
                 IF t \in times THEN [p EXCEPT !.time = t] ELSE paused[t]]

\* jump_in_time(target): a fork is resumed and runs there in mode 'i'.
Jump(target) ==
  \E t \in Forks :
    /\ t <= target
    /\ active' = [paused[t] EXCEPT !.time = target]
    /\ Leave(paused[t], t + 1, target)

-----------------------------------------------------------------------------
Init ==
  /\ num2break = Nothing
  /\ watchvalues = [n \in Numbers |-> Absent]
  /\ watchuids = [n \in Numbers |-> FALSE]
  /\ temporary = "none"
  /\ active = FirstProcess
  /\ paused = [t \in Times |-> IF t = 1 THEN FirstProcess ELSE NoProcess]
  /\ phase = "prompt"
  /\ request = NoRequest
  /\ told = Nothing
  /\ shown = 1

-----------------------------------------------------------------------------
(***************************************************************************)
(* The commands that edit.                                                 *)
(***************************************************************************)
\* Bound: nothing is set twice.
Unset(at) == \A n \in Numbers : num2break[n] # NoEntry => num2break[n].at # at

\* command_break, up to _bp_new().
AskBreak ==
  /\ phase = "prompt" /\ phase' = "new"
  /\ \E p \in Places \cup Relative :
       /\ Unset(p)
       /\ request' = [request EXCEPT !.entry = Table!Entry("B", p, NoFile)]
  /\ UNCHANGED <<dictionaries, temporary, active, paused, told, shown>>

\* command_watch, up to _bp_new(): the expression is tried out, in an older
\* fork if that is needed for its objects.
AskWatch ==
  /\ phase = "prompt" /\ phase' = "new" /\ ~active.closed
  /\ \E e \in Exprs :
       /\ Unset(e)
       /\ request' = [request EXCEPT !.entry = Table!Entry("W", e, NoFile)]
       /\ \/ UNCHANGED <<active, paused>>
          \/ e \in Mentions /\ Jump(active.time)
  /\ UNCHANGED <<dictionaries, temporary, told, shown>>

\* The expression is refused, or set_num2break() raises OverflowError.
Refuse ==
  /\ phase = "new" /\ phase' = "show"
  /\ UNCHANGED <<dictionaries, temporary, active, paused, request, told,
                 shown>>

\* _bp_new(): the first free number.  Mutant: one more than there are.
Free == {n \in Numbers : num2break[n] = NoEntry}

NextNumber == MaxNumber - Cardinality(Free) + 1

FirstFree == Min(Free)

NewNum2break ==
  LET new == FirstFree
  IN  /\ phase = "new" /\ Free # {}
      /\ num2break' = [num2break EXCEPT ![new] = request.entry]
      /\ request' = [request EXCEPT !.number = new]
      /\ told' = [told EXCEPT ![new] = NoEntry]
      /\ phase' = IF IsWatch(request.entry) THEN "value" ELSE "update"
      /\ UNCHANGED <<watchvalues, watchuids, temporary, active, paused, shown>>

NewValue ==
  /\ phase = "value" /\ phase' = "uids"
  /\ watchvalues' = [watchvalues EXCEPT ![request.number] = Empty]
  /\ UNCHANGED <<num2break, watchuids, temporary, active, paused, request,
                 told, shown>>

NewUids ==
  /\ phase = "uids" /\ phase' = "watches"
  /\ watchuids' = IF request.entry.at \in Mentions
                    THEN [watchuids EXCEPT ![request.number] = TRUE]
                    ELSE watchuids
  /\ UNCHANGED <<num2break, watchvalues, temporary, active, paused, request,
                 told, shown>>

\* "Breakpoint %d added", "Watchpoint %d added"; or "Breakpoint not added",
\* where the process took it back.
InThisFile(e) == IF Table!Open(e) THEN [e EXCEPT !.file = active.time] ELSE e

WasAdded(n) == TRUE                                             \* mutant

StillThere(n) == num2break[n] # NoEntry

Added ==
  /\ phase = "added" /\ phase' = "show"
  /\ told' = IF StillThere(request.number)
               THEN [told EXCEPT ![request.number] = InThisFile(request.entry)]
               ELSE told
  /\ UNCHANGED <<dictionaries, temporary, active, paused, request, shown>>

\* command_delete: pop() from one dictionary after the other.  Mutant: the
\* value stays.
KeepValue(n) == watchvalues

PoppedValue(n) == [watchvalues EXCEPT ![n] = Absent]

Delete ==
  /\ phase = "prompt" /\ phase' = "popvalue"
  /\ \E n \in Numbers :
       /\ num2break[n] # NoEntry
       /\ num2break' = [num2break EXCEPT ![n] = NoEntry]
       /\ told' = [told EXCEPT ![n] = NoEntry]
       /\ request' = [request EXCEPT !.number = n]
  /\ UNCHANGED <<watchvalues, watchuids, temporary, active, paused, shown>>

PopValue ==
  /\ phase = "popvalue" /\ phase' = "popuids"
  /\ watchvalues' = PoppedValue(request.number)
  /\ UNCHANGED <<num2break, watchuids, temporary, active, paused, request,
                 told, shown>>

PopUids ==
  /\ phase = "popuids" /\ phase' = "show"
  /\ watchuids' = [watchuids EXCEPT ![request.number] = FALSE]
  /\ UNCHANGED <<num2break, watchvalues, temporary, active, paused, request,
                 told, shown>>

-----------------------------------------------------------------------------
(***************************************************************************)
(* The commands that move.                                                 *)
(***************************************************************************)
Go ==
  /\ phase = "prompt" /\ phase' = "show"
  /\ \E t \in Times : Jump(t)
  /\ UNCHANGED <<dictionaries, temporary, request, told, shown>>

\* _stack_id_break() and _thread_num_break(), where the command is one of
\* those that have a temporary breakpoint.
StartTemporary ==
  \E t \in Extras :
    /\ temporary' = IF t = "none" THEN temporary ELSE t
    /\ request' = [request EXCEPT !.temporary = t]

\* step and continue, next, finish and nthread.  A tainted process is
\* replaced first (remove_tainting).
RunForward ==
  /\ phase = "prompt" /\ phase' = "update"
  /\ StartTemporary
  /\ UNCHANGED <<active, paused>> \/ Jump(active.time)
  /\ UNCHANGED <<dictionaries, told, shown>>

\* AllBreakpoints.is_empty()
IsEmpty == num2break = Nothing /\ temporary' = "none"

\* bstep, bcontinue, bnext, bfinish, bthread: a jump, and a run in mode 'r'
\* if anything is set.
RunBackward ==
  /\ phase = "prompt"
  /\ StartTemporary
  /\ \E t \in 1..active.time : Jump(t)
  /\ phase' = IF IsEmpty THEN "show" ELSE "update"
  /\ UNCHANGED <<dictionaries, told, shown>>

\* The finally clauses of the two.  Mutant: none.
LeaveTemporary == temporary

EndTemporary == "none"

(***************************************************************************)
(* go_forward() runs, in modes 'b' and 'r', and the command is over or     *)
(* goes on: a search takes an older window, next and finish run on, and    *)
(* hit_breakpoints() moves.                                                *)
(***************************************************************************)
Run ==
  /\ phase = "run" /\ ~active.closed
  /\ \/ /\ \E t \in active.time..Total :
             /\ active' = [active EXCEPT !.time = t]
             /\ Leave(active, active.time + 1, t)
        /\ phase' \in {"show", "update"}
     \/ /\ \E t \in Times : Jump(t)
        /\ phase' \in {"show", "update"}
  /\ temporary' = IF phase' = "show" THEN EndTemporary ELSE temporary
  /\ UNCHANGED <<dictionaries, request, told, shown>>

-----------------------------------------------------------------------------
(***************************************************************************)
(* update_breakpoints(), and what its caller does next.                    *)
(***************************************************************************)
Updated == IF request.number = 0 THEN "run" ELSE "added"

\* AllBreakpoints.compare(), 2 or 1.  Mutant: whatever stack_id.
SameNums(cache) == cache.table = num2break

Same(cache) == cache = Duplicate

NoValues == \A n \in Numbers : watchvalues[n] = Absent

UpdateStart ==
  /\ phase = "update" /\ ~active.closed /\ active.cache # Unknown
  /\ IF Same(active.cache) /\ NoValues
       THEN phase' = Updated /\ UNCHANGED active
       ELSE /\ active' = [active EXCEPT !.cache = Unknown]
            /\ phase' = IF Same(active.cache) THEN "values" ELSE "send"
  /\ UNCHANGED <<dictionaries, temporary, paused, request, told, shown>>

\* What the process makes of the table: each :line place gets the current
\* file, or is refused.
Expanded(n, refused) ==
  LET e == num2break[n]
  IN  IF e = NoEntry THEN e
      ELSE IF Table!Open(e) /\ n \in refused THEN NoEntry
      ELSE InThisFile(e)

SendBreakpoints ==
  /\ phase = "send" /\ phase' = "answers" /\ ~active.closed
  /\ \E refused \in SUBSET Numbers :
       active' = [active EXCEPT
                    !.table = [n \in Numbers |-> Expanded(n, refused)],
                    !.temporary = temporary,
                    !.values = [n \in Numbers |-> Empty]]
  /\ UNCHANGED <<dictionaries, temporary, paused, request, told, shown>>

\* ANSWER_CHBKPT for number n: an empty text takes it out.  Mutant: it stays,
\* with that text.
EmptyText(n) == IF active.table[n] = NoEntry
                  THEN Table!Entry("B", Empty, NoFile) ELSE active.table[n]

NewText(n) == active.table[n]

AnswerChbkpt ==
  /\ phase = "answers" /\ ~active.closed
  /\ \E n \in Numbers :
       /\ active.table[n] # num2break[n]
       /\ num2break' = [num2break EXCEPT ![n] = NewText(n)]
       /\ phase' = IF num2break' = active.table THEN "values" ELSE "answers"
  /\ UNCHANGED <<watchvalues, watchuids, temporary, active, paused, request,
                 told, shown>>

AnswerReady ==
  /\ phase = "answers" /\ phase' = "values" /\ ~active.closed
  /\ active.table = num2break
  /\ UNCHANGED <<dictionaries, temporary, active, paused, request, told,
                 shown>>

\* CMD_WATCHVALUES where there are watchpoints, and the new cache.
HasValue(n) == watchvalues[n] # Absent
Sent == [n \in Numbers |-> IF n \in Watched THEN watchvalues[n] ELSE Empty]

SendValues ==
  /\ phase = "values" /\ phase' = Updated /\ ~active.closed
  /\ \A n \in Watched : HasValue(n)
  /\ active' = [active EXCEPT !.values = IF Watched = {} THEN @ ELSE Sent,
                              !.cache = Duplicate]
  /\ UNCHANGED <<dictionaries, temporary, paused, request, told, shown>>

-----------------------------------------------------------------------------
(***************************************************************************)
(* update_watch_values().  An expression without a value raises KeyError,  *)
(* and the assertion at its end finds a value without an expression.       *)
(***************************************************************************)
Agree == \A n \in Numbers : HasValue(n) <=> n \in Watched

UpdateValues ==
  watchvalues' = [n \in Numbers |->
                    IF n \in Watched THEN Shows[num2break[n].at][active.time]
                                     ELSE watchvalues[n]]

\* In command_watch.
Watch ==
  /\ phase = "watches" /\ phase' = "added" /\ ~active.closed
  /\ Agree /\ UpdateValues
  /\ UNCHANGED <<num2break, watchuids, temporary, active, paused, request,
                 told, shown>>

(***************************************************************************)
(* print_lines_before_prompt(), after a command or ("restore") after       *)
(* Ctrl-C, when everything is shown anew.                                  *)
(***************************************************************************)
Showing == phase \in {"show", "restore"}

Prompt ==
  /\ Showing /\ phase' = "prompt"
  /\ IF phase = "show" /\ active.time = shown
       THEN UNCHANGED <<watchvalues, shown>>
       ELSE /\ ~active.closed /\ Agree /\ UpdateValues
            /\ shown' = active.time
  /\ request' = NoRequest
  /\ UNCHANGED <<num2break, watchuids, temporary, active, paused, told>>

\* A socket.error is caught once, where a watchpoint mentions an object.
Restart ==
  /\ active.closed /\ \E n \in Numbers : watchuids[n]
  /\ phase \in {"watches", "restore"} \/ (phase = "show" /\ active.time # shown)
  /\ Jump(1)
  /\ UNCHANGED <<dictionaries, temporary, phase, request, told, shown>>

(***************************************************************************)
(* Any other exception: an answer that does not come, breakpoints_cache =  *)
(* None in compare(), a KeyError.  run_command() reports it.  Outside it,  *)
(* an exception ends the debugger.                                         *)
(***************************************************************************)
Talking == {"new", "update", "send", "answers", "values", "run", "watches"}

Lost ==
  \/ active.closed
  \/ phase = "update" /\ active.cache = Unknown
  \/ phase = "values" /\ \E n \in Watched : ~HasValue(n)
  \/ phase = "watches" /\ ~Agree

Raise ==
  /\ phase \in Talking /\ Lost
  /\ phase' = "show"
  /\ temporary' = EndTemporary
  /\ UNCHANGED <<dictionaries, active, paused, request, told, shown>>

Die ==
  /\ Showing /\ (active.closed \/ ~Agree)
  /\ phase = "restore" \/ active.time # shown
  /\ phase' = "died"
  /\ UNCHANGED <<dictionaries, temporary, active, paused, request, told,
                 shown>>

\* recreate_subprocess(time).  Mutant: with the active process, if it is there.
KeepProcess(time) == active.time = time /\ UNCHANGED <<active, paused>>

Recreate(time) == Jump(time)

(***************************************************************************)
(* Ctrl-C: the active process is dropped and another one taken to the time *)
(* of the last prompt.  A second Ctrl-C before the next prompt is not      *)
(* caught.                                                                 *)
(***************************************************************************)
Interrupt ==
  /\ Interrupts /\ phase \notin {"restore", "died"}
  /\ Recreate(shown)
  /\ phase' = "restore"
  /\ temporary' = EndTemporary
  /\ request' = NoRequest
  /\ UNCHANGED <<dictionaries, told, shown>>

InterruptAgain ==
  /\ Interrupts /\ phase = "restore" /\ phase' = "died"
  /\ UNCHANGED <<dictionaries, temporary, active, paused, request, told,
                 shown>>

\* A process dies while it works; the next message to it fails, and all that
\* matters of its cache is whether it is None.
Crash ==
  /\ Crashes /\ phase \in (Talking \ {"new"}) \cup {"restore"}
  /\ ~active.closed
  /\ LET dead == [FirstProcess EXCEPT !.time = active.time, !.closed = TRUE]
     IN  active' = IF active.cache = Unknown
                     THEN [dead EXCEPT !.cache = Unknown] ELSE dead
  /\ UNCHANGED <<dictionaries, temporary, paused, phase, request, told,
                 shown>>

Ended == phase = "died" /\ UNCHANGED vars

-----------------------------------------------------------------------------
Command == AskBreak \/ AskWatch \/ Delete \/ Go \/ RunForward \/ RunBackward

Work == \/ Refuse \/ NewNum2break \/ NewValue \/ NewUids \/ Added
        \/ PopValue \/ PopUids \/ Watch
        \/ UpdateStart \/ SendBreakpoints \/ AnswerChbkpt \/ AnswerReady
        \/ SendValues \/ Run \/ Prompt \/ Restart \/ Raise \/ Die

Next == Command \/ Work \/ Interrupt \/ InterruptAgain \/ Crash \/ Ended

Spec == Init /\ [][Next]_vars

-----------------------------------------------------------------------------
(***************************************************************************)
(* Properties.                                                             *)
(***************************************************************************)
Phases == Talking \cup {"prompt", "value", "uids", "added", "popvalue",
                        "popuids", "show", "restore", "died"}

\* The type invariant of the tables, the processes and the call chain.
TypeOK ==
  /\ num2break \in Tables
  /\ watchvalues \in Values
  /\ watchuids \in [Numbers -> BOOLEAN]
  /\ temporary \in Extras
  /\ active \in Process
  /\ paused \in [Times -> Process \cup {NoProcess}]
  /\ phase \in Phases
  /\ request \in [number: Numbers \cup {0}, entry: Entries \cup {NoEntry},
                  temporary: Extras]
  /\ told \in Tables
  /\ shown \in Times

(***************************************************************************)
(* A cache is what its process was told: the comment "don't mutate this",  *)
(* and clone(), which copies both.  No fork has an unknown cache.          *)
(***************************************************************************)
Honest(p) == p.cache = [table |-> p.table, temporary |-> p.temporary]

CachesTrue ==
  /\ active.closed \/ active.cache = Unknown \/ Honest(active)
  /\ \A t \in Forks : Honest(paused[t])

(***************************************************************************)
(* A run that looks for hits has the breakpoints of the moment, the        *)
(* temporary breakpoint of its own command and of no other, and compares   *)
(* with the current values: whatever the fork it comes from knew, and      *)
(* whatever Ctrl-C or an exception cut short before.                       *)
(***************************************************************************)
RunsWithCurrent ==
  phase = "run" /\ ~active.closed =>
    /\ active.table = num2break
    /\ active.temporary = request.temporary
    /\ \A n \in Watched : active.values[n] = watchvalues[n]

(***************************************************************************)
(* What the user was told is added is there in full at every prompt: a     *)
(* :line breakpoint in the file where it was typed, a watchpoint with its  *)
(* value and its objects.                                                  *)
(***************************************************************************)
InFull(n) ==
  /\ num2break[n] = told[n]
  /\ IsWatch(told[n]) => /\ HasValue(n)
                         /\ told[n].at \in Mentions => watchuids[n]

ToldInFull ==
  phase = "prompt" => \A n \in Numbers : told[n] # NoEntry => InFull(n)

(***************************************************************************)
(* An exception in the middle of update_breakpoints() leaves the cache at  *)
(* None, and the next compare() fails.  That only happens to a process     *)
(* that is dead anyway.                                                    *)
(***************************************************************************)
UnknownIsDead == phase = "update" /\ active.cache = Unknown => active.closed

(***************************************************************************)
(* The assertion that ends update_watch_values(), at every prompt: Ctrl-C  *)
(* in the middle of _bp_new() or command_delete() ends the debugger or     *)
(* leaves the dictionaries whole.                                          *)
(***************************************************************************)
WholeAtPrompt == phase = "prompt" => Agree

\* Every run gets the user's table of the moment, which changes one entry
\* at a time.
Promise == Table!TableSpec
=============================================================================
