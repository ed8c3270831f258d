---------------------------- MODULE TimeMachine ----------------------------
(***************************************************************************)
(* What the debugger promises its user: a position in the recording, and   *)
(* commands that move it.  Nothing of forks, objects or searches.          *)
(*                                                                         *)
(*   step n    runs forward and stops at the end of the first gap that     *)
(*             interrupts the run, or after n stop points                  *)
(*   bstep n   goes back to the last interruption within n stop points,    *)
(*             or by n stop points                                         *)
(*   go t      moves to t                                                  *)
(*   look      prints something and stays where it is                      *)
(*   Ctrl-C    takes the user back to where the command was given          *)
(*                                                                         *)
(* A command may stay where it was given only when Ctrl-C was pressed or   *)
(* the process under the prompt has died.                                  *)
(***************************************************************************)
EXTENDS RecordedLog

CONSTANTS
  Args,         \* the numbers that a user types
  Interrupts,   \* TRUE where the user may press Ctrl-C
  Crashes       \* TRUE where a process may die while it runs

VARIABLES
  now,          \* the time shown at the prompt
  armed,        \* the breakpoints and watchpoints that are set
  values,       \* values[w]: what watchpoint w is compared with
  request,      \* the command under way, or NoRequest
  touched,      \* code was run in the program, which may have changed it
  dead,         \* the program is gone: Ctrl-C or a crash has hit it
  cut           \* Ctrl-C was pressed, and the last prompt is being restored

machineVars == <<now, armed, values, request, touched, dead, cut>>

NoRequest == [op |-> "none", arg |-> 0]

Requests ==
  [op: {"go", "step", "bstep"}, arg: Args]
    \cup [op: {"arm", "disarm"}, arg: Breaks \cup Watches]
    \cup {[op |-> "look", arg |-> 0]}

(***************************************************************************)
(* What the watchpoints in set can show at time t: what is recorded, or    *)
(* anything in a program that was changed.                                 *)
(***************************************************************************)
Showing(t, changed, set) ==
  {v \in [Watches -> Texts \cup {NoText}] :
     \A w \in set : v[w] \in IF changed THEN Texts ELSE {Shows[w][t]}}

(***************************************************************************)
(* The gaps that interrupt a run: the stoppoint, a breakpoint, or a        *)
(* watchpoint that shows something else than its value.                    *)
(***************************************************************************)
Changed(w) == {g \in Gaps : Shows[w][g + 1] # values[w]}

Noticed == UNION {Changed(w) : w \in armed \cap Watches}

Interruptions == BreakGaps(armed) \cup Noticed

Ahead(n) ==
  LET entered == {g \in Interruptions : now <= g /\ g < now + n}
  IN  IF entered = {} THEN Clamp(now + n) ELSE Min(entered) + 1

\* A watchpoint is shown after the gap, where its old value is still seen.
\* With nothing armed, bstep does not look for the stoppoint.
Behind(n) ==
  LET passed == {g \in Interruptions : now - n <= g /\ g < now}
      last   == Max(passed)
  IN  IF armed = {} \/ passed = {} THEN Clamp(now - n)
      ELSE IF last \in Noticed THEN last + 1 ELSE last

Destination ==
  CASE request.op = "go"    -> Clamp(request.arg)
    [] request.op = "step"  -> Ahead(request.arg)
    [] request.op = "bstep" -> Behind(request.arg)
    [] OTHER                -> now

MachineInit ==
  /\ now = 1
  /\ armed = {}
  /\ values = [w \in Watches |-> NoText]
  /\ request = NoRequest
  /\ ~touched /\ ~dead /\ ~cut

-----------------------------------------------------------------------------
(***************************************************************************)
(* The program under the prompt may be replaced by an unchanged one at any *)
(* time.  Only look runs code in it, and it does not die by itself.        *)
(***************************************************************************)
Program ==
  /\ touched' => touched \/ request'.op = "look"
  /\ dead' => dead \/ Interrupts \/ Crashes

Edited(r) == CASE r.op = "arm"    -> armed \cup {r.arg}
               [] r.op = "disarm" -> armed \ {r.arg}
               [] OTHER           -> armed

Ask == /\ request = NoRequest /\ ~cut
       /\ request' \in Requests
       /\ \/ armed' = armed
          \/ armed' = Edited(request') /\ armed' \cap Watches \subseteq armed
       /\ \A w \in armed' \cap Watches : values'[w] = values[w]
       /\ Program
       /\ UNCHANGED <<now, cut>>

\* A watchpoint is added, and all of them are evaluated.
Watch == /\ request.op = "arm" /\ request.arg \in Watches /\ ~cut
         /\ armed' = Edited(request)
         /\ values' \in Showing(now, touched, armed' \cap Watches)
         /\ UNCHANGED <<now, request, touched, dead, cut>>

Work == /\ request # NoRequest \/ cut
        /\ Program
        /\ UNCHANGED <<now, armed, values, request, cut>>

Answer == /\ request # NoRequest /\ ~cut
          /\ now' = Destination
          /\ \/ now' = now /\ UNCHANGED values
             \/ /\ now' # now /\ ~touched'
                /\ values' \in Showing(now', FALSE, armed \cap Watches)
          /\ request' = NoRequest
          /\ UNCHANGED <<armed, touched, dead, cut>>

CtrlC == /\ Interrupts /\ ~cut /\ cut'
         /\ Program
         /\ UNCHANGED <<now, armed, values, request>>

\* The last prompt is back.
Restored == /\ cut /\ ~cut' /\ ~touched' /\ ~dead'
            /\ values' \in Showing(now, FALSE, armed \cap Watches)
            /\ request' = NoRequest
            /\ UNCHANGED <<now, armed>>

\* The command has failed on a dead program.
Failed == /\ request # NoRequest /\ dead /\ ~cut
          /\ request' = NoRequest
          /\ UNCHANGED <<now, armed, values, touched, dead, cut>>

MachineNext == Ask \/ Watch \/ Work \/ Answer \/ CtrlC \/ Restored \/ Failed

MachineSpec == MachineInit /\ [][MachineNext]_machineVars
=============================================================================
