--------------------------- MODULE ForkHandshake ---------------------------
(***************************************************************************)
(* How a process is forked: the messages of clone() (_revdb/process.py),   *)
(* the descriptor that goes with them (fd_send.c), and the processes at    *)
(* the other ends of the sockets, with Ctrl-C between any two messages.    *)
(*                                                                         *)
(* ReplayGroup takes a clone for one step and says where forks are made    *)
(* and which one is resumed.  Here a fork is made wherever there is none,  *)
(* and a request that moves is any that is answered by ANSWER_READY.       *)
(***************************************************************************)
EXTENDS Integers, Sequences

CONSTANTS
  MaxSockets,     \* bound: pairs of sockets in use
  Total,          \* times 1..Total
  None,
  MaxInterrupts   \* bound: times the user presses Ctrl-C

Times   == 1..Total
Sockets == 1..MaxSockets

ASSUME HandshakeAssumption ==
  /\ MaxSockets \in Nat /\ 2 <= MaxSockets
  /\ Total \in Nat \ {0}
  /\ None \notin Sockets
  /\ MaxInterrupts \in Nat

VARIABLES
  line,           \* each pair of sockets, with what is at both ends
  active, paused, \* sockets: a stub is known by its socket
  phase,          \* where in the call chain of a command
  call,           \* the locals of clone() and its callers
  shown,          \* previous_time
  recovering,     \* in the handler of KeyboardInterrupt
  cut,            \* forks whose own clone() was cut short
  pressed         \* how often Ctrl-C was pressed

past == <<cut, pressed>>
vars == <<line, active, paused, phase, call, shown, recovering, past>>

Msg(cmd, arg) == [cmd |-> cmd, arg |-> arg]

\* The process and its time, the messages not read yet, and current_time of
\* the stub.
Line(state, time, stub) ==
  [state |-> state, time |-> time, requests |-> <<>>, answers |-> <<>>,
   stub |-> stub]

Unused == Line("unused", 1, 1)

Running(k) == line[k].state \in {"idle", "fetching"}

\* The sockets that the debugger still has.
Held == {active, call.child} \cup {paused[t] : t \in Times}

\* Its other end is on the way to a process that may fork.
Travelling(k) ==
  \E j \in Sockets : \E i \in DOMAIN line[j].requests :
    line[j].requests[i] = Msg("fd", k)

\* Mutant: clone() leaves its own end s2 of the child's socket open.
NeverClosed(k) == line[k].state = "dead"

Broken(k) ==
  \/ line[k].state = "dead"
  \/ line[k].state = "unborn" /\ ~Travelling(k)

\* Bound: a socket is used again when nobody has either end of it.
Fresh == {k \in Sockets \ Held : ~Travelling(k)}

\* The debugger drops stubs: their processes see the end of the socket.
Dropped(stubs, lines) ==
  [k \in Sockets |-> IF k \in stubs THEN Unused ELSE lines[k]]

NoCall == [parent |-> None, child |-> None, target |-> 1]

-----------------------------------------------------------------------------
\* After __init__: the first process and the fork of time 1.
Init ==
  /\ line = [k \in Sockets |-> IF k \in {1, 2} THEN Line("idle", 1, 1)
                               ELSE Unused]
  /\ active = 1
  /\ paused = [t \in Times |-> IF t = 1 THEN 2 ELSE None]
  /\ phase = "prompt"
  /\ call = NoCall
  /\ shown = 1
  /\ recovering = FALSE
  /\ cut = {}
  /\ pressed = 0

-----------------------------------------------------------------------------
(***************************************************************************)
(* The processes.  Not part of this repository: taken from what clone()    *)
(* expects, from message.py and from the tests.                            *)
(***************************************************************************)
Gone(l) == [l EXCEPT !.state = "dead", !.time = 1, !.requests = <<>>]

\* What process l does with the request it reads.
Serve(l) ==
  LET r    == Head(l.requests)
      now  == l.time + r.arg
      read == [l EXCEPT !.requests = Tail(@)]
  IN  CASE r.cmd = "FORK" -> [read EXCEPT !.state = "fetching"]
        [] r.cmd \in {"FORWARD", "BACKTRACE"} ->
             [read EXCEPT !.time = now,
                          !.answers = Append(@, Msg("READY", now))]
        [] OTHER -> Gone(l)

Served(k) ==
  /\ line[k].state = "idle" /\ line[k].requests # <<>>
  /\ line' = [line EXCEPT ![k] = Serve(@)]

\* The descriptor comes with a byte of its own.  A process that finds other
\* bytes there exits.  The child of a stub that was dropped exits too.
Fetched(k) ==
  /\ line[k].state = "fetching" /\ line[k].requests # <<>>
  /\ LET r     == Head(line[k].requests)
         ready == Msg("READY", line[k].time)
         split == [line EXCEPT ![k].state = "idle", ![k].requests = Tail(@),
                               ![k].answers = @ \o <<Msg("FORKED", 0), ready>>]
     IN  line' = IF r.cmd # "fd" THEN [line EXCEPT ![k] = Gone(@)]
                 ELSE IF r.arg \notin Held THEN split
                 ELSE [split EXCEPT ![r.arg].state = "idle",
                                    ![r.arg].time = line[k].time,
                                    ![r.arg].answers = <<ready>>]

ProcessStep ==
  /\ \E k \in Sockets : Served(k) \/ Fetched(k)
  /\ UNCHANGED <<active, paused, phase, call, shown, recovering, past>>

-----------------------------------------------------------------------------
(***************************************************************************)
(* send() and expect().  A failed expect() has read the message.  What     *)
(* they raise is reported by run_command(); in the handler of              *)
(* KeyboardInterrupt, it ends the debugger.                                *)
(***************************************************************************)
Send(k, msg) == line' = [line EXCEPT ![k].requests = Append(@, msg)]

Came(k, cmd) == line[k].answers # <<>> /\ Head(line[k].answers).cmd = cmd

Fails(k, cmd) == IF line[k].answers # <<>>
                   THEN Head(line[k].answers).cmd # cmd ELSE Broken(k)

Read(k) ==
  IF line[k].answers = <<>> THEN line
  ELSE [line EXCEPT ![k].answers = Tail(@)]

\* expect_ready() with update_times().
ReadTimes(k) ==
  [line EXCEPT ![k].answers = Tail(@), ![k].stub = Head(line[k].answers).arg]

Raise(lines) ==
  /\ phase' = IF recovering THEN "died" ELSE "show"
  /\ call' = [call EXCEPT !.child = None]
  /\ line' = Dropped({call.child}, lines)
  /\ UNCHANGED <<active, paused, shown, recovering, past>>

\* No end is left to send to.
SendFails(k) == Broken(k) /\ Raise(line)

ExpectFails(k, cmd) == Fails(k, cmd) /\ Raise(Read(k))

-----------------------------------------------------------------------------
(***************************************************************************)
(* The commands.                                                           *)
(***************************************************************************)
\* A jump to a time.
Go ==
  /\ phase = "prompt" /\ phase' = "resume"
  /\ \E t \in Times : call' = [NoCall EXCEPT !.target = t]
  /\ UNCHANGED <<line, active, paused, shown, recovering, past>>

\* A run forward from here.
Step ==
  /\ phase = "prompt" /\ phase' = "forward"
  /\ \E t \in line[active].stub..Total : call' = [NoCall EXCEPT !.target = t]
  /\ UNCHANGED <<line, active, paused, shown, recovering, past>>

\* Bound: a second CMD_QUIT, which nobody would read, is not sent.
HasQuit(k) ==
  \/ line[k].state = "dead"
  \/ \E i \in DOMAIN line[k].requests : line[k].requests[i].cmd = "QUIT"

\* _resume(): the last fork at or before the target; close() ignores errors.
Forks == {t \in Times : paused[t] # None}

EarlierFork == CHOOSE t \in Forks :
                 /\ t <= call.target
                 /\ \A u \in Forks : u <= call.target => u <= t

Resume ==
  /\ phase = "resume" /\ phase' = "fork"
  /\ IF active = None \/ HasQuit(active) THEN UNCHANGED line
     ELSE Send(active, Msg("QUIT", 0))
  /\ call' = [call EXCEPT !.parent = paused[EarlierFork]]
  /\ UNCHANGED <<active, paused, shown, recovering, past>>

-----------------------------------------------------------------------------
(***************************************************************************)
(* clone().                                                                *)
(***************************************************************************)
SendFork ==
  /\ phase = "fork" /\ ~Broken(call.parent)
  /\ Send(call.parent, Msg("FORK", 0))
  /\ phase' = "fds"
  /\ UNCHANGED <<active, paused, call, shown, recovering, past>>

SendFds ==
  /\ phase = "fds" /\ ~Broken(call.parent) /\ Fresh # {}
  /\ LET k == CHOOSE k \in Fresh : \A j \in Fresh : k <= j
     IN  /\ line' = [line EXCEPT
                       ![call.parent].requests = Append(@, Msg("fd", k)),
                       ![k] = Line("unborn", 1, 1)]
         /\ call' = [call EXCEPT !.child = k]
  /\ phase' = "forked"
  /\ UNCHANGED <<active, paused, shown, recovering, past>>

\* Mutant: the answer to CMD_FORK is taken for the times of the parent.
TimesOfForked(k) == ReadTimes(k)

ReadForked(k) == Read(k)

ExpectForked ==
  /\ phase = "forked" /\ Came(call.parent, "FORKED")
  /\ line' = ReadForked(call.parent)
  /\ phase' = "ready"
  /\ UNCHANGED <<active, paused, call, shown, recovering, past>>

\* Mutant: the parent is not asked whether it is ready.
SkipReady(k) == line

ReadReady(k) == ReadTimes(k)

ExpectReady ==
  /\ phase = "ready" /\ Came(call.parent, "READY")
  /\ line' = ReadReady(call.parent)
  /\ phase' = "child"
  /\ UNCHANGED <<active, paused, call, shown, recovering, past>>

\* Mutant: the fork itself is made the active process.
ActivateParent == active' = call.parent

ActivateChild == active' = call.child

\* The clone of the active process is kept under its time, the clone of a
\* fork becomes the active process.
ExpectChild ==
  /\ phase = "child" /\ Came(call.child, "READY")
  /\ IF call.parent = active
       THEN /\ line' = ReadTimes(call.child)
            /\ paused' = [paused EXCEPT ![line'[call.child].stub] = call.child]
            /\ UNCHANGED active
       ELSE /\ line' = Dropped({active}, ReadTimes(call.child))
            /\ ActivateChild
            /\ UNCHANGED paused
  /\ phase' = "forward"
  /\ call' = [call EXCEPT !.parent = None, !.child = None]
  /\ UNCHANGED <<shown, recovering, past>>

\* The expect_ready() of the parent never fails: an ANSWER_FORKED is always
\* followed by its ANSWER_READY.
CloneFails ==
  \/ phase \in {"fork", "fds"} /\ SendFails(call.parent)
  \/ phase = "forked" /\ ExpectFails(call.parent, "FORKED")
  \/ phase = "child" /\ ExpectFails(call.child, "READY")

-----------------------------------------------------------------------------
(***************************************************************************)
(* go_forward(): forks are left on the way, where there is none.           *)
(***************************************************************************)
Forward ==
  /\ phase = "forward" /\ ~Broken(active)
  /\ \E t \in line[active].stub..call.target :
       /\ t = call.target \/ t \notin Forks
       /\ Send(active, Msg("FORWARD", t - line[active].stub))
  /\ phase' = "moved"
  /\ UNCHANGED <<active, paused, call, shown, recovering, past>>

Moved ==
  /\ phase = "moved" /\ Came(active, "READY")
  /\ line' = ReadTimes(active)
  /\ \/ /\ line'[active].stub \notin Forks
        /\ phase' = "fork"
        /\ call' = [call EXCEPT !.parent = active]
     \/ /\ line'[active].stub = call.target
        /\ phase' = "show" /\ UNCHANGED call
  /\ UNCHANGED <<active, paused, shown, recovering, past>>

ForwardFails ==
  \/ phase = "forward" /\ SendFails(active)
  \/ phase = "moved" /\ ExpectFails(active, "READY")

-----------------------------------------------------------------------------
(***************************************************************************)
(* print_lines_before_prompt(): after a move, and after Ctrl-C.  Either    *)
(* has just been answered by the active process, which answers this too:   *)
(* CommandsEnd would tell if it did not.                                   *)
(***************************************************************************)
Unmoved == line[active].stub = shown /\ ~recovering

PromptUnmoved ==
  /\ phase = "show" /\ Unmoved
  /\ phase' = "prompt" /\ call' = NoCall
  /\ UNCHANGED <<line, active, paused, shown, recovering, past>>

Show ==
  /\ phase = "show" /\ ~Unmoved /\ ~Broken(active)
  /\ Send(active, Msg("BACKTRACE", 0))
  /\ phase' = "shown"
  /\ UNCHANGED <<active, paused, call, shown, recovering, past>>

Prompt ==
  /\ phase = "shown" /\ Came(active, "READY")
  /\ line' = ReadTimes(active)
  /\ shown' = line[active].stub
  /\ phase' = "prompt" /\ call' = NoCall
  /\ recovering' = FALSE
  /\ UNCHANGED <<active, paused, past>>

-----------------------------------------------------------------------------
(***************************************************************************)
(* Ctrl-C.  The terminal sends it to the processes too: one that is at     *)
(* work may be killed (test/ctrl_c.py).  The debugger drops the active     *)
(* process and the one it was making, and resumes a fork.                  *)
(***************************************************************************)
Midway == phase \in {"fds", "forked", "ready"}

AtWork == {k \in Sockets : /\ Running(k)
                           /\ \/ line[k].requests # <<>>
                              \/ line[k].state = "fetching"}

Interrupt ==
  /\ pressed < MaxInterrupts /\ pressed' = pressed + 1
  /\ ~recovering /\ phase \notin {"died", "exited"}
  /\ \E killed \in SUBSET (AtWork \ {active, call.child}) :
       line' = Dropped({active, call.child},
                       [k \in Sockets |-> IF k \in killed THEN Gone(line[k])
                                          ELSE line[k]])
  /\ active' = None
  /\ call' = [NoCall EXCEPT !.target = shown]
  /\ phase' = "resume"
  /\ recovering' = TRUE
  /\ cut' = IF Midway /\ call.parent # active THEN cut \cup {call.parent}
            ELSE cut
  /\ UNCHANGED <<paused, shown>>

\* Before the next prompt it is not caught again.
InterruptAgain ==
  /\ pressed > 0 /\ recovering /\ phase \notin {"died", "exited"}
  /\ phase' = "exited"
  /\ UNCHANGED <<line, active, paused, call, shown, recovering, past>>

Ended == phase \in {"died", "exited"} /\ UNCHANGED vars

-----------------------------------------------------------------------------
Command == Go \/ Step

Work == \/ Resume \/ SendFork \/ SendFds \/ ExpectForked \/ ExpectReady
        \/ ExpectChild \/ CloneFails \/ Forward \/ Moved \/ ForwardFails
        \/ PromptUnmoved \/ Show \/ Prompt

Next == Command \/ Work \/ ProcessStep \/ Interrupt \/ InterruptAgain \/ Ended

Spec == Init /\ [][Next]_vars

\* The debugger goes on, and a process answers or exits.
FairSpec == Spec /\ WF_vars(Work) /\ WF_vars(ProcessStep)

-----------------------------------------------------------------------------
(***************************************************************************)
(* Properties.                                                             *)
(***************************************************************************)
Requests == [cmd: {"FORK", "FORWARD", "BACKTRACE", "QUIT"}, arg: 0..Total]
              \cup [cmd: {"fd"}, arg: Sockets]
Answers == [cmd: {"READY", "FORKED"}, arg: 0..Total]

Phases == {"prompt", "resume", "fork", "fds", "forked", "ready", "child",
           "forward", "moved", "show", "shown", "died", "exited"}

\* The type invariant of the sockets, the stubs and the call chain.
TypeOK ==
  /\ line \in [Sockets ->
       [state: {"unused", "unborn", "idle", "fetching", "dead"}, time: Times,
        requests: Seq(Requests), answers: Seq(Answers), stub: Times]]
  /\ active \in Sockets \cup {None}
  /\ paused \in [Times -> Sockets \cup {None}]
  /\ phase \in Phases
  /\ call \in [parent: Sockets \cup {None}, child: Sockets \cup {None},
               target: Times]
  /\ shown \in Times
  /\ recovering \in BOOLEAN
  /\ cut \subseteq Sockets
  /\ pressed \in 0..MaxInterrupts

(***************************************************************************)
(* At the prompt, the active process has answered every request and is     *)
(* where its stub says: whatever was cut short before, and by whichever    *)
(* fork it was made.  The only other case is one that was told to quit, by *)
(* a jump that failed.                                                     *)
(***************************************************************************)
ActiveInSync ==
  phase = "prompt" =>
    \/ HasQuit(active)
    \/ line[active] = Line("idle", line[active].stub, line[active].stub)

(***************************************************************************)
(* No two stubs share a process: a fork is nobody else's, stays at the     *)
(* time it is kept under, and is alive unless its own clone() was cut      *)
(* short.                                                                  *)
(***************************************************************************)
ForksApart ==
  \A t \in Forks :
    /\ paused[t] \notin {active, call.child}
    /\ \A u \in Forks \ {t} : paused[u] # paused[t]
    /\ line[paused[t]].stub = t
    /\ paused[t] \notin cut => /\ Running(paused[t])
                               /\ line[paused[t]].time = t

(***************************************************************************)
(* The assertions of expect() and the end of a socket: a clone() only      *)
(* fails for a fork whose own clone() was cut short by Ctrl-C before.      *)
(* Ctrl-C anywhere else, the clone() of the active process included, does  *)
(* no harm.                                                                *)
(***************************************************************************)
OnlyCutForksFail ==
  [][CloneFails => call.parent \in cut]_vars

(***************************************************************************)
(* Nobody waits for an answer that does not come: a command, and the       *)
(* recovery from Ctrl-C, ends at a prompt or with the debugger.            *)
(***************************************************************************)
Resting == phase \in {"prompt", "died", "exited"}
CommandsEnd == ~Resting ~> Resting

\* The assertion of expect(): the next answer is the one that is expected.
AnswersAsExpected ==
  LET expects == CASE phase = "forked" -> {"FORKED"}
                   [] phase = "ready" -> {"READY"}
                   [] OTHER -> {"FORKED", "READY"}
      k == call.parent
  IN  k # None /\ line[k].answers # <<>> =>
        Head(line[k].answers).cmd \in expects
=============================================================================
