# RevDB, specified

TLA+ specifications of the RevDB user interface (`_revdb/`): the debugger that
replays a recording of a Python program and moves forward and backward in it.
The modules are checked with TLC on small instances; what matters most is
proved with TLAPS for every recording.

    tlc -config MCTravel.cfg MCReplayGroup.tla
    tlapm BreakpointsProofs.tla

## The system

A recording is a sequence of stop points, numbered from 1. A *replaying
process* (a RevDB build of PyPy, not part of this repository) is always paused
at one of them. It can run forward, it can fork, and it can run code typed by
the user, but it can never go back. `revdb.py` makes a debugger of this.

| Component | State | Operations | Talks to |
|---|---|---|---|
| `ReplayProcess` (`process.py`) | time, printed objects, tainted flag, cache of breakpoints, socket | `forward`, `clone`, `close`, `print_text_answer` | its replaying process, by request and answer |
| `ReplayProcessGroup` (`process.py`) | the active process, the paused forks by time, the list of `$NUM` objects, all breakpoints | `go_forward`, `go_backward`, `jump_in_time`, `ensure_printed_objects`, `print_cmd`, `show_*`, `update_breakpoints`, `update_watch_values`, `recreate_subprocess` | the `ReplayProcess` stubs |
| `AllBreakpoints` (`process.py`) | encoded break- and watchpoints, values and objects of watchpoints, temporary stack and thread breakpoints | edited by the commands, compared with the cache of a process | shared by the group and the commands |
| `RevDebugControl` (`interact.py`) | time and thread last shown, last command | one method per command, the prompt, Ctrl-C | the group, by calls and by the exceptions `Breakpoint` and `KeyboardInterrupt` |
| `UnionOfIntervals` (`uinterval.py`) | sorted list of ends | `add_range`, `covers`, `longest` | nobody |
| messages and descriptor passing (`message.py`, `ancillary.py`, `fd_send.c`) | what is in flight on the sockets | `send`, `recv`, `expect`, `sendmsg` | the replaying processes |
| colours, help, start-up | none | text | |

What makes it hard:

* **Going back is going forward.** The group keeps forks at increasing
  distances and resumes one of them; a reverse search runs over windows that
  grow to the left and takes the last hit of the first window that has one.
* **Objects.** A process can name a past object only if it recorded it when it
  was created. Forks made before the user printed an object do not know it;
  they are replaced when the debugger passes them, and an older fork is used
  when the object is needed before that.
* **Ctrl-C** arrives between any two lines, and the debugger promises to go
  back to the prompt it came from.
* **A process dies** when a watchpoint with side effects makes it run out of
  sync; the debugger can usually go on, from time 1 or with the next jump.
* **Parts of a run.** A run is cut at clone times and, in `forward()`, at ticks
  of the progress display; what the parts report has to be put together.
* **User code** must not run in a process that is used again.
* **Breakpoints are known twice**: the debugger has a table, each process has
  what it was told when it was last updated, and its stub has a cache of that.
  A fork comes back with the breakpoints of the day it was made.
* **A fork is made in five messages** over two sockets, one of which travels
  through the other.
* **`next` knows no stack**: it sees calls and returns of one frame, in the
  order they happened between two stop points.

What makes each component correct:

* the group: each command shows the time its definition gives; a fork for every
  target is always there; forks are what they claim to be; no more forks than
  the limit; a run ends.
* the process: a run cut in parts stops and reports as one run would.
* the control: Ctrl-C restores the last prompt; no exception ends the debugger.
* the breakpoints: a watchpoint is compared with what it shows at the prompt; a
  process runs with the current breakpoints; what the user was told is added is
  there.
* the sockets: an answer is read by the one who asked; nobody waits for ever;
  no two stubs share a process.
* the stepping commands: they end, and where the stacks say they should.
* the intervals: the list stands for the set.

## The modules

| Module | Models |
|---|---|
| `RecordedLog` | The recording: stop points, objects, where breakpoints fire, the stoppoint, what watched expressions show. All constants, with their assumptions. Partly external: what the replaying process does is taken from how `process.py` and the tests use it. |
| `ReplayProcess` | One process and the effect of the requests of its stub on it. Operators only. `RestTime` and `Report` are `forward()` and `_forward()`: the loop over progress ticks is given in closed form. |
| `TimeMachine` | Abstract specification: a time, a set of breakpoints, what watchpoints are compared with, and what `go`, `step`, `bstep`, user code and Ctrl-C do to them. |
| `ReplayGroup` | The debugger: `ReplayProcessGroup` driven by `RevDebugControl`. Instantiates `TimeMachine`. |
| `MCReplayGroup` | Recordings for TLC. |
| `ReplayGroupProofs`, `ReplayRunProofs`, `TimeMachineProofs` | The proofs: the forks; what a run and a search do; the refinement. |
| `BreakpointTable` | Abstract specification: one table of breakpoints, edited an entry at a time between runs; every run gets the table of the moment. |
| `Breakpoints`, `MCBreakpoints` | `AllBreakpoints` edited line by line, `update_breakpoints()` message by message, `update_watch_values()`, and the cache of every process. Instantiates `BreakpointTable`. |
| `BreakpointsProofs` | Its proofs, the refinement included. |
| `ForkHandshake` | `clone()`, `send()`, `expect()` and the descriptor that travels, with the processes at the other ends of the sockets as actors of their own. |
| `ForkHandshakeProofs` | Its proofs. |
| `Stepping`, `MCStepping` | `next`, `bnext`, `finish`, `bfinish`, `nthread`, `bthread` over a recording of calls, returns and thread switches, which the model makes one at a time. |
| `SteppingProofs` | Its proofs. |
| `UnionIntervals`, `MCUnionIntervals` | `UnionOfIntervals`, beside the set it stands for. |
| `UnionIntervalsProofs` | Its proofs. |
| `NumberLemmas` | What stands in for induction over numbers, for the proofs. |

How they share the debugger: `ReplayGroup` says where processes are, which fork
is resumed and where a move ends, and takes `clone()` and
`update_breakpoints()` for one step each. `ForkHandshake` opens the first of
these steps and `Breakpoints` the second; in both, a fork may be resumed and
left anywhere the rest of the program could choose, which is more than
`ReplayGroup` does. `Stepping` uses moves whose ends are what `TimeMachine`
promises of `step` and `bstep`.

### How ReplayGroup corresponds to the code

A command of the code is one call chain. The model cuts it where the state that
Ctrl-C would leave behind changes: `phase` is the place in `go_forward()`,
`call` its locals (`steps`, `breakpoint_mode`, `latest_bkpt`), `search` the
locals of `_backward_search_forward()`, and `after` the continuation, that is,
which caller goes on once `go_forward()` is back. Between two of these places
no variable of the model changes.

| Code | Model |
|---|---|
| `self.active`, `self.paused` | `active`, `paused` (`NoProcess` where there is no fork) |
| `all_printed_objects_lst` | `objects`, the set of its uids |
| `num2break`; `watchuids` | `armed`; `WatchUids` |
| `watchvalues` | `watchvalues` |
| `get_next_clone_time()` | `Outdated`, `NewCloneTime`, `NextCloneTime` |
| `go_forward()` | `ForwardToClone`, `CloneHere`, `CloneActive`, `ForwardLast` |
| `ensure_printed_objects()`, `_resume()` | `EnsureFrom`, `EnsureHere`, `Resume` |
| `jump_in_time()`, `recreate_subprocess()` | `Jump`, `Recreate` |
| `move_forward()`, `remove_tainting()`, `hit_breakpoints()` | `Step`, `StepOn`, `HitBreakpoints` |
| `go_backward()`, `_backward_search_forward()` | `BStep`, `SearchWindow`, `SearchFarther` |
| `print_cmd()`, `show_backtrace()`, `show_locals()` | `PrintCmd`, `PrintAnswer`, `Inspect` |
| `command_break`, `_delete`, `_watch`, `_quit` | `Break`, `Delete`, `Watch` and `WatchAnswer`, `Quit` |
| `print_lines_before_prompt()` | `Prompt`, `PromptMoved`, `PromptDied`, `PromptRestart` |
| `except KeyboardInterrupt` in `interact()` | `Interrupt`, `InterruptAgain` |
| a replaying process that gets out of sync (README.rst, on `watch`) | `Crash` |

Raised exceptions are `Raise`, `RaiseNone` and `Die`: an exception other than
`Breakpoint` is reported by `run_command()`, and ends the debugger where
`run_command()` is not on the stack. `RaiseNone` is one in `jump_in_time()`
before there is a process to run: where `recreate_subprocess()` has dropped the
active process, that ends the debugger too; once `_resume()` has set another
one, it is reported like any other.

`TimeMachine` sees of all this the following:

| `TimeMachine` | `ReplayGroup` |
|---|---|
| `now` | `previous_time`, the time of the last prompt |
| `armed`, `request` | the variables of these names |
| `values` | `watchvalues` |
| `touched` | `active.dirty` |
| `dead` | `active.closed`, unless the user has quit |
| `cut` | `after = "recover"`: Ctrl-C was pressed and is being recovered from |

and promises this. A command ends at its `Destination`, with the watchpoints
set to what the recording shows there (`Answer`). It may end where it was given
without being there in two cases only: Ctrl-C was pressed and the prompt is
restored, in an unchanged and live process (`Restored`), or the process under
the prompt is dead and the command has failed (`Failed`). A process dies only
by Ctrl-C or a crash, so that an instance without either has no excuse.
What a run is compared with is `values`, whatever they are: a watchpoint that
is set in a process in which the user ran code (`touched`) may have any value
(`Watch`, `Showing`), and the next run then stops where the recording differs
from it. The stoppoint interrupts every run forward; `bstep` looks for it only
with something armed.

In these two points `TimeMachine` follows the code where its README could be
read otherwise:

* `watch` and the refreshing of the watchpoints evaluate in the active process
  without `remove_tainting()` (`interact.py:471`, `process.py:478`). After
  `! statement` with a side effect, the value that is stored is that of the
  changed process. The next `continue` starts from a fresh fork, sees another
  value in the first gap and stops, though nothing has changed in the recording
  there. At the next prompt of another time the value is the recorded one again
  (`WatchesCurrent`).
* `go_backward()` skips the search where no breakpoint is set (`process.py:394`),
  so that `bcontinue` goes past the stoppoint, "always present" in the README;
  `continue` never does, and `bcontinue` finds it as soon as any breakpoint is
  set.

Abstractions, all of them on data or on the other side of the socket:

* A breakpoint is the set of gaps between stop points in which it fires, and
  the stoppoint (number -3) is a set of gaps that is always there; a
  watched expression is a table of what it shows at each time, and shows
  something else where it mentions an object the process has not recorded.
* Code that the user runs may change anything: in a process in which it was run
  (`dirty`) a watched expression may show any text (`CheckedWatch`), while all
  other processes replay the recording.
* A watch expression that mentions an object that does not exist now is refused
  by the process (`ok_flag` 0).
* `printed` follows the stub's `printed_objects`; the process is assumed to
  record what `CMD_FUTUREIDS` names, and what it was told before.
* `clone()` is one step, and `dirty`, which the code does not have, says that
  code really ran in the process or in the one it was forked from.
* `show_backtrace(complete=0)`, which draws the prompt, never attempts I/O.
* The process has the current breakpoints whenever it runs: that is
  `RunsWithCurrent` of `Breakpoints`.
* The user prints at most one new object per command.

### How Breakpoints corresponds to the code

| Code | Model |
|---|---|
| `num2break`, `watchvalues`, `watchuids` | the variables of these names; `sources`, only printed, goes with `num2break` |
| `stack_id`, `thread_num` | `temporary`: no command sets both |
| `breakpoints_cache` | `cache` of a process; `Unknown` is `None` |
| what the process was told | `table`, `temporary`, `values` of a process |
| `_bp_new()` | `NewNum2break`, `NewValue`, `NewUids`; `FirstFree` is its loop |
| `command_break`, `command_watch` | `AskBreak`, `AskWatch`, `Refuse`, `Watch`, `Added` |
| `command_delete` | `Delete`, `PopValue`, `PopUids` |
| `update_breakpoints()` | `UpdateStart`, `SendBreakpoints`, `AnswerChbkpt`, `AnswerReady`, `SendValues`; `Same` is `compare()` |
| `_stack_id_break()`, `_thread_num_break()` | `StartTemporary`, `EndTemporary` |
| `go_forward()` in modes `'b'` and `'r'` | `Run`: the process runs, forks are left on its way (`Leave`), and the caller is done or goes on |
| `jump_in_time()`, `recreate_subprocess()` | `Jump` (any earlier fork), `Recreate` |
| `update_watch_values()` | `UpdateValues`, `Restart`, `Agree` (its assertion) |
| exceptions | `Lost` says when, `Raise` and `Die` what becomes of them |

`told`, which the code does not have, is what the user has read on the screen:
"Breakpoint 1 added" and everything deleted since. A `:line` place belongs to
the file of the moment; each time is in a file of its own here.

### How ForkHandshake corresponds to the code

A pair of sockets is a `line`: the process at the other end, the requests and
answers that nobody has read yet, and the `current_time` of the stub. Each
`send` and each `expect` of `clone()` is an action (`SendFork`, `SendFds`,
`ExpectForked`, `ExpectReady`, `ExpectChild`), and so are `_forward()` (`Forward`,
`Moved`) and `show_backtrace()` (`Show`, `Prompt`). The processes take a
request when they get to it (`Served`, `Fetched`). A process sees the end of
its socket when the debugger has dropped the stub; the debugger sees it when
no process has or will get the other end (`Broken`), which needs `s2.close()`.
`Interrupt` drops the active process and the child under way; the terminal may
kill processes that are at work (`test/ctrl_c.py`).

### How Stepping corresponds to the code

`phase` is the loop a command is in: `next` and `bnext` for the outer one of
`command_next` and `command_bnext`, `over` and `bover` for the inner one.

`trace` is the recording: the stacks of all threads and the current thread,
after each call, return and switch (`kinds`), with the stop points at the
positions `at`. `Happen` and `StopPoint` make it before the first command, so
that a run covers every recording within its bounds. A new frame has a number
that no frame had before, and no thread returns from its last frame: that is
all that is said of the program. `Nums` are the changes of a gap for which the
process reports a number of frame `f` (`-1` where `f` calls, `-2` where
something returns to it), `Switches` a thread switch from or to a thread.

| Code | Model |
|---|---|
| the list that `Breakpoint` carries | `Nums`, `Num`; `Min` and `Max` of them are its first and last element |
| `_stack_id_break()`, `_thread_num_break()` around a move | `Hits` of `Forward` and `Backward` |
| `command_next` | `NextStep`, `NextOver`, `AfterNext` |
| `command_bnext` | `BackStep`, `BackOver`, `AfterBack` |
| `command_finish`, `command_bfinish` | `Finish`, `BackFinish` |
| `_cmd_thread` | `NextThread`, `BackThread`, `Target` |

Where the commands should end is said without numbers and loops, of the stacks
at the stop points: `NextStop`, `BackStop`, `FinishStop`, `ThreadStop`.

## Runs

| Run | Instance and bounds | Shows |
|---|---|---|
| `travel` | 7 stop points, a breakpoint in the gaps 2 and 5, a stoppoint in gap 6, a watchpoint that changes twice, 3 forks, first windows of 2 and 1, `n` in {0, 1, 2, 5, 8}, Ctrl-C, fair | `Promise` (the debugger implements `TimeMachine`), `SearchFindsLast`, `CommandsEnd` |
| `objects` | 6 stop points, objects created in the gaps 2 and 4, a watchpoint on each, one set at a time, a breakpoint, a stoppoint in gap 4, no Ctrl-C | `Promise`, `NeverDies`, `ObjectsLoaded`, `WatchesCurrent`, `SubprocessCap` |
| `interrupt` | the same with one watchpoint, Ctrl-C, and processes that die while they run | `TypeOK`, `OriginKept`, `ForksFaithful`, `CloneAhead`, `CtrlCRestores` |
| `progress` | 8 stop points, a stoppoint in gap 7, a progress tick every 2, windows of 4 and 3, fair | `StepsExact`, `SearchFindsSome`, `CommandsEnd` |
| `union` | ranges between nine bounds | `StrictlySorted`, `CoversExactly` |
| `breakpoints` | 2 numbers, a `:line` place and a watched expression on an object, one kind of temporary breakpoint, 2 times, Ctrl-C anywhere, processes that die | `Promise` (the debugger implements `BreakpointTable`), `TypeOK`, `CachesTrue`, `RunsWithCurrent`, `ToldInFull`, `WholeAtPrompt`, `UnknownIsDead` |
| `stepping` | every recording of 4 stop points with one of 9 kinds of gap, 2 threads, one hidden position or breakpoint; fair | `TypeOK`, `NextLands`, `BackLands`, `FinishLands`, `ThreadLands`, `LoopsEnd` |
| `handshake` | 5 pairs of sockets, 2 times, Ctrl-C up to three times; fair | `TypeOK`, `ActiveInSync`, `ForksApart`, `OnlyCutForksFail`, `CommandsEnd` |
| `search_tick` | as `progress`, breakpoint only | violation of `SearchFindsLast` |
| `half_clone` | as `interrupt`, no breakpoint or watchpoint | violation of `NeverDies` |
| `two_watches` | as `objects`, both watchpoints set | violation of `WatchesCurrent` |
| `fork_ctrlc` | as `handshake`, Ctrl-C up to twice | violation of `AnswersAsExpected` |

Why the bounds are enough. With `MAX_SUBPROCESSES` 3 and 6 to 8 stop points,
forks are made at 1, 3 and 5 or thereabouts, the limit is reached, and there is
room before, between and behind the forks. The first windows of a reverse
search (957 and 97 in the code) are small enough for several windows in one
search, with windows that reach beyond time 1 and beyond the limit of the
command. The resolution of the progress display (500000) is 100, beyond every
recording, except in the two runs about it. Two objects created at different
times are the least that lets one fork know one of them. The numbers a user
types include 0, 1, and one beyond the end; `step` and `bstep` with a large one
are `continue` and `bcontinue`. The stoppoint is within reach of runs and
searches, beside breakpoints, and there are stop points behind it, as there are
in the code once the main module has run.

In `breakpoints`, two numbers are the least where the first free one is not
the next one, and where an entry is added while another is half deleted; two
times are the least where a fork is older than the active process and where a
`:line` place may get the wrong file. One watchpoint is enough since none of
these steps relates two of them. In `handshake`, three presses of Ctrl-C are
the least for a fork whose `clone()` is cut short, is tried and fails, and is
tried again; a debugger uses four sockets at once (active, child, two forks),
and the fifth holds what a dropped one still has in flight. In `stepping`, four
stop points and gaps with two events allow a call that lasts for all of them, a
call within a gap, a return followed by a call in the same gap (where the order
of the numbers decides), calls that outlast the recording, and two levels of
calls; and a thread that takes over and gives back within a gap
(two switches), where the same thread runs at both stop points and `nthread`
must still stop. A recording holds a hidden position or a breakpoint of the user, not
both. `Shapes` lists with each kind of gap what it begins with, since a gap is
recorded change by change; `FirstNew` is larger than the frames that are there
at the beginning.

Fairness in `ReplayGroup`: `WF_vars(Work)`, where `Work` is every step of a command and none of
the user's. The debugger is a single thread that waits for nothing but the
answer of a process, and a process answers or its socket closes. Commands,
Ctrl-C and crashes are never fair. `CommandsEnd` holds with Ctrl-C because a second one
during the recovery ends the debugger.

Fairness in `ForkHandshake`: `WF_vars(Work)` for the debugger, and
`WF_vars(ProcessStep)`: some process that has a request goes on. A weaker
fairness than one per process is enough, as there is only a bounded number of
requests on the way. In `Stepping`: `WF_vars(Work)`, a command under way goes
on; the user need not type another.

Every run checks for deadlock; a debugger that has ended stutters in `Ended`.

## What the violations say

* `search_tick`. `forward()` breaks out of its loop after the first progress
  tick with a hit (`process.py:190`), also in mode `'r'`, which the docstring
  of `go_forward()` says records a breakpoint but continues. A reverse search
  over a tick reports the last hit *of the first part that has one*, while a
  later hit in the same window is missed. What remains true is checked in
  `progress`: the search still reports a hit of the window if it has any. The
  same early exit makes `go_forward()` put a fork at the tick instead of the
  clone time, so that the number of forks can pass `MAX_SUBPROCESSES`;
  `SubprocessCap` is therefore claimed, and checked, only for runs without
  ticks inside.
* `half_clone`. `go_forward()` closes an outdated fork before it has the new
  one. Ctrl-C in between leaves the closed one in `paused`. The recovery of
  Ctrl-C itself, or any later one, may resume it and fails with a
  `socket.error` outside `run_command()`: the debugger ends. The README says
  Ctrl-C is safe.
* `two_watches`. `watch` makes sure of the objects of the new expression only.
  The fork that is resumed for them may not know the object of a watchpoint
  that is set already, and the value of that watchpoint becomes an error text.
* `fork_ctrlc`. Ctrl-C in `clone()` of a paused fork, between its two answers
  `FORKED` and `READY`, leaves `READY` unread; the fork stays in `paused`. The
  next `clone()` of it reads the old `READY` where `expect()` asserts `FORKED`.
  Since the recovery from Ctrl-C itself resumes the fork before the time of the
  prompt, this is often the very next thing that happens, outside any `try`,
  and the debugger ends. What remains true is checked in `handshake`: only such
  forks fail (`OnlyCutForksFail`), and no wrong answer is ever taken for a
  right one up to the prompt (`ActiveInSync`).

## Proofs

From the named assumptions on the constants, and for all values of them. Where
a theorem needs more, its statement says so by name; each of these conditions
is met by a run above.

`ReplayGroupProofs`, for every recording:

| Theorem | States |
|---|---|
| `InvariantHolds` | the inductive invariant `IInv` |
| `TypeCorrect` | `TypeOK` |
| `OriginNeverLost` | `OriginKept`: the fork of time 1 is never lost, whatever Ctrl-C or a crash cuts short |
| `ForksStayFaithful` | `ForksFaithful`: no user code in a fork, each at its own time |
| `CloneNeverPast` | `CloneAhead`: the assertion of `go_forward()` |

None of the three properties is inductive alone. That no fork is made of a
tainted process needs to know which command the step under way belongs to
(`Staged`) and that the active process is clean while it moves (`Unmoved`).
That the fork of time 1 is never closed needs to know that a clone time where
there is a fork lies strictly ahead of the active process, which holds because
an outdated fork is looked for strictly ahead, and a *new* clone time lies
behind all forks; that in turn needs the active process never to have passed
the new clone time (`Within`). `Within` is kept since a run never goes beyond
its next clone time and forks are only added at the active process.

The layout: lemmas on least and greatest elements (`LeastExists` in
`NumberLemmas` goes through the well-founded order on finite sets, induction
being out of reach of the provers here), on the operators of the lower modules,
on the clone times (`NextCloneTimeFacts`, the heart of it), on what a jump
leaves behind (`Underway`), one lemma per action, and the theorems.

`ReplayRunProofs` goes on from there, for every recording:

| Theorem | States |
|---|---|
| `RunsReachGoal` | `RunInv`: a run whose caller relies on where it ends, ends there |
| `CtrlCAlwaysRestores` | `CtrlCRestores`: the prompt after Ctrl-C is at the time of the last one, in a live process |
| `ForksWithinCap` | `SubprocessCap`, where `NoTicks` |
| `SearchHolds` | `SearchInv`: what the part of a window passed so far says of its hits |
| `WindowsMissNothing` | `SearchFindsSome`: a window with a hit reports one |
| `WindowsFindLast` | `SearchFindsLast`, where `NoTicks`: it is the last one |
| `ForksStayAlive` | `AliveInv`: where `Undisturbed`, the only closed fork is the one that `go_forward()` is about to make again |
| `NothingKills` | `NeverDies`, where `Undisturbed` |

and `TimeMachineProofs` to the promise:

| Theorem | States |
|---|---|
| `ObjectsHold` | `ObjectsInv`: what each process knows of the objects of the watchpoint |
| `ObjectsAreLoaded` | `ObjectsLoaded`, where `Plain` |
| `WatchesStayCurrent` | `WatchesCurrent`, where `Plain`: each prompt of another time or after Ctrl-C leaves the watchpoints with the recorded values, and so does adding one in an unchanged process |
| `AheadHolds`, `StepsAreExact` | `AheadInv` and from it `StepsExact`, where `Plain`, progress ticks included: every run forward that returns, also one that does not move |
| `RequestsHold` | `Asked`: which command is under way at each continuation, and what it was asked |
| `BehindHolds` | `BehindInv`: a reverse search leaves no nearer interruption behind, and what it ends at is what `bstep` promises, unless the process is dead |
| `NeverRestarts` | `RestartInv`: nobody is sent back to time 1, where `Calm` |
| `KeepsPromise` | `Promise`, where `Calm`: every step of the debugger is a step of `TimeMachine` or none, with a command that stays where it was given only on a dead process or after Ctrl-C |

Each invariant is inductive together with `IInv` and is proved on its own. It
is about the command under way: how many steps are left to the goal of its
caller (`RunInv`), which hits of the window the run has passed (`SearchInv`),
that the active process has not passed the first interruption ahead
(`AheadInv`), that none lies between the windows and the prompt (`BehindInv`). `Asked` ties
the continuations to the command that was given: that nothing but the
destination is shown needs to know, at every place where a caller goes on or an
exception is reported, which destination that is.
Since a run is cut at clone times, the locals of `go_forward()` are worth
little alone; `active.time + call.steps` is what no cut changes, and most of
these invariants are about that sum. `CapInv` says that a run which stops at a
clone time finds a fork there or room for one: `get_next_clone_time()` gives a
new time only while there is room, and forks are only added at the end of the
run that was given the time.

The conditions are where the code stops keeping the promise.

* `NoTicks`: the recording is not longer than the resolution of the progress
  display. `search_tick` shows what happens otherwise. Met by `travel` and
  `objects`; `progress` checks what is proved without it.
* `Undisturbed`: no Ctrl-C and no dying process; `half_clone` shows what one
  Ctrl-C does. Met by `objects`.
* `Plain`: no watchpoint mentions an object, or there is at most one watchpoint
  and no process dies. `two_watches` shows what a second one does. Met by
  `travel` and `progress` in the first way, by `objects` in the second.
* `Calm`: `Plain` and `NoTicks`, and where watchpoints mention objects also no
  Ctrl-C: a dead process at the prompt with such a watchpoint makes the
  debugger start again from time 1, which is promised to nobody. `travel` (with
  Ctrl-C) and `objects` meet it.

`ForkHandshakeProofs`, for any number of sockets, times and presses of Ctrl-C:

| Theorem | States |
|---|---|
| `InvariantHolds` | the inductive invariant `IInv` |
| `TypeCorrect` | `TypeOK` |
| `ForksStayApart` | `ForksApart`: no two stubs share a process |
| `ActiveStaysInSync` | `ActiveInSync`: nothing is unread at the prompt |
| `OnlyCutForksCanFail` | `OnlyCutForksFail`: the assertions of `expect()` hold but for forks whose own `clone()` was cut short |

The invariant says what may be on each line in each phase (`Shape`). The active
process has nothing to read, was told to quit, or is at one of the places of
`_forward()` and `show_backtrace()` (`ActiveShape`). The parent of a `clone()`
is at a place of the exchange (`Handshake`) unless it is a fork that was cut
short before; of those (`Loose`) only the kind of what is on the line is known.
Every other fork is quiet (`ForkShape`). Whoever has a socket has it alone
(`Apart`), a socket that nobody has is unused (`OthersUnused`), and a descriptor
on its way is the child's, is there once, and is the last request of the parent
(`DescriptorOnce`): so a process that gets it gives it to the right child, and
one that was cut short finds that its descriptor is nobody's. `Shape` takes the
phase as a parameter, since the processes go on with what they were told when
the debugger has ended, and the last phase it was in is not in its state any
more. Ctrl-C moves a parent from `Handshake` to `Loose` (`MidwayLoose`) and
leaves all others as they were, which is why Ctrl-C anywhere else does no harm.

`BreakpointsProofs`, for any number of entries, places, expressions and times:

| Theorem | States |
|---|---|
| `InvariantHolds` | the inductive invariant `IInv` |
| `TypeCorrect` | `TypeOK` |
| `CachesStayTrue` | `CachesTrue`: a cache is what its process was told |
| `RunsStayCurrent` | `RunsWithCurrent`: a run has the breakpoints of the moment |
| `ToldHolds` | `ToldInFull`: what was announced is there |
| `PromptsAreWhole` | `WholeAtPrompt`: the assertion of `update_watch_values()` at the prompt |
| `UnknownMeansDead` | `UnknownIsDead`: no live process is left with the cache `None` |
| `Implements` | `Promise`: every step is a step of `BreakpointTable` or none |

The invariant adds what holds in the middle of a command: its locals and its
temporary breakpoint (`RequestInv`), that no process keeps a `:line` place
without its file and that the cache is `None` in the middle of an update and
nowhere else (`ProcessInv`), how far the answers of the process have changed
the table (`AnswerInv`), which of the three dictionaries may disagree, and
about which number (`AgreeInv`, `EntryInv`), and what is true of announced
entries between prompts (`ToldInv`). `ToldInFull` rests on `WholeAtPrompt`:
dictionaries torn by Ctrl-C do not reach a prompt. `Implements` needs the
invariant for the steps that change the table: `AnswerChbkpt` only closes or
removes an entry since the process's table differs from the debugger's in that
way only, and a run starts with the debugger's own table since `compare()`
looks at a cache that is true.

`UnionIntervalsProofs`, for any set of bounds: `StaysSorted`
(`StrictlySorted`) and `CoversIsExact` (`CoversExactly`). The invariant says
which integers the list stands for without a recursion: those with an odd
number of ends at or below them (`Stands`). `RangePlaces` is what the two
`bisect` calls and the corrections by one give; `RangeAdded` compares the place
of an integer in the new list with its place in the old one.

`SteppingProofs`, for every recording, of any length and number of threads:

| Theorem | States |
|---|---|
| `InvariantHolds` | the inductive invariant `Inv` |
| `TypeCorrect` | `TypeOK` |
| `NextCorrect` | `NextLands`: where `next` ends |
| `BackCorrect` | `BackLands`: where `bnext` ends |
| `FinishCorrect` | `FinishLands`: where `finish` and `bfinish` end |
| `ThreadCorrect` | `ThreadLands`: where `nthread` and `bthread` end |

`Inv` says of the recording that each change is a call, a return or a switch
(`Changed`; a return is a call seen from its other side), that no frame is in
two places and that each is older than the changes to come (`TraceInv`); that
the stop points cut it in order (`CutsInv`); and which command may be in which
loop (`CommandInv`).

Two lemmas about one change carry the rest. `NumberWaits`: a frame begins to
wait for a call exactly where its number is -1 and goes on exactly where it is
-2. So the last number of a gap says whether the frame waits after it, the
first whether it did before (`LastNumber`, `FirstNumber`), whatever lies
between, and without a number nothing changes; `next` and `bnext` look at just
these two. `NumberAbove`: as long as a frame is on top of its caller, the first
number of the caller is that of the return from that frame, which never comes
back since frames are numbered once; `finish` and `bfinish` rest on this.

The loops of `next` and `bnext` have the invariants `NextInv` and `BackInv`:
from where the loop is now, the command should end where it should have ended
from the beginning (`LandsLike`), and in the inner loop the frame has waited
since the beginning of the turn. Where they should end is a recursive function
over the stop points; that one exists (`NextStopExists`, `BackStopExists`) is
`UnwindsUp` of `NumberLemmas`, shown by the least stop point from which on there
is one. `finish` and the thread commands are one move each, for which
`FirstChange` and `LastChange` are enough: what holds up to the first hit and
not after it.

`nthread` stops after every gap in which the thread in question took over or
gave back, though the same thread may run at both ends of the gap:
`ThreadStop` says so of all states in the gap, and there is no condition on how
often the thread changes in it.

Only model-checked:

* `CommandsEnd` and `LoopsEnd`, which are liveness and stay with TLC, as does
  everything about ENABLED. Every invariant and every action property of a run
  that passes is stated by a theorem.

No module that is proved about uses a RECURSIVE operator.

## Not modelled

* The bytes of a message (`struct.pack`, the lengths in `set_num2break()`), the
  control message of `sendmsg()`: packing without state.
* Ctrl-C between `setdefault()` and `append()` in `print_text_answer()`
  (`process.py:250`): the dictionary and the list of objects are one set here.
  Read from the code, the next object then gets the same `$NUM`.
* Ctrl-C inside the first lines of a context manager, before `try`: the window
  between setting `stack_id` and entering `try` is one step of `RunForward`,
  and `Interrupt` clears the temporary breakpoint in every phase.
* The handshake when a fork is replaced in place: `ForkHandshake` makes forks
  where there is none (`ReplayGroup` has the replacement, and `half_clone`).
* The pid in `ANSWER_FORKED`: after a cut `clone()` a stub can carry that of
  another process, which nothing but a debug print reads.
* The order of two watchpoints in `update_watch_values()`; texts that are the
  same as before are stored anew.
* A stop point at a hidden position that is the first of all: `command_bnext`
  would not end there (`interact.py:341`).
* That a reverse search may report an earlier hit than the last
  (`search_tick`): the moves of `Stepping` are exact, so `bnext`, `bfinish`
  and `bthread` inherit that finding.
* The pdb that `run_command()` starts after an exception, in which the user can
  do anything; the empty command line, which repeats the last command.
* `linecacheoutput`, colours, `help`, `info`, option parsing, packaging: text.
* The recorder and the replaying process: another repository. What is said of
  it comes from `message.py`, the tests and what the stubs rely on.

## Plan

In order of importance; done unless marked.

1. `RecordedLog`, `ReplayProcess`, `ReplayGroup`, and `TimeMachine` as the
   abstract specification; runs `travel`, `objects`, `interrupt`, `progress`;
   the proofs of `ReplayGroupProofs`.
2. `Breakpoints` with `BreakpointTable`, run and proofs.
3. `ForkHandshake`, run `handshake`.
4. `Stepping`, run `stepping`.
5. `UnionIntervals`, run and proofs.
6. The proofs of `ReplayRunProofs`, `TimeMachineProofs` (the refinement of
   `TimeMachine`) and `ForkHandshakeProofs`.
7. The proofs of `SteppingProofs`.
8. *Open.* The handshake of a fork that is replaced in place; Ctrl-C between
   `setdefault()` and `append()` (`process.py:250`).
