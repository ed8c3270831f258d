--------------------------- MODULE ReplayProcess ---------------------------
(***************************************************************************)
(* One replaying process, as its ReplayProcess stub in _revdb/process.py   *)
(* sees it, and what the requests of the stub do to it.  A module without  *)
(* behaviour of its own: ReplayGroup holds the processes as state.         *)
(***************************************************************************)
EXTENDS RecordedLog

CONSTANT Resolution     \* progress is shown every Resolution stop points

ASSUME ResolutionAssumption == Resolution \in Nat \ {0}

(***************************************************************************)
(*   time     current_time, from the last ANSWER_READY                     *)
(*   printed  printed_objects: uids the process has recorded or will       *)
(*            record when it moves past their creation                     *)
(*   tainted  the stub's flag: code was run in the process                 *)
(*   dirty    code was really run in the process, or in the one that it    *)
(*            was forked from after that                                   *)
(*   wait     wait_for_prompt                                              *)
(*   closed   the process was told to quit, or its socket is dead          *)
(***************************************************************************)
Process == [time: Times, printed: SUBSET Numbered, tainted: BOOLEAN,
            dirty: BOOLEAN, wait: BOOLEAN, closed: BOOLEAN]

FirstProcess == [time |-> 1, printed |-> {}, tainted |-> FALSE,
                 dirty |-> FALSE, wait |-> TRUE, closed |-> FALSE]

(***************************************************************************)
(* clone(): the stub of the fork starts with fresh flags.  The process     *)
(* behind it is a copy of p, with all that was run in p.                   *)
(***************************************************************************)
Clone(p) == [p EXCEPT !.tainted = FALSE, !.wait = TRUE]

\* close(): CMD_QUIT; an error is ignored.
Close(p) == [p EXCEPT !.closed = TRUE]

(***************************************************************************)
(* What a run reports to the debugger: the Breakpoint exception, with its  *)
(* time and whether one of its numbers is a watchpoint.                    *)
(***************************************************************************)
NoHit == [time |-> 0, watch |-> FALSE]
Reports == [time: 0..Total, watch: BOOLEAN]

(***************************************************************************)
(* The time at which forward(steps, mode) comes to rest.  In mode "b" the  *)
(* process stops at the end of the first gap of hits that it enters.  In   *)
(* mode "r" it runs on, but forward() asks it to run from one progress     *)
(* tick to the next and leaves its loop after the first such part in       *)
(* which something was hit.  In mode "i" nothing is hit.                   *)
(***************************************************************************)
Entered(p, steps, hits) == {g \in hits : p.time <= g /\ g < p.time + steps}

FirstTick(p) ==
  (p.time \div Resolution + 1 + IF p.wait THEN 1 ELSE 0) * Resolution

TickAfter(p, g) ==
  IF g < FirstTick(p) THEN FirstTick(p) ELSE (g \div Resolution + 1) * Resolution

\* Mutant: the process stops before the gap.
RestBefore(p, steps, mode, hits) ==
  LET entered == Entered(p, steps, hits)
  IN  IF mode = "i" \/ entered = {} THEN p.time + steps
      ELSE IF mode = "b" THEN Min(entered) ELSE p.time + steps

RestTime(p, steps, mode, hits) ==
  LET entered == Entered(p, steps, hits)
      first   == Min(entered)
      tick    == TickAfter(p, first)
  IN  IF mode = "i" \/ entered = {} THEN p.time + steps
      ELSE IF mode = "b" THEN first + 1
      ELSE IF tick < p.time + steps THEN tick ELSE p.time + steps

Forward(p, steps, mode, hits) ==
  [p EXCEPT !.time = RestTime(p, steps, mode, hits), !.wait = FALSE]

(***************************************************************************)
(* What that run reports.  _forward() keeps the group of breakpoints that  *)
(* arrived last; its time is the stop point after the gap when the process *)
(* stopped there, and the one before the gap when it ran on.               *)
(***************************************************************************)
\* Mutants: the first group is kept; the time is always the one after it.
ReportFirst(p, steps, mode, hits, watchHits) ==
  LET entered == Entered(p, RestTime(p, steps, mode, hits) - p.time, hits)
      first   == Min(entered)
  IN  IF mode = "i" \/ entered = {} THEN NoHit
      ELSE [time  |-> IF mode = "b" THEN first + 1 ELSE first,
            watch |-> first \in watchHits]

ReportAfter(p, steps, mode, hits, watchHits) ==
  LET entered == Entered(p, RestTime(p, steps, mode, hits) - p.time, hits)
      last    == Max(entered)
  IN  IF mode = "i" \/ entered = {} THEN NoHit
      ELSE [time |-> last + 1, watch |-> last \in watchHits]

Report(p, steps, mode, hits, watchHits) ==
  LET entered == Entered(p, RestTime(p, steps, mode, hits) - p.time, hits)
      last    == Max(entered)
  IN  IF mode = "i" \/ entered = {} THEN NoHit
      ELSE [time  |-> IF mode = "b" THEN last + 1 ELSE last,
            watch |-> last \in watchHits]
=============================================================================
