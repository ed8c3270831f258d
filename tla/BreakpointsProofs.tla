------------------------- MODULE BreakpointsProofs -------------------------
(***************************************************************************)
(* Proofs about Breakpoints, for every value of the constants: the         *)
(* invariants that MCBreakpoints checks, and that the debugger implements  *)
(* BreakpointTable.                                                        *)
(*                                                                         *)
(* The inductive invariant IInv adds to the invariants what is true in the *)
(* middle of a command: which locals it has, what the process has made of  *)
(* the table while it answers, and how far the three dictionaries are.     *)
(***************************************************************************)
EXTENDS Breakpoints, NumberLemmas, FiniteSetTheorems, TLAPS
-----------------------------------------------------------------------------
(***************************************************************************)
(* The inductive invariant.                                                *)
(***************************************************************************)
Updating == {"update", "send", "answers", "values"}
Moving   == Updating \cup {"run"}
Telling  == {"value", "uids", "watches", "added", "popvalue", "popuids"}

\* The locals of a command go with the phase, and so does the temporary
\* breakpoint.
RequestInv ==
  /\ phase \in Moving => temporary = request.temporary
  /\ phase \notin Moving => temporary = "none"
  /\ request.number # 0 => request.temporary = "none"
  /\ phase = "prompt" => request = NoRequest
  /\ phase = "new" => /\ request.number = 0 /\ request.temporary = "none"
                      /\ request.entry # NoEntry /\ request.entry.file = NoFile
  /\ phase \in Telling => request.number # 0
  /\ phase = "run" => request.number = 0

\* No process knows of a place whose file is not known.
Closed(p) == \A n \in Numbers : p.table[n] # NoEntry => ~Table!Open(p.table[n])

ProcessInv ==
  /\ Closed(active)
  /\ \A t \in Forks : Closed(paused[t])
  /\ active.cache = Unknown => active.closed \/ phase \in Updating \ {"update"}
  /\ phase \in Updating \ {"update"} => active.closed \/ active.cache = Unknown

\* What the process makes of the table, while it answers.
AnswerInv ==
  phase \in {"answers", "values"} /\ ~active.closed =>
    /\ active.temporary = temporary
    /\ \A n \in Numbers : active.table[n] # num2break[n] =>
         /\ phase = "answers"
         /\ num2break[n] # NoEntry /\ Table!Open(num2break[n])
         /\ active.table[n] \in {NoEntry, InThisFile(num2break[n])}

\* The values go with the watchpoints, but for the one that is being edited.
AgreeBut(n) == \A m \in Numbers \ {n} : HasValue(m) <=> m \in Watched

AgreeInv ==
  /\ phase \notin {"value", "popvalue", "restore", "died"} => Agree
  /\ phase = "value" => AgreeBut(request.number)
  /\ phase = "popvalue" => /\ AgreeBut(request.number)
                           /\ num2break[request.number] = NoEntry

\* The entry that is being added.
EntryInv ==
  request.number # 0 /\ phase \in Updating \cup Telling =>
    LET n == request.number
        e == request.entry
    IN  /\ told[n] = NoEntry
        /\ phase \notin {"popvalue", "popuids"} => e # NoEntry
        /\ phase \in {"value", "uids", "watches"} =>
             IsWatch(e) /\ num2break[n] = e
        /\ phase = "watches" /\ e.at \in Mentions => watchuids[n]
        /\ phase = "added" /\ IsWatch(e) /\ e.at \in Mentions => watchuids[n]
        /\ phase \in Updating => ~IsWatch(e)
        /\ phase \in {"update", "send"} => num2break[n] = e
        /\ phase = "answers" /\ ~active.closed =>
             num2break[n] \in {e, NoEntry, InThisFile(e)}
        /\ phase = "answers" /\ ~active.closed =>
             active.table[n] \in {NoEntry, InThisFile(e)}
        /\ phase = "values" /\ ~active.closed =>
             num2break[n] \in {NoEntry, InThisFile(e)}
        /\ phase = "added" => num2break[n] \in {NoEntry, InThisFile(e)}

ToldInv ==
  \A n \in Numbers : told[n] # NoEntry => InFull(n) /\ ~Table!Open(told[n])

IInv == /\ TypeOK /\ CachesTrue /\ RunsWithCurrent
        /\ RequestInv /\ ProcessInv /\ AnswerInv /\ AgreeInv /\ EntryInv
        /\ ToldInv

-----------------------------------------------------------------------------
(***************************************************************************)
(* Lemmas about entries, processes and values.                            *)
(***************************************************************************)
\* A process that is not closed is not in the middle of an update.
LEMMA HonestKnown ==
  ASSUME NEW p \in Process, Honest(p)
  PROVE  p.cache # Unknown
BY BreakpointsAssumption DEF Process, Honest, Caches

\* The process that __init__ and a restart begin with.
LEMMA FirstGood == FirstProcess \in Process /\ Honest(FirstProcess)
                     /\ Closed(FirstProcess)
BY BreakpointsAssumption DEF FirstProcess, Process, Honest, Closed, Caches,
   Tables, Extras, Table!Extras, Times, Nothing

\* Forks left on the way are as good as the process they are clones of.
LEMMA LeaveGood ==
  ASSUME TypeOK, CachesTrue, ProcessInv, NEW p \in Process, Honest(p),
         Closed(p), NEW from, NEW to, Leave(p, from, to)
  PROVE  /\ paused' \in [Times -> Process \cup {NoProcess}]
         /\ \A t \in Forks' : Honest(paused'[t]) /\ Closed(paused'[t])
<1>1. \A t \in Times : LET q == [p EXCEPT !.time = t]
               IN  q \in Process /\ Honest(q) /\ Closed(q)
  BY DEF Process, Honest, Closed
<1> QED BY <1>1 DEF Leave, TypeOK, CachesTrue, ProcessInv, Forks

\* The numbers of breakpoints.
LEMMA NumbersFact == Numbers \subseteq Nat /\ 0 \notin Numbers
BY BreakpointsAssumption DEF Numbers, Table!Numbers

\* What add_breakpoint() is called with.
LEMMA NewEntry ==
  /\ \A p \in Places \cup Relative :
       LET e == Table!Entry("B", p, NoFile)
       IN  e \in Entries /\ e.file = NoFile
  /\ \A x \in Exprs :
       LET e == Table!Entry("W", x, NoFile)
       IN  e \in Entries /\ e.file = NoFile /\ ~Table!Open(e)
  /\ NoEntry \notin Entries
BY BreakpointsAssumption DEF Entries, Table!Entries, Table!Entry, Table!Open

\* An entry as the process expands it.
LEMMA EntryFacts ==
  ASSUME TypeOK, NEW e \in Entries
  PROVE  /\ e # NoEntry
         /\ IsWatch(e) => e.at \in Exprs /\ ~Table!Open(e)
         /\ InThisFile(e) \in Entries
         /\ ~Table!Open(InThisFile(e))
         /\ ~Table!Open(e) => InThisFile(e) = e
         /\ IsWatch(InThisFile(e)) <=> IsWatch(e)
<1>1. active.time \in Times /\ NoFile \notin Times /\ e # NoEntry
  BY BreakpointsAssumption DEF TypeOK, Process
<1>2. CASE \E p \in Places \cup Relative :
             e = [code |-> "B", at |-> p, file |-> NoFile]
  <2>1. PICK p \in Places \cup Relative :
          e = [code |-> "B", at |-> p, file |-> NoFile]
    BY <1>2
  <2>2. InThisFile(e) = IF p \in Relative
                          THEN [code |-> "B", at |-> p, file |-> active.time]
                          ELSE e
    BY <2>1, <1>1 DEF InThisFile, Table!Open
  <2>3. InThisFile(e) \in Entries
    BY <2>2, <2>1, <1>1 DEF Entries, Table!Entries, Table!Entry
  <2> QED BY <2>1, <2>2, <2>3, <1>1, BreakpointsAssumption DEF Table!Open,
     IsWatch
<1>3. CASE \E p \in Relative, f \in Times :
             e = [code |-> "B", at |-> p, file |-> f]
  BY <1>1, <1>3 DEF Table!Open, IsWatch, InThisFile
<1>4. CASE \E x \in Exprs : e = [code |-> "W", at |-> x, file |-> NoFile]
  BY <1>1, <1>4 DEF Table!Open, IsWatch, InThisFile
<1> QED BY <1>2, <1>3, <1>4 DEF Entries, Table!Entries, Table!Entry

\* update_watch_values() gives a value to the watchpoints that had one.
LEMMA UpdateType ==
  ASSUME TypeOK, Agree, UpdateValues, num2break' = num2break
  PROVE  /\ watchvalues' \in Values
         /\ \A n \in Numbers : HasValue(n)' <=> HasValue(n)
<1>1. ASSUME NEW n \in Watched
      PROVE  Shows[num2break[n].at][active.time] \in Texts
  <2>1. num2break[n] \in Entries /\ num2break[n].at \in Exprs
    BY EntryFacts DEF Watched, IsWatch, TypeOK, Tables
  <2> QED BY <2>1, BreakpointsAssumption DEF TypeOK, Process
<1> QED BY <1>1, BreakpointsAssumption DEF UpdateValues, TypeOK, Values,
   HasValue, Agree, Watched

-----------------------------------------------------------------------------
(***************************************************************************)
(* One lemma for each action.                                             *)
(***************************************************************************)
\* The commands break and watch, up to the answer.
LEMMA AskBreakKeeps ==
  ASSUME IInv, AskBreak
  PROVE  IInv'
<1> USE NumbersFact DEF IInv, AskBreak
<1>1. TypeOK'
  BY NewEntry DEF TypeOK, Phases, Talking, dictionaries
<1>2. RequestInv'
  BY BreakpointsAssumption DEF Entries, Table!Entries, Table!Entry,
     RequestInv, Telling, NoRequest
<1>3. CachesTrue' /\ RunsWithCurrent' /\ ProcessInv' /\ AnswerInv'
  BY DEF CachesTrue, Forks, RunsWithCurrent, ProcessInv, Updating, AnswerInv
<1>4. AgreeInv' /\ EntryInv' /\ ToldInv'
  BY DEF AgreeInv, Agree, HasValue, Watched, EntryInv, Updating, Telling,
     ToldInv, InFull, dictionaries
<1> QED BY <1>1, <1>2, <1>3, <1>4

\* Refuse keeps the invariant.
LEMMA RefuseKeeps ==
  ASSUME IInv, Refuse
  PROVE  IInv'
<1> USE NumbersFact DEF IInv, Refuse
<1>1. TypeOK'
  BY DEF TypeOK, Phases, dictionaries
<1>2. RequestInv'
  BY DEF RequestInv, Telling
<1>3. CachesTrue' /\ RunsWithCurrent' /\ ProcessInv' /\ AnswerInv'
  BY DEF CachesTrue, Forks, RunsWithCurrent, ProcessInv, Updating, AnswerInv
<1>4. AgreeInv' /\ EntryInv' /\ ToldInv'
  BY DEF AgreeInv, Agree, HasValue, Watched, EntryInv, Updating, Telling,
     ToldInv, InFull, dictionaries
<1> QED BY <1>1, <1>2, <1>3, <1>4

\* NewValue keeps the invariant.
LEMMA NewValueKeeps ==
  ASSUME IInv, NewValue
  PROVE  IInv'
<1> USE NumbersFact DEF IInv, NewValue
<1>1. TypeOK'
  BY DEF TypeOK, Values, Phases
<1>2. RequestInv'
  BY DEF RequestInv, Telling
<1>3. CachesTrue' /\ RunsWithCurrent' /\ ProcessInv' /\ AnswerInv'
  BY DEF CachesTrue, Forks, RunsWithCurrent, ProcessInv, Updating, AnswerInv
<1>4. AgreeInv'
  <2>1. request.number \in Numbers /\ IsWatch(num2break[request.number])
    BY DEF EntryInv, TypeOK, RequestInv, Moving, Updating, Telling
  <2>2. \A m \in Numbers : HasValue(m)' <=> m = request.number \/ HasValue(m)
    BY <2>1, BreakpointsAssumption DEF HasValue, TypeOK, Values
  <2>3. Watched' = Watched
    BY DEF Watched
  <2>4. AgreeBut(request.number) /\ request.number \in Watched
    BY <2>1 DEF AgreeInv, Watched
  <2> QED BY <2>1, <2>2, <2>3, <2>4 DEF AgreeInv, Agree, AgreeBut
<1>5. EntryInv' /\ ToldInv'
  BY DEF EntryInv, Updating, Telling, ToldInv, InFull, HasValue
<1> QED BY <1>1, <1>2, <1>3, <1>4, <1>5

\* NewUids keeps the invariant.
LEMMA NewUidsKeeps ==
  ASSUME IInv, NewUids
  PROVE  IInv'
<1> USE NumbersFact DEF IInv, NewUids
<1>1. TypeOK'
  BY DEF TypeOK, Phases, Talking
<1>2. RequestInv'
  BY DEF RequestInv, Telling
<1>3. CachesTrue' /\ RunsWithCurrent' /\ ProcessInv' /\ AnswerInv'
  BY DEF CachesTrue, Forks, RunsWithCurrent, ProcessInv, Updating, AnswerInv
<1>4. EntryInv'
  BY DEF EntryInv, Updating, Telling, TypeOK
<1>5. AgreeInv' /\ ToldInv'
  BY DEF AgreeInv, Agree, HasValue, Watched, ToldInv, InFull
<1> QED BY <1>1, <1>2, <1>3, <1>4, <1>5

\* Added keeps the invariant.
LEMMA AddedKeeps ==
  ASSUME IInv, Added
  PROVE  IInv'
<1> USE NumbersFact DEF IInv, Added
<1>1. TypeOK'
  <2>1. request.number # 0 /\ request.entry \in Entries
    BY DEF EntryInv, TypeOK, RequestInv, Moving, Updating, Telling
  <2>2. InThisFile(request.entry) \in Entries
    BY <2>1, EntryFacts
  <2> QED BY <2>2 DEF TypeOK, Process, Tables, Values, Caches, Phases,
     Talking, Extras, Table!Extras, NoRequest, dictionaries
<1>2. RequestInv'
  BY DEF RequestInv, Telling
<1>3. CachesTrue' /\ RunsWithCurrent' /\ ProcessInv' /\ AnswerInv'
  BY DEF CachesTrue, Forks, RunsWithCurrent, ProcessInv, Updating, AnswerInv
<1>4. ToldInv'
  <2> DEFINE n == request.number
             e == request.entry
  <2>1. n \in Numbers /\ e \in Entries
        /\ num2break[n] \in {NoEntry, InThisFile(e)}
    BY DEF EntryInv, TypeOK, RequestInv, Moving, Updating, Telling
  <2>2. /\ InThisFile(e) \in Entries /\ ~Table!Open(InThisFile(e))
        /\ IsWatch(InThisFile(e)) => InThisFile(e) = e
    BY <2>1, EntryFacts
  <2>3. IsWatch(e) /\ e.at \in Mentions => watchuids[n]
    BY <2>1 DEF EntryInv, RequestInv, Moving, Updating, Telling
  <2>4. IsWatch(num2break[n]) => HasValue(n)
    BY <2>1 DEF AgreeInv, Agree, Watched
  <2>5. CASE ~StillThere(n)
    BY <2>5 DEF ToldInv, InFull, HasValue, dictionaries
  <2>6. CASE StillThere(n)
    <3>1. num2break[n] = InThisFile(e)
      BY <2>6, <2>1 DEF StillThere
    <3>2. told' = [told EXCEPT ![n] = InThisFile(e)]
      BY <2>6
    <3>3. ASSUME NEW m \in Numbers, told'[m] # NoEntry
          PROVE  InFull(m)' /\ ~Table!Open(told'[m])
      <4>1. CASE m = n
        <5>1. told'[m] = InThisFile(e)
          BY <4>1, <3>2, <2>1 DEF TypeOK, Tables
        <5> QED BY <5>1, <4>1, <3>1, <2>2, <2>3, <2>4 DEF InFull, HasValue,
           dictionaries
      <4>2. CASE m # n
        <5>1. told'[m] = told[m]
          BY <4>2, <3>2, <2>1 DEF TypeOK, Tables
        <5> QED BY <5>1, <3>3 DEF ToldInv, InFull, HasValue, dictionaries
      <4> QED BY <4>1, <4>2
    <3> QED BY <3>3 DEF ToldInv
  <2> QED BY <2>5, <2>6
<1>5. AgreeInv' /\ EntryInv'
  BY DEF AgreeInv, Agree, HasValue, Watched, EntryInv, Updating, Telling,
     dictionaries
<1> QED BY <1>1, <1>2, <1>3, <1>4, <1>5

\* The command delete, one dictionary after the other.
LEMMA DeleteKeeps ==
  ASSUME IInv, Delete
  PROVE  IInv'
<1> USE NumbersFact DEF IInv, Delete
<1>1. TypeOK'
  BY DEF TypeOK, Tables, Phases
<1>2. RequestInv'
  BY DEF RequestInv, NoRequest
<1>3. CachesTrue' /\ RunsWithCurrent' /\ ProcessInv' /\ AnswerInv'
  BY DEF CachesTrue, Forks, RunsWithCurrent, ProcessInv, Updating, AnswerInv
<1>4. AgreeInv'
  BY DEF AgreeInv, Agree, AgreeBut, HasValue, Watched, TypeOK, Tables
<1>5. EntryInv'
  BY DEF EntryInv, Updating, TypeOK, Tables
<1>6. ToldInv'
  BY DEF ToldInv, InFull, HasValue, TypeOK, Tables
<1> QED BY <1>1, <1>2, <1>3, <1>4, <1>5, <1>6

\* PopValue keeps the invariant.
LEMMA PopValueKeeps ==
  ASSUME IInv, PopValue
  PROVE  IInv'
<1> USE NumbersFact DEF IInv, PopValue
<1>1. TypeOK'
  BY DEF PoppedValue, TypeOK, Values, Phases
<1>2. RequestInv'
  BY DEF RequestInv, Telling
<1>3. CachesTrue' /\ RunsWithCurrent' /\ ProcessInv' /\ AnswerInv'
  BY DEF CachesTrue, Forks, RunsWithCurrent, ProcessInv, Updating, AnswerInv
<1>4. AgreeInv'
  <2>1. request.number \in Numbers /\ num2break[request.number] = NoEntry
    BY DEF AgreeInv, TypeOK, RequestInv, Moving, Updating, Telling
  <2>2. \A m \in Numbers : HasValue(m)' <=> m # request.number /\ HasValue(m)
    BY <2>1, BreakpointsAssumption DEF HasValue, TypeOK, Values, PoppedValue
  <2>3. Watched' = Watched /\ request.number \notin Watched
    BY <2>1 DEF Watched, IsWatch
  <2> QED BY <2>1, <2>2, <2>3 DEF AgreeInv, Agree, AgreeBut
<1>5. ToldInv'
  <2>1. request.number \in Numbers /\ told[request.number] = NoEntry
    BY DEF EntryInv, TypeOK, RequestInv, Moving, Updating, Telling
  <2>2. \A m \in Numbers : HasValue(m)' <=> m # request.number /\ HasValue(m)
    BY <2>1, BreakpointsAssumption DEF HasValue, TypeOK, Values, PoppedValue
  <2> QED BY <2>1, <2>2 DEF ToldInv, InFull
<1>6. EntryInv'
  BY DEF EntryInv, Updating, Telling
<1> QED BY <1>1, <1>2, <1>3, <1>4, <1>5, <1>6

\* PopUids keeps the invariant.
LEMMA PopUidsKeeps ==
  ASSUME IInv, PopUids
  PROVE  IInv'
<1> USE NumbersFact DEF IInv, PopUids
<1>1. TypeOK'
  BY DEF TypeOK, Phases
<1>2. RequestInv'
  BY DEF RequestInv, Telling
<1>3. CachesTrue' /\ RunsWithCurrent' /\ ProcessInv' /\ AnswerInv'
  BY DEF CachesTrue, Forks, RunsWithCurrent, ProcessInv, Updating, AnswerInv
<1>4. ToldInv'
  <2>1. request.number \in Numbers /\ told[request.number] = NoEntry
    BY DEF EntryInv, TypeOK, RequestInv, Moving, Updating, Telling
  <2>2. \A m \in Numbers \ {request.number} : watchuids'[m] = watchuids[m]
    BY <2>1 DEF TypeOK
  <2> QED BY <2>1, <2>2 DEF ToldInv, InFull, HasValue
<1>5. AgreeInv' /\ EntryInv'
  BY DEF AgreeInv, Agree, HasValue, Watched, EntryInv, Updating, Telling
<1> QED BY <1>1, <1>2, <1>3, <1>4, <1>5

\* update_breakpoints(), up to the watch values.
LEMMA UpdateStartKeeps ==
  ASSUME IInv, UpdateStart
  PROVE  IInv'
<1> USE NumbersFact DEF IInv, UpdateStart
<1>1. TypeOK'
  BY DEF Updated, TypeOK, Process, Phases, Talking, dictionaries
<1>2. RequestInv'
  BY DEF Updated, RequestInv, Moving, Updating, Telling
<1>3. CachesTrue'
  BY DEF CachesTrue, Forks, TypeOK, Process
<1>4. RunsWithCurrent'
  <2> SUFFICES ASSUME phase' = "run" PROVE RunsWithCurrent'
    BY DEF RunsWithCurrent
  <2>1. /\ active' = active /\ active.cache = Duplicate /\ ~active.closed
        /\ NoValues
    BY DEF Same
  <2>2. active.table = num2break /\ active.temporary = temporary
    BY <2>1 DEF CachesTrue, Honest, Duplicate
  <2>3. temporary = request.temporary
    BY DEF RequestInv, Moving, Updating, Telling
  <2>4. Watched' = {}
    BY <2>1 DEF NoValues, AgreeInv, Agree, HasValue, Watched, dictionaries
  <2> QED BY <2>1, <2>2, <2>3, <2>4 DEF RunsWithCurrent, dictionaries
<1>5. ProcessInv'
  BY DEF Updated, ProcessInv, Closed, Forks, Updating, TypeOK, Process
<1>6. AnswerInv'
  <2> SUFFICES ASSUME phase' \in {"answers", "values"} PROVE AnswerInv'
    BY DEF AnswerInv
  <2>1. active.cache = Duplicate
    BY DEF Same, Updated
  <2>2. active.table = num2break /\ active.temporary = temporary
    BY <2>1 DEF CachesTrue, Honest, Duplicate
  <2>3. active'.table = active.table /\ active'.temporary = active.temporary
    BY DEF TypeOK, Process
  <2> QED BY <2>2, <2>3 DEF AnswerInv, dictionaries
<1>7. EntryInv'
  <2> SUFFICES ASSUME request.number # 0 PROVE EntryInv'
    BY DEF EntryInv
  <2> DEFINE n == request.number
             e == request.entry
  <2>1. /\ n \in Numbers /\ e \in Entries /\ num2break[n] = e
        /\ told[n] = NoEntry /\ ~IsWatch(e)
    BY DEF EntryInv, TypeOK, RequestInv, Moving, Updating, Telling
  <2>2. active'.time = active.time
    BY DEF TypeOK, Process
  <2>3. CASE Same(active.cache)
    <3>1. active.table = num2break
      BY <2>3 DEF Same, CachesTrue, Honest, Duplicate
    <3>2. InThisFile(e) = e
      BY <3>1, <2>1, EntryFacts DEF ProcessInv, Closed
    <3>3. InThisFile(e)' = e
      BY <3>2, <2>2 DEF InThisFile
    <3>4. phase' \in {"added", "values"}
      BY <2>3 DEF Updated
    <3> QED BY <3>2, <3>3, <3>4, <2>1 DEF EntryInv, dictionaries, Updating,
       Telling
  <2>4. CASE ~Same(active.cache)
    <3>1. phase' = "send"
      BY <2>4
    <3> QED BY <3>1, <2>1 DEF EntryInv, dictionaries, Updating, Telling
  <2> QED BY <2>3, <2>4
<1>8. AgreeInv' /\ ToldInv'
  BY DEF Updated, AgreeInv, Agree, HasValue, Watched, ToldInv, InFull,
     dictionaries
<1> QED BY <1>1, <1>2, <1>3, <1>4, <1>5, <1>6, <1>7, <1>8

\* SendBreakpoints keeps the invariant.
LEMMA SendBreakpointsKeeps ==
  ASSUME IInv, SendBreakpoints
  PROVE  IInv'
<1> USE NumbersFact DEF IInv, SendBreakpoints
<1>1. TypeOK'
  <2>1. ASSUME NEW n \in Numbers, NEW refused \in SUBSET Numbers
        PROVE  Expanded(n, refused) \in Entries \cup {NoEntry}
    BY EntryFacts DEF Expanded, TypeOK, Tables
  <2>2. PICK refused \in SUBSET Numbers :
          active' = [active EXCEPT
                       !.table = [n \in Numbers |-> Expanded(n, refused)],
                       !.temporary = temporary,
                       !.values = [n \in Numbers |-> Empty]]
    OBVIOUS
  <2>3. [n \in Numbers |-> Expanded(n, refused)] \in Tables
    BY <2>1 DEF Tables
  <2>4. active' \in Process
    BY <2>2, <2>3 DEF TypeOK, Process
  <2> QED BY <2>4 DEF TypeOK, Process, Tables, Values, Caches, Phases,
     Talking, Extras, Table!Extras, NoRequest, dictionaries
<1>2. RequestInv'
  BY DEF RequestInv, Moving, Updating, Telling
<1>3. CachesTrue'
  <2>1. active.cache = Unknown
    BY DEF ProcessInv, Updating
  <2>2. active'.cache = Unknown
    BY <2>1 DEF TypeOK, Process
  <2> QED BY <2>2 DEF CachesTrue, Forks
<1>4. ProcessInv'
  BY EntryFacts DEF Expanded, ProcessInv, Closed, Forks, Updating, TypeOK,
     Tables
<1>5. RunsWithCurrent' /\ AnswerInv'
  BY DEF Expanded, InThisFile, RunsWithCurrent, AnswerInv, dictionaries
<1>6. EntryInv'
  <2> SUFFICES ASSUME request.number # 0 PROVE EntryInv'
    BY DEF EntryInv
  <2> DEFINE n == request.number
             e == request.entry
  <2>1. /\ n \in Numbers /\ e \in Entries /\ num2break[n] = e
        /\ told[n] = NoEntry /\ ~IsWatch(e)
    BY DEF EntryInv, TypeOK, RequestInv, Moving, Updating, Telling
  <2>2. active'.time = active.time
    BY DEF TypeOK, Process
  <2>3. InThisFile(e)' = InThisFile(e)
    BY <2>2 DEF InThisFile
  <2>4. active'.table[n] \in {NoEntry, InThisFile(e)}
    BY <2>1 DEF Expanded, TypeOK, Process
  <2> QED BY <2>1, <2>3, <2>4 DEF EntryInv, dictionaries, Updating, Telling
<1>7. AgreeInv' /\ ToldInv'
  BY DEF AgreeInv, Agree, HasValue, Watched, ToldInv, InFull, dictionaries
<1> QED BY <1>1, <1>2, <1>3, <1>4, <1>5, <1>6, <1>7

\* AnswerReady keeps the invariant.
LEMMA AnswerReadyKeeps ==
  ASSUME IInv, AnswerReady
  PROVE  IInv'
<1> USE NumbersFact DEF IInv, AnswerReady
<1>1. TypeOK'
  BY DEF TypeOK, Phases, Talking, dictionaries
<1>2. RequestInv'
  BY DEF RequestInv, Moving, Updating, Telling
<1>3. CachesTrue' /\ RunsWithCurrent' /\ ProcessInv' /\ AnswerInv'
  BY DEF CachesTrue, Forks, RunsWithCurrent, ProcessInv, Updating,
     AnswerInv, dictionaries
<1>4. AgreeInv' /\ EntryInv' /\ ToldInv'
  BY DEF AgreeInv, Agree, HasValue, Watched, EntryInv, Updating, InThisFile,
     ToldInv, InFull, dictionaries
<1> QED BY <1>1, <1>2, <1>3, <1>4

\* SendValues keeps the invariant.
LEMMA SendValuesKeeps ==
  ASSUME IInv, SendValues
  PROVE  IInv'
<1> USE NumbersFact DEF IInv, SendValues
<1>1. TypeOK'
  <2>1. Sent \in [Numbers -> Texts \cup {Empty}]
    BY DEF Sent, HasValue, TypeOK, Values
  <2>2. Duplicate \in Caches
    BY DEF Duplicate, Caches, TypeOK
  <2> QED BY <2>1, <2>2 DEF TypeOK, Process, Tables, Values, Caches, Phases,
     Talking, Extras, Table!Extras, NoRequest, dictionaries, Updated
<1>2. RequestInv'
  BY DEF Updated, RequestInv, Moving, Updating, Telling
<1>3. CachesTrue'
  <2>1. active.table = num2break /\ active.temporary = temporary
    BY DEF AnswerInv, TypeOK, Tables, Process
  <2>2. /\ active'.table = active.table /\ active'.temporary = active.temporary
        /\ active'.cache = Duplicate
    BY DEF TypeOK, Process
  <2>3. Honest(active')
    BY <2>1, <2>2 DEF Honest, Duplicate
  <2> QED BY <2>3 DEF CachesTrue, Forks
<1>4. RunsWithCurrent'
  <2>1. active.table = num2break /\ active.temporary = temporary
    BY DEF AnswerInv, TypeOK, Tables, Process
  <2>2. /\ active'.table = active.table /\ active'.temporary = active.temporary
        /\ active'.values = IF Watched = {} THEN active.values ELSE Sent
    BY DEF TypeOK, Process
  <2>3. temporary = request.temporary
    BY DEF RequestInv, Moving, Updating, Telling
  <2>4. Watched' = Watched /\ Watched \subseteq Numbers
    BY DEF Watched, dictionaries
  <2>5. \A n \in Watched : active'.values[n] = watchvalues[n]
    BY <2>2, <2>4 DEF Sent
  <2> QED BY <2>1, <2>2, <2>3, <2>4, <2>5 DEF RunsWithCurrent, dictionaries
<1>5. ProcessInv'
  BY BreakpointsAssumption DEF Updated, Duplicate, ProcessInv, Closed,
     Forks, Updating, TypeOK, Caches
<1>6. AnswerInv'
  BY DEF AnswerInv, dictionaries
<1>7. AgreeInv' /\ EntryInv' /\ ToldInv'
  BY DEF Updated, AgreeInv, Agree, HasValue, Watched, EntryInv, Updating,
     InThisFile, ToldInv, InFull, dictionaries
<1> QED BY <1>1, <1>2, <1>3, <1>4, <1>5, <1>6, <1>7

\* update_watch_values().
LEMMA WatchKeeps ==
  ASSUME IInv, Watch
  PROVE  IInv'
<1> USE NumbersFact DEF IInv, Watch
<1>1. TypeOK'
  BY UpdateType DEF TypeOK, Process, Tables, Values, Caches, Phases,
     Talking, Extras, Table!Extras, NoRequest, dictionaries
<1>2. RequestInv'
  BY DEF RequestInv, Telling
<1>3. CachesTrue' /\ RunsWithCurrent' /\ ProcessInv' /\ AnswerInv'
  BY DEF CachesTrue, Forks, RunsWithCurrent, ProcessInv, Updating, AnswerInv
<1>4. AgreeInv'
  BY UpdateType DEF AgreeInv, Agree, Watched
<1>5. EntryInv'
  <2> SUFFICES ASSUME request.number # 0 PROVE EntryInv'
    BY DEF EntryInv
  <2>1. request.entry \in Entries /\ InThisFile(request.entry)' = request.entry
    BY EntryFacts DEF EntryInv, TypeOK, RequestInv, Moving, Updating,
       Telling, InThisFile
  <2> QED BY <2>1 DEF EntryInv, RequestInv, Moving, Updating, Telling
<1>6. ToldInv'
  BY UpdateType DEF ToldInv, InFull, dictionaries
<1> QED BY <1>1, <1>2, <1>3, <1>4, <1>5, <1>6

\* Prompt keeps the invariant.
LEMMA PromptKeeps ==
  ASSUME IInv, Prompt
  PROVE  IInv'
<1> USE NumbersFact DEF IInv, Prompt
<1>1. TypeOK'
  <2>1. watchvalues' \in Values
    BY UpdateType DEF TypeOK
  <2> QED BY <2>1 DEF TypeOK, Process, Tables, Values, Caches, Phases,
     Talking, Extras, Table!Extras, NoRequest, dictionaries, Showing
<1>2. RequestInv'
  BY DEF Showing, RequestInv, Moving, Updating, Telling, NoRequest
<1>3. CachesTrue' /\ RunsWithCurrent' /\ ProcessInv' /\ AnswerInv'
  BY DEF Showing, CachesTrue, Forks, RunsWithCurrent, ProcessInv, Updating,
     AnswerInv
<1>4. AgreeInv'
  <2>1. Agree
    BY DEF AgreeInv, Showing
  <2>2. \A n \in Numbers : HasValue(n)' <=> HasValue(n)
    BY <2>1, UpdateType DEF HasValue
  <2> QED BY <2>1, <2>2 DEF AgreeInv, Agree, Watched, Showing
<1>5. ToldInv'
  <2>1. \A n \in Numbers : HasValue(n)' <=> HasValue(n)
    BY UpdateType DEF HasValue, AgreeInv, Showing
  <2> QED BY <2>1 DEF ToldInv, InFull, dictionaries
<1>6. EntryInv'
  BY DEF EntryInv, NoRequest
<1> QED BY <1>1, <1>2, <1>3, <1>4, <1>5, <1>6

\* Raise keeps the invariant.
LEMMA RaiseKeeps ==
  ASSUME IInv, Raise
  PROVE  IInv'
<1> USE NumbersFact DEF IInv, Raise
<1>1. TypeOK'
  BY DEF EndTemporary, TypeOK, Phases, dictionaries, Extras, Table!Extras
<1>2. RequestInv'
  BY DEF EndTemporary, RequestInv, Moving, Updating, Telling
<1>3. ProcessInv'
  <2>1. active.cache = Unknown => active.closed
    BY DEF Lost, ProcessInv, AgreeInv, Agree, HasValue, Watched, Updating
  <2> QED BY <2>1 DEF ProcessInv, Closed, Forks, Updating
<1>4. CachesTrue' /\ RunsWithCurrent' /\ AnswerInv'
  BY DEF CachesTrue, Forks, RunsWithCurrent, AnswerInv
<1>5. AgreeInv'
  BY DEF AgreeInv, Agree, HasValue, Watched, dictionaries, Talking
<1>6. EntryInv' /\ ToldInv'
  BY DEF EntryInv, Updating, Telling, ToldInv, InFull, HasValue, dictionaries
<1> QED BY <1>1, <1>2, <1>3, <1>4, <1>5, <1>6

\* Die keeps the invariant.
LEMMA DieKeeps ==
  ASSUME IInv, Die
  PROVE  IInv'
<1> USE NumbersFact DEF IInv, Die
<1>1. TypeOK'
  BY DEF TypeOK, Phases, dictionaries
<1>2. RequestInv'
  BY DEF Showing, RequestInv, Moving, Updating, Telling
<1>3. CachesTrue' /\ RunsWithCurrent' /\ ProcessInv' /\ AnswerInv'
  BY DEF Showing, CachesTrue, Forks, RunsWithCurrent, ProcessInv, Updating,
     AnswerInv
<1>4. AgreeInv' /\ EntryInv' /\ ToldInv'
  BY DEF AgreeInv, HasValue, EntryInv, Updating, Telling, ToldInv, InFull,
     dictionaries
<1> QED BY <1>1, <1>2, <1>3, <1>4

\* InterruptAgain keeps the invariant.
LEMMA InterruptAgainKeeps ==
  ASSUME IInv, InterruptAgain
  PROVE  IInv'
<1> USE NumbersFact DEF IInv, InterruptAgain
<1>1. TypeOK'
  BY DEF TypeOK, Phases, dictionaries
<1>2. RequestInv'
  BY DEF RequestInv, Moving, Updating, Telling
<1>3. CachesTrue' /\ RunsWithCurrent' /\ ProcessInv' /\ AnswerInv'
  BY DEF CachesTrue, Forks, RunsWithCurrent, ProcessInv, Updating, AnswerInv
<1>4. AgreeInv' /\ EntryInv' /\ ToldInv'
  BY DEF AgreeInv, HasValue, EntryInv, Updating, Telling, ToldInv, InFull,
     dictionaries
<1> QED BY <1>1, <1>2, <1>3, <1>4

\* Crash keeps the invariant.
LEMMA CrashKeeps ==
  ASSUME IInv, Crash
  PROVE  IInv'
<1> USE NumbersFact DEF IInv, Crash
<1>1. TypeOK'
  <2>1. [FirstProcess EXCEPT !.time = active.time, !.closed = TRUE] \in Process
    BY FirstGood DEF TypeOK, Process
  <2>2. active' \in Process
    BY <2>1 DEF Process
  <2> QED BY <2>2 DEF TypeOK, dictionaries
<1>2. RequestInv'
  BY DEF RequestInv
<1>3. ProcessInv'
  <2>1. active'.closed /\ active'.table = Nothing
    BY DEF FirstProcess
  <2> QED BY <2>1 DEF ProcessInv, Closed, Forks, Updating, Nothing
<1>4. CachesTrue' /\ RunsWithCurrent' /\ AnswerInv'
  BY DEF CachesTrue, Forks, RunsWithCurrent, AnswerInv
<1>5. AgreeInv' /\ EntryInv' /\ ToldInv'
  BY DEF AgreeInv, Agree, AgreeBut, HasValue, Watched, EntryInv, InThisFile,
     ToldInv, InFull, dictionaries
<1> QED BY <1>1, <1>2, <1>3, <1>4, <1>5

\* An answer that changes an entry.
LEMMA AnswerChbkptKeeps ==
  ASSUME IInv, AnswerChbkpt
  PROVE  IInv'
<1> USE NumbersFact DEF IInv
<1>1. PICK n \in Numbers :
        /\ active.table[n] # num2break[n]
        /\ num2break' = [num2break EXCEPT ![n] = active.table[n]]
        /\ phase' = IF num2break' = active.table THEN "values" ELSE "answers"
  BY DEF AnswerChbkpt, NewText
<1>2. /\ phase = "answers" /\ ~active.closed /\ phase' \in {"answers", "values"}
      /\ UNCHANGED <<watchvalues, watchuids, temporary, active, paused>>
      /\ UNCHANGED <<request, told, shown>>
  BY <1>1 DEF AnswerChbkpt
<1>3. /\ num2break[n] \in Entries /\ Table!Open(num2break[n])
      /\ active.table[n] \in {NoEntry, InThisFile(num2break[n])}
  BY <1>1, <1>2 DEF AnswerInv, TypeOK, Tables
<1>4. /\ num2break'[n] = active.table[n]
      /\ \A m \in Numbers \ {n} : num2break'[m] = num2break[m]
  BY <1>1 DEF TypeOK, Tables
<1>5. ~IsWatch(num2break[n]) /\ ~IsWatch(active.table[n])
  BY <1>3, EntryFacts DEF IsWatch
<1>6. Watched' = Watched
  BY <1>4, <1>5 DEF Watched
<1>7. told[n] = NoEntry
  BY <1>3 DEF ToldInv, InFull
<1>8. TypeOK'
  BY <1>1, <1>2 DEF TypeOK, Process, Tables, Values, Caches, Phases,
     Talking, Extras, Table!Extras, NoRequest, dictionaries
<1>9. CachesTrue' /\ RunsWithCurrent'
  BY <1>2 DEF CachesTrue, Forks, RunsWithCurrent
<1>10. RequestInv'
  BY <1>2 DEF RequestInv, Moving, Updating, Telling
<1>11. ProcessInv'
  BY <1>2 DEF ProcessInv, Closed, Forks, Updating
<1>12. AnswerInv'
  <2>1. active.temporary = temporary
    BY <1>2 DEF AnswerInv
  <2>2. ASSUME NEW m \in Numbers, active'.table[m] # num2break'[m]
        PROVE  /\ phase' = "answers" /\ num2break'[m] # NoEntry
               /\ Table!Open(num2break'[m])
               /\ active'.table[m] \in {NoEntry, InThisFile(num2break[m])}
               /\ num2break'[m] = num2break[m]
    <3>1. m # n /\ num2break'[m] = num2break[m]
      BY <2>2, <1>2, <1>4
    <3>2. num2break' # active.table
      BY <2>2, <1>2
    <3> QED BY <3>1, <3>2, <2>2, <1>1, <1>2 DEF AnswerInv
  <2>3. \A e : InThisFile(e)' = InThisFile(e)
    BY <1>2 DEF InThisFile
  <2> QED BY <2>1, <2>2, <2>3, <1>2 DEF AnswerInv
<1>13. AgreeInv'
  BY <1>2, <1>6 DEF AgreeInv, Agree, HasValue
<1>14. EntryInv'
  <2> SUFFICES ASSUME request.number # 0 PROVE EntryInv'
    BY <1>2 DEF EntryInv
  <2> DEFINE k == request.number
             e == request.entry
  <2>1. /\ k \in Numbers /\ e \in Entries /\ told[k] = NoEntry
        /\ ~IsWatch(e)
        /\ num2break[k] \in {e, NoEntry, InThisFile(e)}
        /\ active.table[k] \in {NoEntry, InThisFile(e)}
    BY <1>2 DEF EntryInv, TypeOK, RequestInv, Moving, Updating, Telling
  <2>2. InThisFile(e)' = InThisFile(e)
    BY <1>2 DEF InThisFile
  <2>3. num2break'[k] \in {e, NoEntry, InThisFile(e)}
    BY <2>1, <1>4
  <2>4. phase' = "values" => num2break'[k] \in {NoEntry, InThisFile(e)}
    BY <2>1, <1>1, <1>2
  <2> QED BY <2>1, <2>2, <2>3, <2>4, <1>2 DEF EntryInv, Updating, Telling
<1>15. ToldInv'
  BY <1>2, <1>4, <1>7 DEF ToldInv, InFull, HasValue
<1> QED BY <1>8, <1>9, <1>10, <1>11, <1>12, <1>13, <1>14, <1>15

\* The loop for a number that is free ends at the first one.
LEMMA MinOfFree ==
  Free # {} => FirstFree \in Free /\ \A n \in Free : FirstFree <= n
<1>1. Free \in SUBSET Nat
  BY NumbersFact DEF Free
<1> QED BY <1>1, MinOfNumbers DEF FirstFree

\* A jump ends at a process whose cache is true.
LEMMA JumpGood ==
  ASSUME IInv, NEW target \in Times, Jump(target)
  PROVE  /\ active' \in Process /\ active'.time = target
         /\ Honest(active') /\ Closed(active') /\ active'.cache # Unknown
         /\ paused' \in [Times -> Process \cup {NoProcess}]
         /\ \A t \in Forks' : Honest(paused'[t]) /\ Closed(paused'[t])
<1> USE DEF IInv
<1>1. PICK t \in Forks :
        /\ t <= target
        /\ active' = [paused[t] EXCEPT !.time = target]
        /\ Leave(paused[t], t + 1, target)
  BY DEF Jump
<1>2. paused[t] \in Process /\ Honest(paused[t]) /\ Closed(paused[t])
      /\ t \in Times
  BY DEF TypeOK, CachesTrue, ProcessInv, Forks
<1>3. active' \in Process /\ active'.time = target
      /\ Honest(active') /\ Closed(active')
  BY <1>1, <1>2 DEF Process, Honest, Closed
<1>4. active'.cache # Unknown
  BY <1>3, HonestKnown
<1> QED BY <1>1, <1>2, <1>3, <1>4, LeaveGood, BreakpointsAssumption DEF Times

\* What a step leaves behind that replaces the active process, or not, and
\* ends up in a phase without a temporary breakpoint to be told.
LEMMA ReplaceKeeps ==
  ASSUME IInv,
         \/ active' = active /\ paused' = paused
         \/ \E target \in Times : Jump(target),
         active' = active => active.closed \/ phase \notin Updating \ {"update"}
  PROVE  /\ active' \in Process
         /\ paused' \in [Times -> Process \cup {NoProcess}]
         /\ CachesTrue'
         /\ Closed(active') /\ \A t \in Forks' : Closed(paused'[t])
         /\ active'.cache = Unknown => active'.closed
<1>1. CASE active' = active /\ paused' = paused
  BY <1>1 DEF IInv, TypeOK, CachesTrue, ProcessInv, Forks, Updating
<1>2. CASE \E target \in Times : Jump(target)
  <2>1. PICK target \in Times : Jump(target)
    BY <1>2
  <2> QED BY <2>1, JumpGood DEF CachesTrue
<1> QED BY <1>1, <1>2

\* The entry is put into num2break.
LEMMA NewNum2breakKeeps ==
  ASSUME IInv, NewNum2break
  PROVE  IInv'
<1> USE NumbersFact DEF IInv
<1>1. PICK n \in Numbers, e \in Entries :
        n = FirstFree /\ e = request.entry /\ num2break[n] = NoEntry
  BY MinOfFree DEF NewNum2break, Free, TypeOK, RequestInv
<1>2. /\ num2break' = [num2break EXCEPT ![n] = e]
      /\ request' = [request EXCEPT !.number = n]
      /\ told' = [told EXCEPT ![n] = NoEntry]
      /\ phase = "new" /\ phase' = IF IsWatch(e) THEN "value" ELSE "update"
      /\ UNCHANGED <<watchvalues, watchuids, temporary, active, paused, shown>>
  BY <1>1 DEF NewNum2break
<1>3. /\ request'.number = n /\ request'.entry = e
      /\ request'.temporary = request.temporary
  BY <1>1, <1>2 DEF TypeOK
<1>4. /\ num2break'[n] = e /\ told'[n] = NoEntry
      /\ \A m \in Numbers \ {n} :
           num2break'[m] = num2break[m] /\ told'[m] = told[m]
  BY <1>1, <1>2 DEF TypeOK, Tables
<1>5. TypeOK'
  BY <1>1, <1>2 DEF TypeOK, Process, Tables, Values, Caches, Phases,
     Talking, Extras, Table!Extras, NoRequest, dictionaries
<1>6. CachesTrue' /\ RunsWithCurrent'
  BY <1>2 DEF CachesTrue, Forks, RunsWithCurrent
<1>7. RequestInv'
  BY <1>1, <1>2, <1>3 DEF RequestInv, Moving, Updating, Telling, NoRequest
<1>8. ProcessInv' /\ AnswerInv'
  BY <1>2 DEF ProcessInv, Closed, Forks, Updating, AnswerInv
<1>9. AgreeInv'
  <2>1. Agree
    BY <1>2 DEF AgreeInv
  <2>2. \A m \in Numbers \ {n} : HasValue(m)' <=> m \in Watched'
    BY <2>1, <1>2, <1>4 DEF Agree, HasValue, Watched
  <2>3. ~HasValue(n)
    BY <2>1, <1>1 DEF Agree, Watched, IsWatch
  <2>4. phase' # "value" => (HasValue(n)' <=> n \in Watched')
    BY <2>3, <1>1, <1>2, <1>4 DEF HasValue, Watched
  <2> QED BY <2>2, <2>4, <1>2, <1>3 DEF AgreeInv, Agree, AgreeBut
<1>10. EntryInv'
  BY <1>1, <1>2, <1>3, <1>4, BreakpointsAssumption DEF EntryInv, Updating
<1>11. ToldInv'
  BY <1>2, <1>4 DEF ToldInv, InFull, HasValue
<1> QED BY <1>5, <1>6, <1>7, <1>8, <1>9, <1>10, <1>11

\* The command watch compiles the expression first.
LEMMA AskWatchKeeps ==
  ASSUME IInv, AskWatch
  PROVE  IInv'
<1> USE NumbersFact DEF IInv
<1>1. PICK e \in Exprs :
        request' = [request EXCEPT !.entry = Table!Entry("W", e, NoFile)]
  BY DEF AskWatch
<1>2. /\ phase = "prompt" /\ phase' = "new"
      /\ UNCHANGED <<num2break, watchvalues, watchuids, temporary>>
      /\ UNCHANGED <<told, shown>>
      /\ \/ active' = active /\ paused' = paused
         \/ \E target \in Times : Jump(target)
  BY DEF AskWatch, dictionaries, TypeOK, Process
<1>3. /\ active' \in Process
      /\ paused' \in [Times -> Process \cup {NoProcess}]
      /\ CachesTrue'
      /\ Closed(active') /\ \A t \in Forks' : Closed(paused'[t])
      /\ active'.cache = Unknown => active'.closed
  BY <1>2, ReplaceKeeps DEF Updating
<1>4. /\ request' = [number |-> 0, entry |-> Table!Entry("W", e, NoFile),
                   temporary |-> "none"]
      /\ Table!Entry("W", e, NoFile) \in Entries
      /\ Table!Entry("W", e, NoFile).file = NoFile
      /\ Table!Entry("W", e, NoFile) # NoEntry
  BY <1>1, <1>2, NewEntry DEF RequestInv, NoRequest
<1>5. TypeOK'
  BY <1>2, <1>3, <1>4 DEF TypeOK, Process, Tables, Values, Caches, Phases,
     Talking, Extras, Table!Extras, NoRequest, dictionaries
<1>6. RequestInv'
  BY <1>2, <1>4 DEF RequestInv, Moving, Updating, Telling
<1>7. RunsWithCurrent' /\ ProcessInv' /\ AnswerInv'
  BY <1>2, <1>3 DEF RunsWithCurrent, ProcessInv, AnswerInv, Updating
<1>8. AgreeInv' /\ EntryInv' /\ ToldInv'
  BY <1>2, <1>4 DEF AgreeInv, Agree, HasValue, Watched, EntryInv, ToldInv,
     InFull
<1> QED BY <1>3, <1>5, <1>6, <1>7, <1>8

\* The commands that move, as far as the first jump.
LEMMA MoveKeeps ==
  ASSUME IInv, Go \/ RunForward \/ RunBackward
  PROVE  IInv'
<1> USE NumbersFact DEF IInv
<1>1. /\ phase = "prompt" /\ phase' \in {"show", "update"}
      /\ UNCHANGED <<num2break, watchvalues, watchuids, told, shown>>
      /\ \/ active' = active /\ paused' = paused
         \/ \E target \in Times : Jump(target)
  <2>1. CASE Go
    BY <2>1 DEF Go, dictionaries
  <2>2. active.time \in Times
    BY DEF TypeOK, Process
  <2>3. CASE RunForward
    BY <2>2, <2>3 DEF RunForward, dictionaries
  <2>4. CASE RunBackward
    <3>1. \A t \in 1..active.time : t \in Times
      BY <2>2, BreakpointsAssumption DEF Times
    <3> QED BY <3>1, <2>4 DEF RunBackward, dictionaries
  <2> QED BY <2>1, <2>3, <2>4
<1>2. /\ active' \in Process
      /\ paused' \in [Times -> Process \cup {NoProcess}]
      /\ CachesTrue'
      /\ Closed(active') /\ \A t \in Forks' : Closed(paused'[t])
      /\ active'.cache = Unknown => active'.closed
  BY <1>1, ReplaceKeeps DEF Updating
<1>3. request = NoRequest /\ temporary = "none"
  BY <1>1 DEF RequestInv, Moving, Updating
<1>4. /\ request'.number = 0
      /\ request' \in [number : {0}, entry : {NoEntry},
                       temporary : Extras]
      /\ temporary' \in Extras
      /\ phase' = "update" => temporary' = request'.temporary
      /\ phase' = "show" => temporary' = "none"
  BY <1>3 DEF Go, RunForward, RunBackward, StartTemporary, IsEmpty,
     NoRequest, Extras, Table!Extras
<1>5. TypeOK'
  BY <1>1, <1>2, <1>4 DEF TypeOK, Tables, Values, Phases, Talking
<1>6. RequestInv'
  BY <1>1, <1>4 DEF RequestInv, Moving, Updating, Telling
<1>7. RunsWithCurrent' /\ ProcessInv' /\ AnswerInv'
  BY <1>1, <1>2 DEF RunsWithCurrent, ProcessInv, AnswerInv, Updating
<1>8. AgreeInv' /\ EntryInv' /\ ToldInv'
  BY <1>1, <1>4 DEF AgreeInv, Agree, HasValue, Watched, EntryInv, ToldInv,
     InFull
<1> QED BY <1>2, <1>5, <1>6, <1>7, <1>8

\* What a run with the table does.
LEMMA RunKeeps ==
  ASSUME IInv, Run
  PROVE  IInv'
<1> USE NumbersFact DEF IInv
<1>1. /\ phase = "run" /\ ~active.closed /\ phase' \in {"show", "update"}
      /\ temporary' = IF phase' = "show" THEN "none" ELSE temporary
      /\ UNCHANGED <<num2break, watchvalues, watchuids, request, told, shown>>
  BY DEF Run, EndTemporary, dictionaries
<1>2. active \in Process /\ Honest(active) /\ Closed(active)
  BY <1>1 DEF TypeOK, CachesTrue, ProcessInv, Updating
<1>3. /\ active' \in Process /\ Honest(active') /\ Closed(active')
      /\ paused' \in [Times -> Process \cup {NoProcess}]
      /\ \A t \in Forks' : Honest(paused'[t]) /\ Closed(paused'[t])
  <2>1. CASE \E t \in Times : Jump(t)
    BY <2>1, JumpGood
  <2>2. CASE \E t \in active.time..Total :
               /\ active' = [active EXCEPT !.time = t]
               /\ Leave(active, active.time + 1, t)
    <3>1. PICK t \in active.time..Total :
               /\ active' = [active EXCEPT !.time = t]
               /\ Leave(active, active.time + 1, t)
      BY <2>2
    <3>2. t \in Times /\ active.time \in Times
      BY <1>2, BreakpointsAssumption DEF Process, Times
    <3>3. active' \in Process /\ Honest(active') /\ Closed(active')
      BY <3>1, <3>2, <1>2 DEF Process, Honest, Closed
    <3> QED BY <3>1, <3>2, <3>3, <1>2, LeaveGood, BreakpointsAssumption DEF
       Times
  <2> QED BY <2>1, <2>2 DEF Run
<1>4. active'.cache # Unknown
  BY <1>3, HonestKnown
<1>5. request.number = 0 /\ temporary = request.temporary
  BY <1>1 DEF RequestInv, Moving
<1>6. TypeOK'
  BY <1>1, <1>3 DEF TypeOK, Process, Tables, Values, Caches, Phases,
     Talking, Extras, Table!Extras, NoRequest, dictionaries
<1>7. CachesTrue' /\ ProcessInv' /\ RunsWithCurrent' /\ AnswerInv'
  BY <1>1, <1>3, <1>4 DEF CachesTrue, ProcessInv, RunsWithCurrent,
     AnswerInv, Updating
<1>8. RequestInv'
  BY <1>1, <1>5 DEF RequestInv, Moving, Updating, Telling
<1>9. AgreeInv' /\ EntryInv' /\ ToldInv'
  BY <1>1, <1>5 DEF AgreeInv, Agree, HasValue, Watched, EntryInv, ToldInv,
     InFull
<1> QED BY <1>6, <1>7, <1>8, <1>9

\* recreate_subprocess() where a process has printed too much.
LEMMA RestartKeeps ==
  ASSUME IInv, Restart
  PROVE  IInv'
<1> USE NumbersFact DEF IInv
<1>1. /\ phase \in {"watches", "show", "restore"}
      /\ UNCHANGED <<num2break, watchvalues, watchuids, temporary, phase>>
      /\ UNCHANGED <<request, told, shown>>
      /\ Jump(1) /\ 1 \in Times
  BY BreakpointsAssumption DEF Restart, Showing, dictionaries, Times
<1>2. /\ active' \in Process /\ Honest(active') /\ Closed(active')
      /\ active'.cache # Unknown
      /\ paused' \in [Times -> Process \cup {NoProcess}]
      /\ \A t \in Forks' : Honest(paused'[t]) /\ Closed(paused'[t])
  BY <1>1, JumpGood
<1>3. TypeOK'
  BY <1>1, <1>2 DEF TypeOK, Process, Tables, Values, Caches, Phases,
     Talking, Extras, Table!Extras, NoRequest, dictionaries
<1>4. CachesTrue' /\ ProcessInv' /\ RunsWithCurrent' /\ AnswerInv'
  BY <1>1, <1>2 DEF CachesTrue, ProcessInv, RunsWithCurrent, AnswerInv,
     Updating
<1>5. RequestInv'
  BY <1>1 DEF RequestInv, Moving, Updating, Telling
<1>6. AgreeInv' /\ ToldInv'
  BY <1>1 DEF AgreeInv, Agree, AgreeBut, HasValue, Watched, ToldInv, InFull
<1>7. EntryInv'
  BY <1>1 DEF EntryInv, Updating, Telling
<1> QED BY <1>3, <1>4, <1>5, <1>6, <1>7

\* Ctrl-C, which ends the temporary breakpoint and resumes a fork.
LEMMA InterruptKeeps ==
  ASSUME IInv, Interrupt
  PROVE  IInv'
<1> USE NumbersFact DEF IInv
<1>1. /\ phase' = "restore" /\ temporary' = "none" /\ request' = NoRequest
      /\ UNCHANGED <<num2break, watchvalues, watchuids, told, shown>>
      /\ Jump(shown) /\ shown \in Times
  BY DEF Interrupt, Recreate, EndTemporary, dictionaries, TypeOK
<1>2. /\ active' \in Process /\ Honest(active') /\ Closed(active')
      /\ active'.cache # Unknown
      /\ paused' \in [Times -> Process \cup {NoProcess}]
      /\ \A t \in Forks' : Honest(paused'[t]) /\ Closed(paused'[t])
  BY <1>1, JumpGood
<1>3. TypeOK'
  BY <1>1, <1>2 DEF TypeOK, Process, Tables, Values, Caches, Phases,
     Talking, Extras, Table!Extras, NoRequest, dictionaries
<1>4. CachesTrue' /\ ProcessInv' /\ RunsWithCurrent' /\ AnswerInv'
  BY <1>1, <1>2 DEF CachesTrue, ProcessInv, RunsWithCurrent, AnswerInv,
     Updating
<1>5. RequestInv'
  BY <1>1 DEF RequestInv, Moving, Updating, Telling, NoRequest
<1>6. AgreeInv' /\ EntryInv' /\ ToldInv'
  BY <1>1 DEF AgreeInv, EntryInv, NoRequest, ToldInv, InFull, HasValue
<1> QED BY <1>2, <1>3, <1>4, <1>5, <1>6

-----------------------------------------------------------------------------
(***************************************************************************)
(* The invariants.                                                        *)
(***************************************************************************)
\* The invariant holds at first.
LEMMA InitIInv == Init => IInv
<1> SUFFICES ASSUME Init PROVE IInv
  OBVIOUS
<1> USE NumbersFact DEF Init
<1>1. TypeOK
  BY FirstGood, BreakpointsAssumption DEF TypeOK, Process, Tables, Values,
     Caches, Phases, Talking, Extras, Table!Extras, NoRequest, dictionaries,
     Nothing, Times
<1>2. CachesTrue /\ ProcessInv
  BY FirstGood, HonestKnown DEF CachesTrue, ProcessInv, Forks, Updating
<1>3. AgreeInv /\ ToldInv
  BY DEF AgreeInv, Agree, HasValue, Watched, IsWatch, Nothing, ToldInv
<1>4. RunsWithCurrent /\ AnswerInv /\ EntryInv /\ RequestInv
  BY DEF RunsWithCurrent, AnswerInv, EntryInv, RequestInv, Moving, Updating,
     Telling, NoRequest
<1> QED BY <1>1, <1>2, <1>3, <1>4 DEF IInv

\* Every step keeps the invariant.
LEMMA StepKeeps == IInv /\ [Next]_vars => IInv'
<1> SUFFICES ASSUME IInv, [Next]_vars PROVE IInv'
  OBVIOUS
<1>1. CASE Command
  BY <1>1, AskBreakKeeps, AskWatchKeeps, DeleteKeeps, MoveKeeps DEF Command
<1>2. CASE Work
  BY <1>2, RefuseKeeps, NewNum2breakKeeps, NewValueKeeps, NewUidsKeeps,
     AddedKeeps, PopValueKeeps, PopUidsKeeps, WatchKeeps, UpdateStartKeeps,
     SendBreakpointsKeeps, AnswerChbkptKeeps, AnswerReadyKeeps,
     SendValuesKeeps, RunKeeps, PromptKeeps, RestartKeeps, RaiseKeeps, DieKeeps
  DEF Work
<1>3. CASE Interrupt \/ InterruptAgain \/ Crash
  BY <1>3, InterruptKeeps, InterruptAgainKeeps, CrashKeeps
<1>4. CASE UNCHANGED vars
  BY <1>4 DEF vars, dictionaries, IInv, TypeOK, CachesTrue, RunsWithCurrent,
     RequestInv, ProcessInv, Closed, Forks, AnswerInv, InThisFile, AgreeInv,
     Agree, AgreeBut, HasValue, Watched, EntryInv, ToldInv, InFull
<1> QED BY <1>1, <1>2, <1>3, <1>4 DEF Next, Ended

\* The inductive invariant holds.
THEOREM InvariantHolds == Spec => []IInv
<1>1. Init => IInv
  BY InitIInv
<1>2. IInv /\ [Next]_vars => IInv'
  BY StepKeeps
<1> QED BY <1>1, <1>2, PTL DEF Spec

\* The type invariant holds.
THEOREM TypeCorrect == Spec => []TypeOK
<1>1. IInv => TypeOK
  BY DEF IInv
<1> QED BY <1>1, InvariantHolds, PTL

\* No process ever holds another table than its breakpoints_cache says.
THEOREM CachesStayTrue == Spec => []CachesTrue
<1>1. IInv => CachesTrue
  BY DEF IInv
<1> QED BY <1>1, InvariantHolds, PTL

\* Whatever was cut short before, a run stops at the breakpoints of the user
\* and of the command, and at no other.
THEOREM RunsStayCurrent == Spec => []RunsWithCurrent
<1>1. IInv => RunsWithCurrent
  BY DEF IInv
<1> QED BY <1>1, InvariantHolds, PTL

\* A breakpoint that the user was told of is there in full, in all three
\* dictionaries, until it is deleted.
THEOREM ToldHolds == Spec => []ToldInFull
<1>1. IInv => ToldInFull
  BY DEF IInv, ToldInv, ToldInFull
<1> QED BY <1>1, InvariantHolds, PTL

\* At the prompt the watchpoints and their values go together.
THEOREM PromptsAreWhole == Spec => []WholeAtPrompt
<1>1. IInv => WholeAtPrompt
  BY DEF IInv, AgreeInv, WholeAtPrompt
<1> QED BY <1>1, InvariantHolds, PTL

\* A process in the middle of an update that failed is never used again.
THEOREM UnknownMeansDead == Spec => []UnknownIsDead
<1>1. IInv => UnknownIsDead
  BY DEF IInv, ProcessInv, Updating, UnknownIsDead
<1> QED BY <1>1, InvariantHolds, PTL

-----------------------------------------------------------------------------
(***************************************************************************)
(* The refinement.                                                        *)
(***************************************************************************)
\* The table that a run was given.
LEMMA GivenFacts ==
  Given # NoTable <=> phase = "run" /\ ~active.closed /\ Given # NoTable
BY DEF Given

\* While nothing runs, one entry is added, expanded or removed.
LEMMA EditIsEdit ==
  ASSUME IInv, NewNum2break \/ Delete \/ AnswerChbkpt
  PROVE  Table!TableNext
<1> USE DEF IInv
<1>1. Given = NoTable /\ Given' = NoTable
  BY DEF Given, NewNum2break, Delete, AnswerChbkpt
<1>2. temporary' = temporary
  BY DEF NewNum2break, Delete, AnswerChbkpt
<1>3. CASE NewNum2break
  <2>1. Free # {} /\ FirstFree \in Free /\ \A n \in Free : FirstFree <= n
    BY <1>3, MinOfFree DEF NewNum2break
  <2>2. PICK n \in Numbers : n = FirstFree
    BY <2>1 DEF Free
  <2>3. num2break[n] = NoEntry /\ \A m \in 1..n - 1 : num2break[m] # NoEntry
    <3>1. ASSUME NEW m \in 1..n - 1 PROVE m \in Numbers /\ m < n
      BY <2>2, BreakpointsAssumption DEF Numbers, Table!Numbers
    <3> QED BY <3>1, <2>1, <2>2, NumbersFact DEF Free
  <2>4. num2break' = [num2break EXCEPT ![n] = request.entry]
    BY <1>3, <2>2 DEF NewNum2break
  <2>5. request.entry \in Entries /\ request.entry.file = NoFile
    BY <1>3 DEF NewNum2break, RequestInv, TypeOK
  <2>6. Table!Add(n)
    BY <1>1, <1>2, <2>3, <2>4, <2>5 DEF Table!Add, Entries
  <2> QED BY <1>1, <2>6 DEF Table!TableNext, Numbers
<1>4. CASE Delete
  <2>1. PICK n \in Numbers : /\ num2break[n] # NoEntry
                             /\ num2break' = [num2break EXCEPT ![n] = NoEntry]
    BY <1>4 DEF Delete
  <2>2. Table!Remove(n)
    BY <1>1, <1>2, <2>1 DEF Table!Remove
  <2> QED BY <1>1, <2>2 DEF Table!TableNext, Numbers
<1>5. CASE AnswerChbkpt
  <2>1. PICK n \in Numbers :
          /\ active.table[n] # num2break[n]
          /\ num2break' = [num2break EXCEPT ![n] = active.table[n]]
    BY <1>5 DEF AnswerChbkpt, NewText
  <2>2. /\ num2break[n] # NoEntry /\ Table!Open(num2break[n])
        /\ active.table[n] \in {NoEntry, InThisFile(num2break[n])}
    BY <1>5, <2>1 DEF AnswerChbkpt, AnswerInv
  <2>3. CASE active.table[n] = NoEntry
    <3>1. Table!Remove(n)
      BY <1>1, <1>2, <2>1, <2>2, <2>3 DEF Table!Remove
    <3> QED BY <1>1, <3>1 DEF Table!TableNext, Numbers
  <2>4. CASE active.table[n] = InThisFile(num2break[n])
    <3>1. num2break' = [num2break EXCEPT ![n].file = active.time]
      BY <2>1, <2>2, <2>4 DEF InThisFile
    <3>2. active.time \in Times
      BY DEF TypeOK, Process
    <3>3. Table!Close(n)
      BY <1>1, <1>2, <2>2, <3>1, <3>2 DEF Table!Close
    <3> QED BY <1>1, <3>3 DEF Table!TableNext, Numbers
  <2> QED BY <2>2, <2>3, <2>4
<1> QED BY <1>3, <1>4, <1>5

\* A run begins with the table of the moment.
LEMMA RunBegins ==
  ASSUME IInv, IInv', UNCHANGED num2break, UNCHANGED temporary,
         Given = NoTable, phase' = "run", ~active'.closed
  PROVE  Table!TableNext
<1>1. active'.table = num2break' /\ active'.temporary = request'.temporary
  BY DEF IInv, RunsWithCurrent
<1>2. temporary' = request'.temporary
  BY DEF IInv, RequestInv, Moving
<1>3. Given' = [table |-> num2break, extra |-> temporary]
  BY <1>1, <1>2 DEF Given
<1>4. Table!Start
  BY <1>3 DEF Table!Start
<1> QED BY <1>4 DEF Table!TableNext

\* Every step is a step of BreakpointTable, or changes nothing there.
LEMMA StepIsTableStep ==
  ASSUME IInv, IInv', [Next]_vars
  PROVE  [Table!TableNext]_(Table!tableVars)
<1>1. CASE NewNum2break \/ Delete \/ AnswerChbkpt
  BY <1>1, EditIsEdit
<1>2. CASE UpdateStart \/ SendValues
  <2>1. /\ UNCHANGED num2break /\ UNCHANGED temporary
        /\ phase \in {"update", "values"} /\ ~active'.closed
    BY <1>2 DEF UpdateStart, SendValues, dictionaries, IInv, TypeOK, Process
  <2>2. Given = NoTable
    BY <2>1 DEF Given
  <2>3. CASE phase' = "run"
    BY <2>1, <2>2, <2>3, RunBegins
  <2>4. CASE phase' # "run"
    BY <2>1, <2>2, <2>4 DEF Given, Table!tableVars
  <2> QED BY <2>3, <2>4
<1>3. CASE Run \/ Interrupt \/ Crash
  <2>1. /\ UNCHANGED num2break /\ temporary' \in {temporary, "none"}
        /\ phase' # "run" \/ active'.closed
    BY <1>3 DEF Run, Interrupt, Crash, EndTemporary, dictionaries,
       FirstProcess
  <2>2. Given' = NoTable
    BY <2>1 DEF Given
  <2>3. CASE Given = NoTable
    <3>1. temporary' \in Table!Extras
      BY DEF IInv, TypeOK, Extras
    <3> QED BY <2>1, <2>2, <2>3, <3>1 DEF Table!TableNext, Table!SetExtra
  <2>4. CASE Given # NoTable
    BY <2>1, <2>2, <2>4 DEF Table!TableNext, Table!Stop
  <2> QED BY <2>3, <2>4
<1>4. CASE UNCHANGED vars
  BY <1>4 DEF vars, dictionaries, Given, Table!tableVars
<1>5. CASE \/ AskBreak \/ AskWatch \/ Go \/ RunForward \/ RunBackward
           \/ Refuse \/ NewValue \/ NewUids \/ Added \/ PopValue \/ PopUids
           \/ Watch \/ SendBreakpoints \/ AnswerReady \/ Prompt \/ Restart
           \/ Raise \/ Die \/ InterruptAgain
  <2>1. UNCHANGED num2break
    BY <1>5 DEF AskBreak, AskWatch, Go, RunForward, RunBackward, Refuse,
         NewValue, NewUids, Added, PopValue, PopUids, Watch, SendBreakpoints,
         AnswerReady, Prompt, Restart, Raise, Die, InterruptAgain, dictionaries
  <2>2. (phase # "run" \/ active.closed) /\ phase' # "run"
    BY <1>5 DEF AskBreak, AskWatch, Go, RunForward, RunBackward, Refuse,
         NewValue, NewUids, Added, PopValue, PopUids, Watch, SendBreakpoints,
         AnswerReady, Prompt, Restart, Raise, Lost, Die, InterruptAgain, Showing
  <2>3. Given = NoTable /\ Given' = NoTable
    BY <2>2 DEF Given
  <2>4. temporary' \in Table!Extras
    BY DEF IInv, TypeOK, Extras
  <2> QED BY <2>1, <2>3, <2>4 DEF Table!TableNext, Table!SetExtra
<1> QED BY <1>1, <1>2, <1>3, <1>4, <1>5 DEF Next, Command, Work, Ended

\* The debugger implements the table of breakpoints.
THEOREM Implements == Spec => Promise
<1>1. Init => Table!TableInit
  BY DEF Init, Table!TableInit, Given, Nothing, Numbers
<1>2. IInv /\ IInv' /\ [Next]_vars => [Table!TableNext]_(Table!tableVars)
  BY StepIsTableStep
<1> QED BY <1>1, <1>2, InvariantHolds, PTL DEF Spec, Promise, Table!TableSpec
=============================================================================
