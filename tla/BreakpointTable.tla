-------------------------- MODULE BreakpointTable --------------------------
(***************************************************************************)
(* What the user may rely on: there is one table of breakpoints and        *)
(* watchpoints, edited one entry at a time while nothing runs, and each    *)
(* run of the program stops at what is in the table then.  Nothing of      *)
(* processes, forks and what is cached of them.                            *)
(***************************************************************************)
EXTENDS Integers

CONSTANTS
  MaxNumber,      \* bound: the numbers of break- and watchpoints
  Places,         \* names of functions and file:line places
  Relative,       \* :line places, which need the file of the moment
  Exprs,          \* watched expressions
  Files,
  Temporaries,    \* breakpoints that next, finish, nthread... add to a run
  NoFile, NoEntry, NoTable

VARIABLES
  table,          \* num2break
  extra,          \* the temporary breakpoint, or "none"
  given           \* what the program runs with, or NoTable between runs

tableVars == <<table, extra, given>>

Numbers == 1..MaxNumber

Entry(code, at, file) == [code |-> code, at |-> at, file |-> file]

Entries ==
  {Entry("B", p, NoFile) : p \in Places \cup Relative}
    \cup {Entry("B", p, f) : p \in Relative, f \in Files}
    \cup {Entry("W", e, NoFile) : e \in Exprs}

\* A :line place whose file is not known yet.
Open(e) == e.code = "B" /\ e.at \in Relative /\ e.file = NoFile

Extras == Temporaries \cup {"none"}

TableInit ==
  /\ table = [n \in Numbers |-> NoEntry]
  /\ extra = "none"
  /\ given = NoTable

\* A new entry takes the first free number.
Add(n) ==
  /\ table[n] = NoEntry
  /\ \A m \in 1..n - 1 : table[m] # NoEntry
  /\ \E e \in Entries :
       e.file = NoFile /\ table' = [table EXCEPT ![n] = e]
  /\ UNCHANGED <<extra, given>>

\* A :line place gets its file, once.
Close(n) ==
  /\ table[n] # NoEntry /\ Open(table[n])
  /\ \E f \in Files : table' = [table EXCEPT ![n].file = f]
  /\ UNCHANGED <<extra, given>>

Remove(n) ==
  /\ table[n] # NoEntry
  /\ table' = [table EXCEPT ![n] = NoEntry]
  /\ UNCHANGED <<extra, given>>

SetExtra == extra' \in Extras /\ UNCHANGED <<table, given>>

Start == /\ given' = [table |-> table, extra |-> extra]
         /\ UNCHANGED <<table, extra>>

Stop == given' = NoTable /\ extra' \in {extra, "none"} /\ UNCHANGED table

TableNext ==
  \/ given = NoTable /\ \E n \in Numbers : Add(n) \/ Close(n) \/ Remove(n)
  \/ given = NoTable /\ (SetExtra \/ Start)
  \/ given # NoTable /\ Stop

TableSpec == TableInit /\ [][TableNext]_tableVars
=============================================================================
