\* The breakpoint tables under Ctrl-C at every line, and processes that die.
SPECIFICATION Spec
CONSTANTS
  MaxNumber = 2
  Places = {}
  Relative = {line}
  line = line
  expr = expr
  Exprs = {expr}
  Mentions = {expr}
  Temporaries = {"frame"}
  Total = 2
  txt1 = txt1
  txt2 = txt2
  Texts = {txt1, txt2}
  Shows <- TwoTexts
  Empty = Empty
  Absent = Absent
  NoFile = NoFile
  NoEntry = NoEntry
  NoTable = NoTable
  Unknown = Unknown
  NoProcess = NoProcess
  Interrupts = TRUE
  Crashes = TRUE
INVARIANTS
  TypeOK
  CachesTrue
  RunsWithCurrent
  ToldInFull
  WholeAtPrompt
  UnknownIsDead
PROPERTIES
  Promise
