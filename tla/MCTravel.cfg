\* Moving in time, with breakpoints, a watchpoint and Ctrl-C.
SPECIFICATION FairSpec
CONSTANTS
  Total = 7
  Created <- PlainCreated
  Breaks = {b1}
  Fires <- SparseFires
  Stoppoints = {6}
  Watches = {w1}
  Needs <- PlainNeeds
  Shows <- PlainShows
  x = x
  y = y
  b1 = b1
  w1 = w1
  w2 = w2
  Texts = {x, y}
  NoText = NoText
  Resolution = 100
  MaxSubprocesses = 3
  SearchSteps = 2
  WatchSearchSteps = 1
  MaxWatched = 1
  Interrupts = TRUE
  Crashes = FALSE
  NoProcess = NoProcess
  Args = {0, 1, 2, 5, 8}
INVARIANT
  SearchFindsLast
PROPERTIES
  Promise
  CommandsEnd
