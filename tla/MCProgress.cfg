\* Runs that the progress display cuts into parts.
SPECIFICATION FairSpec
CONSTANTS
  Total = 8
  Created <- PlainCreated
  Breaks = {b1}
  Fires <- SparseFires
  Stoppoints = {7}
  Watches = {w1}
  Needs <- PlainNeeds
  Shows <- PlainShows
  x = x
  y = y
  b1 = b1
  w1 = w1
  w2 = w2
  Texts = {x, y}
  NoText = NoText
  Resolution = 2
  MaxSubprocesses = 4
  SearchSteps = 4
  WatchSearchSteps = 3
  MaxWatched = 1
  Interrupts = FALSE
  Crashes = FALSE
  NoProcess = NoProcess
  Args = {1, 3, 8}
INVARIANTS
  StepsExact
  SearchFindsSome
PROPERTIES
  CommandsEnd
