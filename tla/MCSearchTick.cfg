\* A reverse search over a tick of the progress display.
SPECIFICATION Spec
CONSTANTS
  Total = 8
  Created <- PlainCreated
  Breaks = {b1}
  Fires <- SparseFires
  Stoppoints = {7}
  Watches = {}
  Needs <- PlainNeeds
  Shows <- PlainShows
  x = x
  y = y
  b1 = b1
  w1 = w1
  w2 = w2
  Texts = {x, y}
  NoText = NoText
  Resolution = 2
  MaxSubprocesses = 4
  SearchSteps = 4
  WatchSearchSteps = 3
  MaxWatched = 0
  Interrupts = FALSE
  Crashes = FALSE
  NoProcess = NoProcess
  Args = {1, 3, 8}
INVARIANT
  SearchFindsLast
