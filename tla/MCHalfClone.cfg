\* Ctrl-C while a fork is being cloned again.
SPECIFICATION Spec
CONSTANTS
  Total = 6
  Created <- TwoCreated
  Breaks = {}
  Fires <- SparseFires
  Stoppoints = {4}
  Watches = {}
  Needs <- TwoNeeds
  Shows <- TwoShows
  x = x
  y = y
  b1 = b1
  w1 = w1
  w2 = w2
  Texts = {x, y}
  NoText = NoText
  Resolution = 100
  MaxSubprocesses = 3
  SearchSteps = 2
  WatchSearchSteps = 1
  MaxWatched = 0
  Interrupts = TRUE
  Crashes = FALSE
  NoProcess = NoProcess
  Args = {1, 6}
INVARIANT
  NeverDies
