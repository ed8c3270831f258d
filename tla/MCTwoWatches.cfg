\* A second watchpoint, on another object.
SPECIFICATION FairSpec
CONSTANTS
  Total = 6
  Created <- TwoCreated
  Breaks = {}
  Fires <- SparseFires
  Stoppoints = {4}
  Watches = {w1, w2}
  Needs <- TwoNeeds
  Shows <- TwoShows
  x = x
  y = y
  b1 = b1
  w1 = w1
  w2 = w2
  Texts = {x, y}
  NoText = NoText
  Resolution = 100
  MaxSubprocesses = 3
  SearchSteps = 2
  WatchSearchSteps = 1
  MaxWatched = 2
  Interrupts = FALSE
  Crashes = FALSE
  NoProcess = NoProcess
  Args = {1, 3, 6}
PROPERTY
  WatchesCurrent
