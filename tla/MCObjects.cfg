\* Moving in time, with numbered objects and a watchpoint on one of them.
SPECIFICATION Spec
CONSTANTS
  Total = 6
  Created <- TwoCreated
  Breaks = {b1}
  Fires <- SparseFires
  Stoppoints = {4}
  Watches = {w1, w2}
  Needs <- TwoNeeds
  Shows <- TwoShows
  x = x
  y = y
  b1 = b1
  w1 = w1
  w2 = w2
  Texts = {x, y}
  NoText = NoText
  Resolution = 100
  MaxSubprocesses = 3
  SearchSteps = 2
  WatchSearchSteps = 1
  MaxWatched = 1
  Interrupts = FALSE
  Crashes = FALSE
  NoProcess = NoProcess
  Args = {1, 3, 6}
INVARIANTS
  NeverDies
  ObjectsLoaded
  SubprocessCap
PROPERTIES
  Promise
  WatchesCurrent
