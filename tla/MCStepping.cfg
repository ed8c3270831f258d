\* Where the commands that step over and out of calls end.
SPECIFICATION FairSpec
CONSTANTS
  Total = 4
  Threads <- MCThreads
  Beginnings <- MCBeginnings
  FirstNew = 4
  Shapes <- MCShapes
  MaxMarks = 1
INVARIANT
  TypeOK
PROPERTIES
  NextLands
  BackLands
  FinishLands
  ThreadLands
  LoopsEnd
