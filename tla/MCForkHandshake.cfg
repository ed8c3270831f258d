\* clone() with Ctrl-C between any two messages.
SPECIFICATION FairSpec
CONSTANTS
  MaxSockets = 5
  Total = 2
  None = None
  MaxInterrupts = 3
INVARIANTS
  TypeOK
  ActiveInSync
  ForksApart
PROPERTIES
  OnlyCutForksFail
  CommandsEnd
