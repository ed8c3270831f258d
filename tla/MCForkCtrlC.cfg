\* Ctrl-C between the two answers to CMD_FORK, and the next clone() of the fork.
SPECIFICATION Spec
CONSTANTS
  MaxSockets = 5
  Total = 2
  MaxInterrupts = 2
  None = None
INVARIANT
  AnswersAsExpected
