\* Level 0 is programmed by software that waits, level 1 at any moment.
CONSTANTS
  Levels = {0, 1}
  Events <- MCEvents
  Modes = {2, 6, 7}
  Cost = 1
  Waits = {0}
SPECIFICATION Spec
INVARIANT OneTransfer
PROPERTY EndPerCountdown
