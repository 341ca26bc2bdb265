SPECIFICATION Spec
CONSTANTS
  Travel = 4
  ImpulseTime = 0
  ReversePause = 2
  StopBoth = TRUE
  Nudges <- ShortOnly
  MaxOrphans = 0
  MaxRestarts = 0
INVARIANTS
  StopHolds
