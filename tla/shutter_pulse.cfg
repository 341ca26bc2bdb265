SPECIFICATION FairSpec
CONSTANTS
  Travel = 2
  ImpulseTime = 1
  ReversePause = 1
  StopBoth = FALSE
  Nudges <- Tiny
  MaxOrphans = 1
  MaxRestarts = 1
INVARIANTS
  TypeOK RelayIsPulsed
PROPERTIES
  PositionIsEarned MotorHalts
