SPECIFICATION SmartSpec
CONSTANTS
  TimeUp = 3
  TimeDown = 2
  SmartPause = 1
  Targets = {3, 8}
  Percents = {2}
  SmartNudges = {1}
  MaxPauses = 1
PROPERTIES
  StopStops
CHECK_DEADLOCK FALSE
