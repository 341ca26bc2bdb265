SPECIFICATION DevicesFairSpec
CONSTANTS
  Parts = {"shutter", "smart", "light", "dimmer", "thermostat", "scenario",
           "button"}
  Travel = 3
  ImpulseTime = 0
  ReversePause = 1
  StopBoth = TRUE
  Nudges <- ShortNudge
  MaxOrphans = 0
  MaxRestarts = 1
  TimeUp = 2
  TimeDown = 3
  SmartPause = 1
  Targets <- Places
  Percents <- Distances
  SmartNudges = {1}
  MaxPauses = 1
  Impulses <- Patterns
  Reactions <- HouseRules
  Top = 3
  HoldDelay = 1
  HoldPeriod = 2
  DimImpulses <- Patterns
  DimSteps = {2}
  MinOn = 1
  MinOff = 2
  PutBack = 1
  PutBackMax = 2
  Lag = 1
  Slow = {"cool"}
  Climates <- Seasons
  MaxMeddles = 1
  MaxFailures = 1
  Definitions <- SmallScenarios
  Window = 2
  ResetDelay = 1
  MaxPresses = 3
  MaxRepeats = 1
  MaxWait = 3
INVARIANTS
  DevicesTypeOK RelaysAreTimed PositionIsTrue
  RelaysFollowSens NeverBothLeftOn LightsEndAsAsked NeverBothOn ScenarioKeepsTime
  ButtonsTellPresses
PROPERTIES
  TheyComeToRest ShortPressToggles LockOutsKept DemandIsServed
CHECK_DEADLOCK FALSE
