CONSTANTS
  LimitValues <- MCLimitValues
  RuleReadings <- MCReadings
  pmain = pmain
  Channels = {pmain}
  Hysteresis = 10
  Readings = {50, 150}
  BadQualities = {"quality=error"}
  Configs <- MCConfigs
  StalenessSeverity = "major"
  StaleAfter = 1
  MinRepeat = 1
  MaxSilence = 0
  NOTIFY_QUEUE_MAX = 1
  MaxFaults = 1
SPECIFICATION BothSpec
INVARIANT WorstLimitReported
PROPERTIES ClearsPastMargin SilenceIsNoticed LeftoverIsWithdrawn
