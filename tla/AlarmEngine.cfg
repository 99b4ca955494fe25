CONSTANTS
  ln2_mass = ln2_mass
  Channels = {ln2_mass}
  Hysteresis = 2
  Readings <- AllReadings
  BadQualities = {"quality=error", "quality=stale"}
  Configs <- MCConfigs
  StalenessSeverity = "major"
  StaleAfter = 1
  MinRepeat = 2
  MaxSilence = 1
  NOTIFY_QUEUE_MAX = 1
  MaxFaults = 1
SPECIFICATION Spec
INVARIANTS RetainedAgrees StaleFlagIsTheAlarm AckNeverCoversWorse ReloadLeavesNoGhost
PROPERTY RepeatsAreEarned
