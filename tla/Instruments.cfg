CONSTANTS
  Settings = {1, 2}
  ReadsToReconnect = 1
  PortCommands = 1
  PortTroubles = 3
  Acquired = 2
  Count = 2
  Commands = 4
  Restarts = 1
  ScanTroubles = 1
  Slow = {thermometers, gauges}
  Fast = {pressures}
  Patience = 2
  MaxReadings = 2
  Params = {"010", "309"}
  MaxAge = 4
  Listening = 3
  MaxPause = 2
  Switches = 2
  Garbled = 1
SPECIFICATION Spec
INVARIANTS AnnouncedAsSaved PendingKeepsUp HandedOnce ClosedUnderNobody
PROPERTIES OkMeansHeld CommandsEnd ScanEnds ShownAsHeard
CHECK_DEADLOCK FALSE
