CONSTANTS
  lakeshore = lakeshore
  alarms = alarms
  Services = {lakeshore, alarms}
  WithChannel = {lakeshore}
  Limit = 3
  BeatEvery = 2
  Horizon = 7
SPECIFICATION Spec
INVARIANT SilenceIsEvidence
