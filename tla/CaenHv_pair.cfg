CONSTANTS
  anode = anode
  cathode = cathode
  Channels = {anode, cathode}
  FLAG_CONFIRM_READS = 2
  COLLAPSE_CONFIRM_READS = 3
  EchoDepth = 1
  MaxFaults = 1
  MaxEvents = 2
  MaxCommands = 1
  MaxRestarts = 0
SPECIFICATION OneLifeSpec
PROPERTIES ClearedWhenUnloaded OldEvidenceLatchesByARace
SYMMETRY Interchangeable
