CONSTANTS
  anode = anode
  cathode = cathode
  Channels = {anode}
  FLAG_CONFIRM_READS = 2
  COLLAPSE_CONFIRM_READS = 3
  EchoDepth = 2
  MaxFaults = 0
  MaxEvents = 1
  MaxCommands = 1
  MaxRestarts = 0
SPECIFICATION Spec
PROPERTY LatchedCannotBeTurnedOn
CHECK_DEADLOCK FALSE
