CONSTANTS
  Channels = {anode}
  FLAG_CONFIRM_READS = 2
  COLLAPSE_CONFIRM_READS = 3
  EchoDepth = 2
  MaxFaults = 1
  MaxEvents = 2
  MaxCommands = 1
  MaxRestarts = 1
  Supplies = {"hv_1", "hv_2"}
  Ports = {"COM4", "COM5"}
  RelinkWait = 2
  Moves = 4
  Glitches = 1
  LinkCommands = 1
SPECIFICATION ServiceSpec
INVARIANTS RecordsAgree WrongOnlyByARace
PROPERTIES TripIsAnswered DisabledIsUnloaded PluggedIsRead
