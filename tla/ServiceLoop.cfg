CONSTANTS
  Channels = {vset, stat}
  Flags = {stat}
  Interval = 1
  LogInterval = 2
  MaxBackoff = 4
  MaxChanges = 2
  MaxTroubles = 2
SPECIFICATION FairSpec
PROPERTIES OnlyUnconfirmedOrRacingWritesMix RecoveryIsShown SilenceIsShown
CHECK_DEADLOCK FALSE
