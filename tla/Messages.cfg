CONSTANTS
  Publishers = {main_loop, staleness}
  BufferDepth = 2
  MaxMessages = 2
  MaxOutages = 2
  Clients = {operator1, operator2}
  Inboxes = {web_inbox}
  HomeOf <- OneInbox
  Targets = {anode, cathode}
  Depth = 2
  MaxAsked <- ThreeAndOne
  Channels = {anode}
  Savers = {form1, form2}
  Limits = {1, 2}
  MaxSaves = 3
  MaxTroubles = 2
  Processes = {p1, p2, p3}
  Operators = {shell1, shell2}
  MaxOrders = 4
  MaxKills = 1
SPECIFICATION AllSpec
INVARIANTS NothingVanishes MixUpsHaveACause EverybodyFollows
  OneInstance
PROPERTIES ImplementsChannel
CHECK_DEADLOCK FALSE
