SPECIFICATION FairSpec
CONSTANTS
  gw = gw
  d1 = d1
  inboxAll = inboxAll
  inboxDevice = inboxDevice
  request = request
  NoDevice = NoDevice
  Filter <- MCFilter
  Accepts <- MCAccepts
  Addresses <- GatewayAddresses
  Subscribers = {request, inboxAll}
  Waiters = {request}
  Names = {"set"}
  Capacity = 1
  MaxCommands = 4
PROPERTY DispatcherNeverStuck
