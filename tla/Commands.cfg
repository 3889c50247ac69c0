SPECIFICATION FairSpec
CONSTANTS
  gw = gw
  d1 = d1
  inboxAll = inboxAll
  inboxDevice = inboxDevice
  request = request
  NoDevice = NoDevice
  Filter <- MCFilter
  Accepts <- MCAccepts
  Addresses <- GatewayAddresses
  Subscribers = {inboxAll, request}
  Waiters = {request}
  Names = {"set", "get"}
  Capacity = 1
  MaxCommands = 3
INVARIANTS EachOnceInOrder AudienceServed
PROPERTY OnlyLeaversBlock
