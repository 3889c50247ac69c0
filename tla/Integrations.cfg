SPECIFICATION FairSpec
CONSTANTS
  None = None
  Log <- SomeLog
  Groups = {"g", "m1"}
  Streams = {"s1", "s2", "w1"}
  MqttStreams = {"s1", "s2"}
  Clients = {"w1"}
  Sessions = {"m1"}
  Topics <- SomeTopics
  MaxFaults = 1
  Deployments <- SomeDeployments
  Devices <- SomeDevices
  Gateways <- SomeGateways
INVARIANTS AtLeastOnce CommandsReachTargets
PROPERTIES EventsArrive ConnectionsAndStreamsEnd
CHECK_DEADLOCK FALSE
