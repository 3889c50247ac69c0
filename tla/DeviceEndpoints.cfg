SPECIFICATION Spec
CONSTANTS
  None = None
  Registries <- SomeRegistries
  Changes <- SomeChanges
  Connections <- SomeConnections
  Requests <- SomeRequests
  Webs <- SomeWebs
  CheckKafka = TRUE
  MaxChanges = 2
  MaxRequests = 2
INVARIANTS  AnswersAreTrue  
CHECK_DEADLOCK FALSE
