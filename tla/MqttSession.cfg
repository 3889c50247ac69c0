SPECIFICATION SessionFairSpec
CONSTANTS
  None = None
  Own = "d1"
  Others = {"d2", "d3"}
  Granted = {"d2"}
  Paths <- SomePaths
  Filters <- SomeFilters
  Workers = {"w1", "w2"}
  CacheSize = 1
  MaxPackets = 2
  MaxChanges = 1
INVARIANTS GoodbyeIsFinal CacheHoldsLastAnswer InboxMatchesCommands TopicsAreRight
PROPERTY EndsCleanly
CHECK_DEADLOCK FALSE
