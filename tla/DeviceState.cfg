SPECIFICATION MCSpec
CONSTANTS
  s1 = s1
  s2 = s2
  t1 = t1
  t2 = t2
  Sessions = {s1, s2}
  Devices = {"d"}
  Tokens = {t1, t2}
  None = None
  StateAttempts = 1
  RetryDeletes = 1
INVARIANTS ConnectionOwnsState ConnectedIsLastEvent
PROPERTIES LostIsNoticed DeadStatesArePruned
CHECK_DEADLOCK FALSE
