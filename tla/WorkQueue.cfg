SPECIFICATION FairSpec
CONSTANTS
  k1 = k1
  k2 = k2
  k3 = k3
  i1 = i1
  Keys = {k1, k2, k3}
  Unparsable = {k3}
  Instances = {i1}
  Delays = {0, 1}
  Skews <- NoSkew
  MAX_RETRIES = 0
  NoRow = NoRow
  Horizon = 2
  MaxTime = 4
  MaxRev = 20
INVARIANTS NoLostWork WorkKeptUntilAcked
PROPERTIES  EveryAddIsFetched
